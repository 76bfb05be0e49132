------------------------ MODULE WebsocketServerProofs ------------------------
(***************************************************************************)
(* Proofs about WebsocketServer.  TypeInv is inductive on its own.         *)
(* LoopInv, which is inductive relative to TypeInv, gathers what the loop  *)
(* keeps of clients_, of the epoll registrations, of the send queues and   *)
(* of main.cpp's set; the properties follow from it.                       *)
(*                                                                         *)
(* The actions fall into few shapes, and each shape has one proof: Closing *)
(* (the four that delete a client), Answer (input that queues at most one  *)
(* message), the handshake, the two outputs, epoll_wait, accept, the peers.*)
(***************************************************************************)
EXTENDS WebsocketServer, SequenceTheorems, FiniteSetTheorems, WellFoundedInduction,
  TLAPS

(* time_wheel_id_ is set only while add_task has filed a task for the     *)
(* client, which only a client that has sent CLOSE does.                  *)
TimerHasTask == \A c \in Conns : timer[c] => waitClose[c] /\ tasks[c] > 0

(* The inductive form of TypeOK: the count of filed tasks that an         *)
(* erase_task decrements is not zero.                                     *)
TypeInv == TypeOK /\ TimerHasTask

(* What epoll reports is a set of events.                                 *)
LEMMA ReventsType == \A f : Revents(f) \in SUBSET Events
BY DEF Revents, Pollable, Events

(* The least element of a set of numbers is one of them.                  *)
LEMMA MinIn ==
  ASSUME NEW S \in SUBSET Nat, S # {}
  PROVE  Min(S) \in S
<1> DEFINE upTo == {0 .. i : i \in S}
<1>1. upTo \subseteq FiniteSubsetsOf(Nat)
  <2>1. \A i \in S : IsFiniteSet(0 .. i)
    BY FS_Interval
  <2> QED
    BY <2>1 DEF FiniteSubsetsOf
<1>2. PICK X \in upTo : \A Y \in upTo : <<Y, X>> \notin StrictSubsetOrdering(Nat)
  <2>1. upTo # {}
    OBVIOUS
  <2> HIDE DEF upTo
  <2> QED
    BY <1>1, <2>1, WFMin, FS_StrictSubsetOrderingWellFounded
<1>3. PICK i \in S : X = 0 .. i
  OBVIOUS
<1>4. ASSUME NEW j \in S, j < i PROVE FALSE
  <2>1. (0 .. j) \subseteq Nat /\ (0 .. i) \subseteq Nat
    OBVIOUS
  <2>2. (0 .. j) \subseteq (0 .. i) /\ (0 .. j) # (0 .. i)
    BY <1>4
  <2>3. <<0 .. j, 0 .. i>> \in StrictSubsetOrdering(Nat)
    BY <2>1, <2>2 DEF StrictSubsetOrdering
  <2> QED
    BY <1>2, <1>3, <2>3
<1>5. \A j \in S : i <= j
  BY <1>4
<1> QED
  BY <1>5 DEF Min

(* The frames that decode_websocket_data_frame joins are units of the     *)
(* buffer.                                                                *)
LEMMA JoinedType ==
  ASSUME NEW m \in Seq(Unit)
  PROVE  Joined(m) \in Seq(Unit)
<1> DEFINE finished == {i \in DOMAIN m : m[i].kind # "frag"}
<1>1. CASE finished = {}
  BY <1>1 DEF Joined
<1>2. CASE finished # {}
  <2>1. Min(finished) \in 1 .. Len(m)
    <3>1. DOMAIN m = 1 .. Len(m) /\ Len(m) \in Nat
      BY LenProperties
    <3>2. finished \subseteq DOMAIN m
      BY Zenon
    <3> HIDE DEF finished
    <3>3. finished \in SUBSET Nat
      BY <3>1, <3>2
    <3>4. Min(finished) \in finished
      BY <1>2, <3>3, MinIn
    <3> QED
      BY <3>1, <3>2, <3>4
  <2>2. SubSeq(m, 1, Min(finished)) \in Seq(Unit)
    <3> DEFINE k == Min(finished)
    <3>1. k \in 1 .. Len(m)
      BY <2>1
    <3> HIDE DEF k
    <3>2. \A i \in 1 .. k : m[i] \in Unit
      BY <3>1
    <3>3. SubSeq(m, 1, k) \in Seq(Unit)
      BY <3>1, <3>2, SubSeqProperties
    <3> QED
      BY <3>3 DEF k
  <2> QED
    BY <1>2, <2>2 DEF Joined
<1> QED
  BY <1>1, <1>2

(* The state that init_tcp_server leaves has its types.                   *)
LEMMA InitType == Init => TypeInv
BY SocketAssumption
   DEF Init, SockInit, TypeInv, TypeOK, SockTypeOK, TimerHasTask, Fds, Events, Msgs

USE SocketAssumption DEF SockTypeOK, TypeOK, TypeInv, TimerHasTask

(* The shape of most input: the units are read and at most one message is *)
(* queued for the same client, never a handshake response, and an         *)
(* application message only to a connected client.                        *)
Answer(c) ==
  /\ Received(c)
  /\ UNCHANGED <<clients, st, registry>>
  /\ \/ NoSend
     \/ \E msg \in Msgs \ {"101"} :
          /\ SendBuffer({c}, msg)
          /\ msg \in {"hello", "echo"} => st[c] = "CONNECTED"

(* The receive callback echoes, or is not called before CONNECTED.        *)
LEMMA CallbackAnswers ==
  ASSUME NEW c \in Conns, NEW msg, Received(c), Callback(c, msg),
         UNCHANGED <<clients, st, registry>>
  PROVE  Answer(c)
<1>1. CASE st[c] = "CONNECTED"
  <2>1. SendBuffer({c}, "echo")
    BY <1>1 DEF Callback
  <2> QED
    BY <1>1, <2>1 DEF Answer, Msgs
<1>2. CASE st[c] # "CONNECTED"
  <2>1. NoSend
    BY <1>2 DEF Callback
  <2> QED
    BY <2>1 DEF Answer
<1> QED
  BY <1>1, <1>2

(* Ten of the branches of decode_proto_data have the shape Answer.        *)
LEMMA InputIsAnswer ==
  ASSUME NEW c \in Conns,
         \/ RecvNotHttp(c) \/ RecvShort(c) \/ RecvCloseReply(c) \/ RecvPong(c)
         \/ RecvPing(c) \/ RecvIgnored(c) \/ RecvMessage(c) \/ RecvBadMessage(c)
         \/ RecvFragments(c) \/ RecvOther(c)
  PROVE  Answer(c)
<1>1. CASE RecvNotHttp(c)
  BY <1>1 DEF RecvNotHttp, Answer, Msgs
<1>2. CASE RecvShort(c)
  BY <1>2 DEF RecvShort, Answer, Msgs
<1>3. CASE RecvCloseReply(c)
  BY <1>3 DEF RecvCloseReply, Answer
<1>4. CASE RecvPong(c)
  BY <1>4 DEF RecvPong, Answer
<1>5. CASE RecvPing(c)
  BY <1>5 DEF RecvPing, Answer, Msgs
<1>6. CASE RecvIgnored(c)
  BY <1>6 DEF RecvIgnored, Answer
<1>7. CASE RecvMessage(c)
  BY <1>7, CallbackAnswers DEF RecvMessage
<1>8. CASE RecvBadMessage(c)
  BY <1>8 DEF RecvBadMessage, Answer, Msgs
<1>9. CASE RecvFragments(c)
  BY <1>9 DEF RecvFragments, Answer, Msgs
<1>10. CASE RecvOther(c)
  BY <1>10, CallbackAnswers DEF RecvOther
<1> QED
  BY <1>1, <1>2, <1>3, <1>4, <1>5, <1>6, <1>7, <1>8, <1>9, <1>10

(* The shape of the events that delete their client: close_client.        *)
Closing(c) == Handled(c) /\ c \in clients /\ CloseClient(c)

(* Hang-up, end of file, CLOSE and a failed send all call close_client.   *)
LEMMA CloseIsClosing ==
  ASSUME NEW c \in Conns,
         HandleHup(c) \/ RecvEof(c) \/ RecvClose(c) \/ HandleSendError(c)
  PROVE  Closing(c)
BY DEF HandleHup, RecvEof, RecvClose, HandleSendError, Closing
-----------------------------------------------------------------------------
(* send_buffer queues a message and changes registrations within type.    *)
LEMMA SendBufferType ==
  ASSUME TypeInv, NEW S \in SUBSET Conns, NEW msg \in Msgs, SendBuffer(S, msg)
  PROVE  /\ q' \in [Conns -> Seq(Msgs)]
         /\ interest' \in [Fds -> SUBSET Events]
         /\ ready' \in SUBSET Fds
BY DEF SendBuffer, Rearm, Fds, Events, InterestSend

(* Reading until EAGAIN keeps the types of the sockets.                   *)
LEMMA ReceivedType ==
  ASSUME TypeInv, NEW c \in Conns, Received(c)
  PROVE  /\ sock' \in [Conns -> {"idle", "pending", "open", "closed"}]
         /\ backlog' \in Seq(Conns)
         /\ inbuf' \in [Conns -> Seq(Unit)]
         /\ peer' \in [Conns -> {"up", "fin", "rst"}]
         /\ full' \in [Conns -> BOOLEAN]
         /\ sent' \in [Conns -> 0 .. MaxUnits]
         /\ batch' \in [Fds -> SUBSET Events]
BY DEF Received, Handled, Fds

(* Input of the shape Answer keeps the types it can disturb.              *)
LEMMA AnswerType ==
  ASSUME TypeInv, NEW c \in Conns, Answer(c)
  PROVE  /\ SockTypeOK'
         /\ batch' \in [Fds -> SUBSET Events]
         /\ q' \in [Conns -> Seq(Msgs)]
         /\ UNCHANGED <<clients, st, registry>>
<1>1. CASE NoSend
  BY <1>1, ReceivedType DEF Answer, NoSend
<1>2. ASSUME NEW msg \in Msgs, SendBuffer({c}, msg)
      PROVE  /\ q' \in [Conns -> Seq(Msgs)]
             /\ interest' \in [Fds -> SUBSET Events]
             /\ ready' \in SUBSET Fds
  BY <1>2, SendBufferType
<1> QED
  BY <1>1, <1>2, ReceivedType DEF Answer

(* The receive callback keeps decode_buffer_ and lastMsg within type.     *)
LEMMA CallbackType ==
  ASSUME TypeInv, NEW c \in Conns, NEW msg \in Seq(Unit), Callback(c, msg)
  PROVE  /\ dbuf' \in [Conns -> Seq(Unit)]
         /\ lastMsg' \in [Conns -> 0 .. MaxUnits]
<1>1. ASSUME msg # <<>> PROVE Last(msg).n \in 0 .. MaxUnits
  <2>1. msg[Len(msg)] \in Unit
    BY <1>1
  <2> QED
    BY <2>1 DEF Last, Unit
<1>2. CASE st[c] = "CONNECTED"
  <2>1. /\ dbuf' = [dbuf EXCEPT ![c] = <<>>]
        /\ lastMsg' = [lastMsg EXCEPT ![c] = IF msg = <<>> THEN @ ELSE Last(msg).n]
    BY <1>2 DEF Callback
  <2> QED
    BY <1>1, <2>1
<1>3. CASE st[c] # "CONNECTED"
  <2>1. dbuf' = [dbuf EXCEPT ![c] = msg] /\ lastMsg' = lastMsg
    BY <1>3 DEF Callback
  <2> QED
    BY <2>1
<1> QED
  BY <1>2, <1>3

(* Whatever the scans find and emplace keeps.                             *)
LEMMA HeadersType ==
  ASSUME TypeInv, NEW c \in Conns
  PROVE  \A k : \A h \in Headers(k) : KeptHeaders(c, h) \in {"none", "good", "bad"}
<1>1. \A k : \/ Headers(k) = {"good"} \/ Headers(k) = {"bad"} \/ Headers(k) = {"none"}
             \/ Headers(k) = {"none", "good", "bad"}
  BY DEF Headers
<1>2. ASSUME NEW k, NEW h \in Headers(k) PROVE h \in {"none", "good", "bad"}
  <2>1. h \in {"good"} \/ h \in {"bad"} \/ h \in {"none"} \/ h \in {"none", "good", "bad"}
    BY <1>1
  <2> QED
    BY <2>1
<1>3. hdr[c] \in {"none", "good", "bad"}
  OBVIOUS
<1> QED
  BY <1>2, <1>3 DEF KeptHeaders

(* Every branch of decode_proto_data that keeps its client preserves      *)
(* TypeInv, the count of filed tasks included.                            *)
LEMMA InputType ==
  ASSUME TypeInv, NEW c \in Conns,
         \/ RecvNotHttp(c) \/ RecvShort(c) \/ RecvCloseReply(c) \/ RecvPong(c)
         \/ RecvPing(c) \/ RecvIgnored(c) \/ RecvMessage(c) \/ RecvBadMessage(c)
         \/ RecvFragments(c) \/ RecvOther(c)
  PROVE  TypeInv'
<1>1. /\ SockTypeOK'
      /\ batch' \in [Fds -> SUBSET Events]
      /\ q' \in [Conns -> Seq(Msgs)]
      /\ UNCHANGED <<clients, st, registry>>
  BY InputIsAnswer, AnswerType
<1> DEFINE Rest ==
      /\ waitClose' \in [Conns -> BOOLEAN]
      /\ timer' \in [Conns -> BOOLEAN]
      /\ hdr' \in [Conns -> {"none", "good", "bad"}]
      /\ dbuf' \in [Conns -> Seq(Unit)]
      /\ tasks' \in [Conns -> Nat]
      /\ lastMsg' \in [Conns -> 0 .. MaxUnits]
      /\ lost' \in [Conns -> BOOLEAN]
      /\ mem' \in {"ok", "useAfterFree", "overRead"}
      /\ \A d \in Conns : timer'[d] => waitClose'[d] /\ tasks'[d] > 0
<1> SUFFICES Rest
  BY <1>1
<1>2. CASE RecvNotHttp(c)
  <2>1. hdr' \in [Conns -> {"none", "good", "bad"}]
    BY <1>2, HeadersType DEF RecvNotHttp
  <2> QED
    BY <1>2, <2>1 DEF RecvNotHttp
<1>3. CASE RecvShort(c)
  BY <1>3 DEF RecvShort, ghostVars
<1>4. CASE RecvCloseReply(c)
  BY <1>4 DEF RecvCloseReply, ghostVars
<1>5. CASE RecvPong(c)
  BY <1>5 DEF RecvPong, ghostVars
<1>6. CASE RecvPing(c)
  BY <1>6 DEF RecvPing, ghostVars
<1>7. CASE RecvIgnored(c)
  BY <1>7 DEF RecvIgnored, ghostVars
<1>8. CASE RecvMessage(c)
  <2>1. dbuf[c] \o Joined(inbuf[c]) \in Seq(Unit)
    BY JoinedType
  <2>2. Callback(c, dbuf[c] \o Joined(inbuf[c]))
    BY <1>8 DEF RecvMessage
  <2> QED
    BY <1>8, <2>1, <2>2, CallbackType DEF RecvMessage
<1>9. CASE RecvBadMessage(c)
  <2> DEFINE frames == Joined(inbuf[c])
  <2>1. frames \in Seq(Unit)
    BY JoinedType
  <2> HIDE DEF frames
  <2>2. SubSeq(frames, 1, Len(frames) - 1) \in Seq(Unit)
    BY <2>1
  <2>3. \/ dbuf' = [dbuf EXCEPT ![c] = @ \o SubSeq(frames, 1, Len(frames) - 1)]
        \/ dbuf' = [dbuf EXCEPT ![c] = @ \o frames]
    BY <1>9 DEF RecvBadMessage, frames
  <2>4. \E u \in Seq(Unit) : dbuf' = [dbuf EXCEPT ![c] = @ \o u]
    BY <2>1, <2>2, <2>3
  <2>5. \A u \in Seq(Unit) : dbuf[c] \o u \in Seq(Unit)
    BY ConcatProperties
  <2>6. dbuf' \in [Conns -> Seq(Unit)]
    BY <2>4, <2>5
  <2> QED
    BY <1>9, <2>6 DEF RecvBadMessage, ghostVars
<1>10. CASE RecvFragments(c)
  BY <1>10 DEF RecvFragments
<1>11. CASE RecvOther(c)
  BY <1>11, CallbackType DEF RecvOther
<1> QED
  BY <1>2, <1>3, <1>4, <1>5, <1>6, <1>7, <1>8, <1>9, <1>10, <1>11

-----------------------------------------------------------------------------
(* close_client, with the erase_task of the destructor, preserves         *)
(* TypeInv.                                                               *)
LEMMA ClosingType ==
  ASSUME TypeInv, NEW c \in Conns,
         HandleHup(c) \/ RecvEof(c) \/ RecvClose(c) \/ HandleSendError(c)
  PROVE  TypeInv'
<1>1. Handled(c) /\ CloseClient(c)
  BY CloseIsClosing DEF Closing
<1>2. SockTypeOK'
  BY <1>1 DEF CloseClient, CloseSocket, Fds
<1>3. /\ tasks' \in [Conns -> Nat]
      /\ \A d \in Conns : timer'[d] => waitClose'[d] /\ tasks'[d] > 0
  BY <1>1 DEF CloseClient, DeleteClient
<1>4. /\ mem' \in {"ok", "useAfterFree", "overRead"}
      /\ UNCHANGED <<lastMsg, lost>>
  BY DEF HandleHup, RecvEof, RecvClose, HandleSendError, ghostVars
<1> QED
  BY <1>1, <1>2, <1>3, <1>4 DEF CloseClient, DeleteClient, Handled, Fds

(* A new batch holds sets of events.                                      *)
LEMMA EpollWaitType == TypeInv /\ EpollWait => TypeInv'
BY ReventsType DEF EpollWait, clientVars, ghostVars

(* accept moves one connection from the queue to clients_.                *)
LEMMA HandleAcceptType == TypeInv /\ HandleAccept => TypeInv'
<1> SUFFICES ASSUME TypeInv, HandleAccept PROVE TypeInv'
  OBVIOUS
<1>1. Head(backlog) \in Conns /\ Tail(backlog) \in Seq(Conns)
  BY HeadTailProperties DEF HandleAccept
<1>2. ready' \in SUBSET Fds
  BY <1>1 DEF HandleAccept, Rearm, Fds
<1> QED
  BY <1>1, <1>2 DEF HandleAccept, Handled, ghostVars, Fds, Events

(* An accept that fails uses up its event.                                *)
LEMMA AcceptFailsType == TypeInv /\ HandleAcceptFails => TypeInv'
BY DEF HandleAcceptFails, Handled, sockVars, clientVars, ghostVars, Fds

(* The handshake preserves TypeInv.                                       *)
LEMMA RecvShakeType ==
  ASSUME TypeInv, NEW c \in Conns, RecvShake(c)
  PROVE  TypeInv'
<1>1. /\ q' \in [Conns -> Seq(Msgs)]
      /\ interest' \in [Fds -> SUBSET Events]
      /\ ready' \in SUBSET Fds
  BY SendBufferType DEF RecvShake, Msgs
<1>2. /\ hdr' \in [Conns -> {"none", "good", "bad"}]
      /\ st' \in [Conns -> {"NONE", "WAIT_SHAKE", "CONNECTED"}]
  <2>1. PICK h \in Headers(First(c)) :
          /\ hdr' = [hdr EXCEPT ![c] = KeptHeaders(c, h)]
          /\ st' = st \/ st' = [st EXCEPT ![c] = "WAIT_SHAKE"]
    BY DEF RecvShake
  <2>2. KeptHeaders(c, h) \in {"none", "good", "bad"}
    BY HeadersType
  <2> QED
    BY <2>1, <2>2
<1>3. Received(c)
  BY DEF RecvShake
<1> QED
  BY <1>1, <1>2, <1>3, ReceivedType DEF RecvShake, ghostVars

(* The output branch and sent_f_ preserve TypeInv.                        *)
LEMMA OutputType ==
  ASSUME TypeInv, NEW c \in Conns, HandleSend(c) \/ HandleSendShake(c)
  PROVE  TypeInv'
<1>1. Flush(c)
  BY DEF HandleSend, HandleSendShake
<1>2. /\ full' \in [Conns -> BOOLEAN]
      /\ lost' \in [Conns -> BOOLEAN]
      /\ batch' \in [Fds -> SUBSET Events]
      /\ UNCHANGED <<sock, backlog, inbuf, peer, sent>>
  BY <1>1 DEF Flush, Handled, Fds
<1>3. CASE HandleSend(c)
  <2>1. q' \in [Conns -> Seq(Msgs)]
    BY <1>3 DEF HandleSend
  <2>2. interest' \in [Fds -> SUBSET Events] /\ ready' \in SUBSET Fds
    BY <1>3 DEF HandleSend, Rearm, InterestIdle, Fds, Events
  <2> QED
    BY <1>2, <1>3, <2>1, <2>2 DEF HandleSend
<1>4. CASE HandleSendShake(c)
  <2>1. q' \in [Conns -> Seq(Msgs)]
    BY <1>4 DEF HandleSendShake, Msgs
  <2>2. interest' \in [Fds -> SUBSET Events] /\ ready' \in SUBSET Fds
    BY <1>4 DEF HandleSendShake, Rearm, InterestSend, Fds, Events
  <2> QED
    BY <1>2, <1>4, <2>1, <2>2 DEF HandleSendShake
<1> QED
  BY <1>3, <1>4

(* So do the peers.                                                       *)
LEMMA WorldType == TypeInv /\ World => TypeInv'
<1> SUFFICES ASSUME TypeInv, World PROVE TypeInv'
  OBVIOUS
<1>1. SockTypeOK'
  <2>1. PICK c \in Conns :
          \/ PeerConnect(c)
          \/ \E k \in Kinds : PeerSend(c, k)
          \/ PeerFin(c)
          \/ PeerRst(c)
          \/ PeerDrain(c)
    BY DEF World, Peers
  <2>2. CASE PeerConnect(c)
    BY <2>2 DEF PeerConnect, Wake, Fds
  <2>3. ASSUME NEW k \in Kinds, PeerSend(c, k) PROVE SockTypeOK'
    <3>1. [kind |-> k, n |-> sent[c] + 1] \in Unit
      BY <2>3 DEF PeerSend, Unit
    <3> QED
      BY <2>3, <3>1 DEF PeerSend, Wake, Fds
  <2>4. CASE PeerFin(c)
    BY <2>4 DEF PeerFin, Wake, Fds
  <2>5. CASE PeerRst(c)
    BY <2>5 DEF PeerRst, Wake, Fds
  <2>6. CASE PeerDrain(c)
    BY <2>6 DEF PeerDrain, Fds
  <2> QED
    BY <2>1, <2>2, <2>3, <2>4, <2>5, <2>6
<1> QED
  BY <1>1 DEF World, clientVars, ghostVars

(* TypeInv is inductive.                                                  *)
LEMMA NextType == TypeInv /\ [Next]_vars => TypeInv'
<1> SUFFICES ASSUME TypeInv, [Next]_vars PROVE TypeInv'
  OBVIOUS
<1>1. CASE EpollWait
  BY <1>1, EpollWaitType
<1>2. CASE HandleAccept \/ HandleAcceptFails
  BY <1>2, HandleAcceptType, AcceptFailsType
<1>3. ASSUME NEW c \in Conns, HandleHup(c) \/ HandleSendError(c) PROVE TypeInv'
  BY <1>3, ClosingType
<1>4. ASSUME NEW c \in Conns, HandleInput(c) PROVE TypeInv'
  BY <1>4, ClosingType, InputType, RecvShakeType DEF HandleInput
<1>5. ASSUME NEW c \in Conns, HandleSend(c) \/ HandleSendShake(c) PROVE TypeInv'
  BY <1>5, OutputType
<1>6. CASE World
  BY <1>6, WorldType
<1>7. CASE UNCHANGED vars
  BY <1>7 DEF vars, sockVars, clientVars, ghostVars
<1> QED
  BY <1>1, <1>2, <1>3, <1>4, <1>5, <1>6, <1>7 DEF Next, Loop

(* Every reachable state has its types; in particular the count of tasks  *)
(* filed in time_wheel never goes below zero, whatever PONG, CLOSE and    *)
(* hang-up a peer sends (remove_from_time_wheel and ~websocket_client).   *)
THEOREM TypeCorrect == Spec => []TypeOK
<1>1. TypeInv => TypeOK
  OBVIOUS
<1> QED
  BY InitType, NextType, <1>1, PTL DEF Spec

-----------------------------------------------------------------------------
(* The accept queue holds each waiting connection once.                   *)
BacklogPending ==
  \A i \in DOMAIN backlog :
    /\ sock[backlog[i]] = "pending"
    /\ \A j \in DOMAIN backlog : backlog[i] = backlog[j] => i = j

(* clients_ maps exactly the accepted descriptors that are not closed.    *)
ClientsOpen == clients = {c \in Conns : Open(c)}

(* Without a client object there is nothing of the connection left: no    *)
(* registration, no event, no queued data.                                *)
Dormant ==
  \A c \in Conns \ clients :
    /\ st[c] = "NONE"
    /\ q[c] = <<>>
    /\ interest[c] = {}
    /\ batch[c] = {}
    /\ c \notin ready

(* Every epoll_ctl of the program keeps the interest in input.            *)
Listens == \A c \in clients : "IN" \in interest[c]

(* The inductive invariant of the loop.                                   *)
LoopInv ==
  /\ BacklogPending
  /\ ClientsOpen
  /\ Dormant
  /\ Listens
  /\ PendingIsArmed
  /\ InputNotLost
  /\ RegistryExact
  /\ ShakeFirst

(* Nothing is in the empty queue.                                         *)
LEMMA EmptyToSet == ToSet(<<>>) = {}
BY DEF ToSet

(* What push does to a send queue.                                        *)
LEMMA AppendEffect ==
  ASSUME NEW s \in Seq(Msgs), NEW msg \in Msgs
  PROVE  Append(s, msg) # <<>> /\ ToSet(Append(s, msg)) = ToSet(s) \cup {msg}
BY AppendProperties DEF ToSet

(* What send_buffer does to the clients it is called for, and to the      *)
(* others.                                                                *)
LEMMA SendBufferEffect ==
  ASSUME TypeInv, NEW S \in SUBSET Conns, NEW msg \in Msgs, SendBuffer(S, msg)
  PROVE  /\ ready \subseteq ready' /\ ready' \subseteq ready \cup S
         /\ \A d \in S : /\ q'[d] # <<>>
                         /\ ToSet(q'[d]) = ToSet(q[d]) \cup {msg}
                         /\ interest'[d] = InterestSend
         /\ \A d \in Conns \ S : q'[d] = q[d] /\ interest'[d] = interest[d]
BY AppendEffect DEF SendBuffer, Rearm, Fds

(* What an Answer does to queues and registrations.                       *)
LEMMA AnswerEffect ==
  ASSUME TypeInv, NEW c \in Conns, Answer(c)
  PROVE  /\ ready \subseteq ready' /\ ready' \subseteq ready \cup {c}
         /\ \A d \in Conns \ {c} : q'[d] = q[d] /\ interest'[d] = interest[d]
         /\ \/ q'[c] = q[c] /\ interest'[c] = interest[c]
            \/ /\ q'[c] # <<>> /\ interest'[c] = InterestSend
               /\ \E msg \in Msgs \ {"101"} :
                    /\ ToSet(q'[c]) = ToSet(q[c]) \cup {msg}
                    /\ msg \in {"hello", "echo"} => st[c] = "CONNECTED"
<1>1. CASE NoSend
  BY <1>1 DEF NoSend
<1>2. CASE ~NoSend
  <2>1. PICK msg \in Msgs \ {"101"} :
          /\ SendBuffer({c}, msg)
          /\ msg \in {"hello", "echo"} => st[c] = "CONNECTED"
    BY <1>2 DEF Answer
  <2>2. /\ ready \subseteq ready' /\ ready' \subseteq ready \cup {c}
        /\ \A d \in {c} : /\ q'[d] # <<>>
                         /\ ToSet(q'[d]) = ToSet(q[d]) \cup {msg}
                         /\ interest'[d] = InterestSend
        /\ \A d \in Conns \ {c} : q'[d] = q[d] /\ interest'[d] = interest[d]
    <3>1. {c} \in SUBSET Conns /\ msg \in Msgs /\ SendBuffer({c}, msg)
      BY <2>1
    <3> HIDE DEF TypeInv
    <3> QED
      BY <3>1, SendBufferEffect, Zenon
  <2>3. \E m \in Msgs \ {"101"} :
          /\ ToSet(q'[c]) = ToSet(q[c]) \cup {m}
          /\ m \in {"hello", "echo"} => st[c] = "CONNECTED"
    BY <2>1, <2>2, Zenon
  <2> QED
    BY <2>2, <2>3
<1> QED
  BY <1>1, <1>2

(* Input of the shape Answer keeps LoopInv: the message it queues comes   *)
(* with EPOLLOUT, and the input that is read leaves no wakeup owed.       *)
LEMMA AnswerSafe ==
  ASSUME TypeInv, LoopInv, NEW c \in Conns, Answer(c)
  PROVE  LoopInv'
<1> USE DEF LoopInv
<1>1. /\ c \in clients
      /\ peer[c] = "up"
      /\ inbuf' = [inbuf EXCEPT ![c] = <<>>]
      /\ batch' = [batch EXCEPT ![c] = {}]
      /\ UNCHANGED <<clients, st, registry, sock, backlog, peer>>
  BY DEF Answer, Received, Handled
<1>2. /\ ready \subseteq ready' /\ ready' \subseteq ready \cup {c}
      /\ \A d \in Conns \ {c} : q'[d] = q[d] /\ interest'[d] = interest[d]
      /\ \/ q'[c] = q[c] /\ interest'[c] = interest[c]
         \/ q'[c] # <<>> /\ interest'[c] = InterestSend
  BY AnswerEffect
<1>3. BacklogPending'
  BY <1>1 DEF BacklogPending
<1>4. ClientsOpen'
  BY <1>1 DEF ClientsOpen, Open
<1>5. Dormant'
  BY <1>1, <1>2 DEF Dormant, Fds
<1>6. Listens'
  BY <1>1, <1>2 DEF Listens, InterestSend
<1>7. PendingIsArmed'
  BY <1>1, <1>2 DEF PendingIsArmed, InterestSend
<1>8. InputNotLost'
  BY <1>1, <1>2 DEF InputNotLost, Fds
<1>9. RegistryExact'
  BY <1>1 DEF RegistryExact
<1>10. ShakeFirst'
  <2>1. \A d \in Conns \ {c} : ToSet(q'[d]) = ToSet(q[d])
    BY <1>2
  <2>2. \/ ToSet(q'[c]) = ToSet(q[c])
        \/ \E msg \in Msgs \ {"101"} :
             /\ ToSet(q'[c]) = ToSet(q[c]) \cup {msg}
             /\ msg \in {"hello", "echo"} => st[c] = "CONNECTED"
    BY AnswerEffect
  <2>3. "101" \in ToSet(q'[c]) <=> "101" \in ToSet(q[c])
    BY <2>2
  <2>4. \/ ToSet(q'[c]) \cap {"hello", "echo"} = ToSet(q[c]) \cap {"hello", "echo"}
        \/ st[c] = "CONNECTED"
    BY <2>2
  <2>5. \A d \in clients :
          /\ st[d] = "WAIT_SHAKE" <=> "101" \in ToSet(q[d])
          /\ ToSet(q[d]) \cap {"hello", "echo"} # {} => st[d] = "CONNECTED"
    BY DEF ShakeFirst, Queued
  <2>6. ASSUME NEW d \in clients
        PROVE  /\ st[d] = "WAIT_SHAKE" <=> "101" \in ToSet(q'[d])
               /\ ToSet(q'[d]) \cap {"hello", "echo"} # {} => st[d] = "CONNECTED"
    <3>1. CASE d = c
      BY <1>1, <2>3, <2>4, <2>5, <3>1
    <3>2. CASE d # c
      BY <2>1, <2>5, <3>2
    <3> QED
      BY <3>1, <3>2
  <2> QED
    BY <1>1, <2>6 DEF ShakeFirst, Queued
<1> QED
  BY <1>3, <1>4, <1>5, <1>6, <1>7, <1>8, <1>9, <1>10

(* close_client keeps LoopInv: every trace of the client goes with it.    *)
LEMMA ClosingSafe ==
  ASSUME TypeInv, LoopInv, NEW c \in Conns, Closing(c)
  PROVE  LoopInv'
<1> USE DEF LoopInv
<1>1. /\ c \in clients
      /\ batch' = [batch EXCEPT ![c] = {}]
      /\ sock' = [sock EXCEPT ![c] = "closed"]
      /\ interest' = [interest EXCEPT ![c] = {}]
      /\ ready' = ready \ {c}
      /\ inbuf' = [inbuf EXCEPT ![c] = <<>>]
      /\ clients' = clients \ {c}
      /\ registry' = registry \ {c}
      /\ st' = [st EXCEPT ![c] = "NONE"]
      /\ q' = [q EXCEPT ![c] = <<>>]
      /\ UNCHANGED <<backlog, peer>>
  BY DEF Closing, Handled, CloseClient, CloseSocket, DeleteClient
<1>2. BacklogPending'
  <2>1. sock[c] # "pending"
    BY <1>1 DEF ClientsOpen, Open
  <2>2. \A i \in DOMAIN backlog : backlog[i] \in Conns /\ backlog[i] # c
    BY <2>1 DEF BacklogPending
  <2> QED
    BY <1>1, <2>2 DEF BacklogPending
<1>3. ClientsOpen'
  BY <1>1 DEF ClientsOpen, Open
<1>4. Dormant'
  BY <1>1 DEF Dormant, Fds
<1>5. Listens'
  BY <1>1 DEF Listens, Fds
<1>6. PendingIsArmed'
  BY <1>1 DEF PendingIsArmed, Fds
<1>7. InputNotLost'
  BY <1>1 DEF InputNotLost, Fds
<1>8. RegistryExact'
  BY <1>1 DEF RegistryExact
<1>9. ShakeFirst'
  BY <1>1 DEF ShakeFirst, Queued
<1> QED
  BY <1>2, <1>3, <1>4, <1>5, <1>6, <1>7, <1>8, <1>9

(* With an interest in input, epoll reports unread input or a hang-up.    *)
LEMMA ReventsIn ==
  ASSUME NEW c \in Conns, Listener \notin Conns, "IN" \in interest[c],
         inbuf[c] # <<>> \/ peer[c] # "up"
  PROVE  "IN" \in Revents(c)
BY DEF Revents, Pollable, Events

(* A batch takes over what the ready list owed.                           *)
LEMMA EpollWaitSafe == TypeInv /\ LoopInv /\ EpollWait => LoopInv'
<1> SUFFICES ASSUME TypeInv, LoopInv, EpollWait PROVE LoopInv'
  OBVIOUS
<1> USE DEF LoopInv
<1>1. /\ batch' = [f \in Fds |-> IF f \in ready THEN Revents(f) ELSE {}]
      /\ ready' = {}
      /\ \A f \in Fds : batch[f] = {}
      /\ UNCHANGED <<sock, backlog, inbuf, peer, interest, clients, st, q, registry>>
  BY DEF EpollWait, clientVars
<1>2. BacklogPending'
  BY <1>1 DEF BacklogPending
<1>3. ClientsOpen'
  BY <1>1 DEF ClientsOpen, Open
<1>4. Dormant'
  BY <1>1 DEF Dormant, Fds
<1>5. Listens'
  BY <1>1 DEF Listens
<1>6. PendingIsArmed'
  BY <1>1 DEF PendingIsArmed
<1>7. InputNotLost'
  <2> SUFFICES ASSUME NEW c \in clients, inbuf[c] # <<>> \/ peer[c] # "up"
               PROVE  batch'[c] \cap {"IN", "RDHUP", "HUP"} # {}
    BY <1>1 DEF InputNotLost
  <2>1. c \in ready
    BY <1>1 DEF InputNotLost, Fds
  <2>2. "IN" \in Revents(c)
    BY ReventsIn DEF Listens
  <2> QED
    BY <1>1, <2>1, <2>2 DEF Fds
<1>8. RegistryExact'
  BY <1>1 DEF RegistryExact
<1>9. ShakeFirst'
  BY <1>1 DEF ShakeFirst, Queued
<1> QED
  BY <1>2, <1>3, <1>4, <1>5, <1>6, <1>7, <1>8, <1>9

(* accept keeps LoopInv: input that arrived in the accept queue is        *)
(* reported once epoll_ctl adds the descriptor.                           *)
LEMMA HandleAcceptSafe == TypeInv /\ LoopInv /\ HandleAccept => LoopInv'
<1> SUFFICES ASSUME TypeInv, LoopInv, HandleAccept PROVE LoopInv'
  OBVIOUS
<1> USE DEF LoopInv
<1>1. PICK c \in Conns :
        /\ c = Head(backlog)
        /\ backlog # <<>>
        /\ backlog' = Tail(backlog)
        /\ batch' = [batch EXCEPT ![Listener] = {}]
        /\ sock' = [sock EXCEPT ![c] = "open"]
        /\ clients' = clients \cup {c}
        /\ interest' = [interest EXCEPT ![c] = {"IN"}]
        /\ ready' = Rearm({c}, ready)
        /\ UNCHANGED <<inbuf, peer, st, q, registry>>
  <2>1. Head(backlog) \in Conns
    BY HeadTailProperties DEF HandleAccept
  <2> QED
    BY <2>1 DEF HandleAccept, Handled
<1>2. /\ sock[c] = "pending"
      /\ \A i \in DOMAIN backlog' :
           /\ i \in Nat /\ i + 1 \in DOMAIN backlog
           /\ backlog'[i] = backlog[i + 1]
           /\ backlog'[i] \in Conns \ {c}
  <2>1. /\ backlog' \in Seq(Conns)
        /\ Len(backlog') = Len(backlog) - 1
        /\ \A i \in 1 .. Len(backlog') : backlog'[i] = backlog[i + 1]
    BY <1>1, HeadTailProperties
  <2>2. /\ DOMAIN backlog = 1 .. Len(backlog) /\ Len(backlog) \in Nat
        /\ DOMAIN backlog' = 1 .. Len(backlog')
    BY <2>1, LenProperties
  <2>3. c = backlog[1] /\ 1 \in DOMAIN backlog
    BY <1>1
  <2>4. ASSUME NEW i \in DOMAIN backlog'
        PROVE  /\ i \in Nat /\ i + 1 \in DOMAIN backlog /\ i + 1 # 1
               /\ backlog'[i] = backlog[i + 1]
    <3>1. i \in 1 .. Len(backlog) - 1
      BY <2>1, <2>2
    <3> HIDE DEF TypeInv
    <3> QED
      BY <2>1, <2>2, <3>1
  <2> QED
    BY <2>3, <2>4 DEF BacklogPending
<1>3. c \notin clients /\ c # Listener
  BY <1>2 DEF ClientsOpen, Open
<1>4. BacklogPending'
  <2>1. \A i \in DOMAIN backlog' : sock'[backlog'[i]] = "pending"
    BY <1>1, <1>2 DEF BacklogPending
  <2>2. \A i, j \in DOMAIN backlog' : backlog'[i] = backlog'[j] => i + 1 = j + 1
    BY <1>2 DEF BacklogPending
  <2>3. \A i, j \in DOMAIN backlog' : i + 1 = j + 1 => i = j
    BY <1>2
  <2> QED
    BY <2>1, <2>2, <2>3 DEF BacklogPending
<1>5. ClientsOpen'
  BY <1>1, <1>2 DEF ClientsOpen, Open
<1>6. Dormant'
  BY <1>1, <1>2, <1>3 DEF Dormant, Fds, Rearm
<1>7. Listens'
  BY <1>1, <1>2 DEF Listens, Fds
<1>8. PendingIsArmed'
  <2>1. q'[c] = <<>> /\ interest'[c] = {"IN"}
    BY <1>1, <1>3 DEF Dormant, Fds
  <2>2. \A d \in clients : q'[d] = q[d] /\ interest'[d] = interest[d]
    BY <1>1, <1>3 DEF Fds
  <2> QED
    BY <1>1, <2>1, <2>2, ~("OUT" \in {"IN"}) DEF PendingIsArmed
<1>9. InputNotLost'
  <2>1. \A d \in clients : d # Listener /\ batch'[d] = batch[d]
    BY <1>1 DEF Fds
  <2>2. ready \subseteq ready'
    BY <1>1 DEF Rearm
  <2>3. ASSUME inbuf'[c] # <<>> \/ peer'[c] # "up" PROVE c \in ready'
    <3>1. "IN" \in interest'[c]
      BY <1>1, <1>2 DEF Fds
    <3>2. "IN" \in Revents(c)'
      BY <1>2, <1>3, <2>3, <3>1 DEF Revents, Pollable, Events
    <3> QED
      BY <1>1, <3>2 DEF Rearm
  <2> QED
    BY <1>1, <2>1, <2>2, <2>3 DEF InputNotLost
<1>10. RegistryExact'
  BY <1>1, <1>2, <1>3 DEF RegistryExact, Dormant
<1>11. ShakeFirst'
  <2>1. q'[c] = <<>> /\ st'[c] = "NONE"
    BY <1>1, <1>3 DEF Dormant
  <2>2. /\ "101" \notin ToSet(q'[c]) /\ st'[c] # "WAIT_SHAKE"
        /\ ToSet(q'[c]) \cap {"hello", "echo"} = {}
    BY <2>1, EmptyToSet
  <2>3. \A d \in clients : q'[d] = q[d] /\ st'[d] = st[d]
    BY <1>1
  <2> QED
    BY <1>1, <2>2, <2>3 DEF ShakeFirst, Queued
<1> QED
  BY <1>4, <1>5, <1>6, <1>7, <1>8, <1>9, <1>10, <1>11

LEMMA AcceptFailsSafe == TypeInv /\ LoopInv /\ HandleAcceptFails => LoopInv'
<1> SUFFICES ASSUME TypeInv, LoopInv, HandleAcceptFails PROVE LoopInv'
  OBVIOUS
<1>1. \A c \in Conns : batch'[c] = batch[c]
  BY DEF HandleAcceptFails, Handled, Fds
<1>2. UNCHANGED <<sock, backlog, inbuf, peer, interest, ready, clients, st, q, registry>>
  BY DEF HandleAcceptFails, sockVars, clientVars
<1>3. BacklogPending' /\ ClientsOpen' /\ Listens'
  BY <1>2 DEF LoopInv, BacklogPending, ClientsOpen, Open, Listens
<1>4. Dormant'
  BY <1>1, <1>2 DEF LoopInv, Dormant
<1>5. InputNotLost'
  BY <1>1, <1>2 DEF LoopInv, InputNotLost
<1>6. PendingIsArmed' /\ RegistryExact' /\ ShakeFirst'
  BY <1>2 DEF LoopInv, PendingIsArmed, RegistryExact, ShakeFirst, Queued
<1> QED
  BY <1>3, <1>4, <1>5, <1>6 DEF LoopInv

(* The handshake keeps LoopInv: WAIT_SHAKE comes with the 101.            *)
LEMMA RecvShakeSafe ==
  ASSUME TypeInv, LoopInv, NEW c \in Conns, RecvShake(c)
  PROVE  LoopInv'
<1> USE DEF LoopInv
<1>1. /\ c \in clients
      /\ peer[c] = "up"
      /\ st[c] = "NONE"
      /\ inbuf' = [inbuf EXCEPT ![c] = <<>>]
      /\ batch' = [batch EXCEPT ![c] = {}]
      /\ UNCHANGED <<clients, registry, sock, backlog, peer>>
  BY DEF RecvShake, Received, Handled
<1>2. PICK msg \in Msgs \ {"hello", "echo"} :
        /\ SendBuffer({c}, msg)
        /\ \/ msg = "101" /\ st' = [st EXCEPT ![c] = "WAIT_SHAKE"]
           \/ msg # "101" /\ st' = st
  BY DEF RecvShake, Msgs
<1>3. /\ ready \subseteq ready' /\ ready' \subseteq ready \cup {c}
      /\ \A d \in {c} : /\ q'[d] # <<>>
                       /\ ToSet(q'[d]) = ToSet(q[d]) \cup {msg}
                       /\ interest'[d] = InterestSend
      /\ \A d \in Conns \ {c} : q'[d] = q[d] /\ interest'[d] = interest[d]
  <2>1. {c} \in SUBSET Conns /\ msg \in Msgs /\ SendBuffer({c}, msg)
    BY <1>2
  <2> HIDE DEF TypeInv
  <2> QED
    BY <2>1, SendBufferEffect, Zenon
<1>4. \A d \in Conns : st'[d] = "CONNECTED" <=> st[d] = "CONNECTED"
  BY <1>1, <1>2
<1>5. BacklogPending'
  BY <1>1 DEF BacklogPending
<1>6. ClientsOpen'
  BY <1>1 DEF ClientsOpen, Open
<1>7. Dormant'
  BY <1>1, <1>2, <1>3 DEF Dormant, Fds
<1>8. Listens'
  BY <1>1, <1>3 DEF Listens, InterestSend
<1>9. PendingIsArmed'
  BY <1>1, <1>3 DEF PendingIsArmed, InterestSend
<1>10. InputNotLost'
  BY <1>1, <1>3 DEF InputNotLost, Fds
<1>11. RegistryExact'
  BY <1>1, <1>4 DEF RegistryExact
<1>12. ShakeFirst'
  <2>1. \A d \in clients \ {c} : q'[d] = q[d] /\ st'[d] = st[d]
    BY <1>1, <1>2, <1>3
  <2>2. /\ "101" \notin ToSet(q[c])
        /\ ToSet(q[c]) \cap {"hello", "echo"} = {}
    BY <1>1 DEF ShakeFirst, Queued
  <2>3. /\ st'[c] = "WAIT_SHAKE" <=> msg = "101"
        /\ ToSet(q'[c]) = ToSet(q[c]) \cup {msg}
    BY <1>1, <1>2, <1>3
  <2>4. /\ st'[c] = "WAIT_SHAKE" <=> "101" \in ToSet(q'[c])
        /\ ToSet(q'[c]) \cap {"hello", "echo"} = {}
    BY <1>2, <2>2, <2>3
  <2> QED
    BY <1>1, <2>1, <2>4 DEF ShakeFirst, Queued
<1> QED
  BY <1>5, <1>6, <1>7, <1>8, <1>9, <1>10, <1>11, <1>12

(* The output branch withdraws no wakeup for input.                       *)
LEMMA OutputInput ==
  ASSUME TypeInv, LoopInv, NEW c \in Conns, Flush(c), ready \subseteq ready', UNCHANGED clients
  PROVE  InputNotLost'
<1>1. /\ batch[c] \cap {"IN", "RDHUP", "HUP"} = {}
      /\ batch' = [batch EXCEPT ![c] = {}]
      /\ UNCHANGED <<inbuf, peer>>
  <2>1. Branch(c) = "out"
    BY DEF Flush
  <2>2. batch[c] \cap {"HUP", "RDHUP"} = {} /\ "IN" \notin batch[c]
    BY <2>1 DEF Branch
  <2> QED
    BY <2>2 DEF Flush, Handled
<1> QED
  BY <1>1 DEF LoopInv, InputNotLost, Fds

(* The output branch empties the queue and withdraws EPOLLOUT together.   *)
LEMMA HandleSendSafe ==
  ASSUME TypeInv, LoopInv, NEW c \in Conns, HandleSend(c)
  PROVE  LoopInv'
<1> USE DEF LoopInv
<1>1. /\ c \in clients
      /\ st[c] # "WAIT_SHAKE"
      /\ q' = [q EXCEPT ![c] = <<>>]
      /\ interest' = [interest EXCEPT ![c] = InterestIdle]
      /\ ready \subseteq ready' /\ ready' \subseteq ready \cup {c}
      /\ batch' = [batch EXCEPT ![c] = {}]
      /\ UNCHANGED <<sock, backlog, inbuf, peer, clients, st, registry>>
  BY DEF HandleSend, Flush, Handled, Rearm
<1>2. BacklogPending'
  BY <1>1 DEF BacklogPending
<1>3. ClientsOpen'
  BY <1>1 DEF ClientsOpen, Open
<1>4. Dormant'
  BY <1>1 DEF Dormant, Fds
<1>5. Listens'
  BY <1>1 DEF Listens, InterestIdle, Fds
<1>6. PendingIsArmed'
  <2>1. q'[c] = <<>> /\ "OUT" \notin interest'[c]
    BY <1>1 DEF InterestIdle, Fds
  <2>2. \A d \in clients \ {c} : q'[d] = q[d] /\ interest'[d] = interest[d]
    BY <1>1 DEF Fds
  <2> QED
    BY <1>1, <2>1, <2>2 DEF PendingIsArmed
<1>7. InputNotLost'
  BY <1>1, OutputInput DEF HandleSend
<1>8. RegistryExact'
  BY <1>1 DEF RegistryExact
<1>9. ShakeFirst'
  <2>1. "101" \notin ToSet(q'[c]) /\ ToSet(q'[c]) \cap {"hello", "echo"} = {}
    BY <1>1, EmptyToSet
  <2>2. \A d \in clients \ {c} : q'[d] = q[d]
    BY <1>1
  <2> QED
    BY <1>1, <2>1, <2>2 DEF ShakeFirst, Queued
<1> QED
  BY <1>2, <1>3, <1>4, <1>5, <1>6, <1>7, <1>8, <1>9

(* The broadcast of the connected callback reaches live clients and       *)
(* leaves each of them, the new one included, with EPOLLOUT.              *)
LEMMA HandleSendShakeSafe ==
  ASSUME TypeInv, LoopInv, NEW c \in Conns, HandleSendShake(c)
  PROVE  LoopInv'
<1> USE DEF LoopInv
<1> DEFINE greeted == registry \cup {c}
<1>1. /\ c \in clients
      /\ st[c] = "WAIT_SHAKE"
      /\ st' = [st EXCEPT ![c] = "CONNECTED"]
      /\ registry' = greeted
      /\ ready \subseteq ready' /\ ready' \subseteq ready \cup greeted
      /\ batch' = [batch EXCEPT ![c] = {}]
      /\ UNCHANGED <<sock, backlog, inbuf, peer, clients>>
  BY DEF HandleSendShake, Flush, Handled, Rearm
<1>2. greeted \subseteq clients
  BY <1>1 DEF RegistryExact
<1>3. /\ \A d \in greeted : /\ q'[d] # <<>>
                           /\ "OUT" \in interest'[d] /\ "IN" \in interest'[d]
      /\ \A d \in Conns \ greeted : q'[d] = q[d] /\ interest'[d] = interest[d]
  <2>1. \A d \in Conns : Append(q[d], "hello") # <<>> /\ Append(<<>>, "hello") # <<>>
    <3>1. /\ "hello" \in Msgs /\ <<>> \in Seq(Msgs)
          /\ \A d \in Conns : q[d] \in Seq(Msgs)
      BY DEF Msgs
    <3> HIDE DEF TypeInv
    <3> QED
      BY <3>1, AppendEffect
  <2>2. \A d \in Conns : d \in Fds
    BY DEF Fds
  <2> QED
    BY <1>2, <2>1, <2>2 DEF HandleSendShake, InterestSend
<1>4. /\ ToSet(q'[c]) = {"hello"}
      /\ \A d \in registry \ {c} : ToSet(q'[d]) = ToSet(q[d]) \cup {"hello"}
  <2>1. /\ q'[c] = Append(<<>>, "hello")
        /\ \A d \in registry \ {c} : q'[d] = Append(q[d], "hello")
    BY <1>2 DEF HandleSendShake
  <2>2. /\ <<>> \in Seq(Msgs) /\ "hello" \in Msgs
        /\ \A d \in registry : q[d] \in Seq(Msgs)
    BY DEF Msgs
  <2> HIDE DEF TypeInv
  <2>3. \A d \in registry \ {c} : ToSet(q'[d]) = ToSet(q[d]) \cup {"hello"}
    BY <2>1, <2>2, AppendEffect
  <2>4. ToSet(q'[c]) = ToSet(<<>>) \cup {"hello"}
    BY <2>1, <2>2, AppendEffect
  <2> QED
    BY <2>3, <2>4, EmptyToSet
<1>5. BacklogPending'
  BY <1>1 DEF BacklogPending
<1>6. ClientsOpen'
  BY <1>1 DEF ClientsOpen, Open
<1>7. Dormant'
  <2> SUFFICES ASSUME NEW d \in Conns \ clients
               PROVE  /\ st'[d] = "NONE" /\ q'[d] = <<>> /\ interest'[d] = {}
                      /\ batch'[d] = {} /\ d \notin ready'
    BY <1>1 DEF Dormant
  <2>1. d \notin greeted /\ d # c
    BY <1>1, <1>2
  <2>2. /\ st[d] = "NONE" /\ q[d] = <<>> /\ interest[d] = {}
        /\ batch[d] = {} /\ d \notin ready
    BY DEF Dormant
  <2> QED
    BY <1>1, <1>3, <2>1, <2>2 DEF Fds
<1>8. Listens'
  BY <1>1, <1>2, <1>3 DEF Listens
<1>9. PendingIsArmed'
  BY <1>1, <1>2, <1>3 DEF PendingIsArmed
<1>10. InputNotLost'
  BY <1>1, OutputInput DEF HandleSendShake
<1>11. RegistryExact'
  BY <1>1 DEF RegistryExact
<1>12. ShakeFirst'
  <2>1. \A d \in registry : st[d] = "CONNECTED" /\ d \in clients /\ d # c
    BY <1>1 DEF RegistryExact
  <2>2. \A d \in clients \ greeted : ToSet(q'[d]) = ToSet(q[d]) /\ st'[d] = st[d]
    BY <1>1, <1>3
  <2>3. \A d \in greeted : "101" \notin ToSet(q'[d]) /\ st'[d] = "CONNECTED"
    <3>1. \A d \in registry : "101" \notin ToSet(q[d])
      BY <2>1 DEF ShakeFirst, Queued
    <3>2. ASSUME NEW d \in registry
          PROVE  "101" \notin ToSet(q'[d]) /\ st'[d] = "CONNECTED"
      <4>1. d # c /\ d \in Conns
        BY <2>1
      <4>2. st'[d] = "CONNECTED"
        BY <1>1, <2>1, <4>1
      <4> HIDE DEF TypeInv, LoopInv
      <4>3. "101" \notin ToSet(q[d]) \cup {"hello"}
        BY <3>1
      <4> QED
        BY <1>4, <4>1, <4>2, <4>3
    <3>3. "101" \notin ToSet(q'[c]) /\ st'[c] = "CONNECTED"
      BY <1>1, <1>4
    <3> QED
      BY <3>2, <3>3
  <2>4. \A d \in clients \ greeted :
          /\ st[d] = "WAIT_SHAKE" <=> "101" \in ToSet(q[d])
          /\ ToSet(q[d]) \cap {"hello", "echo"} # {} => st[d] = "CONNECTED"
    BY DEF ShakeFirst, Queued
  <2> HIDE DEF TypeInv, LoopInv, greeted
  <2>5. \A d \in clients :
          /\ st'[d] = "WAIT_SHAKE" <=> "101" \in ToSet(q'[d])
          /\ ToSet(q'[d]) \cap {"hello", "echo"} # {} => st'[d] = "CONNECTED"
    BY <2>2, <2>3, <2>4
  <2> QED
    BY <1>1, <2>5 DEF ShakeFirst, Queued
<1> QED
  BY <1>5, <1>6, <1>7, <1>8, <1>9, <1>10, <1>11, <1>12

(* The peers keep LoopInv: what they write or end is an edge.             *)
LEMMA WorldSafe == TypeInv /\ LoopInv /\ World => LoopInv'
<1> SUFFICES ASSUME TypeInv, LoopInv, World PROVE LoopInv'
  OBVIOUS
<1> USE DEF LoopInv
<1>1. UNCHANGED <<batch, clients, st, q, registry>>
  BY DEF World, clientVars
<1>2. PICK c \in Conns :
        \/ PeerConnect(c)
        \/ \E k \in Kinds : PeerSend(c, k)
        \/ PeerFin(c)
        \/ PeerRst(c)
        \/ PeerDrain(c)
  BY DEF World, Peers
<1>3. CASE PeerConnect(c)
  <2>1. /\ c \notin clients
        /\ \A i \in DOMAIN backlog : backlog[i] \in Conns \ {c}
    BY <1>3 DEF PeerConnect, ClientsOpen, Open, BacklogPending
  <2>2. /\ Len(backlog') = Len(backlog) + 1
        /\ \A i \in DOMAIN backlog' :
             i \in Nat /\ backlog'[i] = IF i \in DOMAIN backlog THEN backlog[i] ELSE c
        /\ \A i, j \in DOMAIN backlog' :
             i \in DOMAIN backlog \/ j \in DOMAIN backlog \/ i = j
    BY <1>3, AppendProperties DEF PeerConnect
  <2>3. BacklogPending'
    <3>1. sock' = [sock EXCEPT ![c] = "pending"] /\ c \in DOMAIN sock
      BY <1>3 DEF PeerConnect
    <3>2. \A i \in DOMAIN backlog : sock'[backlog[i]] = "pending"
      BY <2>1, <3>1 DEF BacklogPending
    <3>3. sock'[c] = "pending"
      BY <3>1
    <3>4. \A i \in DOMAIN backlog' : sock'[backlog'[i]] = "pending"
      BY <2>2, <3>2, <3>3, Zenon
    <3>5. ASSUME NEW i \in DOMAIN backlog', NEW j \in DOMAIN backlog',
                 backlog'[i] = backlog'[j]
          PROVE  i = j
      <4>1. CASE i \in DOMAIN backlog /\ j \in DOMAIN backlog
        BY <2>2, <3>5, <4>1 DEF BacklogPending
      <4>2. CASE ~(i \in DOMAIN backlog /\ j \in DOMAIN backlog)
        <5> HIDE DEF TypeInv, LoopInv
        <5> QED
          BY <2>1, <2>2, <3>5, <4>2
      <4> QED
        BY <4>1, <4>2
    <3> HIDE DEF TypeInv, LoopInv
    <3> QED
      BY <3>4, <3>5 DEF BacklogPending
  <2>4. ready \subseteq ready' /\ ready' \subseteq ready \cup {Listener}
    BY <1>3 DEF PeerConnect, Wake
  <2>5. ClientsOpen' /\ Dormant' /\ Listens'
    BY <1>1, <1>3, <2>1, <2>4 DEF PeerConnect, ClientsOpen, Open, Dormant, Listens
  <2> QED
    BY <1>1, <1>3, <2>3, <2>4, <2>5
       DEF PeerConnect, PendingIsArmed, InputNotLost, RegistryExact, ShakeFirst, Queued
<1>4. CASE ~PeerConnect(c)
  <2>1. /\ UNCHANGED <<sock, backlog, interest>>
        /\ ready \subseteq ready'
        /\ ready' \subseteq IF interest[c] # {} THEN ready \cup {c} ELSE ready
        /\ \A d \in Conns \ {c} : inbuf'[d] = inbuf[d] /\ peer'[d] = peer[d]
        /\ \/ inbuf'[c] = inbuf[c] /\ peer'[c] = peer[c]
           \/ interest[c] # {} => c \in ready'
    BY <1>2, <1>4 DEF PeerSend, PeerFin, PeerRst, PeerDrain, Wake
  <2>2. BacklogPending' /\ ClientsOpen' /\ Listens'
    BY <1>1, <2>1 DEF BacklogPending, ClientsOpen, Open, Listens
  <2>3. Dormant'
    <3>1. ASSUME NEW d \in Conns \ clients PROVE d \notin ready'
      <4>1. d \notin ready /\ interest[d] = {}
        BY DEF Dormant
      <4> HIDE DEF TypeInv, LoopInv
      <4>2. CASE d = c
        BY <2>1, <4>1, <4>2
      <4>3. CASE d # c
        BY <2>1, <4>1, <4>3
      <4> QED
        BY <4>2, <4>3
    <3> QED
      BY <1>1, <2>1, <3>1 DEF Dormant
  <2>4. InputNotLost'
    BY <1>1, <2>1 DEF InputNotLost, Listens
  <2> QED
    BY <1>1, <2>1, <2>2, <2>3, <2>4 DEF PendingIsArmed, RegistryExact, ShakeFirst, Queued
<1> QED
  BY <1>3, <1>4

(* LoopInv is about the state of the model only.                          *)
LEMMA StutterSafe == LoopInv /\ UNCHANGED vars => LoopInv'
BY DEF LoopInv, BacklogPending, ClientsOpen, Open, Dormant, Listens, PendingIsArmed,
       InputNotLost, RegistryExact, ShakeFirst, Queued, vars, sockVars, clientVars

(* LoopInv holds before the first epoll_wait.                             *)
LEMMA InitSafe == Init => LoopInv
BY DEF Init, SockInit, LoopInv, BacklogPending, ClientsOpen, Open, Dormant, Listens,
       PendingIsArmed, InputNotLost, RegistryExact, ShakeFirst, Queued, Fds

(* LoopInv is inductive relative to TypeInv.                              *)
LEMMA NextSafe == TypeInv /\ LoopInv /\ [Next]_vars => LoopInv'
<1> SUFFICES ASSUME TypeInv, LoopInv, [Next]_vars PROVE LoopInv'
  OBVIOUS
<1>1. CASE EpollWait
  BY <1>1, EpollWaitSafe
<1>2. CASE HandleAccept \/ HandleAcceptFails
  BY <1>2, HandleAcceptSafe, AcceptFailsSafe
<1>3. ASSUME NEW c \in Conns, HandleHup(c) \/ HandleSendError(c) PROVE LoopInv'
  BY <1>3, CloseIsClosing, ClosingSafe
<1>4. ASSUME NEW c \in Conns, HandleInput(c) PROVE LoopInv'
  <2>1. Closing(c) \/ Answer(c) \/ RecvShake(c)
    BY <1>4, CloseIsClosing, InputIsAnswer DEF HandleInput
  <2> QED
    BY <2>1, ClosingSafe, AnswerSafe, RecvShakeSafe
<1>5. ASSUME NEW c \in Conns, HandleSend(c) \/ HandleSendShake(c) PROVE LoopInv'
  BY <1>5, HandleSendSafe, HandleSendShakeSafe
<1>6. CASE World
  BY <1>6, WorldSafe
<1>7. CASE UNCHANGED vars
  BY <1>7, StutterSafe
<1> QED
  BY <1>1, <1>2, <1>3, <1>4, <1>5, <1>6, <1>7 DEF Next, Loop

(* The inductive invariant holds in every reachable state of start().     *)
THEOREM LoopCorrect == Spec => [](TypeInv /\ LoopInv)
BY InitType, NextType, InitSafe, NextSafe, PTL DEF Spec

-----------------------------------------------------------------------------
(* The properties of WebsocketServer, for any set of connections, any     *)
(* units, any faults and any number of units on a connection.             *)

(* EPOLLOUT is asked for exactly while send_buffer_queue_ is not empty    *)
(* (send_buffer, and the output branch of start).                         *)
THEOREM OutputArmed == Spec => []PendingIsArmed
<1>1. LoopInv => PendingIsArmed
  BY DEF LoopInv
<1> QED
  BY LoopCorrect, <1>1, PTL

(* No edge-triggered wakeup is lost: start() reads until EAGAIN, and no   *)
(* call it makes withdraws the interest in input.                         *)
THEOREM NoLostWakeup == Spec => []InputNotLost
<1>1. LoopInv => InputNotLost
  BY DEF LoopInv
<1> QED
  BY LoopCorrect, <1>1, PTL

(* wb_clients of main.cpp holds exactly the live connected clients: the   *)
(* callbacks of on_connected and of the destructor keep it so.            *)
THEOREM RegistryCorrect == Spec => []RegistryExact
<1>1. LoopInv => RegistryExact
  BY DEF LoopInv
<1> QED
  BY LoopCorrect, <1>1, PTL

(* The 101 response is in the queue exactly while the client is           *)
(* WAIT_SHAKE, and nothing of the application goes ahead of it            *)
(* (websocket_shake_hands and sent_f_).                                   *)
THEOREM HandshakeFirst == Spec => []ShakeFirst
<1>1. LoopInv => ShakeFirst
  BY DEF LoopInv
<1> QED
  BY LoopCorrect, <1>1, PTL

(* The lookups in clients_ that start() makes always succeed: no event,   *)
(* reported or pending, is of a descriptor whose client is gone.          *)
THEOREM EventsFound == Spec => []EventsFindClients
<1>1. LoopInv => EventsFindClients
  BY DEF LoopInv, ClientsOpen, Dormant, EventsFindClients
<1> QED
  BY LoopCorrect, <1>1, PTL

(* erase_task is only called for a filed task: PONG and the destructor    *)
(* test time_wheel_id_, which only a second CLOSE sets.                   *)
THEOREM TasksFiled == Spec => []ErasesFiledTask
<1>1. TypeInv => ErasesFiledTask
  BY DEF ErasesFiledTask
<1> QED
  BY LoopCorrect, <1>1, PTL

-----------------------------------------------------------------------------
(* HeadersDecide.  Who is past NONE has the right headers: they are kept   *)
(* when 101 is queued, and what is kept is never replaced.                 *)
HeadersInv == \A c \in clients : hdr[c] # "good" => st[c] = "NONE"

(* What a step does to the headers and the state of a client it leaves.   *)
HeadersStep(d) ==
  /\ hdr[d] = "bad" => hdr'[d] = "bad"
  /\ hdr'[d] # "good" => st'[d] = "NONE"

LEMMA HeadersUntouched ==
  ASSUME HeadersInv, UNCHANGED <<hdr, st>>, clients' \subseteq clients,
         NEW d \in clients'
  PROVE  HeadersStep(d)
BY DEF HeadersInv, HeadersStep

(* close_client takes its client out of clients_.                         *)
LEMMA ClosingHeaders ==
  ASSUME TypeInv, HeadersInv, NEW c \in Conns, Closing(c), NEW d \in clients'
  PROVE  HeadersStep(d)
BY DEF Closing, CloseClient, DeleteClient, HeadersInv, HeadersStep

(* Before the handshake: emplace adds, and 101 needs the right headers.   *)
LEMMA RequestHeaders ==
  ASSUME TypeInv, HeadersInv, NEW c \in Conns, RecvShake(c) \/ RecvNotHttp(c),
         NEW d \in clients'
  PROVE  HeadersStep(d)
<1>1. d \in clients /\ d \in Conns /\ st[c] = "NONE"
  BY DEF RecvShake, RecvNotHttp
<1>2. PICK h :
        /\ hdr' = [hdr EXCEPT ![c] = KeptHeaders(c, h)]
        /\ \/ st' = st
           \/ KeptHeaders(c, h) = "good" /\ st' = [st EXCEPT ![c] = "WAIT_SHAKE"]
  <2>1. CASE RecvShake(c)
    BY <2>1 DEF RecvShake
  <2>2. CASE RecvNotHttp(c)
    BY <2>2 DEF RecvNotHttp
  <2> QED
    BY <2>1, <2>2
<1>3. CASE d = c
  BY <1>1, <1>2, <1>3 DEF KeptHeaders, HeadersStep
<1>4. CASE d # c
  BY <1>1, <1>2, <1>4 DEF HeadersInv, HeadersStep
<1> QED
  BY <1>3, <1>4

(* Only a client whose 101 has been sent becomes CONNECTED.               *)
LEMMA OutputHeaders ==
  ASSUME TypeInv, HeadersInv, NEW c \in Conns, HandleSend(c) \/ HandleSendShake(c),
         NEW d \in clients'
  PROVE  HeadersStep(d)
<1>1. CASE HandleSend(c)
  BY <1>1, HeadersUntouched DEF HandleSend
<1>2. CASE HandleSendShake(c)
  <2>1. /\ c \in clients /\ st[c] = "WAIT_SHAKE"
        /\ st' = [st EXCEPT ![c] = "CONNECTED"] /\ UNCHANGED <<clients, hdr>>
    BY <1>2 DEF HandleSendShake, Flush
  <2> QED
    BY <2>1 DEF HeadersInv, HeadersStep
<1> QED
  BY <1>1, <1>2

LEMMA NextHeaders ==
  ASSUME TypeInv, LoopInv, HeadersInv, [Next]_vars, NEW d \in clients'
  PROVE  HeadersStep(d)
<1>1. CASE EpollWait \/ HandleAcceptFails \/ World \/ UNCHANGED vars
  <2>1. UNCHANGED <<clients, hdr, st>>
    BY <1>1 DEF EpollWait, HandleAcceptFails, World, vars, clientVars
  <2> QED
    BY <2>1, HeadersUntouched
<1>2. CASE HandleAccept
  <2>1. /\ clients' = clients \cup {Head(backlog)} /\ UNCHANGED <<hdr, st>>
        /\ Head(backlog) \in Conns
    BY <1>2, HeadTailProperties DEF HandleAccept
  <2>2. d \in clients \/ st[d] = "NONE"
    BY <2>1 DEF LoopInv, Dormant
  <2> QED
    BY <2>1, <2>2 DEF HeadersInv, HeadersStep
<1>3. ASSUME NEW c \in Conns, HandleHup(c) \/ HandleSendError(c) PROVE HeadersStep(d)
  BY <1>3, CloseIsClosing, ClosingHeaders
<1>4. ASSUME NEW c \in Conns, HandleInput(c) PROVE HeadersStep(d)
  <2>1. CASE RecvEof(c) \/ RecvClose(c)
    BY <2>1, CloseIsClosing, ClosingHeaders
  <2>2. CASE RecvShake(c) \/ RecvNotHttp(c)
    BY <2>2, RequestHeaders
  <2>3. CASE \/ RecvShort(c) \/ RecvCloseReply(c) \/ RecvPong(c) \/ RecvPing(c)
             \/ RecvIgnored(c) \/ RecvMessage(c) \/ RecvBadMessage(c)
             \/ RecvFragments(c) \/ RecvOther(c)
    <3>1. UNCHANGED <<clients, hdr, st>>
      BY <2>3 DEF RecvShort, RecvCloseReply, RecvPong, RecvPing, RecvIgnored,
                  RecvMessage, RecvBadMessage, RecvFragments, RecvOther
    <3> QED
      BY <3>1, HeadersUntouched
  <2> QED
    BY <1>4, <2>1, <2>2, <2>3 DEF HandleInput
<1>5. ASSUME NEW c \in Conns, HandleSend(c) \/ HandleSendShake(c) PROVE HeadersStep(d)
  BY <1>5, OutputHeaders
<1> QED
  BY <1>1, <1>2, <1>3, <1>4, <1>5 DEF Next, Loop

(* The first upgrade headers of a connection decide for its life: no later *)
(* request replaces wrong ones, and 101 is queued only with right ones     *)
(* (http_header_.emplace in decode_http_header, websocket_shake_hands).    *)
THEOREM HeadersCorrect == Spec => HeadersDecide
<1>1. Init => HeadersInv
  BY DEF Init, HeadersInv
<1>2. TypeInv /\ LoopInv /\ HeadersInv /\ [Next]_vars => HeadersInv'
  BY NextHeaders DEF HeadersInv, HeadersStep
<1>3. TypeInv /\ LoopInv /\ LoopInv' /\ HeadersInv /\ [Next]_vars
        => \A c \in clients' :
             /\ hdr[c] = "bad" => hdr'[c] = "bad"
             /\ hdr'[c] # "good" => st'[c] = "NONE" /\ "101" \notin Queued(c)'
  <2> SUFFICES ASSUME TypeInv, LoopInv, LoopInv', HeadersInv, [Next]_vars,
                      NEW c \in clients'
               PROVE  /\ hdr[c] = "bad" => hdr'[c] = "bad"
                      /\ hdr'[c] # "good"
                           => st'[c] = "NONE" /\ "101" \notin Queued(c)'
    OBVIOUS
  <2>1. HeadersStep(c)
    BY NextHeaders
  <2>2. st'[c] = "NONE" => "101" \notin Queued(c)'
    BY DEF LoopInv, ShakeFirst, Queued
  <2> QED
    BY <2>1, <2>2 DEF HeadersStep
<1> QED
  BY <1>1, <1>2, <1>3, LoopCorrect, PTL DEF Spec, HeadersDecide

-----------------------------------------------------------------------------
(* EventsHaveCause.  What an event reported can only be taken away by the  *)
(* handler of that event: handlers of other descriptors read no input of   *)
(* this one, fill no send buffer of it, and only add to its queue.         *)

(* The effect of a handler, seen from the descriptors it does not handle. *)
Spares(c) ==
  /\ batch' = [batch EXCEPT ![c] = {}]
  /\ backlog' = backlog
  /\ clients' \subseteq clients
  /\ \A d \in Conns \ {c} :
       /\ inbuf'[d] = inbuf[d] /\ peer'[d] = peer[d] /\ full'[d] = full[d]
       /\ q[d] # <<>> => q'[d] # <<>>

LEMMA SparedCause ==
  ASSUME TypeInv, EventsHaveCause, NEW c \in Conns, Spares(c)
  PROVE  EventsHaveCause'
<1>1. batch'[Listener] # {} => backlog' # <<>>
  BY DEF EventsHaveCause, Spares, Fds
<1>2. ASSUME NEW d \in clients'
      PROVE  /\ "IN" \in batch'[d] => inbuf'[d] # <<>> \/ peer'[d] # "up"
             /\ "OUT" \in batch'[d] => q'[d] # <<>> /\ ~full'[d]
             /\ batch'[d] \cap {"HUP", "RDHUP"} # {} => peer'[d] # "up"
  <2>1. CASE d = c
    BY <2>1 DEF Spares, Fds
  <2>2. CASE d # c
    <3>1. /\ d \in clients /\ d \in Conns
          /\ batch'[d] = batch[d]
      BY <1>2, <2>2 DEF Spares, Fds
    <3> QED
      BY <2>2, <3>1 DEF Spares, EventsHaveCause
  <2> QED
    BY <2>1, <2>2
<1> QED
  BY <1>1, <1>2 DEF EventsHaveCause

(* Deleting a client, answering one, flushing one: each spares the others.*)
LEMMA ClosingSpares ==
  ASSUME TypeInv, NEW c \in Conns, Closing(c)
  PROVE  Spares(c)
BY DEF Closing, Handled, CloseClient, CloseSocket, DeleteClient, Spares

LEMMA AnswerSpares ==
  ASSUME TypeInv, NEW c \in Conns, Answer(c)
  PROVE  Spares(c)
<1>1. \A d \in Conns \ {c} : q'[d] = q[d]
  BY AnswerEffect
<1> QED
  BY <1>1 DEF Answer, Received, Handled, Spares

LEMMA ShakeSpares ==
  ASSUME TypeInv, NEW c \in Conns, RecvShake(c)
  PROVE  Spares(c)
<1>1. \A d \in Conns \ {c} : q'[d] = q[d]
  BY DEF RecvShake, SendBuffer
<1> QED
  BY <1>1 DEF RecvShake, Received, Handled, Spares

LEMMA OutputSpares ==
  ASSUME TypeInv, NEW c \in Conns, HandleSend(c) \/ HandleSendShake(c)
  PROVE  Spares(c)
<1>1. Flush(c) /\ UNCHANGED clients
  BY DEF HandleSend, HandleSendShake
<1>2. \A d \in Conns \ {c} : q[d] # <<>> => q'[d] # <<>>
  <2>1. CASE HandleSend(c)
    BY <2>1 DEF HandleSend
  <2>2. CASE HandleSendShake(c)
    <3>1. \A d \in Conns : Append(q[d], "hello") # <<>>
      <4>1. "hello" \in Msgs /\ \A d \in Conns : q[d] \in Seq(Msgs)
        BY DEF Msgs
      <4> HIDE DEF TypeInv
      <4> QED
        BY <4>1, AppendEffect
    <3> QED
      BY <2>2, <3>1 DEF HandleSendShake
  <2> QED
    BY <2>1, <2>2
<1> QED
  BY <1>1, <1>2 DEF Flush, Handled, Spares

(* epoll_wait reports an event because of its cause: output is polled only *)
(* while the queue is not empty (PendingIsArmed).                          *)
LEMMA EpollWaitCause == TypeInv /\ LoopInv /\ EpollWait => EventsHaveCause'
<1> SUFFICES ASSUME TypeInv, LoopInv, EpollWait PROVE EventsHaveCause'
  OBVIOUS
<1>1. /\ batch' = [f \in Fds |-> IF f \in ready THEN Revents(f) ELSE {}]
      /\ UNCHANGED <<backlog, inbuf, peer, full, interest, clients, q>>
  BY DEF EpollWait, clientVars
<1>2. batch'[Listener] # {} => backlog # <<>>
  BY <1>1 DEF Revents, Pollable, Fds
<1>3. ASSUME NEW c \in clients
      PROVE  /\ "IN" \in batch'[c] => inbuf[c] # <<>> \/ peer[c] # "up"
             /\ "OUT" \in batch'[c] => q[c] # <<>> /\ ~full[c]
             /\ batch'[c] \cap {"HUP", "RDHUP"} # {} => peer[c] # "up"
  <2>1. c \in Fds /\ c # Listener
    BY DEF Fds
  <2>2. /\ "IN" \in Revents(c) => inbuf[c] # <<>> \/ peer[c] # "up"
        /\ "OUT" \in Revents(c) => "OUT" \in interest[c] /\ ~full[c]
        /\ Revents(c) \cap {"HUP", "RDHUP"} # {} => peer[c] # "up"
    BY <2>1 DEF Revents, Pollable
  <2>3. "OUT" \in interest[c] => q[c] # <<>>
    BY DEF LoopInv, PendingIsArmed
  <2> QED
    BY <1>1, <2>1, <2>2, <2>3
<1> QED
  BY <1>1, <1>2, <1>3 DEF EventsHaveCause

(* The new client of accept has no event in the batch.                    *)
LEMMA AcceptCause ==
  TypeInv /\ LoopInv /\ EventsHaveCause /\ HandleAccept => EventsHaveCause'
<1> SUFFICES ASSUME TypeInv, LoopInv, EventsHaveCause, HandleAccept
             PROVE  EventsHaveCause'
  OBVIOUS
<1>1. PICK c \in Conns :
        /\ c = Head(backlog)
        /\ batch' = [batch EXCEPT ![Listener] = {}]
        /\ clients' = clients \cup {c}
        /\ UNCHANGED <<inbuf, peer, full, q>>
  <2>1. Head(backlog) \in Conns
    BY HeadTailProperties DEF HandleAccept
  <2> QED
    BY <2>1 DEF HandleAccept, Handled
<1>2. batch'[Listener] = {} /\ \A d \in Conns : batch'[d] = batch[d]
  BY <1>1 DEF Fds
<1>3. c \in clients \/ batch[c] = {}
  BY DEF LoopInv, Dormant
<1>4. ASSUME NEW d \in clients'
      PROVE  /\ "IN" \in batch'[d] => inbuf'[d] # <<>> \/ peer'[d] # "up"
             /\ "OUT" \in batch'[d] => q'[d] # <<>> /\ ~full'[d]
             /\ batch'[d] \cap {"HUP", "RDHUP"} # {} => peer'[d] # "up"
  <2>1. d \in clients \/ batch[d] = {}
    BY <1>1, <1>3
  <2>2. batch'[d] = batch[d]
    BY <1>1, <1>2
  <2> QED
    BY <1>1, <2>1, <2>2 DEF EventsHaveCause
<1> QED
  BY <1>2, <1>4 DEF EventsHaveCause

LEMMA AcceptFailsCause ==
  TypeInv /\ EventsHaveCause /\ HandleAcceptFails => EventsHaveCause'
<1> SUFFICES ASSUME TypeInv, EventsHaveCause, HandleAcceptFails
             PROVE  EventsHaveCause'
  OBVIOUS
<1>1. batch'[Listener] = {} /\ \A c \in Conns : batch'[c] = batch[c]
  BY DEF HandleAcceptFails, Handled, Fds
<1>2. UNCHANGED <<backlog, inbuf, peer, full, clients, q>>
  BY DEF HandleAcceptFails, sockVars, clientVars
<1> QED
  BY <1>1, <1>2 DEF EventsHaveCause

LEMMA AppendNotEmpty ==
  ASSUME NEW T, NEW s \in Seq(T), NEW e \in T
  PROVE  Append(s, e) # <<>>
BY AppendProperties

(* The peers only add causes: a hang-up is never taken back, and a send    *)
(* buffer that a peer touches has drained.                                 *)
LEMMA WorldCause == TypeInv /\ EventsHaveCause /\ World => EventsHaveCause'
<1> SUFFICES ASSUME TypeInv, EventsHaveCause, World PROVE EventsHaveCause'
  OBVIOUS
<1>1. UNCHANGED <<batch, clients, q>>
  BY DEF World, clientVars
<1>2. PICK c \in Conns :
        \/ PeerConnect(c)
        \/ \E k \in Kinds : PeerSend(c, k)
        \/ PeerFin(c)
        \/ PeerRst(c)
        \/ PeerDrain(c)
  BY DEF World, Peers
<1>3. /\ backlog # <<>> => backlog' # <<>>
      /\ \A d \in Conns : /\ inbuf[d] # <<>> => inbuf'[d] # <<>>
                          /\ peer[d] # "up" => peer'[d] # "up"
                          /\ ~full[d] => ~full'[d]
  <2>1. CASE PeerConnect(c)
    <3>1. backlog' = Append(backlog, c) /\ backlog \in Seq(Conns)
      BY <2>1 DEF PeerConnect
    <3>2. backlog' # <<>>
      BY <3>1, AppendNotEmpty, Zenon
    <3> QED
      BY <2>1, <3>2 DEF PeerConnect
  <2>2. ASSUME NEW k \in Kinds, PeerSend(c, k)
        PROVE  \A d \in Conns : inbuf[d] # <<>> => inbuf'[d] # <<>>
    <3>1. PICK u : inbuf' = [inbuf EXCEPT ![c] = Append(@, u)] /\ u \in Unit
      <4>1. [kind |-> k, n |-> sent[c] + 1] \in Unit
        BY <2>2 DEF PeerSend, Unit
      <4> QED
        BY <2>2, <4>1 DEF PeerSend
    <3>2. Append(inbuf[c], u) # <<>>
      <4>1. inbuf[c] \in Seq(Unit)
        OBVIOUS
      <4> QED
        BY <3>1, <4>1, AppendNotEmpty, Zenon
    <3> QED
      BY <3>1, <3>2
  <2>3. ASSUME NEW k \in Kinds, PeerSend(c, k)
        PROVE  UNCHANGED <<backlog, peer, full>>
    BY <2>3 DEF PeerSend
  <2>4. CASE PeerFin(c)
    BY <2>4 DEF PeerFin
  <2>5. CASE PeerRst(c)
    BY <2>5 DEF PeerRst
  <2>6. CASE PeerDrain(c)
    BY <2>6 DEF PeerDrain
  <2> QED
    BY <1>2, <2>1, <2>2, <2>3, <2>4, <2>5, <2>6
<1> QED
  BY <1>1, <1>3 DEF EventsHaveCause

(* No handler of start() is called for nothing: what epoll_wait reported   *)
(* still holds when the loop comes to the event, behind the events before  *)
(* it in the batch and whatever the peers have done (tcp_server.cpp's      *)
(* start, handle_accept, and its recv and send loops).                     *)
THEOREM CausesRemain == Spec => []EventsHaveCause
<1>1. Init => EventsHaveCause
  BY DEF Init, EventsHaveCause, Fds
<1>2. TypeInv /\ LoopInv /\ EventsHaveCause /\ [Next]_vars => EventsHaveCause'
  <2> SUFFICES ASSUME TypeInv, LoopInv, EventsHaveCause, [Next]_vars
               PROVE  EventsHaveCause'
    OBVIOUS
  <2>1. CASE EpollWait
    BY <2>1, EpollWaitCause
  <2>2. CASE HandleAccept \/ HandleAcceptFails
    BY <2>2, AcceptCause, AcceptFailsCause
  <2>3. ASSUME NEW c \in Conns, HandleHup(c) \/ HandleSendError(c)
        PROVE  EventsHaveCause'
    BY <2>3, CloseIsClosing, ClosingSpares, SparedCause
  <2>4. ASSUME NEW c \in Conns, HandleInput(c) PROVE EventsHaveCause'
    <3>1. Closing(c) \/ Answer(c) \/ RecvShake(c)
      BY <2>4, CloseIsClosing, InputIsAnswer DEF HandleInput
    <3>2. Spares(c)
      BY <3>1, ClosingSpares, AnswerSpares, ShakeSpares
    <3> QED
      BY <3>2, SparedCause
  <2>5. ASSUME NEW c \in Conns, HandleSend(c) \/ HandleSendShake(c)
        PROVE  EventsHaveCause'
    BY <2>5, OutputSpares, SparedCause
  <2>6. CASE World
    BY <2>6, WorldCause
  <2>7. CASE UNCHANGED vars
    BY <2>7 DEF EventsHaveCause, vars, sockVars, clientVars
  <2> QED
    BY <2>1, <2>2, <2>3, <2>4, <2>5, <2>6, <2>7 DEF Next, Loop
<1> QED
  BY <1>1, <1>2, LoopCorrect, PTL DEF Spec

-----------------------------------------------------------------------------
HIDE SocketAssumption DEF SockTypeOK, TypeOK, TypeInv, TimerHasTask

(* InOrderOnce.  What is on its way to the receive callback is one stream: *)
(* decode_buffer_ and behind it the unread input.  Each step of the loop   *)
(* either leaves the stream of a connection alone, or reads all input and  *)
(* keeps a prefix of the stream in decode_buffer_, or hands over a prefix  *)
(* and keeps nothing; a peer appends to it.                                *)

(* The units of s are ascending and lie in (lo, hi].                      *)
Ascending(s, lo, hi) ==
  \A i \in 1 .. Len(s) :
    /\ lo < s[i].n
    /\ s[i].n <= hi
    /\ \A j \in 1 .. Len(s) : i < j => s[i].n < s[j].n

Stream(c) == dbuf[c] \o inbuf[c]

OrderInv ==
  \A c \in Conns :
    /\ lastMsg[c] <= sent[c]
    /\ Ascending(Stream(c), lastMsg[c], sent[c])

(* What is left of s when the rest is dropped.                            *)
Prefix(p, s) ==
  /\ Len(p) <= Len(s)
  /\ \A i \in 1 .. Len(p) : p[i] = s[i]

LEMMA ConcatUnits ==
  ASSUME NEW s \in Seq(Unit), NEW t \in Seq(Unit)
  PROVE  /\ s \o t \in Seq(Unit)
         /\ Len(s \o t) = Len(s) + Len(t)
         /\ \A i \in 1 .. Len(s) + Len(t) :
              (s \o t)[i] = IF i <= Len(s) THEN s[i] ELSE t[i - Len(s)]
BY ConcatProperties

LEMMA EmptyPrefix ==
  ASSUME NEW s \in Seq(Unit)
  PROVE  Prefix(<<>>, s) /\ Len(<<>>) = 0 /\ <<>> \in Seq(Unit)
BY DEF Prefix

(* The frames that are joined, and all of them but the last, are a prefix *)
(* of the buffer.                                                         *)
LEMMA JoinedPrefix ==
  ASSUME NEW m \in Seq(Unit)
  PROVE  Prefix(Joined(m), m) /\ Prefix(SubSeq(Joined(m), 1, Len(Joined(m)) - 1), m)
<1>1. ASSUME NEW s \in Seq(Unit), NEW k \in 0 .. Len(s)
      PROVE  Len(SubSeq(s, 1, k)) = k /\ Prefix(SubSeq(s, 1, k), s)
  <2>1. Len(SubSeq(s, 1, k)) = k /\ \A i \in 1 .. k : SubSeq(s, 1, k)[i] = s[i]
    BY SubSeqProperties
  <2> QED
    BY <2>1 DEF Prefix
<1> DEFINE finished == {i \in DOMAIN m : m[i].kind # "frag"}
<1>2. Joined(m) = m \/ \E k \in 0 .. Len(m) : Joined(m) = SubSeq(m, 1, k)
  <2>1. CASE finished = {}
    BY <2>1 DEF Joined
  <2>2. CASE finished # {}
    <3>1. Joined(m) = SubSeq(m, 1, Min(finished))
      BY <2>2 DEF Joined
    <3>2. finished \subseteq 1 .. Len(m)
      BY LenProperties
    <3> HIDE DEF finished
    <3>3. finished \in SUBSET Nat
      BY <3>2
    <3>4. Min(finished) \in finished
      BY <2>2, <3>3, MinIn
    <3>5. PICK k \in 1 .. Len(m) : k = Min(finished)
      BY <3>2, <3>4
    <3>6. k \in 0 .. Len(m)
      OBVIOUS
    <3> QED
      BY <3>1, <3>5, <3>6, Zenon
  <2> QED
    BY <2>1, <2>2
<1>3. Prefix(Joined(m), m)
  BY <1>1, <1>2 DEF Prefix
<1>4. Prefix(SubSeq(Joined(m), 1, Len(Joined(m)) - 1), Joined(m))
  <2>1. Joined(m) \in Seq(Unit)
    BY JoinedType
  <2>2. PICK s \in Seq(Unit) : s = Joined(m)
    BY <2>1
  <2>3. CASE Len(s) = 0
    <3>1. SubSeq(s, 1, Len(s) - 1) = <<>>
      <4>1. 1 \in Int /\ Len(s) - 1 \in Int /\ Len(s) - 1 < 1
        BY <2>3
      <4> QED
        BY <4>1, SubSeqEmpty
    <3> QED
      BY <2>2, <3>1, EmptyPrefix
  <2>4. CASE Len(s) # 0
    <3>1. Len(s) - 1 \in 0 .. Len(s)
      BY <2>4, LenProperties
    <3> QED
      BY <1>1, <2>2, <3>1
  <2> QED
    BY <2>3, <2>4
<1> QED
  <2>1. Joined(m) \in Seq(Unit)
    BY JoinedType
  <2>2. PICK s \in Seq(Unit) : s = Joined(m)
    BY <2>1
  <2>3. PICK p : p = SubSeq(s, 1, Len(s) - 1)
    OBVIOUS
  <2>4. Prefix(p, m)
    <3>1. Prefix(p, s) /\ Prefix(s, m)
      BY <1>3, <1>4, <2>2, <2>3
    <3>2. Len(s) \in Nat /\ Len(m) \in Nat /\ Len(p) \in Nat
      <4>1. p \in Seq(Unit)
        BY <2>3, SubSeqProperties
      <4> QED
        BY <4>1, LenProperties
    <3> QED
      BY <3>1, <3>2 DEF Prefix
  <2> QED
    BY <1>3, <2>2, <2>3, <2>4

(* A prefix of the input behind decode_buffer_ is a prefix of the stream. *)
LEMMA ConcatPrefix ==
  ASSUME NEW s \in Seq(Unit), NEW t \in Seq(Unit), NEW p \in Seq(Unit), Prefix(p, t)
  PROVE  Prefix(s \o p, s \o t) /\ Prefix(s, s \o t)
<1>1. Len(s) \in Nat /\ Len(t) \in Nat /\ Len(p) \in Nat
  BY LenProperties
<1>2. /\ Len(s \o p) = Len(s) + Len(p)
      /\ \A i \in 1 .. Len(s) + Len(p) :
           (s \o p)[i] = IF i <= Len(s) THEN s[i] ELSE p[i - Len(s)]
  BY ConcatUnits
<1>3. /\ Len(s \o t) = Len(s) + Len(t)
      /\ \A i \in 1 .. Len(s) + Len(t) :
           (s \o t)[i] = IF i <= Len(s) THEN s[i] ELSE t[i - Len(s)]
  BY ConcatUnits
<1>4. Len(p) <= Len(t) /\ \A i \in 1 .. Len(p) : p[i] = t[i]
  BY DEF Prefix
<1>5. \A i \in 1 .. Len(s) + Len(p) : (s \o p)[i] = (s \o t)[i]
  <2> SUFFICES ASSUME NEW i \in 1 .. Len(s) + Len(p) PROVE (s \o p)[i] = (s \o t)[i]
    OBVIOUS
  <2>1. CASE i <= Len(s)
    BY <1>1, <1>2, <1>3, <1>4, <2>1
  <2>2. CASE i > Len(s)
    <3>1. i - Len(s) \in 1 .. Len(p) /\ i \in 1 .. Len(s) + Len(t)
      BY <1>1, <1>4, <2>2
    <3> QED
      BY <1>1, <1>2, <1>3, <1>4, <2>2, <3>1
  <2>3. i \in Nat /\ (i <= Len(s) \/ i > Len(s))
    BY <1>1
  <2> QED
    BY <2>1, <2>2, <2>3
<1> QED
  BY <1>1, <1>2, <1>3, <1>4, <1>5 DEF Prefix

-----------------------------------------------------------------------------
(* What a step does to the stream of a connection. *)

Kept(c) ==
  /\ dbuf'[c] = dbuf[c]
  /\ inbuf'[c] = inbuf[c]
  /\ sent'[c] = sent[c]
  /\ lastMsg'[c] = lastMsg[c]

Written(c) ==
  /\ dbuf'[c] = dbuf[c]
  /\ sent'[c] = sent[c] + 1
  /\ \E k \in Kinds : inbuf'[c] = Append(inbuf[c], [kind |-> k, n |-> sent[c] + 1])
  /\ lastMsg'[c] = lastMsg[c]

(* All input is read; a prefix of the stream stays, or is handed over.    *)
Taken(c) ==
  /\ inbuf'[c] = <<>>
  /\ sent'[c] = sent[c]
  /\ Prefix(dbuf'[c], Stream(c))
  /\ \/ lastMsg'[c] = lastMsg[c]
     \/ /\ dbuf'[c] = <<>>
        /\ \E i \in 1 .. Len(Stream(c)) : lastMsg'[c] = Stream(c)[i].n

(* What OrderInv says of one connection.                                  *)
Ordered(c) == lastMsg[c] <= sent[c] /\ Ascending(Stream(c), lastMsg[c], sent[c])

LEMMA StreamType ==
  ASSUME TypeInv, NEW c \in Conns
  PROVE  /\ dbuf[c] \in Seq(Unit) /\ inbuf[c] \in Seq(Unit)
         /\ Stream(c) \in Seq(Unit)
         /\ lastMsg[c] \in Nat /\ sent[c] \in Nat
<1>1. /\ dbuf[c] \in Seq(Unit) /\ inbuf[c] \in Seq(Unit)
      /\ lastMsg[c] \in Nat /\ sent[c] \in Nat
  BY SocketAssumption DEF TypeInv, TypeOK, SockTypeOK
<1> QED
  BY <1>1, ConcatUnits DEF Stream

LEMMA KeptOrdered ==
  ASSUME NEW c \in Conns, Ordered(c), Kept(c)
  PROVE  Ordered(c)'
BY DEF Ordered, Kept, Stream, Ascending

LEMMA TakenOrdered ==
  ASSUME TypeInv, TypeInv', NEW c \in Conns, Ordered(c), Taken(c)
  PROVE  Ordered(c)'
<1>1. PICK s \in Seq(Unit), p \in Seq(Unit), lo \in Nat, hi \in Nat, lo2 \in Nat :
        /\ s = Stream(c) /\ p = dbuf'[c] /\ lo = lastMsg[c] /\ hi = sent[c]
        /\ lo2 = lastMsg'[c]
  <2>1. dbuf'[c] \in Seq(Unit) /\ lastMsg'[c] \in Nat
    BY SocketAssumption DEF TypeInv, TypeOK, SockTypeOK
  <2> QED
    BY <2>1, StreamType
<1>2. Stream(c)' = p
  BY <1>1, ConcatEmptySeq DEF Taken, Stream
<1>3. Ascending(s, lo, hi) /\ lo <= hi
  BY <1>1 DEF Ordered
<1>4. Len(s) \in Nat /\ Len(p) \in Nat /\ \A i \in 1 .. Len(s) : s[i].n \in Nat
  <2>1. Len(s) \in Nat /\ Len(p) \in Nat /\ \A i \in 1 .. Len(s) : s[i] \in Unit
    BY LenProperties
  <2> QED
    BY <2>1, SocketAssumption DEF Unit
<1>5. Prefix(p, s) /\ sent'[c] = hi
  BY <1>1 DEF Taken
<1>6. CASE lo2 = lo
  <2>1. \A i \in 1 .. Len(p) : i \in 1 .. Len(s) /\ p[i] = s[i]
    BY <1>4, <1>5 DEF Prefix
  <2>2. \A i \in 1 .. Len(p) :
          /\ lo < p[i].n
          /\ p[i].n <= hi
          /\ \A j \in 1 .. Len(p) : i < j => p[i].n < p[j].n
    <3> SUFFICES ASSUME NEW i \in 1 .. Len(p)
                 PROVE  /\ lo < p[i].n
                        /\ p[i].n <= hi
                        /\ \A j \in 1 .. Len(p) : i < j => p[i].n < p[j].n
      OBVIOUS
    <3>1. /\ lo < s[i].n
          /\ s[i].n <= hi
          /\ \A j \in 1 .. Len(s) : i < j => s[i].n < s[j].n
      BY <1>3, <2>1 DEF Ascending
    <3> QED
      BY <2>1, <3>1
  <2>3. Ascending(p, lo, hi)
    BY <2>2 DEF Ascending
  <2> QED
    BY <1>1, <1>2, <1>3, <1>5, <1>6, <2>3 DEF Ordered
<1>7. CASE p = <<>> /\ \E i \in 1 .. Len(s) : lo2 = s[i].n
  <2>1. lo2 <= hi
    BY <1>3, <1>7 DEF Ascending
  <2>2. Ascending(p, lo2, hi)
    BY <1>7, EmptySeq DEF Ascending
  <2> QED
    BY <1>1, <1>2, <1>5, <2>1, <2>2 DEF Ordered
<1> QED
  BY <1>1, <1>6, <1>7 DEF Taken

LEMMA WrittenOrdered ==
  ASSUME TypeInv, NEW c \in Conns, sent[c] < MaxUnits, Ordered(c), Written(c)
  PROVE  Ordered(c)'
<1>1. PICK b \in Seq(Unit), m \in Seq(Unit), lo \in Nat, hi \in Nat :
        b = dbuf[c] /\ m = inbuf[c] /\ lo = lastMsg[c] /\ hi = sent[c]
  BY StreamType
<1>2. PICK u \in Unit : u.n = hi + 1 /\ inbuf'[c] = Append(m, u)
  <2>1. PICK k \in Kinds : inbuf'[c] = Append(m, [kind |-> k, n |-> hi + 1])
    BY <1>1 DEF Written
  <2>2. [kind |-> k, n |-> hi + 1] \in Unit
    BY <1>1, SocketAssumption DEF Unit
  <2> QED
    BY <2>1, <2>2
<1>3. Append(m, u) = m \o <<u>>
  BY AppendIsConcat
<1>4. /\ Append(m, u) \in Seq(Unit)
      /\ Len(Append(m, u)) = Len(m) + 1
      /\ \A i \in 1 .. Len(m) : Append(m, u)[i] = m[i]
      /\ Append(m, u)[Len(m) + 1] = u
  BY AppendProperties
<1>5. Len(b) \in Nat /\ Len(m) \in Nat
  BY LenProperties
<1> DEFINE s == b \o m
           t == b \o Append(m, u)
<1>6. s \in Seq(Unit) /\ Len(s) = Len(b) + Len(m)
  BY ConcatUnits
<1>7. /\ Len(t) = Len(s) + 1
      /\ \A i \in 1 .. Len(s) : t[i] = s[i]
      /\ t[Len(s) + 1] = u
  <2>1. \A i \in 1 .. Len(b) + Len(m) :
          s[i] = IF i <= Len(b) THEN b[i] ELSE m[i - Len(b)]
    BY ConcatUnits
  <2>2. /\ Len(t) = Len(b) + (Len(m) + 1)
        /\ \A i \in 1 .. Len(b) + (Len(m) + 1) :
             t[i] = IF i <= Len(b) THEN b[i] ELSE Append(m, u)[i - Len(b)]
    BY <1>4, ConcatUnits
  <2> HIDE DEF s, t
  <2>3. t[Len(s) + 1] = u
    BY <1>4, <1>5, <1>6, <2>2
  <2>4. ASSUME NEW i \in 1 .. Len(s) PROVE t[i] = s[i]
    <3>1. /\ i \in Nat /\ (i <= Len(b) \/ i > Len(b))
          /\ i \in 1 .. Len(b) + Len(m) /\ i \in 1 .. Len(b) + (Len(m) + 1)
      BY <1>5, <1>6
    <3>2. CASE i <= Len(b)
      BY <2>1, <2>2, <3>1, <3>2
    <3>3. CASE i > Len(b)
      <4>1. i - Len(b) \in 1 .. Len(m) /\ ~(i <= Len(b))
        BY <1>5, <3>1, <3>3
      <4>2. t[i] = Append(m, u)[i - Len(b)] /\ s[i] = m[i - Len(b)]
        BY <2>1, <2>2, <3>1, <4>1
      <4> QED
        BY <1>4, <4>1, <4>2
    <3> QED
      BY <3>1, <3>2, <3>3
  <2> QED
    BY <1>5, <1>6, <2>2, <2>3, <2>4
<1>8. Ascending(s, lo, hi) /\ lo <= hi /\ Stream(c)' = t
  BY <1>1, <1>2 DEF Ordered, Stream, Written
<1>9. Ascending(t, lo, hi + 1)
  <2>1. Len(s) \in Nat /\ \A i \in 1 .. Len(s) : s[i].n \in Nat
    <3>1. Len(s) \in Nat /\ \A i \in 1 .. Len(s) : s[i] \in Unit
      BY <1>6, LenProperties
    <3> QED
      BY <3>1, SocketAssumption DEF Unit
  <2> HIDE DEF s, t
  <2>2. \A i \in 1 .. Len(s) :
          lo < t[i].n /\ t[i].n <= hi /\ t[i].n \in Nat
    BY <1>7, <1>8, <2>1 DEF Ascending
  <2>3. \A i, j \in 1 .. Len(s) : i < j => t[i].n < t[j].n
    BY <1>7, <1>8, <2>1 DEF Ascending
  <2>4. t[Len(s) + 1].n = hi + 1
    BY <1>2, <1>7
  <2>5. \A i \in 1 .. Len(t) : i \in 1 .. Len(s) \/ i = Len(s) + 1
    BY <1>7, <2>1
  <2>6. \A i \in 1 .. Len(t) : lo < t[i].n /\ t[i].n <= hi + 1
    BY <1>8, <2>2, <2>4, <2>5
  <2>7. \A i, j \in 1 .. Len(t) : i < j => t[i].n < t[j].n
    <3> SUFFICES ASSUME NEW i \in 1 .. Len(t), NEW j \in 1 .. Len(t), i < j
                 PROVE  t[i].n < t[j].n
      OBVIOUS
    <3>1. i \in 1 .. Len(s)
      BY <1>7, <2>1
    <3>2. CASE j \in 1 .. Len(s)
      BY <2>3, <3>1, <3>2
    <3>3. CASE j = Len(s) + 1
      BY <2>2, <2>4, <3>1, <3>3
    <3> QED
      BY <2>5, <3>2, <3>3
  <2> QED
    BY <2>6, <2>7 DEF Ascending
<1>10. lastMsg'[c] = lo /\ sent'[c] = hi + 1
  BY <1>1 DEF Written
<1> QED
  BY <1>8, <1>9, <1>10 DEF Ordered

-----------------------------------------------------------------------------
(* Which step does what. *)

(* Input that leaves decode_buffer_ alone, whatever it answers.           *)
LEMMA PlainInput ==
  ASSUME TypeInv, NEW c \in Conns,
         \/ RecvShake(c) \/ RecvNotHttp(c) \/ RecvShort(c) \/ RecvCloseReply(c)
         \/ RecvPong(c) \/ RecvPing(c) \/ RecvIgnored(c)
  PROVE  Taken(c) /\ \A d \in Conns \ {c} : Kept(d)
<1>1. Received(c) /\ UNCHANGED <<dbuf, lastMsg>>
  BY DEF RecvShake, RecvNotHttp, RecvShort, RecvCloseReply, RecvPong, RecvPing,
         RecvIgnored, ghostVars
<1>2. Prefix(dbuf[c], Stream(c))
  BY StreamType, EmptyPrefix, ConcatPrefix DEF Stream
<1>3. /\ inbuf' = [inbuf EXCEPT ![c] = <<>>] /\ UNCHANGED sent
      /\ inbuf \in [Conns -> Seq(Unit)]
  BY <1>1 DEF Received, TypeInv, TypeOK, SockTypeOK
<1> QED
  BY <1>1, <1>2, <1>3 DEF Taken, Kept

(* register_recv_callback: the message is handed over, or it stays.       *)
LEMMA CallbackTakes ==
  ASSUME TypeInv, NEW c \in Conns, NEW msg \in Seq(Unit),
         Received(c), Callback(c, msg), Prefix(msg, Stream(c))
  PROVE  Taken(c) /\ \A d \in Conns \ {c} : Kept(d)
<1>1. /\ inbuf' = [inbuf EXCEPT ![c] = <<>>] /\ UNCHANGED sent
      /\ inbuf \in [Conns -> Seq(Unit)]
      /\ DOMAIN dbuf = Conns /\ DOMAIN lastMsg = Conns
  BY DEF Received, TypeInv, TypeOK, SockTypeOK
<1>2. CASE st[c] = "CONNECTED"
  <2>1. /\ dbuf' = [dbuf EXCEPT ![c] = <<>>]
        /\ lastMsg' = [lastMsg EXCEPT ![c] = IF msg = <<>> THEN @ ELSE Last(msg).n]
    BY <1>2 DEF Callback
  <2>2. Prefix(<<>>, Stream(c))
    BY StreamType, EmptyPrefix
  <2>3. CASE msg = <<>>
    BY <1>1, <2>1, <2>2, <2>3 DEF Taken, Kept
  <2>4. CASE msg # <<>>
    <3>1. Len(msg) \in 1 .. Len(Stream(c)) /\ Last(msg) = Stream(c)[Len(msg)]
      <4>1. Len(msg) \in Nat \ {0} /\ Len(Stream(c)) \in Nat
        BY <2>4, EmptySeq, StreamType, LenProperties
      <4> QED
        BY <4>1 DEF Prefix, Last
    <3> QED
      BY <1>1, <2>1, <2>2, <2>4, <3>1 DEF Taken, Kept
  <2> QED
    BY <2>3, <2>4
<1>3. CASE st[c] # "CONNECTED"
  <2>1. dbuf' = [dbuf EXCEPT ![c] = msg] /\ lastMsg' = lastMsg
    BY <1>3 DEF Callback
  <2> QED
    BY <1>1, <2>1 DEF Taken, Kept
<1> QED
  BY <1>2, <1>3

(* decode_websocket_data_frame.                                           *)
LEMMA DataInput ==
  ASSUME TypeInv, NEW c \in Conns,
         RecvMessage(c) \/ RecvBadMessage(c) \/ RecvFragments(c) \/ RecvOther(c)
  PROVE  Taken(c) /\ \A d \in Conns \ {c} : Kept(d)
<1>1. PICK b \in Seq(Unit), m \in Seq(Unit), f \in Seq(Unit), g \in Seq(Unit) :
        /\ b = dbuf[c] /\ m = inbuf[c]
        /\ f = Joined(m) /\ g = SubSeq(f, 1, Len(f) - 1)
  <2>1. PICK b \in Seq(Unit), m \in Seq(Unit) : b = dbuf[c] /\ m = inbuf[c]
    BY StreamType
  <2>2. PICK f \in Seq(Unit) : f = Joined(m)
    BY JoinedType
  <2>3. SubSeq(f, 1, Len(f) - 1) \in Seq(Unit)
    <3>1. Len(f) \in Nat /\ \A i \in 1 .. (Len(f) - 1) : f[i] \in Unit
      BY LenProperties
    <3>2. 1 \in Int /\ Len(f) - 1 \in Int
      BY <3>1
    <3> QED
      BY <3>1, <3>2, SubSeqProperties
  <2> QED
    BY <2>1, <2>2, <2>3
<1>2. Prefix(f, m) /\ Prefix(g, m) /\ Prefix(m, m)
  <2>1. Prefix(m, m)
    BY LenProperties DEF Prefix
  <2> QED
    BY <1>1, <2>1, JoinedPrefix
<1>3. /\ Prefix(b \o f, Stream(c)) /\ Prefix(b \o g, Stream(c))
      /\ Prefix(b \o m, Stream(c)) /\ Prefix(b, Stream(c))
      /\ b \o f \in Seq(Unit)
  BY <1>1, <1>2, ConcatPrefix, ConcatUnits DEF Stream
<1>4. CASE RecvMessage(c)
  <2>1. Received(c) /\ Callback(c, b \o f)
    BY <1>1, <1>4 DEF RecvMessage
  <2> QED
    BY <1>3, <2>1, CallbackTakes
<1>5. CASE RecvOther(c)
  <2>1. Received(c) /\ Callback(c, b)
    BY <1>1, <1>5 DEF RecvOther
  <2> QED
    BY <1>3, <2>1, CallbackTakes
<1>6. CASE RecvBadMessage(c) \/ RecvFragments(c)
  <2>1. /\ Received(c) /\ UNCHANGED lastMsg
        /\ \E s \in {b \o f, b \o g, b \o m} : dbuf' = [dbuf EXCEPT ![c] = s]
    <3>1. CASE RecvBadMessage(c)
      <4>1. Received(c) /\ UNCHANGED lastMsg
        BY <3>1 DEF RecvBadMessage, ghostVars
      <4>2. \/ dbuf' = [dbuf EXCEPT ![c] = dbuf[c] \o g]
            \/ dbuf' = [dbuf EXCEPT ![c] = dbuf[c] \o f]
        BY <1>1, <3>1 DEF RecvBadMessage
      <4> QED
        BY <1>1, <4>1, <4>2
    <3>2. CASE RecvFragments(c)
      BY <1>1, <3>2 DEF RecvFragments
    <3> QED
      BY <1>6, <3>1, <3>2
  <2>2. /\ inbuf' = [inbuf EXCEPT ![c] = <<>>] /\ UNCHANGED sent
        /\ inbuf \in [Conns -> Seq(Unit)] /\ DOMAIN dbuf = Conns
    BY <2>1 DEF Received, TypeInv, TypeOK, SockTypeOK
  <2> QED
    BY <1>3, <2>1, <2>2 DEF Taken, Kept
<1> QED
  BY <1>4, <1>5, <1>6

(* close_client: nothing of the stream is left.                           *)
LEMMA ClosingTakes ==
  ASSUME TypeInv, NEW c \in Conns,
         HandleHup(c) \/ RecvEof(c) \/ RecvClose(c) \/ HandleSendError(c)
  PROVE  Taken(c) /\ \A d \in Conns \ {c} : Kept(d)
<1>1. CloseClient(c) /\ UNCHANGED lastMsg
  BY DEF HandleHup, RecvEof, RecvClose, HandleSendError, ghostVars
<1>2. /\ inbuf' = [inbuf EXCEPT ![c] = <<>>] /\ dbuf' = [dbuf EXCEPT ![c] = <<>>]
      /\ UNCHANGED sent
      /\ DOMAIN inbuf = Conns /\ DOMAIN dbuf = Conns
  BY <1>1 DEF CloseClient, CloseSocket, DeleteClient, TypeInv, TypeOK, SockTypeOK
<1>3. Prefix(<<>>, Stream(c))
  BY StreamType, EmptyPrefix
<1> QED
  BY <1>1, <1>2, <1>3 DEF Taken, Kept

(* What peers do.                                                         *)
LEMMA WorldWrites ==
  ASSUME TypeInv, World, NEW d \in Conns
  PROVE  Kept(d) \/ (Written(d) /\ sent[d] < MaxUnits)
<1>1. UNCHANGED <<dbuf, lastMsg>> /\ Peers
  BY DEF World, clientVars, ghostVars
<1>2. PICK c \in Conns :
        \/ PeerConnect(c)
        \/ \E k \in Kinds : PeerSend(c, k)
        \/ PeerFin(c)
        \/ PeerRst(c)
        \/ PeerDrain(c)
  BY <1>1 DEF Peers
<1>3. CASE \E k \in Kinds : PeerSend(c, k)
  <2>1. PICK k \in Kinds : PeerSend(c, k)
    BY <1>3
  <2>2. /\ sent[c] < MaxUnits
        /\ sent' = [sent EXCEPT ![c] = sent[c] + 1]
        /\ inbuf' = [inbuf EXCEPT ![c] =
                       Append(inbuf[c], [kind |-> k, n |-> sent[c] + 1])]
        /\ DOMAIN sent = Conns /\ DOMAIN inbuf = Conns
    BY <2>1 DEF PeerSend, TypeInv, TypeOK, SockTypeOK
  <2>3. CASE d = c
    BY <1>1, <2>2, <2>3 DEF Written
  <2>4. CASE d # c
    BY <1>1, <2>2, <2>4 DEF Kept
  <2> QED
    BY <2>3, <2>4
<1>4. CASE PeerConnect(c) \/ PeerFin(c) \/ PeerRst(c) \/ PeerDrain(c)
  BY <1>1, <1>4 DEF PeerConnect, PeerFin, PeerRst, PeerDrain, Kept
<1> QED
  BY <1>2, <1>3, <1>4

LEMMA StepShape ==
  ASSUME TypeInv, [Next]_vars, NEW d \in Conns
  PROVE  Kept(d) \/ Taken(d) \/ (Written(d) /\ sent[d] < MaxUnits)
<1>1. CASE EpollWait
  BY <1>1 DEF EpollWait, clientVars, ghostVars, Kept
<1>2. CASE HandleAccept \/ HandleAcceptFails
  BY <1>2 DEF HandleAccept, HandleAcceptFails, sockVars, clientVars, ghostVars, Kept
<1>3. ASSUME NEW c \in Conns, HandleHup(c) \/ HandleSendError(c)
      PROVE  Kept(d) \/ Taken(d)
  BY <1>3, ClosingTakes
<1>4. ASSUME NEW c \in Conns, HandleInput(c) PROVE Kept(d) \/ Taken(d)
  BY <1>4, ClosingTakes, PlainInput, DataInput DEF HandleInput
<1>5. ASSUME NEW c \in Conns, HandleSend(c) \/ HandleSendShake(c) PROVE Kept(d)
  BY <1>5 DEF HandleSend, HandleSendShake, Flush, Kept
<1>6. CASE World
  BY <1>6, WorldWrites
<1>7. CASE UNCHANGED vars
  BY <1>7 DEF vars, sockVars, clientVars, ghostVars, Kept
<1> QED
  BY <1>1, <1>2, <1>3, <1>4, <1>5, <1>6, <1>7 DEF Next, Loop

-----------------------------------------------------------------------------
LEMMA InitOrdered == Init => OrderInv
<1> SUFFICES ASSUME Init, NEW c \in Conns PROVE Ordered(c)
  BY DEF OrderInv, Ordered
<1>1. dbuf[c] = <<>> /\ inbuf[c] = <<>> /\ lastMsg[c] = 0 /\ sent[c] = 0
  BY DEF Init, SockInit
<1>2. Stream(c) = <<>>
  BY <1>1, ConcatEmptySeq, EmptySeq DEF Stream
<1> QED
  BY <1>1, <1>2, EmptySeq DEF Ordered, Ascending

LEMMA NextOrdered == TypeInv /\ TypeInv' /\ OrderInv /\ [Next]_vars => OrderInv'
<1> SUFFICES ASSUME TypeInv, TypeInv', OrderInv, [Next]_vars, NEW c \in Conns
             PROVE  Ordered(c)'
  BY DEF OrderInv, Ordered
<1>1. Ordered(c)
  BY DEF OrderInv, Ordered
<1> QED
  BY <1>1, StepShape, KeptOrdered, TakenOrdered, WrittenOrdered

(* The receive callback is handed the payloads of a connection in the     *)
(* order they were sent and each at most once, for any units in any       *)
(* chunks (decode_websocket_data_frame, register_recv_callback).          *)
THEOREM DeliveryInOrder == Spec => []InOrderOnce
<1>1. TypeInv /\ OrderInv => InOrderOnce
  <2> SUFFICES ASSUME TypeInv, OrderInv, NEW c \in Conns
               PROVE  /\ \A i \in DOMAIN dbuf[c] : dbuf[c][i].n > lastMsg[c]
                      /\ \A i, j \in DOMAIN dbuf[c] : i < j => dbuf[c][i].n < dbuf[c][j].n
    BY DEF InOrderOnce, TypeInv, TypeOK
  <2>1. Ascending(Stream(c), lastMsg[c], sent[c])
    BY DEF OrderInv
  <2>2. Prefix(dbuf[c], Stream(c))
    BY StreamType, EmptyPrefix, ConcatPrefix DEF Stream
  <2>3. /\ DOMAIN dbuf[c] = 1 .. Len(dbuf[c])
        /\ Len(dbuf[c]) \in Nat /\ Len(Stream(c)) \in Nat
    BY StreamType, LenProperties
  <2> QED
    BY <2>1, <2>2, <2>3 DEF Ascending, Prefix
<1> QED
  BY InitType, NextType, InitOrdered, NextOrdered, <1>1, PTL DEF Spec
-----------------------------------------------------------------------------
(* IsSessions.  Every step of the loop and of the peers is a step of one   *)
(* session or leaves all sessions as they are.  The invariants give the    *)
(* guards: a client has an open connection (ClientsOpen), one that waits   *)
(* has no fields left of an earlier life (Dormant), and what is handed to  *)
(* the receive callback is newer than before and was written (OrderInv).   *)

SessionPhases == [c \in Conns |-> Phase(c)]

(* The step is one of Sessions, or none.                                  *)
SessionStep == [Application!Next]_(Application!vars)

LEMMA InitSessions == Init => Application!Init
BY DEF Init, SockInit, Application!Init, Phase, Open

(* Only the phase of c changes.                                           *)
LEMMA PhaseChange ==
  ASSUME NEW c \in Conns, NEW p,
         \A d \in Conns \ {c} : sock'[d] = sock[d] /\ st'[d] = st[d],
         p = IF sock'[c] = "open" THEN st'[c] ELSE sock'[c]
  PROVE  SessionPhases' = [SessionPhases EXCEPT ![c] = p]
BY DEF SessionPhases, Phase, Open

LEMMA PhaseSame ==
  ASSUME UNCHANGED <<sock, st>>
  PROVE  SessionPhases' = SessionPhases
BY DEF SessionPhases, Phase, Open

(* No variable of a session changes.                                      *)
LEMMA NoSession ==
  ASSUME UNCHANGED <<backlog, sock, st, registry, sent, lastMsg, q>>
  PROVE  SessionStep
<1>1. SessionPhases' = SessionPhases
  BY PhaseSame
<1> QED
  BY <1>1 DEF SessionStep, Application!vars, SessionPhases

(* A client is a session that is here, in the phase of is_connected_.     *)
LEMMA ClientIsHere ==
  ASSUME TypeInv, LoopInv, NEW c \in Conns, c \in clients
  PROVE  /\ sock[c] = "open"
         /\ SessionPhases[c] = st[c]
         /\ st[c] \in {"NONE", "WAIT_SHAKE", "CONNECTED"}
BY DEF LoopInv, ClientsOpen, Open, SessionPhases, Phase, TypeInv, TypeOK

(* send_buffer for one client.                                            *)
LEMMA SaysOne ==
  ASSUME TypeInv, NEW c \in Conns, NEW msg, SendBuffer({c}, msg)
  PROVE  q' = [q EXCEPT ![c] = Append(q[c], msg)]
BY DEF SendBuffer, TypeInv, TypeOK

(* A CLOSE or a PONG is an answer of the protocol.                        *)
LEMMA ProtocolAnswers ==
  ASSUME TypeInv, LoopInv, NEW c \in Conns, Received(c), NEW msg,
         SendBuffer({c}, msg), UNCHANGED <<st, registry, lastMsg>>,
         \/ msg = "close"
         \/ msg = "pong" /\ st[c] # "NONE"
  PROVE  SessionStep
<1>1. c \in clients /\ UNCHANGED <<sock, backlog, sent>>
  BY DEF Received
<1>2. q' = [q EXCEPT ![c] = Append(q[c], msg)]
  BY SaysOne
<1>3. SessionPhases' = SessionPhases
  BY <1>1, PhaseSame
<1>4. SessionPhases[c] = st[c] /\ st[c] \in {"NONE", "WAIT_SHAKE", "CONNECTED"}
  BY <1>1, ClientIsHere
<1>5. Application!Answer(c)
  BY <1>1, <1>2, <1>3, <1>4
    DEF Application!Answer, Application!Here, Application!Say, SessionPhases
<1> QED
  BY <1>5 DEF SessionStep, Application!Next

(* Input that queues nothing.                                             *)
LEMMA SilentInput ==
  ASSUME NEW c \in Conns, Received(c), NoSend, UNCHANGED <<st, registry, lastMsg>>
  PROVE  SessionStep
BY NoSession DEF Received, NoSend

(* The receive callback delivers what is new, or a frame without payload, *)
(* or it is not called.                                                   *)
LEMMA CallbackDelivers ==
  ASSUME TypeInv, TypeInv', LoopInv, OrderInv, NEW c \in Conns, NEW msg \in Seq(Unit),
         Received(c), Callback(c, msg), Taken(c), UNCHANGED <<st, registry>>
  PROVE  SessionStep
<1>1. CASE st[c] # "CONNECTED"
  BY <1>1, SilentInput DEF Callback
<1>2. CASE st[c] = "CONNECTED"
  <2>1. c \in clients /\ UNCHANGED <<sock, backlog, sent>>
    BY DEF Received
  <2>2. q' = [q EXCEPT ![c] = Append(q[c], "echo")]
    BY <1>2, SaysOne DEF Callback
  <2>3. SessionPhases' = SessionPhases /\ SessionPhases[c] = "CONNECTED"
    BY <1>2, <2>1, PhaseSame, ClientIsHere
  <2>4. /\ lastMsg' = [lastMsg EXCEPT ![c] = lastMsg'[c]]
        /\ lastMsg \in [Conns -> Nat] /\ lastMsg'[c] \in Nat /\ sent[c] \in Nat
    <3>1. lastMsg' = [lastMsg EXCEPT ![c] = IF msg = <<>> THEN @ ELSE Last(msg).n]
      BY <1>2 DEF Callback
    <3>2. /\ lastMsg \in [Conns -> Nat] /\ lastMsg'[c] \in Nat /\ sent[c] \in Nat
      BY SocketAssumption DEF TypeInv, TypeOK, SockTypeOK
    <3> QED
      BY <3>1, <3>2
  <2>5. CASE lastMsg'[c] = lastMsg[c]
    <3>1. UNCHANGED lastMsg
      BY <2>4, <2>5
    <3>2. Application!DeliverNothing(c)
      BY <2>1, <2>2, <2>3, <3>1
        DEF Application!DeliverNothing, Application!Say, SessionPhases
    <3> QED
      BY <3>2 DEF SessionStep, Application!Next
  <2>6. CASE lastMsg'[c] # lastMsg[c]
    <3>1. PICK i \in 1 .. Len(Stream(c)) : lastMsg'[c] = Stream(c)[i].n
      BY <2>6 DEF Taken
    <3>2. Ascending(Stream(c), lastMsg[c], sent[c])
      BY DEF OrderInv
    <3>3. lastMsg[c] < lastMsg'[c] /\ lastMsg'[c] <= sent[c]
      BY <3>1, <3>2 DEF Ascending
    <3>4. lastMsg'[c] \in lastMsg[c] + 1 .. sent[c]
      BY <2>4, <3>3
    <3>5. Application!Deliver(c)
      BY <2>1, <2>2, <2>3, <2>4, <3>4
        DEF Application!Deliver, Application!Say, SessionPhases
    <3> QED
      BY <3>5 DEF SessionStep, Application!Next
  <2> QED
    BY <2>5, <2>6
<1> QED
  BY <1>1, <1>2

(* Input that does not close.                                             *)
LEMMA InputSession ==
  ASSUME TypeInv, TypeInv', LoopInv, OrderInv, NEW c \in Conns,
         \/ RecvNotHttp(c) \/ RecvShort(c) \/ RecvCloseReply(c) \/ RecvPong(c)
         \/ RecvPing(c) \/ RecvIgnored(c) \/ RecvMessage(c) \/ RecvBadMessage(c)
         \/ RecvFragments(c) \/ RecvOther(c)
  PROVE  SessionStep
<1>1. CASE RecvNotHttp(c)
  <2>1. Received(c) /\ UNCHANGED <<st, registry, lastMsg>> /\ NoSend
    BY <1>1 DEF RecvNotHttp
  <2> QED
    BY <2>1, SilentInput
<1>2. CASE RecvShort(c)
  <2>1. Received(c) /\ UNCHANGED <<st, registry, lastMsg>> /\ SendBuffer({c}, "close")
    BY <1>2 DEF RecvShort, ghostVars
  <2> QED
    BY <2>1, ProtocolAnswers
<1>3. CASE RecvCloseReply(c) \/ RecvPong(c) \/ RecvIgnored(c)
  <2>1. Received(c) /\ UNCHANGED <<st, registry, lastMsg>> /\ NoSend
    BY <1>3 DEF RecvCloseReply, RecvPong, RecvIgnored, ghostVars
  <2> QED
    BY <2>1, SilentInput
<1>4. CASE RecvPing(c)
  <2>1. /\ Received(c) /\ UNCHANGED <<st, registry, lastMsg>>
        /\ SendBuffer({c}, "pong") /\ st[c] # "NONE"
    BY <1>4 DEF RecvPing, ghostVars
  <2> QED
    BY <2>1, ProtocolAnswers
<1>5. CASE RecvMessage(c)
  <2>1. PICK msg \in Seq(Unit) : msg = dbuf[c] \o Joined(inbuf[c])
    <3>1. dbuf[c] \in Seq(Unit) /\ inbuf[c] \in Seq(Unit)
      BY StreamType
    <3>2. Joined(inbuf[c]) \in Seq(Unit)
      BY <3>1, JoinedType
    <3> QED
      BY <3>1, <3>2, ConcatUnits
  <2>2. Received(c) /\ UNCHANGED <<st, registry>> /\ Callback(c, msg)
    BY <1>5, <2>1 DEF RecvMessage
  <2>3. Taken(c)
    BY <1>5, DataInput
  <2> QED
    BY <2>2, <2>3, CallbackDelivers
<1>6. CASE RecvOther(c)
  <2>1. dbuf[c] \in Seq(Unit)
    BY StreamType
  <2>2. Received(c) /\ UNCHANGED <<st, registry>> /\ Callback(c, dbuf[c])
    BY <1>6 DEF RecvOther
  <2>3. Taken(c)
    BY <1>6, DataInput
  <2> QED
    BY <2>1, <2>2, <2>3, CallbackDelivers
<1>7. CASE RecvBadMessage(c)
  <2>1. Received(c) /\ UNCHANGED <<st, registry, lastMsg>> /\ SendBuffer({c}, "close")
    BY <1>7 DEF RecvBadMessage, ghostVars
  <2> QED
    BY <2>1, ProtocolAnswers
<1>8. CASE RecvFragments(c)
  <2>1. Received(c) /\ UNCHANGED <<st, registry, lastMsg>> /\ (NoSend \/ SendBuffer({c}, "close"))
    BY <1>8 DEF RecvFragments
  <2> QED
    BY <2>1, SilentInput, ProtocolAnswers
<1> QED
  BY <1>1, <1>2, <1>3, <1>4, <1>5, <1>6, <1>7, <1>8

(* The upgrade: the 101 is queued as the session leaves NONE, or a CLOSE. *)
LEMMA ShakeSession ==
  ASSUME TypeInv, LoopInv, NEW c \in Conns, RecvShake(c)
  PROVE  SessionStep
<1>1. Received(c) /\ UNCHANGED <<registry, lastMsg>> /\ st[c] = "NONE"
  BY DEF RecvShake, ghostVars
<1>2. CASE SendBuffer({c}, "close") /\ st' = st
  BY <1>1, <1>2, ProtocolAnswers
<1>3. CASE SendBuffer({c}, "101") /\ st' = [st EXCEPT ![c] = "WAIT_SHAKE"]
  <2>1. c \in clients /\ UNCHANGED <<sock, backlog, sent>>
    BY <1>1 DEF Received
  <2>2. q' = [q EXCEPT ![c] = Append(q[c], "101")]
    BY <1>3, SaysOne
  <2>3. sock[c] = "open" /\ SessionPhases[c] = "NONE" /\ DOMAIN st = Conns
    BY <1>1, <2>1, ClientIsHere DEF TypeInv, TypeOK
  <2>4. SessionPhases' = [SessionPhases EXCEPT ![c] = "WAIT_SHAKE"]
    BY <1>3, <2>1, <2>3, PhaseChange
  <2>5. Application!Shake(c)
    BY <1>1, <2>1, <2>2, <2>3, <2>4
      DEF Application!Shake, Application!Becomes, Application!Say, SessionPhases
  <2> QED
    BY <2>5 DEF SessionStep, Application!Next
<1> QED
  BY <1>2, <1>3 DEF RecvShake

(* close_client, with the disconnect callback: the session is over.       *)
LEMMA ClosingSession ==
  ASSUME TypeInv, LoopInv, NEW c \in Conns, Closing(c), UNCHANGED lastMsg
  PROVE  SessionStep
<1>1. /\ c \in clients
      /\ sock' = [sock EXCEPT ![c] = "closed"] /\ st' = [st EXCEPT ![c] = "NONE"]
      /\ q' = [q EXCEPT ![c] = <<>>] /\ registry' = registry \ {c}
      /\ UNCHANGED <<backlog, sent>>
      /\ DOMAIN sock = Conns /\ DOMAIN st = Conns
  BY DEF Closing, CloseClient, CloseSocket, DeleteClient, TypeInv, TypeOK, SockTypeOK
<1>2. SessionPhases[c] \in {"NONE", "WAIT_SHAKE", "CONNECTED"}
  BY <1>1, ClientIsHere
<1>3. SessionPhases' = [SessionPhases EXCEPT ![c] = "closed"]
  BY <1>1, PhaseChange
<1>4. Application!End(c)
  BY <1>1, <1>2, <1>3
    DEF Application!End, Application!Here, Application!Becomes, SessionPhases
<1> QED
  BY <1>4 DEF SessionStep, Application!Next

(* accept() returns the connection that has waited longest.               *)
LEMMA AcceptSession ==
  ASSUME TypeInv, LoopInv, HandleAccept
  PROVE  SessionStep
<1>1. PICK c \in Conns :
        /\ c = Head(backlog) /\ backlog # <<>> /\ backlog' = Tail(backlog)
        /\ sock' = [sock EXCEPT ![c] = "open"]
        /\ UNCHANGED <<sent, st, q, registry, lastMsg>>
        /\ sock[c] = "pending"
  <2>1. backlog # <<>> /\ backlog \in Seq(Conns)
    BY DEF HandleAccept, TypeInv, TypeOK, SockTypeOK
  <2>2. Head(backlog) \in Conns /\ Head(backlog) = backlog[1] /\ 1 \in DOMAIN backlog
    BY <2>1, EmptySeq
  <2>3. sock[Head(backlog)] = "pending"
    BY <2>2 DEF LoopInv, BacklogPending
  <2>4. /\ backlog' = Tail(backlog)
        /\ sock' = [sock EXCEPT ![Head(backlog)] = "open"]
        /\ UNCHANGED <<sent, st, q, registry, lastMsg>>
    BY DEF HandleAccept, ghostVars
  <2> QED
    BY <2>1, <2>2, <2>3, <2>4
<1>2. st[c] = "NONE"
  BY <1>1 DEF LoopInv, ClientsOpen, Dormant, Open
<1>3. DOMAIN sock = Conns
  BY DEF TypeInv, TypeOK, SockTypeOK
<1>4. SessionPhases' = [SessionPhases EXCEPT ![c] = "NONE"]
  BY <1>1, <1>2, <1>3, PhaseChange
<1>5. Application!Accept
  BY <1>1, <1>4 DEF Application!Accept, Application!Becomes, SessionPhases
<1> QED
  BY <1>5 DEF SessionStep, Application!Next

(* The output branch: the queue is sent, and the first time that joins.   *)
LEMMA OutputSession ==
  ASSUME TypeInv, LoopInv, NEW c \in Conns, HandleSend(c) \/ HandleSendShake(c)
  PROVE  SessionStep
<1>1. Flush(c) /\ c \in clients /\ UNCHANGED <<sock, backlog, sent, lastMsg>>
  BY DEF HandleSend, HandleSendShake, Flush
<1>2. /\ sock[c] = "open" /\ SessionPhases[c] = st[c]
      /\ st[c] \in {"NONE", "WAIT_SHAKE", "CONNECTED"} /\ DOMAIN st = Conns
  BY <1>1, ClientIsHere DEF TypeInv, TypeOK
<1>3. CASE HandleSend(c)
  <2>1. UNCHANGED <<st, registry>> /\ q' = [q EXCEPT ![c] = <<>>] /\ st[c] # "WAIT_SHAKE"
    BY <1>3 DEF HandleSend
  <2>2. SessionPhases' = SessionPhases
    BY <1>1, <2>1, PhaseSame
  <2>3. Application!Flush(c)
    BY <1>1, <1>2, <2>1, <2>2 DEF Application!Flush, SessionPhases
  <2> QED
    BY <2>3 DEF SessionStep, Application!Next
<1>4. CASE HandleSendShake(c)
  <2>1. /\ st[c] = "WAIT_SHAKE" /\ st' = [st EXCEPT ![c] = "CONNECTED"]
        /\ registry' = registry \cup {c}
        /\ q' = [d \in Conns |->
                   LET rest == IF d = c THEN <<>> ELSE q[d]
                   IN IF d \in registry \cup {c} THEN Append(rest, "hello") ELSE rest]
    BY <1>4 DEF HandleSendShake
  <2>2. q' = [d \in Conns |->
               IF d = c THEN <<"hello">>
               ELSE IF d \in registry THEN Append(q[d], "hello") ELSE q[d]]
    <3>1. Append(<<>>, "hello") = <<"hello">>
      OBVIOUS
    <3> QED
      BY <2>1, <3>1
  <2>3. SessionPhases' = [SessionPhases EXCEPT ![c] = "CONNECTED"]
    BY <1>1, <1>2, <2>1, PhaseChange
  <2>4. Application!Join(c)
    BY <1>1, <1>2, <2>1, <2>2, <2>3
      DEF Application!Join, Application!Becomes, SessionPhases
  <2> QED
    BY <2>4 DEF SessionStep, Application!Next
<1> QED
  BY <1>3, <1>4

(* Peers arrive and write; what else they do is no concern of a session   *)
(* until the loop finds out.                                              *)
LEMMA WorldSession ==
  ASSUME TypeInv, LoopInv, World
  PROVE  SessionStep
<1>1. UNCHANGED <<st, registry, lastMsg, q>> /\ Peers
  BY DEF World, clientVars, ghostVars
<1>2. PICK c \in Conns :
        \/ PeerConnect(c)
        \/ \E k \in Kinds : PeerSend(c, k)
        \/ PeerFin(c) \/ PeerRst(c) \/ PeerDrain(c)
  BY <1>1 DEF Peers
<1>3. CASE PeerConnect(c)
  <2>1. /\ sock[c] = "idle" /\ sock' = [sock EXCEPT ![c] = "pending"]
        /\ backlog' = Append(backlog, c) /\ UNCHANGED sent
        /\ DOMAIN sock = Conns
    BY <1>3 DEF PeerConnect, TypeInv, TypeOK, SockTypeOK
  <2>2. SessionPhases' = [SessionPhases EXCEPT ![c] = "pending"]
    BY <1>1, <2>1, PhaseChange
  <2>3. SessionPhases[c] = "idle"
    BY <2>1 DEF SessionPhases, Phase, Open
  <2>4. Application!Arrive(c)
    BY <1>1, <2>1, <2>2, <2>3 DEF Application!Arrive, Application!Becomes, SessionPhases
  <2> QED
    BY <2>4 DEF SessionStep, Application!Next
<1>4. CASE \E k \in Kinds : PeerSend(c, k)
  <2>1. /\ sock[c] \in {"pending", "open"} /\ sent' = [sent EXCEPT ![c] = sent[c] + 1]
        /\ UNCHANGED <<sock, backlog>>
    BY <1>4 DEF PeerSend
  <2>2. SessionPhases[c] \in {"pending", "NONE", "WAIT_SHAKE", "CONNECTED"}
    BY <2>1 DEF SessionPhases, Phase, Open, TypeInv, TypeOK
  <2>3. SessionPhases' = SessionPhases
    BY <1>1, <2>1, PhaseSame
  <2>4. Application!Write(c)
    BY <1>1, <2>1, <2>2, <2>3 DEF Application!Write, Application!Here, SessionPhases
  <2> QED
    BY <2>4 DEF SessionStep, Application!Next
<1>5. CASE PeerFin(c) \/ PeerRst(c) \/ PeerDrain(c)
  <2>1. UNCHANGED <<backlog, sock, sent>>
    BY <1>5 DEF PeerFin, PeerRst, PeerDrain
  <2> QED
    BY <1>1, <2>1, NoSession
<1> QED
  BY <1>2, <1>3, <1>4, <1>5

LEMMA NextSession ==
  TypeInv /\ TypeInv' /\ LoopInv /\ OrderInv /\ [Next]_vars => SessionStep
<1> SUFFICES ASSUME TypeInv, TypeInv', LoopInv, OrderInv, [Next]_vars
             PROVE  SessionStep
  OBVIOUS
<1>1. CASE EpollWait
  <2>1. UNCHANGED <<backlog, sock, st, registry, sent, lastMsg, q>>
    BY <1>1 DEF EpollWait, clientVars, ghostVars
  <2> QED
    BY <2>1, NoSession
<1>2. CASE HandleAccept \/ HandleAcceptFails
  <2>1. HandleAcceptFails => UNCHANGED <<backlog, sock, st, registry, sent, lastMsg, q>>
    BY DEF HandleAcceptFails, sockVars, clientVars, ghostVars
  <2> QED
    BY <1>2, <2>1, AcceptSession, NoSession
<1>3. ASSUME NEW c \in Conns,
             HandleHup(c) \/ RecvEof(c) \/ RecvClose(c) \/ HandleSendError(c)
      PROVE  SessionStep
  <2>1. Closing(c)
    BY <1>3, CloseIsClosing
  <2>2. UNCHANGED lastMsg
    BY <1>3 DEF HandleHup, RecvEof, RecvClose, HandleSendError, ghostVars
  <2> QED
    BY <2>1, <2>2, ClosingSession
<1>4. ASSUME NEW c \in Conns, HandleInput(c) PROVE SessionStep
  BY <1>3, <1>4, ShakeSession, InputSession DEF HandleInput
<1>5. ASSUME NEW c \in Conns, HandleSend(c) \/ HandleSendShake(c) PROVE SessionStep
  BY <1>5, OutputSession
<1>6. CASE World
  BY <1>6, WorldSession
<1>7. CASE UNCHANGED vars
  <2>1. UNCHANGED <<backlog, sock, st, registry, sent, lastMsg, q>>
    BY <1>7 DEF vars, sockVars, clientVars, ghostVars
  <2> QED
    BY <2>1, NoSession
<1> QED
  BY <1>1, <1>2, <1>3, <1>4, <1>5, <1>6, <1>7 DEF Next, Loop

(* The event loop implements Sessions: for main.cpp and the peers, each   *)
(* event of a batch, with all its callbacks, is one step of one session   *)
(* (Tcp_server::start, decode_proto_data, the callbacks of main.cpp).     *)
THEOREM ImplementsSessions == Spec => IsSessions
<1>1. Init => Application!Init
  BY InitSessions
<1>2. TypeInv /\ TypeInv' /\ LoopInv /\ OrderInv /\ [Next]_vars
        => [Application!Next]_(Application!vars)
  BY NextSession DEF SessionStep
<1> QED
  BY InitType, NextType, InitSafe, NextSafe, InitOrdered, NextOrdered, <1>1, <1>2, PTL
    DEF Spec, IsSessions, Application!Spec

=============================================================================
