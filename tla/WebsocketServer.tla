--------------------------- MODULE WebsocketServer ---------------------------
(***************************************************************************)
(* The WebSocket server as main.cpp runs it: one thread executes           *)
(* Tcp_server::start (tcp_server.cpp), whose events call the overrides of  *)
(* Websocket_server (websocket_server.cpp), which call the callbacks that  *)
(* main.cpp registers.  main.cpp passes start_heartbeat = false, so        *)
(* init_time_wheel never runs: time_wheel is a map that this thread files  *)
(* tasks in and erases them from, and no task ever fires.                  *)
(*                                                                         *)
(* One action is one iteration of the loop over the events of a batch: the *)
(* branch the event takes, with every call it makes.  Peers act between    *)
(* any two of them.  What the program does after it has touched a freed    *)
(* client or run past a buffer is undefined: mem records it and the model  *)
(* stops.                                                                  *)
(***************************************************************************)
EXTENDS EpollSockets

VARIABLES
  batch,      \* events of the current epoll_wait not yet handled ({}: none)
  clients,    \* keys of clients_: connections with a client object
  st,         \* is_connected_
  waitClose,  \* wait_close_
  timer,      \* time_wheel_id_ # 0
  hdr,        \* http_header_: no upgrade headers, the right ones, wrong ones
  dbuf,       \* decode_buffer_, as the units whose payload it holds
  q,          \* send_buffer_queue_
  tasks,      \* number of tasks filed in time_wheel for this connection
  registry,   \* wb_clients of main.cpp
  lastMsg,    \* ghost: highest unit handed to the receive callback
  lost,       \* ghost: queued data was dropped while the socket was open
  mem         \* "ok", or the undefined access that has happened

clientVars == <<clients, st, waitClose, timer, hdr, dbuf, q, tasks, registry>>
ghostVars == <<lastMsg, lost, mem>>
vars == <<sockVars, batch, clientVars, ghostVars>>

Msgs == {"101", "close", "pong", "hello", "echo"}

TypeOK ==
  /\ SockTypeOK
  /\ batch \in [Fds -> SUBSET Events]
  /\ clients \in SUBSET Conns
  /\ st \in [Conns -> {"NONE", "WAIT_SHAKE", "CONNECTED"}]
  /\ waitClose \in [Conns -> BOOLEAN]
  /\ timer \in [Conns -> BOOLEAN]
  /\ hdr \in [Conns -> {"none", "good", "bad"}]
  /\ dbuf \in [Conns -> Seq(Unit)]
  /\ q \in [Conns -> Seq(Msgs)]
  /\ tasks \in [Conns -> Nat]
  /\ registry \in SUBSET Conns
  /\ lastMsg \in [Conns -> 0 .. MaxUnits]
  /\ lost \in [Conns -> BOOLEAN]
  /\ mem \in {"ok", "useAfterFree", "overRead"}

Init ==
  /\ SockInit
  /\ batch = [f \in Fds |-> {}]
  /\ clients = {}
  /\ st = [c \in Conns |-> "NONE"]
  /\ waitClose = [c \in Conns |-> FALSE]
  /\ timer = [c \in Conns |-> FALSE]
  /\ hdr = [c \in Conns |-> "none"]
  /\ dbuf = [c \in Conns |-> <<>>]
  /\ q = [c \in Conns |-> <<>>]
  /\ tasks = [c \in Conns |-> 0]
  /\ registry = {}
  /\ lastMsg = [c \in Conns |-> 0]
  /\ lost = [c \in Conns |-> FALSE]
  /\ mem = "ok"

-----------------------------------------------------------------------------
(* Sending and closing. *)

InterestIdle == {"IN", "RDHUP"}
InterestSend == {"IN", "OUT", "RDHUP"}

(* epoll_ctl(MOD) of the descriptors in S: the kernel polls them again.   *)
Rearm(S, rdy) == rdy \cup {f \in S : Revents(f)' # {}}

(* Tcp_server::send_buffer for every client in S.  An action that calls   *)
(* it gives inbuf', peer', full' and backlog' first.                      *)
SendBuffer(S, msg) ==
  /\ q' = [c \in Conns |-> IF c \in S THEN Append(q[c], msg) ELSE q[c]]
  /\ interest' = [f \in Fds |-> IF f \in S THEN InterestSend ELSE interest[f]]
  /\ ready' = Rearm(S, ready)

(* `delete client`: its fields return to their initial values, and        *)
(* ~websocket_client erases the task that time_wheel_id_ names.           *)
DeleteClient(c) ==
  /\ st' = [st EXCEPT ![c] = "NONE"]
  /\ waitClose' = [waitClose EXCEPT ![c] = FALSE]
  /\ timer' = [timer EXCEPT ![c] = FALSE]
  /\ tasks' = [tasks EXCEPT ![c] = IF timer[c] THEN @ - 1 ELSE @]
  /\ hdr' = [hdr EXCEPT ![c] = "none"]
  /\ dbuf' = [dbuf EXCEPT ![c] = <<>>]
  /\ q' = [q EXCEPT ![c] = <<>>]

(* Mutants: clients_ or main.cpp's set keeps the deleted client.          *)
CloseClientInMap(c) ==
  CloseSocket(c) /\ registry' = registry \ {c} /\ DeleteClient(c) /\ UNCHANGED clients

CloseClientRegistered(c) ==
  CloseSocket(c) /\ clients' = clients \ {c} /\ DeleteClient(c) /\ UNCHANGED registry

(* Tcp_server::close_client, with main.cpp's disconnect callback.         *)
CloseClient(c) ==
  /\ CloseSocket(c)
  /\ clients' = clients \ {c}
  /\ registry' = registry \ {c}
  /\ DeleteClient(c)

-----------------------------------------------------------------------------
(* The event loop. *)

(* epoll_wait returns when some descriptor is ready.  Edge triggered: the *)
(* descriptors reported leave the ready list.  A batch is handled in any  *)
(* order, of which the order the kernel reports is one.                   *)
EpollWait ==
  /\ mem = "ok"
  /\ \A f \in Fds : batch[f] = {}
  /\ \E f \in ready : Revents(f) # {}
  /\ batch' = [f \in Fds |-> IF f \in ready THEN Revents(f) ELSE {}]
  /\ ready' = {}
  /\ UNCHANGED <<sock, backlog, inbuf, peer, full, sent, interest,
                 clientVars, ghostVars>>

(* Which branch of start() an event takes: hang-up, else input, else      *)
(* output.  An event with both IN and OUT takes the input branch only.    *)
Branch(f) ==
  IF batch[f] \cap {"HUP", "RDHUP"} # {} THEN "hup"
  ELSE IF "IN" \in batch[f] THEN "in"
  ELSE IF "OUT" \in batch[f] THEN "out" ELSE "none"

Handled(f) == mem = "ok" /\ batch' = [batch EXCEPT ![f] = {}]

HandleHup(c) ==
  /\ Branch(c) = "hup"
  /\ c \in clients
  /\ Handled(c)
  /\ CloseClient(c)
  /\ UNCHANGED ghostVars

(* One accept per event.  Websocket_server keeps connected_f empty.       *)
HandleAccept ==
  /\ Branch(Listener) = "in"
  /\ Handled(Listener)
  /\ backlog # <<>>
  /\ LET c == Head(backlog)
     IN /\ backlog' = Tail(backlog)
        /\ sock' = [sock EXCEPT ![c] = "open"]
        /\ clients' = clients \cup {c}
        /\ UNCHANGED <<inbuf, peer, full, sent>>
        /\ interest' = [interest EXCEPT ![c] = {"IN"}]
        /\ ready' = Rearm({c}, ready)
  /\ UNCHANGED <<st, waitClose, timer, hdr, dbuf, q, tasks, registry, ghostVars>>

(* accept() fails, for want of a descriptor: the event is used up, and    *)
(* the connection waits in the accept queue until another one arrives.    *)
HandleAcceptFails ==
  /\ "accept" \in Faults
  /\ Branch(Listener) = "in"
  /\ Handled(Listener)
  /\ UNCHANGED <<sockVars, clientVars, ghostVars>>

-----------------------------------------------------------------------------
(* Input: recv until the buffer is empty, then decode what was read. *)

(* Mutant: recv returns 0 and the loop only stops reading.                *)
RecvEofIgnored(c) ==
  /\ Branch(c) = "in"
  /\ c \in clients
  /\ peer[c] # "up"
  /\ Handled(c)
  /\ inbuf' = [inbuf EXCEPT ![c] = <<>>]
  /\ UNCHANGED <<sock, backlog, peer, full, sent, interest, ready, clientVars,
                 ghostVars>>

(* recv has returned 0: the client is deleted, and what was read before   *)
(* that is then decoded on the deleted client.                            *)
RecvEof(c) ==
  /\ Branch(c) = "in"
  /\ c \in clients
  /\ peer[c] # "up"
  /\ Handled(c)
  /\ CloseClient(c)
  /\ mem' = IF inbuf[c] = <<>> THEN mem ELSE "useAfterFree"
  /\ UNCHANGED <<lastMsg, lost>>

(* Mutant: recv is called once per event.                                 *)
ReceivedOnce(c) ==
  /\ Branch(c) = "in"
  /\ c \in clients
  /\ peer[c] = "up"
  /\ inbuf[c] # <<>>
  /\ Handled(c)
  /\ inbuf' = [inbuf EXCEPT ![c] = Tail(@)]
  /\ UNCHANGED <<sock, backlog, peer, full, sent>>

(* recv has read m and then EAGAIN; decode_proto_data starts with it.     *)
Received(c) ==
  /\ Branch(c) = "in"
  /\ c \in clients
  /\ peer[c] = "up"
  /\ inbuf[c] # <<>>
  /\ Handled(c)
  /\ inbuf' = [inbuf EXCEPT ![c] = <<>>]
  /\ UNCHANGED <<sock, backlog, peer, full, sent>>

NoSend == UNCHANGED <<q, interest, ready>>

First(c) == Head(inbuf[c]).kind

(* What websocket_shake_hands looks for in the headers of a request.  It  *)
(* comes all together in one request.  The header parser has no bound on  *)
(* its scans: in other units it may come upon anything.                   *)
Headers(k) ==
  CASE k = "hs" -> {"good"}
    [] k = "badhs" -> {"bad"}
    [] k = "nohs" -> {"none"}
    [] OTHER -> {"none", "good", "bad"}

(* Mutant: the headers of the latest request count.                       *)
LatestHeaders(c, h) == IF h = "none" THEN hdr[c] ELSE h

(* emplace keeps the values of an earlier request on the same connection. *)
KeptHeaders(c, h) == IF hdr[c] = "none" THEN h ELSE hdr[c]

(* decode_http_header returns true: the kept headers decide.              *)
RecvShake(c) ==
  /\ st[c] = "NONE"
  /\ Received(c)
  /\ \E h \in Headers(First(c)) :
       /\ hdr' = [hdr EXCEPT ![c] = KeptHeaders(c, h)]
       /\ \/ /\ KeptHeaders(c, h) = "good"
             /\ SendBuffer({c}, "101")
             /\ st' = [st EXCEPT ![c] = "WAIT_SHAKE"]
          \/ /\ KeptHeaders(c, h) # "good"
             /\ SendBuffer({c}, "close")
             /\ st' = st
  /\ UNCHANGED <<clients, waitClose, timer, dbuf, tasks, registry, ghostVars>>

(* decode_http_header returns false at an empty name or value, with the   *)
(* headers before it kept, or its scans run past the end of the buffer.   *)
RecvNotHttp(c) ==
  /\ st[c] = "NONE"
  /\ Received(c)
  /\ First(c) \notin HttpKinds
  /\ \E h \in Headers(First(c)) : hdr' = [hdr EXCEPT ![c] = KeptHeaders(c, h)]
  /\ mem' \in {mem, "overRead"}
  /\ NoSend
  /\ UNCHANGED <<clients, st, waitClose, timer, dbuf, tasks, registry,
                 lastMsg, lost>>

(* Fewer bytes than a frame header. *)
RecvShort(c) ==
  /\ st[c] # "NONE"
  /\ Received(c)
  /\ First(c) = "short"
  /\ waitClose' = [waitClose EXCEPT ![c] = TRUE]
  /\ SendBuffer({c}, "close")
  /\ UNCHANGED <<clients, st, timer, hdr, dbuf, tasks, registry, ghostVars>>

(* CLOSE from the peer: the reply is queued on a client that is deleted   *)
(* in the same call.                                                      *)
RecvClose(c) ==
  /\ st[c] # "NONE"
  /\ Branch(c) = "in"
  /\ c \in clients
  /\ peer[c] = "up"
  /\ inbuf[c] # <<>>
  /\ First(c) = "close"
  /\ ~waitClose[c]
  /\ Handled(c)
  /\ CloseClient(c)
  /\ UNCHANGED ghostVars

(* CLOSE after the server sent one: add_to_time_wheel_expire. *)
RecvCloseReply(c) ==
  /\ st[c] # "NONE"
  /\ Received(c)
  /\ First(c) = "close"
  /\ waitClose[c]
  /\ timer' = [timer EXCEPT ![c] = TRUE]
  /\ tasks' = [tasks EXCEPT ![c] = @ + 1]
  /\ NoSend
  /\ UNCHANGED <<clients, st, waitClose, hdr, dbuf, registry, ghostVars>>

(* Mutants: erase_task without a test that a task is filed, and without   *)
(* the reset of time_wheel_id_.                                           *)
RecvPongUntested(c) ==
  /\ st[c] # "NONE"
  /\ Received(c)
  /\ First(c) = "pong"
  /\ timer' = [timer EXCEPT ![c] = FALSE]
  /\ tasks' = [tasks EXCEPT ![c] = @ - 1]
  /\ NoSend
  /\ UNCHANGED <<clients, st, waitClose, hdr, dbuf, registry, ghostVars>>

RecvPongStaleId(c) ==
  /\ st[c] # "NONE"
  /\ Received(c)
  /\ First(c) = "pong"
  /\ tasks' = [tasks EXCEPT ![c] = IF timer[c] THEN @ - 1 ELSE @]
  /\ NoSend
  /\ UNCHANGED <<clients, st, waitClose, timer, hdr, dbuf, registry, ghostVars>>

(* PONG: remove_from_time_wheel if a task is filed. *)
RecvPong(c) ==
  /\ st[c] # "NONE"
  /\ Received(c)
  /\ First(c) = "pong"
  /\ timer' = [timer EXCEPT ![c] = FALSE]
  /\ tasks' = [tasks EXCEPT ![c] = IF timer[c] THEN @ - 1 ELSE @]
  /\ NoSend
  /\ UNCHANGED <<clients, st, waitClose, hdr, dbuf, registry, ghostVars>>

RecvPing(c) ==
  /\ st[c] # "NONE"
  /\ Received(c)
  /\ First(c) = "ping"
  /\ SendBuffer({c}, "pong")
  /\ UNCHANGED <<clients, st, waitClose, timer, hdr, dbuf, tasks, registry,
                 ghostVars>>

(* An HTTP request after the handshake reads as an unfinished frame of a  *)
(* reserved opcode ('G' = 0x47): no branch handles it.                    *)
RecvIgnored(c) ==
  /\ st[c] # "NONE"
  /\ Received(c)
  /\ First(c) \in HttpKinds
  /\ NoSend
  /\ UNCHANGED <<clients, st, waitClose, timer, hdr, dbuf, tasks, registry,
                 ghostVars>>

-----------------------------------------------------------------------------
(* decode_websocket_data_frame.  It joins the frames of the buffer up to  *)
(* the first finished one, whatever their opcodes; what follows is lost.  *)

Joined(m) ==
  LET finished == {i \in DOMAIN m : m[i].kind # "frag"}
  IN IF finished = {} THEN m ELSE SubSeq(m, 1, Min(finished))

ValidUtf8(s) == \A u \in ToSet(s) : u.kind # "badutf"

(* Mutant: decode_buffer_ is not cleared.                                 *)
CallbackKeepsBuffer(c, msg) ==
  /\ dbuf' = [dbuf EXCEPT ![c] = msg]
  /\ IF st[c] = "CONNECTED"
     THEN /\ SendBuffer({c}, "echo")
          /\ lastMsg' = [lastMsg EXCEPT ![c] = IF msg = <<>> THEN @ ELSE Last(msg).n]
     ELSE NoSend /\ lastMsg' = lastMsg

(* The receive callback of main.cpp, behind the CONNECTED test and the    *)
(* clear of register_recv_callback: echo what decode_buffer_ holds.       *)
Callback(c, msg) ==
  IF st[c] = "CONNECTED"
  THEN /\ SendBuffer({c}, "echo")
       /\ dbuf' = [dbuf EXCEPT ![c] = <<>>]
       /\ lastMsg' = [lastMsg EXCEPT ![c] = IF msg = <<>> THEN @ ELSE Last(msg).n]
  ELSE /\ NoSend
       /\ dbuf' = [dbuf EXCEPT ![c] = msg]
       /\ lastMsg' = lastMsg

(* A complete message: utf-8 is validated only when the first frame of    *)
(* the buffer is a finished text frame.                                   *)
RecvMessage(c) ==
  /\ st[c] # "NONE"
  /\ Received(c)
  /\ First(c) \in {"text", "badutf", "frag", "cont"}
  /\ LET frames == Joined(inbuf[c])
         msg == dbuf[c] \o frames
     IN /\ Last(frames).kind \notin {"frag", "bad"}
        /\ First(c) \in {"text", "badutf"} => ValidUtf8(msg)
        /\ Callback(c, msg)
  /\ UNCHANGED <<clients, st, waitClose, timer, hdr, tasks, registry, lost, mem>>

(* PROTOCOL_ERROR for a frame whose length does not fit the buffer,       *)
(* INTERNAL_UTF8 for invalid text: CLOSE is sent and nothing else changes;*)
(* what was decoded stays in decode_buffer_.                              *)
RecvBadMessage(c) ==
  /\ st[c] # "NONE"
  /\ Received(c)
  /\ First(c) \in {"text", "badutf", "frag", "cont", "bad"}
  /\ LET frames == Joined(inbuf[c])
         fits == SubSeq(frames, 1, Len(frames) - 1)
     IN \/ /\ Last(frames).kind = "bad"
           /\ dbuf' = [dbuf EXCEPT ![c] = @ \o fits]
        \/ /\ First(c) \in {"text", "badutf"}
           /\ ~ValidUtf8(dbuf[c] \o frames)
           /\ dbuf' = [dbuf EXCEPT ![c] = @ \o frames]
  /\ SendBuffer({c}, "close")
  /\ UNCHANGED <<clients, st, waitClose, timer, hdr, tasks, registry, ghostVars>>

(* Every frame read is unfinished: the loop reads one more header past    *)
(* the end of the buffer, a zero byte and a byte of whatever is there.    *)
RecvFragments(c) ==
  /\ st[c] # "NONE"
  /\ Received(c)
  /\ First(c) = "frag"
  /\ Last(Joined(inbuf[c])).kind = "frag"
  /\ dbuf' = [dbuf EXCEPT ![c] = @ \o inbuf[c]]
  /\ \/ NoSend /\ mem' = mem
     \/ SendBuffer({c}, "close") /\ mem' = mem
     \/ NoSend /\ mem' = "overRead"
  /\ UNCHANGED <<clients, st, waitClose, timer, hdr, tasks, registry,
                 lastMsg, lost>>

(* A finished frame of a reserved opcode reaches the callback with the    *)
(* decode_buffer_ of earlier frames.                                      *)
RecvOther(c) ==
  /\ st[c] # "NONE"
  /\ Received(c)
  /\ First(c) = "other"
  /\ Callback(c, dbuf[c])
  /\ UNCHANGED <<clients, st, waitClose, timer, hdr, tasks, registry, lost, mem>>

-----------------------------------------------------------------------------
(* Output: every queued buffer is popped and handed to send().  When the  *)
(* kernel has no room the rest of that buffer is dropped.                 *)

Flush(c) ==
  /\ Branch(c) = "out"
  /\ c \in clients
  /\ peer[c] = "rst" => q[c] = <<>>
  /\ Handled(c)
  /\ \E dropped, filled \in BOOLEAN :
       /\ dropped => filled
       /\ filled => "full" \in Faults
       /\ lost' = [lost EXCEPT ![c] = @ \/ dropped]
       /\ full' = [full EXCEPT ![c] = filled]
  /\ UNCHANGED <<sock, backlog, inbuf, peer, sent>>

(* Mutant: sent_f_ tests for not CONNECTED, not for WAIT_SHAKE.           *)
HandleSendJoinsAny(c) ==
  /\ st[c] # "WAIT_SHAKE"
  /\ Flush(c)
  /\ q' = [q EXCEPT ![c] = <<>>]
  /\ interest' = [interest EXCEPT ![c] = InterestIdle]
  /\ ready' = Rearm({c}, ready)
  /\ st' = [st EXCEPT ![c] = "CONNECTED"]
  /\ registry' = registry \cup {c}
  /\ UNCHANGED <<clients, waitClose, timer, hdr, dbuf, tasks, lastMsg, mem>>

(* Mutant: the registration keeps EPOLLOUT after the queue is flushed.    *)
HandleSendStaysArmed(c) ==
  /\ st[c] # "WAIT_SHAKE"
  /\ Flush(c)
  /\ q' = [q EXCEPT ![c] = <<>>]
  /\ UNCHANGED <<interest, clients, st, waitClose, timer, hdr, dbuf, tasks,
                 registry, lastMsg, mem>>
  /\ ready' = Rearm({c}, ready)

(* The registration falls back to input, then sent_f_ runs. *)
HandleSend(c) ==
  /\ st[c] # "WAIT_SHAKE"
  /\ Flush(c)
  /\ q' = [q EXCEPT ![c] = <<>>]
  /\ interest' = [interest EXCEPT ![c] = InterestIdle]
  /\ ready' = Rearm({c}, ready)
  /\ UNCHANGED <<clients, st, waitClose, timer, hdr, dbuf, tasks, registry,
                 lastMsg, mem>>

(* Mutants: sent_f_ runs first, then the registration falls back to input; *)
(* the greeting goes to clients_ instead of wb_clients; the client is put  *)
(* into wb_clients after the others have been greeted.                     *)
HandleSendShakeSwapped(c) ==
  /\ st[c] = "WAIT_SHAKE"
  /\ Flush(c)
  /\ st' = [st EXCEPT ![c] = "CONNECTED"]
  /\ registry' = registry \cup {c}
  /\ q' = [d \in Conns |->
             LET rest == IF d = c THEN <<>> ELSE q[d]
             IN IF d \in registry \cup {c} THEN Append(rest, "hello") ELSE rest]
  /\ interest' = [f \in Fds |-> IF f = c THEN InterestIdle
                                ELSE IF f \in registry THEN InterestSend
                                ELSE interest[f]]
  /\ ready' = Rearm(registry \cup {c}, ready)
  /\ UNCHANGED <<clients, waitClose, timer, hdr, dbuf, tasks, lastMsg, mem>>

HandleSendShakeToAll(c) ==
  /\ st[c] = "WAIT_SHAKE"
  /\ Flush(c)
  /\ st' = [st EXCEPT ![c] = "CONNECTED"]
  /\ registry' = registry \cup {c}
  /\ q' = [d \in Conns |->
             LET rest == IF d = c THEN <<>> ELSE q[d]
             IN IF d \in clients THEN Append(rest, "hello") ELSE rest]
  /\ interest' = [f \in Fds |-> IF f \in clients THEN InterestSend ELSE interest[f]]
  /\ ready' = Rearm(clients, ready)
  /\ UNCHANGED <<clients, waitClose, timer, hdr, dbuf, tasks, lastMsg, mem>>

HandleSendShakeLate(c) ==
  /\ st[c] = "WAIT_SHAKE"
  /\ Flush(c)
  /\ st' = [st EXCEPT ![c] = "CONNECTED"]
  /\ registry' = registry \cup {c}
  /\ q' = [d \in Conns |->
             LET rest == IF d = c THEN <<>> ELSE q[d]
             IN IF d \in registry THEN Append(rest, "hello") ELSE rest]
  /\ interest' = [f \in Fds |-> IF f \in registry THEN InterestSend
                                ELSE IF f = c THEN InterestIdle ELSE interest[f]]
  /\ ready' = Rearm(registry \cup {c}, ready)
  /\ UNCHANGED <<clients, waitClose, timer, hdr, dbuf, tasks, lastMsg, mem>>

(* The handshake response has been sent: CONNECTED, and main.cpp's        *)
(* connected callback greets every registered client, this one included.  *)
HandleSendShake(c) ==
  /\ st[c] = "WAIT_SHAKE"
  /\ Flush(c)
  /\ st' = [st EXCEPT ![c] = "CONNECTED"]
  /\ registry' = registry \cup {c}
  /\ q' = [d \in Conns |->
             LET rest == IF d = c THEN <<>> ELSE q[d]
             IN IF d \in registry \cup {c} THEN Append(rest, "hello") ELSE rest]
  /\ interest' = [f \in Fds |-> IF f \in registry \cup {c} THEN InterestSend
                                ELSE interest[f]]
  /\ ready' = Rearm(registry \cup {c}, ready)
  /\ UNCHANGED <<clients, waitClose, timer, hdr, dbuf, tasks, lastMsg, mem>>

(* send() fails otherwise than for want of room, because the peer has     *)
(* reset or for a reason of the kernel's: the client is deleted, and the  *)
(* loop over its queue goes on with the deleted client.                   *)
HandleSendError(c) ==
  /\ Branch(c) = "out"
  /\ c \in clients
  /\ peer[c] = "rst" \/ "send" \in Faults
  /\ q[c] # <<>>
  /\ Handled(c)
  /\ CloseClient(c)
  /\ mem' = "useAfterFree"
  /\ UNCHANGED <<lastMsg, lost>>

-----------------------------------------------------------------------------
HandleInput(c) ==
  \/ RecvEof(c)
  \/ RecvShake(c)
  \/ RecvNotHttp(c)
  \/ RecvShort(c)
  \/ RecvClose(c)
  \/ RecvCloseReply(c)
  \/ RecvPong(c)
  \/ RecvPing(c)
  \/ RecvIgnored(c)
  \/ RecvMessage(c)
  \/ RecvBadMessage(c)
  \/ RecvFragments(c)
  \/ RecvOther(c)

Loop ==
  \/ EpollWait
  \/ HandleAccept
  \/ HandleAcceptFails
  \/ \E c \in Conns :
       \/ HandleHup(c)
       \/ HandleInput(c)
       \/ HandleSend(c)
       \/ HandleSendShake(c)
       \/ HandleSendError(c)

World ==
  /\ mem = "ok"
  /\ Peers
  /\ UNCHANGED <<batch, clientVars, ghostVars>>

Next == Loop \/ World

(* start() never blocks except in epoll_wait, which returns while a       *)
(* descriptor is ready: the loop thread is scheduled.  Peers owe nothing. *)
Spec == Init /\ [][Next]_vars /\ WF_vars(Loop)

-----------------------------------------------------------------------------
(* Properties. *)

Queued(c) == ToSet(q[c])

(* The loop is told about output exactly when there is some: the interest *)
(* in EPOLLOUT that send_buffer sets and the output branch withdraws      *)
(* agrees with send_buffer_queue_, through the sends that callbacks make  *)
(* while a queue is being flushed.                                        *)
PendingIsArmed ==
  \A c \in clients : q[c] # <<>> <=> "OUT" \in interest[c]

(* No lost wakeup: although epoll reports an edge once, input or a        *)
(* hang-up that has not been acted on is always still going to be         *)
(* reported, because the input branch reads until EAGAIN.                 *)
InputNotLost ==
  \A c \in clients :
    inbuf[c] # <<>> \/ peer[c] # "up"
      => c \in ready \/ batch[c] \cap {"IN", "RDHUP", "HUP"} # {}

(* Events always find their client, and its descriptor is the open one    *)
(* that clients_ maps to it: the failures of clients_.find in start()     *)
(* cannot happen while one thread closes clients.                         *)
EventsFindClients ==
  /\ clients = {c \in Conns : Open(c)}
  /\ \A c \in Conns : batch[c] # {} \/ c \in ready => c \in clients

(* An event still has its cause when its turn in the batch comes, however *)
(* the handlers of the other events and the peers have acted since: accept *)
(* finds a connection, recv a byte or the end of the stream, and the       *)
(* output branch a message to send and room for it.                        *)
EventsHaveCause ==
  /\ batch[Listener] # {} => backlog # <<>>
  /\ \A c \in clients :
       /\ "IN" \in batch[c] => inbuf[c] # <<>> \/ peer[c] # "up"
       /\ "OUT" \in batch[c] => q[c] # <<>> /\ ~full[c]
       /\ batch[c] \cap {"HUP", "RDHUP"} # {} => peer[c] # "up"

(* main.cpp's set of raw client pointers holds exactly the live clients   *)
(* that are CONNECTED, so the broadcast never uses a deleted one.         *)
RegistryExact == registry = {c \in clients : st[c] = "CONNECTED"}

(* A client is WAIT_SHAKE while its 101 response is queued and not after, *)
(* and no message of the application is queued before that.               *)
ShakeFirst ==
  \A c \in clients :
    /\ st[c] = "WAIT_SHAKE" <=> "101" \in Queued(c)
    /\ Queued(c) \cap {"hello", "echo"} # {} => st[c] = "CONNECTED"

(* No payload reaches the callback twice or out of order: what waits in   *)
(* decode_buffer_ is ascending and newer than all that was delivered.     *)
InOrderOnce ==
  \A c \in clients :
    /\ \A i \in DOMAIN dbuf[c] : dbuf[c][i].n > lastMsg[c]
    /\ \A i, j \in DOMAIN dbuf[c] : i < j => dbuf[c][i].n < dbuf[c][j].n

(* The first upgrade headers of a connection decide for as long as it     *)
(* lives: after wrong ones no later request upgrades it, and without right *)
(* ones 101 is never queued for it.                                        *)
HeadersDecide ==
  [][\A c \in clients' :
       /\ hdr[c] = "bad" => hdr'[c] = "bad"
       /\ hdr'[c] # "good" => st'[c] = "NONE" /\ "101" \notin Queued(c)']_vars

(* Whenever erase_task is called its task is filed.  (erase_task of an    *)
(* unknown id returns with the wheel's lock held.)                        *)
ErasesFiledTask ==
  \A c \in clients : timer[c] => waitClose[c] /\ tasks[c] > 0

(* The sessions of main.cpp: the fields of clients, the queues and the    *)
(* set of pointers, through every handler and callback, are those of      *)
(* Sessions.  Each event is for the application and its peers one step    *)
(* of one session, or none, whatever else is in the batch.                *)
Phase(c) == IF Open(c) THEN st[c] ELSE sock[c]

Application == INSTANCE Sessions WITH
  arrivals <- backlog, phase <- [c \in Conns |-> Phase(c)], members <- registry,
  written <- sent, delivered <- lastMsg, outbox <- q

IsSessions == Application!Spec

(* A connection that its peer has ended is closed by the server.          *)
HangupCloses ==
  \A c \in Conns :
    (Open(c) /\ peer[c] # "up") ~> (~Open(c) \/ mem # "ok")

(* tcp_server.cpp:128-129, when the send buffer is full: wait for         *)
(* EPOLLOUT.  Queued data is not dropped while the connection is open.    *)
FullBufferWaits == \A c \in Conns : ~lost[c]

(* tcp_client.h:19, the queue is there so that one epoll_wait performs    *)
(* all the sends: what is queued is sent while the connection stays open. *)
QueueIsSent ==
  \A c \in Conns :
    (Open(c) /\ q[c] # <<>>) ~> (q[c] = <<>> \/ mem # "ok")
=============================================================================
