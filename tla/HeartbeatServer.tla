--------------------------- MODULE HeartbeatServer ---------------------------
(***************************************************************************)
(* Websocket_server with its heartbeat on, the default of the constructor: *)
(* the event loop and the wheel's worker are two threads that file, erase  *)
(* and call the tasks of the clients.  Frames and buffers are left out: a  *)
(* client is whether it lives and the two ids of its tasks.                *)
(***************************************************************************)
EXTENDS WheelThreads

CONSTANTS
  Clients,
  BeatWait,   \* default_heartbeat_time
  CloseWait,  \* default_expire_time
  Events      \* what the peers do in this instance

Tasks == [kind : {"beat", "close"}, client : Clients]
AllEvents == {"short", "error", "close", "pong", "hangup"}

ASSUME HeartbeatAssumption == Fns = Tasks /\ BeatWait \in Waits /\ CloseWait \in Waits

VARIABLES
  state,      \* "none", "open", "dropped" (no longer in clients_), "deleted"
  beatId,     \* time_wheel_heartbeat_id_
  closeId,    \* time_wheel_id_
  waitClose,  \* wait_close_
  job,        \* for each thread the client it serves and what it does next
  timedOut    \* close tasks that check has taken off id_map_

serverVars == <<state, beatId, closeId, waitClose, job, timedOut>>
vars == <<wheelVars, serverVars>>

Doings == {"nothing", "ping", "beat", "setBeat", "time", "setTime", "eraseTime", "noTime",
           "eraseBeat", "noBeat", "drop", "deleteTime", "deleteBeat", "delete"}

TypeOK ==
  /\ WheelTypeOK
  /\ state \in [Clients -> {"none", "open", "dropped", "deleted"}]
  /\ beatId \in [Clients -> Ids \cup {0}]
  /\ closeId \in [Clients -> Ids \cup {0}]
  /\ waitClose \in [Clients -> BOOLEAN]
  /\ job \in [Threads -> [client : Clients, does : Doings, closing : BOOLEAN]]
  /\ timedOut \in SUBSET Ids

Init ==
  /\ WheelInit
  /\ state = [c \in Clients |-> "none"]
  /\ beatId = [c \in Clients |-> 0]
  /\ closeId = [c \in Clients |-> 0]
  /\ waitClose = [c \in Clients |-> FALSE]
  /\ \E c \in Clients :
       job = [t \in Threads |-> [client |-> c, does |-> "nothing", closing |-> FALSE]]
  /\ timedOut = {}

-----------------------------------------------------------------------------
(* What handlers are made of: they erase tasks, and those that close go   *)
(* on with close_websocket_client, close_client and ~websocket_client.    *)

(* Mutant: ~websocket_client forgets the ping task. *)
AfterNoBeat(does, closing) ==
  CASE does \in {"eraseTime", "noTime"} /\ closing -> "eraseBeat"
    [] does \in {"eraseBeat", "noBeat"} /\ closing -> "drop"
    [] does = "drop" -> "deleteTime"
    [] does = "deleteTime" -> "delete"
    [] OTHER -> "nothing"

After(does, closing) ==
  CASE does \in {"eraseTime", "noTime"} /\ closing -> "eraseBeat"
    [] does \in {"eraseBeat", "noBeat"} /\ closing -> "drop"
    [] does = "drop" -> "deleteTime"
    [] does = "deleteTime" -> "deleteBeat"
    [] does = "deleteBeat" -> "delete"
    [] OTHER -> "nothing"

Doing(t, what) == Idle(t) /\ job[t].does = what
GoOn(t, what) == job' = [job EXCEPT ![t].does = what]
Done(t) == GoOn(t, After(job[t].does, job[t].closing))

(* add_to_time_wheel_heartbeat and add_to_time_wheel_expire.              *)
FileTask ==
  /\ \/ /\ Doing("caller", "beat")
        /\ AddTask([kind |-> "beat", client |-> job["caller"].client], BeatWait, FullCircle)
        /\ GoOn("caller", "setBeat")
     \/ /\ Doing("caller", "time")
        /\ AddTask([kind |-> "close", client |-> job["caller"].client], CloseWait, 1)
        /\ GoOn("caller", "setTime")
  /\ UNCHANGED <<state, beatId, closeId, waitClose, timedOut>>

(* Mutant: also when there is no close task. *)
EraseAny(t) ==
  LET c == job[t].client IN
  /\ \/ /\ Doing(t, "eraseBeat") /\ beatId[c] # 0
        /\ EraseTask(t, beatId[c]) /\ GoOn(t, "noBeat")
     \/ /\ Doing(t, "eraseTime")
        /\ EraseTask(t, closeId[c]) /\ GoOn(t, "noTime")
     \/ /\ Doing(t, "deleteTime") /\ closeId[c] # 0
        /\ EraseTask(t, closeId[c]) /\ Done(t)
     \/ /\ Doing(t, "deleteBeat") /\ beatId[c] # 0
        /\ EraseTask(t, beatId[c]) /\ Done(t)
  /\ UNCHANGED <<state, beatId, closeId, waitClose, timedOut>>

(* close_websocket_client, remove_from_time_wheel and the destructor erase *)
(* the tasks whose ids are set.                                           *)
EraseFiled(t) ==
  LET c == job[t].client IN
  /\ \/ /\ Doing(t, "eraseBeat") /\ beatId[c] # 0
        /\ EraseTask(t, beatId[c]) /\ GoOn(t, "noBeat")
     \/ /\ Doing(t, "eraseTime") /\ closeId[c] # 0
        /\ EraseTask(t, closeId[c]) /\ GoOn(t, "noTime")
     \/ /\ Doing(t, "deleteTime") /\ closeId[c] # 0
        /\ EraseTask(t, closeId[c]) /\ Done(t)
     \/ /\ Doing(t, "deleteBeat") /\ beatId[c] # 0
        /\ EraseTask(t, beatId[c]) /\ Done(t)
  /\ UNCHANGED <<state, beatId, closeId, waitClose, timedOut>>

EraseNothing(t) ==
  LET c == job[t].client IN
  /\ \/ (Doing(t, "eraseBeat") \/ Doing(t, "deleteBeat")) /\ beatId[c] = 0
     \/ (Doing(t, "eraseTime") \/ Doing(t, "deleteTime")) /\ closeId[c] = 0
  /\ Done(t)
  /\ UNCHANGED <<wheelVars, state, beatId, closeId, waitClose, timedOut>>

(* Mutants: an id is kept after its task has been erased. *)
SetIdsKeepBeat(t) ==
  LET c == job[t].client IN
  /\ \/ Doing(t, "setBeat") /\ beatId' = [beatId EXCEPT ![c] = arg[t]] /\ UNCHANGED closeId
     \/ Doing(t, "noBeat") /\ UNCHANGED <<beatId, closeId>>
     \/ Doing(t, "setTime") /\ closeId' = [closeId EXCEPT ![c] = arg[t]] /\ UNCHANGED beatId
     \/ Doing(t, "noTime") /\ closeId' = [closeId EXCEPT ![c] = 0] /\ UNCHANGED beatId
  /\ Done(t)
  /\ UNCHANGED <<wheelVars, state, waitClose, timedOut>>

SetIdsKeepTime(t) ==
  LET c == job[t].client IN
  /\ \/ Doing(t, "setBeat") /\ beatId' = [beatId EXCEPT ![c] = arg[t]] /\ UNCHANGED closeId
     \/ Doing(t, "noBeat") /\ beatId' = [beatId EXCEPT ![c] = 0] /\ UNCHANGED closeId
     \/ Doing(t, "setTime") /\ closeId' = [closeId EXCEPT ![c] = arg[t]] /\ UNCHANGED beatId
     \/ Doing(t, "noTime") /\ UNCHANGED <<beatId, closeId>>
  /\ Done(t)
  /\ UNCHANGED <<wheelVars, state, waitClose, timedOut>>

SetIds(t) ==
  LET c == job[t].client IN
  /\ \/ Doing(t, "setBeat") /\ beatId' = [beatId EXCEPT ![c] = arg[t]] /\ UNCHANGED closeId
     \/ Doing(t, "noBeat") /\ beatId' = [beatId EXCEPT ![c] = 0] /\ UNCHANGED closeId
     \/ Doing(t, "setTime") /\ closeId' = [closeId EXCEPT ![c] = arg[t]] /\ UNCHANGED beatId
     \/ Doing(t, "noTime") /\ closeId' = [closeId EXCEPT ![c] = 0] /\ UNCHANGED beatId
  /\ Done(t)
  /\ UNCHANGED <<wheelVars, state, waitClose, timedOut>>

Delete(t) ==
  /\ \/ Doing(t, "drop") /\ state' = [state EXCEPT ![job[t].client] = "dropped"]
     \/ Doing(t, "delete") /\ state' = [state EXCEPT ![job[t].client] = "deleted"]
     \/ Doing(t, "ping") /\ UNCHANGED state
  /\ Done(t)
  /\ UNCHANGED <<wheelVars, beatId, closeId, waitClose, timedOut>>

(* A step on a client that the other thread has deleted ends the program, *)
(* or finds the memory as it was (the other steps).                       *)
UseDeleted(t) ==
  /\ job[t].does # "nothing"
  /\ state[job[t].client] = "deleted"
  /\ Die
  /\ UNCHANGED serverVars

-----------------------------------------------------------------------------
(* Handlers of the event loop: they begin when the one before has ended.  *)

Handle(c, does, closing) ==
  /\ Doing("caller", "nothing")
  /\ job' = [job EXCEPT !["caller"] = [client |-> c, does |-> does, closing |-> closing]]
  /\ UNCHANGED <<wheelVars, beatId, closeId, timedOut>>

Files == Len(node) < MaxIds

(* Mutant: a client that is open may be upgraded again. *)
ShakeHandsAgain(c) ==
  /\ state[c] \in {"none", "open"}
  /\ Files
  /\ state' = [state EXCEPT ![c] = "open"]
  /\ Handle(c, "beat", FALSE)
  /\ UNCHANGED waitClose

(* The upgrade request of a connection: websocket_shake_hands, and the    *)
(* ping task.                                                             *)
ShakeHands(c) ==
  /\ state[c] = "none"
  /\ Files
  /\ state' = [state EXCEPT ![c] = "open"]
  /\ Handle(c, "beat", FALSE)
  /\ UNCHANGED waitClose

(* A frame of one byte: the server closes, and waits for the reply.       *)
ShortFrame(c) ==
  /\ state[c] = "open" /\ "short" \in Events
  /\ waitClose' = [waitClose EXCEPT ![c] = TRUE]
  /\ Handle(c, "eraseBeat", FALSE)
  /\ UNCHANGED state

(* A frame that is in error, or websocket_client::close.                  *)
BadFrame(c) ==
  /\ state[c] = "open" /\ "error" \in Events
  /\ Handle(c, "eraseBeat", FALSE)
  /\ UNCHANGED <<state, waitClose>>

CloseFrame(c) ==
  /\ state[c] = "open" /\ "close" \in Events
  /\ \/ waitClose[c] /\ Files /\ Handle(c, "time", FALSE)
     \/ ~waitClose[c] /\ Handle(c, "eraseTime", TRUE)
  /\ UNCHANGED <<state, waitClose>>

PongFrame(c) ==
  /\ state[c] = "open" /\ "pong" \in Events
  /\ Handle(c, "eraseTime", FALSE)
  /\ UNCHANGED <<state, waitClose>>

(* The loop calls close_client. *)
Hangup(c) ==
  /\ state[c] = "open" /\ "hangup" \in Events
  /\ Handle(c, "drop", TRUE)
  /\ UNCHANGED <<state, waitClose>>

(* The worker calls the closure of a task: add_to_time_wheel_heartbeat or *)
(* add_to_time_wheel_expire.                                              *)
CallTask(i) ==
  /\ Again(i) \/ Forget(i)
  /\ LET f == node[i].fn IN
     /\ job' = [job EXCEPT !["wheel"] =
          [client |-> f.client,
           does |-> IF f.kind = "beat" THEN "ping" ELSE "eraseBeat",
           closing |-> f.kind = "close"]]
     /\ timedOut' = timedOut \cup {j \in {i} : f.kind = "close"}
  /\ UNCHANGED <<state, beatId, closeId, waitClose>>

(* Steps of the wheel that concern no client. *)
WheelAlone ==
  /\ \/ Tick \/ Calls
     \/ Begin \/ Check \/ Sleep \/ Turn \/ Index \/ Cascade \/ Advance \/ Take
     \/ EndWalk \/ Crash
     \/ \E i \in Ids : Pour(i)
     \/ Return /\ job["wheel"].does = "nothing"
  /\ UNCHANGED serverVars

Serve ==
  \/ FileTask
  \/ \E t \in Threads :
       EraseFiled(t) \/ EraseNothing(t) \/ SetIds(t) \/ Delete(t) \/ UseDeleted(t)
  \/ \E c \in Clients :
       ShakeHands(c) \/ ShortFrame(c) \/ BadFrame(c) \/ CloseFrame(c) \/ PongFrame(c) \/ Hangup(c)
  \/ \E i \in Ids : CallTask(i)

Next == pc # "crashed" /\ (WheelAlone \/ Serve)

Spec == Init /\ [][Next]_vars

-----------------------------------------------------------------------------
(* The wheel's side of every step is one that WheelThreads allows its     *)
(* callers: what is proved there of any use holds of the server's.        *)
UsesWheel == WheelSpec

KindOf(i) == node[i].fn.kind
ClientOf(i) == node[i].fn.client

(* The id of a ping task that the server erases is always in the map, so  *)
(* that this never keeps the lock: whatever the worker does with its node *)
(* meanwhile, and although two threads close clients                      *)
(* (websocket_server.cpp:121, 131).                                       *)
EraseFindsBeat ==
  \A t \in Threads :
    Inside(t, "erase") /\ KindOf(arg[t]) = "beat" => where[arg[t]] # NotFiled

(* The lock is lost only after a close task has run out: in its closure,  *)
(* whose destructor erases the task itself, or when the loop erases it    *)
(* between its removal from the map and its call (time_wheel.h:97, 188).  *)
LostByTimeout == LockLost => timedOut # {}

(* The wheel keeps a ping task of a deleted client only if its node was   *)
(* erased under the hand of the worker, which then files the freed node   *)
(* again (time_wheel.h:180-185, websocket_server.cpp:132).                *)
OrphanWasFreed ==
  \A i \in Ids :
    where[i] # NotFiled /\ KindOf(i) = "beat" /\ state[ClientOf(i)] = "deleted" => i \in freed

(* Unless the loop is at work on a client, the wheel holds exactly the    *)
(* ping task whose id the client keeps: none of a client that has none,   *)
(* never a second one, and none is lost while the worker moves lists      *)
(* without the lock (time_wheel.h:156, 177, websocket_server.cpp:118,     *)
(* 249).                                                                  *)
PingOfClient ==
  \A c \in Clients :
    state[c] # "deleted" /\ (job["caller"].client = c => job["caller"].does = "nothing") =>
      {i \in Ids : where[i] # NotFiled /\ i \notin freed /\ KindOf(i) = "beat" /\ ClientOf(i) = c}
        = {beatId[c]} \ {0}

(* Expected to fail: the close task of a client that is still open, in a  *)
(* list of the wheel, will be called ("close automatically when no reply  *)
(* is received within 10 seconds", websocket_server.cpp:69).  Once the    *)
(* lock is lost the worker never gets to such a task, although no task of *)
(* that client has run out.                                               *)
CloseTimersRun ==
  LockLost =>
    \A i \in Ids :
      where[i] \in Slots /\ KindOf(i) = "close" /\ state[ClientOf(i)] = "open" =>
        \E j \in timedOut : ClientOf(j) = ClientOf(i)
=============================================================================
