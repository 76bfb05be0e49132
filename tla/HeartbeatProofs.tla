--------------------------- MODULE HeartbeatProofs ---------------------------
(***************************************************************************)
(* Proofs about HeartbeatServer: the server uses the wheel as WheelThreads *)
(* allows, so that what is proved there of any use holds of it, and which  *)
(* of its calls of erase_task can lose the lock.                           *)
(***************************************************************************)
EXTENDS HeartbeatServer, WheelThreadsProofs

Made == 1 .. Len(node)
Filed(i) == where[i] # NotFiled
Held(i) == Filed(i) /\ i \notin freed

(* The loop serves c and is at one of the points in D.                    *)
Serves(c, D) == job["caller"].client = c /\ job["caller"].does \in D

(* The ping task of c is erased, and none will be filed.                  *)
BeatOver(c) == beatId[c] = 0 /\ state[c] # "none" /\ ~Serves(c, {"beat", "setBeat"})

(* Ping tasks repeat for ever; close tasks are made when pings are over.  *)
Kinds ==
  \A i \in Made :
    /\ state[ClientOf(i)] # "none"
    /\ KindOf(i) = "beat" => node[i].circles = FullCircle
    /\ KindOf(i) = "close" => BeatOver(ClientOf(i))

Owned ==
  \A c \in Clients :
    /\ beatId[c] # 0 => beatId[c] \in Made /\ KindOf(beatId[c]) = "beat" /\ ClientOf(beatId[c]) = c
    /\ closeId[c] # 0 => closeId[c] \in Made /\ KindOf(closeId[c]) = "close" /\ ClientOf(closeId[c]) = c
    /\ waitClose[c] => BeatOver(c) \/ Serves(c, {"eraseBeat", "noBeat"})

(* The wheel's thread only pings, or closes a client after its time.      *)
WheelJob ==
  LET w == job["wheel"] IN
  /\ w.does \in {"nothing", "ping", "eraseBeat", "drop", "deleteTime", "deleteBeat", "delete"}
  /\ w.does \notin {"nothing", "ping"} => BeatOver(w.client) /\ timedOut # {}

LoopJob ==
  LET k == job["caller"] IN
  /\ k.does # "nothing" => state[k.client] # "none"
  /\ k.does # "ping"
  /\ op["caller"] = "init" => k.does = "nothing"
  /\ op["caller"] = "add" => k.does \in {"setBeat", "setTime"}
  /\ k.does \in {"time", "setTime"} => BeatOver(k.client)
  /\ k.does \in {"beat", "setBeat"} => beatId[k.client] = 0

(* The id that add_task is about to return to the loop is that of a task  *)
(* that it has filed.                                                     *)
IsNew(i) ==
  LET k == job["caller"] IN
  /\ ClientOf(i) = k.client
  /\ KindOf(i) = IF k.does = "setBeat" THEN "beat" ELSE "close"
  /\ op["caller"] = "none" /\ (k.does = "setBeat" \/ timedOut = {}) => Filed(i)
  /\ k.does = "setBeat" => i \notin freed

Setting ==
  job["caller"].does \in {"setBeat", "setTime"} =>
    op["caller"] \in {"none", "add"} /\ arg["caller"] \in Made /\ IsNew(arg["caller"])

(* Tasks being erased: ping tasks always, close tasks until one has run   *)
(* out, are in the map, and the loop does it for the client that has them. *)
IsErased(t, i) ==
  /\ KindOf(i) = "beat" =>
       /\ t = "caller" /\ Filed(i) /\ beatId[ClientOf(i)] = i
       /\ Serves(ClientOf(i), {"noBeat", "delete"})
  /\ KindOf(i) = "close" =>
       /\ t = "caller" => Serves(ClientOf(i), {"noTime", "deleteBeat"})
       /\ timedOut = {} => t = "caller" /\ Filed(i) /\ closeId[ClientOf(i)] = i

Erasing == \A t \in Threads : op[t] = "erase" => arg[t] \in Made /\ IsErased(t, arg[t])

Kept ==
  \A c \in Clients :
    /\ beatId[c] # 0 /\ ~Held(beatId[c])
         => Serves(c, {"noBeat", "delete"}) \/ state[c] = "deleted"
    /\ timedOut = {} /\ closeId[c] # 0 /\ ~Filed(closeId[c])
         => Serves(c, {"noTime", "deleteBeat", "delete"}) \/ state[c] = "deleted"
    /\ state[c] = "deleted" /\ Serves(c, Doings \ {"nothing"})
         => BeatOver(c) /\ timedOut # {}

(* A ping task in the map that was never freed belongs to a living client. *)
Belongs ==
  /\ \A i \in Made : KindOf(i) = "beat" /\ Held(i) =>
       /\ state[ClientOf(i)] # "deleted"
       /\ \/ beatId[ClientOf(i)] = i
          \/ Serves(ClientOf(i), {"setBeat"}) /\ arg["caller"] = i
  /\ LET k == job["caller"] IN
     Idle("caller") /\ k.does \in {"noBeat", "delete"} /\ beatId[k.client] # 0
       => ~Held(beatId[k.client])

ServerInv ==
  /\ Kinds /\ Owned /\ WheelJob /\ LoopJob /\ Setting /\ Erasing /\ Kept /\ Belongs

ServerTypes ==
  /\ state \in [Clients -> {"none", "open", "dropped", "deleted"}]
  /\ beatId \in [Clients -> Ids \cup {0}]
  /\ closeId \in [Clients -> Ids \cup {0}]
  /\ waitClose \in [Clients -> BOOLEAN]
  /\ job \in [Threads -> [client : Clients, does : Doings, closing : BOOLEAN]]
  /\ timedOut \in SUBSET Ids

-----------------------------------------------------------------------------
(* The server uses the wheel as any of its callers may.                   *)

LEMMA TaskOf ==
  ASSUME WheelInv, NEW i \in Ids, where[i] # NotFiled
  PROVE  i \in Made /\ node[i].fn \in Tasks
<1>1. i \in Made
  BY FiledIsMade DEF Made
<1>2. node[i] \in Nodes
  BY <1>1, ElementOfSeq DEF WheelInv, WheelTypeOK, Made
<1> QED
  BY <1>1, <1>2, HeartbeatAssumption DEF Nodes

LEMMA AfterTypes == ASSUME NEW d \in Doings, NEW b \in BOOLEAN PROVE After(d, b) \in Doings
BY DEF After, Doings

LEMMA StepUsesWheel ==
  ASSUME ServerTypes, [Next]_vars
  PROVE  [WheelNext]_wheelVars
<1> USE DEF Threads
<1>1. CASE WheelAlone
  BY <1>1 DEF Next, WheelNext, WheelAlone, Worker, AnyUse, vars, wheelVars
<1>2. ASSUME FileTask, pc # "crashed" PROVE WheelNext
  <2> DEFINE c == job["caller"].client
  <2>1. c \in Clients
    BY DEF ServerTypes
  <2>2. \A k \in {"beat", "close"} : [kind |-> k, client |-> c] \in Fns
    BY <2>1, HeartbeatAssumption DEF Tasks
  <2> HIDE DEF c
  <2>3. \E f \in Fns, w \in Waits, n \in {1, FullCircle} : AddTask(f, w, n)
    BY <1>2, <2>2, HeartbeatAssumption DEF FileTask, c
  <2> QED
    BY <1>2, <2>3 DEF WheelNext, AnyUse
<1>3. ASSUME NEW t \in Threads, EraseFiled(t), pc # "crashed" PROVE WheelNext
  <2>1. job[t].client \in Clients
    BY DEF ServerTypes
  <2>2. \E i \in Ids : EraseTask(t, i)
    BY <1>3, <2>1 DEF EraseFiled, ServerTypes
  <2> QED
    BY <1>3, <2>2 DEF WheelNext, AnyUse
<1>4. ASSUME NEW t \in Threads, EraseNothing(t) \/ SetIds(t) \/ Delete(t) PROVE UNCHANGED wheelVars
  BY <1>4 DEF EraseNothing, SetIds, Delete
<1>5. ASSUME NEW t \in Threads, UseDeleted(t), pc # "crashed" PROVE WheelNext
  BY <1>5 DEF UseDeleted, WheelNext, AnyUse
<1>6. ASSUME NEW c \in Clients,
             ShakeHands(c) \/ ShortFrame(c) \/ BadFrame(c) \/ CloseFrame(c) \/ PongFrame(c) \/ Hangup(c)
      PROVE  UNCHANGED wheelVars
  BY <1>6 DEF ShakeHands, ShortFrame, BadFrame, CloseFrame, PongFrame, Hangup, Handle
<1>7. ASSUME NEW i \in Ids, CallTask(i), pc # "crashed" PROVE WheelNext
  BY <1>7 DEF CallTask, WheelNext, Worker
<1>8. ASSUME Serve, pc # "crashed" PROVE WheelNext \/ UNCHANGED wheelVars
  BY <1>2, <1>3, <1>4, <1>5, <1>6, <1>7, <1>8 DEF Serve
<1>9. CASE UNCHANGED vars
  BY <1>9 DEF vars
<1> QED
  BY <1>1, <1>8, <1>9 DEF Next

(* What a thread does next is one of the things it can do.                *)
LEMMA GoOnTypes ==
  ASSUME ServerTypes, NEW t \in Threads, NEW d \in Doings, GoOn(t, d)
  PROVE  /\ job' \in [Threads -> [client : Clients, does : Doings, closing : BOOLEAN]]
         /\ job'[t] = [job[t] EXCEPT !.does = d]
         /\ \A u \in Threads \ {t} : job'[u] = job[u]
BY DEF ServerTypes, GoOn

LEMMA DoneTypes ==
  ASSUME ServerTypes, NEW t \in Threads, Done(t)
  PROVE  /\ job' \in [Threads -> [client : Clients, does : Doings, closing : BOOLEAN]]
         /\ job'[t] = [job[t] EXCEPT !.does = After(job[t].does, job[t].closing)]
         /\ \A u \in Threads \ {t} : job'[u] = job[u]
<1>1. job[t].does \in Doings /\ job[t].closing \in BOOLEAN
  BY DEF ServerTypes
<1> QED
  BY <1>1, AfterTypes, GoOnTypes DEF Done

LEMMA ServerTypesInv ==
  ASSUME WheelInv, ServerTypes, [Next]_vars
  PROVE  ServerTypes'
<1>1. CASE WheelAlone \/ UNCHANGED vars
  BY <1>1 DEF WheelAlone, serverVars, vars, ServerTypes
<1>2. CASE FileTask
  <2>1. PICK d \in Doings : GoOn("caller", d)
    BY <1>2 DEF FileTask, Doings
  <2> QED
    BY <1>2, <2>1, GoOnTypes DEF FileTask, ServerTypes, Threads
<1>3. CASE \E t \in Threads : EraseFiled(t) \/ EraseNothing(t)
  <2>1. PICK t \in Threads : EraseFiled(t) \/ EraseNothing(t)
    BY <1>3
  <2>2. Done(t) \/ \E d \in Doings : GoOn(t, d)
    BY <2>1 DEF EraseFiled, EraseNothing, Doings
  <2> QED
    BY <2>1, <2>2, GoOnTypes, DoneTypes DEF EraseFiled, EraseNothing, ServerTypes
<1>4. CASE \E t \in Threads : SetIds(t)
  <2>1. PICK t \in Threads : SetIds(t)
    BY <1>4
  <2>2. arg[t] \in Ids \cup {0}
    BY DEF WheelInv, WheelTypeOK
  <2>3. beatId' \in [Clients -> Ids \cup {0}] /\ closeId' \in [Clients -> Ids \cup {0}]
    BY <2>1, <2>2 DEF SetIds, ServerTypes
  <2> QED
    BY <2>1, <2>3, DoneTypes DEF SetIds, ServerTypes
<1>5. CASE \E t \in Threads : Delete(t)
  BY <1>5, DoneTypes DEF Delete, ServerTypes
<1>6. CASE \E t \in Threads : UseDeleted(t)
  BY <1>6 DEF UseDeleted, serverVars, ServerTypes
<1>7. ASSUME NEW c \in Clients, NEW d \in Doings, NEW b \in BOOLEAN, Handle(c, d, b)
      PROVE  job' \in [Threads -> [client : Clients, does : Doings, closing : BOOLEAN]]
  BY <1>7 DEF Handle, ServerTypes
<1>8. CASE \E c \in Clients : ShakeHands(c) \/ ShortFrame(c) \/ BadFrame(c)
  BY <1>7, <1>8 DEF ShakeHands, ShortFrame, BadFrame, Handle, Doings, ServerTypes
<1>9. CASE \E c \in Clients : CloseFrame(c) \/ PongFrame(c) \/ Hangup(c)
  BY <1>7, <1>9 DEF CloseFrame, PongFrame, Hangup, Handle, Doings, ServerTypes
<1>10. CASE \E i \in Ids : CallTask(i)
  <2>1. PICK i \in Ids : CallTask(i)
    BY <1>10
  <2>2. where[i] # NotFiled
    BY <2>1, NearOrLocalIsFiled DEF CallTask, Again, Forget, WheelInv, MapExact
  <2>3. node[i].fn \in Tasks
    BY <2>2, TaskOf
  <2>4. node[i].fn.client \in Clients /\ (node[i].fn.kind = "close") \in BOOLEAN
    BY <2>3 DEF Tasks
  <2>5. (IF node[i].fn.kind = "beat" THEN "ping" ELSE "eraseBeat") \in Doings
    BY DEF Doings
  <2>6. job' \in [Threads -> [client : Clients, does : Doings, closing : BOOLEAN]]
    BY <2>1, <2>4, <2>5 DEF CallTask, ServerTypes
  <2> QED
    BY <2>1, <2>6 DEF CallTask, ServerTypes
<1> QED
  BY <1>1, <1>2, <1>3, <1>4, <1>5, <1>6, <1>8, <1>9, <1>10 DEF Next, Serve

LEMMA InitTypes == Init => WheelInv /\ SoonInv /\ Handed /\ ServerTypes
<1> SUFFICES ASSUME Init PROVE WheelInv /\ SoonInv /\ Handed /\ ServerTypes
  OBVIOUS
<1>1. PICK c \in Clients :
        job = [t \in Threads |-> [client |-> c, does |-> "nothing", closing |-> FALSE]]
  BY DEF Init
<1>2. ServerTypes
  BY <1>1 DEF Init, ServerTypes, Doings
<1> QED
  BY <1>2, WheelInitInv, SoonInit, HandedInit DEF Init

LEMMA TypesHold == Spec => [](WheelInv /\ SoonInv /\ Handed /\ ServerTypes)
<1>1. WheelInv /\ SoonInv /\ Handed /\ ServerTypes /\ [Next]_vars
        => (WheelInv /\ SoonInv /\ Handed /\ ServerTypes)'
  BY StepUsesWheel, WheelNextInv, SoonNext, HandedNext, ServerTypesInv
<1> QED
  BY InitTypes, <1>1, PTL DEF Spec

(* What the loop and the worker do with the wheel for their clients is    *)
(* what WheelThreads allows any caller: HeartbeatServer implements it     *)
(* (websocket_server.cpp:118-136, 249-265).                               *)
THEOREM ServerUsesWheel == Spec => UsesWheel
<1>1. Init => WheelInit
  BY DEF Init
<1>2. WheelInv /\ SoonInv /\ ServerTypes /\ [Next]_vars => [WheelNext]_wheelVars
  BY StepUsesWheel
<1> QED
  BY TypesHold, <1>1, <1>2, PTL DEF Spec, UsesWheel, WheelSpec

(* The ids that a client keeps and the tasks that are made are within     *)
(* their types, whatever the two threads do at once.                      *)
THEOREM ServerTypesCorrect == Spec => []TypeOK
<1>1. WheelInv /\ SoonInv /\ ServerTypes => TypeOK
  BY DEF WheelInv, ServerTypes, TypeOK
<1> QED
  BY TypesHold, <1>1, PTL

(* The lock excludes, the map is exact, no task is called a turn early    *)
(* and none comes back once erased, for the server as for any use of the  *)
(* wheel.                                                                 *)
THEOREM ServerInherits ==
  Spec => []OneInside /\ []MapExact /\ AtMostATurnEarly /\ ErasedStaysErased
BY ServerUsesWheel, LockExcludes, MapIsExact, NeverFarEarly, ErasedIsGone, PTL DEF UsesWheel

-----------------------------------------------------------------------------
(* Which tasks are erased, kept and forgotten.  First the steps of the    *)
(* wheel that change neither a task nor what the loop does with one.      *)
USE DEF Threads, Made

LEMMA InitServer == Init => ServerInv
<1> SUFFICES ASSUME Init PROVE ServerInv
  OBVIOUS
<1>1. PICK c \in Clients :
        job = [t \in Threads |-> [client |-> c, does |-> "nothing", closing |-> FALSE]]
  BY DEF Init
<1> USE <1>1 DEF Init, WheelInit
<1>2. Kinds
  BY DEF Kinds
<1>3. Owned
  BY DEF Owned
<1>4. WheelJob /\ LoopJob /\ Setting
  BY DEF WheelJob, LoopJob, Setting
<1>5. Erasing
  BY DEF Erasing
<1>6. Kept
  BY DEF Kept
<1>7. Belongs
  BY DEF Belongs, Idle
<1> QED
  BY <1>2, <1>3, <1>4, <1>5, <1>6, <1>7 DEF ServerInv

LEMMA MadeAreIds == ASSUME WheelInv, NEW i \in Made PROVE i \in Ids
<1>1. Len(node) \in Nat /\ Len(node) <= MaxIds
  BY LenProperties DEF WheelInv, WheelTypeOK, TasksMade
<1> QED
  BY <1>1, Sizes DEF Ids

LEMMA JobTypes ==
  ASSUME ServerTypes, NEW t \in Threads
  PROVE  job[t].client \in Clients /\ job[t].does \in Doings /\ job[t].closing \in BOOLEAN
BY DEF ServerTypes

Quiet ==
  /\ node' = node /\ freed' = freed
  /\ \A i \in Ids : where'[i] = NotFiled <=> where[i] = NotFiled
  /\ op'["caller"] = op["caller"] /\ arg'["caller"] = arg["caller"]
  /\ step'["caller"] = "out" <=> step["caller"] = "out"
  /\ op'["wheel"] = "erase" => op["wheel"] = "erase" /\ arg'["wheel"] = arg["wheel"]

LEMMA QuietKeeps ==
  ASSUME WheelInv, ServerTypes, ServerInv, Quiet, UNCHANGED serverVars
  PROVE  ServerInv'
<1> USE DEF Quiet, serverVars
<1>1. \A i \in Made : i \in Ids
  BY MadeAreIds
<1>2. \A i \in Made : KindOf(i)' = KindOf(i) /\ ClientOf(i)' = ClientOf(i)
  BY DEF KindOf, ClientOf
<1>3. \A i \in Made : Filed(i)' = Filed(i) /\ Held(i)' = Held(i)
  BY <1>1 DEF Filed, Held
<1>4. \A c, D : Serves(c, D)' = Serves(c, D) /\ BeatOver(c)' = BeatOver(c)
  BY DEF Serves, BeatOver
<1>5. Kinds'
  BY <1>2, <1>4 DEF ServerInv, Kinds
<1>6. Owned'
  BY <1>2, <1>4 DEF ServerInv, Owned
<1>7. WheelJob'
  BY <1>4 DEF ServerInv, WheelJob
<1>8. LoopJob'
  BY <1>4 DEF ServerInv, LoopJob
<1>9. Setting'
  BY <1>2, <1>3 DEF ServerInv, Setting, IsNew
<1>10. Erasing'
  BY <1>2, <1>3, <1>4 DEF ServerInv, Erasing, IsErased
<1>11. Kept'
  BY <1>3, <1>4 DEF ServerInv, Kept, Owned
<1>12. Belongs'
  <2>1. Idle("caller")' = Idle("caller")
    BY DEF Idle
  <2>2. LET b == beatId[job["caller"].client] IN b # 0 => b \in Made
    BY JobTypes DEF ServerInv, Owned
  <2> QED
    BY <1>2, <1>3, <1>4, <2>1, <2>2 DEF ServerInv, Belongs
<1> QED
  BY <1>5, <1>6, <1>7, <1>8, <1>9, <1>10, <1>11, <1>12 DEF ServerInv

LEMMA QuietSteps ==
  ASSUME WheelInv, SoonInv, ServerTypes, ServerInv, UNCHANGED serverVars, pc # "crashed",
         \/ Tick \/ Begin \/ Check \/ Sleep \/ Turn \/ Index \/ Cascade \/ Advance \/ Take
         \/ EndWalk \/ Crash \/ Return
         \/ \E t \in Threads : Lock(t) \/ Place(t) \/ EraseElsewhere(t)
         \/ \E i \in Ids : Pour(i)
         \/ EraseUnknown("wheel")
  PROVE  ServerInv'
<1> USE DEF ServerInv, WheelInv, WheelTypeOK
<1>1. CASE Tick \/ Begin \/ Check \/ Sleep \/ Turn \/ Index \/ EndWalk \/ Crash \/ Return
  BY <1>1, QuietKeeps
     DEF Quiet, Tick, Begin, Check, Sleep, Turn, Index, EndWalk, Crash, Die, Return
<1>2. CASE \E t \in Threads : Lock(t) \/ Place(t) \/ EraseElsewhere(t)
  <2>1. Quiet
    BY <1>2 DEF Quiet, Lock, Place, EraseElsewhere, Die
  <2> QED
    BY <2>1, QuietKeeps
<1>3. CASE Cascade \/ Take
  <2>1. list[Local] = {}
    BY <1>3 DEF Cascade, Take, Inside, Roles, Between
  <2>2. PICK l \in Slots : TakeOut(l)
    <3>1. CASE Cascade
      BY <3>1, CascadedSlot DEF Cascade
    <3>2. CASE Take
      <4>1. tick % NearSlots \in 0 .. NearSlots - 1
        BY Sizes
      <4>2. tick % NearSlots \in Slots
        BY <4>1, Sizes DEF Slots
      <4> QED
        BY <3>2, <4>2 DEF Take
    <3> QED
      BY <1>3, <3>1, <3>2
  <2>3. \A i \in Ids : where'[i] = NotFiled => where[i] = NotFiled
    BY <2>2, NearOrLocalIsFiled DEF TakeOut
  <2>4. \A i \in Ids : where'[i] # NotFiled => where[i] # NotFiled
    BY <2>1, <2>2, TakeOutKeepsMap
  <2>5. op'["wheel"] \notin {"add", "erase"}
    BY <1>3 DEF Cascade, Take, Leave, Roles, Between, SoonInv, Filing
  <2>6. Quiet
    BY <1>3, <2>3, <2>4, <2>5 DEF Quiet, Cascade, Take, Leave
  <2> QED
    BY <2>5, <2>6, QuietKeeps
<1>4. CASE Advance
  <2>1. Quiet
    BY <1>4 DEF Quiet, Advance
  <2> QED
    BY <2>1, QuietKeeps
<1>5. ASSUME NEW i \in Ids, Pour(i) PROVE ServerInv'
  <2>1. where[i] = Local
    BY <1>5 DEF Pour, MapExact
  <2>2. Quiet
    BY <1>5, <2>1 DEF Quiet, Pour, Start
  <2> QED
    BY <2>2, QuietKeeps
<1>6. CASE EraseUnknown("wheel")
  <2>1. Quiet
    BY <1>6 DEF Quiet, EraseUnknown, Leave
  <2> QED
    BY <2>1, QuietKeeps
<1> QED
  BY <1>1, <1>2, <1>3, <1>4, <1>5, <1>6

(* Steps that file a task, erase one, or end a call of the loop.          *)
LEMMA SameClients ==
  ASSUME WheelInv, ServerTypes, ServerInv, UNCHANGED serverVars, node' = node
  PROVE  /\ Kinds' /\ Owned' /\ WheelJob'
         /\ \A i \in Made : i \in Ids /\ KindOf(i)' = KindOf(i) /\ ClientOf(i)' = ClientOf(i)
         /\ \A i \in Made : KindOf(i) \in {"beat", "close"} /\ ClientOf(i) \in Clients
         /\ \A c, D : Serves(c, D)' = Serves(c, D)
         /\ \A c : BeatOver(c)' = BeatOver(c)
<1> USE DEF serverVars
<1>1. \A i \in Made : i \in Ids /\ KindOf(i)' = KindOf(i) /\ ClientOf(i)' = ClientOf(i)
  BY MadeAreIds DEF KindOf, ClientOf
<1>2. \A c, D : Serves(c, D)' = Serves(c, D) /\ BeatOver(c)' = BeatOver(c)
  BY DEF Serves, BeatOver
<1>3. \A i \in Made : KindOf(i) \in {"beat", "close"} /\ ClientOf(i) \in Clients
  <2> SUFFICES ASSUME NEW i \in Made PROVE node[i].fn \in Tasks
    BY DEF KindOf, ClientOf, Tasks
  <2>1. node[i] \in Nodes
    BY ElementOfSeq DEF WheelInv, WheelTypeOK
  <2> QED
    BY <2>1, HeartbeatAssumption DEF Nodes
<1>4. Kinds' /\ Owned' /\ WheelJob'
  BY <1>1, <1>2 DEF ServerInv, Kinds, Owned, WheelJob
<1> QED
  BY <1>1, <1>2, <1>3, <1>4

(* A call of erase_task goes on when no task but a has left the map.      *)
LEMMA StillErased ==
  ASSUME WheelInv, ServerTypes, ServerInv, UNCHANGED serverVars, node' = node,
         NEW t \in Threads, NEW i \in Made, IsErased(t, i), Filed(i) => Filed(i)'
  PROVE  IsErased(t, i)'
BY SameClients DEF IsErased, serverVars

LEMMA FileKeeps ==
  ASSUME WheelInv, SoonInv, Handed, ServerTypes, ServerInv, UNCHANGED serverVars, NEW t \in Threads, File(t)
  PROVE  ServerInv'
<1> DEFINE a == arg[t]
<1>1. /\ op[t] = "add" /\ step[t] = "in" /\ a \in Made /\ dest[t] \in Slots
      /\ op' = [op EXCEPT ![t] = "none"] /\ step' = [step EXCEPT ![t] = "out"]
      /\ UNCHANGED <<node, freed, arg>>
  BY DEF File, Inside, Leave, WheelInv, WheelTypeOK, TasksMade
<1>2. a \in Ids /\ \A i \in Ids : where'[i] = IF i = a THEN dest[t] ELSE where[i]
  BY <1>1, MadeAreIds DEF File, Moved, WheelInv, WheelTypeOK
<1>3. \A i \in Made : Filed(i)' = (i = a \/ Filed(i))
  BY <1>1, <1>2, MadeAreIds, NearOrLocalIsFiled, Sizes DEF Filed, Slots, NotFiled, Local
<1> HIDE DEF a
<1>4. t = "wheel" => Filed(a) \/ a \in freed
  BY <1>1, NearOrLocalIsFiled DEF a, Handed, Filed
<1>5. t = "caller" => job[t].does \in {"setBeat", "setTime"}
  BY <1>1 DEF ServerInv, LoopJob
<1>6. \A u \in Threads : op'[u] # "none" => op'[u] = op[u] /\ u # t
  BY <1>1 DEF WheelInv, WheelTypeOK
<1>7. LoopJob' /\ Setting'
  <2>1. LoopJob'
    BY <1>1, <1>6, SameClients DEF ServerInv, LoopJob, serverVars
  <2>2. op'["caller"] \in {"none", op["caller"]}
    BY <1>1 DEF WheelInv, WheelTypeOK
  <2>3. ASSUME NEW i \in Made, i = arg["caller"], IsNew(i), op["caller"] \in {"none", "add"}
        PROVE  IsNew(i)'
    <3>1. t = "caller" => i = a
      BY <2>3 DEF a
    <3>2. op'["caller"] = "none" => op["caller"] = "none" \/ t = "caller"
      BY <1>1 DEF WheelInv, WheelTypeOK
    <3> QED
      BY <1>1, <1>3, <2>3, <3>1, <3>2, SameClients DEF IsNew, serverVars
  <2> QED
    BY <1>1, <2>1, <2>2, <2>3 DEF ServerInv, Setting, serverVars
<1>8. Erasing'
  BY <1>1, <1>3, <1>6, SameClients, StillErased DEF ServerInv, Erasing
<1>9. Kept'
  <2>1. \A i \in Made : (Filed(i) => Filed(i)') /\ (Held(i) => Held(i)')
    BY <1>1, <1>3 DEF Held
  <2>2. \A c \in Clients :
          /\ beatId[c] # 0 => beatId[c] \in Made
          /\ closeId[c] # 0 => closeId[c] \in Made
    BY DEF ServerInv, Owned
  <2> QED
    BY <1>1, <2>1, <2>2, SameClients DEF ServerInv, Kept, Filed, Held, serverVars
<1>10. Belongs'
  <2>1. \A i \in Made : Held(i)' => Held(i) \/ (t = "caller" /\ i = a)
    BY <1>1, <1>3, <1>4 DEF Held
  <2>2. ASSUME t = "caller", KindOf(a) = "beat"
        PROVE  /\ state[ClientOf(a)] # "deleted" /\ Serves(ClientOf(a), {"setBeat"})
               /\ arg["caller"] = a
    <3>1. job["caller"].does = "setBeat" /\ ClientOf(a) = job["caller"].client
      BY <1>1, <1>5, <2>2 DEF a, ServerInv, Setting, IsNew
    <3>2. ~BeatOver(ClientOf(a))
      BY <3>1 DEF BeatOver, Serves
    <3> QED
      BY <1>1, <2>2, <3>1, <3>2, SameClients DEF a, ServerInv, Kept, Serves, Doings
  <2>3. \A i \in Made : KindOf(i) = "beat" /\ Held(i)' =>
           /\ state[ClientOf(i)] # "deleted"
           /\ \/ beatId[ClientOf(i)] = i
              \/ Serves(ClientOf(i), {"setBeat"}) /\ arg["caller"] = i
    BY <2>1, <2>2 DEF ServerInv, Belongs
  <2>4. Idle("caller")' /\ job["caller"].does \in {"noBeat", "delete"} => t = "wheel" /\ Idle("caller")
    BY <1>1, <1>5 DEF Idle, WheelInv, WheelTypeOK
  <2>5. LET b == beatId[job["caller"].client] IN b # 0 => b \in Made
    BY JobTypes DEF ServerInv, Owned
  <2> QED
    BY <1>1, <2>1, <2>3, <2>4, <2>5, SameClients DEF ServerInv, Belongs, serverVars
<1> QED
  BY <1>1, <1>7, <1>8, <1>9, <1>10, SameClients DEF ServerInv

LEMMA EraseKeeps ==
  ASSUME WheelInv, SoonInv, ServerTypes, ServerInv, UNCHANGED serverVars, NEW t \in Threads,
         EraseKnown(t)
  PROVE  ServerInv'
<1> DEFINE a == arg[t]
<1>1. /\ op[t] = "erase" /\ step[t] = "in" /\ a \in Made /\ where[a] # NotFiled
      /\ op' = [op EXCEPT ![t] = "none"] /\ step' = [step EXCEPT ![t] = "out"]
      /\ UNCHANGED <<node, arg>>
      /\ freed' = freed \cup {i \in {a} : Referred(i)}
  BY DEF EraseKnown, Inside, Leave, ServerInv, Erasing
<1>2. a \in Ids /\ \A i \in Ids : where'[i] = IF i = a THEN NotFiled ELSE where[i]
  BY <1>1, MadeAreIds DEF EraseKnown, Moved, WheelInv, WheelTypeOK
<1>3. \A i \in Made : Filed(i)' = (i # a /\ Filed(i))
  BY <1>1, <1>2, MadeAreIds DEF Filed
<1>4. \A i \in Made : Held(i)' => i # a /\ Held(i)
  BY <1>1, <1>3 DEF Held
<1>5. /\ KindOf(a) = "beat" =>
           /\ t = "caller" /\ beatId[ClientOf(a)] = a
           /\ Serves(ClientOf(a), {"noBeat", "delete"})
      /\ KindOf(a) = "close" =>
           /\ t = "caller" => Serves(ClientOf(a), {"noTime", "deleteBeat"})
           /\ timedOut = {} => t = "caller" /\ closeId[ClientOf(a)] = a
  BY <1>1 DEF ServerInv, Erasing, IsErased
<1> HIDE DEF a
<1>6. \A u \in Threads : op'[u] # "none" => op'[u] = op[u] /\ u # t
  BY <1>1 DEF WheelInv, WheelTypeOK
<1>7. LoopJob' /\ Setting'
  <2>1. LoopJob'
    BY <1>1, <1>6, SameClients DEF ServerInv, LoopJob, serverVars
  <2>2. ASSUME job["caller"].does \in {"setBeat", "setTime"}
        PROVE  t = "wheel" /\ op'["caller"] = op["caller"]
    BY <1>1, <2>2 DEF ServerInv, Setting, WheelInv, WheelTypeOK
  <2>3. ASSUME NEW i \in Made, IsNew(i), t = "wheel", op'["caller"] = op["caller"]
        PROVE  IsNew(i)'
    <3>1. KindOf(a) = "close" /\ timedOut # {}
      BY <1>1, <1>5, <2>3, SameClients
    <3> QED
      BY <1>1, <1>3, <2>3, <3>1, SameClients DEF IsNew, serverVars
  <2> QED
    BY <1>1, <2>1, <2>2, <2>3 DEF ServerInv, Setting, serverVars
<1>8. Erasing'
  <2>1. ASSUME NEW u \in Threads, op[u] = "erase", u # t, arg[u] \in Made, IsErased(u, arg[u])
        PROVE  IsErased(u, arg[u])'
    <3>1. PICK i \in Made : i = arg[u]
      BY <2>1
    <3>2. IsErased(u, i)'
      BY <1>1, <1>3, <1>5, <2>1, <3>1, SameClients DEF IsErased, serverVars
    <3> QED
      BY <1>1, <3>1, <3>2 DEF IsErased, KindOf, ClientOf, Filed, Serves
  <2> QED
    BY <1>1, <1>6, <2>1 DEF ServerInv, Erasing
<1>9. Kept'
  <2>1. \A i \in Made : /\ Filed(i) => i = a \/ where'[i] # NotFiled
                        /\ Held(i) => i = a \/ (where'[i] # NotFiled /\ i \notin freed')
    BY <1>1, <1>3 DEF Filed, Held
  <2>2. \A c \in Clients :
          /\ beatId[c] # 0 =>
               beatId[c] \in Made /\ KindOf(beatId[c]) = "beat" /\ ClientOf(beatId[c]) = c
          /\ closeId[c] # 0 =>
               closeId[c] \in Made /\ KindOf(closeId[c]) = "close" /\ ClientOf(closeId[c]) = c
    BY DEF ServerInv, Owned
  <2>3. \A c \in Clients : beatId[c] = a /\ a # 0 => Serves(c, {"noBeat", "delete"})
    BY <1>5, <2>2
  <2>4. \A c \in Clients : timedOut = {} /\ closeId[c] = a /\ a # 0 =>
          Serves(c, {"noTime", "deleteBeat", "delete"})
    BY <1>5, <2>2 DEF Serves
  <2>5. ASSUME NEW c \in Clients, beatId[c] # 0,
               where'[beatId[c]] = NotFiled \/ beatId[c] \in freed'
        PROVE  Serves(c, {"noBeat", "delete"}) \/ state[c] = "deleted"
    <3>1. beatId[c] = a => Serves(c, {"noBeat", "delete"})
      BY <2>2, <2>3, <2>5 DEF Made
    <3>2. PICK i \in Made : i = beatId[c]
      BY <2>2, <2>5
    <3>3. i # a => ~Held(i)
      BY <2>1, <2>5, <3>2
    <3> QED
      BY <2>5, <3>1, <3>2, <3>3 DEF ServerInv, Kept
  <2>6. ASSUME NEW c \in Clients, timedOut = {}, closeId[c] # 0, where'[closeId[c]] = NotFiled
        PROVE  Serves(c, {"noTime", "deleteBeat", "delete"}) \/ state[c] = "deleted"
    <3>1. PICK i \in Made : i = closeId[c]
      BY <2>2, <2>6
    <3>2. i # a => ~Filed(i)
      BY <2>1, <2>6, <3>1
    <3> QED
      BY <2>4, <2>6, <3>1, <3>2 DEF ServerInv, Kept
  <2> QED
    BY <1>1, <2>5, <2>6, SameClients DEF ServerInv, Kept, Filed, Held, serverVars
<1>10. Belongs'
  <2>1. LET b == beatId[job["caller"].client] IN b # 0 => b \in Made
    BY JobTypes DEF ServerInv, Owned
  <2>2. ASSUME Idle("caller")', job["caller"].does \in {"noBeat", "delete"},
               beatId[job["caller"].client] # 0, ~Idle("caller")
        PROVE  beatId[job["caller"].client] = a
    <3>1. t = "caller"
      BY <1>1, <2>2 DEF Idle, WheelInv, WheelTypeOK
    <3> QED
      BY <1>1, <1>5, <2>2, <3>1, SameClients DEF Serves
  <2> QED
    BY <1>1, <1>4, <2>1, <2>2, SameClients DEF ServerInv, Belongs, serverVars
<1> QED
  BY <1>1, <1>7, <1>8, <1>9, <1>10, SameClients DEF ServerInv

LEMMA LoopEndsCall ==
  ASSUME WheelInv, SoonInv, ServerTypes, ServerInv, UNCHANGED serverVars,
         InitDone \/ EraseUnknown("caller")
  PROVE  ServerInv'
<1>1. /\ op' = [op EXCEPT !["caller"] = "none"] /\ UNCHANGED <<node, arg, where, freed>>
      /\ op["caller"] \in {"init", "erase"} /\ step["wheel"] = step'["wheel"]
      /\ op["caller"] = "erase" => where[arg["caller"]] = NotFiled
  BY DEF InitDone, EraseUnknown, Inside, Leave, WheelInv, WheelTypeOK
<1>2. \A i : Filed(i)' = Filed(i) /\ Held(i)' = Held(i)
  BY <1>1 DEF Filed, Held
<1>3. op'["caller"] = "none" /\ op'["wheel"] = op["wheel"]
  BY <1>1 DEF WheelInv, WheelTypeOK
<1>4. job["caller"].does \notin {"setBeat", "setTime", "noBeat", "delete"}
  <2>1. ASSUME op["caller"] = "erase"
        PROVE  job["caller"].does \in {"noTime", "deleteBeat"}
    <3>1. arg["caller"] \in Made /\ KindOf(arg["caller"]) = "close"
      BY <1>1, <2>1, SameClients DEF ServerInv, Erasing, IsErased, Filed
    <3> QED
      BY <2>1, <3>1 DEF ServerInv, Erasing, IsErased, Serves
  <2> QED
    BY <1>1, <2>1 DEF ServerInv, LoopJob
<1>5. LoopJob' /\ Setting'
  BY <1>1, <1>3, <1>4, SameClients DEF ServerInv, LoopJob, Setting, serverVars
<1>6. Erasing'
  BY <1>1, <1>2, <1>3, StillErased DEF ServerInv, Erasing
<1>7. Kept'
  BY <1>1, <1>2, SameClients DEF ServerInv, Kept, serverVars
<1>8. Belongs'
  BY <1>1, <1>2, <1>4, SameClients DEF ServerInv, Belongs, serverVars
<1> QED
  BY <1>1, <1>5, <1>6, <1>7, <1>8, SameClients DEF ServerInv

LEMMA AloneKeeps ==
  ASSUME WheelInv, SoonInv, Handed, ServerTypes, ServerInv, pc # "crashed", WheelAlone
  PROVE  ServerInv'
BY QuietSteps, FileKeeps, EraseKeeps, LoopEndsCall DEF WheelAlone, Calls

-----------------------------------------------------------------------------
(* Steps of the server. *)

LEMMA MadeTasks ==
  ASSUME WheelInv, NEW i \in Made
  PROVE  i \in Ids /\ KindOf(i) \in {"beat", "close"} /\ ClientOf(i) \in Clients
<1>1. node[i] \in Nodes
  BY ElementOfSeq DEF WheelInv, WheelTypeOK
<1>2. node[i].fn \in Tasks
  BY <1>1, HeartbeatAssumption DEF Nodes
<1> QED
  BY <1>2, MadeAreIds DEF KindOf, ClientOf, Tasks

(* add_task returns to the handler the id of the task that it has made.   *)
LEMMA FileTaskKeeps ==
  ASSUME WheelInv, SoonInv, ServerTypes, ServerInv, FileTask
  PROVE  ServerInv'
<1> DEFINE k == job["caller"]
<1>0. PICK n \in Nat : n = Len(node) + 1
  BY LenProperties DEF WheelInv, WheelTypeOK
<1>1. PICK kind \in {"beat", "close"}, w \in Waits, m \in {1, FullCircle} :
        /\ AddTask([kind |-> kind, client |-> k.client], w, m)
        /\ kind = "beat" => /\ k.does = "beat" /\ m = FullCircle
                            /\ GoOn("caller", "setBeat")
        /\ kind = "close" => k.does = "time" /\ GoOn("caller", "setTime")
  BY HeartbeatAssumption DEF FileTask, Doing
<1> DEFINE new == [expire |-> clock + w, interval |-> w, circles |-> m,
                   fn |-> [kind |-> kind, client |-> k.client]]
<1>2. /\ node' = Append(node, new) /\ node \in Seq(Nodes)
      /\ step["caller"] = "out" /\ Len(node) < MaxIds /\ Len(node) \in Nat
  BY <1>1, LenProperties DEF AddTask, Idle, WheelInv, WheelTypeOK
<1>3. new \in Nodes
  <2>1. k.client \in Clients /\ clock + w \in Nat /\ w \in Nat /\ m \in Nat \ {0}
    BY JobTypes, Sizes DEF WheelInv, WheelTypeOK
  <2>2. [kind |-> kind, client |-> k.client] \in Fns
    BY <2>1, HeartbeatAssumption DEF Tasks
  <2> QED
    BY <2>1, <2>2 DEF Nodes
<1>4. new.circles = m /\ new.fn.kind = kind /\ new.fn.client = k.client
  OBVIOUS
<1> HIDE DEF new
<1>5. /\ Len(node') = n /\ node'[n] = new /\ n \in Ids /\ n \notin Made
      /\ \A i \in Made : node'[i] = node[i]
      /\ Made' = Made \cup {n}
  BY <1>0, <1>2, <1>3, AppendProperties, Sizes DEF Ids
<1>6. /\ op' = [op EXCEPT !["caller"] = "add"] /\ step' = [step EXCEPT !["caller"] = "place"]
      /\ arg' = [arg EXCEPT !["caller"] = n] /\ op["caller"] = "none"
      /\ UNCHANGED <<where, freed>>
  BY <1>0, <1>1, <1>2, <1>5 DEF AddTask, Start, SoonInv, Filing
<1>7. /\ op'["caller"] = "add" /\ op'["wheel"] = op["wheel"] /\ step'["caller"] = "place"
      /\ arg'["caller"] = n /\ arg'["wheel"] = arg["wheel"]
  BY <1>6 DEF WheelInv, WheelTypeOK
<1>8. /\ job'["wheel"] = job["wheel"] /\ job'["caller"].client = k.client
      /\ job'["caller"].does = IF kind = "beat" THEN "setBeat" ELSE "setTime"
  BY <1>1 DEF GoOn, ServerTypes
<1>9. UNCHANGED <<state, beatId, closeId, waitClose, timedOut>>
  BY DEF FileTask
<1>10. \A c : BeatOver(c)' = BeatOver(c)
  BY <1>1, <1>8, <1>9 DEF BeatOver, Serves
<1>11. where[n] = NotFiled /\ n \notin freed
  <2>1. n <= Len(node) => n \in Made
    BY <1>5, LenProperties DEF Ids, WheelInv, WheelTypeOK
  <2> QED
    BY <1>5, <2>1 DEF WheelInv, TasksMade
<1>12. state[k.client] # "none" /\ (kind = "close" => BeatOver(k.client))
  BY <1>1 DEF ServerInv, LoopJob
<1>13. \A i \in Made : KindOf(i)' = KindOf(i) /\ ClientOf(i)' = ClientOf(i)
  BY <1>5 DEF KindOf, ClientOf
<1>14. Kinds'
  BY <1>1, <1>4, <1>5, <1>9, <1>10, <1>12, <1>13 DEF ServerInv, Kinds, KindOf, ClientOf
<1>15. Owned'
  <2> HIDE DEF Made
  <2> QED
    BY <1>1, <1>5, <1>8, <1>9, <1>10, <1>13 DEF ServerInv, Owned, Serves
<1>16. WheelJob' /\ LoopJob'
  BY <1>1, <1>7, <1>8, <1>9, <1>10, <1>12 DEF ServerInv, WheelJob, LoopJob
<1>17. Setting'
  <2>1. KindOf(n)' = kind /\ ClientOf(n)' = k.client
    BY <1>4, <1>5 DEF KindOf, ClientOf
  <2> HIDE DEF Made
  <2> QED
    BY <1>1, <1>5, <1>6, <1>7, <1>8, <1>11, <2>1 DEF Setting, IsNew, KindOf, ClientOf
<1>18. Erasing'
  <2>1. op["wheel"] = "erase" => arg["wheel"] \in Made /\ IsErased("wheel", arg["wheel"])
    BY DEF ServerInv, Erasing
  <2>2. ASSUME NEW i \in Made, IsErased("wheel", i) PROVE IsErased("wheel", i)'
    BY <1>9, <1>13, <2>2 DEF IsErased
  <2>3. op'["wheel"] = "erase" => arg'["wheel"] \in Made' /\ IsErased("wheel", arg["wheel"])'
    <3> HIDE DEF Made
    <3> QED
      BY <1>5, <1>7, <2>1, <2>2 DEF IsErased, KindOf, ClientOf
  <2> QED
    BY <1>7, <2>3 DEF Erasing, IsErased, KindOf, ClientOf
<1>19. Kept'
  BY <1>1, <1>6, <1>8, <1>9, <1>10 DEF ServerInv, Kept, Serves, Filed, Held, Doings
<1>20. Belongs'
  BY <1>1, <1>5, <1>6, <1>8, <1>9, <1>11, <1>13 DEF ServerInv, Belongs, Serves, Filed, Held
<1> QED
  BY <1>14, <1>15, <1>16, <1>17, <1>18, <1>19, <1>20 DEF ServerInv

LEMMA Afterwards ==
  \A b \in BOOLEAN :
    /\ After("noTime", b) \in {"nothing", "eraseBeat"}
    /\ After("eraseTime", b) \in {"nothing", "eraseBeat"}
    /\ After("noBeat", b) \in {"nothing", "drop"}
    /\ After("eraseBeat", b) \in {"nothing", "drop"}
    /\ After("drop", b) = "deleteTime"
    /\ After("deleteTime", b) = "deleteBeat"
    /\ After("deleteBeat", b) = "delete"
    /\ After("delete", b) = "nothing" /\ After("ping", b) = "nothing"
    /\ After("setBeat", b) = "nothing" /\ After("setTime", b) = "nothing"
BY DEF After

(* The wheel closes a client that has no ping task.                       *)
LEMMA WheelErasesClose ==
  ASSUME WheelInv, SoonInv, ServerTypes, ServerInv, EraseFiled("wheel")
  PROVE  ServerInv'
<1> DEFINE w == job["wheel"]
<1>1. w.client \in Clients /\ w.does \notin {"eraseTime", "nothing", "ping"}
  BY JobTypes DEF EraseFiled, Doing, ServerInv, WheelJob
<1>2. beatId[w.client] = 0 /\ timedOut # {}
  BY <1>1 DEF ServerInv, WheelJob, BeatOver
<1>3. PICK i \in Made : i = closeId[w.client]
  BY <1>1, <1>2 DEF EraseFiled, Doing, ServerInv, Owned
<1>4. KindOf(i) = "close"
  BY <1>1, <1>2, <1>3 DEF EraseFiled, ServerInv, Owned
<1>5. /\ w.does = "deleteTime" /\ closeId[w.client] # 0
      /\ EraseTask("wheel", i) /\ Done("wheel") /\ step["wheel"] = "out"
      /\ UNCHANGED <<state, beatId, closeId, waitClose, timedOut>>
  BY <1>1, <1>2, <1>3 DEF EraseFiled, Doing, Idle
<1>6. /\ job'["caller"] = job["caller"]
      /\ job'["wheel"] = [w EXCEPT !.does = "deleteBeat"]
  BY <1>5, DoneTypes, JobTypes, Afterwards
<1>7. job'["wheel"].client = w.client /\ job'["wheel"].does = "deleteBeat"
  BY <1>6, JobTypes DEF ServerTypes
<1>8. /\ UNCHANGED <<node, where, freed>>
      /\ op'["caller"] = op["caller"] /\ op'["wheel"] = "erase"
      /\ arg'["caller"] = arg["caller"] /\ arg'["wheel"] = i
      /\ step'["caller"] = step["caller"]
  BY <1>5 DEF EraseTask, Start, WheelInv, WheelTypeOK
<1>9. \A c, D : Serves(c, D)' = Serves(c, D)
  BY <1>6 DEF Serves
<1>10. \A c : BeatOver(c)' = BeatOver(c)
  BY <1>5, <1>9 DEF BeatOver
<1>11. \A j : KindOf(j)' = KindOf(j) /\ ClientOf(j)' = ClientOf(j) /\ Filed(j)' = Filed(j)
              /\ Held(j)' = Held(j)
  BY <1>8 DEF KindOf, ClientOf, Filed, Held
<1>12. Made' = Made
  BY <1>8
<1> HIDE DEF Made
<1>13. Kinds' /\ Owned'
  BY <1>5, <1>8, <1>9, <1>10, <1>11, <1>12 DEF ServerInv, Kinds, Owned
<1>14. WheelJob' /\ LoopJob'
  BY <1>2, <1>1, <1>5, <1>6, <1>7, <1>8, <1>10 DEF ServerInv, WheelJob, LoopJob
<1>15. Setting'
  BY <1>5, <1>6, <1>8, <1>11, <1>12 DEF ServerInv, Setting, IsNew
<1>16. Erasing'
  BY <1>2, <1>3, <1>4, <1>5, <1>8, <1>9, <1>11, <1>12 DEF ServerInv, Erasing, IsErased
<1>17. Kept'
  BY <1>5, <1>9, <1>10, <1>11 DEF ServerInv, Kept
<1>18. Belongs'
  BY <1>5, <1>6, <1>8, <1>9, <1>11, <1>12 DEF ServerInv, Belongs, Idle
<1> QED
  BY <1>13, <1>14, <1>15, <1>16, <1>17, <1>18 DEF ServerInv

(* The loop erases the task of an id that the client still has.           *)
LEMMA LoopErasesFiled ==
  ASSUME WheelInv, SoonInv, ServerTypes, ServerInv, EraseFiled("caller")
  PROVE  ServerInv'
<1> DEFINE k == job["caller"]
<1>1. PICK i \in Made, d \in {"noBeat", "noTime", "deleteBeat", "delete"},
           was \in {"eraseBeat", "eraseTime", "deleteTime", "deleteBeat"} :
        /\ EraseTask("caller", i) /\ GoOn("caller", d) /\ k.does = was
        /\ ClientOf(i) = k.client /\ i # 0
        /\ was \in {"eraseBeat", "deleteBeat"} =>
             /\ i = beatId[k.client] /\ KindOf(i) = "beat"
             /\ d = IF was = "eraseBeat" THEN "noBeat" ELSE "delete"
        /\ was \in {"eraseTime", "deleteTime"} =>
             /\ i = closeId[k.client] /\ KindOf(i) = "close"
             /\ d = IF was = "eraseTime" THEN "noTime" ELSE "deleteBeat"
  <2> k.client \in Clients /\ k.closing \in BOOLEAN
    BY JobTypes
  <2>1. beatId[k.client] # 0 => beatId[k.client] \in Made /\ KindOf(beatId[k.client]) = "beat"
                                /\ ClientOf(beatId[k.client]) = k.client
    BY DEF ServerInv, Owned
  <2>2. closeId[k.client] # 0 => closeId[k.client] \in Made /\ KindOf(closeId[k.client]) = "close"
                                 /\ ClientOf(closeId[k.client]) = k.client
    BY DEF ServerInv, Owned
  <2> HIDE DEF Made
  <2>3. CASE k.does \in {"eraseBeat", "deleteBeat"}
    BY <2>1, <2>3, Afterwards DEF EraseFiled, Doing, Done
  <2>4. CASE k.does \in {"eraseTime", "deleteTime"}
    BY <2>2, <2>4, Afterwards DEF EraseFiled, Doing, Done
  <2> QED
    BY <2>3, <2>4 DEF EraseFiled, Doing
<1>2. UNCHANGED <<state, beatId, closeId, waitClose, timedOut>> /\ step["caller"] = "out"
  BY DEF EraseFiled, Doing, Idle
<1>3. /\ job'["wheel"] = job["wheel"]
      /\ job'["caller"].client = k.client /\ job'["caller"].does = d
  BY <1>1 DEF GoOn, ServerTypes
<1>4. /\ UNCHANGED <<node, where, freed>>
      /\ op'["wheel"] = op["wheel"] /\ op'["caller"] = "erase"
      /\ arg'["wheel"] = arg["wheel"] /\ arg'["caller"] = i
      /\ step'["caller"] = "wait"
  BY <1>1 DEF EraseTask, Start, WheelInv, WheelTypeOK
<1>5. \A c : BeatOver(c)' = BeatOver(c)
  BY <1>1, <1>2, <1>3 DEF BeatOver, Serves
<1>6. \A j : KindOf(j)' = KindOf(j) /\ ClientOf(j)' = ClientOf(j) /\ Filed(j)' = Filed(j)
              /\ Held(j)' = Held(j)
  BY <1>4 DEF KindOf, ClientOf, Filed, Held
<1>7. Made' = Made /\ k.client \in Clients
  BY <1>4, JobTypes
<1>8. was \in {"eraseBeat", "deleteBeat"} \/ timedOut = {} => Filed(i)
  <2>1. state[k.client] = "deleted" => beatId[k.client] = 0 /\ timedOut # {}
    BY <1>1, <1>7 DEF ServerInv, Kept, Serves, Doings, BeatOver
  <2> QED
    BY <1>1, <1>7, <2>1 DEF ServerInv, Kept, Serves, Held
<1> HIDE DEF Made
<1>9. Kinds'
  BY <1>2, <1>4, <1>5, <1>6, <1>7 DEF ServerInv, Kinds
<1>10. Owned'
  BY <1>1, <1>2, <1>3, <1>5, <1>6, <1>7 DEF ServerInv, Owned, Serves
<1>11. WheelJob' /\ LoopJob' /\ Setting'
  BY <1>1, <1>2, <1>3, <1>4, <1>5 DEF ServerInv, WheelJob, LoopJob, Setting
<1>12. Erasing'
  BY <1>1, <1>2, <1>3, <1>4, <1>6, <1>7, <1>8 DEF ServerInv, Erasing, IsErased, Serves
<1>13. Kept'
  BY <1>1, <1>2, <1>3, <1>5, <1>6 DEF ServerInv, Kept, Serves, Doings
<1>14. Belongs'
  BY <1>1, <1>2, <1>3, <1>4, <1>6, <1>7 DEF ServerInv, Belongs, Idle, Serves
<1> QED
  BY <1>9, <1>10, <1>11, <1>12, <1>13, <1>14 DEF ServerInv

(* Steps that leave the wheel alone.                                      *)
LEMMA SameWheel ==
  ASSUME UNCHANGED wheelVars
  PROVE  /\ UNCHANGED <<node, where, freed, op, step, arg>> /\ Made' = Made
         /\ \A i : KindOf(i)' = KindOf(i) /\ ClientOf(i)' = ClientOf(i)
                   /\ Filed(i)' = Filed(i) /\ Held(i)' = Held(i)
         /\ Idle("caller")' = Idle("caller")
BY DEF wheelVars, KindOf, ClientOf, Filed, Held, Idle

LEMMA EraseNothingKeeps ==
  ASSUME WheelInv, SoonInv, ServerTypes, ServerInv, NEW t \in Threads, EraseNothing(t)
  PROVE  ServerInv'
<1> DEFINE j == job[t]
<1>1. j.client \in Clients /\ j.closing \in BOOLEAN /\ j.does \in Doings
  BY JobTypes
<1>2. PICK d \in {"nothing", "eraseBeat", "drop", "deleteBeat", "delete"} :
        /\ GoOn(t, d)
        /\ j.does \in {"eraseBeat", "deleteBeat", "eraseTime", "deleteTime"}
        /\ j.does = "eraseBeat" => d \in {"nothing", "drop"} /\ beatId[j.client] = 0
        /\ j.does = "deleteBeat" => d = "delete" /\ beatId[j.client] = 0
        /\ j.does = "eraseTime" => d \in {"nothing", "eraseBeat"}
        /\ j.does = "deleteTime" => d = "deleteBeat"
  BY <1>1, Afterwards DEF EraseNothing, Done, Doing
<1>3. UNCHANGED <<wheelVars, state, beatId, closeId, waitClose, timedOut>>
  BY DEF EraseNothing
<1>4. /\ \A u \in Threads : u # t => job'[u] = job[u]
      /\ job'[t].client = j.client /\ job'[t].does = d
  BY <1>2 DEF GoOn, ServerTypes
<1>5. \A c : BeatOver(c)' = BeatOver(c)
  BY <1>2, <1>3, <1>4 DEF BeatOver, Serves
<1>6. (t = "caller" /\ state[j.client] # "none") \/ t = "wheel"
  BY <1>2 DEF ServerInv, LoopJob
<1> HIDE DEF Made
<1>7. Kinds' /\ Owned'
  BY <1>2, <1>3, <1>4, <1>5, <1>6, SameWheel DEF ServerInv, Kinds, Owned, Serves, BeatOver
<1>8. WheelJob' /\ LoopJob' /\ Setting'
  BY <1>2, <1>3, <1>4, <1>5, SameWheel DEF ServerInv, WheelJob, LoopJob, Setting, IsNew
<1>9. Erasing'
  <2>1. t = "caller" => op["caller"] = "none"
    BY DEF EraseNothing, Doing, Idle, SoonInv, Filing
  <2> QED
    BY <1>3, <1>4, <2>1, SameWheel DEF ServerInv, Erasing, IsErased, Serves
<1>10. Kept'
  BY <1>2, <1>3, <1>4, <1>5, SameWheel DEF ServerInv, Kept, Serves, Doings
<1>11. Belongs'
  BY <1>2, <1>3, <1>4, SameWheel DEF ServerInv, Belongs, Serves
<1> QED
  BY <1>7, <1>8, <1>9, <1>10, <1>11 DEF ServerInv

(* Only the loop sets and clears ids: it files every task, and a client   *)
(* that the worker closes has no ping task.                               *)
LEMMA SetIdsKeeps ==
  ASSUME WheelInv, SoonInv, ServerTypes, ServerInv, NEW t \in Threads, SetIds(t)
  PROVE  ServerInv'
<1> DEFINE k == job["caller"]
<1>1. t = "caller"
  BY DEF SetIds, Doing, ServerInv, WheelJob
<1>2. k.client \in Clients /\ k.closing \in BOOLEAN
  BY JobTypes
<1>3. PICK c \in Clients, a \in Ids \cup {0} : c = k.client /\ a = arg["caller"]
  BY <1>2 DEF WheelInv, WheelTypeOK
<1>4. PICK d \in {"nothing", "eraseBeat", "drop"} :
        /\ GoOn("caller", d)
        /\ k.does \in {"setBeat", "noBeat", "setTime", "noTime"}
        /\ k.does = "setBeat" => d = "nothing"
        /\ k.does = "setTime" => d = "nothing"
        /\ k.does = "noTime" => d \in {"nothing", "eraseBeat"}
        /\ k.does = "noBeat" => d \in {"nothing", "drop"}
  BY <1>1, <1>2, Afterwards DEF SetIds, Done, Doing
<1>5. UNCHANGED <<wheelVars, state, waitClose, timedOut>>
  BY DEF SetIds
<1>6. /\ job'["wheel"] = job["wheel"]
      /\ job'["caller"].client = c /\ job'["caller"].does = d
  BY <1>3, <1>4 DEF GoOn, ServerTypes
<1>7. /\ \A b \in Clients : b # c => beatId'[b] = beatId[b] /\ closeId'[b] = closeId[b]
      /\ beatId'[c] = IF k.does = "setBeat" THEN a ELSE IF k.does = "noBeat" THEN 0 ELSE beatId[c]
      /\ closeId'[c] = IF k.does = "setTime" THEN a ELSE IF k.does = "noTime" THEN 0 ELSE closeId[c]
  BY <1>1, <1>3, <1>4 DEF SetIds, Doing, ServerTypes
<1>8. op["caller"] = "none" /\ state[c] # "none" /\ Idle("caller")
  BY <1>1, <1>3, <1>4 DEF SetIds, Doing, Idle, SoonInv, Filing, ServerInv, LoopJob
<1>9. /\ k.does \in {"setBeat", "setTime"} =>
           /\ a \in Made /\ ClientOf(a) = c
           /\ KindOf(a) = IF k.does = "setBeat" THEN "beat" ELSE "close"
           /\ k.does = "setBeat" \/ timedOut = {} => Filed(a)
           /\ k.does = "setBeat" => Held(a)
      /\ k.does = "setBeat" => beatId[c] = 0 /\ ~waitClose[c]
      /\ k.does = "setTime" => BeatOver(c)
      /\ k.does = "noBeat" /\ beatId[c] # 0 => ~Held(beatId[c])
  BY <1>3, <1>4, <1>8
     DEF ServerInv, Setting, IsNew, LoopJob, Owned, BeatOver, Serves, Belongs, Held
<1> HIDE DEF Made
<1>10. \A b \in Clients : BeatOver(b) => BeatOver(b)'
  BY <1>3, <1>4, <1>5, <1>6, <1>7 DEF BeatOver, Serves
<1>11. Kinds'
  <2>1. \A i \in Made : ClientOf(i) \in Clients
    BY MadeTasks
  <2> QED
    BY <1>5, <1>10, <2>1, SameWheel DEF ServerInv, Kinds
<1>12. Owned'
  <2>1. ASSUME NEW b \in Clients, waitClose[b]
        PROVE  BeatOver(b)' \/ Serves(b, {"eraseBeat", "noBeat"})'
    <3>1. CASE b = c /\ k.does = "noBeat"
      BY <1>4, <1>5, <1>6, <1>7, <1>8, <3>1 DEF BeatOver, Serves
    <3>2. CASE ~(b = c /\ k.does = "noBeat")
      BY <1>3, <1>4, <1>9, <1>10, <2>1, <3>2 DEF ServerInv, Owned, Serves
    <3> QED
      BY <3>1, <3>2
  <2> QED
    BY <1>4, <1>5, <1>7, <1>9, <2>1, SameWheel DEF ServerInv, Owned
<1>13. WheelJob'
  BY <1>5, <1>6, <1>10, JobTypes DEF ServerInv, WheelJob
<1>14. LoopJob' /\ Setting'
  BY <1>4, <1>5, <1>6, <1>8, SameWheel DEF LoopJob, Setting
<1>15. Erasing'
  BY <1>5, <1>8, SameWheel DEF ServerInv, Erasing, IsErased, Serves
<1>16. Kept'
  <2>1. \A i : Filed(i)' = Filed(i) /\ Held(i)' = Held(i)
    BY <1>5, SameWheel DEF Filed, Held
  <2> QED
    BY <1>3, <1>4, <1>5, <1>6, <1>7, <1>9, <1>10, <2>1, SameWheel DEF ServerInv, Kept, Serves, Doings
<1>17. Belongs'
  <2>1. \A i \in Made : ClientOf(i) \in Clients /\ i # 0
    BY MadeTasks DEF Made
  <2>2. ASSUME NEW i \in Made, KindOf(i) = "beat", Held(i)
        PROVE  state[ClientOf(i)] # "deleted" /\ beatId'[ClientOf(i)] = i
    BY <1>3, <1>4, <1>7, <1>9, <2>1, <2>2 DEF ServerInv, Belongs, Serves
  <2> QED
    BY <1>4, <1>5, <1>6, <2>2, SameWheel DEF Belongs
<1> QED
  BY <1>11, <1>12, <1>13, <1>14, <1>15, <1>16, <1>17 DEF ServerInv

LEMMA DeleteKeeps ==
  ASSUME WheelInv, SoonInv, ServerTypes, ServerInv, NEW t \in Threads, Delete(t)
  PROVE  ServerInv'
<1> DEFINE j == job[t]
<1>1. j.client \in Clients /\ j.closing \in BOOLEAN /\ j.does \in Doings
  BY JobTypes
<1>2. PICK d \in {"nothing", "deleteTime"}, c \in Clients :
        /\ GoOn(t, d) /\ j.does \in {"drop", "delete", "ping"} /\ c = j.client
        /\ j.does = "drop" => d = "deleteTime"
        /\ j.does \in {"delete", "ping"} => d = "nothing"
  BY <1>1, Afterwards DEF Delete, Done, Doing
<1>3. UNCHANGED <<wheelVars, beatId, closeId, waitClose, timedOut>>
  BY DEF Delete
<1>4. /\ \A u \in Threads : u # t => job'[u] = job[u]
      /\ job'[t].client = c /\ job'[t].does = d
  BY <1>2 DEF GoOn, ServerTypes
<1>5. /\ \A b \in Clients : b # c => state'[b] = state[b]
      /\ j.does = "drop" => state'[c] = "dropped"
      /\ j.does = "delete" => state'[c] = "deleted"
      /\ j.does = "ping" => state'[c] = state[c] /\ t = "wheel"
  BY <1>2 DEF Delete, Doing, ServerTypes, ServerInv, LoopJob
<1>6. /\ j.does \in {"drop", "delete"} => state[c] # "none"
      /\ j.does \in {"drop", "delete"} /\ (t = "wheel" \/ state[c] = "deleted")
           => BeatOver(c) /\ timedOut # {}
  BY <1>2 DEF ServerInv, LoopJob, WheelJob, BeatOver, Kept, Serves, Doings
<1>7. \A b \in Clients : state'[b] = "none" <=> state[b] = "none"
  BY <1>2, <1>5, <1>6
<1>8. \A b \in Clients : BeatOver(b)' = BeatOver(b)
  BY <1>2, <1>3, <1>4, <1>7 DEF BeatOver, Serves
<1>9. \A i \in Made : ClientOf(i) \in Clients /\ i # 0
  BY MadeTasks
<1>10. t = "caller" => Idle("caller") /\ op["caller"] = "none"
  BY DEF Delete, Doing, Idle, SoonInv, Filing
<1> HIDE DEF Made
<1>11. Kinds' /\ Owned'
  BY <1>2, <1>3, <1>4, <1>7, <1>8, <1>9, SameWheel DEF ServerInv, Kinds, Owned, Serves
<1>12. WheelJob'
  BY <1>2, <1>3, <1>4, <1>6, <1>8, JobTypes DEF ServerInv, WheelJob
<1>13. LoopJob' /\ Setting'
  BY <1>2, <1>3, <1>4, <1>7, <1>8, SameWheel, JobTypes DEF ServerInv, LoopJob, Setting, IsNew
<1>14. Erasing'
  BY <1>3, <1>4, <1>10, SameWheel DEF ServerInv, Erasing, IsErased, Serves
<1>15. Kept'
  BY <1>2, <1>3, <1>4, <1>5, <1>6, <1>8, SameWheel DEF ServerInv, Kept, Serves, Doings, BeatOver
<1>16. Belongs'
  <2>1. ASSUME NEW i \in Made, KindOf(i) = "beat", Held(i)
        PROVE  /\ state'[ClientOf(i)] # "deleted"
               /\ \/ beatId[ClientOf(i)] = i
                  \/ Serves(ClientOf(i), {"setBeat"})' /\ arg["caller"] = i
    <3>1. /\ state[ClientOf(i)] # "deleted"
          /\ \/ beatId[ClientOf(i)] = i
             \/ Serves(ClientOf(i), {"setBeat"}) /\ arg["caller"] = i
      BY <2>1 DEF ServerInv, Belongs
    <3>2. ASSUME ClientOf(i) = c, j.does = "delete" PROVE FALSE
      <4>1. CASE t = "wheel"
        BY <1>6, <1>9, <3>1, <3>2, <4>1 DEF BeatOver, Serves
      <4>2. CASE t = "caller"
        BY <1>2, <1>9, <1>10, <2>1, <3>1, <3>2, <4>2 DEF ServerInv, Belongs, Serves
      <4> QED
        BY <4>1, <4>2
    <3>3. state'[ClientOf(i)] # "deleted"
      BY <1>2, <1>5, <1>9, <3>1, <3>2
    <3>4. Serves(ClientOf(i), {"setBeat"}) => Serves(ClientOf(i), {"setBeat"})'
      <4>1. Serves(ClientOf(i), {"setBeat"}) => t = "wheel"
        BY <1>2 DEF Serves
      <4>2. t = "wheel" => job'["caller"] = job["caller"]
        BY <1>4
      <4> QED
        BY <1>3, <4>1, <4>2, SameWheel DEF Serves
    <3> QED
      BY <3>1, <3>3, <3>4
  <2> QED
    BY <1>2, <1>3, <1>4, <2>1, SameWheel DEF ServerInv, Belongs
<1> QED
  BY <1>11, <1>12, <1>13, <1>14, <1>15, <1>16 DEF ServerInv

LEMMA UseDeletedKeeps ==
  ASSUME WheelInv, SoonInv, ServerTypes, ServerInv, NEW t \in Threads, UseDeleted(t)
  PROVE  ServerInv'
<1>1. Quiet /\ UNCHANGED serverVars
  BY DEF UseDeleted, Die, Quiet
<1> QED
  BY <1>1, QuietKeeps

(* A handler begins when the loop serves nobody: of the upgrade, with a   *)
(* client that has no task; of a frame, with one that is open.            *)
LEMMA HandlerKeeps ==
  ASSUME WheelInv, SoonInv, ServerTypes, ServerInv, NEW c \in Clients,
         \/ ShakeHands(c) \/ ShortFrame(c) \/ BadFrame(c) \/ CloseFrame(c)
         \/ PongFrame(c) \/ Hangup(c)
  PROVE  ServerInv'
<1> DEFINE k == job["caller"]
<1>1. PICK d \in {"beat", "eraseBeat", "time", "eraseTime", "drop"} :
        /\ job'["wheel"] = job["wheel"]
        /\ job'["caller"].client = c /\ job'["caller"].does = d
        /\ d = "beat" => ShakeHands(c)
        /\ d = "time" => waitClose[c]
        /\ ShakeHands(c) => d = "beat"
        /\ ShortFrame(c) => d = "eraseBeat"
  <2>1. ASSUME NEW d \in Doings, NEW b \in BOOLEAN, Handle(c, d, b)
        PROVE  /\ job'["wheel"] = job["wheel"]
               /\ job'["caller"].client = c /\ job'["caller"].does = d
    BY <2>1 DEF Handle, ServerTypes
  <2> USE <2>1 DEF Doings
  <2>2. CASE ShakeHands(c)
    BY <2>2 DEF ShakeHands, ShortFrame
  <2>3. CASE ShortFrame(c)
    BY <2>3 DEF ShakeHands, ShortFrame
  <2>4. CASE BadFrame(c)
    BY <2>4 DEF BadFrame, ShakeHands
  <2>5. CASE CloseFrame(c)
    BY <2>5 DEF CloseFrame, ShakeHands, ShortFrame
  <2>6. CASE PongFrame(c) \/ Hangup(c)
    BY <2>6 DEF PongFrame, Hangup, ShakeHands, ShortFrame
  <2> QED
    BY <2>2, <2>3, <2>4, <2>5, <2>6
<1>2. UNCHANGED <<wheelVars, beatId, closeId, timedOut>> /\ k.does = "nothing" /\ Idle("caller")
  BY DEF ShakeHands, ShortFrame, BadFrame, CloseFrame, PongFrame, Hangup, Handle, Doing
<1>3. /\ \A b \in Clients : b # c => state'[b] = state[b] /\ waitClose'[b] = waitClose[b]
      /\ state'[c] = "open"
      /\ state[c] = IF d = "beat" THEN "none" ELSE "open"
      /\ waitClose'[c] => waitClose[c] \/ d = "eraseBeat"
  BY <1>1 DEF ShakeHands, ShortFrame, BadFrame, CloseFrame, PongFrame, Hangup, ServerTypes
<1>4. \A b \in Clients : \A D : Serves(b, D) => "nothing" \in D
  BY <1>2 DEF Serves
<1>5. \A i \in Made : ClientOf(i) \in Clients
  BY MadeTasks
<1>6. d = "beat" => beatId[c] = 0 /\ ~waitClose[c]
  <2>1. beatId[c] # 0 => state[c] # "none"
    BY DEF ServerInv, Owned, Kinds
  <2>2. waitClose[c] => state[c] # "none"
    BY <1>4 DEF ServerInv, Owned, BeatOver
  <2> QED
    BY <1>3, <2>1, <2>2
<1> HIDE DEF Made
<1>7. \A b \in Clients : BeatOver(b) => BeatOver(b)'
  BY <1>1, <1>2, <1>3 DEF BeatOver, Serves
<1>8. Kinds'
  BY <1>2, <1>3, <1>5, <1>7, SameWheel DEF ServerInv, Kinds
<1>9. Owned'
  BY <1>1, <1>2, <1>3, <1>4, <1>6, <1>7, SameWheel DEF ServerInv, Owned, Serves
<1>10. WheelJob'
  BY <1>1, <1>2, <1>7, JobTypes DEF ServerInv, WheelJob
<1>11. op["caller"] = "none"
  BY <1>2 DEF Idle, SoonInv, Filing
<1>12. LoopJob' /\ Setting'
  <2>1. d = "time" => BeatOver(c)'
    BY <1>1, <1>4, <1>7 DEF ServerInv, Owned
  <2> QED
    BY <1>1, <1>2, <1>3, <1>6, <1>11, <2>1, SameWheel DEF LoopJob, Setting
<1>13. Erasing'
  BY <1>2, <1>11, SameWheel DEF ServerInv, Erasing, IsErased
<1>14. Kept'
  BY <1>1, <1>2, <1>3, <1>4, SameWheel DEF ServerInv, Kept, Serves
<1>15. Belongs'
  BY <1>1, <1>2, <1>3, <1>4, <1>5, SameWheel DEF ServerInv, Belongs
<1> QED
  BY <1>8, <1>9, <1>10, <1>12, <1>13, <1>14, <1>15 DEF ServerInv

(* The worker has at hand a task whose time has come: one that repeats, a *)
(* ping, or one that has been called for the last time.                   *)
LEMMA CallTaskKeeps ==
  ASSUME WheelInv, SoonInv, ServerTypes, ServerInv, NEW i \in Ids, CallTask(i)
  PROVE  ServerInv'
<1>1. where[i] = Local /\ op["wheel"] = "none" /\ i \in list[Local]
  BY DEF CallTask, Again, Forget, WheelInv, MapExact, SoonInv, Filing, Idle
<1>2. i \in Made
  BY <1>1, FiledIsMade, NearOrLocalIsFiled
<1>3. KindOf(i) \in {"beat", "close"} /\ ClientOf(i) \in Clients
  BY <1>2, MadeTasks
<1>4. /\ job'["caller"] = job["caller"] /\ job'["wheel"].client = ClientOf(i)
      /\ job'["wheel"].does = IF KindOf(i) = "beat" THEN "ping" ELSE "eraseBeat"
      /\ timedOut' = timedOut \cup {j \in {i} : KindOf(i) = "close"}
      /\ UNCHANGED <<state, beatId, closeId, waitClose>>
  BY DEF CallTask, KindOf, ClientOf, ServerTypes
<1>5. KindOf(i) = "close" => BeatOver(ClientOf(i)) /\ timedOut' # {}
  BY <1>2, <1>4 DEF ServerInv, Kinds
<1>6. timedOut' = {} => timedOut = {}
  BY <1>4
<1>7. \A c, D : Serves(c, D)' = Serves(c, D)
  BY <1>4 DEF Serves
<1>8. \A c : BeatOver(c)' = BeatOver(c)
  BY <1>4, <1>7 DEF BeatOver
<1>9. \A j \in Made : j \in Ids
  BY MadeAreIds
<1>10. /\ Made' = Made /\ UNCHANGED freed
       /\ \A j \in Made : KindOf(j)' = KindOf(j) /\ ClientOf(j)' = ClientOf(j)
                         /\ (Filed(j)' = Filed(j) \/ (j = i /\ KindOf(i) = "close"))
                         /\ (Held(j)' => Held(j))
                         /\ (KindOf(j) = "beat" => Held(j)' = Held(j))
                         /\ (KindOf(j) = "beat" => node'[j].circles = FullCircle)
  <2>1. CASE Again(i)
    <3>1. node' = [node EXCEPT ![i] = Repeated(node[i])] /\ node \in Seq(Nodes)
      BY <2>1 DEF Again, WheelInv, WheelTypeOK
    <3>2. node[i] \in Nodes
      BY <1>2, <3>1, ElementOfSeq
    <3>3. /\ Repeated(node[i]).fn = node[i].fn
          /\ node[i].circles = FullCircle => Repeated(node[i]).circles = FullCircle
      BY <3>2 DEF Repeated, Nodes
    <3>4. DOMAIN node = Made /\ Len(node') = Len(node)
      BY <3>1
    <3>5. \A j \in Made : node'[j] = IF j = i THEN Repeated(node[i]) ELSE node[j]
      BY <3>1, <3>4
    <3> QED
      BY <1>2, <2>1, <3>3, <3>4, <3>5
         DEF Again, KindOf, ClientOf, Filed, Held, ServerInv, Kinds
  <2>2. CASE Forget(i)
    <3>1. KindOf(i) # "beat"
      BY <1>2, <2>2, Sizes DEF Forget, ServerInv, Kinds
    <3>2. \A j \in Ids : where'[j] = IF j = i THEN NotFiled ELSE where[j]
      BY <2>2 DEF Forget, Moved, WheelInv, WheelTypeOK
    <3> QED
      BY <1>3, <1>9, <2>2, <3>1, <3>2
         DEF Forget, KindOf, ClientOf, Filed, Held, ServerInv, Kinds
  <2> QED
    BY <2>1, <2>2 DEF CallTask
<1>11. /\ op'["caller"] = op["caller"] /\ arg'["caller"] = arg["caller"]
       /\ op'["wheel"] # "erase" /\ Idle("caller")' = Idle("caller")
  BY <1>1 DEF CallTask, Again, Forget, Start, Idle, WheelInv, WheelTypeOK
<1> HIDE DEF Made
<1>13. Kinds' /\ Owned'
  BY <1>4, <1>7, <1>8, <1>10 DEF ServerInv, Kinds, Owned
<1>14. WheelJob' /\ LoopJob'
  BY <1>3, <1>4, <1>5, <1>8, <1>11 DEF ServerInv, WheelJob, LoopJob
<1>15. Setting'
  BY <1>4, <1>5, <1>6, <1>10, <1>11 DEF ServerInv, Setting, IsNew
<1>16. Erasing'
  BY <1>4, <1>5, <1>6, <1>7, <1>10, <1>11 DEF ServerInv, Erasing, IsErased
<1>17. Kept'
  BY <1>4, <1>5, <1>6, <1>7, <1>8, <1>10 DEF ServerInv, Kept, Owned
<1>18. Belongs'
  BY <1>4, <1>7, <1>10, <1>11, JobTypes DEF ServerInv, Belongs, Owned
<1> QED
  BY <1>13, <1>14, <1>15, <1>16, <1>17, <1>18 DEF ServerInv

LEMMA ServerKeeps ==
  ASSUME WheelInv, SoonInv, Handed, ServerTypes, ServerInv, [Next]_vars
  PROVE  ServerInv'
<1>1. CASE UNCHANGED vars
  <2>1. Quiet /\ UNCHANGED serverVars
    BY <1>1 DEF vars, wheelVars, Quiet, serverVars
  <2> QED
    BY <2>1, QuietKeeps
<1>2. CASE pc # "crashed" /\ WheelAlone
  BY <1>2, AloneKeeps
<1>3. CASE Serve
  BY <1>3, FileTaskKeeps, WheelErasesClose, LoopErasesFiled, EraseNothingKeeps, SetIdsKeeps,
     DeleteKeeps, UseDeletedKeeps, HandlerKeeps, CallTaskKeeps DEF Serve
<1> QED
  BY <1>1, <1>2, <1>3 DEF Next

LEMMA ServerCorrect == Spec => []ServerInv
<1>1. WheelInv /\ SoonInv /\ Handed /\ ServerTypes /\ ServerInv /\ [Next]_vars => ServerInv'
  BY ServerKeeps
<1> QED
  BY TypesHold, InitServer, <1>1, PTL DEF Spec

HIDE DEF Threads, Made

(* The id of a ping task that the server erases is in the map, whichever  *)
(* thread closes the client and whatever the worker has in hand: this     *)
(* erase never keeps the lock (websocket_server.cpp:121, 131).            *)
THEOREM PingIdsAreKnown == Spec => []EraseFindsBeat
<1>1. ServerInv => EraseFindsBeat
  BY DEF ServerInv, Erasing, IsErased, EraseFindsBeat, Inside, Filed
<1> QED
  BY ServerCorrect, <1>1, PTL

(* A ping task that outlives its client was erased while the worker filed *)
(* it again (time_wheel.h:180-185): in no other way is one left behind.   *)
THEOREM OrphansWereFreed == Spec => []OrphanWasFreed
<1>1. WheelInv /\ SoonInv /\ ServerTypes /\ ServerInv => OrphanWasFreed
  <2> SUFFICES ASSUME WheelInv, ServerInv, NEW i \in Ids, where[i] # NotFiled,
                      KindOf(i) = "beat", state[ClientOf(i)] = "deleted"
               PROVE  i \in freed
    BY DEF OrphanWasFreed
  <2>1. i \in Made
    BY FiledIsMade DEF Made
  <2> QED
    BY <2>1 DEF ServerInv, Belongs, Held, Filed
<1> QED
  BY TypesHold, ServerCorrect, <1>1, PTL

(* Unless the loop is at work on a client, the wheel holds exactly its    *)
(* ping task: the worker's moves lose none, and no other is left behind,  *)
(* except as a freed node (time_wheel.h:156, 177, websocket_server.cpp:118, *)
(* 249).                                                                  *)
THEOREM OnePingEach == Spec => []PingOfClient
<1>1. WheelInv /\ SoonInv /\ Handed /\ ServerTypes /\ ServerInv => PingOfClient
  <2> SUFFICES ASSUME WheelInv, ServerTypes, ServerInv, NEW c \in Clients, state[c] # "deleted",
                      job["caller"].client = c => job["caller"].does = "nothing"
               PROVE  {i \in Ids : where[i] # NotFiled /\ i \notin freed
                                   /\ KindOf(i) = "beat" /\ ClientOf(i) = c} = {beatId[c]} \ {0}
    BY DEF PingOfClient
  <2>1. \A D : "nothing" \notin D => ~Serves(c, D)
    BY DEF Serves
  <2>2. ASSUME NEW i \in Ids, where[i] # NotFiled, i \notin freed, KindOf(i) = "beat",
               ClientOf(i) = c
        PROVE  i = beatId[c]
    <3>1. i \in Made
      BY <2>2, FiledIsMade DEF Made
    <3> QED
      BY <2>1, <2>2, <3>1 DEF ServerInv, Belongs, Held, Filed
  <2>3. ASSUME beatId[c] # 0
        PROVE  /\ beatId[c] \in Ids /\ where[beatId[c]] # NotFiled /\ beatId[c] \notin freed
               /\ KindOf(beatId[c]) = "beat" /\ ClientOf(beatId[c]) = c
    BY <2>1, <2>3 DEF ServerInv, Kept, Owned, Held, Filed, ServerTypes
  <2>4. \A i \in Ids : i # 0
    BY DEF Ids
  <2> QED
    BY <2>2, <2>3, <2>4
<1> QED
  BY TypesHold, ServerCorrect, <1>1, PTL

LEMMA LostKeeps ==
  ASSUME WheelInv, ServerTypes, ServerInv, LostByTimeout, [Next]_vars
  PROVE  LostByTimeout'
<1> USE DEF Threads, LostByTimeout, LockLost
<1>1. timedOut # {} => timedOut' # {}
  <2>1. CASE WheelAlone \/ FileTask \/ UNCHANGED vars
    BY <2>1 DEF WheelAlone, FileTask, serverVars, vars
  <2>2. CASE \E t \in Threads : \/ EraseFiled(t) \/ EraseNothing(t) \/ SetIds(t) \/ Delete(t)
                                \/ UseDeleted(t)
    BY <2>2 DEF EraseFiled, EraseNothing, SetIds, Delete, UseDeleted, serverVars
  <2>3. CASE \E c \in Clients : \/ ShakeHands(c) \/ ShortFrame(c) \/ BadFrame(c) \/ CloseFrame(c)
                                \/ PongFrame(c) \/ Hangup(c)
    BY <2>3 DEF ShakeHands, ShortFrame, BadFrame, CloseFrame, PongFrame, Hangup, Handle
  <2>4. CASE \E i \in Ids : CallTask(i)
    BY <2>4 DEF CallTask
  <2> QED
    BY <2>1, <2>2, <2>3, <2>4 DEF Next, Serve
<1> SUFFICES ASSUME timedOut = {}, ~LockLost PROVE ~LockLost'
  BY <1>1
<1>2. \A t \in Threads : ~EraseUnknown(t)
  <2> SUFFICES ASSUME NEW t \in Threads, EraseUnknown(t) PROVE FALSE
    OBVIOUS
  <2>1. arg[t] \in Made /\ IsErased(t, arg[t]) /\ where[arg[t]] = NotFiled
    BY DEF EraseUnknown, Inside, ServerInv, Erasing
  <2> QED
    BY <2>1, MadeTasks DEF IsErased, Filed
<1>3. [WheelNext]_wheelVars => ~LockLost'
  <2> SUFFICES ASSUME WheelNext PROVE ~LockLost'
    BY DEF wheelVars
  <2> USE DEF WheelInv, WheelTypeOK
  <2>1. CASE Tick \/ AnyUse
    BY <2>1 DEF Tick, AnyUse, AddTask, EraseTask, Start, Return, Die, Idle
  <2>2. CASE Calls
    <3>1. ASSUME NEW t \in Threads,
                 Lock(t) \/ Place(t) \/ File(t) \/ EraseKnown(t) \/ EraseElsewhere(t)
          PROVE  ~LockLost'
      BY <3>1 DEF Lock, Place, File, EraseKnown, EraseElsewhere, Die
    <3>2. ASSUME InitDone PROVE ~LockLost'
      BY <3>2 DEF InitDone
    <3> QED
      BY <1>2, <2>2, <3>1, <3>2 DEF Calls
  <2>3. CASE Worker
    <3>1. ASSUME Begin \/ Check \/ Sleep \/ Turn \/ Index \/ Cascade \/ EndWalk \/ Crash
          PROVE  ~LockLost'
      BY <3>1 DEF Begin, Check, Sleep, Turn, Index, Cascade, EndWalk, Crash, Die
    <3>2. ASSUME Advance PROVE ~LockLost'
      BY <3>2 DEF Advance, Idle, Roles, Between
    <3>3. ASSUME Take PROVE ~LockLost'
      BY <3>3 DEF Take
    <3>4. ASSUME NEW i \in Ids, Pour(i) \/ Again(i) \/ Forget(i) PROVE ~LockLost'
      BY <3>4 DEF Pour, Again, Forget, Start, Idle
    <3> QED
      BY <2>3, <3>1, <3>2, <3>3, <3>4 DEF Worker
  <2> QED
    BY <2>1, <2>2, <2>3 DEF WheelNext
<1> QED
  BY <1>3, StepUsesWheel

(* As long as no close task has run out, erase_task never returns with    *)
(* the lock: pongs, hang-ups and closes by either side erase only ids     *)
(* that are in the map (time_wheel.h:97, websocket_server.cpp:128-134).   *)
THEOREM LockIsLostByTimeout == Spec => []LostByTimeout
<1>1. Init => LostByTimeout
  BY DEF Init, WheelInit, LostByTimeout, LockLost, Threads
<1>2. WheelInv /\ SoonInv /\ ServerTypes /\ ServerInv /\ LostByTimeout /\ [Next]_vars
        => LostByTimeout'
  BY LostKeeps
<1> QED
  BY TypesHold, ServerCorrect, <1>1, <1>2, PTL DEF Spec
=============================================================================
