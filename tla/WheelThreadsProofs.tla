------------------------- MODULE WheelThreadsProofs -------------------------
(***************************************************************************)
(* Proofs about WheelThreads: the lock, the map and the lists, for any     *)
(* sizes of the wheel, any number of tasks and callers of every kind.      *)
(***************************************************************************)
EXTENDS WheelThreads, SequenceTheorems, TLAPS

Lists == Slots \cup {Local}

(* A task is handed to add_node or erase_task only if it can be one, and  *)
(* no list holds, and nobody has freed, a task that was never made.       *)
TasksMade ==
  /\ Len(node) <= MaxIds
  /\ \A i \in Ids : where[i] # NotFiled \/ i \in freed => i <= Len(node)
  /\ \A t \in Threads :
       /\ op[t] = "add" => arg[t] \in 1 .. Len(node)
       /\ op[t] = "erase" => arg[t] \in Ids

(* The worker outside the loops of check and cascade over a list.         *)
Between == {"new", "asleep", "check", "index", "cascade", "advance"}

(* What a thread is in: only the worker takes lists, the worker never     *)
(* initialises, and nothing is in its own list when it takes one.         *)
Roles ==
  /\ op["caller"] # "take"
  /\ op["wheel"] # "init"
  /\ op["wheel"] = "take" => pc \in {"take", "crashed"}
  /\ \A t \in Threads : step[t] = "place" => op[t] = "add"
  /\ pc \in Between => step["wheel"] = "out"
  /\ pc \in Between \cup {"take"} => list[Local] = {}

WheelInv == WheelTypeOK /\ TasksMade /\ Roles /\ OneInside /\ MapExact

LEMMA Sizes ==
  /\ NearSlots \in Nat /\ NearSlots > 0
  /\ LevelSlots \in Nat /\ LevelSlots > 0
  /\ Local \in Nat /\ Local \notin Slots /\ NotFiled \notin Lists
  /\ MaxIds \in Nat /\ FullCircle \in Nat \ {0, 1}
  /\ Waits \subseteq Nat
BY ThreadsAssumption DEF Local, NotFiled, Slots, Lists

(* add_node names a list of the wheel. *)
LEMMA SlotInWheel ==
  ASSUME NEW e \in Nat, NEW t \in Nat
  PROVE  SlotOf(e, t) \in Slots
<1>1. t % NearSlots \in 0 .. NearSlots - 1 /\ e % NearSlots \in 0 .. NearSlots - 1
  BY Sizes
<1>2. e \div NearSlots \in Nat
  BY Sizes
<1>3. (e \div NearSlots) % LevelSlots \in 0 .. LevelSlots - 1
  BY <1>2, Sizes
<1>4. NearSlots + ((e \div NearSlots) % LevelSlots) \in NearSlots .. NearSlots + LevelSlots - 1
  BY <1>3, Sizes
<1> QED
  BY <1>1, <1>4, Sizes DEF SlotOf, Slots

LEMMA WheelInitInv == WheelInit => WheelInv
<1> SUFFICES ASSUME WheelInit PROVE WheelInv
  OBVIOUS
<1>1. 0 \in Slots
  BY Sizes DEF Slots
<1>2. WheelTypeOK
  BY <1>1, Sizes DEF WheelInit, WheelTypeOK, Threads
<1>3. TasksMade
  BY Sizes DEF WheelInit, TasksMade, Threads
<1>4. Roles
  BY DEF WheelInit, Roles, Between, Threads
<1>5. OneInside
  BY DEF WheelInit, OneInside, Threads
<1>6. MapExact
  BY Sizes DEF WheelInit, MapExact, Lists
<1> QED
  BY <1>2, <1>3, <1>4, <1>5, <1>6 DEF WheelInv

-----------------------------------------------------------------------------
(* The lock: each thread takes it when it is free, and gives it back or   *)
(* loses it.                                                              *)

(* Putting a task from any list into list l, or into none.                *)
LEMMA MovedKeepsMap ==
  ASSUME WheelTypeOK, MapExact, NEW i \in Ids, NEW l \in Slots \cup {NotFiled}, Moved(i, l)
  PROVE  /\ MapExact'
         /\ list' \in [Slots \cup {Local} -> SUBSET Ids]
         /\ where' \in [Ids -> Slots \cup {Local, NotFiled}]
         /\ \A j \in Ids : where'[j] = IF j = i THEN l ELSE where[j]
         /\ list'[Local] \subseteq list[Local]
<1>1. \A j \in Ids : where'[j] = IF j = i THEN l ELSE where[j]
  BY DEF Moved, WheelTypeOK
<1>2. \A k \in Lists : list'[k] = IF k = l THEN list[k] \cup {i} ELSE list[k] \ {i}
  BY DEF Moved, Lists
<1>3. \A k \in Lists : list[k] \subseteq Ids
  BY DEF WheelTypeOK, Lists
<1>4. MapExact'
  <2> SUFFICES ASSUME NEW j \in Ids, NEW k \in Lists PROVE (j \in list'[k]) <=> (where'[j] = k)
    BY DEF MapExact, Lists
  <2>1. (j \in list[k]) <=> (where[j] = k)
    BY DEF MapExact, Lists
  <2>2. CASE j = i
    BY <1>1, <1>2, <2>2
  <2>3. CASE j # i
    BY <1>1, <1>2, <2>1, <2>3
  <2> QED
    BY <2>2, <2>3
<1>5. list' \in [Lists -> SUBSET Ids]
  BY <1>3 DEF Moved, Lists
<1>6. where' \in [Ids -> Slots \cup {Local, NotFiled}]
  BY DEF Moved, WheelTypeOK
<1>7. list'[Local] \subseteq list[Local]
  BY <1>2, Sizes DEF Lists
<1> QED
  BY <1>1, <1>4, <1>5, <1>6, <1>7 DEF Lists

(* The worker takes list l out while its own is empty.                    *)
LEMMA TakeOutKeepsMap ==
  ASSUME WheelTypeOK, MapExact, NEW l \in Slots, list[Local] = {}, TakeOut(l)
  PROVE  /\ MapExact'
         /\ list' \in [Slots \cup {Local} -> SUBSET Ids]
         /\ where' \in [Ids -> Slots \cup {Local, NotFiled}]
         /\ \A j \in Ids : where'[j] # NotFiled => where[j] # NotFiled
<1>1. \A k \in Lists : list'[k] = IF k = Local THEN list[l] ELSE IF k = l THEN {} ELSE list[k]
  BY Sizes DEF TakeOut, WheelTypeOK, Lists
<1>2. \A j \in Ids : where'[j] = IF j \in list[l] THEN Local ELSE where[j]
  BY DEF TakeOut
<1>3. \A k \in Lists : list[k] \subseteq Ids
  BY DEF WheelTypeOK, Lists
<1>4. MapExact'
  <2> SUFFICES ASSUME NEW j \in Ids, NEW k \in Lists PROVE (j \in list'[k]) <=> (where'[j] = k)
    BY DEF MapExact, Lists
  <2>1. /\ (j \in list[k]) <=> (where[j] = k)
        /\ (j \in list[l]) <=> (where[j] = l)
        /\ (j \in list[Local]) <=> (where[j] = Local)
    BY DEF MapExact, Lists
  <2> QED
    BY <1>1, <1>2, <2>1, Sizes
<1>5. list' \in [Lists -> SUBSET Ids]
  BY <1>3, Sizes DEF TakeOut, WheelTypeOK, Lists
<1>6. where' \in [Ids -> Slots \cup {Local, NotFiled}]
  BY DEF TakeOut, WheelTypeOK
<1>7. \A j \in Ids : where'[j] # NotFiled => where[j] # NotFiled
  <2> SUFFICES ASSUME NEW j \in Ids, where'[j] # NotFiled PROVE where[j] # NotFiled
    OBVIOUS
  <2>1. (j \in list[l]) <=> (where[j] = l)
    BY DEF MapExact
  <2> QED
    BY <1>2, <2>1, Sizes DEF Lists
<1> QED
  BY <1>4, <1>5, <1>6, <1>7 DEF Lists

-----------------------------------------------------------------------------
(* Each action keeps the invariant. *)
USE DEF WheelInv, Roles, Between, TasksMade, OneInside, Threads

LEMMA LockInv ==
  ASSUME WheelInv, NEW t \in Threads, Lock(t)
  PROVE  WheelInv'
BY DEF Lock, WheelTypeOK, MapExact

LEMMA AddTaskInv ==
  ASSUME WheelInv, NEW f \in Fns, NEW w \in Waits, NEW n \in {1, FullCircle},
         AddTask(f, w, n)
  PROVE  WheelInv'
<1> DEFINE new == [expire |-> clock + w, interval |-> w, circles |-> n, fn |-> f]
<1>1. /\ node \in Seq(Nodes) /\ node' = Append(node, new)
      /\ Len(node) < MaxIds /\ step["caller"] = "out"
  BY DEF AddTask, WheelTypeOK, Idle
<1>2. new \in Nodes
  BY Sizes DEF WheelTypeOK, Nodes
<1> HIDE DEF new
<1>3. node' \in Seq(Nodes) /\ Len(node') = Len(node) + 1 /\ Len(node) \in Nat
  BY <1>1, <1>2, AppendProperties, LenProperties
<1>4. Len(node') \in Ids /\ Len(node') <= MaxIds
  BY <1>1, <1>3, Sizes DEF Ids
<1>5. WheelTypeOK'
  BY <1>3, <1>4 DEF AddTask, Start, WheelTypeOK
<1>6. TasksMade'
  BY <1>3, <1>4, Sizes DEF AddTask, Start, WheelTypeOK, Ids
<1>7. Roles' /\ OneInside' /\ MapExact'
  BY <1>1 DEF AddTask, Start, WheelTypeOK, MapExact
<1> QED
  BY <1>5, <1>6, <1>7

LEMMA PlaceInv ==
  ASSUME WheelInv, NEW t \in Threads, Place(t)
  PROVE  WheelInv'
<1>1. arg[t] \in 1 .. Len(node) /\ node \in Seq(Nodes)
  BY DEF Place, WheelTypeOK
<1>2. node[arg[t]] \in Nodes
  BY <1>1, ElementOfSeq
<1>3. node[arg[t]].expire \in Nat
  BY <1>2 DEF Nodes
<1>4. SlotOf(node[arg[t]].expire, current) \in Slots
  BY <1>3, SlotInWheel DEF WheelTypeOK
<1> QED
  BY <1>4 DEF Place, WheelTypeOK, MapExact

LEMMA FileInv ==
  ASSUME WheelInv, NEW t \in Threads, File(t)
  PROVE  WheelInv'
<1>1. /\ arg[t] \in Ids /\ arg[t] <= Len(node) /\ dest[t] \in Slots
      /\ step[t] = "in" /\ Moved(arg[t], dest[t])
  BY LenProperties DEF File, Inside, WheelTypeOK, Ids
<1>2. /\ MapExact'
      /\ list' \in [Slots \cup {Local} -> SUBSET Ids]
      /\ where' \in [Ids -> Slots \cup {Local, NotFiled}]
      /\ \A j \in Ids : where'[j] = IF j = arg[t] THEN dest[t] ELSE where[j]
      /\ list'[Local] \subseteq list[Local]
  BY <1>1, MovedKeepsMap
<1>3. WheelTypeOK'
  BY <1>2 DEF File, Leave, WheelTypeOK
<1>4. TasksMade'
  BY <1>1, <1>2 DEF File, Leave, WheelTypeOK
<1>5. Roles' /\ OneInside'
  BY <1>1, <1>2 DEF File, Leave, WheelTypeOK
<1> QED
  BY <1>2, <1>3, <1>4, <1>5

LEMMA EraseTaskInv ==
  ASSUME WheelInv, NEW t \in Threads, NEW i \in Ids, EraseTask(t, i)
  PROVE  WheelInv'
BY DEF EraseTask, Start, Idle, WheelTypeOK, MapExact

LEMMA EraseKnownInv ==
  ASSUME WheelInv, NEW t \in Threads, EraseKnown(t)
  PROVE  WheelInv'
<1>1. arg[t] \in Ids /\ step[t] = "in" /\ Moved(arg[t], NotFiled)
  BY DEF EraseKnown, Inside
<1>2. /\ MapExact'
      /\ list' \in [Slots \cup {Local} -> SUBSET Ids]
      /\ where' \in [Ids -> Slots \cup {Local, NotFiled}]
      /\ \A j \in Ids : where'[j] = IF j = arg[t] THEN NotFiled ELSE where[j]
      /\ list'[Local] \subseteq list[Local]
  BY <1>1, MovedKeepsMap
<1>3. WheelTypeOK'
  BY <1>1, <1>2 DEF EraseKnown, Leave, WheelTypeOK
<1>4. TasksMade'
  BY <1>1, <1>2 DEF EraseKnown, Inside, Leave, WheelTypeOK
<1>5. Roles' /\ OneInside'
  BY <1>1, <1>2 DEF EraseKnown, Leave, WheelTypeOK
<1> QED
  BY <1>2, <1>3, <1>4, <1>5

LEMMA EraseUnknownInv ==
  ASSUME WheelInv, NEW t \in Threads, EraseUnknown(t)
  PROVE  WheelInv'
BY DEF EraseUnknown, Leave, WheelTypeOK, MapExact

LEMMA InitDoneInv == ASSUME WheelInv, InitDone PROVE WheelInv'
BY DEF InitDone, Inside, Leave, WheelTypeOK, MapExact

LEMMA WorkerMovesInv ==
  ASSUME WheelInv,
         Begin \/ Tick \/ Check \/ Sleep \/ Turn \/ Index \/ Return \/ EndWalk \/ Die
  PROVE  WheelInv'
<1>1. CASE Begin
  BY <1>1 DEF Begin, WheelTypeOK, MapExact
<1>2. CASE Tick
  BY <1>2 DEF Tick, WheelTypeOK, MapExact
<1>3. CASE Check
  BY <1>3 DEF Check, WheelTypeOK, MapExact
<1>4. CASE Sleep
  BY <1>4 DEF Sleep, WheelTypeOK, MapExact
<1>5. CASE Return
  BY <1>5 DEF Return, WheelTypeOK, MapExact
<1>6. CASE EndWalk
  BY <1>6 DEF EndWalk, Idle, WheelTypeOK, MapExact
<1>7. CASE Die
  BY <1>7 DEF Die, WheelTypeOK, MapExact
<1>8. CASE Turn
  BY <1>8 DEF Turn, WheelTypeOK, MapExact
<1>9. CASE Index
  BY <1>9 DEF Index, WheelTypeOK, MapExact
<1> QED
  BY <1>1, <1>2, <1>3, <1>4, <1>5, <1>6, <1>7, <1>8, <1>9

LEMMA CascadedSlot ==
  ASSUME WheelTypeOK
  PROVE  NearSlots + ((current \div NearSlots) % LevelSlots) \in Slots
<1> current \in Nat
  BY DEF WheelTypeOK
<1>1. current \div NearSlots \in Nat
  BY Sizes
<1>2. (current \div NearSlots) % LevelSlots \in 0 .. LevelSlots - 1
  BY <1>1, Sizes
<1> QED
  BY <1>2, Sizes DEF Slots

LEMMA CascadeInv == ASSUME WheelInv, Cascade PROVE WheelInv'
<1> DEFINE l == NearSlots + ((current \div NearSlots) % LevelSlots)
<1>1. l \in Slots
  BY CascadedSlot
<1>2. list[Local] = {} /\ TakeOut(l)
  BY DEF Cascade
<1> HIDE DEF l
<1>3. /\ MapExact'
      /\ list' \in [Slots \cup {Local} -> SUBSET Ids]
      /\ where' \in [Ids -> Slots \cup {Local, NotFiled}]
      /\ \A j \in Ids : where'[j] # NotFiled => where[j] # NotFiled
  BY <1>1, <1>2, TakeOutKeepsMap
<1>4. WheelTypeOK' /\ TasksMade' /\ Roles' /\ OneInside'
  BY <1>3 DEF Cascade, WheelTypeOK
<1> QED
  BY <1>3, <1>4

LEMMA PourInv ==
  ASSUME WheelInv, NEW i \in Ids, Pour(i)
  PROVE  WheelInv'
<1>1. where[i] = Local /\ step["wheel"] = "out" /\ pc = "pour"
  BY DEF Pour, MapExact, Idle
<1>2. i \in 1 .. Len(node)
  BY <1>1, Sizes, LenProperties DEF WheelTypeOK, Ids, Lists
<1> QED
  BY <1>1, <1>2 DEF Pour, Start, WheelTypeOK, MapExact

LEMMA AdvanceInv == ASSUME WheelInv, Advance PROVE WheelInv'
<1>1. list[Local] = {} /\ step["wheel"] # "in"
  BY DEF Advance, Idle
<1> QED
  BY <1>1 DEF Advance, WheelTypeOK, MapExact

LEMMA TakeInv == ASSUME WheelInv, pc # "crashed", Take PROVE WheelInv'
<1> DEFINE l == tick % NearSlots
<1>1. l \in Slots
  <2>1. l \in 0 .. NearSlots - 1
    BY Sizes DEF WheelTypeOK
  <2> QED
    BY <2>1, Sizes DEF Slots
<1>2. list[Local] = {} /\ TakeOut(l) /\ step["wheel"] = "in"
  BY DEF Take, Inside
<1> HIDE DEF l
<1>3. /\ MapExact'
      /\ list' \in [Slots \cup {Local} -> SUBSET Ids]
      /\ where' \in [Ids -> Slots \cup {Local, NotFiled}]
      /\ \A j \in Ids : where'[j] # NotFiled => where[j] # NotFiled
  BY <1>1, <1>2, TakeOutKeepsMap
<1>4. WheelTypeOK' /\ TasksMade' /\ Roles' /\ OneInside'
  BY <1>2, <1>3 DEF Take, Leave, WheelTypeOK
<1> QED
  BY <1>3, <1>4

LEMMA AgainInv ==
  ASSUME WheelInv, NEW i \in Ids, Again(i)
  PROVE  WheelInv'
<1>1. where[i] = Local /\ step["wheel"] = "out" /\ pc = "walk"
  BY DEF Again, MapExact, Idle
<1>2. i \in 1 .. Len(node)
  BY <1>1, Sizes, LenProperties DEF WheelTypeOK, Ids, Lists
<1>3. node[i] \in Nodes /\ node \in Seq(Nodes)
  BY <1>2, ElementOfSeq DEF WheelTypeOK
<1>4. Repeated(node[i]) \in Nodes
  <2>1. now + node[i].interval \in Nat
    BY <1>3 DEF WheelTypeOK, Nodes
  <2>2. (IF node[i].circles = FullCircle THEN node[i].circles ELSE node[i].circles - 1) \in Nat \ {0}
    BY <1>3, Sizes DEF Again, Nodes
  <2> QED
    BY <1>3, <2>1, <2>2 DEF Nodes, Repeated
<1>5. node' = [node EXCEPT ![i] = Repeated(node[i])]
  BY DEF Again
<1>6. node' \in Seq(Nodes) /\ Len(node') = Len(node)
  BY <1>2, <1>3, <1>4, <1>5, ExceptSeq
<1>7. WheelTypeOK' /\ TasksMade'
  BY <1>2, <1>6 DEF Again, Start, WheelTypeOK
<1>8. Roles' /\ OneInside' /\ MapExact'
  BY <1>1 DEF Again, Start, WheelTypeOK, MapExact
<1> QED
  BY <1>7, <1>8

LEMMA ForgetInv ==
  ASSUME WheelInv, NEW i \in Ids, Forget(i)
  PROVE  WheelInv'
<1>1. step["wheel"] = "out" /\ pc = "walk" /\ Moved(i, NotFiled)
  BY DEF Forget, Idle
<1>2. /\ MapExact'
      /\ list' \in [Slots \cup {Local} -> SUBSET Ids]
      /\ where' \in [Ids -> Slots \cup {Local, NotFiled}]
      /\ \A j \in Ids : where'[j] = IF j = i THEN NotFiled ELSE where[j]
      /\ list'[Local] \subseteq list[Local]
  BY MovedKeepsMap, <1>1
<1>3. where[i] = Local
  BY DEF Forget, MapExact
<1>4. i \in 1 .. Len(node)
  BY <1>3, Sizes, LenProperties DEF WheelTypeOK, Ids, Lists
<1>5. WheelTypeOK' /\ TasksMade'
  BY <1>2, <1>4 DEF Forget, WheelTypeOK
<1>6. Roles' /\ OneInside'
  BY <1>1, <1>2 DEF Forget, WheelTypeOK
<1> QED
  BY <1>2, <1>5, <1>6

LEMMA CallsInv == ASSUME WheelInv, Calls PROVE WheelInv'
BY InitDoneInv, LockInv, PlaceInv, FileInv, EraseKnownInv, EraseUnknownInv, WorkerMovesInv
   DEF Calls, EraseElsewhere

LEMMA WorkerInv == ASSUME WheelInv, pc # "crashed", Worker PROVE WheelInv'
<1>1. CASE Crash
  BY <1>1, WorkerMovesInv DEF Crash
<1> QED
  BY <1>1, WorkerMovesInv, CascadeInv, AdvanceInv, TakeInv, PourInv, AgainInv, ForgetInv
     DEF Worker

LEMMA AnyUseInv == ASSUME WheelInv, AnyUse PROVE WheelInv'
BY AddTaskInv, EraseTaskInv, WorkerMovesInv DEF AnyUse

LEMMA WheelNextInv == WheelInv /\ [WheelNext]_wheelVars => WheelInv'
<1> SUFFICES ASSUME WheelInv, [WheelNext]_wheelVars PROVE WheelInv'
  OBVIOUS
<1>1. CASE Tick
  BY <1>1, WorkerMovesInv
<1>2. CASE pc # "crashed" /\ Worker
  BY <1>2, WorkerInv
<1>3. CASE Calls
  BY <1>3, CallsInv
<1>4. CASE AnyUse
  BY <1>4, AnyUseInv
<1>5. CASE UNCHANGED wheelVars
  BY <1>5 DEF wheelVars, WheelTypeOK, MapExact
<1> QED
  BY <1>1, <1>2, <1>3, <1>4, <1>5 DEF WheelNext

HIDE DEF WheelInv, Roles, Between, TasksMade, OneInside, Threads

LEMMA WheelCorrect == WheelSpec => []WheelInv
BY WheelInitInv, WheelNextInv, PTL DEF WheelSpec

(* The two threads are never both between lock() and unlock(), whoever    *)
(* calls the wheel and although erase_task may return without unlocking   *)
(* (spin_lock.h, time_wheel.h:94).                                        *)
THEOREM LockExcludes == WheelSpec => []OneInside
<1>1. WheelInv => OneInside
  BY DEF WheelInv
<1> QED
  BY WheelCorrect, <1>1, PTL

(* id_map_ names the list of every filed task in every reachable state,   *)
(* so that erase_task of a known id erases from the right list, whatever  *)
(* the worker has moved meanwhile (time_wheel.h, erase_task and check).   *)
THEOREM MapIsExact == WheelSpec => []MapExact
<1>1. WheelInv => MapExact
  BY DEF WheelInv
<1> QED
  BY WheelCorrect, <1>1, PTL

(* A lock that a returned call has kept is kept for ever: from then on    *)
(* nobody files, erases or takes a task (time_wheel.h:97).                *)
THEOREM LostForEver == WheelSpec => [](LockLost => []LockLost)
<1> USE DEF LockLost, WheelTypeOK, Threads
<1>1. ASSUME WheelTypeOK, LockLost, [WheelNext]_wheelVars PROVE LockLost'
  <2>1. ASSUME Calls PROVE LockLost'
    <3>1. ASSUME NEW t \in Threads, Place(t) PROVE LockLost'
      BY <1>1, <3>1 DEF Place
    <3>2. ~InitDone /\ \A t \in Threads :
            ~Lock(t) /\ ~File(t) /\ ~EraseKnown(t) /\ ~EraseElsewhere(t) /\ ~EraseUnknown(t)
      BY <1>1 DEF InitDone, Lock, File, EraseKnown, EraseElsewhere, EraseUnknown, Inside
    <3> QED
      BY <2>1, <3>1, <3>2 DEF Calls
  <2>2. ASSUME Worker PROVE LockLost'
    <3>1. ASSUME Begin \/ Check \/ Sleep \/ Turn \/ Index \/ Cascade \/ EndWalk \/ Crash
          PROVE  LockLost'
      BY <1>1, <3>1 DEF Begin, Check, Sleep, Turn, Index, Cascade, EndWalk, Crash, Die
    <3>2. ASSUME Advance PROVE LockLost'
      BY <1>1, <3>2 DEF Advance
    <3>3. ~Take
      BY <1>1 DEF Take, Inside
    <3>4. ASSUME NEW i \in Ids, Pour(i) \/ Again(i) \/ Forget(i) PROVE LockLost'
      BY <1>1, <3>4 DEF Pour, Again, Forget, Start
    <3> QED
      BY <2>2, <3>1, <3>2, <3>3, <3>4 DEF Worker
  <2>3. ASSUME AnyUse PROVE LockLost'
    BY <1>1, <2>3 DEF AnyUse, AddTask, EraseTask, Start, Return, Die
  <2>4. ASSUME Tick PROVE LockLost'
    BY <1>1, <2>4 DEF Tick
  <2>5. ASSUME UNCHANGED wheelVars PROVE LockLost'
    BY <1>1, <2>5 DEF wheelVars
  <2> QED
    BY <1>1, <2>1, <2>2, <2>3, <2>4, <2>5 DEF WheelNext
<1>2. WheelInv => WheelTypeOK
  BY DEF WheelInv
<1> QED
  BY WheelCorrect, <1>1, <1>2, PTL DEF WheelSpec

-----------------------------------------------------------------------------
(* How early a task may be called.  What the near wheel holds, and what   *)
(* the worker has taken from it, expires within a turn of current_: it    *)
(* was so when add_node computed the slot, and current_ never goes back   *)
(* once tasks exist.                                                      *)
Soon(i) == node[i].expire < current + NearSlots

Clocks ==
  /\ now <= clock /\ current <= clock + 1
  /\ pc \in {"new", "index", "cascade", "advance", "pour"} => current <= clock

Filing ==
  /\ \A t \in Threads : step[t] = "out" => op[t] = "none"
  /\ op["caller"] = "init" => node = <<>> /\ step["caller"] = "in"
  /\ op["caller"] = "add" =>
       /\ where[arg["caller"]] = NotFiled
       /\ op["wheel"] = "add" => arg["wheel"] # arg["caller"]

NearSlot(l) == l \in 0 .. NearSlots - 1

NearIsSoon == \A i \in Ids : NearSlot(where[i]) => Soon(i)

DestIsSoon ==
  \A t \in Threads :
    op[t] = "add" /\ step[t] \in {"wait", "in"} /\ NearSlot(dest[t]) => Soon(arg[t])

TakenIsSoon ==
  \A i \in Ids :
    pc \in {"walk", "call"} /\ where[i] = Local
      => Soon(i) \/ (op["wheel"] = "add" /\ arg["wheel"] = i)

SoonInv == Clocks /\ Filing /\ NearIsSoon /\ DestIsSoon /\ TakenIsSoon

USE DEF Threads

LEMMA SoonInit == WheelInit => SoonInv
<1> SUFFICES ASSUME WheelInit PROVE SoonInv
  OBVIOUS
<1>1. Clocks
  BY DEF WheelInit, Clocks
<1>2. Filing
  BY DEF WheelInit, Filing
<1>3. NearIsSoon /\ TakenIsSoon
  BY Sizes DEF WheelInit, NearIsSoon, TakenIsSoon, NearSlot, NotFiled, Local
<1>4. DestIsSoon
  BY DEF WheelInit, DestIsSoon
<1> QED
  BY <1>1, <1>2, <1>3, <1>4 DEF SoonInv

(* current_ grows, and the tasks stay as they are.                        *)
LEMMA SoonStays ==
  ASSUME WheelTypeOK, current' \in Nat, current' >= current, node' = node,
         NEW i \in 1 .. Len(node), Soon(i)
  PROVE  Soon(i)'
<1>1. node[i] \in Nodes
  BY ElementOfSeq DEF WheelTypeOK
<1>2. node[i].expire \in Nat
  BY <1>1 DEF Nodes
<1> QED
  BY <1>2, Sizes DEF Soon, WheelTypeOK

LEMMA FiledIsMade ==
  ASSUME WheelInv, NEW i \in Ids, where[i] # NotFiled
  PROVE  i \in 1 .. Len(node) /\ Len(node) \in Nat
BY LenProperties DEF WheelInv, WheelTypeOK, TasksMade, Ids

LEMMA NearOrLocalIsFiled == NearSlot(NotFiled) = FALSE /\ NotFiled # Local /\ ~NearSlot(Local)
BY Sizes DEF NearSlot, NotFiled, Local

(* The three parts about tasks, when no task is made or made again.       *)
Later == current' \in Nat /\ current' >= current /\ node' = node

LEMMA NearStays ==
  ASSUME WheelInv, SoonInv, Later,
         \A i \in Ids : NearSlot(where'[i]) => where'[i] = where[i]
  PROVE  NearIsSoon'
<1> SUFFICES ASSUME NEW i \in Ids, NearSlot(where'[i]) PROVE Soon(i)'
  BY DEF NearIsSoon, NearSlot
<1>1. where'[i] = where[i]
  OBVIOUS
<1>2. where[i] # NotFiled /\ Soon(i)
  BY <1>1, NearOrLocalIsFiled DEF SoonInv, NearIsSoon
<1> QED
  BY <1>2, FiledIsMade, SoonStays DEF WheelInv, Later

LEMMA DestStays ==
  ASSUME WheelInv, SoonInv, Later,
         \A t \in Threads : op'[t] = "add" /\ step'[t] \in {"wait", "in"} =>
           /\ op[t] = "add" /\ step[t] \in {"wait", "in"}
           /\ arg'[t] = arg[t] /\ dest'[t] = dest[t]
  PROVE  DestIsSoon'
<1> SUFFICES ASSUME NEW t \in Threads, op'[t] = "add", step'[t] \in {"wait", "in"},
                    NearSlot(dest'[t])
             PROVE  node'[arg'[t]].expire < current' + NearSlots
  BY DEF DestIsSoon, NearSlot, Soon
<1>1. Soon(arg[t]) /\ arg[t] \in 1 .. Len(node) /\ arg'[t] = arg[t]
  BY DEF SoonInv, DestIsSoon, WheelInv, TasksMade
<1>2. PICK i \in 1 .. Len(node) : i = arg[t]
  BY <1>1
<1>3. Soon(i)'
  BY <1>1, <1>2, SoonStays DEF WheelInv, Later
<1> QED
  BY <1>1, <1>2, <1>3 DEF Soon

LEMMA TakenStays ==
  ASSUME WheelInv, SoonInv, Later,
         pc' \in {"walk", "call"} => pc \in {"walk", "call"},
         \A i \in Ids : where'[i] = Local =>
           /\ where[i] = Local
           /\ op["wheel"] = "add" /\ arg["wheel"] = i
                => op'["wheel"] = "add" /\ arg'["wheel"] = i
  PROVE  TakenIsSoon'
<1> SUFFICES ASSUME NEW i \in Ids, pc' \in {"walk", "call"}, where'[i] = Local,
                    ~(op'["wheel"] = "add" /\ arg'["wheel"] = i)
             PROVE  Soon(i)'
  BY DEF TakenIsSoon
<1>1. where[i] = Local /\ Soon(i)
  BY DEF SoonInv, TakenIsSoon
<1> QED
  BY <1>1, FiledIsMade, NearOrLocalIsFiled, SoonStays DEF WheelInv, Later

-----------------------------------------------------------------------------
(* Each action keeps it. *)
USE DEF Later

LEMMA LockSoon ==
  ASSUME WheelInv, SoonInv, NEW t \in Threads, Lock(t)
  PROVE  SoonInv'
<1> USE DEF Lock, WheelInv, WheelTypeOK
<1>1. Clocks' /\ Filing'
  BY DEF SoonInv, Clocks, Filing
<1>2. Later
  BY DEF WheelTypeOK
<1>3. NearIsSoon'
  BY <1>2, NearStays
<1>4. DestIsSoon'
  BY <1>2, DestStays
<1>5. TakenIsSoon'
  BY <1>2, TakenStays
<1> QED
  BY <1>1, <1>3, <1>4, <1>5 DEF SoonInv

LEMMA BeginSoon ==
  ASSUME WheelInv, SoonInv, Begin
  PROVE  SoonInv'
<1> USE DEF Begin, WheelInv, WheelTypeOK
<1>1. Later
  BY DEF SoonInv, Clocks
<1>2. Clocks'
  BY DEF SoonInv, Clocks
<1>3. Filing'
  BY DEF SoonInv, Filing
<1>4. NearIsSoon'
  BY <1>1, NearStays
<1>5. DestIsSoon'
  BY <1>1, DestStays
<1>6. TakenIsSoon'
  BY <1>1, TakenStays DEF SoonInv, Filing
<1> QED
  BY <1>2, <1>3, <1>4, <1>5, <1>6 DEF SoonInv

LEMMA TickSoon ==
  ASSUME WheelInv, SoonInv, Tick
  PROVE  SoonInv'
<1> USE DEF Tick, WheelInv, WheelTypeOK
<1>1. Later
  BY DEF SoonInv, Clocks
<1>2. Clocks'
  BY DEF SoonInv, Clocks
<1>3. Filing'
  BY DEF SoonInv, Filing
<1>4. NearIsSoon'
  BY <1>1, NearStays
<1>5. DestIsSoon'
  BY <1>1, DestStays
<1>6. TakenIsSoon'
  BY <1>1, TakenStays DEF SoonInv, Filing
<1> QED
  BY <1>2, <1>3, <1>4, <1>5, <1>6 DEF SoonInv

LEMMA CheckSoon ==
  ASSUME WheelInv, SoonInv, Check
  PROVE  SoonInv'
<1> USE DEF Check, WheelInv, WheelTypeOK
<1>1. Later
  BY DEF SoonInv, Clocks
<1>2. Clocks'
  BY DEF SoonInv, Clocks
<1>3. Filing'
  BY DEF SoonInv, Filing
<1>4. NearIsSoon'
  BY <1>1, NearStays
<1>5. DestIsSoon'
  BY <1>1, DestStays
<1>6. TakenIsSoon'
  BY <1>1, TakenStays DEF SoonInv, Filing
<1> QED
  BY <1>2, <1>3, <1>4, <1>5, <1>6 DEF SoonInv

LEMMA SleepSoon ==
  ASSUME WheelInv, SoonInv, Sleep
  PROVE  SoonInv'
<1> USE DEF Sleep, WheelInv, WheelTypeOK
<1>1. Later
  BY DEF SoonInv, Clocks
<1>2. Clocks'
  BY DEF SoonInv, Clocks
<1>3. Filing'
  BY DEF SoonInv, Filing
<1>4. NearIsSoon'
  BY <1>1, NearStays
<1>5. DestIsSoon'
  BY <1>1, DestStays
<1>6. TakenIsSoon'
  BY <1>1, TakenStays DEF SoonInv, Filing
<1> QED
  BY <1>2, <1>3, <1>4, <1>5, <1>6 DEF SoonInv

LEMMA TurnSoon ==
  ASSUME WheelInv, SoonInv, Turn
  PROVE  SoonInv'
<1> USE DEF Turn, WheelInv, WheelTypeOK
<1>1. Later
  BY DEF SoonInv, Clocks
<1>2. Clocks'
  BY DEF SoonInv, Clocks
<1>3. Filing'
  BY DEF SoonInv, Filing
<1>4. NearIsSoon'
  BY <1>1, NearStays
<1>5. DestIsSoon'
  BY <1>1, DestStays
<1>6. TakenIsSoon'
  BY <1>1, TakenStays DEF SoonInv, Filing
<1> QED
  BY <1>2, <1>3, <1>4, <1>5, <1>6 DEF SoonInv

LEMMA IndexSoon ==
  ASSUME WheelInv, SoonInv, Index
  PROVE  SoonInv'
<1> USE DEF Index, WheelInv, WheelTypeOK
<1>1. Later
  BY DEF SoonInv, Clocks
<1>2. Clocks'
  BY DEF SoonInv, Clocks
<1>3. Filing'
  BY DEF SoonInv, Filing
<1>4. NearIsSoon'
  BY <1>1, NearStays
<1>5. DestIsSoon'
  BY <1>1, DestStays
<1>6. TakenIsSoon'
  BY <1>1, TakenStays DEF SoonInv, Filing
<1> QED
  BY <1>2, <1>3, <1>4, <1>5, <1>6 DEF SoonInv

LEMMA ReturnSoon ==
  ASSUME WheelInv, SoonInv, Return
  PROVE  SoonInv'
<1> USE DEF Return, Idle, WheelInv, WheelTypeOK
<1>1. Later
  BY DEF SoonInv, Clocks
<1>2. Clocks'
  BY DEF SoonInv, Clocks
<1>3. Filing'
  BY DEF SoonInv, Filing
<1>4. NearIsSoon'
  BY <1>1, NearStays
<1>5. DestIsSoon'
  BY <1>1, DestStays
<1>6. TakenIsSoon'
  BY <1>1, TakenStays DEF SoonInv, Filing
<1> QED
  BY <1>2, <1>3, <1>4, <1>5, <1>6 DEF SoonInv

LEMMA EndWalkSoon ==
  ASSUME WheelInv, SoonInv, EndWalk
  PROVE  SoonInv'
<1> USE DEF EndWalk, Idle, WheelInv, WheelTypeOK
<1>1. Later
  BY DEF SoonInv, Clocks
<1>2. Clocks'
  BY DEF SoonInv, Clocks
<1>3. Filing'
  BY DEF SoonInv, Filing
<1>4. NearIsSoon'
  BY <1>1, NearStays
<1>5. DestIsSoon'
  BY <1>1, DestStays
<1>6. TakenIsSoon'
  BY <1>1, TakenStays DEF SoonInv, Filing
<1> QED
  BY <1>2, <1>3, <1>4, <1>5, <1>6 DEF SoonInv

LEMMA DieSoon ==
  ASSUME WheelInv, SoonInv, Die
  PROVE  SoonInv'
<1> USE DEF Die, WheelInv, WheelTypeOK
<1>1. Later
  BY DEF SoonInv, Clocks
<1>2. Clocks'
  BY DEF SoonInv, Clocks
<1>3. Filing'
  BY DEF SoonInv, Filing
<1>4. NearIsSoon'
  BY <1>1, NearStays
<1>5. DestIsSoon'
  BY <1>1, DestStays
<1>6. TakenIsSoon'
  BY <1>1, TakenStays DEF SoonInv, Filing
<1> QED
  BY <1>2, <1>3, <1>4, <1>5, <1>6 DEF SoonInv

LEMMA AdvanceSoon ==
  ASSUME WheelInv, SoonInv, Advance
  PROVE  SoonInv'
<1> USE DEF Advance, Idle, WheelInv, WheelTypeOK
<1>1. Later
  BY DEF SoonInv, Clocks
<1>2. Clocks'
  BY DEF SoonInv, Clocks, Idle
<1>3. Filing'
  BY DEF SoonInv, Filing, Idle
<1>4. NearIsSoon'
  BY <1>1, NearStays
<1>5. DestIsSoon'
  BY <1>1, DestStays
<1>6. TakenIsSoon'
  BY DEF TakenIsSoon
<1> QED
  BY <1>2, <1>3, <1>4, <1>5, <1>6 DEF SoonInv

LEMMA EraseTaskSoon ==
  ASSUME WheelInv, SoonInv, NEW t \in Threads, NEW i \in Ids, EraseTask(t, i)
  PROVE  SoonInv'
<1> USE DEF EraseTask, Start, Idle, WheelInv, WheelTypeOK
<1>1. Later
  BY DEF SoonInv, Clocks
<1>2. Clocks'
  BY DEF SoonInv, Clocks
<1>3. Filing'
  BY DEF SoonInv, Filing
<1>4. NearIsSoon'
  BY <1>1, NearStays
<1>5. DestIsSoon'
  BY <1>1, DestStays
<1>6. TakenIsSoon'
  BY <1>1, TakenStays DEF SoonInv, Filing
<1> QED
  BY <1>2, <1>3, <1>4, <1>5, <1>6 DEF SoonInv

LEMMA EraseUnknownSoon ==
  ASSUME WheelInv, SoonInv, NEW t \in Threads, EraseUnknown(t)
  PROVE  SoonInv'
<1> USE DEF EraseUnknown, Inside, Leave, WheelInv, WheelTypeOK
<1>1. Later
  BY DEF SoonInv, Clocks
<1>2. Clocks'
  BY DEF SoonInv, Clocks
<1>3. Filing'
  BY DEF SoonInv, Filing
<1>4. NearIsSoon'
  BY <1>1, NearStays
<1>5. DestIsSoon'
  BY <1>1, DestStays
<1>6. TakenIsSoon'
  BY <1>1, TakenStays DEF SoonInv, Filing
<1> QED
  BY <1>2, <1>3, <1>4, <1>5, <1>6 DEF SoonInv

LEMMA EraseKnownSoon ==
  ASSUME WheelInv, SoonInv, NEW t \in Threads, EraseKnown(t)
  PROVE  SoonInv'
<1> USE DEF EraseKnown, Inside, Leave, WheelInv, WheelTypeOK
<1>1. Later
  BY DEF SoonInv, Clocks
<1>2. Clocks'
  BY DEF SoonInv, Clocks
<1>3. arg[t] \in Ids /\ \A i \in Ids : where'[i] = IF i = arg[t] THEN NotFiled ELSE where[i]
  BY DEF Moved, TasksMade
<1>4. Filing'
  <2>1. op["caller"] = "add" => arg["caller"] \in Ids
    BY FiledIsMade, LenProperties DEF TasksMade, Ids
  <2> QED
    BY <1>3, <2>1 DEF SoonInv, Filing
<1>5. NearIsSoon'
  BY <1>1, <1>3, NearStays, NearOrLocalIsFiled
<1>6. DestIsSoon'
  BY <1>1, DestStays
<1>7. TakenIsSoon'
  BY <1>1, <1>3, TakenStays, NearOrLocalIsFiled
<1> QED
  BY <1>2, <1>4, <1>5, <1>6, <1>7 DEF SoonInv

LEMMA FileSoon ==
  ASSUME WheelInv, SoonInv, NEW t \in Threads, File(t)
  PROVE  SoonInv'
<1> USE DEF File, Inside, Leave, WheelInv, WheelTypeOK
<1>1. Later
  BY DEF SoonInv, Clocks
<1>2. Clocks'
  BY DEF SoonInv, Clocks
<1>3. /\ arg[t] \in 1 .. Len(node) /\ arg[t] \in Ids
      /\ \A i \in Ids : where'[i] = IF i = arg[t] THEN dest[t] ELSE where[i]
  BY LenProperties DEF Moved, TasksMade, Ids
<1>4. Filing'
  <2>1. op["caller"] = "add" => arg["caller"] \in Ids
    BY LenProperties DEF TasksMade, Ids
  <2> QED
    BY <1>3, <2>1 DEF SoonInv, Filing
<1>5. NearSlot(dest[t]) => Soon(arg[t])'
  <2>1. PICK j \in 1 .. Len(node) : j = arg[t]
    BY <1>3
  <2>2. NearSlot(dest[t]) => Soon(j)
    BY <2>1 DEF SoonInv, DestIsSoon
  <2> QED
    BY <1>1, <2>1, <2>2 DEF Soon
<1>6. NearIsSoon'
  <2> SUFFICES ASSUME NEW i \in Ids, NearSlot(where'[i]) PROVE Soon(i)'
    BY DEF NearIsSoon, NearSlot
  <2>1. CASE i = arg[t]
    BY <1>3, <1>5, <2>1 DEF Soon
  <2>2. CASE i # arg[t]
    BY <1>1, <1>3, <2>2, FiledIsMade, NearOrLocalIsFiled, SoonStays DEF SoonInv, NearIsSoon
  <2> QED
    BY <2>1, <2>2
<1>7. DestIsSoon'
  BY <1>1, DestStays
<1>8. TakenIsSoon'
  BY <1>1, <1>3, TakenStays, Sizes
<1> QED
  BY <1>2, <1>4, <1>6, <1>7, <1>8 DEF SoonInv

LEMMA PourSoon ==
  ASSUME WheelInv, SoonInv, NEW i \in Ids, Pour(i)
  PROVE  SoonInv'
<1> USE DEF Pour, Start, Idle, WheelInv, WheelTypeOK
<1>1. Later
  BY DEF SoonInv, Clocks
<1>2. Clocks'
  BY DEF SoonInv, Clocks
<1>3. where[i] = Local
  BY DEF MapExact
<1>4. Filing'
  BY <1>3, NearOrLocalIsFiled DEF SoonInv, Filing
<1>5. NearIsSoon'
  BY <1>1, NearStays
<1>6. DestIsSoon'
  BY <1>1, DestStays
<1>7. TakenIsSoon'
  BY DEF TakenIsSoon
<1> QED
  BY <1>2, <1>4, <1>5, <1>6, <1>7 DEF SoonInv

LEMMA NearSlotIsSoon ==
  ASSUME NEW e \in Nat, NEW t \in Nat, NearSlot(SlotOf(e, t))
  PROVE  e < t + NearSlots
<1>1. (e \div NearSlots) \in Nat
  BY Sizes
<1>2. (e \div NearSlots) % LevelSlots \in Nat
  BY <1>1, Sizes
<1>3. ~NearSlot(NearSlots + ((e \div NearSlots) % LevelSlots))
  BY <1>2, Sizes DEF NearSlot
<1>4. e < t \/ e - t < NearSlots
  BY <1>3 DEF SlotOf
<1> QED
  BY <1>4, Sizes

LEMMA PlaceSoon ==
  ASSUME WheelInv, SoonInv, NEW t \in Threads, Place(t)
  PROVE  SoonInv'
<1> USE DEF Place, WheelInv, WheelTypeOK
<1>1. Later
  BY DEF SoonInv, Clocks
<1>2. Clocks' /\ Filing'
  BY DEF SoonInv, Clocks, Filing
<1>3. NearIsSoon'
  BY <1>1, NearStays
<1>4. TakenIsSoon'
  BY <1>1, TakenStays
<1>5. arg[t] \in 1 .. Len(node)
  BY DEF Roles, TasksMade
<1>6. node[arg[t]].expire \in Nat
  <2>1. node[arg[t]] \in Nodes
    BY <1>5, ElementOfSeq
  <2> QED
    BY <2>1 DEF Nodes
<1>7. ASSUME NearSlot(dest'[t]) PROVE Soon(arg[t])
  <2>1. NearSlot(SlotOf(node[arg[t]].expire, current))
    BY <1>7
  <2> QED
    BY <1>6, <2>1, NearSlotIsSoon DEF Soon
<1>8. DestIsSoon'
  <2> SUFFICES ASSUME NEW u \in Threads, op'[u] = "add", step'[u] \in {"wait", "in"},
                      NearSlot(dest'[u])
               PROVE  node'[arg'[u]].expire < current' + NearSlots
    BY DEF DestIsSoon, NearSlot, Soon
  <2>1. Soon(arg[u])
    BY <1>7 DEF SoonInv, DestIsSoon
  <2> QED
    BY <2>1 DEF Soon
<1> QED
  BY <1>2, <1>3, <1>4, <1>8 DEF SoonInv

LEMMA InitDoneSoon == ASSUME WheelInv, SoonInv, InitDone PROVE SoonInv'
<1> USE DEF InitDone, Inside, Leave, WheelInv, WheelTypeOK
<1>1. Clocks' /\ Filing'
  BY DEF SoonInv, Clocks, Filing
<1>2. Len(node) = 0
  BY DEF SoonInv, Filing
<1>3. (\A i \in Ids : where[i] = NotFiled) /\ \A t \in Threads : op[t] # "add"
  BY <1>2 DEF TasksMade, Ids
<1>4. NearIsSoon' /\ TakenIsSoon'
  BY <1>3, NearOrLocalIsFiled DEF NearIsSoon, TakenIsSoon, NearSlot
<1>5. DestIsSoon'
  BY <1>3 DEF DestIsSoon
<1> QED
  BY <1>1, <1>4, <1>5 DEF SoonInv

(* The new task is after those in the map and those being filed.          *)
LEMMA AddTaskSoon ==
  ASSUME WheelInv, SoonInv, NEW f \in Fns, NEW w \in Waits, NEW n \in {1, FullCircle},
         AddTask(f, w, n)
  PROVE  SoonInv'
<1> DEFINE new == [expire |-> clock + w, interval |-> w, circles |-> n, fn |-> f]
<1> USE DEF AddTask, Start, WheelInv
<1>1. /\ node \in Seq(Nodes) /\ node' = Append(node, new)
      /\ Len(node) < MaxIds /\ step["caller"] = "out" /\ Len(node) \in Nat
  BY LenProperties DEF WheelTypeOK, Idle
<1>2. new \in Nodes
  BY Sizes DEF WheelTypeOK, Nodes
<1> HIDE DEF new
<1>3. /\ Len(node') = Len(node) + 1
      /\ \A i \in 1 .. Len(node) : node'[i] = node[i]
  BY <1>1, <1>2, AppendProperties
<1>4. \A i \in 1 .. Len(node) : Soon(i) => Soon(i)'
  BY <1>3 DEF Soon
<1>5. Clocks'
  BY DEF SoonInv, Clocks
<1>6. Filing'
  <2>1. Len(node) + 1 \in Ids /\ where[Len(node) + 1] = NotFiled
    BY <1>1, Sizes, FiledIsMade DEF Ids, TasksMade
  <2>2. op["wheel"] = "add" => arg["wheel"] # Len(node) + 1
    BY <1>1 DEF TasksMade
  <2>3. arg'["caller"] = Len(node) + 1 /\ arg'["wheel"] = arg["wheel"]
    BY <1>3 DEF WheelTypeOK
  <2> QED
    BY <2>1, <2>2, <2>3 DEF SoonInv, Filing, WheelTypeOK
<1>7. NearIsSoon'
  <2> SUFFICES ASSUME NEW i \in Ids, NearSlot(where[i]) PROVE Soon(i)'
    BY DEF NearIsSoon, NearSlot
  <2> QED
    BY <1>4, FiledIsMade, NearOrLocalIsFiled DEF SoonInv, NearIsSoon
<1>8. DestIsSoon'
  <2> SUFFICES ASSUME op["wheel"] = "add", step["wheel"] \in {"wait", "in"},
                      NearSlot(dest["wheel"])
               PROVE  Soon(arg["wheel"])'
    BY DEF DestIsSoon, NearSlot, Soon, WheelTypeOK
  <2>1. Soon(arg["wheel"]) /\ arg["wheel"] \in 1 .. Len(node) /\ arg'["wheel"] = arg["wheel"]
    BY DEF SoonInv, DestIsSoon, TasksMade, WheelTypeOK
  <2> QED
    BY <1>3, <2>1 DEF Soon
<1>9. TakenIsSoon'
  <2> SUFFICES ASSUME NEW i \in Ids, pc \in {"walk", "call"}, where[i] = Local,
                      ~(op["wheel"] = "add" /\ arg["wheel"] = i)
               PROVE  Soon(i)'
    BY DEF TakenIsSoon, WheelTypeOK
  <2> QED
    BY <1>4, FiledIsMade, NearOrLocalIsFiled DEF SoonInv, TakenIsSoon
<1> QED
  BY <1>5, <1>6, <1>7, <1>8, <1>9 DEF SoonInv

(* The lists that the worker takes out: of a later turn, or of the tick   *)
(* that it has counted.                                                   *)
LEMMA CascadeSoon == ASSUME WheelInv, SoonInv, Cascade PROVE SoonInv'
<1> USE DEF Cascade, TakeOut, WheelInv
<1>1. Later
  BY DEF WheelTypeOK
<1>2. Clocks'
  BY DEF SoonInv, Clocks, WheelTypeOK
<1>3. \A i \in Ids : /\ where'[i] \in {Local, where[i]}
                     /\ where'[i] # NotFiled => where[i] # NotFiled
  BY TakeOutKeepsMap, CascadedSlot DEF Roles, Between
<1>4. Filing'
  <2>1. ASSUME op["caller"] = "add" PROVE where'[arg["caller"]] = NotFiled
    <3>1. arg["caller"] \in Ids
      BY <2>1, LenProperties DEF TasksMade, Ids, WheelTypeOK
    <3>2. where[arg["caller"]] = NotFiled
      BY <2>1 DEF SoonInv, Filing
    <3> QED
      BY <3>1, <3>2, <1>3
  <2> QED
    BY <2>1 DEF SoonInv, Filing
<1>5. NearIsSoon'
  BY <1>1, <1>3, NearStays, NearOrLocalIsFiled
<1>6. DestIsSoon'
  BY <1>1, DestStays
<1>7. TakenIsSoon'
  BY DEF TakenIsSoon
<1> QED
  BY <1>2, <1>4, <1>5, <1>6, <1>7 DEF SoonInv

LEMMA TakeSoon == ASSUME WheelInv, SoonInv, pc # "crashed", Take PROVE SoonInv'
<1> DEFINE l == tick % NearSlots
<1>1. NearSlot(l)
  BY Sizes DEF WheelInv, WheelTypeOK, NearSlot
<1>2. l \in Slots
  BY <1>1, Sizes DEF Slots, NearSlot
<1>3. list[Local] = {} /\ TakeOut(l)
  BY DEF Take, Inside, WheelInv, Roles, Between
<1> HIDE DEF l
<1> USE DEF Take, Inside, Leave, WheelInv
<1>4. Later
  BY DEF WheelTypeOK
<1>5. Clocks'
  BY DEF SoonInv, Clocks, WheelTypeOK
<1>6. \A i \in Ids : /\ where'[i] = IF where[i] = l THEN Local ELSE where[i]
                     /\ where'[i] # NotFiled => where[i] # NotFiled
                     /\ where[i] # Local
  BY <1>2, <1>3, TakeOutKeepsMap DEF TakeOut, MapExact
<1>7. Filing'
  <2>1. ASSUME op["caller"] = "add" PROVE where'[arg["caller"]] = NotFiled
    <3>1. arg["caller"] \in Ids
      BY <2>1, LenProperties DEF TasksMade, Ids, WheelTypeOK
    <3>2. where[arg["caller"]] = NotFiled
      BY <2>1 DEF SoonInv, Filing
    <3> QED
      BY <3>1, <3>2, <1>6
  <2> QED
    BY <2>1 DEF SoonInv, Filing, WheelTypeOK
<1>8. NearIsSoon'
  BY <1>4, <1>6, NearStays, NearOrLocalIsFiled
<1>9. DestIsSoon'
  <2>1. \A t \in Threads : op'[t] = "add" => op[t] = "add" /\ step'[t] = step[t]
    BY DEF WheelTypeOK
  <2> QED
    BY <1>4, <2>1, DestStays
<1>10. TakenIsSoon'
  <2> SUFFICES ASSUME NEW i \in Ids, where'[i] = Local PROVE Soon(i)'
    BY DEF TakenIsSoon
  <2>1. NearSlot(where[i])
    BY <1>1, <1>6
  <2> QED
    BY <1>4, <2>1, FiledIsMade, NearOrLocalIsFiled, SoonStays DEF SoonInv, NearIsSoon
<1> QED
  BY <1>5, <1>7, <1>8, <1>9, <1>10 DEF SoonInv

LEMMA ForgetSoon ==
  ASSUME WheelInv, SoonInv, NEW i \in Ids, Forget(i)
  PROVE  SoonInv'
<1> USE DEF Forget, Idle, WheelInv
<1>1. Later
  BY DEF WheelTypeOK
<1>2. Clocks'
  BY DEF SoonInv, Clocks
<1>3. \A j \in Ids : where'[j] = IF j = i THEN NotFiled ELSE where[j]
  BY DEF Moved, WheelTypeOK
<1>4. arg'["caller"] = arg["caller"] /\ op["wheel"] = "none"
  BY DEF WheelTypeOK, SoonInv, Filing
<1>5. Filing'
  <2>1. op["caller"] = "add" => arg["caller"] \in Ids
    BY LenProperties DEF TasksMade, Ids, WheelTypeOK
  <2> QED
    BY <1>3, <1>4, <2>1 DEF SoonInv, Filing
<1>6. NearIsSoon'
  BY <1>1, <1>3, NearStays, NearOrLocalIsFiled
<1>7. DestIsSoon'
  BY <1>1, <1>4, DestStays
<1>8. TakenIsSoon'
  BY <1>1, <1>3, <1>4, TakenStays, NearOrLocalIsFiled
<1> QED
  BY <1>2, <1>5, <1>6, <1>7, <1>8 DEF SoonInv

LEMMA AgainSoon ==
  ASSUME WheelInv, SoonInv, NEW i \in Ids, Again(i)
  PROVE  SoonInv'
<1> USE DEF Again, Start, Idle, WheelInv
<1>1. where[i] = Local
  BY DEF MapExact
<1>2. \A j \in Ids : j # i => node'[j] = node[j]
  BY FiledIsMade, <1>1, NearOrLocalIsFiled, ElementOfSeq DEF WheelTypeOK
<1>3. Clocks'
  BY DEF SoonInv, Clocks
<1>4. /\ op' = [op EXCEPT !["wheel"] = "add"] /\ op'["wheel"] = "add"
      /\ arg'["wheel"] = i /\ step'["wheel"] = "place"
      /\ op'["caller"] = op["caller"] /\ step'["caller"] = step["caller"]
      /\ arg'["caller"] = arg["caller"]
  BY DEF WheelTypeOK
<1>5. Filing'
  <2>1. i \in 1 .. Len(node) /\ node \in Seq(Nodes)
    BY <1>1, FiledIsMade, NearOrLocalIsFiled DEF WheelTypeOK
  <2>2. node # <<>>
    BY <2>1
  <2> QED
    BY <1>1, <1>4, <2>2, NearOrLocalIsFiled DEF SoonInv, Filing
<1>6. NearIsSoon'
  BY <1>1, <1>2, NearOrLocalIsFiled DEF SoonInv, NearIsSoon, Soon, NearSlot
<1>7. DestIsSoon'
  <2> SUFFICES ASSUME op["caller"] = "add", step["caller"] \in {"wait", "in"},
                      NearSlot(dest["caller"])
               PROVE  node'[arg["caller"]].expire < current + NearSlots
    BY <1>4 DEF DestIsSoon, Soon, NearSlot
  <2>1. arg["caller"] \in Ids /\ arg["caller"] # i
    BY <1>1, NearOrLocalIsFiled, LenProperties DEF SoonInv, Filing, TasksMade, Ids, WheelTypeOK
  <2> QED
    BY <1>2, <2>1 DEF SoonInv, DestIsSoon, Soon
<1>8. TakenIsSoon'
  BY <1>2, <1>4 DEF SoonInv, Filing, TakenIsSoon, Soon
<1> QED
  BY <1>3, <1>5, <1>6, <1>7, <1>8 DEF SoonInv

HIDE DEF Later

LEMMA SoonNext == WheelInv /\ SoonInv /\ [WheelNext]_wheelVars => SoonInv'
<1> SUFFICES ASSUME WheelInv, SoonInv, [WheelNext]_wheelVars PROVE SoonInv'
  OBVIOUS
<1>1. CASE Tick
  BY <1>1, TickSoon
<1>2. CASE pc # "crashed" /\ Worker
  <2>1. CASE Begin \/ Check \/ Sleep \/ Turn \/ Index \/ EndWalk \/ Crash
    BY <2>1, BeginSoon, CheckSoon, SleepSoon, TurnSoon, IndexSoon, EndWalkSoon, DieSoon DEF Crash
  <2>2. CASE Cascade \/ Advance \/ Take
    BY <1>2, <2>2, CascadeSoon, AdvanceSoon, TakeSoon
  <2>3. CASE \E i \in Ids : Pour(i) \/ Again(i) \/ Forget(i)
    BY <2>3, PourSoon, AgainSoon, ForgetSoon
  <2> QED
    BY <1>2, <2>1, <2>2, <2>3 DEF Worker
<1>3. CASE Calls
  BY <1>3, InitDoneSoon, LockSoon, PlaceSoon, FileSoon, EraseKnownSoon, EraseUnknownSoon, DieSoon
     DEF Calls, EraseElsewhere
<1>4. CASE AnyUse
  BY <1>4, AddTaskSoon, EraseTaskSoon, ReturnSoon, DieSoon DEF AnyUse
<1>5. CASE UNCHANGED wheelVars
  BY <1>5 DEF wheelVars, SoonInv, Clocks, Filing, NearIsSoon, DestIsSoon, TakenIsSoon, NearSlot, Soon
<1> QED
  BY <1>1, <1>2, <1>3, <1>4, <1>5 DEF WheelNext

(* check() calls no task a whole turn of the near wheel before its time,  *)
(* although the slot is computed without the lock (time_wheel.h:134,      *)
(* 174): for any sizes of the wheel, any delays and callers of any kind.  *)
THEOREM NeverFarEarly == WheelSpec => AtMostATurnEarly
<1>1. WheelInv /\ SoonInv =>
        \A i \in Ids : Again(i) \/ Forget(i) => node[i].expire < current + NearSlots
  <2> SUFFICES ASSUME WheelInv, SoonInv, NEW i \in Ids, Again(i) \/ Forget(i) PROVE Soon(i)
    BY DEF Soon
  <2>1. where[i] = Local /\ step["wheel"] = "out" /\ pc = "walk"
    BY DEF Again, Forget, Idle, WheelInv, MapExact
  <2>2. op["wheel"] # "add"
    BY <2>1 DEF SoonInv, Filing
  <2> QED
    BY <2>1, <2>2 DEF SoonInv, TakenIsSoon
<1>2. WheelInit => SoonInv
  BY SoonInit
<1> QED
  BY <1>1, <1>2, SoonNext, WheelCorrect, PTL DEF WheelSpec, AtMostATurnEarly

-----------------------------------------------------------------------------
(* Tasks that have left the map.  The worker files again what it holds,   *)
(* or what was freed in its hand.                                         *)
Handed == op["wheel"] = "add" => where[arg["wheel"]] = Local \/ arg["wheel"] \in freed

(* The two actions that put an id in the map are those that file it.      *)
LEMMA OnlyFileAdds ==
  ASSUME WheelInv, [WheelNext]_wheelVars, NEW i \in Ids, where[i] = NotFiled, where'[i] # NotFiled
  PROVE  \E t \in Threads : File(t) /\ arg[t] = i
<1> USE DEF WheelInv, WheelTypeOK
<1>1. where' # where
  OBVIOUS
<1>2. ASSUME NEW j \in Ids, Moved(j, NotFiled) PROVE FALSE
  BY <1>2 DEF Moved
<1>3. ASSUME NEW l \in Slots, list[Local] = {}, TakeOut(l) PROVE FALSE
  BY <1>3, TakeOutKeepsMap
<1>4. ~Tick /\ ~AnyUse
  BY <1>1 DEF Tick, AnyUse, AddTask, EraseTask, Return, Die
<1>5. CASE Worker
  <2>1. ~(Begin \/ Check \/ Sleep \/ Turn \/ Index \/ Advance \/ EndWalk \/ Crash)
    BY <1>1 DEF Begin, Check, Sleep, Turn, Index, Advance, EndWalk, Crash, Die
  <2>2. ~Cascade
    BY <1>3, CascadedSlot DEF Cascade, Roles, Between
  <2>3. ~Take \/ pc = "crashed"
    <3>1. tick % NearSlots \in 0 .. NearSlots - 1
      BY Sizes
    <3>2. tick % NearSlots \in Slots
      BY <3>1, Sizes DEF Slots
    <3> QED
      BY <1>3, <3>2 DEF Take, Inside, Roles, Between
  <2>4. ASSUME NEW j \in Ids PROVE ~Pour(j) /\ ~Again(j) /\ ~Forget(j)
    BY <1>1, <1>2 DEF Pour, Again, Forget
  <2> QED
    BY <1>1, <1>5, <2>1, <2>2, <2>3, <2>4 DEF Worker, WheelNext, wheelVars
<1>6. CASE Calls
  <2>1. ~InitDone /\ \A t \in Threads :
          ~Lock(t) /\ ~Place(t) /\ ~EraseElsewhere(t) /\ ~EraseUnknown(t)
    BY <1>1 DEF InitDone, Lock, Place, EraseElsewhere, EraseUnknown, Die
  <2>2. ASSUME NEW t \in Threads, EraseKnown(t) PROVE FALSE
    BY <1>2, <2>2 DEF EraseKnown, Inside, TasksMade
  <2>3. PICK t \in Threads : File(t)
    BY <1>6, <2>1, <2>2 DEF Calls
  <2>4. arg[t] = i
    BY <2>3 DEF File, Moved
  <2> QED
    BY <2>3, <2>4
<1> QED
  BY <1>1, <1>4, <1>5, <1>6 DEF WheelNext, wheelVars

LEMMA HandedInit == WheelInit => Handed
BY DEF WheelInit, Handed

LEMMA HandedNext == WheelInv /\ SoonInv /\ Handed /\ [WheelNext]_wheelVars => Handed'
<1> SUFFICES ASSUME WheelInv, SoonInv, Handed, [WheelNext]_wheelVars, op'["wheel"] = "add"
             PROVE  where'[arg'["wheel"]] = Local \/ arg'["wheel"] \in freed'
  BY DEF Handed
<1> USE DEF WheelInv, WheelTypeOK
<1>1. ASSUME op["wheel"] = "add", UNCHANGED <<where, freed>>, arg'["wheel"] = arg["wheel"]
      PROVE  where'[arg'["wheel"]] = Local \/ arg'["wheel"] \in freed'
  BY <1>1 DEF Handed
<1>2. op["wheel"] = "add" => arg["wheel"] \in Ids /\ step["wheel"] # "out"
  BY LenProperties DEF TasksMade, Ids, SoonInv, Filing
<1>3. CASE UNCHANGED wheelVars
  BY <1>1, <1>3 DEF wheelVars
<1>4. CASE Tick \/ AnyUse
  BY <1>1, <1>4 DEF Tick, AnyUse, AddTask, EraseTask, Start, Return, Die
<1>5. CASE pc # "crashed" /\ Worker
  <2>1. CASE Begin \/ Check \/ Sleep \/ Turn \/ Index \/ EndWalk \/ Crash
    BY <1>1, <2>1 DEF Begin, Check, Sleep, Turn, Index, EndWalk, Crash, Die
  <2>2. ~Advance /\ ~Take
    BY DEF Advance, Take, Leave
  <2>3. ~Cascade
    BY <1>2 DEF Cascade, Roles, Between
  <2>4. ASSUME NEW i \in Ids, Pour(i) \/ Again(i)
        PROVE  where'[arg'["wheel"]] = Local
    BY <2>4 DEF Pour, Again, Start, MapExact
  <2>5. ASSUME NEW i \in Ids PROVE ~Forget(i)
    BY <1>2 DEF Forget, Idle
  <2> QED
    BY <1>5, <2>1, <2>2, <2>3, <2>4, <2>5 DEF Worker
<1>6. CASE Calls
  <2>1. CASE InitDone \/ \E t \in Threads :
               Lock(t) \/ Place(t) \/ EraseElsewhere(t) \/ EraseUnknown(t)
    BY <1>1, <2>1 DEF InitDone, Lock, Place, EraseElsewhere, EraseUnknown, Leave, Die
  <2>2. ASSUME NEW t \in Threads, File(t)
        PROVE  where'[arg'["wheel"]] = Local \/ arg'["wheel"] \in freed'
    <3>1. t = "caller" /\ op["wheel"] = "add" /\ op["caller"] = "add"
          /\ arg' = arg /\ freed' = freed
      BY <2>2 DEF File, Inside, Leave
    <3>2. arg["wheel"] # arg["caller"]
      BY <3>1 DEF SoonInv, Filing
    <3>3. where'[arg["wheel"]] = where[arg["wheel"]]
      BY <1>2, <2>2, <3>1, <3>2 DEF File, Moved
    <3> QED
      BY <3>1, <3>3 DEF Handed
  <2>3. ASSUME NEW t \in Threads, EraseKnown(t)
        PROVE  where'[arg'["wheel"]] = Local \/ arg'["wheel"] \in freed'
    <3>1. /\ op["wheel"] = "add" /\ arg' = arg
          /\ freed' = freed \cup {i \in {arg[t]} : Referred(i)}
          /\ \A j \in Ids : where'[j] = IF j = arg[t] THEN NotFiled ELSE where[j]
      BY <2>3 DEF EraseKnown, Inside, Leave, Moved
    <3> QED
      BY <1>2, <3>1 DEF Handed, Referred
  <2> QED
    BY <1>6, <2>1, <2>2, <2>3 DEF Calls
<1> QED
  BY <1>3, <1>4, <1>5, <1>6 DEF WheelNext

LEMMA ErasedStays ==
  WheelInv /\ Handed /\ [WheelNext]_wheelVars =>
    \A i \in Ids : where[i] = NotFiled /\ where'[i] # NotFiled =>
      i \in freed \/ (op["caller"] = "add" /\ arg["caller"] = i)
<1> SUFFICES ASSUME WheelInv, Handed, [WheelNext]_wheelVars, NEW i \in Ids,
                    where[i] = NotFiled, where'[i] # NotFiled
             PROVE  i \in freed \/ (op["caller"] = "add" /\ arg["caller"] = i)
  OBVIOUS
<1>1. PICK t \in Threads : File(t) /\ arg[t] = i
  BY OnlyFileAdds
<1> QED
  BY <1>1, NearOrLocalIsFiled DEF File, Inside, Handed

(* A task that was erased, or has had its last call, is not filed or      *)
(* called again, however the calls of the two threads interleave; the one *)
(* exception is a node freed in the worker's hand (time_wheel.h:180-192). *)
THEOREM ErasedIsGone == WheelSpec => ErasedStaysErased
BY WheelCorrect, SoonInit, SoonNext, HandedInit, HandedNext, ErasedStays, PTL
   DEF WheelSpec, ErasedStaysErased

HIDE DEF Threads

(* The types of the wheel's state, of which one is about memory:          *)
(* every list that add_node and cascade index exists in tv_.              *)
THEOREM WheelTypes == WheelSpec => []WheelTypeOK
<1>1. WheelInv => WheelTypeOK
  BY DEF WheelInv
<1> QED
  BY WheelCorrect, <1>1, PTL
=============================================================================
