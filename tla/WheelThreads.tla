---------------------------- MODULE WheelThreads ----------------------------
(***************************************************************************)
(* time_wheel (private/time_wheel.h) at the grain of its spin lock: the    *)
(* worker that init_time_wheel starts, and one thread that files and       *)
(* erases tasks.  What the code does under the lock is a step of its own   *)
(* after the one that takes it, and everything done without the lock falls *)
(* between them.  Two of the wheel's five levels are kept, and no task      *)
(* waits for longer than they hold; TimeWheel has the arithmetic of all.   *)
(* Lists are sets: no order within one is assumed.                         *)
(***************************************************************************)
EXTENDS Integers, Sequences

CONSTANTS
  NearSlots, LevelSlots,  \* TIME_NEAR and TIME_LEVEL
  Fns,                    \* what the tasks call
  Waits,                  \* ticks after which they are called
  FullCircle,             \* FULL_CIRCLE
  MaxIds,                 \* bound: tasks that are made
  MaxClock                \* bound: the last clock reading

ASSUME ThreadsAssumption ==
  /\ NearSlots \in Nat \ {0} /\ LevelSlots \in Nat \ {0}
  /\ \A w \in Waits : w \in Nat /\ w + MaxClock < NearSlots * LevelSlots
  /\ FullCircle \in Nat \ {0, 1}
  /\ MaxIds \in Nat /\ MaxClock \in Nat

Threads == {"caller", "wheel"}
Ids == 1 .. MaxIds

(* The lists of tv_, and the one into which check and cascade move them.  *)
Slots == 0 .. NearSlots + LevelSlots - 1
Local == NearSlots + LevelSlots
NotFiled == Local + 1

VARIABLES
  clock,      \* system_clock
  now,        \* its reading at the start of the current check()
  current,    \* current_
  tick,       \* the tick whose list check() is about to take (0: none)
  lock,       \* the flag of spin_lock_
  pc,         \* what the worker does
  op,         \* a thread's call: "none", "init", "add", "erase" or "take"
  step,       \* where in it: "out", "place", "wait" or "in" (the lock)
  arg,        \* the task it is about
  dest,       \* the list that add_node has computed
  list,       \* the tasks of each list
  where,      \* id_map_: the list that holds the node of a task
  node,       \* what was made of a task: get_id counts them
  freed       \* tasks whose node was freed while the worker referred to it

wheelVars == <<clock, now, current, tick, lock, pc, op, step, arg, dest, list,
               where, node, freed>>

Nodes == [expire : Nat, interval : Nat, circles : Nat \ {0}, fn : Fns]

WheelTypeOK ==
  /\ clock \in Nat /\ now \in Nat /\ current \in Nat /\ tick \in Nat
  /\ lock \in BOOLEAN
  /\ pc \in {"new", "asleep", "check", "index", "cascade", "pour", "advance", "take",
            "walk", "call", "crashed"}
  /\ op \in [Threads -> {"none", "init", "add", "erase", "take"}]
  /\ step \in [Threads -> {"out", "place", "wait", "in"}]
  /\ arg \in [Threads -> Ids \cup {0}]
  /\ dest \in [Threads -> Slots]
  /\ list \in [Slots \cup {Local} -> SUBSET Ids]
  /\ where \in [Ids -> Slots \cup {Local, NotFiled}]
  /\ node \in Seq(Nodes)
  /\ freed \in SUBSET Ids

(* The constructor of the server is in init_time_wheel.                   *)
WheelInit ==
  /\ clock = 0 /\ now = 0 /\ current = 0 /\ tick = 0
  /\ lock = TRUE
  /\ pc = "new"
  /\ op = [t \in Threads |-> IF t = "caller" THEN "init" ELSE "none"]
  /\ step = [t \in Threads |-> IF t = "caller" THEN "in" ELSE "out"]
  /\ arg = [t \in Threads |-> 0]
  /\ dest = [t \in Threads |-> 0]
  /\ list = [l \in Slots \cup {Local} |-> {}]
  /\ where = [i \in Ids |-> NotFiled]
  /\ node = <<>>
  /\ freed = {}

-----------------------------------------------------------------------------
(* Calls of either thread. *)

Idle(t) == step[t] = "out"

Start(t, o, s, i) ==
  /\ op' = [op EXCEPT ![t] = o]
  /\ step' = [step EXCEPT ![t] = s]
  /\ arg' = [arg EXCEPT ![t] = i]

Leave(t) ==
  /\ op' = [op EXCEPT ![t] = "none"]
  /\ step' = [step EXCEPT ![t] = "out"]

(* Mutant: the flag is not looked at. *)
LockAnyway(t) ==
  /\ step[t] = "wait"
  /\ lock' = TRUE
  /\ step' = [step EXCEPT ![t] = "in"]
  /\ UNCHANGED <<clock, now, current, tick, pc, op, arg, dest, list, where,
                 node, freed>>

(* spin_lock::lock *)
Lock(t) ==
  /\ step[t] = "wait"
  /\ ~lock
  /\ lock' = TRUE
  /\ step' = [step EXCEPT ![t] = "in"]
  /\ UNCHANGED <<clock, now, current, tick, pc, op, arg, dest, list, where,
                 node, freed>>

(* add_task, up to the call of add_node. *)
AddTask(f, wait, circles) ==
  /\ Idle("caller")
  /\ Len(node) < MaxIds
  /\ node' = Append(node,
       [expire |-> clock + wait, interval |-> wait, circles |-> circles, fn |-> f])
  /\ Start("caller", "add", "place", Len(node'))
  /\ UNCHANGED <<clock, now, current, tick, lock, pc, dest, list, where, freed>>

(* Mutants: the next list of the level; everything in the near wheel.     *)
SlotOfNext(e, t) ==
  IF e < t THEN t % NearSlots
  ELSE IF e - t < NearSlots THEN e % NearSlots
  ELSE NearSlots + ((e \div NearSlots) % LevelSlots) + 1

SlotOfNear(e, t) == IF e < t THEN t % NearSlots ELSE e % NearSlots

SlotOf(e, t) ==
  IF e < t THEN t % NearSlots
  ELSE IF e - t < NearSlots THEN e % NearSlots
  ELSE NearSlots + ((e \div NearSlots) % LevelSlots)

(* add_node reads current_ before it takes the lock. *)
Place(t) ==
  /\ step[t] = "place"
  /\ dest' = [dest EXCEPT ![t] = SlotOf(node[arg[t]].expire, current)]
  /\ step' = [step EXCEPT ![t] = "wait"]
  /\ UNCHANGED <<clock, now, current, tick, lock, pc, op, arg, list, where,
                 node, freed>>

Inside(t, o) == op[t] = o /\ step[t] = "in"

(* The list of task i becomes l: for add_node, a copy of the node that    *)
(* the worker leaves in its own list, where nothing finds it any more.    *)
Moved(i, l) ==
  /\ list' = [k \in Slots \cup {Local} |->
       IF k = l THEN list[k] \cup {i} ELSE list[k] \ {i}]
  /\ where' = [where EXCEPT ![i] = l]

File(t) ==
  /\ Inside(t, "add")
  /\ Moved(arg[t], dest[t])
  /\ lock' = FALSE
  /\ Leave(t)
  /\ UNCHANGED <<clock, now, current, tick, pc, arg, dest, node, freed>>

EraseTask(t, i) ==
  /\ Idle(t)
  /\ t = "wheel" => pc = "call"
  /\ Start(t, "erase", "wait", i)
  /\ UNCHANGED <<clock, now, current, tick, lock, pc, dest, list, where, node,
                 freed>>

(* The worker has i at hand, in its own list, for add_node.               *)
Referred(i) == op["wheel"] = "add" /\ arg["wheel"] = i /\ where[i] = Local

(* Mutant: the id leaves the map and its node stays in the list. *)
EraseKnownListed(t) ==
  /\ Inside(t, "erase")
  /\ where[arg[t]] # NotFiled
  /\ freed' = freed \cup {i \in {arg[t]} : Referred(i)}
  /\ where' = [where EXCEPT ![arg[t]] = NotFiled]
  /\ lock' = FALSE
  /\ Leave(t)
  /\ UNCHANGED <<clock, now, current, tick, pc, arg, dest, list, node>>

EraseKnown(t) ==
  /\ Inside(t, "erase")
  /\ where[arg[t]] # NotFiled
  /\ freed' = freed \cup {i \in {arg[t]} : Referred(i)}
  /\ Moved(arg[t], NotFiled)
  /\ lock' = FALSE
  /\ Leave(t)
  /\ UNCHANGED <<clock, now, current, tick, pc, arg, dest, node>>

(* The program ends. *)
Die ==
  /\ pc' = "crashed"
  /\ UNCHANGED <<clock, now, current, tick, lock, op, step, arg, dest, list,
                 where,
                 node, freed>>

(* node.list_ names the list of tv_ also after the worker has moved the   *)
(* node out of it: erase is called on a list that does not hold the node. *)
(* libstdc++ unlinks it all the same, and gets wrong a size that nothing  *)
(* reads (EraseKnown); a build that checks its iterators ends.            *)
EraseElsewhere(t) == Inside(t, "erase") /\ where[arg[t]] = Local /\ Die

(* erase_task returns from here with the lock. *)
EraseUnknown(t) ==
  /\ Inside(t, "erase")
  /\ where[arg[t]] = NotFiled
  /\ Leave(t)
  /\ UNCHANGED <<clock, now, current, tick, lock, pc, arg, dest, list, where,
                 node, freed>>

(* init_time_wheel sets current_ after it has started the worker.         *)
InitDone ==
  /\ Inside("caller", "init")
  /\ current' = clock
  /\ lock' = FALSE
  /\ Leave("caller")
  /\ UNCHANGED <<clock, now, tick, pc, arg, dest, list, where, node, freed>>

-----------------------------------------------------------------------------
(* The worker: run_time_wheel, check and cascade. *)

Begin ==
  /\ pc = "new"
  /\ current' = clock
  /\ pc' = "asleep"
  /\ UNCHANGED <<clock, now, tick, lock, op, step, arg, dest, list, where,
                 node, freed>>

Tick ==
  /\ clock < MaxClock
  /\ clock' = clock + 1
  /\ UNCHANGED <<now, current, tick, lock, pc, op, step, arg, dest, list,
                 where, node, freed>>

Check ==
  /\ pc = "asleep"
  /\ now' = clock
  /\ pc' = "check"
  /\ UNCHANGED <<clock, current, tick, lock, op, step, arg, dest, list, where,
                 node, freed>>

Sleep ==
  /\ pc = "check"
  /\ current > now
  /\ pc' = "asleep"
  /\ UNCHANGED <<clock, now, current, tick, lock, op, step, arg, dest, list,
                 where, node, freed>>

(* The loop condition, and then idx: current_ may be set in between.       *)
Turn ==
  /\ pc = "check"
  /\ current <= now
  /\ pc' = "index"
  /\ UNCHANGED <<clock, now, current, tick, lock, op, step, arg, dest, list,
                 where,
                 node, freed>>

Index ==
  /\ pc = "index"
  /\ tick' = current
  /\ pc' = IF tick' % NearSlots = 0 THEN "cascade" ELSE "advance"
  /\ UNCHANGED <<clock, now, current, lock, op, step, arg, dest, list, where,
                 node,
                 freed>>

(* temp = std::move(tv_[l]); the nodes move with it.                      *)
TakeOut(l) ==
  /\ list' = [list EXCEPT ![l] = {}, ![Local] = list[l]]
  /\ where' = [i \in Ids |-> IF i \in list[l] THEN Local ELSE where[i]]

(* cascade takes its list without the lock. *)
Cascade ==
  /\ pc = "cascade"
  /\ TakeOut(NearSlots + ((current \div NearSlots) % LevelSlots))
  /\ pc' = "pour"
  /\ UNCHANGED <<clock, now, current, tick, lock, op, step, arg, dest, node,
                 freed>>

Pour(i) ==
  /\ pc = "pour" /\ Idle("wheel")
  /\ i \in list[Local]
  /\ Start("wheel", "add", "place", i)
  /\ UNCHANGED <<clock, now, current, tick, lock, pc, dest, list, where, node,
                 freed>>

(* ++current_ *)
Advance ==
  /\ \/ pc = "advance"
     \/ pc = "pour" /\ Idle("wheel") /\ list[Local] = {}
  /\ current' = current + 1
  /\ pc' = "take"
  /\ op' = [op EXCEPT !["wheel"] = "take"]
  /\ step' = [step EXCEPT !["wheel"] = "wait"]
  /\ UNCHANGED <<clock, now, tick, lock, arg, dest, list, where, node, freed>>

Take ==
  /\ Inside("wheel", "take")
  /\ TakeOut(tick % NearSlots)
  /\ tick' = 0
  /\ lock' = FALSE
  /\ pc' = "walk"
  /\ Leave("wheel")
  /\ UNCHANGED <<clock, now, current, arg, dest, node, freed>>

(* A task that has another call, an interval after the time check() read. *)
Repeated(n) ==
  [n EXCEPT !.expire = now + n.interval,
            !.circles = IF n.circles = FullCircle THEN n.circles ELSE n.circles - 1]

(* The next task of the list: file it again, if calls are left.           *)
Again(i) ==
  /\ pc = "walk" /\ Idle("wheel")
  /\ i \in list[Local]
  /\ node[i].circles # 1
  /\ node' = [node EXCEPT ![i] = Repeated(node[i])]
  /\ pc' = "call"
  /\ Start("wheel", "add", "place", i)
  /\ UNCHANGED <<clock, now, current, tick, lock, dest, list, where, freed>>

(* Mutant: the id stays in the map. *)
ForgetNode(i) ==
  /\ pc = "walk" /\ Idle("wheel")
  /\ i \in list[Local]
  /\ node[i].circles = 1
  /\ list' = [list EXCEPT ![Local] = list[Local] \ {i}]
  /\ arg' = [arg EXCEPT !["wheel"] = i]
  /\ pc' = "call"
  /\ UNCHANGED <<clock, now, current, tick, lock, op, step, dest, where, node,
                 freed>>

(* Or forget it: id_map_.erase, without the lock.  Two threads in the map *)
(* at once is a data race; here one of them comes first.                  *)
Forget(i) ==
  /\ pc = "walk" /\ Idle("wheel")
  /\ i \in list[Local]
  /\ node[i].circles = 1
  /\ Moved(i, NotFiled)
  /\ arg' = [arg EXCEPT !["wheel"] = i]
  /\ pc' = "call"
  /\ UNCHANGED <<clock, now, current, tick, lock, op, step, dest, node, freed>>

(* v.fn_ has been called, and has returned. *)
Return ==
  /\ pc = "call" /\ Idle("wheel")
  /\ pc' = "walk"
  /\ UNCHANGED <<clock, now, current, tick, lock, op, step, arg, dest, list,
                 where, node, freed>>

EndWalk ==
  /\ pc = "walk" /\ Idle("wheel")
  /\ list[Local] = {}
  /\ pc' = "check"
  /\ UNCHANGED <<clock, now, current, tick, lock, op, step, arg, dest, list,
                 where, node, freed>>

(* Of the outcomes of copying a node that has been freed, the model has   *)
(* the one in which its memory still holds it, and this one.              *)
Crash == op["wheel"] = "add" /\ where[arg["wheel"]] = NotFiled /\ Die

Worker ==
  \/ Begin \/ Check \/ Sleep \/ Turn \/ Index \/ Cascade \/ Advance \/ Take
  \/ EndWalk \/ Crash
  \/ \E i \in Ids : Pour(i) \/ Again(i) \/ Forget(i)

Calls ==
  \/ InitDone
  \/ \E t \in Threads :
       \/ Lock(t) \/ Place(t) \/ File(t)
       \/ EraseKnown(t) \/ EraseElsewhere(t) \/ EraseUnknown(t)

(* Callers of every kind: any task may be filed, any id erased, by the    *)
(* thread and by the tasks themselves, and the program may fail elsewhere. *)
AnyUse ==
  \/ \E f \in Fns, w \in Waits, n \in {1, FullCircle} : AddTask(f, w, n)
  \/ \E t \in Threads, i \in Ids : EraseTask(t, i)
  \/ Return \/ Die

WheelNext == pc # "crashed" /\ (Tick \/ Worker \/ Calls \/ AnyUse)

WheelSpec == WheelInit /\ [][WheelNext]_wheelVars

-----------------------------------------------------------------------------
(* The lock of a call that has returned: nobody will give it back.        *)
LockLost == lock /\ \A t \in Threads : step[t] # "in"

(* The two threads are never both between lock() and unlock(), although   *)
(* erase_task may return without unlocking.                               *)
OneInside == \A t \in Threads : step[t] = "in" => lock /\ \A u \in Threads \ {t} : step[u] # "in"

(* The map always names the list that holds the node of a task, also      *)
(* while check and cascade have moved the list out (time_wheel.h:177,     *)
(* 197): no entry is left for a node that is gone, no node without entry. *)
MapExact ==
  \A i \in Ids : \A l \in Slots \cup {Local} : i \in list[l] <=> where[i] = l

(* check calls no task more than a turn of the near wheel before its      *)
(* time.  It may be that early, although the wheel alone never is: add_node *)
(* may file into the slot of the tick that check has just counted and not *)
(* yet taken (time_wheel.h:134, 174).                                     *)
AtMostATurnEarly ==
  [][\A i \in Ids : Again(i) \/ Forget(i) => node[i].expire < current + NearSlots]_wheelVars

(* A task enters the map once: when add_task first files it.  One that    *)
(* erase_task or its last call has taken out is in no list again and is   *)
(* called no more, unless its node was freed while the worker, which had  *)
(* copied the list out, was about to file it once more                    *)
(* (time_wheel.h:94, 180-192).                                            *)
ErasedStaysErased ==
  [][\A i \in Ids : where[i] = NotFiled /\ where'[i] # NotFiled =>
       i \in freed \/ (op["caller"] = "add" /\ arg["caller"] = i)]_wheelVars
=============================================================================
