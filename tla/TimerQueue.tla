----------------------------- MODULE TimerQueue -----------------------------
(***************************************************************************)
(* What time_wheel (private/time_wheel.h) promises: a set of tasks, each   *)
(* with the tick at which it is due.  Ticks are processed one by one up to *)
(* the clock; a tick calls exactly the tasks that are due at it.  A time   *)
(* that is already past is due at the next tick, and one beyond Horizon is *)
(* cut to the last tick within it.                                         *)
(***************************************************************************)
EXTENDS Naturals, FiniteSetsExt

CONSTANTS
  Ids,        \* ids of tasks that may be filed at one time
  Intervals,  \* values of add_task's `expire`
  Delays,     \* values of add_task's `delay`
  Circles,    \* values of add_task's `circle_count`
  FullCircle, \* FULL_CIRCLE: such a task repeats for ever
  Horizon,    \* ticks that the timer can look ahead
  Starts,     \* clock readings at which the worker may start
  MaxClock,   \* bound: the last clock reading
  None

ASSUME TimerAssumption ==
  /\ Horizon \in Nat \ {0}
  /\ FullCircle \in Nat \ {0}
  /\ Intervals \subseteq Nat
  /\ Delays \subseteq Nat
  /\ Circles \subseteq 0 .. FullCircle
  /\ Starts \subseteq Nat
  /\ MaxClock \in Nat
  /\ None \notin Nat

VARIABLES
  clock,      \* system_clock, in ticks (milliseconds)
  now,        \* its reading at the start of the current check()
  current,    \* current_: the next tick to process
  due,        \* the tick at which a task will be called, None: not filed
  interval,   \* interval_
  left,       \* circle_count_
  fired       \* the tasks called by the last step

timerVars == <<clock, now, current, interval, left, fired>>
vars == <<timerVars, due>>

Filed == {id \in Ids : due[id] # None}

Init ==
  /\ clock \in Starts
  /\ now = clock
  /\ current = clock
  /\ due = [id \in Ids |-> None]
  /\ interval = [id \in Ids |-> 0]
  /\ left = [id \in Ids |-> 0]
  /\ fired = {}

(* Mutant: no case for a time that is already past. *)
DueAtPast(e, t) == Min({e, t + Horizon - 1})

(* The tick at which a task that expires at e is due when t is the next.  *)
DueAt(e, t) == Max({t, Min({e, t + Horizon - 1})})

(* Mutant: a signed count. *)
LessSigned(n) == IF n = FullCircle THEN n ELSE n - 1

(* circle_count_ is a uint32_t whose largest value is FULL_CIRCLE.        *)
Less(n) == IF n = FullCircle THEN n ELSE (n + FullCircle) % (FullCircle + 1)

(* Time passes, as much as it likes while the worker sleeps. *)
Advance ==
  /\ clock' \in (clock + 1) .. MaxClock
  /\ fired' = {}
  /\ UNCHANGED <<now, current, due, interval, left>>

(* check() reads the clock. *)
Check ==
  /\ current > now
  /\ now < clock
  /\ now' = clock
  /\ fired' = {}
  /\ UNCHANGED <<clock, current, due, interval, left>>

AddTask(id) ==
  /\ due[id] = None
  /\ \E i \in Intervals, n \in Circles, d \in Delays, immediate \in BOOLEAN :
       LET wait == IF immediate THEN d ELSE i + d
       IN /\ due' = [due EXCEPT ![id] = DueAt(clock + wait, current)]
          /\ interval' = [interval EXCEPT ![id] = i]
          /\ left' = [left EXCEPT ![id] = n]
  /\ fired' = {}
  /\ UNCHANGED <<clock, now, current>>

EraseTask(id) ==
  /\ due[id] # None
  /\ due' = [due EXCEPT ![id] = None]
  /\ interval' = [interval EXCEPT ![id] = 0]
  /\ left' = [left EXCEPT ![id] = 0]
  /\ fired' = {}
  /\ UNCHANGED <<clock, now, current>>

(* The tasks due at this tick are called; those with calls left are filed *)
(* again, an interval after the time that check() read.                   *)
Tick ==
  /\ current <= now
  /\ current' = current + 1
  /\ fired' = {id \in Filed : due[id] = current}
  /\ LET again == {id \in fired' : Less(left[id]) # 0}
     IN /\ due' = [id \in Ids |->
                     IF id \in again THEN DueAt(now + interval[id], current')
                     ELSE IF id \in fired' THEN None ELSE due[id]]
        /\ left' = [id \in Ids |-> IF id \in fired' THEN Less(left[id]) ELSE left[id]]
        /\ interval' = [id \in Ids |->
                          IF id \in fired' \ again THEN 0 ELSE interval[id]]
  /\ UNCHANGED <<clock, now>>

Next ==
  \/ Advance
  \/ Check
  \/ Tick
  \/ \E id \in Ids : AddTask(id) \/ EraseTask(id)

Spec == Init /\ [][Next]_vars

-----------------------------------------------------------------------------
TypeOK ==
  /\ clock \in Nat
  /\ now \in 0 .. clock
  /\ current \in 0 .. (now + 1)
  /\ due \in [Ids -> Nat \cup {None}]
  /\ interval \in [Ids -> Nat]
  /\ left \in [Ids -> 0 .. FullCircle]
  /\ fired \in SUBSET Ids

(* No filed task is ever behind the tick that check() will process next,  *)
(* where it would never be called, nor beyond what the wheel can hold.    *)
NotMissed ==
  \A id \in Filed : due[id] \in current .. (current + Horizon - 1)
=============================================================================
