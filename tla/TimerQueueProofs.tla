-------------------------- MODULE TimerQueueProofs --------------------------
(***************************************************************************)
(* Proofs about TimerQueue: what time_wheel promises never loses a task,   *)
(* for any horizon, any clock and any calls.                               *)
(***************************************************************************)
EXTENDS TimerQueue, TLAPS

(* The smaller and the larger of two numbers, as add_node takes them.     *)
LEMMA TwoNumbers ==
  ASSUME NEW a \in Nat, NEW b \in Nat
  PROVE  /\ Min({a, b}) = IF a <= b THEN a ELSE b
         /\ Max({a, b}) = IF a >= b THEN a ELSE b
<1>1. Min({a, b}) = IF a <= b THEN a ELSE b
  BY DEF Min
<1>2. Max({a, b}) = IF a >= b THEN a ELSE b
  BY DEF Max
<1> QED
  BY <1>1, <1>2

(* A task that add_node files is due within the horizon and not before    *)
(* the next tick.                                                         *)
LEMMA DueInHorizon ==
  ASSUME NEW e \in Nat, NEW t \in Nat
  PROVE  DueAt(e, t) \in t .. (t + Horizon - 1)
<1>1. t + Horizon - 1 \in Nat /\ t + Horizon - 1 >= t
  BY TimerAssumption
<1>2. PICK m \in Nat : m = Min({e, t + Horizon - 1}) /\ m <= t + Horizon - 1
  BY <1>1, TwoNumbers
<1>3. DueAt(e, t) = IF t >= m THEN t ELSE m
  BY <1>2, TwoNumbers DEF DueAt
<1> QED
  BY <1>1, <1>2, <1>3, TimerAssumption

(* --circle_count_ stays within 32 bits.                                  *)
LEMMA LessInWidth ==
  ASSUME NEW n \in 0 .. FullCircle
  PROVE  Less(n) \in 0 .. FullCircle
<1>1. FullCircle \in Nat /\ n + FullCircle \in Nat /\ FullCircle + 1 \in Nat \ {0}
  BY TimerAssumption
<1>2. (n + FullCircle) % (FullCircle + 1) \in 0 .. FullCircle
  BY <1>1
<1> QED
  BY <1>1, <1>2 DEF Less

-----------------------------------------------------------------------------
(* The inductive invariant. *)
QueueInv == TypeOK /\ NotMissed

LEMMA InitQueue == Init => QueueInv
BY TimerAssumption DEF Init, QueueInv, TypeOK, NotMissed, Filed

LEMMA AddTaskQueue ==
  ASSUME QueueInv, NEW id \in Ids, AddTask(id)
  PROVE  QueueInv'
<1>1. PICK i \in Intervals, n \in Circles, d \in Delays, immediate \in BOOLEAN :
        LET wait == IF immediate THEN d ELSE i + d
        IN /\ due' = [due EXCEPT ![id] = DueAt(clock + wait, current)]
           /\ interval' = [interval EXCEPT ![id] = i]
           /\ left' = [left EXCEPT ![id] = n]
  BY DEF AddTask
<1>2. PICK wait \in Nat : due' = [due EXCEPT ![id] = DueAt(clock + wait, current)]
  <2>1. i \in Nat /\ d \in Nat
    BY TimerAssumption
  <2>2. (IF immediate THEN d ELSE i + d) \in Nat
    BY <2>1
  <2> QED
    BY <1>1, <2>2
<1>3. /\ i \in Nat /\ n \in 0 .. FullCircle
      /\ clock + wait \in Nat /\ current \in Nat
  BY TimerAssumption DEF QueueInv, TypeOK
<1>4. DueAt(clock + wait, current) \in current .. (current + Horizon - 1)
  BY <1>3, DueInHorizon
<1>5. TypeOK'
  BY <1>1, <1>2, <1>3, <1>4, TimerAssumption DEF AddTask, QueueInv, TypeOK
<1>6. NotMissed'
  BY <1>2, <1>4 DEF AddTask, QueueInv, TypeOK, NotMissed, Filed
<1> QED
  BY <1>5, <1>6 DEF QueueInv

LEMMA TickQueue ==
  ASSUME QueueInv, Tick
  PROVE  QueueInv'
<1>1. /\ current \in Nat /\ now \in Nat /\ current' = current + 1
      /\ fired' = {id \in Filed : due[id] = current}
      /\ current <= now /\ UNCHANGED <<clock, now>>
  BY DEF Tick, QueueInv, TypeOK
<1> DEFINE again == {id \in fired' : Less(left[id]) # 0}
<1>2. /\ due' = [id \in Ids |->
                   IF id \in again THEN DueAt(now + interval[id], current')
                   ELSE IF id \in fired' THEN None ELSE due[id]]
      /\ left' = [id \in Ids |-> IF id \in fired' THEN Less(left[id]) ELSE left[id]]
      /\ interval' = [id \in Ids |->
                        IF id \in fired' \ again THEN 0 ELSE interval[id]]
  BY DEF Tick
<1>3. \A id \in Ids : /\ interval[id] \in Nat
                      /\ left[id] \in 0 .. FullCircle
                      /\ Less(left[id]) \in 0 .. FullCircle
                      /\ due[id] \in Nat \cup {None}
  BY LessInWidth DEF QueueInv, TypeOK
<1>4. \A id \in Ids : DueAt(now + interval[id], current')
                        \in current' .. (current' + Horizon - 1)
  <2>1. \A id \in Ids : now + interval[id] \in Nat /\ current' \in Nat
    BY <1>1, <1>3
  <2> QED
    BY <2>1, DueInHorizon
<1>5. again \subseteq fired' /\ fired' \subseteq Ids
  BY <1>1 DEF Filed
<1> HIDE DEF again
<1>6. TypeOK'
  <2>1. \A id \in Ids : DueAt(now + interval[id], current') \in Nat
    BY <1>1, <1>4, TimerAssumption
  <2>2. due' \in [Ids -> Nat \cup {None}]
    BY <1>2, <1>3, <2>1
  <2>3. left' \in [Ids -> 0 .. FullCircle] /\ interval' \in [Ids -> Nat]
    BY <1>2, <1>3
  <2> QED
    BY <1>1, <1>5, <2>2, <2>3 DEF QueueInv, TypeOK
<1>7. NotMissed'
  <2> SUFFICES ASSUME NEW id \in Ids, due'[id] # None
               PROVE  due'[id] \in current' .. (current' + Horizon - 1)
    BY DEF NotMissed, Filed
  <2>1. CASE id \in again
    BY <1>2, <1>4, <2>1
  <2>2. CASE id \notin again
    <3>1. id \notin fired' /\ due'[id] = due[id]
      BY <1>2, <2>2
    <3>2. id \in Filed /\ due[id] # current
      BY <1>1, <3>1 DEF Filed
    <3>3. due[id] \in current .. (current + Horizon - 1)
      BY <3>2 DEF QueueInv, NotMissed
    <3> QED
      BY <1>1, <3>1, <3>2, <3>3, TimerAssumption
  <2> QED
    BY <2>1, <2>2
<1> QED
  BY <1>6, <1>7 DEF QueueInv

LEMMA NextQueue == QueueInv /\ [Next]_vars => QueueInv'
<1> SUFFICES ASSUME QueueInv, [Next]_vars PROVE QueueInv'
  OBVIOUS
<1>1. CASE Advance
  BY <1>1, TimerAssumption DEF Advance, QueueInv, TypeOK, NotMissed, Filed
<1>2. CASE Check
  BY <1>2 DEF Check, QueueInv, TypeOK, NotMissed, Filed
<1>3. CASE Tick
  BY <1>3, TickQueue
<1>4. ASSUME NEW id \in Ids, AddTask(id) PROVE QueueInv'
  BY <1>4, AddTaskQueue
<1>5. ASSUME NEW id \in Ids, EraseTask(id) PROVE QueueInv'
  BY <1>5, TimerAssumption DEF EraseTask, QueueInv, TypeOK, NotMissed, Filed
<1>6. CASE UNCHANGED vars
  BY <1>6 DEF vars, timerVars, QueueInv, TypeOK, NotMissed, Filed
<1> QED
  BY <1>1, <1>2, <1>3, <1>4, <1>5, <1>6 DEF Next

(* No filed task is ever passed over: whatever the calls and however late *)
(* the worker runs, add_node and check keep every task due at a tick that *)
(* is still to come (time_wheel.h, add_node and check).                   *)
THEOREM NeverMissed == Spec => []NotMissed
<1>1. QueueInv => NotMissed
  BY DEF QueueInv
<1> QED
  BY InitQueue, NextQueue, <1>1, PTL DEF Spec

(* The clocks and counts keep their ranges; in particular circle_count_   *)
(* never leaves its 32 bits.                                              *)
THEOREM QueueTypeCorrect == Spec => []TypeOK
<1>1. QueueInv => TypeOK
  BY DEF QueueInv
<1> QED
  BY InitQueue, NextQueue, <1>1, PTL DEF Spec
=============================================================================
