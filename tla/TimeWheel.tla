------------------------------ MODULE TimeWheel ------------------------------
(***************************************************************************)
(* time_wheel (private/time_wheel.h): tasks are kept in the lists tv_ of a *)
(* near wheel, one slot per tick, and of coarser levels whose slots are    *)
(* poured into finer ones (cascade) when the ticks reach them.  The code   *)
(* has NearSlots = TIME_NEAR = 256, LevelSlots = TIME_LEVEL = 64 and       *)
(* Levels = LEVEL = 4.                                                     *)
(*                                                                         *)
(* This module is the data structure: one iteration of check()'s loop is a *)
(* step, and calls from other threads fall between two of them.  Tasks of  *)
(* one slot are called in one step, whatever their order in the list.      *)
(***************************************************************************)
EXTENDS Naturals, FiniteSetsExt

CONSTANTS
  NearSlots, LevelSlots, Levels,
  Width,      \* of each wheel: the ticks that one of its slots stands for
  Ids, Intervals, Delays, Circles, FullCircle, Starts, MaxClock, None

(* Wheel 0 is the near wheel, wheel k is level k - 1.  A wheel goes round  *)
(* once for each slot of the next (TIME_NEAR_SHIFT, TIME_LEVEL_SHIFT).    *)
Size(k) == IF k = 0 THEN NearSlots ELSE LevelSlots
Slots == UNION {{k} \X (0 .. Size(k) - 1) : k \in 0 .. Levels}

ASSUME WheelAssumption ==
  /\ NearSlots \in Nat \ {0}
  /\ LevelSlots \in Nat \ {0, 1}
  /\ Levels \in Nat \ {0}
  /\ Width \in [0 .. Levels -> Nat \ {0}]
  /\ Width[0] = 1
  /\ \A k \in 1 .. Levels : Width[k] = Width[k - 1] * Size(k - 1)
  /\ FullCircle \in Nat \ {0}
  /\ Intervals \subseteq Nat /\ Delays \subseteq Nat /\ Starts \subseteq Nat
  /\ Circles \subseteq 0 .. FullCircle
  /\ MaxClock \in Nat
  /\ None \notin Nat /\ None \notin Slots

VARIABLES
  clock, now, current,
  slot,       \* the list that holds a task, <<wheel, index>>, or None
  expire,     \* expire_
  interval, left, fired

vars == <<clock, now, current, slot, expire, interval, left, fired>>

(* Wheel k reaches Reach(k) ticks ahead.                                   *)
Reach(k) == Width[k] * Size(k)
Index(t, k) == (t \div Width[k]) % Size(k)
Filed == {id \in Ids : slot[id] # None}

TypeOK ==
  /\ clock \in Nat
  /\ now \in 0 .. clock
  /\ current \in 0 .. now + 1
  /\ slot \in [Ids -> Slots \cup {None}]
  /\ expire \in [Ids -> Nat]
  /\ interval \in [Ids -> Nat]
  /\ left \in [Ids -> 0 .. FullCircle]
  /\ fired \in SUBSET Ids

Init ==
  /\ clock \in Starts
  /\ now = clock
  /\ current = clock
  /\ slot = [id \in Ids |-> None]
  /\ expire = [id \in Ids |-> 0]
  /\ interval = [id \in Ids |-> 0]
  /\ left = [id \in Ids |-> 0]
  /\ fired = {}

(* Mutants: `<=` for `<`; no case for a time already past.                *)
SlotOfInclusive(e, t) ==
  IF e < t THEN <<0, Index(t, 0)>>
  ELSE LET k == Min({j \in 0 .. Levels : e - t <= Reach(j)})
       IN <<k, Index(e, k)>>

SlotOfNotPast(e, t) ==
  LET k == Min({j \in 0 .. Levels : e < t + Reach(j)})
  IN <<k, Index(e, k)>>

(* add_node for a node that expires at e when t is the next tick: the     *)
(* finest wheel that reaches it; a time already past goes to the slot of  *)
(* the next tick.                                                         *)
SlotOf(e, t) ==
  IF e < t THEN <<0, Index(t, 0)>>
  ELSE LET k == Min({j \in 0 .. Levels : e - t < Reach(j)})
       IN <<k, Index(e, k)>>

(* add_node moves a time beyond the last wheel back to what it reaches.   *)
Cut(e, t) == Min({e, t + Reach(Levels) - 1})

(* Mutant: a signed count. *)
LessSigned(n) == IF n = FullCircle THEN n ELSE n - 1

Less(n) == IF n = FullCircle THEN n ELSE (n + FullCircle) % (FullCircle + 1)

-----------------------------------------------------------------------------
Advance ==
  /\ clock' \in (clock + 1) .. MaxClock
  /\ fired' = {}
  /\ UNCHANGED <<now, current, slot, expire, interval, left>>

(* check() reads the clock. *)
Check ==
  /\ current > now
  /\ now < clock
  /\ now' = clock
  /\ fired' = {}
  /\ UNCHANGED <<clock, current, slot, expire, interval, left>>

AddTask(id) ==
  /\ id \notin Filed
  /\ \E i \in Intervals, n \in Circles, d \in Delays, immediate \in BOOLEAN :
       LET e == Cut(clock + (IF immediate THEN d ELSE i + d), current)
       IN /\ expire' = [expire EXCEPT ![id] = e]
          /\ slot' = [slot EXCEPT ![id] = SlotOf(e, current)]
          /\ interval' = [interval EXCEPT ![id] = i]
          /\ left' = [left EXCEPT ![id] = n]
  /\ fired' = {}
  /\ UNCHANGED <<clock, now, current>>

(* erase_task of an id that is filed. *)
EraseTask(id) ==
  /\ id \in Filed
  /\ slot' = [slot EXCEPT ![id] = None]
  /\ expire' = [expire EXCEPT ![id] = 0]
  /\ interval' = [interval EXCEPT ![id] = 0]
  /\ left' = [left EXCEPT ![id] = 0]
  /\ fired' = {}
  /\ UNCHANGED <<clock, now, current>>

(* Mutant: the last cascade is missing. *)
CascadingButLast(t) ==
  {k \in 1 .. (Levels - 1) : \A j \in 0 .. (k - 1) : Index(t, j) = 0}

(* The wheels whose slot at tick t is poured out: level 0 when t begins a *)
(* turn of the near wheel, and a coarser level when it begins a turn of   *)
(* every finer one.                                                       *)
Cascading(t) ==
  {k \in 1 .. Levels : \A j \in 0 .. (k - 1) : Index(t, j) = 0}

(* Mutant: a cascade puts everything into the near wheel. *)
PouredNear(id, t) ==
  IF \E k \in Cascading(t) : slot[id] = <<k, Index(t, k)>>
  THEN <<0, Index(expire[id], 0)>> ELSE slot[id]

(* Where the cascades of tick t leave a filed task. *)
Poured(id, t) ==
  IF \E k \in Cascading(t) : slot[id] = <<k, Index(t, k)>>
  THEN SlotOf(expire[id], t) ELSE slot[id]

(* One iteration of check(): cascade, ++current_, take the slot of this   *)
(* tick, and for each task in it: file it again if it has calls left, or  *)
(* forget it, and call it.                                                *)
Tick ==
  /\ current <= now
  /\ current' = current + 1
  /\ fired' = {id \in Filed : Poured(id, current) = <<0, Index(current, 0)>>}
  /\ LET again == {id \in fired' : Less(left[id]) # 0}
         done == fired' \ again
     IN /\ expire' = [id \in Ids |->
                        IF id \in again THEN Cut(now + interval[id], current')
                        ELSE IF id \in done THEN 0 ELSE expire[id]]
        /\ slot' = [id \in Ids |->
                      IF id \in again THEN SlotOf(expire'[id], current')
                      ELSE IF id \in done \/ id \notin Filed THEN None
                      ELSE Poured(id, current)]
        /\ left' = [id \in Ids |-> IF id \in fired' THEN Less(left[id]) ELSE left[id]]
        /\ interval' = [id \in Ids |-> IF id \in done THEN 0 ELSE interval[id]]
  /\ UNCHANGED <<clock, now>>

Next ==
  \/ Advance
  \/ Check
  \/ Tick
  \/ \E id \in Ids : AddTask(id) \/ EraseTask(id)

Spec == Init /\ [][Next]_vars

-----------------------------------------------------------------------------
(* Properties. *)

(* The tick at which check() will find a filed task: the next time its    *)
(* near slot comes round, or the time it expires if it is in a level.     *)
Due(id) ==
  IF id \notin Filed THEN None
  ELSE IF slot[id][1] = 0
       THEN CHOOSE t \in current .. (current + NearSlots - 1) :
              Index(t, 0) = slot[id][2]
       ELSE expire[id]

Queue == INSTANCE TimerQueue WITH
  Horizon <- Reach(Levels), due <- [id \in Ids |-> Due(id)]

(* The wheel is a timer queue: slots, levels and cascades call every task *)
(* at the very tick that a plain list of due times would (check, cascade, *)
(* add_node).                                                             *)
IsTimerQueue == Queue!Spec

(* A task in a level is poured out before it is due and not a turn too    *)
(* early: from its slot's next cascade to when it expires there is less   *)
(* than one slot of that wheel.                                           *)
CascadedInTime ==
  \A id \in Filed :
    LET k == slot[id][1]
        ahead == {t \in current .. expire[id] :
                    k \in Cascading(t) /\ Index(t, k) = slot[id][2]}
    IN k > 0 => ahead # {} /\ expire[id] - Min(ahead) < Width[k]

(* No task is called before the clock has reached its expire_, which for  *)
(* a wait beyond the wheel is the time that add_node cut it to.           *)
NeverEarly == [][\A id \in fired' : clock >= expire[id]]_vars
=============================================================================
