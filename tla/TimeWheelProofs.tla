-------------------------- MODULE TimeWheelProofs --------------------------
(***************************************************************************)
(* The proof that time_wheel is a timer queue, for any number of levels    *)
(* and wheels of any sizes.  Held says where the task of a slot is due;    *)
(* AllHeld, which is inductive with TypeOK, says it of every filed task.   *)
(* First come facts of division with remainder, then those of one slot:    *)
(* what add_node promises of it (Filing) and what one tick does with it    *)
(* (HeldTick); the actions and the refinement follow from these.           *)
(***************************************************************************)
EXTENDS TimeWheel, FiniteSetTheorems, WellFoundedInduction, TLAPS

(* The least element of a set of numbers.                                 *)
LEMMA LeastIn ==
  ASSUME NEW S \in SUBSET Nat, S # {}
  PROVE  Min(S) \in S /\ \A j \in S : Min(S) <= j
<1> DEFINE upTo == {0 .. i : i \in S}
<1>1. upTo \subseteq FiniteSubsetsOf(Nat)
  <2>1. \A i \in S : IsFiniteSet(0 .. i)
    BY FS_Interval
  <2> QED
    BY <2>1 DEF FiniteSubsetsOf
<1>2. PICK X \in upTo : \A Y \in upTo : <<Y, X>> \notin StrictSubsetOrdering(Nat)
  <2>1. upTo # {}
    OBVIOUS
  <2> HIDE DEF upTo
  <2> QED
    BY <1>1, <2>1, WFMin, FS_StrictSubsetOrderingWellFounded
<1>3. PICK i \in S : X = 0 .. i
  OBVIOUS
<1>4. ASSUME NEW j \in S, j < i PROVE FALSE
  <2>1. (0 .. j) \subseteq Nat /\ (0 .. i) \subseteq Nat
    OBVIOUS
  <2>2. (0 .. j) \subseteq (0 .. i) /\ (0 .. j) # (0 .. i)
    BY <1>4
  <2>3. <<0 .. j, 0 .. i>> \in StrictSubsetOrdering(Nat)
    BY <2>1, <2>2 DEF StrictSubsetOrdering
  <2> QED
    BY <1>2, <1>3, <2>3
<1>5. \A j \in S : i <= j
  BY <1>4
<1> QED
  BY <1>5 DEF Min

(* The smaller and the larger of two numbers, here and in the queue.      *)
LEMMA TwoNumbers ==
  ASSUME NEW a \in Nat, NEW b \in Nat
  PROVE  /\ Min({a, b}) = IF a <= b THEN a ELSE b
         /\ Queue!Min({a, b}) = IF a <= b THEN a ELSE b
         /\ Queue!Max({a, b}) = IF a >= b THEN a ELSE b
<1>1. Min({a, b}) = IF a <= b THEN a ELSE b
  BY DEF Min
<1>2. Queue!Min({a, b}) = IF a <= b THEN a ELSE b
  BY DEF Queue!Min
<1>3. Queue!Max({a, b}) = IF a >= b THEN a ELSE b
  BY DEF Queue!Max
<1> QED
  BY <1>1, <1>2, <1>3

(* Division with remainder.                                               *)
LEMMA Division ==
  ASSUME NEW n \in Nat, NEW w \in Nat \ {0}
  PROVE  /\ n \div w \in Nat
         /\ n % w \in 0 .. (w - 1)
         /\ n = w * (n \div w) + (n % w)
OBVIOUS

LEMMA Divided ==
  ASSUME NEW n \in Nat, NEW w \in Nat \ {0}
  PROVE  \E p \in Nat, r \in 0 .. (w - 1) :
           p = n \div w /\ r = n % w /\ n = w * p + r
<1>1. /\ n \div w \in Nat /\ n % w \in 0 .. (w - 1)
      /\ n = w * (n \div w) + (n % w)
  BY Division
<1> QED
  BY <1>1, Zenon

(* Between two multiples of w there are w numbers or more.                *)
LEMMA MoreOf ==
  ASSUME NEW w \in Nat, NEW p \in Nat, NEW q \in Nat, p < q
  PROVE  w * p + w <= w * q
<1>1. PICK d \in Nat : q = p + 1 + d
  <2>1. q - p - 1 \in Nat
    OBVIOUS
  <2> QED
    BY <2>1
<1>2. w * q = w * p + w + w * d /\ w * d \in Nat /\ w * p \in Nat
  BY <1>1
<1> QED
  BY <1>2

LEMMA DivisionUnique ==
  ASSUME NEW w \in Nat \ {0}, NEW p \in Nat, NEW q \in Nat,
         NEW r \in 0 .. (w - 1), NEW s \in 0 .. (w - 1),
         w * p + r = w * q + s
  PROVE  p = q /\ r = s
<1>1. w * p \in Nat /\ w * q \in Nat
  OBVIOUS
<1>2. CASE p < q
  BY <1>1, <1>2, MoreOf
<1>3. CASE q < p
  BY <1>1, <1>3, MoreOf
<1> QED
  BY <1>2, <1>3

-----------------------------------------------------------------------------
(* Each wheel goes round in the time of one slot of the next.             *)
LEMMA Sizes ==
  ASSUME NEW k \in 0 .. Levels
  PROVE  /\ Size(k) \in Nat \ {0}
         /\ Width[k] \in Nat \ {0}
         /\ Reach(k) \in Nat \ {0}
         /\ Reach(k) = Width[k] * Size(k)
         /\ k > 0 => Width[k] = Reach(k - 1)
<1>1. Size(k) \in Nat \ {0} /\ Width[k] \in Nat \ {0}
  BY WheelAssumption DEF Size
<1>2. Reach(k) \in Nat \ {0}
  BY <1>1 DEF Reach
<1>3. k > 0 => Width[k] = Reach(k - 1)
  BY WheelAssumption DEF Reach
<1> QED
  BY <1>1, <1>2, <1>3 DEF Reach

LEMMA NearIndex == \A t \in Nat : Index(t, 0) = t % NearSlots
<1>1. Width[0] = 1 /\ Size(0) = NearSlots
  BY WheelAssumption DEF Size
<1>2. \A t \in Nat : t \div 1 = t
  OBVIOUS
<1> QED
  BY <1>1, <1>2 DEF Index

(* A tick begins a turn of w * s ticks just when it begins a slot of w    *)
(* ticks and that slot is the first of s.                                 *)
LEMMA TurnOfSlots ==
  ASSUME NEW t \in Nat, NEW w \in Nat \ {0}, NEW s \in Nat \ {0}
  PROVE  t % (w * s) = 0 <=> t % w = 0 /\ (t \div w) % s = 0
<1>1. PICK v \in Nat \ {0} : v = w * s
  OBVIOUS
<1>2. PICK p \in Nat, r \in 0 .. (w - 1) :
        p = t \div w /\ r = t % w /\ t = w * p + r
  BY Divided
<1>3. PICK q \in Nat, m \in 0 .. (s - 1) :
        q = p \div s /\ m = p % s /\ p = s * q + m
  BY Divided
<1>4. PICK a \in Nat, b \in 0 .. (v - 1) :
        a = t \div v /\ b = t % v /\ t = v * a + b
  BY Divided
<1>5. ASSUME b = 0 PROVE r = 0 /\ m = 0
  <2>1. s * a \in Nat /\ v * a = w * (s * a) /\ 0 \in 0 .. (w - 1)
    BY <1>1
  <2>2. w * p + r = w * (s * a) + 0
    BY <1>2, <1>4, <1>5, <2>1
  <2>3. p = s * a /\ r = 0
    BY <2>1, <2>2, DivisionUnique
  <2>4. s * q + m = s * a + 0 /\ 0 \in 0 .. (s - 1)
    BY <1>3, <2>1, <2>3
  <2>5. m = 0
    BY <2>4, DivisionUnique
  <2> QED
    BY <2>3, <2>5
<1>6. ASSUME r = 0, m = 0 PROVE b = 0
  <2>1. p = s * q /\ t = w * p
    BY <1>2, <1>3, <1>6
  <2>2. v * q = w * (s * q) /\ v * q \in Nat /\ 0 \in 0 .. (v - 1)
    BY <1>1
  <2>3. v * q + 0 = v * a + b
    BY <1>4, <2>1, <2>2
  <2> QED
    BY <2>2, <2>3, DivisionUnique
<1> QED
  BY <1>1, <1>2, <1>3, <1>4, <1>5, <1>6

(* check() pours the slot of a level out at the ticks that begin a slot   *)
(* of that level.                                                         *)
LEMMA CascadesAtSlots ==
  ASSUME NEW t \in Nat, NEW k \in 1 .. Levels
  PROVE  k \in Cascading(t) <=> t % Width[k] = 0
<1>1. \A j \in 0 .. (k - 1) :
        t % Width[j + 1] = 0 <=> t % Width[j] = 0 /\ Index(t, j) = 0
  <2> TAKE j \in 0 .. (k - 1)
  <2>1. j \in 0 .. Levels /\ j + 1 \in 0 .. Levels /\ j + 1 > 0
    BY WheelAssumption
  <2>2. Width[j + 1] = Width[j] * Size(j)
    BY <2>1, Sizes
  <2>3. PICK w \in Nat \ {0}, s \in Nat \ {0} : w = Width[j] /\ s = Size(j)
    BY <2>1, Sizes
  <2>4. t % (w * s) = 0 <=> t % w = 0 /\ (t \div w) % s = 0
    BY TurnOfSlots
  <2> QED
    BY <2>2, <2>3, <2>4 DEF Index
<1>2. ASSUME k \in Cascading(t) PROVE t % Width[k] = 0
  <2> SUFFICES ASSUME t % Width[k] # 0 PROVE FALSE
    OBVIOUS
  <2> DEFINE B == {j \in 0 .. k : t % Width[j] # 0}
  <2>1. B # {} /\ B \in SUBSET Nat
    OBVIOUS
  <2>2. PICK j \in B : \A i \in B : j <= i
    <3> HIDE DEF B
    <3> QED
      BY <2>1, LeastIn
  <2>3. j # 0
    BY WheelAssumption
  <2>4. j - 1 \in 0 .. (k - 1) /\ j - 1 \notin B /\ (j - 1) + 1 = j
    BY <2>2, <2>3
  <2>5. t % Width[j - 1] = 0 /\ Index(t, j - 1) = 0
    BY <1>2, <2>4 DEF Cascading
  <2> QED
    BY <1>1, <2>4, <2>5
<1>3. ASSUME t % Width[k] = 0 PROVE k \in Cascading(t)
  <2> SUFFICES ASSUME NEW i \in 0 .. (k - 1), Index(t, i) # 0 PROVE FALSE
    BY DEF Cascading
  <2> DEFINE B == {j \in 0 .. k : t % Width[k - j] # 0}
  <2>1. k - (k - (i + 1)) = i + 1 /\ k - (i + 1) \in 0 .. k /\ k - (k - i) = i /\ k - i \in 0 .. k
    OBVIOUS
  <2>2. CASE B = {}
    <3>1. t % Width[i + 1] = 0
      BY <2>1, <2>2
    <3> QED
      BY <1>1, <3>1
  <2>3. CASE B # {}
    <3>1. PICK j \in B : \A h \in B : j <= h
      <4>1. B \in SUBSET Nat
        OBVIOUS
      <4> HIDE DEF B
      <4> QED
        BY <2>3, <4>1, LeastIn
    <3>2. j # 0
      BY <1>3
    <3>3. j - 1 \in 0 .. k /\ j - 1 \notin B /\ k - (j - 1) = (k - j) + 1 /\ k - j \in 0 .. (k - 1)
      BY <3>1, <3>2
    <3>4. t % Width[(k - j) + 1] = 0
      BY <3>3
    <3> QED
      BY <1>1, <3>3, <3>4
  <2> QED
    BY <2>2, <2>3
<1> QED
  BY <1>2, <1>3

(* Two ticks of one turn of the near wheel are in different slots.        *)
LEMMA NearSole ==
  ASSUME NEW t \in Nat, NEW a \in t .. (t + NearSlots - 1),
         NEW b \in t .. (t + NearSlots - 1), a % NearSlots = b % NearSlots
  PROVE  a = b
<1>1. NearSlots \in Nat \ {0} /\ a \in Nat /\ b \in Nat
  BY WheelAssumption
<1>2. PICK p \in Nat, r \in 0 .. (NearSlots - 1) :
        p = a \div NearSlots /\ r = a % NearSlots /\ a = NearSlots * p + r
  BY <1>1, Divided, Zenon
<1>3. PICK q \in Nat, m \in 0 .. (NearSlots - 1) :
        q = b \div NearSlots /\ m = b % NearSlots /\ b = NearSlots * q + m
  BY <1>1, Divided, Zenon
<1>4. r = m /\ NearSlots * p \in Nat /\ NearSlots * q \in Nat
  BY <1>1, <1>2, <1>3
<1>5. CASE p < q
  <2>1. NearSlots * p + NearSlots <= NearSlots * q
    BY <1>1, <1>5, MoreOf
  <2> QED
    BY <1>1, <1>2, <1>3, <1>4, <2>1
<1>6. CASE q < p
  <2>1. NearSlots * q + NearSlots <= NearSlots * p
    BY <1>1, <1>6, MoreOf
  <2> QED
    BY <1>1, <1>2, <1>3, <1>4, <2>1
<1> QED
  BY <1>2, <1>3, <1>4, <1>5, <1>6

(* The tick at which the slot of wheel k that covers e begins.            *)
Begin(e, k) == Width[k] * (e \div Width[k])

LEMMA BeginOfSlot ==
  ASSUME NEW e \in Nat, NEW k \in 0 .. Levels
  PROVE  /\ Begin(e, k) \in Nat
         /\ Begin(e, k) <= e
         /\ e < Begin(e, k) + Width[k]
         /\ Begin(e, k) % Width[k] = 0
         /\ Index(Begin(e, k), k) = Index(e, k)
<1>1. PICK w \in Nat \ {0} : w = Width[k]
  BY Sizes
<1>2. PICK p \in Nat, r \in 0 .. (w - 1) :
        p = e \div w /\ r = e % w /\ e = w * p + r
  BY Divided
<1>3. PICK b \in Nat : b = w * p /\ b = Begin(e, k)
  BY <1>1, <1>2 DEF Begin
<1>4. b \div w = p /\ b % w = 0
  <2>1. PICK q \in Nat, s \in 0 .. (w - 1) :
          q = b \div w /\ s = b % w /\ b = w * q + s
    BY Divided
  <2>2. w * q + s = w * p + 0 /\ 0 \in 0 .. (w - 1)
    BY <1>3, <2>1
  <2> QED
    BY <2>1, <2>2, DivisionUnique
<1>5. Index(b, k) = Index(e, k)
  BY <1>1, <1>2, <1>4 DEF Index
<1>6. b <= e /\ e < b + w
  BY <1>2, <1>3
<1> QED
  BY <1>1, <1>3, <1>4, <1>5, <1>6

(* Within one turn of wheel k, only one tick that begins a slot has the   *)
(* index of e.                                                            *)
LEMMA SlotSole ==
  ASSUME NEW e \in Nat, NEW k \in 0 .. Levels, NEW t \in Nat,
         t % Width[k] = 0, t <= e, e < t + Reach(k), Index(t, k) = Index(e, k)
  PROVE  t = Begin(e, k)
<1>1. PICK w \in Nat \ {0}, s \in Nat \ {0} :
        w = Width[k] /\ s = Size(k) /\ Reach(k) = w * s
  BY Sizes
<1>2. PICK p \in Nat, r \in 0 .. (w - 1) :
        p = e \div w /\ r = e % w /\ e = w * p + r
  BY Divided
<1>3. PICK q \in Nat : q = t \div w /\ t = w * q
  <2>1. PICK q \in Nat, i \in 0 .. (w - 1) :
          q = t \div w /\ i = t % w /\ t = w * q + i
    BY Divided
  <2>2. i = 0 /\ w * q \in Nat
    BY <1>1, <2>1
  <2>3. t = w * q
    BY <2>1, <2>2
  <2> QED
    BY <2>1, <2>3
<1>4. PICK a \in Nat, b \in Nat, m \in 0 .. (s - 1) : p = s * a + m /\ q = s * b + m
  <2>1. p % s = q % s
    BY <1>1, <1>2, <1>3 DEF Index
  <2>2. PICK a \in Nat, m \in 0 .. (s - 1) :
          a = p \div s /\ m = p % s /\ p = s * a + m
    BY Divided
  <2>3. PICK b \in Nat, i \in 0 .. (s - 1) :
          b = q \div s /\ i = q % s /\ q = s * b + i
    BY Divided
  <2> QED
    BY <2>1, <2>2, <2>3
<1>5. w * p \in Nat /\ w * q \in Nat /\ s * a \in Nat /\ s * b \in Nat
  OBVIOUS
<1>6. ~ p < q
  <2> SUFFICES ASSUME p < q PROVE FALSE
    OBVIOUS
  <2>1. w * p + w <= w * q
    BY MoreOf
  <2> QED
    BY <1>2, <1>3, <1>5, <2>1
<1>7. ~ q < p
  <2> SUFFICES ASSUME q < p PROVE FALSE
    OBVIOUS
  <2>1. b < a
    <3>1. CASE a < b
      <4>1. s * a + s <= s * b
        BY <3>1, MoreOf
      <4> QED
        BY <1>4, <1>5, <4>1
    <3>2. CASE a = b
      BY <1>4, <3>2
    <3> QED
      BY <3>1, <3>2
  <2>2. s * b + s <= s * a
    BY <2>1, MoreOf
  <2>3. PICK d \in Nat : p = q + s + d
    <3>1. p - q - s \in Nat
      BY <1>4, <1>5, <2>2
    <3> QED
      BY <3>1
  <2>4. w * p = w * q + w * s + w * d /\ w * d \in Nat /\ w * s \in Nat
    BY <2>3
  <2> QED
    BY <1>1, <1>2, <1>3, <1>5, <2>4
<1> QED
  BY <1>1, <1>2, <1>3, <1>6, <1>7 DEF Begin

-----------------------------------------------------------------------------
(* Due, of any slot and time.                                             *)
DueIn(s, e, t) ==
  IF s[1] = 0 THEN CHOOSE d \in t .. (t + NearSlots - 1) : Index(d, 0) = s[2]
  ELSE e

(* What holds of the slot s of a task that expires at e when t is the     *)
(* next tick: it is in the near wheel, in the slot of a tick of this turn *)
(* that is not before e; or in a level, in the slot that covers e, which  *)
(* begins at a tick that is still to come, in this turn of the level.     *)
Held(s, e, t) ==
  \/ \E d \in t .. (t + NearSlots - 1) : s = <<0, Index(d, 0)>> /\ e <= d
  \/ \E k \in 1 .. Levels :
       s = <<k, Index(e, k)>> /\ t <= Begin(e, k) /\ e < t + Reach(k)

(* A task in the near wheel is due at the one tick of this turn that has  *)
(* its slot.                                                              *)
LEMMA NearDue ==
  ASSUME NEW e, NEW t \in Nat, NEW d \in t .. (t + NearSlots - 1)
  PROVE  DueIn(<<0, Index(d, 0)>>, e, t) = d
<1>1. NearSlots \in Nat \ {0}
  BY WheelAssumption
<1>2. \A c \in t .. (t + NearSlots - 1) : Index(c, 0) = Index(d, 0) <=> c = d
  <2> TAKE c \in t .. (t + NearSlots - 1)
  <2>1. c \in Nat /\ d \in Nat
    BY <1>1
  <2>2. Index(c, 0) = c % NearSlots /\ Index(d, 0) = d % NearSlots
    BY <2>1, NearIndex
  <2> QED
    BY <2>2, NearSole
<1>3. (CHOOSE c \in t .. (t + NearSlots - 1) : Index(c, 0) = Index(d, 0)) = d
  BY <1>2
<1> QED
  BY <1>3 DEF DueIn

LEMMA IndexInWheel ==
  ASSUME NEW e \in Nat, NEW k \in 0 .. Levels
  PROVE  <<k, Index(e, k)>> \in Slots
<1>1. PICK w \in Nat \ {0}, s \in Nat \ {0} : w = Width[k] /\ s = Size(k)
  BY Sizes
<1>2. e \div w \in Nat
  BY Division
<1>3. (e \div w) % s \in 0 .. (s - 1)
  BY <1>2, Division
<1> QED
  BY <1>1, <1>3 DEF Index, Slots

(* A task that is held is due at a tick that is still to come, and not    *)
(* before it expires.                                                     *)
LEMMA HeldSlot ==
  ASSUME NEW s, NEW e \in Nat, NEW t \in Nat, Held(s, e, t)
  PROVE  /\ s \in Slots
         /\ DueIn(s, e, t) \in Nat
         /\ DueIn(s, e, t) >= t
         /\ DueIn(s, e, t) >= e
<1>1. ASSUME NEW d \in t .. (t + NearSlots - 1), s = <<0, Index(d, 0)>>, e <= d
      PROVE  s \in Slots /\ DueIn(s, e, t) = d /\ d \in Nat
  <2>1. d \in Nat /\ 0 \in 0 .. Levels
    BY WheelAssumption
  <2> QED
    BY <1>1, <2>1, IndexInWheel, NearDue
<1>2. ASSUME NEW k \in 1 .. Levels, s = <<k, Index(e, k)>>, t <= Begin(e, k)
      PROVE  s \in Slots /\ DueIn(s, e, t) = e /\ t <= e
  <2>1. k \in 0 .. Levels /\ s[1] # 0
    BY <1>2
  <2>2. t <= e
    BY <1>2, <2>1, BeginOfSlot
  <2> QED
    BY <1>2, <2>1, <2>2, IndexInWheel DEF DueIn
<1> QED
  BY <1>1, <1>2 DEF Held

(* Where add_node files a task, for a time that the wheels reach.         *)
LEMMA Filing ==
  ASSUME NEW e \in Nat, NEW t \in Nat, \E k \in 0 .. Levels : e < t + Reach(k)
  PROVE  \/ \E d \in t .. (t + NearSlots - 1) :
              /\ SlotOf(e, t) = <<0, Index(d, 0)>>
              /\ d = IF e < t THEN t ELSE e
         \/ /\ e >= t
            /\ \E k \in 1 .. Levels :
                 /\ SlotOf(e, t) = <<k, Index(e, k)>>
                 /\ t < Begin(e, k)
                 /\ e < t + Reach(k)
<1>1. CASE e < t
  BY <1>1, WheelAssumption DEF SlotOf
<1>2. CASE e >= t
  <2> DEFINE K == {j \in 0 .. Levels : e - t < Reach(j)}
  <2>1. K \in SUBSET Nat /\ K # {}
    <3>1. PICK k \in 0 .. Levels : e < t + Reach(k)
      OBVIOUS
    <3>2. e - t < Reach(k)
      BY <1>2, <3>1, Sizes
    <3> QED
      BY <3>2
  <2>2. PICK k \in K : k = Min(K) /\ \A j \in K : k <= j
    <3> HIDE DEF K
    <3> QED
      BY <2>1, LeastIn
  <2>3. SlotOf(e, t) = <<k, Index(e, k)>>
    BY <1>2, <2>2 DEF SlotOf
  <2>4. k \in 0 .. Levels /\ e < t + Reach(k)
    BY <1>2, Sizes
  <2>5. CASE k = 0
    <3>1. Reach(0) = NearSlots
      BY WheelAssumption DEF Reach, Size
    <3> QED
      BY <1>2, <2>3, <2>4, <2>5, <3>1, WheelAssumption
  <2>6. CASE k # 0
    <3>1. k - 1 \in 0 .. Levels /\ k - 1 \notin K
      <4>1. k - 1 \in 0 .. Levels
        BY <2>4, <2>6, WheelAssumption
      <4>2. k - 1 \notin K
        <5> HIDE DEF K
        <5> QED
          BY <2>2, <2>4
      <4> QED
        BY <4>1, <4>2
    <3>2. PICK w \in Nat : w = Width[k] /\ w = Reach(k - 1)
      BY <2>4, <2>6, Sizes
    <3>3. e >= t + w
      BY <1>2, <3>1, <3>2
    <3>4. t < Begin(e, k)
      <4>1. Begin(e, k) \in Nat /\ e < Begin(e, k) + w
        BY <2>4, <3>2, BeginOfSlot
      <4> QED
        BY <3>3, <4>1
    <3>5. k \in 1 .. Levels
      BY <2>4, <2>6
    <3> QED
      BY <1>2, <2>3, <2>4, <3>4, <3>5
  <2> QED
    BY <2>5, <2>6
<1> QED
  BY <1>1, <1>2

(* A task that add_node has filed is held, and due at its time, or at the *)
(* next tick if that is past.                                             *)
LEMMA FiledIsHeld ==
  ASSUME NEW e \in Nat, NEW t \in Nat, \E k \in 0 .. Levels : e < t + Reach(k)
  PROVE  /\ Held(SlotOf(e, t), e, t)
         /\ DueIn(SlotOf(e, t), e, t) = IF e < t THEN t ELSE e
<1>1. ASSUME NEW d \in t .. (t + NearSlots - 1),
             SlotOf(e, t) = <<0, Index(d, 0)>>, d = IF e < t THEN t ELSE e
      PROVE  Held(SlotOf(e, t), e, t) /\ DueIn(SlotOf(e, t), e, t) = d
  BY <1>1, NearDue DEF Held
<1>2. ASSUME e >= t, NEW k \in 1 .. Levels, SlotOf(e, t) = <<k, Index(e, k)>>,
             t < Begin(e, k), e < t + Reach(k)
      PROVE  Held(SlotOf(e, t), e, t) /\ DueIn(SlotOf(e, t), e, t) = e
  <2>1. Begin(e, k) \in Nat
    BY BeginOfSlot
  <2> QED
    BY <1>2, <2>1 DEF Held, DueIn
<1> QED
  BY <1>1, <1>2, Filing

-----------------------------------------------------------------------------
(* One tick, for a task in the near wheel and for one in a level that is  *)
(* not yet to be poured out.                                              *)
LEMMA NearTick ==
  ASSUME NEW e \in Nat, NEW t \in Nat,
         NEW d \in t .. (t + NearSlots - 1), e <= d
  PROVE  /\ <<0, Index(d, 0)>> = <<0, Index(t, 0)>> <=> d = t
         /\ d # t => /\ Held(<<0, Index(d, 0)>>, e, t + 1)
                     /\ DueIn(<<0, Index(d, 0)>>, e, t + 1) = d
<1>1. NearSlots \in Nat \ {0} /\ d \in Nat
  BY WheelAssumption
<1>2. Index(d, 0) = Index(t, 0) <=> d = t
  <2>1. Index(d, 0) = d % NearSlots /\ Index(t, 0) = t % NearSlots
    BY <1>1, NearIndex
  <2>2. t \in t .. (t + NearSlots - 1)
    BY <1>1
  <2> QED
    BY <2>1, <2>2, NearSole
<1>3. ASSUME d # t
      PROVE  /\ Held(<<0, Index(d, 0)>>, e, t + 1)
             /\ DueIn(<<0, Index(d, 0)>>, e, t + 1) = d
  <2>1. d \in (t + 1) .. ((t + 1) + NearSlots - 1) /\ t + 1 \in Nat
    BY <1>1, <1>3
  <2> QED
    BY <2>1, NearDue DEF Held
<1> QED
  BY <1>2, <1>3

LEMMA LevelTick ==
  ASSUME NEW e \in Nat, NEW t \in Nat, NEW k \in 1 .. Levels,
         t < Begin(e, k), e < t + Reach(k)
  PROVE  /\ <<k, Index(e, k)>> # <<0, Index(t, 0)>>
         /\ e > t
         /\ Held(<<k, Index(e, k)>>, e, t + 1)
         /\ DueIn(<<k, Index(e, k)>>, e, t + 1) = e
<1>1. k \in 0 .. Levels /\ k # 0
  OBVIOUS
<1>2. Begin(e, k) \in Nat /\ Begin(e, k) <= e /\ Reach(k) \in Nat
  BY <1>1, BeginOfSlot, Sizes
<1>3. e > t /\ t + 1 <= Begin(e, k) /\ e < (t + 1) + Reach(k)
  BY <1>2
<1>4. Held(<<k, Index(e, k)>>, e, t + 1)
  BY <1>3 DEF Held
<1>5. DueIn(<<k, Index(e, k)>>, e, t + 1) = e
  BY <1>1 DEF DueIn
<1> QED
  BY <1>1, <1>3, <1>4, <1>5

(* Poured, of any slot and time.                                          *)
PouredIn(s, e, t) ==
  IF \E k \in Cascading(t) : s = <<k, Index(t, k)>> THEN SlotOf(e, t) ELSE s

(* At tick t the cascades bring a task into the slot that is taken if and *)
(* only if it is due, and one that is not due stays held.                 *)
LEMMA HeldTick ==
  ASSUME NEW s, NEW e \in Nat, NEW t \in Nat, Held(s, e, t)
  PROVE  /\ PouredIn(s, e, t) = <<0, Index(t, 0)>> <=> DueIn(s, e, t) = t
         /\ PouredIn(s, e, t) # <<0, Index(t, 0)>> =>
              /\ Held(PouredIn(s, e, t), e, t + 1)
              /\ DueIn(PouredIn(s, e, t), e, t + 1) = DueIn(s, e, t)
<1>1. ASSUME NEW d \in t .. (t + NearSlots - 1), s = <<0, Index(d, 0)>>, e <= d
      PROVE  /\ PouredIn(s, e, t) = s
             /\ DueIn(s, e, t) = d
  <2>1. \A k \in Cascading(t) : s # <<k, Index(t, k)>>
    BY <1>1 DEF Cascading
  <2> QED
    BY <1>1, <2>1, NearDue DEF PouredIn
<1>2. ASSUME NEW k \in 1 .. Levels, s = <<k, Index(e, k)>>,
             t <= Begin(e, k), e < t + Reach(k)
      PROVE  /\ PouredIn(s, e, t) = <<0, Index(t, 0)>> <=> e = t
             /\ PouredIn(s, e, t) # <<0, Index(t, 0)>> =>
                  /\ Held(PouredIn(s, e, t), e, t + 1)
                  /\ DueIn(PouredIn(s, e, t), e, t + 1) = e
  <2>1. k \in 0 .. Levels /\ Begin(e, k) \in Nat /\ Begin(e, k) <= e
    BY BeginOfSlot
  <2>2. ~ e < t
    BY <1>2, <2>1
  <2>3. CASE PouredIn(s, e, t) = SlotOf(e, t)
    <3>1. ASSUME NEW d \in t .. (t + NearSlots - 1),
                 SlotOf(e, t) = <<0, Index(d, 0)>>, d = e
          PROVE  /\ SlotOf(e, t) = <<0, Index(t, 0)>> <=> e = t
                 /\ e # t => /\ Held(SlotOf(e, t), e, t + 1)
                             /\ DueIn(SlotOf(e, t), e, t + 1) = e
      BY <3>1, NearTick
    <3>2. ASSUME NEW j \in 1 .. Levels, SlotOf(e, t) = <<j, Index(e, j)>>,
                 t < Begin(e, j), e < t + Reach(j)
          PROVE  /\ SlotOf(e, t) # <<0, Index(t, 0)>>
                 /\ e > t
                 /\ Held(SlotOf(e, t), e, t + 1)
                 /\ DueIn(SlotOf(e, t), e, t + 1) = e
      BY <3>2, LevelTick
    <3>3. \E j \in 0 .. Levels : e < t + Reach(j)
      BY <1>2, <2>1
    <3> QED
      BY <2>2, <2>3, <3>1, <3>2, <3>3, Filing
  <2>4. CASE PouredIn(s, e, t) = s /\ t < Begin(e, k)
    BY <1>2, <2>4, LevelTick
  <2>5. CASE t = Begin(e, k)
    <3>1. t % Width[k] = 0 /\ Index(t, k) = Index(e, k)
      BY <2>1, <2>5, BeginOfSlot
    <3>2. k \in Cascading(t)
      BY <3>1, CascadesAtSlots
    <3>3. PouredIn(s, e, t) = SlotOf(e, t)
      BY <1>2, <3>1, <3>2 DEF PouredIn
    <3> QED
      BY <2>3, <3>3
  <2>6. PouredIn(s, e, t) = SlotOf(e, t) \/ PouredIn(s, e, t) = s
    BY DEF PouredIn
  <2> QED
    BY <1>2, <2>1, <2>3, <2>4, <2>5, <2>6
<1>3. ASSUME NEW d \in t .. (t + NearSlots - 1), s = <<0, Index(d, 0)>>, e <= d
      PROVE  /\ PouredIn(s, e, t) = <<0, Index(t, 0)>> <=> DueIn(s, e, t) = t
             /\ PouredIn(s, e, t) # <<0, Index(t, 0)>> =>
                  /\ Held(PouredIn(s, e, t), e, t + 1)
                  /\ DueIn(PouredIn(s, e, t), e, t + 1) = DueIn(s, e, t)
  BY <1>1, <1>3, NearTick
<1>4. ASSUME NEW k \in 1 .. Levels, s = <<k, Index(e, k)>>
      PROVE  DueIn(s, e, t) = e
  BY <1>4 DEF DueIn
<1> QED
  BY <1>2, <1>3, <1>4 DEF Held

-----------------------------------------------------------------------------
LEMMA LessInWidth ==
  ASSUME NEW n \in 0 .. FullCircle
  PROVE  Less(n) \in 0 .. FullCircle
<1>1. FullCircle \in Nat /\ n + FullCircle \in Nat /\ FullCircle + 1 \in Nat \ {0}
  BY WheelAssumption
<1>2. (n + FullCircle) % (FullCircle + 1) \in 0 .. FullCircle
  BY <1>1
<1> QED
  BY <1>1, <1>2 DEF Less

(* What Cut moves back is within reach, and due when the queue says.      *)
LEMMA CutReached ==
  ASSUME NEW e \in Nat, NEW t \in Nat
  PROVE  /\ Cut(e, t) \in Nat
         /\ Cut(e, t) <= e
         /\ Cut(e, t) < t + Reach(Levels)
         /\ Queue!DueAt(e, t) = IF Cut(e, t) < t THEN t ELSE Cut(e, t)
<1>1. PICK h \in Nat, r \in Nat :
        r = Reach(Levels) /\ h = t + Reach(Levels) - 1 /\ h < t + r
  <2>1. Levels \in 0 .. Levels
    BY WheelAssumption
  <2>2. PICK r \in Nat \ {0} : r = Reach(Levels)
    BY <2>1, Sizes
  <2>3. t + r - 1 \in Nat /\ t + r - 1 < t + r
    BY <2>2
  <2> QED
    BY <2>2, <2>3
<1>2. Cut(e, t) = IF e <= h THEN e ELSE h
  BY <1>1, TwoNumbers DEF Cut
<1>3. PICK c \in Nat : c = Cut(e, t) /\ c = IF e <= h THEN e ELSE h
  BY <1>1, <1>2
<1>4. Queue!DueAt(e, t) = IF c < t THEN t ELSE c
  <2>1. Queue!DueAt(e, t) = Queue!Max({t, Queue!Min({e, h})})
    BY <1>1 DEF Queue!DueAt
  <2>2. Queue!Min({e, h}) = c
    BY <1>3, TwoNumbers
  <2>3. Queue!Max({t, c}) = IF t >= c THEN t ELSE c
    BY TwoNumbers
  <2> QED
    BY <2>1, <2>2, <2>3
<1>5. Cut(e, t) <= e /\ Cut(e, t) <= h
  BY <1>1, <1>3
<1> QED
  <2>1. Cut(e, t) < t + Reach(Levels)
    BY <1>1, <1>3
  <2> QED
    BY <1>3, <1>4, <1>5, <2>1

-----------------------------------------------------------------------------
(* The inductive invariant: every filed task is held.                     *)
AllHeld == \A id \in Filed : Held(slot[id], expire[id], current)

WheelInv == TypeOK /\ AllHeld

LEMMA InitWheel == Init => WheelInv
BY WheelAssumption DEF Init, WheelInv, TypeOK, AllHeld, Filed

(* Due of a filed task, and of any task.                                  *)
LEMMA DueOfFiled ==
  ASSUME WheelInv, NEW id \in Filed
  PROVE  /\ Due(id) = DueIn(slot[id], expire[id], current)
         /\ Due(id) \in Nat
         /\ Due(id) >= current
         /\ Due(id) >= expire[id]
         /\ Due(id) # None
<1>1. /\ expire[id] \in Nat /\ current \in Nat
      /\ Held(slot[id], expire[id], current)
  BY DEF WheelInv, TypeOK, AllHeld, Filed
<1>2. Due(id) = DueIn(slot[id], expire[id], current)
  BY DEF Due, DueIn
<1>3. /\ DueIn(slot[id], expire[id], current) \in Nat
      /\ DueIn(slot[id], expire[id], current) >= current
      /\ DueIn(slot[id], expire[id], current) >= expire[id]
  BY <1>1, HeldSlot
<1> QED
  BY <1>2, <1>3, WheelAssumption

(* Due, before and after a step, in terms of the slot.                    *)
LEMMA DueOfSlot ==
  /\ \A id \in Ids : Due(id) = IF id \in Filed
                              THEN DueIn(slot[id], expire[id], current) ELSE None
  /\ \A id \in Ids : Due(id)' = IF id \in Filed'
                               THEN DueIn(slot'[id], expire'[id], current') ELSE None
BY DEF Due, DueIn

LEMMA DueOfNone == \A id \in Ids : id \notin Filed => Due(id) = None
BY DEF Due

(* add_task files a task where the queue has it due.                      *)
LEMMA AddWheel ==
  ASSUME WheelInv, NEW id \in Ids, AddTask(id)
  PROVE  /\ WheelInv'
         /\ Queue!AddTask(id)
<1>1. PICK i \in Intervals, n \in Circles, d \in Delays, immediate \in BOOLEAN :
        LET e == Cut(clock + (IF immediate THEN d ELSE i + d), current)
        IN /\ expire' = [expire EXCEPT ![id] = e]
           /\ slot' = [slot EXCEPT ![id] = SlotOf(e, current)]
           /\ interval' = [interval EXCEPT ![id] = i]
           /\ left' = [left EXCEPT ![id] = n]
  BY DEF AddTask
<1>2. /\ id \notin Filed /\ fired' = {} /\ clock' = clock /\ now' = now
      /\ current' = current /\ current \in Nat /\ clock \in Nat
  BY DEF AddTask, WheelInv, TypeOK
<1>3. i \in Nat /\ d \in Nat /\ n \in 0 .. FullCircle
  BY WheelAssumption
<1>4. PICK w \in Nat, e \in Nat :
        /\ w = IF immediate THEN d ELSE i + d
        /\ e = clock + w
  BY <1>2, <1>3
<1>5. PICK c \in Nat :
        /\ c = Cut(e, current)
        /\ c < current + Reach(Levels)
        /\ Queue!DueAt(e, current) = IF c < current THEN current ELSE c
  <2>1. current \in Nat
    BY <1>2
  <2>2. /\ Cut(e, current) \in Nat
        /\ Cut(e, current) < current + Reach(Levels)
        /\ Queue!DueAt(e, current) = IF Cut(e, current) < current THEN current ELSE Cut(e, current)
    BY <2>1, CutReached
  <2> QED
    BY <2>2, Zenon
<1>6. expire' = [expire EXCEPT ![id] = c] /\ slot' = [slot EXCEPT ![id] = SlotOf(c, current)]
  BY <1>1, <1>4, <1>5
<1>7. /\ Held(SlotOf(c, current), c, current)
      /\ DueIn(SlotOf(c, current), c, current) = Queue!DueAt(e, current)
  <2>1. \E k \in 0 .. Levels : c < current + Reach(k)
    BY <1>5, WheelAssumption
  <2> QED
    BY <1>2, <1>5, <2>1, FiledIsHeld
<1>8. SlotOf(c, current) \in Slots
  BY <1>2, <1>7, HeldSlot
<1>9. TypeOK'
  BY <1>1, <1>2, <1>3, <1>6, <1>8 DEF WheelInv, TypeOK
<1>10. slot'[id] = SlotOf(c, current) /\ expire'[id] = c
  BY <1>6 DEF WheelInv, TypeOK
<1>11. \A o \in Ids \ {id} : slot'[o] = slot[o] /\ expire'[o] = expire[o]
  BY <1>6 DEF WheelInv, TypeOK
<1>12. AllHeld'
  BY <1>2, <1>7, <1>10, <1>11 DEF WheelInv, AllHeld, Filed
<1>13. WheelInv'
  BY <1>9, <1>12 DEF WheelInv
<1>14. Due(id)' = Queue!DueAt(e, current)
  <2>1. id \in Filed'
    BY <1>8, <1>10, WheelAssumption DEF Filed
  <2> QED
    BY <1>2, <1>7, <1>10, <2>1, DueOfSlot
<1>15. \A o \in Ids \ {id} : Due(o)' = Due(o)
  <2>1. \A o \in Ids \ {id} : o \in Filed' <=> o \in Filed
    BY <1>11 DEF Filed
  <2> QED
    BY <1>2, <1>11, <2>1, DueOfSlot
<1>16. [o \in Ids |-> Due(o)]' = [[o \in Ids |-> Due(o)] EXCEPT ![id] = Queue!DueAt(e, current)]
  BY <1>14, <1>15
<1>17. [o \in Ids |-> Due(o)][id] = None
  BY <1>2, DueOfNone
<1>18. Queue!AddTask(id)
  BY <1>1, <1>2, <1>4, <1>16, <1>17 DEF Queue!AddTask
<1> QED
  BY <1>13, <1>18

LEMMA EraseWheel ==
  ASSUME WheelInv, NEW id \in Ids, EraseTask(id)
  PROVE  /\ WheelInv'
         /\ Queue!EraseTask(id)
<1>1. /\ id \in Filed /\ current' = current
      /\ slot' = [slot EXCEPT ![id] = None]
      /\ expire' = [expire EXCEPT ![id] = 0]
  BY DEF EraseTask
<1>2. slot'[id] = None /\ \A o \in Ids \ {id} : slot'[o] = slot[o] /\ expire'[o] = expire[o]
  BY <1>1 DEF WheelInv, TypeOK
<1>3. TypeOK'
  BY WheelAssumption DEF EraseTask, WheelInv, TypeOK
<1>4. AllHeld'
  BY <1>1, <1>2 DEF WheelInv, AllHeld, Filed
<1>5. Due(id)' = None
  BY <1>2, DueOfSlot DEF Filed
<1>6. \A o \in Ids \ {id} : Due(o)' = Due(o)
  <2>1. \A o \in Ids \ {id} : o \in Filed' <=> o \in Filed
    BY <1>2 DEF Filed
  <2> QED
    BY <1>1, <1>2, <2>1, DueOfSlot
<1>7. [o \in Ids |-> Due(o)]' = [[o \in Ids |-> Due(o)] EXCEPT ![id] = None]
  BY <1>5, <1>6
<1>8. [o \in Ids |-> Due(o)][id] # None
  BY <1>1, DueOfFiled
<1>9. Queue!EraseTask(id)
  BY <1>7, <1>8 DEF Queue!EraseTask, EraseTask
<1> QED
  BY <1>3, <1>4, <1>9 DEF WheelInv

(* What a tick does with a task that is filed.                            *)
LEMMA PouredOfFiled ==
  ASSUME WheelInv, NEW id \in Filed
  PROVE  /\ Poured(id, current) = <<0, Index(current, 0)>> <=> Due(id) = current
         /\ Due(id) # current =>
              /\ Held(Poured(id, current), expire[id], current + 1)
              /\ DueIn(Poured(id, current), expire[id], current + 1) = Due(id)
<1>1. /\ expire[id] \in Nat /\ current \in Nat
      /\ Held(slot[id], expire[id], current)
  BY DEF WheelInv, TypeOK, AllHeld, Filed
<1>2. Poured(id, current) = PouredIn(slot[id], expire[id], current)
  BY DEF Poured, PouredIn
<1>3. Due(id) = DueIn(slot[id], expire[id], current)
  BY DueOfFiled
<1> QED
  BY <1>1, <1>2, <1>3, HeldTick

LEMMA TickWheel ==
  ASSUME WheelInv, Tick
  PROVE  /\ WheelInv'
         /\ Queue!Tick
<1>1. /\ current \in Nat /\ now \in Nat /\ current <= now
      /\ current' = current + 1 /\ clock' = clock /\ now' = now
  BY DEF Tick, WheelInv, TypeOK
<1>2. PICK t \in Nat : t = current' /\ t = current + 1
  BY <1>1
<1>3. fired' = {id \in Filed : Due(id) = current}
  BY PouredOfFiled DEF Tick
<1>4. fired' \subseteq Filed /\ Filed \subseteq Ids
  BY <1>3 DEF Filed
<1>5. PICK again \in SUBSET fired', done \in SUBSET fired' :
        /\ again = {id \in fired' : Less(left[id]) # 0}
        /\ done = fired' \ again
        /\ expire' = [id \in Ids |->
                        IF id \in again THEN Cut(now + interval[id], current')
                        ELSE IF id \in done THEN 0 ELSE expire[id]]
        /\ slot' = [id \in Ids |->
                      IF id \in again THEN SlotOf(expire'[id], current')
                      ELSE IF id \in done \/ id \notin Filed THEN None
                      ELSE Poured(id, current)]
        /\ left' = [id \in Ids |-> IF id \in fired' THEN Less(left[id]) ELSE left[id]]
        /\ interval' = [id \in Ids |-> IF id \in done THEN 0 ELSE interval[id]]
  BY DEF Tick
<1>6. ASSUME NEW id \in again
      PROVE  /\ expire'[id] \in Nat
             /\ slot'[id] \in Slots
             /\ Held(slot'[id], expire'[id], current')
             /\ Due(id)' = Queue!DueAt(now + interval[id], current')
  <2>1. PICK e \in Nat : e = now + interval[id]
    BY <1>1, <1>4 DEF WheelInv, TypeOK
  <2>2. PICK c \in Nat :
          /\ c = Cut(e, t)
          /\ c < t + Reach(Levels)
          /\ Queue!DueAt(e, t) = IF c < t THEN t ELSE c
    <3>1. /\ Cut(e, t) \in Nat
          /\ Cut(e, t) < t + Reach(Levels)
          /\ Queue!DueAt(e, t) = IF Cut(e, t) < t THEN t ELSE Cut(e, t)
      BY CutReached
    <3> QED
      BY <3>1, Zenon
  <2>3. id \in Ids /\ expire'[id] = c /\ slot'[id] = SlotOf(c, t)
    BY <1>2, <1>4, <1>5, <2>1, <2>2
  <2>4. /\ Held(SlotOf(c, t), c, t)
        /\ DueIn(SlotOf(c, t), c, t) = Queue!DueAt(e, t)
    <3>1. \E k \in 0 .. Levels : c < t + Reach(k)
      BY <2>2, WheelAssumption
    <3> QED
      BY <2>2, <3>1, FiledIsHeld
  <2>5. slot'[id] \in Slots
    BY <2>3, <2>4, HeldSlot
  <2>6. id \in Filed'
    BY <2>3, <2>5, WheelAssumption DEF Filed
  <2>7. Due(id)' = DueIn(slot'[id], expire'[id], current')
    BY <2>3, <2>6, DueOfSlot
  <2> QED
    BY <1>2, <2>1, <2>3, <2>4, <2>5, <2>7
<1>7. ASSUME NEW id \in done
      PROVE  expire'[id] = 0 /\ slot'[id] = None /\ Due(id)' = None
  <2>1. id \in Ids /\ id \notin again
    BY <1>4, <1>5
  <2>2. expire'[id] = 0 /\ slot'[id] = None
    BY <1>5, <2>1
  <2> QED
    BY <2>1, <2>2, DueOfSlot DEF Filed
<1>8. ASSUME NEW id \in Filed \ fired'
      PROVE  /\ expire'[id] = expire[id]
             /\ slot'[id] \in Slots
             /\ Held(slot'[id], expire'[id], current')
             /\ Due(id)' = Due(id)
  <2>1. id \in Ids /\ id \notin again /\ id \notin done /\ Due(id) # current
    BY <1>3, <1>4
  <2>2. expire'[id] = expire[id] /\ slot'[id] = Poured(id, current)
    BY <1>5, <2>1
  <2>3. /\ Held(Poured(id, current), expire[id], t)
        /\ DueIn(Poured(id, current), expire[id], t) = Due(id)
    BY <1>2, <2>1, PouredOfFiled
  <2>4. expire[id] \in Nat
    BY <2>1 DEF WheelInv, TypeOK
  <2>5. slot'[id] \in Slots
    BY <2>2, <2>3, <2>4, HeldSlot
  <2>6. id \in Filed'
    BY <2>1, <2>5, WheelAssumption DEF Filed
  <2>7. Due(id)' = DueIn(slot'[id], expire'[id], current')
    BY <2>1, <2>6, DueOfSlot
  <2> QED
    BY <1>2, <2>2, <2>3, <2>5, <2>7
<1>9. ASSUME NEW id \in Ids \ Filed
      PROVE  expire'[id] = expire[id] /\ slot'[id] = None /\ Due(id)' = None
  <2>1. id \notin again /\ id \notin done
    BY <1>4
  <2>2. expire'[id] = expire[id] /\ slot'[id] = None
    BY <1>5, <2>1
  <2> QED
    BY <2>2, DueOfSlot DEF Filed
<1>10. \A id \in Ids : id \in again \/ id \in done \/ id \in Filed \ fired' \/ id \in Ids \ Filed
  BY <1>5
<1>11. TypeOK'
  <2>1. \A id \in Ids : expire'[id] \in Nat /\ slot'[id] \in Slots \cup {None}
    <3>1. \A id \in Ids : expire[id] \in Nat
      BY DEF WheelInv, TypeOK
    <3> QED
      BY <1>4, <1>6, <1>7, <1>8, <1>9, <1>10, <3>1
  <2>2. \A id \in Ids : left'[id] \in 0 .. FullCircle /\ interval'[id] \in Nat
    <3>1. \A id \in Ids : /\ left[id] \in 0 .. FullCircle
                          /\ Less(left[id]) \in 0 .. FullCircle
                          /\ interval[id] \in Nat
      BY LessInWidth DEF WheelInv, TypeOK
    <3> QED
      BY <1>5, <3>1
  <2>3. /\ DOMAIN expire' = Ids /\ DOMAIN slot' = Ids
        /\ DOMAIN left' = Ids /\ DOMAIN interval' = Ids
    BY <1>5
  <2>4. /\ expire' \in [Ids -> Nat] /\ slot' \in [Ids -> Slots \cup {None}]
        /\ left' \in [Ids -> 0 .. FullCircle] /\ interval' \in [Ids -> Nat]
    BY <1>5, <2>1, <2>2, <2>3
  <2>5. current' \in 0 .. (now' + 1) /\ fired' \in SUBSET Ids
    BY <1>1, <1>4
  <2> QED
    BY <1>1, <2>4, <2>5 DEF WheelInv, TypeOK
<1>12. AllHeld'
  <2> SUFFICES ASSUME NEW id \in Ids, slot'[id] # None
               PROVE  Held(slot'[id], expire'[id], current')
    BY DEF AllHeld, Filed
  <2> QED
    BY <1>6, <1>7, <1>8, <1>9, <1>10
<1>13. Queue!Tick
  <2>1. Queue!Filed = Filed
    BY <1>4, DueOfFiled, DueOfNone DEF Queue!Filed
  <2>2. fired' = {id \in Queue!Filed : [o \in Ids |-> Due(o)][id] = current}
    BY <1>3, <1>4, <2>1
  <2>3. [o \in Ids |-> Due(o)]' =
          [id \in Ids |-> IF id \in again THEN Queue!DueAt(now + interval[id], current')
                          ELSE IF id \in fired' THEN None
                          ELSE [o \in Ids |-> Due(o)][id]]
    <3>1. \A id \in Ids :
            Due(id)' = IF id \in again THEN Queue!DueAt(now + interval[id], current')
                       ELSE IF id \in fired' THEN None ELSE Due(id)
      BY <1>4, <1>5, <1>6, <1>7, <1>8, <1>9, <1>10, DueOfNone
    <3> QED
      BY <3>1
  <2>4. again = {id \in fired' : Queue!Less(left[id]) # 0}
    BY <1>5 DEF Less, Queue!Less
  <2>5. left' = [id \in Ids |-> IF id \in fired' THEN Queue!Less(left[id]) ELSE left[id]]
    BY <1>5 DEF Less, Queue!Less
  <2>6. interval' = [id \in Ids |-> IF id \in fired' \ again THEN 0 ELSE interval[id]]
    BY <1>5
  <2> QED
    BY <1>1, <2>2, <2>3, <2>4, <2>5, <2>6 DEF Queue!Tick
<1> QED
  BY <1>11, <1>12, <1>13 DEF WheelInv

(* Every step keeps the invariant, and is a step of the queue or none.    *)
LEMMA NextWheel ==
  WheelInv /\ [Next]_vars => WheelInv' /\ [Queue!Next]_(Queue!vars)
<1> SUFFICES ASSUME WheelInv, [Next]_vars
             PROVE  WheelInv' /\ [Queue!Next]_(Queue!vars)
  OBVIOUS
<1>1. ASSUME UNCHANGED <<slot, expire, current>>
      PROVE  AllHeld' /\ UNCHANGED [id \in Ids |-> Due(id)]
  <2>1. AllHeld'
    BY <1>1 DEF WheelInv, AllHeld, Filed
  <2>2. \A id \in Ids : Due(id)' = Due(id)
    BY <1>1, DueOfSlot DEF Filed
  <2> QED
    BY <2>1, <2>2
<1>2. CASE Advance
  <2>1. TypeOK'
    BY <1>2, WheelAssumption DEF Advance, WheelInv, TypeOK
  <2>2. Queue!Advance
    BY <1>1, <1>2 DEF Advance, Queue!Advance
  <2> QED
    BY <1>1, <1>2, <2>1, <2>2 DEF Advance, WheelInv, Queue!Next
<1>3. CASE Check
  <2>1. TypeOK'
    BY <1>3 DEF Check, WheelInv, TypeOK
  <2>2. Queue!Check
    BY <1>1, <1>3 DEF Check, Queue!Check
  <2> QED
    BY <1>1, <1>3, <2>1, <2>2 DEF Check, WheelInv, Queue!Next
<1>4. CASE Tick
  BY <1>4, TickWheel DEF Queue!Next
<1>5. ASSUME NEW id \in Ids, AddTask(id)
      PROVE  WheelInv' /\ Queue!Next
  BY <1>5, AddWheel DEF Queue!Next
<1>6. ASSUME NEW id \in Ids, EraseTask(id)
      PROVE  WheelInv' /\ Queue!Next
  BY <1>6, EraseWheel DEF Queue!Next
<1>7. CASE UNCHANGED vars
  <2>1. TypeOK'
    BY <1>7 DEF vars, WheelInv, TypeOK
  <2>2. UNCHANGED Queue!vars
    BY <1>1, <1>7 DEF vars, Queue!vars, Queue!timerVars
  <2> QED
    BY <1>1, <1>7, <2>1, <2>2 DEF vars, WheelInv
<1> QED
  BY <1>2, <1>3, <1>4, <1>5, <1>6, <1>7 DEF Next

(* A task in a level is ahead of one cascade only, the one that begins    *)
(* the slot that covers its time.                                         *)
LEMMA HeldCascades == WheelInv => CascadedInTime
<1> SUFFICES ASSUME WheelInv, NEW id \in Filed, slot[id][1] > 0
             PROVE  LET k == slot[id][1]
                        ahead == {t \in current .. expire[id] :
                                    k \in Cascading(t) /\ Index(t, k) = slot[id][2]}
                    IN ahead # {} /\ expire[id] - Min(ahead) < Width[k]
  BY DEF CascadedInTime
<1>1. PICK e \in Nat, c \in Nat :
        e = expire[id] /\ c = current /\ Held(slot[id], e, c)
  BY DEF WheelInv, TypeOK, AllHeld, Filed
<1>2. PICK k \in 1 .. Levels :
        slot[id] = <<k, Index(e, k)>> /\ c <= Begin(e, k) /\ e < c + Reach(k)
  BY <1>1 DEF Held
<1>3. k \in 0 .. Levels
  OBVIOUS
<1>4. PICK b \in Nat, w \in Nat, r \in Nat :
        /\ b = Begin(e, k) /\ w = Width[k] /\ r = Reach(k)
        /\ b <= e /\ e < b + w /\ b % w = 0 /\ Index(b, k) = Index(e, k)
  <2>1. Begin(e, k) \in Nat /\ Width[k] \in Nat /\ Reach(k) \in Nat
    BY <1>3, BeginOfSlot, Sizes
  <2>2. /\ Begin(e, k) <= e /\ e < Begin(e, k) + Width[k]
        /\ Begin(e, k) % Width[k] = 0 /\ Index(Begin(e, k), k) = Index(e, k)
    BY <1>3, BeginOfSlot
  <2> QED
    BY <2>1, <2>2, Zenon
<1> DEFINE ahead == {t \in c .. e : k \in Cascading(t) /\ Index(t, k) = Index(e, k)}
<1>5. b \in ahead
  BY <1>2, <1>4, CascadesAtSlots
<1>6. ASSUME NEW t \in ahead PROVE t = b
  <2>1. t \in Nat /\ t <= e /\ k \in Cascading(t) /\ Index(t, k) = Index(e, k) /\ c <= t
    OBVIOUS
  <2>2. t % Width[k] = 0
    BY <2>1, CascadesAtSlots
  <2>3. e < t + Reach(k)
    BY <1>2, <1>4, <2>1
  <2> QED
    BY <1>3, <1>4, <2>1, <2>2, <2>3, SlotSole
<1>7. ahead = {b}
  <2> HIDE DEF ahead
  <2> QED
    BY <1>5, <1>6
<1>8. Min({b}) = b
  BY DEF Min
<1>9. ahead # {} /\ e - Min(ahead) < w
  <2> HIDE DEF ahead
  <2> QED
    BY <1>4, <1>7, <1>8
<1> QED
  BY <1>1, <1>2, <1>4, <1>9

-----------------------------------------------------------------------------
(* The lists and the clocks keep their types: every task is in a list of  *)
(* tv_ (time_wheel.h, add_node and check).                                *)
THEOREM WheelTypeCorrect == Spec => []TypeOK
<1>1. WheelInv => TypeOK
  BY DEF WheelInv
<1> QED
  BY InitWheel, NextWheel, <1>1, PTL DEF Spec

(* For wheels and levels of any sizes, a task in a level is poured out    *)
(* once before it is due, within the last slot of that level              *)
(* (time_wheel.h, check and cascade).                                     *)
THEOREM Cascades == Spec => []CascadedInTime
BY InitWheel, NextWheel, HeldCascades, PTL DEF Spec

(* No task is called before its time (time_wheel.h, check).               *)
THEOREM NotEarly == Spec => NeverEarly
<1>1. WheelInv /\ [Next]_vars => [\A id \in fired' : clock >= expire[id]]_vars
  <2> SUFFICES ASSUME WheelInv, Next
               PROVE  \A id \in fired' : clock >= expire[id]
    OBVIOUS
  <2>1. CASE Tick
    <3>1. fired' = {id \in Filed : Due(id) = current}
      BY <2>1, PouredOfFiled DEF Tick
    <3>2. \A id \in Filed : Due(id) >= expire[id] /\ expire[id] \in Nat
      BY DueOfFiled DEF WheelInv, TypeOK, Filed
    <3>3. current \in Nat /\ now \in Nat /\ clock \in Nat /\ current <= now /\ now <= clock
      BY <2>1 DEF Tick, WheelInv, TypeOK
    <3> QED
      BY <3>1, <3>2, <3>3
  <2>2. ASSUME fired' = {} PROVE \A id \in fired' : clock >= expire[id]
    BY <2>2
  <2> QED
    BY <2>1, <2>2 DEF Next, Advance, Check, AddTask, EraseTask
<1> QED
  BY InitWheel, NextWheel, <1>1, PTL DEF Spec, NeverEarly

(* The wheel implements the timer queue: slots, levels and cascades call  *)
(* each task at the tick that a plain list of due times would, for wheels *)
(* and levels of any sizes (time_wheel.h, add_node, check and cascade).   *)
THEOREM ImplementsTimerQueue == Spec => IsTimerQueue
<1>1. Init => Queue!Init
  <2> SUFFICES ASSUME Init PROVE Queue!Init
    OBVIOUS
  <2>1. \A id \in Ids : Due(id) = None
    BY DueOfNone DEF Init, Filed
  <2> QED
    BY <2>1 DEF Init, Queue!Init
<1>2. Queue!Init /\ [][Queue!Next]_(Queue!vars) => IsTimerQueue
  BY DEF IsTimerQueue, Queue!Spec
<1> QED
  BY InitWheel, NextWheel, <1>1, <1>2, PTL DEF Spec
=============================================================================
