----------------------------- MODULE Utf8Proofs -----------------------------
(***************************************************************************)
(* Proof that Websocket_server::validate_utf8 accepts exactly the strings  *)
(* of whole characters, for strings of any bytes and any length.           *)
(***************************************************************************)
EXTENDS Utf8, TLAPS

(* The shifts of validate_utf8 as ranges of bytes. *)
LEMMA Shifts ==
  ASSUME NEW b \in 0 .. 255
  PROVE  /\ b \div 128 = 0 <=> b < 128
         /\ b \div 64 = 2 <=> 128 <= b /\ b < 192
         /\ b \div 32 = 6 <=> 192 <= b /\ b < 224
         /\ b \div 16 = 14 <=> 224 <= b /\ b < 240
         /\ b \div 8 = 30 <=> 240 <= b /\ b < 248
<1>1. b \in Nat /\ b <= 255
  OBVIOUS
<1>2. b \div 128 = 0 <=> b < 128
  BY <1>1
<1>3. b \div 64 = 2 <=> 128 <= b /\ b < 192
  BY <1>1
<1>4. b \div 32 = 6 <=> 192 <= b /\ b < 224
  BY <1>1
<1>5. b \div 16 = 14 <=> 224 <= b /\ b < 240
  BY <1>1
<1>6. b \div 8 = 30 <=> 240 <= b /\ b < 248
  BY <1>1
<1> QED
  BY <1>2, <1>3, <1>4, <1>5, <1>6

(* The bit tests agree with the forms of the characters. *)
LEMMA Forms ==
  ASSUME NEW b \in 0 .. 255
  PROVE  /\ b \div 64 = 2 <=> Tail10(b)
         /\ First11(b) => ~Tail10(b) /\ Announced(b) = {Follow(b)}
         /\ ~First11(b) => Announced(b) = {}
         /\ Follow(b) \in 0 .. 3
<1>1. b \div 64 = 2 <=> Tail10(b)
  BY Shifts DEF Tail10
<1>2. First11(b) => ~Tail10(b)
  BY DEF First11, Tail10
<1>3. ASSUME First11(b)
      PROVE  Announced(b) = {Follow(b)}
  <2>1. CASE b < 128
    BY <2>1, Shifts DEF Announced, Follow
  <2>2. CASE 192 <= b /\ b < 224
    BY <2>2, Shifts DEF Announced, Follow
  <2>3. CASE 224 <= b /\ b < 240
    BY <2>3, Shifts DEF Announced, Follow
  <2>4. CASE 240 <= b /\ b < 248
    BY <2>4, Shifts DEF Announced, Follow
  <2> QED
    BY <1>3, <2>1, <2>2, <2>3, <2>4 DEF First11
<1>4. ~First11(b) => Announced(b) = {}
  BY Shifts DEF Announced, First11
<1>5. Follow(b) \in 0 .. 3
  BY DEF Follow
<1> QED
  BY <1>1, <1>2, <1>3, <1>4, <1>5

(* A byte of the string. *)
LEMMA ByteOf ==
  ASSUME TypeOK, NEW a \in 1 .. Len(s)
  PROVE  s[a] \in 0 .. 255
<1>1. s \in Seq(Bytes)
  BY DEF TypeOK
<1>2. s[a] \in Bytes
  BY <1>1
<1> QED
  BY <1>2, Utf8Assumption

-----------------------------------------------------------------------------
(* While scanning: the characters begun are good so far, and the last of   *)
(* them ends at i + remaining.                                             *)
FitSoFar ==
  \A a \in 1 .. i :
    ~Tail10(s[a]) => First11(s[a]) /\ a + Follow(s[a]) <= i + remaining

LastEndsThere ==
  remaining > 0 => \E a \in 1 .. i : ~Tail10(s[a]) /\ a + Follow(s[a]) = i + remaining

TailsBelong ==
  \A j \in 1 .. i :
    Tail10(s[j]) => \E a \in 1 .. i : a < j /\ ~Tail10(s[a]) /\ j <= a + Follow(s[a])

AnnouncedAreTails ==
  \A a, j \in 1 .. i :
    ~Tail10(s[a]) /\ a < j /\ j <= a + Follow(s[a]) => Tail10(s[j])

GoodSoFar == FitSoFar /\ LastEndsThere /\ TailsBelong /\ AnnouncedAreTails

Utf8Inv == TypeOK /\ (result = "scanning" => GoodSoFar) /\ Decides

LEMMA InitInv == Init => Utf8Inv
<1> SUFFICES ASSUME Init PROVE Utf8Inv
  OBVIOUS
<1>1. s \in Seq(Bytes)
  <2>1. PICK n \in 0 .. MaxLen : s \in [1 .. n -> Bytes]
    BY DEF Init, Strings
  <2> QED
    BY <2>1, Utf8Assumption
<1>2. TypeOK
  BY <1>1 DEF Init, TypeOK
<1>3. GoodSoFar
  BY DEF Init, GoodSoFar, FitSoFar, LastEndsThere, TailsBelong, AnnouncedAreTails
<1> QED
  BY <1>2, <1>3 DEF Init, Utf8Inv, Decides

(* What every step that looks at a byte knows. *)
LEMMA LookingAt ==
  ASSUME Utf8Inv, Looking
  PROVE  /\ i \in Nat /\ i + 1 \in 1 .. Len(s) /\ i' = i + 1 /\ s' = s
         /\ s[i + 1] \in 0 .. 255
         /\ remaining \in 0 .. 3
         /\ \A a \in 1 .. i : s[a] \in 0 .. 255 /\ Follow(s[a]) \in 0 .. 3
         /\ GoodSoFar
<1>1. i \in Nat /\ i + 1 \in 1 .. Len(s) /\ i' = i + 1 /\ s' = s
  BY DEF Utf8Inv, TypeOK, Looking
<1>2. s[i + 1] \in 0 .. 255
  BY <1>1, ByteOf DEF Utf8Inv
<1>3. \A a \in 1 .. i : s[a] \in 0 .. 255 /\ Follow(s[a]) \in 0 .. 3
  <2> SUFFICES ASSUME NEW a \in 1 .. i PROVE s[a] \in 0 .. 255 /\ Follow(s[a]) \in 0 .. 3
    OBVIOUS
  <2>1. a \in 1 .. Len(s)
    BY <1>1 DEF Utf8Inv, TypeOK
  <2> QED
    BY <2>1, ByteOf, Forms DEF Utf8Inv
<1> QED
  BY <1>1, <1>2, <1>3 DEF Utf8Inv, TypeOK, Looking

LEMMA BeginInv ==
  ASSUME Utf8Inv, Begin
  PROVE  Utf8Inv'
<1> DEFINE b == s[i + 1]
<1>0. Looking /\ remaining = 0 /\ remaining' \in Announced(b) /\ result' = result
  BY DEF Begin
<1>1. /\ i \in Nat /\ i + 1 \in 1 .. Len(s) /\ i' = i + 1 /\ s' = s
      /\ b \in 0 .. 255
      /\ \A a \in 1 .. i : s[a] \in 0 .. 255 /\ Follow(s[a]) \in 0 .. 3
      /\ GoodSoFar
  BY <1>0, LookingAt
<1>2. First11(b) /\ ~Tail10(b) /\ remaining' = Follow(b) /\ Follow(b) \in 0 .. 3
  <2> HIDE DEF b
  <2>1. First11(b)
    BY <1>0, <1>1, Forms
  <2>2. ~Tail10(b) /\ Announced(b) = {Follow(b)} /\ Follow(b) \in 0 .. 3
    BY <2>1, <1>1, Forms
  <2> QED
    BY <1>0, <2>1, <2>2
<1>3. TypeOK'
  BY <1>0, <1>1, <1>2 DEF Utf8Inv, TypeOK
<1>4. \A a \in 1 .. i + 1 : a \in 1 .. i \/ a = i + 1
  BY <1>1
<1>5. FitSoFar'
  <2> SUFFICES ASSUME NEW a \in 1 .. i + 1, ~Tail10(s[a])
               PROVE  First11(s[a]) /\ a + Follow(s[a]) <= i + 1 + Follow(b)
    BY <1>1, <1>2 DEF FitSoFar
  <2>1. CASE a = i + 1
    BY <2>1, <1>1, <1>2
  <2>2. CASE a \in 1 .. i
    <3>1. First11(s[a]) /\ a + Follow(s[a]) <= i
      BY <2>2, <1>0, <1>1 DEF GoodSoFar, FitSoFar
    <3> QED
      BY <3>1, <2>2, <1>1, <1>2
  <2> QED
    BY <1>4, <2>1, <2>2
<1>6. LastEndsThere'
  <2>1. i + 1 \in 1 .. i + 1 /\ ~Tail10(s[i + 1]) /\ (i + 1) + Follow(s[i + 1]) = (i + 1) + Follow(b)
    BY <1>1, <1>2
  <2> QED
    BY <2>1, <1>1, <1>2 DEF LastEndsThere
<1>7. TailsBelong'
  <2> SUFFICES ASSUME NEW j \in 1 .. i + 1, Tail10(s[j])
               PROVE  \E a \in 1 .. i + 1 : a < j /\ ~Tail10(s[a]) /\ j <= a + Follow(s[a])
    BY <1>1 DEF TailsBelong
  <2>1. j \in 1 .. i
    BY <1>2, <1>4
  <2>2. PICK a \in 1 .. i : a < j /\ ~Tail10(s[a]) /\ j <= a + Follow(s[a])
    BY <2>1, <1>1 DEF GoodSoFar, TailsBelong
  <2>3. a \in 1 .. i + 1
    BY <1>1
  <2> QED
    BY <2>2, <2>3
<1>8. AnnouncedAreTails'
  <2> SUFFICES ASSUME NEW a \in 1 .. i + 1, NEW j \in 1 .. i + 1,
                      ~Tail10(s[a]), a < j, j <= a + Follow(s[a])
               PROVE  Tail10(s[j])
    BY <1>1 DEF AnnouncedAreTails
  <2>1. a \in 1 .. i
    BY <1>1
  <2>2. a + Follow(s[a]) <= i
    BY <2>1, <1>0, <1>1 DEF GoodSoFar, FitSoFar
  <2>3. j \in 1 .. i
    BY <2>1, <2>2, <1>1
  <2> QED
    BY <2>1, <2>3, <1>1 DEF GoodSoFar, AnnouncedAreTails
<1> QED
  BY <1>0, <1>3, <1>5, <1>6, <1>7, <1>8 DEF Utf8Inv, GoodSoFar, Decides, Looking

LEMMA ContinueInv ==
  ASSUME Utf8Inv, Continue
  PROVE  Utf8Inv'
<1> DEFINE b == s[i + 1]
<1>0. Looking /\ remaining > 0 /\ b \div 64 = 2 /\ remaining' = remaining - 1 /\ result' = result
  BY DEF Continue
<1>1. /\ i \in Nat /\ i + 1 \in 1 .. Len(s) /\ i' = i + 1 /\ s' = s
      /\ b \in 0 .. 255 /\ remaining \in 0 .. 3
      /\ \A a \in 1 .. i : s[a] \in 0 .. 255 /\ Follow(s[a]) \in 0 .. 3
      /\ GoodSoFar
  BY <1>0, LookingAt
<1>2. Tail10(b)
  <2> HIDE DEF b
  <2> QED
    BY <1>0, <1>1, Forms
<1>3. TypeOK'
  BY <1>0, <1>1 DEF Utf8Inv, TypeOK
<1>4. /\ \A a \in 1 .. i + 1 : a \in 1 .. i \/ a = i + 1
      /\ \A a \in 1 .. i : a \in 1 .. i + 1
      /\ i' + remaining' = i + remaining
  BY <1>0, <1>1
<1>5. FitSoFar'
  <2> SUFFICES ASSUME NEW a \in 1 .. i + 1, ~Tail10(s[a])
               PROVE  First11(s[a]) /\ a + Follow(s[a]) <= i + remaining
    BY <1>1, <1>4 DEF FitSoFar
  <2>1. a \in 1 .. i
    BY <1>2, <1>4
  <2> QED
    BY <2>1, <1>1 DEF GoodSoFar, FitSoFar
<1>6. PICK f \in 1 .. i : ~Tail10(s[f]) /\ f + Follow(s[f]) = i + remaining
  BY <1>0, <1>1 DEF GoodSoFar, LastEndsThere
<1>7. LastEndsThere'
  BY <1>1, <1>4, <1>6 DEF LastEndsThere
<1>8. TailsBelong'
  <2> SUFFICES ASSUME NEW j \in 1 .. i + 1, Tail10(s[j])
               PROVE  \E a \in 1 .. i + 1 : a < j /\ ~Tail10(s[a]) /\ j <= a + Follow(s[a])
    BY <1>1 DEF TailsBelong
  <2>1. CASE j = i + 1
    BY <2>1, <1>0, <1>1, <1>4, <1>6
  <2>2. CASE j \in 1 .. i
    BY <2>2, <1>1, <1>4 DEF GoodSoFar, TailsBelong
  <2> QED
    BY <1>4, <2>1, <2>2
<1>9. AnnouncedAreTails'
  <2> SUFFICES ASSUME NEW a \in 1 .. i + 1, NEW j \in 1 .. i + 1,
                      ~Tail10(s[a]), a < j, j <= a + Follow(s[a])
               PROVE  Tail10(s[j])
    BY <1>1 DEF AnnouncedAreTails
  <2>1. a \in 1 .. i
    BY <1>2, <1>4
  <2>2. CASE j = i + 1
    BY <2>2, <1>2
  <2>3. CASE j \in 1 .. i
    BY <2>1, <2>3, <1>1 DEF GoodSoFar, AnnouncedAreTails
  <2> QED
    BY <1>4, <2>2, <2>3
<1> QED
  BY <1>0, <1>3, <1>5, <1>7, <1>8, <1>9 DEF Utf8Inv, GoodSoFar, Decides, Looking

LEMMA RejectInv ==
  ASSUME Utf8Inv, Reject
  PROVE  Utf8Inv'
<1> DEFINE b == s[i + 1]
<1>0. /\ Looking /\ remaining' = remaining /\ result' = "false"
      /\ IF remaining = 0 THEN Announced(b) = {} ELSE b \div 64 # 2
  BY DEF Reject
<1>1. /\ i \in Nat /\ i + 1 \in 1 .. Len(s) /\ i' = i + 1 /\ s' = s
      /\ b \in 0 .. 255 /\ remaining \in 0 .. 3
      /\ \A a \in 1 .. i : s[a] \in 0 .. 255 /\ Follow(s[a]) \in 0 .. 3
      /\ GoodSoFar
  BY <1>0, LookingAt
<1>2. TypeOK'
  BY <1>0, <1>1 DEF Utf8Inv, TypeOK
<1>3. \A a \in 1 .. i : a \in 1 .. Len(s)
  BY <1>1 DEF Utf8Inv, TypeOK
<1>4. ~WellFormed(s)
  <2>1. CASE remaining = 0 /\ ~Tail10(b)
    <3>1. ~First11(b)
      <4> HIDE DEF b
      <4> QED
        BY <2>1, <1>0, <1>1, Forms
    <3> QED
      BY <3>1, <2>1, <1>1 DEF WellFormed
  <2>2. CASE remaining = 0 /\ Tail10(b)
    <3> SUFFICES ASSUME WellFormed(s) PROVE FALSE
      OBVIOUS
    <3>1. PICK a \in 1 .. Len(s) : a < i + 1 /\ ~Tail10(s[a]) /\ i + 1 <= a + Follow(s[a])
      BY <2>2, <1>1 DEF WellFormed
    <3>2. a \in 1 .. i
      BY <3>1, <1>1
    <3>3. a + Follow(s[a]) <= i
      BY <2>2, <3>1, <3>2, <1>1 DEF GoodSoFar, FitSoFar
    <3> QED
      BY <3>1, <3>2, <3>3, <1>1
  <2>3. CASE remaining # 0
    <3>1. ~Tail10(b)
      <4> HIDE DEF b
      <4> QED
        BY <2>3, <1>0, <1>1, Forms
    <3>2. PICK a \in 1 .. i : ~Tail10(s[a]) /\ a + Follow(s[a]) = i + remaining
      BY <2>3, <1>1 DEF GoodSoFar, LastEndsThere
    <3>3. a < i + 1 /\ i + 1 <= a + Follow(s[a])
      BY <2>3, <3>2, <1>1
    <3> QED
      BY <3>1, <3>2, <3>3, <1>1, <1>3 DEF WellFormed
  <2> QED
    BY <2>1, <2>2, <2>3
<1>5. Decides'
  BY <1>0, <1>1, <1>4 DEF Decides
<1> QED
  BY <1>0, <1>2, <1>5 DEF Utf8Inv

LEMMA ReturnInv ==
  ASSUME Utf8Inv, Return
  PROVE  Utf8Inv'
<1>0. /\ result = "scanning" /\ i = Len(s) /\ UNCHANGED <<s, i, remaining>>
      /\ result' = IF remaining = 0 THEN "true" ELSE "false"
      /\ GoodSoFar /\ i \in Nat /\ remaining \in 0 .. 3 /\ TypeOK
  BY DEF Return, Utf8Inv, TypeOK
<1>1. TypeOK'
  BY <1>0 DEF TypeOK
<1>2. CASE remaining = 0
  <2>1. \A a \in 1 .. Len(s) : ~Tail10(s[a]) => First11(s[a]) /\ a + Follow(s[a]) <= Len(s)
    BY <1>0, <1>2 DEF GoodSoFar, FitSoFar
  <2>2. WellFormed(s)
    BY <2>1, <1>0 DEF WellFormed, GoodSoFar, TailsBelong, AnnouncedAreTails
  <2> QED
    BY <2>2, <1>0, <1>1, <1>2 DEF Utf8Inv, Decides
<1>3. CASE remaining # 0
  <2>1. PICK a \in 1 .. Len(s) : ~Tail10(s[a]) /\ a + Follow(s[a]) = Len(s) + remaining
    BY <1>0, <1>3 DEF GoodSoFar, LastEndsThere
  <2>2. ~(a + Follow(s[a]) <= Len(s))
    BY <2>1, <1>0, <1>3
  <2>3. ~WellFormed(s)
    BY <2>1, <2>2 DEF WellFormed
  <2> QED
    BY <2>3, <1>0, <1>1, <1>3 DEF Utf8Inv, Decides
<1> QED
  BY <1>2, <1>3

LEMMA StutterInv ==
  ASSUME Utf8Inv, UNCHANGED vars
  PROVE  Utf8Inv'
BY DEF Utf8Inv, vars, TypeOK, GoodSoFar, FitSoFar, LastEndsThere, TailsBelong,
       AnnouncedAreTails, Decides

-----------------------------------------------------------------------------
LEMMA NextInv == Utf8Inv /\ [Next]_vars => Utf8Inv'
BY BeginInv, ContinueInv, RejectInv, ReturnInv, StutterInv DEF Next

(* validate_utf8 returns true exactly for the strings of whole characters. *)
THEOREM Utf8Correct == Spec => []Decides
<1>1. Utf8Inv => Decides
  BY DEF Utf8Inv
<1> QED
  BY InitInv, NextInv, <1>1, PTL DEF Spec

(* The counter of validate_utf8 stays within 0 .. 3, and its index within *)
(* the string.                                                            *)
THEOREM Utf8TypeCorrect == Spec => []TypeOK
<1>1. Utf8Inv => TypeOK
  BY DEF Utf8Inv
<1> QED
  BY InitInv, NextInv, <1>1, PTL DEF Spec
=============================================================================
