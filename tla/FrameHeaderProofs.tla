-------------------------- MODULE FrameHeaderProofs --------------------------
(***************************************************************************)
(* Proofs about FrameHeader, for sizes of any 8 bytes: what is written has *)
(* the drawn form, what is read is never less than what was written.       *)
(***************************************************************************)
EXTENDS FrameHeader, SequenceTheorems, TLAPS

Word == [1 .. 8 -> 0 .. 255]

(* A function on 1 .. n is a sequence of length n. *)
LEMMA FunctionAsSeq ==
  ASSUME NEW S, NEW n \in Nat, NEW f \in [1 .. n -> S]
  PROVE  f \in Seq(S) /\ Len(f) = n
<1>1. f \in Seq(S)
  OBVIOUS
<1>2. DOMAIN f = 1 .. n /\ DOMAIN f = 1 .. Len(f) /\ Len(f) \in Nat
  BY <1>1
<1>3. (n > 0 => n \in 1 .. Len(f)) /\ (Len(f) > 0 => Len(f) \in 1 .. n)
  BY <1>2
<1> QED
  BY <1>1, <1>2, <1>3

(* A size in the forms: its length and its bytes. *)
LEMMA EightBytes ==
  ASSUME NEW z \in Word
  PROVE  /\ Eight(z) \in Seq(0 .. 255) /\ Len(Eight(z)) = 9
         /\ Eight(z)[1] = 127 /\ \A j \in 1 .. 8 : Eight(z)[j + 1] = z[j]
<1>1. z \in Seq(0 .. 255)
  BY FunctionAsSeq DEF Word
<1>2. Len(z) = 8
  BY FunctionAsSeq DEF Word
<1>3. <<127>> \in Seq(0 .. 255) /\ Len(<<127>>) = 1 /\ <<127>>[1] = 127
  OBVIOUS
<1>4. Eight(z) \in Seq(0 .. 255)
  BY <1>1, <1>3 DEF Eight
<1>5. /\ Len(Eight(z)) = Len(<<127>>) + Len(z)
      /\ \A i \in 1 .. Len(<<127>>) + Len(z) :
           Eight(z)[i] = IF i <= Len(<<127>>) THEN <<127>>[i] ELSE z[i - Len(<<127>>)]
  BY <1>1, <1>3, ConcatProperties DEF Eight
<1>6. Len(Eight(z)) = 9 /\ \A i \in 1 .. 9 : Eight(z)[i] = IF i <= 1 THEN <<127>>[i] ELSE z[i - 1]
  BY <1>2, <1>3, <1>5
<1>7. \A j \in 1 .. 8 : Eight(z)[j + 1] = z[j]
  <2> SUFFICES ASSUME NEW j \in 1 .. 8 PROVE Eight(z)[j + 1] = z[j]
    OBVIOUS
  <2>1. j + 1 \in 1 .. 9 /\ ~(j + 1 <= 1) /\ (j + 1) - 1 = j
    OBVIOUS
  <2> QED
    BY <2>1, <1>6
<1> QED
  BY <1>3, <1>4, <1>6, <1>7

LEMMA ShortForms ==
  ASSUME NEW z \in Word
  PROVE  /\ One(z) \in Seq(0 .. 255) /\ Len(One(z)) = 1 /\ One(z)[1] = z[8]
         /\ Two(z) \in Seq(0 .. 255) /\ Len(Two(z)) = 3
         /\ Two(z)[1] = 126 /\ Two(z)[2] = z[7] /\ Two(z)[3] = z[8]
<1>1. z[7] \in 0 .. 255 /\ z[8] \in 0 .. 255
  BY DEF Word
<1> QED
  BY <1>1 DEF One, Two

(* Reading the drawing gives the size back, in each form that holds it.   *)
LEMMA DrawnBack ==
  ASSUME NEW z \in Word
  PROVE  /\ FitsOne(z) => Drawn(One(z)) = z
         /\ FitsTwo(z) => Drawn(Two(z)) = z
         /\ Drawn(Eight(z)) = z
<1>1. ASSUME FitsOne(z) PROVE Drawn(One(z)) = z
  <2>1. Drawn(One(z)) = [Zero EXCEPT ![8] = z[8]]
    BY <1>1, ShortForms DEF Drawn, FitsOne
  <2>2. [Zero EXCEPT ![8] = z[8]] = [j \in 1 .. 8 |-> IF j = 8 THEN z[8] ELSE 0]
    BY DEF Zero
  <2>3. \A j \in 1 .. 8 : z[j] = IF j = 8 THEN z[8] ELSE 0
    BY <1>1 DEF FitsOne
  <2> QED
    BY <2>1, <2>2, <2>3 DEF Word
<1>2. ASSUME FitsTwo(z) PROVE Drawn(Two(z)) = z
  <2>0. Two(z)[1] = 126 /\ Two(z)[2] = z[7] /\ Two(z)[3] = z[8]
    BY ShortForms
  <2>1. Drawn(Two(z)) = [Zero EXCEPT ![7] = z[7], ![8] = z[8]]
    BY <2>0 DEF Drawn
  <2>2. \A j \in 1 .. 8 : [Zero EXCEPT ![7] = z[7], ![8] = z[8]][j] = z[j]
    BY <1>2 DEF Zero, FitsTwo
  <2> QED
    BY <2>1, <2>2 DEF Word, Zero
<1>3. Drawn(Eight(z)) = z
  <2>1. Drawn(Eight(z)) = [j \in 1 .. 8 |-> Eight(z)[j + 1]]
    BY EightBytes DEF Drawn
  <2>2. \A j \in 1 .. 8 : Drawn(Eight(z))[j] = z[j]
    BY <2>1, EightBytes
  <2> QED
    BY <2>1, <2>2 DEF Word
<1> QED
  BY <1>1, <1>2, <1>3

-----------------------------------------------------------------------------
(* What reading has done: the bytes of the length that have been read are  *)
(* there, or have been raised by a sign behind them.                       *)
FrameMade ==
  /\ who = "server" => frame = Written(size)
  /\ who = "peer" => \/ FitsOne(size) /\ frame = One(size)
                     \/ FitsTwo(size) /\ frame = Two(size)
                     \/ frame = Eight(size)

ReadSoFar ==
  /\ ~done => k < 8
  /\ k > 0 => who = "peer" /\ frame = Eight(size)
  /\ \A j \in 1 .. 8 : j <= k => size[j] <= len[8 - k + j]
  /\ (\A j \in 1 .. 8 : ~Negative(size[j])) /\ ~done =>
       /\ \A j \in 1 .. 8 : j <= k => len[8 - k + j] = size[j]

HeaderInv == TypeOK /\ FrameMade /\ ReadSoFar /\ NeverCut /\ ReadsPlainLengths

LEMMA InitHeader == Init => HeaderInv
<1> SUFFICES ASSUME Init PROVE HeaderInv
  OBVIOUS
<1>1. size \in [1 .. 8 -> 0 .. 255]
  <2>1. PICK h \in [1 .. 5 -> HighBytes], l \in [6 .. 8 -> LowBytes] :
          size = [j \in 1 .. 8 |-> IF j <= 5 THEN h[j] ELSE l[j]]
    BY DEF Init, Sizes
  <2>2. \A j \in 1 .. 8 : (IF j <= 5 THEN h[j] ELSE l[j]) \in 0 .. 255
    <3> SUFFICES ASSUME NEW j \in 1 .. 8
                 PROVE  (IF j <= 5 THEN h[j] ELSE l[j]) \in 0 .. 255
      OBVIOUS
    <3>1. HighBytes \subseteq 0 .. 255 /\ LowBytes \subseteq 0 .. 255
      BY HeaderAssumption
    <3>2. CASE j \in 1 .. 5
      <4>1. h[j] \in HighBytes
        BY <3>2
      <4>2. h[j] \in 0 .. 255
        BY <3>1, <4>1
      <4>3. (IF j <= 5 THEN h[j] ELSE l[j]) = h[j]
        BY <3>2
      <4> QED
        BY <4>2, <4>3
    <3>3. CASE j \in 6 .. 8
      <4>1. l[j] \in LowBytes
        BY <3>3
      <4>2. l[j] \in 0 .. 255
        BY <3>1, <4>1
      <4>3. (IF j <= 5 THEN h[j] ELSE l[j]) = l[j]
        BY <3>3
      <4> QED
        BY <4>2, <4>3
    <3> QED
      BY <3>2, <3>3
  <2> QED
    BY <2>1, <2>2
<1>2. TypeOK
  <2>1. Zero \in [1 .. 8 -> 0 .. 255] /\ <<>> \in Seq(0 .. 255)
    BY DEF Zero
  <2>2. len = Zero /\ frame = <<>> /\ k = 0 /\ done = FALSE /\ who = "none"
    BY DEF Init
  <2>3. k \in 0 .. 8 /\ done \in BOOLEAN
    <3>1. k \in 0 .. 8
      BY <2>2
    <3>2. done \in BOOLEAN
      BY <2>2
    <3> QED
      BY <3>1, <3>2
  <2>4. len \in [1 .. 8 -> 0 .. 255] /\ frame \in Seq(0 .. 255)
    BY <2>1, <2>2
  <2> QED
    BY <1>1, <2>2, <2>3, <2>4 DEF TypeOK
<1>3. ReadSoFar
  BY DEF Init, ReadSoFar
<1> QED
  BY <1>2, <1>3 DEF Init, HeaderInv, FrameMade, NeverCut, ReadsPlainLengths

LEMMA MakingHeader ==
  ASSUME HeaderInv, ServerSend \/ PeerSend
  PROVE  HeaderInv'
<1>1. who = "none" /\ UNCHANGED <<size, k, len, done>> /\ who' \in {"server", "peer"}
  <2>1. CASE ServerSend
    BY <2>1 DEF ServerSend
  <2>2. CASE PeerSend
    BY <2>2 DEF PeerSend
  <2> QED
    BY <2>1, <2>2
<1>2. size \in Word /\ k \in 0 .. 8
  BY DEF HeaderInv, TypeOK, Word
<1>3. k = 0 /\ ReadSoFar'
  BY <1>1, <1>2 DEF HeaderInv, ReadSoFar
<1>4. FrameMade'
  <2>1. CASE ServerSend
    <3>1. who' = "server" /\ frame' = Written(size')
      BY <2>1 DEF ServerSend
    <3> QED
      BY <3>1 DEF FrameMade
  <2>2. CASE PeerSend
    <3>1. /\ who' = "peer"
          /\ \/ FitsOne(size') /\ frame' = One(size')
             \/ FitsTwo(size') /\ frame' = Two(size')
             \/ frame' = Eight(size')
      BY <2>2 DEF PeerSend
    <3> QED
      BY <3>1 DEF FrameMade
  <2> QED
    BY <2>1, <2>2
<1>5. frame' \in Seq(0 .. 255)
  <2>1. CASE ServerSend
    BY <2>1, <1>2, EightBytes, ShortForms DEF ServerSend, Written
  <2>2. CASE PeerSend
    BY <2>2, <1>2, EightBytes, ShortForms DEF PeerSend
  <2> QED
    BY <2>1, <2>2
<1>6. TypeOK'
  BY <1>1, <1>5 DEF HeaderInv, TypeOK
<1> QED
  BY <1>1, <1>3, <1>4, <1>6 DEF HeaderInv, NeverCut, ReadsPlainLengths

(* What every step of reading knows. *)
LEMMA ReadingKnows ==
  ASSUME HeaderInv, Reading
  PROVE  /\ who = "peer" /\ ~done /\ UNCHANGED <<who, size, frame>>
         /\ size \in Word /\ len \in Word /\ k \in 0 .. 7
         /\ \/ FitsOne(size) /\ frame = One(size) /\ frame[1] < 126
            \/ FitsTwo(size) /\ frame = Two(size) /\ frame[1] = 126
            \/ frame = Eight(size) /\ frame[1] = 127
         /\ frame[1] # 127 => k = 0
         /\ FrameMade'
<1>1. who = "peer" /\ ~done /\ UNCHANGED <<who, size, frame>>
  BY DEF Reading
<1>2. size \in Word /\ len \in Word /\ k \in 0 .. 8
  BY DEF HeaderInv, TypeOK, Word
<1>3. k < 8 /\ (k > 0 => frame = Eight(size))
  BY <1>1 DEF HeaderInv, ReadSoFar
<1>4. \/ FitsOne(size) /\ frame = One(size)
      \/ FitsTwo(size) /\ frame = Two(size)
      \/ frame = Eight(size)
  BY <1>1 DEF HeaderInv, FrameMade
<1>5. /\ FitsOne(size) => One(size)[1] < 126
      /\ Two(size)[1] = 126
      /\ Eight(size)[1] = 127
  <2>1. One(size)[1] = size[8] /\ Two(size)[1] = 126
    BY <1>2, ShortForms
  <2>2. Eight(size)[1] = 127
    BY <1>2, EightBytes
  <2> QED
    BY <2>1, <2>2 DEF FitsOne
<1>6. frame[1] # 127 => k = 0
  BY <1>2, <1>3, <1>5
<1>7. FrameMade'
  <2>1. /\ FitsOne(size') <=> FitsOne(size)
        /\ FitsTwo(size') <=> FitsTwo(size)
        /\ One(size') = One(size) /\ Two(size') = Two(size) /\ Eight(size') = Eight(size)
    BY <1>1
  <2> QED
    BY <1>1, <1>4, <2>1 DEF FrameMade
<1>8. \/ FitsOne(size) /\ frame = One(size) /\ frame[1] < 126
      \/ FitsTwo(size) /\ frame = Two(size) /\ frame[1] = 126
      \/ frame = Eight(size) /\ frame[1] = 127
  BY <1>4, <1>5
<1>9. k \in 0 .. 7
  BY <1>2, <1>3
<1> QED
  BY <1>1, <1>2, <1>6, <1>7, <1>8, <1>9

(* A length that is read in one step. *)
LEMMA ReadAtOnce ==
  ASSUME HeaderInv, Reading, frame[1] # 127, done' = TRUE, k' = k, len' \in Word,
         \A j \in 1 .. 8 : size[j] <= len'[j],
         (\A j \in 1 .. 8 : ~Negative(size[j])) => len' = size
  PROVE  HeaderInv'
<1>1. /\ UNCHANGED <<who, size, frame>> /\ k = 0 /\ k' = 0
      /\ FrameMade'
  BY ReadingKnows
<1>2. NeverCut'
  BY <1>1 DEF NeverCut
<1>3. ReadsPlainLengths'
  BY <1>1 DEF ReadsPlainLengths
<1>4. ReadSoFar'
  BY <1>1 DEF ReadSoFar
<1> QED
  BY <1>1, <1>2, <1>3, <1>4 DEF HeaderInv, TypeOK, Word

LEMMA ReadOneHeader ==
  ASSUME HeaderInv, ReadOne
  PROVE  HeaderInv'
<1>1. Reading /\ frame[1] < 126 /\ len' = [Zero EXCEPT ![8] = frame[1]] /\ done' = TRUE /\ k' = k
  BY DEF ReadOne
<1>2. size \in Word /\ FitsOne(size) /\ frame = One(size)
  BY <1>1, ReadingKnows
<1>3. Drawn(frame) = len'
  BY <1>1 DEF Drawn
<1>4. len' = size
  BY <1>2, <1>3, DrawnBack
<1>5. \A j \in 1 .. 8 : size[j] <= len'[j]
  <2>1. \A j \in 1 .. 8 : size[j] \in 0 .. 255
    BY <1>2 DEF Word
  <2>2. \A x \in 0 .. 255 : x <= x
    OBVIOUS
  <2> QED
    BY <2>1, <2>2, <1>4
<1>6. frame[1] # 127
  <2>1. frame[1] = size[8] /\ size[8] \in 0 .. 255
    BY <1>2, ShortForms DEF Word
  <2> QED
    BY <1>1, <2>1
<1> QED
  BY <1>1, <1>2, <1>4, <1>5, <1>6, ReadAtOnce

LEMMA ReadTwoHeader ==
  ASSUME HeaderInv, ReadTwo
  PROVE  HeaderInv'
<1>1. Reading /\ frame[1] = 126 /\ len' = Joined(frame[2], frame[3]) /\ done' = TRUE /\ k' = k
  BY DEF ReadTwo
<1>2. size \in Word /\ FitsTwo(size) /\ frame = Two(size)
  BY <1>1, ReadingKnows
<1>3. len' = Joined(size[7], size[8]) /\ size[7] \in 0 .. 255 /\ size[8] \in 0 .. 255
  BY <1>1, <1>2, ShortForms DEF Word
<1>4. len' \in Word
  BY <1>3 DEF Joined, Word
<1>5. \A j \in 1 .. 6 : size[j] = 0
  BY <1>2 DEF FitsTwo
<1>6. \A j \in 1 .. 8 : size[j] <= len'[j]
  <2> SUFFICES ASSUME NEW j \in 1 .. 8 PROVE size[j] <= len'[j]
    OBVIOUS
  <2>1. len'[j] = IF j = 8 THEN size[8] ELSE IF Negative(size[8]) THEN 255
                  ELSE IF j = 7 THEN size[7] ELSE IF Negative(size[7]) THEN 255 ELSE 0
    BY <1>3 DEF Joined
  <2>2. j \in 1 .. 6 \/ j = 7 \/ j = 8
    OBVIOUS
  <2> QED
    BY <2>1, <2>2, <1>3, <1>5
<1>7. ASSUME \A j \in 1 .. 8 : ~Negative(size[j])
      PROVE  len' = size
  <2>1. ~Negative(size[7]) /\ ~Negative(size[8])
    BY <1>7
  <2>2. len' = [j \in 1 .. 8 |-> IF j = 8 THEN size[8] ELSE IF j = 7 THEN size[7] ELSE 0]
    BY <1>3, <2>1 DEF Joined
  <2>3. \A j \in 1 .. 8 : size[j] = IF j = 8 THEN size[8] ELSE IF j = 7 THEN size[7] ELSE 0
    BY <1>5
  <2> QED
    BY <2>2, <2>3, <1>2 DEF Word
<1> QED
  BY <1>1, <1>4, <1>6, <1>7, ReadAtOnce

LEMMA ReadNextHeader ==
  ASSUME HeaderInv, ReadNext
  PROVE  HeaderInv'
<1>1. /\ Reading /\ frame[1] = 127 /\ k < 8 /\ len' = Shifted(len, frame[k + 2])
      /\ k' = k + 1 /\ done' = (k = 7)
  BY DEF ReadNext
<1>2. /\ who = "peer" /\ ~done /\ UNCHANGED <<who, size, frame>>
      /\ size \in Word /\ len \in Word /\ k \in 0 .. 7 /\ FrameMade'
  BY <1>1, ReadingKnows
<1>3. frame = Eight(size)
  <2>1. ~(frame[1] < 126) /\ frame[1] # 126
    BY <1>1
  <2> QED
    BY <2>1, <1>1, ReadingKnows
<1>4. frame[k + 2] = size[k + 1] /\ size[k + 1] \in 0 .. 255
  <2>1. k + 1 \in 1 .. 8 /\ (k + 1) + 1 = k + 2
    BY <1>2
  <2>2. Eight(size)[(k + 1) + 1] = size[k + 1]
    BY <2>1, <1>2, EightBytes
  <2>3. size[k + 1] \in 0 .. 255
    BY <2>1, <1>2 DEF Word
  <2> QED
    BY <2>1, <2>2, <2>3, <1>3
<1>5. len' = [j \in 1 .. 8 |-> IF j = 8 THEN size[k + 1]
                               ELSE IF Negative(size[k + 1]) THEN 255 ELSE len[j + 1]]
  BY <1>1, <1>4 DEF Shifted
<1>6. len' \in Word
  BY <1>2, <1>4, <1>5 DEF Word
<1>7. \A j \in 1 .. 8 : j <= k + 1 => size[j] <= len'[8 - (k + 1) + j]
  <2> SUFFICES ASSUME NEW j \in 1 .. 8, j <= k + 1
               PROVE  size[j] <= len'[8 - (k + 1) + j]
    OBVIOUS
  <2>1. CASE j = k + 1
    BY <2>1, <1>2, <1>4, <1>5
  <2>2. CASE j <= k
    <3>1. 8 - (k + 1) + j \in 1 .. 7 /\ (8 - (k + 1) + j) + 1 = 8 - k + j
      BY <2>2, <1>2
    <3>2. size[j] <= len[8 - k + j] /\ size[j] \in 0 .. 255
      BY <2>2, <1>2 DEF HeaderInv, ReadSoFar, Word
    <3>3. len'[8 - (k + 1) + j] = IF Negative(size[k + 1]) THEN 255 ELSE len[8 - k + j]
      BY <3>1, <1>5
    <3> QED
      BY <3>2, <3>3
  <2> QED
    BY <2>1, <2>2, <1>2
<1>8. (\A j \in 1 .. 8 : ~Negative(size[j])) =>
        \A j \in 1 .. 8 : j <= k + 1 => len'[8 - (k + 1) + j] = size[j]
  <2> SUFFICES ASSUME \A j \in 1 .. 8 : ~Negative(size[j]), NEW j \in 1 .. 8, j <= k + 1
               PROVE  len'[8 - (k + 1) + j] = size[j]
    OBVIOUS
  <2>1. CASE j = k + 1
    BY <2>1, <1>2, <1>4, <1>5
  <2>2. CASE j <= k
    <3>1. 8 - (k + 1) + j \in 1 .. 7 /\ (8 - (k + 1) + j) + 1 = 8 - k + j
      BY <2>2, <1>2
    <3>2. len[8 - k + j] = size[j]
      BY <2>2, <1>2 DEF HeaderInv, ReadSoFar
    <3>3. k + 1 \in 1 .. 8
      BY <1>2
    <3>4. len'[8 - (k + 1) + j] = len[8 - k + j]
      BY <3>1, <3>3, <1>5
    <3> QED
      BY <3>2, <3>4
  <2> QED
    BY <2>1, <2>2, <1>2
<1>9. ReadSoFar'
  <2>0. ~done' => k' < 8
    <3>1. k = 7 => done'
      BY <1>1
    <3> QED
      BY <3>1, <1>1, <1>2
  <2>1. who' = "peer" /\ frame' = Eight(size')
    BY <1>2, <1>3
  <2>2. \A j \in 1 .. 8 : j <= k' => size'[j] <= len'[8 - k' + j]
    BY <1>1, <1>2, <1>7
  <2>3. (\A j \in 1 .. 8 : ~Negative(size'[j])) /\ ~done' =>
          \A j \in 1 .. 8 : j <= k' => len'[8 - k' + j] = size'[j]
    BY <1>1, <1>2, <1>8
  <2> QED
    BY <2>0, <2>1, <2>2, <2>3 DEF ReadSoFar
<1>10. NeverCut'
  <2> SUFFICES ASSUME k = 7 PROVE \A j \in 1 .. 8 : size[j] <= len'[j]
    BY <1>1, <1>2 DEF NeverCut
  <2>1. \A j \in 1 .. 8 : j <= k + 1 /\ 8 - (k + 1) + j = j
    OBVIOUS
  <2> QED
    BY <2>1, <1>7
<1>11. ReadsPlainLengths'
  <2> SUFFICES ASSUME k = 7, \A j \in 1 .. 8 : ~Negative(size[j]) PROVE len' = size
    BY <1>1, <1>2 DEF ReadsPlainLengths
  <2>1. \A j \in 1 .. 8 : j <= k + 1 /\ 8 - (k + 1) + j = j
    OBVIOUS
  <2>2. \A j \in 1 .. 8 : len'[j] = size[j]
    BY <2>1, <1>8
  <2> QED
    BY <2>2, <1>2, <1>6 DEF Word
<1>12. TypeOK'
  <2>1. k' \in 0 .. 8 /\ done' \in BOOLEAN
    BY <1>1, <1>2
  <2> QED
    BY <2>1, <1>2, <1>6 DEF HeaderInv, TypeOK, Word
<1> QED
  BY <1>2, <1>9, <1>10, <1>11, <1>12 DEF HeaderInv

LEMMA StepHeader == HeaderInv /\ [Next]_vars => HeaderInv'
<1>1. ASSUME HeaderInv, UNCHANGED vars
      PROVE  HeaderInv'
  <2>1. who' = who /\ size' = size /\ frame' = frame
        /\ k' = k /\ len' = len /\ done' = done
    BY <1>1 DEF vars
  <2>2. TypeOK' /\ ReadSoFar' /\ NeverCut' /\ ReadsPlainLengths'
    BY <1>1, <2>1 DEF HeaderInv, TypeOK, ReadSoFar, NeverCut, ReadsPlainLengths
  <2>3. FrameMade'
    BY <1>1, <2>1 DEF HeaderInv, FrameMade
  <2> QED
    BY <2>2, <2>3 DEF HeaderInv
<1> QED
  BY <1>1, MakingHeader, ReadOneHeader, ReadTwoHeader, ReadNextHeader DEF Next

(* What send writes, by the definition of the forms. *)
LEMMA SentForm == HeaderInv => SentAsDrawn
<1> SUFFICES ASSUME HeaderInv, who = "server" PROVE SentAsDrawn
  BY DEF SentAsDrawn
<1>1. size \in Word /\ frame = Written(size)
  BY DEF HeaderInv, TypeOK, FrameMade, Word
<1>2. CASE FitsOne(size)
  <2>1. frame = One(size) /\ frame[1] < 126 /\ Len(frame) = 1
    BY <1>1, <1>2, ShortForms DEF Written, FitsOne
  <2> QED
    BY <2>1, <1>1, <1>2, DrawnBack DEF SentAsDrawn
<1>3. CASE ~FitsOne(size) /\ FitsTwo(size)
  <2>1. frame = Two(size) /\ frame[1] = 126 /\ Len(frame) = 3
    BY <1>1, <1>3, ShortForms DEF Written
  <2>2. Drawn(frame) = size
    BY <2>1, <1>1, <1>3, DrawnBack
  <2> QED
    BY <2>1, <2>2 DEF SentAsDrawn
<1>4. CASE ~FitsOne(size) /\ ~FitsTwo(size)
  <2>1. frame = Eight(size) /\ frame[1] = 127 /\ Len(frame) = 9
    BY <1>1, <1>4, EightBytes DEF Written
  <2>2. Drawn(frame) = size
    BY <2>1, <1>1, DrawnBack
  <2> QED
    BY <2>1, <2>2 DEF SentAsDrawn
<1> QED
  BY <1>2, <1>3, <1>4

-----------------------------------------------------------------------------
(* What websocket_client::send writes is read back from the drawing.      *)
THEOREM SentRight == Spec => []SentAsDrawn
BY InitHeader, StepHeader, SentForm, PTL DEF Spec

(* The decoder never reads a byte of a length as less than it is.         *)
THEOREM ReadRight == Spec => []NeverCut
<1>1. HeaderInv => NeverCut
  BY DEF HeaderInv
<1> QED
  BY InitHeader, StepHeader, <1>1, PTL DEF Spec

(* The decoder reads lengths of bytes below 128 right.                    *)
THEOREM PlainRight == Spec => []ReadsPlainLengths
<1>1. HeaderInv => ReadsPlainLengths
  BY DEF HeaderInv
<1> QED
  BY InitHeader, StepHeader, <1>1, PTL DEF Spec

(* payload_len is always eight bytes, and the loop ends after eight.      *)
THEOREM HeaderTypeCorrect == Spec => []TypeOK
<1>1. HeaderInv => TypeOK
  BY DEF HeaderInv
<1> QED
  BY InitHeader, StepHeader, <1>1, PTL DEF Spec
=============================================================================
