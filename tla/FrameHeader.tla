----------------------------- MODULE FrameHeader -----------------------------
(***************************************************************************)
(* The length field of a frame: how websocket_client::send writes it, how  *)
(* decode_websocket_data_frame reads it. A size, uint64_t in the code, is  *)
(* its 8 bytes, the first the most significant. The first byte of a header *)
(* (fin and opcode) and the mask bit are left out; headers are not cut in  *)
(* two.                                                                    *)
(***************************************************************************)
EXTENDS Naturals, Sequences

CONSTANTS
  HighBytes,  \* values of the upper five bytes of a size
  LowBytes    \* values of the lower three

ASSUME HeaderAssumption ==
  /\ HighBytes \subseteq 0 .. 255 /\ LowBytes \subseteq 0 .. 255

VARIABLES
  who,        \* "none", then who has made the frame: "server" or "peer"
  size,       \* the size of its payload
  frame,      \* its second byte and what follows, without the payload
  k,          \* bytes of an eight byte length that have been read
  len,        \* payload_len
  done        \* the length has been read

vars == <<who, size, frame, k, len, done>>

Sizes == {[j \in 1 .. 8 |-> IF j <= 5 THEN h[j] ELSE l[j]] :
            h \in [1 .. 5 -> HighBytes], l \in [6 .. 8 -> LowBytes]}

Zero == [j \in 1 .. 8 |-> 0]

Negative(b) == b >= 128     \* as a char

Init ==
  /\ who = "none" /\ frame = <<>> /\ k = 0 /\ len = Zero /\ done = FALSE
  /\ size \in Sizes

-----------------------------------------------------------------------------
(* The sizes that each form can hold. *)
FitsOne(z) == z[8] < 126 /\ \A j \in 1 .. 7 : z[j] = 0
FitsTwo(z) == \A j \in 1 .. 6 : z[j] = 0

One(z) == <<z[8]>>
Two(z) == <<126, z[7], z[8]>>
Eight(z) == <<127>> \o z

(* Mutant: the short length without htobe16.                              *)
WrittenInHostOrder(z) ==
  IF FitsOne(z) THEN One(z) ELSE IF FitsTwo(z) THEN <<126, z[8], z[7]>> ELSE Eight(z)

(* websocket_client::send *)
Written(z) == IF FitsOne(z) THEN One(z) ELSE IF FitsTwo(z) THEN Two(z) ELSE Eight(z)

ServerSend ==
  /\ who = "none"
  /\ who' = "server"
  /\ frame' = Written(size)
  /\ UNCHANGED <<size, k, len, done>>

(* A peer may use any form that holds the size. *)
PeerSend ==
  /\ who = "none"
  /\ who' = "peer"
  /\ \/ FitsOne(size) /\ frame' = One(size)
     \/ FitsTwo(size) /\ frame' = Two(size)
     \/ frame' = Eight(size)
  /\ UNCHANGED <<size, k, len, done>>

Reading == who = "peer" /\ ~done /\ UNCHANGED <<who, size, frame>>

ReadOne ==
  /\ Reading
  /\ frame[1] < 126
  /\ len' = [Zero EXCEPT ![8] = frame[1]]
  /\ done' = TRUE
  /\ k' = k

(* Mutants: the bytes in host order; a sign that clears what was read.    *)
JoinedInHostOrder(a, b) ==
  [j \in 1 .. 8 |-> IF j = 8 THEN a ELSE IF j = 7 THEN b ELSE 0]

ShiftedCleared(z, b) ==
  [j \in 1 .. 8 |-> IF j = 8 THEN b ELSE IF Negative(b) THEN 0 ELSE z[j + 1]]

(* a << 8 | b as int, widened to uint64_t: a negative char sets all bits  *)
(* above its own.                                                         *)
Joined(a, b) ==
  [j \in 1 .. 8 |->
     IF j = 8 THEN b
     ELSE IF Negative(b) THEN 255
     ELSE IF j = 7 THEN a
     ELSE IF Negative(a) THEN 255 ELSE 0]

ReadTwo ==
  /\ Reading
  /\ frame[1] = 126
  /\ len' = Joined(frame[2], frame[3])
  /\ done' = TRUE
  /\ k' = k

(* payload_len << 8 | b *)
Shifted(z, b) ==
  [j \in 1 .. 8 |-> IF j = 8 THEN b ELSE IF Negative(b) THEN 255 ELSE z[j + 1]]

ReadNext ==
  /\ Reading
  /\ frame[1] = 127
  /\ k < 8
  /\ len' = Shifted(len, frame[k + 2])
  /\ k' = k + 1
  /\ done' = (k = 7)

Next == ServerSend \/ PeerSend \/ ReadOne \/ ReadTwo \/ ReadNext

Spec == Init /\ [][Next]_vars

-----------------------------------------------------------------------------
(* The length field as websocket_server.h draws it, with leading zeros.   *)
Drawn(f) ==
  IF f[1] < 126 THEN [Zero EXCEPT ![8] = f[1]]
  ELSE IF f[1] = 126 THEN [Zero EXCEPT ![7] = f[2], ![8] = f[3]]
  ELSE [j \in 1 .. 8 |-> f[j + 1]]

TypeOK ==
  /\ who \in {"none", "server", "peer"}
  /\ size \in [1 .. 8 -> 0 .. 255]
  /\ frame \in Seq(0 .. 255)
  /\ k \in 0 .. 8
  /\ len \in [1 .. 8 -> 0 .. 255]
  /\ done \in BOOLEAN

(* A reader of the drawing finds the size of the message in what          *)
(* websocket_client::send writes, at every border between the forms, and  *)
(* the frame has no more bytes than that form.                            *)
SentAsDrawn ==
  who = "server" =>
    /\ Drawn(frame) = size
    /\ Len(frame) = IF frame[1] < 126 THEN 1 ELSE IF frame[1] = 126 THEN 3 ELSE 9

(* Lengths whose bytes are all below 128 are read as they are drawn,      *)
(* in each form that holds them.                                          *)
ReadsPlainLengths ==
  done /\ (\A j \in 1 .. 8 : ~Negative(size[j])) => len = size

(* No byte of the length that is read is below the one that was written:  *)
(* payload_len itself is never too small.  (The sum that line 319 compares *)
(* with the size of the buffer may still wrap.)                           *)
NeverCut == done => \A j \in 1 .. 8 : size[j] <= len[j]

(* Expected to fail: the extended length is the 16 or 64 bits of its      *)
(* field (websocket_server.h:16-18).                                      *)
LengthAsDrawn == done => len = Drawn(frame)
=============================================================================
