-------------------------------- MODULE Utf8 --------------------------------
(***************************************************************************)
(* Websocket_server::validate_utf8, one byte a step, against what its      *)
(* comments draw: characters of the forms 0xxxxxxx, 110xxxxx, 1110xxxx and *)
(* 11110xxx followed by 0 to 3 bytes 10xxxxxx, and nothing else.           *)
(***************************************************************************)
EXTENDS Naturals, Sequences

CONSTANTS
  Bytes,      \* the bytes that strings are made of in this instance
  MaxLen      \* bound: bytes in a string

ASSUME Utf8Assumption == Bytes \subseteq 0 .. 255 /\ MaxLen \in Nat

VARIABLES
  s,          \* the string
  i,          \* bytes of it that have been looked at
  remaining,
  result      \* "scanning", or what the function has returned

vars == <<s, i, remaining, result>>

Strings == UNION {[1 .. n -> Bytes] : n \in 0 .. MaxLen}

Init ==
  /\ s \in Strings
  /\ i = 0
  /\ remaining = 0
  /\ result = "scanning"

(* Mutants: five byte forms; a tail byte where a character may begin.     *)
AnnouncedFive(c) ==
  {n \in {0} : c \div 128 = 0} \cup {n \in {1} : c \div 32 = 6}
    \cup {n \in {2} : c \div 16 = 14} \cup {n \in {3} : c \div 8 = 30}
    \cup {n \in {4} : c \div 4 = 62}

AnnouncedTail(c) ==
  {n \in {0} : c \div 128 = 0 \/ c \div 64 = 2} \cup {n \in {1} : c \div 32 = 6}
    \cup {n \in {2} : c \div 16 = 14} \cup {n \in {3} : c \div 8 = 30}

(* The number of bytes that a first byte announces, none if it is not one.*)
Announced(c) ==
  {n \in {0} : c \div 128 = 0} \cup {n \in {1} : c \div 32 = 6}
    \cup {n \in {2} : c \div 16 = 14} \cup {n \in {3} : c \div 8 = 30}

Looking ==
  /\ result = "scanning"
  /\ i < Len(s)
  /\ i' = i + 1
  /\ s' = s

(* The first byte of a character. *)
Begin ==
  /\ Looking
  /\ remaining = 0
  /\ remaining' \in Announced(s[i + 1])
  /\ result' = result

(* A byte that continues one. *)
Continue ==
  /\ Looking
  /\ remaining > 0
  /\ s[i + 1] \div 64 = 2
  /\ remaining' = remaining - 1
  /\ result' = result

Reject ==
  /\ Looking
  /\ IF remaining = 0 THEN Announced(s[i + 1]) = {} ELSE s[i + 1] \div 64 # 2
  /\ remaining' = remaining
  /\ result' = "false"

Return ==
  /\ result = "scanning"
  /\ i = Len(s)
  /\ result' = IF remaining = 0 THEN "true" ELSE "false"
  /\ UNCHANGED <<s, i, remaining>>

Next == Begin \/ Continue \/ Reject \/ Return

Spec == Init /\ [][Next]_vars

-----------------------------------------------------------------------------
TypeOK ==
  /\ s \in Seq(Bytes)
  /\ i \in 0 .. Len(s)
  /\ remaining \in 0 .. 3
  /\ result \in {"scanning", "true", "false"}

(* The characters: how many bytes follow the first, by ranges of bytes.   *)
Tail10(b) == b \in 128 .. 191
First11(b) == b \in 0 .. 127 \cup 192 .. 247
Follow(b) == IF b < 192 THEN 0 ELSE IF b < 224 THEN 1 ELSE IF b < 240 THEN 2 ELSE 3

(* A string of whole characters: each byte that is not a tail begins one  *)
(* that fits, the bytes it announces are tails, and each tail is one of   *)
(* those.                                                                 *)
WellFormed(str) ==
  /\ \A a \in 1 .. Len(str) :
       ~Tail10(str[a]) =>
         /\ First11(str[a])
         /\ a + Follow(str[a]) <= Len(str)
         /\ \A j \in 1 .. Len(str) : a < j /\ j <= a + Follow(str[a]) => Tail10(str[j])
  /\ \A j \in 1 .. Len(str) :
       Tail10(str[j]) =>
         \E a \in 1 .. Len(str) :
           a < j /\ ~Tail10(str[a]) /\ j <= a + Follow(str[a])

(* The single pass with one counter decides exactly the strings of whole  *)
(* characters: a character may not be cut by the end of the string, by    *)
(* another first byte or by a byte of no form (validate_utf8).            *)
Decides == result # "scanning" => (result = "true" <=> WellFormed(s))
=============================================================================
