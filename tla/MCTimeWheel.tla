----------------------------- MODULE MCTimeWheel -----------------------------
(* Instances of TimeWheel for TLC. *)
EXTENDS TimeWheel, TLC

Widths == [k \in 0 .. Levels |-> IF k = 0 THEN 1 ELSE NearSlots * LevelSlots ^ (k - 1)]

Symmetry == Permutations(Ids)
=============================================================================
