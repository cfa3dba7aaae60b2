------------------------------ MODULE MCQueue -------------------------------
EXTENDS CircleQueue, TLC

CONSTANTS r1, r2, s1, s2, s3

TwoRanks == {r1, r2}
Symmetric == Permutations(TwoRanks)
ThreeStrings == {s1, s2, s3}

(* The empty string, a string of the greatest length and one too long.     *)
Sizes == [s \in ThreeStrings |-> IF s = s1 THEN 1 ELSE IF s = s2 THEN MAX_STRING_LEN ELSE MAX_STRING_LEN + 1]
=============================================================================
