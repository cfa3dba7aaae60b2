---------------------------- MODULE MCCheckpoint ----------------------------
EXTENDS CircleCheckpoint

CONSTANT x

Chars == {x, Newline}

(* Every string that CIRCLE_internal_queue_push accepts.                   *)
AllStrings == BoundedSeq(Chars, MAX_STRING_LEN - 1)
=============================================================================
