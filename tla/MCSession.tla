------------------------------ MODULE MCSession -----------------------------
EXTENDS CircleSession

CONSTANTS i1, i2

Items2 == {i1, i2}
Root == {0}
AllRanks == 0 .. N - 1
=============================================================================
