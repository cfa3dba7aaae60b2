---------------------------- MODULE MCTreeWorker ----------------------------
EXTENDS CircleTreeInv, TLC

CONSTANTS i1, i2, i3

Items1 == {i1}
Items2 == {i1, i2}
Items3 == {i1, i2, i3}
Root == {0}
AllRanks == 0 .. N - 1
Symmetric == Permutations({i1, i2, i3})
=============================================================================
