------------------------------- MODULE MCSends ------------------------------
EXTENDS CircleSends, TLC

CONSTANTS i1, i2, i3

Items3 == {i1, i2, i3}
Root == {0}
Symmetric == Permutations({i1, i2, i3})
=============================================================================
