---------------------------- MODULE MCReduceWorker --------------------------
EXTENDS CircleReduceWorker

CONSTANT i1

Items1 == {i1}
Root == {0}
=============================================================================
