---------------------------- MODULE CircleBarrier ---------------------------
(***************************************************************************)
(* The non-blocking barrier on the tree that ends the cleanup loop.        *)
(***************************************************************************)
EXTENDS CircleWork

VARIABLES
    barrier_started,  \* the rank has nothing outstanding any more
    barrier_up,       \* the rank has told its parent
    barrier_replies,  \* messages received from children
    barriers          \* CIRCLE_TAG_BARRIER messages in flight

barrierVars == <<barrier_started, barrier_up, barrier_replies, barriers>>

BarrierInit ==
    /\ barrier_started = [r \in Rank |-> FALSE]
    /\ barrier_up = [r \in Rank |-> FALSE]
    /\ barrier_replies = [r \in Rank |-> 0]
    /\ barriers = {}

(* Mutant: the barrier starts with a work request outstanding.             *)
CIRCLE_barrier_start_early(r) ==
    /\ InCleanup(r, "start")
    /\ ~barrier_started[r]
    /\ barrier_started' = [barrier_started EXCEPT ![r] = TRUE]
    /\ GoTo(r, "cleanup", After(r, "start"))
    /\ UNCHANGED <<ABORT_FLAG, barrier_up, barrier_replies, barriers>>

(* CIRCLE_barrier_start, called from the top of the cleanup loop while     *)
(* nothing is outstanding; the composing module adds what that means.      *)
CIRCLE_barrier_start(r) ==
    /\ InCleanup(r, "start")
    /\ ~barrier_started[r]
    /\ work_requested[r] = None
    /\ barrier_started' = [barrier_started EXCEPT ![r] = TRUE]
    /\ GoTo(r, "cleanup", After(r, "start"))
    /\ UNCHANGED <<ABORT_FLAG, barrier_up, barrier_replies, barriers>>

(* The barrier is complete for r, which leaves the cleanup loop.           *)
BarrierComplete(r, rest) ==
    /\ barriers' = rest \cup {<<r, c>> : c \in child_ranks(r)}
    /\ barrier_started' = [barrier_started EXCEPT ![r] = FALSE]
    /\ barrier_up' = [barrier_up EXCEPT ![r] = FALSE]
    /\ barrier_replies' = [barrier_replies EXCEPT ![r] = 0]
    /\ GoTo(r, "reduce", 1)

(* CIRCLE_barrier_test up to the message to the parent.  At most one       *)
(* message is taken, from any source, while replies are missing.           *)
BarrierSources(r) == {s \in Rank : <<s, r>> \in barriers}

BarrierRest(r, from) == barriers \ {<<s, r>> : s \in from}

BarrierCount(r, from) == barrier_replies[r] + Cardinality(from)

BarrierReady(r, from) == ~barrier_up[r] /\ BarrierCount(r, from) = children(r)

BarrierWait(r, from) ==
    /\ barriers' = BarrierRest(r, from)
    /\ barrier_replies' = [barrier_replies EXCEPT ![r] = BarrierCount(r, from)]
    /\ GoTo(r, "cleanup", After(r, "barrier"))
    /\ UNCHANGED <<barrier_started, barrier_up>>

BarrierSendUp(r, from) ==
    /\ barriers' = BarrierRest(r, from) \cup {<<r, parent_rank(r)>>}
    /\ barrier_replies' = [barrier_replies EXCEPT ![r] = BarrierCount(r, from)]
    /\ barrier_up' = [barrier_up EXCEPT ![r] = TRUE]
    /\ GoTo(r, "cleanup", After(r, "barrier"))
    /\ UNCHANGED barrier_started

BarrierGather(r) ==
    /\ InCleanup(r, "barrier")
    /\ barrier_started[r]
    /\ \E from \in SUBSET BarrierSources(r) :
          /\ Cardinality(from) <= 1
          /\ BarrierCount(r, from) <= children(r)
          /\ \/ ~BarrierReady(r, from) /\ from # {} /\ BarrierWait(r, from)
             \/ BarrierReady(r, from) /\ r # 0 /\ BarrierSendUp(r, from)
             \/ BarrierReady(r, from) /\ r = 0 /\ BarrierComplete(r, BarrierRest(r, from))
    /\ UNCHANGED ABORT_FLAG

(* CIRCLE_barrier_test from the probe for the parent's message.            *)
BarrierResult(r) ==
    /\ InCleanup(r, "result")
    /\ barrier_up[r]
    /\ <<parent_rank(r), r>> \in barriers
    /\ BarrierComplete(r, barriers \ {<<parent_rank(r), r>>})
    /\ UNCHANGED ABORT_FLAG

(* The cleanup loop starts another iteration.                              *)
CleanupAgain(r) ==
    /\ phase[r] = "cleanup"
    /\ pc[r] > 1
    /\ GoTo(r, "cleanup", 1)
    /\ UNCHANGED ABORT_FLAG
=============================================================================
