----------------------------- MODULE CircleAbort ----------------------------
(***************************************************************************)
(* Abort: CIRCLE_abort sets a flag on the calling rank; the flag floods    *)
(* the tree with abort requests that are acknowledged one by one.  After   *)
(* the cleanup barrier CIRCLE_abort_reduce settles on one value of the     *)
(* flag for all ranks, and each aborted rank checkpoints its queue.        *)
(***************************************************************************)
EXTENDS CircleWork

VARIABLES
    abort_state,        \* the rank has seen its flag and started the flood
    abort_outstanding,  \* its abort requests are not all acknowledged
    abort_requests,     \* CIRCLE_TAG_ABORT_REQUEST messages in flight
    abort_replies,      \* CIRCLE_TAG_ABORT_REPLY messages in flight
    abort_reduces,      \* CIRCLE_TAG_ABORT_REDUCE messages in flight
    checkpointed        \* items written to the circle<rank>.txt files

abortVars == <<abort_state, abort_outstanding, abort_requests, abort_replies,
               abort_reduces, checkpointed>>

AbortInit ==
    /\ abort_state = [r \in Rank |-> FALSE]
    /\ abort_outstanding = [r \in Rank |-> FALSE]
    /\ abort_requests = {}
    /\ abort_replies = {}
    /\ abort_reduces = {}
    /\ checkpointed = {}

(* Rank r will start the flood when it next reaches CIRCLE_abort_check; it *)
(* cannot get to the later handlers of this iteration before that.         *)
AbortDue(r) ==
    /\ InLoop(r, "abort")
    /\ ABORT_FLAG[r]
    /\ ~abort_state[r]

(* CIRCLE_abort_start sends to the neighbours once, and never in cleanup.  *)
abort_start(r) == ~abort_state[r] /\ phase[r] = "loop"

(* CIRCLE_abort_check up to its MPI_Testall: start the flood if the flag   *)
(* is set, and take at most one abort request (from is empty or one rank). *)
CIRCLE_abort_check(r) ==
    /\ InLoop(r, "abort") \/ InCleanup(r, "abort")
    /\ \E from \in SUBSET {s \in Rank : <<s, r>> \in abort_requests} :
          /\ Cardinality(from) <= 1
          /\ from # {} \/ (ABORT_FLAG[r] /\ ~abort_state[r])
          /\ abort_requests' = (abort_requests \ {<<s, r>> : s \in from})
                \cup {<<r, d>> : d \in IF abort_start(r) THEN neighbours(r) ELSE {}}
          /\ abort_replies' = abort_replies \cup {<<r, s>> : s \in from}
    /\ abort_outstanding' = [abort_outstanding EXCEPT
          ![r] = @ \/ (abort_start(r) /\ neighbours(r) # {})]
    /\ abort_state' = [abort_state EXCEPT ![r] = TRUE]
    /\ ABORT_FLAG' = [ABORT_FLAG EXCEPT ![r] = TRUE]
    /\ GoTo(r, phase[r], After(r, "abort"))
    /\ UNCHANGED <<abort_reduces, checkpointed>>

(* The MPI_Testall at the end of CIRCLE_abort_check, when it succeeds.     *)
AbortTest(r) ==
    /\ InLoop(r, "test") \/ InCleanup(r, "test")
    /\ abort_outstanding[r]
    /\ \A d \in neighbours(r) : <<d, r>> \in abort_replies
    /\ abort_replies' = abort_replies \ {<<d, r>> : d \in neighbours(r)}
    /\ abort_outstanding' = [abort_outstanding EXCEPT ![r] = FALSE]
    /\ GoTo(r, phase[r], After(r, "test"))
    /\ UNCHANGED <<ABORT_FLAG, abort_state, abort_requests, abort_reduces, checkpointed>>

-----------------------------------------------------------------------------
(* CIRCLE_abort_reduce and CIRCLE_checkpoint, after the cleanup barrier.   *)

FromChildren(r) == {m \in abort_reduces : m.dst = r /\ m.src \in child_ranks(r)}

(* Mutant: the flag is passed on, but not adopted.                         *)
Finish_keep(r, flag, rest) ==
    /\ abort_reduces' = rest \cup
          {[src |-> r, dst |-> c, flag |-> flag] : c \in child_ranks(r)}
    /\ checkpointed' = IF flag THEN checkpointed \cup queue[r] ELSE checkpointed
    /\ queue' = [queue EXCEPT ![r] = IF flag THEN {} ELSE @]
    /\ phase' = [phase EXCEPT ![r] = "exit"]
    /\ pc' = [pc EXCEPT ![r] = 1]
    /\ UNCHANGED <<created, processed, work_requested, work_outstanding, requests, replies,
                   receipts, abort_outstanding, abort_requests, abort_replies, ABORT_FLAG,
                   abort_state>>

(* Mutant: no checkpoint is written.                                       *)
Finish_nodump(r, flag, rest) ==
    /\ abort_reduces' = rest \cup
          {[src |-> r, dst |-> c, flag |-> flag] : c \in child_ranks(r)}
    /\ ABORT_FLAG' = [ABORT_FLAG EXCEPT ![r] = flag]
    /\ abort_state' = [abort_state EXCEPT ![r] = flag]
    /\ phase' = [phase EXCEPT ![r] = "exit"]
    /\ pc' = [pc EXCEPT ![r] = 1]
    /\ UNCHANGED <<created, processed, work_requested, work_outstanding, requests, replies,
                   receipts, abort_outstanding, abort_requests, abort_replies, queue,
                   checkpointed>>

(* Rank r learns the final flag: it forwards it, adopts it, and dumps its  *)
(* queue if the flag is set (CIRCLE_internal_queue_write drains the queue). *)
Finish(r, flag, rest) ==
    /\ abort_reduces' = rest \cup
          {[src |-> r, dst |-> c, flag |-> flag] : c \in child_ranks(r)}
    /\ ABORT_FLAG' = [ABORT_FLAG EXCEPT ![r] = flag]
    /\ abort_state' = [abort_state EXCEPT ![r] = flag]
    /\ checkpointed' = IF flag THEN checkpointed \cup queue[r] ELSE checkpointed
    /\ queue' = [queue EXCEPT ![r] = IF flag THEN {} ELSE @]
    /\ phase' = [phase EXCEPT ![r] = "exit"]
    /\ pc' = [pc EXCEPT ![r] = 1]
    /\ UNCHANGED <<created, processed, work_requested, work_outstanding, requests,
                   replies, receipts, abort_outstanding, abort_requests, abort_replies>>

(* The blocking receives from all the children, and what follows them: the *)
(* send to the parent, or at the root the result.                          *)
AbortReduceUp(r) ==
    /\ phase[r] = "reduce"
    /\ \A c \in child_ranks(r) : \E m \in FromChildren(r) : m.src = c
    /\ LET flag == ABORT_FLAG[r] \/ \E m \in FromChildren(r) : m.flag
           rest == abort_reduces \ FromChildren(r)
       IN  \/ /\ r = 0
              /\ Finish(r, flag, rest)
           \/ /\ r # 0
              /\ abort_reduces' = rest \cup
                    {[src |-> r, dst |-> parent_rank(r), flag |-> flag]}
              /\ GoTo(r, "await", 1)
              /\ UNCHANGED <<ABORT_FLAG, abort_state, abort_outstanding,
                             abort_requests, abort_replies, checkpointed>>

(* The blocking receive of the result from the parent.                     *)
AbortReduceDown(r) ==
    /\ phase[r] = "await"
    /\ \E m \in abort_reduces :
          /\ m.src = parent_rank(r)
          /\ m.dst = r
          /\ Finish(r, m.flag, abort_reduces \ {m})
=============================================================================
