-------------------------- MODULE CircleTreeWorker --------------------------
(***************************************************************************)
(* CIRCLE_worker with tree termination detection (CIRCLE_TERM_TREE): work  *)
(* distribution, abort, termination rounds, cleanup and final abort        *)
(* reduction, all ranks interleaved.  Reductions of user data are off      *)
(* (reduce_period 0, the default).                                         *)
(***************************************************************************)
EXTENDS CircleWorker, CircleTermTree

vars == <<workerVars, termVars>>

Init == WorkerInit /\ TermInit

WorkReq(r) == Serve(r) /\ UNCHANGED termVars

WorkReceipt(r) == CountReceipts(r) /\ ForceRound(r)

AbortCheck(r) == Flood(r) /\ UNCHANGED termVars

AbortReplies(r) == FloodEnds(r) /\ UNCHANGED termVars

RequestWork(r) == Ask(r) /\ UNCHANGED termVars

ProcessItem(r) == Work(r) /\ UNCHANGED termVars

(* CIRCLE_check_for_term_allreduce *)
TermCheck(r) ==
    /\ ~AbortDue(r)
    /\ TermGather(r) \/ TermResult(r)
    /\ UNCHANGED <<abortVars, barrierVars>>

(* The work loop starts another iteration, having neither an item to       *)
(* process nor anything to do in the handlers it has not called yet.       *)
LoopAgain(r) ==
    /\ phase[r] = "loop"
    /\ pc[r] > 1
    /\ NoWork(r)
    /\ ~AbortDue(r)
    /\ ~SendDue(r)
    /\ GoTo(r, "loop", 1)
    /\ UNCHANGED <<ABORT_FLAG, abortVars, termVars, barrierVars>>

BarrierStart(r) == EnterBarrier(r) /\ UNCHANGED termVars

BarrierTest(r) == TestBarrier(r) /\ UNCHANGED termVars

CleanupIteration(r) ==
    /\ CleanupAgain(r)
    /\ UNCHANGED <<abortVars, termVars, barrierVars>>

AbortReduce(r) == Vote(r) /\ UNCHANGED termVars

(* Every rank has returned from CIRCLE_worker.                             *)
Done ==
    /\ \A r \in Rank : phase[r] = "exit"
    /\ UNCHANGED vars

Step(r) ==
    \/ WorkReq(r) \/ WorkReceipt(r) \/ AbortCheck(r) \/ AbortReplies(r)
    \/ RequestWork(r) \/ ProcessItem(r) \/ TermCheck(r) \/ LoopAgain(r)
    \/ BarrierStart(r) \/ BarrierTest(r) \/ CleanupIteration(r) \/ AbortReduce(r)

Next == (\E r \in Rank : Step(r)) \/ Done

Spec == Init /\ [][Next]_vars

-----------------------------------------------------------------------------
(* Correctness.                                                            *)

(* Every variable of every component has the type its declaration in the   *)
(* state structure gives it, message sets included.                        *)
TypeOK ==
    /\ WorkerTypes
    /\ term_flag \in [Rank -> BOOLEAN]
    /\ term_up \in [Rank -> BOOLEAN]
    /\ term_replies \in [Rank -> Nat]
    /\ terms \in SUBSET Flags
    /\ sense \in [Rank -> BOOLEAN]

(* Once any rank has left the work loop, no rank that has not returned has *)
(* an item it should still process, and no work is in flight (worker.c:    *)
(* "all procs have completed all work, or we got an ABORT message").       *)
TerminationSafe ==
    (\E r \in Rank : phase[r] # "loop") =>
        \A q \in Rank :
            /\ phase[q] = "exit" \/ NoWork(q)
            /\ Transfers(q) = {}
            /\ work_outstanding[q] = 0

(* The argument in worker.c that a rank leaving the work loop has "no      *)
(* outstanding work transfer message for this process nor any additional   *)
(* termination allreduce messages to cleanup".                             *)
NothingLeftOver ==
    \A r \in Rank : phase[r] # "loop" =>
        /\ work_outstanding[r] = 0
        /\ receipts[r] = 0
        /\ \A m \in terms : m.dst # r

(* The MPI_ANY_SOURCE probes of the allreduce and of the barrier never     *)
(* pick up the parent's message in place of a child's.                     *)
AnySourceIsChild ==
    \A r \in Rank :
        /\ term_replies[r] < children(r) => \A m \in terms : m.dst = r => m.src \in child_ranks(r)
        /\ barrier_replies[r] < children(r) => \A m \in barriers : m[2] = r => m[1] \in child_ranks(r)

(* When a rank has left the cleanup loop, every rank has reached the       *)
(* barrier with nothing outstanding, and the only messages left are the    *)
(* barrier's own results and the abort reduction that follows.             *)
CleanExit ==
    (\E r \in Rank : Past(r)) =>
        /\ \A q \in Rank : Past(q) \/ (phase[q] = "cleanup" /\ barrier_started[q])
        /\ requests = {} /\ replies = {} /\ terms = {}
        /\ abort_requests = {} /\ abort_replies = {}
        /\ \A q \in Rank : receipts[q] = 0 /\ work_requested[q] = None /\ ~abort_outstanding[q]
        /\ \A m \in barriers : Past(m[1]) /\ ~Past(m[2])

(* When every rank has returned, every item was processed, or the run was  *)
(* aborted and the unprocessed items are all in checkpoint files.          *)
NothingLost ==
    (\A r \in Rank : phase[r] = "exit") =>
        /\ created = processed \cup checkpointed
        /\ checkpointed # {} => \A r \in Rank : ABORT_FLAG[r]

(* Until it returns an aborted rank stays aborted, and the items in its    *)
(* queue go nowhere but into its checkpoint: it neither processes them nor *)
(* gives them away.                                                        *)
AbortSticks ==
    [][\A r \in Rank : ABORT_FLAG[r] /\ phase[r] # "exit" =>
          /\ ABORT_FLAG'[r]
          /\ queue[r] \subseteq queue'[r] \cup checkpointed']_vars

(* CIRCLE_worker returns on every rank, aborted or not.                    *)
AllReturn == <>(\A r \in Rank : phase[r] = "exit")

(* The ranks together behave as one pool of work.                          *)
Pool == INSTANCE WorkPool WITH
    aborted <- \E r \in Rank : ABORT_FLAG[r],
    terminated <- \E r \in Rank : phase[r] # "loop"

(* The detailed specification implements the abstract pool.                *)
ImplementsPool == Pool!PoolSpec
=============================================================================
