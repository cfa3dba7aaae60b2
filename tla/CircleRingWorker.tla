-------------------------- MODULE CircleRingWorker --------------------------
(***************************************************************************)
(* CIRCLE_worker with ring termination detection, the default: the same    *)
(* loops as with the tree, a token instead of the allreduce, and a cleanup *)
(* loop that also waits for the last token it sent.  Reductions of user    *)
(* data are off (reduce_period 0, the default).                            *)
(***************************************************************************)
EXTENDS CircleWorker, CircleTermRing

vars == <<workerVars, ringVars>>

Init == WorkerInit /\ RingInit

WorkReq(r) == Serve(r) /\ Recolour(r, replies' \ replies)

WorkReceipt(r) == CountReceipts(r) /\ UNCHANGED ringVars

AbortCheck(r) == Flood(r) /\ UNCHANGED ringVars

AbortReplies(r) == FloodEnds(r) /\ UNCHANGED ringVars

RequestWork(r) == Ask(r) /\ UNCHANGED ringVars

ProcessItem(r) == Work(r) /\ UNCHANGED ringVars

(* CIRCLE_check_for_term, and the cleanup loop's CIRCLE_token_check        *)
TermCheck(r) ==
    /\ ~AbortDue(r)
    /\ TokenPass(r) \/ TokenRecv(r)
    /\ UNCHANGED <<abortVars, barrierVars>>

(* The work loop starts another iteration, having neither an item to       *)
(* process nor anything to do in the handlers it has not called yet.       *)
LoopAgain(r) ==
    /\ phase[r] = "loop"
    /\ pc[r] > 1
    /\ NoWork(r)
    /\ ~AbortDue(r)
    /\ ~TokenDue(r)
    /\ GoTo(r, "loop", 1)
    /\ UNCHANGED <<ABORT_FLAG, abortVars, ringVars, barrierVars>>

BarrierStart(r) == ~token_send_req[r] /\ EnterBarrier(r) /\ UNCHANGED ringVars

BarrierTest(r) == TestBarrier(r) /\ UNCHANGED ringVars

(* The end of a cleanup iteration: test the last token sent, start over.   *)
CleanupIteration(r) ==
    \/ TokenTest(r) /\ UNCHANGED <<abortVars, barrierVars>>
    \/ CleanupAgain(r) /\ UNCHANGED <<abortVars, ringVars, barrierVars>>

AbortReduce(r) == Vote(r) /\ UNCHANGED ringVars

(* Every rank has returned from CIRCLE_worker.                             *)
Done ==
    /\ \A r \in Rank : phase[r] = "exit"
    /\ UNCHANGED vars

Step(r) ==
    \/ WorkReq(r) \/ WorkReceipt(r) \/ AbortCheck(r) \/ AbortReplies(r)
    \/ RequestWork(r) \/ ProcessItem(r) \/ TermCheck(r) \/ LoopAgain(r)
    \/ BarrierStart(r) \/ BarrierTest(r) \/ CleanupIteration(r) \/ AbortReduce(r)

Next == (\E r \in Rank : Step(r)) \/ Done

Spec == Init /\ [][Next]_vars

(* As in CircleSession: a handler that again and again has something to    *)
(* do eventually does it.                                                  *)
Fairness ==
    \A r \in Rank :
        /\ WF_vars(Step(r))
        /\ SF_vars(WorkReq(r))
        /\ SF_vars(RequestWork(r))
        /\ SF_vars(TermCheck(r))
        /\ SF_vars(\/ WorkReceipt(r) \/ AbortCheck(r) \/ AbortReplies(r)
                   \/ BarrierStart(r) \/ BarrierTest(r) \/ CleanupIteration(r))

FairSpec == Spec /\ Fairness

-----------------------------------------------------------------------------
(* Correctness.                                                            *)

(* Every variable of every component has the type its declaration in the   *)
(* state structure gives it, message sets included.                        *)
TypeOK ==
    /\ WorkerTypes
    /\ token_is_local \in [Rank -> BOOLEAN]
    /\ token_proc \in [Rank -> Colour]
    /\ token_buf \in [Rank -> Colour]
    /\ token_send_req \in [Rank -> BOOLEAN]
    /\ tokens \in SUBSET [src : Rank, colour : Colour]
    /\ overlap \in BOOLEAN

(* There is one token: held by one rank or in flight, never both, and none *)
(* is on its way to a rank that has left the work loop.  So the MPI_Wait   *)
(* in CIRCLE_token_recv never blocks and CIRCLE_token_recv never finds a   *)
(* token it already has (its "ERROR" branch).                              *)
OneToken ==
    /\ Cardinality({r \in Rank : token_is_local[r]}) + Cardinality(tokens) = 1
    /\ \A t \in tokens : phase[token_dest(t.src)] = "loop"

(* The ring announces termination too early only after a rank has passed   *)
(* the token on while a work transfer it had sent was still in flight;     *)
(* otherwise no rank has work left and none is in flight.                  *)
RingSafeUnlessOverlap ==
    (\E r \in Rank : phase[r] # "loop") /\ ~overlap =>
        \A q \in Rank : NoWork(q) /\ Transfer(q) = {}

(* Without an abort, every item that was created has been processed when   *)
(* CIRCLE_worker has returned everywhere.                                  *)
AllProcessed ==
    (\A r \in Rank : phase[r] = "exit" /\ ~ABORT_FLAG[r]) => processed = created

(* When all ranks have returned, no message is left except, perhaps,       *)
(* receipts for work: the cleanup loop does not look for them.             *)
OnlyReceiptsLeft ==
    (\A r \in Rank : phase[r] = "exit") =>
        /\ requests = {} /\ replies = {} /\ tokens = {} /\ barriers = {}
        /\ abort_requests = {} /\ abort_replies = {} /\ abort_reduces = {}

(* "We need to be sure that all sent messages have been received before    *)
(* returning control to the user" (worker.c): when all ranks have          *)
(* returned, nothing is left to reach the next call of CIRCLE_begin.       *)
NothingSentIsLeft ==
    OnlyReceiptsLeft /\
        ((\A r \in Rank : phase[r] = "exit") => \A r \in Rank : receipts[r] = 0)

(* Once any rank has called CIRCLE_abort, every rank leaves aborted.       *)
AbortHonoured ==
    (\E r \in Rank : ABORT_FLAG[r]) ~> (\A r \in Rank : phase[r] = "exit" /\ ABORT_FLAG[r])
=============================================================================
