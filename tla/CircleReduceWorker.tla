------------------------- MODULE CircleReduceWorker -------------------------
(***************************************************************************)
(* The tree worker with reductions of user data switched on: the handlers  *)
(* of CircleReduce are laid over the steps of CircleTreeWorker, whose      *)
(* state they do not change.  The constant Rendezvous decides what the     *)
(* blocking MPI_Send does: the MPI library may buffer a message, or let    *)
(* the sender wait until it is received.                                   *)
(***************************************************************************)
EXTENDS CircleTreeWorker, CircleReduce

CONSTANTS
    ReduceEnabled,  \* reduce_period > 0
    Rendezvous      \* TRUE: MPI_Send returns when its message is received

ASSUME ReduceAssumption == ReduceEnabled \in BOOLEAN
ASSUME RendezvousAssumption == Rendezvous \in BOOLEAN

allVars == <<vars, reduceVars>>

ReduceWorkerInit == Init /\ ReduceInit

(* Rank r waits in an MPI_Send of a termination, barrier, abort reduction  *)
(* or reduction message.  (Abort replies meet receives posted earlier.)    *)
Blocked(r) ==
    /\ Rendezvous
    /\ \/ \E m \in terms \cup abort_reduces : m.src = r
       \/ \E m \in barriers : m[1] = r
       \/ \E m \in reduces : m.src = r

(* A handler that an iteration calls before CIRCLE_reduce_check, and one   *)
(* that it calls after.                                                    *)
Early(r, handler) ==
    /\ ~reduced[r]
    /\ handler
    /\ UNCHANGED reduceVars

Late(r, handler) ==
    /\ ~ReduceDue(r)
    /\ handler
    /\ reduced' = [reduced EXCEPT ![r] = FALSE]
    /\ UNCHANGED <<reduce_outstanding, reduce_replies, reduce_buf, reduces,
                   objects_processed, synced, rounds, since, delivered, final>>

(* Mutant: the barrier does not wait for the end of a round.               *)
BarrierAfterRound_eager(r) == BarrierStart(r)

(* The cleanup barrier also waits for the end of a round.                  *)
BarrierAfterRound(r) == BarrierStart(r) /\ ~reduce_outstanding[r]

AbortHandlers(r) == AbortCheck(r) \/ AbortReplies(r)

EarlyStep(r) ==
    \/ Early(r, WorkReq(r)) \/ Early(r, WorkReceipt(r))
    \/ Early(r, BarrierAfterRound(r)) \/ Early(r, BarrierTest(r))
    \/ phase[r] = "loop" /\ Early(r, AbortHandlers(r))

(* The end of an iteration in which CIRCLE_reduce_check was the only       *)
(* handler with something to do.                                           *)
ReducedOnly(r) ==
    /\ reduced[r]
    /\ pc[r] = 1
    /\ phase[r] = "loop" => NoWork(r) /\ ~SendDue(r)
    /\ reduced' = [reduced EXCEPT ![r] = FALSE]
    /\ UNCHANGED <<vars, reduce_outstanding, reduce_replies, reduce_buf, reduces,
                   objects_processed, synced, rounds, since, delivered, final>>

LateStep(r) ==
    \/ Late(r, RequestWork(r)) \/ Late(r, TermCheck(r))
    \/ Late(r, LoopAgain(r)) \/ Late(r, CleanupIteration(r)) \/ ReducedOnly(r)
    \/ phase[r] = "cleanup" /\ Late(r, AbortHandlers(r))

ProcessAndCount(r) ==
    /\ ~ReduceDue(r)
    /\ ProcessItem(r)
    /\ objects_processed' = [objects_processed EXCEPT ![r] = @ + 1]
    /\ reduced' = [reduced EXCEPT ![r] = FALSE]
    /\ UNCHANGED <<reduce_outstanding, reduce_replies, reduce_buf, reduces,
                   synced, rounds, since, delivered, final>>

(* CIRCLE_reduce_check.  The iteration goes on behind it.                  *)
ReduceCheck(r) ==
    /\ ReduceEnabled
    /\ ~AbortDue(r)
    /\ StartReduce(r) \/ RefuseReduce(r) \/ GatherReduce(r)
    /\ reduced' = [reduced EXCEPT ![r] = TRUE]
    /\ UNCHANGED <<vars, objects_processed, synced>>

(* CIRCLE_reduce_sync *)
ReduceSync(r) ==
    /\ ReduceEnabled
    /\ CIRCLE_reduce_sync(r)
    /\ UNCHANGED <<vars, objects_processed, reduced>>

AbortReduceLast(r) ==
    /\ ReduceEnabled => synced[r]
    /\ AbortReduce(r)
    /\ UNCHANGED reduceVars

ReduceWorkerStep(r) ==
    /\ ~Blocked(r)
    /\ \/ EarlyStep(r) \/ LateStep(r) \/ ProcessAndCount(r)
       \/ ReduceCheck(r) \/ ReduceSync(r) \/ AbortReduceLast(r)

AllDone == Done /\ UNCHANGED reduceVars

ReduceWorkerNext == (\E r \in Rank : ReduceWorkerStep(r)) \/ AllDone

ReduceWorkerSpec == ReduceWorkerInit /\ [][ReduceWorkerNext]_allVars

-----------------------------------------------------------------------------
(* Correctness.                                                            *)

(* On the edge between r and its child c a background round is in one      *)
(* place: announced, being worked on below, or answered.                   *)
RoundOnEdge(r, c) ==
    Cardinality({m \in reduces : m.src = r /\ m.dst = c})
        + Cardinality({m \in reduces : m.src = c /\ m.dst = r /\ m.kind = "round"})
        + (IF reduce_outstanding[c] THEN 1 ELSE 0)

(* Rounds never overlap: a rank that takes part in a round waits for       *)
(* exactly the children that have not answered yet, each of which has the  *)
(* round once; a rank that takes part in none has nothing below it.  So a  *)
(* rank never takes an answer of an earlier round for one of this round,   *)
(* and rounds that run into the cleanup loop are answered all the same.    *)
RoundsNest ==
    \A r \in Rank :
        LET busy == {c \in child_ranks(r) : RoundOnEdge(r, c) # 0} IN
        /\ \A c \in busy : RoundOnEdge(r, c) = 1
        /\ Cardinality(busy) = IF reduce_outstanding[r] THEN children(r) - reduce_replies[r] ELSE 0

(* Every rank's data is in each result that reaches the user exactly once, *)
(* and the count of processed items in it is one the system went through   *)
(* between the start of the round and its end.                             *)
ResultExact ==
    [][delivered' # delivered =>
          /\ \A q \in Rank : delivered'.data[q] = 1
          /\ since <= delivered'.total
          /\ delivered'.total <= Cardinality(processed)
          /\ delivered.total <= delivered'.total]_allVars

(* The final result counts every item that was processed, once, and has    *)
(* every rank's data once.                                                 *)
FinalExact ==
    synced[0] =>
        /\ final.total = Cardinality(processed)
        /\ \A q \in Rank : final.data[q] = 1

(* The final reduction meets no message of a background round: once a rank *)
(* has passed the barrier, none is in flight and no rank waits for one;    *)
(* and nothing of the final reduction is left when all have returned.      *)
NoRoundPastBarrier ==
    /\ (\E r \in Rank : Past(r)) =>
          /\ \A m \in reduces : m.kind = "sync"
          /\ \A r \in Rank : ~reduce_outstanding[r]
    /\ (\A r \in Rank : phase[r] = "exit") => reduces = {}

(* The handlers of CircleTreeWorker are as fair as in CircleSession, and   *)
(* so is CIRCLE_reduce_check, which every iteration calls.                 *)
ReduceWorkerFairness ==
    \A r \in Rank :
        /\ WF_allVars(ReduceWorkerStep(r))
        /\ SF_allVars(~Blocked(r) /\ Early(r, WorkReq(r)))
        /\ SF_allVars(~Blocked(r) /\ Late(r, RequestWork(r)))
        /\ SF_allVars(~Blocked(r) /\ Late(r, TermCheck(r)))
        /\ SF_allVars(~Blocked(r) /\ ReduceCheck(r))
        /\ SF_allVars(~Blocked(r) /\
              (\/ Early(r, WorkReceipt(r)) \/ Early(r, BarrierAfterRound(r))
               \/ Early(r, BarrierTest(r))
               \/ phase[r] = "loop" /\ Early(r, AbortHandlers(r))
               \/ phase[r] = "cleanup" /\ Late(r, AbortHandlers(r))))

FairReduceSpec == ReduceWorkerSpec /\ ReduceWorkerFairness
=============================================================================
