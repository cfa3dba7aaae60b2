---------------------------- MODULE CircleSession ---------------------------
(***************************************************************************)
(* An application that calls CIRCLE_begin more than once: each rank on its *)
(* own, as soon as its previous call has returned, on the communicator of  *)
(* the calls before; or, after an abort, in a new job that loads the       *)
(* checkpoint files with CIRCLE_read_restarts.  Each call runs the steps   *)
(* of CircleTreeWorker.                                                    *)
(***************************************************************************)
EXTENDS CircleTreeWorker

CONSTANTS
    MaxSessions,  \* bound: calls of CIRCLE_begin on one rank
    Reuse         \* CIRCLE_begin may follow an aborted one in the same process

ASSUME SessionAssumption == MaxSessions \in Nat \ {0}
ASSUME ReuseAssumption == Reuse \in BOOLEAN

VARIABLES
    session,  \* which call of CIRCLE_begin each rank is in, or has returned from
    file,     \* items in circle<rank>.txt, none when there is no file
    called,   \* history: a callback of the rank called CIRCLE_abort in this session
    remaining,\* history: items in the queue of the rank when its last call returned
    stale     \* history: a job has read a file that was left behind

sessionVars == <<session, file, called, remaining, stale>>

allVars == <<vars, sessionVars>>

SessionInit ==
    /\ Init
    /\ session = [r \in Rank |-> 1]
    /\ file = [r \in Rank |-> {}]
    /\ called = ABORT_FLAG
    /\ remaining = [r \in Rank |-> {}]
    /\ stale = FALSE

Returned == \A r \in Rank : phase[r] = "exit"

(* A step of CIRCLE_worker that is neither a callback nor the end.         *)
InnerStep(r) ==
    /\ \/ WorkReq(r) \/ WorkReceipt(r) \/ AbortCheck(r) \/ AbortReplies(r)
       \/ RequestWork(r) \/ TermCheck(r) \/ LoopAgain(r)
       \/ BarrierStart(r) \/ BarrierTest(r) \/ CleanupIteration(r)
    /\ UNCHANGED sessionVars

Callback(r) ==
    /\ ProcessItem(r)
    /\ called' = [called EXCEPT ![r] = ABORT_FLAG'[r]]
    /\ UNCHANGED <<session, file, remaining, stale>>

(* Mutant: an existing file is left as it is.                              *)
Dump_once(r) == IF file[r] = {} THEN queue[r] ELSE file[r]

(* CIRCLE_internal_queue_write: what the file holds after it.  An empty    *)
(* queue leaves the file alone, any other queue replaces its contents.     *)
Dump(r) == IF queue[r] = {} THEN file[r] ELSE queue[r]

(* CIRCLE_worker returns, or moves on to the last message of the abort     *)
(* reduction; an aborted rank that returns writes its file.                *)
Return(r) ==
    /\ AbortReduce(r)
    /\ file' = [file EXCEPT ![r] = IF phase'[r] = "exit" /\ ABORT_FLAG'[r] THEN Dump(r) ELSE @]
    /\ remaining' = [remaining EXCEPT ![r] = queue[r]]
    /\ UNCHANGED <<session, called, stale>>

(* CIRCLE_init_local_state: a fresh state structure.  CIRCLE_ABORT_FLAG is *)
(* not part of it.                                                         *)
init_local_state(r) ==
    /\ work_requested' = [work_requested EXCEPT ![r] = None]
    /\ work_outstanding' = [work_outstanding EXCEPT ![r] = 0]
    /\ abort_state' = [abort_state EXCEPT ![r] = FALSE]
    /\ abort_outstanding' = [abort_outstanding EXCEPT ![r] = FALSE]
    /\ term_flag' = [term_flag EXCEPT ![r] = TRUE]
    /\ term_up' = [term_up EXCEPT ![r] = FALSE]
    /\ term_replies' = [term_replies EXCEPT ![r] = 0]
    /\ barrier_started' = [barrier_started EXCEPT ![r] = FALSE]
    /\ barrier_up' = [barrier_up EXCEPT ![r] = FALSE]
    /\ barrier_replies' = [barrier_replies EXCEPT ![r] = 0]

(* CIRCLE_begin, once more.  create_cb adds new items to the queue or,     *)
(* when only process_cb was registered and runs in its place, may take one *)
(* off; it may call CIRCLE_abort.  The other ranks may still be waiting    *)
(* for the last message of their previous call.                            *)
CIRCLE_begin(r) ==
    /\ phase[r] = "exit"
    /\ session[r] < MaxSessions
    /\ Reuse \/ ~ABORT_FLAG[r]
    /\ init_local_state(r)
    /\ \E new \in SUBSET (Item \ created), done \in SUBSET queue[r], a \in BOOLEAN :
          /\ Cardinality(done) <= 1
          /\ new \cup done # {} => r \in CreateRanks
          /\ a => r \in CreateRanks \cap MayAbort
          /\ queue' = [queue EXCEPT ![r] = (@ \ done) \cup new]
          /\ created' = created \cup new
          /\ processed' = processed \cup done
          /\ ABORT_FLAG' = [ABORT_FLAG EXCEPT ![r] = @ \/ a]
          /\ called' = [called EXCEPT ![r] = a]
    /\ phase' = [phase EXCEPT ![r] = "loop"]
    /\ pc' = [pc EXCEPT ![r] = 1]
    /\ session' = [session EXCEPT ![r] = @ + 1]
    /\ UNCHANGED <<requests, replies, receipts, abort_requests, abort_replies,
                   abort_reduces, checkpointed, terms, sense, barriers, file, remaining, stale>>

(* The ranks that had nothing to write when they returned, and still have  *)
(* the file of an earlier abort.                                           *)
LeftBehind == {r \in Rank : remaining[r] = {} /\ file[r] # {}}

(* The aborted job has ended; a new one initializes the library and calls  *)
(* CIRCLE_read_restarts on every rank.  The files stay.                    *)
NewJob ==
    /\ Returned
    /\ \A r \in Rank : ABORT_FLAG[r] /\ session[r] < MaxSessions
    /\ ABORT_FLAG' = [r \in Rank |-> FALSE]
    /\ abort_state' = [r \in Rank |-> FALSE]
    /\ queue' = file
    /\ checkpointed' = checkpointed \ UNION {file[r] : r \in Rank}
    /\ stale' = (stale \/ LeftBehind # {})
    /\ UNCHANGED <<phase, pc, created, processed, work_requested, work_outstanding,
                   requests, replies, receipts, abort_outstanding,
                   abort_requests, abort_replies, abort_reduces, termVars,
                   barrierVars, session, file, called, remaining>>

(* The application has made its last call.                                 *)
Finished ==
    /\ Returned
    /\ \A r \in Rank : session[r] = MaxSessions
    /\ UNCHANGED allVars

SessionStep(r) == InnerStep(r) \/ Callback(r) \/ Return(r) \/ CIRCLE_begin(r)

SessionNext == (\E r \in Rank : SessionStep(r)) \/ NewJob \/ Finished

SessionSpec == SessionInit /\ [][SessionNext]_allVars

(* Each rank keeps calling the handlers of its loop, and MPI guarantees    *)
(* that a message that has been sent is seen by a probe that is repeated   *)
(* often enough: a handler that again and again has something to do        *)
(* eventually does it.  The handlers that act a bounded number of times in *)
(* a call share one condition, which is weaker than one for each.  The     *)
(* application is the same program on all ranks: a call that one rank has  *)
(* entered is made by the others too.                                      *)
SessionFairness ==
    \A r \in Rank :
        /\ WF_allVars(SessionStep(r))
        /\ SF_allVars(WorkReq(r) /\ InnerStep(r))
        /\ SF_allVars(RequestWork(r) /\ InnerStep(r))
        /\ SF_allVars(TermCheck(r) /\ InnerStep(r))
        /\ SF_allVars(/\ \/ WorkReceipt(r) \/ AbortCheck(r) \/ AbortReplies(r)
                         \/ BarrierStart(r) \/ BarrierTest(r)
                      /\ InnerStep(r))

FairSessionSpec == SessionSpec /\ SessionFairness

-----------------------------------------------------------------------------
(* Correctness.                                                            *)

(* The sender and the receiver of every message in flight.                 *)
Messages ==
    requests \cup abort_requests \cup abort_replies \cup barriers
        \cup {<<m.src, m.dst>> : m \in replies \cup terms \cup abort_reduces}

(* "No messages from this invocation interfere with messages from the      *)
(* next" (worker.c): the messages of a rank that is in a call are all of   *)
(* that call, for one that has returned has no message in flight but the   *)
(* last one of the abort reduction, and whoever that is for waits for it;  *)
(* a message that reaches a rank in an earlier call finds it waiting there *)
(* for exactly that last message, or returned.                             *)
SessionsApart ==
    /\ \A m \in Messages :
          /\ phase[m[1]] = "exit" => phase[m[2]] = "await" /\ session[m[2]] = session[m[1]]
          /\ session[m[1]] # session[m[2]] =>
                session[m[1]] = session[m[2]] + 1 /\ phase[m[2]] \in {"await", "exit"}
    /\ \A r \in Rank :
          /\ phase[r] = "exit" => receipts[r] = 0
          /\ phase[r] = "await" => \A m \in abort_reduces :
                m.dst = r => m.src = parent_rank(r) /\ session[m.src] \in session[r] .. session[r] + 1

(* No call of CIRCLE_begin, aborted or not, loses an item for good: it has *)
(* been processed, it is on its way, or the checkpoint files have it.      *)
NeverLost ==
    created \subseteq processed
        \cup (UNION {queue[r] \cup file[r] : r \in Rank}) \cup (UNION {m.items : m \in replies})

(* After an abort the files together hold what is left to do, each item    *)
(* once and nothing that has been done, exactly if no file of an earlier   *)
(* abort was left behind by a rank that had nothing to write, which        *)
(* CIRCLE_internal_queue_write does not remove: this through any number of *)
(* aborts and restarts, until such a file has been read back.              *)
FilesAreTheRest ==
    Returned /\ (\A r \in Rank : ABORT_FLAG[r]) /\ ~stale =>
        (LeftBehind = {} <=>
            /\ UNION {file[r] : r \in Rank} = created \ processed
            /\ \A q, r \in Rank : q # r => file[q] \cap file[r] = {})

(* CIRCLE_begin executes the program: unless a callback aborts it, all the *)
(* work it was given is done when it has returned everywhere, in a first   *)
(* call, a later one and after a restart.                                  *)
BeginCompletes ==
    Returned /\ (\A q, r \in Rank : session[q] = session[r] /\ ~called[r])
        => \A r \in Rank : remaining[r] = {}

(* Every call of CIRCLE_begin returns on every rank, although the ranks    *)
(* are in different calls for a while, and nothing is enforced but that    *)
(* each goes on looking for messages.  Where a callback has called         *)
(* CIRCLE_abort, the application ends with every rank returned, aborted.   *)
CallsReturn ==
    []<>(Returned /\ (\A q, r \in Rank : called[q] => ABORT_FLAG[r]))
=============================================================================
