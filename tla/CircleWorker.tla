---------------------------- MODULE CircleWorker ----------------------------
(***************************************************************************)
(* What CIRCLE_worker does whichever way termination is detected: work     *)
(* distribution, the flood of aborts, the cleanup barrier and the final    *)
(* abort reduction.  CircleTreeWorker and CircleRingWorker are built from  *)
(* the steps of this module and add a termination check.                   *)
(*                                                                         *)
(* As a specification of its own (WorkerSpec) the module leaves detection  *)
(* open: a rank may go on in the work loop, or leave it, at any time.      *)
(* What holds here does not depend on termination being detected rightly.  *)
(***************************************************************************)
EXTENDS CircleAbort, CircleBarrier, Totals

workerVars == <<workVars, abortVars, barrierVars>>

WorkerInit == WorkInit /\ AbortInit /\ BarrierInit

(* CIRCLE_workreq_check *)
Serve(r) ==
    /\ CIRCLE_workreq_check(r)
    /\ UNCHANGED <<abortVars, barrierVars>>

(* CIRCLE_workreceipt_check *)
CountReceipts(r) ==
    /\ CIRCLE_workreceipt_check(r)
    /\ UNCHANGED <<abortVars, barrierVars>>

(* CIRCLE_request_work *)
Ask(r) ==
    /\ ~AbortDue(r)
    /\ SendRequest(r) \/ ReceiveReply(r)
    /\ UNCHANGED <<abortVars, barrierVars>>

(* process_cb on the next item *)
Work(r) ==
    /\ Process(r)
    /\ UNCHANGED <<abortVars, barrierVars>>

(* CIRCLE_abort_check, up to its test of the replies *)
Flood(r) ==
    /\ CIRCLE_abort_check(r)
    /\ UNCHANGED barrierVars

FloodEnds(r) ==
    /\ ~AbortDue(r)
    /\ AbortTest(r)
    /\ UNCHANGED barrierVars

EnterBarrier(r) ==
    /\ ~abort_outstanding[r]
    /\ CIRCLE_barrier_start(r)
    /\ UNCHANGED abortVars

(* CIRCLE_barrier_test *)
TestBarrier(r) ==
    /\ BarrierGather(r) \/ BarrierResult(r)
    /\ UNCHANGED abortVars

(* CIRCLE_abort_reduce *)
Vote(r) ==
    /\ AbortReduceUp(r) \/ AbortReduceDown(r)
    /\ UNCHANGED barrierVars

(* A termination check and the end of an iteration: nothing changes but    *)
(* where r is, and from the work loop it may go on to the cleanup loop.    *)
Turn(r) ==
    /\ phase[r] \in {"loop", "cleanup"}
    /\ \E p \in 1 .. MaxPc : GoTo(r, phase[r], p) \/ GoTo(r, "cleanup", p)
    /\ UNCHANGED <<ABORT_FLAG, abortVars, barrierVars>>

WorkerStep(r) ==
    \/ Serve(r) \/ CountReceipts(r) \/ Ask(r) \/ Work(r) \/ Flood(r) \/ FloodEnds(r)
    \/ EnterBarrier(r) \/ TestBarrier(r) \/ Vote(r) \/ Turn(r)

WorkerNext == \E r \in Rank : WorkerStep(r)

WorkerSpec == WorkerInit /\ [][WorkerNext]_workerVars

-----------------------------------------------------------------------------
(* Correctness.                                                            *)

Pairs == Rank \X Rank

Flags == [src : Rank, dst : Rank, flag : BOOLEAN]

(* The variables of this module have the types their declarations in the   *)
(* state structure give them, message sets included.                       *)
WorkerTypes ==
    /\ phase \in [Rank -> Phase]
    /\ pc \in [Rank -> 1 .. MaxPc]
    /\ queue \in [Rank -> SUBSET Item]
    /\ created \in SUBSET Item
    /\ processed \in SUBSET Item
    /\ checkpointed \in SUBSET Item
    /\ ABORT_FLAG \in [Rank -> BOOLEAN]
    /\ work_requested \in [Rank -> Rank \cup {None}]
    /\ work_outstanding \in [Rank -> Nat]
    /\ requests \in SUBSET Pairs
    /\ replies \in SUBSET [src : Rank, dst : Rank, items : SUBSET Item, abort : BOOLEAN]
    /\ receipts \in [Rank -> Nat]
    /\ abort_state \in [Rank -> BOOLEAN]
    /\ abort_outstanding \in [Rank -> BOOLEAN]
    /\ abort_requests \in SUBSET Pairs
    /\ abort_replies \in SUBSET Pairs
    /\ abort_reduces \in SUBSET Flags
    /\ barrier_started \in [Rank -> BOOLEAN]
    /\ barrier_up \in [Rank -> BOOLEAN]
    /\ barrier_replies \in [Rank -> Nat]
    /\ barriers \in SUBSET Pairs

Past(r) == phase[r] \in {"reduce", "await", "exit"}

(* The ranks to which a work transfer of r is in flight.                   *)
Transfers(r) ==
    {d \in Rank : \E m \in replies : m.src = r /\ m.dst = d /\ m.items # {}}

(* Every item that was created is in exactly one place: a queue, a work    *)
(* reply in flight, the processed items or a checkpoint.  In particular    *)
(* CIRCLE_work_receive, which overwrites the local queue, never drops an   *)
(* item, and no item is processed twice.                                   *)
WorkConserved ==
    /\ created = processed \cup checkpointed
                  \cup (UNION {queue[r] : r \in Rank}) \cup (UNION {m.items : m \in replies})
    /\ \A r, s \in Rank : r # s => queue[r] \cap queue[s] = {}
    /\ \A m, n \in replies : m # n => m.items \cap n.items = {}
    /\ \A r \in Rank, m \in replies : queue[r] \cap m.items = {}
    /\ \A r \in Rank : queue[r] \cap (processed \cup checkpointed) = {}
    /\ \A m \in replies : m.items \cap (processed \cup checkpointed) = {}
    /\ processed \cap checkpointed = {}

(* A rank has at most one request or one reply to it in flight, with the   *)
(* rank it is waiting for, and nothing when it is not waiting: the         *)
(* requestors array of CIRCLE_workreq_check, with one slot per rank,       *)
(* cannot overflow, and no reply is left unmatched.  While it waits its    *)
(* queue is empty.                                                         *)
OneConversation ==
    \A r \in Rank :
        LET asked == {d \in Rank : <<r, d>> \in requests}
            answers == {m \in replies : m.dst = r}
        IN  /\ Cardinality(asked) + Cardinality(answers) = (IF work_requested[r] = None THEN 0 ELSE 1)
            /\ \A d \in asked : d = work_requested[r]
            /\ \A m \in answers : m.src = work_requested[r]
            /\ work_requested[r] # None => queue[r] = {}

(* The count of unacknowledged work transfers is exactly the number of     *)
(* transfers and of receipts in flight.                                    *)
ReceiptsBalance ==
    \A r \in Rank : work_outstanding[r] = receipts[r] + Cardinality(Transfers(r))

(* "But keep at least one item" (token.c): however a rank divides the      *)
(* queue it has among the ranks that ask, at random or equally, the shares *)
(* come to fewer items than are there.  So CIRCLE_send_work never reaches  *)
(* below the base of the pool, and a rank with work never gives it all     *)
(* away to start asking for work itself.                                   *)
SplitKeepsOne ==
    \A r \in Rank : \A S \in SUBSET Requestors(r) :
        queue[r] # {} /\ S # {} =>
            \A sizes \in split_sizes(Cardinality(S), Cardinality(queue[r])) :
                Total(sizes) < Cardinality(queue[r])

(* All ranks leave with the same abort flag, set if any rank had it set,   *)
(* so that either every rank checkpoints or none does.                     *)
AbortAgreement ==
    \A r, q \in Rank :
        phase[r] = "exit" =>
            /\ ABORT_FLAG[q] => ABORT_FLAG[r]
            /\ phase[q] = "exit" => ABORT_FLAG[q] = ABORT_FLAG[r]

-----------------------------------------------------------------------------
(* The inductive invariants behind these.                                  *)

(* What OneConversation says, in the form an induction needs.              *)
Conversation ==
    /\ \A r, d \in Rank : <<r, d>> \in requests => work_requested[r] = d
    /\ \A m \in replies : work_requested[m.dst] = m.src
    /\ \A m \in replies : <<m.dst, m.src>> \notin requests
    /\ \A m, n \in replies : m.dst = n.dst => m = n
    /\ \A r \in Rank : work_requested[r] # None =>
          /\ queue[r] = {}
          /\ \/ <<r, work_requested[r]>> \in requests
             \/ \E m \in replies : m.dst = r

(* A message that goes up or down an edge of the tree.                     *)
IsUp(m) == m.src # 0 /\ m.dst = parent_rank(m.src)

IsDown(m) == m.dst # 0 /\ m.src = parent_rank(m.dst)

-----------------------------------------------------------------------------
(* The cleanup barrier.  A pair goes up or down an edge of the tree.       *)

GoesUp(m) == m[1] # 0 /\ m[2] = parent_rank(m[1])

GoesDown(m) == m[2] # 0 /\ m[1] = parent_rank(m[2])

(* The children of p whose barrier message p has received.                 *)
Heard(p) == {c \in child_ranks(p) : barrier_up[c] /\ <<c, p>> \notin barriers}

(* A rank tells its parent after all of its children have told it, and     *)
(* leaves the cleanup loop after its parent has; so the ranks that are     *)
(* past the barrier form the top of the tree, everyone below them waits    *)
(* there, and nobody at the barrier or past it has anything outstanding.   *)
Barrier ==
    /\ \A m \in barriers : GoesUp(m) \/ GoesDown(m)
    /\ \A m \in barriers : GoesUp(m) => barrier_up[m[1]] /\ ~barrier_up[m[2]] /\ ~Past(m[2])
    /\ \A m \in barriers : GoesDown(m) => Past(m[1]) /\ barrier_up[m[2]]
    /\ \A c \in Rank : c # 0 /\ Past(c) => Past(parent_rank(c))
    /\ \A c \in Rank : c # 0 /\ Past(parent_rank(c)) => Past(c) \/ barrier_up[c]
    /\ \A p \in Rank : barrier_up[p] => p # 0 /\ Heard(p) = child_ranks(p)
    /\ \A p \in Rank : ~Past(p) => barrier_replies[p] = Cardinality(Heard(p))
    /\ \A r \in Rank : barrier_up[r] => barrier_started[r]
    /\ \A r \in Rank : barrier_started[r] => phase[r] = "cleanup"
    /\ \A r \in Rank : barrier_started[r] \/ Past(r) =>
          work_requested[r] = None /\ ~abort_outstanding[r]

-----------------------------------------------------------------------------
(* Abort.  An abort request and the reply to it are in flight only while   *)
(* the rank that sent the request waits, one of the two per neighbour, and *)
(* every trace of an abort points to a rank that has its flag set.         *)
AbortFlood ==
    /\ \A m \in abort_requests :
          m[2] \in neighbours(m[1]) /\ abort_outstanding[m[1]] /\ <<m[2], m[1]>> \notin abort_replies
    /\ \A m \in abort_replies : m[1] \in neighbours(m[2]) /\ abort_outstanding[m[2]]
    /\ \A r \in Rank : abort_outstanding[r] => abort_state[r]
    /\ \A r \in Rank : abort_state[r] => ABORT_FLAG[r]
    /\ \A m \in replies : m.abort => ABORT_FLAG[m.src]

Voted(r) == phase[r] \in {"await", "exit"}

(* The final reduction gathers the flags up the tree and brings one value  *)
(* back.  Until the root decides, a flag that is set anywhere is on a rank *)
(* that has still to vote or in a message on its way up; afterwards every  *)
(* message and every rank that has returned has the root's value, and no   *)
(* flag is set unless that one is.                                         *)
AbortVote ==
    /\ \A m \in abort_reduces : IsUp(m) \/ IsDown(m)
    /\ \A m, n \in abort_reduces : m.src = n.src /\ m.dst = n.dst => m = n
    /\ \A m \in abort_reduces : IsUp(m) => phase[m.src] = "await" /\ phase[m.dst] = "reduce"
    /\ \A m \in abort_reduces : IsDown(m) => phase[m.src] = "exit" /\ phase[m.dst] = "await"
    /\ \A c \in Rank : c # 0 /\ phase[c] = "exit" => phase[parent_rank(c)] = "exit"
    /\ \A c \in Rank : c # 0 /\ Voted(parent_rank(c)) => Voted(c)
    /\ phase[0] # "await"
    /\ \A m \in abort_reduces : m.flag => \E q \in Rank : ABORT_FLAG[q]
    /\ phase[0] # "exit" /\ (\E q \in Rank : ABORT_FLAG[q]) =>
          \/ \E z \in Rank : ~Voted(z) /\ ABORT_FLAG[z]
          \/ \E m \in abort_reduces : m.flag
    /\ phase[0] = "exit" =>
          /\ \A m \in abort_reduces : m.flag = ABORT_FLAG[0]
          /\ \A q \in Rank : phase[q] = "exit" => ABORT_FLAG[q] = ABORT_FLAG[0]
          /\ \A q \in Rank : ABORT_FLAG[q] => ABORT_FLAG[0]

(* Checkpoint files appear only after a decision to abort.                 *)
DumpsAfterVote == checkpointed # {} => phase[0] = "exit" /\ ABORT_FLAG[0]
=============================================================================
