----------------------------- MODULE CircleWork -----------------------------
(***************************************************************************)
(* Work distribution: every rank owns a queue of work items, processes the *)
(* items it owns, and asks a random other rank for work when it has none.  *)
(*                                                                         *)
(* Each rank runs one thread: the work loop (phase "loop"), then the       *)
(* cleanup loop (phase "cleanup").  Each loop calls its handlers in a      *)
(* fixed order; pc[r] is the position of the next handler of rank r.  A    *)
(* handler whose MPI probe finds nothing changes nothing, and is not a     *)
(* step: the handler at position h can run whenever pc[r] <= h, the ones   *)
(* it jumps over having found nothing.  A message in flight may or may not *)
(* be visible to a probe, whatever its age.                                *)
(***************************************************************************)
EXTENDS CircleTree

CONSTANTS
    Item,         \* work items (strings in the code; only identity matters)
    CreateRanks,  \* ranks whose create_cb runs: {0}, or Rank with CREATE_GLOBAL
    MayAbort,     \* ranks whose callbacks may call CIRCLE_abort
    SplitEqual    \* TRUE: CIRCLE_SPLIT_EQUAL, FALSE: CIRCLE_SPLIT_RANDOM

ASSUME ItemAssumption == IsFiniteSet(Item)
ASSUME CreateAssumption == CreateRanks \subseteq Rank
ASSUME AbortAssumption == MayAbort \subseteq Rank
ASSUME SplitAssumption == SplitEqual \in BOOLEAN

VARIABLES
    phase,             \* where CIRCLE_worker is on each rank
    pc,                \* next handler of the loop the rank is in
    queue,             \* items in the local queue of each rank
    created,           \* history: items enqueued so far, anywhere
    processed,         \* history: items handed to process_cb so far
    ABORT_FLAG,        \* CIRCLE_ABORT_FLAG of each rank
    work_requested,    \* work_requested_rank while work_requested, else None
    work_outstanding,  \* work transfers sent and not yet acknowledged
    requests,          \* CIRCLE_TAG_WORK_REQUEST messages in flight
    replies,           \* CIRCLE_TAG_WORK_REPLY messages in flight
    receipts           \* CIRCLE_TAG_WORK_RECEIPT messages in flight, by receiver

workVars == <<phase, pc, queue, created, processed, ABORT_FLAG, work_requested,
              work_outstanding, requests, replies, receipts>>

-----------------------------------------------------------------------------
(* Control: the order in which the two loops call their handlers.          *)

Phase == {"loop", "cleanup", "reduce", "await", "exit"}

loop_order ==
    [workreq |-> 1, receipt |-> 2, abort |-> 3, test |-> 4, request |-> 5,
     tail |-> 6, result |-> 7]

cleanup_order ==
    [start |-> 1, barrier |-> 2, result |-> 3, workreq |-> 4, request |-> 5,
     abort |-> 6, test |-> 7]

MaxPc == 8

(* Rank r is in the work loop (cleanup loop) and may still reach handler h *)
(* in the current iteration.                                               *)
InLoop(r, h) == phase[r] = "loop" /\ pc[r] <= loop_order[h]

InCleanup(r, h) == phase[r] = "cleanup" /\ pc[r] <= cleanup_order[h]

(* The value of pc once r has executed handler h of the loop it is in.     *)
After(r, h) == IF phase[r] = "loop" THEN loop_order[h] + 1 ELSE cleanup_order[h] + 1

-----------------------------------------------------------------------------
(* Splitting a queue among requestors.                                     *)

(* spread_counts: the remainder goes to the first ranks.                   *)
spread_counts(ranks, count) ==
    [i \in 1 .. ranks |->
        (count \div ranks) + (IF i <= count % ranks THEN 1 ELSE 0)]

(* Mutant: the rank itself is not counted.                                 *)
split_sizes_all(rcount, count) ==
    IF SplitEqual
    THEN {spread_counts(rcount, count)}
    ELSE {spread_counts(rcount, n) : n \in 1 .. count}

(* What rcount requestors may be given from a queue of count items; the    *)
(* rest stays in the queue.                                                *)
split_sizes(rcount, count) ==
    IF SplitEqual
    THEN {[i \in 1 .. rcount |-> spread_counts(rcount + 1, count)[i + 1]]}
    ELSE {spread_counts(rcount, IF n = count THEN count - 1 ELSE n) : n \in 1 .. count}

(* The orders in which the requests of the ranks in S can be picked off.   *)
Arrivals(S) ==
    {o \in [S -> 1 .. Cardinality(S)] : \A s, t \in S : o[s] = o[t] => s = t}

(* CIRCLE_send_work_to_many: disjoint parts of q, one per requestor, of    *)
(* the sizes the split gives.  Which items go is left open.                *)
send_work_to_many(q, S) ==
    {g \in [S -> SUBSET q] :
        /\ \A s, t \in S : s # t => g[s] \cap g[t] = {}
        /\ \E o \in Arrivals(S), sizes \in split_sizes(Cardinality(S), Cardinality(q)) :
              \A s \in S : Cardinality(g[s]) = sizes[o[s]]}

-----------------------------------------------------------------------------
(* State left by CIRCLE_init_local_state and the create callbacks.         *)

WorkInit ==
    /\ phase = [r \in Rank |-> "loop"]
    /\ pc = [r \in Rank |-> 1]
    /\ queue \in {q \in [Rank -> SUBSET Item] :
                    /\ \A r \in Rank \ CreateRanks : q[r] = {}
                    /\ \A r, s \in Rank : r # s => q[r] \cap q[s] = {}}
    /\ created = UNION {queue[r] : r \in Rank}
    /\ processed = {}
    /\ ABORT_FLAG \in {f \in [Rank -> BOOLEAN] :
                          \A r \in Rank : f[r] => r \in CreateRanks \cap MayAbort}
    /\ work_requested = [r \in Rank |-> None]
    /\ work_outstanding = [r \in Rank |-> 0]
    /\ requests = {}
    /\ replies = {}
    /\ receipts = [r \in Rank |-> 0]

Requestors(r) == {s \in Rank : <<s, r>> \in requests}

(* CIRCLE_send_no_work; the reply carries PAYLOAD_ABORT in abort state.    *)
no_work(r, s) == [src |-> r, dst |-> s, items |-> {}, abort |-> ABORT_FLAG[r]]

(* CIRCLE_workreq_check, turning the requestors in S away: the queue is    *)
(* empty, the rank is in cleanup or abort state, or too many of its sends  *)
(* are in flight (send_backlog, which depends on the transport).           *)
Refuse(r, S) ==
    /\ replies' = replies \cup {no_work(r, s) : s \in S}
    /\ UNCHANGED <<queue, work_outstanding>>

(* Mutant: a rank in abort state still gives work away.                    *)
Share_aborted(r, S) ==
    /\ queue[r] # {}
    /\ phase[r] = "loop"
    /\ \E g \in send_work_to_many(queue[r], S) :
          /\ replies' = replies \cup
                {[src |-> r, dst |-> s, items |-> g[s], abort |-> FALSE] : s \in S}
          /\ queue' = [queue EXCEPT ![r] = @ \ UNION {g[s] : s \in S}]
          /\ work_outstanding' = [work_outstanding EXCEPT
                ![r] = @ + Cardinality({s \in S : g[s] # {}})]

(* Mutant: every requestor is counted as a transfer, "no work" included.   *)
Share_countall(r, S) ==
    /\ queue[r] # {}
    /\ phase[r] = "loop"
    /\ ~ABORT_FLAG[r]
    /\ \E g \in send_work_to_many(queue[r], S) :
          /\ replies' = replies \cup
                {[src |-> r, dst |-> s, items |-> g[s], abort |-> FALSE] : s \in S}
          /\ queue' = [queue EXCEPT ![r] = @ \ UNION {g[s] : s \in S}]
          /\ work_outstanding' = [work_outstanding EXCEPT ![r] = @ + Cardinality(S)]

(* Mutant: the items that are sent stay in the queue.                      *)
Share_kept(r, S) ==
    /\ queue[r] # {}
    /\ phase[r] = "loop"
    /\ ~ABORT_FLAG[r]
    /\ \E g \in send_work_to_many(queue[r], S) :
          /\ replies' = replies \cup
                {[src |-> r, dst |-> s, items |-> g[s], abort |-> FALSE] : s \in S}
          /\ work_outstanding' = [work_outstanding EXCEPT
                ![r] = @ + Cardinality({s \in S : g[s] # {}})]
    /\ UNCHANGED queue

(* CIRCLE_workreq_check, dividing the queue among the requestors in S and  *)
(* the rank itself.  A requestor whose share is empty gets a "no work".    *)
Share(r, S) ==
    /\ queue[r] # {}
    /\ phase[r] = "loop"
    /\ ~ABORT_FLAG[r]
    /\ \E g \in send_work_to_many(queue[r], S) :
          /\ replies' = replies \cup
                {[src |-> r, dst |-> s, items |-> g[s], abort |-> FALSE] : s \in S}
          /\ queue' = [queue EXCEPT ![r] = @ \ UNION {g[s] : s \in S}]
          /\ work_outstanding' = [work_outstanding EXCEPT
                ![r] = @ + Cardinality({s \in S : g[s] # {}})]

CIRCLE_workreq_check(r) ==
    /\ InLoop(r, "workreq") \/ InCleanup(r, "workreq")
    /\ \E S \in SUBSET Requestors(r) :
          /\ S # {}
          /\ requests' = requests \ {<<s, r>> : s \in S}
          /\ Refuse(r, S) \/ Share(r, S)
    /\ pc' = [pc EXCEPT ![r] = After(r, "workreq")]
    /\ UNCHANGED <<phase, created, processed, ABORT_FLAG, work_requested, receipts>>

(* CIRCLE_workreceipt_check: picks off n of the receipts that have come in. *)
CIRCLE_workreceipt_check(r) ==
    /\ InLoop(r, "receipt")
    /\ \E n \in 1 .. receipts[r] :
          /\ n <= work_outstanding[r]
          /\ receipts' = [receipts EXCEPT ![r] = @ - n]
          /\ work_outstanding' = [work_outstanding EXCEPT ![r] = @ - n]
    /\ pc' = [pc EXCEPT ![r] = After(r, "receipt")]
    /\ UNCHANGED <<phase, queue, created, processed, ABORT_FLAG, work_requested,
                   requests, replies>>

(* Mutant: a second request is sent while the first is outstanding.        *)
SendRequest_again(r) ==
    /\ InLoop(r, "request")
    /\ queue[r] = {}
    /\ ~ABORT_FLAG[r]
    /\ \E d \in Rank \ {r} :
          /\ requests' = requests \cup {<<r, d>>}
          /\ work_requested' = [work_requested EXCEPT ![r] = d]
    /\ pc' = [pc EXCEPT ![r] = After(r, "request")]
    /\ UNCHANGED <<phase, queue, created, processed, ABORT_FLAG, work_outstanding,
                   replies, receipts>>

(* Mutant: the rank to ask is drawn from one rank too many.                *)
SendRequest_outside(r) ==
    /\ InLoop(r, "request")
    /\ queue[r] = {}
    /\ work_requested[r] = None
    /\ ~ABORT_FLAG[r]
    /\ \E d \in (0 .. N) \ {r} :
          /\ requests' = requests \cup {<<r, d>>}
          /\ work_requested' = [work_requested EXCEPT ![r] = d]
    /\ pc' = [pc EXCEPT ![r] = After(r, "request")]
    /\ UNCHANGED <<phase, queue, created, processed, ABORT_FLAG, work_outstanding,
                   replies, receipts>>

(* CIRCLE_request_work, no request outstanding: ask some other rank, unless *)
(* the previous request is still on its way out (request_slot_free).       *)
SendRequest(r) ==
    /\ InLoop(r, "request")
    /\ queue[r] = {}
    /\ work_requested[r] = None
    /\ ~ABORT_FLAG[r]
    /\ \E d \in Rank \ {r} :
          /\ requests' = requests \cup {<<r, d>>}
          /\ work_requested' = [work_requested EXCEPT ![r] = d]
    /\ pc' = [pc EXCEPT ![r] = After(r, "request")]
    /\ UNCHANGED <<phase, queue, created, processed, ABORT_FLAG, work_outstanding,
                   replies, receipts>>

(* CIRCLE_request_work, a request outstanding: take the reply.             *)
(* CIRCLE_work_receive writes the items over the base of the local queue   *)
(* and acknowledges them; "no work" may carry the abort code instead.      *)
ReceiveReply(r) ==
    /\ \/ InLoop(r, "request") /\ queue[r] = {}
       \/ InCleanup(r, "request")
    /\ work_requested[r] # None
    /\ \E m \in replies :
          /\ m.dst = r
          /\ m.src = work_requested[r]
          /\ replies' = replies \ {m}
          /\ queue' = [queue EXCEPT ![r] = IF m.items = {} THEN @ ELSE m.items]
          /\ receipts' = [receipts EXCEPT ![m.src] = IF m.items = {} THEN @ ELSE @ + 1]
          /\ ABORT_FLAG' = [ABORT_FLAG EXCEPT ![r] = @ \/ m.abort]
    /\ work_requested' = [work_requested EXCEPT ![r] = None]
    /\ pc' = [pc EXCEPT ![r] = After(r, "request")]
    /\ UNCHANGED <<phase, created, processed, work_outstanding, requests>>

(* The end of an iteration with work to do: process_cb takes an item off   *)
(* the queue, may enqueue new items and may call CIRCLE_abort.             *)
Process(r) ==
    /\ InLoop(r, "tail")
    /\ queue[r] # {}
    /\ ~ABORT_FLAG[r]
    /\ \E i \in queue[r], new \in SUBSET (Item \ created) :
          /\ queue' = [queue EXCEPT ![r] = (@ \ {i}) \cup new]
          /\ created' = created \cup new
          /\ processed' = processed \cup {i}
    /\ \E a \in BOOLEAN :
          /\ a => r \in MayAbort
          /\ ABORT_FLAG' = [ABORT_FLAG EXCEPT ![r] = a]
    /\ pc' = [pc EXCEPT ![r] = 1]
    /\ UNCHANGED <<phase, work_requested, work_outstanding, requests, replies, receipts>>

(* Mutant: an aborted rank joins the termination check only when empty.    *)
NoWork_empty(r) == queue[r] = {}

(* The condition under which an iteration ends in a termination check.     *)
NoWork(r) == queue[r] = {} \/ ABORT_FLAG[r]

(* Moving on to iteration, phase or handler; nothing else changes.         *)
GoTo(r, ph, p) ==
    /\ phase' = [phase EXCEPT ![r] = ph]
    /\ pc' = [pc EXCEPT ![r] = p]
    /\ UNCHANGED <<queue, created, processed, work_requested, work_outstanding,
                   requests, replies, receipts>>
=============================================================================
