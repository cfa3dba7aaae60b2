----------------------------- MODULE CircleSends ----------------------------
(***************************************************************************)
(* The non-blocking sends of the tree worker.  Every work reply and every  *)
(* receipt is an MPI_Isend whose request and buffer are kept in a list     *)
(* until a test finds it complete; the work request has a slot of its own. *)
(* The transport is the slowest that MPI allows: a send completes when its *)
(* message is received, and the test may see that arbitrarily late.  The   *)
(* handlers of CircleTreeWorker run under the conditions this adds.        *)
(***************************************************************************)
EXTENDS CircleTreeWorker, Sequences, Functions

CONSTANTS
    BacklogPerRank,  \* 4 in the code: work is shared below BacklogPerRank * N sends
    MaxSends         \* bound: sends a rank keeps track of

ASSUME BacklogAssumption == BacklogPerRank \in Nat \ {0}
ASSUME MaxSendsAssumption ==
    MaxSends \in Nat /\ MaxSends > 1 /\ MaxSends >= BacklogPerRank * N - 1 + 2 * (N - 1)

VARIABLES
    send_reqs,     \* send_reqs and send_bufs: the list of tracked sends
    held,          \* number of requests, with their buffers, not yet released
    sends,         \* MPI_Isends that MPI has not completed
    request_slot,  \* work_request_req is not MPI_REQUEST_NULL
    walk           \* slots CIRCLE_worksend_check has still to visit are below this one

sendVars == <<send_reqs, held, sends, request_slot, walk>>

allVars == <<vars, sendVars>>

(* A send: the message it belongs to, and a number that tells the sends    *)
(* with the same envelope apart.                                           *)
Send == [src : Rank, dst : Rank, tag : {"reply", "receipt"}, id : 1 .. MaxSends]

(* An entry of the list is a send that is going on, or Complete, or Null   *)
(* once MPI_Test and CIRCLE_free have released it.                         *)
Complete == [src |-> None, dst |-> None, tag |-> "complete", id |-> 0]

Null == [src |-> None, dst |-> None, tag |-> "null", id |-> 0]

SendInit ==
    /\ Init
    /\ send_reqs = [r \in Rank |-> <<>>]
    /\ held = [r \in Rank |-> 0]
    /\ sends = {}
    /\ request_slot = [r \in Rank |-> FALSE]
    /\ walk = [r \in Rank |-> MaxSends + 1]

(* CIRCLE_worksend_check has not found a completed send in this iteration. *)
Unwalked(r) == walk[r] > MaxSends

(* The walk is over when a later handler runs or the iteration ends.       *)
Rewind(r) == walk' = [walk EXCEPT ![r] = MaxSends + 1]

-----------------------------------------------------------------------------
(* Posting sends.                                                          *)

(* The MPI_Isends of a work reply: one of "no work", or the offsets and    *)
(* the data.                                                               *)
ReplySends(m) ==
    [src : {m.src}, dst : {m.dst}, tag : {"reply"}, id : IF m.items = {} THEN {1} ELSE {1, 2}]

(* The send of a receipt from r to d, by the lowest number that is free.   *)
ReceiptSends(r, d) ==
    LET free == [src : {r}, dst : {d}, tag : {"receipt"}, id : 1 .. MaxSends] \ sends
    IN  {s \in free : \A t \in free : s.id <= t.id}

(* The entries that refer to the sends in D are those of completed sends.  *)
Completed(list, D) ==
    [i \in DOMAIN list |-> IF list[i] \in D THEN Complete ELSE list[i]]

(* CIRCLE_worksend_track, for each of the sends in S that r posts, in some *)
(* order, in a step in which MPI completes the sends in D.                 *)
CIRCLE_worksend_track(r, S, D) ==
    /\ Len(send_reqs[r]) + Cardinality(S) <= MaxSends
    /\ sends' = (sends \ D) \cup S
    /\ \E new \in Bijection(1 .. Cardinality(S), S) :
          send_reqs' = [q \in Rank |->
              IF q = r THEN Completed(send_reqs[q], D) \o new ELSE Completed(send_reqs[q], D)]
    /\ held' = [held EXCEPT ![r] = @ + Cardinality(S)]

(* The receipts that are on their way to d.                                *)
ReceiptsTo(d) == {s \in sends : s.dst = d /\ s.tag = "receipt"}

(* send_backlog *)
Backlog(r) == Len(send_reqs[r]) >= BacklogPerRank * N

(* CIRCLE_workreq_check: work is shared unless the rank has none, is       *)
(* leaving, or has a backlog of sends.  The replies are tracked.           *)
TrackReplies(r) ==
    /\ Unwalked(r)
    /\ WorkReq(r)
    /\ IF Backlog(r) \/ NoWork(r) \/ phase[r] = "cleanup"
       THEN UNCHANGED queue
       ELSE Share(r, {s \in Rank : <<s, r>> \in requests \ requests'})
    /\ CIRCLE_worksend_track(r, UNION {ReplySends(m) : m \in replies' \ replies}, {})
    /\ UNCHANGED <<request_slot, walk>>

(* CIRCLE_workreceipt_check takes receipts from anyone, which completes    *)
(* their sends.                                                            *)
TakeReceipts(r) ==
    /\ Unwalked(r)
    /\ WorkReceipt(r)
    /\ \E D \in SUBSET ReceiptsTo(r) :
          /\ Cardinality(D) = receipts[r] - receipts'[r]
          /\ CIRCLE_worksend_track(r, {}, D)
    /\ UNCHANGED <<request_slot, walk>>

(* CIRCLE_request_work: a new request needs a free slot and occupies it.   *)
(* A reply completes the sends it is made of; the receipt for work that    *)
(* has come in is tracked.                                                 *)
TrackRequest(r) ==
    LET source == work_requested[r]
        answer == {s \in sends : s.dst = r /\ s.src = source /\ s.tag = "reply"}
    IN  /\ source = None => ~request_slot[r]
        /\ RequestWork(r)
        /\ request_slot' = [request_slot EXCEPT ![r] = @ \/ source = None]
        /\ \/ receipts' = receipts /\ CIRCLE_worksend_track(r, {}, answer)
           \/ /\ receipts' # receipts
              /\ \E s \in ReceiptSends(r, source) : CIRCLE_worksend_track(r, {s}, answer)
        /\ Rewind(r)

-----------------------------------------------------------------------------
(* Finding out that sends have completed.                                  *)

(* The test of the slot at the top of CIRCLE_request_work, when it finds   *)
(* that the request has gone.                                              *)
TestRequest(r) ==
    /\ (InLoop(r, "request") /\ queue[r] = {}) \/ InCleanup(r, "request")
    /\ ~AbortDue(r)
    /\ request_slot[r]
    /\ \A d \in Rank : <<r, d>> \notin requests
    /\ request_slot' = [request_slot EXCEPT ![r] = FALSE]
    /\ walk' = [walk EXCEPT ![r] = 0]
    /\ UNCHANGED <<vars, send_reqs, held, sends>>

Released(list, i) == [list EXCEPT ![i] = Null]

(* Mutant: the last entry is dropped, not moved.                           *)
Reap_last(list, i) == SubSeq(Released(list, i), 1, Len(list) - 1)

(* The i-th entry is released, and its slot filled with the last entry.    *)
Reap(list, i) ==
    SubSeq([Released(list, i) EXCEPT ![i] = Released(list, i)[Len(list)]], 1, Len(list) - 1)

(* CIRCLE_worksend_check is called after CIRCLE_workreceipt_check, in      *)
(* cleanup after CIRCLE_workreq_check.                                     *)
WalkDue(r) == InLoop(r, "abort") \/ InCleanup(r, "request")

(* CIRCLE_worksend_check walks the list backwards.  One step of it: the    *)
(* next send that MPI_Test finds complete is in slot i.                    *)
CIRCLE_worksend_check(r) ==
    /\ WalkDue(r)
    /\ \E i \in 1 .. Len(send_reqs[r]) :
          /\ i < walk[r]
          /\ send_reqs[r][i] = Complete
          /\ send_reqs' = [send_reqs EXCEPT ![r] = Reap(@, i)]
          /\ walk' = [walk EXCEPT ![r] = i]
    /\ held' = [held EXCEPT ![r] = @ - 1]
    /\ UNCHANGED <<vars, sends, request_slot>>

(* An iteration of either loop ends in which nothing was found but sends   *)
(* that have completed.                                                    *)
WalkedOnly(r) ==
    /\ pc[r] = 1 /\ ~Unwalked(r)
    /\ \/ phase[r] = "loop" /\ NoWork(r) /\ ~AbortDue(r) /\ ~SendDue(r)
       \/ phase[r] = "cleanup"
    /\ UNCHANGED <<vars, send_reqs, held, sends, request_slot>>
    /\ Rewind(r)

-----------------------------------------------------------------------------
(* The end of the cleanup loop, and what follows it.                       *)

NothingTracked(r) == send_reqs[r] = <<>> /\ ~request_slot[r]

BarrierWhenSent(r) ==
    /\ Unwalked(r)
    /\ NothingTracked(r)
    /\ BarrierStart(r)
    /\ UNCHANGED sendVars

BarrierTestFirst(r) ==
    /\ Unwalked(r)
    /\ BarrierTest(r)
    /\ UNCHANGED sendVars

(* CIRCLE_worksend_wait blocks until every send has completed.             *)
CIRCLE_worksend_wait(r) ==
    /\ phase[r] = "reduce"
    /\ ~NothingTracked(r)
    /\ \A i \in 1 .. Len(send_reqs[r]) : send_reqs[r][i] = Complete
    /\ \A d \in Rank : <<r, d>> \notin requests
    /\ held' = [held EXCEPT ![r] = @ - Len(send_reqs[r])]
    /\ send_reqs' = [send_reqs EXCEPT ![r] = <<>>]
    /\ request_slot' = [request_slot EXCEPT ![r] = FALSE]
    /\ UNCHANGED <<vars, sends, walk>>

(* Mutant: the sends are not waited for after the barrier.                 *)
AbortReduceSent_now(r) == AbortReduce(r) /\ UNCHANGED sendVars

AbortReduceSent(r) ==
    /\ phase[r] = "reduce" => NothingTracked(r)
    /\ AbortReduce(r)
    /\ UNCHANGED sendVars

(* The handlers that post and complete no tracked send.                    *)
OtherStep(r) ==
    /\ \/ AbortCheck(r) \/ AbortReplies(r) \/ ProcessItem(r) \/ TermCheck(r)
       \/ LoopAgain(r) \/ CleanupIteration(r)
    /\ Rewind(r)
    /\ UNCHANGED <<send_reqs, held, sends, request_slot>>

SendStep(r) ==
    \/ TrackReplies(r) \/ TakeReceipts(r) \/ TrackRequest(r) \/ TestRequest(r)
    \/ CIRCLE_worksend_check(r) \/ WalkedOnly(r) \/ BarrierWhenSent(r) \/ BarrierTestFirst(r)
    \/ CIRCLE_worksend_wait(r) \/ AbortReduceSent(r) \/ OtherStep(r)

SendNext == (\E r \in Rank : SendStep(r)) \/ (Done /\ UNCHANGED sendVars)

SendSpec == SendInit /\ [][SendNext]_allVars

-----------------------------------------------------------------------------
(* Correctness.                                                            *)

(* "Every process has received everything we sent it": once the barrier is *)
(* complete, the sends that r has posted have all been matched, and the    *)
(* MPI_Waitall of CIRCLE_worksend_wait cannot hang.                        *)
SendsMatched ==
    \A r \in Rank : Past(r) =>
        (\A s \in sends : s.src # r) /\ (\A d \in Rank : <<r, d>> \notin requests)

(* CIRCLE_worksend_free finds nothing left when the rank returns, although *)
(* a rank answers work requests after it has started the barrier.          *)
NothingTorn == \A r \in Rank : phase[r] = "exit" => NothingTracked(r)

(* However the walk of CIRCLE_worksend_check moves entries about, the list *)
(* has every buffer that has not been released, and has it once: none is   *)
(* freed twice, none is forgotten, and none is freed that MPI still reads. *)
BuffersHeld ==
    /\ \A s \in sends : \E i \in 1 .. Len(send_reqs[s.src]) : send_reqs[s.src][i] = s
    /\ \A r \in Rank :
          /\ held[r] = Len(send_reqs[r])
          /\ \A i \in 1 .. Len(send_reqs[r]) :
                /\ send_reqs[r][i] \in sends \cup {Complete}
                /\ \A j \in 1 .. Len(send_reqs[r]) :
                      send_reqs[r][i] = send_reqs[r][j] => i = j \/ send_reqs[r][i] = Complete

(* A send that has not completed is one its receiver still looks for: a    *)
(* reply goes to a rank that waits for it, a receipt to a rank in the work *)
(* loop.  So every send can complete, a backlog goes away, and a rank that *)
(* waits in the cleanup loop for send_count to drop to zero is not stuck.  *)
SendsReceivable ==
    \A s \in sends :
        /\ s.tag = "reply" => work_requested[s.dst] = s.src /\ phase[s.dst] \in {"loop", "cleanup"}
        /\ s.tag = "receipt" => phase[s.dst] = "loop" /\ work_outstanding[s.dst] > 0
=============================================================================
