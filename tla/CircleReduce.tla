---------------------------- MODULE CircleReduce ----------------------------
(***************************************************************************)
(* Reductions of the user's data on the tree: background rounds while the  *)
(* ranks work (CIRCLE_reduce_check), started by the root when its timer    *)
(* runs out, and one synchronous reduction after the cleanup barrier       *)
(* (CIRCLE_reduce_sync).  A round goes down as empty messages and comes    *)
(* back up as partial results.  When a timer runs out is left open.        *)
(***************************************************************************)
EXTENDS CircleWork, Totals

CONSTANT MaxRounds  \* bound: background rounds the root starts

ASSUME MaxRoundsAssumption == MaxRounds \in Nat

VARIABLES
    reduce_outstanding,  \* the rank takes part in a round it has not completed
    reduce_replies,      \* partial results received from children
    reduce_buf,          \* validity, count of processed items, and user data
    reduces,             \* CIRCLE_TAG_REDUCE messages in flight
    objects_processed,   \* local_objects_processed
    reduced,             \* CIRCLE_reduce_check has acted in this iteration
    synced,              \* CIRCLE_reduce_sync has returned
    rounds,              \* background rounds the root has started
    since,               \* history: items processed when the root last started
    delivered,           \* history: last background result given to the user
    final                \* history: what reduce_fini_cb got from the final one

reduceVars == <<reduce_outstanding, reduce_replies, reduce_buf, reduces,
                objects_processed, reduced, synced, rounds, since, delivered, final>>

(* The user's data stands for who contributed to it, and how often: what   *)
(* reduce_init_cb provides on rank r.                                      *)
reduce_init(r) == [q \in Rank |-> IF q = r THEN 1 ELSE 0]

NoResult == [total |-> 0, data |-> [q \in Rank |-> 0]]

ReduceInit ==
    /\ reduce_outstanding = [r \in Rank |-> FALSE]
    /\ reduce_replies = [r \in Rank |-> 0]
    /\ reduce_buf = [r \in Rank |-> [valid |-> FALSE, count |-> 0, data |-> NoResult.data]]
    /\ reduces = {}
    /\ objects_processed = [r \in Rank |-> 0]
    /\ reduced = [r \in Rank |-> FALSE]
    /\ synced = [r \in Rank |-> FALSE]
    /\ rounds = 0
    /\ since = 0
    /\ delivered = NoResult
    /\ final = NoResult

(* The message that starts a round on rank d, and a partial result: of a   *)
(* background round, or of the final reduction.  Nothing in the messages   *)
(* themselves tells these two apart.                                       *)
start(r, d) == [src |-> r, dst |-> d, kind |-> "start"]

result(r, kind, buf) == [src |-> r, dst |-> parent_rank(r), kind |-> kind, buf |-> buf]

(* reduce_op_cb, applied to the user data of a set of partial results.     *)
reduce_op(data, got) ==
    [q \in Rank |-> data[q] + Total([m \in got |-> m.buf.data[q]])]

SumCounts(got) == Total([m \in got |-> m.buf.count])

(* CIRCLE_reduce_check runs between CIRCLE_abort_check or the reaping of   *)
(* sends and CIRCLE_request_work, once per iteration.                      *)
AtReduce(r) ==
    /\ InLoop(r, "request") \/ InCleanup(r, "request")
    /\ ~reduced[r]

(* Mutant: rounds start in cleanup too.                                    *)
StartReduce_cleanup(r) ==
    /\ AtReduce(r)
    /\ ~reduce_outstanding[r]
    /\ IF r = 0 THEN rounds < MaxRounds ELSE start(parent_rank(r), r) \in reduces
    /\ reduce_outstanding' = [reduce_outstanding EXCEPT ![r] = TRUE]
    /\ reduce_replies' = [reduce_replies EXCEPT ![r] = 0]
    /\ reduce_buf' = [reduce_buf EXCEPT
          ![r] = [valid |-> TRUE, count |-> 0, data |-> reduce_init(r)]]
    /\ reduces' = (reduces \ {start(parent_rank(r), r)}) \cup {start(r, c) : c \in child_ranks(r)}
    /\ rounds' = IF r = 0 THEN rounds + 1 ELSE rounds
    /\ since' = IF r = 0 THEN Cardinality(processed) ELSE since
    /\ UNCHANGED <<delivered, final>>

(* CIRCLE_reduce_check, no round outstanding, the timer run out, in the    *)
(* work loop: the root starts a round, another rank joins the one its      *)
(* parent has announced.                                                   *)
StartReduce(r) ==
    /\ AtReduce(r)
    /\ phase[r] = "loop"
    /\ ~reduce_outstanding[r]
    /\ IF r = 0 THEN rounds < MaxRounds ELSE start(parent_rank(r), r) \in reduces
    /\ reduce_outstanding' = [reduce_outstanding EXCEPT ![r] = TRUE]
    /\ reduce_replies' = [reduce_replies EXCEPT ![r] = 0]
    /\ reduce_buf' = [reduce_buf EXCEPT
          ![r] = [valid |-> TRUE, count |-> 0, data |-> reduce_init(r)]]
    /\ reduces' = (reduces \ {start(parent_rank(r), r)}) \cup {start(r, c) : c \in child_ranks(r)}
    /\ rounds' = IF r = 0 THEN rounds + 1 ELSE rounds
    /\ since' = IF r = 0 THEN Cardinality(processed) ELSE since
    /\ UNCHANGED <<delivered, final>>

(* Mutant: the round is dropped without an answer.                         *)
RefuseReduce_silent(r) ==
    /\ AtReduce(r)
    /\ phase[r] = "cleanup"
    /\ ~reduce_outstanding[r]
    /\ r # 0
    /\ start(parent_rank(r), r) \in reduces
    /\ reduce_buf' = [reduce_buf EXCEPT ![r].valid = FALSE]
    /\ reduces' = reduces \ {start(parent_rank(r), r)}
    /\ UNCHANGED <<reduce_outstanding, reduce_replies, rounds, since, delivered, final>>

(* CIRCLE_reduce_check in cleanup, no round outstanding: no round starts   *)
(* any more, and the parent gets invalid data.                             *)
RefuseReduce(r) ==
    /\ AtReduce(r)
    /\ phase[r] = "cleanup"
    /\ ~reduce_outstanding[r]
    /\ r # 0
    /\ start(parent_rank(r), r) \in reduces
    /\ reduce_buf' = [reduce_buf EXCEPT ![r].valid = FALSE]
    /\ reduces' = (reduces \ {start(parent_rank(r), r)}) \cup {result(r, "round", reduce_buf'[r])}
    /\ UNCHANGED <<reduce_outstanding, reduce_replies, rounds, since, delivered, final>>

(* Partial results of the children of r.                                   *)
Results(r) == {m \in reduces : m.dst = r /\ m.src \in child_ranks(r)}

(* Mutant: invalid data is taken for valid data.                           *)
Combine_trusting(r, got) ==
    [valid |-> reduce_buf[r].valid,
     count |-> reduce_buf[r].count + SumCounts(got),
     data  |-> reduce_op(reduce_buf[r].data, got)]

(* The buffer of r after the partial results in got, taken in the order of *)
(* the children.  Invalid data spoils the round; its count and data, and   *)
(* the user data that come after it, are not used.                         *)
Combine(r, got) ==
    LET valid == {m \in got : m.buf.valid}
        used  == {m \in valid : reduce_buf[r].valid /\ \A n \in got \ valid : m.src < n.src}
    IN  [valid |-> reduce_buf[r].valid /\ valid = got,
         count |-> reduce_buf[r].count + SumCounts(valid),
         data  |-> reduce_op(reduce_buf[r].data, used)]

(* CIRCLE_reduce_check, all children have replied: r adds its own count    *)
(* and passes the result up, or at the root to the user if it is valid.    *)
CompleteReduce(r, buf, rest) ==
    LET sum == [buf EXCEPT !.count = @ + objects_processed[r]] IN
    /\ reduce_buf' = [reduce_buf EXCEPT ![r] = sum]
    /\ reduce_outstanding' = [reduce_outstanding EXCEPT ![r] = FALSE]
    /\ reduces' = rest \cup (IF r = 0 THEN {} ELSE {result(r, "round", sum)})
    /\ delivered' = IF r = 0 /\ sum.valid THEN [total |-> sum.count, data |-> sum.data]
                    ELSE delivered

(* CIRCLE_reduce_check with a round outstanding.                           *)
GatherReduce(r) ==
    /\ AtReduce(r)
    /\ reduce_outstanding[r]
    /\ \E got \in SUBSET Results(r) :
          LET replies_now == reduce_replies[r] + Cardinality(got)
              buf == Combine(r, got)
              rest == reduces \ got
          IN  /\ reduce_replies' = [reduce_replies EXCEPT ![r] = replies_now]
              /\ \/ replies_now = children(r) /\ CompleteReduce(r, buf, rest)
                 \/ /\ replies_now # children(r)
                    /\ got # {}
                    /\ reduce_buf' = [reduce_buf EXCEPT ![r] = buf]
                    /\ reduces' = rest
                    /\ UNCHANGED <<reduce_outstanding, delivered>>
    /\ UNCHANGED <<rounds, since, final>>

(* The next CIRCLE_reduce_check of r completes a round whatever arrives.   *)
ReduceDue(r) ==
    /\ AtReduce(r)
    /\ reduce_outstanding[r]
    /\ reduce_replies[r] = children(r)

(* CIRCLE_reduce_sync: blocking receives from all children, then the send  *)
(* to the parent or, at the root, the final result.  reduce_op_cb is       *)
(* applied whatever the validity of the partial results.                   *)
CIRCLE_reduce_sync(r) ==
    /\ phase[r] = "reduce"
    /\ ~synced[r]
    /\ \A c \in child_ranks(r) : \E m \in Results(r) : m.src = c
    /\ LET buf == [valid |-> TRUE,
                   count |-> objects_processed[r] + SumCounts(Results(r)),
                   data  |-> reduce_op(reduce_init(r), Results(r))]
       IN  /\ reduce_buf' = [reduce_buf EXCEPT ![r] = buf]
           /\ reduces' = (reduces \ Results(r)) \cup
                 (IF r = 0 THEN {} ELSE {result(r, "sync", buf)})
           /\ final' = IF r = 0 THEN [total |-> buf.count, data |-> buf.data] ELSE final
    /\ synced' = [synced EXCEPT ![r] = TRUE]
    /\ UNCHANGED <<reduce_outstanding, reduce_replies, rounds, since, delivered>>
=============================================================================
