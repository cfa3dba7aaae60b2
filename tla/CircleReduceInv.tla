--------------------------- MODULE CircleReduceInv --------------------------
(***************************************************************************)
(* The inductive invariant behind the rounds of CircleReduceWorker.        *)
(***************************************************************************)
EXTENDS CircleReduceWorker

(* The variables of the rounds have the types of their declarations.       *)
ReduceTypes ==
    /\ reduce_outstanding \in [Rank -> BOOLEAN]
    /\ reduce_replies \in [Rank -> Nat]
    /\ synced \in [Rank -> BOOLEAN]

(* A message announces a round to a child or brings a result to a parent.  *)
ReduceMessages ==
    \A m \in reduces :
        \/ m.dst \in Rank \ {0} /\ m = start(parent_rank(m.dst), m.dst)
        \/ m.src \in Rank \ {0} /\ m.dst = parent_rank(m.src) /\ m.kind \in {"round", "sync"}

(* The places where a round can be on the edge above c.                    *)
Announced(c) == start(parent_rank(c), c) \in reduces

Answers(c) == {m \in reduces : m.src = c /\ m.kind = "round"}

Owes(c) == Announced(c) \/ reduce_outstanding[c] \/ Answers(c) # {}

(* It is in one of them at a time, its parent takes part in the round, and *)
(* a rank that does waits for the children that have not answered.         *)
Rounds ==
    /\ \A c \in Rank \ {0} : Announced(c) => ~reduce_outstanding[c] /\ Answers(c) = {}
    /\ \A c \in Rank \ {0} : reduce_outstanding[c] => Answers(c) = {}
    /\ \A c \in Rank \ {0} : \A m, n \in Answers(c) : m = n
    /\ \A c \in Rank \ {0} : Owes(c) => reduce_outstanding[parent_rank(c)]
    /\ \A r \in Rank : reduce_outstanding[r] =>
          reduce_replies[r] + Cardinality({c \in child_ranks(r) : Owes(c)}) = children(r)

(* No rank enters the barrier in a round, and the final reduction takes    *)
(* the result of every child before it sends its own.                      *)
AfterRounds ==
    /\ \A r \in Rank : barrier_started[r] \/ Past(r) => ~reduce_outstanding[r]
    /\ \A r \in Rank : synced[r] => Past(r) /\ \A c \in child_ranks(r) : synced[c]
    /\ \A m \in reduces : m.kind = "sync" => synced[m.src] /\ ~synced[m.dst]
    /\ ReduceEnabled => \A r \in Rank : phase[r] \in {"await", "exit"} => synced[r]
    /\ ~ReduceEnabled => reduces = {}

(* The ranks whose data is in a buffer.                                    *)
Has(buf) == {q \in Rank : buf.data[q] = 1}

(* The data of these ranks is in it once, and so is each of their items.   *)
Sums(buf) ==
    /\ buf.data \in [Rank -> {0, 1}]
    /\ buf.count = Total([q \in Has(buf) |-> objects_processed[q]])

(* The ranks count the items that they process.                            *)
Counted ==
    /\ objects_processed \in [Rank -> Nat]
    /\ Cardinality(processed) = Total(objects_processed)

(* The partial results of the final reduction share the ranks that have    *)
(* sent theirs among them, until the root has them all.                    *)
FinalSums ==
    LET partial == {m \in reduces : m.kind = "sync"} IN
    /\ \A m \in partial : Sums(m.buf) /\ m.src \in Has(m.buf)
    /\ \A m \in partial : \A q \in Has(m.buf) : synced[q]
    /\ \A m, n \in partial : m # n => Has(m.buf) \cap Has(n.buf) = {}
    /\ ~synced[0] => \A q \in Rank : synced[q] => \E m \in partial : q \in Has(m.buf)
    /\ FinalExact

(* The ranks whose data is in the partial result of q, while q works on    *)
(* it and while it is on its way to the parent.                            *)
Covered(q) ==
    {k \in Rank : \/ reduce_outstanding[q] /\ reduce_buf[q].data[k] = 1
                  \/ \E m \in Answers(q) : m.buf.valid /\ m.buf.data[k] = 1}

(* No rank below q has refused the round so far.                           *)
Unspoilt(q) ==
    \/ reduce_outstanding[q] /\ reduce_buf[q].valid
    \/ \E m \in Answers(q) : m.buf.valid

(* Every rank has a buffer, which is a record.                             *)
Shaped ==
    reduce_buf = [r \in Rank |-> [valid |-> reduce_buf[r].valid, count |-> reduce_buf[r].count,
                                  data  |-> reduce_buf[r].data]]

(* In a background round no rank's data is in two partial results or twice *)
(* in one.  What q has heard of is a part of the tree below q, and all of  *)
(* it but for the children that owe an answer if nobody has refused.       *)
Shares ==
    /\ \A r \in Rank : reduce_outstanding[r] => reduce_buf[r].data \in [Rank -> {0, 1}]
    /\ \A q \in Rank : \A m \in Answers(q) : m.buf.valid => m.buf.data \in [Rank -> {0, 1}]
    /\ \A q \in Rank : reduce_outstanding[q] \/ Unspoilt(q) => q \in Covered(q)
    /\ \A q \in Rank : \A k \in Covered(q) \ {q} : k # 0 /\ parent_rank(k) \in Covered(q)
    /\ \A p, q \in Rank : p # q => Covered(p) \cap Covered(q) = {}
    /\ \A r \in Rank : \A c \in child_ranks(r) : Owes(c) => c \notin Covered(r)
    /\ \A q \in Rank : Unspoilt(q) =>
          \A k \in Covered(q) : \A c \in child_ranks(k) : c \in Covered(q) \/ (k = q /\ Owes(c))

(* n is at least the number of items that the ranks in S had processed     *)
(* when the counts were h, and at most the number they have processed now. *)
Between(h, S, n) ==
    /\ n \in Nat
    /\ Total([q \in S |-> h[q]]) <= n
    /\ n <= Total([q \in S |-> objects_processed[q]])

(* So are the counts in the partial results of a round.  A rank adds its   *)
(* own when it answers.                                                    *)
Bounds(h) ==
    /\ \A r \in Rank : reduce_outstanding[r] /\ reduce_buf[r].valid =>
          Between(h, Covered(r) \ {r}, reduce_buf[r].count)
    /\ \A q \in Rank : \A m \in Answers(q) : m.buf.valid => Between(h, Covered(q), m.buf.count)

(* h are the counts at the start of the last round.                        *)
AtStart(h) ==
    /\ h \in [Rank -> Nat]
    /\ since = Total(h)
    /\ \A q \in Rank : h[q] <= objects_processed[q]

(* Results that reach the user never go back.                              *)
Deliveries ==
    /\ delivered.total \in Nat /\ delivered.total <= Cardinality(processed)
    /\ reduce_outstanding[0] => delivered.total <= since
=============================================================================
