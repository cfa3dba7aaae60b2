--------------------------- MODULE CircleTreeInv ----------------------------
(***************************************************************************)
(* The inductive invariant behind the safety of CircleTreeWorker.          *)
(***************************************************************************)
EXTENDS CircleTreeWorker

-----------------------------------------------------------------------------
(* The allreduce.  A rank whose parity differs from its parent's has the   *)
(* parent's result still to receive.                                       *)

InFlight(s, d) == \E m \in terms : m.src = s /\ m.dst = d

(* The children of p whose flag p has received in p's current round.       *)
Replied(p) ==
    {c \in child_ranks(p) : term_up[c] /\ sense[c] = sense[p] /\ ~InFlight(c, p)}

(* Messages travel along the tree, one at a time per edge and direction,   *)
(* and agree with the state of their two ends; a rank counts exactly the   *)
(* children that have replied, and sends up only after all of them.        *)
TermRounds ==
    /\ \A m \in terms : IsUp(m) \/ IsDown(m)
    /\ \A m, n \in terms : m.src = n.src /\ m.dst = n.dst => m = n
    /\ \A m \in terms : IsUp(m) =>
          term_up[m.src] /\ sense[m.src] = sense[m.dst] /\ ~term_up[m.dst]
    /\ \A m \in terms : IsDown(m) =>
          term_up[m.dst] /\ sense[m.dst] # sense[m.src]
    /\ \A c \in Rank : c # 0 /\ sense[c] # sense[parent_rank(c)] => InFlight(parent_rank(c), c)
    /\ \A p \in Rank : term_up[p] => Replied(p) = child_ranks(p)
    /\ \A p \in Rank : term_replies[p] = Cardinality(Replied(p))
    /\ ~term_up[0]
    /\ \A q \in Rank : sense[q] # sense[0] => term_up[q]

-----------------------------------------------------------------------------
(* Termination.  The current round is the root's.                          *)

(* q has sent its flag in the current round.                               *)
Contributed(q) == term_up[q] /\ sense[q] = sense[0]

Idle(q) == work_outstanding[q] = 0 /\ (phase[q] = "exit" \/ NoWork(q))

(* The current round will yield FALSE, because of a flag that is still to  *)
(* be sent or on its way up.                                               *)
Spoiled ==
    \/ \E z \in Rank : ~Contributed(z) /\ (~term_flag[z] \/ work_outstanding[z] > 0)
    \/ \E m \in terms : IsUp(m) /\ ~m.flag

(* Unless the round is spoiled, the ranks that have contributed are idle,  *)
(* and no receipt has cleared their flags since.                           *)
RoundSound == Spoiled \/ \A q \in Rank : Contributed(q) => Idle(q) /\ term_flag[q]

Quiet == \A q \in Rank : Idle(q)

(* A TRUE result exists only when the whole system is quiet.               *)
ResultSound ==
    (\E m \in terms : IsDown(m) /\ m.flag) \/ (\E r \in Rank : phase[r] # "loop") => Quiet

(* A rank that has left the work loop is through with its last round, and  *)
(* the children it leaves behind there have a TRUE result to receive.      *)
Leaving ==
    \A r \in Rank : phase[r] # "loop" =>
        /\ ~term_up[r]
        /\ \A c \in child_ranks(r) : phase[c] = "loop" =>
              /\ sense[c] # sense[r]
              /\ \A m \in terms : m.src = r /\ m.dst = c => m.flag

-----------------------------------------------------------------------------
(* A rank that has returned has left nothing in its queue.                 *)
Dumped == \A r \in Rank : phase[r] = "exit" => queue[r] = {}
=============================================================================
