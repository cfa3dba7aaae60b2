--------------------------- MODULE CircleRingInv ----------------------------
(***************************************************************************)
(* The inductive invariant behind the safety of CircleRingWorker.          *)
(***************************************************************************)
EXTENDS CircleRingWorker

-----------------------------------------------------------------------------
(* There is one token.  Until rank 0 announces termination all ranks are   *)
(* in the work loop; then they leave it in the order of the ring, and the  *)
(* next one to leave is the one the TERMINATE token is on its way to.      *)
Ring ==
    /\ \A r, s \in Rank : token_is_local[r] /\ token_is_local[s] => r = s
    /\ \A t, u \in tokens : t = u
    /\ \A r \in Rank : token_is_local[r] => tokens = {}
    /\ tokens # {} \/ \E r \in Rank : token_is_local[r]
    /\ \A t \in tokens : t.colour = "TERMINATE" =>
          t.src < N - 1 /\ \A q \in Rank : phase[q] # "loop" <=> q <= t.src
    /\ \A t \in tokens : t.colour # "TERMINATE" => \A q \in Rank : phase[q] = "loop"
    /\ \A r \in Rank : token_is_local[r] /\ phase[r] = "loop" =>
          token_buf[r] # "TERMINATE" /\ \A q \in Rank : phase[q] = "loop"

-----------------------------------------------------------------------------
(* Termination.                                                            *)

(* The token has passed q in its current round.                            *)
Behind(q) ==
    \/ \E r \in Rank : token_is_local[r] /\ q < r
    \/ \E t \in tokens : q <= t.src

TokenBlack ==
    \/ \E r \in Rank : token_is_local[r] /\ token_buf[r] = "BLACK"
    \/ \E t \in tokens : t.colour = "BLACK"

(* q has no work, and none is on its way from it or to it.                 *)
Settled(q) ==
    /\ NoWork(q)
    /\ \A m \in replies : m.items # {} => m.src # q /\ m.dst # q

(* As long as every token was passed on with no transfer of its sender in  *)
(* flight: a rank with a transfer to a lower rank in flight is black, or   *)
(* has made the token black.                                               *)
Debts ==
    ~overlap =>
        \A m \in replies : m.items # {} /\ m.dst < m.src =>
            \/ token_proc[m.src] = "BLACK"
            \/ token_is_local[m.src] /\ token_buf[m.src] = "BLACK"

(* The ranks the token has passed are settled, or the round is bound to    *)
(* fail: the token is black, or there is a black rank it has not passed.   *)
RingRound ==
    ~overlap /\ (\A r \in Rank : phase[r] = "loop") =>
        \/ \A q \in Rank : Behind(q) => Settled(q)
        \/ \E q \in Rank : ~Behind(q) /\ token_proc[q] = "BLACK"
        \/ TokenBlack
=============================================================================
