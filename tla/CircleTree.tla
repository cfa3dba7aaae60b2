----------------------------- MODULE CircleTree -----------------------------
(***************************************************************************)
(* The k-ary tree over the ranks of the communicator (CIRCLE_tree_init).   *)
(* Termination, abort, reduction and barrier messages travel on it.  Rank  *)
(* 0 is the root.                                                          *)
(***************************************************************************)
EXTENDS Integers, FiniteSets

CONSTANTS
    N,  \* number of ranks in the communicator
    K   \* tree width (CIRCLE_set_tree_width)

ASSUME NAssumption == N \in Nat \ {0}
ASSUME KAssumption == K \in Nat \ {0}

Rank == 0 .. N - 1

(* MPI_PROC_NULL: "no such rank". *)
None == -1

parent_rank(r) == IF r > 0 THEN (r - 1) \div K ELSE None

(* left and right are the first and the last child a rank could have; the  *)
(* last one is clipped to the communicator.                                *)
left(r) == r * K + 1

right(r) == IF r * K + K >= N THEN N - 1 ELSE r * K + K

child_ranks(r) == left(r) .. right(r)

children(r) == IF left(r) < N THEN right(r) - left(r) + 1 ELSE 0

(* The ranks an abort request goes to: the parent, if any, and the children. *)
neighbours(r) == {d \in Rank : d = parent_rank(r) \/ d \in child_ranks(r)}
=============================================================================
