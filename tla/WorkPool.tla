------------------------------ MODULE WorkPool ------------------------------
(***************************************************************************)
(* What libcircle promises the application, with the ranks abstracted      *)
(* away: a pool of items that grows as items are processed, each item      *)
(* processed at most once, and a termination that is announced only when   *)
(* every item has been processed or the run has been aborted.              *)
(***************************************************************************)
CONSTANT Item

VARIABLES
    created,     \* items put in the pool so far
    processed,   \* items taken out and processed
    aborted,     \* some rank is in abort state
    terminated   \* some rank has left the work loop

poolVars == <<created, processed, aborted, terminated>>

PoolInit ==
    /\ created \subseteq Item
    /\ processed = {}
    /\ aborted \in BOOLEAN
    /\ terminated = FALSE

(* One call of process_cb: i is done, new items appear, and the callback   *)
(* may ask for an abort.                                                   *)
ProcessOne(i, new) ==
    /\ ~terminated
    /\ i \in created \ processed
    /\ processed' = processed \cup {i}
    /\ created' = created \cup new
    /\ aborted' \in {aborted, TRUE}
    /\ UNCHANGED terminated

Terminate ==
    /\ ~terminated
    /\ aborted \/ processed = created
    /\ terminated' = TRUE
    /\ UNCHANGED <<created, processed, aborted>>

PoolNext ==
    \/ \E i \in Item, new \in SUBSET (Item \ created) : ProcessOne(i, new)
    \/ Terminate

PoolSpec == PoolInit /\ [][PoolNext]_poolVars
=============================================================================
