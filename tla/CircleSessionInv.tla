-------------------------- MODULE CircleSessionInv --------------------------
(***************************************************************************)
(* The inductive invariant behind the safety of CircleSession.  The ranks  *)
(* are all in the same call of CIRCLE_begin, or some are in a later call,  *)
(* one that is young: no rank has left its work loop, and it cannot before *)
(* all ranks are in it.                                                    *)
(***************************************************************************)
EXTENDS CircleSession, CircleTreeInv

(* Another rank has begun a call that q has still to begin.                *)
Behind(q) == \E z \in Rank : session[z] > session[q]

Together == \A q \in Rank : ~Behind(q)

-----------------------------------------------------------------------------
(* Once a round has yielded TRUE, every result on its way is TRUE, every   *)
(* rank that is still in the work loop has it to receive, and every rank   *)
(* has its flag as CIRCLE_init_local_state sets it.                        *)
LastRound ==
    (\E m \in terms : IsDown(m) /\ m.flag) \/ (\E r \in Rank : phase[r] # "loop") =>
        /\ \A m \in terms : m.flag
        /\ \A q \in Rank : term_flag[q] /\ (phase[q] = "loop" => sense[q] # sense[0])

(* What holds however the calls overlap.                                   *)
Overlapping ==
    /\ TypeOK
    /\ Conversation
    /\ ReceiptsBalance
    /\ TermRounds
    /\ RoundSound
    /\ AbortFlood

(* What holds in addition while all ranks are in the same call.            *)
OneCall ==
    /\ ResultSound
    /\ LastRound
    /\ Leaving
    /\ Barrier
    /\ AbortVote

(* A rank that is behind is through with everything but the last message   *)
(* of the abort reduction.                                                 *)
Through(q) ==
    /\ phase[q] \in {"await", "exit"}
    /\ work_requested[q] = None /\ work_outstanding[q] = 0
    /\ ~abort_outstanding[q]
    /\ term_flag[q] /\ ~term_up[q] /\ term_replies[q] = 0

(* A rank that is not is in the work loop, and in its first round.         *)
Young ==
    /\ \A q, r \in Rank : session[q] <= session[r] + 1
    /\ \A q \in Rank : Behind(q) => Through(q)
    /\ \A q \in Rank : ~Behind(q) => phase[q] = "loop" /\ barrier_replies[q] = 0
    /\ \A q, r \in Rank : sense[q] = sense[r]
    /\ \A q \in Rank : ~barrier_started[q] /\ ~barrier_up[q]
    /\ barriers = {}
    /\ \A m \in replies : ~Behind(m.src)
    /\ \A m \in abort_replies : ~Behind(m[1])

(* The results of the abort reduction that are still to be received are on *)
(* the edges from ranks that have theirs to ranks that have not.           *)
LastMessages ==
    /\ \A m \in abort_reduces : IsDown(m) /\ phase[m.src] # "await" /\ phase[m.dst] = "await"
    /\ \A m, n \in abort_reduces : m.dst = n.dst => m = n
    /\ \A c \in Rank : c # 0 /\ phase[parent_rank(c)] = "await" => phase[c] = "await"
    /\ phase[0] # "await"

CallTypes ==
    /\ session \in [Rank -> Nat]
    /\ file \in [Rank -> SUBSET Item]
    /\ called \in [Rank -> BOOLEAN]
    /\ remaining \in [Rank -> SUBSET Item]
    /\ stale \in BOOLEAN

CallsInv ==
    /\ CallTypes
    /\ Overlapping
    /\ IF Together THEN OneCall ELSE Young /\ LastMessages

-----------------------------------------------------------------------------
(* Unless a process begins again after an aborted call, the flag is set in *)
(* a call only if a callback of that call has set it.                      *)
AbortsOwned ==
    /\ \A r \in Rank : phase[r] # "exit" /\ called[r] => ABORT_FLAG[r]
    /\ \A q \in Rank : ~Behind(q) /\ ABORT_FLAG[q] => \E z \in Rank : ~Behind(z) /\ called[z]
    /\ \A q \in Rank : Behind(q) => ~ABORT_FLAG[q]
    /\ \A m \in abort_reduces : Behind(m.dst) => ~m.flag
    /\ Together /\ (\A r \in Rank : ~called[r]) =>
          \A r \in Rank : phase[r] = "exit" => remaining[r] = {}

(* The rank has returned aborted, having called CIRCLE_checkpoint.         *)
Wrote(r) == phase[r] = "exit" /\ ABORT_FLAG[r]

(* It had something to write, and the file is its own.                     *)
Filed(r) == Wrote(r) /\ remaining[r] # {}

(* Unless a file that was left behind has been read, the files that have   *)
(* been written since are what has been checkpointed, and every item is in *)
(* one place.                                                              *)
FilesConserve ==
    ~stale =>
        /\ WorkConserved
        /\ checkpointed = UNION {file[r] : r \in {q \in Rank : Filed(q)}}
        /\ \A q, r \in Rank : q # r /\ Filed(q) /\ Filed(r) => file[q] \cap file[r] = {}
=============================================================================
