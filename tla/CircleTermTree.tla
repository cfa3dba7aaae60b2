--------------------------- MODULE CircleTermTree ---------------------------
(***************************************************************************)
(* Tree termination detection (CIRCLE_check_for_term_allreduce): rounds of *)
(* an allreduce that ANDs a flag per rank.  A rank sends its flag up once  *)
(* it is idle and has heard from all of its children; the root sends the   *)
(* result down.  Rounds repeat until one yields TRUE.                      *)
(***************************************************************************)
EXTENDS CircleWork

VARIABLES
    term_flag,     \* this rank's contribution to the current round
    term_up,       \* the flag was sent to the parent, the result is awaited
    term_replies,  \* flags received from children in this round
    terms,         \* CIRCLE_TAG_TERM messages in flight
    sense          \* history: parity of the rounds the rank has completed

termVars == <<term_flag, term_up, term_replies, terms, sense>>

TermInit ==
    /\ term_flag = [r \in Rank |-> TRUE]
    /\ term_up = [r \in Rank |-> FALSE]
    /\ term_replies = [r \in Rank |-> 0]
    /\ terms = {}
    /\ sense = [r \in Rank |-> FALSE]

(* Mutant: term_up is not reset for the next round.                        *)
TermComplete_stillup(r, flag, rest) ==
    /\ terms' = rest \cup {[src |-> r, dst |-> c, flag |-> flag] : c \in child_ranks(r)}
    /\ term_replies' = [term_replies EXCEPT ![r] = 0]
    /\ sense' = [sense EXCEPT ![r] = ~@]
    /\ GoTo(r, IF flag THEN "cleanup" ELSE "loop", 1)
    /\ UNCHANGED term_up

(* The round is over for r: the result goes to the children, the state is  *)
(* reset for another round, and the work loop ends if the result is TRUE.  *)
TermComplete(r, flag, rest) ==
    /\ terms' = rest \cup {[src |-> r, dst |-> c, flag |-> flag] : c \in child_ranks(r)}
    /\ term_up' = [term_up EXCEPT ![r] = FALSE]
    /\ term_replies' = [term_replies EXCEPT ![r] = 0]
    /\ sense' = [sense EXCEPT ![r] = ~@]
    /\ GoTo(r, IF flag THEN "cleanup" ELSE "loop", 1)

(* CIRCLE_check_for_term_allreduce up to the send to the parent.  The      *)
(* probe takes TERM messages from any source, as long as replies from      *)
(* children are missing; from is the set of ranks it hears from.           *)
TermSources(r) == {s \in Rank : \E m \in terms : m.src = s /\ m.dst = r}

TermGot(r, from) == {m \in terms : m.dst = r /\ m.src \in from}

(* Mutant: the flags of the children are not combined.                     *)
TermFlag_own(r, from) == term_flag[r]

TermFlag(r, from) == term_flag[r] /\ \A m \in TermGot(r, from) : m.flag

TermCount(r, from) == term_replies[r] + Cardinality(from)

(* Mutant: work_outstanding is not looked at.                              *)
TermReady_busy(r, from) ==
    /\ ~term_up[r]
    /\ TermCount(r, from) = children(r)

(* No work transfer is outstanding and every child has replied.            *)
TermReady(r, from) ==
    /\ work_outstanding[r] = 0
    /\ ~term_up[r]
    /\ TermCount(r, from) = children(r)

TermWait(r, from) ==
    /\ terms' = terms \ TermGot(r, from)
    /\ term_flag' = [term_flag EXCEPT ![r] = TermFlag(r, from)]
    /\ term_replies' = [term_replies EXCEPT ![r] = TermCount(r, from)]
    /\ GoTo(r, "loop", 1)
    /\ UNCHANGED <<term_up, sense>>

(* Mutant: the replies are forgotten when the flag is sent up.             *)
TermSendUp_reset(r, from) ==
    /\ terms' = (terms \ TermGot(r, from)) \cup
          {[src |-> r, dst |-> parent_rank(r), flag |-> TermFlag(r, from)]}
    /\ term_flag' = [term_flag EXCEPT ![r] = TRUE]
    /\ term_up' = [term_up EXCEPT ![r] = TRUE]
    /\ term_replies' = [term_replies EXCEPT ![r] = 0]
    /\ GoTo(r, "loop", After(r, "tail"))
    /\ UNCHANGED sense

TermSendUp(r, from) ==
    /\ terms' = (terms \ TermGot(r, from)) \cup
          {[src |-> r, dst |-> parent_rank(r), flag |-> TermFlag(r, from)]}
    /\ term_flag' = [term_flag EXCEPT ![r] = TRUE]
    /\ term_up' = [term_up EXCEPT ![r] = TRUE]
    /\ term_replies' = [term_replies EXCEPT ![r] = TermCount(r, from)]
    /\ GoTo(r, "loop", After(r, "tail"))
    /\ UNCHANGED sense

TermDecide(r, from) ==
    /\ term_flag' = [term_flag EXCEPT ![r] = TRUE]
    /\ TermComplete(r, TermFlag(r, from), terms \ TermGot(r, from))

TermGather(r) ==
    /\ InLoop(r, "tail")
    /\ NoWork(r)
    /\ \E from \in SUBSET TermSources(r) :
          /\ TermCount(r, from) <= children(r)
          /\ \/ ~TermReady(r, from) /\ from # {} /\ TermWait(r, from)
             \/ TermReady(r, from) /\ r # 0 /\ TermSendUp(r, from)
             \/ TermReady(r, from) /\ r = 0 /\ TermDecide(r, from)
    /\ UNCHANGED ABORT_FLAG

(* CIRCLE_check_for_term_allreduce from the probe for the parent's result. *)
TermResult(r) ==
    /\ InLoop(r, "result")
    /\ NoWork(r)
    /\ work_outstanding[r] = 0
    /\ term_up[r]
    /\ \E m \in terms :
          /\ m.src = parent_rank(r)
          /\ m.dst = r
          /\ TermComplete(r, m.flag, terms \ {m})
    /\ UNCHANGED <<term_flag, ABORT_FLAG>>

(* Mutant: a receipt does not force a fresh round.                         *)
ForceRound_none(r) == UNCHANGED <<term_flag, term_up, term_replies, terms, sense>>

(* CIRCLE_workreceipt_check also forces a fresh round.                     *)
ForceRound(r) ==
    /\ term_flag' = [term_flag EXCEPT ![r] = FALSE]
    /\ UNCHANGED <<term_up, term_replies, terms, sense>>

(* The termination check at the end of this iteration has a flag to send.  *)
SendDue(r) ==
    /\ InLoop(r, "tail")
    /\ work_outstanding[r] = 0
    /\ ~term_up[r]
    /\ term_replies[r] = children(r)
=============================================================================
