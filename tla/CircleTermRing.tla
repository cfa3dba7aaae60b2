--------------------------- MODULE CircleTermRing ---------------------------
(***************************************************************************)
(* Ring termination detection (CIRCLE_check_for_term, the default): a      *)
(* token travels 0, 1, ..., N-1, 0 through idle ranks and comes back white *)
(* to rank 0 if no rank it passed was black.  Rank 0 then sends a          *)
(* TERMINATE token around.                                                 *)
(***************************************************************************)
EXTENDS CircleWork

CONSTANT InOrder  \* TRUE: a token does not overtake a work reply from its sender

ASSUME InOrderAssumption == InOrder \in BOOLEAN

VARIABLES
    token_is_local,  \* the rank holds the token
    token_proc,      \* colour of the rank
    token_buf,       \* colour of the token, while the rank holds it
    token_send_req,  \* the rank's last token send is not known to be received
    tokens,          \* CIRCLE_TAG_TOKEN messages in flight
    overlap          \* history: a token was passed on by a rank with a work
                     \* transfer of its own still in flight

ringVars == <<token_is_local, token_proc, token_buf, token_send_req, tokens, overlap>>

Colour == {"WHITE", "BLACK", "TERMINATE"}

token_src(r) == (r - 1 + N) % N

token_dest(r) == (r + 1 + N) % N

RingInit ==
    /\ token_is_local = [r \in Rank |-> r = 0]
    /\ token_proc = [r \in Rank |-> "WHITE"]
    /\ token_buf = [r \in Rank |-> "BLACK"]
    /\ token_send_req = [r \in Rank |-> FALSE]
    /\ tokens = {}
    /\ overlap = FALSE

(* Mutant: the receiver is compared with the token's source, not with the  *)
(* sender.                                                                 *)
Blackens_below_source(r, sent) == \E m \in sent : m.items # {} /\ m.dst < token_src(r)

(* CIRCLE_send_work blackens a rank that sends work to a lower rank or to  *)
(* the rank it gets the token from.                                        *)
Blackens(r, sent) ==
    \E m \in sent : m.items # {} /\ (m.dst < r \/ m.dst = token_src(r))

Recolour(r, sent) ==
    /\ token_proc' = [token_proc EXCEPT ![r] = IF Blackens(r, sent) THEN "BLACK" ELSE @]
    /\ UNCHANGED <<token_is_local, token_buf, token_send_req, tokens, overlap>>

Transfer(r) == {m \in replies : m.src = r /\ m.items # {}}

(* Mutant: the rank that passes the token on believes it still has it.     *)
TokenPass_keep(r) ==
    /\ InLoop(r, "tail")
    /\ NoWork(r)
    /\ token_is_local[r]
    /\ tokens' = tokens \cup {[src |-> r, colour |-> token_buf[r]]}
    /\ token_send_req' = [token_send_req EXCEPT ![r] = TRUE]
    /\ token_proc' = [token_proc EXCEPT ![r] = "WHITE"]
    /\ GoTo(r, "loop", 1)
    /\ UNCHANGED <<ABORT_FLAG, token_is_local, token_buf, overlap>>

(* CIRCLE_check_for_term with the token at hand: the root starts a white   *)
(* one, a black rank blackens it.  CIRCLE_token_issend does not send in    *)
(* abort state, but the rank turns white all the same.                     *)
TokenPass(r) ==
    /\ InLoop(r, "tail")
    /\ NoWork(r)
    /\ token_is_local[r]
    /\ LET colour == IF r = 0 THEN "WHITE"
                     ELSE IF token_proc[r] = "BLACK" THEN "BLACK" ELSE token_buf[r]
       IN  /\ token_buf' = [token_buf EXCEPT ![r] = colour]
           /\ IF ABORT_FLAG[r]
              THEN UNCHANGED <<tokens, token_is_local, token_send_req, overlap>>
              ELSE /\ tokens' = tokens \cup {[src |-> r, colour |-> colour]}
                   /\ token_is_local' = [token_is_local EXCEPT ![r] = FALSE]
                   /\ token_send_req' = [token_send_req EXCEPT ![r] = TRUE]
                   /\ overlap' = (overlap \/ Transfer(r) # {})
    /\ token_proc' = [token_proc EXCEPT ![r] = "WHITE"]
    /\ GoTo(r, "loop", 1)
    /\ UNCHANGED ABORT_FLAG

(* CIRCLE_token_check, when a token has arrived: CIRCLE_check_for_term     *)
(* calls it without the token at hand, the cleanup loop in any case.  The  *)
(* MPI_Wait in CIRCLE_token_recv on the rank's own last send returns once  *)
(* that token has been received.                                           *)
TokenRecv(r) ==
    /\ \/ InLoop(r, "tail") /\ NoWork(r) /\ ~token_is_local[r]
       \/ InCleanup(r, "test")
    /\ \E t \in tokens :
          /\ t.src = token_src(r)
          /\ InOrder => \A m \in replies : ~(m.src = t.src /\ m.dst = r)
          /\ token_send_req[r] => \A u \in tokens \ {t} : u.src # r
          /\ LET terminate == t.colour = "TERMINATE" \/ (r = 0 /\ t.colour = "WHITE")
                 forward == terminate /\ r < N - 1 /\ ~ABORT_FLAG[r]
             IN  /\ token_buf' = [token_buf EXCEPT
                       ![r] = IF terminate THEN "TERMINATE" ELSE t.colour]
                 /\ token_proc' = [token_proc EXCEPT
                       ![r] = IF terminate THEN "TERMINATE"
                              ELSE IF @ = "BLACK" /\ t.colour = "BLACK" THEN "WHITE" ELSE @]
                 /\ tokens' = (tokens \ {t}) \cup
                       (IF forward THEN {[src |-> r, colour |-> "TERMINATE"]} ELSE {})
                 /\ token_is_local' = [token_is_local EXCEPT ![r] = ~forward]
                 /\ token_send_req' = [token_send_req EXCEPT ![r] = forward]
                 /\ IF phase[r] = "cleanup"
                    THEN GoTo(r, "cleanup", cleanup_order["test"])
                    ELSE GoTo(r, IF terminate THEN "cleanup" ELSE "loop", 1)
    /\ UNCHANGED <<ABORT_FLAG, overlap>>

(* The MPI_Test on the last token sent, at the end of a cleanup iteration. *)
TokenTest(r) ==
    /\ InCleanup(r, "test")
    /\ token_send_req[r]
    /\ \A t \in tokens : t.src # r
    /\ token_send_req' = [token_send_req EXCEPT ![r] = FALSE]
    /\ GoTo(r, "cleanup", After(r, "test"))
    /\ UNCHANGED <<ABORT_FLAG, token_is_local, token_proc, token_buf, tokens, overlap>>

(* The termination check at the end of this iteration has a token to send. *)
TokenDue(r) == InLoop(r, "tail") /\ token_is_local[r] /\ ~ABORT_FLAG[r]
=============================================================================
