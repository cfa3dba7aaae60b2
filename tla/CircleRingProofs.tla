-------------------------- MODULE CircleRingProofs --------------------------
(***************************************************************************)
(* Proofs about CIRCLE_worker with ring termination detection: it is a     *)
(* CircleWorker, there is one token, and a round that the token completes  *)
(* white has found every rank without work, as long as no token was passed *)
(* on over a work transfer in flight.                                      *)
(***************************************************************************)
EXTENDS CircleRingInv, CircleWorkerProofs

-----------------------------------------------------------------------------
(* The ring worker is a CircleWorker.                                      *)

(* A step of the token, and the end of an iteration, is a turn.            *)
LEMMA TokenTurns ==
    ASSUME NEW r \in Rank, TermCheck(r) \/ LoopAgain(r) \/ CleanupIteration(r)
    PROVE  Turn(r)
<1>1. 1 \in 1 .. MaxPc /\ cleanup_order["test"] \in 1 .. MaxPc
    BY DEF MaxPc, cleanup_order
<1>2. CASE LoopAgain(r)
    BY <1>1, <1>2 DEF LoopAgain, Turn
<1>3. CASE CleanupIteration(r)
  <2>1. CASE TokenTest(r) /\ UNCHANGED <<abortVars, barrierVars>>
    <3>1. phase[r] = "cleanup"
        BY <2>1 DEF TokenTest, InCleanup
    <3>2. After(r, "test") \in 1 .. MaxPc
        BY <3>1 DEF After, cleanup_order, MaxPc
    <3>. QED
        BY <2>1, <3>1, <3>2 DEF TokenTest, Turn
  <2>2. CASE CleanupAgain(r) /\ UNCHANGED <<abortVars, barrierVars>>
      BY <1>1, <2>2 DEF CleanupAgain, Turn
  <2>. QED
      BY <1>3, <2>1, <2>2 DEF CleanupIteration
<1>4. CASE TermCheck(r)
  <2>1. CASE TokenPass(r)
      BY <1>1, <1>4, <2>1 DEF TermCheck, TokenPass, InLoop, Turn
  <2>2. CASE TokenRecv(r)
    <3>1. /\ phase[r] \in {"loop", "cleanup"}
          /\ UNCHANGED <<ABORT_FLAG, abortVars, barrierVars>>
        BY <1>4, <2>2 DEF TermCheck, TokenRecv, InLoop, InCleanup
    <3>2. \/ phase[r] = "cleanup" /\ GoTo(r, "cleanup", cleanup_order["test"])
          \/ phase[r] = "loop" /\ (GoTo(r, "loop", 1) \/ GoTo(r, "cleanup", 1))
      <4>1. \E terminate : IF phase[r] = "cleanup"
                           THEN GoTo(r, "cleanup", cleanup_order["test"])
                           ELSE GoTo(r, IF terminate THEN "cleanup" ELSE "loop", 1)
          BY <2>2 DEF TokenRecv
      <4>. QED
          BY <3>1, <4>1
    <3>. QED
        BY <1>1, <3>1, <3>2 DEF Turn
  <2>. QED
      BY <1>4, <2>1, <2>2 DEF TermCheck
<1>. QED
    BY <1>2, <1>3, <1>4

(* Every step of the ring worker is a step of CircleWorker, or none.       *)
LEMMA RingStepWorks == [Next]_vars => [WorkerNext]_workerVars
<1>. SUFFICES ASSUME [Next]_vars PROVE [WorkerNext]_workerVars
    OBVIOUS
<1>1. ASSUME NEW r \in Rank, Step(r) PROVE WorkerStep(r)
    BY <1>1, TokenTurns DEF Step, WorkerStep, WorkReq, WorkReceipt, AbortCheck, AbortReplies,
       RequestWork, ProcessItem, BarrierStart, BarrierTest, AbortReduce
<1>2. CASE Done \/ UNCHANGED vars
    BY <1>2 DEF Done, vars
<1>. QED
    BY <1>1, <1>2 DEF Next, WorkerNext

(* So what holds of CircleWorker holds with ring termination detection.    *)
THEOREM RingImplementsWorker == Spec => WorkerSpec
<1>1. Init => WorkerInit
    BY DEF Init
<1>. QED
    BY <1>1, RingStepWorks, PTL DEF Spec, WorkerSpec

(* With the ring too, no item is lost or duplicated on its way from queue  *)
(* to queue, whenever the ranks leave the work loop.                       *)
THEOREM RingConservesWork == Spec => []WorkConserved
BY RingImplementsWorker, WorkerConserves, PTL

(* With the ring too, all ranks return with the same abort flag.           *)
THEOREM RingAgreesOnAbort == Spec => []AbortAgreement
<1>1. WorkerInv => AbortAgreement
    BY VoteAgrees
<1>. QED
    BY <1>1, RingImplementsWorker, WorkerInvHolds, PTL

-----------------------------------------------------------------------------
(* The ring.                                                               *)

(* The neighbours of a rank on the ring.                                   *)
LEMMA RingFacts ==
    ASSUME NEW r \in Rank
    PROVE  /\ token_dest(r) = (IF r = N - 1 THEN 0 ELSE r + 1)
           /\ token_src(r) = (IF r = 0 THEN N - 1 ELSE r - 1)
           /\ token_dest(r) \in Rank /\ token_src(r) \in Rank
           /\ \A s \in Rank : s = token_src(r) => token_dest(s) = r
<1>1. N \in Nat /\ N > 0 /\ r \in Nat /\ r <= N - 1 /\ Rank = 0 .. N - 1
    BY NAssumption DEF Rank
<1>2. ASSUME NEW x \in Nat, x < N PROVE x % N = x /\ (x + N) % N = x
  <2>. DEFINE a == x % N
              b == (x + N) % N
              c == x \div N
              d == (x + N) \div N
  <2>1. a \in Nat /\ a < N /\ c \in Nat /\ x = N * c + a
      BY <1>1
  <2>2. b \in Nat /\ b < N /\ d \in Nat /\ x + N = N * d + b
      BY <1>1
  <2>. HIDE DEF a, b, c, d
  <2>3. c = 0
    <3>. SUFFICES ASSUME c >= 1 PROVE FALSE
        BY <2>1
    <3>1. N * c >= N
        BY <1>1, <2>1
    <3>. QED
        BY <1>1, <1>2, <2>1, <3>1
  <2>4. d = 1
    <3>1. d = 0 => x + N = b
        BY <1>1, <2>2
    <3>2. ASSUME d >= 2 PROVE FALSE
      <4>1. N * d >= N + N
          BY <1>1, <2>2, <3>2
      <4>. QED
          BY <1>1, <1>2, <2>2, <4>1
    <3>. QED
        BY <1>1, <1>2, <2>2, <3>1, <3>2
  <2>5. a = x
      BY <1>1, <2>1, <2>3
  <2>6. b = x
      BY <1>1, <2>2, <2>4
  <2>. QED
      BY <2>5, <2>6 DEF a, b
<1>3. ASSUME NEW s \in Rank PROVE token_dest(s) = (IF s = N - 1 THEN 0 ELSE s + 1)
  <2>1. s \in Nat /\ s <= N - 1
      BY <1>1
  <2>2. CASE s = N - 1
    <3>1. (0 + N) % N = 0 /\ N % N = 0
        BY <1>1, <1>2
    <3>2. s + 1 + N = N + N
        BY <1>1, <2>2
    <3>3. (N + N) % N = 0
      <4>. DEFINE b == (N + N) % N
                  d == (N + N) \div N
      <4>1. b \in Nat /\ b < N /\ d \in Nat /\ N + N = N * d + b
          BY <1>1
      <4>. HIDE DEF b, d
      <4>2. d = 2
        <5>1. d = 0 => N + N = b
            BY <1>1, <4>1
        <5>2. d = 1 => N + N = N + b
            BY <1>1, <4>1
        <5>3. ASSUME d >= 3 PROVE FALSE
          <6>1. N * d >= N + N + N
              BY <1>1, <4>1, <5>3
          <6>. QED
              BY <1>1, <4>1, <6>1
        <5>. QED
            BY <1>1, <4>1, <5>1, <5>2, <5>3
      <4>3. b = 0
          BY <1>1, <4>1, <4>2
      <4>. QED
          BY <4>3 DEF b
    <3>. QED
        BY <2>2, <3>2, <3>3 DEF token_dest
  <2>3. CASE s # N - 1
    <3>1. s + 1 \in Nat /\ s + 1 < N
        BY <1>1, <2>1, <2>3
    <3>2. (s + 1 + N) % N = s + 1
        BY <1>2, <3>1
    <3>. QED
        BY <2>3, <3>2 DEF token_dest
  <2>. QED
      BY <2>2, <2>3
<1>4. token_src(r) = (IF r = 0 THEN N - 1 ELSE r - 1)
  <2>1. CASE r = 0
    <3>1. N - 1 \in Nat /\ N - 1 < N
        BY <1>1
    <3>2. (N - 1) % N = N - 1
        BY <1>2, <3>1
    <3>3. r - 1 + N = N - 1
        BY <1>1, <2>1
    <3>. QED
        BY <2>1, <3>2, <3>3 DEF token_src
  <2>2. CASE r # 0
    <3>1. r - 1 \in Nat /\ r - 1 < N
        BY <1>1, <2>2
    <3>2. (r - 1 + N) % N = r - 1
        BY <1>2, <3>1
    <3>. QED
        BY <2>2, <3>2 DEF token_src
  <2>. QED
      BY <2>1, <2>2
<1>5. token_dest(r) = (IF r = N - 1 THEN 0 ELSE r + 1)
    BY <1>3
<1>6. token_dest(r) \in Rank /\ token_src(r) \in Rank
    BY <1>1, <1>4, <1>5
<1>7. ASSUME NEW s \in Rank, s = token_src(r) PROVE token_dest(s) = r
    BY <1>1, <1>3, <1>4, <1>7
<1>. QED
    BY <1>4, <1>5, <1>6, <1>7


(* The initial state is well typed.                                        *)
LEMMA RingTypeInit == Init => TypeOK
<1>. SUFFICES ASSUME Init PROVE TypeOK
    OBVIOUS
<1>1. WorkerTypes
    BY WorkerTypesInit DEF Init
<1>. QED
    BY <1>1 DEF Init, RingInit, TypeOK, Colour

(* What CIRCLE_check_for_term does with the token at hand: nothing is sent *)
(* in abort state, and otherwise the token leaves with the rank's colour.  *)
Passed(r, colour) ==
    /\ colour \in Colour
    /\ colour = (IF r = 0 THEN "WHITE" ELSE IF token_proc[r] = "BLACK" THEN "BLACK" ELSE token_buf[r])
    /\ phase[r] = "loop" /\ NoWork(r) /\ token_is_local[r]
    /\ token_buf' = [token_buf EXCEPT ![r] = colour]
    /\ token_proc' = [token_proc EXCEPT ![r] = "WHITE"]
    /\ \/ ABORT_FLAG[r] /\ UNCHANGED <<tokens, token_is_local, overlap>>
       \/ /\ ~ABORT_FLAG[r]
          /\ tokens' = tokens \cup {[src |-> r, colour |-> colour]}
          /\ token_is_local' = [token_is_local EXCEPT ![r] = FALSE]
          /\ overlap' = (overlap \/ Transfer(r) # {})
    /\ phase' = [phase EXCEPT ![r] = "loop"]
    /\ UNCHANGED <<queue, replies, ABORT_FLAG>>

(* What CIRCLE_token_recv does with a token t: terminate says that it ends *)
(* the work loop, forward that a TERMINATE token is sent on.               *)
Received(r, t, terminate, forward) ==
    /\ t.src = token_src(r)
    /\ terminate = (t.colour = "TERMINATE" \/ (r = 0 /\ t.colour = "WHITE"))
    /\ forward = (terminate /\ r < N - 1 /\ ~ABORT_FLAG[r])
    /\ token_buf' = [token_buf EXCEPT ![r] = IF terminate THEN "TERMINATE" ELSE t.colour]
    /\ token_proc' = [token_proc EXCEPT
          ![r] = IF terminate THEN "TERMINATE"
                 ELSE IF @ = "BLACK" /\ t.colour = "BLACK" THEN "WHITE" ELSE @]
    /\ tokens' = (tokens \ {t}) \cup
          (IF forward THEN {[src |-> r, colour |-> "TERMINATE"]} ELSE {})
    /\ token_is_local' = [token_is_local EXCEPT ![r] = ~forward]
    /\ phase[r] = "cleanup" => phase' = [phase EXCEPT ![r] = "cleanup"]
    /\ phase[r] # "cleanup" =>
          /\ phase[r] = "loop" /\ NoWork(r) /\ ~token_is_local[r]
          /\ phase' = [phase EXCEPT ![r] = IF terminate THEN "cleanup" ELSE "loop"]
    /\ UNCHANGED <<overlap, queue, replies, ABORT_FLAG>>

(* A termination check passes the token on or receives it.                 *)
LEMMA TokenCases ==
    ASSUME TypeOK, NEW r \in Rank, TermCheck(r)
    PROVE  \/ \E colour \in Colour : Passed(r, colour)
           \/ \E t \in tokens : \E terminate, forward \in BOOLEAN : Received(r, t, terminate, forward)
<1>1. CASE TokenPass(r)
  <2>. DEFINE colour == IF r = 0 THEN "WHITE"
                        ELSE IF token_proc[r] = "BLACK" THEN "BLACK" ELSE token_buf[r]
  <2>1. colour \in Colour
      BY DEF TypeOK, Colour
  <2>2. Passed(r, colour)
    <3>1. phase[r] = "loop" /\ NoWork(r) /\ token_is_local[r]
        BY <1>1 DEF TokenPass, InLoop
    <3>2. /\ token_buf' = [token_buf EXCEPT ![r] = colour]
          /\ token_proc' = [token_proc EXCEPT ![r] = "WHITE"]
          /\ \/ ABORT_FLAG[r] /\ UNCHANGED <<tokens, token_is_local, overlap>>
             \/ /\ ~ABORT_FLAG[r]
                /\ tokens' = tokens \cup {[src |-> r, colour |-> colour]}
                /\ token_is_local' = [token_is_local EXCEPT ![r] = FALSE]
                /\ overlap' = (overlap \/ Transfer(r) # {})
        BY <1>1 DEF TokenPass
    <3>3. phase' = [phase EXCEPT ![r] = "loop"] /\ UNCHANGED <<queue, replies, ABORT_FLAG>>
        BY <1>1 DEF TokenPass, GoTo
    <3>. QED
        BY <2>1, <3>1, <3>2, <3>3 DEF Passed
  <2>. QED
      BY <2>1, <2>2
<1>2. CASE TokenRecv(r)
  <2>1. PICK t \in tokens :
          /\ t.src = token_src(r)
          /\ LET terminate == t.colour = "TERMINATE" \/ (r = 0 /\ t.colour = "WHITE")
                 forward == terminate /\ r < N - 1 /\ ~ABORT_FLAG[r]
             IN  /\ token_buf' = [token_buf EXCEPT
                       ![r] = IF terminate THEN "TERMINATE" ELSE t.colour]
                 /\ token_proc' = [token_proc EXCEPT
                       ![r] = IF terminate THEN "TERMINATE"
                              ELSE IF @ = "BLACK" /\ t.colour = "BLACK" THEN "WHITE" ELSE @]
                 /\ tokens' = (tokens \ {t}) \cup
                       (IF forward THEN {[src |-> r, colour |-> "TERMINATE"]} ELSE {})
                 /\ token_is_local' = [token_is_local EXCEPT ![r] = ~forward]
                 /\ IF phase[r] = "cleanup"
                    THEN GoTo(r, "cleanup", cleanup_order["test"])
                    ELSE GoTo(r, IF terminate THEN "cleanup" ELSE "loop", 1)
      BY <1>2 DEF TokenRecv
  <2>2. /\ phase[r] # "cleanup" => phase[r] = "loop" /\ NoWork(r) /\ ~token_is_local[r]
        /\ UNCHANGED <<overlap, ABORT_FLAG>>
      BY <1>2 DEF TokenRecv, InLoop, InCleanup
  <2>. DEFINE terminate == t.colour = "TERMINATE" \/ (r = 0 /\ t.colour = "WHITE")
              forward == terminate /\ r < N - 1 /\ ~ABORT_FLAG[r]
  <2>3. UNCHANGED <<queue, replies>>
      BY <2>1 DEF GoTo
  <2>4. Received(r, t, terminate, forward)
      BY <2>1, <2>2, <2>3 DEF Received, GoTo
  <2>5. terminate \in BOOLEAN /\ forward \in BOOLEAN
      OBVIOUS
  <2>. HIDE DEF terminate, forward
  <2>. QED
      BY <2>4, <2>5
<1>. QED
    BY <1>1, <1>2 DEF TermCheck

(* Only a termination check moves the token, and only one ends the work    *)
(* loop of a rank.                                                         *)
LEMMA OnlyTokenLeaves ==
    ASSUME WorkerTypes, [Next]_vars, ~\E r \in Rank : TermCheck(r)
    PROVE  /\ UNCHANGED <<token_is_local, token_buf, tokens, overlap>>
           /\ token_proc' = token_proc \/ \E r \in Rank : Serve(r) /\ Recolour(r, replies' \ replies)
           /\ \A q \in Rank : (phase'[q] = "loop") <=> (phase[q] = "loop")
<1>0. phase \in [Rank -> Phase]
    BY DEF WorkerTypes
<1>1. /\ UNCHANGED <<token_is_local, token_buf, tokens, overlap>>
      /\ token_proc' = token_proc \/ \E r \in Rank : Serve(r) /\ Recolour(r, replies' \ replies)
    BY DEF Next, Step, WorkReq, WorkReceipt, Recolour, AbortCheck, AbortReplies, RequestWork,
           ProcessItem, LoopAgain, BarrierStart, BarrierTest, CleanupIteration, TokenTest,
           AbortReduce, Done, vars, ringVars
<1>2. ASSUME NEW r \in Rank, NEW ph, phase' = [phase EXCEPT ![r] = ph],
             (ph = "loop") <=> (phase[r] = "loop")
      PROVE  \A q \in Rank : (phase'[q] = "loop") <=> (phase[q] = "loop")
    BY <1>0, <1>2
<1>3. ASSUME NEW r \in Rank, WorkReq(r) \/ WorkReceipt(r) \/ RequestWork(r) \/ ProcessItem(r)
      PROVE  phase' = phase
    BY <1>3 DEF WorkReq, Serve, WorkReceipt, CountReceipts, RequestWork, Ask, ProcessItem, Work,
       CIRCLE_workreq_check, CIRCLE_workreceipt_check, SendRequest, ReceiveReply, Process
<1>4. ASSUME NEW r \in Rank, AbortCheck(r) \/ AbortReplies(r)
      PROVE  phase' = [phase EXCEPT ![r] = phase[r]]
    BY <1>4 DEF AbortCheck, Flood, AbortReplies, FloodEnds, CIRCLE_abort_check, AbortTest, GoTo
<1>5. ASSUME NEW r \in Rank, LoopAgain(r)
      PROVE  phase[r] = "loop" /\ phase' = [phase EXCEPT ![r] = "loop"]
    BY <1>5 DEF LoopAgain, GoTo
<1>6. ASSUME NEW r \in Rank,
             BarrierStart(r) \/ BarrierTest(r) \/ CleanupIteration(r) \/ AbortReduce(r)
      PROVE  /\ phase[r] # "loop"
             /\ \E ph \in {"cleanup", "reduce", "await", "exit"} : phase' = [phase EXCEPT ![r] = ph]
  <2>1. CASE BarrierStart(r)
      BY <2>1 DEF BarrierStart, EnterBarrier, CIRCLE_barrier_start, InCleanup, GoTo
  <2>2. CASE CleanupIteration(r)
      BY <2>2 DEF CleanupIteration, CleanupAgain, TokenTest, InCleanup, GoTo
  <2>3. CASE BarrierTest(r)
      BY <2>3 DEF BarrierTest, TestBarrier, BarrierGather, BarrierResult, BarrierWait,
         BarrierSendUp, BarrierComplete, InCleanup, GoTo
  <2>4. CASE AbortReduce(r)
      BY <2>4 DEF AbortReduce, Vote, AbortReduceUp, AbortReduceDown, Finish, GoTo
  <2>. QED
      BY <1>6, <2>1, <2>2, <2>3, <2>4
<1>7. ASSUME UNCHANGED vars PROVE phase' = phase
    BY <1>7 DEF vars, workerVars, workVars
<1>8. ASSUME NEW r \in Rank, Step(r)
      PROVE  \A q \in Rank : (phase'[q] = "loop") <=> (phase[q] = "loop")
  <2>1. \/ WorkReq(r) \/ WorkReceipt(r) \/ RequestWork(r) \/ ProcessItem(r)
        \/ AbortCheck(r) \/ AbortReplies(r) \/ LoopAgain(r)
        \/ BarrierStart(r) \/ BarrierTest(r) \/ CleanupIteration(r) \/ AbortReduce(r)
      BY <1>8 DEF Step
  <2>. QED
      BY <2>1, <1>2, <1>3, <1>4, <1>5, <1>6
<1>. QED
    BY <1>1, <1>7, <1>8 DEF Next, Done

(* Each action of each rank keeps the state well typed.                    *)
LEMMA RingTypeStep == TypeOK /\ [Next]_vars => TypeOK'
<1>. SUFFICES ASSUME TypeOK, [Next]_vars PROVE TypeOK'
    OBVIOUS
<1>0. /\ token_is_local \in [Rank -> BOOLEAN]
      /\ token_proc \in [Rank -> Colour]
      /\ token_buf \in [Rank -> Colour]
      /\ token_send_req \in [Rank -> BOOLEAN]
      /\ tokens \in SUBSET [src : Rank, colour : Colour]
      /\ overlap \in BOOLEAN /\ WorkerTypes
    BY DEF TypeOK
<1>1. WorkerTypes'
    BY <1>0, RingStepWorks, WorkerTypesStep
<1>2. token_send_req' \in [Rank -> BOOLEAN]
  <2>1. ASSUME NEW r \in Rank, TermCheck(r) PROVE token_send_req' \in [Rank -> BOOLEAN]
    <3>1. CASE TokenPass(r)
        BY <1>0, <3>1 DEF TokenPass
    <3>2. CASE TokenRecv(r)
      <4>1. PICK t \in tokens : \E b \in BOOLEAN : token_send_req' = [token_send_req EXCEPT ![r] = b]
          BY <3>2 DEF TokenRecv
      <4>. QED
          BY <1>0, <4>1
    <3>. QED
        BY <2>1, <3>1, <3>2 DEF TermCheck
  <2>2. ASSUME NEW r \in Rank, CleanupIteration(r) PROVE token_send_req' \in [Rank -> BOOLEAN]
      BY <1>0, <2>2 DEF CleanupIteration, TokenTest, ringVars
  <2>3. \/ \E r \in Rank : TermCheck(r) \/ CleanupIteration(r)
        \/ UNCHANGED token_send_req
      BY DEF Next, Step, WorkReq, WorkReceipt, Recolour, AbortCheck, AbortReplies, RequestWork,
             ProcessItem, LoopAgain, BarrierStart, BarrierTest, AbortReduce, Done, vars, ringVars
  <2>. QED
      BY <1>0, <2>1, <2>2, <2>3
<1>3. ASSUME NEW r \in Rank, TermCheck(r) PROVE TypeOK'
  <2>1. ASSUME NEW colour \in Colour, Passed(r, colour) PROVE TypeOK'
    <3>1. [src |-> r, colour |-> colour] \in [src : Rank, colour : Colour]
        OBVIOUS
    <3>2. "WHITE" \in Colour
        BY DEF Colour
    <3>. QED
        BY <1>0, <1>1, <1>2, <2>1, <3>1, <3>2 DEF Passed, TypeOK
  <2>2. ASSUME NEW t \in tokens, NEW terminate \in BOOLEAN, NEW forward \in BOOLEAN,
               Received(r, t, terminate, forward)
        PROVE  TypeOK'
    <3>1. [src |-> r, colour |-> "TERMINATE"] \in [src : Rank, colour : Colour]
        BY DEF Colour
    <3>2. "WHITE" \in Colour /\ "TERMINATE" \in Colour /\ t.colour \in Colour
        BY <1>0 DEF Colour
    <3>3. token_proc' \in [Rank -> Colour] /\ token_buf' \in [Rank -> Colour]
        BY <1>0, <2>2, <3>2 DEF Received
    <3>4. tokens' \in SUBSET [src : Rank, colour : Colour]
        BY <1>0, <2>2, <3>1 DEF Received
    <3>5. token_is_local' \in [Rank -> BOOLEAN] /\ overlap' \in BOOLEAN
        BY <1>0, <2>2 DEF Received
    <3>. QED
        BY <1>1, <1>2, <3>3, <3>4, <3>5 DEF TypeOK
  <2>. QED
      BY <1>3, <2>1, <2>2, TokenCases
<1>4. CASE ~\E r \in Rank : TermCheck(r)
  <2>1. /\ UNCHANGED <<token_is_local, token_buf, tokens, overlap>>
        /\ token_proc' = token_proc \/ \E r \in Rank : Serve(r) /\ Recolour(r, replies' \ replies)
      BY <1>0, <1>4, OnlyTokenLeaves
  <2>2. "BLACK" \in Colour
      BY DEF Colour
  <2>3. token_proc' \in [Rank -> Colour]
      BY <1>0, <2>1, <2>2 DEF Recolour
  <2>. QED
      BY <1>0, <1>1, <1>2, <2>1, <2>3 DEF TypeOK
<1>. QED
    BY <1>3, <1>4

(* Every variable keeps its declared type.                                 *)
THEOREM RingTypeCorrect == Spec => []TypeOK
BY RingTypeInit, RingTypeStep, PTL DEF Spec

-----------------------------------------------------------------------------
(* One token.                                                              *)

(* Rank 0 starts with the token, and everyone in the work loop.            *)
LEMMA RingInitially == Init => Ring
<1>. SUFFICES ASSUME Init PROVE Ring
    OBVIOUS
<1>1. /\ tokens = {}
      /\ \A r \in Rank : token_is_local[r] <=> r = 0
      /\ \A r \in Rank : token_buf[r] = "BLACK" /\ phase[r] = "loop"
    BY DEF Init, WorkerInit, WorkInit, RingInit
<1>. QED
    BY <1>1, RankFacts DEF Ring

(* A rank that receives a token is in the work loop, the token was the     *)
(* only one and nobody held it, and the ranks that have left are the ones  *)
(* below it, if it says TERMINATE, and none otherwise.                     *)
LEMMA ReceivedFacts ==
    ASSUME TypeOK, Ring, NEW r \in Rank, NEW t \in tokens,
           NEW terminate \in BOOLEAN, NEW forward \in BOOLEAN, Received(r, t, terminate, forward)
    PROVE  /\ phase[r] = "loop" /\ NoWork(r)
           /\ tokens = {t} /\ \A q \in Rank : ~token_is_local[q]
           /\ t.colour = "TERMINATE" => r # 0 /\ \A q \in Rank : phase[q] # "loop" <=> q < r
           /\ t.colour # "TERMINATE" => \A q \in Rank : phase[q] = "loop"
           /\ r # 0 => t.src = r - 1
           /\ r = 0 => t.src = N - 1
           /\ phase' = [phase EXCEPT ![r] = IF terminate THEN "cleanup" ELSE "loop"]
<1>. USE RankFacts
<1>0. t.src \in Rank /\ N \in Nat /\ N > 0 /\ \A q \in Rank : q \in Nat /\ q < N
    BY NAssumption DEF TypeOK, Rank
<1>1. (r # 0 => t.src = r - 1) /\ (r = 0 => t.src = N - 1)
    BY <1>0, RingFacts DEF Received
<1>2. t.colour = "TERMINATE" => t.src < N - 1 /\ \A q \in Rank : phase[q] # "loop" <=> q <= t.src
    BY DEF Ring
<1>3. t.colour = "TERMINATE" => r # 0
    BY <1>0, <1>1, <1>2
<1>4. t.colour = "TERMINATE" => \A q \in Rank : phase[q] # "loop" <=> q < r
    BY <1>0, <1>1, <1>2, <1>3
<1>5. t.colour # "TERMINATE" => \A q \in Rank : phase[q] = "loop"
    BY DEF Ring
<1>6. phase[r] = "loop"
    BY <1>0, <1>4, <1>5
<1>7. tokens = {t} /\ \A q \in Rank : ~token_is_local[q]
    BY DEF Ring
<1>8. NoWork(r) /\ phase' = [phase EXCEPT ![r] = IF terminate THEN "cleanup" ELSE "loop"]
    BY <1>6 DEF Received
<1>. QED
    BY <1>1, <1>3, <1>4, <1>5, <1>6, <1>7, <1>8

(* The token is not lost and not duplicated, and the TERMINATE token goes  *)
(* from one rank that has left to the next that has not.                   *)
LEMMA RingStep ==
    ASSUME TypeOK, Ring, [Next]_vars
    PROVE  Ring'
<1>. USE RankFacts
<1>a. /\ WorkerTypes
      /\ token_is_local \in [Rank -> BOOLEAN] /\ token_buf \in [Rank -> Colour]
    BY DEF TypeOK
<1>b. phase \in [Rank -> Phase]
    BY <1>a DEF WorkerTypes
<1>c. N \in Nat /\ N > 0 /\ \A q \in Rank : q \in Nat /\ q < N
    BY NAssumption DEF Rank
<1>0. /\ phase \in [Rank -> Phase] /\ WorkerTypes
      /\ token_is_local \in [Rank -> BOOLEAN] /\ token_buf \in [Rank -> Colour]
      /\ N \in Nat /\ N > 0 /\ \A q \in Rank : q \in Nat /\ q < N
    BY <1>a, <1>b, <1>c
<1>1. CASE ~\E r \in Rank : TermCheck(r)
  <2>1. /\ UNCHANGED <<token_is_local, token_buf, tokens>>
        /\ \A q \in Rank : (phase'[q] = "loop") <=> (phase[q] = "loop")
      BY <1>0, <1>1, OnlyTokenLeaves
  <2>. QED
      BY <2>1 DEF Ring
<1>2. ASSUME NEW r \in Rank, NEW colour \in Colour, Passed(r, colour) PROVE Ring'
  <2>1. /\ token_is_local[r] /\ phase[r] = "loop" /\ tokens = {}
        /\ \A q \in Rank : token_is_local[q] => q = r
        /\ \A q \in Rank : phase[q] = "loop"
        /\ token_buf[r] # "TERMINATE"
      BY <1>2 DEF Passed, Ring
  <2>2. colour # "TERMINATE"
      BY <1>2, <2>1 DEF Passed
  <2>3. \A q \in Rank : phase'[q] = "loop"
      BY <1>0, <1>2, <2>1 DEF Passed
  <2>4. token_buf'[r] = colour
      BY <1>0, <1>2 DEF Passed
  <2>5. CASE UNCHANGED <<tokens, token_is_local, overlap>>
    <3>1. tokens' = {} /\ token_is_local' = token_is_local
        BY <2>1, <2>5
    <3>. QED
        BY <2>1, <2>2, <2>3, <2>4, <3>1 DEF Ring
  <2>6. CASE /\ tokens' = tokens \cup {[src |-> r, colour |-> colour]}
             /\ token_is_local' = [token_is_local EXCEPT ![r] = FALSE]
    <3>1. tokens' = {[src |-> r, colour |-> colour]}
        BY <2>1, <2>6
    <3>2. \A q \in Rank : ~token_is_local'[q]
        BY <1>0, <2>1, <2>6
    <3>3. \A t \in tokens' : t.colour # "TERMINATE"
        BY <2>2, <3>1
    <3>. QED
        BY <2>3, <3>1, <3>2, <3>3 DEF Ring
  <2>. QED
      BY <1>2, <2>5, <2>6 DEF Passed
<1>3. ASSUME NEW r \in Rank, NEW t \in tokens, NEW terminate \in BOOLEAN, NEW forward \in BOOLEAN,
             Received(r, t, terminate, forward)
      PROVE  Ring'
  <2>1. /\ phase[r] = "loop"
        /\ tokens = {t} /\ \A q \in Rank : ~token_is_local[q]
        /\ t.colour = "TERMINATE" => \A q \in Rank : phase[q] # "loop" <=> q < r
        /\ t.colour # "TERMINATE" => \A q \in Rank : phase[q] = "loop"
        /\ phase' = [phase EXCEPT ![r] = IF terminate THEN "cleanup" ELSE "loop"]
      BY <1>3, ReceivedFacts
  <2>2. /\ terminate = (t.colour = "TERMINATE" \/ (r = 0 /\ t.colour = "WHITE"))
        /\ forward = (terminate /\ r < N - 1 /\ ~ABORT_FLAG[r])
        /\ token_buf' = [token_buf EXCEPT ![r] = IF terminate THEN "TERMINATE" ELSE t.colour]
        /\ tokens' = (tokens \ {t}) \cup
              (IF forward THEN {[src |-> r, colour |-> "TERMINATE"]} ELSE {})
        /\ token_is_local' = [token_is_local EXCEPT ![r] = ~forward]
      BY <1>3 DEF Received
  <2>3. ASSUME terminate PROVE \A q \in Rank : phase'[q] # "loop" <=> q <= r
    <3>1. \A q \in Rank : phase[q] # "loop" <=> q < r
        BY <1>0, <2>1, <2>2, <2>3
    <3>. QED
        BY <1>0, <2>1, <2>3, <3>1
  <2>4. ASSUME ~terminate PROVE t.colour # "TERMINATE" /\ \A q \in Rank : phase'[q] = "loop"
      BY <1>0, <2>1, <2>2, <2>4
  <2>5. CASE forward
    <3>1. tokens' = {[src |-> r, colour |-> "TERMINATE"]}
        BY <2>1, <2>2, <2>5
    <3>2. \A q \in Rank : ~token_is_local'[q]
        BY <1>0, <2>1, <2>2, <2>5
    <3>3. r < N - 1 /\ \A q \in Rank : phase'[q] # "loop" <=> q <= r
        BY <2>2, <2>3, <2>5
    <3>4. \A u \in tokens' : u.colour = "TERMINATE" /\ u.src = r
        BY <3>1
    <3>. QED
        BY <3>1, <3>2, <3>3, <3>4 DEF Ring
  <2>6. CASE ~forward
    <3>1. tokens' = {} /\ \A q \in Rank : token_is_local'[q] <=> q = r
        BY <1>0, <2>1, <2>2, <2>6
    <3>2. phase'[r] = "loop" => ~terminate
        BY <1>0, <2>3
    <3>3. phase'[r] = "loop" => token_buf'[r] # "TERMINATE" /\ \A q \in Rank : phase'[q] = "loop"
        BY <1>0, <2>2, <2>4, <3>2
    <3>. QED
        BY <3>1, <3>3 DEF Ring
  <2>. QED
      BY <2>5, <2>6
<1>. QED
    BY <1>1, <1>2, <1>3, TokenCases

(* The ring keeps its shape.                                               *)
LEMMA RingHolds == Spec => [](TypeOK /\ Ring)
<1>1. Init => TypeOK /\ Ring
    BY RingTypeInit, RingInitially
<1>2. (TypeOK /\ Ring) /\ [Next]_vars => (TypeOK /\ Ring)'
    BY RingTypeStep, RingStep
<1>. QED
    BY <1>1, <1>2, PTL DEF Spec

(* There is one token, and none is on its way to a rank that has left the  *)
(* work loop.                                                              *)
LEMMA RingHasOneToken ==
    ASSUME TypeOK, Ring
    PROVE  OneToken
<1>. USE RankFacts
<1>. DEFINE H == {r \in Rank : token_is_local[r]}
<1>0. N \in Nat /\ N > 0 /\ (\A q \in Rank : q \in Nat /\ q < N) /\ \A t \in tokens : t.src \in Rank
    BY NAssumption DEF TypeOK, Rank
<1>1. Cardinality(H) + Cardinality(tokens) = 1
  <2>1. CASE tokens = {}
    <3>1. PICK r \in Rank : token_is_local[r]
        BY <2>1 DEF Ring
    <3>2. H = {r}
        BY <3>1 DEF Ring
    <3>3. Cardinality(H) = 1 /\ Cardinality(tokens) = 0
        BY <2>1, <3>2, FS_Singleton, FS_EmptySet
    <3>. QED
        BY <3>3
  <2>2. CASE tokens # {}
    <3>1. PICK t \in tokens : TRUE
        BY <2>2
    <3>2. tokens = {t} /\ H = {}
        BY <3>1 DEF Ring
    <3>3. Cardinality(H) = 0 /\ Cardinality(tokens) = 1
        BY <3>2, FS_Singleton, FS_EmptySet
    <3>. QED
        BY <3>3
  <2>. QED
      BY <2>1, <2>2
<1>2. ASSUME NEW t \in tokens PROVE phase[token_dest(t.src)] = "loop"
  <2>1. t.src \in Rank /\ token_dest(t.src) \in Rank
        /\ token_dest(t.src) = (IF t.src = N - 1 THEN 0 ELSE t.src + 1)
      BY <1>0, RingFacts
  <2>2. CASE t.colour = "TERMINATE"
    <3>1. t.src < N - 1 /\ \A q \in Rank : phase[q] # "loop" <=> q <= t.src
        BY <2>2 DEF Ring
    <3>2. token_dest(t.src) = t.src + 1
        BY <1>0, <2>1, <3>1
    <3>3. ~(token_dest(t.src) <= t.src)
      <4>1. t.src \in Nat
          BY <1>0
      <4>. QED
          BY <3>2, <4>1
    <3>. QED
        BY <2>1, <3>1, <3>3
  <2>3. CASE t.colour # "TERMINATE"
      BY <2>1, <2>3 DEF Ring
  <2>. QED
      BY <2>2, <2>3
<1>. QED
    BY <1>1, <1>2 DEF OneToken

(* The MPI_Wait in CIRCLE_token_recv never blocks, and its "ERROR" branch, *)
(* a token received by the rank that holds it, is never taken.             *)
THEOREM OneTokenHolds == Spec => []OneToken
BY RingHolds, RingHasOneToken, PTL

(* When all ranks have returned, nothing but receipts is left to reach the *)
(* next call of CIRCLE_begin.                                              *)
THEOREM OnlyReceiptsLeftHolds == Spec => []OnlyReceiptsLeft
<1>1. WorkerInv /\ (TypeOK /\ Ring) => OnlyReceiptsLeft
  <2>. SUFFICES ASSUME WorkerInv, TypeOK, Ring, \A r \in Rank : phase[r] = "exit"
       PROVE  /\ requests = {} /\ replies = {} /\ tokens = {} /\ barriers = {}
              /\ abort_requests = {} /\ abort_replies = {} /\ abort_reduces = {}
      BY DEF OnlyReceiptsLeft
  <2>1. abort_reduces = {} /\ barriers = {}
      BY AllVoted
  <2>2. requests = {} /\ replies = {} /\ abort_requests = {} /\ abort_replies = {}
      BY RankFacts, CleanPast DEF Past
  <2>3. \A t \in tokens : token_dest(t.src) \in Rank /\ phase[token_dest(t.src)] = "loop"
      BY RingHasOneToken, RingFacts DEF OneToken, TypeOK
  <2>. QED
      BY <2>1, <2>2, <2>3
<1>2. Spec => []WorkerInv
    BY RingImplementsWorker, WorkerInvHolds, PTL
<1>. QED
    BY <1>1, <1>2, RingHolds, PTL

-----------------------------------------------------------------------------
(* Where work can come from, however termination is detected.              *)

(* A rank without work gets some only from a transfer to it.               *)
LEMMA NoWorkKept ==
    ASSUME WorkerInv, [WorkerNext]_workerVars, NEW q \in Rank, NoWork(q),
           \A m \in replies : m.items # {} => m.dst # q
    PROVE  NoWork(q)'
<1>0. WorkerTypes /\ queue \in [Rank -> SUBSET Item]
    BY DEF WorkerInv, WorkerTypes
<1>1. CASE ABORT_FLAG[q]
    BY <1>1, AbortKept DEF NoWork
<1>2. CASE ~ABORT_FLAG[q]
  <2>0. queue[q] = {}
      BY <1>2 DEF NoWork
  <2>1. ASSUME NEW r \in Rank, Serve(r) PROVE queue'[q] = {}
    <3>1. PICK S \in SUBSET Requestors(r) : \E g \in [S -> SUBSET queue[r]], a \in BOOLEAN :
              Served(r, S, g, a)
        BY <1>0, <2>1, ServedByWorkReq
    <3>2. PICK g \in [S -> SUBSET queue[r]] : queue' = [queue EXCEPT ![r] = @ \ UNION {g[s] : s \in S}]
        BY <3>1 DEF Served
    <3>. QED
        BY <1>0, <2>0, <3>2
  <2>2. ASSUME NEW r \in Rank, CountReceipts(r) PROVE queue'[q] = {}
      BY <2>0, <2>2 DEF CountReceipts, CIRCLE_workreceipt_check
  <2>3. ASSUME NEW r \in Rank, Ask(r) PROVE queue'[q] = {}
    <3>1. CASE SendRequest(r)
        BY <2>0, <3>1 DEF SendRequest
    <3>2. CASE ReceiveReply(r)
      <4>1. PICK m \in replies :
                m.dst = r /\ queue' = [queue EXCEPT ![r] = IF m.items = {} THEN @ ELSE m.items]
          BY <3>2 DEF ReceiveReply
      <4>. QED
          BY <1>0, <2>0, <4>1
    <3>. QED
        BY <2>3, <3>1, <3>2 DEF Ask
  <2>4. ASSUME NEW r \in Rank, Work(r) PROVE queue'[q] = {}
    <3>1. queue[r] # {} /\ \E Q : queue' = [queue EXCEPT ![r] = Q]
        BY <2>4 DEF Work, Process
    <3>. QED
        BY <1>0, <2>0, <3>1
  <2>5. ASSUME NEW r \in Rank, NEW flag, NEW rest, Finish(r, flag, rest) PROVE queue'[q] = {}
      BY <1>0, <2>0, <2>5 DEF Finish
  <2>6. ASSUME UNCHANGED distVars PROVE queue'[q] = {}
      BY <2>0, <2>6 DEF distVars
  <2>. QED
      BY <2>1, <2>2, <2>3, <2>4, <2>5, <2>6, DistSteps DEF NoWork
<1>. QED
    BY <1>1, <1>2

(* Only CIRCLE_workreq_check sends work, and only from a rank that has     *)
(* some.                                                                   *)
LEMMA TransferSteps ==
    ASSUME WorkerInv, [Next]_vars
    PROVE  \/ replies' \subseteq replies
           \/ \E r \in Rank :
                 /\ WorkReq(r)
                 /\ \A m \in replies' : m \in replies \/
                       (m.src = r /\ (m.items # {} => phase[r] = "loop" /\ ~NoWork(r)))
<1>0. WorkerTypes /\ Conversation
    BY DEF WorkerInv
<1>1. ASSUME NEW r \in Rank, WorkReq(r)
      PROVE  \A m \in replies' : m \in replies \/
                (m.src = r /\ (m.items # {} => phase[r] = "loop" /\ ~NoWork(r)))
  <2>1. Serve(r)
      BY <1>1 DEF WorkReq
  <2>2. PICK S \in SUBSET Requestors(r) : \E g \in [S -> SUBSET queue[r]], a \in BOOLEAN :
              /\ Served(r, S, g, a)
              /\ \/ \A s \in S : g[s] = {}
                 \/ phase[r] = "loop" /\ queue[r] # {} /\ ~ABORT_FLAG[r]
      BY <1>0, <2>1, ServedByWorkReq
  <2>3. PICK g \in [S -> SUBSET queue[r]], a \in BOOLEAN :
              /\ Served(r, S, g, a)
              /\ \/ \A s \in S : g[s] = {}
                 \/ phase[r] = "loop" /\ queue[r] # {} /\ ~ABORT_FLAG[r]
      BY <2>2
  <2>4. \A m \in replies' : (m \in replies /\ m.dst \notin S) \/
             (/\ m.dst \in S /\ m.src = r
              /\ m = [src |-> r, dst |-> m.dst, items |-> g[m.dst], abort |-> a])
      BY <1>0, <2>3, ServedReplies
  <2>5. ASSUME NEW m \in replies', m \notin replies
        PROVE  m.src = r /\ (m.items # {} => phase[r] = "loop" /\ ~NoWork(r))
    <3>1. m.dst \in S /\ m.src = r /\ m.items = g[m.dst]
        BY <2>4, <2>5
    <3>. QED
        BY <2>3, <3>1 DEF NoWork
  <2>. QED
      BY <2>5
<1>2. ASSUME NEW r \in Rank, CountReceipts(r) \/ Ask(r) \/ Work(r) PROVE replies' \subseteq replies
    BY <1>2 DEF CountReceipts, CIRCLE_workreceipt_check, Ask, SendRequest, ReceiveReply, Work, Process
<1>3. ASSUME NEW r \in Rank, NEW flag, NEW rest, Finish(r, flag, rest) PROVE replies' \subseteq replies
    BY <1>3 DEF Finish
<1>4. ASSUME NEW r \in Rank, Step(r), ~WorkReq(r) PROVE replies' \subseteq replies
  <2>1. ASSUME AbortCheck(r) \/ AbortReplies(r) PROVE replies' \subseteq replies
      BY <2>1 DEF AbortCheck, Flood, AbortReplies, FloodEnds, CIRCLE_abort_check, AbortTest, GoTo
  <2>2. ASSUME TermCheck(r) \/ LoopAgain(r) \/ CleanupIteration(r) PROVE replies' \subseteq replies
      BY <2>2, TokenTurns DEF Turn, GoTo
  <2>3. ASSUME BarrierStart(r) \/ BarrierTest(r) PROVE replies' \subseteq replies
      BY <2>3 DEF BarrierStart, EnterBarrier, BarrierTest, TestBarrier, CIRCLE_barrier_start,
         BarrierGather, BarrierResult, BarrierWait, BarrierSendUp, BarrierComplete, GoTo
  <2>4. ASSUME AbortReduce(r) PROVE replies' \subseteq replies
      BY <1>3, <2>4 DEF AbortReduce, Vote, AbortReduceUp, AbortReduceDown, GoTo
  <2>. QED
      BY <1>2, <1>4, <2>1, <2>2, <2>3, <2>4 DEF Step, WorkReceipt, RequestWork, ProcessItem
<1>5. ASSUME Done \/ UNCHANGED vars PROVE replies' \subseteq replies
    BY <1>5 DEF Done, vars, workerVars, workVars
<1>. QED
    BY <1>1, <1>4, <1>5 DEF Next

(* A work request handled with work sent to a lower rank leaves the sender *)
(* black; nobody else changes colour.                                      *)
LEMMA SenderBlack ==
    ASSUME TypeOK, NEW r \in Rank, WorkReq(r)
    PROVE  /\ \A q \in Rank : token_proc[q] = "BLACK" => token_proc'[q] = "BLACK"
           /\ \A m \in replies' : m \notin replies /\ m.items # {} /\ m.dst < r =>
                 token_proc'[r] = "BLACK"
<1>1. token_proc \in [Rank -> Colour]
    BY DEF TypeOK
<1>2. token_proc' =
         [token_proc EXCEPT ![r] = IF Blackens(r, replies' \ replies) THEN "BLACK" ELSE @]
    BY DEF WorkReq, Recolour
<1>3. ASSUME NEW m \in replies', m \notin replies, m.items # {}, m.dst < r
      PROVE  Blackens(r, replies' \ replies)
    BY <1>3 DEF Blackens
<1>. QED
    BY <1>1, <1>2, <1>3

-----------------------------------------------------------------------------
(* Termination.                                                            *)

RingBase == WorkerInv /\ TypeOK /\ Ring

RingSafety == Debts /\ RingRound /\ RingSafeUnlessOverlap

(* Facts the steps below share: who is a rank, and what the token has      *)
(* passed.                                                                 *)
LEMMA RingBaseFacts ==
    ASSUME RingBase
    PROVE  /\ N \in Nat /\ N > 0 /\ \A q \in Rank : q \in Nat /\ q < N
           /\ \A m \in replies : m.src \in Rank /\ m.dst \in Rank
           /\ \A t \in tokens : t.src \in Rank /\ t.colour \in Colour
           /\ \A q, r \in Rank : Behind(q) /\ ~Behind(r) => q < r
           /\ phase \in [Rank -> Phase]
           /\ token_is_local \in [Rank -> BOOLEAN]
           /\ token_buf \in [Rank -> Colour]
           /\ token_proc \in [Rank -> Colour]
           /\ overlap \in BOOLEAN
<1>1. N \in Nat /\ N > 0 /\ \A q \in Rank : q \in Nat /\ q < N
    BY NAssumption DEF Rank
<1>2. WorkerTypes /\ TypeOK
    BY DEF RingBase, TypeOK
<1>3. \A m \in replies : m.src \in Rank /\ m.dst \in Rank
    BY <1>2 DEF WorkerTypes
<1>4. \A t \in tokens : t.src \in Rank /\ t.colour \in Colour
    BY <1>2 DEF TypeOK
<1>5. ASSUME NEW q \in Rank, NEW r \in Rank, Behind(q), ~Behind(r) PROVE q < r
  <2>0. q \in Nat /\ r \in Nat
      BY <1>1
  <2>1. ASSUME NEW s \in Rank, token_is_local[s], q < s PROVE q < r
    <3>1. ~(r < s) /\ s \in Nat
        BY <1>1, <1>5, <2>1 DEF Behind
    <3>. QED
        BY <2>0, <2>1, <3>1
  <2>2. ASSUME NEW t \in tokens, q <= t.src PROVE q < r
    <3>1. ~(r <= t.src) /\ t.src \in Nat
        BY <1>1, <1>4, <1>5, <2>2 DEF Behind
    <3>. QED
        BY <2>0, <2>2, <3>1
  <2>. QED
      BY <1>5, <2>1, <2>2 DEF Behind
<1>6. phase \in [Rank -> Phase]
    BY <1>2 DEF WorkerTypes
<1>7. /\ token_is_local \in [Rank -> BOOLEAN] /\ token_buf \in [Rank -> Colour]
      /\ token_proc \in [Rank -> Colour] /\ overlap \in BOOLEAN
    BY <1>2 DEF TypeOK
<1>. QED
    BY <1>1, <1>3, <1>4, <1>5, <1>6, <1>7

(* No step but a termination check makes a black rank white.               *)
LEMMA ColourKept ==
    ASSUME RingBase, [Next]_vars, ~\E r \in Rank : TermCheck(r),
           NEW q \in Rank, token_proc[q] = "BLACK"
    PROVE  token_proc'[q] = "BLACK"
<1>1. token_proc' = token_proc \/ \E r \in Rank : WorkReq(r)
    BY OnlyTokenLeaves DEF RingBase, TypeOK, WorkReq
<1>2. TypeOK
    BY DEF RingBase
<1>. QED
    BY <1>1, <1>2, SenderBlack

(* A token that is passed on without overlap leaves no transfer behind.    *)
LEMMA PassedOn ==
    ASSUME RingBase, [Next]_vars, NEW r \in Rank, NEW colour \in Colour, Passed(r, colour), ~overlap'
    PROVE  /\ ~overlap
           /\ \/ tokens' = tokens /\ token_is_local' = token_is_local
              \/ /\ tokens' = tokens \cup {[src |-> r, colour |-> colour]}
                 /\ token_is_local' = [token_is_local EXCEPT ![r] = FALSE]
                 /\ Transfer(r) = {}
<1>1. \/ tokens' = tokens /\ token_is_local' = token_is_local /\ overlap' = overlap
      \/ /\ tokens' = tokens \cup {[src |-> r, colour |-> colour]}
         /\ token_is_local' = [token_is_local EXCEPT ![r] = FALSE]
         /\ overlap' = (overlap \/ Transfer(r) # {})
    BY DEF Passed
<1>2. overlap \in BOOLEAN /\ overlap' \in BOOLEAN
    BY RingTypeStep DEF RingBase, TypeOK
<1>. QED
    BY <1>1, <1>2

(* When rank 0 finds the token white at the end of a round, or a later     *)
(* rank learns of it, no rank has work and none is in flight.              *)
LEMMA Announced ==
    ASSUME RingBase, RingSafety, ~overlap, NEW r \in Rank, NEW t \in tokens,
           NEW terminate \in BOOLEAN, NEW forward \in BOOLEAN,
           Received(r, t, terminate, forward)
    PROVE  terminate => \A q \in Rank : NoWork(q) /\ Transfer(q) = {}
<1>. USE RankFacts
<1>0. TypeOK /\ Ring
    BY DEF RingBase
<1>1. /\ N \in Nat /\ N > 0 /\ \A q \in Rank : q \in Nat /\ q < N
      /\ t.src \in Rank
    BY RingBaseFacts
<1>2. /\ tokens = {t} /\ \A q \in Rank : ~token_is_local[q]
      /\ t.colour = "TERMINATE" => r # 0 /\ \A q \in Rank : phase[q] # "loop" <=> q < r
      /\ t.colour # "TERMINATE" => \A q \in Rank : phase[q] = "loop"
      /\ r = 0 => t.src = N - 1
    BY <1>0, ReceivedFacts
<1>3. terminate => t.colour = "TERMINATE" \/ (r = 0 /\ t.colour = "WHITE")
    BY DEF Received
<1>4. CASE t.colour = "TERMINATE"
  <2>1. phase[0] # "loop"
    <3>1. r \in Nat /\ r # 0
        BY <1>1, <1>2, <1>4
    <3>. QED
        BY <1>2, <1>4, <3>1
  <2>. QED
      BY <2>1 DEF RingSafety, RingSafeUnlessOverlap
<1>5. CASE r = 0 /\ t.colour = "WHITE"
  <2>1. ASSUME NEW q \in Rank PROVE Behind(q)
    <3>1. q \in Nat /\ q < N /\ t.src = N - 1
        BY <1>1, <1>2, <1>5
    <3>2. q <= t.src
        BY <1>1, <3>1
    <3>. QED
        BY <3>2 DEF Behind
  <2>2. ~TokenBlack
      BY <1>2, <1>5 DEF TokenBlack
  <2>3. \A q \in Rank : phase[q] = "loop"
      BY <1>2, <1>5
  <2>4. \A q \in Rank : Settled(q)
      BY <2>1, <2>2, <2>3 DEF RingSafety, RingRound
  <2>. QED
      BY <2>4 DEF Settled, Transfer
<1>. QED
    BY <1>3, <1>4, <1>5

(* A rank that sends work to a lower rank is black until the receiver has  *)
(* it, or has made the token black.                                        *)
LEMMA DebtsStep ==
    ASSUME RingBase, RingSafety, [Next]_vars
    PROVE  Debts'
<1>. SUFFICES ASSUME ~overlap', NEW m \in replies', m.items # {}, m.dst < m.src
     PROVE  \/ token_proc'[m.src] = "BLACK"
            \/ token_is_local'[m.src] /\ token_buf'[m.src] = "BLACK"
    BY DEF Debts
<1>. USE RankFacts
<1>0. TypeOK /\ Ring /\ WorkerInv /\ WorkerTypes
    BY DEF RingBase, TypeOK
<1>1. /\ \A q \in Rank : q \in Nat
      /\ \A n \in replies : n.src \in Rank /\ n.dst \in Rank
      /\ token_is_local \in [Rank -> BOOLEAN] /\ token_buf \in [Rank -> Colour]
      /\ token_proc \in [Rank -> Colour]
    BY RingBaseFacts
<1>2. ASSUME ~overlap, m \in replies
      PROVE  \/ token_proc[m.src] = "BLACK"
             \/ token_is_local[m.src] /\ token_buf[m.src] = "BLACK"
    BY <1>2 DEF RingSafety, Debts
<1>3. CASE ~\E r \in Rank : TermCheck(r)
  <2>1. UNCHANGED <<token_is_local, token_buf, tokens, overlap>>
      BY <1>0, <1>3, OnlyTokenLeaves
  <2>2. CASE m \in replies
      BY <1>1, <1>2, <1>3, <2>1, <2>2, ColourKept
  <2>3. CASE m \notin replies
    <3>1. PICK r \in Rank : WorkReq(r) /\ m.src = r
        BY <1>0, <2>3, TransferSteps
    <3>. QED
        BY <1>0, <2>3, <3>1, SenderBlack
  <2>. QED
      BY <2>2, <2>3
<1>4. ASSUME NEW r \in Rank, NEW colour \in Colour, Passed(r, colour)
      PROVE  \/ token_proc'[m.src] = "BLACK"
             \/ token_is_local'[m.src] /\ token_buf'[m.src] = "BLACK"
  <2>1. /\ token_buf' = [token_buf EXCEPT ![r] = colour]
        /\ token_proc' = [token_proc EXCEPT ![r] = "WHITE"]
        /\ replies' = replies
        /\ token_is_local[r]
      BY <1>4 DEF Passed
  <2>a. ~overlap /\ (token_is_local' = token_is_local \/ Transfer(r) = {})
      BY <1>4, PassedOn
  <2>2. m \in replies /\ m.src \in Rank /\ m.dst \in Rank
      BY <1>1, <2>1
  <2>3. CASE m.src = r
    <3>1. m \in Transfer(r)
        BY <2>2, <2>3 DEF Transfer
    <3>2. token_is_local' = token_is_local
        BY <2>a, <3>1
    <3>3. r # 0
      <4>1. m.dst \in Nat
          BY <1>1, <2>2
      <4>. QED
          BY <2>3, <4>1
    <3>4. token_proc[r] = "BLACK" \/ token_buf[r] = "BLACK"
        BY <1>2, <2>a, <2>2, <2>3
    <3>5. colour = "BLACK"
        BY <1>4, <3>3, <3>4 DEF Passed
    <3>. QED
        BY <1>1, <2>1, <2>3, <3>2, <3>5
  <2>4. CASE m.src # r
    <3>1. ~token_is_local[m.src]
        BY <1>0, <2>1, <2>2, <2>4 DEF Ring
    <3>2. token_proc[m.src] = "BLACK"
        BY <1>2, <2>a, <2>2, <3>1
    <3>. QED
        BY <1>1, <2>1, <2>2, <2>4, <3>2
  <2>. QED
      BY <2>3, <2>4
<1>5. ASSUME NEW r \in Rank, NEW t \in tokens, NEW terminate \in BOOLEAN, NEW forward \in BOOLEAN,
             Received(r, t, terminate, forward)
      PROVE  \/ token_proc'[m.src] = "BLACK"
             \/ token_is_local'[m.src] /\ token_buf'[m.src] = "BLACK"
  <2>1. \A q \in Rank : ~token_is_local[q]
      BY <1>0, <1>5, ReceivedFacts
  <2>2. /\ forward = (terminate /\ r < N - 1 /\ ~ABORT_FLAG[r])
        /\ token_buf' = [token_buf EXCEPT ![r] = IF terminate THEN "TERMINATE" ELSE t.colour]
        /\ token_proc' = [token_proc EXCEPT
              ![r] = IF terminate THEN "TERMINATE"
                     ELSE IF @ = "BLACK" /\ t.colour = "BLACK" THEN "WHITE" ELSE @]
        /\ token_is_local' = [token_is_local EXCEPT ![r] = ~forward]
        /\ ~overlap /\ replies' = replies
      BY <1>5 DEF Received
  <2>3. m \in replies /\ m.src \in Rank
      BY <1>1, <2>2
  <2>4. ~terminate
    <3>1. m \in Transfer(m.src)
        BY <2>3 DEF Transfer
    <3>. QED
        BY <1>5, <2>2, <2>3, <3>1, Announced
  <2>5. token_proc[m.src] = "BLACK"
      BY <1>2, <2>1, <2>2, <2>3
  <2>. QED
      BY <1>1, <2>2, <2>3, <2>4, <2>5
<1>. QED
    BY <1>0, <1>3, <1>4, <1>5, TokenCases

(* A rank the token has passed stays settled unless a black rank ahead of  *)
(* the token sends it work.                                                *)
LEMMA SettledStep ==
    ASSUME RingBase, [Next]_vars, ~\E r \in Rank : TermCheck(r),
           \A q \in Rank : Behind(q) => Settled(q)
    PROVE  \/ \A q \in Rank : Behind(q) => Settled(q)'
           \/ \E q \in Rank : ~Behind(q) /\ token_proc'[q] = "BLACK"
<1>0. TypeOK /\ WorkerInv /\ WorkerTypes
    BY DEF RingBase, TypeOK
<1>1. /\ \A n \in replies : n.src \in Rank /\ n.dst \in Rank
      /\ \A q, r \in Rank : Behind(q) /\ ~Behind(r) => q < r
    BY RingBaseFacts
<1>2. \A q \in Rank : Behind(q) => NoWork(q)'
    BY <1>0, NoWorkKept, RingStepWorks DEF Settled
<1>3. CASE replies' \subseteq replies
  <2>1. \A q \in Rank : Behind(q) => Settled(q)'
      BY <1>2, <1>3 DEF Settled
  <2>. QED
      BY <2>1
<1>4. ASSUME NEW r \in Rank, WorkReq(r),
             \A m \in replies' : m \in replies \/
                (m.src = r /\ (m.items # {} => phase[r] = "loop" /\ ~NoWork(r)))
      PROVE  \/ \A q \in Rank : Behind(q) => Settled(q)'
             \/ \E q \in Rank : ~Behind(q) /\ token_proc'[q] = "BLACK"
  <2>. SUFFICES ASSUME NEW q \in Rank, Behind(q), ~Settled(q)'
       PROVE  ~Behind(r) /\ token_proc'[r] = "BLACK"
      OBVIOUS
  <2>1. PICK m \in replies' : m.items # {} /\ (m.src = q \/ m.dst = q)
      BY <1>2 DEF Settled
  <2>2. m \notin replies
      BY <2>1 DEF Settled
  <2>3. m.src = r /\ ~NoWork(r)
      BY <1>4, <2>1, <2>2
  <2>4. ~Behind(r)
      BY <2>3 DEF Settled
  <2>5. m.dst = q /\ q < r
      BY <1>1, <2>1, <2>3, <2>4
  <2>. QED
      BY <1>0, <1>4, <2>1, <2>2, <2>4, <2>5, SenderBlack
<1>. QED
    BY <1>0, <1>3, <1>4, TransferSteps

(* A round that is not bound to fail has settled the ranks it has passed:  *)
(* passing the token on settles the rank that passes it.                   *)
LEMMA RoundPassed ==
    ASSUME RingBase, RingSafety, [Next]_vars, ~overlap',
           NEW r \in Rank, NEW colour \in Colour, Passed(r, colour)
    PROVE  \/ \A q \in Rank : Behind(q)' => Settled(q)'
           \/ \E q \in Rank : ~Behind(q)' /\ token_proc'[q] = "BLACK"
           \/ TokenBlack'
<1>. USE RankFacts
<1>0. Ring /\ TypeOK
    BY DEF RingBase
<1>1. /\ N \in Nat /\ \A q \in Rank : q \in Nat /\ q < N
      /\ \A m \in replies : m.src \in Rank /\ m.dst \in Rank
      /\ token_is_local \in [Rank -> BOOLEAN] /\ token_buf \in [Rank -> Colour]
      /\ token_proc \in [Rank -> Colour]
    BY RingBaseFacts
<1>2. /\ tokens = {} /\ token_is_local[r]
      /\ \A q \in Rank : token_is_local[q] => q = r
      /\ \A q \in Rank : phase[q] = "loop"
    BY <1>0 DEF Passed, Ring
<1>3. /\ NoWork(r)
      /\ colour = (IF r = 0 THEN "WHITE" ELSE IF token_proc[r] = "BLACK" THEN "BLACK" ELSE token_buf[r])
      /\ token_buf' = [token_buf EXCEPT ![r] = colour]
      /\ token_proc' = [token_proc EXCEPT ![r] = "WHITE"]
      /\ UNCHANGED <<queue, replies, ABORT_FLAG>>
    BY DEF Passed
<1>4. /\ ~overlap
      /\ \/ tokens' = tokens /\ token_is_local' = token_is_local
         \/ /\ tokens' = tokens \cup {[src |-> r, colour |-> colour]}
            /\ token_is_local' = [token_is_local EXCEPT ![r] = FALSE]
            /\ Transfer(r) = {}
    BY PassedOn
<1>5. \A q \in Rank : Behind(q) <=> q < r
    BY <1>2 DEF Behind
<1>6. \A q \in Rank : NoWork(q)' <=> NoWork(q)
    BY <1>3 DEF NoWork
<1>7. \A q \in Rank : Settled(q)' <=> Settled(q)
    BY <1>3, <1>6 DEF Settled
<1>8. \/ \A q \in Rank : q < r => Settled(q)
      \/ \E q \in Rank : ~(q < r) /\ token_proc[q] = "BLACK"
      \/ TokenBlack
    BY <1>2, <1>4, <1>5 DEF RingSafety, RingRound
<1>9. TokenBlack => token_buf[r] = "BLACK"
    BY <1>2 DEF TokenBlack
<1>10. CASE tokens' = tokens /\ token_is_local' = token_is_local
  <2>1. \A q \in Rank : Behind(q)' <=> q < r
      BY <1>5, <1>10 DEF Behind
  <2>2. CASE r = 0
    <3>1. \A q \in Rank : ~Behind(q)'
        BY <1>1, <2>1, <2>2
    <3>. QED
        BY <3>1
  <2>3. CASE r # 0
    <3>1. ASSUME colour = "BLACK" PROVE TokenBlack'
        BY <1>1, <1>2, <1>3, <1>10, <3>1 DEF TokenBlack
    <3>2. CASE \A q \in Rank : q < r => Settled(q)
        BY <1>7, <2>1, <3>2
    <3>3. ASSUME NEW q \in Rank, ~(q < r), token_proc[q] = "BLACK"
          PROVE  TokenBlack' \/ \E p \in Rank : ~Behind(p)' /\ token_proc'[p] = "BLACK"
      <4>1. CASE q = r
          BY <1>3, <2>3, <3>1, <3>3, <4>1
      <4>2. CASE q # r
        <5>1. token_proc'[q] = "BLACK"
            BY <1>1, <1>3, <3>3, <4>2
        <5>. QED
            BY <2>1, <3>3, <5>1
      <4>. QED
          BY <4>1, <4>2
    <3>4. CASE TokenBlack
        BY <1>3, <1>9, <2>3, <3>1, <3>4
    <3>. QED
        BY <1>8, <3>2, <3>3, <3>4
  <2>. QED
      BY <2>2, <2>3
<1>11. CASE /\ tokens' = tokens \cup {[src |-> r, colour |-> colour]}
            /\ token_is_local' = [token_is_local EXCEPT ![r] = FALSE]
            /\ Transfer(r) = {}
  <2>1. tokens' = {[src |-> r, colour |-> colour]} /\ \A q \in Rank : ~token_is_local'[q]
      BY <1>1, <1>2, <1>11
  <2>2. \A q \in Rank : Behind(q)' <=> q <= r
      BY <2>1 DEF Behind
  <2>3. ASSUME colour = "BLACK" PROVE TokenBlack'
      BY <2>1, <2>3 DEF TokenBlack
  <2>4. ASSUME NEW q \in Rank, r < q, token_proc[q] = "BLACK"
        PROVE  ~Behind(q)' /\ token_proc'[q] = "BLACK"
    <3>1. q \in Nat /\ r \in Nat
        BY <1>1
    <3>2. ~(q <= r) /\ q # r
        BY <2>4, <3>1
    <3>. QED
        BY <1>1, <1>3, <2>2, <2>4, <3>2
  <2>5. CASE \E q \in Rank : r < q /\ token_proc[q] = "BLACK"
      BY <2>4, <2>5
  <2>6. ASSUME \A q \in Rank : q < r => Settled(q), ~\E q \in Rank : r < q /\ token_proc[q] = "BLACK"
        PROVE  \A q \in Rank : Behind(q)' => Settled(q)'
    <3>1. ASSUME NEW m \in replies, m.items # {} PROVE m.src # r /\ m.dst # r
      <4>0. m.src \in Rank /\ m.dst \in Rank /\ m.src \in Nat /\ m.dst \in Nat /\ r \in Nat
          BY <1>1
      <4>1. m.src # r
          BY <1>11, <3>1 DEF Transfer
      <4>2. ASSUME m.dst = r PROVE FALSE
        <5>1. ~(m.src < r)
            BY <2>6, <3>1, <4>0 DEF Settled
        <5>2. r < m.src
            BY <4>0, <4>1, <5>1
        <5>3. ~token_is_local[m.src]
            BY <1>2, <4>0, <4>1
        <5>4. token_proc[m.src] = "BLACK"
            BY <1>4, <3>1, <4>2, <5>2, <5>3 DEF RingSafety, Debts
        <5>. QED
            BY <2>6, <4>0, <5>2, <5>4
      <4>. QED
          BY <4>1, <4>2
    <3>2. Settled(r)
        BY <1>3, <3>1 DEF Settled
    <3>3. \A q \in Rank : q <= r => q < r \/ q = r
        BY <1>1
    <3>. QED
        BY <1>7, <2>2, <2>6, <3>2, <3>3
  <2>7. CASE r = 0
    <3>1. \A q \in Rank : ~(q < r)
        BY <1>1, <2>7
    <3>. QED
        BY <2>5, <2>6, <3>1
  <2>8. CASE r # 0
    <3>1. token_proc[r] = "BLACK" \/ token_buf[r] = "BLACK" => TokenBlack'
        BY <1>3, <2>3, <2>8
    <3>2. \A q \in Rank : ~(q < r) => q = r \/ r < q
        BY <1>1
    <3>. QED
        BY <1>8, <1>9, <2>5, <2>6, <3>1, <3>2
  <2>. QED
      BY <2>7, <2>8
<1>. QED
    BY <1>4, <1>10, <1>11

(* The round goes on as it was when a rank receives the token; a black     *)
(* rank that turns white has a black token in its hands.                   *)
LEMMA RoundReceived ==
    ASSUME RingBase, RingSafety, ~overlap', NEW r \in Rank, NEW t \in tokens,
           NEW terminate \in BOOLEAN, NEW forward \in BOOLEAN,
           Received(r, t, terminate, forward), ~terminate
    PROVE  \/ \A q \in Rank : Behind(q)' => Settled(q)'
           \/ \E q \in Rank : ~Behind(q)' /\ token_proc'[q] = "BLACK"
           \/ TokenBlack'
<1>. USE RankFacts
<1>0. Ring /\ TypeOK
    BY DEF RingBase
<1>1. /\ N \in Nat /\ \A q \in Rank : q \in Nat /\ q < N
      /\ t.src \in Rank /\ t.colour \in Colour
      /\ token_is_local \in [Rank -> BOOLEAN] /\ token_buf \in [Rank -> Colour]
      /\ token_proc \in [Rank -> Colour]
    BY RingBaseFacts
<1>2. /\ t.colour # "TERMINATE" /\ ~(r = 0 /\ t.colour = "WHITE")
      /\ token_buf' = [token_buf EXCEPT ![r] = t.colour]
      /\ token_proc' = [token_proc EXCEPT
            ![r] = IF @ = "BLACK" /\ t.colour = "BLACK" THEN "WHITE" ELSE @]
      /\ tokens' = tokens \ {t}
      /\ token_is_local' = [token_is_local EXCEPT ![r] = TRUE]
      /\ ~overlap
      /\ UNCHANGED <<queue, replies, ABORT_FLAG>>
    BY DEF Received
<1>3. /\ tokens = {t} /\ \A q \in Rank : ~token_is_local[q]
      /\ \A q \in Rank : phase[q] = "loop"
      /\ r # 0 => t.src = r - 1
    BY <1>0, <1>2, ReceivedFacts
<1>4. tokens' = {} /\ \A q \in Rank : token_is_local'[q] <=> q = r
    BY <1>1, <1>2, <1>3
<1>5. CASE t.colour = "BLACK"
  <2>1. token_is_local'[r] /\ token_buf'[r] = "BLACK"
      BY <1>1, <1>2, <1>4, <1>5
  <2>. QED
      BY <2>1 DEF TokenBlack
<1>6. CASE t.colour # "BLACK"
  <2>1. t.colour = "WHITE" /\ r # 0
      BY <1>1, <1>2, <1>6 DEF Colour
  <2>2. token_proc' = token_proc
      BY <1>1, <1>2, <1>6
  <2>3. ASSUME NEW q \in Rank PROVE Behind(q)' <=> Behind(q)
    <3>1. Behind(q) <=> q <= t.src
        BY <1>3 DEF Behind
    <3>2. Behind(q)' <=> q < r
        BY <1>4 DEF Behind
    <3>3. q \in Nat /\ r \in Nat /\ t.src = r - 1
        BY <1>1, <1>3, <2>1
    <3>4. q < r <=> q <= t.src
        BY <3>3
    <3>. QED
        BY <3>1, <3>2, <3>4
  <2>4. \A q \in Rank : Settled(q)' <=> Settled(q)
    <3>1. \A q \in Rank : NoWork(q)' <=> NoWork(q)
        BY <1>2 DEF NoWork
    <3>. QED
        BY <1>2, <3>1 DEF Settled
  <2>5. ~TokenBlack
      BY <1>3, <2>1 DEF TokenBlack
  <2>. QED
      BY <1>2, <1>3, <2>2, <2>3, <2>4, <2>5 DEF RingSafety, RingRound
<1>. QED
    BY <1>5, <1>6

(* The invariant of the rounds.                                            *)
LEMMA RingRoundStep ==
    ASSUME RingBase, RingSafety, [Next]_vars
    PROVE  RingRound'
<1>. SUFFICES ASSUME ~overlap', \A q \in Rank : phase'[q] = "loop"
     PROVE  \/ \A q \in Rank : Behind(q)' => Settled(q)'
            \/ \E q \in Rank : ~Behind(q)' /\ token_proc'[q] = "BLACK"
            \/ TokenBlack'
    BY DEF RingRound
<1>0. TypeOK /\ Ring /\ WorkerTypes
    BY DEF RingBase, TypeOK
<1>1. CASE ~\E r \in Rank : TermCheck(r)
  <2>1. UNCHANGED <<token_is_local, token_buf, tokens, overlap>>
        /\ \A q \in Rank : (phase'[q] = "loop") <=> (phase[q] = "loop")
      BY <1>0, <1>1, OnlyTokenLeaves
  <2>2. ~overlap /\ \A q \in Rank : phase[q] = "loop"
      BY <2>1
  <2>3. \A q \in Rank : Behind(q)' <=> Behind(q)
      BY <2>1 DEF Behind
  <2>4. TokenBlack => TokenBlack'
      BY <2>1 DEF TokenBlack
  <2>5. \/ \A q \in Rank : Behind(q) => Settled(q)
        \/ \E q \in Rank : ~Behind(q) /\ token_proc[q] = "BLACK"
        \/ TokenBlack
      BY <2>2 DEF RingSafety, RingRound
  <2>6. CASE \A q \in Rank : Behind(q) => Settled(q)
      BY <1>1, <2>3, <2>6, SettledStep
  <2>7. CASE \E q \in Rank : ~Behind(q) /\ token_proc[q] = "BLACK"
      BY <1>1, <2>3, <2>7, ColourKept
  <2>. QED
      BY <2>4, <2>5, <2>6, <2>7
<1>2. ASSUME NEW r \in Rank, NEW colour \in Colour, Passed(r, colour)
      PROVE  \/ \A q \in Rank : Behind(q)' => Settled(q)'
             \/ \E q \in Rank : ~Behind(q)' /\ token_proc'[q] = "BLACK"
             \/ TokenBlack'
    BY <1>2, RoundPassed
<1>3. ASSUME NEW r \in Rank, NEW t \in tokens, NEW terminate \in BOOLEAN, NEW forward \in BOOLEAN,
             Received(r, t, terminate, forward)
      PROVE  \/ \A q \in Rank : Behind(q)' => Settled(q)'
             \/ \E q \in Rank : ~Behind(q)' /\ token_proc'[q] = "BLACK"
             \/ TokenBlack'
  <2>1. phase \in [Rank -> Phase]
      BY <1>0 DEF WorkerTypes
  <2>2. phase' = [phase EXCEPT ![r] = IF terminate THEN "cleanup" ELSE "loop"]
      BY <1>0, <1>3, ReceivedFacts
  <2>3. ~terminate
      BY <2>1, <2>2
  <2>. QED
      BY <1>3, <2>3, RoundReceived
<1>. QED
    BY <1>0, <1>1, <1>2, <1>3, TokenCases

(* A rank leaves the work loop only when no rank has work, and then none   *)
(* gets any.                                                               *)
LEMMA RingSafeStep ==
    ASSUME RingBase, RingSafety, [Next]_vars
    PROVE  RingSafeUnlessOverlap'
<1>. SUFFICES ASSUME NEW z \in Rank, phase'[z] # "loop", ~overlap'
     PROVE  \A q \in Rank : NoWork(q)' /\ Transfer(q)' = {}
    BY DEF RingSafeUnlessOverlap
<1>0. TypeOK /\ Ring /\ WorkerTypes /\ WorkerInv /\ phase \in [Rank -> Phase]
    BY DEF RingBase, TypeOK, WorkerTypes
<1>1. \A m \in replies : m.src \in Rank /\ m.dst \in Rank
    BY RingBaseFacts
<1>2. ASSUME \A q \in Rank : NoWork(q) /\ Transfer(q) = {}
      PROVE  \A q \in Rank : NoWork(q)' /\ Transfer(q)' = {}
  <2>1. \A m \in replies : m.items = {}
      BY <1>1, <1>2 DEF Transfer
  <2>2. \A q \in Rank : NoWork(q)'
      BY <1>0, <1>2, <2>1, NoWorkKept, RingStepWorks
  <2>3. \A m \in replies' : m.items = {}
      BY <1>0, <1>2, <2>1, TransferSteps
  <2>. QED
      BY <2>2, <2>3 DEF Transfer
<1>3. ASSUME ~overlap, NEW q \in Rank, phase[q] # "loop"
      PROVE  \A p \in Rank : NoWork(p)' /\ Transfer(p)' = {}
    BY <1>2, <1>3 DEF RingSafety, RingSafeUnlessOverlap
<1>4. CASE ~\E r \in Rank : TermCheck(r)
    BY <1>0, <1>3, <1>4, OnlyTokenLeaves
<1>5. ASSUME NEW r \in Rank, NEW colour \in Colour, Passed(r, colour)
      PROVE  \A p \in Rank : NoWork(p)' /\ Transfer(p)' = {}
  <2>1. ~overlap
      BY <1>5, PassedOn
  <2>2. phase[z] # "loop"
      BY <1>0, <1>5 DEF Passed
  <2>. QED
      BY <1>3, <2>1, <2>2
<1>6. ASSUME NEW r \in Rank, NEW t \in tokens, NEW terminate \in BOOLEAN, NEW forward \in BOOLEAN,
             Received(r, t, terminate, forward)
      PROVE  \A p \in Rank : NoWork(p)' /\ Transfer(p)' = {}
  <2>1. ~overlap
      BY <1>6 DEF Received
  <2>2. phase' = [phase EXCEPT ![r] = IF terminate THEN "cleanup" ELSE "loop"]
      BY <1>0, <1>6, ReceivedFacts
  <2>3. terminate => \A q \in Rank : NoWork(q) /\ Transfer(q) = {}
      BY <1>6, <2>1, Announced
  <2>4. ~terminate => phase[z] # "loop"
      BY <1>0, <2>2
  <2>. QED
      BY <1>2, <1>3, <2>1, <2>3, <2>4
<1>. QED
    BY <1>0, <1>4, <1>5, <1>6, TokenCases

(* As long as no rank passed the token on over a work transfer of its own, *)
(* a rank leaves the work loop only after all work is done, for any number *)
(* of ranks and items, in any order of the messages.                       *)
THEOREM RingSafeUnlessOverlapHolds == Spec => []RingSafeUnlessOverlap
<1>1. Spec => []WorkerInv
    BY RingImplementsWorker, WorkerInvHolds, PTL
<1>2. WorkerInv /\ TypeOK /\ Ring => RingBase
    BY DEF RingBase
<1>3. Init => RingSafety
  <2>. SUFFICES ASSUME Init PROVE RingSafety
      OBVIOUS
  <2>1. replies = {} /\ token_is_local[0] /\ token_buf[0] = "BLACK" /\ 0 \in Rank
        /\ \A r \in Rank : phase[r] = "loop"
      BY RankFacts DEF Init, RingInit, WorkerInit, WorkInit
  <2>. QED
      BY <2>1 DEF RingSafety, Debts, RingRound, RingSafeUnlessOverlap, TokenBlack
<1>4. RingBase /\ RingSafety /\ [Next]_vars => RingSafety'
    BY DebtsStep, RingRoundStep, RingSafeStep DEF RingSafety
<1>5. RingSafety => RingSafeUnlessOverlap
    BY DEF RingSafety
<1>. QED
    BY <1>1, <1>2, <1>3, <1>4, <1>5, RingHolds, PTL DEF Spec

(* Work is left unprocessed without an abort only after such an overlap:   *)
(* what the run ring_lost finds cannot happen in any other way.            *)
THEOREM RingLosesOnlyByOverlap == Spec => [](~overlap => AllProcessed)
<1>1. WorkerInv /\ RingSafeUnlessOverlap => (~overlap => AllProcessed)
  <2>. SUFFICES ASSUME WorkerInv, RingSafeUnlessOverlap, ~overlap,
                       \A r \in Rank : phase[r] = "exit" /\ ~ABORT_FLAG[r]
       PROVE  processed = created
      BY DEF AllProcessed
  <2>1. \A m \in replies : m.src \in Rank
      BY DEF WorkerInv, WorkerTypes
  <2>2. \A q \in Rank : queue[q] = {} /\ Transfer(q) = {}
      BY RankFacts DEF RingSafeUnlessOverlap, NoWork
  <2>3. \A m \in replies : m.items = {}
      BY <2>1, <2>2 DEF Transfer
  <2>4. checkpointed = {}
      BY RankFacts DEF WorkerInv, DumpsAfterVote
  <2>5. (UNION {queue[r] : r \in Rank}) = {} /\ (UNION {m.items : m \in replies}) = {}
      BY <2>2, <2>3
  <2>6. created = processed \cup checkpointed
                  \cup (UNION {queue[r] : r \in Rank}) \cup (UNION {m.items : m \in replies})
      BY DEF WorkerInv, WorkConserved
  <2>. QED
      BY <2>4, <2>5, <2>6
<1>2. Spec => []WorkerInv
    BY RingImplementsWorker, WorkerInvHolds, PTL
<1>. QED
    BY <1>1, <1>2, RingSafeUnlessOverlapHolds, PTL
=============================================================================
