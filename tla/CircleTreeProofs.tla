-------------------------- MODULE CircleTreeProofs --------------------------
(***************************************************************************)
(* Proofs about the worker with tree termination detection: the rounds of  *)
(* the allreduce keep in step with the tree, a TRUE result means that all  *)
(* work is done, the ranks that have left the work loop have nothing left  *)
(* to receive there, and the run ends cleanly.                             *)
(***************************************************************************)
EXTENDS CircleTreeInv, CircleWorkerProofs

-----------------------------------------------------------------------------
(* The tree worker is a CircleWorker.                                      *)

(* A termination check, and the end of an iteration, is a turn.            *)
LEMMA TermTurns ==
    ASSUME NEW r \in Rank, TermCheck(r) \/ LoopAgain(r) \/ CleanupIteration(r)
    PROVE  Turn(r)
<1>1. 1 \in 1 .. MaxPc
    BY DEF MaxPc
<1>2. CASE LoopAgain(r)
    BY <1>1, <1>2 DEF LoopAgain, Turn
<1>3. CASE CleanupIteration(r)
    BY <1>1, <1>3 DEF CleanupIteration, CleanupAgain, Turn
<1>4. CASE TermCheck(r)
  <2>1. phase[r] = "loop" /\ UNCHANGED <<ABORT_FLAG, abortVars, barrierVars>>
      BY <1>4 DEF TermCheck, TermGather, TermResult, InLoop
  <2>2. After(r, "tail") \in 1 .. MaxPc
      BY <2>1 DEF After, loop_order, MaxPc
  <2>3. \E p \in 1 .. MaxPc : GoTo(r, "loop", p) \/ GoTo(r, "cleanup", p)
    <3>1. ASSUME NEW flag, NEW rest, TermComplete(r, flag, rest)
          PROVE  GoTo(r, "loop", 1) \/ GoTo(r, "cleanup", 1)
        BY <3>1 DEF TermComplete
    <3>. QED
        BY <1>1, <1>4, <2>2, <3>1 DEF TermCheck, TermGather, TermResult, TermWait, TermSendUp,
           TermDecide
  <2>. QED
      BY <2>1, <2>3 DEF Turn
<1>. QED
    BY <1>2, <1>3, <1>4

(* Every step of the tree worker is a step of CircleWorker, or none.       *)
LEMMA TreeStepWorks == [Next]_vars => [WorkerNext]_workerVars
<1>. SUFFICES ASSUME [Next]_vars PROVE [WorkerNext]_workerVars
    OBVIOUS
<1>1. ASSUME NEW r \in Rank, Step(r) PROVE WorkerStep(r)
    BY <1>1, TermTurns DEF Step, WorkerStep, WorkReq, WorkReceipt, AbortCheck, AbortReplies,
       RequestWork, ProcessItem, BarrierStart, BarrierTest, AbortReduce
<1>2. CASE Done \/ UNCHANGED vars
    BY <1>2 DEF Done, vars
<1>. QED
    BY <1>1, <1>2 DEF Next, WorkerNext

(* So what holds of CircleWorker holds with tree termination detection.    *)
THEOREM TreeImplementsWorker == Spec => WorkerSpec
<1>1. Init => WorkerInit
    BY DEF Init
<1>. QED
    BY <1>1, TreeStepWorks, PTL DEF Spec, WorkerSpec

(* The initial state is well typed.                                        *)
LEMMA TypeInit == Init => TypeOK
<1>. SUFFICES ASSUME Init PROVE TypeOK
    OBVIOUS
<1>1. WorkerTypes
    BY WorkerTypesInit DEF Init
<1>. QED
    BY <1>1 DEF Init, TermInit, TypeOK

(* The variables of the allreduce.                                         *)
TermTypes ==
    /\ terms \in SUBSET Flags
    /\ term_up \in [Rank -> BOOLEAN]
    /\ term_replies \in [Rank -> Nat]
    /\ term_flag \in [Rank -> BOOLEAN]
    /\ sense \in [Rank -> BOOLEAN]

(* Each action of each rank keeps the state well typed.                    *)
LEMMA TypeStep == TypeOK /\ [Next]_vars => TypeOK'
<1>. SUFFICES ASSUME TypeOK, [Next]_vars PROVE TypeOK'
    OBVIOUS
<1>. USE RankFacts
<1>1. WorkerTypes'
    BY TreeStepWorks, WorkerTypesStep DEF TypeOK
<1>2. TermTypes
    BY DEF TypeOK, TermTypes
<1>3. ASSUME NEW r \in Rank, TermCheck(r) PROVE TermTypes'
  <2>1. ASSUME NEW flag \in BOOLEAN, NEW rest \in SUBSET Flags, TermComplete(r, flag, rest)
        PROVE  /\ terms' \in SUBSET Flags
               /\ term_up' \in [Rank -> BOOLEAN]
               /\ term_replies' \in [Rank -> Nat]
               /\ sense' \in [Rank -> BOOLEAN]
    <3>1. \A c \in child_ranks(r) : [src |-> r, dst |-> c, flag |-> flag] \in Flags
        BY ChildrenCount DEF Flags
    <3>2. terms' \in SUBSET Flags
        BY <2>1, <3>1 DEF TermComplete
    <3>. QED
        BY <1>2, <2>1, <3>2 DEF TermComplete, TermTypes
  <2>2. CASE TermResult(r)
    <3>1. PICK m \in terms : TermComplete(r, m.flag, terms \ {m})
        BY <2>2 DEF TermResult
    <3>2. m.flag \in BOOLEAN /\ terms \ {m} \in SUBSET Flags
        BY <1>2 DEF Flags, TermTypes
    <3>. QED
        BY <1>2, <2>1, <2>2, <3>1, <3>2 DEF TermResult, TermTypes
  <2>3. CASE TermGather(r)
    <3>1. PICK from \in SUBSET TermSources(r) :
             \/ TermWait(r, from)
             \/ r # 0 /\ TermSendUp(r, from)
             \/ TermDecide(r, from)
        BY <2>3 DEF TermGather
    <3>2. TermFlag(r, from) \in BOOLEAN
        BY <1>2 DEF TermFlag, TermTypes
    <3>3. TermCount(r, from) \in Nat
      <4>1. from \in SUBSET Rank
          BY DEF TermSources
      <4>. QED
          BY <1>2, <4>1 DEF TermCount, TermTypes
    <3>4. terms \ TermGot(r, from) \in SUBSET Flags
        BY <1>2 DEF TermTypes
    <3>5. CASE TermWait(r, from)
        BY <1>2, <3>2, <3>3, <3>4, <3>5 DEF TermWait, TermTypes
    <3>6. CASE r # 0 /\ TermSendUp(r, from)
      <4>1. [src |-> r, dst |-> parent_rank(r), flag |-> TermFlag(r, from)] \in Flags
          BY <3>2, <3>6, ParentBelow DEF Flags
      <4>2. terms' \in SUBSET Flags
          BY <3>4, <3>6, <4>1 DEF TermSendUp
      <4>. QED
          BY <1>2, <3>3, <3>6, <4>2 DEF TermSendUp, TermTypes
    <3>7. CASE TermDecide(r, from)
        BY <1>2, <2>1, <3>2, <3>4, <3>7 DEF TermDecide, TermTypes
    <3>. QED
        BY <3>1, <3>5, <3>6, <3>7
  <2>. QED
      BY <1>3, <2>2, <2>3 DEF TermCheck
<1>4. ASSUME NEW r \in Rank, WorkReceipt(r) PROVE TermTypes'
    BY <1>2, <1>4 DEF WorkReceipt, ForceRound, TermTypes
<1>5. ASSUME UNCHANGED termVars PROVE TermTypes'
    BY <1>2, <1>5 DEF termVars, TermTypes
<1>6. \/ \E r \in Rank : TermCheck(r) \/ WorkReceipt(r)
      \/ UNCHANGED termVars
    BY DEF Next, Step, WorkReq, AbortCheck, AbortReplies, RequestWork, ProcessItem, LoopAgain,
       BarrierStart, BarrierTest, CleanupIteration, AbortReduce, Done, vars
<1>7. TermTypes'
    BY <1>3, <1>4, <1>5, <1>6
<1>. QED
    BY <1>1, <1>7 DEF TypeOK, TermTypes

(* Every variable keeps its declared type.                                 *)
THEOREM TypeCorrect == Spec => []TypeOK
BY TypeInit, TypeStep, PTL DEF Spec

(* A rank is in at most one conversation, with the rank it waits for.      *)
THEOREM OneConversationHolds == Spec => []OneConversation
BY TreeImplementsWorker, WorkerConverses, PTL

(* The unacknowledged transfers of a rank are those in flight, and those   *)
(* whose receipt is.                                                       *)
THEOREM ReceiptsBalanceHolds == Spec => []ReceiptsBalance
BY TreeImplementsWorker, WorkerBalances, PTL

(* No item is lost or duplicated.                                          *)
THEOREM WorkConservedHolds == Spec => []WorkConserved
BY TreeImplementsWorker, WorkerConserves, PTL

-----------------------------------------------------------------------------
(* The rounds of the allreduce.                                            *)

(* The rounds start with no message and nobody waiting.                    *)
LEMMA RoundsInit == Init => TermRounds
<1>. SUFFICES ASSUME Init PROVE TermRounds
    OBVIOUS
<1>1. /\ terms = {}
      /\ \A r \in Rank : ~term_up[r] /\ term_replies[r] = 0 /\ ~sense[r]
    BY DEF Init, WorkerInit, TermInit
<1>2. \A p \in Rank : child_ranks(p) \in SUBSET Rank
    BY TreeFacts
<1>3. ASSUME NEW p \in Rank PROVE Replied(p) = {}
    BY <1>1, <1>2 DEF Replied
<1>4. ASSUME NEW p \in Rank PROVE term_replies[p] = Cardinality(Replied(p))
    BY <1>1, <1>3, FS_EmptySet
<1>5. \A c \in Rank : c # 0 => parent_rank(c) \in Rank
    BY TreeFacts
<1>6. \A c \in Rank : c # 0 => sense[c] = sense[parent_rank(c)]
    BY <1>5 DEF Init, WorkerInit, TermInit
<1>7. \A q \in Rank : sense[q] = sense[0]
    BY RankFacts DEF Init, WorkerInit, TermInit
<1>. QED
    BY <1>1, <1>4, <1>6, <1>7, RankFacts DEF TermRounds

(* What a rank that takes TERM messages finds: as long as replies are      *)
(* missing, all the messages to it are flags of children in its round.     *)
LEMMA GatherFacts ==
    ASSUME TypeOK, TermRounds, NEW r \in Rank, NEW from \in SUBSET TermSources(r),
           TermCount(r, from) <= children(r), from # {} \/ ~term_up[r]
    PROVE  /\ ~term_up[r]
           /\ \A m \in terms : m.dst = r =>
                 IsUp(m) /\ m.src \in child_ranks(r) /\ term_up[m.src] /\ sense[m.src] = sense[r]
           /\ from \in SUBSET child_ranks(r)
           /\ \A c \in from : InFlight(c, r) /\ term_up[c] /\ sense[c] = sense[r]
           /\ TermCount(r, from) = Cardinality(Replied(r) \cup from)
           /\ IsFiniteSet(Replied(r) \cup from)
           /\ TermCount(r, from) = children(r) => Replied(r) \cup from = child_ranks(r)
<1>1. Replied(r) \in SUBSET Rank /\ from \in SUBSET Rank /\ Replied(r) \in SUBSET child_ranks(r)
    BY TreeFacts DEF Replied, TermSources
<1>2. /\ IsFiniteSet(Replied(r)) /\ Cardinality(Replied(r)) \in Nat
      /\ IsFiniteSet(from) /\ Cardinality(from) \in Nat
    BY <1>1, RankFacts
<1>3. term_replies[r] = Cardinality(Replied(r))
    BY DEF TermRounds
<1>4. children(r) = Cardinality(child_ranks(r)) /\ child_ranks(r) \in SUBSET Rank
    BY ChildrenCount
<1>5. ~term_up[r]
  <2>. SUFFICES ASSUME term_up[r], from # {} PROVE FALSE
      OBVIOUS
  <2>1. Replied(r) = child_ranks(r)
      BY DEF TermRounds
  <2>2. Cardinality(from) = 0
      BY <1>2, <1>3, <1>4, <2>1 DEF TermCount
  <2>. QED
      BY <1>2, <2>2, FS_EmptySet
<1>6. ASSUME NEW m \in terms, m.dst = r
      PROVE  IsUp(m) /\ m.src \in child_ranks(r) /\ term_up[m.src] /\ sense[m.src] = sense[r]
  <2>1. m.src \in Rank /\ m.dst \in Rank
      BY DEF TypeOK, WorkerTypes, Flags
  <2>2. ~IsDown(m)
      BY <1>5, <1>6 DEF TermRounds
  <2>3. IsUp(m)
      BY <2>2 DEF TermRounds
  <2>4. term_up[m.src] /\ sense[m.src] = sense[m.dst]
      BY <2>3 DEF TermRounds
  <2>5. m.src # 0 /\ m.dst = parent_rank(m.src)
      BY <2>3 DEF IsUp
  <2>. QED
      BY <1>6, <2>1, <2>3, <2>4, <2>5, TreeFacts
<1>7. \A c \in from : InFlight(c, r) /\ \E m \in terms : m.src = c /\ m.dst = r
    BY DEF TermSources, InFlight
<1>8. /\ from \in SUBSET child_ranks(r)
      /\ \A c \in from : InFlight(c, r) /\ term_up[c] /\ sense[c] = sense[r]
    BY <1>6, <1>7
<1>9. Replied(r) \cap from = {}
    BY <1>8 DEF Replied
<1>10. /\ TermCount(r, from) = Cardinality(Replied(r) \cup from)
       /\ IsFiniteSet(Replied(r) \cup from)
  <2>1. /\ IsFiniteSet(Replied(r) \cup from)
        /\ Cardinality(Replied(r) \cup from) =
              Cardinality(Replied(r)) + Cardinality(from) - Cardinality(Replied(r) \cap from)
      BY <1>2, FS_Union
  <2>2. Cardinality(Replied(r) \cap from) = 0
      BY <1>9, FS_EmptySet
  <2>. QED
      BY <1>2, <1>3, <2>1, <2>2 DEF TermCount
<1>11. ASSUME TermCount(r, from) = children(r) PROVE Replied(r) \cup from = child_ranks(r)
  <2>1. Replied(r) \cup from \in SUBSET child_ranks(r) /\ IsFiniteSet(child_ranks(r))
      BY <1>1, <1>4, <1>8, RankFacts
  <2>2. Cardinality(child_ranks(r)) = Cardinality(Replied(r) \cup from)
      BY <1>4, <1>10, <1>11
  <2>. QED
      BY <2>1, <2>2, FS_Subset
<1>. QED
    BY <1>5, <1>6, <1>8, <1>10, <1>11

(* The step that decides a round finds every other rank waiting for the    *)
(* result of that round, and no message but the ones it takes.             *)
LEMMA DecideFacts ==
    ASSUME TypeOK, TermRounds, NEW from \in SUBSET TermSources(0), TermReady(0, from)
    PROVE  /\ \A q \in Rank : q # 0 => term_up[q] /\ sense[q] = sense[0]
           /\ terms = TermGot(0, from)
<1>. USE RankFacts
<1>1. /\ ~term_up[0]
      /\ \A m \in terms : m.dst = 0 =>
            IsUp(m) /\ m.src \in child_ranks(0) /\ term_up[m.src] /\ sense[m.src] = sense[0]
      /\ \A c \in from : InFlight(c, 0) /\ term_up[c] /\ sense[c] = sense[0]
      /\ Replied(0) \cup from = child_ranks(0)
  <2>1. ~term_up[0] /\ TermCount(0, from) = children(0) /\ children(0) \in Nat
      BY ChildrenCount DEF TermReady
  <2>2. TermCount(0, from) <= children(0)
      BY <2>1
  <2>. QED
      BY <2>1, <2>2, GatherFacts
<1>2. \A q \in Rank : q # 0 => term_up[q] /\ sense[q] = sense[0]
  <2>. DEFINE Bad == {q \in Rank : q # 0 /\ ~(term_up[q] /\ sense[q] = sense[0])}
  <2>. SUFFICES ASSUME Bad # {} PROVE FALSE
      OBVIOUS
  <2>1. PICK q \in Bad : \A y \in Bad : ~(y < q)
      BY LeastRank, Bad \in SUBSET Nat
  <2>2. q \in Rank /\ q # 0
      OBVIOUS
  <2>3. parent_rank(q) \in Rank /\ parent_rank(q) < q /\ q \in child_ranks(parent_rank(q))
      BY <2>2, ParentBelow, TreeFacts
  <2>4. CASE parent_rank(q) = 0
      BY <1>1, <2>3, <2>4 DEF Replied
  <2>5. CASE parent_rank(q) # 0
    <3>1. term_up[parent_rank(q)] /\ sense[parent_rank(q)] = sense[0]
        BY <2>1, <2>3, <2>5
    <3>2. q \in Replied(parent_rank(q))
        BY <2>3, <3>1 DEF TermRounds
    <3>. QED
        BY <2>1, <3>1, <3>2 DEF Replied
  <2>. QED
      BY <2>4, <2>5
<1>3. ASSUME NEW m \in terms PROVE m \in TermGot(0, from)
  <2>1. m.src \in Rank /\ m.dst \in Rank
      BY DEF TypeOK, WorkerTypes, Flags
  <2>2. IsUp(m) \/ IsDown(m)
      BY DEF TermRounds
  <2>3. ~IsDown(m)
    <3>. SUFFICES ASSUME IsDown(m) PROVE FALSE
        OBVIOUS
    <3>1. sense[m.dst] # sense[m.src]
        BY DEF TermRounds
    <3>. QED
        BY <1>2, <2>1, <3>1
  <2>4. ~term_up[m.dst]
      BY <2>2, <2>3 DEF TermRounds
  <2>5. m.dst = 0
      BY <1>2, <2>1, <2>4
  <2>6. m.src \in child_ranks(0) /\ InFlight(m.src, 0)
      BY <1>1, <2>5 DEF InFlight
  <2>7. m.src \in from
      BY <1>1, <2>6 DEF Replied
  <2>. QED
      BY <2>5, <2>7 DEF TermGot
<1>. QED
    BY <1>2, <1>3 DEF TermGot

(* TermWait: the flags taken move from the messages to the count.          *)
LEMMA RoundsWait ==
    ASSUME TypeOK, TermRounds, NEW r \in Rank, NEW from \in SUBSET TermSources(r),
           TermCount(r, from) <= children(r), from # {}, TermWait(r, from)
    PROVE  TermRounds'
<1>1. /\ ~term_up[r]
      /\ \A m \in terms : m.dst = r =>
            IsUp(m) /\ m.src \in child_ranks(r) /\ term_up[m.src] /\ sense[m.src] = sense[r]
      /\ from \in SUBSET child_ranks(r)
      /\ \A c \in from : InFlight(c, r) /\ term_up[c] /\ sense[c] = sense[r]
      /\ TermCount(r, from) = Cardinality(Replied(r) \cup from)
    BY GatherFacts
<1>2. /\ terms' = terms \ TermGot(r, from)
      /\ term_replies' = [term_replies EXCEPT ![r] = TermCount(r, from)]
      /\ term_up' = term_up /\ sense' = sense
    BY DEF TermWait
<1>3. \A x, y : InFlight(x, y)' <=> InFlight(x, y) /\ ~(y = r /\ x \in from)
    BY <1>2 DEF InFlight, TermGot
<1>4. ASSUME NEW p \in Rank, p # r PROVE Replied(p)' = Replied(p)
    BY <1>2, <1>3, <1>4 DEF Replied
<1>5. Replied(r)' = Replied(r) \cup from
    BY <1>1, <1>2, <1>3 DEF Replied
<1>6. terms' \subseteq terms
    BY <1>2
<1>7. /\ \A m \in terms' : IsUp(m) \/ IsDown(m)
      /\ \A m, n \in terms' : m.src = n.src /\ m.dst = n.dst => m = n
      /\ \A m \in terms' : IsUp(m) =>
            term_up'[m.src] /\ sense'[m.src] = sense'[m.dst] /\ ~term_up'[m.dst]
      /\ \A m \in terms' : IsDown(m) => term_up'[m.dst] /\ sense'[m.dst] # sense'[m.src]
    BY <1>2, <1>6 DEF TermRounds
<1>8. ASSUME NEW c \in Rank, c # 0, sense'[c] # sense'[parent_rank(c)]
      PROVE  InFlight(parent_rank(c), c)'
  <2>1. InFlight(parent_rank(c), c)
      BY <1>2, <1>8 DEF TermRounds
  <2>2. c # r
      BY <1>1, <1>2, <1>8, <2>1 DEF InFlight
  <2>. QED
      BY <1>3, <2>1, <2>2
<1>9. ASSUME NEW p \in Rank, term_up'[p] PROVE Replied(p)' = child_ranks(p)
  <2>1. term_up[p] /\ p # r
      BY <1>1, <1>2, <1>9
  <2>. QED
      BY <1>4, <2>1 DEF TermRounds
<1>10. ASSUME NEW p \in Rank PROVE term_replies'[p] = Cardinality(Replied(p)')
  <2>1. CASE p = r
      BY <1>1, <1>2, <1>5, <2>1 DEF TypeOK, WorkerTypes
  <2>2. CASE p # r
    <3>1. term_replies'[p] = term_replies[p] /\ Replied(p)' = Replied(p)
        BY <1>2, <1>4, <2>2 DEF TypeOK, WorkerTypes
    <3>. QED
        BY <3>1 DEF TermRounds
  <2>. QED
      BY <2>1, <2>2
<1>11. ~term_up'[0] /\ \A q \in Rank : sense'[q] # sense'[0] => term_up'[q]
    BY <1>2 DEF TermRounds
<1>. QED
    BY <1>7, <1>8, <1>9, <1>10, <1>11 DEF TermRounds, IsUp, IsDown

(* TermSendUp: a rank that has heard from all of its children joins the    *)
(* round its parent is gathering.                                          *)
LEMMA SendUpFacts ==
    ASSUME TypeOK, TermRounds, NEW r \in Rank, r # 0, NEW from \in SUBSET TermSources(r),
           TermReady(r, from)
    PROVE  /\ ~term_up[r]
           /\ Replied(r) \cup from = child_ranks(r)
           /\ \A c \in from : InFlight(c, r) /\ term_up[c] /\ sense[c] = sense[r]
           /\ TermCount(r, from) = Cardinality(child_ranks(r))
           /\ \A m \in terms : m.dst = r => m.src \in from
           /\ sense[r] = sense[parent_rank(r)]
           /\ ~term_up[parent_rank(r)]
           /\ ~InFlight(r, parent_rank(r))
           /\ sense[r] = sense[0]
<1>1. ~term_up[r] /\ TermCount(r, from) = children(r)
    BY DEF TermReady
<1>2. TermCount(r, from) <= children(r) /\ children(r) = Cardinality(child_ranks(r))
    BY <1>1, ChildrenCount
<1>3. /\ \A m \in terms : m.dst = r =>
            IsUp(m) /\ m.src \in child_ranks(r) /\ term_up[m.src] /\ sense[m.src] = sense[r]
      /\ \A c \in from : InFlight(c, r) /\ term_up[c] /\ sense[c] = sense[r]
      /\ Replied(r) \cup from = child_ranks(r)
    BY <1>1, <1>2, GatherFacts
<1>4. parent_rank(r) \in Rank /\ r \in child_ranks(parent_rank(r))
    BY TreeFacts
<1>5. ASSUME NEW m \in terms, m.dst = r PROVE m.src \in from
    BY <1>3, <1>5 DEF Replied, InFlight
<1>6. sense[r] = sense[parent_rank(r)]
    BY <1>3 DEF TermRounds, InFlight
<1>7. ~term_up[parent_rank(r)]
  <2>. SUFFICES ASSUME term_up[parent_rank(r)] PROVE FALSE
      OBVIOUS
  <2>1. r \in Replied(parent_rank(r))
      BY <1>4 DEF TermRounds
  <2>. QED
      BY <1>1, <2>1 DEF Replied
<1>8. ~InFlight(r, parent_rank(r))
  <2>. SUFFICES ASSUME NEW m \in terms, m.src = r, m.dst = parent_rank(r) PROVE FALSE
      BY DEF InFlight
  <2>. QED
      BY <1>1 DEF TermRounds, IsUp
<1>9. sense[r] = sense[0]
    BY <1>1 DEF TermRounds
<1>. QED
    BY <1>1, <1>2, <1>3, <1>5, <1>6, <1>7, <1>8, <1>9

(* A flag sent up keeps the rounds in step.                                *)
LEMMA RoundsSendUp ==
    ASSUME TypeOK, TermRounds, NEW r \in Rank, r # 0, NEW from \in SUBSET TermSources(r),
           TermReady(r, from), TermSendUp(r, from)
    PROVE  TermRounds'
<1>. DEFINE p == parent_rank(r)
            up == [src |-> r, dst |-> p, flag |-> TermFlag(r, from)]
<1>1. /\ ~term_up[r]
      /\ Replied(r) \cup from = child_ranks(r)
      /\ \A c \in from : InFlight(c, r) /\ term_up[c] /\ sense[c] = sense[r]
      /\ TermCount(r, from) = Cardinality(child_ranks(r))
      /\ \A m \in terms : m.dst = r => m.src \in from
      /\ sense[r] = sense[p] /\ ~term_up[p] /\ ~InFlight(r, p)
    BY SendUpFacts
<1>2. p \in Rank /\ p # r /\ r \in child_ranks(p) /\ (p # 0 => parent_rank(p) # r)
    BY TreeFacts
<1>3. /\ terms' = (terms \ TermGot(r, from)) \cup {up}
      /\ term_up' = [term_up EXCEPT ![r] = TRUE]
      /\ term_replies' = [term_replies EXCEPT ![r] = TermCount(r, from)]
      /\ sense' = sense
    BY DEF TermSendUp
<1>4. up.src = r /\ up.dst = p /\ IsUp(up) /\ ~IsDown(up)
    BY <1>2 DEF IsUp, IsDown
<1>5. \A m \in terms' : m = up \/ (m \in terms /\ m.dst # r)
    BY <1>1, <1>3 DEF TermGot
<1>6. up \in terms' /\ \A m \in terms : m.dst # r => m \in terms'
    BY <1>3 DEF TermGot
<1>. HIDE DEF p, up
<1>7. term_up'[r] /\ \A q \in Rank : q # r => term_up'[q] = term_up[q]
    BY <1>3 DEF TypeOK, WorkerTypes
<1>8. \A x, y : InFlight(x, y)' <=> (InFlight(x, y) /\ y # r) \/ (x = r /\ y = p)
    BY <1>4, <1>5, <1>6 DEF InFlight
<1>9. ASSUME NEW q \in Rank, q # r PROVE Replied(q)' = Replied(q)
  <2>1. child_ranks(q) \in SUBSET Rank /\ \A c \in child_ranks(q) : c = r => q = p
      BY TreeFacts DEF p
  <2>2. ASSUME NEW c \in child_ranks(q)
        PROVE  (term_up'[c] /\ sense'[c] = sense'[q] /\ ~InFlight(c, q)')
                  <=> (term_up[c] /\ sense[c] = sense[q] /\ ~InFlight(c, q))
    <3>1. CASE c = r
        BY <1>1, <1>8, <2>1, <3>1
    <3>2. CASE c # r
        BY <1>3, <1>7, <1>8, <1>9, <2>1, <3>2
    <3>. QED
        BY <3>1, <3>2
  <2>. QED
      BY <2>2 DEF Replied
<1>10. Replied(r)' = child_ranks(r)
  <2>1. child_ranks(r) \in SUBSET Rank /\ \A c \in child_ranks(r) : c # r
      BY TreeFacts
  <2>2. \A c \in child_ranks(r) : term_up[c] /\ sense[c] = sense[r]
      BY <1>1 DEF Replied
  <2>. QED
      BY <1>2, <1>3, <1>7, <1>8, <2>1, <2>2 DEF Replied
<1>11. \A m \in terms : m.src \in Rank /\ m.dst \in Rank
    BY DEF TypeOK, WorkerTypes, Flags
<1>12. \A m \in terms' : IsUp(m) \/ IsDown(m)
    BY <1>4, <1>5 DEF TermRounds
<1>13. \A m, n \in terms' : m.src = n.src /\ m.dst = n.dst => m = n
    BY <1>1, <1>4, <1>5 DEF TermRounds, InFlight
<1>14. ASSUME NEW m \in terms', IsUp(m)
       PROVE  term_up'[m.src] /\ sense'[m.src] = sense'[m.dst] /\ ~term_up'[m.dst]
  <2>1. CASE m = up
      BY <1>1, <1>2, <1>3, <1>4, <1>7, <2>1
  <2>2. CASE m \in terms /\ m.dst # r
    <3>1. term_up[m.src] /\ sense[m.src] = sense[m.dst] /\ ~term_up[m.dst]
        BY <1>14, <2>2 DEF TermRounds
    <3>. QED
        BY <1>3, <1>7, <1>11, <2>2, <3>1
  <2>. QED
      BY <1>5, <2>1, <2>2
<1>15. ASSUME NEW m \in terms', IsDown(m)
       PROVE  term_up'[m.dst] /\ sense'[m.dst] # sense'[m.src]
  <2>1. m \in terms
      BY <1>4, <1>5, <1>15
  <2>2. term_up[m.dst] /\ sense[m.dst] # sense[m.src]
      BY <1>15, <2>1 DEF TermRounds
  <2>. QED
      BY <1>3, <1>7, <1>11, <2>1, <2>2
<1>16. ASSUME NEW c \in Rank, c # 0, sense'[c] # sense'[parent_rank(c)]
       PROVE  InFlight(parent_rank(c), c)'
  <2>1. InFlight(parent_rank(c), c) /\ c # r
      BY <1>1, <1>3, <1>16 DEF TermRounds, p
  <2>. QED
      BY <1>8, <2>1
<1>17. ASSUME NEW q \in Rank, term_up'[q] PROVE Replied(q)' = child_ranks(q)
    BY <1>7, <1>9, <1>10, <1>17 DEF TermRounds
<1>18. ASSUME NEW q \in Rank PROVE term_replies'[q] = Cardinality(Replied(q)')
  <2>1. CASE q = r
      BY <1>1, <1>3, <1>10, <2>1 DEF TypeOK, WorkerTypes
  <2>2. CASE q # r
    <3>1. term_replies'[q] = term_replies[q] /\ Replied(q)' = Replied(q)
        BY <1>3, <1>9, <2>2 DEF TypeOK, WorkerTypes
    <3>. QED
        BY <3>1 DEF TermRounds
  <2>. QED
      BY <2>1, <2>2
<1>19. ~term_up'[0] /\ \A q \in Rank : sense'[q] # sense'[0] => term_up'[q]
    BY <1>3, <1>7, RankFacts DEF TermRounds
<1>. QED
    BY <1>12, <1>13, <1>14, <1>15, <1>16, <1>17, <1>18, <1>19 DEF TermRounds, IsUp, IsDown

(* TermDecide: the root starts the next round and sends the result of this *)
(* one to its children; nothing else is in flight.                         *)
LEMMA RoundsDecide ==
    ASSUME TypeOK, TermRounds, NEW from \in SUBSET TermSources(0),
           TermReady(0, from), TermDecide(0, from)
    PROVE  TermRounds'
<1>. USE RankFacts
<1>. DEFINE flag == TermFlag(0, from)
<1>1. /\ \A q \in Rank : q # 0 => term_up[q] /\ sense[q] = sense[0]
      /\ terms = TermGot(0, from)
    BY DecideFacts
<1>2. /\ terms' = {[src |-> 0, dst |-> c, flag |-> flag] : c \in child_ranks(0)}
      /\ term_up' = [term_up EXCEPT ![0] = FALSE]
      /\ term_replies' = [term_replies EXCEPT ![0] = 0]
      /\ sense' = [sense EXCEPT ![0] = ~@]
    BY <1>1 DEF TermDecide, TermComplete
<1>. HIDE DEF flag
<1>3. /\ ~term_up'[0] /\ term_replies'[0] = 0 /\ sense'[0] # sense[0]
      /\ \A q \in Rank : q # 0 => /\ term_up'[q] /\ sense'[q] = sense[0]
                                  /\ term_replies'[q] = term_replies[q]
    BY <1>1, <1>2 DEF TypeOK, WorkerTypes
<1>4. \A m \in terms' : m.src = 0 /\ m.dst \in child_ranks(0)
                           /\ m = [src |-> 0, dst |-> m.dst, flag |-> flag]
    BY <1>2
<1>5. \A c \in child_ranks(0) : InFlight(0, c)'
  <2>. SUFFICES ASSUME NEW c \in child_ranks(0) PROVE \E m \in terms' : m.src = 0 /\ m.dst = c
      BY DEF InFlight
  <2>1. [src |-> 0, dst |-> c, flag |-> flag] \in terms'
      BY <1>2
  <2>. QED
      BY <2>1
<1>6. \A x, y : InFlight(x, y)' => x = 0
    BY <1>4 DEF InFlight
<1>7. child_ranks(0) \in SUBSET Rank
      /\ \A c \in child_ranks(0) : c # 0 /\ parent_rank(c) = 0
    BY TreeFacts
<1>8. ASSUME NEW p \in Rank, p # 0
      PROVE  Replied(p)' = child_ranks(p) /\ term_replies'[p] = Cardinality(Replied(p)')
  <2>1. child_ranks(p) \in SUBSET Rank /\ \A c \in child_ranks(p) : c # 0
      BY TreeFacts
  <2>2. Replied(p)' = child_ranks(p)
      BY <1>3, <1>6, <1>8, <2>1 DEF Replied
  <2>3. Replied(p) = child_ranks(p) /\ term_replies[p] = Cardinality(Replied(p))
      BY <1>1, <1>8 DEF TermRounds
  <2>. QED
      BY <1>3, <1>8, <2>2, <2>3
<1>9. Replied(0)' = {}
    BY <1>3, <1>7 DEF Replied
<1>10. term_replies'[0] = Cardinality(Replied(0)')
    BY <1>3, <1>9, FS_EmptySet
<1>11. \A m \in terms' : IsDown(m) /\ ~IsUp(m) /\ term_up'[m.dst] /\ sense'[m.dst] # sense'[m.src]
    BY <1>3, <1>4, <1>7 DEF IsDown, IsUp
<1>12. \A m, n \in terms' : m.src = n.src /\ m.dst = n.dst => m = n
    BY <1>4
<1>13. ASSUME NEW c \in Rank, c # 0, sense'[c] # sense'[parent_rank(c)]
       PROVE  InFlight(parent_rank(c), c)'
  <2>1. parent_rank(c) \in Rank /\ c \in child_ranks(parent_rank(c))
      BY <1>13, TreeFacts
  <2>2. parent_rank(c) = 0
      BY <1>3, <1>13, <2>1
  <2>. QED
      BY <1>5, <2>1, <2>2
<1>14. \A p \in Rank : term_up'[p] => Replied(p)' = child_ranks(p)
    BY <1>3, <1>8
<1>15. \A p \in Rank : term_replies'[p] = Cardinality(Replied(p)')
    BY <1>8, <1>10
<1>. QED
    BY <1>3, <1>11, <1>12, <1>13, <1>14, <1>15 DEF TermRounds, IsUp, IsDown

(* A rank that receives the parent's result waits for it, is one round     *)
(* behind the root, and has its children waiting in the same round.        *)
LEMMA ResultFacts ==
    ASSUME TypeOK, TermRounds, NEW r \in Rank, NEW m \in terms,
           m.src = parent_rank(r), m.dst = r
    PROVE  /\ r # 0 /\ m.src \in Rank /\ IsDown(m) /\ term_up[r]
           /\ sense[r] # sense[m.src] /\ ~term_up[m.src] /\ sense[m.src] = sense[0]
           /\ \A c \in child_ranks(r) :
                 term_up[c] /\ sense[c] = sense[r] /\ ~InFlight(c, r) /\ ~InFlight(r, c)
           /\ \A n \in terms : n.dst = r => n = m
           /\ \A n \in terms : n.src # r
<1>. USE RankFacts
<1>1. \A n \in terms : n.src \in Rank /\ n.dst \in Rank
    BY DEF TypeOK, WorkerTypes, Flags
<1>2. r # 0
    BY <1>1 DEF parent_rank
<1>3. IsDown(m)
    BY <1>2 DEF IsDown
<1>4. term_up[r] /\ sense[r] # sense[m.src]
    BY <1>3 DEF TermRounds
<1>5. ~term_up[m.src]
  <2>. SUFFICES ASSUME term_up[m.src] PROVE FALSE
      OBVIOUS
  <2>1. r \in child_ranks(m.src)
      BY <1>2, TreeFacts
  <2>2. r \in Replied(m.src)
      BY <1>1, <2>1 DEF TermRounds
  <2>. QED
      BY <1>4, <2>2 DEF Replied
<1>6. sense[m.src] = sense[0]
    BY <1>1, <1>5 DEF TermRounds
<1>7. \A c \in child_ranks(r) : term_up[c] /\ sense[c] = sense[r] /\ ~InFlight(c, r)
  <2>1. Replied(r) = child_ranks(r)
      BY <1>4 DEF TermRounds
  <2>. QED
      BY <2>1 DEF Replied
<1>8. ASSUME NEW n \in terms, n.src = r PROVE FALSE
  <2>1. CASE IsUp(n)
    <3>1. sense[n.src] = sense[n.dst] /\ n.dst = parent_rank(r)
        BY <1>8, <2>1 DEF TermRounds, IsUp
    <3>. QED
        BY <1>4, <1>8, <3>1
  <2>2. CASE IsDown(n)
    <3>1. sense[n.dst] # sense[n.src] /\ n.dst # 0 /\ parent_rank(n.dst) = r
        BY <1>8, <2>2 DEF TermRounds, IsDown
    <3>2. n.dst \in child_ranks(r)
        BY <1>1, <3>1, TreeFacts
    <3>. QED
        BY <1>7, <1>8, <3>1, <3>2
  <2>. QED
      BY <2>1, <2>2 DEF TermRounds
<1>9. ASSUME NEW n \in terms, n.dst = r PROVE n = m
  <2>1. CASE IsUp(n)
    <3>1. n.src \in child_ranks(r)
        BY <1>1, <1>9, <2>1, TreeFacts DEF IsUp
    <3>. QED
        BY <1>7, <1>9, <3>1 DEF InFlight
  <2>2. CASE IsDown(n)
      BY <1>9, <2>2 DEF IsDown, TermRounds
  <2>. QED
      BY <2>1, <2>2 DEF TermRounds
<1>10. \A c : ~InFlight(r, c)
    BY <1>8 DEF InFlight
<1>. QED
    BY <1>1, <1>2, <1>3, <1>4, <1>5, <1>6, <1>7, <1>8, <1>9, <1>10

(* TermResult: the rank catches up with its parent's round and its         *)
(* children fall one behind.                                               *)
LEMMA RoundsResult ==
    ASSUME TypeOK, TermRounds, NEW r \in Rank, NEW m \in terms,
           m.src = parent_rank(r), m.dst = r, TermComplete(r, m.flag, terms \ {m})
    PROVE  TermRounds'
<1>. USE RankFacts
<1>. DEFINE p == parent_rank(r)
            new == {[src |-> r, dst |-> c, flag |-> m.flag] : c \in child_ranks(r)}
<1>1. /\ r # 0 /\ p \in Rank /\ term_up[r]
      /\ sense[r] # sense[p] /\ ~term_up[p] /\ sense[p] = sense[0]
      /\ \A c \in child_ranks(r) :
            term_up[c] /\ sense[c] = sense[r] /\ ~InFlight(c, r) /\ ~InFlight(r, c)
      /\ \A n \in terms : n.dst = r => n = m
      /\ \A n \in terms : n.src # r
    BY ResultFacts
<1>2. /\ terms' = (terms \ {m}) \cup new
      /\ term_up' = [term_up EXCEPT ![r] = FALSE]
      /\ term_replies' = [term_replies EXCEPT ![r] = 0]
      /\ sense' = [sense EXCEPT ![r] = ~@]
    BY DEF TermComplete
<1>3. /\ child_ranks(r) \in SUBSET Rank
      /\ \A c \in child_ranks(r) : c # 0 /\ parent_rank(c) = r /\ c # r /\ p # c
    BY <1>1, TreeFacts
<1>4. /\ \A n \in new : n.src = r /\ n.dst \in child_ranks(r)
                           /\ n = [src |-> r, dst |-> n.dst, flag |-> m.flag]
      /\ \A c \in child_ranks(r) : \E n \in new : n.src = r /\ n.dst = c
  <2>1. ASSUME NEW c \in child_ranks(r) PROVE \E n \in new : n.src = r /\ n.dst = c
    <3>1. [src |-> r, dst |-> c, flag |-> m.flag] \in new
        OBVIOUS
    <3>2. /\ [src |-> r, dst |-> c, flag |-> m.flag].src = r
          /\ [src |-> r, dst |-> c, flag |-> m.flag].dst = c
        OBVIOUS
    <3>. QED
        BY <3>1, <3>2, Zenon
  <2>. QED
      BY <2>1
<1>. HIDE DEF new
<1>5. \A n \in terms' : n \in new \/ (n \in terms /\ n.dst # r /\ n.src # r)
    BY <1>1, <1>2
<1>6. new \subseteq terms' /\ \A n \in terms : n.dst # r => n \in terms'
    BY <1>2
<1>7. /\ ~term_up'[r] /\ term_replies'[r] = 0 /\ sense'[r] # sense[r] /\ sense'[r] = sense[p]
      /\ \A q \in Rank : q # r => /\ term_up'[q] = term_up[q] /\ sense'[q] = sense[q]
                                  /\ term_replies'[q] = term_replies[q]
    BY <1>1, <1>2 DEF TypeOK, WorkerTypes
<1>8. \A x, y : InFlight(x, y)' <=> (InFlight(x, y) /\ y # r) \/ (x = r /\ y \in child_ranks(r))
    BY <1>4, <1>5, <1>6 DEF InFlight
<1>9. \A n \in terms : n.src \in Rank /\ n.dst \in Rank
    BY DEF TypeOK, WorkerTypes, Flags
<1>10. \A n \in new : /\ IsDown(n) /\ ~IsUp(n) /\ term_up'[n.dst] /\ sense'[n.dst] # sense'[n.src]
  <2>. SUFFICES ASSUME NEW n \in new
                PROVE  /\ IsDown(n) /\ ~IsUp(n)
                       /\ term_up'[n.dst] /\ sense'[n.dst] # sense'[n.src]
      OBVIOUS
  <2>1. n.src = r /\ n.dst \in child_ranks(r)
      BY <1>4
  <2>2. n.dst \in Rank /\ n.dst # 0 /\ parent_rank(n.dst) = r /\ n.dst # r /\ p # n.dst
      BY <1>3, <2>1
  <2>3. term_up[n.dst] /\ sense[n.dst] = sense[r]
      BY <1>1, <2>1
  <2>. QED
      BY <1>7, <2>1, <2>2, <2>3 DEF IsDown, IsUp
<1>11. \A n \in terms' : IsUp(n) \/ IsDown(n)
    BY <1>5, <1>10 DEF TermRounds
<1>12. \A n, k \in terms' : n.src = k.src /\ n.dst = k.dst => n = k
    BY <1>4, <1>5 DEF TermRounds
<1>13. ASSUME NEW n \in terms', IsUp(n)
       PROVE  term_up'[n.src] /\ sense'[n.src] = sense'[n.dst] /\ ~term_up'[n.dst]
  <2>1. n \in terms /\ n.dst # r /\ n.src # r
      BY <1>5, <1>10, <1>13
  <2>2. term_up[n.src] /\ sense[n.src] = sense[n.dst] /\ ~term_up[n.dst]
      BY <1>13, <2>1 DEF TermRounds
  <2>. QED
      BY <1>7, <1>9, <2>1, <2>2
<1>14. ASSUME NEW n \in terms', IsDown(n)
       PROVE  term_up'[n.dst] /\ sense'[n.dst] # sense'[n.src]
  <2>1. CASE n \in new
      BY <1>10, <2>1
  <2>2. CASE n \in terms /\ n.dst # r /\ n.src # r
    <3>1. term_up[n.dst] /\ sense[n.dst] # sense[n.src]
        BY <1>14, <2>2 DEF TermRounds
    <3>. QED
        BY <1>7, <1>9, <2>2, <3>1
  <2>. QED
      BY <1>5, <2>1, <2>2
<1>15. ASSUME NEW c \in Rank, c # 0, sense'[c] # sense'[parent_rank(c)]
       PROVE  InFlight(parent_rank(c), c)'
  <2>1. parent_rank(c) \in Rank /\ c \in child_ranks(parent_rank(c)) /\ parent_rank(c) # c
      BY <1>15, TreeFacts
  <2>2. c # r
      BY <1>1, <1>7, <1>15, <2>1
  <2>3. CASE parent_rank(c) = r
      BY <1>8, <2>1, <2>3
  <2>4. CASE parent_rank(c) # r
    <3>1. sense[c] # sense[parent_rank(c)]
        BY <1>7, <1>15, <2>1, <2>2, <2>4
    <3>2. InFlight(parent_rank(c), c)
        BY <1>15, <3>1 DEF TermRounds
    <3>. QED
        BY <1>8, <2>2, <3>2
  <2>. QED
      BY <2>3, <2>4
<1>16. ASSUME NEW q \in Rank, q # r PROVE Replied(q)' = Replied(q)
  <2>1. child_ranks(q) \in SUBSET Rank /\ \A c \in child_ranks(q) : c = r => q = p
      BY TreeFacts
  <2>2. ASSUME NEW c \in child_ranks(q)
        PROVE  (term_up'[c] /\ sense'[c] = sense'[q] /\ ~InFlight(c, q)')
                  <=> (term_up[c] /\ sense[c] = sense[q] /\ ~InFlight(c, q))
    <3>1. CASE c = r
        BY <1>1, <1>7, <1>16, <2>1, <3>1
    <3>2. CASE c # r
        BY <1>7, <1>8, <1>16, <2>1, <3>2
    <3>. QED
        BY <3>1, <3>2
  <2>. QED
      BY <2>2 DEF Replied
<1>17. Replied(r)' = {}
  <2>1. ASSUME NEW c \in child_ranks(r) PROVE sense'[c] # sense'[r]
    <3>1. c \in Rank /\ c # r /\ sense[c] = sense[r]
        BY <1>1, <1>3
    <3>. QED
        BY <1>7, <3>1
  <2>. QED
      BY <2>1 DEF Replied
<1>18. ASSUME NEW q \in Rank, term_up'[q] PROVE Replied(q)' = child_ranks(q)
    BY <1>7, <1>16, <1>18 DEF TermRounds
<1>19. ASSUME NEW q \in Rank PROVE term_replies'[q] = Cardinality(Replied(q)')
  <2>1. CASE q = r
      BY <1>7, <1>17, <2>1, FS_EmptySet
  <2>2. CASE q # r
    <3>1. term_replies'[q] = term_replies[q] /\ Replied(q)' = Replied(q)
        BY <1>7, <1>16, <2>2
    <3>. QED
        BY <3>1 DEF TermRounds
  <2>. QED
      BY <2>1, <2>2
<1>20. ~term_up'[0] /\ \A q \in Rank : sense'[q] # sense'[0] => term_up'[q]
    BY <1>1, <1>7 DEF TermRounds
<1>. QED
    BY <1>11, <1>12, <1>13, <1>14, <1>15, <1>18, <1>19, <1>20 DEF TermRounds, IsUp, IsDown

(* TermCheck is one of four things.                                        *)
LEMMA TermCases ==
    ASSUME TypeOK, NEW r \in Rank, TermCheck(r)
    PROVE  \/ \E from \in SUBSET TermSources(r) :
                TermCount(r, from) <= children(r) /\ from # {} /\ TermWait(r, from)
           \/ \E from \in SUBSET TermSources(r) :
                r # 0 /\ TermReady(r, from) /\ TermSendUp(r, from)
           \/ \E from \in SUBSET TermSources(r) :
                r = 0 /\ TermReady(r, from) /\ TermDecide(r, from)
           \/ \E m \in terms :
                /\ m.src = parent_rank(r) /\ m.dst = r
                /\ TermComplete(r, m.flag, terms \ {m})
                /\ term_flag' = term_flag
BY DEF TermCheck, TermGather, TermResult

(* The rounds of the allreduce stay in step with the tree.                 *)
LEMMA RoundsStep ==
    ASSUME TypeOK, TermRounds, [Next]_vars
    PROVE  TermRounds'
<1>1. ASSUME NEW r \in Rank, TermCheck(r) PROVE TermRounds'
    BY <1>1, TermCases, RoundsWait, RoundsSendUp, RoundsDecide, RoundsResult
<1>2. CASE UNCHANGED <<term_up, term_replies, terms, sense>>
    BY <1>2 DEF TermRounds, IsUp, IsDown, InFlight, Replied
<1>3. (\E r \in Rank : TermCheck(r)) \/ UNCHANGED <<term_up, term_replies, terms, sense>>
    BY DEF Next, Step, WorkReq, Serve, WorkReceipt, CountReceipts, ForceRound, AbortCheck,
       Flood, AbortReplies, FloodEnds, RequestWork, Ask, ProcessItem, Work, LoopAgain,
       BarrierStart, EnterBarrier, BarrierTest, TestBarrier, CleanupIteration, AbortReduce,
       Vote, Done, vars, workerVars, termVars
<1>. QED
    BY <1>1, <1>2, <1>3

-----------------------------------------------------------------------------
(* Soundness of the result.                                                *)

(* An idle rank leaves the idle state only by receiving work, which means  *)
(* that some rank still has a transfer outstanding.                        *)
LEMMA IdleStep ==
    ASSUME TypeOK, ReceiptsBalance, NEW q \in Rank, Idle(q), [Next]_vars
    PROVE  Idle(q)' \/ \E s \in Rank : work_outstanding[s] > 0
<1>. USE RankFacts
<1>0. work_outstanding[q] = 0 /\ (phase[q] = "exit" \/ queue[q] = {} \/ ABORT_FLAG[q])
    BY DEF Idle, NoWork
<1>1. ASSUME NEW r \in Rank, WorkReq(r) PROVE Idle(q)'
  <2>1. PICK S \in SUBSET Requestors(r) : \E g \in [S -> SUBSET queue[r]], a \in BOOLEAN :
              /\ Served(r, S, g, a)
              /\ \/ \A s \in S : g[s] = {}
                 \/ phase[r] = "loop" /\ queue[r] # {} /\ ~ABORT_FLAG[r]
      BY <1>1, ServedByWorkReq DEF WorkReq, TypeOK
  <2>2. PICK g \in [S -> SUBSET queue[r]], a \in BOOLEAN :
              /\ Served(r, S, g, a)
              /\ \/ \A s \in S : g[s] = {}
                 \/ phase[r] = "loop" /\ queue[r] # {} /\ ~ABORT_FLAG[r]
      BY <2>1
  <2>3. phase' = phase /\ ABORT_FLAG' = ABORT_FLAG /\ queue'[q] \subseteq queue[q]
      BY <2>2 DEF Served, TypeOK, WorkerTypes
  <2>4. work_outstanding'[q] = 0
    <3>1. CASE q # r
        BY <1>0, <2>2, <3>1 DEF Served, TypeOK, WorkerTypes
    <3>2. CASE q = r
      <4>1. \A s \in S : g[s] = {}
          BY <1>0, <2>2, <3>2
      <4>2. {s \in S : g[s] # {}} = {}
          BY <4>1
      <4>3. Cardinality({s \in S : g[s] # {}}) = 0
          BY <4>2, FS_EmptySet
      <4>. QED
          BY <1>0, <2>2, <3>2, <4>3 DEF Served, TypeOK, WorkerTypes
    <3>. QED
        BY <3>1, <3>2
  <2>. QED
      BY <1>0, <2>3, <2>4 DEF Idle, NoWork
<1>2. ASSUME NEW r \in Rank, WorkReceipt(r) PROVE Idle(q)'
  <2>1. phase' = phase /\ queue' = queue /\ ABORT_FLAG' = ABORT_FLAG
      BY <1>2 DEF WorkReceipt, CountReceipts, CIRCLE_workreceipt_check
  <2>2. PICK n \in 1 .. receipts[r] :
            /\ n <= work_outstanding[r]
            /\ work_outstanding' = [work_outstanding EXCEPT ![r] = @ - n]
      BY <1>2 DEF WorkReceipt, CountReceipts, CIRCLE_workreceipt_check
  <2>3. receipts[r] \in Nat /\ work_outstanding[r] \in Nat /\ work_outstanding \in [Rank -> Nat]
      BY DEF TypeOK, WorkerTypes
  <2>4. q # r
      BY <1>0, <2>2, <2>3
  <2>5. work_outstanding'[q] = 0
      BY <1>0, <2>2, <2>3, <2>4
  <2>. QED
      BY <1>0, <2>1, <2>5 DEF Idle, NoWork
<1>3. ASSUME NEW r \in Rank, RequestWork(r)
      PROVE  Idle(q)' \/ \E s \in Rank : work_outstanding[s] > 0
  <2>1. CASE SendRequest(r)
      BY <1>0, <2>1 DEF SendRequest, Idle, NoWork
  <2>2. CASE ReceiveReply(r)
    <3>1. PICK m \in replies :
             /\ queue' = [queue EXCEPT ![r] = IF m.items = {} THEN @ ELSE m.items]
             /\ ABORT_FLAG' = [ABORT_FLAG EXCEPT ![r] = @ \/ m.abort]
        BY <2>2 DEF ReceiveReply
    <3>2. phase' = phase /\ work_outstanding' = work_outstanding
        BY <2>2 DEF ReceiveReply
    <3>3. ABORT_FLAG[q] => ABORT_FLAG'[q]
        BY <3>1 DEF TypeOK, WorkerTypes
    <3>4. m.src \in Rank /\ m.dst \in Rank
        BY DEF TypeOK, WorkerTypes
    <3>5. CASE m.items = {}
      <4>1. queue'[q] = queue[q]
          BY <3>1, <3>5 DEF TypeOK, WorkerTypes
      <4>. QED
          BY <1>0, <3>2, <3>3, <4>1 DEF Idle, NoWork
    <3>6. CASE m.items # {}
      <4>1. Transfers(m.src) # {}
          BY <3>4, <3>6 DEF Transfers
      <4>2. IsFiniteSet(Transfers(m.src)) /\ Cardinality(Transfers(m.src)) \in Nat
          BY <3>4, TransfersFinite
      <4>3. Cardinality(Transfers(m.src)) # 0
          BY <4>1, <4>2, FS_EmptySet
      <4>4. /\ work_outstanding[m.src] = receipts[m.src] + Cardinality(Transfers(m.src))
            /\ receipts[m.src] \in Nat
          BY <3>4 DEF ReceiptsBalance, TypeOK, WorkerTypes
      <4>5. work_outstanding[m.src] > 0
          BY <4>2, <4>3, <4>4
      <4>. QED
          BY <3>4, <4>5
    <3>. QED
        BY <3>5, <3>6
  <2>. QED
      BY <1>3, <2>1, <2>2 DEF RequestWork, Ask
<1>4. ASSUME NEW r \in Rank, ProcessItem(r) PROVE Idle(q)'
  <2>1. /\ phase[r] = "loop" /\ queue[r] # {} /\ ~ABORT_FLAG[r]
        /\ phase' = phase /\ work_outstanding' = work_outstanding
      BY <1>4 DEF ProcessItem, Work, Process, InLoop
  <2>2. q # r
      BY <1>0, <2>1
  <2>3. queue'[q] = queue[q] /\ ABORT_FLAG'[q] = ABORT_FLAG[q]
      BY <1>4, <2>2 DEF ProcessItem, Work, Process, TypeOK, WorkerTypes
  <2>. QED
      BY <1>0, <2>1, <2>3 DEF Idle, NoWork
<1>5. ASSUME NEW r \in Rank, NEW flag, NEW rest, Finish(r, flag, rest) PROVE Idle(q)'
  <2>1. work_outstanding' = work_outstanding
      BY <1>5 DEF Finish
  <2>2. phase'[r] = "exit" /\ (q # r =>
           phase'[q] = phase[q] /\ queue'[q] = queue[q] /\ ABORT_FLAG'[q] = ABORT_FLAG[q])
      BY <1>5 DEF Finish, TypeOK, WorkerTypes
  <2>. QED
      BY <1>0, <2>1, <2>2 DEF Idle, NoWork
<1>6. ASSUME NEW r \in Rank, NEW ph, phase[r] # "exit", phase' = [phase EXCEPT ![r] = ph],
             ABORT_FLAG[q] => ABORT_FLAG'[q], UNCHANGED <<queue, work_outstanding>>
      PROVE  Idle(q)'
  <2>1. phase[q] = "exit" => phase'[q] = "exit"
      BY <1>6 DEF TypeOK, WorkerTypes
  <2>. QED
      BY <1>0, <1>6, <2>1 DEF Idle, NoWork
<1>7. ASSUME NEW r \in Rank, AbortCheck(r) \/ AbortReplies(r) PROVE Idle(q)'
  <2>1. phase[r] # "exit" /\ phase' = [phase EXCEPT ![r] = phase[r]]
        /\ UNCHANGED <<queue, work_outstanding>>
      BY <1>7 DEF AbortCheck, Flood, CIRCLE_abort_check, AbortReplies, FloodEnds, AbortTest,
         GoTo, InLoop, InCleanup
  <2>2. ABORT_FLAG[q] => ABORT_FLAG'[q]
      BY <1>7 DEF AbortCheck, Flood, CIRCLE_abort_check, AbortReplies, FloodEnds, AbortTest,
         TypeOK, WorkerTypes
  <2>. QED
      BY <1>6, <2>1, <2>2
<1>8. ASSUME NEW r \in Rank, TermCheck(r) PROVE Idle(q)'
  <2>1. phase[r] # "exit" /\ ABORT_FLAG' = ABORT_FLAG
      BY <1>8 DEF TermCheck, TermGather, TermResult, InLoop
  <2>2. \E ph : phase' = [phase EXCEPT ![r] = ph] /\ UNCHANGED <<queue, work_outstanding>>
      BY <1>8 DEF TermCheck, TermGather, TermResult, TermWait, TermSendUp, TermDecide,
                  TermComplete, GoTo
  <2>. QED
      BY <1>6, <2>1, <2>2
<1>9. ASSUME NEW r \in Rank,
             LoopAgain(r) \/ BarrierStart(r) \/ BarrierTest(r) \/ CleanupIteration(r)
      PROVE  Idle(q)'
  <2>1. phase[r] # "exit" /\ ABORT_FLAG' = ABORT_FLAG
      BY <1>9 DEF LoopAgain, BarrierStart, EnterBarrier, CIRCLE_barrier_start, BarrierTest,
         TestBarrier, BarrierGather, BarrierResult, CleanupIteration, CleanupAgain, InCleanup
  <2>2. \E ph : phase' = [phase EXCEPT ![r] = ph] /\ UNCHANGED <<queue, work_outstanding>>
      BY <1>9 DEF LoopAgain, BarrierStart, EnterBarrier, CIRCLE_barrier_start, BarrierTest,
         TestBarrier, BarrierGather, BarrierResult, BarrierWait, BarrierSendUp,
         BarrierComplete, CleanupIteration, CleanupAgain, GoTo
  <2>. QED
      BY <1>6, <2>1, <2>2
<1>10. ASSUME NEW r \in Rank, AbortReduce(r) PROVE Idle(q)'
  <2>1. CASE \E flag, rest : Finish(r, flag, rest)
      BY <1>5, <2>1
  <2>2. CASE ~\E flag, rest : Finish(r, flag, rest)
    <3>1. phase[r] = "reduce" /\ ABORT_FLAG' = ABORT_FLAG
          /\ phase' = [phase EXCEPT ![r] = "await"] /\ UNCHANGED <<queue, work_outstanding>>
        BY <1>10, <2>2 DEF AbortReduce, Vote, AbortReduceUp, AbortReduceDown, GoTo
    <3>. QED
        BY <1>6, <3>1
  <2>. QED
      BY <2>1, <2>2
<1>11. CASE Done \/ UNCHANGED vars
    BY <1>0, <1>11 DEF Done, vars, workerVars, workVars, Idle, NoWork
<1>. QED
    BY <1>1, <1>2, <1>3, <1>4, <1>7, <1>8, <1>9, <1>10, <1>11 DEF Next, Step

(* Once all ranks are idle, they stay so.                                  *)
LEMMA QuietStep ==
    ASSUME TypeOK, ReceiptsBalance, Quiet, [Next]_vars
    PROVE  Quiet'
<1>1. \A s \in Rank : work_outstanding[s] = 0
    BY DEF Quiet, Idle
<1>2. ASSUME NEW q \in Rank PROVE Idle(q)'
    BY <1>1, IdleStep DEF Quiet
<1>. QED
    BY <1>2 DEF Quiet

(* In a round that is not spoiled, nobody has a transfer outstanding.      *)
LEMMA IdleNoTransfers ==
    ASSUME RoundSound, ~Spoiled
    PROVE  \A s \in Rank : ~(work_outstanding[s] > 0)
<1>. SUFFICES ASSUME NEW s \in Rank, work_outstanding[s] > 0 PROVE FALSE
    OBVIOUS
<1>1. Contributed(s)
    BY DEF Spoiled
<1>. QED
    BY <1>1 DEF RoundSound, Idle

(* Steps that leave the allreduce and the transfer counts alone, or add to *)
(* the counts, keep the round sound: a contributed rank that is given work *)
(* has its round spoiled by the giver.                                     *)
LEMMA RoundSoundOther ==
    ASSUME TypeOK, ReceiptsBalance, RoundSound, [Next]_vars,
           UNCHANGED <<term_flag, term_up, terms, sense>>,
           \A z \in Rank : work_outstanding[z] > 0 => work_outstanding'[z] > 0
    PROVE  RoundSound'
<1>. USE RankFacts
<1>1. \A z \in Rank : Contributed(z)' <=> Contributed(z)
    BY DEF Contributed
<1>2. CASE Spoiled
  <2>1. CASE \E z \in Rank : ~Contributed(z) /\ (~term_flag[z] \/ work_outstanding[z] > 0)
      BY <1>1, <2>1 DEF RoundSound, Spoiled
  <2>2. CASE \E m \in terms : IsUp(m) /\ ~m.flag
      BY <2>2 DEF RoundSound, Spoiled, IsUp
  <2>. QED
      BY <1>2, <2>1, <2>2 DEF Spoiled
<1>3. CASE ~Spoiled
  <2>1. \A q \in Rank : Contributed(q) => Idle(q) /\ term_flag[q]
      BY <1>3 DEF RoundSound
  <2>2. \A s \in Rank : ~(work_outstanding[s] > 0)
      BY <1>3, IdleNoTransfers
  <2>3. ASSUME NEW q \in Rank, Contributed(q)' PROVE Idle(q)' /\ term_flag'[q]
    <3>1. Idle(q) /\ term_flag[q]
        BY <1>1, <2>1, <2>3
    <3>. QED
        BY <2>2, <3>1, IdleStep
  <2>. QED
      BY <2>3 DEF RoundSound
<1>. QED
    BY <1>2, <1>3

(* Only serving requests and taking receipts change the count.             *)
LEMMA WorkOutstandingSteps ==
    ASSUME [Next]_vars, ~\E r \in Rank : WorkReceipt(r)
    PROVE  (\E r \in Rank : Serve(r)) \/ UNCHANGED work_outstanding
<1>1. ASSUME NEW r \in Rank, RequestWork(r) \/ ProcessItem(r) PROVE UNCHANGED work_outstanding
    BY <1>1 DEF RequestWork, Ask, SendRequest, ReceiveReply, ProcessItem, Work, Process
<1>2. ASSUME NEW r \in Rank, AbortCheck(r) \/ AbortReplies(r) \/ BarrierStart(r) \/ BarrierTest(r)
      PROVE  UNCHANGED work_outstanding
    BY <1>2 DEF AbortCheck, Flood, AbortReplies, FloodEnds, BarrierStart, EnterBarrier, BarrierTest,
       TestBarrier, CIRCLE_abort_check, AbortTest, CIRCLE_barrier_start, BarrierGather,
       BarrierResult, BarrierWait, BarrierSendUp, BarrierComplete, GoTo
<1>3. ASSUME NEW r \in Rank, AbortReduce(r) PROVE UNCHANGED work_outstanding
    BY <1>3 DEF AbortReduce, Vote, AbortReduceUp, AbortReduceDown, Finish, GoTo
<1>4. ASSUME NEW r \in Rank, TermCheck(r) \/ LoopAgain(r) \/ CleanupIteration(r)
      PROVE  UNCHANGED work_outstanding
    BY <1>4, TermTurns DEF Turn, GoTo
<1>5. CASE Done \/ UNCHANGED vars
    BY <1>5 DEF Done, vars, workerVars, workVars
<1>. QED
    BY <1>1, <1>2, <1>3, <1>4, <1>5 DEF Next, Step, WorkReq

(* The allreduce and the receipts keep the round sound.                    *)
LEMMA RoundSoundStep ==
    ASSUME TypeOK, ReceiptsBalance, TermRounds, RoundSound, [Next]_vars
    PROVE  RoundSound'
<1>. USE RankFacts
<1>1. ASSUME NEW r \in Rank, NEW from \in SUBSET TermSources(r), TermCheck(r),
             TermCount(r, from) <= children(r), from # {}, TermWait(r, from)
      PROVE  RoundSound'
  <2>1. ~term_up[r]
      BY <1>1, GatherFacts
  <2>2. /\ terms' = terms \ TermGot(r, from)
        /\ term_flag' = [term_flag EXCEPT ![r] = TermFlag(r, from)]
        /\ term_up' = term_up /\ sense' = sense /\ work_outstanding' = work_outstanding
      BY <1>1 DEF TermWait, GoTo
  <2>3. \A z \in Rank : Contributed(z)' <=> Contributed(z)
      BY <2>2 DEF Contributed
  <2>4. ~Contributed(r)'
      BY <2>1, <2>3 DEF Contributed
  <2>5. term_flag'[r] = TermFlag(r, from) /\ \A z \in Rank : z # r => term_flag'[z] = term_flag[z]
      BY <2>2 DEF TypeOK, WorkerTypes
  <2>6. ASSUME ~TermFlag(r, from) PROVE Spoiled'
      BY <2>4, <2>5, <2>6 DEF Spoiled
  <2>7. CASE Spoiled
    <3>1. CASE \E z \in Rank : ~Contributed(z) /\ (~term_flag[z] \/ work_outstanding[z] > 0)
      <4>1. PICK z \in Rank : ~Contributed(z) /\ (~term_flag[z] \/ work_outstanding[z] > 0)
          BY <3>1
      <4>2. ~term_flag'[z] \/ work_outstanding'[z] > 0
          BY <2>2, <2>5, <4>1 DEF TermFlag
      <4>. QED
          BY <2>3, <4>1, <4>2 DEF Spoiled, RoundSound
    <3>2. CASE \E m \in terms : IsUp(m) /\ ~m.flag
      <4>1. PICK m \in terms : IsUp(m) /\ ~m.flag
          BY <3>2
      <4>2. CASE m \in TermGot(r, from)
          BY <2>6, <4>1, <4>2 DEF TermFlag, RoundSound
      <4>3. CASE m \notin TermGot(r, from)
        <5>1. m \in terms'
            BY <2>2, <4>3
        <5>. QED
            BY <4>1, <5>1 DEF Spoiled, RoundSound, IsUp
      <4>. QED
          BY <4>2, <4>3
    <3>. QED
        BY <2>7, <3>1, <3>2 DEF Spoiled
  <2>8. CASE ~Spoiled
    <3>1. \A q \in Rank : Contributed(q)' => Idle(q) /\ term_flag'[q]
        BY <2>3, <2>4, <2>5, <2>8 DEF RoundSound
    <3>2. \A s \in Rank : ~(work_outstanding[s] > 0)
        BY <2>8, IdleNoTransfers
    <3>. QED
        BY <3>1, <3>2, IdleStep DEF RoundSound
  <2>. QED
      BY <2>7, <2>8
<1>2. ASSUME NEW r \in Rank, NEW from \in SUBSET TermSources(r), TermCheck(r),
             r # 0, TermReady(r, from), TermSendUp(r, from)
      PROVE  RoundSound'
  <2>. DEFINE up == [src |-> r, dst |-> parent_rank(r), flag |-> TermFlag(r, from)]
  <2>1. ~term_up[r] /\ sense[r] = sense[0] /\ work_outstanding[r] = 0
      BY <1>2, SendUpFacts DEF TermReady
  <2>2. /\ terms' = (terms \ TermGot(r, from)) \cup {up}
        /\ term_flag' = [term_flag EXCEPT ![r] = TRUE]
        /\ term_up' = [term_up EXCEPT ![r] = TRUE]
        /\ sense' = sense /\ work_outstanding' = work_outstanding
      BY <1>2 DEF TermSendUp, GoTo
  <2>3. \A z \in Rank : z # r =>
            (Contributed(z)' <=> Contributed(z)) /\ term_flag'[z] = term_flag[z]
      BY <2>2 DEF Contributed, TypeOK, WorkerTypes
  <2>4. up \in terms' /\ IsUp(up) /\ up.flag = TermFlag(r, from)
      BY <1>2, <2>2 DEF IsUp
  <2>. HIDE DEF up
  <2>5. ASSUME ~TermFlag(r, from) PROVE Spoiled'
      BY <2>4, <2>5 DEF Spoiled, IsUp
  <2>6. CASE Spoiled
    <3>1. CASE \E z \in Rank : ~Contributed(z) /\ (~term_flag[z] \/ work_outstanding[z] > 0)
      <4>1. PICK z \in Rank : ~Contributed(z) /\ (~term_flag[z] \/ work_outstanding[z] > 0)
          BY <3>1
      <4>2. CASE z = r
          BY <2>1, <2>5, <4>1, <4>2 DEF TermFlag, RoundSound
      <4>3. CASE z # r
        <5>1. ~Contributed(z)' /\ (~term_flag'[z] \/ work_outstanding'[z] > 0)
            BY <2>2, <2>3, <4>1, <4>3
        <5>. QED
            BY <5>1 DEF Spoiled, RoundSound
      <4>. QED
          BY <4>2, <4>3
    <3>2. CASE \E m \in terms : IsUp(m) /\ ~m.flag
      <4>1. PICK m \in terms : IsUp(m) /\ ~m.flag
          BY <3>2
      <4>2. CASE m \in TermGot(r, from)
          BY <2>5, <4>1, <4>2 DEF TermFlag, RoundSound
      <4>3. CASE m \notin TermGot(r, from)
        <5>1. m \in terms'
            BY <2>2, <4>3
        <5>. QED
            BY <4>1, <5>1 DEF Spoiled, RoundSound, IsUp
      <4>. QED
          BY <4>2, <4>3
    <3>. QED
        BY <2>6, <3>1, <3>2 DEF Spoiled
  <2>7. CASE ~Spoiled
    <3>1. \A s \in Rank : ~(work_outstanding[s] > 0)
        BY <2>7, IdleNoTransfers
    <3>2. Idle(r)
      <4>1. NoWork(r)
          BY <1>2, <2>1 DEF TermCheck, TermGather, TermResult
      <4>. QED
          BY <2>1, <4>1 DEF Idle
    <3>3. term_flag'[r]
        BY <2>2 DEF TypeOK
    <3>4. \A q \in Rank : Contributed(q)' => Idle(q) /\ term_flag'[q]
        BY <2>3, <2>7, <3>2, <3>3 DEF RoundSound
    <3>. QED
        BY <3>1, <3>4, IdleStep DEF RoundSound
  <2>. QED
      BY <2>6, <2>7
<1>3. ASSUME NEW from \in SUBSET TermSources(0), TermReady(0, from), TermDecide(0, from)
      PROVE  RoundSound'
  <2>1. \A q \in Rank : q # 0 => term_up[q] /\ sense[q] = sense[0]
      BY <1>3, DecideFacts
  <2>2. /\ ~term_up'[0] /\ sense'[0] # sense[0]
        /\ \A q \in Rank : q # 0 => sense'[q] = sense[q]
      BY <1>3 DEF TermDecide, TermComplete, TypeOK, WorkerTypes
  <2>3. \A q \in Rank : ~Contributed(q)'
      BY <2>1, <2>2 DEF Contributed
  <2>. QED
      BY <2>3 DEF RoundSound
<1>4. ASSUME NEW r \in Rank, NEW m \in terms, m.src = parent_rank(r), m.dst = r,
             TermComplete(r, m.flag, terms \ {m}), term_flag' = term_flag
      PROVE  RoundSound'
  <2>1. /\ r # 0 /\ m.src \in Rank /\ IsDown(m) /\ term_up[r]
        /\ sense[r] # sense[m.src] /\ sense[m.src] = sense[0]
      BY <1>4, ResultFacts
  <2>2. /\ term_up' = [term_up EXCEPT ![r] = FALSE]
        /\ sense' = [sense EXCEPT ![r] = ~@]
        /\ work_outstanding' = work_outstanding
        /\ terms \ {m} \subseteq terms'
      BY <1>4 DEF TermComplete, GoTo
  <2>3. \A z \in Rank : Contributed(z)' <=> Contributed(z)
      BY <2>1, <2>2 DEF Contributed, TypeOK, WorkerTypes
  <2>4. ~IsUp(m)
    <3>. SUFFICES ASSUME IsUp(m) PROVE FALSE
        OBVIOUS
    <3>1. sense[m.src] = sense[m.dst]
        BY DEF TermRounds
    <3>. QED
        BY <1>4, <2>1, <3>1
  <2>5. CASE Spoiled
    <3>1. CASE \E z \in Rank : ~Contributed(z) /\ (~term_flag[z] \/ work_outstanding[z] > 0)
        BY <1>4, <2>2, <2>3, <3>1 DEF Spoiled, RoundSound
    <3>2. CASE \E n \in terms : IsUp(n) /\ ~n.flag
      <4>1. PICK n \in terms : IsUp(n) /\ ~n.flag
          BY <3>2
      <4>2. n \in terms'
          BY <2>2, <2>4, <4>1
      <4>. QED
          BY <4>1, <4>2 DEF Spoiled, RoundSound, IsUp
    <3>. QED
        BY <2>5, <3>1, <3>2 DEF Spoiled
  <2>6. CASE ~Spoiled
    <3>1. \A q \in Rank : Contributed(q)' => Idle(q) /\ term_flag'[q]
        BY <1>4, <2>3, <2>6 DEF RoundSound
    <3>2. \A s \in Rank : ~(work_outstanding[s] > 0)
        BY <2>6, IdleNoTransfers
    <3>. QED
        BY <3>1, <3>2, IdleStep DEF RoundSound
  <2>. QED
      BY <2>5, <2>6
<1>5. ASSUME NEW r \in Rank, WorkReceipt(r) PROVE RoundSound'
  <2>1. PICK n \in 1 .. receipts[r] :
            /\ n <= work_outstanding[r]
            /\ work_outstanding' = [work_outstanding EXCEPT ![r] = @ - n]
      BY <1>5 DEF WorkReceipt, CountReceipts, CIRCLE_workreceipt_check
  <2>2. work_outstanding[r] > 0
    <3>1. n \in Int /\ n >= 1 /\ work_outstanding[r] \in Nat
        BY DEF TypeOK, WorkerTypes
    <3>. QED
        BY <2>1, <3>1
  <2>3. /\ term_flag' = [term_flag EXCEPT ![r] = FALSE]
        /\ term_up' = term_up /\ sense' = sense /\ terms' = terms
      BY <1>5 DEF WorkReceipt, CountReceipts, ForceRound
  <2>4. \A z \in Rank : Contributed(z)' <=> Contributed(z)
      BY <2>3 DEF Contributed
  <2>5. CASE ~Contributed(r)
    <3>1. ~term_flag'[r]
        BY <2>3 DEF TypeOK, WorkerTypes
    <3>. QED
        BY <2>4, <2>5, <3>1 DEF Spoiled, RoundSound
  <2>6. CASE Contributed(r)
    <3>1. ~Idle(r)
        BY <2>2 DEF Idle
    <3>2. Spoiled
        BY <2>6, <3>1 DEF RoundSound
    <3>3. CASE \E z \in Rank : ~Contributed(z) /\ (~term_flag[z] \/ work_outstanding[z] > 0)
      <4>1. PICK z \in Rank : ~Contributed(z) /\ (~term_flag[z] \/ work_outstanding[z] > 0)
          BY <3>3
      <4>2. z # r
          BY <2>6, <4>1
      <4>3. term_flag'[z] = term_flag[z] /\ work_outstanding'[z] = work_outstanding[z]
          BY <2>1, <2>3, <4>2 DEF TypeOK, WorkerTypes
      <4>. QED
          BY <2>4, <4>1, <4>3 DEF Spoiled, RoundSound
    <3>4. CASE \E m \in terms : IsUp(m) /\ ~m.flag
        BY <2>3, <3>4 DEF Spoiled, RoundSound, IsUp
    <3>. QED
        BY <3>2, <3>3, <3>4 DEF Spoiled
  <2>. QED
      BY <2>5, <2>6
<1>6. ASSUME NEW r \in Rank, TermCheck(r) PROVE RoundSound'
    BY <1>1, <1>2, <1>3, <1>4, <1>6, TermCases
<1>7. CASE UNCHANGED <<term_flag, term_up, terms, sense>> /\ ~\E r \in Rank : WorkReceipt(r)
  <2>1. \/ \E r \in Rank : Serve(r)
        \/ UNCHANGED work_outstanding
      BY <1>7, WorkOutstandingSteps
  <2>2. ASSUME NEW r \in Rank, Serve(r), NEW z \in Rank, work_outstanding[z] > 0
        PROVE  work_outstanding'[z] > 0
    <3>1. PICK S \in SUBSET Requestors(r) : \E g \in [S -> SUBSET queue[r]], a \in BOOLEAN :
              Served(r, S, g, a)
      <4>1. WorkerTypes
          BY DEF TypeOK
      <4>. QED
          BY <2>2, <4>1, ServedByWorkReq
    <3>2. PICK g \in [S -> SUBSET queue[r]], a \in BOOLEAN : Served(r, S, g, a)
        BY <3>1
    <3>. DEFINE T == {s \in S : g[s] # {}}
    <3>3. T \in SUBSET Rank
        BY DEF Requestors
    <3>4. work_outstanding' = [work_outstanding EXCEPT ![r] = @ + Cardinality(T)]
        BY <3>2 DEF Served
    <3>. HIDE DEF T
    <3>5. Cardinality(T) \in Nat /\ work_outstanding \in [Rank -> Nat]
        BY <3>3 DEF TypeOK, WorkerTypes
    <3>. QED
        BY <2>2, <3>4, <3>5
  <2>3. \A z \in Rank : work_outstanding[z] > 0 => work_outstanding'[z] > 0
      BY <2>1, <2>2
  <2>. QED
      BY <1>7, <2>3, RoundSoundOther
<1>8. \/ \E r \in Rank : TermCheck(r) \/ WorkReceipt(r)
      \/ UNCHANGED <<term_flag, term_up, terms, sense>>
    BY DEF Next, Step, WorkReq, Serve, AbortCheck, Flood, AbortReplies, FloodEnds, RequestWork,
       Ask, ProcessItem, Work, LoopAgain, BarrierStart, EnterBarrier, BarrierTest, TestBarrier,
       CleanupIteration, AbortReduce, Vote, Done, vars, workerVars, termVars
<1>. QED
    BY <1>5, <1>6, <1>7, <1>8

(* A TRUE result comes into being only at the root, and only when the      *)
(* round, and with it every rank, is known to be idle.                     *)
LEMMA ResultSoundStep ==
    ASSUME TypeOK, ReceiptsBalance, TermRounds, RoundSound, ResultSound, [Next]_vars
    PROVE  ResultSound'
<1>. USE RankFacts
<1>1. CASE Quiet
    BY <1>1, QuietStep DEF ResultSound
<1>2. CASE ~Quiet
  <2>1. /\ \A m \in terms : ~(IsDown(m) /\ m.flag)
        /\ \A r \in Rank : phase[r] = "loop"
      BY <1>2 DEF ResultSound
  <2>2. ASSUME terms' = terms, phase' = phase PROVE ResultSound'
      BY <2>1, <2>2 DEF ResultSound, IsDown
  <2>3. ASSUME NEW r \in Rank, terms' = terms,
               phase' = [phase EXCEPT ![r] = "loop"] \/ phase' = [phase EXCEPT ![r] = phase[r]]
        PROVE  ResultSound'
    <3>1. \A q \in Rank : phase'[q] = "loop"
        BY <2>1, <2>3 DEF TypeOK, WorkerTypes
    <3>. QED
        BY <2>1, <2>3, <3>1 DEF ResultSound, IsDown
  <2>4. ASSUME NEW r \in Rank, NEW from \in SUBSET TermSources(r), TermCheck(r),
               TermWait(r, from)
        PROVE  ResultSound'
    <3>1. terms' \subseteq terms /\ \A q \in Rank : phase'[q] = "loop"
        BY <2>1, <2>4 DEF TermWait, GoTo, TypeOK, WorkerTypes
    <3>. QED
        BY <2>1, <3>1 DEF ResultSound, IsDown
  <2>5. ASSUME NEW r \in Rank, NEW from \in SUBSET TermSources(r), TermCheck(r), r # 0,
               TermSendUp(r, from)
        PROVE  ResultSound'
    <3>. DEFINE up == [src |-> r, dst |-> parent_rank(r), flag |-> TermFlag(r, from)]
    <3>1. terms' \subseteq terms \cup {up} /\ \A q \in Rank : phase'[q] = "loop"
        BY <2>1, <2>5 DEF TermSendUp, GoTo, TypeOK, WorkerTypes
    <3>2. parent_rank(r) \in Rank /\ (parent_rank(r) # 0 => parent_rank(parent_rank(r)) # r)
        BY <2>5, TreeFacts
    <3>3. ~IsDown(up)
        BY <3>2 DEF IsDown
    <3>. HIDE DEF up
    <3>. QED
        BY <2>1, <3>1, <3>3 DEF ResultSound, IsDown
  <2>6. ASSUME NEW from \in SUBSET TermSources(0), TermCheck(0), TermReady(0, from),
               TermDecide(0, from)
        PROVE  ResultSound'
    <3>1. /\ \A q \in Rank : q # 0 => term_up[q] /\ sense[q] = sense[0]
          /\ terms = TermGot(0, from)
        BY <2>6, DecideFacts
    <3>2. CASE TermFlag(0, from)
      <4>1. work_outstanding[0] = 0 /\ term_flag[0] /\ \A m \in terms : m.flag
          BY <2>6, <3>1, <3>2 DEF TermReady, TermFlag
      <4>2. ~Spoiled
          BY <3>1, <4>1 DEF Spoiled, Contributed
      <4>3. \A q \in Rank : q # 0 => Idle(q)
          BY <3>1, <4>2 DEF RoundSound, Contributed
      <4>4. NoWork(0)
          BY <2>6 DEF TermCheck, TermGather, TermResult
      <4>5. Idle(0)
          BY <4>1, <4>4 DEF Idle
      <4>. QED
          BY <1>2, <4>3, <4>5 DEF Quiet
    <3>3. CASE ~TermFlag(0, from)
      <4>1. /\ terms' = {[src |-> 0, dst |-> c, flag |-> TermFlag(0, from)] : c \in child_ranks(0)}
            /\ phase' = [phase EXCEPT ![0] = "loop"]
          BY <2>6, <3>1, <3>3 DEF TermDecide, TermComplete, GoTo
      <4>2. \A m \in terms' : m.flag = TermFlag(0, from)
          BY <4>1
      <4>3. \A q \in Rank : phase'[q] = "loop"
          BY <2>1, <4>1 DEF TypeOK, WorkerTypes
      <4>. QED
          BY <3>3, <4>2, <4>3 DEF ResultSound
    <3>. QED
        BY <3>2, <3>3
  <2>7. ASSUME NEW r \in Rank, NEW m \in terms, m.src = parent_rank(r), m.dst = r,
               TermComplete(r, m.flag, terms \ {m})
        PROVE  ResultSound'
    <3>1. IsDown(m)
        BY <2>7, ResultFacts
    <3>2. ~m.flag
        BY <2>1, <3>1
    <3>3. /\ terms' = (terms \ {m}) \cup
                {[src |-> r, dst |-> c, flag |-> m.flag] : c \in child_ranks(r)}
          /\ phase' = [phase EXCEPT ![r] = "loop"]
        BY <2>7, <3>2 DEF TermComplete, GoTo
    <3>4. \A n \in terms' : n \in terms \/ ~n.flag
        BY <3>2, <3>3
    <3>5. \A q \in Rank : phase'[q] = "loop"
        BY <2>1, <3>3 DEF TypeOK, WorkerTypes
    <3>. QED
        BY <2>1, <3>4, <3>5 DEF ResultSound, IsDown
  <2>8. ASSUME NEW r \in Rank, TermCheck(r) PROVE ResultSound'
      BY <2>4, <2>5, <2>6, <2>7, <2>8, TermCases
  <2>9. ASSUME NEW r \in Rank,
               WorkReq(r) \/ WorkReceipt(r) \/ RequestWork(r) \/ ProcessItem(r)
        PROVE  ResultSound'
      BY <2>2, <2>9 DEF WorkReq, Serve, WorkReceipt, CountReceipts, RequestWork, Ask,
         ProcessItem, Work, CIRCLE_workreq_check, CIRCLE_workreceipt_check, ForceRound,
         SendRequest, ReceiveReply, Process, termVars
  <2>10. ASSUME NEW r \in Rank, AbortCheck(r) \/ AbortReplies(r) \/ LoopAgain(r)
         PROVE  ResultSound'
      BY <2>3, <2>10 DEF AbortCheck, Flood, AbortReplies, FloodEnds, LoopAgain,
         CIRCLE_abort_check, AbortTest, GoTo, termVars
  <2>11. ASSUME NEW r \in Rank, BarrierStart(r) \/ BarrierTest(r) \/ CleanupIteration(r)
                                   \/ AbortReduce(r)
         PROVE  FALSE
    <3>1. phase[r] # "loop"
        BY <2>11 DEF BarrierStart, EnterBarrier, CIRCLE_barrier_start, BarrierTest,
           TestBarrier, BarrierGather, BarrierResult, CleanupIteration, CleanupAgain,
           InCleanup, AbortReduce, Vote, AbortReduceUp, AbortReduceDown
    <3>. QED
        BY <2>1, <3>1
  <2>12. CASE Done \/ UNCHANGED vars
      BY <2>2, <2>12 DEF Done, vars, workerVars, workVars, termVars
  <2>. QED
      BY <2>8, <2>9, <2>10, <2>11, <2>12 DEF Next, Step
<1>. QED
    BY <1>1, <1>2

(* Nothing is decided and nobody has contributed at the start.             *)
LEMMA SoundInit == Init => RoundSound /\ ResultSound
<1>. SUFFICES ASSUME Init PROVE RoundSound /\ ResultSound
    OBVIOUS
<1>1. terms = {} /\ (\A q \in Rank : ~term_up[q]) /\ \A q \in Rank : phase[q] = "loop"
    BY DEF Init, WorkerInit, TermInit, WorkInit
<1>. QED
    BY <1>1 DEF RoundSound, ResultSound, Contributed

(* The inductive invariant of termination detection.                       *)
TermInv ==
    /\ TypeOK
    /\ Conversation
    /\ ReceiptsBalance
    /\ TermRounds
    /\ RoundSound
    /\ ResultSound

(* It holds initially and every step preserves it.                         *)
LEMMA TermInvHolds == Spec => []TermInv
<1>1. Init => TermInv
    BY TypeInit, ConversationInit, BalanceInit, RoundsInit, SoundInit DEF TermInv, Init
<1>2. TermInv /\ [Next]_vars => TermInv'
  <2>. SUFFICES ASSUME TermInv, [Next]_vars PROVE TermInv'
      OBVIOUS
  <2>1. TypeOK /\ TypeOK' /\ WorkerTypes /\ WorkerTypes' /\ [WorkerNext]_workerVars
      BY TypeStep, TreeStepWorks DEF TermInv, TypeOK
  <2>2. Conversation' /\ ReceiptsBalance'
      BY <2>1, ConversationStep, BalanceStep DEF TermInv
  <2>. QED
      BY <2>1, <2>2, RoundsStep, RoundSoundStep, ResultSoundStep DEF TermInv
<1>. QED
    BY <1>1, <1>2, PTL DEF Spec

(* The rounds of the allreduce keep in step with the tree: one message per *)
(* edge and direction, exact reply counts, no rank more than one round     *)
(* behind its parent.                                                      *)
THEOREM TermRoundsHold == Spec => []TermRounds
<1>1. TermInv => TermRounds
    BY DEF TermInv
<1>. QED
    BY <1>1, TermInvHolds, PTL

(* No rank leaves the work loop while any rank, itself included, has work  *)
(* left to do or a transfer in flight, unless that rank is aborted.        *)
THEOREM TerminationSafeHolds == Spec => []TerminationSafe
<1>1. TermInv => TerminationSafe
  <2>. SUFFICES ASSUME TermInv, NEW r \in Rank, phase[r] # "loop", NEW q \in Rank
                PROVE  /\ phase[q] = "exit" \/ NoWork(q)
                       /\ Transfers(q) = {}
                       /\ work_outstanding[q] = 0
      BY DEF TerminationSafe
  <2>1. Idle(q)
      BY DEF TermInv, ResultSound, Quiet
  <2>2. work_outstanding[q] = 0 /\ (phase[q] = "exit" \/ NoWork(q))
      BY <2>1 DEF Idle
  <2>3. IsFiniteSet(Transfers(q)) /\ Cardinality(Transfers(q)) \in Nat
      BY TransfersFinite
  <2>4. /\ work_outstanding[q] = receipts[q] + Cardinality(Transfers(q))
        /\ receipts[q] \in Nat
      BY DEF TermInv, ReceiptsBalance, TypeOK, WorkerTypes
  <2>5. Cardinality(Transfers(q)) = 0
      BY <2>2, <2>3, <2>4
  <2>. QED
      BY <2>2, <2>3, <2>5, FS_EmptySet
<1>. QED
    BY <1>1, TermInvHolds, PTL

-----------------------------------------------------------------------------
(* The end of the work loop, and of the run.                               *)

(* Only a termination check ends the work loop of a rank, or changes the   *)
(* rounds of the allreduce.                                                *)
LEMMA OnlyTermLeaves ==
    ASSUME TypeOK, [Next]_vars, ~\E r \in Rank : TermCheck(r)
    PROVE  /\ UNCHANGED <<term_up, terms, sense>>
           /\ \A q \in Rank : (phase'[q] = "loop") <=> (phase[q] = "loop")
<1>0. phase \in [Rank -> Phase]
    BY DEF TypeOK, WorkerTypes
<1>1. UNCHANGED <<term_up, terms, sense>>
    BY DEF Next, Step, WorkReq, Serve, WorkReceipt, CountReceipts, ForceRound, AbortCheck,
       Flood, AbortReplies, FloodEnds, RequestWork, Ask, ProcessItem, Work, LoopAgain,
       BarrierStart, EnterBarrier, BarrierTest, TestBarrier, CleanupIteration, AbortReduce,
       Vote, Done, vars, workerVars, termVars
<1>2. ASSUME NEW r \in Rank, NEW ph, phase' = [phase EXCEPT ![r] = ph],
             (ph = "loop") <=> (phase[r] = "loop")
      PROVE  \A q \in Rank : (phase'[q] = "loop") <=> (phase[q] = "loop")
    BY <1>0, <1>2
<1>3. ASSUME NEW r \in Rank, WorkReq(r) \/ WorkReceipt(r) \/ RequestWork(r) \/ ProcessItem(r)
      PROVE  phase' = phase
    BY <1>3 DEF WorkReq, Serve, WorkReceipt, CountReceipts, RequestWork, Ask, ProcessItem,
       Work, CIRCLE_workreq_check, CIRCLE_workreceipt_check, SendRequest, ReceiveReply, Process
<1>4. ASSUME NEW r \in Rank, AbortCheck(r) \/ AbortReplies(r)
      PROVE  phase' = [phase EXCEPT ![r] = phase[r]]
    BY <1>4 DEF AbortCheck, Flood, AbortReplies, FloodEnds, CIRCLE_abort_check, AbortTest, GoTo
<1>5. ASSUME NEW r \in Rank, LoopAgain(r)
      PROVE  phase[r] = "loop" /\ phase' = [phase EXCEPT ![r] = "loop"]
    BY <1>5 DEF LoopAgain, GoTo
<1>6. ASSUME NEW r \in Rank,
             BarrierStart(r) \/ BarrierTest(r) \/ CleanupIteration(r) \/ AbortReduce(r)
      PROVE  /\ phase[r] # "loop"
             /\ \E ph \in {"cleanup", "reduce", "await", "exit"} : phase' = [phase EXCEPT ![r] = ph]
  <2>1. CASE BarrierStart(r) \/ CleanupIteration(r)
      BY <2>1 DEF BarrierStart, EnterBarrier, CleanupIteration, CIRCLE_barrier_start,
         CleanupAgain, InCleanup, GoTo
  <2>2. CASE BarrierTest(r)
      BY <2>2 DEF BarrierTest, TestBarrier, BarrierGather, BarrierResult, BarrierWait,
         BarrierSendUp, BarrierComplete, InCleanup, GoTo
  <2>3. CASE AbortReduce(r)
      BY <2>3 DEF AbortReduce, Vote, AbortReduceUp, AbortReduceDown, Finish, GoTo
  <2>. QED
      BY <1>6, <2>1, <2>2, <2>3
<1>7. CASE UNCHANGED vars
    BY <1>1, <1>7 DEF vars, workerVars, workVars
<1>8. ASSUME NEW r \in Rank, Step(r)
      PROVE  \A q \in Rank : (phase'[q] = "loop") <=> (phase[q] = "loop")
  <2>1. \/ WorkReq(r) \/ WorkReceipt(r) \/ RequestWork(r) \/ ProcessItem(r)
        \/ AbortCheck(r) \/ AbortReplies(r) \/ LoopAgain(r)
        \/ BarrierStart(r) \/ BarrierTest(r) \/ CleanupIteration(r) \/ AbortReduce(r)
      BY <1>8 DEF Step
  <2>. QED
      BY <2>1, <1>2, <1>3, <1>4, <1>5, <1>6
<1>. QED
    BY <1>1, <1>7, <1>8 DEF Next, Done

(* A rank that leaves takes its children along.                            *)
LEMMA LeavingStep ==
    ASSUME TypeOK, TermRounds, Leaving, [Next]_vars
    PROVE  Leaving'
<1>. USE RankFacts
<1>0. /\ phase \in [Rank -> Phase] /\ term_up \in [Rank -> BOOLEAN] /\ sense \in [Rank -> BOOLEAN]
      /\ \A m \in terms : m.src \in Rank /\ m.dst \in Rank
    BY DEF TypeOK, WorkerTypes, Flags
<1>1. CASE ~\E r \in Rank : TermCheck(r)
  <2>1. /\ UNCHANGED <<term_up, terms, sense>>
        /\ \A q \in Rank : (phase'[q] = "loop") <=> (phase[q] = "loop")
      BY <1>1, OnlyTermLeaves
  <2>2. \A p \in Rank : child_ranks(p) \in SUBSET Rank
      BY TreeFacts
  <2>. QED
      BY <2>1, <2>2 DEF Leaving
<1>2. ASSUME NEW r \in Rank, TermCheck(r) PROVE Leaving'
  <2>0. phase[r] = "loop"
      BY <1>2 DEF TermCheck, TermGather, TermResult, InLoop
  <2>1. ASSUME NEW from \in SUBSET TermSources(r), TermWait(r, from) PROVE Leaving'
    <3>1. /\ terms' \subseteq terms /\ term_up' = term_up /\ sense' = sense
          /\ \A q \in Rank : phase'[q] = phase[q]
        BY <1>0, <2>0, <2>1 DEF TermWait, GoTo
    <3>2. \A p \in Rank : child_ranks(p) \in SUBSET Rank
        BY TreeFacts
    <3>. QED
        BY <3>1, <3>2 DEF Leaving
  <2>2. ASSUME NEW from \in SUBSET TermSources(r), r # 0, TermSendUp(r, from) PROVE Leaving'
    <3>1. /\ \A m \in terms' : m \in terms \/ (m.dst = parent_rank(r) /\ m.src = r)
          /\ sense' = sense
          /\ \A q \in Rank : phase'[q] = phase[q]
          /\ \A q \in Rank : q # r => term_up'[q] = term_up[q]
        BY <1>0, <2>0, <2>2 DEF TermSendUp, GoTo
    <3>2. \A p \in Rank : child_ranks(p) \in SUBSET Rank
        BY TreeFacts
    <3>3. ASSUME NEW q \in Rank, phase'[q] # "loop"
          PROVE  /\ q # r /\ ~term_up'[q]
                 /\ \A c \in child_ranks(q) : phase'[c] = "loop" =>
                       /\ sense'[c] # sense'[q]
                       /\ \A m \in terms' : m.src = q /\ m.dst = c => m.flag
      <4>1. q # r /\ phase[q] # "loop"
          BY <2>0, <3>1, <3>3
      <4>2. \A m \in terms' : m.src = q => m \in terms
          BY <3>1, <4>1
      <4>3. /\ ~term_up[q]
            /\ \A c \in child_ranks(q) : phase[c] = "loop" =>
                  /\ sense[c] # sense[q]
                  /\ \A m \in terms : m.src = q /\ m.dst = c => m.flag
          BY <4>1 DEF Leaving
      <4>4. term_up'[q] = term_up[q] /\ \A c \in child_ranks(q) : phase'[c] = phase[c]
          BY <3>1, <3>2, <4>1
      <4>. QED
          BY <3>1, <4>1, <4>2, <4>3, <4>4
    <3>. QED
        BY <3>3 DEF Leaving
  <2>3. ASSUME NEW from \in SUBSET TermSources(0), r = 0, TermReady(0, from), TermDecide(0, from)
        PROVE  Leaving'
    <3>. DEFINE flag == TermFlag(0, from)
    <3>1. /\ \A q \in Rank : q # 0 => term_up[q] /\ sense[q] = sense[0]
          /\ terms = TermGot(0, from)
        BY <2>3, DecideFacts
    <3>2. /\ terms' = {[src |-> 0, dst |-> c, flag |-> flag] : c \in child_ranks(0)}
          /\ term_up' = [term_up EXCEPT ![0] = FALSE]
          /\ sense' = [sense EXCEPT ![0] = ~sense[0]]
          /\ phase' = [phase EXCEPT ![0] = IF flag THEN "cleanup" ELSE "loop"]
        BY <1>0, <2>3, <3>1 DEF TermDecide, TermComplete, GoTo
    <3>3. \A q \in Rank : q # 0 => phase[q] = "loop"
        BY <3>1 DEF Leaving
    <3>4. flag = TRUE => \A m \in terms' : m.flag
        BY <3>2
    <3>. QED
        BY <1>0, <3>1, <3>2, <3>3, <3>4, TreeFacts DEF Leaving
  <2>4. ASSUME NEW m \in terms, m.src = parent_rank(r), m.dst = r,
               TermComplete(r, m.flag, terms \ {m})
        PROVE  Leaving'
    <3>1. /\ r # 0 /\ m.src \in Rank
          /\ sense[r] # sense[m.src]
          /\ \A c \in child_ranks(r) :
                term_up[c] /\ sense[c] = sense[r] /\ ~InFlight(c, r) /\ ~InFlight(r, c)
          /\ \A n \in terms : n.dst = r => n = m
          /\ \A n \in terms : n.src # r
        BY <2>4, ResultFacts
    <3>2. /\ terms' = (terms \ {m}) \cup
                {[src |-> r, dst |-> c, flag |-> m.flag] : c \in child_ranks(r)}
          /\ term_up' = [term_up EXCEPT ![r] = FALSE]
          /\ sense' = [sense EXCEPT ![r] = ~sense[r]]
          /\ phase' = [phase EXCEPT ![r] = IF m.flag THEN "cleanup" ELSE "loop"]
        BY <1>0, <2>4 DEF TermComplete, GoTo
    <3>3. phase[parent_rank(r)] # "loop" => m.flag
        BY <2>0, <2>4, <3>1, TreeFacts DEF Leaving
    <3>4. \A c \in child_ranks(r) : c \in Rank /\ c # r /\ phase[c] = "loop"
        BY <3>1, TreeFacts DEF Leaving
    <3>5. ASSUME NEW q \in Rank, phase'[q] # "loop", q # r,
                 NEW c \in child_ranks(q), phase'[c] = "loop"
          PROVE  /\ sense'[c] # sense'[q]
                 /\ \A n \in terms' : n.src = q /\ n.dst = c => n.flag
      <4>1. c \in Rank /\ phase[q] # "loop" /\ parent_rank(c) = q
          BY <1>0, <3>2, <3>5, TreeFacts
      <4>2. c # r
          BY <1>0, <3>2, <3>3, <3>5, <4>1
      <4>3. phase[c] = "loop"
          BY <1>0, <3>2, <3>5, <4>1, <4>2
      <4>4. /\ sense[c] # sense[q]
            /\ \A n \in terms : n.src = q /\ n.dst = c => n.flag
          BY <3>5, <4>1, <4>3 DEF Leaving
      <4>. QED
          BY <1>0, <3>2, <3>5, <4>1, <4>2, <4>4
    <3>6. ASSUME phase'[r] # "loop", NEW c \in child_ranks(r), phase'[c] = "loop"
          PROVE  /\ sense'[c] # sense'[r]
                 /\ \A n \in terms' : n.src = r /\ n.dst = c => n.flag
      <4>1. m.flag
          BY <1>0, <3>2, <3>6
      <4>2. sense'[c] = sense[r] /\ sense'[r] # sense[r]
          BY <1>0, <3>1, <3>2, <3>4
      <4>. QED
          BY <3>1, <3>2, <4>1, <4>2
    <3>7. \A q \in Rank : phase'[q] # "loop" => ~term_up'[q]
        BY <1>0, <3>2 DEF Leaving
    <3>. QED
        BY <3>5, <3>6, <3>7 DEF Leaving
  <2>. QED
      BY <1>2, <2>1, <2>2, <2>3, <2>4, TermCases
<1>. QED
    BY <1>1, <1>2

(* Leaving is an invariant.                                                *)
LEMMA LeavingHolds == Spec => [](TermInv /\ Leaving)
<1>1. Init => Leaving
    BY DEF Init, WorkerInit, WorkInit, Leaving
<1>2. TermInv /\ Leaving /\ [Next]_vars => Leaving'
    BY LeavingStep DEF TermInv
<1>. QED
    BY <1>1, <1>2, TermInvHolds, PTL DEF Spec

(* The claim in worker.c, for every tree: a rank that has left the work    *)
(* loop has no work transfer outstanding and no receipt or termination     *)
(* message to receive, so the cleanup loop need not look for any.          *)
THEOREM NothingLeftOverHolds == Spec => []NothingLeftOver
<1>1. TermInv /\ Leaving => NothingLeftOver
  <2>. SUFFICES ASSUME TermInv, Leaving, NEW r \in Rank, phase[r] # "loop"
                PROVE  work_outstanding[r] = 0 /\ receipts[r] = 0 /\ \A m \in terms : m.dst # r
      BY DEF NothingLeftOver
  <2>1. work_outstanding[r] = 0
      BY DEF TermInv, ResultSound, Quiet, Idle
  <2>2. receipts[r] = 0
    <3>1. work_outstanding[r] = receipts[r] + Cardinality(Transfers(r)) /\ receipts[r] \in Nat
        BY DEF TermInv, ReceiptsBalance, TypeOK, WorkerTypes
    <3>. QED
        BY <2>1, <3>1, TransfersFinite
  <2>3. ASSUME NEW m \in terms, m.dst = r PROVE FALSE
    <3>1. m.src \in Rank /\ (IsUp(m) \/ IsDown(m))
        BY DEF TermInv, TypeOK, WorkerTypes, Flags, TermRounds
    <3>2. CASE IsDown(m)
        BY <2>3, <3>2 DEF TermInv, TermRounds, Leaving
    <3>3. CASE IsUp(m)
      <4>1. term_up[m.src] /\ sense[m.src] = sense[r] /\ m.src \in child_ranks(r)
          BY <2>3, <3>1, <3>3, TreeFacts DEF TermInv, TermRounds, IsUp
      <4>. QED
          BY <3>1, <4>1 DEF Leaving
    <3>. QED
        BY <3>1, <3>2, <3>3
  <2>. QED
      BY <2>1, <2>2, <2>3
<1>. QED
    BY <1>1, LeavingHolds, PTL

(* A round that is not yet spoiled was joined by idle ranks only.          *)
THEOREM RoundSoundHolds == Spec => []RoundSound
<1>1. TermInv => RoundSound
    BY DEF TermInv
<1>. QED
    BY <1>1, TermInvHolds, PTL

-----------------------------------------------------------------------------
(* What follows for every run of the tree worker.                          *)

(* A rank returns with nothing in its queue: it was idle when it left the  *)
(* work loop, and an aborted rank has written its items to a checkpoint.   *)
LEMMA DumpedStep ==
    ASSUME TermInv, WorkerInv, Dumped, [Next]_vars
    PROVE  Dumped'
<1>. USE RankFacts
<1>0. /\ WorkerTypes /\ Conversation /\ Barrier /\ AbortVote /\ ResultSound
      /\ [WorkerNext]_workerVars
    BY TreeStepWorks DEF TermInv, WorkerInv
<1>1. CASE ~\E r \in Rank : Vote(r)
  <2>1. /\ \A q \in Rank : Past(q) => phase'[q] = phase[q]
        /\ \A q \in Rank : ~Past(q) => ~Voted(q)'
      BY <1>0, <1>1, FlagsOnlyRise
  <2>2. ASSUME NEW q \in Rank, phase'[q] = "exit" PROVE queue'[q] = {}
    <3>1. Past(q)
        BY <2>1, <2>2 DEF Voted
    <3>2. phase[q] = "exit"
        BY <2>1, <2>2, <3>1
    <3>. QED
        BY <1>0, <1>1, <3>1, <3>2, QueueSteps DEF Dumped
  <2>. QED
      BY <2>2 DEF Dumped
<1>2. ASSUME NEW r \in Rank, Vote(r) PROVE Dumped'
  <2>1. /\ \A q \in Rank : q # r => queue'[q] = queue[q] /\ phase'[q] = phase[q]
        /\ \A q \in Rank : ABORT_FLAG[q] => ABORT_FLAG'[q]
        /\ ABORT_FLAG'[r] /\ phase'[r] = "exit" => queue'[r] = {}
        /\ ~ABORT_FLAG'[r] => queue'[r] = queue[r]
      BY <1>0, <1>2, ReduceKeeps
  <2>2. phase[r] \in {"reduce", "await"}
      BY <1>2 DEF Vote, AbortReduceUp, AbortReduceDown
  <2>3. NoWork(r)
      BY <1>0, <2>2 DEF ResultSound, Quiet, Idle
  <2>4. ASSUME NEW q \in Rank, phase'[q] = "exit" PROVE queue'[q] = {}
    <3>1. CASE q # r
        BY <2>1, <2>4, <3>1 DEF Dumped
    <3>2. CASE q = r /\ ABORT_FLAG'[r]
        BY <2>1, <2>4, <3>2
    <3>3. CASE q = r /\ ~ABORT_FLAG'[r]
        BY <2>1, <2>3, <3>3 DEF NoWork
    <3>. QED
        BY <3>1, <3>2, <3>3
  <2>. QED
      BY <2>4 DEF Dumped
<1>. QED
    BY <1>1, <1>2

(* The invariant of the tree worker: that of termination detection, that   *)
(* of CircleWorker, and what only the two together give.                   *)
TreeInv == TermInv /\ Leaving /\ WorkerInv /\ Dumped

(* The invariant holds in every reachable state.                           *)
LEMMA TreeInvHolds == Spec => []TreeInv
<1>1. Init => Dumped
    BY DEF Init, WorkerInit, WorkInit, Dumped
<1>2. (TermInv /\ WorkerInv) /\ Dumped /\ [Next]_vars => Dumped'
    BY DumpedStep
<1>3. Spec => []WorkerInv
    BY TreeImplementsWorker, WorkerInvHolds, PTL
<1>. QED
    BY <1>1, <1>2, <1>3, TermInvHolds, LeavingHolds, PTL DEF Spec, TreeInv

(* The MPI_ANY_SOURCE probes of the allreduce and of the barrier meet only *)
(* messages from children while they count them.                           *)
THEOREM AnySourceIsChildHolds == Spec => []AnySourceIsChild
<1>1. TreeInv => AnySourceIsChild
  <2>. SUFFICES ASSUME TreeInv, NEW r \in Rank
       PROVE  /\ term_replies[r] < children(r) =>
                    \A m \in terms : m.dst = r => m.src \in child_ranks(r)
              /\ barrier_replies[r] < children(r) =>
                    \A m \in barriers : m[2] = r => m[1] \in child_ranks(r)
      BY DEF AnySourceIsChild
  <2>0. TypeOK /\ TermRounds /\ Barrier
      BY DEF TreeInv, TermInv, WorkerInv
  <2>1. children(r) = Cardinality(child_ranks(r)) /\ children(r) \in Nat
      BY ChildrenCount
  <2>2. ASSUME term_replies[r] < children(r), NEW m \in terms, m.dst = r
        PROVE  m.src \in child_ranks(r)
    <3>1. ~term_up[r]
        BY <2>0, <2>1, <2>2 DEF TermRounds
    <3>2. IsUp(m) /\ m.src \in Rank
        BY <2>0, <2>2, <3>1 DEF TermRounds, TypeOK, WorkerTypes, Flags
    <3>. QED
        BY <2>2, <3>2, TreeFacts DEF IsUp
  <2>3. ASSUME barrier_replies[r] < children(r), NEW m \in barriers, m[2] = r
        PROVE  m[1] \in child_ranks(r)
    <3>1. ~barrier_up[r]
      <4>. SUFFICES ASSUME barrier_up[r] PROVE FALSE
          OBVIOUS
      <4>1. ~Past(r) /\ Heard(r) = child_ranks(r)
          BY <2>0 DEF Barrier, Past
      <4>2. barrier_replies[r] = children(r)
          BY <2>0, <2>1, <4>1 DEF Barrier
      <4>. QED
          BY <2>1, <2>3, <4>2
    <3>2. GoesUp(m) /\ m[1] \in Rank
        BY <2>0, <2>3, <3>1 DEF Barrier, TypeOK, WorkerTypes, Pairs
    <3>. QED
        BY <2>3, <3>2, TreeFacts DEF GoesUp
  <2>. QED
      BY <2>2, <2>3
<1>. QED
    BY <1>1, TreeInvHolds, PTL

(* A rank leaves the cleanup loop only when every rank has reached the     *)
(* barrier with nothing outstanding and no message is left behind but the  *)
(* barrier's own results, for every tree.                                  *)
THEOREM CleanExitHolds == Spec => []CleanExit
<1>1. TreeInv /\ NothingLeftOver => CleanExit
  <2>. SUFFICES ASSUME TreeInv, NothingLeftOver, NEW r \in Rank, Past(r)
       PROVE  /\ \A q \in Rank : Past(q) \/ (phase[q] = "cleanup" /\ barrier_started[q])
              /\ requests = {} /\ replies = {} /\ terms = {}
              /\ abort_requests = {} /\ abort_replies = {}
              /\ \A q \in Rank : receipts[q] = 0 /\ work_requested[q] = None /\ ~abort_outstanding[q]
              /\ \A m \in barriers : Past(m[1]) /\ ~Past(m[2])
      BY DEF CleanExit
  <2>1. /\ \A q \in Rank : Past(q) \/ (phase[q] = "cleanup" /\ barrier_started[q])
        /\ requests = {} /\ replies = {} /\ abort_requests = {} /\ abort_replies = {}
        /\ \A q \in Rank : work_requested[q] = None /\ ~abort_outstanding[q]
        /\ \A m \in barriers : Past(m[1]) /\ ~Past(m[2])
      BY CleanPast DEF TreeInv
  <2>2. \A q \in Rank : phase[q] # "loop"
      BY <2>1 DEF Past
  <2>3. \A m \in terms : m.dst \in Rank
      BY DEF TreeInv, TermInv, TypeOK, WorkerTypes, Flags
  <2>4. terms = {} /\ \A q \in Rank : receipts[q] = 0
      BY <2>2, <2>3 DEF NothingLeftOver
  <2>. QED
      BY <2>1, <2>4
<1>. QED
    BY <1>1, TreeInvHolds, NothingLeftOverHolds, PTL

(* All ranks return with the same abort flag, which is set if any was.     *)
THEOREM AbortAgreementHolds == Spec => []AbortAgreement
<1>1. TreeInv => AbortAgreement
    BY VoteAgrees DEF TreeInv
<1>. QED
    BY <1>1, TreeInvHolds, PTL

(* When every rank has returned every item was processed, or the run was   *)
(* aborted on every rank and the other items are in the checkpoints.       *)
THEOREM NothingLostHolds == Spec => []NothingLost
<1>1. TreeInv => NothingLost
  <2>. SUFFICES ASSUME TreeInv, \A r \in Rank : phase[r] = "exit"
       PROVE  /\ created = processed \cup checkpointed
              /\ checkpointed # {} => \A r \in Rank : ABORT_FLAG[r]
      BY DEF NothingLost
  <2>0. TypeOK /\ Conversation /\ Barrier /\ AbortVote /\ Dumped /\ WorkConserved /\ WorkerTypes
        /\ DumpsAfterVote
      BY DEF TreeInv, TermInv, WorkerInv
  <2>1. replies = {}
      BY <2>0, RankFacts, NoConversationPast DEF Past
  <2>2. \A r \in Rank : queue[r] = {}
      BY <2>0 DEF Dumped
  <2>3. UNION {queue[r] : r \in Rank} = {} /\ UNION {m.items : m \in replies} = {}
      BY <2>1, <2>2
  <2>4. created = processed \cup checkpointed
      BY <2>0, <2>3 DEF WorkConserved
  <2>5. checkpointed # {} => \A r \in Rank : ABORT_FLAG[r]
      BY <2>0, RankFacts DEF DumpsAfterVote, AbortVote
  <2>. QED
      BY <2>4, <2>5
<1>. QED
    BY <1>1, TreeInvHolds, PTL

(* An aborted rank stays aborted, and its items go nowhere but into its    *)
(* checkpoint.                                                             *)
THEOREM AbortSticksHolds == Spec => AbortSticks
<1>1. TreeInv /\ [Next]_vars =>
         \A r \in Rank : ABORT_FLAG[r] /\ phase[r] # "exit" =>
            /\ ABORT_FLAG'[r]
            /\ queue[r] \subseteq queue'[r] \cup checkpointed'
    BY AbortKept, TreeStepWorks DEF TreeInv
<1>. QED
    BY <1>1, TreeInvHolds, PTL DEF Spec, AbortSticks

-----------------------------------------------------------------------------
(* The ranks together implement the pool of work.                          *)

(* Termination is announced when the pool is empty or the run aborted.     *)
LEMMA FirstLeaves ==
    ASSUME TreeInv, TreeInv', TerminationSafe', NEW r \in Rank, TermCheck(r),
           \A q \in Rank : phase[q] = "loop",
           \E q \in Rank : phase'[q] # "loop"
    PROVE  (\E q \in Rank : ABORT_FLAG[q]) \/ processed = created
<1>. USE RankFacts
<1>0. TypeOK /\ DumpsAfterVote /\ WorkConserved
    BY DEF TreeInv, TermInv, WorkerInv
<1>1. /\ UNCHANGED <<queue, replies, ABORT_FLAG>>
      /\ \A q \in Rank : phase'[q] # "exit"
  <2>1. UNCHANGED <<queue, replies, ABORT_FLAG>>
        /\ \E ph \in {"loop", "cleanup"} : phase' = [phase EXCEPT ![r] = ph]
      BY DEF TermCheck, TermGather, TermResult, TermWait, TermSendUp, TermDecide,
         TermComplete, GoTo
  <2>. QED
      BY <1>0, <2>1 DEF TypeOK, WorkerTypes
<1>2. \A q \in Rank : NoWork(q)' /\ Transfers(q)' = {}
    BY <1>1 DEF TerminationSafe
<1>3. \A q \in Rank : (queue[q] = {} \/ ABORT_FLAG[q]) /\ Transfers(q) = {}
    BY <1>1, <1>2 DEF NoWork, Transfers
<1>4. checkpointed = {}
    BY <1>0 DEF DumpsAfterVote
<1>5. ASSUME \A q \in Rank : ~ABORT_FLAG[q] PROVE processed = created
  <2>1. \A q \in Rank : queue[q] = {}
      BY <1>3, <1>5
  <2>2. ASSUME NEW m \in replies PROVE m.items = {}
    <3>1. m.src \in Rank /\ m.dst \in Rank
        BY <1>0 DEF TypeOK, WorkerTypes
    <3>. QED
        BY <1>3, <3>1 DEF Transfers
  <2>3. UNION {queue[q] : q \in Rank} = {} /\ UNION {m.items : m \in replies} = {}
      BY <2>1, <2>2
  <2>. QED
      BY <1>0, <1>4, <2>3 DEF WorkConserved
<1>. QED
    BY <1>5

(* Every step of a rank is a step of the pool, or none: an item is         *)
(* processed once, before termination, and termination is announced only   *)
(* when everything is processed or the run is aborted.                     *)
THEOREM ImplementsPoolHolds == Spec => ImplementsPool
<1>. USE RankFacts
<1>1. Init => Pool!PoolInit
  <2>. SUFFICES ASSUME Init PROVE Pool!PoolInit
      OBVIOUS
  <2>1. TypeOK /\ processed = {} /\ \A r \in Rank : phase[r] = "loop"
      BY TypeInit DEF Init, WorkerInit, WorkInit
  <2>. QED
      BY <2>1 DEF Pool!PoolInit, TypeOK, WorkerTypes
<1>2. ASSUME TreeInv, TreeInv', TerminationSafe', [Next]_vars
      PROVE  [Pool!PoolNext]_(Pool!poolVars)
  <2>0. /\ TypeOK /\ Conversation /\ Barrier /\ AbortFlood /\ AbortVote /\ WorkConserved
        /\ ResultSound /\ WorkerTypes /\ [WorkerNext]_workerVars
      BY <1>2, TreeStepWorks DEF TreeInv, TermInv, WorkerInv
  <2>1. ASSUME NEW r \in Rank, Work(r)
        PROVE  \E i \in Item, new \in SUBSET (Item \ created) : Pool!ProcessOne(i, new)
    <3>1. /\ phase[r] = "loop" /\ queue[r] # {} /\ ~ABORT_FLAG[r] /\ phase' = phase
          /\ \E a \in BOOLEAN : ABORT_FLAG' = [ABORT_FLAG EXCEPT ![r] = a]
        BY <2>1 DEF Work, Process, InLoop
    <3>2. PICK i \in queue[r], new \in SUBSET (Item \ created) :
              created' = created \cup new /\ processed' = processed \cup {i}
        BY <2>1 DEF Work, Process
    <3>3. \A q \in Rank : phase[q] = "loop"
        BY <2>0, <3>1 DEF ResultSound, Quiet, Idle, NoWork
    <3>4. i \in Item /\ i \in created \ processed
      <4>1. i \in Item
          BY <2>0 DEF TypeOK, WorkerTypes
      <4>2. i \in UNION {queue[q] : q \in Rank}
          OBVIOUS
      <4>3. i \in created
          BY <2>0, <4>2 DEF WorkConserved
      <4>4. i \notin processed
          BY <2>0 DEF WorkConserved
      <4>. QED
          BY <4>1, <4>3, <4>4
    <3>5. \/ (\E q \in Rank : ABORT_FLAG'[q]) = (\E q \in Rank : ABORT_FLAG[q])
          \/ (\E q \in Rank : ABORT_FLAG'[q]) = TRUE
      <4>1. ASSUME NEW q \in Rank, ABORT_FLAG[q] PROVE ABORT_FLAG'[q]
          BY <2>0, <3>1, <4>1 DEF TypeOK, WorkerTypes
      <4>. DEFINE A == \E q \in Rank : ABORT_FLAG[q]
                  B == \E q \in Rank : ABORT_FLAG'[q]
      <4>2. A \in BOOLEAN /\ B \in BOOLEAN /\ (A => B)
          BY <4>1
      <4>. HIDE DEF A, B
      <4>3. B = A \/ B = TRUE
          BY <4>2
      <4>. QED
          BY <4>3 DEF A, B
    <3>6. Pool!ProcessOne(i, new)
        BY <3>1, <3>2, <3>3, <3>4, <3>5 DEF Pool!ProcessOne
    <3>. QED
        BY <3>4, <3>6
  <2>2. CASE ~\E r \in Rank : Work(r)
    <3>1. (\E q \in Rank : ABORT_FLAG'[q]) = (\E q \in Rank : ABORT_FLAG[q])
        BY <1>2, <2>0, <2>2, AbortSpreads
    <3>2. UNCHANGED <<created, processed>>
      <4>1. ASSUME NEW r \in Rank, Serve(r) \/ CountReceipts(r) \/ Ask(r)
            PROVE  UNCHANGED <<created, processed>>
          BY <4>1 DEF Serve, CountReceipts, Ask, CIRCLE_workreq_check,
             CIRCLE_workreceipt_check, SendRequest, ReceiveReply
      <4>2. ASSUME NEW r \in Rank, NEW flag, NEW rest, Finish(r, flag, rest)
            PROVE  UNCHANGED <<created, processed>>
          BY <4>2 DEF Finish
      <4>. QED
          BY <2>0, <2>2, <4>1, <4>2, DistSteps DEF distVars
    <3>3. CASE ~\E r \in Rank : TermCheck(r)
      <4>1. \A q \in Rank : (phase'[q] = "loop") <=> (phase[q] = "loop")
          BY <1>2, <2>0, <3>3, OnlyTermLeaves
      <4>2. (\E q \in Rank : phase'[q] # "loop") = (\E q \in Rank : phase[q] # "loop")
          BY <4>1
      <4>. QED
          BY <3>1, <3>2, <4>2 DEF Pool!poolVars
    <3>4. ASSUME NEW r \in Rank, TermCheck(r) PROVE [Pool!PoolNext]_(Pool!poolVars)
      <4>1. phase[r] = "loop" /\ \A q \in Rank : q # r => phase'[q] = phase[q]
          BY <2>0, <3>4 DEF TermCheck, TermGather, TermResult, TermWait, TermSendUp,
             TermDecide, TermComplete, GoTo, InLoop, TypeOK, WorkerTypes
      <4>2. CASE (\E q \in Rank : phase'[q] # "loop") = (\E q \in Rank : phase[q] # "loop")
          BY <3>1, <3>2, <4>2 DEF Pool!poolVars
      <4>3. CASE (\E q \in Rank : phase'[q] # "loop") # (\E q \in Rank : phase[q] # "loop")
        <5>1. (\A q \in Rank : phase[q] = "loop") /\ \E q \in Rank : phase'[q] # "loop"
            BY <4>1, <4>3
        <5>2. (\E q \in Rank : ABORT_FLAG[q]) \/ processed = created
            BY <1>2, <3>4, <5>1, FirstLeaves
        <5>3. Pool!Terminate
            BY <3>1, <3>2, <5>1, <5>2 DEF Pool!Terminate
        <5>. QED
            BY <5>3 DEF Pool!PoolNext
      <4>. QED
          BY <4>2, <4>3
    <3>. QED
        BY <3>3, <3>4
  <2>. QED
      BY <2>1, <2>2 DEF Pool!PoolNext
<1>. QED
    BY <1>1, <1>2, TreeInvHolds, TerminationSafeHolds, PTL
    DEF Spec, ImplementsPool, Pool!PoolSpec
=============================================================================
