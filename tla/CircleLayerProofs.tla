------------------------- MODULE CircleLayerProofs --------------------------
(***************************************************************************)
(* What the reductions add to the tree worker does not touch it: every     *)
(* step of CircleReduceWorker is a step of CircleTreeWorker or leaves its  *)
(* variables alone.  So whatever is proved of the tree worker holds with   *)
(* reductions on, and whether or not MPI_Send blocks.                      *)
(***************************************************************************)
EXTENDS CircleReduceInv, CircleTreeProofs

(* A step of the layered worker is a step of the tree worker or a stutter. *)
LEMMA LayerStep ==
    ASSUME NEW r \in Rank, ReduceWorkerStep(r)
    PROVE  Step(r) \/ UNCHANGED vars
<1>1. CASE EarlyStep(r)
    BY <1>1 DEF EarlyStep, Early, BarrierAfterRound, AbortHandlers, Step
<1>2. CASE LateStep(r)
    BY <1>2 DEF LateStep, Late, ReducedOnly, AbortHandlers, Step
<1>3. CASE ProcessAndCount(r)
    BY <1>3 DEF ProcessAndCount, Step
<1>4. CASE ReduceCheck(r)
    BY <1>4 DEF ReduceCheck, Step
<1>5. CASE ReduceSync(r)
    BY <1>5 DEF ReduceSync
<1>6. CASE AbortReduceLast(r)
    BY <1>6 DEF AbortReduceLast, Step
<1>. QED
    BY <1>1, <1>2, <1>3, <1>4, <1>5, <1>6 DEF ReduceWorkerStep

(* The worker with reductions implements the worker without: its rounds    *)
(* and its final reduction (CIRCLE_reduce_check, CIRCLE_reduce_sync) only  *)
(* delay the handlers of the work and cleanup loops.                       *)
THEOREM ReduceImplementsTree == ReduceWorkerSpec => Spec
<1>1. ReduceWorkerInit => Init
    BY DEF ReduceWorkerInit
<1>2. [ReduceWorkerNext]_allVars => [Next]_vars
  <2>1. ASSUME NEW r \in Rank, ReduceWorkerStep(r) PROVE [Next]_vars
      BY <2>1, LayerStep DEF Next
  <2>2. CASE AllDone
      BY <2>2 DEF AllDone, Next
  <2>3. CASE UNCHANGED allVars
      BY <2>3 DEF allVars
  <2>. QED
      BY <2>1, <2>2, <2>3 DEF ReduceWorkerNext
<1>. QED
    BY <1>1, <1>2, PTL DEF ReduceWorkerSpec, Spec

(* With reductions on, no rank leaves the work loop while any rank has     *)
(* work to do, no item is lost or duplicated, all ranks agree on the       *)
(* abort, and nothing is left for the next call of CIRCLE_begin.           *)
THEOREM ReduceKeepsSafety ==
    ReduceWorkerSpec => [](/\ TerminationSafe /\ WorkConserved /\ CleanExit
                           /\ AbortAgreement /\ NothingLost)
BY ReduceImplementsTree, TerminationSafeHolds, WorkConservedHolds, CleanExitHolds,
   AbortAgreementHolds, NothingLostHolds, PTL

-----------------------------------------------------------------------------
(* The rounds.                                                             *)

(* A finite set of messages with one message per sender has as many        *)
(* messages as senders.                                                    *)
LEMMA OnePerSource ==
    ASSUME NEW G, \A m \in G : m.src \in Rank, \A m, n \in G : m.src = n.src => m = n
    PROVE  IsFiniteSet(G) /\ Cardinality(G) = Cardinality({m.src : m \in G})
<1>. DEFINE S == {m.src : m \in G}
            f == [c \in S |-> CHOOSE m \in G : m.src = c]
<1>1. S \in SUBSET Rank
    OBVIOUS
<1>2. IsFiniteSet(S)
    BY <1>1, RankFacts
<1>3. \A c \in S : f[c] \in G /\ f[c].src = c
    OBVIOUS
<1>4. f \in [S -> G]
    BY <1>3
<1>5. \A m \in G : m.src \in S /\ f[m.src] = m
    BY <1>3
<1>. HIDE DEF f, S
<1>6. f \in Surjection(S, G)
    BY <1>4, <1>5 DEF Surjection
<1>7. f \in Injection(S, G)
    BY <1>3, <1>4 DEF Injection, IsInjective
<1>8. IsFiniteSet(G) /\ Cardinality(G) = Cardinality(S)
    BY <1>2, <1>6, <1>7, FS_Surjection
<1>. QED
    BY <1>8 DEF S

(* What tells the messages of a round apart.                               *)
LEMMA MessageFacts ==
    /\ \A a, b : start(a, b).src = a /\ start(a, b).dst = b /\ start(a, b).kind = "start"
    /\ \A a, k, b : /\ result(a, k, b).src = a /\ result(a, k, b).kind = k
                    /\ result(a, k, b).dst = parent_rank(a)
BY DEF start, result

(* In the initial state no round has started.                              *)
LEMMA ReduceInitially ==
    ReduceWorkerInit => ReduceTypes /\ ReduceMessages /\ Rounds /\ AfterRounds
<1>. SUFFICES ASSUME ReduceWorkerInit PROVE ReduceTypes /\ ReduceMessages /\ Rounds /\ AfterRounds
    OBVIOUS
<1>1. reduces = {} /\ \A r \in Rank : ~reduce_outstanding[r] /\ ~synced[r] /\ phase[r] = "loop"
    BY DEF ReduceWorkerInit, ReduceInit, Init, WorkerInit, WorkInit
<1>2. ReduceTypes
    BY DEF ReduceWorkerInit, ReduceInit, ReduceTypes
<1>. QED
    BY <1>1, <1>2 DEF ReduceMessages, Rounds, AfterRounds, Announced, Answers, Owes, Past

(* A step of the worker leaves the rounds alone, or is one of the three    *)
(* things CIRCLE_reduce_check can do, or CIRCLE_reduce_sync.               *)
LEMMA RoundCases ==
    ASSUME TypeOK, NEW r \in Rank, ReduceWorkerStep(r)
    PROVE  \/ UNCHANGED <<reduce_outstanding, reduce_replies, reduces, synced>>
           \/ /\ ReduceEnabled /\ UNCHANGED <<synced, barrier_started>>
              /\ StartReduce(r) \/ RefuseReduce(r) \/ GatherReduce(r)
              /\ \A q \in Rank : phase'[q] = phase[q]
           \/ ReduceEnabled /\ CIRCLE_reduce_sync(r) /\ UNCHANGED vars
<1>1. CASE EarlyStep(r)
    BY <1>1 DEF EarlyStep, Early, reduceVars
<1>2. CASE LateStep(r)
    BY <1>2 DEF LateStep, Late, ReducedOnly
<1>3. CASE ProcessAndCount(r)
    BY <1>3 DEF ProcessAndCount
<1>4. CASE AbortReduceLast(r)
    BY <1>4 DEF AbortReduceLast, reduceVars
<1>5. CASE ReduceSync(r)
    BY <1>5 DEF ReduceSync
<1>6. CASE ReduceCheck(r)
  <2>1. /\ ReduceEnabled /\ UNCHANGED <<vars, synced>>
        /\ StartReduce(r) \/ RefuseReduce(r) \/ GatherReduce(r)
      BY <1>6 DEF ReduceCheck
  <2>. QED
      BY <2>1 DEF vars, workerVars, workVars, barrierVars
<1>. QED
    BY <1>1, <1>2, <1>3, <1>4, <1>5, <1>6 DEF ReduceWorkerStep

(* What a step of the worker may do to the phases: no rank enters the      *)
(* barrier in a round, or votes before its final reduction.                *)
PhasesKept ==
    /\ \A q \in Rank : barrier_started'[q] \/ Past(q)' =>
          barrier_started[q] \/ Past(q) \/ ~reduce_outstanding[q]
    /\ \A q \in Rank : Past(q) => Past(q)'
    /\ \A q \in Rank : phase'[q] \in {"await", "exit"} =>
          phase[q] \in {"await", "exit"} \/ (ReduceEnabled => synced[q])

(* Every step is of this kind.                                             *)
LEMMA LayerPhases ==
    ASSUME TypeOK, Barrier, NEW r \in Rank, ReduceWorkerStep(r)
    PROVE  PhasesKept
<1>0. phase \in [Rank -> Phase] /\ barrier_started \in [Rank -> BOOLEAN]
    BY DEF TypeOK, WorkerTypes
<1>1. ASSUME phase' = phase, barrier_started' = barrier_started
      PROVE  PhasesKept
    BY <1>1 DEF PhasesKept, Past
<1>2. ASSUME NEW ph, phase' = [phase EXCEPT ![r] = ph], barrier_started' = barrier_started,
             ph = phase[r] \/ (phase[r] \in {"loop", "cleanup"} /\ ph \in {"loop", "cleanup"})
      PROVE  PhasesKept
    BY <1>0, <1>2 DEF PhasesKept, Past
<1>3. ASSUME WorkReq(r) \/ WorkReceipt(r) \/ RequestWork(r) \/ ProcessItem(r)
      PROVE  PhasesKept
  <2>1. phase' = phase /\ barrier_started' = barrier_started
      BY <1>3 DEF WorkReq, Serve, WorkReceipt, CountReceipts, RequestWork, Ask, ProcessItem, Work,
         CIRCLE_workreq_check, CIRCLE_workreceipt_check, SendRequest, ReceiveReply, Process,
         barrierVars
  <2>. QED
      BY <1>1, <2>1
<1>4. ASSUME AbortHandlers(r) PROVE PhasesKept
  <2>1. phase' = [phase EXCEPT ![r] = phase[r]] /\ barrier_started' = barrier_started
      BY <1>4 DEF AbortHandlers, AbortCheck, Flood, AbortReplies, FloodEnds, CIRCLE_abort_check,
         AbortTest, GoTo, barrierVars
  <2>. QED
      BY <1>2, <2>1
<1>5. ASSUME TermCheck(r) \/ LoopAgain(r) \/ CleanupIteration(r) PROVE PhasesKept
  <2>1. Turn(r)
      BY <1>5, TermTurns
  <2>2. \E ph \in {"loop", "cleanup"} :
            phase' = [phase EXCEPT ![r] = ph] /\ phase[r] \in {"loop", "cleanup"}
      BY <2>1 DEF Turn, GoTo
  <2>3. barrier_started' = barrier_started
      BY <2>1 DEF Turn, barrierVars
  <2>. QED
      BY <1>2, <2>2, <2>3
<1>6. ASSUME BarrierAfterRound(r) PROVE PhasesKept
  <2>1. /\ ~reduce_outstanding[r]
        /\ phase' = [phase EXCEPT ![r] = phase[r]]
        /\ barrier_started' = [barrier_started EXCEPT ![r] = TRUE]
      BY <1>6 DEF BarrierAfterRound, BarrierStart, EnterBarrier, CIRCLE_barrier_start, InCleanup, GoTo
  <2>2. phase' = phase
      BY <1>0, <2>1
  <2>. QED
      BY <1>0, <2>1, <2>2 DEF PhasesKept, Past
<1>7. ASSUME BarrierTest(r) PROVE PhasesKept
  <2>1. /\ barrier_started[r] /\ phase[r] = "cleanup"
        /\ \E ph \in {"cleanup", "reduce"} : phase' = [phase EXCEPT ![r] = ph]
        /\ \A q \in Rank : q # r => barrier_started'[q] = barrier_started[q]
    <3>1. phase[r] = "cleanup" /\ (barrier_started[r] \/ barrier_up[r])
        BY <1>7 DEF BarrierTest, TestBarrier, BarrierGather, BarrierResult, InCleanup
    <3>2. barrier_started[r]
        BY <3>1 DEF Barrier
    <3>3. \E ph \in {"cleanup", "reduce"} : phase' = [phase EXCEPT ![r] = ph]
        BY <1>7 DEF BarrierTest, TestBarrier, BarrierGather, BarrierResult, BarrierWait,
           BarrierSendUp, BarrierComplete, GoTo
    <3>4. barrier_started' = barrier_started \/ barrier_started' = [barrier_started EXCEPT ![r] = FALSE]
        BY <1>7 DEF BarrierTest, TestBarrier, BarrierGather, BarrierResult, BarrierWait,
           BarrierSendUp, BarrierComplete
    <3>. QED
        BY <1>0, <3>1, <3>2, <3>3, <3>4
  <2>. QED
      BY <1>0, <2>1 DEF PhasesKept, Past
<1>8. ASSUME AbortReduceLast(r) PROVE PhasesKept
  <2>1. /\ phase[r] \in {"reduce", "await"}
        /\ \E ph \in {"await", "exit"} : phase' = [phase EXCEPT ![r] = ph]
        /\ barrier_started' = barrier_started
        /\ ReduceEnabled => synced[r]
      BY <1>8 DEF AbortReduceLast, AbortReduce, Vote, AbortReduceUp, AbortReduceDown, Finish, GoTo,
         barrierVars
  <2>. QED
      BY <1>0, <2>1 DEF PhasesKept, Past
<1>9. ASSUME UNCHANGED vars PROVE PhasesKept
    BY <1>1, <1>9 DEF vars, workerVars, workVars, barrierVars
<1>. QED
    BY <1>3, <1>4, <1>5, <1>6, <1>7, <1>8, <1>9 DEF ReduceWorkerStep, EarlyStep, Early, LateStep,
       Late, ReducedOnly, ProcessAndCount, ReduceCheck, ReduceSync

(* The edges of the tree, for the steps below.                             *)
LEMMA EdgeFacts ==
    /\ \A c \in Rank \ {0} : parent_rank(c) \in Rank /\ parent_rank(c) # c
                                /\ c \in child_ranks(parent_rank(c))
    /\ \A p \in Rank : \A c \in child_ranks(p) : c \in Rank \ {0} /\ parent_rank(c) = p /\ c # p
    /\ \A p \in Rank : {c \in child_ranks(p) : Owes(c)} \in SUBSET Rank
    /\ \A p \in Rank : children(p) = Cardinality(child_ranks(p)) /\ children(p) \in Nat
BY TreeFacts, ChildrenCount

(* A rank that joins a round announces it to all of its children.          *)
LEMMA RoundStarts ==
    ASSUME ReduceTypes, ReduceMessages, Rounds, NEW r \in Rank, StartReduce(r),
           UNCHANGED synced
    PROVE  ReduceTypes' /\ ReduceMessages' /\ Rounds'
<1>. USE EdgeFacts, MessageFacts
<1>0. reduce_outstanding \in [Rank -> BOOLEAN] /\ reduce_replies \in [Rank -> Nat]
    BY DEF ReduceTypes
<1>1. /\ ~reduce_outstanding[r]
      /\ r # 0 => Announced(r)
      /\ reduce_outstanding' = [reduce_outstanding EXCEPT ![r] = TRUE]
      /\ reduce_replies' = [reduce_replies EXCEPT ![r] = 0]
      /\ reduces' = (reduces \ {start(parent_rank(r), r)}) \cup {start(r, c) : c \in child_ranks(r)}
    BY DEF StartReduce, Announced
<1>2. reduce_outstanding' \in [Rank -> BOOLEAN] /\ reduce_replies' \in [Rank -> Nat]
    BY <1>0, <1>1
<1>3. ReduceMessages'
    BY <1>1 DEF ReduceMessages
<1>4. \A c \in Rank : Answers(c)' = Answers(c)
    BY <1>1 DEF Answers
<1>5. ASSUME NEW c \in child_ranks(r) PROVE Announced(c)' /\ ~reduce_outstanding'[c] /\ Answers(c)' = {}
  <2>1. c \in Rank \ {0} /\ parent_rank(c) = r /\ c # r
      OBVIOUS
  <2>2. ~Owes(c)
      BY <1>1, <2>1 DEF Rounds
  <2>3. start(r, c) \in reduces'
      BY <1>1
  <2>. QED
      BY <1>0, <1>1, <1>4, <2>1, <2>2, <2>3 DEF Owes, Announced
<1>6. ASSUME NEW c \in Rank \ {0}, c # r, parent_rank(c) # r
      PROVE  (Announced(c)' <=> Announced(c)) /\ reduce_outstanding'[c] = reduce_outstanding[c]
  <2>1. start(parent_rank(c), c) # start(parent_rank(r), r)
      BY <1>6
  <2>2. \A d \in child_ranks(r) : start(parent_rank(c), c) # start(r, d)
      BY <1>6
  <2>. QED
      BY <1>0, <1>1, <1>6, <2>1, <2>2 DEF Announced
<1>7. r # 0 => ~Announced(r)' /\ reduce_outstanding'[r] /\ Answers(r)' = {}
  <2>. SUFFICES ASSUME r # 0 PROVE ~Announced(r)' /\ reduce_outstanding'[r] /\ Answers(r)' = {}
      OBVIOUS
  <2>1. \A d \in child_ranks(r) : start(parent_rank(r), r) # start(r, d)
      OBVIOUS
  <2>2. Announced(r) /\ Answers(r) = {}
      BY <1>1 DEF Rounds
  <2>. QED
      BY <1>0, <1>1, <1>4, <2>1, <2>2 DEF Announced
<1>8. \A c \in Rank \ {0} : parent_rank(c) # r => (Owes(c)' <=> Owes(c))
    BY <1>1, <1>4, <1>6, <1>7 DEF Owes
<1>9. \A c \in Rank \ {0} : parent_rank(c) = r => c \in child_ranks(r)
    OBVIOUS
<1>10. /\ \A c \in Rank \ {0} : Announced(c)' => ~reduce_outstanding'[c] /\ Answers(c)' = {}
       /\ \A c \in Rank \ {0} : reduce_outstanding'[c] => Answers(c)' = {}
    BY <1>4, <1>5, <1>6, <1>7, <1>9 DEF Rounds
<1>11. \A c \in Rank \ {0} : \A m, n \in Answers(c)' : m = n
    BY <1>4 DEF Rounds
<1>12. \A c \in Rank \ {0} : Owes(c)' => reduce_outstanding'[parent_rank(c)]
    BY <1>0, <1>1, <1>8 DEF Rounds
<1>13. ASSUME NEW p \in Rank, reduce_outstanding'[p]
       PROVE  reduce_replies'[p] + Cardinality({c \in child_ranks(p) : Owes(c)'}) = children(p)
  <2>1. CASE p = r
    <3>1. {c \in child_ranks(p) : Owes(c)'} = child_ranks(p)
        BY <1>5, <2>1 DEF Owes
    <3>2. reduce_replies'[p] = 0
        BY <1>0, <1>1, <2>1
    <3>3. Cardinality({c \in child_ranks(p) : Owes(c)'}) = children(p)
        BY <3>1
    <3>4. children(p) \in Nat
        OBVIOUS
    <3>. QED
        BY <3>2, <3>3, <3>4
  <2>2. CASE p # r
    <3>1. {c \in child_ranks(p) : Owes(c)'} = {c \in child_ranks(p) : Owes(c)}
        BY <1>8, <2>2
    <3>2. reduce_outstanding[p] /\ reduce_replies'[p] = reduce_replies[p]
        BY <1>0, <1>1, <1>13, <2>2
    <3>. QED
        BY <3>1, <3>2 DEF Rounds
  <2>. QED
      BY <2>1, <2>2
<1>. QED
    BY <1>2, <1>3, <1>10, <1>11, <1>12, <1>13 DEF ReduceTypes, Rounds

(* A rank that refuses a round in the cleanup loop answers it at once.     *)
LEMMA RoundRefused ==
    ASSUME ReduceTypes, ReduceMessages, Rounds, NEW r \in Rank, RefuseReduce(r), UNCHANGED synced
    PROVE  ReduceTypes' /\ ReduceMessages' /\ Rounds'
<1>. USE EdgeFacts, MessageFacts
<1>1. /\ r # 0 /\ Announced(r) /\ ~reduce_outstanding[r]
      /\ UNCHANGED <<reduce_outstanding, reduce_replies>>
    BY DEF RefuseReduce, Announced
<1>2. PICK a : a = result(r, "round", reduce_buf'[r])
    OBVIOUS
<1>3. /\ reduces' = (reduces \ {start(parent_rank(r), r)}) \cup {a}
      /\ a.src = r /\ a.dst = parent_rank(r) /\ a.kind = "round"
    BY <1>2 DEF RefuseReduce
<1>4. ReduceMessages'
    BY <1>1, <1>3 DEF ReduceMessages
<1>5. ASSUME NEW c \in Rank \ {0}, c # r
      PROVE  Answers(c)' = Answers(c) /\ (Announced(c)' <=> Announced(c))
  <2>1. start(parent_rank(c), c) # start(parent_rank(r), r) /\ start(parent_rank(c), c) # a
      BY <1>3, <1>5
  <2>2. Announced(c)' <=> Announced(c)
      BY <1>3, <2>1 DEF Announced
  <2>3. Answers(c)' = Answers(c)
      BY <1>3, <1>5 DEF Answers
  <2>. QED
      BY <2>2, <2>3
<1>6. Answers(r)' = {a} /\ ~Announced(r)'
  <2>1. Answers(r) = {}
      BY <1>1 DEF Rounds
  <2>2. Answers(r)' = {a}
      BY <1>3, <2>1 DEF Answers
  <2>3. start(parent_rank(r), r) # a
      BY <1>3
  <2>. QED
      BY <1>3, <2>2, <2>3 DEF Announced
<1>7. \A c \in Rank \ {0} : Owes(c)' <=> Owes(c)
    BY <1>1, <1>5, <1>6 DEF Owes
<1>8. \A p \in Rank : {c \in child_ranks(p) : Owes(c)'} = {c \in child_ranks(p) : Owes(c)}
    BY <1>7
<1>9. /\ \A c \in Rank \ {0} : Announced(c)' => ~reduce_outstanding'[c] /\ Answers(c)' = {}
      /\ \A c \in Rank \ {0} : reduce_outstanding'[c] => Answers(c)' = {}
      /\ \A c \in Rank \ {0} : \A m, n \in Answers(c)' : m = n
    BY <1>1, <1>5, <1>6 DEF Rounds
<1>10. \A c \in Rank \ {0} : Owes(c)' => reduce_outstanding'[parent_rank(c)]
    BY <1>1, <1>7 DEF Rounds
<1>11. \A p \in Rank : reduce_outstanding'[p] =>
          reduce_replies'[p] + Cardinality({c \in child_ranks(p) : Owes(c)'}) = children(p)
    BY <1>1, <1>8 DEF Rounds
<1>. QED
    BY <1>1, <1>4, <1>9, <1>10, <1>11 DEF ReduceTypes, Rounds

(* The partial results r takes are answers to its round, one from each of  *)
(* some children that owed one.                                            *)
LEMMA TakenFacts ==
    ASSUME ReduceTypes, ReduceMessages, Rounds, AfterRounds, Barrier, NEW r \in Rank, ~Past(r),
           NEW got \in SUBSET Results(r)
    PROVE  /\ \A m \in got : m.src \in child_ranks(r) /\ m \in Answers(m.src)
           /\ \A c \in {m.src : m \in got} : Answers(c) \subseteq got
           /\ Cardinality(got) = Cardinality({m.src : m \in got})
           /\ {m.src : m \in got} \subseteq {c \in child_ranks(r) : Owes(c)}
<1>. USE EdgeFacts, MessageFacts
<1>1. ASSUME NEW m \in got PROVE m \in reduces /\ m.src \in child_ranks(r) /\ m \in Answers(m.src)
  <2>1. m \in reduces /\ m.dst = r /\ m.src \in child_ranks(r)
      BY DEF Results
  <2>2. m.src \in Rank \ {0} /\ parent_rank(m.src) = r
      BY <2>1
  <2>3. m.kind # "start"
    <3>. SUFFICES ASSUME m.kind = "start" PROVE FALSE
        OBVIOUS
    <3>1. m.dst \in Rank \ {0} /\ m = start(parent_rank(m.dst), m.dst)
        BY <2>1 DEF ReduceMessages
    <3>2. r # 0 /\ m.src = parent_rank(r)
        BY <2>1, <3>1
    <3>. QED
        BY <2>1, <3>2, TreeFacts
  <2>4. m.kind # "sync"
    <3>. SUFFICES ASSUME m.kind = "sync" PROVE FALSE
        OBVIOUS
    <3>1. Past(m.src)
        BY <2>1, <2>2 DEF AfterRounds
    <3>. QED
        BY <2>2, <3>1 DEF Barrier
  <2>5. m.kind = "round"
      BY <2>1, <2>3, <2>4 DEF ReduceMessages
  <2>. QED
      BY <2>1, <2>5 DEF Answers
<1>2. \A m, n \in got : m.src = n.src => m = n
    BY <1>1 DEF Rounds
<1>3. \A c \in {m.src : m \in got} : Answers(c) \subseteq got
    BY <1>1 DEF Rounds
<1>4. Cardinality(got) = Cardinality({m.src : m \in got})
    BY <1>1, <1>2, OnePerSource
<1>5. {m.src : m \in got} \subseteq {c \in child_ranks(r) : Owes(c)}
    BY <1>1 DEF Owes
<1>. QED
    BY <1>1, <1>3, <1>4, <1>5

(* A rank that takes partial results waits for those that are missing, and *)
(* answers when none is.                                                   *)
LEMMA RoundGathered ==
    ASSUME ReduceTypes, ReduceMessages, Rounds, AfterRounds, Barrier, NEW r \in Rank, ~Past(r),
           GatherReduce(r), UNCHANGED synced
    PROVE  ReduceTypes' /\ ReduceMessages' /\ Rounds'
<1>. USE EdgeFacts, MessageFacts
<1>0. reduce_outstanding \in [Rank -> BOOLEAN] /\ reduce_replies \in [Rank -> Nat]
    BY DEF ReduceTypes
<1>1. PICK got \in SUBSET Results(r) :
          /\ reduce_replies' = [reduce_replies EXCEPT ![r] = reduce_replies[r] + Cardinality(got)]
          /\ \/ /\ reduce_replies[r] + Cardinality(got) = children(r)
                /\ CompleteReduce(r, Combine(r, got), reduces \ got)
             \/ /\ reduce_replies[r] + Cardinality(got) # children(r)
                /\ reduces' = reduces \ got
                /\ UNCHANGED reduce_outstanding
    BY DEF GatherReduce
<1>2. reduce_outstanding[r]
    BY DEF GatherReduce
<1>3. PICK E : /\ reduces' = (reduces \ got) \cup E
               /\ \/ /\ E = {} /\ UNCHANGED reduce_outstanding
                  \/ /\ reduce_replies[r] + Cardinality(got) = children(r)
                     /\ reduce_outstanding' = [reduce_outstanding EXCEPT ![r] = FALSE]
                     /\ \/ r = 0 /\ E = {}
                        \/ r # 0 /\ \E a : E = {a} /\ a.src = r /\ a.dst = parent_rank(r) /\ a.kind = "round"
  <2>1. CASE CompleteReduce(r, Combine(r, got), reduces \ got)
    <3>1. PICK sum : /\ reduces' = (reduces \ got) \cup
                           (IF r = 0 THEN {} ELSE {result(r, "round", sum)})
                     /\ reduce_outstanding' = [reduce_outstanding EXCEPT ![r] = FALSE]
        BY <2>1 DEF CompleteReduce
    <3>2. PICK a : a = result(r, "round", sum)
        OBVIOUS
    <3>3. a.src = r /\ a.dst = parent_rank(r) /\ a.kind = "round"
        BY <3>2
    <3>4. reduces' = (reduces \ got) \cup (IF r = 0 THEN {} ELSE {a})
        BY <3>1, <3>2
    <3>5. \/ reduce_replies[r] + Cardinality(got) = children(r)
          \/ reduces' = reduces \ got /\ UNCHANGED reduce_outstanding
        BY <1>1
    <3>6. CASE reduces' = reduces \ got /\ UNCHANGED reduce_outstanding
        BY <3>6
    <3>7. CASE reduce_replies[r] + Cardinality(got) = children(r)
      <4>1. CASE r = 0
          BY <3>1, <3>4, <3>7, <4>1
      <4>2. CASE r # 0
          BY <3>1, <3>3, <3>4, <3>7, <4>2
      <4>. QED
          BY <4>1, <4>2
    <3>. QED
        BY <3>5, <3>6, <3>7
  <2>2. CASE reduces' = reduces \ got /\ UNCHANGED reduce_outstanding
      BY <2>2
  <2>. QED
      BY <1>1, <2>1, <2>2
<1>. DEFINE S == {m.src : m \in got}
<1>4. /\ \A m \in got : m.src \in child_ranks(r) /\ m \in Answers(m.src)
      /\ \A c \in S : Answers(c) \subseteq got
      /\ Cardinality(got) = Cardinality(S)
      /\ S \subseteq {c \in child_ranks(r) : Owes(c)}
    BY TakenFacts
<1>5. \A m \in got : m.kind = "round" /\ m \in reduces
    BY <1>4 DEF Answers
<1>6. \A e \in E : r # 0 /\ e.src = r /\ e.dst = parent_rank(r) /\ e.kind = "round"
    BY <1>3
<1>7. /\ reduce_outstanding' \in [Rank -> BOOLEAN]
      /\ \A q \in Rank : q # r => reduce_outstanding'[q] = reduce_outstanding[q]
    BY <1>0, <1>3
<1>8. ReduceMessages'
    BY <1>3, <1>6 DEF ReduceMessages
<1>9. \A c \in Rank \ {0} : Announced(c)' <=> Announced(c)
    BY <1>3, <1>5, <1>6 DEF Announced
<1>10. \A c \in Rank \ {0} : c # r /\ c \notin S => Answers(c)' = Answers(c)
    BY <1>3, <1>6 DEF Answers
<1>11. \A c \in S : c \in child_ranks(r) /\ c \in Rank \ {0} /\ c # r
    BY <1>4
<1>12. \A c \in S : Answers(c)' = {}
    BY <1>3, <1>4, <1>6, <1>11 DEF Answers
<1>13. r # 0 => ~Announced(r) /\ Answers(r) = {} /\ r \notin S
    BY <1>2, <1>11 DEF Rounds
<1>14. r # 0 => Answers(r)' = E
  <2>. SUFFICES ASSUME r # 0 PROVE Answers(r)' = E
      OBVIOUS
  <2>1. \A m \in reduces : ~(m.src = r /\ m.kind = "round")
      BY <1>13 DEF Answers
  <2>. QED
      BY <1>3, <1>6, <2>1 DEF Answers
<1>15. \A m, n \in E : m = n
    BY <1>3
<1>16. r # 0 => Owes(r)'
  <2>. SUFFICES ASSUME r # 0 PROVE reduce_outstanding'[r] \/ E # {}
      BY <1>14 DEF Owes
  <2>. QED
      BY <1>2, <1>3
<1>17. \A c \in Rank \ {0} : c # r /\ c \notin S => (Owes(c)' <=> Owes(c))
    BY <1>7, <1>9, <1>10 DEF Owes
<1>18. \A c \in S : ~Owes(c)'
  <2>1. \A c \in S : Answers(c) # {}
      BY <1>4
  <2>2. \A c \in S : ~Announced(c) /\ ~reduce_outstanding[c]
      BY <1>11, <2>1 DEF Rounds
  <2>. QED
      BY <1>7, <1>9, <1>11, <1>12, <2>2 DEF Owes
<1>. HIDE DEF S
<1>. DEFINE B == {c \in child_ranks(r) : Owes(c)}
            B1 == {c \in child_ranks(r) : Owes(c)'}
<1>19. B1 = B \ S /\ B \cap S = S
    BY <1>4, <1>17, <1>18
<1>20. reduce_replies[r] + Cardinality(B) = children(r)
    BY <1>2 DEF Rounds
<1>21. IsFiniteSet(B) /\ Cardinality(B) \in Nat /\ IsFiniteSet(B1) /\ Cardinality(B1) \in Nat
       /\ Cardinality(S) \in Nat
  <2>1. B \in SUBSET Rank /\ B1 \in SUBSET Rank /\ S \in SUBSET Rank
      BY <1>11, <1>19
  <2>. QED
      BY <2>1, RankFacts
<1>22. Cardinality(B1) = Cardinality(B) - Cardinality(S)
  <2>. HIDE DEF B, B1
  <2>1. Cardinality(B \ S) = Cardinality(B) - Cardinality(B \cap S)
      BY <1>21, FS_Difference
  <2>. QED
      BY <1>19, <2>1
<1>23. Cardinality(got) = Cardinality(S) /\ reduce_replies[r] \in Nat /\ children(r) \in Nat
    BY <1>0, <1>4
<1>24. reduce_replies[r] + Cardinality(got) + Cardinality(B1) = children(r)
  <2>. HIDE DEF B, B1
  <2>. QED
      BY <1>20, <1>21, <1>22, <1>23
<1>25. reduce_replies[r] + Cardinality(got) = children(r) => B1 = {}
  <2>1. reduce_replies[r] + Cardinality(got) = children(r) => Cardinality(B1) = 0
    <3>. HIDE DEF B, B1
    <3>. QED
        BY <1>21, <1>23, <1>24
  <2>. QED
      BY <1>21, <2>1, FS_EmptySet
<1>26. reduce_replies'[r] = reduce_replies[r] + Cardinality(got)
       /\ reduce_replies' \in [Rank -> Nat]
       /\ \A q \in Rank : q # r => reduce_replies'[q] = reduce_replies[q]
  <2>1. reduce_replies[r] + Cardinality(got) \in Nat
      BY <1>21, <1>23
  <2>2. reduce_replies' = [reduce_replies EXCEPT ![r] = reduce_replies[r] + Cardinality(got)]
      BY <1>1
  <2>. QED
      BY <1>0, <2>1, <2>2
<1>27. /\ \A c \in Rank \ {0} : Announced(c)' => ~reduce_outstanding'[c] /\ Answers(c)' = {}
  <2>. SUFFICES ASSUME NEW c \in Rank \ {0}, Announced(c)'
       PROVE  ~reduce_outstanding'[c] /\ Answers(c)' = {}
      OBVIOUS
  <2>1. Announced(c) /\ c # r /\ c \notin S
      BY <1>9, <1>13, <1>18 DEF Owes
  <2>. QED
      BY <1>7, <1>10, <2>1 DEF Rounds
<1>28. ASSUME NEW c \in Rank \ {0}, reduce_outstanding'[c] PROVE Answers(c)' = {}
  <2>1. CASE c = r
      BY <1>0, <1>3, <1>14, <1>28, <2>1
  <2>2. CASE c # r
      BY <1>7, <1>10, <1>12, <1>28, <2>2 DEF Rounds
  <2>. QED
      BY <2>1, <2>2
<1>29. ASSUME NEW c \in Rank \ {0} PROVE \A m, n \in Answers(c)' : m = n
  <2>1. CASE c = r
      BY <1>14, <1>15, <2>1
  <2>2. CASE c # r
      BY <1>10, <1>12, <2>2 DEF Rounds
  <2>. QED
      BY <2>1, <2>2
<1>30. ASSUME NEW c \in Rank \ {0}, Owes(c)' PROVE reduce_outstanding'[parent_rank(c)]
  <2>1. Owes(c)
    <3>1. CASE c = r
        BY <1>2, <3>1 DEF Owes
    <3>2. CASE c # r
        BY <1>17, <1>18, <1>30, <3>2
    <3>. QED
        BY <3>1, <3>2
  <2>2. reduce_outstanding[parent_rank(c)] /\ parent_rank(c) \in Rank
      BY <2>1 DEF Rounds
  <2>3. CASE parent_rank(c) # r
      BY <1>7, <2>2, <2>3
  <2>4. CASE parent_rank(c) = r
    <3>1. c \in B1
        BY <1>30, <2>4
    <3>2. UNCHANGED reduce_outstanding
        BY <1>3, <1>25, <3>1
    <3>. QED
        BY <2>2, <3>2
  <2>. QED
      BY <2>3, <2>4
<1>31. ASSUME NEW p \in Rank, reduce_outstanding'[p]
       PROVE  reduce_replies'[p] + Cardinality({c \in child_ranks(p) : Owes(c)'}) = children(p)
  <2>1. CASE p = r
    <3>1. {c \in child_ranks(p) : Owes(c)'} = B1
        BY <2>1
    <3>. HIDE DEF B, B1
    <3>2. Cardinality({c \in child_ranks(p) : Owes(c)'}) = Cardinality(B1)
        BY <3>1
    <3>3. reduce_replies'[p] = reduce_replies[r] + Cardinality(got) /\ children(p) = children(r)
        BY <1>26, <2>1
    <3>. QED
        BY <1>24, <3>2, <3>3
  <2>2. CASE p # r
    <3>1. \A c \in child_ranks(p) : c \notin S /\ c \in Rank \ {0}
        BY <1>11, <2>2
    <3>2. \A c \in child_ranks(p) : Owes(c)' <=> Owes(c)
      <4>1. r # 0 => Owes(r)
          BY <1>2 DEF Owes
      <4>. QED
          BY <1>16, <1>17, <3>1, <4>1
    <3>3. {c \in child_ranks(p) : Owes(c)'} = {c \in child_ranks(p) : Owes(c)}
        BY <3>2
    <3>4. reduce_outstanding[p] /\ reduce_replies'[p] = reduce_replies[p]
        BY <1>7, <1>26, <1>31, <2>2
    <3>. QED
        BY <3>3, <3>4 DEF Rounds
  <2>. QED
      BY <2>1, <2>2
<1>. QED
    BY <1>7, <1>8, <1>26, <1>27, <1>28, <1>29, <1>30, <1>31 DEF ReduceTypes, Rounds

(* Past the barrier nobody is in a round, and only partial results of the  *)
(* final reduction are in flight.                                          *)
LEMMA NoRoundPast ==
    ASSUME WorkerInv, ReduceMessages, Rounds, AfterRounds, NEW r \in Rank, Past(r)
    PROVE  /\ \A q \in Rank : ~reduce_outstanding[q]
           /\ \A m \in reduces : /\ m.kind = "sync" /\ m.src \in Rank \ {0}
                                 /\ m.dst = parent_rank(m.src)
<1>. USE EdgeFacts, MessageFacts
<1>1. \A q \in Rank : ~reduce_outstanding[q]
    BY CleanPast DEF AfterRounds
<1>2. \A c \in Rank \ {0} : ~Owes(c)
    BY <1>1 DEF Rounds
<1>3. ASSUME NEW m \in reduces, m.dst \in Rank \ {0}, m = start(parent_rank(m.dst), m.dst)
      PROVE  FALSE
    BY <1>2, <1>3 DEF Owes, Announced
<1>4. ASSUME NEW m \in reduces, m.src \in Rank \ {0}, m.kind = "round"
      PROVE  FALSE
    BY <1>2, <1>4 DEF Owes, Answers
<1>. QED
    BY <1>1, <1>3, <1>4 DEF ReduceMessages

(* The final reduction replaces the results of the children by one.        *)
LEMMA RoundSynced ==
    ASSUME WorkerInv, ReduceTypes, ReduceMessages, Rounds, AfterRounds, NEW r \in Rank,
           ReduceEnabled, CIRCLE_reduce_sync(r), UNCHANGED <<phase, barrier_started>>
    PROVE  ReduceTypes' /\ ReduceMessages' /\ Rounds' /\ AfterRounds'
<1>. USE EdgeFacts, MessageFacts
<1>0. synced \in [Rank -> BOOLEAN]
    BY DEF ReduceTypes
<1>1. /\ Past(r) /\ ~synced[r] /\ phase[r] = "reduce"
      /\ \A c \in child_ranks(r) : \E m \in Results(r) : m.src = c
      /\ synced' = [synced EXCEPT ![r] = TRUE]
      /\ UNCHANGED <<reduce_outstanding, reduce_replies>>
    BY DEF CIRCLE_reduce_sync, Past
<1>2. PICK buf : reduces' = (reduces \ Results(r)) \cup
                    (IF r = 0 THEN {} ELSE {result(r, "sync", buf)})
    BY DEF CIRCLE_reduce_sync
<1>3. PICK a : a = result(r, "sync", buf)
    OBVIOUS
<1>4. a.src = r /\ a.dst = parent_rank(r) /\ a.kind = "sync"
    BY <1>3
<1>5. /\ \A m \in reduces' : (m \in reduces /\ m \notin Results(r)) \/ (r # 0 /\ m = a)
    BY <1>2, <1>3
<1>6. /\ \A q \in Rank : ~reduce_outstanding[q]
      /\ \A m \in reduces : /\ m.kind = "sync" /\ m.src \in Rank \ {0}
                            /\ m.dst = parent_rank(m.src)
    BY <1>1, NoRoundPast
<1>7. \A m \in reduces' : m.kind = "sync" /\ m.src \in Rank \ {0} /\ m.dst = parent_rank(m.src)
    BY <1>4, <1>5, <1>6
<1>8. ReduceTypes' /\ ReduceMessages'
    BY <1>0, <1>1, <1>7 DEF ReduceTypes, ReduceMessages
<1>9. \A c \in Rank \ {0} : ~Announced(c)' /\ Answers(c)' = {}
    BY <1>7 DEF Announced, Answers
<1>10. \A c \in Rank \ {0} : ~Owes(c)'
    BY <1>1, <1>6, <1>9 DEF Owes
<1>11. Rounds'
    BY <1>1, <1>6, <1>9, <1>10 DEF Rounds
<1>12. \A q \in Rank : synced'[q] <=> synced[q] \/ q = r
    BY <1>0, <1>1
<1>13. \A c \in child_ranks(r) : synced[c]
    BY <1>1, <1>6 DEF AfterRounds, Results
<1>14. \A q \in Rank : synced'[q] => Past(q)' /\ \A c \in child_ranks(q) : synced'[c]
    BY <1>1, <1>12, <1>13 DEF AfterRounds, Past
<1>15. ASSUME NEW m \in reduces' PROVE synced'[m.src] /\ ~synced'[m.dst]
  <2>1. CASE m \in reduces /\ m \notin Results(r)
    <3>1. synced[m.src] /\ ~synced[m.dst] /\ m.src \in Rank \ {0} /\ m.dst = parent_rank(m.src)
        BY <1>6, <2>1 DEF AfterRounds
    <3>2. m.dst # r
        BY <2>1, <3>1 DEF Results
    <3>. QED
        BY <1>12, <3>1, <3>2
  <2>2. CASE r # 0 /\ m = a
    <3>1. parent_rank(r) \in Rank /\ parent_rank(r) # r /\ r \in child_ranks(parent_rank(r))
        BY <2>2
    <3>2. ~synced[parent_rank(r)]
        BY <1>1, <3>1 DEF AfterRounds
    <3>. QED
        BY <1>4, <1>12, <2>2, <3>1, <3>2
  <2>. QED
      BY <1>5, <2>1, <2>2
<1>16. \A q \in Rank : barrier_started'[q] \/ Past(q)' => ~reduce_outstanding'[q]
    BY <1>1, <1>6
<1>17. ReduceEnabled => \A q \in Rank : phase'[q] \in {"await", "exit"} => synced'[q]
    BY <1>12 DEF AfterRounds
<1>18. ~ReduceEnabled => reduces' = {}
    OBVIOUS
<1>19. AfterRounds'
    BY <1>14, <1>15, <1>16, <1>17, <1>18 DEF AfterRounds
<1>. QED
    BY <1>8, <1>11, <1>19

(* The invariant of the rounds.                                            *)
RoundInv == ReduceTypes /\ ReduceMessages /\ Rounds /\ AfterRounds

(* A background round touches no message of the final reduction, and no    *)
(* rank joins one from the barrier on.                                     *)
LEMMA BeforeSync ==
    ASSUME WorkerInv, RoundInv, ReduceEnabled, NEW r \in Rank,
           StartReduce(r) \/ RefuseReduce(r) \/ GatherReduce(r),
           UNCHANGED <<synced, barrier_started>>, \A q \in Rank : phase'[q] = phase[q]
    PROVE  ~Past(r) /\ AfterRounds'
<1>. USE EdgeFacts, MessageFacts
<1>0. /\ ReduceMessages /\ AfterRounds /\ Barrier
      /\ reduce_outstanding \in [Rank -> BOOLEAN]
    BY DEF WorkerInv, RoundInv, ReduceTypes
<1>1. ~Past(r)
    BY DEF StartReduce, RefuseReduce, GatherReduce, AtReduce, InLoop, InCleanup, Past
<1>2. \A q \in Rank : Past(q)' <=> Past(q)
    BY DEF Past
<1>3. ASSUME NEW q \in Rank, barrier_started[q] \/ Past(q) PROVE ~reduce_outstanding'[q]
  <2>1. ~reduce_outstanding[q]
      BY <1>0, <1>3 DEF AfterRounds
  <2>2. CASE StartReduce(r)
    <3>1. phase[r] = "loop" /\ reduce_outstanding' = [reduce_outstanding EXCEPT ![r] = TRUE]
        BY <2>2 DEF StartReduce
    <3>2. q # r
        BY <1>0, <1>3, <3>1 DEF Barrier, Past
    <3>. QED
        BY <1>0, <2>1, <3>1, <3>2
  <2>3. CASE RefuseReduce(r)
      BY <2>1, <2>3 DEF RefuseReduce
  <2>4. CASE GatherReduce(r)
    <3>1. \/ UNCHANGED reduce_outstanding
          \/ reduce_outstanding' = [reduce_outstanding EXCEPT ![r] = FALSE]
        BY <2>4 DEF GatherReduce, CompleteReduce
    <3>. QED
        BY <1>0, <2>1, <3>1
  <2>. QED
      BY <2>2, <2>3, <2>4
<1>4. ASSUME NEW m \in reduces', m.kind = "sync" PROVE m \in reduces
  <2>1. CASE StartReduce(r)
    <3>1. m \in reduces \/ \E c \in child_ranks(r) : m = start(r, c)
        BY <2>1 DEF StartReduce
    <3>. QED
        BY <1>4, <3>1
  <2>2. CASE RefuseReduce(r)
    <3>1. m \in reduces \/ m = result(r, "round", reduce_buf'[r])
        BY <2>2 DEF RefuseReduce
    <3>. QED
        BY <1>4, <3>1
  <2>3. CASE GatherReduce(r)
    <3>1. m \in reduces \/ \E b : m = result(r, "round", b)
      <4>1. PICK got : \/ reduces' = reduces \ got
                       \/ CompleteReduce(r, Combine(r, got), reduces \ got)
          BY <2>3 DEF GatherReduce
      <4>2. CASE CompleteReduce(r, Combine(r, got), reduces \ got)
        <5>1. \E b : reduces' = (reduces \ got) \cup (IF r = 0 THEN {} ELSE {result(r, "round", b)})
            BY <4>2 DEF CompleteReduce
        <5>. QED
            BY <5>1
      <4>. QED
          BY <4>1, <4>2
    <3>. QED
        BY <1>4, <3>1
  <2>. QED
      BY <2>1, <2>2, <2>3
<1>5. \A m \in reduces' : m.kind = "sync" => synced'[m.src] /\ ~synced'[m.dst]
    BY <1>0, <1>4 DEF AfterRounds
<1>6. \A q \in Rank : barrier_started'[q] \/ Past(q)' => ~reduce_outstanding'[q]
    BY <1>2, <1>3
<1>7. \A q \in Rank : synced'[q] => Past(q)' /\ \A c \in child_ranks(q) : synced'[c]
    BY <1>0, <1>2 DEF AfterRounds
<1>8. \A q \in Rank : phase'[q] \in {"await", "exit"} => synced'[q]
    BY <1>0 DEF AfterRounds
<1>. QED
    BY <1>1, <1>5, <1>6, <1>7, <1>8 DEF AfterRounds

(* Every step keeps the invariant.                                         *)
LEMMA RoundInvStep ==
    ASSUME TypeOK, WorkerInv, RoundInv, [ReduceWorkerNext]_allVars
    PROVE  RoundInv'
<1>0. ReduceTypes /\ ReduceMessages /\ Rounds /\ AfterRounds /\ Barrier
    BY DEF RoundInv, WorkerInv
<1>1. ASSUME PhasesKept, UNCHANGED <<reduce_outstanding, reduce_replies, reduces, synced>>
      PROVE  RoundInv'
  <2>1. ReduceTypes' /\ ReduceMessages'
      BY <1>0, <1>1 DEF ReduceTypes, ReduceMessages
  <2>2. \A c \in Rank : (Announced(c)' <=> Announced(c)) /\ Answers(c)' = Answers(c)
                        /\ (Owes(c)' <=> Owes(c))
      BY <1>1 DEF Announced, Answers, Owes
  <2>3. \A p \in Rank : {c \in child_ranks(p) : Owes(c)'} = {c \in child_ranks(p) : Owes(c)}
      BY <2>2, EdgeFacts
  <2>4. \A c \in Rank \ {0} : parent_rank(c) \in Rank
      BY EdgeFacts
  <2>5. Rounds'
      BY <1>0, <1>1, <2>2, <2>3, <2>4 DEF Rounds
  <2>6. AfterRounds'
      BY <1>0, <1>1, EdgeFacts DEF AfterRounds, PhasesKept
  <2>. QED
      BY <2>1, <2>5, <2>6 DEF RoundInv
<1>2. ASSUME NEW r \in Rank, ReduceWorkerStep(r) PROVE RoundInv'
  <2>1. PhasesKept
      BY <1>0, <1>2, LayerPhases
  <2>2. ASSUME ReduceEnabled, UNCHANGED <<synced, barrier_started>>,
               StartReduce(r) \/ RefuseReduce(r) \/ GatherReduce(r),
               \A q \in Rank : phase'[q] = phase[q]
        PROVE  RoundInv'
    <3>1. ~Past(r) /\ AfterRounds'
        BY <2>2, BeforeSync
    <3>2. ReduceTypes' /\ ReduceMessages' /\ Rounds'
        BY <1>0, <2>2, <3>1, RoundStarts, RoundRefused, RoundGathered
    <3>. QED
        BY <3>1, <3>2 DEF RoundInv
  <2>3. ASSUME ReduceEnabled, CIRCLE_reduce_sync(r), UNCHANGED vars PROVE RoundInv'
    <3>1. UNCHANGED <<phase, barrier_started>>
        BY <2>3 DEF vars, workerVars, workVars, barrierVars
    <3>. QED
        BY <1>0, <2>3, <3>1, RoundSynced DEF RoundInv
  <2>. QED
      BY <1>1, <1>2, <2>1, <2>2, <2>3, RoundCases
<1>3. ASSUME AllDone \/ UNCHANGED allVars PROVE RoundInv'
  <2>1. /\ phase' = phase /\ barrier_started' = barrier_started
        /\ UNCHANGED <<reduce_outstanding, reduce_replies, reduces, synced>>
      BY <1>3 DEF AllDone, Done, allVars, vars, workerVars, workVars, barrierVars, reduceVars
  <2>2. PhasesKept
      BY <2>1 DEF PhasesKept, Past
  <2>. QED
      BY <1>1, <2>1, <2>2
<1>. QED
    BY <1>2, <1>3 DEF ReduceWorkerNext

(* The invariant holds in every reachable state, and with it that of the   *)
(* worker below the reductions.                                            *)
LEMMA RoundInvHolds == ReduceWorkerSpec => [](WorkerInv /\ RoundInv)
<1>1. ReduceWorkerInit => RoundInv
    BY ReduceInitially DEF RoundInv
<1>2. TypeOK /\ WorkerInv /\ RoundInv /\ [ReduceWorkerNext]_allVars => RoundInv'
    BY RoundInvStep
<1>3. ReduceWorkerSpec => [](TypeOK /\ WorkerInv)
    BY ReduceImplementsTree, TypeCorrect, TreeImplementsWorker, WorkerInvHolds, PTL
<1>. QED
    BY <1>1, <1>2, <1>3, PTL DEF ReduceWorkerSpec

(* The edge above c carries the round once if c owes an answer, and not at *)
(* all if it does not.                                                     *)
LEMMA OnceOnEdge ==
    ASSUME ReduceMessages, Rounds, NEW r \in Rank, NEW c \in child_ranks(r)
    PROVE  RoundOnEdge(r, c) = (IF Owes(c) THEN 1 ELSE 0)
<1>. USE EdgeFacts, MessageFacts
<1>. DEFINE D == {m \in reduces : m.src = r /\ m.dst = c}
            U == {m \in reduces : m.src = c /\ m.dst = r /\ m.kind = "round"}
<1>1. c \in Rank \ {0} /\ parent_rank(c) = r /\ c # r
    OBVIOUS
<1>2. \A m \in D : m = start(r, c)
  <2>. SUFFICES ASSUME NEW m \in reduces, m.src = r, m.dst = c PROVE m = start(r, c)
      OBVIOUS
  <2>1. ~(m.src \in Rank \ {0} /\ m.dst = parent_rank(m.src))
      BY TreeFacts
  <2>. QED
      BY <1>1, <2>1 DEF ReduceMessages
<1>3. D = IF Announced(c) THEN {start(r, c)} ELSE {}
    BY <1>1, <1>2 DEF Announced
<1>4. Cardinality(D) = IF Announced(c) THEN 1 ELSE 0
    BY <1>3, FS_EmptySet, FS_Singleton
<1>5. U = Answers(c)
  <2>1. ASSUME NEW m \in Answers(c) PROVE m.dst = r
      BY <1>1, <2>1 DEF Answers, ReduceMessages
  <2>. QED
      BY <2>1 DEF Answers
<1>6. Cardinality(U) = IF Answers(c) # {} THEN 1 ELSE 0
  <2>1. CASE Answers(c) = {}
      BY <1>5, <2>1, FS_EmptySet
  <2>2. CASE Answers(c) # {}
    <3>1. PICK m \in Answers(c) : TRUE
        BY <2>2
    <3>2. Answers(c) = {m}
        BY <1>1, <3>1 DEF Rounds
    <3>. HIDE DEF U
    <3>3. U = {m} /\ Cardinality({m}) = 1
        BY <1>5, <3>2, FS_Singleton
    <3>. QED
        BY <2>2, <3>3
  <2>. QED
      BY <2>1, <2>2
<1>7. RoundOnEdge(r, c) = Cardinality(D) + Cardinality(U) + (IF reduce_outstanding[c] THEN 1 ELSE 0)
    BY DEF RoundOnEdge
<1>8. /\ Announced(c) => ~reduce_outstanding[c] /\ Answers(c) = {}
      /\ reduce_outstanding[c] => Answers(c) = {}
    BY <1>1 DEF Rounds
<1>. HIDE DEF D, U
<1>. QED
    BY <1>4, <1>6, <1>7, <1>8 DEF Owes

(* Background rounds never overlap, for any tree and any number of rounds. *)
THEOREM RoundsNestHolds == ReduceWorkerSpec => []RoundsNest
<1>1. WorkerInv /\ RoundInv => RoundsNest
  <2>. SUFFICES ASSUME RoundInv, NEW r \in Rank
       PROVE  LET busy == {c \in child_ranks(r) : RoundOnEdge(r, c) # 0} IN
              /\ \A c \in busy : RoundOnEdge(r, c) = 1
              /\ Cardinality(busy) = IF reduce_outstanding[r] THEN children(r) - reduce_replies[r] ELSE 0
      BY DEF RoundsNest
  <2>. DEFINE busy == {c \in child_ranks(r) : RoundOnEdge(r, c) # 0}
              B == {c \in child_ranks(r) : Owes(c)}
  <2>0. ReduceMessages /\ Rounds /\ reduce_replies[r] \in Nat
      BY DEF RoundInv, ReduceTypes
  <2>1. \A c \in child_ranks(r) : RoundOnEdge(r, c) = (IF Owes(c) THEN 1 ELSE 0)
      BY <2>0, OnceOnEdge
  <2>2. busy = B /\ \A c \in busy : RoundOnEdge(r, c) = 1
      BY <2>1
  <2>3. Cardinality(B) \in Nat
    <3>1. B \in SUBSET Rank
        BY EdgeFacts
    <3>. QED
        BY <3>1, RankFacts
  <2>4. CASE reduce_outstanding[r]
    <3>1. reduce_replies[r] + Cardinality(B) = children(r) /\ children(r) \in Nat
        BY <2>0, <2>4, EdgeFacts DEF Rounds
    <3>. HIDE DEF B
    <3>2. Cardinality(B) = children(r) - reduce_replies[r]
        BY <2>0, <2>3, <3>1
    <3>. QED
        BY <2>2, <2>4, <3>2
  <2>5. CASE ~reduce_outstanding[r]
    <3>1. B = {}
        BY <2>0, <2>5, EdgeFacts DEF Rounds
    <3>. QED
        BY <2>2, <2>5, <3>1, FS_EmptySet
  <2>. QED
      BY <2>4, <2>5
<1>. QED
    BY <1>1, RoundInvHolds, PTL

(* CIRCLE_reduce_sync never receives a message of a background round, and  *)
(* leaves none of its own.                                                 *)
THEOREM NoRoundPastBarrierHolds == ReduceWorkerSpec => []NoRoundPastBarrier
<1>1. WorkerInv /\ RoundInv => NoRoundPastBarrier
  <2>. SUFFICES ASSUME WorkerInv, RoundInv PROVE NoRoundPastBarrier
      OBVIOUS
  <2>0. ReduceMessages /\ Rounds /\ AfterRounds
      BY DEF RoundInv
  <2>1. (\E r \in Rank : Past(r)) =>
            (\A m \in reduces : m.kind = "sync") /\ \A r \in Rank : ~reduce_outstanding[r]
      BY <2>0, NoRoundPast
  <2>2. ASSUME \A r \in Rank : phase[r] = "exit" PROVE reduces = {}
    <3>1. \A m \in reduces : m.kind = "sync" /\ m.src \in Rank \ {0} /\ m.dst = parent_rank(m.src)
        BY <2>0, <2>2, NoRoundPast, RankFacts DEF Past
    <3>2. \A m \in reduces : m.dst \in Rank /\ ~synced[m.dst]
        BY <2>0, <3>1, EdgeFacts DEF AfterRounds
    <3>. QED
        BY <2>0, <2>2, <3>2 DEF AfterRounds
  <2>. QED
      BY <2>1, <2>2 DEF NoRoundPastBarrier
<1>. QED
    BY <1>1, RoundInvHolds, PTL
-----------------------------------------------------------------------------
(* The final reduction.                                                    *)

NobodyPast == \A q \in Rank : ~Past(q)

(* It has not begun while no rank has passed the barrier.                  *)
LEMMA NothingFinal == ReduceMessages /\ AfterRounds /\ NobodyPast => FinalSums
<1>. SUFFICES ASSUME ReduceMessages, AfterRounds, NobodyPast PROVE FinalSums
    OBVIOUS
<1>1. \A q \in Rank : ~synced[q]
    BY DEF AfterRounds, NobodyPast
<1>2. ASSUME NEW m \in reduces, m.kind = "sync" PROVE FALSE
  <2>1. m.src \in Rank
      BY <1>2, MessageFacts DEF ReduceMessages
  <2>. QED
      BY <1>1, <1>2, <2>1 DEF AfterRounds
<1>. QED
    BY <1>1, <1>2, RankFacts DEF FinalSums, FinalExact

(* No step but that of process_cb changes the processed items or a count.  *)
LEMMA CountSteps ==
    ASSUME NEW r \in Rank, ReduceWorkerStep(r), ~ProcessAndCount(r)
    PROVE  UNCHANGED <<processed, objects_processed>>
<1>1. ASSUME WorkReq(r) \/ WorkReceipt(r) \/ RequestWork(r) PROVE processed' = processed
    BY <1>1 DEF WorkReq, Serve, WorkReceipt, CountReceipts, RequestWork, Ask,
       CIRCLE_workreq_check, CIRCLE_workreceipt_check, SendRequest, ReceiveReply
<1>2. ASSUME AbortHandlers(r) PROVE processed' = processed
    BY <1>2 DEF AbortHandlers, AbortCheck, Flood, AbortReplies, FloodEnds, CIRCLE_abort_check,
       AbortTest, GoTo
<1>3. ASSUME TermCheck(r) \/ LoopAgain(r) \/ CleanupIteration(r) PROVE processed' = processed
  <2>1. Turn(r)
      BY <1>3, TermTurns
  <2>. QED
      BY <2>1 DEF Turn, GoTo
<1>4. ASSUME BarrierAfterRound(r) \/ BarrierTest(r) PROVE processed' = processed
    BY <1>4 DEF BarrierAfterRound, BarrierStart, EnterBarrier, CIRCLE_barrier_start, GoTo,
       BarrierTest, TestBarrier, BarrierGather, BarrierResult, BarrierWait, BarrierSendUp,
       BarrierComplete
<1>5. ASSUME AbortReduceLast(r) PROVE UNCHANGED <<processed, objects_processed>>
    BY <1>5 DEF AbortReduceLast, AbortReduce, Vote, AbortReduceUp, AbortReduceDown, Finish, GoTo,
       reduceVars
<1>6. ASSUME UNCHANGED vars PROVE processed' = processed
    BY <1>6 DEF vars, workerVars, workVars
<1>7. CASE EarlyStep(r)
    BY <1>1, <1>2, <1>4, <1>7 DEF EarlyStep, Early, reduceVars
<1>8. CASE LateStep(r)
    BY <1>1, <1>2, <1>3, <1>6, <1>8 DEF LateStep, Late, ReducedOnly
<1>9. CASE ReduceCheck(r) \/ ReduceSync(r)
    BY <1>6, <1>9 DEF ReduceCheck, ReduceSync
<1>. QED
    BY <1>5, <1>7, <1>8, <1>9 DEF ReduceWorkerStep

(* Each item that process_cb takes is counted, once: it had not been       *)
(* processed before.                                                       *)
LEMMA CountedStep ==
    ASSUME WorkerInv, Counted, [ReduceWorkerNext]_allVars
    PROVE  Counted'
<1>1. ASSUME NEW r \in Rank, ProcessAndCount(r) PROVE Counted'
  <2>1. PICK i \in queue[r] : processed' = processed \cup {i}
      BY <1>1 DEF ProcessAndCount, ProcessItem, Work, Process
  <2>2. i \notin processed
      BY <2>1 DEF WorkerInv, WorkConserved
  <2>3. IsFiniteSet(processed)
    <3>1. processed \in SUBSET Item
        BY DEF WorkerInv, WorkerTypes
    <3>. QED
        BY <3>1, ItemAssumption, FS_Subset
  <2>4. Cardinality(processed') = Cardinality(processed) + 1
      BY <2>1, <2>2, <2>3, FS_AddElement
  <2>5. /\ objects_processed \in [Rank -> Nat]
        /\ objects_processed' = [objects_processed EXCEPT ![r] = @ + 1]
      BY <1>1 DEF ProcessAndCount, Counted
  <2>6. /\ objects_processed' \in [Rank -> Nat]
        /\ objects_processed'[r] = objects_processed[r] + 1
        /\ \A q \in Rank : q # r => objects_processed'[q] = objects_processed[q]
      BY <2>5
  <2>7. IsFiniteSet(Rank)
      BY RankFacts
  <2>8. Total(objects_processed') = Total(objects_processed) + 1
    <3>1. PICK f, g : f = objects_processed /\ g = objects_processed'
        OBVIOUS
    <3>2. f \in [Rank -> Nat] /\ g \in [Rank -> Nat]
        BY <2>5, <2>6, <3>1
    <3>3. g[r] = f[r] + 1 /\ \A q \in Rank : q # r => g[q] = f[q]
        BY <2>6, <3>1
    <3>4. Total(g) = Total(f) + 1
        BY <2>7, <3>2, <3>3, TotalPlusOne
    <3>. QED
        BY <3>1, <3>4
  <2>. QED
      BY <2>4, <2>6, <2>8 DEF Counted
<1>2. ASSUME NEW r \in Rank, ReduceWorkerStep(r), ~ProcessAndCount(r) PROVE Counted'
    BY <1>2, CountSteps DEF Counted
<1>3. CASE AllDone \/ UNCHANGED allVars
  <2>1. UNCHANGED <<processed, objects_processed>>
      BY <1>3 DEF AllDone, Done, allVars, vars, workerVars, workVars, reduceVars
  <2>. QED
      BY <2>1 DEF Counted
<1>. QED
    BY <1>1, <1>2, <1>3 DEF ReduceWorkerNext

(* What CIRCLE_reduce_sync makes of disjoint partial results from ranks    *)
(* other than r: one that has their ranks and r.                           *)
LEMMA FinalBuffer ==
    ASSUME Counted, NEW r \in Rank, NEW G, \A m \in G : m.src \in Rank,
           \A m \in G : Sums(m.buf) /\ m.src \in Has(m.buf) /\ r \notin Has(m.buf),
           \A m, n \in G : m # n => Has(m.buf) \cap Has(n.buf) = {},
           NEW buf, buf = [valid |-> TRUE, count |-> objects_processed[r] + SumCounts(G),
                           data |-> reduce_op(reduce_init(r), G)]
    PROVE  /\ Sums(buf)
           /\ \A q \in Rank : q \in Has(buf) <=> q = r \/ \E m \in G : q \in Has(m.buf)
<1>a. PICK w, D, c : /\ w = objects_processed /\ D = [m \in G |-> Has(m.buf)]
                     /\ c = [m \in G |-> m.buf.count]
    OBVIOUS
<1>. DEFINE U == UNION {D[m] : m \in G}
<1>0. w \in [Rank -> Nat] /\ IsFiniteSet(Rank)
    BY <1>a, RankFacts DEF Counted
<1>1. IsFiniteSet(G)
  <2>1. \A m, n \in G : m.src = n.src => m = n
      OBVIOUS
  <2>. QED
      BY <2>1, OnePerSource
<1>2. D \in [G -> SUBSET Rank] /\ \A m \in G : D[m] = Has(m.buf)
    BY <1>a DEF Has
<1>3. \A q : q \in U <=> \E m \in G : q \in Has(m.buf)
    BY <1>2
<1>4. U \in SUBSET Rank /\ IsFiniteSet(U) /\ r \notin U
  <2>1. U \in SUBSET Rank /\ r \notin U
      BY <1>3 DEF Has
  <2>. QED
      BY <1>0, <2>1, FS_Subset
<1>5. \A m \in G : c[m] = Total([q \in D[m] |-> w[q]])
    BY <1>a, <1>2 DEF Sums
<1>6. c \in [G -> Nat]
  <2>. SUFFICES ASSUME NEW m \in G PROVE c[m] \in Nat
      BY <1>a
  <2>1. D[m] \in SUBSET Rank
      BY <1>2
  <2>2. IsFiniteSet(D[m])
      BY <1>0, <2>1, FS_Subset
  <2>3. PICK f : f = [q \in D[m] |-> w[q]]
      OBVIOUS
  <2>4. f \in [D[m] -> Nat]
      BY <1>0, <2>1, <2>3
  <2>. QED
      BY <1>5, <2>2, <2>3, <2>4, UnitsFinite
<1>7. \A m, n \in G : m # n => D[m] \cap D[n] = {}
    BY <1>2
<1>8. SumCounts(G) = Total([q \in U |-> w[q]])
  <2>1. Apart(G, Rank, w, D, c)
      BY <1>0, <1>1, <1>2, <1>5, <1>6, <1>7 DEF Apart
  <2>2. Total(c) = Total([q \in U |-> w[q]])
      BY <2>1, TotalOfParts
  <2>. QED
      BY <1>a, <2>2 DEF SumCounts
<1>9. \A q \in U : w[q] \in Nat
    BY <1>0, <1>4
<1>. HIDE DEF U
<1>10. /\ Total([q \in U \cup {r} |-> w[q]]) = Total([q \in U |-> w[q]]) + w[r]
       /\ w[r] \in Nat /\ Total([q \in U |-> w[q]]) \in Nat
  <2>1. w[r] \in Nat
      BY <1>0
  <2>2. PICK f : f = [q \in U |-> w[q]]
      OBVIOUS
  <2>3. f \in [U -> Nat]
      BY <1>9, <2>2
  <2>4. Total(f) \in Nat
      BY <1>4, <2>3, UnitsFinite
  <2>5. Total([q \in U \cup {r} |-> w[q]]) = Total([q \in U |-> w[q]]) + w[r]
      BY <1>4, <1>9, <2>1, TotalMore
  <2>. QED
      BY <2>1, <2>2, <2>4, <2>5
<1>11. buf.count = Total([q \in U \cup {r} |-> w[q]])
    BY <1>a, <1>8, <1>10
<1>12. ASSUME NEW q \in Rank
       PROVE  buf.data[q] = IF q \in U \cup {r} THEN 1 ELSE 0
  <2>1. PICK f : f = [m \in G |-> m.buf.data[q]]
      OBVIOUS
  <2>2. f \in [G -> {0, 1}] /\ \A m \in G : f[m] = 1 <=> q \in Has(m.buf)
      BY <2>1 DEF Sums, Has
  <2>3. \A m, n \in G : f[m] = 1 /\ f[n] = 1 => m = n
      BY <2>2
  <2>4. Total(f) = IF \E m \in G : f[m] = 1 THEN 1 ELSE 0
      BY <2>2, <2>3, TotalOfOne
  <2>5. Total(f) = IF q \in U THEN 1 ELSE 0
      BY <1>3, <2>2, <2>4
  <2>6. buf.data[q] = (IF q = r THEN 1 ELSE 0) + Total(f)
      BY <2>1 DEF reduce_op, reduce_init
  <2>. QED
      BY <1>4, <2>5, <2>6
<1>13. buf.data \in [Rank -> {0, 1}]
  <2>1. buf.data = [q \in Rank |-> buf.data[q]]
      BY DEF reduce_op
  <2>. QED
      BY <1>12, <2>1
<1>14. Has(buf) = U \cup {r}
    BY <1>4, <1>12 DEF Has
<1>15. Sums(buf)
    BY <1>a, <1>11, <1>13, <1>14 DEF Sums
<1>. QED
    BY <1>3, <1>14, <1>15

(* When the results of all children of the root have come, every other     *)
(* rank has sent its own.                                                  *)
LEMMA AllSynced ==
    ASSUME AfterRounds, \A c \in child_ranks(0) : synced[c]
    PROVE  \A q \in Rank \ {0} : synced[q]
<1>. DEFINE T == {q \in Rank \ {0} : ~synced[q]}
<1>. SUFFICES ASSUME T # {} PROVE FALSE
    OBVIOUS
<1>1. T \in SUBSET Nat
    BY RankFacts
<1>2. PICK q \in T : \A p \in T : ~(p < q)
    BY <1>1, LeastRank
<1>3. /\ parent_rank(q) \in Rank /\ q \in child_ranks(parent_rank(q))
      /\ parent_rank(q) \in Nat /\ q \in Nat /\ parent_rank(q) < q
  <2>1. q \in Rank \ {0} /\ q \in Rank /\ q # 0
      BY <1>2
  <2>2. parent_rank(q) \in Rank /\ q \in child_ranks(parent_rank(q))
      BY <2>1, EdgeFacts
  <2>3. parent_rank(q) \in Nat /\ q \in Nat /\ parent_rank(q) < q
      BY <2>1, <2>2, ParentBelow, RankFacts
  <2>. QED
      BY <2>2, <2>3
<1>4. ~synced[parent_rank(q)] /\ parent_rank(q) # 0
    BY <1>2, <1>3 DEF AfterRounds
<1>. QED
    BY <1>2, <1>3, <1>4

(* CIRCLE_reduce_sync takes the results of the children, and puts one in   *)
(* their place that covers the same ranks and its own; at the root that is *)
(* all of them.                                                            *)
LEMMA FinalSynced ==
    ASSUME WorkerInv, RoundInv, Counted, FinalSums, NEW r \in Rank,
           CIRCLE_reduce_sync(r), UNCHANGED <<processed, objects_processed>>
    PROVE  FinalSums'
<1>. USE EdgeFacts, MessageFacts
<1>0. /\ ReduceTypes /\ ReduceMessages /\ Rounds /\ AfterRounds
      /\ synced \in [Rank -> BOOLEAN] /\ 0 \in Rank
    BY RankFacts DEF RoundInv, ReduceTypes
<1>1. /\ Past(r) /\ ~synced[r]
      /\ \A c \in child_ranks(r) : \E m \in Results(r) : m.src = c
      /\ synced' = [synced EXCEPT ![r] = TRUE]
    BY DEF CIRCLE_reduce_sync, Past
<1>2. PICK G, buf :
        /\ G = Results(r)
        /\ buf = [valid |-> TRUE, count |-> objects_processed[r] + SumCounts(G),
                  data |-> reduce_op(reduce_init(r), G)]
        /\ reduces' = (reduces \ G) \cup (IF r = 0 THEN {} ELSE {result(r, "sync", buf)})
        /\ final' = IF r = 0 THEN [total |-> buf.count, data |-> buf.data] ELSE final
    BY DEF CIRCLE_reduce_sync
<1>3. \A m \in reduces : m.kind = "sync" /\ m.src \in Rank \ {0} /\ m.dst = parent_rank(m.src)
    BY <1>0, <1>1, NoRoundPast
<1>4. /\ \A m \in reduces : Sums(m.buf) /\ m.src \in Has(m.buf)
      /\ \A m \in reduces : \A q \in Has(m.buf) : synced[q]
      /\ \A m, n \in reduces : m # n => Has(m.buf) \cap Has(n.buf) = {}
      /\ ~synced[0] => \A q \in Rank : synced[q] => \E m \in reduces : q \in Has(m.buf)
      /\ FinalExact
    BY <1>3 DEF FinalSums
<1>5. \A m : m \in G <=> m \in reduces /\ m.dst = r
    BY <1>2, <1>3 DEF Results
<1>6. /\ Sums(buf)
      /\ \A q \in Rank : q \in Has(buf) <=> q = r \/ \E m \in G : q \in Has(m.buf)
  <2>1. /\ \A m \in G : m.src \in Rank
        /\ \A m \in G : Sums(m.buf) /\ m.src \in Has(m.buf) /\ r \notin Has(m.buf)
        /\ \A m, n \in G : m # n => Has(m.buf) \cap Has(n.buf) = {}
      BY <1>1, <1>3, <1>4, <1>5
  <2>2. buf = [valid |-> TRUE, count |-> objects_processed[r] + SumCounts(G),
               data |-> reduce_op(reduce_init(r), G)]
      BY <1>2
  <2>. HIDE EdgeFacts, MessageFacts
  <2>. QED
      BY <2>1, <2>2, FinalBuffer
<1>7. \A q \in Rank : synced'[q] <=> synced[q] \/ q = r
    BY <1>0, <1>1
<1>8. \A b : (Sums(b)' <=> Sums(b)) /\ Has(b)' = Has(b) /\ Has(b) \subseteq Rank
    BY DEF Sums, Has
<1>9. CASE r # 0
  <2>1. PICK a : a = result(r, "sync", buf)
      OBVIOUS
  <2>2. a.src = r /\ a.kind = "sync" /\ a.buf = buf
      BY <2>1 DEF result
  <2>3. reduces' = (reduces \ G) \cup {a}
      BY <1>2, <1>9, <2>1
  <2>4. /\ \A m \in reduces' : Sums(m.buf) /\ m.src \in Has(m.buf)
        /\ \A m \in reduces' : \A q \in Has(m.buf) : synced'[q]
    <3>1. \A m \in reduces : /\ Sums(m.buf) /\ m.src \in Has(m.buf)
                             /\ \A q \in Has(m.buf) : synced'[q]
        BY <1>4, <1>7, <1>8
    <3>2. Sums(a.buf) /\ a.src \in Has(a.buf) /\ \A q \in Has(a.buf) : synced'[q]
        BY <1>4, <1>5, <1>6, <1>7, <1>8, <2>2
    <3>. QED
        BY <2>3, <3>1, <3>2
  <2>5. \A m, n \in reduces' : m # n => Has(m.buf) \cap Has(n.buf) = {}
    <3>1. ASSUME NEW n \in reduces \ G PROVE Has(a.buf) \cap Has(n.buf) = {}
      <4>. SUFFICES ASSUME NEW q \in Has(buf), q \in Has(n.buf) PROVE FALSE
          BY <2>2
      <4>1. q \in Rank /\ synced[q]
          BY <1>4, <1>8
      <4>2. PICK m \in G : q \in Has(m.buf)
          BY <1>1, <1>6, <4>1
      <4>3. m \in reduces /\ m # n
          BY <1>5, <4>2
      <4>. QED
          BY <1>4, <4>2, <4>3
    <3>. QED
        BY <1>4, <2>3, <3>1
  <2>6. ASSUME ~synced'[0], NEW q \in Rank, synced'[q]
        PROVE  \E m \in reduces' : q \in Has(m.buf)
    <3>1. CASE q \in Has(buf)
        BY <2>2, <2>3, <3>1
    <3>2. CASE q \notin Has(buf)
      <4>1. q # r /\ synced[q] /\ ~synced[0]
          BY <1>0, <1>6, <1>7, <2>6, <3>2
      <4>2. PICK m \in reduces : q \in Has(m.buf)
          BY <1>4, <4>1
      <4>3. m \notin G
          BY <1>6, <3>2, <4>2
      <4>. QED
          BY <2>3, <4>2, <4>3
    <3>. QED
        BY <3>1, <3>2
  <2>7. FinalExact'
    <3>1. synced'[0] = synced[0] /\ final' = final
        BY <1>0, <1>1, <1>2, <1>9
    <3>. QED
        BY <1>4, <3>1 DEF FinalExact
  <2>8. \A m \in reduces' : m.kind = "sync"
      BY <1>3, <2>2, <2>3
  <2>. QED
      BY <1>8, <2>4, <2>5, <2>6, <2>7, <2>8 DEF FinalSums
<1>10. CASE r = 0
  <2>1. \A c \in child_ranks(0) : synced[c]
      BY <1>0, <1>1, <1>3, <1>5, <1>2, <1>10 DEF AfterRounds
  <2>2. \A q \in Rank \ {0} : synced[q]
      BY <1>0, <2>1, AllSynced
  <2>3. reduces \subseteq G
    <3>. SUFFICES ASSUME NEW m \in reduces PROVE m.dst = 0
        BY <1>5, <1>10
    <3>1. ~synced[m.dst] /\ m.dst \in Rank
        BY <1>0, <1>3 DEF AfterRounds
    <3>. QED
        BY <2>2, <3>1
  <2>4. \A q \in Rank : q \in Has(buf)
    <3>. SUFFICES ASSUME NEW q \in Rank, q # 0 PROVE q \in Has(buf)
        BY <1>6, <1>10
    <3>1. PICK m \in reduces : q \in Has(m.buf)
        BY <1>1, <1>4, <1>10, <2>2
    <3>. QED
        BY <1>6, <2>3, <3>1
  <2>5. Has(buf) = Rank /\ \A q \in Rank : buf.data[q] = 1
      BY <1>8, <2>4 DEF Has
  <2>6. buf.count = Cardinality(processed)
    <3>1. objects_processed = [q \in Rank |-> objects_processed[q]]
        BY DEF Counted
    <3>. QED
        BY <1>6, <2>5, <3>1 DEF Sums, Counted
  <2>7. FinalExact'
      BY <1>2, <1>10, <2>5, <2>6 DEF FinalExact
  <2>8. reduces' = {}
      BY <1>2, <1>10, <2>3
  <2>9. synced'[0]
      BY <1>0, <1>7, <1>10
  <2>. QED
      BY <2>7, <2>8, <2>9 DEF FinalSums
<1>. QED
    BY <1>9, <1>10

(* Every step keeps what is said of the final reduction: nobody processes  *)
(* an item or works on a round once a rank has passed the barrier.         *)
LEMMA FinalStep ==
    ASSUME TypeOK, WorkerInv, RoundInv, RoundInv', Counted, FinalSums, [ReduceWorkerNext]_allVars
    PROVE  FinalSums'
<1>0. ReduceMessages /\ Rounds /\ AfterRounds
    BY DEF RoundInv
<1>1. ASSUME NobodyPast, \A q \in Rank : phase'[q] = phase[q] PROVE FinalSums'
  <2>1. NobodyPast'
      BY <1>1 DEF NobodyPast, Past
  <2>2. ReduceMessages' /\ AfterRounds'
      BY DEF RoundInv
  <2>3. (ReduceMessages /\ AfterRounds /\ NobodyPast => FinalSums)'
      BY NothingFinal, PTL
  <2>. QED
      BY <2>1, <2>2, <2>3
<1>2. ASSUME UNCHANGED <<reduces, synced, final, processed, objects_processed>> PROVE FinalSums'
    BY <1>2 DEF FinalSums, FinalExact, Sums, Has
<1>3. ASSUME NEW r \in Rank, ReduceWorkerStep(r), ~ProcessAndCount(r) PROVE FinalSums'
  <2>1. UNCHANGED <<processed, objects_processed>>
      BY <1>3, CountSteps
  <2>2. CASE EarlyStep(r) \/ LateStep(r) \/ AbortReduceLast(r)
    <3>1. UNCHANGED <<reduces, synced, final>>
        BY <2>2 DEF EarlyStep, Early, LateStep, Late, ReducedOnly, AbortReduceLast,
           reduceVars
    <3>. QED
        BY <1>2, <2>1, <3>1
  <2>3. CASE ReduceSync(r)
      BY <2>1, <2>3, FinalSynced DEF ReduceSync
  <2>4. CASE ReduceCheck(r)
    <3>1. UNCHANGED vars /\ (StartReduce(r) \/ RefuseReduce(r) \/ GatherReduce(r))
        BY <2>4 DEF ReduceCheck
    <3>2. \A q \in Rank : phase'[q] = phase[q]
        BY <3>1 DEF vars, workerVars, workVars
    <3>3. ASSUME NEW q \in Rank, Past(q) PROVE FALSE
      <4>1. ~reduce_outstanding[r] /\ \A m \in reduces : m.kind = "sync"
          BY <1>0, <3>3, NoRoundPast
      <4>2. phase[r] # "loop"
          BY <3>3, CleanPast DEF Past
      <4>3. \A p : start(p, r) \notin reduces
          BY <4>1, MessageFacts
      <4>. QED
          BY <3>1, <4>1, <4>2, <4>3 DEF StartReduce, RefuseReduce, GatherReduce
    <3>. QED
        BY <1>1, <3>2, <3>3 DEF NobodyPast
  <2>. QED
      BY <1>3, <2>2, <2>3, <2>4 DEF ReduceWorkerStep
<1>4. ASSUME NEW r \in Rank, ProcessAndCount(r) PROVE FinalSums'
  <2>1. phase[r] = "loop" /\ phase' = phase
      BY <1>4 DEF ProcessAndCount, ProcessItem, Work, Process, InLoop
  <2>2. NobodyPast
      BY <2>1, CleanPast DEF NobodyPast, Past
  <2>. QED
      BY <1>1, <2>1, <2>2
<1>5. CASE AllDone \/ UNCHANGED allVars
  <2>1. UNCHANGED <<reduces, synced, final, processed, objects_processed>>
      BY <1>5 DEF AllDone, Done, allVars, vars, workerVars, workVars, reduceVars
  <2>. QED
      BY <1>2, <2>1
<1>. QED
    BY <1>3, <1>4, <1>5 DEF ReduceWorkerNext

(* What reduce_fini_cb gets on the root after the final reduction counts   *)
(* every item that any rank has processed, once, and has the data of every *)
(* rank once: for any number of ranks, any tree, and any items.            *)
THEOREM FinalExactHolds == ReduceWorkerSpec => []FinalExact
<1>1. ReduceWorkerInit => Counted /\ FinalSums
  <2>. SUFFICES ASSUME ReduceWorkerInit PROVE Counted /\ FinalSums
      OBVIOUS
  <2>1. objects_processed = [r \in Rank |-> 0] /\ processed = {}
      BY DEF ReduceWorkerInit, ReduceInit, Init, WorkerInit, WorkInit
  <2>2. PICK f : f = objects_processed
      OBVIOUS
  <2>3. f \in [Rank -> Nat] /\ (\A q \in Rank : f[q] = 0) /\ IsFiniteSet(Rank)
      BY <2>1, <2>2, RankFacts
  <2>4. Total(f) = 0
      BY <2>3, ZeroTotal
  <2>5. Counted
      BY <2>1, <2>2, <2>3, <2>4, FS_EmptySet DEF Counted
  <2>6. reduces = {} /\ \A r \in Rank : ~synced[r]
      BY DEF ReduceWorkerInit, ReduceInit
  <2>. QED
      BY <2>5, <2>6, RankFacts DEF FinalSums, FinalExact
<1>2. TypeOK /\ WorkerInv /\ RoundInv /\ RoundInv' /\ Counted /\ FinalSums
        /\ [ReduceWorkerNext]_allVars => Counted' /\ FinalSums'
    BY CountedStep, FinalStep
<1>3. FinalSums => FinalExact
    BY DEF FinalSums
<1>4. ReduceWorkerSpec => []TypeOK
    BY ReduceImplementsTree, TypeCorrect, PTL
<1>. QED
    BY <1>1, <1>2, <1>3, <1>4, RoundInvHolds, PTL DEF ReduceWorkerSpec
-----------------------------------------------------------------------------
(* The results of background rounds.                                       *)

(* The sums over the ranks of a set.                                       *)
LEMMA PartTotals ==
    ASSUME NEW S \in SUBSET Rank, NEW f \in [Rank -> Nat]
    PROVE  /\ IsFiniteSet(S)
           /\ Total([q \in S |-> f[q]]) \in Nat
           /\ \A g \in [Rank -> Nat] : (\A q \in S : f[q] <= g[q]) =>
                 Total([q \in S |-> f[q]]) <= Total([q \in S |-> g[q]])
<1>1. IsFiniteSet(S)
    BY RankFacts, FS_Subset
<1>2. PICK a : a = [q \in S |-> f[q]]
    OBVIOUS
<1>3. a \in [S -> Nat] /\ \A q \in S : a[q] = f[q]
    BY <1>2
<1>4. Total(a) \in Nat
    BY <1>1, <1>3, UnitsFinite
<1>5. ASSUME NEW g \in [Rank -> Nat], \A q \in S : f[q] <= g[q]
      PROVE  Total(a) <= Total([q \in S |-> g[q]])
  <2>1. PICK b : b = [q \in S |-> g[q]]
      OBVIOUS
  <2>2. b \in [S -> Nat] /\ \A q \in S : a[q] <= b[q]
      BY <1>3, <1>5, <2>1
  <2>3. Total(a) <= Total(b)
      BY <1>1, <1>3, <2>2, TotalMonotone
  <2>. QED
      BY <2>1, <2>3
<1>. QED
    BY <1>1, <1>2, <1>4, <1>5

(* Counts only grow, so that what was between stays between.               *)
LEMMA BetweenKept ==
    ASSUME NEW h, NEW S \in SUBSET Rank, NEW n, Between(h, S, n), Counted, Counted',
           \A q \in Rank : objects_processed[q] <= objects_processed'[q]
    PROVE  Between(h, S, n)'
<1>1. PICK f, g : f = objects_processed /\ g = objects_processed'
    OBVIOUS
<1>2. f \in [Rank -> Nat] /\ g \in [Rank -> Nat] /\ \A q \in S : f[q] <= g[q]
    BY <1>1 DEF Counted
<1>3. /\ Total([q \in S |-> f[q]]) <= Total([q \in S |-> g[q]])
      /\ Total([q \in S |-> f[q]]) \in Nat /\ Total([q \in S |-> g[q]]) \in Nat
    BY <1>2, PartTotals
<1>4. n \in Nat /\ Total([q \in S |-> h[q]]) <= n /\ n <= Total([q \in S |-> f[q]])
    BY <1>1 DEF Between
<1>5. n <= Total([q \in S |-> g[q]])
    BY <1>3, <1>4
<1>. QED
    BY <1>1, <1>4, <1>5 DEF Between

(* Sets of ranks without a common rank, taken together.                    *)
LEMMA BetweenJoin ==
    ASSUME Counted, NEW h \in [Rank -> Nat], NEW A \in SUBSET Rank, NEW B \in SUBSET Rank,
           A \cap B = {}, NEW m, NEW n, Between(h, A, m), Between(h, B, n)
    PROVE  Between(h, A \cup B, m + n)
<1>1. PICK f : f = objects_processed
    OBVIOUS
<1>2. f \in [Rank -> Nat] /\ IsFiniteSet(A) /\ IsFiniteSet(B)
    BY <1>1, PartTotals DEF Counted
<1>3. ASSUME NEW g \in [Rank -> Nat]
      PROVE  /\ Total([q \in A \cup B |-> g[q]]) = Total([q \in A |-> g[q]]) + Total([q \in B |-> g[q]])
             /\ Total([q \in A |-> g[q]]) \in Nat /\ Total([q \in B |-> g[q]]) \in Nat
  <2>1. \A q \in A \cup B : g[q] \in Nat
      OBVIOUS
  <2>2. PICK a, b : a = A /\ b = B
      OBVIOUS
  <2>3. /\ IsFiniteSet(a) /\ IsFiniteSet(b) /\ a \cap b = {}
        /\ \A q \in a \cup b : g[q] \in Nat
      BY <1>2, <2>1, <2>2
  <2>4. /\ Total([q \in a \cup b |-> g[q]]) = Total([q \in a |-> g[q]]) + Total([q \in b |-> g[q]])
        /\ Total([q \in a |-> g[q]]) \in Nat /\ Total([q \in b |-> g[q]]) \in Nat
      BY <2>3, TotalUnion, SMTT(20)
  <2>. QED
      BY <2>2, <2>4
<1>4. /\ Total([q \in A \cup B |-> f[q]]) = Total([q \in A |-> f[q]]) + Total([q \in B |-> f[q]])
      /\ Total([q \in A |-> f[q]]) \in Nat /\ Total([q \in B |-> f[q]]) \in Nat
    BY <1>2, <1>3
<1>5. /\ Total([q \in A \cup B |-> h[q]]) = Total([q \in A |-> h[q]]) + Total([q \in B |-> h[q]])
      /\ Total([q \in A |-> h[q]]) \in Nat /\ Total([q \in B |-> h[q]]) \in Nat
    BY <1>3
<1>6. /\ m \in Nat /\ Total([q \in A |-> h[q]]) <= m /\ m <= Total([q \in A |-> f[q]])
      /\ n \in Nat /\ Total([q \in B |-> h[q]]) <= n /\ n <= Total([q \in B |-> f[q]])
    BY <1>1 DEF Between
<1>7. /\ m + n \in Nat
      /\ Total([q \in A \cup B |-> h[q]]) <= m + n /\ m + n <= Total([q \in A \cup B |-> f[q]])
    BY <1>4, <1>5, <1>6
<1>. QED
    BY <1>1, <1>7 DEF Between

(* No rank, and one.                                                       *)
LEMMA BetweenFew ==
    ASSUME Counted, NEW h \in [Rank -> Nat], NEW r \in Rank, h[r] <= objects_processed[r]
    PROVE  Between(h, {}, 0) /\ Between(h, {r}, objects_processed[r])
<1>1. PICK f, z : f = objects_processed /\ z = {}
    OBVIOUS
<1>2. f \in [Rank -> Nat] /\ IsFiniteSet(z)
    BY <1>1, FS_EmptySet DEF Counted
<1>3. ASSUME NEW g \in [Rank -> Nat]
      PROVE  Total([q \in z |-> g[q]]) = 0 /\ Total([q \in {r} |-> g[q]]) = g[r]
  <2>1. PICK e : e = [q \in z |-> g[q]]
      OBVIOUS
  <2>2. e \in [z -> Nat] /\ \A q \in z : e[q] = 0
      BY <1>1, <2>1
  <2>3. Total(e) = 0
      BY <1>2, <2>2, ZeroTotal
  <2>4. Total([q \in z \cup {r} |-> g[q]]) = Total([q \in z |-> g[q]]) + g[r]
    <3>1. (\A q \in z : g[q] \in Nat) /\ r \notin z /\ g[r] \in Nat
        BY <1>1
    <3>. QED
        BY <1>2, <3>1, TotalMore
  <2>5. z \cup {r} = {r} /\ g[r] \in Nat
      BY <1>1
  <2>6. Total([q \in {r} |-> g[q]]) = 0 + g[r]
      BY <2>1, <2>3, <2>4, <2>5
  <2>. QED
      BY <2>1, <2>3, <2>5, <2>6
<1>4. /\ Total([q \in z |-> h[q]]) = 0 /\ Total([q \in {r} |-> h[q]]) = h[r]
      /\ Total([q \in z |-> f[q]]) = 0 /\ Total([q \in {r} |-> f[q]]) = f[r]
      /\ f[r] \in Nat /\ h[r] \in Nat /\ h[r] <= f[r]
    BY <1>1, <1>2, <1>3
<1>5. Between(h, z, 0)
    BY <1>1, <1>4 DEF Between
<1>6. Between(h, {r}, f[r])
    BY <1>1, <1>4 DEF Between
<1>. QED
    BY <1>1, <1>5, <1>6

(* And the parts of a set.                                                 *)
LEMMA BetweenParts ==
    ASSUME Counted, NEW h \in [Rank -> Nat], NEW G, IsFiniteSet(G), NEW D \in [G -> SUBSET Rank],
           NEW c \in [G -> Nat], \A m, n \in G : m # n => D[m] \cap D[n] = {},
           \A m \in G : Between(h, D[m], c[m])
    PROVE  Between(h, UNION {D[m] : m \in G}, Total(c))
<1>1. PICK f, U : f = objects_processed /\ U = UNION {D[m] : m \in G}
    OBVIOUS
<1>2. f \in [Rank -> Nat] /\ IsFiniteSet(Rank)
    BY <1>1, RankFacts DEF Counted
<1>3. PICK lo, hi : /\ lo = [m \in G |-> Total([q \in D[m] |-> h[q]])]
                    /\ hi = [m \in G |-> Total([q \in D[m] |-> f[q]])]
    OBVIOUS
<1>4. /\ \A m \in G : lo[m] = Total([q \in D[m] |-> h[q]])
      /\ \A m \in G : hi[m] = Total([q \in D[m] |-> f[q]])
    BY <1>3
<1>5. ASSUME NEW m \in G PROVE lo[m] \in Nat /\ hi[m] \in Nat /\ lo[m] <= c[m] /\ c[m] <= hi[m]
  <2>1. D[m] \in SUBSET Rank
      OBVIOUS
  <2>2. Total([q \in D[m] |-> h[q]]) \in Nat /\ Total([q \in D[m] |-> f[q]]) \in Nat
      BY <1>2, <2>1, PartTotals
  <2>3. Between(h, D[m], c[m])
      OBVIOUS
  <2>. QED
      BY <1>1, <1>4, <2>2, <2>3 DEF Between
<1>6. lo \in [G -> Nat] /\ hi \in [G -> Nat]
    BY <1>3, <1>5
<1>7. Apart(G, Rank, h, D, lo) /\ Apart(G, Rank, f, D, hi)
    BY <1>2, <1>4, <1>6 DEF Apart
<1>8. Total(lo) = Total([q \in U |-> h[q]])
    BY <1>1, <1>7, TotalOfParts
<1>9. Total(hi) = Total([q \in U |-> f[q]])
    BY <1>1, <1>7, TotalOfParts
<1>10. Total(lo) <= Total(c)
    BY <1>5, <1>6, TotalMonotone
<1>11. Total(c) <= Total(hi)
    BY <1>5, <1>6, TotalMonotone
<1>12. Total(c) \in Nat
    BY UnitsFinite
<1>. QED
    BY <1>1, <1>8, <1>9, <1>10, <1>11, <1>12 DEF Between

(* Where the partial result of a rank is.                                  *)
WhereHeld ==
    /\ \A r \in Rank : reduce_outstanding[r] =>
          /\ Answers(r) = {} /\ Covered(r) = Has(reduce_buf[r])
          /\ Unspoilt(r) <=> reduce_buf[r].valid
    /\ \A q \in Rank : \A m \in Answers(q) :
          /\ ~reduce_outstanding[q] /\ q # 0 /\ Answers(q) = {m}
          /\ m.buf.valid => Covered(q) = Has(m.buf)
          /\ ~m.buf.valid => Covered(q) = {}
          /\ Unspoilt(q) <=> m.buf.valid
    /\ \A q \in Rank : ~reduce_outstanding[q] /\ Answers(q) = {} => Covered(q) = {} /\ ~Unspoilt(q)
    /\ \A q \in Rank : Covered(q) \in SUBSET Rank

(* It is at the rank or on its way up.                                     *)
LEMMA HeldOnce == ReduceMessages /\ Rounds => WhereHeld
<1>. SUFFICES ASSUME ReduceMessages, Rounds PROVE WhereHeld
    OBVIOUS
<1>1. Answers(0) = {}
    BY RankFacts, MessageFacts DEF Answers, ReduceMessages
<1>2. ASSUME NEW r \in Rank, reduce_outstanding[r]
      PROVE  /\ Answers(r) = {} /\ Covered(r) = Has(reduce_buf[r])
             /\ Unspoilt(r) <=> reduce_buf[r].valid
  <2>1. Answers(r) = {}
      BY <1>1, <1>2 DEF Rounds
  <2>. QED
      BY <1>2, <2>1 DEF Covered, Has, Unspoilt
<1>3. ASSUME NEW q \in Rank, NEW m \in Answers(q)
      PROVE  /\ ~reduce_outstanding[q] /\ q # 0 /\ Answers(q) = {m}
             /\ m.buf.valid => Covered(q) = Has(m.buf)
             /\ ~m.buf.valid => Covered(q) = {}
             /\ Unspoilt(q) <=> m.buf.valid
  <2>1. q # 0
      BY <1>1
  <2>2. ~reduce_outstanding[q] /\ Answers(q) = {m}
      BY <2>1 DEF Rounds
  <2>. QED
      BY <2>1, <2>2 DEF Covered, Has, Unspoilt
<1>4. ASSUME NEW q \in Rank, ~reduce_outstanding[q], Answers(q) = {}
      PROVE  Covered(q) = {} /\ ~Unspoilt(q)
    BY <1>4 DEF Covered, Unspoilt
<1>5. \A q \in Rank : Covered(q) \in SUBSET Rank
    BY DEF Covered
<1>. QED
    BY <1>2, <1>3, <1>4, <1>5 DEF WhereHeld

(* What the invariant says of the results, all but for the counts.         *)
ResultInv == Shaped /\ Shares /\ Deliveries /\ \E h : AtStart(h) /\ Bounds(h)

(* A step that keeps the partial result of q.                              *)
Kept(q) ==
    /\ reduce_outstanding'[q] = reduce_outstanding[q]
    /\ reduce_outstanding[q] => reduce_buf'[q] = reduce_buf[q]
    /\ \A m : m \in Answers(q)' /\ m.buf.valid <=> m \in Answers(q) /\ m.buf.valid

(* It keeps the ranks that are in it.                                      *)
LEMMA KeptFacts ==
    ASSUME NEW q \in Rank, Kept(q)
    PROVE  Covered(q)' = Covered(q) /\ (Unspoilt(q)' <=> Unspoilt(q))
<1>1. \A k : (\E m \in Answers(q)' : m.buf.valid /\ m.buf.data[k] = 1)
              <=> \E m \in Answers(q) : m.buf.valid /\ m.buf.data[k] = 1
    BY DEF Kept
<1>2. (\E m \in Answers(q)' : m.buf.valid) <=> \E m \in Answers(q) : m.buf.valid
    BY DEF Kept
<1>. QED
    BY <1>1, <1>2 DEF Kept, Covered, Unspoilt

(* If it keeps all of them, it keeps the invariant.                        *)
LEMMA AllKept ==
    ASSUME ResultInv, WhereHeld, Counted, Counted',
           \A q \in Rank : Kept(q), \A c \in Rank \ {0} : Owes(c)' <=> Owes(c),
           \A q \in Rank : objects_processed[q] <= objects_processed'[q],
           Shaped', UNCHANGED <<since, delivered>>
    PROVE  ResultInv'
<1>0. 0 \in Rank
    BY RankFacts
<1>1. \A q \in Rank : Covered(q)' = Covered(q) /\ (Unspoilt(q)' <=> Unspoilt(q))
    BY KeptFacts
<1>2. /\ \A q \in Rank : reduce_outstanding'[q] = reduce_outstanding[q]
      /\ \A q \in Rank : \A m \in Answers(q)' : m.buf.valid => m \in Answers(q)
      /\ \A q \in Rank : reduce_outstanding[q] => reduce_buf'[q] = reduce_buf[q]
    BY DEF Kept
<1>3. \A r \in Rank : \A c \in child_ranks(r) : c \in Rank \ {0} /\ (Owes(c)' <=> Owes(c))
    BY EdgeFacts
<1>4. \A q \in Rank : \A k \in Covered(q) : k \in Rank
    BY DEF Covered
<1>5. Shares'
  <2>1. /\ \A r \in Rank : reduce_outstanding'[r] => reduce_buf'[r].data \in [Rank -> {0, 1}]
        /\ \A q \in Rank : \A m \in Answers(q)' : m.buf.valid => m.buf.data \in [Rank -> {0, 1}]
      BY <1>2 DEF ResultInv, Shares
  <2>a. \A q \in Rank : reduce_outstanding'[q] \/ Unspoilt(q)' => q \in Covered(q)'
      BY <1>1, <1>2 DEF ResultInv, Shares
  <2>b. \A q \in Rank : \A k \in Covered(q) \ {q} : k # 0 /\ parent_rank(k) \in Covered(q)
      BY DEF ResultInv, Shares
  <2>c. \A p, q \in Rank : p # q => Covered(p) \cap Covered(q) = {}
      BY DEF ResultInv, Shares
  <2>d. \A q \in Rank : Covered(q)' = Covered(q)
      BY <1>1
  <2>2. \A q \in Rank : \A k \in Covered(q)' \ {q} : k # 0 /\ parent_rank(k) \in Covered(q)'
    <3>. SUFFICES ASSUME NEW q \in Rank
                  PROVE  \A k \in Covered(q)' \ {q} : k # 0 /\ parent_rank(k) \in Covered(q)'
        OBVIOUS
    <3>2. \A k \in Covered(q) \ {q} : k # 0 /\ parent_rank(k) \in Covered(q)
        BY <2>b
    <3>3. Covered(q)' = Covered(q)
        BY <2>d
    <3>. QED
        BY <3>2, <3>3
  <2>5. \A p, q \in Rank : p # q => Covered(p)' \cap Covered(q)' = {}
    <3>. SUFFICES ASSUME NEW p \in Rank, NEW q \in Rank, p # q
                  PROVE  Covered(p)' \cap Covered(q)' = {}
        OBVIOUS
    <3>2. Covered(p) \cap Covered(q) = {}
        BY <2>c
    <3>3. Covered(p)' = Covered(p) /\ Covered(q)' = Covered(q)
        BY <2>d
    <3>. QED
        BY <3>2, <3>3
  <2>3. \A r \in Rank : \A c \in child_ranks(r) : Owes(c)' => c \notin Covered(r)'
      BY <1>1, <1>3 DEF ResultInv, Shares
  <2>4. \A q \in Rank : Unspoilt(q)' => \A k \in Covered(q)' : \A c \in child_ranks(k) :
            c \in Covered(q)' \/ (k = q /\ Owes(c)')
      BY <1>1, <1>3, <1>4 DEF ResultInv, Shares
  <2>. QED
      BY <2>1, <2>a, <2>2, <2>3, <2>4, <2>5 DEF Shares
<1>6. PICK h : AtStart(h) /\ Bounds(h)
    BY DEF ResultInv
<1>7. objects_processed \in [Rank -> Nat] /\ objects_processed' \in [Rank -> Nat]
    BY DEF Counted
<1>8. AtStart(h)'
  <2>1. h \in [Rank -> Nat] /\ since = Total(h) /\ \A q \in Rank : h[q] <= objects_processed[q]
      BY <1>6 DEF AtStart
  <2>2. \A q \in Rank : h[q] <= objects_processed'[q]
    <3>. SUFFICES ASSUME NEW q \in Rank PROVE h[q] <= objects_processed'[q]
        OBVIOUS
    <3>1. /\ h[q] \in Nat /\ objects_processed[q] \in Nat /\ objects_processed'[q] \in Nat
          /\ h[q] <= objects_processed[q] /\ objects_processed[q] <= objects_processed'[q]
        BY <1>7, <2>1
    <3>. QED
        BY <3>1
  <2>. QED
      BY <2>1, <2>2 DEF AtStart
<1>9. \A S \in SUBSET Rank : \A n : Between(h, S, n) => Between(h, S, n)'
    BY BetweenKept
<1>10. \A q \in Rank : Covered(q) \in SUBSET Rank /\ Covered(q) \ {q} \in SUBSET Rank
    BY DEF WhereHeld
<1>11. /\ \A r \in Rank : reduce_outstanding'[r] /\ reduce_buf'[r].valid =>
             Between(h, Covered(r) \ {r}, reduce_buf[r].count)'
       /\ \A q \in Rank : \A m \in Answers(q)' : m.buf.valid => Between(h, Covered(q), m.buf.count)'
  <2>1. ASSUME NEW r \in Rank, reduce_outstanding'[r], reduce_buf'[r].valid
        PROVE  Between(h, Covered(r) \ {r}, reduce_buf[r].count)'
    <3>1. PICK S, n : S = Covered(r) \ {r} /\ n = reduce_buf[r].count
        OBVIOUS
    <3>2. Between(h, S, n)
        BY <1>2, <1>6, <2>1, <3>1 DEF Bounds
    <3>3. Between(h, S, n)'
        BY <1>9, <1>10, <3>1, <3>2
    <3>. QED
        BY <1>1, <1>2, <2>1, <3>1, <3>3 DEF Between
  <2>2. ASSUME NEW q \in Rank, NEW m \in Answers(q)', m.buf.valid
        PROVE  Between(h, Covered(q), m.buf.count)'
    <3>1. PICK S : S = Covered(q)
        OBVIOUS
    <3>2. Between(h, S, m.buf.count)
        BY <1>2, <1>6, <2>2, <3>1 DEF Bounds
    <3>3. Between(h, S, m.buf.count)'
        BY <1>9, <1>10, <3>1, <3>2
    <3>. QED
        BY <1>1, <3>1, <3>3 DEF Between
  <2>. QED
      BY <2>1, <2>2
<1>12. Bounds(h)'
    BY <1>11 DEF Bounds
<1>13. Cardinality(processed) <= Cardinality(processed') /\ Cardinality(processed) \in Nat
       /\ Cardinality(processed') \in Nat
  <2>1. PICK f, g : f = objects_processed /\ g = objects_processed'
      OBVIOUS
  <2>2. f \in [Rank -> Nat] /\ g \in [Rank -> Nat] /\ (\A q \in Rank : f[q] <= g[q]) /\ IsFiniteSet(Rank)
      BY <1>7, <2>1, RankFacts
  <2>3. Total(f) <= Total(g)
      BY <2>2, TotalMonotone
  <2>4. Total(f) \in Nat
      BY <2>2, UnitsFinite
  <2>5. Total(g) \in Nat
      BY <2>2, UnitsFinite
  <2>. QED
      BY <2>1, <2>3, <2>4, <2>5 DEF Counted
<1>14. Deliveries'
    BY <1>0, <1>2, <1>13 DEF ResultInv, Deliveries
<1>. QED
    BY <1>5, <1>8, <1>12, <1>14 DEF ResultInv

(* A refusal puts nothing into the round: its data is not valid, and the   *)
(* parent does not use it.                                                 *)
LEMMA ResultRefused ==
    ASSUME RoundInv, ResultInv, Counted, NEW r \in Rank, RefuseReduce(r),
           UNCHANGED <<processed, objects_processed>>
    PROVE  ResultInv'
<1>. USE EdgeFacts, MessageFacts
<1>0. ReduceMessages /\ Rounds /\ Shaped /\ objects_processed \in [Rank -> Nat]
    BY DEF RoundInv, ResultInv, Counted
<1>1. /\ r # 0 /\ ~reduce_outstanding[r] /\ Announced(r)
      /\ reduce_buf' = [reduce_buf EXCEPT ![r].valid = FALSE]
      /\ reduces' = (reduces \ {start(parent_rank(r), r)}) \cup {result(r, "round", reduce_buf'[r])}
      /\ UNCHANGED <<reduce_outstanding, since, delivered>>
    BY DEF RefuseReduce, Announced
<1>2. /\ DOMAIN reduce_buf = Rank
      /\ reduce_buf[r] = [valid |-> reduce_buf[r].valid, count |-> reduce_buf[r].count,
                          data  |-> reduce_buf[r].data]
    BY <1>0 DEF Shaped
<1>3. reduce_buf'[r] = [valid |-> FALSE, count |-> reduce_buf[r].count, data  |-> reduce_buf[r].data]
  <2>1. reduce_buf'[r] = [reduce_buf[r] EXCEPT !.valid = FALSE]
      BY <1>1, <1>2
  <2>. QED
      BY <1>2, <2>1
<1>4. Shaped'
  <2>1. /\ DOMAIN reduce_buf' = Rank /\ reduce_buf' = [q \in Rank |-> reduce_buf'[q]]
        /\ \A q \in Rank : q # r => reduce_buf'[q] = reduce_buf[q]
      BY <1>1, <1>2
  <2>2. \A q \in Rank : reduce_buf'[q] =
            [valid |-> reduce_buf'[q].valid, count |-> reduce_buf'[q].count, data |-> reduce_buf'[q].data]
    <3>1. CASE UNCHANGED reduce_buf
        BY <1>0, <3>1 DEF Shaped
    <3>. QED
        BY <1>0, <1>3, <2>1 DEF Shaped
  <2>. QED
      BY <2>1, <2>2 DEF Shaped
<1>5. PICK a : a = result(r, "round", reduce_buf'[r])
    OBVIOUS
<1>6. a.src = r /\ a.kind = "round" /\ ~a.buf.valid
    BY <1>3, <1>5 DEF result
<1>7. reduces' = (reduces \ {start(parent_rank(r), r)}) \cup {a}
    BY <1>1, <1>5
<1>8. \A q \in Rank : q # r => Answers(q)' = Answers(q)
    BY <1>6, <1>7 DEF Answers
<1>9. Answers(r) = {} /\ Answers(r)' = {a}
  <2>1. Answers(r) = {}
      BY <1>1 DEF Rounds, RoundInv
  <2>. QED
      BY <1>6, <1>7, <2>1 DEF Answers
<1>10. ASSUME NEW q \in Rank PROVE Kept(q)
  <2>1. CASE q = r
      BY <1>1, <1>6, <1>9, <2>1 DEF Kept
  <2>2. CASE q # r
    <3>1. reduce_buf'[q] = reduce_buf[q]
        BY <1>1, <1>2, <2>2
    <3>. QED
        BY <1>1, <1>8, <2>2, <3>1 DEF Kept
  <2>. QED
      BY <2>1, <2>2
<1>11. ASSUME NEW c \in Rank \ {0} PROVE Owes(c)' <=> Owes(c)
  <2>1. CASE c = r
      BY <1>1, <1>9, <2>1 DEF Owes
  <2>2. CASE c # r
    <3>1. start(parent_rank(c), c) # start(parent_rank(r), r) /\ start(parent_rank(c), c) # a
        BY <1>6, <2>2
    <3>2. Announced(c)' <=> Announced(c)
        BY <1>7, <3>1 DEF Announced
    <3>. QED
        BY <1>1, <1>8, <2>2, <3>2 DEF Owes
  <2>. QED
      BY <2>1, <2>2
<1>12. Counted' /\ \A q \in Rank : objects_processed[q] <= objects_processed'[q]
    BY <1>0 DEF Counted
<1>13. WhereHeld
    BY <1>0, HeldOnce
<1>. QED
    BY <1>1, <1>4, <1>10, <1>11, <1>12, <1>13, AllKept

(* The final reduction finds no background round.                          *)
LEMMA ResultSynced ==
    ASSUME WorkerInv, RoundInv, RoundInv', ResultInv, Counted, NEW r \in Rank,
           CIRCLE_reduce_sync(r), UNCHANGED <<phase, processed, objects_processed>>, WorkerInv'
    PROVE  ResultInv'
<1>0. /\ ReduceMessages /\ Rounds /\ AfterRounds /\ Shaped /\ objects_processed \in [Rank -> Nat]
      /\ ReduceMessages' /\ Rounds' /\ AfterRounds'
    BY DEF RoundInv, ResultInv, Counted
<1>1. /\ Past(r)
      /\ UNCHANGED <<reduce_outstanding, since, delivered>>
      /\ \E n, d : reduce_buf' = [reduce_buf EXCEPT ![r] = [valid |-> TRUE, count |-> n, data |-> d]]
    BY DEF CIRCLE_reduce_sync, Past
<1>2. Past(r)'
    BY <1>1 DEF Past
<1>3. /\ \A q \in Rank : ~reduce_outstanding[q]
      /\ \A m \in reduces : m.kind = "sync"
    BY <1>0, <1>1, NoRoundPast
<1>4. \A m \in reduces' : m.kind = "sync"
  <2>1. PICK b : reduces' = (reduces \ Results(r)) \cup (IF r = 0 THEN {} ELSE {result(r, "sync", b)})
      BY DEF CIRCLE_reduce_sync
  <2>. QED
      BY <1>3, <2>1, MessageFacts
<1>5. \A q \in Rank : Answers(q) = {} /\ Answers(q)' = {} /\ ~Announced(q) /\ ~Announced(q)'
    BY <1>3, <1>4, MessageFacts DEF Answers, Announced
<1>6. /\ \A q \in Rank : Kept(q)
      /\ \A c \in Rank \ {0} : Owes(c)' <=> Owes(c)
    BY <1>1, <1>3, <1>5 DEF Kept, Owes
<1>7. Shaped'
  <2>1. PICK n, d : reduce_buf' = [reduce_buf EXCEPT ![r] = [valid |-> TRUE, count |-> n, data |-> d]]
      BY <1>1
  <2>2. DOMAIN reduce_buf = Rank
      BY <1>0 DEF Shaped
  <2>3. /\ reduce_buf' = [q \in Rank |-> reduce_buf'[q]]
        /\ reduce_buf'[r] = [valid |-> TRUE, count |-> n, data |-> d]
        /\ \A q \in Rank : q # r => reduce_buf'[q] = reduce_buf[q]
      BY <2>1, <2>2
  <2>4. \A q \in Rank : reduce_buf'[q] =
            [valid |-> reduce_buf'[q].valid, count |-> reduce_buf'[q].count, data |-> reduce_buf'[q].data]
      BY <1>0, <2>3 DEF Shaped
  <2>. QED
      BY <2>3, <2>4 DEF Shaped
<1>8. Counted' /\ \A q \in Rank : objects_processed[q] <= objects_processed'[q]
    BY <1>0 DEF Counted
<1>9. WhereHeld
    BY <1>0, HeldOnce
<1>. QED
    BY <1>1, <1>6, <1>7, <1>8, <1>9, AllKept

(* The round of a root that takes part in none is nowhere else either.     *)
LEMMA RootIdle ==
    ASSUME Rounds, ~reduce_outstanding[0]
    PROVE  \A q \in Rank : ~reduce_outstanding[q] /\ (q # 0 => ~Owes(q))
<1>. DEFINE T == {q \in Rank \ {0} : Owes(q)}
<1>1. T = {}
  <2>. SUFFICES ASSUME T # {} PROVE FALSE
      OBVIOUS
  <2>1. T \in SUBSET Nat
      BY RankFacts
  <2>2. PICK q \in T : \A p \in T : ~(p < q)
      BY <2>1, LeastRank
  <2>3. q \in Rank \ {0} /\ q \in Rank /\ q # 0 /\ Owes(q)
      BY <2>2
  <2>4. /\ parent_rank(q) \in Rank /\ reduce_outstanding[parent_rank(q)]
        /\ parent_rank(q) \in Nat /\ q \in Nat /\ parent_rank(q) < q
      BY <2>3, ParentBelow, RankFacts DEF Rounds
  <2>5. parent_rank(q) \in T
      BY <2>4 DEF Owes
  <2>. QED
      BY <2>2, <2>4, <2>5
<1>2. \A q \in Rank : q # 0 => ~Owes(q)
    BY <1>1
<1>. QED
    BY <1>2 DEF Owes

(* Nobody has heard of a rank that has not joined the round yet.           *)
LEMMA NotHeard ==
    ASSUME RoundInv, ResultInv, NEW r \in Rank, StartReduce(r), NEW q \in Rank
    PROVE  r \notin Covered(q)
<1>. USE EdgeFacts
<1>0. ReduceMessages /\ Rounds /\ Shares /\ WhereHeld
    BY HeldOnce DEF RoundInv, ResultInv
<1>1. CASE r = 0
  <2>1. ~reduce_outstanding[0]
      BY <1>1 DEF StartReduce
  <2>2. ~reduce_outstanding[q] /\ (q # 0 => ~Owes(q))
      BY <1>0, <2>1, RootIdle
  <2>3. Answers(q) = {}
      BY <1>0, <2>2 DEF Owes, WhereHeld
  <2>. QED
      BY <1>0, <2>2, <2>3 DEF WhereHeld
<1>2. CASE r # 0
  <2>. SUFFICES ASSUME r \in Covered(q) PROVE FALSE
      OBVIOUS
  <2>1. Announced(r) /\ Owes(r)
      BY <1>2 DEF StartReduce, Announced, Owes
  <2>2. /\ ~reduce_outstanding[r] /\ Answers(r) = {} /\ reduce_outstanding[parent_rank(r)]
        /\ parent_rank(r) \in Rank /\ r \in child_ranks(parent_rank(r))
      BY <1>0, <1>2, <2>1 DEF Rounds
  <2>3. q # r
      BY <1>0, <2>2 DEF WhereHeld
  <2>4. parent_rank(r) \in Covered(q)
      BY <1>0, <2>3 DEF Shares
  <2>5. parent_rank(r) \in Covered(parent_rank(r))
      BY <1>0, <2>2 DEF Shares
  <2>6. q = parent_rank(r)
      BY <1>0, <2>2, <2>4, <2>5 DEF Shares
  <2>7. r \notin Covered(parent_rank(r))
      BY <1>0, <2>1, <2>2 DEF Shares
  <2>. QED
      BY <2>6, <2>7
<1>. QED
    BY <1>1, <1>2

(* A rank that joins the round has its own data, and no count yet.  The    *)
(* root's start of a round is the beginning of it.                         *)
LEMMA ResultStarted ==
    ASSUME RoundInv, RoundInv', ResultInv, Counted, NEW r \in Rank, StartReduce(r),
           UNCHANGED <<processed, objects_processed>>
    PROVE  ResultInv'
<1>. USE EdgeFacts, MessageFacts
<1>0. /\ ReduceMessages /\ Rounds /\ Shares /\ WhereHeld /\ Shaped /\ Deliveries
      /\ reduce_outstanding \in [Rank -> BOOLEAN] /\ 0 \in Rank
    BY HeldOnce, RankFacts DEF RoundInv, ResultInv, ReduceTypes
<1>1. /\ ~reduce_outstanding[r]
      /\ reduce_outstanding' = [reduce_outstanding EXCEPT ![r] = TRUE]
      /\ reduce_buf' = [reduce_buf EXCEPT ![r] = [valid |-> TRUE, count |-> 0, data |-> reduce_init(r)]]
      /\ reduces' = (reduces \ {start(parent_rank(r), r)}) \cup {start(r, c) : c \in child_ranks(r)}
      /\ since' = IF r = 0 THEN Cardinality(processed) ELSE since
      /\ r # 0 => Announced(r)
      /\ UNCHANGED delivered
    BY DEF StartReduce, Announced
<1>2. /\ reduce_buf' = [q \in Rank |-> reduce_buf'[q]]
      /\ reduce_buf'[r] = [valid |-> TRUE, count |-> 0, data |-> reduce_init(r)]
      /\ \A q \in Rank : q # r => reduce_buf'[q] = reduce_buf[q]
      /\ reduce_outstanding'[r] /\ \A q \in Rank : q # r => reduce_outstanding'[q] = reduce_outstanding[q]
  <2>1. DOMAIN reduce_buf = Rank
      BY <1>0 DEF Shaped
  <2>. QED
      BY <1>0, <1>1, <2>1
<1>3. Shaped'
  <2>1. \A q \in Rank : reduce_buf'[q] =
            [valid |-> reduce_buf'[q].valid, count |-> reduce_buf'[q].count, data |-> reduce_buf'[q].data]
      BY <1>0, <1>2 DEF Shaped
  <2>. QED
      BY <1>2, <2>1 DEF Shaped
<1>4. \A q \in Rank : Answers(q)' = Answers(q)
    BY <1>1 DEF Answers
<1>5. \A q \in Rank : q # r => Kept(q) /\ Covered(q)' = Covered(q) /\ (Unspoilt(q)' <=> Unspoilt(q))
    BY <1>2, <1>4, KeptFacts DEF Kept
<1>6. Answers(r) = {} /\ Covered(r)' = {r} /\ reduce_buf'[r].data \in [Rank -> {0, 1}]
  <2>1. Answers(r) = {}
      BY <1>0, <1>1 DEF Rounds, WhereHeld
  <2>2. \A k \in Rank : reduce_buf'[r].data[k] = (IF k = r THEN 1 ELSE 0)
      BY <1>2 DEF reduce_init
  <2>. QED
      BY <1>2, <1>4, <2>1, <2>2 DEF Covered, reduce_init
<1>7. ASSUME NEW c \in Rank \ {0}, parent_rank(c) # r PROVE Owes(c)' <=> Owes(c)
  <2>1. CASE c = r
      BY <1>1, <1>2, <2>1 DEF Owes
  <2>2. CASE c # r
    <3>1. Announced(c)' <=> Announced(c)
        BY <1>1, <1>7, <2>2 DEF Announced
    <3>. QED
        BY <1>2, <1>4, <2>2, <3>1 DEF Owes
  <2>. QED
      BY <2>1, <2>2
<1>8. \A c \in child_ranks(r) : Owes(c)'
    BY <1>1 DEF Owes, Announced
<1>9. Shares'
  <2>1. /\ \A q \in Rank : reduce_outstanding'[q] => reduce_buf'[q].data \in [Rank -> {0, 1}]
        /\ \A q \in Rank : \A m \in Answers(q)' : m.buf.valid => m.buf.data \in [Rank -> {0, 1}]
      BY <1>0, <1>2, <1>4, <1>6 DEF Shares
  <2>2. \A q \in Rank : reduce_outstanding'[q] \/ Unspoilt(q)' => q \in Covered(q)'
      BY <1>0, <1>2, <1>5, <1>6 DEF Shares
  <2>3. \A q \in Rank : \A k \in Covered(q)' \ {q} : k # 0 /\ parent_rank(k) \in Covered(q)'
      BY <1>0, <1>5, <1>6 DEF Shares
  <2>4. \A p, q \in Rank : p # q => Covered(p)' \cap Covered(q)' = {}
    <3>1. \A q \in Rank : q # r => Covered(r)' \cap Covered(q)' = {}
        BY <1>5, <1>6, NotHeard
    <3>. QED
        BY <1>0, <1>5, <3>1 DEF Shares
  <2>5. ASSUME NEW p \in Rank, NEW c \in child_ranks(p), Owes(c)' PROVE c \notin Covered(p)'
    <3>1. CASE p = r
        BY <1>6, <3>1
    <3>2. CASE p # r
      <4>1. Owes(c)
          BY <1>7, <2>5, <3>2
      <4>. QED
          BY <1>0, <1>5, <3>2, <4>1 DEF Shares
    <3>. QED
        BY <3>1, <3>2
  <2>6. ASSUME NEW q \in Rank, Unspoilt(q)', NEW k \in Covered(q)', NEW c \in child_ranks(k)
        PROVE  c \in Covered(q)' \/ (k = q /\ Owes(c)')
    <3>1. CASE q = r
        BY <1>6, <1>8, <3>1
    <3>2. CASE q # r
      <4>1. c \in Covered(q) \/ (k = q /\ Owes(c))
          BY <1>0, <1>5, <2>6, <3>2 DEF Shares
      <4>2. k = q => c \in Rank \ {0} /\ parent_rank(c) # r
          BY <3>2
      <4>. QED
          BY <1>5, <1>7, <3>2, <4>1, <4>2
    <3>. QED
        BY <3>1, <3>2
  <2>. QED
      BY <2>1, <2>2, <2>3, <2>4, <2>5, <2>6 DEF Shares
<1>10. Counted' /\ objects_processed \in [Rank -> Nat]
    BY DEF Counted
<1>11. PICK h : /\ h \in [Rank -> Nat] /\ since' = Total(h)
                /\ \A q \in Rank : h[q] <= objects_processed[q]
                /\ r # 0 => Bounds(h)
  <2>1. CASE r = 0
    <3>1. PICK f : f = objects_processed
        OBVIOUS
    <3>2. f \in [Rank -> Nat] /\ since' = Total(f) /\ \A q \in Rank : f[q] <= objects_processed[q]
        BY <1>1, <1>10, <2>1, <3>1 DEF Counted
    <3>. QED
        BY <2>1, <3>2
  <2>2. CASE r # 0
    <3>1. PICK g : AtStart(g) /\ Bounds(g)
        BY DEF ResultInv
    <3>2. since' = since
        BY <1>1, <2>2
    <3>. QED
        BY <3>1, <3>2 DEF AtStart
  <2>. QED
      BY <2>1, <2>2
<1>12. AtStart(h)'
    BY <1>11 DEF AtStart
<1>13. Between(h, {}, 0)
    BY <1>11, BetweenFew
<1>14. Bounds(h)'
  <2>1. \A S, n : Between(h, S, n)' <=> Between(h, S, n)
      BY DEF Between
  <2>2. ASSUME NEW q \in Rank, reduce_outstanding'[q], reduce_buf'[q].valid
        PROVE  Between(h, Covered(q)' \ {q}, reduce_buf'[q].count)
    <3>1. CASE q = r
      <4>1. Covered(q)' \ {q} = {} /\ reduce_buf'[q].count = 0
          BY <1>2, <1>6, <3>1
      <4>. QED
          BY <1>13, <4>1
    <3>2. CASE q # r
      <4>1. reduce_outstanding[q] /\ reduce_buf[q].valid /\ reduce_buf'[q] = reduce_buf[q]
          BY <1>2, <2>2, <3>2
      <4>2. r # 0
          BY <1>0, <1>1, <4>1, RootIdle
      <4>. QED
          BY <1>5, <1>11, <3>2, <4>1, <4>2 DEF Bounds
    <3>. QED
        BY <3>1, <3>2
  <2>3. ASSUME NEW q \in Rank, NEW m \in Answers(q)', m.buf.valid
        PROVE  Between(h, Covered(q)', m.buf.count)
    <3>1. m \in Answers(q) /\ q # r
        BY <1>4, <1>6
    <3>2. r # 0
      <4>1. q # 0 /\ Owes(q)
          BY <1>0, <3>1 DEF WhereHeld, Owes
      <4>. QED
          BY <1>0, <1>1, <4>1, RootIdle
    <3>. QED
        BY <1>5, <1>11, <2>3, <3>1, <3>2 DEF Bounds
  <2>. QED
      BY <2>1, <2>2, <2>3 DEF Bounds, Between
<1>15. Deliveries'
  <2>1. CASE r = 0
      BY <1>0, <1>1, <2>1 DEF Deliveries
  <2>2. CASE r # 0
      BY <1>0, <1>1, <1>2, <2>2 DEF Deliveries
  <2>. QED
      BY <2>1, <2>2
<1>. QED
    BY <1>3, <1>9, <1>12, <1>14, <1>15 DEF ResultInv

(* What a rank makes of the partial results it takes: it has the ranks of  *)
(* those it uses and its own, each once, and it uses them all if none is   *)
(* spoilt.                                                                 *)
Combined(r, got, used, b) ==
    /\ b.data \in [Rank -> {0, 1}]
    /\ \A m \in used : m.buf.valid
    /\ \A k \in Rank : k \in Has(b) <=> k \in Covered(r) \/ \E m \in used : k \in Covered(m.src)
    /\ b.valid => /\ used = got /\ reduce_buf[r].valid
                  /\ b.count = reduce_buf[r].count + SumCounts(got)

(* The messages of a round that r takes.                                   *)
LEMMA GotFacts ==
    ASSUME WorkerInv, RoundInv, NEW r \in Rank, ~Past(r), NEW got \in SUBSET Results(r)
    PROVE  /\ WhereHeld /\ IsFiniteSet(got)
           /\ \A m \in got : /\ m.src \in child_ranks(r) /\ m.src \in Rank \ {0} /\ m.src # r
                             /\ parent_rank(m.src) = r
                             /\ m \in Answers(m.src) /\ Answers(m.src) = {m}
                             /\ ~reduce_outstanding[m.src] /\ Owes(m.src)
                             /\ Unspoilt(m.src) <=> m.buf.valid
                             /\ m.buf.valid => Covered(m.src) = Has(m.buf)
           /\ \A m, n \in got : m.src = n.src => m = n
<1>0. ReduceTypes /\ ReduceMessages /\ Rounds /\ AfterRounds /\ Barrier /\ WhereHeld
    BY HeldOnce DEF RoundInv, WorkerInv
<1>1. \A m \in got : m.src \in child_ranks(r) /\ m \in Answers(m.src)
    BY <1>0, TakenFacts
<1>2. \A m \in got : m.src \in Rank \ {0} /\ m.src # r /\ parent_rank(m.src) = r
    BY <1>1, EdgeFacts
<1>3. \A m \in got : /\ Answers(m.src) = {m} /\ ~reduce_outstanding[m.src] /\ Owes(m.src)
                     /\ Unspoilt(m.src) <=> m.buf.valid
                     /\ m.buf.valid => Covered(m.src) = Has(m.buf)
    BY <1>0, <1>1, <1>2 DEF WhereHeld, Owes
<1>4. \A m, n \in got : m.src = n.src => m = n
    BY <1>3
<1>5. IsFiniteSet(got)
    BY <1>2, <1>4, OnePerSource
<1>. QED
    BY <1>0, <1>1, <1>2, <1>3, <1>4, <1>5

(* Combine does that.                                                      *)
LEMMA CombineFacts ==
    ASSUME WorkerInv, RoundInv, ResultInv, NEW r \in Rank, ~Past(r), reduce_outstanding[r],
           NEW got \in SUBSET Results(r)
    PROVE  \E used \in SUBSET got : Combined(r, got, used, Combine(r, got))
<1>. DEFINE valid == {m \in got : m.buf.valid}
            used == {m \in valid : reduce_buf[r].valid /\ \A n \in got \ valid : m.src < n.src}
<1>0. Shares /\ WhereHeld
    BY GotFacts DEF ResultInv
<1>1. PICK b : b = Combine(r, got)
    OBVIOUS
<1>2. /\ b.valid <=> reduce_buf[r].valid /\ valid = got
      /\ b.count = reduce_buf[r].count + SumCounts(valid)
      /\ b.data = reduce_op(reduce_buf[r].data, used)
    BY <1>1 DEF Combine
<1>3. used \in SUBSET got /\ \A m \in used : m.buf.valid
    OBVIOUS
<1>4. b.valid => used = got /\ valid = got
    BY <1>2
<1>. HIDE DEF used, valid
<1>5. \A m \in used : /\ m.src \in Rank /\ m.src # r /\ Covered(m.src) = Has(m.buf)
                      /\ m.buf.data \in [Rank -> {0, 1}]
  <2>1. \A m \in used : /\ m.src \in Rank /\ m.src # r /\ Covered(m.src) = Has(m.buf)
                        /\ m \in Answers(m.src)
      BY <1>3, GotFacts
  <2>. QED
      BY <1>0, <1>3, <2>1 DEF Shares
<1>6. \A m, n \in used : m.src = n.src => m = n
    BY <1>3, GotFacts
<1>7. Covered(r) = Has(reduce_buf[r]) /\ reduce_buf[r].data \in [Rank -> {0, 1}]
    BY <1>0 DEF WhereHeld, Shares
<1>8. ASSUME NEW k \in Rank
      PROVE  b.data[k] = IF k \in Covered(r) \/ \E m \in used : k \in Covered(m.src) THEN 1 ELSE 0
  <2>1. PICK f : f = [m \in used |-> m.buf.data[k]]
      OBVIOUS
  <2>2. f \in [used -> {0, 1}] /\ \A m \in used : f[m] = 1 <=> k \in Covered(m.src)
    <3>1. \A m \in used : m.buf.data[k] \in {0, 1}
        BY <1>5
    <3>. QED
        BY <1>5, <2>1, <3>1 DEF Has
  <2>3. \A m, n \in used : f[m] = 1 /\ f[n] = 1 => m = n
    <3>. SUFFICES ASSUME NEW m \in used, NEW n \in used, f[m] = 1, f[n] = 1 PROVE m.src = n.src
        BY <1>6
    <3>1. k \in Covered(m.src) /\ k \in Covered(n.src) /\ m.src \in Rank /\ n.src \in Rank
        BY <1>5, <2>2
    <3>. QED
        BY <1>0, <3>1 DEF Shares
  <2>4. Total(f) = IF \E m \in used : f[m] = 1 THEN 1 ELSE 0
      BY <2>2, <2>3, TotalOfOne
  <2>5. Total(f) = IF \E m \in used : k \in Covered(m.src) THEN 1 ELSE 0
      BY <2>2, <2>4
  <2>6. k \in Covered(r) => ~\E m \in used : k \in Covered(m.src)
      BY <1>0, <1>5 DEF Shares
  <2>7. b.data[k] = reduce_buf[r].data[k] + Total(f)
      BY <1>2, <2>1 DEF reduce_op
  <2>8. reduce_buf[r].data[k] = IF k \in Covered(r) THEN 1 ELSE 0
      BY <1>7 DEF Has
  <2>. QED
      BY <2>5, <2>6, <2>7, <2>8
<1>9. b.data \in [Rank -> {0, 1}]
  <2>1. b.data = [k \in Rank |-> b.data[k]]
      BY <1>2 DEF reduce_op
  <2>. QED
      BY <1>8, <2>1
<1>10. \A k \in Rank : k \in Has(b) <=> k \in Covered(r) \/ \E m \in used : k \in Covered(m.src)
    BY <1>8 DEF Has
<1>11. Combined(r, got, used, b)
    BY <1>2, <1>3, <1>4, <1>9, <1>10 DEF Combined
<1>. QED
    BY <1>1, <1>3, <1>11

(* What GatherReduce leaves, when it has made b of the results in got: it  *)
(* goes on waiting, answers its parent, or gives the result to the user.   *)
Gathered(r, got, b) ==
    /\ \A q \in Rank : q # r /\ q \notin {m.src : m \in got} => Kept(q)
    /\ \A q \in {m.src : m \in got} : ~reduce_outstanding'[q] /\ Answers(q)' = {} /\ ~Owes(q)'
    /\ \A c \in Rank \ {0} : c \notin {m.src : m \in got} => (Owes(c)' <=> Owes(c))
    /\ \/ reduce_outstanding'[r] /\ reduce_buf'[r] = b /\ UNCHANGED delivered
       \/ /\ r # 0 /\ ~reduce_outstanding'[r] /\ UNCHANGED delivered
          /\ \E a : /\ Answers(r)' = {a} /\ a.buf.data = b.data
                    /\ a.buf.valid <=> b.valid
                    /\ a.buf.count = b.count + objects_processed[r]
       \/ /\ r = 0 /\ ~reduce_outstanding'[r] /\ Answers(r)' = {}
          /\ ~b.valid => UNCHANGED delivered
          /\ b.valid => delivered' = [total |-> b.count + objects_processed[r], data |-> b.data]

(* GatherReduce does that.                                                 *)
LEMMA GatherLeaves ==
    ASSUME WorkerInv, RoundInv, RoundInv', Shaped, NEW r \in Rank, ~Past(r), GatherReduce(r)
    PROVE  /\ \E got \in SUBSET Results(r) : Gathered(r, got, Combine(r, got))
           /\ Shaped' /\ UNCHANGED since
<1>. USE EdgeFacts, MessageFacts
<1>0. /\ ReduceMessages /\ Rounds /\ WhereHeld /\ Rounds' /\ ReduceMessages'
      /\ reduce_outstanding \in [Rank -> BOOLEAN] /\ reduce_outstanding[r]
      /\ DOMAIN reduce_buf = Rank
    BY HeldOnce DEF RoundInv, ReduceTypes, Shaped, GatherReduce
<1>1. PICK got \in SUBSET Results(r) :
          \/ CompleteReduce(r, Combine(r, got), reduces \ got)
          \/ /\ reduce_buf' = [reduce_buf EXCEPT ![r] = Combine(r, got)]
             /\ reduces' = reduces \ got
             /\ UNCHANGED <<reduce_outstanding, delivered>>
    BY DEF GatherReduce
<1>2. PICK b : b = Combine(r, got)
    OBVIOUS
<1>3. b = [valid |-> b.valid, count |-> b.count, data |-> b.data]
    BY <1>2 DEF Combine
<1>a. PICK s : s = [valid |-> b.valid, count |-> b.count + objects_processed[r], data |-> b.data]
    OBVIOUS
<1>b. PICK a : a = result(r, "round", s)
    OBVIOUS
<1>4. /\ s = [valid |-> b.valid, count |-> b.count + objects_processed[r], data |-> b.data]
      /\ a = result(r, "round", s)
    BY <1>a, <1>b
<1>5. /\ a.src = r /\ a.kind = "round" /\ a.dst = parent_rank(r) /\ a.buf = s
      /\ s.count = b.count + objects_processed[r] /\ s.data = b.data /\ s.valid = b.valid
    BY <1>4 DEF result
<1>6. \/ /\ reduce_buf' = [reduce_buf EXCEPT ![r] = s]
         /\ reduce_outstanding' = [reduce_outstanding EXCEPT ![r] = FALSE]
         /\ reduces' = (reduces \ got) \cup (IF r = 0 THEN {} ELSE {a})
         /\ delivered' = IF r = 0 /\ s.valid THEN [total |-> s.count, data |-> s.data] ELSE delivered
      \/ /\ reduce_buf' = [reduce_buf EXCEPT ![r] = b]
         /\ reduces' = reduces \ got
         /\ UNCHANGED <<reduce_outstanding, delivered>>
  <2>1. [b EXCEPT !.count = @ + objects_processed[r]] = s
      BY <1>3, <1>4
  <2>2. CASE CompleteReduce(r, b, reduces \ got)
    <3>1. /\ reduce_buf' = [reduce_buf EXCEPT ![r] = s]
          /\ reduce_outstanding' = [reduce_outstanding EXCEPT ![r] = FALSE]
          /\ reduces' = (reduces \ got) \cup (IF r = 0 THEN {} ELSE {result(r, "round", s)})
          /\ delivered' = IF r = 0 /\ s.valid THEN [total |-> s.count, data |-> s.data] ELSE delivered
        BY <2>1, <2>2 DEF CompleteReduce
    <3>. QED
        BY <1>4, <3>1
  <2>. QED
      BY <1>1, <1>2, <2>2
<1>7. /\ \A q \in Rank : q # r => reduce_buf'[q] = reduce_buf[q]
      /\ \A q \in Rank : q # r => reduce_outstanding'[q] = reduce_outstanding[q]
      /\ reduce_buf' = [q \in Rank |-> reduce_buf'[q]]
      /\ reduce_buf'[r] \in {b, s}
    BY <1>0, <1>6
<1>8. Shaped'
  <2>1. \A q \in Rank : reduce_buf'[q] =
            [valid |-> reduce_buf'[q].valid, count |-> reduce_buf'[q].count, data |-> reduce_buf'[q].data]
    <3>1. \A q \in Rank : q # r => reduce_buf'[q] =
            [valid |-> reduce_buf'[q].valid, count |-> reduce_buf'[q].count, data |-> reduce_buf'[q].data]
        BY <1>7 DEF Shaped
    <3>2. reduce_buf'[r] =
            [valid |-> reduce_buf'[r].valid, count |-> reduce_buf'[r].count, data |-> reduce_buf'[r].data]
        BY <1>3, <1>4, <1>7
    <3>. QED
        BY <3>1, <3>2
  <2>. QED
      BY <1>7, <2>1 DEF Shaped
<1>. DEFINE S == {m.src : m \in got}
<1>9. /\ \A m \in got : /\ m.src \in child_ranks(r) /\ m.src \in Rank \ {0} /\ m.src # r
                        /\ m \in Answers(m.src) /\ Answers(m.src) = {m} /\ ~reduce_outstanding[m.src]
    BY GotFacts
<1>10. \A m \in got : m.kind = "round"
    BY <1>9 DEF Answers
<1>11. ASSUME NEW q \in Rank, q # r, q \notin S PROVE Answers(q)' = Answers(q) /\ Kept(q)
  <2>1. \A m : m \in reduces' /\ m.src = q <=> m \in reduces /\ m.src = q
      BY <1>5, <1>6, <1>11
  <2>2. Answers(q)' = Answers(q)
      BY <2>1 DEF Answers
  <2>. QED
      BY <1>7, <1>11, <2>2 DEF Kept
<1>12. ASSUME NEW q \in S PROVE q \in Rank \ {0} /\ q # r /\ ~reduce_outstanding'[q] /\ Answers(q)' = {}
  <2>1. PICK m \in got : m.src = q
      OBVIOUS
  <2>2. q \in Rank \ {0} /\ q # r /\ Answers(q) = {m} /\ ~reduce_outstanding[q]
      BY <1>9, <2>1
  <2>3. \A n \in reduces' : ~(n.src = q /\ n.kind = "round")
      BY <1>5, <1>6, <2>1, <2>2 DEF Answers
  <2>. QED
      BY <1>7, <2>2, <2>3 DEF Answers
<1>13. \A c \in Rank \ {0} : Announced(c)' <=> Announced(c)
    BY <1>5, <1>6, <1>10 DEF Announced
<1>14. \A q \in S : ~Owes(q)'
  <2>1. \A q \in S : ~Announced(q)
      BY <1>0, <1>9 DEF Rounds
  <2>. QED
      BY <1>12, <1>13, <2>1 DEF Owes
<1>15. r # 0 => Answers(r) = {}
    BY <1>0 DEF Rounds
<1>16. ASSUME r # 0, reduces' = (reduces \ got) \cup {a} PROVE Answers(r)' = {a}
    BY <1>5, <1>15, <1>16 DEF Answers
<1>17. Answers(0)' = {}
    BY <1>0 DEF Answers, ReduceMessages
<1>18. ASSUME NEW c \in Rank \ {0}, c \notin S PROVE Owes(c)' <=> Owes(c)
  <2>1. CASE c # r
      BY <1>7, <1>11, <1>13, <1>18, <2>1 DEF Owes
  <2>2. CASE c = r
      BY <1>0, <1>6, <1>16, <1>18, <2>2 DEF Owes
  <2>. QED
      BY <2>1, <2>2
<1>19. \/ reduce_outstanding'[r] /\ reduce_buf'[r] = b /\ UNCHANGED delivered
       \/ /\ r # 0 /\ ~reduce_outstanding'[r] /\ UNCHANGED delivered
          /\ \E d : /\ Answers(r)' = {d} /\ d.buf.data = b.data
                    /\ d.buf.valid <=> b.valid
                    /\ d.buf.count = b.count + objects_processed[r]
       \/ /\ r = 0 /\ ~reduce_outstanding'[r] /\ Answers(r)' = {}
          /\ ~b.valid => UNCHANGED delivered
          /\ b.valid => delivered' = [total |-> b.count + objects_processed[r], data |-> b.data]
  <2>1. CASE /\ reduce_buf' = [reduce_buf EXCEPT ![r] = b]
             /\ UNCHANGED <<reduce_outstanding, delivered>>
      BY <1>0, <2>1
  <2>2. CASE /\ reduce_outstanding' = [reduce_outstanding EXCEPT ![r] = FALSE]
             /\ reduces' = (reduces \ got) \cup (IF r = 0 THEN {} ELSE {a})
             /\ delivered' = IF r = 0 /\ s.valid THEN [total |-> s.count, data |-> s.data] ELSE delivered
    <3>1. ~reduce_outstanding'[r]
        BY <1>0, <2>2
    <3>2. CASE r = 0
        BY <1>5, <1>17, <2>2, <3>1, <3>2
    <3>3. CASE r # 0
      <4>1. Answers(r)' = {a} /\ UNCHANGED delivered
          BY <1>16, <2>2, <3>3
      <4>. QED
          BY <1>5, <3>1, <3>3, <4>1
    <3>. QED
        BY <3>2, <3>3
  <2>. QED
      BY <1>6, <2>1, <2>2
<1>20. Gathered(r, got, b)
    BY <1>11, <1>12, <1>14, <1>18, <1>19 DEF Gathered
<1>21. UNCHANGED since
    BY DEF GatherReduce
<1>. QED
    BY <1>2, <1>8, <1>20, <1>21

(* The ranks r has after it, and what it can say of them.                  *)
LEMMA GatheredFacts ==
    ASSUME WorkerInv, RoundInv, RoundInv', ResultInv, NEW r \in Rank, ~Past(r), reduce_outstanding[r],
           NEW got \in SUBSET Results(r), NEW b, Gathered(r, got, b)
    PROVE  /\ \A q \in Rank : q # r /\ q \notin {m.src : m \in got} =>
                 Covered(q)' = Covered(q) /\ (Unspoilt(q)' <=> Unspoilt(q))
           /\ \A q \in {m.src : m \in got} : Covered(q)' = {} /\ ~Unspoilt(q)'
           /\ Covered(r)' \in {{}, Has(b)}
           /\ reduce_outstanding'[r] \/ Unspoilt(r)' => Covered(r)' = Has(b)
           /\ Unspoilt(r)' => b.valid
<1>0. WhereHeld'
  <2>1. (ReduceMessages /\ Rounds => WhereHeld)'
      BY HeldOnce, PTL
  <2>. QED
      BY <2>1 DEF RoundInv
<1>1. \A q \in Rank : q # r /\ q \notin {m.src : m \in got} => Kept(q)
    BY DEF Gathered
<1>2. \A q \in Rank : q # r /\ q \notin {m.src : m \in got} =>
          Covered(q)' = Covered(q) /\ (Unspoilt(q)' <=> Unspoilt(q))
    BY <1>1, KeptFacts
<1>3. ASSUME NEW q \in {m.src : m \in got} PROVE Covered(q)' = {} /\ ~Unspoilt(q)'
  <2>1. q \in Rank
      BY GotFacts
  <2>2. ~reduce_outstanding'[q] /\ Answers(q)' = {}
      BY DEF Gathered
  <2>. QED
      BY <1>0, <2>1, <2>2 DEF WhereHeld
<1>4. CASE reduce_outstanding'[r] /\ reduce_buf'[r] = b
  <2>1. Covered(r)' = Has(reduce_buf[r])' /\ (Unspoilt(r)' <=> b.valid)
      BY <1>0, <1>4 DEF WhereHeld
  <2>2. Covered(r)' = Has(b)
      BY <1>4, <2>1 DEF Has
  <2>. QED
      BY <1>2, <1>3, <2>1, <2>2
<1>5. ASSUME ~reduce_outstanding'[r], NEW a, Answers(r)' = {a}, a.buf.data = b.data,
             a.buf.valid <=> b.valid
      PROVE  /\ Covered(r)' \in {{}, Has(b)}
             /\ Unspoilt(r)' => Covered(r)' = Has(b) /\ b.valid
  <2>1. Has(a.buf) = Has(b)
      BY <1>5 DEF Has
  <2>2. /\ a.buf.valid => Covered(r)' = Has(a.buf)'
        /\ ~a.buf.valid => Covered(r)' = {}
        /\ Unspoilt(r)' <=> a.buf.valid
      BY <1>0, <1>5 DEF WhereHeld
  <2>3. Has(a.buf)' = Has(a.buf)
      BY DEF Has
  <2>. QED
      BY <1>5, <2>1, <2>2, <2>3
<1>6. CASE ~reduce_outstanding'[r] /\ Answers(r)' = {}
  <2>1. Covered(r)' = {} /\ ~Unspoilt(r)'
      BY <1>0, <1>6 DEF WhereHeld
  <2>. QED
      BY <1>2, <1>3, <1>6, <2>1
<1>7. \/ reduce_outstanding'[r] /\ reduce_buf'[r] = b
      \/ /\ ~reduce_outstanding'[r]
         /\ \E a : Answers(r)' = {a} /\ a.buf.data = b.data /\ (a.buf.valid <=> b.valid)
      \/ ~reduce_outstanding'[r] /\ Answers(r)' = {}
    BY DEF Gathered
<1>. QED
    BY <1>2, <1>3, <1>4, <1>5, <1>6, <1>7

(* b has a part of the tree below r, and all of it but for the children    *)
(* that still owe an answer, if it is valid.                               *)
LEMMA BelowGathered ==
    ASSUME WorkerInv, RoundInv, ResultInv, NEW r \in Rank, ~Past(r), reduce_outstanding[r],
           NEW got \in SUBSET Results(r), NEW used \in SUBSET got, NEW b,
           Combined(r, got, used, b), Gathered(r, got, b)
    PROVE  /\ r \in Has(b)
           /\ \A k \in Has(b) \ {r} : k # 0 /\ parent_rank(k) \in Has(b)
           /\ \A q \in Rank : q # r /\ q \notin {m.src : m \in got} => Has(b) \cap Covered(q) = {}
           /\ \A c \in child_ranks(r) : Owes(c)' => c \notin Has(b)
           /\ b.valid => \A k \in Has(b) : \A c \in child_ranks(k) :
                 c \in Has(b) \/ (k = r /\ Owes(c)')
<1>. USE EdgeFacts
<1>0. Shares /\ WhereHeld
    BY GotFacts DEF ResultInv
<1>1. /\ \A k : k \in Has(b) => k \in Rank
      /\ \A k \in Rank : k \in Covered(r) => k \in Has(b)
      /\ \A m \in used : \A k \in Rank : k \in Covered(m.src) => k \in Has(b)
      /\ \A k \in Has(b) : k \in Covered(r) \/ \E m \in used : k \in Covered(m.src)
    BY DEF Combined, Has
<1>2. \A q \in Rank : \A k \in Covered(q) : k \in Rank
    BY DEF Covered
<1>3. \A m \in used : /\ m \in got /\ m.src \in child_ranks(r) /\ m.src \in Rank \ {0} /\ m.src # r
                      /\ parent_rank(m.src) = r /\ m.buf.valid
                      /\ ~reduce_outstanding[m.src] /\ Unspoilt(m.src)
    BY GotFacts DEF Combined
<1>4. r \in Covered(r) /\ \A m \in used : m.src \in Covered(m.src)
    BY <1>0, <1>3 DEF Shares
<1>5. r \in Has(b)
    BY <1>1, <1>4
<1>6. ASSUME NEW k \in Has(b), k # r PROVE k # 0 /\ parent_rank(k) \in Has(b)
  <2>1. CASE k \in Covered(r)
    <3>1. k # 0 /\ parent_rank(k) \in Covered(r)
        BY <1>0, <1>6, <2>1 DEF Shares
    <3>. QED
        BY <1>1, <1>2, <3>1
  <2>2. ASSUME NEW m \in used, k \in Covered(m.src) PROVE k # 0 /\ parent_rank(k) \in Has(b)
    <3>1. CASE k = m.src
        BY <1>3, <1>5, <3>1
    <3>2. CASE k # m.src
      <4>1. k # 0 /\ parent_rank(k) \in Covered(m.src) /\ m.src \in Rank
          BY <1>0, <1>3, <2>2, <3>2 DEF Shares
      <4>. QED
          BY <1>1, <1>2, <4>1
    <3>. QED
        BY <3>1, <3>2
  <2>. QED
      BY <1>1, <2>1, <2>2
<1>7. ASSUME NEW q \in Rank, q # r, q \notin {m.src : m \in got}, NEW k \in Has(b), k \in Covered(q)
      PROVE  FALSE
  <2>1. k \notin Covered(r)
      BY <1>0, <1>7 DEF Shares
  <2>2. PICK m \in used : k \in Covered(m.src)
      BY <1>1, <2>1
  <2>3. m.src \in Rank /\ m.src # q
      BY <1>3, <1>7
  <2>. QED
      BY <1>0, <1>7, <2>2, <2>3 DEF Shares
<1>8. ASSUME NEW c \in child_ranks(r), Owes(c)', c \in Has(b) PROVE FALSE
  <2>1. c \in Rank \ {0} /\ parent_rank(c) = r
      OBVIOUS
  <2>2. c \notin {m.src : m \in got} /\ Owes(c)
      BY <1>8, <2>1 DEF Gathered
  <2>3. c \notin Covered(r)
      BY <1>0, <2>2 DEF Shares
  <2>4. PICK m \in used : c \in Covered(m.src)
      BY <1>1, <1>8, <2>3
  <2>5. m.src \in Rank /\ m.src # c /\ m.src # r
      BY <1>3, <2>2
  <2>6. r \in Covered(m.src)
      BY <1>0, <2>1, <2>4, <2>5 DEF Shares
  <2>. QED
      BY <1>0, <1>4, <2>5, <2>6 DEF Shares
<1>9. ASSUME b.valid, NEW k \in Has(b), NEW c \in child_ranks(k)
      PROVE  c \in Has(b) \/ (k = r /\ Owes(c)')
  <2>0. used = got /\ reduce_buf[r].valid /\ Unspoilt(r)
      BY <1>0, <1>9 DEF Combined, WhereHeld
  <2>1. k \in Rank /\ c \in Rank \ {0} /\ parent_rank(c) = k
      BY <1>1
  <2>2. CASE k \in Covered(r)
    <3>1. c \in Covered(r) \/ (k = r /\ Owes(c))
        BY <1>0, <2>0, <2>2 DEF Shares
    <3>2. CASE c \in Covered(r)
        BY <1>1, <2>1, <3>2
    <3>3. CASE k = r /\ Owes(c)
      <4>1. CASE c \in {m.src : m \in got}
        <5>1. PICK m \in got : c = m.src
            BY <4>1
        <5>2. c \in Covered(m.src) /\ m \in used
            BY <1>4, <2>0, <5>1
        <5>. QED
            BY <1>1, <2>1, <5>2
      <4>2. CASE c \notin {m.src : m \in got}
          BY <2>1, <3>3, <4>2 DEF Gathered
      <4>. QED
          BY <4>1, <4>2
    <3>. QED
        BY <3>1, <3>2, <3>3
  <2>3. ASSUME NEW m \in used, k \in Covered(m.src) PROVE c \in Has(b)
    <3>1. c \in Covered(m.src) \/ (k = m.src /\ Owes(c))
        BY <1>0, <1>3, <2>3 DEF Shares
    <3>2. ~(k = m.src /\ Owes(c))
        BY <1>3, <2>1 DEF Rounds, RoundInv
    <3>. QED
        BY <1>1, <2>1, <3>1, <3>2
  <2>. QED
      BY <1>1, <2>2, <2>3
<1>. QED
    BY <1>5, <1>6, <1>7, <1>8, <1>9

(* Taking partial results leaves no rank in two of them.                   *)
LEMMA SharesGathered ==
    ASSUME WorkerInv, RoundInv, RoundInv', ResultInv, NEW r \in Rank, ~Past(r), reduce_outstanding[r],
           NEW got \in SUBSET Results(r), NEW used \in SUBSET got, NEW b,
           Combined(r, got, used, b), Gathered(r, got, b)
    PROVE  Shares'
<1>. USE EdgeFacts
<1>. DEFINE S == {m.src : m \in got}
<1>0. Shares
    BY DEF ResultInv
<1>1. /\ \A q \in Rank : q # r /\ q \notin S => Covered(q)' = Covered(q) /\ (Unspoilt(q)' <=> Unspoilt(q))
      /\ \A q \in S : Covered(q)' = {} /\ ~Unspoilt(q)'
      /\ Covered(r)' \in {{}, Has(b)}
      /\ reduce_outstanding'[r] \/ Unspoilt(r)' => Covered(r)' = Has(b)
      /\ Unspoilt(r)' => b.valid
    BY GatheredFacts
<1>2. /\ r \in Has(b)
      /\ \A k \in Has(b) \ {r} : k # 0 /\ parent_rank(k) \in Has(b)
      /\ \A q \in Rank : q # r /\ q \notin S => Has(b) \cap Covered(q) = {}
      /\ \A c \in child_ranks(r) : Owes(c)' => c \notin Has(b)
      /\ b.valid => \A k \in Has(b) : \A c \in child_ranks(k) : c \in Has(b) \/ (k = r /\ Owes(c)')
    BY BelowGathered
<1>3. /\ \A q \in Rank : q # r /\ q \notin S => Kept(q)
      /\ \A q \in S : ~reduce_outstanding'[q] /\ Answers(q)' = {} /\ ~Owes(q)'
      /\ \A c \in Rank \ {0} : c \notin S => (Owes(c)' <=> Owes(c))
    BY DEF Gathered
<1>4. \A q \in S : q \in child_ranks(r) /\ q # r
  <2>1. \A m \in got : m.src \in child_ranks(r) /\ m.src # r
      BY GotFacts
  <2>. QED
      BY <2>1
<1>5. b.data \in [Rank -> {0, 1}]
    BY DEF Combined
<1>6. ASSUME NEW q \in Rank, reduce_outstanding'[q] PROVE reduce_buf'[q].data \in [Rank -> {0, 1}]
  <2>1. CASE q = r
      BY <1>5, <1>6, <2>1 DEF Gathered
  <2>2. CASE q # r /\ q \notin S
      BY <1>0, <1>3, <1>6, <2>2 DEF Kept, Shares
  <2>. QED
      BY <1>3, <1>6, <2>1, <2>2
<1>7. ASSUME NEW q \in Rank, NEW m \in Answers(q)', m.buf.valid PROVE m.buf.data \in [Rank -> {0, 1}]
  <2>1. CASE q = r
    <3>1. ~reduce_outstanding'[r]
      <4>1. (ReduceMessages /\ Rounds => WhereHeld)'
          BY HeldOnce, PTL
      <4>. QED
          BY <2>1, <4>1 DEF WhereHeld, RoundInv
    <3>. QED
        BY <1>5, <2>1, <3>1 DEF Gathered
  <2>2. CASE q # r /\ q \notin S
      BY <1>0, <1>3, <1>7, <2>2 DEF Kept, Shares
  <2>. QED
      BY <1>3, <2>1, <2>2
<1>8. ASSUME NEW q \in Rank, reduce_outstanding'[q] \/ Unspoilt(q)' PROVE q \in Covered(q)'
  <2>1. CASE q = r
      BY <1>1, <1>2, <1>8, <2>1
  <2>2. CASE q # r /\ q \notin S
    <3>1. reduce_outstanding[q] \/ Unspoilt(q)
        BY <1>1, <1>3, <1>8, <2>2 DEF Kept
    <3>. QED
        BY <1>0, <1>1, <2>2, <3>1 DEF Shares
  <2>. QED
      BY <1>1, <1>3, <1>8, <2>1, <2>2
<1>9. ASSUME NEW q \in Rank, NEW k \in Covered(q)' \ {q} PROVE k # 0 /\ parent_rank(k) \in Covered(q)'
  <2>1. CASE q = r
      BY <1>1, <1>2, <2>1
  <2>2. CASE q # r /\ q \notin S
      BY <1>0, <1>1, <2>2 DEF Shares
  <2>. QED
      BY <1>1, <2>1, <2>2
<1>10. ASSUME NEW p \in Rank, NEW q \in Rank, p # q PROVE Covered(p)' \cap Covered(q)' = {}
  <2>1. \A x \in Rank : x # r => Covered(x)' = {} \/ (Covered(x)' = Covered(x) /\ x \notin S)
      BY <1>1
  <2>2. \A x \in Rank : x # r => Covered(r)' \cap Covered(x)' = {}
      BY <1>1, <1>2, <2>1
  <2>3. CASE p # r /\ q # r
      BY <1>0, <1>10, <2>1, <2>3 DEF Shares
  <2>. QED
      BY <1>10, <2>2, <2>3
<1>11. ASSUME NEW p \in Rank, NEW c \in child_ranks(p), Owes(c)' PROVE c \notin Covered(p)'
  <2>1. CASE p = r
      BY <1>1, <1>2, <1>11, <2>1
  <2>2. CASE p # r /\ p \notin S
    <3>1. c \in Rank \ {0} /\ c \notin S
        BY <1>4, <2>2
    <3>2. Owes(c)
        BY <1>3, <1>11, <3>1
    <3>. QED
        BY <1>0, <1>1, <2>2, <3>2 DEF Shares
  <2>. QED
      BY <1>1, <2>1, <2>2
<1>12. ASSUME NEW q \in Rank, Unspoilt(q)', NEW k \in Covered(q)', NEW c \in child_ranks(k)
       PROVE  c \in Covered(q)' \/ (k = q /\ Owes(c)')
  <2>1. CASE q = r
      BY <1>1, <1>2, <1>12, <2>1
  <2>2. CASE q # r /\ q \notin S
    <3>1. c \in Covered(q) \/ (k = q /\ Owes(c))
        BY <1>0, <1>1, <1>12, <2>2 DEF Shares
    <3>2. k = q => c \in Rank \ {0} /\ c \notin S
        BY <1>4, <2>2
    <3>. QED
        BY <1>1, <1>3, <2>2, <3>1, <3>2
  <2>. QED
      BY <1>1, <1>12, <2>1, <2>2
<1>. QED
    BY <1>6, <1>7, <1>8, <1>9, <1>10, <1>11, <1>12 DEF Shares

(* Its count lies between those of the ranks it has, then and now.         *)
LEMMA CountGathered ==
    ASSUME WorkerInv, RoundInv, ResultInv, Counted, NEW h, AtStart(h), Bounds(h),
           NEW r \in Rank, ~Past(r), reduce_outstanding[r],
           NEW got \in SUBSET Results(r), NEW used \in SUBSET got, NEW b,
           Combined(r, got, used, b), b.valid
    PROVE  /\ Between(h, Has(b) \ {r}, b.count)
           /\ Between(h, Has(b), b.count + objects_processed[r])
<1>0. /\ Shares /\ WhereHeld /\ IsFiniteSet(got)
      /\ h \in [Rank -> Nat] /\ h[r] <= objects_processed[r] /\ objects_processed[r] \in Nat
    BY GotFacts DEF ResultInv, AtStart, Counted
<1>1. /\ used = got /\ reduce_buf[r].valid /\ b.count = reduce_buf[r].count + SumCounts(got)
      /\ \A m \in got : m.buf.valid
      /\ \A k \in Rank : k \in Has(b) <=> k \in Covered(r) \/ \E m \in got : k \in Covered(m.src)
    BY DEF Combined
<1>2. \A m \in got : m.src \in Rank /\ m.src # r /\ parent_rank(m.src) = r /\ m \in Answers(m.src)
    BY GotFacts
<1>3. \A m, n \in got : m.src = n.src => m = n
    BY GotFacts
<1>4. PICK D, c : D = [m \in got |-> Covered(m.src)] /\ c = [m \in got |-> m.buf.count]
    OBVIOUS
<1>5. /\ \A m \in got : D[m] = Covered(m.src) /\ c[m] = m.buf.count
      /\ SumCounts(got) = Total(c)
    BY <1>4 DEF SumCounts
<1>6. D \in [got -> SUBSET Rank]
  <2>1. \A m \in got : Covered(m.src) \in SUBSET Rank
      BY <1>0, <1>2 DEF WhereHeld
  <2>. QED
      BY <1>4, <2>1
<1>7. \A m \in got : Between(h, D[m], c[m])
    BY <1>1, <1>2, <1>5 DEF Bounds
<1>8. c \in [got -> Nat]
  <2>1. \A m \in got : c[m] \in Nat
      BY <1>7 DEF Between
  <2>. QED
      BY <1>4, <2>1
<1>9. \A m, n \in got : m # n => D[m] \cap D[n] = {}
  <2>. SUFFICES ASSUME NEW m \in got, NEW n \in got, m # n PROVE D[m] \cap D[n] = {}
      OBVIOUS
  <2>1. m.src # n.src /\ m.src \in Rank /\ n.src \in Rank
      BY <1>2, <1>3
  <2>. QED
      BY <1>0, <1>5, <2>1 DEF Shares
<1>10. PICK A, B : A = Covered(r) \ {r} /\ B = UNION {D[m] : m \in got}
    OBVIOUS
<1>11. Between(h, B, Total(c))
    BY <1>0, <1>6, <1>7, <1>8, <1>9, <1>10, BetweenParts
<1>12. Between(h, A, reduce_buf[r].count)
    BY <1>1, <1>10 DEF Bounds
<1>13. \A k : k \in B <=> \E m \in got : k \in Covered(m.src)
    BY <1>5, <1>10
<1>14. A \in SUBSET Rank /\ B \in SUBSET Rank /\ r \in Covered(r)
  <2>1. A \in SUBSET Rank
      BY <1>0, <1>10 DEF WhereHeld
  <2>2. B \in SUBSET Rank
      BY <1>6, <1>10
  <2>3. r \in Covered(r)
      BY <1>0 DEF Shares
  <2>. QED
      BY <2>1, <2>2, <2>3
<1>15. r \notin B /\ A \cap B = {}
  <2>1. \A m \in got : Covered(r) \cap Covered(m.src) = {}
      BY <1>0, <1>2 DEF Shares
  <2>2. Covered(r) \cap B = {}
      BY <1>13, <2>1
  <2>. QED
      BY <1>10, <1>14, <2>2
<1>16. A \cup B = Has(b) \ {r} /\ Has(b) = (A \cup B) \cup {r}
  <2>1. \A k : k \in Has(b) => k \in Rank
      BY DEF Has
  <2>2. \A k : k \in Has(b) <=> k \in Covered(r) \/ k \in B
      BY <1>0, <1>1, <1>13, <1>14, <2>1 DEF WhereHeld
  <2>. QED
      BY <1>10, <1>14, <1>15, <2>2
<1>17. Between(h, A \cup B, reduce_buf[r].count + Total(c))
    BY <1>0, <1>11, <1>12, <1>14, <1>15, BetweenJoin
<1>18. Between(h, {r}, objects_processed[r])
    BY <1>0, BetweenFew
<1>19. PICK E, n : E = A \cup B /\ n = reduce_buf[r].count + Total(c)
    OBVIOUS
<1>20. n = b.count /\ E \in SUBSET Rank /\ E \cap {r} = {} /\ {r} \in SUBSET Rank
    BY <1>1, <1>5, <1>14, <1>16, <1>19
<1>21. Between(h, E \cup {r}, n + objects_processed[r])
    BY <1>0, <1>17, <1>18, <1>19, <1>20, BetweenJoin
<1>. QED
    BY <1>16, <1>17, <1>19, <1>20, <1>21

(* So the counts stay between.                                             *)
LEMMA BoundsGathered ==
    ASSUME WorkerInv, RoundInv, RoundInv', ResultInv, Counted, UNCHANGED objects_processed,
           NEW h, AtStart(h), Bounds(h),
           NEW r \in Rank, ~Past(r), reduce_outstanding[r],
           NEW got \in SUBSET Results(r), NEW used \in SUBSET got, NEW b,
           Combined(r, got, used, b), Gathered(r, got, b)
    PROVE  Bounds(h)'
<1>. DEFINE S == {m.src : m \in got}
<1>1. /\ \A q \in Rank : q # r /\ q \notin S => Covered(q)' = Covered(q) /\ (Unspoilt(q)' <=> Unspoilt(q))
      /\ reduce_outstanding'[r] \/ Unspoilt(r)' => Covered(r)' = Has(b)
    BY GatheredFacts
<1>2. /\ \A q \in Rank : q # r /\ q \notin S => Kept(q)
      /\ \A q \in S : ~reduce_outstanding'[q] /\ Answers(q)' = {}
    BY DEF Gathered
<1>3. WhereHeld'
  <2>1. (ReduceMessages /\ Rounds => WhereHeld)'
      BY HeldOnce, PTL
  <2>. QED
      BY <2>1 DEF RoundInv
<1>4. b.valid => /\ Between(h, Has(b) \ {r}, b.count)
                 /\ Between(h, Has(b), b.count + objects_processed[r])
    BY CountGathered
<1>. HIDE DEF S
<1>5. \A T, n : Between(h, T, n)' <=> Between(h, T, n)
    BY DEF Between
<1>6. ASSUME NEW q \in Rank, reduce_outstanding'[q], reduce_buf'[q].valid
      PROVE  Between(h, Covered(q)' \ {q}, reduce_buf'[q].count)
  <2>1. CASE q = r
    <3>1. reduce_buf'[r] = b /\ Covered(r)' = Has(b)
        BY <1>1, <1>6, <2>1 DEF Gathered
    <3>. QED
        BY <1>4, <1>6, <2>1, <3>1
  <2>2. CASE q # r /\ q \notin S
      BY <1>1, <1>2, <1>6, <2>2 DEF Kept, Bounds
  <2>. QED
      BY <1>2, <1>6, <2>1, <2>2
<1>7. ASSUME NEW q \in Rank, NEW m \in Answers(q)', m.buf.valid
      PROVE  Between(h, Covered(q)', m.buf.count)
  <2>1. CASE q = r
    <3>1. ~reduce_outstanding'[r] /\ Unspoilt(r)'
        BY <1>3, <1>7, <2>1 DEF WhereHeld
    <3>2. b.valid /\ m.buf.count = b.count + objects_processed[r]
        BY <1>7, <2>1, <3>1 DEF Gathered
    <3>. QED
        BY <1>1, <1>4, <2>1, <3>1, <3>2
  <2>2. CASE q # r /\ q \notin S
      BY <1>1, <1>2, <1>7, <2>2 DEF Kept, Bounds
  <2>. QED
      BY <1>2, <2>1, <2>2
<1>. QED
    BY <1>5, <1>6, <1>7 DEF Bounds, Between

(* When the root completes a valid round it has the data of every rank.    *)
LEMMA RootHasAll ==
    ASSUME WorkerInv, RoundInv, RoundInv', ResultInv, ~Past(0), reduce_outstanding[0],
           NEW got \in SUBSET Results(0), NEW used \in SUBSET got, NEW b,
           Combined(0, got, used, b), Gathered(0, got, b), b.valid, ~reduce_outstanding'[0]
    PROVE  Has(b) = Rank
<1>. USE EdgeFacts
<1>. DEFINE T == Rank \ Has(b)
<1>0. 0 \in Rank /\ Rank \in SUBSET Nat
    BY RankFacts
<1>1. /\ 0 \in Has(b)
      /\ \A k \in Has(b) : \A c \in child_ranks(k) : c \in Has(b) \/ (k = 0 /\ Owes(c)')
    BY <1>0, BelowGathered
<1>2. \A c \in child_ranks(0) : ~Owes(c)'
  <2>1. \A c \in child_ranks(0) : c \in Rank \ {0} /\ parent_rank(c) = 0
      BY <1>0
  <2>. QED
      BY <2>1 DEF RoundInv, Rounds
<1>3. \A k \in Has(b) : \A c \in child_ranks(k) : c \in Has(b)
    BY <1>1, <1>2
<1>4. T = {}
  <2>. SUFFICES ASSUME T # {} PROVE FALSE
      OBVIOUS
  <2>1. T \in SUBSET Nat
      BY <1>0
  <2>2. PICK q \in T : \A p \in T : ~(p < q)
      BY <2>1, LeastRank
  <2>3. q \in Rank \ {0} /\ q \in Rank /\ q # 0 /\ q \notin Has(b)
      BY <1>1, <2>2
  <2>4. /\ parent_rank(q) \in Rank /\ q \in child_ranks(parent_rank(q))
        /\ parent_rank(q) \in Nat /\ q \in Nat /\ parent_rank(q) < q
      BY <2>3, ParentBelow, RankFacts
  <2>5. parent_rank(q) \in T
      BY <1>3, <2>3, <2>4
  <2>. QED
      BY <2>2, <2>4, <2>5
<1>5. \A k : k \in Has(b) => k \in Rank
    BY DEF Has
<1>. QED
    BY <1>4, <1>5

(* What ResultExact says of a step.                                        *)
ResultRight ==
    delivered' # delivered =>
        /\ \A q \in Rank : delivered'.data[q] = 1
        /\ since <= delivered'.total
        /\ delivered'.total <= Cardinality(processed)
        /\ delivered.total <= delivered'.total

(* The result of that round is right, and later than the last one.         *)
LEMMA RootDelivers ==
    ASSUME WorkerInv, RoundInv, RoundInv', ResultInv, Counted, NEW h, AtStart(h), Bounds(h),
           ~Past(0), reduce_outstanding[0],
           NEW got \in SUBSET Results(0), NEW used \in SUBSET got, NEW b,
           Combined(0, got, used, b), Gathered(0, got, b), b.valid, ~reduce_outstanding'[0]
    PROVE  ResultRight /\ delivered'.total \in Nat /\ delivered'.total <= Cardinality(processed)
<1>0. 0 \in Rank
    BY RankFacts
<1>1. Has(b) = Rank
    BY RootHasAll
<1>2. Between(h, Has(b), b.count + objects_processed[0])
    BY <1>0, CountGathered
<1>3. delivered' = [total |-> b.count + objects_processed[0], data |-> b.data]
    BY DEF Gathered
<1>4. PICK f, n : f = objects_processed /\ n = b.count + objects_processed[0]
    OBVIOUS
<1>5. f \in [Rank -> Nat] /\ Cardinality(processed) = Total(f) /\ h \in [Rank -> Nat] /\ since = Total(h)
    BY <1>4 DEF Counted, AtStart
<1>6. [q \in Rank |-> f[q]] = f /\ [q \in Rank |-> h[q]] = h
    BY <1>5
<1>7. n \in Nat /\ Total(h) <= n /\ n <= Total(f)
    BY <1>1, <1>2, <1>4, <1>6 DEF Between
<1>8. delivered.total \in Nat /\ delivered.total <= since
    BY DEF ResultInv, Deliveries
<1>9. Total(h) \in Nat
    BY <1>5, RankFacts, UnitsFinite
<1>10. \A q \in Rank : b.data[q] = 1
    BY <1>1 DEF Has
<1>11. delivered'.total = n /\ delivered'.data = b.data
    BY <1>3, <1>4
<1>12. delivered.total <= n
    BY <1>5, <1>7, <1>8, <1>9
<1>. QED
    BY <1>5, <1>7, <1>10, <1>11, <1>12 DEF ResultRight

(* CIRCLE_reduce_check with a round outstanding, all of it.                *)
LEMMA ResultGathered ==
    ASSUME WorkerInv, RoundInv, RoundInv', ResultInv, Counted, NEW r \in Rank, ~Past(r),
           GatherReduce(r), UNCHANGED <<processed, objects_processed>>
    PROVE  ResultInv' /\ ResultRight
<1>0. /\ reduce_outstanding[r] /\ Shaped /\ Deliveries /\ 0 \in Rank
      /\ reduce_outstanding \in [Rank -> BOOLEAN]
    BY RankFacts DEF GatherReduce, ResultInv, RoundInv, ReduceTypes
<1>1. Shaped' /\ UNCHANGED since
    BY <1>0, GatherLeaves
<1>2. PICK got \in SUBSET Results(r) : Gathered(r, got, Combine(r, got))
    BY <1>0, GatherLeaves
<1>3. PICK used \in SUBSET got : Combined(r, got, used, Combine(r, got))
    BY <1>0, CombineFacts
<1>4. PICK b : b = Combine(r, got)
    OBVIOUS
<1>5. Gathered(r, got, b) /\ Combined(r, got, used, b)
    BY <1>2, <1>3, <1>4
<1>6. PICK h : AtStart(h) /\ Bounds(h)
    BY DEF ResultInv
<1>7. Shares'
    BY <1>0, <1>5, SharesGathered
<1>8. Bounds(h)'
    BY <1>0, <1>5, <1>6, BoundsGathered
<1>9. AtStart(h)'
    BY <1>1, <1>6 DEF AtStart
<1>10. Deliveries' /\ ResultRight
  <2>1. CASE r = 0 /\ b.valid /\ ~reduce_outstanding'[0]
    <3>1. ResultRight /\ delivered'.total \in Nat /\ delivered'.total <= Cardinality(processed)
        BY <1>0, <1>5, <1>6, <2>1, RootDelivers
    <3>. QED
        BY <2>1, <3>1 DEF Deliveries
  <2>2. CASE ~(r = 0 /\ b.valid /\ ~reduce_outstanding'[0])
    <3>1. UNCHANGED delivered
        BY <1>5, <2>2 DEF Gathered
    <3>2. reduce_outstanding'[0] => reduce_outstanding[0]
      <4>1. CASE r = 0
          BY <1>0, <4>1
      <4>2. CASE r # 0 /\ 0 \notin {m.src : m \in got}
          BY <1>0, <1>5, <4>2 DEF Gathered, Kept
      <4>3. CASE 0 \in {m.src : m \in got}
          BY <1>5, <4>3 DEF Gathered
      <4>. QED
          BY <4>1, <4>2, <4>3
    <3>. QED
        BY <1>0, <1>1, <3>1, <3>2 DEF Deliveries, ResultRight
  <2>. QED
      BY <2>1, <2>2
<1>. QED
    BY <1>1, <1>7, <1>8, <1>9, <1>10 DEF ResultInv

(* Every step keeps the invariant, and gives the user no wrong result.     *)
LEMMA ResultStep ==
    ASSUME TypeOK, WorkerInv, WorkerInv', RoundInv, RoundInv', Counted, Counted', ResultInv,
           [ReduceWorkerNext]_allVars
    PROVE  ResultInv' /\ ResultRight
<1>0. ReduceMessages /\ Rounds /\ WhereHeld /\ Shaped /\ objects_processed \in [Rank -> Nat]
    BY HeldOnce DEF RoundInv, ResultInv, Counted
<1>1. ASSUME UNCHANGED <<reduce_outstanding, reduce_buf, reduces, since, delivered>>,
             \A q \in Rank : objects_processed[q] <= objects_processed'[q]
      PROVE  ResultInv' /\ ResultRight
  <2>1. \A q \in Rank : Kept(q)
      BY <1>1 DEF Kept, Answers
  <2>2. \A c \in Rank \ {0} : Owes(c)' <=> Owes(c)
      BY <1>1 DEF Owes, Announced, Answers
  <2>3. Shaped'
      BY <1>0, <1>1 DEF Shaped
  <2>4. ResultInv'
      BY <1>0, <1>1, <2>1, <2>2, <2>3, AllKept
  <2>. QED
      BY <1>1, <2>4 DEF ResultRight
<1>2. ASSUME NEW r \in Rank, ProcessAndCount(r) PROVE ResultInv' /\ ResultRight
  <2>1. /\ UNCHANGED <<reduce_outstanding, reduce_buf, reduces, since, delivered>>
        /\ objects_processed' = [objects_processed EXCEPT ![r] = @ + 1]
      BY <1>2 DEF ProcessAndCount
  <2>2. ASSUME NEW q \in Rank PROVE objects_processed[q] <= objects_processed'[q]
    <3>1. objects_processed[q] \in Nat
        BY <1>0
    <3>2. objects_processed'[q] \in {objects_processed[q], objects_processed[q] + 1}
        BY <1>0, <2>1
    <3>. QED
        BY <3>1, <3>2
  <2>. QED
      BY <1>1, <2>1, <2>2
<1>3. ASSUME UNCHANGED objects_processed
      PROVE  \A q \in Rank : objects_processed[q] <= objects_processed'[q]
    BY <1>0, <1>3
<1>4. ASSUME NEW r \in Rank, ReduceWorkerStep(r), ~ProcessAndCount(r) PROVE ResultInv' /\ ResultRight
  <2>1. UNCHANGED <<processed, objects_processed>>
      BY <1>4, CountSteps
  <2>2. CASE EarlyStep(r) \/ LateStep(r) \/ AbortReduceLast(r)
    <3>1. UNCHANGED <<reduce_outstanding, reduce_buf, reduces, since, delivered>>
        BY <2>2 DEF EarlyStep, Early, LateStep, Late, ReducedOnly, AbortReduceLast,
           reduceVars
    <3>. QED
        BY <1>1, <1>3, <2>1, <3>1
  <2>3. CASE ReduceSync(r)
    <3>1. CIRCLE_reduce_sync(r) /\ UNCHANGED phase
        BY <2>3 DEF ReduceSync, vars, workerVars, workVars
    <3>2. UNCHANGED delivered
        BY <3>1 DEF CIRCLE_reduce_sync
    <3>3. ResultInv'
        BY <2>1, <3>1, ResultSynced
    <3>. QED
        BY <3>2, <3>3 DEF ResultRight
  <2>4. CASE ReduceCheck(r)
    <3>1. StartReduce(r) \/ RefuseReduce(r) \/ GatherReduce(r)
        BY <2>4 DEF ReduceCheck
    <3>2. CASE StartReduce(r)
      <4>1. ResultInv'
          BY <2>1, <3>2, ResultStarted
      <4>2. UNCHANGED delivered
          BY <3>2 DEF StartReduce
      <4>. QED
          BY <4>1, <4>2 DEF ResultRight
    <3>3. CASE RefuseReduce(r)
      <4>1. ResultInv'
          BY <2>1, <3>3, ResultRefused
      <4>2. UNCHANGED delivered
          BY <3>3 DEF RefuseReduce
      <4>. QED
          BY <4>1, <4>2 DEF ResultRight
    <3>4. CASE GatherReduce(r)
      <4>1. ~Past(r)
          BY <3>4 DEF GatherReduce, AtReduce, InLoop, InCleanup, Past
      <4>. QED
          BY <2>1, <3>4, <4>1, ResultGathered
    <3>. QED
        BY <3>1, <3>2, <3>3, <3>4
  <2>. QED
      BY <1>4, <2>2, <2>3, <2>4 DEF ReduceWorkerStep
<1>5. CASE AllDone \/ UNCHANGED allVars
  <2>1. UNCHANGED <<reduce_outstanding, reduce_buf, reduces, since, delivered, objects_processed>>
      BY <1>5 DEF AllDone, allVars, reduceVars
  <2>. QED
      BY <1>1, <1>3, <2>1
<1>. QED
    BY <1>2, <1>4, <1>5 DEF ReduceWorkerNext

(* What the invariant says before anything has happened.                   *)
LEMMA ResultInitially == ReduceWorkerInit => Counted /\ ResultInv
<1>. SUFFICES ASSUME ReduceWorkerInit PROVE Counted /\ ResultInv
    OBVIOUS
<1>1. /\ objects_processed = [r \in Rank |-> 0] /\ processed = {} /\ since = 0 /\ reduces = {}
      /\ reduce_outstanding = [r \in Rank |-> FALSE] /\ delivered.total = 0
      /\ reduce_buf = [r \in Rank |-> [valid |-> FALSE, count |-> 0, data |-> NoResult.data]]
    BY DEF ReduceWorkerInit, ReduceInit, Init, WorkerInit, WorkInit, NoResult
<1>2. PICK f : f = objects_processed
    OBVIOUS
<1>3. f \in [Rank -> Nat] /\ (\A q \in Rank : f[q] = 0) /\ IsFiniteSet(Rank)
    BY <1>1, <1>2, RankFacts
<1>4. Total(f) = 0
    BY <1>3, ZeroTotal
<1>5. Counted
    BY <1>1, <1>2, <1>3, <1>4, FS_EmptySet DEF Counted
<1>6. \A q \in Rank : ~reduce_outstanding[q] /\ Answers(q) = {} /\ ~Announced(q)
    BY <1>1 DEF Answers, Announced
<1>7. \A q \in Rank : Covered(q) = {} /\ ~Unspoilt(q)
    BY <1>6 DEF Covered, Unspoilt
<1>8. Shares
    BY <1>6, <1>7 DEF Shares
<1>9. Shaped
    BY <1>1 DEF Shaped
<1>10. AtStart(f) /\ Bounds(f)
    BY <1>1, <1>2, <1>3, <1>4, <1>6 DEF AtStart, Bounds
<1>11. Deliveries
    BY <1>1, FS_EmptySet DEF Deliveries
<1>. QED
    BY <1>5, <1>8, <1>9, <1>10, <1>11 DEF ResultInv

(* A result of a background round that reaches the user has the data of    *)
(* every rank once, and counts at least the items processed when the root  *)
(* started the round, at most those processed when it ended, and no fewer  *)
(* than the result before: for any number of ranks and rounds, any tree,   *)
(* and whatever the ranks process while the round is under way.            *)
THEOREM ResultExactHolds == ReduceWorkerSpec => ResultExact
<1>1. ReduceWorkerInit => Counted /\ ResultInv
    BY ResultInitially
<1>2. WorkerInv /\ Counted /\ [ReduceWorkerNext]_allVars => Counted'
    BY CountedStep
<1>3. /\ TypeOK /\ WorkerInv /\ WorkerInv' /\ RoundInv /\ RoundInv' /\ Counted /\ Counted'
      /\ ResultInv /\ [ReduceWorkerNext]_allVars
      => ResultInv' /\ ResultRight
    BY ResultStep
<1>4. ReduceWorkerSpec => []TypeOK
    BY ReduceImplementsTree, TypeCorrect, PTL
<1>5. ResultRight => [delivered' # delivered =>
                          /\ \A q \in Rank : delivered'.data[q] = 1
                          /\ since <= delivered'.total
                          /\ delivered'.total <= Cardinality(processed)
                          /\ delivered.total <= delivered'.total]_allVars
    BY DEF ResultRight
<1>. QED
    BY <1>1, <1>2, <1>3, <1>4, <1>5, RoundInvHolds, PTL DEF ReduceWorkerSpec, ResultExact
=============================================================================
