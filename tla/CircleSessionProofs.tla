------------------------ MODULE CircleSessionProofs -------------------------
(***************************************************************************)
(* Proofs about an application that calls CIRCLE_begin again: whatever the *)
(* calls and restarts, and however the calls of different ranks overlap,   *)
(* no item gets lost.                                                      *)
(***************************************************************************)
EXTENDS CircleSessionInv, CircleTreeProofs

(* The variables that say where items are, are functions on the ranks.     *)
OnRanks(f) == f = [q \in Rank |-> f[q]]

SessionTypes ==
    /\ OnRanks(phase) /\ OnRanks(queue) /\ OnRanks(file)
    /\ OnRanks(ABORT_FLAG) /\ OnRanks(work_requested)

(* The item has been processed, is in a queue or on its way, or in the     *)
(* file of a rank that will be read when the job is started again.         *)
Present(i) ==
    \/ i \in processed
    \/ \E r \in Rank : i \in queue[r] \/ (Wrote(r) /\ i \in file[r])
    \/ \E m \in replies : i \in m.items

(* A rank that waits for work has none that CIRCLE_work_receive could      *)
(* overwrite, and a rank that has dumped its queue has none either: so the *)
(* next abort may replace a file, the items in it being elsewhere by then. *)
ItemsKept ==
    /\ \A r \in Rank : phase[r] # "exit" /\ work_requested[r] # None => queue[r] = {}
    /\ \A r \in Rank : Wrote(r) => queue[r] = {}
    /\ \A i \in created : Present(i)

KeptInv == SessionTypes /\ ItemsKept

(* A step of CIRCLE_worker before the abort reduction: the rank does not   *)
(* return with it, and it touches no other rank's queue.                   *)
OneRank(r) ==
    /\ \E ph \in Phase \ {"exit"} : phase' = [phase EXCEPT ![r] = ph]
    /\ \E a : ABORT_FLAG' = [ABORT_FLAG EXCEPT ![r] = a]
    /\ UNCHANGED file

(* Every such step is of this kind.                                        *)
LEMMA InnerSteps ==
    ASSUME SessionTypes, NEW r \in Rank, InnerStep(r) \/ Callback(r)
    PROVE  phase[r] \in {"loop", "cleanup"} /\ OneRank(r)
<1>0. phase = [phase EXCEPT ![r] = phase[r]] /\ ABORT_FLAG = [ABORT_FLAG EXCEPT ![r] = ABORT_FLAG[r]]
    BY DEF SessionTypes, OnRanks
<1>1. UNCHANGED file
    BY DEF InnerStep, Callback, sessionVars
<1>2. CASE WorkReq(r) \/ WorkReceipt(r) \/ RequestWork(r) \/ ProcessItem(r)
  <2>1. /\ phase' = phase /\ phase[r] \in {"loop", "cleanup"}
        /\ \E a : ABORT_FLAG' = [ABORT_FLAG EXCEPT ![r] = a]
      BY <1>0, <1>2 DEF WorkReq, Serve, WorkReceipt, CountReceipts, RequestWork, Ask, ProcessItem,
         Work, CIRCLE_workreq_check, CIRCLE_workreceipt_check, SendRequest, ReceiveReply, Process,
         InLoop, InCleanup
  <2>. QED
      BY <1>0, <1>1, <2>1 DEF OneRank, Phase
<1>3. CASE AbortCheck(r) \/ AbortReplies(r)
  <2>1. /\ phase' = [phase EXCEPT ![r] = phase[r]] /\ phase[r] \in {"loop", "cleanup"}
        /\ \E a : ABORT_FLAG' = [ABORT_FLAG EXCEPT ![r] = a]
      BY <1>0, <1>3 DEF AbortCheck, Flood, AbortReplies, FloodEnds, CIRCLE_abort_check, AbortTest,
         GoTo, InLoop, InCleanup
  <2>. QED
      BY <1>1, <2>1 DEF OneRank, Phase
<1>4. CASE TermCheck(r) \/ LoopAgain(r) \/ CleanupIteration(r)
  <2>1. Turn(r)
      BY <1>4, TermTurns
  <2>2. /\ phase[r] \in {"loop", "cleanup"} /\ ABORT_FLAG' = ABORT_FLAG
        /\ \E ph \in {"loop", "cleanup"} : phase' = [phase EXCEPT ![r] = ph]
      BY <2>1 DEF Turn, GoTo
  <2>. QED
      BY <1>0, <1>1, <2>2 DEF OneRank, Phase
<1>5. CASE BarrierStart(r) \/ BarrierTest(r)
  <2>1. /\ phase[r] = "cleanup" /\ ABORT_FLAG' = ABORT_FLAG
        /\ \E ph \in {"cleanup", "reduce"} : phase' = [phase EXCEPT ![r] = ph]
      BY <1>5 DEF BarrierStart, EnterBarrier, CIRCLE_barrier_start, BarrierTest, TestBarrier,
         BarrierGather, BarrierResult, BarrierWait, BarrierSendUp, BarrierComplete, GoTo, InCleanup
  <2>. QED
      BY <1>0, <1>1, <2>1 DEF OneRank, Phase
<1>. QED
    BY <1>2, <1>3, <1>4, <1>5 DEF InnerStep, Callback

(* It writes no file.                                                      *)
LEMMA OneRankFacts ==
    ASSUME SessionTypes, NEW r \in Rank, phase[r] # "exit", OneRank(r)
    PROVE  /\ \A q \in Rank : (Wrote(q)' <=> Wrote(q)) /\ (phase'[q] = "exit" <=> phase[q] = "exit")
           /\ OnRanks(phase)' /\ OnRanks(file)' /\ OnRanks(ABORT_FLAG)'
<1>1. \A q \in Rank : q # r => phase'[q] = phase[q] /\ ABORT_FLAG'[q] = ABORT_FLAG[q]
    BY DEF SessionTypes, OnRanks, OneRank
<1>2. phase'[r] # "exit" /\ OnRanks(phase)' /\ OnRanks(file)' /\ OnRanks(ABORT_FLAG)'
    BY DEF SessionTypes, OnRanks, OneRank
<1>. QED
    BY <1>1, <1>2 DEF Wrote

(* What these steps do to the items: nothing, or an item is processed and  *)
(* others are new, or some go from the queue into replies, or a reply goes *)
(* into an empty queue.                                                    *)
LEMMA InnerItems ==
    ASSUME KeptInv, NEW r \in Rank, InnerStep(r) \/ Callback(r)
    PROVE  \/ /\ UNCHANGED <<queue, created, processed>> /\ replies \subseteq replies'
              /\ work_requested' = work_requested
                 \/ (queue[r] = {} /\ \E d : work_requested' = [work_requested EXCEPT ![r] = d])
           \/ \E out : /\ queue' = [queue EXCEPT ![r] = @ \ out]
                       /\ replies \subseteq replies'
                       /\ \A i \in out : \E m \in replies' : i \in m.items
                       /\ UNCHANGED <<created, processed, work_requested>>
           \/ \E m \in replies : /\ replies' = replies \ {m}
                                 /\ queue' = [queue EXCEPT ![r] = IF m.items = {} THEN @ ELSE m.items]
                                 /\ work_requested' = [work_requested EXCEPT ![r] = None]
                                 /\ work_requested[r] # None
                                 /\ UNCHANGED <<created, processed>>
           \/ \E i \in queue[r] : \E new :
              /\ queue' = [queue EXCEPT ![r] = (@ \ {i}) \cup new]
              /\ created' = created \cup new
              /\ processed' = processed \cup {i}
              /\ UNCHANGED <<work_requested, replies>>
<1>1. CASE WorkReq(r)
  <2>1. PICK S \in SUBSET Requestors(r) : Refuse(r, S) \/ Share(r, S)
      BY <1>1 DEF WorkReq, Serve, CIRCLE_workreq_check
  <2>2. UNCHANGED <<created, processed, work_requested>>
      BY <1>1 DEF WorkReq, Serve, CIRCLE_workreq_check
  <2>3. CASE Refuse(r, S)
      BY <2>2, <2>3 DEF Refuse
  <2>4. CASE Share(r, S)
    <3>1. PICK g \in send_work_to_many(queue[r], S) :
              /\ replies' = replies \cup
                    {[src |-> r, dst |-> s, items |-> g[s], abort |-> FALSE] : s \in S}
              /\ queue' = [queue EXCEPT ![r] = @ \ UNION {g[s] : s \in S}]
        BY <2>4 DEF Share
    <3>2. \A i \in UNION {g[s] : s \in S} : \E m \in replies' : i \in m.items
      <4>. SUFFICES ASSUME NEW s \in S, NEW i \in g[s] PROVE \E m \in replies' : i \in m.items
          OBVIOUS
      <4>1. [src |-> r, dst |-> s, items |-> g[s], abort |-> FALSE] \in replies'
          BY <3>1
      <4>. QED
          BY <4>1
    <3>. QED
        BY <2>2, <3>1, <3>2
  <2>. QED
      BY <2>1, <2>3, <2>4
<1>2. CASE WorkReceipt(r)
    BY <1>2 DEF WorkReceipt, CountReceipts, CIRCLE_workreceipt_check
<1>3. CASE RequestWork(r)
  <2>1. CASE SendRequest(r)
      BY <2>1 DEF SendRequest
  <2>2. CASE ReceiveReply(r)
      BY <2>2 DEF ReceiveReply
  <2>. QED
      BY <1>3, <2>1, <2>2 DEF RequestWork, Ask
<1>4. CASE AbortCheck(r) \/ AbortReplies(r)
    BY <1>4 DEF AbortCheck, Flood, AbortReplies, FloodEnds, CIRCLE_abort_check, AbortTest, GoTo
<1>5. CASE TermCheck(r) \/ LoopAgain(r) \/ CleanupIteration(r)
  <2>1. Turn(r)
      BY <1>5, TermTurns
  <2>. QED
      BY <2>1 DEF Turn, GoTo
<1>6. CASE BarrierStart(r) \/ BarrierTest(r)
    BY <1>6 DEF BarrierStart, EnterBarrier, CIRCLE_barrier_start, BarrierTest, TestBarrier,
       BarrierGather, BarrierResult, BarrierWait, BarrierSendUp, BarrierComplete, GoTo
<1>7. CASE ProcessItem(r)
    BY <1>7 DEF ProcessItem, Work, Process
<1>. QED
    BY <1>1, <1>2, <1>3, <1>4, <1>5, <1>6, <1>7 DEF InnerStep, Callback

(* They lose no item.                                                      *)
LEMMA InnerKeeps ==
    ASSUME KeptInv, NEW r \in Rank, InnerStep(r) \/ Callback(r)
    PROVE  KeptInv'
<1>0. /\ SessionTypes /\ OnRanks(queue) /\ OnRanks(work_requested)
      /\ phase[r] # "exit" /\ UNCHANGED file
      /\ \A q \in Rank : phase[q] # "exit" /\ work_requested[q] # None => queue[q] = {}
      /\ \A q \in Rank : Wrote(q) => queue[q] = {}
      /\ \A i \in created : Present(i)
    BY InnerSteps DEF KeptInv, ItemsKept, SessionTypes, OneRank
<1>1. /\ \A q \in Rank : (Wrote(q)' <=> Wrote(q)) /\ (phase'[q] = "exit" <=> phase[q] = "exit")
      /\ OnRanks(phase)' /\ OnRanks(file)' /\ OnRanks(ABORT_FLAG)'
    BY <1>0, InnerSteps, OneRankFacts
<1>2. ~Wrote(r)
    BY <1>0 DEF Wrote
<1>3. ASSUME OnRanks(queue)', OnRanks(work_requested)',
             \A q \in Rank : q # r => queue'[q] = queue[q] /\ work_requested'[q] = work_requested[q],
             work_requested'[r] # None => queue'[r] = {},
             \A i \in created' : Present(i)'
      PROVE  KeptInv'
  <2>1. \A q \in Rank : phase'[q] # "exit" /\ work_requested'[q] # None => queue'[q] = {}
      BY <1>0, <1>1, <1>3
  <2>2. \A q \in Rank : Wrote(q)' => queue'[q] = {}
      BY <1>0, <1>1, <1>2, <1>3
  <2>. QED
      BY <1>1, <1>3, <2>1, <2>2 DEF KeptInv, ItemsKept, SessionTypes
<1>4. ASSUME NEW i, Present(i), processed \subseteq processed',
             \A q \in Rank : q # r => queue'[q] = queue[q],
             i \in queue[r] => Present(i)',
             \A m \in replies : i \in m.items => Present(i)'
      PROVE  Present(i)'
    BY <1>0, <1>1, <1>4 DEF Present
<1>5. CASE /\ UNCHANGED <<queue, created, processed>> /\ replies \subseteq replies'
           /\ work_requested' = work_requested
              \/ (queue[r] = {} /\ \E d : work_requested' = [work_requested EXCEPT ![r] = d])
  <2>1. OnRanks(work_requested)' /\ \A q \in Rank : q # r => work_requested'[q] = work_requested[q]
      BY <1>0, <1>5 DEF OnRanks
  <2>2. work_requested'[r] # None => queue'[r] = {}
      BY <1>0, <1>5
  <2>3. \A i \in created' : Present(i)'
      BY <1>0, <1>4, <1>5 DEF Present
  <2>4. OnRanks(queue)'
      BY <1>0, <1>5 DEF OnRanks
  <2>. QED
      BY <1>3, <1>5, <2>1, <2>2, <2>3, <2>4
<1>6. ASSUME NEW out, queue' = [queue EXCEPT ![r] = @ \ out], replies \subseteq replies',
             \A i \in out : \E m \in replies' : i \in m.items,
             UNCHANGED <<created, processed, work_requested>>
      PROVE  KeptInv'
  <2>1. /\ OnRanks(queue)' /\ queue'[r] = queue[r] \ out
        /\ \A q \in Rank : q # r => queue'[q] = queue[q]
      BY <1>0, <1>6 DEF OnRanks
  <2>2. OnRanks(work_requested)'
      BY <1>0, <1>6 DEF OnRanks
  <2>3. \A i \in created' : Present(i)'
    <3>. SUFFICES ASSUME NEW i \in created PROVE Present(i)'
        BY <1>6
    <3>1. i \in queue[r] => Present(i)'
        BY <1>6, <2>1 DEF Present
    <3>2. \A m \in replies : i \in m.items => Present(i)'
        BY <1>6 DEF Present
    <3>. QED
        BY <1>0, <1>4, <1>6, <2>1, <3>1, <3>2
  <2>4. work_requested'[r] # None => queue'[r] = {}
      BY <1>0, <1>6, <2>1
  <2>. QED
      BY <1>3, <1>6, <2>1, <2>2, <2>3, <2>4
<1>7. ASSUME NEW m \in replies, replies' = replies \ {m},
             queue' = [queue EXCEPT ![r] = IF m.items = {} THEN @ ELSE m.items],
             work_requested' = [work_requested EXCEPT ![r] = None], work_requested[r] # None,
             UNCHANGED <<created, processed>>
      PROVE  KeptInv'
  <2>1. /\ OnRanks(queue)' /\ queue'[r] = m.items
        /\ \A q \in Rank : q # r => queue'[q] = queue[q]
      BY <1>0, <1>7 DEF OnRanks
  <2>2. /\ OnRanks(work_requested)' /\ work_requested'[r] = None
        /\ \A q \in Rank : q # r => work_requested'[q] = work_requested[q]
      BY <1>0, <1>7 DEF OnRanks
  <2>3. \A i \in created' : Present(i)'
    <3>. SUFFICES ASSUME NEW i \in created PROVE Present(i)'
        BY <1>7
    <3>1. i \notin queue[r]
        BY <1>0, <1>7
    <3>2. \A n \in replies : i \in n.items => Present(i)'
        BY <1>7, <2>1 DEF Present
    <3>. QED
        BY <1>0, <1>4, <1>7, <2>1, <3>1, <3>2
  <2>. QED
      BY <1>3, <2>1, <2>2, <2>3
<1>8. ASSUME NEW j \in queue[r], NEW new, queue' = [queue EXCEPT ![r] = (@ \ {j}) \cup new],
             created' = created \cup new, processed' = processed \cup {j},
             UNCHANGED <<work_requested, replies>>
      PROVE  KeptInv'
  <2>1. /\ OnRanks(queue)' /\ queue'[r] = (queue[r] \ {j}) \cup new
        /\ \A q \in Rank : q # r => queue'[q] = queue[q]
      BY <1>0, <1>8 DEF OnRanks
  <2>2. OnRanks(work_requested)' /\ work_requested'[r] = None
      BY <1>0, <1>8 DEF OnRanks
  <2>3. \A i \in created' : Present(i)'
    <3>1. \A i \in new : Present(i)'
        BY <2>1 DEF Present
    <3>2. ASSUME NEW i \in created PROVE Present(i)'
      <4>1. i \in queue[r] => Present(i)'
          BY <1>8, <2>1 DEF Present
      <4>2. \A n \in replies : i \in n.items => Present(i)'
          BY <1>8 DEF Present
      <4>. QED
          BY <1>0, <1>4, <1>8, <2>1, <4>1, <4>2
    <3>. QED
        BY <1>8, <3>1, <3>2
  <2>. QED
      BY <1>3, <1>8, <2>1, <2>2, <2>3
<1>. QED
    BY <1>5, <1>6, <1>7, <1>8, InnerItems

(* A rank that returns aborted has written its queue to its file.  What    *)
(* the file held before is elsewhere: the rank has not just come out of    *)
(* an abort.                                                               *)
LEMMA ReturnKeeps ==
    ASSUME KeptInv, NEW r \in Rank, Return(r)
    PROVE  KeptInv'
<1>0. /\ SessionTypes
      /\ OnRanks(phase) /\ OnRanks(queue) /\ OnRanks(file) /\ OnRanks(ABORT_FLAG) /\ OnRanks(work_requested)
      /\ \A q \in Rank : phase[q] # "exit" /\ work_requested[q] # None => queue[q] = {}
      /\ \A q \in Rank : Wrote(q) => queue[q] = {}
      /\ \A i \in created : Present(i)
    BY DEF KeptInv, ItemsKept, SessionTypes
<1>1. /\ file' = [file EXCEPT ![r] = IF phase'[r] = "exit" /\ ABORT_FLAG'[r] THEN Dump(r) ELSE @]
      /\ AbortReduceUp(r) \/ AbortReduceDown(r)
    BY DEF Return, AbortReduce, Vote
<1>2. phase[r] # "exit" /\ ~Wrote(r)
    BY <1>1 DEF AbortReduceUp, AbortReduceDown, Wrote
<1>3. CASE GoTo(r, "await", 1) /\ UNCHANGED ABORT_FLAG
  <2>1. /\ UNCHANGED <<queue, created, processed, work_requested, replies>>
        /\ phase' = [phase EXCEPT ![r] = "await"]
      BY <1>3 DEF GoTo
  <2>2. /\ OnRanks(phase)' /\ phase'[r] = "await" /\ \A q \in Rank : q # r => phase'[q] = phase[q]
      BY <1>0, <2>1 DEF OnRanks
  <2>3. UNCHANGED file
      BY <1>0, <1>1, <2>2 DEF OnRanks
  <2>4. \A q \in Rank : (Wrote(q)' <=> Wrote(q)) /\ (phase'[q] = "exit" <=> phase[q] = "exit")
      BY <1>2, <1>3, <2>2 DEF Wrote
  <2>5. SessionTypes'
      BY <1>0, <1>3, <2>1, <2>2, <2>3 DEF SessionTypes, OnRanks
  <2>6. ItemsKept'
      BY <1>0, <2>1, <2>3, <2>4 DEF ItemsKept, Present
  <2>. QED
      BY <2>5, <2>6 DEF KeptInv
<1>4. ASSUME NEW flag, NEW rest, Finish(r, flag, rest) PROVE KeptInv'
  <2>1. /\ UNCHANGED <<created, processed, work_requested, replies>>
        /\ phase' = [phase EXCEPT ![r] = "exit"]
        /\ ABORT_FLAG' = [ABORT_FLAG EXCEPT ![r] = flag]
        /\ queue' = [queue EXCEPT ![r] = IF flag THEN {} ELSE @]
      BY <1>4 DEF Finish
  <2>2. /\ phase'[r] = "exit" /\ ABORT_FLAG'[r] = flag
        /\ queue'[r] = (IF flag THEN {} ELSE queue[r])
        /\ \A q \in Rank : q # r => /\ phase'[q] = phase[q] /\ ABORT_FLAG'[q] = ABORT_FLAG[q]
                                    /\ queue'[q] = queue[q] /\ file'[q] = file[q]
      BY <1>0, <1>1, <2>1 DEF OnRanks
  <2>3. file'[r] = IF flag THEN Dump(r) ELSE file[r]
      BY <1>0, <1>1, <2>2 DEF OnRanks
  <2>4. SessionTypes'
      BY <1>0, <1>1, <2>1 DEF SessionTypes, OnRanks
  <2>5. (Wrote(r)' <=> flag) /\ \A q \in Rank : q # r => (Wrote(q)' <=> Wrote(q))
      BY <2>2 DEF Wrote
  <2>6. /\ \A q \in Rank : phase'[q] # "exit" /\ work_requested'[q] # None => queue'[q] = {}
        /\ \A q \in Rank : Wrote(q)' => queue'[q] = {}
      BY <1>0, <2>1, <2>2, <2>5
  <2>7. ASSUME NEW i \in created PROVE Present(i)'
    <3>1. CASE i \in queue[r]
      <4>1. CASE flag
        <5>1. i \in file'[r] /\ Wrote(r)'
            BY <2>3, <2>5, <3>1, <4>1 DEF Dump
        <5>. QED
            BY <5>1 DEF Present
      <4>2. CASE ~flag
        <5>1. i \in queue'[r]
            BY <2>2, <3>1, <4>2
        <5>. QED
            BY <5>1 DEF Present
      <4>. QED
          BY <4>1, <4>2
    <3>2. CASE i \notin queue[r]
      <4>1. \/ i \in processed \/ (\E m \in replies : i \in m.items)
            \/ \E q \in Rank : q # r /\ (i \in queue[q] \/ (Wrote(q) /\ i \in file[q]))
          BY <1>0, <1>2, <3>2 DEF Present
      <4>. QED
          BY <2>1, <2>2, <2>5, <4>1 DEF Present
    <3>. QED
        BY <3>1, <3>2
  <2>. QED
      BY <2>1, <2>4, <2>6, <2>7 DEF KeptInv, ItemsKept
<1>5. \/ GoTo(r, "await", 1) /\ UNCHANGED ABORT_FLAG
      \/ \E flag, rest : Finish(r, flag, rest)
    BY <1>1 DEF AbortReduceUp, AbortReduceDown
<1>. QED
    BY <1>3, <1>4, <1>5

(* A rank that calls CIRCLE_begin again keeps what is in its queue.  After *)
(* an abort it would start with an empty one: its items are only in the    *)
(* file, which the next abort may write over.                              *)
LEMMA BeginKeeps ==
    ASSUME KeptInv, ~Reuse, NEW r \in Rank, CIRCLE_begin(r)
    PROVE  KeptInv'
<1>0. /\ SessionTypes
      /\ OnRanks(phase) /\ OnRanks(queue) /\ OnRanks(file) /\ OnRanks(ABORT_FLAG) /\ OnRanks(work_requested)
      /\ \A q \in Rank : phase[q] # "exit" /\ work_requested[q] # None => queue[q] = {}
      /\ \A q \in Rank : Wrote(q) => queue[q] = {}
      /\ \A i \in created : Present(i)
    BY DEF KeptInv, ItemsKept, SessionTypes
<1>1. /\ ~Wrote(r) /\ phase' = [phase EXCEPT ![r] = "loop"] /\ UNCHANGED <<replies, file>>
      /\ work_requested' = [work_requested EXCEPT ![r] = None]
    BY DEF CIRCLE_begin, init_local_state, Wrote
<1>2. PICK new, done, a :
          /\ queue' = [queue EXCEPT ![r] = (@ \ done) \cup new]
          /\ created' = created \cup new
          /\ processed' = processed \cup done
          /\ ABORT_FLAG' = [ABORT_FLAG EXCEPT ![r] = @ \/ a]
    BY DEF CIRCLE_begin
<1>3. /\ phase'[r] = "loop" /\ work_requested'[r] = None /\ queue'[r] = (queue[r] \ done) \cup new
      /\ \A q \in Rank : q # r => /\ phase'[q] = phase[q] /\ ABORT_FLAG'[q] = ABORT_FLAG[q]
                                  /\ queue'[q] = queue[q] /\ work_requested'[q] = work_requested[q]
    BY <1>0, <1>1, <1>2 DEF OnRanks
<1>4. SessionTypes'
    BY <1>0, <1>1, <1>2 DEF SessionTypes, OnRanks
<1>5. ~Wrote(r)' /\ \A q \in Rank : q # r => (Wrote(q)' <=> Wrote(q))
    BY <1>3 DEF Wrote
<1>6. /\ \A q \in Rank : phase'[q] # "exit" /\ work_requested'[q] # None => queue'[q] = {}
      /\ \A q \in Rank : Wrote(q)' => queue'[q] = {}
    BY <1>0, <1>3, <1>5
<1>7. \A i \in new : Present(i)'
    BY <1>3 DEF Present
<1>8. ASSUME NEW i \in created PROVE Present(i)'
  <2>1. \/ i \in processed \/ i \in queue[r] \/ (\E m \in replies : i \in m.items)
        \/ \E q \in Rank : q # r /\ (i \in queue[q] \/ (Wrote(q) /\ i \in file[q]))
      BY <1>0, <1>1 DEF Present
  <2>. QED
      BY <1>1, <1>2, <1>3, <1>5, <2>1 DEF Present
<1>. QED
    BY <1>2, <1>4, <1>6, <1>7, <1>8 DEF KeptInv, ItemsKept

(* A new job has in its queues what the old one has left in its files.     *)
LEMMA NewJobKeeps ==
    ASSUME KeptInv, NewJob
    PROVE  KeptInv'
<1>0. /\ SessionTypes
      /\ \A q \in Rank : Wrote(q) => queue[q] = {}
      /\ \A i \in created : Present(i)
    BY DEF KeptInv, ItemsKept
<1>1. /\ queue' = file /\ ABORT_FLAG' = [q \in Rank |-> FALSE]
      /\ UNCHANGED <<phase, created, processed, work_requested, replies, file>>
      /\ \A q \in Rank : phase[q] = "exit" /\ ABORT_FLAG[q]
    BY DEF NewJob, Returned, sessionVars
<1>2. SessionTypes'
    BY <1>0, <1>1 DEF SessionTypes, OnRanks
<1>3. \A q \in Rank : Wrote(q) /\ ~Wrote(q)' /\ phase'[q] = "exit" /\ queue'[q] = file[q]
    BY <1>1 DEF Wrote
<1>4. ASSUME NEW i \in created PROVE Present(i)'
  <2>1. i \in processed \/ (\E q \in Rank : i \in file[q]) \/ \E m \in replies : i \in m.items
      BY <1>0, <1>3 DEF Present
  <2>. QED
      BY <1>1, <2>1 DEF Present
<1>. QED
    BY <1>1, <1>2, <1>3, <1>4 DEF KeptInv, ItemsKept

(* Nothing is missing in the first call, before any step.                  *)
LEMMA KeptInit == SessionInit => KeptInv
<1>. SUFFICES ASSUME SessionInit PROVE KeptInv
    OBVIOUS
<1>1. SessionTypes
    BY DEF SessionInit, Init, WorkerInit, WorkInit, SessionTypes, OnRanks
<1>2. \A r \in Rank : phase[r] = "loop" /\ work_requested[r] = None
    BY DEF SessionInit, Init, WorkerInit, WorkInit
<1>3. created = UNION {queue[r] : r \in Rank}
    BY DEF SessionInit, Init, WorkerInit, WorkInit
<1>4. ItemsKept
    BY <1>2, <1>3 DEF ItemsKept, Wrote, Present
<1>. QED
    BY <1>1, <1>4 DEF KeptInv

(* No step loses an item.                                                  *)
LEMMA KeptStep ==
    ASSUME ~Reuse
    PROVE  KeptInv /\ [SessionNext]_allVars => KeptInv'
<1>. SUFFICES ASSUME KeptInv, [SessionNext]_allVars PROVE KeptInv'
    OBVIOUS
<1>1. CASE UNCHANGED allVars
  <2>1. UNCHANGED <<phase, queue, created, processed, ABORT_FLAG, work_requested, replies, file>>
      BY <1>1 DEF allVars, vars, workerVars, workVars, sessionVars
  <2>. QED
      BY <2>1 DEF KeptInv, SessionTypes, OnRanks, ItemsKept, Wrote, Present
<1>2. ASSUME NEW r \in Rank, SessionStep(r) PROVE KeptInv'
    BY <1>2, InnerKeeps, ReturnKeeps, BeginKeeps DEF SessionStep
<1>. QED
    BY <1>1, <1>2, NewJobKeeps DEF SessionNext, Finished

(* No item is lost for good, through any number of calls of CIRCLE_begin,  *)
(* aborts and restarts, for any number of ranks, each of which may be      *)
(* ahead of the others; provided that no rank calls CIRCLE_begin again in  *)
(* a process whose last call was aborted.                                  *)
THEOREM NeverLostHolds ==
    ASSUME ~Reuse
    PROVE  SessionSpec => []NeverLost
<1>1. KeptInv => NeverLost
    BY DEF KeptInv, ItemsKept, Present, NeverLost
<1>. QED
    BY <1>1, KeptInit, KeptStep, PTL DEF SessionSpec

-----------------------------------------------------------------------------
(* The calls of CIRCLE_begin do not interfere.                             *)

(* Between its calls a rank runs the steps of the worker.                  *)
LEMMA CallSteps ==
    ASSUME NEW r \in Rank, InnerStep(r) \/ Callback(r) \/ Return(r)
    PROVE  [Next]_vars /\ [WorkerNext]_workerVars /\ UNCHANGED session
<1>1. Next
    BY DEF InnerStep, Callback, Return, Next, Step
<1>2. UNCHANGED session
    BY DEF InnerStep, Callback, Return, sessionVars
<1>. QED
    BY <1>1, <1>2, TreeStepWorks

(* Once a round has yielded TRUE there is no other: no flag is sent, no    *)
(* receipt is left that could clear one, and only TRUE is passed on.       *)
LEMMA LastRoundKept ==
    ASSUME TypeOK, ReceiptsBalance, TermRounds, Quiet, [Next]_vars,
           \A m \in terms : m.flag,
           \A q \in Rank : term_flag[q] /\ (phase[q] = "loop" => sense[q] # sense[0])
    PROVE  /\ \A m \in terms' : m.flag
           /\ \A q \in Rank : term_flag'[q] /\ (phase'[q] = "loop" => sense'[q] # sense'[0])
<1>. USE RankFacts
<1>0. \A q \in Rank : phase[q] = "loop" => term_up[q] /\ q # 0
    BY DEF TermRounds
<1>1. ASSUME NEW r \in Rank, WorkReceipt(r) PROVE FALSE
  <2>1. PICK n \in 1 .. receipts[r] : n <= work_outstanding[r]
      BY <1>1 DEF WorkReceipt, CountReceipts, CIRCLE_workreceipt_check
  <2>2. n \in Int /\ n >= 1 /\ work_outstanding[r] = 0
      BY DEF Quiet, Idle
  <2>. QED
      BY <2>1, <2>2
<1>2. ASSUME NEW r \in Rank, TermCheck(r)
      PROVE  \E m \in terms : /\ m.src = parent_rank(r) /\ m.dst = r
                              /\ TermComplete(r, m.flag, terms \ {m})
                              /\ term_flag' = term_flag
  <2>1. phase[r] = "loop"
      BY <1>2 DEF TermCheck, TermGather, TermResult, InLoop
  <2>2. term_up[r] /\ r # 0
      BY <1>0, <2>1
  <2>3. ASSUME NEW from \in SUBSET TermSources(r), TermCount(r, from) <= children(r), from # {}
        PROVE  FALSE
      BY <2>2, <2>3, GatherFacts
  <2>4. ASSUME NEW from \in SUBSET TermSources(r), TermReady(r, from) PROVE FALSE
      BY <2>2, <2>4 DEF TermReady
  <2>. QED
      BY <1>2, <2>2, <2>3, <2>4, TermCases
<1>3. ASSUME NEW r \in Rank, NEW m \in terms, m.src = parent_rank(r), m.dst = r,
             TermComplete(r, m.flag, terms \ {m}), term_flag' = term_flag
      PROVE  /\ \A n \in terms' : n.flag
             /\ \A q \in Rank : term_flag'[q] /\ (phase'[q] = "loop" => sense'[q] # sense'[0])
  <2>1. r # 0
      BY <1>3, ResultFacts
  <2>2. m.flag
      OBVIOUS
  <2>3. /\ terms' = (terms \ {m}) \cup {[src |-> r, dst |-> c, flag |-> m.flag] : c \in child_ranks(r)}
        /\ sense' = [sense EXCEPT ![r] = ~@]
        /\ phase' = [phase EXCEPT ![r] = "cleanup"]
      BY <1>3, <2>2 DEF TermComplete, GoTo
  <2>4. phase'[r] = "cleanup" /\ sense'[0] = sense[0]
      BY <2>1, <2>3 DEF TypeOK, WorkerTypes
  <2>5. \A q \in Rank : q # r => phase'[q] = phase[q] /\ sense'[q] = sense[q]
      BY <2>3 DEF TypeOK, WorkerTypes
  <2>6. \A n \in terms' : n.flag
      BY <2>2, <2>3
  <2>. QED
      BY <1>3, <2>4, <2>5, <2>6
<1>4. CASE ~\E r \in Rank : TermCheck(r)
  <2>1. UNCHANGED <<terms, sense>> /\ \A q \in Rank : (phase'[q] = "loop") <=> (phase[q] = "loop")
      BY <1>4, OnlyTermLeaves
  <2>2. UNCHANGED term_flag
      BY <1>1, <1>4 DEF Next, Step, WorkReq, Serve, AbortCheck, Flood, AbortReplies, FloodEnds,
         RequestWork, Ask, ProcessItem, Work, LoopAgain, BarrierStart, EnterBarrier, BarrierTest,
         TestBarrier, CleanupIteration, AbortReduce, Vote, Done, vars, workerVars, termVars
  <2>. QED
      BY <2>1, <2>2
<1>. QED
    BY <1>2, <1>3, <1>4

(* The first TRUE result is the root's, of a round that is not spoiled.    *)
LEMMA LastRoundStep ==
    ASSUME TypeOK, ReceiptsBalance, TermRounds, RoundSound, ResultSound, LastRound, [Next]_vars
    PROVE  LastRound'
<1>. USE RankFacts
<1>1. CASE (\E m \in terms : IsDown(m) /\ m.flag) \/ (\E r \in Rank : phase[r] # "loop")
  <2>1. Quiet
      BY <1>1 DEF ResultSound
  <2>2. /\ \A m \in terms : m.flag
        /\ \A q \in Rank : term_flag[q] /\ (phase[q] = "loop" => sense[q] # sense[0])
      BY <1>1 DEF LastRound
  <2>. QED
      BY <2>1, <2>2, LastRoundKept DEF LastRound
<1>2. CASE ~((\E m \in terms : IsDown(m) /\ m.flag) \/ (\E r \in Rank : phase[r] # "loop"))
  <2>1. \A m \in terms : ~(IsDown(m) /\ m.flag)
      BY <1>2
  <2>2. \A q \in Rank : phase[q] = "loop"
      BY <1>2
  <2>3. ASSUME \A m \in terms' : ~(IsDown(m) /\ m.flag), \A q \in Rank : phase'[q] = "loop"
        PROVE  LastRound'
      BY <2>3 DEF LastRound, IsDown
  <2>4. CASE ~\E r \in Rank : TermCheck(r)
    <3>1. UNCHANGED terms /\ \A q \in Rank : phase'[q] = "loop"
        BY <2>2, <2>4, OnlyTermLeaves
    <3>. QED
        BY <2>1, <2>3, <3>1
  <2>5. ASSUME NEW r \in Rank, NEW from \in SUBSET TermSources(r), TermWait(r, from) PROVE LastRound'
    <3>1. terms' \subseteq terms /\ phase' = [phase EXCEPT ![r] = "loop"]
        BY <2>5 DEF TermWait, GoTo
    <3>2. \A q \in Rank : phase'[q] = "loop"
        BY <2>2, <3>1 DEF TypeOK, WorkerTypes
    <3>. QED
        BY <2>1, <2>3, <3>1, <3>2
  <2>6. ASSUME NEW r \in Rank, NEW from \in SUBSET TermSources(r), r # 0, TermSendUp(r, from)
        PROVE  LastRound'
    <3>. DEFINE up == [src |-> r, dst |-> parent_rank(r), flag |-> TermFlag(r, from)]
    <3>1. terms' \subseteq terms \cup {up} /\ phase' = [phase EXCEPT ![r] = "loop"]
        BY <2>6 DEF TermSendUp, GoTo
    <3>2. \A q \in Rank : phase'[q] = "loop"
        BY <2>2, <3>1 DEF TypeOK, WorkerTypes
    <3>3. up.src = r /\ up.dst = parent_rank(r)
        OBVIOUS
    <3>4. ~IsDown(up)
      <4>1. parent_rank(r) # 0 => parent_rank(parent_rank(r)) # r
          BY <2>6, TreeFacts
      <4>2. IsDown(up) => parent_rank(r) # 0 /\ r = parent_rank(parent_rank(r))
          BY <3>3, Zenon DEF IsDown
      <4>. QED
          BY <4>1, <4>2
    <3>. HIDE DEF up
    <3>5. \A m \in terms' : ~(IsDown(m) /\ m.flag)
        BY <2>1, <3>1, <3>4
    <3>. QED
        BY <2>3, <3>2, <3>5
  <2>7. ASSUME NEW from \in SUBSET TermSources(0), TermReady(0, from), TermDecide(0, from)
        PROVE  LastRound'
    <3>1. /\ \A q \in Rank : q # 0 => term_up[q] /\ sense[q] = sense[0]
          /\ terms = TermGot(0, from)
        BY <2>7, DecideFacts
    <3>2. /\ terms' = {[src |-> 0, dst |-> c, flag |-> TermFlag(0, from)] : c \in child_ranks(0)}
          /\ term_flag' = [term_flag EXCEPT ![0] = TRUE]
          /\ sense' = [sense EXCEPT ![0] = ~@]
          /\ phase' = [phase EXCEPT ![0] = IF TermFlag(0, from) THEN "cleanup" ELSE "loop"]
        BY <2>7, <3>1 DEF TermDecide, TermComplete, GoTo
    <3>3. \A m \in terms' : m.flag = TermFlag(0, from)
        BY <3>2
    <3>4. CASE ~TermFlag(0, from)
      <4>1. \A q \in Rank : phase'[q] = "loop"
          BY <2>2, <3>2, <3>4 DEF TypeOK, WorkerTypes
      <4>. QED
          BY <2>3, <3>3, <3>4, <4>1
    <3>5. CASE TermFlag(0, from)
      <4>1. term_flag[0] /\ work_outstanding[0] = 0 /\ \A m \in terms : m.flag
          BY <2>7, <3>1, <3>5 DEF TermFlag, TermReady
      <4>2. ~Spoiled
          BY <3>1, <4>1 DEF Spoiled, Contributed
      <4>3. \A q \in Rank : q # 0 => term_flag[q]
          BY <3>1, <4>2 DEF RoundSound, Contributed
      <4>4. \A q \in Rank : term_flag'[q]
          BY <3>2, <4>3 DEF TypeOK
      <4>5. \A q \in Rank : phase'[q] = "loop" => sense'[q] # sense'[0]
          BY <3>1, <3>2, <3>5 DEF TypeOK, WorkerTypes
      <4>. QED
          BY <3>3, <3>5, <4>4, <4>5 DEF LastRound
    <3>. QED
        BY <3>4, <3>5
  <2>8. ASSUME NEW r \in Rank, NEW m \in terms, m.src = parent_rank(r), m.dst = r,
               TermComplete(r, m.flag, terms \ {m})
        PROVE  LastRound'
    <3>1. IsDown(m)
        BY <2>8, ResultFacts
    <3>2. ~m.flag
        BY <2>1, <3>1
    <3>3. /\ terms' = (terms \ {m}) \cup {[src |-> r, dst |-> c, flag |-> m.flag] : c \in child_ranks(r)}
          /\ phase' = [phase EXCEPT ![r] = "loop"]
        BY <2>8, <3>2 DEF TermComplete, GoTo
    <3>4. \A q \in Rank : phase'[q] = "loop"
        BY <2>2, <3>3 DEF TypeOK, WorkerTypes
    <3>5. \A n \in terms' : ~(IsDown(n) /\ n.flag)
        BY <2>1, <3>2, <3>3
    <3>. QED
        BY <2>3, <3>4, <3>5
  <2>. QED
      BY <2>4, <2>5, <2>6, <2>7, <2>8, TermCases
<1>. QED
    BY <1>1, <1>2

(* A step in the work loop leaves the barrier, the abort reduction and the *)
(* state of the other ranks alone, and sends in the rank's own name.       *)
InLoopOnly(r) ==
    /\ UNCHANGED <<barrierVars, abort_reduces, checkpointed>>
    /\ \A q \in Rank : q # r =>
          /\ phase'[q] = phase[q] /\ ABORT_FLAG'[q] = ABORT_FLAG[q]
          /\ work_requested'[q] = work_requested[q]
          /\ work_outstanding'[q] = work_outstanding[q]
          /\ abort_outstanding'[q] = abort_outstanding[q]
          /\ term_flag'[q] = term_flag[q] /\ term_up'[q] = term_up[q]
          /\ term_replies'[q] = term_replies[q]
    /\ \A m \in replies' : m \in replies \/ m.src = r
    /\ \A m \in abort_replies' : m \in abort_replies \/ m[1] = r

(* Every step of a rank in the work loop is of this kind.                  *)
LEMMA LoopSteps ==
    ASSUME TypeOK, NEW r \in Rank, phase[r] = "loop", InnerStep(r) \/ Callback(r)
    PROVE  InLoopOnly(r)
<1>. USE DEF InLoopOnly
<1>0. /\ phase \in [Rank -> Phase] /\ ABORT_FLAG \in [Rank -> BOOLEAN]
      /\ work_requested \in [Rank -> Rank \cup {None}] /\ work_outstanding \in [Rank -> Nat]
      /\ abort_outstanding \in [Rank -> BOOLEAN]
      /\ term_flag \in [Rank -> BOOLEAN] /\ term_up \in [Rank -> BOOLEAN]
      /\ term_replies \in [Rank -> Nat]
    BY DEF TypeOK, WorkerTypes
<1>1. CASE WorkReq(r)
  <2>1. /\ UNCHANGED <<phase, ABORT_FLAG, work_requested, abortVars, barrierVars, termVars>>
        /\ \E S \in SUBSET Requestors(r) : Refuse(r, S) \/ Share(r, S)
      BY <1>1 DEF WorkReq, Serve, CIRCLE_workreq_check
  <2>2. /\ \A q \in Rank : q # r => work_outstanding'[q] = work_outstanding[q]
        /\ \A m \in replies' : m \in replies \/ m.src = r
    <3>1. ASSUME NEW S \in SUBSET Requestors(r), Refuse(r, S)
          PROVE  /\ \A q \in Rank : q # r => work_outstanding'[q] = work_outstanding[q]
                 /\ \A m \in replies' : m \in replies \/ m.src = r
        BY <3>1 DEF Refuse, no_work
    <3>2. ASSUME NEW S \in SUBSET Requestors(r), Share(r, S)
          PROVE  /\ \A q \in Rank : q # r => work_outstanding'[q] = work_outstanding[q]
                 /\ \A m \in replies' : m \in replies \/ m.src = r
        BY <1>0, <3>2 DEF Share
    <3>. QED
        BY <2>1, <3>1, <3>2
  <2>. QED
      BY <2>1, <2>2 DEF abortVars, termVars
<1>2. CASE WorkReceipt(r)
  <2>1. /\ UNCHANGED <<phase, ABORT_FLAG, work_requested, replies, abortVars, barrierVars>>
        /\ UNCHANGED <<term_up, term_replies>>
        /\ \E n : work_outstanding' = [work_outstanding EXCEPT ![r] = n]
        /\ term_flag' = [term_flag EXCEPT ![r] = FALSE]
      BY <1>2 DEF WorkReceipt, CountReceipts, CIRCLE_workreceipt_check, ForceRound
  <2>. QED
      BY <1>0, <2>1 DEF abortVars
<1>3. CASE RequestWork(r)
  <2>1. /\ UNCHANGED <<phase, work_outstanding, abortVars, barrierVars, termVars>>
        /\ replies' \subseteq replies
        /\ ABORT_FLAG' = ABORT_FLAG \/ \E a : ABORT_FLAG' = [ABORT_FLAG EXCEPT ![r] = a]
        /\ \E d : work_requested' = [work_requested EXCEPT ![r] = d]
      BY <1>3 DEF RequestWork, Ask, SendRequest, ReceiveReply
  <2>. QED
      BY <1>0, <2>1 DEF abortVars, termVars
<1>4. CASE ProcessItem(r)
  <2>1. /\ UNCHANGED <<phase, work_requested, work_outstanding, replies>>
        /\ UNCHANGED <<abortVars, barrierVars, termVars>>
        /\ \E a : ABORT_FLAG' = [ABORT_FLAG EXCEPT ![r] = a]
      BY <1>4 DEF ProcessItem, Work, Process
  <2>. QED
      BY <1>0, <2>1 DEF abortVars, termVars
<1>5. CASE AbortCheck(r) \/ AbortReplies(r)
  <2>1. /\ UNCHANGED <<work_requested, work_outstanding, replies, barrierVars, termVars>>
        /\ UNCHANGED <<abort_reduces, checkpointed>>
        /\ \E ph : phase' = [phase EXCEPT ![r] = ph]
        /\ ABORT_FLAG' = ABORT_FLAG \/ \E a : ABORT_FLAG' = [ABORT_FLAG EXCEPT ![r] = a]
        /\ \E a : abort_outstanding' = [abort_outstanding EXCEPT ![r] = a]
      BY <1>5 DEF AbortCheck, Flood, AbortReplies, FloodEnds, CIRCLE_abort_check, AbortTest, GoTo
  <2>2. \A m \in abort_replies' : m \in abort_replies \/ m[1] = r
    <3>1. CASE AbortCheck(r)
        BY <3>1 DEF AbortCheck, Flood, CIRCLE_abort_check
    <3>2. CASE AbortReplies(r)
        BY <3>2 DEF AbortReplies, FloodEnds, AbortTest
    <3>. QED
        BY <1>5, <3>1, <3>2
  <2>. QED
      BY <1>0, <2>1, <2>2 DEF termVars
<1>6. CASE TermCheck(r)
  <2>1. /\ UNCHANGED <<ABORT_FLAG, work_requested, work_outstanding, replies>>
        /\ UNCHANGED <<abortVars, barrierVars>>
        /\ \E ph : phase' = [phase EXCEPT ![r] = ph]
      BY <1>6, TermTurns DEF Turn, GoTo
  <2>2. /\ term_flag' = term_flag \/ \E a : term_flag' = [term_flag EXCEPT ![r] = a]
        /\ term_up' = term_up \/ \E a : term_up' = [term_up EXCEPT ![r] = a]
        /\ \E n : term_replies' = [term_replies EXCEPT ![r] = n]
      BY <1>6 DEF TermCheck, TermGather, TermResult, TermWait, TermSendUp, TermDecide, TermComplete
  <2>. QED
      BY <1>0, <2>1, <2>2 DEF abortVars
<1>7. CASE LoopAgain(r)
  <2>1. /\ UNCHANGED <<ABORT_FLAG, work_requested, work_outstanding, replies>>
        /\ UNCHANGED <<abortVars, barrierVars, termVars>>
        /\ phase' = [phase EXCEPT ![r] = "loop"]
      BY <1>7 DEF LoopAgain, GoTo
  <2>. QED
      BY <1>0, <2>1 DEF abortVars, termVars
<1>8. ASSUME BarrierStart(r) \/ BarrierTest(r) \/ CleanupIteration(r) PROVE FALSE
    BY <1>8 DEF BarrierStart, EnterBarrier, CIRCLE_barrier_start, BarrierTest, TestBarrier,
       BarrierGather, BarrierResult, CleanupIteration, CleanupAgain, InCleanup
<1>. QED
    BY <1>1, <1>2, <1>3, <1>4, <1>5, <1>6, <1>7, <1>8 DEF InnerStep, Callback

(* How far apart two ranks can be.                                         *)
LEMMA CallOrder ==
    ASSUME CallTypes, \A q, r \in Rank : session[q] <= session[r] + 1
    PROVE  /\ \A q, r \in Rank : Behind(q) /\ Behind(r) => session[q] = session[r]
           /\ \A q, r \in Rank : ~Behind(q) /\ ~Behind(r) => session[q] = session[r]
           /\ \A q, r \in Rank : Behind(q) /\ ~Behind(r) => session[r] = session[q] + 1
           /\ ~Together => (\E q \in Rank : Behind(q)) /\ (\E q \in Rank : ~Behind(q))
<1>0. \A q \in Rank : session[q] \in Nat
    BY DEF CallTypes
<1>1. \A q, r \in Rank : ~Behind(q) /\ ~Behind(r) => session[q] = session[r]
    BY <1>0 DEF Behind
<1>2. ASSUME NEW q \in Rank, Behind(q)
      PROVE  \E z \in Rank : session[z] = session[q] + 1 /\ ~Behind(z)
  <2>1. PICK z \in Rank : session[z] > session[q]
      BY <1>2 DEF Behind
  <2>2. session[z] = session[q] + 1
      BY <1>0, <2>1
  <2>3. \A w \in Rank : ~(session[w] > session[z])
      BY <1>0, <2>2
  <2>. QED
      BY <2>2, <2>3 DEF Behind
<1>3. \A q, r \in Rank : Behind(q) /\ ~Behind(r) => session[r] = session[q] + 1
    BY <1>0, <1>1, <1>2
<1>4. \A q, r \in Rank : Behind(q) /\ Behind(r) => session[q] = session[r]
  <2>. SUFFICES ASSUME NEW q \in Rank, NEW r \in Rank, Behind(q), Behind(r) PROVE session[q] = session[r]
      OBVIOUS
  <2>1. PICK z \in Rank : session[z] = session[q] + 1 /\ ~Behind(z)
      BY <1>2
  <2>2. session[z] = session[r] + 1
      BY <1>3, <2>1
  <2>. QED
      BY <1>0, <2>1, <2>2
<1>5. ~Together => (\E q \in Rank : Behind(q)) /\ (\E q \in Rank : ~Behind(q))
    BY <1>2 DEF Together
<1>. QED
    BY <1>1, <1>3, <1>4, <1>5

(* While a rank is behind, the others stay in the work loop: the root      *)
(* cannot decide without its flag, and no result is on its way.            *)
LEMMA NobodyLeaves ==
    ASSUME TypeOK, TermRounds, Young, ~Together, [Next]_vars
    PROVE  UNCHANGED sense /\ \A q \in Rank : (phase'[q] = "loop") <=> (phase[q] = "loop")
<1>. USE RankFacts
<1>0. PICK b \in Rank : Behind(b)
    BY DEF Together
<1>1. /\ \A q, r \in Rank : sense[q] = sense[r]
      /\ \A q \in Rank : Behind(q) => phase[q] # "loop" /\ ~term_up[q]
    BY DEF Young, Through
<1>2. CASE ~\E r \in Rank : TermCheck(r)
    BY <1>2, OnlyTermLeaves
<1>3. ASSUME NEW r \in Rank, TermCheck(r)
      PROVE  UNCHANGED sense /\ \A q \in Rank : (phase'[q] = "loop") <=> (phase[q] = "loop")
  <2>1. phase[r] = "loop"
      BY <1>3 DEF TermCheck, TermGather, TermResult, InLoop
  <2>2. b # r
      BY <1>0, <1>1, <2>1
  <2>3. ASSUME NEW from \in SUBSET TermSources(r), r = 0, TermReady(r, from) PROVE FALSE
      BY <1>0, <1>1, <2>2, <2>3, DecideFacts
  <2>4. ASSUME NEW m \in terms, m.src = parent_rank(r), m.dst = r PROVE FALSE
      BY <1>1, <2>4, ResultFacts
  <2>5. ASSUME NEW from, TermWait(r, from) \/ TermSendUp(r, from)
        PROVE  UNCHANGED sense /\ phase' = [phase EXCEPT ![r] = "loop"]
      BY <2>5 DEF TermWait, TermSendUp, GoTo
  <2>6. UNCHANGED sense /\ phase' = [phase EXCEPT ![r] = "loop"]
      BY <1>3, <2>3, <2>4, <2>5, TermCases
  <2>. QED
      BY <2>1, <2>6 DEF TypeOK, WorkerTypes
<1>. QED
    BY <1>2, <1>3

(* The types of these variables are those the earlier lemmas ask for.      *)
LEMMA CallTypesSuffice ==
    ASSUME TypeOK, CallTypes
    PROVE  SessionTypes
    BY DEF TypeOK, WorkerTypes, CallTypes, SessionTypes, OnRanks

(* So the later call stays young while a rank that has begun it works.     *)
LEMMA YoungWorks ==
    ASSUME CallTypes, TypeOK, TermRounds, Young, LastMessages, ~Together, NEW r \in Rank,
           InnerStep(r) \/ Callback(r)
    PROVE  Young' /\ LastMessages'
<1>1. [Next]_vars /\ UNCHANGED session
    BY CallSteps
<1>2. phase[r] = "loop" /\ ~Behind(r)
  <2>1. phase[r] \in {"loop", "cleanup"}
      BY CallTypesSuffice, InnerSteps
  <2>. QED
      BY <2>1 DEF Young, Through
<1>3. InLoopOnly(r)
    BY <1>2, LoopSteps
<1>4. UNCHANGED sense /\ \A q \in Rank : (phase'[q] = "loop") <=> (phase[q] = "loop")
    BY <1>1, NobodyLeaves
<1>5. \A q \in Rank : Behind(q)' <=> Behind(q)
    BY <1>1 DEF Behind
<1>6. \A q \in Rank : phase'[q] = phase[q]
    BY <1>2, <1>3, <1>4 DEF InLoopOnly
<1>7. UNCHANGED <<barrier_started, barrier_up, barrier_replies, barriers, abort_reduces>>
    BY <1>3 DEF InLoopOnly, barrierVars
<1>8. Young'
  <2>1. \A q \in Rank : Behind(q) => Through(q)'
    <3>. SUFFICES ASSUME NEW q \in Rank, Behind(q) PROVE Through(q)'
        OBVIOUS
    <3>1. q # r /\ Through(q)
        BY <1>2 DEF Young
    <3>. QED
        BY <1>3, <3>1 DEF Through, InLoopOnly
  <2>2. (\A m \in replies' : ~Behind(m.src)) /\ \A m \in abort_replies' : ~Behind(m[1])
      BY <1>2, <1>3 DEF Young, InLoopOnly
  <2>3. /\ \A m \in replies' : ~Behind(m.src)'
        /\ \A m \in abort_replies' : ~Behind(m[1])'
      BY <1>1, <2>2 DEF Behind
  <2>4. \A q, z \in Rank : session'[q] <= session'[z] + 1
      BY <1>1 DEF Young
  <2>5. \A q, z \in Rank : sense'[q] = sense'[z]
      BY <1>4 DEF Young
  <2>6. \A q \in Rank : ~Behind(q)' => phase'[q] = "loop" /\ barrier_replies'[q] = 0
      BY <1>5, <1>6, <1>7 DEF Young
  <2>7. (\A q \in Rank : ~barrier_started'[q] /\ ~barrier_up'[q]) /\ barriers' = {}
      BY <1>7 DEF Young
  <2>. QED
      BY <1>5, <2>1, <2>3, <2>4, <2>5, <2>6, <2>7 DEF Young
<1>9. LastMessages'
  <2>1. \A m \in abort_reduces : m.src \in Rank /\ m.dst \in Rank
      BY DEF TypeOK, WorkerTypes, Flags
  <2>2. \A c \in Rank : c # 0 => parent_rank(c) \in Rank
      BY TreeFacts
  <2>. QED
      BY <1>6, <1>7, <2>1, <2>2, RankFacts DEF LastMessages, IsDown
<1>. QED
    BY <1>8, <1>9

(* A rank that is behind receives its last message, and passes it on.      *)
LEMMA YoungReturns ==
    ASSUME CallTypes, TypeOK, Young, LastMessages, NEW r \in Rank, Return(r)
    PROVE  /\ Young' /\ LastMessages'
           /\ Behind(r) /\ \E m \in abort_reduces : m.dst = r /\ Finish(r, m.flag, abort_reduces \ {m})
<1>. USE RankFacts
<1>1. UNCHANGED <<session, termVars, barrierVars>> /\ (AbortReduceUp(r) \/ AbortReduceDown(r))
    BY DEF Return, AbortReduce, Vote
<1>2. phase[r] = "await" /\ Behind(r)
  <2>1. phase[r] \in {"reduce", "await"}
      BY <1>1 DEF AbortReduceUp, AbortReduceDown
  <2>. QED
      BY <2>1 DEF Young, Through
<1>3. PICK m \in abort_reduces :
          m.src = parent_rank(r) /\ m.dst = r /\ Finish(r, m.flag, abort_reduces \ {m})
    BY <1>1, <1>2 DEF AbortReduceUp, AbortReduceDown
<1>4. /\ abort_reduces' = (abort_reduces \ {m}) \cup
              {[src |-> r, dst |-> c, flag |-> m.flag] : c \in child_ranks(r)}
      /\ phase' = [phase EXCEPT ![r] = "exit"]
      /\ UNCHANGED <<work_requested, work_outstanding, replies, abort_outstanding, abort_replies>>
    BY <1>3 DEF Finish
<1>5. phase'[r] = "exit" /\ \A q \in Rank : q # r => phase'[q] = phase[q]
    BY <1>4 DEF TypeOK, WorkerTypes
<1>6. \A q \in Rank : Behind(q)' <=> Behind(q)
    BY <1>1 DEF Behind
<1>7. Young'
  <2>1. \A q \in Rank : Behind(q) => Through(q)'
      BY <1>1, <1>2, <1>4, <1>5 DEF Young, Through, termVars
  <2>2. \A q \in Rank : ~Behind(q) => phase'[q] = "loop" /\ barrier_replies'[q] = 0
      BY <1>1, <1>2, <1>5 DEF Young, barrierVars
  <2>3. (\A n \in replies' : ~Behind(n.src)') /\ \A n \in abort_replies' : ~Behind(n[1])'
      BY <1>1, <1>4 DEF Young, Behind
  <2>4. /\ \A q, z \in Rank : session'[q] <= session'[z] + 1
        /\ \A q, z \in Rank : sense'[q] = sense'[z]
        /\ \A q \in Rank : ~barrier_started'[q] /\ ~barrier_up'[q]
        /\ barriers' = {}
      BY <1>1 DEF Young, termVars, barrierVars
  <2>. QED
      BY <1>6, <2>1, <2>2, <2>3, <2>4 DEF Young
<1>8. LastMessages'
  <2>0. /\ \A n \in abort_reduces : n.src \in Rank /\ n.dst \in Rank
        /\ \A n \in abort_reduces : IsDown(n) /\ phase[n.src] # "await" /\ phase[n.dst] = "await"
        /\ \A n, k \in abort_reduces : n.dst = k.dst => n = k
        /\ \A c \in Rank : c # 0 /\ phase[parent_rank(c)] = "await" => phase[c] = "await"
        /\ phase[0] # "await"
      BY DEF LastMessages, TypeOK, WorkerTypes, Flags
  <2>1. \A n \in abort_reduces' :
            \/ n \in abort_reduces /\ n.dst # r
            \/ n.src = r /\ n.dst \in child_ranks(r) /\ n.flag = m.flag
               /\ n = [src |-> r, dst |-> n.dst, flag |-> m.flag]
      BY <1>3, <1>4, <2>0
  <2>2. ASSUME NEW n \in abort_reduces'
        PROVE  IsDown(n) /\ phase'[n.src] # "await" /\ phase'[n.dst] = "await"
    <3>1. CASE n \in abort_reduces /\ n.dst # r
        BY <1>5, <2>0, <3>1
    <3>2. CASE n.src = r /\ n.dst \in child_ranks(r)
      <4>1. n.dst \in Rank /\ n.dst # 0 /\ parent_rank(n.dst) = r /\ n.dst # r
          BY <3>2, TreeFacts
      <4>2. phase[n.dst] = "await"
          BY <1>2, <2>0, <4>1
      <4>. QED
          BY <1>5, <3>2, <4>1, <4>2 DEF IsDown
    <3>. QED
        BY <2>1, <3>1, <3>2
  <2>3. ASSUME NEW n \in abort_reduces', NEW k \in abort_reduces', n.dst = k.dst PROVE n = k
    <3>1. ASSUME NEW x \in abort_reduces PROVE x.dst \notin child_ranks(r)
      <4>1. x.dst \in child_ranks(r) => x.src = r
          BY <2>0, <3>1, TreeFacts DEF IsDown
      <4>. QED
          BY <1>2, <2>0, <3>1, <4>1
    <3>. QED
        BY <2>0, <2>1, <2>3, <3>1
  <2>4. ASSUME NEW c \in Rank, c # 0, phase'[parent_rank(c)] = "await" PROVE phase'[c] = "await"
    <3>1. parent_rank(c) \in Rank /\ parent_rank(c) # r
        BY <1>5, <2>4, TreeFacts
    <3>2. phase[parent_rank(c)] = "await"
        BY <1>5, <2>4, <3>1
    <3>3. c # r
        BY <1>3, <2>0, <3>2
    <3>. QED
        BY <1>5, <2>0, <2>4, <3>2, <3>3
  <2>5. phase'[0] # "await"
      BY <1>5, <2>0
  <2>. QED
      BY <2>2, <2>3, <2>4, <2>5 DEF LastMessages, IsDown
<1>. QED
    BY <1>2, <1>3, <1>7, <1>8

(* The types of what only the session sees.                                *)
LEMMA CallTypesStep ==
    ASSUME CallTypes, TypeOK, TypeOK', NEW r \in Rank, InnerStep(r) \/ Callback(r) \/ Return(r)
    PROVE  CallTypes'
<1>1. CASE InnerStep(r)
    BY <1>1 DEF InnerStep, sessionVars, CallTypes
<1>2. CASE Callback(r)
    BY <1>2 DEF Callback, CallTypes, TypeOK, WorkerTypes
<1>3. CASE Return(r)
  <2>1. /\ UNCHANGED <<session, called, stale>>
        /\ \E b \in BOOLEAN : file' = [file EXCEPT ![r] = IF b THEN Dump(r) ELSE @]
        /\ remaining' = [remaining EXCEPT ![r] = queue[r]]
    <3>. DEFINE dumps == phase'[r] = "exit" /\ ABORT_FLAG'[r]
    <3>1. dumps \in BOOLEAN
        OBVIOUS
    <3>2. file' = [file EXCEPT ![r] = IF dumps THEN Dump(r) ELSE @]
        BY <1>3 DEF Return
    <3>3. UNCHANGED <<session, called, stale>> /\ remaining' = [remaining EXCEPT ![r] = queue[r]]
        BY <1>3 DEF Return
    <3>. HIDE DEF dumps
    <3>. QED
        BY <3>1, <3>2, <3>3
  <2>2. queue[r] \in SUBSET Item /\ Dump(r) \in SUBSET Item
      BY DEF Dump, CallTypes, TypeOK, WorkerTypes
  <2>. QED
      BY <2>1, <2>2 DEF CallTypes
<1>. QED
    BY <1>1, <1>2, <1>3

(* The worker's steps, while all ranks are in the same call, are those of  *)
(* the tree worker; the invariants of one call carry over.                 *)
LEMMA OneCallStep ==
    ASSUME Overlapping, Overlapping', OneCall, [Next]_vars
    PROVE  OneCall'
<1>1. WorkerTypes /\ [WorkerNext]_workerVars
    BY TreeStepWorks DEF Overlapping, TypeOK
<1>2. TypeOK /\ ReceiptsBalance /\ TermRounds /\ RoundSound
    BY DEF Overlapping
<1>3. ResultSound /\ LastRound /\ Leaving /\ Barrier /\ AbortVote
    BY DEF OneCall
<1>4. ResultSound' /\ LastRound' /\ Leaving'
    BY <1>2, <1>3, ResultSoundStep, LastRoundStep, LeavingStep
<1>5. Barrier' /\ AbortVote'
    BY <1>1, <1>3, BarrierStep, VoteStep
<1>. QED
    BY <1>4, <1>5 DEF OneCall

(* A rank that learns the result of an earlier call changes its own flag,  *)
(* which no request, reply or acknowledgement in flight relies on.         *)
LEMMA FloodYoung ==
    ASSUME TypeOK, AbortFlood, Young, NEW r \in Rank, Behind(r), NEW flag, NEW rest,
           Finish(r, flag, rest)
    PROVE  AbortFlood'
<1>1. /\ UNCHANGED <<abort_outstanding, abort_requests, abort_replies, replies>>
      /\ ABORT_FLAG' = [ABORT_FLAG EXCEPT ![r] = flag]
      /\ abort_state' = [abort_state EXCEPT ![r] = flag]
    BY DEF Finish
<1>2. ~abort_outstanding[r] /\ \A m \in replies : m.src \in Rank /\ m.src # r
    BY DEF Young, Through, TypeOK, WorkerTypes
<1>3. /\ ABORT_FLAG'[r] = flag /\ abort_state'[r] = flag
      /\ \A q \in Rank : q # r => ABORT_FLAG'[q] = ABORT_FLAG[q] /\ abort_state'[q] = abort_state[q]
    BY <1>1 DEF TypeOK, WorkerTypes
<1>4. \A q \in Rank : abort_outstanding'[q] => abort_state'[q]
    BY <1>1, <1>2, <1>3 DEF AbortFlood
<1>5. \A q \in Rank : abort_state'[q] => ABORT_FLAG'[q]
    BY <1>3 DEF AbortFlood
<1>6. \A m \in replies' : m.abort => ABORT_FLAG'[m.src]
    BY <1>1, <1>2, <1>3 DEF AbortFlood
<1>. QED
    BY <1>1, <1>4, <1>5, <1>6 DEF AbortFlood

(* Every step of a call keeps the invariant.                               *)
LEMMA CallKeeps ==
    ASSUME CallsInv, NEW r \in Rank, InnerStep(r) \/ Callback(r) \/ Return(r)
    PROVE  CallsInv'
<1>0. /\ CallTypes /\ TypeOK /\ Conversation /\ ReceiptsBalance /\ TermRounds /\ RoundSound /\ AbortFlood
      /\ Together => OneCall
      /\ ~Together => Young /\ LastMessages
    BY DEF CallsInv, Overlapping
<1>1. [Next]_vars /\ [WorkerNext]_workerVars /\ UNCHANGED session
    BY CallSteps
<1>2. TypeOK' /\ WorkerTypes /\ WorkerTypes'
    BY <1>0, <1>1, TypeStep DEF TypeOK
<1>3. Together' <=> Together
    BY <1>1 DEF Together, Behind
<1>4. Conversation' /\ ReceiptsBalance' /\ TermRounds' /\ RoundSound'
    BY <1>0, <1>1, <1>2, ConversationStep, BalanceStep, RoundsStep, RoundSoundStep
<1>5. CallTypes'
    BY <1>0, <1>2, CallTypesStep
<1>6. CASE Together
  <2>1. AbortFlood'
      BY <1>0, <1>1, <1>2, <1>6, FloodStep DEF OneCall
  <2>2. Overlapping /\ Overlapping'
      BY <1>0, <1>2, <1>4, <2>1 DEF Overlapping
  <2>3. OneCall'
      BY <1>0, <1>1, <1>6, <2>2, OneCallStep
  <2>. QED
      BY <1>3, <1>5, <1>6, <2>2, <2>3 DEF CallsInv
<1>7. CASE ~Together
  <2>1. CASE InnerStep(r) \/ Callback(r)
    <3>1. Young' /\ LastMessages'
        BY <1>0, <1>7, <2>1, YoungWorks
    <3>2. ~\E q \in Rank : Vote(q)
      <4>. SUFFICES ASSUME NEW q \in Rank, Vote(q) PROVE FALSE
          OBVIOUS
      <4>1. phase[q] \in {"reduce", "await"} /\ phase'[q] \in {"await", "exit"} /\ phase'[q] # phase[q]
          BY <1>2 DEF Vote, AbortReduceUp, AbortReduceDown, Finish, GoTo, WorkerTypes
      <4>2. phase[r] = "loop"
        <5>1. phase[r] \in {"loop", "cleanup"}
            BY <1>0, <2>1, CallTypesSuffice, InnerSteps
        <5>. QED
            BY <1>0, <1>7, <5>1 DEF Young, Through
      <4>3. InLoopOnly(r)
          BY <1>0, <2>1, <4>2, LoopSteps
      <4>. QED
          BY <4>1, <4>2, <4>3 DEF InLoopOnly
    <3>3. AbortFlood'
        BY <1>0, <1>1, <1>2, <3>2, FloodOther
    <3>. QED
        BY <1>2, <1>3, <1>4, <1>5, <1>7, <3>1, <3>3 DEF CallsInv, Overlapping
  <2>2. CASE Return(r)
    <3>1. /\ Young' /\ LastMessages'
          /\ Behind(r) /\ \E m \in abort_reduces : Finish(r, m.flag, abort_reduces \ {m})
        BY <1>0, <1>7, <2>2, YoungReturns
    <3>2. AbortFlood'
        BY <1>0, <1>7, <3>1, FloodYoung
    <3>. QED
        BY <1>2, <1>3, <1>4, <1>5, <1>7, <3>1, <3>2 DEF CallsInv, Overlapping
  <2>. QED
      BY <2>1, <2>2
<1>. QED
    BY <1>6, <1>7

(* A call from which a rank has returned is over for all of them, but for  *)
(* the last messages.                                                      *)
LEMMA CallOver ==
    ASSUME Overlapping, OneCall, NEW r \in Rank, phase[r] = "exit"
    PROVE  /\ \A q \in Rank : Through(q)
           /\ \A p, q \in Rank : sense[p] = sense[q]
           /\ \A q \in Rank : ~barrier_started[q] /\ ~barrier_up[q]
           /\ requests = {} /\ replies = {} /\ terms = {} /\ barriers = {}
           /\ abort_requests = {} /\ abort_replies = {}
           /\ LastMessages
<1>. USE RankFacts
<1>0. /\ TypeOK /\ WorkerTypes /\ Conversation /\ TermRounds /\ AbortFlood
      /\ ResultSound /\ LastRound /\ Leaving /\ Barrier /\ AbortVote
    BY DEF Overlapping, OneCall, TypeOK
<1>1. phase[0] = "exit" /\ \A q \in Rank : phase[q] \in {"await", "exit"}
    BY <1>0, VotedTogether DEF Voted
<1>2. /\ requests = {} /\ replies = {} /\ abort_requests = {} /\ abort_replies = {}
      /\ \A q \in Rank : work_requested[q] = None /\ ~abort_outstanding[q]
      /\ \A m \in barriers : Past(m[1]) /\ ~Past(m[2])
    BY <1>0, PastIsClean DEF Past
<1>3. barriers = {}
  <2>1. \A m \in barriers : m[2] \in Rank
      BY <1>0 DEF WorkerTypes, Pairs
  <2>. QED
      BY <1>1, <1>2, <2>1 DEF Past
<1>4. \A q \in Rank : ~barrier_started[q] /\ ~barrier_up[q]
    BY <1>0, <1>1 DEF Barrier
<1>5. \A q \in Rank : ~term_up[q]
    BY <1>0, <1>1 DEF Leaving
<1>6. \A p, q \in Rank : sense[p] = sense[q]
    BY <1>0, <1>5 DEF TermRounds
<1>7. terms = {}
  <2>1. \A m \in terms : m.src \in Rank /\ m.dst \in Rank
      BY <1>0 DEF TypeOK, Flags
  <2>. QED
      BY <1>0, <1>5, <2>1 DEF TermRounds
<1>8. \A q \in Rank : term_replies[q] = 0
  <2>. SUFFICES ASSUME NEW q \in Rank PROVE term_replies[q] = 0
      OBVIOUS
  <2>1. child_ranks(q) \in SUBSET Rank
      BY TreeFacts
  <2>2. Replied(q) = {}
      BY <1>5, <2>1 DEF Replied
  <2>3. Cardinality(Replied(q)) = 0
      BY <2>2, FS_EmptySet
  <2>. QED
      BY <1>0, <2>3 DEF TermRounds
<1>9. \A q \in Rank : work_outstanding[q] = 0 /\ term_flag[q]
  <2>1. Quiet
      BY <1>0 DEF ResultSound
  <2>. QED
      BY <1>0, <2>1 DEF Quiet, Idle, LastRound
<1>10. \A q \in Rank : Through(q)
    BY <1>1, <1>2, <1>5, <1>8, <1>9 DEF Through
<1>11. LastMessages
  <2>1. \A m \in abort_reduces : m.src \in Rank /\ m.dst \in Rank
      BY <1>0 DEF WorkerTypes, Flags
  <2>2. \A m \in abort_reduces : IsDown(m) /\ phase[m.src] = "exit" /\ phase[m.dst] = "await"
      BY <1>0, <1>1, <2>1 DEF AbortVote
  <2>3. \A m, n \in abort_reduces : m.dst = n.dst => m = n
    <3>1. \A m, n \in abort_reduces : m.dst = n.dst => m.src = n.src
        BY <2>2 DEF IsDown
    <3>. QED
        BY <1>0, <3>1 DEF AbortVote
  <2>4. \A c \in Rank : c # 0 /\ phase[parent_rank(c)] = "await" => phase[c] = "await"
      BY <1>0, <1>1 DEF AbortVote
  <2>. QED
      BY <1>1, <2>2, <2>3, <2>4 DEF LastMessages
<1>. QED
    BY <1>2, <1>3, <1>4, <1>6, <1>7, <1>10, <1>11

(* r can begin the next call: whoever has begun it is in its work loop,    *)
(* and the others are through with the one before.                         *)
NextIsYoung(r) ==
    /\ \A q \in Rank :
          \/ session[q] = session[r] /\ Through(q)
          \/ session[q] = session[r] + 1 /\ phase[q] = "loop" /\ barrier_replies[q] = 0
    /\ \A p, q \in Rank : sense[p] = sense[q]
    /\ \A q \in Rank : ~barrier_started[q] /\ ~barrier_up[q]
    /\ barriers = {}
    /\ \A m \in replies : session[m.src] = session[r] + 1
    /\ \A m \in abort_replies : session[m[1]] = session[r] + 1
    /\ LastMessages

(* That is so whenever a rank has returned.                                *)
LEMMA ReturnedNextIsYoung ==
    ASSUME CallsInv, NEW r \in Rank, phase[r] = "exit"
    PROVE  NextIsYoung(r)
<1>0. CallTypes /\ TypeOK /\ \A q \in Rank : session[q] \in Nat
    BY DEF CallsInv, Overlapping, CallTypes
<1>1. CASE Together
  <2>1. \A q \in Rank : session[q] = session[r]
      BY <1>0, <1>1 DEF Together, Behind
  <2>2. Overlapping /\ OneCall
      BY <1>1 DEF CallsInv
  <2>. QED
      BY <2>1, <2>2, CallOver DEF NextIsYoung
<1>2. CASE ~Together
  <2>1. Young /\ LastMessages
      BY <1>2 DEF CallsInv
  <2>2. Behind(r)
      BY <2>1 DEF Young
  <2>3. \A q \in Rank : session[q] = IF Behind(q) THEN session[r] ELSE session[r] + 1
      BY <1>0, <2>1, <2>2, CallOrder DEF Young
  <2>4. \A q \in Rank : Behind(q) => Through(q)
      BY <2>1 DEF Young
  <2>5. \A q \in Rank : ~Behind(q) => phase[q] = "loop" /\ barrier_replies[q] = 0
      BY <2>1 DEF Young
  <2>6. /\ \A m \in replies : m.src \in Rank /\ ~Behind(m.src)
        /\ \A m \in abort_replies : m[1] \in Rank /\ ~Behind(m[1])
      BY <1>0, <2>1 DEF Young, TypeOK, WorkerTypes, Pairs
  <2>7. /\ \A p, q \in Rank : sense[p] = sense[q]
        /\ \A q \in Rank : ~barrier_started[q] /\ ~barrier_up[q]
        /\ barriers = {}
      BY <2>1 DEF Young
  <2>. QED
      BY <2>1, <2>3, <2>4, <2>5, <2>6, <2>7 DEF NextIsYoung
<1>. QED
    BY <1>1, <1>2

(* A young call that all ranks have begun is a call like the first one.    *)
LEMMA YoungTogether ==
    ASSUME TypeOK', TermRounds', Young', LastMessages', Together'
    PROVE  OneCall'
<1>. USE RankFacts
<1>0. /\ \A q \in Rank : phase'[q] = "loop" /\ barrier_replies'[q] = 0
      /\ \A q \in Rank : ~barrier_started'[q] /\ ~barrier_up'[q]
      /\ \A p, q \in Rank : sense'[p] = sense'[q]
      /\ barriers' = {}
    BY DEF Young, Together
<1>1. \A m \in terms' : ~IsDown(m)
  <2>1. \A m \in terms' : m.src \in Rank /\ m.dst \in Rank
      BY DEF TypeOK, Flags
  <2>2. \A m \in terms' : IsDown(m) => sense'[m.dst] # sense'[m.src]
      BY DEF TermRounds, IsDown
  <2>. QED
      BY <1>0, <2>1, <2>2
<1>2. ResultSound' /\ LastRound' /\ Leaving'
    BY <1>0, <1>1 DEF ResultSound, LastRound, Leaving, IsDown
<1>3. Barrier'
  <2>1. ASSUME NEW p \in Rank PROVE barrier_replies'[p] = Cardinality(Heard(p)')
    <3>1. child_ranks(p) \in SUBSET Rank
        BY TreeFacts
    <3>2. Heard(p)' = {}
        BY <1>0, <3>1 DEF Heard
    <3>. QED
        BY <1>0, <3>2, FS_EmptySet
  <2>2. \A q \in Rank : ~Past(q)'
      BY <1>0 DEF Past
  <2>3. \A c \in Rank : c # 0 => parent_rank(c) \in Rank
      BY TreeFacts
  <2>. QED
      BY <1>0, <2>1, <2>2, <2>3 DEF Barrier
<1>4. AbortVote'
  <2>1. \A m \in abort_reduces' : m.dst \in Rank
      BY DEF TypeOK, WorkerTypes, Flags
  <2>2. abort_reduces' = {}
      BY <1>0, <2>1 DEF LastMessages
  <2>3. \A c \in Rank : c # 0 => parent_rank(c) \in Rank
      BY TreeFacts
  <2>. QED
      BY <1>0, <2>2, <2>3 DEF AbortVote, Voted
<1>. QED
    BY <1>2, <1>3, <1>4 DEF OneCall

(* CIRCLE_begin finds the state of the rank's last call almost as          *)
(* CIRCLE_init_local_state leaves it.                                      *)
LEMMA BeginFacts ==
    ASSUME TypeOK, CallTypes, NEW r \in Rank, NextIsYoung(r), CIRCLE_begin(r)
    PROVE  /\ phase[r] = "exit" /\ Through(r) /\ (Reuse \/ ~ABORT_FLAG[r])
           /\ UNCHANGED <<work_requested, work_outstanding, requests, replies, receipts>>
           /\ UNCHANGED <<termVars, barrier_started, barrier_up, barriers>>
           /\ UNCHANGED <<abort_outstanding, abort_requests, abort_replies, abort_reduces, checkpointed>>
           /\ UNCHANGED <<file, remaining, stale>>
           /\ phase'[r] = "loop" /\ ~abort_state'[r] /\ barrier_replies'[r] = 0
           /\ session'[r] = session[r] + 1
           /\ \A q \in Rank : q # r =>
                 /\ phase'[q] = phase[q] /\ queue'[q] = queue[q] /\ ABORT_FLAG'[q] = ABORT_FLAG[q]
                 /\ abort_state'[q] = abort_state[q] /\ barrier_replies'[q] = barrier_replies[q]
                 /\ session'[q] = session[q] /\ called'[q] = called[q]
           /\ TypeOK' /\ CallTypes'
           /\ ABORT_FLAG'[r] = (ABORT_FLAG[r] \/ called'[r])
<1>. USE RankFacts
<1>0. WorkerTypes /\ \A q \in Rank : session[q] \in Nat
    BY DEF TypeOK, CallTypes
<1>1. phase[r] = "exit" /\ (Reuse \/ ~ABORT_FLAG[r]) /\ init_local_state(r)
    BY DEF CIRCLE_begin
<1>2. Through(r)
    BY <1>0, <1>1 DEF NextIsYoung
<1>3. UNCHANGED <<requests, replies, receipts, abort_requests, abort_replies, abort_reduces,
                  checkpointed, terms, sense, barriers, file, remaining, stale>>
    BY DEF CIRCLE_begin
<1>4. UNCHANGED <<work_requested, work_outstanding, abort_outstanding, term_flag, term_up,
                  term_replies, barrier_started, barrier_up>>
  <2>1. ~barrier_started[r] /\ ~barrier_up[r]
      BY DEF NextIsYoung
  <2>2. UNCHANGED <<work_requested, work_outstanding, term_replies>>
      BY <1>0, <1>1, <1>2 DEF init_local_state, Through, TypeOK, WorkerTypes
  <2>3. UNCHANGED <<abort_outstanding, term_flag, term_up>>
      BY <1>0, <1>1, <1>2 DEF init_local_state, Through, TypeOK, WorkerTypes
  <2>4. UNCHANGED <<barrier_started, barrier_up>>
      BY <1>1, <2>1 DEF init_local_state, TypeOK, WorkerTypes
  <2>. QED
      BY <2>2, <2>3, <2>4
<1>5. /\ phase' = [phase EXCEPT ![r] = "loop"]
      /\ pc' = [pc EXCEPT ![r] = 1]
      /\ session' = [session EXCEPT ![r] = @ + 1]
      /\ abort_state' = [abort_state EXCEPT ![r] = FALSE]
      /\ barrier_replies' = [barrier_replies EXCEPT ![r] = 0]
    BY <1>1 DEF CIRCLE_begin, init_local_state
<1>6. PICK new \in SUBSET (Item \ created), done \in SUBSET queue[r], a \in BOOLEAN :
          /\ queue' = [queue EXCEPT ![r] = (@ \ done) \cup new]
          /\ created' = created \cup new
          /\ processed' = processed \cup done
          /\ ABORT_FLAG' = [ABORT_FLAG EXCEPT ![r] = @ \/ a]
          /\ called' = [called EXCEPT ![r] = a]
    BY DEF CIRCLE_begin
<1>7. TypeOK'
  <2>1. /\ phase' \in [Rank -> Phase] /\ pc' \in [Rank -> 1 .. MaxPc]
        /\ abort_state' \in [Rank -> BOOLEAN] /\ barrier_replies' \in [Rank -> Nat]
      BY <1>5 DEF TypeOK, WorkerTypes, Phase, MaxPc
  <2>2. /\ queue' \in [Rank -> SUBSET Item] /\ created' \in SUBSET Item
        /\ processed' \in SUBSET Item
      BY <1>6 DEF TypeOK, WorkerTypes
  <2>3. ABORT_FLAG' \in [Rank -> BOOLEAN]
      BY <1>6 DEF TypeOK, WorkerTypes
  <2>. QED
      BY <1>3, <1>4, <2>1, <2>2, <2>3 DEF TypeOK, WorkerTypes
<1>8. CallTypes'
    BY <1>3, <1>5, <1>6 DEF CallTypes
<1>9. ABORT_FLAG'[r] = (ABORT_FLAG[r] \/ called'[r])
    BY <1>6 DEF TypeOK, WorkerTypes, CallTypes
<1>10. \A q \in Rank : q # r =>
          /\ phase'[q] = phase[q] /\ queue'[q] = queue[q] /\ ABORT_FLAG'[q] = ABORT_FLAG[q]
          /\ abort_state'[q] = abort_state[q] /\ barrier_replies'[q] = barrier_replies[q]
          /\ session'[q] = session[q] /\ called'[q] = called[q]
    BY <1>5, <1>6 DEF TypeOK, WorkerTypes, CallTypes
<1>11. phase'[r] = "loop" /\ ~abort_state'[r] /\ barrier_replies'[r] = 0 /\ session'[r] = session[r] + 1
    BY <1>5 DEF TypeOK, WorkerTypes, CallTypes
<1>. QED
    BY <1>1, <1>2, <1>3, <1>4, <1>7, <1>8, <1>9, <1>10, <1>11 DEF termVars

(* A rank begins the next call.                                            *)
LEMMA BeginKeepsCalls ==
    ASSUME CallsInv, NEW r \in Rank, CIRCLE_begin(r)
    PROVE  CallsInv'
<1>. USE RankFacts
<1>0. /\ CallTypes /\ TypeOK /\ Conversation /\ ReceiptsBalance /\ TermRounds /\ RoundSound /\ AbortFlood
      /\ \A q \in Rank : session[q] \in Nat
    BY DEF CallsInv, Overlapping, CallTypes
<1>1. NextIsYoung(r)
    BY ReturnedNextIsYoung DEF CIRCLE_begin
<1>2. /\ phase[r] = "exit" /\ Through(r)
      /\ UNCHANGED <<work_requested, work_outstanding, requests, replies, receipts>>
      /\ UNCHANGED <<term_flag, term_up, term_replies, terms, sense>>
      /\ UNCHANGED <<barrier_started, barrier_up, barriers>>
      /\ UNCHANGED <<abort_outstanding, abort_requests, abort_replies, abort_reduces>>
      /\ phase'[r] = "loop" /\ ~abort_state'[r] /\ barrier_replies'[r] = 0
      /\ session'[r] = session[r] + 1
      /\ TypeOK' /\ CallTypes'
    BY <1>0, <1>1, BeginFacts DEF termVars
<1>3. \A q \in Rank : q # r =>
          /\ phase'[q] = phase[q] /\ queue'[q] = queue[q] /\ ABORT_FLAG'[q] = ABORT_FLAG[q]
          /\ abort_state'[q] = abort_state[q] /\ barrier_replies'[q] = barrier_replies[q]
          /\ session'[q] = session[q]
    BY <1>0, <1>1, BeginFacts
<1>4. Conversation'
    BY <1>0, <1>2, <1>3 DEF Conversation, Through
<1>5. ReceiptsBalance'
    BY <1>0, <1>2 DEF ReceiptsBalance, Transfers
<1>6. TermRounds'
    BY <1>0, <1>2 DEF TermRounds, Replied, InFlight, IsUp, IsDown
<1>7. RoundSound'
  <2>1. /\ \A q \in Rank : Contributed(q)' <=> Contributed(q)
        /\ ~Contributed(r)
      BY <1>2 DEF Contributed, Through
  <2>2. Spoiled => Spoiled'
      BY <1>2, <2>1 DEF Spoiled, IsUp
  <2>3. \A q \in Rank : q # r /\ Idle(q) => Idle(q)'
      BY <1>2, <1>3 DEF Idle, NoWork
  <2>. QED
      BY <1>0, <1>2, <2>1, <2>2, <2>3 DEF RoundSound
<1>8. AbortFlood'
  <2>1. \A m \in replies : m.src \in Rank /\ m.src # r
      BY <1>0, <1>1 DEF NextIsYoung, TypeOK, WorkerTypes
  <2>2. \A q \in Rank : abort_outstanding'[q] => abort_state'[q]
      BY <1>0, <1>2, <1>3 DEF AbortFlood, Through
  <2>3. \A q \in Rank : abort_state'[q] => ABORT_FLAG'[q]
      BY <1>0, <1>2, <1>3 DEF AbortFlood
  <2>4. \A m \in replies' : m.abort => ABORT_FLAG'[m.src]
      BY <1>0, <1>2, <1>3, <2>1 DEF AbortFlood
  <2>. QED
      BY <1>0, <1>2, <2>2, <2>3, <2>4 DEF AbortFlood
<1>9. \A q \in Rank :
          \/ session'[q] = session[r] /\ Behind(q)' /\ Through(q)'
          \/ session'[q] = session[r] + 1 /\ ~Behind(q)' /\ phase'[q] = "loop" /\ barrier_replies'[q] = 0
  <2>1. \A q \in Rank :
            \/ session'[q] = session[r] /\ Through(q)'
            \/ session'[q] = session[r] + 1 /\ phase'[q] = "loop" /\ barrier_replies'[q] = 0
    <3>. SUFFICES ASSUME NEW q \in Rank, q # r
         PROVE  \/ session'[q] = session[r] /\ Through(q)'
                \/ session'[q] = session[r] + 1 /\ phase'[q] = "loop" /\ barrier_replies'[q] = 0
        BY <1>2
    <3>1. CASE session[q] = session[r] /\ Through(q)
        BY <1>2, <1>3, <3>1 DEF Through
    <3>2. CASE session[q] = session[r] + 1 /\ phase[q] = "loop" /\ barrier_replies[q] = 0
        BY <1>3, <3>2
    <3>. QED
        BY <1>1, <3>1, <3>2 DEF NextIsYoung
  <2>2. \A q \in Rank : session'[q] = session[r] => Behind(q)'
      BY <1>0, <1>2 DEF Behind
  <2>3. \A q \in Rank : session'[q] = session[r] + 1 => ~Behind(q)'
      BY <1>0, <2>1 DEF Behind
  <2>. QED
      BY <2>1, <2>2, <2>3
<1>10. Young'
  <2>1. \A p, q \in Rank : session'[p] <= session'[q] + 1
      BY <1>0, <1>9
  <2>2. (\A q \in Rank : Behind(q)' => Through(q)')
        /\ \A q \in Rank : ~Behind(q)' => phase'[q] = "loop" /\ barrier_replies'[q] = 0
      BY <1>9
  <2>3. /\ \A p, q \in Rank : sense'[p] = sense'[q]
        /\ \A q \in Rank : ~barrier_started'[q] /\ ~barrier_up'[q]
        /\ barriers' = {}
      BY <1>1, <1>2 DEF NextIsYoung
  <2>4. ASSUME NEW q \in Rank, session[q] = session[r] + 1 PROVE ~Behind(q)'
      BY <1>0, <1>3, <1>9, <2>4
  <2>5. /\ \A m \in replies' : ~Behind(m.src)'
        /\ \A m \in abort_replies' : ~Behind(m[1])'
    <3>1. /\ \A m \in replies : m.src \in Rank
          /\ \A m \in abort_replies : m[1] \in Rank
        BY <1>0 DEF TypeOK, WorkerTypes, Pairs
    <3>. QED
        BY <1>1, <1>2, <2>4, <3>1 DEF NextIsYoung
  <2>. QED
      BY <2>1, <2>2, <2>3, <2>5 DEF Young
<1>11. LastMessages'
  <2>1. /\ LastMessages
        /\ \A m \in abort_reduces : m.src \in Rank /\ m.dst \in Rank
      BY <1>0, <1>1 DEF NextIsYoung, TypeOK, WorkerTypes, Flags
  <2>2. \A c \in Rank : c # 0 => parent_rank(c) \in Rank
      BY TreeFacts
  <2>3. \A q \in Rank : (phase'[q] = "await") <=> (phase[q] = "await")
      BY <1>2, <1>3
  <2>. QED
      BY <1>2, <2>1, <2>2, <2>3 DEF LastMessages, IsDown
<1>12. Together' => OneCall'
  <2>. SUFFICES ASSUME Together' PROVE OneCall'
      OBVIOUS
  <2>. QED
      BY <1>2, <1>6, <1>10, <1>11, YoungTogether
<1>. QED
    BY <1>2, <1>4, <1>5, <1>6, <1>7, <1>8, <1>10, <1>11, <1>12 DEF CallsInv, Overlapping

(* When every rank has returned, nothing is in flight at all.              *)
LEMMA AllReturned ==
    ASSUME CallsInv, Returned
    PROVE  /\ Together /\ OneCall
           /\ \A q \in Rank : Through(q)
           /\ requests = {} /\ replies = {} /\ terms = {} /\ barriers = {}
           /\ abort_requests = {} /\ abort_replies = {} /\ abort_reduces = {}
<1>. USE RankFacts
<1>0. CallTypes /\ TypeOK /\ Overlapping
    BY DEF CallsInv, Overlapping
<1>1. Together
  <2>. SUFFICES ASSUME ~Together PROVE FALSE
      OBVIOUS
  <2>1. Young
      BY DEF CallsInv
  <2>2. PICK q \in Rank : ~Behind(q)
      BY <1>0, <2>1, CallOrder DEF Young
  <2>. QED
      BY <2>1, <2>2 DEF Young, Returned
<1>2. OneCall
    BY <1>1 DEF CallsInv
<1>3. /\ \A q \in Rank : Through(q)
      /\ requests = {} /\ replies = {} /\ terms = {} /\ barriers = {}
      /\ abort_requests = {} /\ abort_replies = {}
      /\ LastMessages
    BY <1>0, <1>2, CallOver DEF Returned
<1>4. abort_reduces = {}
  <2>1. \A m \in abort_reduces : m.dst \in Rank
      BY <1>0 DEF TypeOK, WorkerTypes, Flags
  <2>. QED
      BY <1>3, <2>1 DEF LastMessages, Returned
<1>. QED
    BY <1>1, <1>2, <1>3, <1>4

(* A new job starts where the aborted one has ended.                       *)
LEMMA NewJobKeepsCalls ==
    ASSUME CallsInv, NewJob
    PROVE  CallsInv'
<1>. USE RankFacts
<1>0. /\ CallTypes /\ TypeOK /\ Conversation /\ ReceiptsBalance /\ TermRounds /\ RoundSound
      /\ Returned /\ \A q \in Rank : phase[q] = "exit"
    BY DEF CallsInv, Overlapping, NewJob, Returned
<1>1. /\ Together /\ OneCall
      /\ \A q \in Rank : Through(q)
      /\ requests = {} /\ replies = {} /\ terms = {} /\ barriers = {}
      /\ abort_requests = {} /\ abort_replies = {} /\ abort_reduces = {}
    BY <1>0, AllReturned
<1>2. /\ ABORT_FLAG' = [r \in Rank |-> FALSE] /\ abort_state' = [r \in Rank |-> FALSE]
      /\ queue' = file /\ checkpointed' \subseteq checkpointed
      /\ UNCHANGED <<phase, pc, created, processed, work_requested, work_outstanding>>
      /\ UNCHANGED <<requests, replies, receipts, abort_outstanding, abort_requests, abort_replies>>
      /\ UNCHANGED <<abort_reduces, term_flag, term_up, term_replies, terms, sense>>
      /\ UNCHANGED <<barrier_started, barrier_up, barrier_replies, barriers>>
      /\ UNCHANGED <<session, file, called, remaining>> /\ stale' \in BOOLEAN
    BY DEF NewJob, termVars, barrierVars, sessionVars
<1>3. CallTypes' /\ Together'
    BY <1>0, <1>1, <1>2 DEF CallTypes, Together, Behind
<1>4. TypeOK'
    BY <1>0, <1>2 DEF TypeOK, WorkerTypes, CallTypes
<1>5. Conversation' /\ ReceiptsBalance'
    BY <1>0, <1>1, <1>2 DEF Conversation, ReceiptsBalance, Transfers, Through
<1>6. TermRounds'
    BY <1>0, <1>2 DEF TermRounds, Replied, InFlight, IsUp, IsDown
<1>7. \A q \in Rank : Idle(q)' /\ term_flag'[q]
    BY <1>0, <1>1, <1>2 DEF Through, Idle
<1>8. AbortFlood'
    BY <1>1, <1>2 DEF AbortFlood, Through
<1>9. Overlapping'
    BY <1>4, <1>5, <1>6, <1>7, <1>8 DEF Overlapping, RoundSound
<1>10. ResultSound' /\ LastRound' /\ Leaving' /\ Barrier'
  <2>1. ResultSound'
      BY <1>7 DEF ResultSound, Quiet
  <2>2. LastRound'
      BY <1>0, <1>1, <1>2, <1>7 DEF LastRound
  <2>3. Leaving'
      BY <1>1, <1>2 DEF OneCall, Leaving
  <2>4. Barrier'
      BY <1>1, <1>2 DEF OneCall, Barrier, GoesUp, GoesDown, Past, Heard
  <2>. QED
      BY <2>1, <2>2, <2>3, <2>4
<1>11. AbortVote'
  <2>1. \A c \in Rank : c # 0 => parent_rank(c) \in Rank
      BY TreeFacts
  <2>. QED
      BY <1>0, <1>1, <1>2, <2>1 DEF AbortVote, Voted
<1>. QED
    BY <1>3, <1>9, <1>10, <1>11 DEF CallsInv, OneCall

(* The invariant holds from the first call on.                             *)
LEMMA CallsInit == SessionInit => CallsInv
<1>. SUFFICES ASSUME SessionInit PROVE CallsInv
    OBVIOUS
<1>0. Init /\ WorkerInit
    BY DEF SessionInit, Init
<1>1. /\ session = [r \in Rank |-> 1] /\ file = [r \in Rank |-> {}] /\ called = ABORT_FLAG
      /\ remaining = [r \in Rank |-> {}] /\ stale = FALSE
    BY DEF SessionInit
<1>2. TypeOK /\ Conversation /\ ReceiptsBalance /\ TermRounds /\ RoundSound /\ AbortFlood
    BY <1>0, TypeInit, ConversationInit, BalanceInit, RoundsInit, SoundInit, FloodInit
<1>3. CallTypes
    BY <1>1, <1>2 DEF CallTypes, TypeOK, WorkerTypes
<1>4. Together
    BY <1>1 DEF Together, Behind
<1>5. terms = {} /\ \A q \in Rank : phase[q] = "loop"
    BY <1>0 DEF Init, TermInit, WorkerInit, WorkInit
<1>6. ResultSound /\ LastRound /\ Leaving /\ Barrier /\ AbortVote
    BY <1>0, <1>5, SoundInit, BarrierInitially, VoteInit DEF LastRound, Leaving
<1>. QED
    BY <1>2, <1>3, <1>4, <1>6 DEF CallsInv, Overlapping, OneCall

(* Every step preserves it.                                                *)
LEMMA CallsStep == CallsInv /\ [SessionNext]_allVars => CallsInv'
<1>. SUFFICES ASSUME CallsInv, [SessionNext]_allVars PROVE CallsInv'
    OBVIOUS
<1>1. CASE UNCHANGED allVars
  <2>1. /\ UNCHANGED <<phase, pc, queue, created, processed, ABORT_FLAG, work_requested, work_outstanding>>
        /\ UNCHANGED <<requests, replies, receipts, abort_state, abort_outstanding, abort_requests>>
        /\ UNCHANGED <<abort_replies, abort_reduces, checkpointed>>
        /\ UNCHANGED <<term_flag, term_up, term_replies, terms, sense>>
        /\ UNCHANGED <<barrier_started, barrier_up, barrier_replies, barriers>>
        /\ UNCHANGED <<session, file, called, remaining, stale>>
      BY <1>1 DEF allVars, vars, workerVars, workVars, abortVars, barrierVars, termVars, sessionVars
  <2>2. /\ CallTypes /\ TypeOK /\ Conversation /\ ReceiptsBalance /\ TermRounds /\ RoundSound /\ AbortFlood
        /\ Together => OneCall
        /\ ~Together => Young /\ LastMessages
      BY DEF CallsInv, Overlapping
  <2>3. [Next]_vars
      BY <1>1 DEF allVars
  <2>4. TypeOK' /\ TermRounds' /\ RoundSound'
      BY <2>2, <2>3, TypeStep, RoundsStep, RoundSoundStep
  <2>5. Conversation' /\ ReceiptsBalance' /\ CallTypes'
      BY <2>1, <2>2 DEF Conversation, ReceiptsBalance, Transfers, CallTypes
  <2>6. AbortFlood'
      BY <2>1, <2>2 DEF AbortFlood
  <2>7. Overlapping /\ Overlapping'
      BY <2>2, <2>4, <2>5, <2>6 DEF Overlapping
  <2>8. Together' <=> Together
      BY <2>1 DEF Together, Behind
  <2>9. OneCall => OneCall'
      BY <2>3, <2>7, OneCallStep
  <2>10. Young => Young'
      BY <2>1 DEF Young, Through, Behind
  <2>11. LastMessages => LastMessages'
      BY <2>1 DEF LastMessages, IsDown
  <2>. QED
      BY <2>2, <2>5, <2>7, <2>8, <2>9, <2>10, <2>11 DEF CallsInv
<1>2. ASSUME NEW r \in Rank, SessionStep(r) PROVE CallsInv'
    BY <1>2, CallKeeps, BeginKeepsCalls DEF SessionStep
<1>. QED
    BY <1>1, <1>2, NewJobKeepsCalls DEF SessionNext, Finished

(* While a call is not over for all ranks, what a rank that is behind has  *)
(* sent is the last message of its call, for one that awaits it.           *)
LEMMA BehindSends ==
    ASSUME TypeOK, Conversation, TermRounds, AbortFlood, Young, LastMessages,
           NEW m \in Messages, Behind(m[1])
    PROVE  phase[m[2]] = "await" /\ Behind(m[2])
<1>. USE RankFacts
<1>0. /\ m[1] \in Rank => Through(m[1])
      /\ \A p, q \in Rank : sense[p] = sense[q]
      /\ barriers = {}
    BY DEF Young
<1>1. ASSUME m \in requests PROVE FALSE
  <2>1. m[1] \in Rank /\ m[2] \in Rank /\ m = <<m[1], m[2]>>
      BY <1>1 DEF TypeOK, WorkerTypes, Pairs
  <2>2. work_requested[m[1]] = m[2]
      BY <1>1, <2>1 DEF Conversation
  <2>. QED
      BY <1>0, <2>1, <2>2 DEF Through
<1>2. ASSUME m \in abort_requests PROVE FALSE
  <2>1. m[1] \in Rank
      BY <1>2 DEF TypeOK, WorkerTypes, Pairs
  <2>. QED
      BY <1>0, <1>2, <2>1 DEF AbortFlood, Through
<1>3. m \notin abort_replies /\ m \notin barriers
    BY DEF Young
<1>4. ASSUME NEW n \in replies, m = <<n.src, n.dst>> PROVE FALSE
    BY <1>4 DEF Young
<1>5. ASSUME NEW n \in terms, m = <<n.src, n.dst>> PROVE FALSE
  <2>1. n.src \in Rank /\ n.dst \in Rank /\ m[1] = n.src
      BY <1>5 DEF TypeOK, Flags
  <2>2. ~term_up[n.src]
      BY <1>0, <2>1 DEF Through
  <2>3. (IsUp(n) => term_up[n.src]) /\ (IsDown(n) => sense[n.dst] # sense[n.src]) /\ (IsUp(n) \/ IsDown(n))
      BY DEF TermRounds
  <2>. QED
      BY <1>0, <2>1, <2>2, <2>3
<1>6. ASSUME NEW n \in abort_reduces, m = <<n.src, n.dst>> PROVE phase[m[2]] = "await" /\ Behind(m[2])
  <2>1. n.dst \in Rank /\ m[2] = n.dst
      BY <1>6 DEF TypeOK, WorkerTypes, Flags
  <2>2. phase[n.dst] = "await"
      BY DEF LastMessages
  <2>. QED
      BY <2>1, <2>2 DEF Young
<1>. QED
    BY <1>1, <1>2, <1>3, <1>4, <1>5, <1>6 DEF Messages

(* The calls are kept apart.                                               *)
LEMMA CallsApart ==
    ASSUME CallsInv
    PROVE  SessionsApart
<1>. USE RankFacts
<1>0. /\ CallTypes /\ TypeOK /\ Conversation /\ ReceiptsBalance /\ TermRounds /\ AbortFlood
      /\ \A q \in Rank : session[q] \in Nat
    BY DEF CallsInv, Overlapping, CallTypes
<1>1. \A m \in Messages : m[1] \in Rank /\ m[2] \in Rank
  <2>1. \A m \in requests \cup abort_requests \cup abort_replies \cup barriers : m[1] \in Rank /\ m[2] \in Rank
      BY <1>0 DEF TypeOK, WorkerTypes, Pairs
  <2>2. \A n \in replies \cup terms \cup abort_reduces : n.src \in Rank /\ n.dst \in Rank
      BY <1>0 DEF TypeOK, WorkerTypes, Flags
  <2>. QED
      BY <2>1, <2>2 DEF Messages
<1>2. ASSUME NEW r \in Rank, phase[r] = "exit" PROVE receipts[r] = 0
  <2>1. work_outstanding[r] = 0
      BY <1>0, <1>2, ReturnedNextIsYoung DEF NextIsYoung, Through
  <2>2. work_outstanding[r] = receipts[r] + Cardinality(Transfers(r))
      BY <1>0 DEF ReceiptsBalance
  <2>3. Cardinality(Transfers(r)) \in Nat /\ receipts[r] \in Nat
      BY <1>0, TransfersFinite DEF TypeOK, WorkerTypes
  <2>. QED
      BY <2>1, <2>2, <2>3
<1>3. CASE Together
  <2>1. OneCall /\ Overlapping
      BY <1>3 DEF CallsInv
  <2>2. \A p, q \in Rank : session[p] = session[q]
      BY <1>0, <1>3 DEF Together, Behind
  <2>3. ASSUME NEW m \in Messages, phase[m[1]] = "exit" PROVE phase[m[2]] = "await"
    <3>1. /\ requests = {} /\ replies = {} /\ terms = {} /\ barriers = {}
          /\ abort_requests = {} /\ abort_replies = {} /\ LastMessages
        BY <1>1, <2>1, <2>3, CallOver
    <3>2. PICK n \in abort_reduces : m = <<n.src, n.dst>>
        BY <3>1 DEF Messages
    <3>. QED
        BY <3>1, <3>2 DEF LastMessages
  <2>4. ASSUME NEW r \in Rank, phase[r] = "await", NEW m \in abort_reduces, m.dst = r
        PROVE  m.src = parent_rank(r) /\ session[m.src] \in session[r] .. session[r] + 1
    <3>1. m.src \in Rank
        BY <1>0 DEF TypeOK, WorkerTypes, Flags
    <3>2. IsDown(m)
        BY <2>1, <2>4 DEF OneCall, AbortVote
    <3>3. m.src = parent_rank(r)
        BY <2>4, <3>2 DEF IsDown
    <3>4. session[m.src] = session[r] /\ session[r] \in Nat
        BY <1>0, <2>2, <3>1
    <3>5. session[m.src] \in session[r] .. session[r] + 1
        BY <3>4
    <3>. QED
        BY <3>3, <3>5
  <2>5. \A m \in Messages :
            /\ phase[m[1]] = "exit" => phase[m[2]] = "await" /\ session[m[2]] = session[m[1]]
            /\ session[m[1]] = session[m[2]]
      BY <1>1, <2>2, <2>3
  <2>. QED
      BY <1>2, <2>4, <2>5 DEF SessionsApart
<1>4. CASE ~Together
  <2>1. Young /\ LastMessages
      BY <1>4 DEF CallsInv
  <2>2. /\ \A q, r \in Rank : Behind(q) /\ Behind(r) => session[q] = session[r]
        /\ \A q, r \in Rank : ~Behind(q) /\ ~Behind(r) => session[q] = session[r]
        /\ \A q, r \in Rank : Behind(q) /\ ~Behind(r) => session[r] = session[q] + 1
      BY <1>0, <2>1, CallOrder DEF Young
  <2>3. \A q \in Rank : (phase[q] # "loop" => Behind(q)) /\ (Behind(q) => phase[q] \in {"await", "exit"})
      BY <2>1 DEF Young, Through
  <2>4. ASSUME NEW m \in Messages
        PROVE  /\ phase[m[1]] = "exit" => phase[m[2]] = "await" /\ session[m[2]] = session[m[1]]
               /\ session[m[1]] # session[m[2]] =>
                     session[m[1]] = session[m[2]] + 1 /\ phase[m[2]] \in {"await", "exit"}
    <3>1. m[1] \in Rank /\ m[2] \in Rank
        BY <1>1
    <3>2. CASE Behind(m[1])
      <4>1. phase[m[2]] = "await" /\ Behind(m[2])
          BY <1>0, <2>1, <3>2, BehindSends
      <4>. QED
          BY <2>2, <3>1, <3>2, <4>1
    <3>3. CASE ~Behind(m[1])
      <4>1. phase[m[1]] # "exit"
          BY <2>3, <3>1, <3>3
      <4>. QED
          BY <2>2, <2>3, <3>1, <3>3, <4>1
    <3>. QED
        BY <3>2, <3>3
  <2>5. ASSUME NEW r \in Rank, phase[r] = "await", NEW m \in abort_reduces, m.dst = r
        PROVE  m.src = parent_rank(r) /\ session[m.src] \in session[r] .. session[r] + 1
    <3>1. m.src \in Rank
        BY <1>0 DEF TypeOK, WorkerTypes, Flags
    <3>2. m.src = parent_rank(r)
        BY <2>1, <2>5 DEF LastMessages, IsDown
    <3>3. session[m.src] = session[r] \/ session[m.src] = session[r] + 1
        BY <2>2, <2>3, <2>5, <3>1
    <3>. QED
        BY <1>0, <3>1, <3>2, <3>3
  <2>. QED
      BY <1>2, <2>4, <2>5 DEF SessionsApart
<1>. QED
    BY <1>3, <1>4

(* No message of one call of CIRCLE_begin interferes with another call,    *)
(* for any number of ranks, any tree and any number of calls and restarts, *)
(* also when an aborted call is followed by another in the same process.   *)
THEOREM SessionsApartHolds == SessionSpec => []SessionsApart
    BY CallsInit, CallsStep, CallsApart, PTL DEF SessionSpec

-----------------------------------------------------------------------------
(* A call that no callback aborts does all the work.                       *)

(* The steps between callbacks do not lower a flag, and set one only if    *)
(* another is set.                                                         *)
LEMMA InnerFlags ==
    ASSUME TypeOK, AbortFlood, NEW r \in Rank, InnerStep(r)
    PROVE  /\ \A q \in Rank : ABORT_FLAG[q] => ABORT_FLAG'[q]
           /\ (\E q \in Rank : ABORT_FLAG'[q]) => (\E q \in Rank : ABORT_FLAG[q])
<1>0. WorkerTypes /\ ABORT_FLAG \in [Rank -> BOOLEAN]
    BY DEF TypeOK, WorkerTypes
<1>1. CASE RequestWork(r) \/ AbortCheck(r)
  <2>1. Flood(r) \/ Ask(r)
      BY <1>1 DEF RequestWork, AbortCheck
  <2>2. \A q \in Rank : ABORT_FLAG[q] => ABORT_FLAG'[q]
    <3>1. CASE Ask(r)
        BY <1>0, <3>1 DEF Ask, SendRequest, ReceiveReply
    <3>2. CASE Flood(r)
        BY <1>0, <3>2 DEF Flood, CIRCLE_abort_check
    <3>. QED
        BY <2>1, <3>1, <3>2
  <2>. QED
      BY <1>0, <2>1, <2>2, AbortSource
<1>2. CASE WorkReq(r) \/ WorkReceipt(r) \/ AbortReplies(r)
  <2>1. UNCHANGED ABORT_FLAG
      BY <1>2 DEF WorkReq, Serve, CIRCLE_workreq_check, WorkReceipt, CountReceipts,
         CIRCLE_workreceipt_check, AbortReplies, FloodEnds, AbortTest
  <2>. QED
      BY <2>1
<1>3. CASE TermCheck(r) \/ LoopAgain(r) \/ CleanupIteration(r)
  <2>1. UNCHANGED ABORT_FLAG
      BY <1>3, TermTurns DEF Turn
  <2>. QED
      BY <2>1
<1>4. CASE BarrierStart(r) \/ BarrierTest(r)
  <2>1. UNCHANGED ABORT_FLAG
      BY <1>4 DEF BarrierStart, EnterBarrier, CIRCLE_barrier_start, BarrierTest, TestBarrier,
         BarrierGather, BarrierResult
  <2>. QED
      BY <2>1
<1>. QED
    BY <1>1, <1>2, <1>3, <1>4 DEF InnerStep

(* A rank that is behind takes no such step.                               *)
LEMMA OnlyAheadWork ==
    ASSUME CallsInv, NEW r \in Rank, InnerStep(r) \/ Callback(r)
    PROVE  /\ ~Behind(r) /\ phase[r] # "exit"
           /\ \A q \in Rank : phase'[q] = "exit" <=> phase[q] = "exit"
           /\ \A q \in Rank : Behind(q) => ABORT_FLAG'[q] = ABORT_FLAG[q]
           /\ ~Together => UNCHANGED abort_reduces
<1>0. CallTypes /\ TypeOK /\ SessionTypes
    BY CallTypesSuffice DEF CallsInv, Overlapping
<1>1. phase[r] \in {"loop", "cleanup"} /\ OneRank(r)
    BY <1>0, InnerSteps
<1>2. \A q \in Rank : phase'[q] = "exit" <=> phase[q] = "exit"
    BY <1>0, <1>1, OneRankFacts
<1>3. CASE Together
    BY <1>1, <1>2, <1>3 DEF Together
<1>4. CASE ~Together
  <2>1. ~Behind(r) /\ phase[r] = "loop"
      BY <1>1, <1>4 DEF CallsInv, Young, Through
  <2>2. InLoopOnly(r)
      BY <1>0, <2>1, LoopSteps
  <2>. QED
      BY <1>2, <2>1, <2>2 DEF InLoopOnly
<1>. QED
    BY <1>3, <1>4

(* These steps keep the flags accounted for.                               *)
LEMMA InnerOwned ==
    ASSUME CallsInv, AbortsOwned, NEW r \in Rank, InnerStep(r)
    PROVE  AbortsOwned'
<1>0. TypeOK /\ AbortFlood /\ UNCHANGED <<session, called, remaining>>
    BY DEF CallsInv, Overlapping, InnerStep, sessionVars
<1>1. /\ \A q \in Rank : ABORT_FLAG[q] => ABORT_FLAG'[q]
      /\ (\E q \in Rank : ABORT_FLAG'[q]) => (\E q \in Rank : ABORT_FLAG[q])
    BY <1>0, InnerFlags
<1>2. /\ \A q \in Rank : phase'[q] = "exit" <=> phase[q] = "exit"
      /\ \A q \in Rank : Behind(q) => ABORT_FLAG'[q] = ABORT_FLAG[q]
      /\ ~Together => UNCHANGED abort_reduces
    BY OnlyAheadWork
<1>3. (\A q \in Rank : Behind(q)' <=> Behind(q)) /\ (Together' <=> Together)
    BY <1>0 DEF Behind, Together
<1>4. ASSUME NEW q \in Rank, ABORT_FLAG'[q] PROVE \E z \in Rank : ~Behind(z) /\ called[z]
  <2>1. PICK p \in Rank : ABORT_FLAG[p]
      BY <1>1, <1>4
  <2>. QED
      BY <2>1 DEF AbortsOwned
<1>5. ASSUME NEW m \in abort_reduces', Behind(m.dst) PROVE ~m.flag
  <2>1. m.dst \in Rank
    <3>1. TypeOK'
        BY <1>0, CallSteps, TypeStep
    <3>. QED
        BY <3>1 DEF TypeOK, WorkerTypes, Flags
  <2>2. ~Together
      BY <1>5, <2>1 DEF Together
  <2>. QED
      BY <1>2, <1>5, <2>2 DEF AbortsOwned
<1>6. \A m \in abort_reduces' : Behind(m.dst)' => ~m.flag
    BY <1>0, <1>5 DEF Behind
<1>7. \A q \in Rank : phase'[q] # "exit" /\ called'[q] => ABORT_FLAG'[q]
    BY <1>0, <1>1, <1>2 DEF AbortsOwned
<1>8. \A q \in Rank : Behind(q)' => ~ABORT_FLAG'[q]
    BY <1>2, <1>3 DEF AbortsOwned
<1>9. Together' /\ (\A q \in Rank : ~called'[q]) => \A q \in Rank : phase'[q] = "exit" => remaining'[q] = {}
    BY <1>0, <1>2, <1>3 DEF AbortsOwned
<1>10. \A q \in Rank : ~Behind(q)' /\ ABORT_FLAG'[q] => \E z \in Rank : ~Behind(z)' /\ called'[z]
    BY <1>0, <1>3, <1>4
<1>. QED
    BY <1>6, <1>7, <1>8, <1>9, <1>10 DEF AbortsOwned

(* A callback sets the flag of its rank, and is on record for it.          *)
LEMMA CallbackOwned ==
    ASSUME CallsInv, AbortsOwned, NEW r \in Rank, Callback(r)
    PROVE  AbortsOwned'
<1>0. /\ TypeOK /\ CallTypes /\ UNCHANGED <<session, remaining, abort_reduces>>
      /\ ~ABORT_FLAG[r] /\ called' = [called EXCEPT ![r] = ABORT_FLAG'[r]]
      /\ \E a \in BOOLEAN : ABORT_FLAG' = [ABORT_FLAG EXCEPT ![r] = a]
    BY DEF CallsInv, Overlapping, Callback, ProcessItem, Work, Process, abortVars
<1>1. /\ ~Behind(r) /\ phase[r] # "exit"
      /\ \A q \in Rank : phase'[q] = "exit" <=> phase[q] = "exit"
    BY OnlyAheadWork
<1>2. ~called[r]
    BY <1>0, <1>1 DEF AbortsOwned
<1>3. /\ called'[r] = ABORT_FLAG'[r]
      /\ \A q \in Rank : q # r => called'[q] = called[q] /\ ABORT_FLAG'[q] = ABORT_FLAG[q]
    BY <1>0 DEF TypeOK, WorkerTypes, CallTypes
<1>4. \A q \in Rank : called[q] => called'[q]
    BY <1>2, <1>3
<1>5. (\A q \in Rank : Behind(q)' <=> Behind(q)) /\ (Together' <=> Together)
    BY <1>0 DEF Behind, Together
<1>6. \A q \in Rank : phase'[q] # "exit" /\ called'[q] => ABORT_FLAG'[q]
    BY <1>1, <1>3 DEF AbortsOwned
<1>7. \A q \in Rank : ~Behind(q)' /\ ABORT_FLAG'[q] => \E z \in Rank : ~Behind(z)' /\ called'[z]
  <2>. SUFFICES ASSUME NEW q \in Rank, ~Behind(q), ABORT_FLAG'[q]
       PROVE  \E z \in Rank : ~Behind(z) /\ called'[z]
      BY <1>5
  <2>1. CASE q = r
      BY <1>1, <1>3, <2>1
  <2>2. CASE q # r
    <3>1. PICK z \in Rank : ~Behind(z) /\ called[z]
        BY <1>3, <2>2 DEF AbortsOwned
    <3>. QED
        BY <1>4, <3>1
  <2>. QED
      BY <2>1, <2>2
<1>8. \A q \in Rank : Behind(q)' => ~ABORT_FLAG'[q]
    BY <1>1, <1>3, <1>5 DEF AbortsOwned
<1>9. \A m \in abort_reduces' : Behind(m.dst)' => ~m.flag
    BY <1>0 DEF AbortsOwned, Behind
<1>10. Together' /\ (\A q \in Rank : ~called'[q]) => \A q \in Rank : phase'[q] = "exit" => remaining'[q] = {}
    BY <1>0, <1>1, <1>4, <1>5 DEF AbortsOwned
<1>. QED
    BY <1>6, <1>7, <1>8, <1>9, <1>10 DEF AbortsOwned

(* Nor does the abort reduction set a flag of its own accord; if there is  *)
(* none to pass on, the rank returns with nothing left to do.              *)
LEMMA ReturnOwned ==
    ASSUME CallsInv, AbortsOwned, NEW r \in Rank, Return(r)
    PROVE  AbortsOwned'
<1>. USE RankFacts
<1>0. /\ CallTypes /\ TypeOK /\ WorkerTypes /\ UNCHANGED <<session, called>>
      /\ remaining' = [remaining EXCEPT ![r] = queue[r]] /\ Vote(r)
    BY DEF CallsInv, Overlapping, TypeOK, Return, AbortReduce
<1>1. (\A q \in Rank : Behind(q)' <=> Behind(q)) /\ (Together' <=> Together)
    BY <1>0 DEF Behind, Together
<1>2. remaining'[r] = queue[r] /\ \A q \in Rank : q # r => remaining'[q] = remaining[q]
    BY <1>0 DEF CallTypes
<1>3. phase[r] \in {"reduce", "await"}
    BY <1>0 DEF Vote, AbortReduceUp, AbortReduceDown
<1>4. CASE Together
  <2>0. OneCall /\ Barrier /\ AbortVote /\ ResultSound
      BY <1>4 DEF CallsInv, OneCall
  <2>1. /\ \A q \in Rank : ABORT_FLAG[q] => ABORT_FLAG'[q]
        /\ \A q \in Rank : q # r => phase'[q] = phase[q]
        /\ (\E q \in Rank : ABORT_FLAG'[q]) => \E q \in Rank : ABORT_FLAG[q]
      BY <1>0, <2>0, ReduceKeeps
  <2>2. \A q \in Rank : phase'[q] # "exit" /\ called'[q] => ABORT_FLAG'[q]
      BY <1>0, <1>3, <2>1 DEF AbortsOwned
  <2>3. \A q \in Rank : ~Behind(q)' /\ ABORT_FLAG'[q] => \E z \in Rank : ~Behind(z)' /\ called'[z]
      BY <1>0, <1>1, <1>4, <2>1 DEF AbortsOwned, Together
  <2>4. \A q \in Rank : ~Behind(q)'
      BY <1>1, <1>4 DEF Together
  <2>5. \A m \in abort_reduces' : ~Behind(m.dst)'
    <3>1. TypeOK'
        BY <1>0, CallSteps, TypeStep
    <3>2. \A m \in abort_reduces' : m.dst \in Rank
        BY <3>1 DEF TypeOK, WorkerTypes, Flags
    <3>. QED
        BY <2>4, <3>2
  <2>6. ASSUME \A q \in Rank : ~called'[q], NEW q \in Rank, phase'[q] = "exit"
        PROVE  remaining'[q] = {}
    <3>1. \A z \in Rank : ~called[z] /\ ~ABORT_FLAG[z]
        BY <1>0, <1>4, <2>6 DEF AbortsOwned, Together
    <3>2. CASE q # r
        BY <1>2, <1>4, <2>1, <2>6, <3>1, <3>2 DEF AbortsOwned
    <3>3. CASE q = r
      <4>1. Idle(r)
          BY <1>3, <2>0 DEF ResultSound, Quiet
      <4>2. queue[r] = {}
          BY <1>3, <3>1, <4>1 DEF Idle, NoWork
      <4>. QED
          BY <1>2, <3>3, <4>2
    <3>. QED
        BY <3>2, <3>3
  <2>. QED
      BY <2>2, <2>3, <2>4, <2>5, <2>6 DEF AbortsOwned
<1>5. CASE ~Together
  <2>0. Young /\ LastMessages
      BY <1>5 DEF CallsInv
  <2>1. PICK m \in abort_reduces : Behind(r) /\ m.dst = r /\ Finish(r, m.flag, abort_reduces \ {m})
      BY <1>0, <2>0, YoungReturns
  <2>2. /\ ABORT_FLAG' = [ABORT_FLAG EXCEPT ![r] = m.flag]
        /\ phase' = [phase EXCEPT ![r] = "exit"]
        /\ abort_reduces' = (abort_reduces \ {m}) \cup
              {[src |-> r, dst |-> c, flag |-> m.flag] : c \in child_ranks(r)}
        /\ ~m.flag
      BY <2>1 DEF Finish, AbortsOwned
  <2>3. /\ ~ABORT_FLAG'[r] /\ phase'[r] = "exit"
        /\ \A q \in Rank : q # r => phase'[q] = phase[q] /\ ABORT_FLAG'[q] = ABORT_FLAG[q]
    <3>1. ABORT_FLAG'[r] = m.flag
        BY <1>0, <2>2 DEF TypeOK, WorkerTypes
    <3>2. /\ phase'[r] = "exit"
          /\ \A q \in Rank : q # r => phase'[q] = phase[q] /\ ABORT_FLAG'[q] = ABORT_FLAG[q]
        BY <1>0, <2>2 DEF TypeOK, WorkerTypes
    <3>. QED
        BY <2>2, <3>1, <3>2
  <2>4. \A q \in Rank : phase'[q] # "exit" /\ called'[q] => ABORT_FLAG'[q]
      BY <1>0, <2>3 DEF AbortsOwned
  <2>5. \A q \in Rank : ~Behind(q)' /\ ABORT_FLAG'[q] => \E z \in Rank : ~Behind(z)' /\ called'[z]
      BY <1>0, <1>1, <2>3 DEF AbortsOwned
  <2>6. \A q \in Rank : Behind(q)' => ~ABORT_FLAG'[q]
      BY <1>1, <2>3 DEF AbortsOwned
  <2>7. \A n \in abort_reduces' : Behind(n.dst)' => ~n.flag
    <3>1. \A n \in abort_reduces' : n \in abort_reduces \/ ~n.flag
        BY <2>2
    <3>2. \A n \in abort_reduces : Behind(n.dst)' => Behind(n.dst)
        BY <1>0 DEF Behind
    <3>. QED
        BY <3>1, <3>2 DEF AbortsOwned
  <2>. QED
      BY <1>1, <1>5, <2>4, <2>5, <2>6, <2>7 DEF AbortsOwned
<1>. QED
    BY <1>4, <1>5

(* CIRCLE_begin finds no flag set that a call before has left, not even in *)
(* the last messages: the rank would not have returned with its own clear. *)
LEMMA BeginOwned ==
    ASSUME ~Reuse, CallsInv, AbortsOwned, NEW r \in Rank, CIRCLE_begin(r)
    PROVE  AbortsOwned'
<1>. USE RankFacts
<1>0. /\ CallTypes /\ TypeOK /\ \A q \in Rank : session[q] \in Nat
      /\ phase[r] = "exit" /\ ~ABORT_FLAG[r]
    BY DEF CallsInv, Overlapping, CallTypes, CIRCLE_begin
<1>1. NextIsYoung(r)
    BY <1>0, ReturnedNextIsYoung
<1>2. /\ UNCHANGED abort_reduces /\ phase'[r] = "loop" /\ session'[r] = session[r] + 1
      /\ ABORT_FLAG'[r] <=> called'[r]
      /\ \A q \in Rank : q # r =>
            /\ phase'[q] = phase[q] /\ ABORT_FLAG'[q] = ABORT_FLAG[q]
            /\ session'[q] = session[q] /\ called'[q] = called[q]
  <2>1. /\ UNCHANGED abort_reduces /\ phase'[r] = "loop" /\ session'[r] = session[r] + 1
        /\ ABORT_FLAG'[r] = (ABORT_FLAG[r] \/ called'[r])
        /\ \A q \in Rank : q # r =>
              /\ phase'[q] = phase[q] /\ ABORT_FLAG'[q] = ABORT_FLAG[q]
              /\ session'[q] = session[q] /\ called'[q] = called[q]
      BY <1>0, <1>1, BeginFacts
  <2>. QED
      BY <1>0, <2>1
<1>3. \A q \in Rank :
          \/ session[q] = session[r] /\ phase[q] \in {"await", "exit"}
          \/ session[q] = session[r] + 1 /\ phase[q] = "loop"
    BY <1>1 DEF NextIsYoung, Through
<1>4. /\ \A q \in Rank : session[q] = session[r] => ~ABORT_FLAG[q]
      /\ \A m \in abort_reduces : session[m.dst] = session[r] => ~m.flag
  <2>0. \A m \in abort_reduces : m.src \in Rank /\ m.dst \in Rank
      BY <1>0 DEF TypeOK, WorkerTypes, Flags
  <2>1. CASE Together
    <3>1. AbortVote
        BY <2>1 DEF CallsInv, OneCall
    <3>2. phase[0] = "exit"
        BY <1>0, <3>1, VotedTogether
    <3>3. \A q \in Rank : ~ABORT_FLAG[q]
        BY <1>0, <3>1, <3>2 DEF AbortVote
    <3>. QED
        BY <3>1, <3>3 DEF AbortVote
  <2>2. CASE ~Together
    <3>1. Young
        BY <2>2 DEF CallsInv
    <3>2. Behind(r)
        BY <1>0, <3>1 DEF Young
    <3>3. \A q \in Rank : session[q] = session[r] => Behind(q)
        BY <3>2 DEF Behind
    <3>. QED
        BY <2>0, <3>3 DEF AbortsOwned
  <2>. QED
      BY <2>1, <2>2
<1>5. \A q \in Rank :
          /\ session'[q] = session[r] \/ session'[q] = session[r] + 1
          /\ Behind(q)' <=> session'[q] = session[r]
          /\ session'[q] = session[r] <=> (q # r /\ session[q] = session[r])
  <2>1. \A q \in Rank : session'[q] = session[r] \/ session'[q] = session[r] + 1
      BY <1>2, <1>3
  <2>2. \A q \in Rank : Behind(q)' <=> session'[q] = session[r]
      BY <1>0, <1>2, <2>1 DEF Behind
  <2>3. ASSUME NEW q \in Rank PROVE session'[q] = session[r] <=> (q # r /\ session[q] = session[r])
    <3>1. session[r] \in Nat /\ session'[r] # session[r]
        BY <1>0, <1>2
    <3>. QED
        BY <1>2, <3>1
  <2>. QED
      BY <2>1, <2>2, <2>3
<1>6. \A q \in Rank : phase'[q] # "exit" /\ called'[q] => ABORT_FLAG'[q]
    BY <1>2 DEF AbortsOwned
<1>7. \A q \in Rank : ~Behind(q)' /\ ABORT_FLAG'[q] => \E z \in Rank : ~Behind(z)' /\ called'[z]
  <2>. SUFFICES ASSUME NEW q \in Rank, ~Behind(q)', ABORT_FLAG'[q]
       PROVE  \E z \in Rank : ~Behind(z)' /\ called'[z]
      OBVIOUS
  <2>1. CASE q = r
      BY <1>2, <2>1
  <2>2. CASE q # r
    <3>1. ABORT_FLAG[q] /\ session[q] = session[r] + 1
        BY <1>2, <1>3, <1>5, <2>2
    <3>2. ~Behind(q)
        BY <1>0, <1>3, <3>1 DEF Behind
    <3>3. PICK z \in Rank : ~Behind(z) /\ called[z]
        BY <3>1, <3>2 DEF AbortsOwned
    <3>4. session[z] = session[r] + 1 /\ z # r
        BY <1>0, <1>3, <3>1, <3>3 DEF Behind
    <3>. QED
        BY <1>0, <1>2, <1>5, <3>3, <3>4
  <2>. QED
      BY <2>1, <2>2
<1>8. \A q \in Rank : Behind(q)' => ~ABORT_FLAG'[q]
    BY <1>2, <1>4, <1>5
<1>9. \A m \in abort_reduces' : Behind(m.dst)' => ~m.flag
  <2>1. \A m \in abort_reduces : m.dst \in Rank
      BY <1>0 DEF TypeOK, WorkerTypes, Flags
  <2>. QED
      BY <1>2, <1>4, <1>5, <2>1
<1>10. Together' => \A q \in Rank : phase'[q] # "exit"
  <2>. SUFFICES ASSUME Together', NEW q \in Rank, q # r PROVE phase'[q] # "exit"
      BY <1>2
  <2>1. session[q] = session[r] + 1
      BY <1>3, <1>5 DEF Together
  <2>. QED
      BY <1>0, <1>2, <1>3, <2>1
<1>. QED
    BY <1>6, <1>7, <1>8, <1>9, <1>10 DEF AbortsOwned

(* A new job starts with every flag clear.                                 *)
LEMMA NewJobOwned ==
    ASSUME CallsInv, AbortsOwned, NewJob
    PROVE  AbortsOwned'
<1>1. /\ ABORT_FLAG' = [q \in Rank |-> FALSE]
      /\ UNCHANGED <<phase, abort_reduces, session, called, remaining>>
      /\ Returned
    BY DEF NewJob, sessionVars
<1>2. Together /\ abort_reduces = {}
    BY <1>1, AllReturned
<1>3. \A q \in Rank : ~ABORT_FLAG'[q] /\ phase'[q] = "exit"
    BY <1>1 DEF Returned
<1>4. Together' <=> Together
    BY <1>1 DEF Together, Behind
<1>5. Together' /\ (\A q \in Rank : ~called'[q]) => \A q \in Rank : phase'[q] = "exit" => remaining'[q] = {}
    BY <1>1, <1>4 DEF AbortsOwned
<1>. QED
    BY <1>1, <1>2, <1>3, <1>5 DEF AbortsOwned

(* Every step keeps the flags accounted for.                               *)
LEMMA OwnedStep ==
    ASSUME ~Reuse
    PROVE  CallsInv /\ AbortsOwned /\ [SessionNext]_allVars => AbortsOwned'
<1>. SUFFICES ASSUME CallsInv, AbortsOwned, [SessionNext]_allVars PROVE AbortsOwned'
    OBVIOUS
<1>1. CASE UNCHANGED allVars
  <2>1. UNCHANGED <<phase, ABORT_FLAG, abort_reduces, session, called, remaining>>
      BY <1>1 DEF allVars, vars, workerVars, workVars, abortVars, sessionVars
  <2>. QED
      BY <2>1 DEF AbortsOwned, Together, Behind
<1>2. ASSUME NEW r \in Rank, SessionStep(r) PROVE AbortsOwned'
    BY <1>2, InnerOwned, CallbackOwned, ReturnOwned, BeginOwned DEF SessionStep
<1>. QED
    BY <1>1, <1>2, NewJobOwned DEF SessionNext, Finished

(* A first call has no flag but those its own create_cb sets.              *)
LEMMA OwnedInit == SessionInit => AbortsOwned
<1>. SUFFICES ASSUME SessionInit PROVE AbortsOwned
    OBVIOUS
<1>1. /\ session = [q \in Rank |-> 1] /\ called = ABORT_FLAG
      /\ remaining = [q \in Rank |-> {}] /\ abort_reduces = {}
    BY DEF SessionInit, Init, WorkerInit, AbortInit
<1>2. \A q \in Rank : ~Behind(q)
    BY <1>1 DEF Behind
<1>. QED
    BY <1>1, <1>2 DEF AbortsOwned

(* CIRCLE_begin does all the work it was given unless a callback of that   *)
(* call aborts it, for any number of ranks, any tree and any number of     *)
(* calls and restarts; provided that no rank calls it again in a process   *)
(* whose last call was aborted, whose flag is still set.                   *)
THEOREM BeginCompletesHolds ==
    ASSUME ~Reuse
    PROVE  SessionSpec => []BeginCompletes
<1>1. SessionInit => CallsInv /\ AbortsOwned
    BY CallsInit, OwnedInit
<1>2. CallsInv /\ AbortsOwned /\ [SessionNext]_allVars => (CallsInv /\ AbortsOwned)'
    BY CallsStep, OwnedStep
<1>3. CallsInv /\ AbortsOwned => BeginCompletes
  <2>. SUFFICES ASSUME CallsInv, AbortsOwned, Returned,
                       \A q, r \in Rank : session[q] = session[r] /\ ~called[r],
                       NEW r \in Rank
       PROVE  remaining[r] = {}
      BY DEF BeginCompletes
  <2>1. Together
      BY AllReturned
  <2>. QED
      BY <2>1 DEF AbortsOwned, Returned
<1>. QED
    BY <1>1, <1>2, <1>3, PTL DEF SessionSpec

(* What AbortSticks says of a step.                                        *)
Stuck(q) == /\ ABORT_FLAG'[q]
            /\ queue[q] \subseteq queue'[q] \cup checkpointed'

(* A step of a rank in a call leaves an aborted rank aborted, with its     *)
(* items in the queue or in its checkpoint.                                *)
LEMMA CallSticks ==
    ASSUME CallsInv, AbortsOwned, NEW r \in Rank, InnerStep(r) \/ Callback(r) \/ Return(r),
           NEW q \in Rank, ABORT_FLAG[q]
    PROVE  Stuck(q)
<1>. USE DEF Stuck
<1>0. WorkerTypes /\ Conversation /\ [WorkerNext]_workerVars
    BY CallSteps DEF CallsInv, Overlapping, TypeOK
<1>1. CASE InnerStep(r) \/ Callback(r)
  <2>1. phase[r] \in {"loop", "cleanup"} /\ OneRank(r)
      BY <1>1, InnerSteps, CallTypesSuffice DEF CallsInv, Overlapping
  <2>2. \A v \in Rank : phase[v] \in {"reduce", "await"} => phase'[v] = phase[v]
      BY <1>0, <2>1 DEF OneRank, WorkerTypes
  <2>3. \A v \in Rank : Vote(v) => phase[v] \in {"reduce", "await"} /\ phase'[v] # phase[v]
      BY <1>0 DEF Vote, AbortReduceUp, AbortReduceDown, Finish, GoTo, WorkerTypes
  <2>4. ~\E v \in Rank : Vote(v)
      BY <2>2, <2>3
  <2>. QED
      BY <1>0, <2>4, FlagsOnlyRise, QueueSteps
<1>2. CASE Return(r) /\ Together
  <2>1. Barrier /\ AbortVote /\ Vote(r)
      BY <1>2 DEF CallsInv, OneCall, Return, AbortReduce
  <2>2. /\ ABORT_FLAG'[q]
        /\ q # r => queue'[q] = queue[q]
        /\ queue[r] \subseteq queue'[r] \cup checkpointed'
      BY <1>0, <2>1, ReduceKeeps
  <2>. QED
      BY <2>2
<1>3. CASE Return(r) /\ ~Together
  <2>1. CallTypes /\ TypeOK /\ Young /\ LastMessages
      BY <1>3 DEF CallsInv, Overlapping
  <2>2. PICK m \in abort_reduces : Behind(r) /\ m.dst = r /\ Finish(r, m.flag, abort_reduces \ {m})
      BY <1>3, <2>1, YoungReturns
  <2>3. q # r
      BY <2>2 DEF AbortsOwned
  <2>4. ABORT_FLAG'[q] = ABORT_FLAG[q] /\ queue'[q] = queue[q]
      BY <1>0, <2>2, <2>3 DEF Finish, WorkerTypes
  <2>. QED
      BY <2>4
<1>. QED
    BY <1>1, <1>2, <1>3

(* Through any number of calls and restarts an aborted rank stays aborted  *)
(* until it returns, and its items go nowhere but into its checkpoint.     *)
THEOREM AbortSticksInCalls ==
    ASSUME ~Reuse
    PROVE  SessionSpec => AbortSticks
<1>1. SessionInit => CallsInv /\ AbortsOwned
    BY CallsInit, OwnedInit
<1>2. CallsInv /\ AbortsOwned /\ [SessionNext]_allVars => (CallsInv /\ AbortsOwned)'
    BY CallsStep, OwnedStep
<1>3. CallsInv /\ AbortsOwned /\ [SessionNext]_allVars =>
         [\A r \in Rank : ABORT_FLAG[r] /\ phase[r] # "exit" =>
            /\ ABORT_FLAG'[r]
            /\ queue[r] \subseteq queue'[r] \cup checkpointed']_vars
  <2>. SUFFICES ASSUME CallsInv, AbortsOwned, [SessionNext]_allVars,
                       NEW q \in Rank, ABORT_FLAG[q], phase[q] # "exit"
       PROVE  Stuck(q)
      BY DEF Stuck
  <2>1. CASE UNCHANGED allVars
    <3>1. UNCHANGED <<ABORT_FLAG, queue>>
        BY <2>1 DEF allVars, vars, workerVars, workVars
    <3>. QED
        BY <3>1 DEF Stuck
  <2>2. CASE \E r \in Rank : InnerStep(r) \/ Callback(r) \/ Return(r)
      BY <2>2, CallSticks
  <2>3. ASSUME NEW r \in Rank, CIRCLE_begin(r) PROVE Stuck(q)
    <3>1. WorkerTypes
        BY DEF CallsInv, Overlapping, TypeOK
    <3>2. phase[r] = "exit" /\ q # r
        BY <2>3 DEF CIRCLE_begin
    <3>3. ABORT_FLAG'[q] = ABORT_FLAG[q] /\ queue'[q] = queue[q]
        BY <2>3, <3>1, <3>2 DEF CIRCLE_begin, WorkerTypes
    <3>. QED
        BY <3>3 DEF Stuck
  <2>4. ~NewJob
      BY DEF NewJob, Returned
  <2>. QED
      BY <2>1, <2>2, <2>3, <2>4 DEF SessionNext, SessionStep, Finished
<1>. QED
    BY <1>1, <1>2, <1>3, PTL DEF SessionSpec, AbortSticks

-----------------------------------------------------------------------------
(* The checkpoint files are what is left to do.                            *)

(* What has been checkpointed, item by item.                               *)
FilesByItem ==
    /\ \A x : x \in checkpointed <=> \E r \in Rank : Filed(r) /\ x \in file[r]
    /\ \A q, r \in Rank : q # r /\ Filed(q) /\ Filed(r) => file[q] \cap file[r] = {}

(* FilesConserve, item by item.                                            *)
LEMMA FilesPointwise == FilesConserve <=> (~stale => ItemByItem /\ FilesByItem)
<1>. DEFINE all == UNION {file[r] : r \in {q \in Rank : Filed(q)}}
<1>1. \A x : x \in all <=> \E r \in Rank : Filed(r) /\ x \in file[r]
    BY Zenon
<1>. HIDE DEF all
<1>2. checkpointed = all <=> \A x : x \in checkpointed <=> \E r \in Rank : Filed(r) /\ x \in file[r]
    BY <1>1
<1>. QED
    BY <1>2, ConservedPointwise, Zenon DEF FilesConserve, FilesByItem, all

(* The steps of a call before its end leave the files alone.               *)
LEMMA InnerFiles ==
    ASSUME CallsInv, FilesConserve, NEW r \in Rank, InnerStep(r) \/ Callback(r)
    PROVE  FilesConserve'
<1>0. CallTypes /\ TypeOK /\ SessionTypes /\ Conversation /\ WorkerTypes
    BY CallTypesSuffice DEF CallsInv, Overlapping, TypeOK
<1>1. UNCHANGED <<file, remaining, stale>>
    BY DEF InnerStep, Callback, sessionVars
<1>2. \A q \in Rank : Filed(q)' <=> Filed(q)
    BY <1>0, <1>1, InnerSteps, OneRankFacts DEF Filed
<1>3. UNCHANGED checkpointed
  <2>1. CASE WorkReq(r) \/ WorkReceipt(r) \/ RequestWork(r) \/ ProcessItem(r)
      BY <2>1 DEF WorkReq, Serve, WorkReceipt, CountReceipts, RequestWork, Ask, ProcessItem,
         Work, abortVars
  <2>2. CASE AbortCheck(r) \/ AbortReplies(r)
      BY <2>2 DEF AbortCheck, Flood, AbortReplies, FloodEnds, CIRCLE_abort_check, AbortTest
  <2>3. CASE TermCheck(r) \/ LoopAgain(r) \/ CleanupIteration(r)
      BY <2>3, TermTurns DEF Turn, abortVars
  <2>4. CASE BarrierStart(r) \/ BarrierTest(r)
      BY <2>4 DEF BarrierStart, EnterBarrier, BarrierTest, TestBarrier, abortVars
  <2>. QED
      BY <2>1, <2>2, <2>3, <2>4 DEF InnerStep, Callback
<1>4. WorkConserved => WorkConserved'
  <2>1. [Next]_vars /\ [WorkerNext]_workerVars
      BY CallSteps
  <2>2. WorkerTypes'
      BY <1>0, <2>1, TypeStep DEF TypeOK
  <2>. QED
      BY <1>0, <2>1, <2>2, ConservedStep
<1>5. {q \in Rank : Filed(q)'} = {q \in Rank : Filed(q)}
    BY <1>2
<1>. QED
    BY <1>1, <1>2, <1>3, <1>4, <1>5 DEF FilesConserve

(* A rank that returns aborted writes what was in its queue, which no      *)
(* other rank has written; one that had nothing to write has no file of    *)
(* its own.                                                                *)
LEMMA ReturnFiles ==
    ASSUME CallsInv, FilesConserve, NEW r \in Rank, Return(r)
    PROVE  FilesConserve'
<1>0. CallTypes /\ TypeOK /\ Conversation /\ WorkerTypes
    BY DEF CallsInv, Overlapping, TypeOK
<1>1. WorkConserved => WorkConserved'
  <2>1. [Next]_vars /\ [WorkerNext]_workerVars
      BY CallSteps
  <2>2. WorkerTypes'
      BY <1>0, <2>1, TypeStep DEF TypeOK
  <2>. QED
      BY <1>0, <2>1, <2>2, ConservedStep
<1>2. /\ AbortReduceUp(r) \/ AbortReduceDown(r)
      /\ file' = [file EXCEPT ![r] = IF phase'[r] = "exit" /\ ABORT_FLAG'[r] THEN Dump(r) ELSE @]
      /\ remaining' = [remaining EXCEPT ![r] = queue[r]]
      /\ UNCHANGED stale
    BY DEF Return, AbortReduce, Vote
<1>3. /\ ~Filed(r) /\ phase[r] # "exit" /\ remaining'[r] = queue[r]
      /\ file'[r] = (IF phase'[r] = "exit" /\ ABORT_FLAG'[r] THEN Dump(r) ELSE file[r])
      /\ \A q \in Rank : q # r => file'[q] = file[q] /\ remaining'[q] = remaining[q]
    BY <1>0, <1>2 DEF AbortReduceUp, AbortReduceDown, Filed, Wrote, CallTypes
<1>4. \/ GoTo(r, "await", 1) /\ UNCHANGED <<ABORT_FLAG, checkpointed>>
      \/ \E flag \in BOOLEAN : \E rest : Finish(r, flag, rest)
  <2>1. \A m \in abort_reduces : m.flag \in BOOLEAN
      BY <1>0 DEF WorkerTypes, Flags
  <2>2. (ABORT_FLAG[r] \/ \E m \in FromChildren(r) : m.flag) \in BOOLEAN
      OBVIOUS
  <2>. QED
      BY <1>2, <2>1, <2>2 DEF AbortReduceUp, AbortReduceDown
<1>5. SUFFICES ASSUME ~stale' PROVE ItemByItem' /\ FilesByItem'
  <2>1. (~stale' => ItemByItem' /\ FilesByItem') => FilesConserve'
      BY FilesPointwise, PTL
  <2>. QED
      BY <1>5, <2>1
<1>6. ~stale /\ (phase'[r] = "exit" /\ ABORT_FLAG'[r] /\ queue[r] # {} => file'[r] = queue[r])
    BY <1>2, <1>3, <1>5 DEF Dump
<1>7. /\ ItemByItem /\ FilesByItem /\ WorkConserved /\ WorkConserved'
      /\ queue[r] \cap checkpointed = {}
    BY <1>1, <1>6, FilesPointwise, ConservedPointwise DEF FilesConserve, WorkConserved
<1>8. ItemByItem'
    BY <1>7, ConservedPointwise, PTL
<1>9. CASE GoTo(r, "await", 1) /\ UNCHANGED <<ABORT_FLAG, checkpointed>>
  <2>1. phase'[r] = "await" /\ \A q \in Rank : q # r => phase'[q] = phase[q]
      BY <1>0, <1>9 DEF GoTo, WorkerTypes
  <2>2. \A q \in Rank : (Filed(q)' <=> Filed(q)) /\ (Filed(q) => file'[q] = file[q])
      BY <1>3, <1>9, <2>1 DEF Filed, Wrote
  <2>. QED
      BY <1>7, <1>8, <1>9, <2>2 DEF FilesByItem
<1>10. ASSUME NEW flag \in BOOLEAN, NEW rest, Finish(r, flag, rest) PROVE FilesByItem'
  <2>1. /\ phase'[r] = "exit" /\ (ABORT_FLAG'[r] <=> flag)
        /\ \A q \in Rank : q # r => phase'[q] = phase[q] /\ ABORT_FLAG'[q] = ABORT_FLAG[q]
    <3>1. ABORT_FLAG' = [ABORT_FLAG EXCEPT ![r] = flag] /\ phase' = [phase EXCEPT ![r] = "exit"]
        BY <1>10 DEF Finish
    <3>2. ABORT_FLAG'[r] = flag
        BY <1>0, <3>1 DEF WorkerTypes
    <3>3. phase'[r] = "exit" /\ \A q \in Rank : q # r => phase'[q] = phase[q] /\ ABORT_FLAG'[q] = ABORT_FLAG[q]
        BY <1>0, <3>1 DEF WorkerTypes
    <3>. QED
        BY <3>2, <3>3
  <2>2. checkpointed' = IF flag THEN checkpointed \cup queue[r] ELSE checkpointed
      BY <1>10 DEF Finish
  <2>3. /\ Filed(r)' <=> flag /\ queue[r] # {}
        /\ flag /\ queue[r] # {} => file'[r] = queue[r]
        /\ \A q \in Rank : q # r => (Filed(q)' <=> Filed(q)) /\ file'[q] = file[q]
      BY <1>3, <1>6, <2>1 DEF Filed, Wrote
  <2>4. \A x : x \in checkpointed' <=> \E q \in Rank : Filed(q)' /\ x \in file'[q]
    <3>. TAKE x
    <3>1. x \in checkpointed <=> \E q \in Rank : q # r /\ Filed(q)' /\ x \in file'[q]
        BY <1>3, <1>7, <2>3 DEF FilesByItem
    <3>2. x \in checkpointed' <=> x \in checkpointed \/ (flag /\ x \in queue[r])
        BY <2>2
    <3>. QED
        BY <2>3, <3>1, <3>2
  <2>5. ASSUME NEW p \in Rank, NEW q \in Rank, p # q, Filed(p)', Filed(q)'
        PROVE  file'[p] \cap file'[q] = {}
    <3>1. ASSUME NEW z \in Rank, z # r, Filed(z)' PROVE file'[z] \cap checkpointed = file'[z]
        BY <1>7, <2>3, <3>1 DEF FilesByItem
    <3>2. CASE p # r /\ q # r
        BY <1>7, <2>3, <2>5, <3>2 DEF FilesByItem
    <3>3. CASE p = r
        BY <1>7, <2>3, <2>5, <3>1, <3>3
    <3>4. CASE q = r
        BY <1>7, <2>3, <2>5, <3>1, <3>4
    <3>. QED
        BY <3>2, <3>3, <3>4
  <2>. QED
      BY <2>4, <2>5 DEF FilesByItem
<1>. QED
    BY <1>4, <1>8, <1>9, <1>10

(* A rank that calls CIRCLE_begin again has not written a file since the   *)
(* job was started; its new items are nowhere yet.                         *)
LEMMA BeginFiles ==
    ASSUME ~Reuse, CallsInv, FilesConserve, NEW r \in Rank, CIRCLE_begin(r)
    PROVE  FilesConserve'
<1>0. CallTypes /\ TypeOK /\ WorkerTypes /\ phase[r] = "exit" /\ ~ABORT_FLAG[r]
    BY DEF CallsInv, Overlapping, TypeOK, CIRCLE_begin
<1>1. NextIsYoung(r)
    BY <1>0, ReturnedNextIsYoung
<1>2. /\ UNCHANGED <<file, remaining, stale, checkpointed, replies>> /\ phase'[r] = "loop"
      /\ \A q \in Rank : q # r =>
            phase'[q] = phase[q] /\ ABORT_FLAG'[q] = ABORT_FLAG[q] /\ queue'[q] = queue[q]
    BY <1>0, <1>1, BeginFacts
<1>3. PICK new \in SUBSET (Item \ created), done \in SUBSET queue[r] :
          /\ queue' = [queue EXCEPT ![r] = (@ \ done) \cup new]
          /\ created' = created \cup new
          /\ processed' = processed \cup done
    BY DEF CIRCLE_begin
<1>4. queue'[r] = (queue[r] \ done) \cup new
    BY <1>0, <1>3 DEF WorkerTypes
<1>5. \A q \in Rank : Filed(q)' <=> Filed(q)
    BY <1>0, <1>2 DEF Filed, Wrote
<1>6. SUFFICES ASSUME ~stale PROVE ItemByItem' /\ FilesByItem'
  <2>1. (~stale' => ItemByItem' /\ FilesByItem') => FilesConserve'
      BY FilesPointwise, PTL
  <2>. QED
      BY <1>2, <1>6, <2>1
<1>7. ItemByItem /\ FilesByItem
    BY <1>6, FilesPointwise
<1>8. FilesByItem'
    BY <1>2, <1>5, <1>7 DEF FilesByItem
<1>9. \A x : x \in created <=> Somewhere(x)
    BY <1>7 DEF ItemByItem
<1>10. \A x \in new : /\ x \notin processed /\ x \notin checkpointed
                      /\ \A q \in Rank : x \notin queue[q]
                      /\ \A m \in replies : x \notin m.items
    BY <1>9 DEF Somewhere
<1>11. \A x : x \in created' <=> Somewhere(x)'
  <2>. TAKE x
  <2>1. CASE x \in new
      BY <1>3, <1>4, <2>1 DEF Somewhere
  <2>2. CASE x \notin new
    <3>1. (\E q \in Rank : x \in queue[q]) <=> (x \in done \/ \E q \in Rank : x \in queue'[q])
        BY <1>2, <1>4, <2>2
    <3>2. x \in processed' <=> x \in processed \/ x \in done
        BY <1>3
    <3>3. x \in created' <=> x \in created
        BY <1>3, <2>2
    <3>. QED
        BY <1>2, <1>9, <3>1, <3>2, <3>3 DEF Somewhere
  <2>. QED
      BY <2>1, <2>2
<1>12. NoDuplicates'
  <2>0. NoDuplicates
      BY <1>7 DEF ItemByItem
  <2>1. ASSUME NEW q \in Rank, q # r PROVE queue'[q] \cap queue'[r] = {}
      BY <1>2, <1>4, <1>10, <2>0, <2>1 DEF NoDuplicates
  <2>2. \A p, q \in Rank : p # q => queue'[p] \cap queue'[q] = {}
      BY <1>2, <2>0, <2>1 DEF NoDuplicates
  <2>3. \A q \in Rank, m \in replies : queue'[q] \cap m.items = {}
      BY <1>2, <1>4, <1>10, <2>0 DEF NoDuplicates
  <2>4. \A q \in Rank : queue'[q] \cap (processed' \cup checkpointed) = {}
    <3>1. queue'[r] \cap (processed' \cup checkpointed) = {}
        BY <1>3, <1>4, <1>10, <2>0 DEF NoDuplicates
    <3>2. \A q \in Rank : q # r => queue'[q] \cap (processed' \cup checkpointed) = {}
        BY <1>2, <1>3, <2>0 DEF NoDuplicates
    <3>. QED
        BY <3>1, <3>2
  <2>5. \A m \in replies : m.items \cap (processed' \cup checkpointed) = {}
      BY <1>3, <2>0 DEF NoDuplicates
  <2>6. processed' \cap checkpointed = {}
      BY <1>3, <2>0 DEF NoDuplicates
  <2>7. \A m, n \in replies : m # n => m.items \cap n.items = {}
      BY <2>0 DEF NoDuplicates
  <2>. QED
      BY <1>2, <2>2, <2>3, <2>4, <2>5, <2>6, <2>7 DEF NoDuplicates
<1>. QED
    BY <1>8, <1>11, <1>12 DEF ItemByItem

(* A new job has in its queues what the files hold.                        *)
LEMMA NewJobFiles ==
    ASSUME KeptInv, CallsInv, FilesConserve, NewJob
    PROVE  FilesConserve'
<1>0. /\ \A q \in Rank : Wrote(q)
      /\ \A q \in Rank : queue[q] = {}
      /\ Returned
    BY DEF NewJob, Returned, Wrote, KeptInv, ItemsKept
<1>1. replies = {}
    BY <1>0, AllReturned
<1>2. /\ queue' = file /\ ABORT_FLAG' = [q \in Rank |-> FALSE]
      /\ UNCHANGED <<created, processed, replies, file>>
      /\ stale' = (stale \/ LeftBehind # {})
      /\ checkpointed' = checkpointed \ UNION {file[q] : q \in Rank}
    BY DEF NewJob, sessionVars
<1>3. \A q \in Rank : ~Filed(q)'
    BY <1>2 DEF Filed, Wrote
<1>4. SUFFICES ASSUME ~stale, LeftBehind = {} PROVE ItemByItem' /\ FilesByItem'
  <2>1. (~stale' => ItemByItem' /\ FilesByItem') => FilesConserve'
      BY FilesPointwise, PTL
  <2>. QED
      BY <1>2, <1>4, <2>1
<1>5. /\ ItemByItem /\ FilesByItem
      /\ \A x : x \in checkpointed <=> \E q \in Rank : x \in file[q]
      /\ \A p, q \in Rank : p # q => file[p] \cap file[q] = {}
  <2>1. ItemByItem /\ FilesByItem
      BY <1>4, FilesPointwise
  <2>2. \A q \in Rank : Filed(q) \/ file[q] = {}
      BY <1>0, <1>4 DEF LeftBehind, Filed
  <2>3. \A x : x \in checkpointed <=> \E q \in Rank : x \in file[q]
      BY <2>1, <2>2 DEF FilesByItem
  <2>4. \A p, q \in Rank : p # q => file[p] \cap file[q] = {}
      BY <2>1, <2>2 DEF FilesByItem
  <2>. QED
      BY <2>1, <2>3, <2>4
<1>6. checkpointed' = {}
    BY <1>2, <1>5
<1>7. FilesByItem'
    BY <1>3, <1>6 DEF FilesByItem
<1>8. \A x : x \in created' <=> Somewhere(x)'
    BY <1>0, <1>1, <1>2, <1>5, <1>6 DEF ItemByItem, Somewhere
<1>9. NoDuplicates'
    BY <1>1, <1>2, <1>5, <1>6 DEF ItemByItem, NoDuplicates
<1>. QED
    BY <1>7, <1>8, <1>9 DEF ItemByItem

(* Every step keeps the files as they should be.                           *)
LEMMA FilesStep ==
    ASSUME ~Reuse
    PROVE  KeptInv /\ CallsInv /\ FilesConserve /\ [SessionNext]_allVars => FilesConserve'
<1>. SUFFICES ASSUME KeptInv, CallsInv, FilesConserve, [SessionNext]_allVars PROVE FilesConserve'
    OBVIOUS
<1>1. CASE UNCHANGED allVars
  <2>1. UNCHANGED <<phase, ABORT_FLAG, queue, created, processed, replies, checkpointed, file, remaining, stale>>
      BY <1>1 DEF allVars, vars, workerVars, workVars, abortVars, sessionVars
  <2>. QED
      BY <2>1 DEF FilesConserve, WorkConserved, Filed, Wrote
<1>2. ASSUME NEW r \in Rank, SessionStep(r) PROVE FilesConserve'
    BY <1>2, InnerFiles, ReturnFiles, BeginFiles DEF SessionStep
<1>. QED
    BY <1>1, <1>2, NewJobFiles DEF SessionNext, Finished

(* After an abort the files hold exactly what is left to do, each item     *)
(* once, if and only if no rank with an empty queue has left the file of   *)
(* an earlier abort behind: for any number of ranks, any tree and any      *)
(* number of calls, aborts and restarts, until such a file is read, and    *)
(* provided that no rank calls CIRCLE_begin again in a process whose last  *)
(* call was aborted.                                                       *)
THEOREM FilesAreTheRestHolds ==
    ASSUME ~Reuse
    PROVE  SessionSpec => []FilesAreTheRest
<1>. DEFINE Inv == KeptInv /\ CallsInv /\ FilesConserve
<1>1. SessionInit => Inv
  <2>. SUFFICES ASSUME SessionInit PROVE FilesConserve
      BY KeptInit, CallsInit
  <2>1. WorkConserved
      BY ConservedInit DEF SessionInit, Init
  <2>2. checkpointed = {} /\ \A r \in Rank : phase[r] = "loop"
      BY DEF SessionInit, Init, WorkerInit, AbortInit, WorkInit
  <2>3. \A r \in Rank : ~Filed(r)
      BY <2>2 DEF Filed, Wrote
  <2>. QED
      BY <2>1, <2>2, <2>3 DEF FilesConserve
<1>2. Inv /\ [SessionNext]_allVars => Inv'
    BY KeptStep, CallsStep, FilesStep
<1>3. Inv => FilesAreTheRest
  <2>. SUFFICES ASSUME Inv, Returned, \A r \in Rank : ABORT_FLAG[r], ~stale
       PROVE  LeftBehind = {} <=>
                  /\ UNION {file[r] : r \in Rank} = created \ processed
                  /\ \A q, r \in Rank : q # r => file[q] \cap file[r] = {}
      BY DEF FilesAreTheRest
  <2>1. /\ \A q \in Rank : Wrote(q)
        /\ \A q \in Rank : queue[q] = {}
        /\ replies = {}
      BY AllReturned DEF Returned, Wrote, KeptInv, ItemsKept
  <2>2. /\ \A x : x \in created <=> Somewhere(x)
        /\ NoDuplicates /\ FilesByItem
      BY FilesPointwise DEF ItemByItem
  <2>3. \A x : x \in created <=> x \in processed \/ x \in checkpointed
      BY <2>1, <2>2 DEF Somewhere
  <2>4. processed \cap checkpointed = {}
      BY <2>2 DEF NoDuplicates
  <2>5. \A q \in Rank : q \notin LeftBehind <=> Filed(q) \/ file[q] = {}
      BY <2>1 DEF LeftBehind, Filed
  <2>6. ASSUME LeftBehind = {}
        PROVE  /\ UNION {file[r] : r \in Rank} = created \ processed
               /\ \A q, r \in Rank : q # r => file[q] \cap file[r] = {}
    <3>1. \A x : x \in checkpointed <=> \E r \in Rank : x \in file[r]
        BY <2>2, <2>5, <2>6 DEF FilesByItem
    <3>2. UNION {file[r] : r \in Rank} = created \ processed
        BY <2>3, <2>4, <3>1
    <3>3. \A q, r \in Rank : q # r => file[q] \cap file[r] = {}
        BY <2>2, <2>5, <2>6 DEF FilesByItem
    <3>. QED
        BY <3>2, <3>3
  <2>7. ASSUME UNION {file[r] : r \in Rank} = created \ processed,
               \A q, r \in Rank : q # r => file[q] \cap file[r] = {},
               LeftBehind # {}
        PROVE  FALSE
    <3>1. PICK r \in Rank : remaining[r] = {} /\ file[r] # {}
        BY <2>7 DEF LeftBehind
    <3>2. PICK x : x \in file[r]
        BY <3>1
    <3>3. x \in checkpointed
        BY <2>3, <2>7, <3>2
    <3>4. PICK q \in Rank : Filed(q) /\ x \in file[q]
        BY <2>2, <3>3 DEF FilesByItem
    <3>5. q # r
        BY <3>1, <3>4 DEF Filed
    <3>. QED
        BY <2>7, <3>2, <3>4, <3>5
  <2>. QED
      BY <2>6, <2>7
<1>. QED
    BY <1>1, <1>2, <1>3, PTL DEF SessionSpec
=============================================================================
