-------------------------- MODULE CircleSendProofs --------------------------
(***************************************************************************)
(* Tracking the non-blocking sends restricts the tree worker and adds      *)
(* nothing to it, and leaves no send behind.                               *)
(***************************************************************************)
EXTENDS CircleSends, CircleTreeProofs, SequenceTheorems

(* The tests of completed sends change nothing but the lists of sends.     *)
Collect(r) ==
    TestRequest(r) \/ CIRCLE_worksend_check(r) \/ WalkedOnly(r) \/ CIRCLE_worksend_wait(r)

(* A step with tracked sends is a step of the tree worker or a stutter.    *)
LEMMA TrackedStep ==
    ASSUME NEW r \in Rank, SendStep(r)
    PROVE  Step(r) \/ (Collect(r) /\ UNCHANGED vars)
<1>1. CASE TrackReplies(r) \/ TakeReceipts(r) \/ TrackRequest(r)
    BY <1>1 DEF TrackReplies, TakeReceipts, TrackRequest, Step
<1>2. CASE Collect(r)
    BY <1>2 DEF Collect, TestRequest, CIRCLE_worksend_check, WalkedOnly, CIRCLE_worksend_wait
<1>3. CASE BarrierWhenSent(r) \/ BarrierTestFirst(r) \/ AbortReduceSent(r)
    BY <1>3 DEF BarrierWhenSent, BarrierTestFirst, AbortReduceSent, Step
<1>4. CASE OtherStep(r)
    BY <1>4 DEF OtherStep, Step
<1>. QED
    BY <1>1, <1>2, <1>3, <1>4 DEF SendStep, Collect

(* The worker with tracked sends (CIRCLE_worksend_track and its tests)     *)
(* implements the one that forgets them, however late sends complete.      *)
THEOREM SendsImplementTree == SendSpec => Spec
<1>1. SendInit => Init
    BY DEF SendInit
<1>2. [SendNext]_allVars => [Next]_vars
  <2>1. ASSUME NEW r \in Rank, SendStep(r) PROVE [Next]_vars
      BY <2>1, TrackedStep DEF Next
  <2>2. CASE Done /\ UNCHANGED sendVars
      BY <2>2 DEF Next
  <2>3. CASE UNCHANGED allVars
      BY <2>3 DEF allVars
  <2>. QED
      BY <2>1, <2>2, <2>3 DEF SendNext
<1>. QED
    BY <1>1, <1>2, PTL DEF SendSpec, Spec

-----------------------------------------------------------------------------
(* Nothing is tracked once CIRCLE_worksend_wait has returned.              *)

Collected == \A r \in Rank : phase[r] \in {"await", "exit"} => NothingTracked(r)

(* Rank r moves, and does not pass CIRCLE_worksend_wait.                   *)
StaysBefore(r) ==
    /\ \A q \in Rank : q # r => phase'[q] = phase[q]
    /\ phase'[r] \in {"loop", "cleanup", "reduce"}

(* Every handler of the two loops is a move of this kind.                  *)
LEMMA LoopsStayBefore ==
    ASSUME NEW r \in Rank, TypeOK,
           \/ WorkReq(r) \/ WorkReceipt(r) \/ RequestWork(r) \/ BarrierStart(r) \/ AbortCheck(r)
           \/ AbortReplies(r) \/ ProcessItem(r) \/ TermCheck(r) \/ LoopAgain(r) \/ BarrierTest(r)
           \/ CleanupIteration(r)
    PROVE  StaysBefore(r)
<1>0. phase \in [Rank -> Phase]
    BY DEF TypeOK, WorkerTypes
<1>. USE <1>0 DEF StaysBefore
<1>1. CASE WorkReq(r) \/ WorkReceipt(r) \/ RequestWork(r) \/ ProcessItem(r)
  <2>1. phase' = phase /\ phase[r] \in {"loop", "cleanup"}
      BY <1>1 DEF WorkReq, Serve, WorkReceipt, CountReceipts, RequestWork, Ask, ProcessItem,
         Work, CIRCLE_workreq_check, CIRCLE_workreceipt_check, SendRequest, ReceiveReply,
         Process, InLoop, InCleanup
  <2>. QED
      BY <2>1
<1>2. CASE AbortCheck(r) \/ AbortReplies(r)
  <2>1. phase[r] \in {"loop", "cleanup"} /\ phase' = [phase EXCEPT ![r] = phase[r]]
      BY <1>2 DEF AbortCheck, Flood, AbortReplies, FloodEnds, CIRCLE_abort_check, AbortTest,
         InLoop, InCleanup, GoTo
  <2>. QED
      BY <2>1
<1>3. CASE BarrierStart(r) \/ LoopAgain(r) \/ CleanupIteration(r)
    BY <1>3 DEF BarrierStart, EnterBarrier, LoopAgain, CleanupIteration, CIRCLE_barrier_start,
       CleanupAgain, GoTo
<1>4. CASE TermCheck(r)
  <2>1. \E ph \in {"loop", "cleanup"} : phase' = [phase EXCEPT ![r] = ph]
      BY <1>4 DEF TermCheck, TermGather, TermResult, TermWait, TermSendUp, TermDecide,
         TermComplete, GoTo
  <2>. QED
      BY <2>1
<1>5. CASE BarrierTest(r)
  <2>1. \E ph \in {"cleanup", "reduce"} : phase' = [phase EXCEPT ![r] = ph]
      BY <1>5 DEF BarrierTest, TestBarrier, BarrierGather, BarrierResult, BarrierWait,
         BarrierSendUp, BarrierComplete, GoTo
  <2>. QED
      BY <2>1
<1>. QED
    BY <1>1, <1>2, <1>3, <1>4, <1>5

-----------------------------------------------------------------------------
(* Lists of sends.                                                         *)

Entry == Send \cup {Complete}

(* The list l of rank r has every send of r that is in A, once, and has    *)
(* nothing else but completed sends.                                       *)
Tracks(l, r, A) ==
    /\ l \in Seq(Entry)
    /\ \A s \in A : s.src = r => \E i \in 1 .. Len(l) : l[i] = s
    /\ \A i \in 1 .. Len(l) : l[i] \in A \cup {Complete}
    /\ \A i, j \in 1 .. Len(l) : l[i] = l[j] => i = j \/ l[i] = Complete

(* Complete is not a send.                                                 *)
LEMMA CompleteIsNone == Complete \notin Send
BY RankFacts DEF Complete, Send

(* Completing the sends in D leaves a list of the same length.             *)
LEMMA CompletedList ==
    ASSUME NEW l \in Seq(Entry), NEW D
    PROVE  /\ Completed(l, D) \in Seq(Entry) /\ Len(Completed(l, D)) = Len(l)
           /\ \A i \in 1 .. Len(l) :
                 Completed(l, D)[i] = IF l[i] \in D THEN Complete ELSE l[i]
<1>1. DOMAIN l = 1 .. Len(l) /\ Len(l) \in Nat /\ \A i \in 1 .. Len(l) : l[i] \in Entry
    BY LenProperties, ElementOfSeq
<1>. DEFINE c == Completed(l, D)
<1>2. c = [i \in 1 .. Len(l) |-> IF l[i] \in D THEN Complete ELSE l[i]]
    BY <1>1 DEF Completed
<1>3. \A i \in 1 .. Len(l) : (IF l[i] \in D THEN Complete ELSE l[i]) \in Entry
    BY <1>1 DEF Entry
<1>. HIDE DEF c
<1>4. c \in [1 .. Len(l) -> Entry]
    BY <1>2, <1>3
<1>5. c \in Seq(Entry)
    BY <1>1, <1>4, IsASeq
<1>6. Len(c) = Len(l)
    BY <1>1, <1>2, <1>5, LenProperties
<1>. QED
    BY <1>2, <1>5, <1>6 DEF c

NoneOf(S, r) == \A s \in S : s.src # r

(* MPI completes the sends in D, and other ranks post the sends in S.      *)
LEMMA TracksCompleted ==
    ASSUME NEW l, NEW r, NEW A, NEW S, NEW D,
           Tracks(l, r, A), NoneOf(S, r)
    PROVE  Tracks(Completed(l, D), r, (A \ D) \cup S) /\ Len(Completed(l, D)) = Len(l)
<1>. DEFINE c == Completed(l, D)
<1>0. l \in Seq(Entry)
    BY DEF Tracks
<1>1. /\ c \in Seq(Entry) /\ Len(c) = Len(l)
      /\ \A i \in 1 .. Len(l) : c[i] = IF l[i] \in D THEN Complete ELSE l[i]
    BY <1>0, CompletedList
<1>. HIDE DEF c
<1>2. ASSUME NEW s \in (A \ D) \cup S, s.src = r PROVE \E i \in 1 .. Len(c) : c[i] = s
  <2>1. s \in A /\ s \notin D
      BY <1>2 DEF NoneOf
  <2>2. PICK i \in 1 .. Len(l) : l[i] = s
      BY <1>2, <2>1 DEF Tracks
  <2>. QED
      BY <1>1, <2>1, <2>2
<1>3. ASSUME NEW i \in 1 .. Len(c) PROVE c[i] \in ((A \ D) \cup S) \cup {Complete}
    BY <1>1 DEF Tracks
<1>4. ASSUME NEW i \in 1 .. Len(c), NEW j \in 1 .. Len(c), c[i] = c[j]
      PROVE  i = j \/ c[i] = Complete
  <2>1. CASE c[i] # Complete
    <3>1. c[i] = l[i] /\ c[j] = l[j]
        BY <1>1, <1>4, <2>1
    <3>. QED
        BY <1>1, <1>4, <2>1, <3>1 DEF Tracks
  <2>. QED
      BY <2>1
<1>. QED
    BY <1>1, <1>2, <1>3, <1>4 DEF Tracks, c

(* The n sends in S, none of which is in A, in the order new.              *)
Posts(new, n, S, A) ==
    /\ n \in Nat
    /\ S \in SUBSET Send
    /\ A \in SUBSET Send
    /\ A \cap S = {}
    /\ new \in Bijection(1 .. n, S)

(* A rank posts the sends in S, none of which is there already.            *)
LEMMA TracksPosted ==
    ASSUME NEW l, NEW r, NEW A, NEW S, NEW n, NEW new, Tracks(l, r, A), Posts(new, n, S, A)
    PROVE  Tracks(l \o new, r, A \cup S) /\ Len(l \o new) = Len(l) + n
<1>. USE DEF Posts
<1>0. l \in Seq(Entry) /\ Len(l) \in Nat
    BY LenProperties DEF Tracks
<1>1. /\ new \in [1 .. n -> S]
      /\ \A i, j \in 1 .. n : new[i] = new[j] => i = j
      /\ \A s \in S : \E i \in 1 .. n : new[i] = s
    BY DEF Bijection, Injection, Surjection, IsInjective
<1>2. new \in Seq(Entry) /\ Len(new) = n
  <2>1. new \in [1 .. n -> Entry]
      BY <1>1 DEF Entry
  <2>2. new \in Seq(Entry) /\ DOMAIN new = 1 .. n
      BY <2>1, IsASeq
  <2>. QED
      BY <2>2, LenProperties
<1>. DEFINE c == l \o new
<1>3. /\ c \in Seq(Entry) /\ Len(c) = Len(l) + n
      /\ \A i \in 1 .. Len(l) + n : c[i] = IF i <= Len(l) THEN l[i] ELSE new[i - Len(l)]
    BY <1>0, <1>2, ConcatProperties
<1>4. /\ \A i \in 1 .. Len(l) : i \in 1 .. Len(c) /\ c[i] = l[i]
      /\ \A i \in 1 .. n : Len(l) + i \in 1 .. Len(c) /\ c[Len(l) + i] = new[i]
    BY <1>0, <1>3
<1>5. \A i \in 1 .. Len(c) :
         \/ i \in 1 .. Len(l) /\ c[i] = l[i]
         \/ i - Len(l) \in 1 .. n /\ c[i] = new[i - Len(l)]
    BY <1>0, <1>3
<1>. HIDE DEF c
<1>6. ASSUME NEW s \in A \cup S, s.src = r PROVE \E i \in 1 .. Len(c) : c[i] = s
  <2>1. CASE s \in A
      BY <1>4, <1>6, <2>1 DEF Tracks
  <2>2. CASE s \in S
      BY <1>1, <1>4, <2>2
  <2>. QED
      BY <2>1, <2>2
<1>7. ASSUME NEW i \in 1 .. Len(c) PROVE c[i] \in (A \cup S) \cup {Complete}
    BY <1>1, <1>5 DEF Tracks
<1>8. \A i \in 1 .. Len(l), j \in 1 .. n : l[i] # new[j]
    BY <1>1, CompleteIsNone DEF Tracks
<1>9. ASSUME NEW i \in 1 .. Len(c), NEW j \in 1 .. Len(c), c[i] = c[j]
      PROVE  i = j \/ c[i] = Complete
  <2>1. CASE i \in 1 .. Len(l) /\ c[i] = l[i] /\ j \in 1 .. Len(l) /\ c[j] = l[j]
      BY <1>9, <2>1 DEF Tracks
  <2>2. CASE i - Len(l) \in 1 .. n /\ c[i] = new[i - Len(l)]
             /\ j - Len(l) \in 1 .. n /\ c[j] = new[j - Len(l)]
    <3>1. i - Len(l) = j - Len(l)
        BY <1>1, <1>9, <2>2
    <3>2. i \in Int /\ j \in Int
        OBVIOUS
    <3>. QED
        BY <1>0, <3>1, <3>2
  <2>. QED
      BY <1>5, <1>8, <1>9, <2>1, <2>2
<1>. QED
    BY <1>3, <1>6, <1>7, <1>9 DEF Tracks, c

(* Both at once.                                                           *)
LEMMA TracksOwn ==
    ASSUME NEW l, NEW r, NEW A, NEW S, NEW D, NEW n, NEW new,
           Tracks(l, r, A), Posts(new, n, S, A)
    PROVE  /\ Tracks(Completed(l, D) \o new, r, (A \ D) \cup S)
           /\ Len(Completed(l, D) \o new) = Len(l) + n
<1>1. PICK none : none = {}
    OBVIOUS
<1>2. NoneOf(none, r)
    BY <1>1 DEF NoneOf
<1>3. Tracks(Completed(l, D), r, (A \ D) \cup none) /\ Len(Completed(l, D)) = Len(l)
    BY <1>2, TracksCompleted
<1>4. PICK c, B : c = Completed(l, D) /\ B = A \ D
    OBVIOUS
<1>5. Tracks(c, r, B) /\ Len(c) = Len(l) /\ Posts(new, n, S, B)
  <2>1. (A \ D) \cup none = B
      BY <1>1, <1>4
  <2>2. Posts(new, n, S, B)
      BY <1>4 DEF Posts
  <2>. QED
      BY <1>3, <1>4, <2>1, <2>2
<1>6. Tracks(c \o new, r, B \cup S) /\ Len(c \o new) = Len(c) + n
    BY <1>5, TracksPosted
<1>. QED
    BY <1>4, <1>5, <1>6

(* Releasing a completed send takes nothing else off the list, whatever    *)
(* slot it was in.                                                         *)
LEMMA TracksReaped ==
    ASSUME NEW l, NEW r, NEW A \in SUBSET Send, Tracks(l, r, A),
           NEW k \in 1 .. Len(l), l[k] = Complete
    PROVE  Tracks(Reap(l, k), r, A) /\ Len(Reap(l, k)) = Len(l) - 1
<1>0. /\ l \in Seq(Entry) /\ Len(l) \in Nat /\ DOMAIN l = 1 .. Len(l)
      /\ \A i \in 1 .. Len(l) : l[i] \in Entry
    BY LenProperties, ElementOfSeq DEF Tracks
<1>. DEFINE n == Len(l)
            old(i) == IF i = k THEN n ELSE i
            c == Reap(l, k)
<1>1. n \in Nat /\ n \in 1 .. n /\ k \in 1 .. n /\ n - 1 \in Nat
    BY <1>0
<1>2. c = SubSeq([Released(l, k) EXCEPT ![k] = Released(l, k)[n]], 1, n - 1)
    BY DEF Reap
<1>. DEFINE rel == Released(l, k)
            m == [rel EXCEPT ![k] = rel[n]]
<1>3. /\ DOMAIN rel = 1 .. n /\ rel[k] = Null
      /\ \A i \in 1 .. n : i # k => rel[i] = l[i]
    BY <1>0 DEF Released
<1>4. \A i \in 1 .. n : i # k \/ n # k => m[i] = l[old(i)]
    BY <1>1, <1>3
<1>5. c = [i \in 1 .. n - 1 |-> m[i]]
  <2>1. DOMAIN m = 1 .. n
      BY <1>3
  <2>. QED
      BY <1>1, <1>2, <2>1
<1>6. \A i \in 1 .. n - 1 : old(i) \in 1 .. n /\ (i # k \/ n # k) /\ i \in 1 .. n
    BY <1>1
<1>7. c = [i \in 1 .. n - 1 |-> l[old(i)]]
    BY <1>4, <1>5, <1>6
<1>8. \A i, j \in 1 .. n - 1 : old(i) = old(j) => i = j
    BY <1>1
<1>9. \A i \in 1 .. n : i # k => \E j \in 1 .. n - 1 : old(j) = i
    BY <1>1
<1>. HIDE DEF c, old
<1>10. c \in Seq(Entry) /\ Len(c) = n - 1
  <2>1. c \in [1 .. n - 1 -> Entry]
      BY <1>0, <1>6, <1>7
  <2>2. c \in Seq(Entry) /\ DOMAIN c = 1 .. n - 1
      BY <1>1, <2>1, IsASeq
  <2>. QED
      BY <1>1, <2>2, LenProperties
<1>11. \A i \in 1 .. Len(c) : i \in 1 .. n - 1 /\ c[i] = l[old(i)]
    BY <1>7, <1>10
<1>12. ASSUME NEW s \in A, s.src = r PROVE \E i \in 1 .. Len(c) : c[i] = s
  <2>1. PICK i \in 1 .. n : l[i] = s
      BY <1>12 DEF Tracks
  <2>2. i # k
      BY <2>1, CompleteIsNone
  <2>3. PICK j \in 1 .. n - 1 : old(j) = i
      BY <1>9, <2>2
  <2>. QED
      BY <1>7, <1>10, <2>1, <2>3
<1>13. \A i \in 1 .. Len(c) : c[i] \in A \cup {Complete}
    BY <1>6, <1>11 DEF Tracks
<1>14. ASSUME NEW i \in 1 .. Len(c), NEW j \in 1 .. Len(c), c[i] = c[j]
       PROVE  i = j \/ c[i] = Complete
  <2>1. l[old(i)] = l[old(j)] /\ old(i) \in 1 .. n /\ old(j) \in 1 .. n
      BY <1>6, <1>11, <1>14
  <2>2. old(i) = old(j) \/ l[old(i)] = Complete
      BY <2>1 DEF Tracks
  <2>. QED
      BY <1>8, <1>11, <2>2
<1>. QED
    BY <1>10, <1>12, <1>13, <1>14 DEF Tracks, c

-----------------------------------------------------------------------------
(* What is tracked, and what is still on its way.                          *)

SendTypes ==
    /\ sends \in SUBSET Send
    /\ held \in [Rank -> Nat]
    /\ DOMAIN send_reqs = Rank /\ DOMAIN request_slot = Rank

Lists == \A r \in Rank : Tracks(send_reqs[r], r, sends) /\ held[r] = Len(send_reqs[r])

(* A send of a reply has not completed only while the reply is in flight.  *)
RepliesInFlight ==
    \A s \in sends : s.tag = "reply" => \E m \in replies : m.src = s.src /\ m.dst = s.dst

(* The receipts that have not completed are the receipts in flight.        *)
ReceiptsCounted == \A d \in Rank : receipts[d] = Cardinality(ReceiptsTo(d))

SendInv == SendTypes /\ Lists /\ RepliesInFlight /\ ReceiptsCounted

(* There are finitely many sends.                                          *)
LEMMA SendsFinite == \A S \in SUBSET Send : IsFiniteSet(S) /\ Cardinality(S) \in Nat
<1>. DEFINE Tags == {"reply", "receipt"}
            Ids == 1 .. MaxSends
            Envelope == (Rank \X Rank) \X (Tags \X Ids)
            env == [s \in Send |-> << <<s.src, s.dst>>, <<s.tag, s.id>> >>]
<1>1. IsFiniteSet(Tags)
  <2>1. Tags = {"reply"} \cup {"receipt"}
      OBVIOUS
  <2>2. IsFiniteSet({"reply"})
      BY FS_Singleton
  <2>3. IsFiniteSet({"reply"} \cup {"receipt"})
      BY <2>2, FS_AddElement
  <2>. QED
      BY <2>1, <2>3
<1>2. IsFiniteSet(Ids)
    BY FS_Interval, MaxSendsAssumption
<1>3. IsFiniteSet(Tags \X Ids)
  <2>. HIDE DEF Tags, Ids
  <2>. QED
      BY <1>1, <1>2, FS_Product
<1>4. IsFiniteSet(Rank \X Rank)
    BY RankFacts, FS_Product
<1>5. IsFiniteSet(Envelope)
  <2>. HIDE DEF Tags, Ids
  <2>. QED
      BY <1>3, <1>4, FS_Product
<1>6. env \in [Send -> Envelope]
    BY DEF Send
<1>7. ASSUME NEW s \in Send, NEW t \in Send, env[s] = env[t] PROVE s = t
  <2>1. s.src = t.src /\ s.dst = t.dst /\ s.tag = t.tag /\ s.id = t.id
      BY <1>7
  <2>. QED
      BY <2>1 DEF Send
<1>. HIDE DEF env, Envelope
<1>8. env \in Injection(Send, Envelope)
    BY <1>6, <1>7 DEF Injection, IsInjective
<1>9. IsFiniteSet(Send)
    BY <1>5, <1>8, FS_Injection
<1>. QED
    BY <1>9, FS_Subset, FS_CardinalityType

(* A reply is at most two sends, and there are numbers for them.           *)
LEMMA SendsTwo == 1 \in 1 .. MaxSends /\ 2 \in 1 .. MaxSends
BY MaxSendsAssumption

(* CIRCLE_worksend_track keeps every list, and empty lists of other ranks  *)
(* empty.                                                                  *)
LEMMA Tracking ==
    ASSUME SendTypes, Lists, NEW r \in Rank, NEW S \in SUBSET Send, NEW D,
           S \cap sends = {}, \A s \in S : s.src = r, CIRCLE_worksend_track(r, S, D)
    PROVE  /\ sends' \in SUBSET Send /\ held' \in [Rank -> Nat] /\ DOMAIN send_reqs' = Rank
           /\ Lists'
           /\ \A q \in Rank : q # r /\ send_reqs[q] = <<>> => send_reqs'[q] = <<>>
<1>1. sends \in SUBSET Send /\ held \in [Rank -> Nat] /\ Cardinality(S) \in Nat
    BY SendsFinite DEF SendTypes
<1>2. /\ sends' = (sends \ D) \cup S
      /\ held' = [held EXCEPT ![r] = @ + Cardinality(S)]
    BY DEF CIRCLE_worksend_track
<1>3. PICK new \in Bijection(1 .. Cardinality(S), S) :
         send_reqs' = [q \in Rank |->
             IF q = r THEN Completed(send_reqs[q], D) \o new ELSE Completed(send_reqs[q], D)]
    BY DEF CIRCLE_worksend_track
<1>4. ASSUME NEW q \in Rank, q # r
      PROVE  /\ Tracks(send_reqs'[q], q, sends') /\ held'[q] = Len(send_reqs'[q])
             /\ send_reqs[q] = <<>> => send_reqs'[q] = <<>>
  <2>1. Tracks(send_reqs[q], q, sends) /\ held[q] = Len(send_reqs[q])
      BY DEF Lists
  <2>2. NoneOf(S, q)
      BY <1>4 DEF NoneOf
  <2>3. /\ Tracks(Completed(send_reqs[q], D), q, (sends \ D) \cup S)
        /\ Len(Completed(send_reqs[q], D)) = Len(send_reqs[q])
      BY <2>1, <2>2, TracksCompleted
  <2>4. send_reqs'[q] = Completed(send_reqs[q], D) /\ held'[q] = held[q]
      BY <1>1, <1>2, <1>3, <1>4
  <2>5. ASSUME send_reqs[q] = <<>> PROVE Completed(send_reqs[q], D) = <<>>
    <3>1. Completed(send_reqs[q], D) \in Seq(Entry) /\ Len(Completed(send_reqs[q], D)) = 0
        BY <2>3, <2>5, EmptySeq DEF Tracks
    <3>. QED
        BY <3>1, EmptySeq
  <2>. QED
      BY <1>2, <2>1, <2>3, <2>4, <2>5
<1>5. Tracks(send_reqs'[r], r, sends') /\ held'[r] = Len(send_reqs'[r])
  <2>1. Tracks(send_reqs[r], r, sends) /\ held[r] = Len(send_reqs[r])
      BY DEF Lists
  <2>5. send_reqs'[r] = Completed(send_reqs[r], D) \o new
      BY <1>3
  <2>6. /\ Tracks(Completed(send_reqs[r], D) \o new, r, (sends \ D) \cup S)
        /\ Len(Completed(send_reqs[r], D) \o new) = Len(send_reqs[r]) + Cardinality(S)
    <3>1. Posts(new, Cardinality(S), S, sends)
        BY <1>1 DEF Posts
    <3>. QED
        BY <2>1, <3>1, TracksOwn
  <2>7. held'[r] = held[r] + Cardinality(S)
      BY <1>1, <1>2
  <2>. QED
      BY <1>2, <2>1, <2>5, <2>6, <2>7
<1>6. Lists'
    BY <1>4, <1>5 DEF Lists
<1>7. held' \in [Rank -> Nat] /\ sends' \in SUBSET Send
    BY <1>1, <1>2
<1>8. DOMAIN send_reqs' = Rank
    BY <1>3
<1>. QED
    BY <1>4, <1>6, <1>7, <1>8

(* The invariants in the initial state.                                    *)
LEMMA SendInvInit == SendInit => SendInv /\ Collected
<1>. SUFFICES ASSUME SendInit PROVE SendInv /\ Collected
    OBVIOUS
<1>1. SendTypes /\ sends = {} /\ \A r \in Rank : send_reqs[r] = <<>> /\ held[r] = 0
    BY DEF SendInit, SendTypes
<1>2. Lists
  <2>1. ASSUME NEW r \in Rank PROVE Tracks(<<>>, r, {}) /\ Len(<<>>) = 0
    <3>1. <<>> \in Seq(Entry) /\ Len(<<>>) = 0
        BY EmptySeq
    <3>. QED
        BY <3>1 DEF Tracks
  <2>. QED
      BY <1>1, <2>1 DEF Lists
<1>3. RepliesInFlight
    BY <1>1 DEF RepliesInFlight
<1>4. ReceiptsCounted
  <2>1. ASSUME NEW d \in Rank PROVE receipts[d] = Cardinality(ReceiptsTo(d))
    <3>1. receipts[d] = 0 /\ ReceiptsTo(d) = {}
        BY <1>1 DEF SendInit, Init, WorkerInit, WorkInit, ReceiptsTo
    <3>. QED
        BY <3>1, FS_EmptySet
  <2>. QED
      BY <2>1 DEF ReceiptsCounted
<1>5. Collected
    BY DEF SendInit, Init, WorkerInit, WorkInit, Collected
<1>. QED
    BY <1>1, <1>2, <1>3, <1>4, <1>5 DEF SendInv

(* A step of this kind keeps what the wait has collected.                  *)
LEMMA StillCollected ==
    ASSUME Collected, NEW r \in Rank, StaysBefore(r),
           \A q \in Rank : q # r /\ NothingTracked(q) => NothingTracked(q)'
    PROVE  Collected'
<1>. SUFFICES ASSUME NEW q \in Rank, phase'[q] \in {"await", "exit"} PROVE NothingTracked(q)'
    BY DEF Collected
<1>1. q # r /\ phase'[q] = phase[q]
    BY DEF StaysBefore
<1>. QED
    BY <1>1 DEF Collected

(* CIRCLE_workreq_check posts replies, none of which was there before.     *)
LEMMA RepliesStep ==
    ASSUME TypeOK, Conversation', SendInv, Collected, NEW r \in Rank, TrackReplies(r)
    PROVE  SendInv' /\ Collected'
<1>. DEFINE S == UNION {ReplySends(m) : m \in replies' \ replies}
<1>0. SendTypes /\ Lists /\ RepliesInFlight /\ ReceiptsCounted /\ WorkerTypes
    BY DEF SendInv, TypeOK
<1>1. /\ CIRCLE_worksend_track(r, S, {}) /\ request_slot' = request_slot
      /\ WorkReq(r) /\ Serve(r)
    BY DEF TrackReplies, WorkReq
<1>2. PICK R \in SUBSET Requestors(r) : \E g \in [R -> SUBSET queue[r]], a \in BOOLEAN :
          Served(r, R, g, a)
    BY <1>0, <1>1, ServedByWorkReq
<1>3. PICK g, a : Served(r, R, g, a)
    BY <1>2
<1>4. /\ \A m \in replies' \ replies : m.src = r /\ m.dst \in Rank
      /\ replies \subseteq replies' /\ receipts' = receipts
  <2>1. R \subseteq Rank
      BY DEF Requestors
  <2>. QED
      BY <1>3, <2>1 DEF Served
<1>5. ASSUME NEW s \in S
      PROVE  /\ s \in Send /\ s.src = r /\ s.tag = "reply"
             /\ \E m \in replies' \ replies : s.src = m.src /\ s.dst = m.dst
  <2>1. PICK m \in replies' \ replies : s \in ReplySends(m)
      BY <1>5
  <2>2. m.src = r /\ m.dst \in Rank
      BY <1>4
  <2>3. 1 \in 1 .. MaxSends /\ 2 \in 1 .. MaxSends
      BY SendsTwo
  <2>4. s \in [src : {m.src}, dst : {m.dst}, tag : {"reply"}, id : {1, 2}]
      BY <2>1 DEF ReplySends
  <2>. QED
      BY <2>2, <2>3, <2>4 DEF Send
<1>6. S \cap sends = {}
  <2>. SUFFICES ASSUME NEW s \in S, s \in sends PROVE FALSE
      OBVIOUS
  <2>1. PICK m \in replies' \ replies : s.src = m.src /\ s.dst = m.dst
      BY <1>5
  <2>2. PICK n \in replies : n.src = s.src /\ n.dst = s.dst
      BY <1>0, <1>5 DEF RepliesInFlight
  <2>3. n \in replies' /\ m \in replies' /\ n.dst = m.dst
      BY <1>4, <2>1, <2>2
  <2>4. n = m
      BY <2>3 DEF Conversation
  <2>. QED
      BY <2>1, <2>2, <2>4
<1>7. S \in SUBSET Send /\ \A s \in S : s.src = r /\ s.tag = "reply"
    BY <1>5
<1>8. sends' = sends \cup S
    BY <1>1 DEF CIRCLE_worksend_track
<1>9. ASSUME NEW s \in sends', s.tag = "reply"
      PROVE  \E m \in replies' : m.src = s.src /\ m.dst = s.dst
    BY <1>0, <1>4, <1>5, <1>8, <1>9 DEF RepliesInFlight
<1>. HIDE DEF S
<1>10. /\ sends' \in SUBSET Send /\ held' \in [Rank -> Nat] /\ DOMAIN send_reqs' = Rank
       /\ Lists'
       /\ \A q \in Rank : q # r /\ send_reqs[q] = <<>> => send_reqs'[q] = <<>>
    BY <1>0, <1>1, <1>6, <1>7, Tracking
<1>11. SendTypes'
    BY <1>0, <1>1, <1>10 DEF SendTypes
<1>12. ReceiptsCounted'
  <2>1. ASSUME NEW d \in Rank PROVE ReceiptsTo(d)' = ReceiptsTo(d)
      BY <1>7, <1>8 DEF ReceiptsTo
  <2>. QED
      BY <1>0, <1>4, <2>1 DEF ReceiptsCounted
<1>13. Collected'
  <2>1. StaysBefore(r)
      BY <1>1, LoopsStayBefore
  <2>2. \A q \in Rank : q # r /\ NothingTracked(q) => NothingTracked(q)'
      BY <1>1, <1>10 DEF NothingTracked
  <2>. QED
      BY <2>1, <2>2, StillCollected
<1>. QED
    BY <1>9, <1>10, <1>11, <1>12, <1>13 DEF SendInv, RepliesInFlight

(* CIRCLE_workreceipt_check completes as many sends as it takes receipts.  *)
LEMMA ReceiptsStep ==
    ASSUME TypeOK, SendInv, Collected, NEW r \in Rank, TakeReceipts(r)
    PROVE  SendInv' /\ Collected'
<1>0. /\ SendTypes /\ Lists /\ RepliesInFlight /\ ReceiptsCounted
      /\ receipts \in [Rank -> Nat] /\ sends \in SUBSET Send
    BY DEF SendInv, TypeOK, WorkerTypes, SendTypes
<1>1. PICK D \in SUBSET ReceiptsTo(r) :
          Cardinality(D) = receipts[r] - receipts'[r] /\ CIRCLE_worksend_track(r, {}, D)
    BY DEF TakeReceipts
<1>2. WorkReceipt(r) /\ request_slot' = request_slot
    BY DEF TakeReceipts
<1>3. /\ replies' = replies
      /\ \E n \in 1 .. receipts[r] : receipts' = [receipts EXCEPT ![r] = @ - n]
    BY <1>2 DEF WorkReceipt, CountReceipts, CIRCLE_workreceipt_check
<1>4. /\ sends' \in SUBSET Send /\ held' \in [Rank -> Nat] /\ DOMAIN send_reqs' = Rank
      /\ Lists'
      /\ \A q \in Rank : q # r /\ send_reqs[q] = <<>> => send_reqs'[q] = <<>>
  <2>1. {} \in SUBSET Send /\ {} \cap sends = {} /\ \A s \in {} : s.src = r
      OBVIOUS
  <2>2. SendTypes /\ Lists /\ CIRCLE_worksend_track(r, {}, D)
      BY <1>0, <1>1
  <2>. QED
      BY <2>1, <2>2, Tracking
<1>5. sends' = sends \ D
    BY <1>1 DEF CIRCLE_worksend_track
<1>6. RepliesInFlight'
    BY <1>0, <1>3, <1>5 DEF RepliesInFlight
<1>7. ReceiptsCounted'
  <2>. SUFFICES ASSUME NEW d \in Rank PROVE receipts'[d] = Cardinality(ReceiptsTo(d)')
      BY DEF ReceiptsCounted
  <2>1. CASE d = r
    <3>. DEFINE T == ReceiptsTo(r)
    <3>1. ReceiptsTo(r)' = T \ D
        BY <1>5 DEF ReceiptsTo
    <3>2. T \in SUBSET Send
        BY <1>0 DEF ReceiptsTo
    <3>3. T \cap D = D
        BY <1>1
    <3>4. Cardinality(T) = receipts[r]
        BY <1>0 DEF ReceiptsCounted
    <3>. HIDE DEF T
    <3>5. Cardinality(T \ D) = Cardinality(T) - Cardinality(D)
        BY <3>2, <3>3, SendsFinite, FS_Difference
    <3>6. receipts'[r] \in Nat
        BY <1>0, <1>3
    <3>. QED
        BY <1>0, <1>1, <2>1, <3>1, <3>4, <3>5, <3>6
  <2>2. CASE d # r
    <3>1. ReceiptsTo(d)' = ReceiptsTo(d)
        BY <1>1, <1>5, <2>2 DEF ReceiptsTo
    <3>2. receipts'[d] = receipts[d]
        BY <1>0, <1>3, <2>2
    <3>. QED
        BY <1>0, <3>1, <3>2 DEF ReceiptsCounted
  <2>. QED
      BY <2>1, <2>2
<1>8. Collected'
  <2>1. StaysBefore(r)
      BY <1>2, LoopsStayBefore
  <2>2. \A q \in Rank : q # r /\ NothingTracked(q) => NothingTracked(q)'
      BY <1>2, <1>4 DEF NothingTracked
  <2>. QED
      BY <2>1, <2>2, StillCollected
<1>. QED
    BY <1>0, <1>2, <1>4, <1>6, <1>7, <1>8 DEF SendInv, SendTypes

(* CIRCLE_request_work takes the sends of a reply with the reply, and      *)
(* posts one receipt if the reply carries work.                            *)
LEMMA RequestStep ==
    ASSUME TypeOK, SendInv, Collected, NEW r \in Rank, TrackRequest(r)
    PROVE  SendInv' /\ Collected'
<1>. DEFINE source == work_requested[r]
            D == {s \in sends : s.dst = r /\ s.src = source /\ s.tag = "reply"}
<1>0. /\ SendTypes /\ Lists /\ RepliesInFlight /\ ReceiptsCounted
      /\ receipts \in [Rank -> Nat] /\ sends \in SUBSET Send /\ DOMAIN request_slot = Rank
      /\ replies \in SUBSET [src : Rank, dst : Rank, items : SUBSET Item, abort : BOOLEAN]
    BY DEF SendInv, TypeOK, WorkerTypes, SendTypes
<1>1. /\ RequestWork(r)
      /\ request_slot' = [request_slot EXCEPT ![r] = @ \/ source = None]
      /\ \/ receipts' = receipts /\ CIRCLE_worksend_track(r, {}, D)
         \/ /\ receipts' # receipts
            /\ \E s \in ReceiptSends(r, source) : CIRCLE_worksend_track(r, {s}, D)
    BY DEF TrackRequest
<1>2. SendRequest(r) \/ ReceiveReply(r)
    BY <1>1 DEF RequestWork, Ask
<1>3. \/ replies' = replies /\ receipts' = receipts
      \/ \E m \in replies : /\ m.dst = r /\ m.src = source /\ source \in Rank
                            /\ replies' = replies \ {m}
                            /\ \/ receipts' = receipts
                               \/ receipts' = [receipts EXCEPT ![source] = @ + 1]
  <2>1. CASE SendRequest(r)
      BY <2>1 DEF SendRequest
  <2>2. CASE ReceiveReply(r)
    <3>1. PICK m \in replies :
             /\ m.dst = r /\ m.src = source /\ replies' = replies \ {m}
             /\ receipts' = [receipts EXCEPT ![m.src] = IF m.items = {} THEN @ ELSE @ + 1]
        BY <2>2 DEF ReceiveReply
    <3>2. m.src \in Rank
        BY <1>0
    <3>3. CASE m.items = {}
        BY <1>0, <3>1, <3>2, <3>3
    <3>4. CASE m.items # {}
        BY <3>1, <3>2, <3>4
    <3>. QED
        BY <3>3, <3>4
  <2>. QED
      BY <1>2, <2>1, <2>2
<1>4. ASSUME NEW S \in SUBSET Send, S \cap sends = {},
             \A s \in S : s.src = r /\ s.tag = "receipt",
             CIRCLE_worksend_track(r, S, D), ReceiptsCounted'
      PROVE  SendInv' /\ Collected'
  <2>1. sends' = (sends \ D) \cup S
      BY <1>4 DEF CIRCLE_worksend_track
  <2>2. RepliesInFlight'
    <3>. SUFFICES ASSUME NEW s \in sends', s.tag = "reply"
                  PROVE  \E m \in replies' : m.src = s.src /\ m.dst = s.dst
        BY DEF RepliesInFlight
    <3>1. s \in sends /\ s \notin D
        BY <1>4, <2>1
    <3>2. PICK n \in replies : n.src = s.src /\ n.dst = s.dst
        BY <1>0, <3>1 DEF RepliesInFlight
    <3>3. ~(n.dst = r /\ n.src = source)
        BY <3>1, <3>2
    <3>4. n \in replies'
        BY <1>3, <3>2, <3>3
    <3>. QED
        BY <3>2, <3>4
  <2>. HIDE DEF D
  <2>3. \A s \in S : s.src = r
      BY <1>4
  <2>4. /\ sends' \in SUBSET Send /\ held' \in [Rank -> Nat] /\ DOMAIN send_reqs' = Rank
        /\ Lists'
        /\ \A q \in Rank : q # r /\ send_reqs[q] = <<>> => send_reqs'[q] = <<>>
      BY <1>0, <1>4, <2>3, Tracking
  <2>5. DOMAIN request_slot' = Rank /\ \A q \in Rank : q # r => request_slot'[q] = request_slot[q]
      BY <1>0, <1>1
  <2>6. Collected'
    <3>1. StaysBefore(r)
        BY <1>1, LoopsStayBefore
    <3>2. \A q \in Rank : q # r /\ NothingTracked(q) => NothingTracked(q)'
        BY <2>4, <2>5 DEF NothingTracked
    <3>. QED
        BY <3>1, <3>2, StillCollected
  <2>. QED
      BY <1>4, <2>2, <2>4, <2>5, <2>6 DEF SendInv, SendTypes
<1>5. CASE receipts' = receipts
  <2>1. CIRCLE_worksend_track(r, {}, D)
      BY <1>1, <1>5
  <2>2. sends' = sends \ D
      BY <2>1 DEF CIRCLE_worksend_track
  <2>3. \A d \in Rank : ReceiptsTo(d)' = ReceiptsTo(d)
      BY <2>2 DEF ReceiptsTo
  <2>4. ReceiptsCounted'
      BY <1>0, <1>5, <2>3 DEF ReceiptsCounted
  <2>. QED
      BY <1>4, <2>1, <2>4
<1>6. CASE receipts' # receipts
  <2>0. PICK c : c = source
      OBVIOUS
  <2>1. c \in Rank /\ receipts' = [receipts EXCEPT ![c] = @ + 1]
      BY <1>3, <1>6, <2>0
  <2>2. PICK s \in ReceiptSends(r, c) : CIRCLE_worksend_track(r, {s}, D)
      BY <1>1, <1>6, <2>0
  <2>3. /\ s \in Send /\ s \notin sends
        /\ s.src = r /\ s.dst = c /\ s.tag = "receipt"
    <3>1. s \in [src : {r}, dst : {c}, tag : {"receipt"}, id : 1 .. MaxSends] \ sends
        BY DEF ReceiptSends
    <3>. QED
        BY <2>1, <3>1 DEF Send
  <2>4. sends' = (sends \ D) \cup {s}
      BY <2>2 DEF CIRCLE_worksend_track
  <2>5. ReceiptsTo(c)' = ReceiptsTo(c) \cup {s}
      BY <2>3, <2>4 DEF ReceiptsTo
  <2>6. \A d \in Rank : d # c => ReceiptsTo(d)' = ReceiptsTo(d)
      BY <2>3, <2>4 DEF ReceiptsTo
  <2>7. Cardinality(ReceiptsTo(c) \cup {s}) = Cardinality(ReceiptsTo(c)) + 1
    <3>1. ReceiptsTo(c) \in SUBSET Send /\ s \notin ReceiptsTo(c)
        BY <1>0, <2>3 DEF ReceiptsTo
    <3>2. IsFiniteSet(ReceiptsTo(c))
        BY <3>1, SendsFinite
    <3>. QED
        BY <3>1, <3>2, FS_AddElement
  <2>8. ReceiptsCounted'
    <3>. SUFFICES ASSUME NEW d \in Rank PROVE receipts'[d] = Cardinality(ReceiptsTo(d)')
        BY DEF ReceiptsCounted
    <3>1. receipts[d] = Cardinality(ReceiptsTo(d))
        BY <1>0 DEF ReceiptsCounted
    <3>2. CASE d = c
      <4>1. receipts'[d] = receipts[d] + 1
          BY <1>0, <2>1, <3>2
      <4>. QED
          BY <2>5, <2>7, <3>1, <3>2, <4>1
    <3>3. CASE d # c
      <4>1. receipts'[d] = receipts[d]
          BY <1>0, <2>1, <3>3
      <4>. QED
          BY <2>6, <3>1, <3>3, <4>1
    <3>. QED
        BY <3>2, <3>3
  <2>9. /\ {s} \in SUBSET Send /\ {s} \cap sends = {}
        /\ \A t \in {s} : t.src = r /\ t.tag = "receipt"
      BY <2>3
  <2>. QED
      BY <1>4, <2>2, <2>8, <2>9
<1>. QED
    BY <1>5, <1>6

(* The tests of completed sends leave what is on its way alone, and take   *)
(* only completed sends off a list.                                        *)
LEMMA CollectStep ==
    ASSUME SendInv, Collected, TypeOK, NEW r \in Rank, Collect(r)
    PROVE  SendInv' /\ Collected'
<1>0. /\ SendTypes /\ Lists /\ RepliesInFlight /\ ReceiptsCounted
      /\ sends \in SUBSET Send /\ held \in [Rank -> Nat]
      /\ DOMAIN send_reqs = Rank /\ DOMAIN request_slot = Rank
    BY DEF SendInv, SendTypes
<1>1. UNCHANGED <<phase, replies, receipts, sends>>
    BY DEF Collect, TestRequest, CIRCLE_worksend_check, WalkedOnly, CIRCLE_worksend_wait,
       vars, workerVars, workVars
<1>2. RepliesInFlight' /\ ReceiptsCounted'
    BY <1>0, <1>1 DEF RepliesInFlight, ReceiptsCounted, ReceiptsTo
<1>3. phase[r] \in {"loop", "cleanup", "reduce"}
    BY DEF Collect, TestRequest, CIRCLE_worksend_check, WalkDue, WalkedOnly,
       CIRCLE_worksend_wait, InLoop, InCleanup
<1>4. StaysBefore(r)
    BY <1>1, <1>3 DEF StaysBefore
<1>5. ASSUME NEW l, NEW k, Tracks(l, r, sends), k = Len(l),
             send_reqs' = [send_reqs EXCEPT ![r] = l], held' = [held EXCEPT ![r] = k],
             DOMAIN request_slot' = Rank,
             \A q \in Rank : q # r => request_slot'[q] = request_slot[q]
      PROVE  SendInv' /\ Collected'
  <2>1. Len(l) \in Nat
      BY <1>5, LenProperties DEF Tracks
  <2>2. SendTypes'
      BY <1>0, <1>1, <1>5, <2>1 DEF SendTypes
  <2>3. send_reqs'[r] = l /\ held'[r] = k
      BY <1>0, <1>5
  <2>4. \A q \in Rank : q # r => send_reqs'[q] = send_reqs[q] /\ held'[q] = held[q]
      BY <1>0, <1>5
  <2>5. Lists'
    <3>. SUFFICES ASSUME NEW q \in Rank
                  PROVE  Tracks(send_reqs'[q], q, sends') /\ held'[q] = Len(send_reqs'[q])
        BY DEF Lists
    <3>1. CASE q = r
        BY <1>1, <1>5, <2>3, <3>1
    <3>2. CASE q # r
        BY <1>0, <1>1, <2>4, <3>2 DEF Lists
    <3>. QED
        BY <3>1, <3>2
  <2>6. \A q \in Rank : q # r /\ NothingTracked(q) => NothingTracked(q)'
      BY <1>5, <2>4 DEF NothingTracked
  <2>7. Collected'
      BY <1>4, <2>6, StillCollected
  <2>. QED
      BY <1>2, <2>2, <2>5, <2>7 DEF SendInv
<1>6. Tracks(send_reqs[r], r, sends) /\ held[r] = Len(send_reqs[r])
    BY <1>0 DEF Lists
<1>7. CASE TestRequest(r) \/ WalkedOnly(r)
  <2>1. UNCHANGED <<send_reqs, held>>
      BY <1>7 DEF TestRequest, WalkedOnly
  <2>2. /\ DOMAIN request_slot' = Rank
        /\ \A q \in Rank : q # r => request_slot'[q] = request_slot[q]
      BY <1>0, <1>7 DEF TestRequest, WalkedOnly
  <2>3. Lists' /\ SendTypes'
      BY <1>0, <1>1, <2>1, <2>2 DEF Lists, SendTypes
  <2>4. \A q \in Rank : q # r /\ NothingTracked(q) => NothingTracked(q)'
      BY <2>1, <2>2 DEF NothingTracked
  <2>5. Collected'
      BY <1>4, <2>4, StillCollected
  <2>. QED
      BY <1>2, <2>3, <2>5 DEF SendInv
<1>8. CASE CIRCLE_worksend_check(r)
  <2>1. PICK i \in 1 .. Len(send_reqs[r]) :
           send_reqs[r][i] = Complete /\ send_reqs' = [send_reqs EXCEPT ![r] = Reap(send_reqs[r], i)]
      BY <1>8 DEF CIRCLE_worksend_check
  <2>2. held' = [held EXCEPT ![r] = held[r] - 1] /\ request_slot' = request_slot
      BY <1>8 DEF CIRCLE_worksend_check
  <2>3. /\ Tracks(Reap(send_reqs[r], i), r, sends)
        /\ Len(Reap(send_reqs[r], i)) = Len(send_reqs[r]) - 1
      BY <1>0, <1>6, <2>1, TracksReaped
  <2>4. held[r] - 1 = Len(Reap(send_reqs[r], i))
      BY <1>6, <2>3
  <2>. QED
      BY <1>0, <1>5, <2>1, <2>2, <2>3, <2>4
<1>9. CASE CIRCLE_worksend_wait(r)
  <2>1. /\ held' = [held EXCEPT ![r] = held[r] - Len(send_reqs[r])]
        /\ send_reqs' = [send_reqs EXCEPT ![r] = <<>>]
        /\ request_slot' = [request_slot EXCEPT ![r] = FALSE]
        /\ \A i \in 1 .. Len(send_reqs[r]) : send_reqs[r][i] = Complete
      BY <1>9 DEF CIRCLE_worksend_wait
  <2>2. held[r] - Len(send_reqs[r]) = 0
      BY <1>0, <1>6
  <2>3. \A s \in sends : s.src # r
      BY <1>0, <1>6, <2>1, CompleteIsNone DEF Tracks
  <2>4. Tracks(<<>>, r, sends) /\ 0 = Len(<<>>)
    <3>1. <<>> \in Seq(Entry) /\ Len(<<>>) = 0
        BY EmptySeq
    <3>. QED
        BY <2>3, <3>1 DEF Tracks
  <2>5. /\ DOMAIN request_slot' = Rank
        /\ \A q \in Rank : q # r => request_slot'[q] = request_slot[q]
      BY <1>0, <2>1
  <2>6. held' = [held EXCEPT ![r] = 0]
      BY <2>1, <2>2
  <2>7. PICK l : l = <<>>
      OBVIOUS
  <2>8. Tracks(l, r, sends) /\ 0 = Len(l) /\ send_reqs' = [send_reqs EXCEPT ![r] = l]
      BY <2>1, <2>4, <2>7
  <2>. QED
      BY <1>5, <2>5, <2>6, <2>8
<1>. QED
    BY <1>7, <1>8, <1>9 DEF Collect

(* The other handlers post and complete no send.                           *)
LEMMA OtherSends ==
    ASSUME TypeOK, SendInv, Collected, NEW r \in Rank,
           \/ BarrierWhenSent(r) \/ BarrierTestFirst(r) \/ AbortReduceSent(r) \/ OtherStep(r)
    PROVE  SendInv' /\ Collected'
<1>1. UNCHANGED <<send_reqs, held, sends, request_slot>>
    BY DEF BarrierWhenSent, BarrierTestFirst, AbortReduceSent, OtherStep, sendVars
<1>2. UNCHANGED <<replies, receipts>>
  <2>1. CASE BarrierWhenSent(r)
      BY <2>1 DEF BarrierWhenSent, BarrierStart, EnterBarrier, CIRCLE_barrier_start, GoTo
  <2>2. CASE BarrierTestFirst(r)
      BY <2>2 DEF BarrierTestFirst, BarrierTest, TestBarrier, BarrierGather, BarrierResult,
         BarrierWait, BarrierSendUp, BarrierComplete, GoTo
  <2>3. CASE AbortReduceSent(r)
      BY <2>3 DEF AbortReduceSent, AbortReduce, Vote, AbortReduceUp, AbortReduceDown,
         Finish, GoTo
  <2>4. CASE OtherStep(r)
      BY <2>4 DEF OtherStep, AbortCheck, Flood, CIRCLE_abort_check, AbortReplies, FloodEnds,
         AbortTest, ProcessItem, Work, Process, TermCheck, TermGather, TermResult, TermWait,
         TermSendUp, TermDecide, TermComplete, LoopAgain, CleanupIteration, CleanupAgain, GoTo
  <2>. QED
      BY <2>1, <2>2, <2>3, <2>4
<1>3. SendInv'
    BY <1>1, <1>2 DEF SendInv, SendTypes, Lists, RepliesInFlight, ReceiptsCounted, ReceiptsTo
<1>4. CASE BarrierWhenSent(r) \/ BarrierTestFirst(r) \/ OtherStep(r)
  <2>1. StaysBefore(r)
      BY <1>4, LoopsStayBefore DEF BarrierWhenSent, BarrierTestFirst, OtherStep
  <2>2. \A q \in Rank : q # r /\ NothingTracked(q) => NothingTracked(q)'
      BY <1>1 DEF NothingTracked
  <2>3. Collected'
      BY <2>1, <2>2, StillCollected
  <2>. QED
      BY <1>3, <2>3
<1>5. CASE AbortReduceSent(r)
  <2>1. /\ phase[r] \in {"reduce", "await"}
        /\ phase[r] = "reduce" => NothingTracked(r)
        /\ \E ph : phase' = [phase EXCEPT ![r] = ph]
      BY <1>5 DEF AbortReduceSent, AbortReduce, Vote, AbortReduceUp, AbortReduceDown, Finish,
         GoTo
  <2>2. Collected'
      BY <1>1, <2>1 DEF TypeOK, WorkerTypes, Collected, NothingTracked
  <2>. QED
      BY <1>3, <2>2
<1>. QED
    BY <1>4, <1>5

(* The invariants hold in every reachable state.                           *)
LEMMA SendInvHolds == SendSpec => [](SendInv /\ Collected)
<1>. DEFINE Base == TypeOK /\ Conversation
            Inv == SendInv /\ Collected
<1>1. SendInit => Inv
    BY SendInvInit
<1>2. Base /\ Base' /\ Inv /\ [SendNext]_allVars => Inv'
  <2>. SUFFICES ASSUME TypeOK, Conversation', SendInv, Collected, [SendNext]_allVars
                PROVE  SendInv' /\ Collected'
      OBVIOUS
  <2>1. ASSUME NEW r \in Rank, SendStep(r) PROVE SendInv' /\ Collected'
      BY <2>1, RepliesStep, ReceiptsStep, RequestStep, CollectStep, OtherSends
      DEF SendStep, Collect
  <2>2. CASE UNCHANGED allVars \/ (Done /\ UNCHANGED sendVars)
    <3>1. UNCHANGED <<phase, replies, receipts, send_reqs, held, sends, request_slot>>
        BY <2>2 DEF Done, allVars, sendVars, vars, workerVars, workVars
    <3>. QED
        BY <3>1 DEF SendInv, SendTypes, Lists, RepliesInFlight, ReceiptsCounted, ReceiptsTo,
           Collected, NothingTracked
  <2>. QED
      BY <2>1, <2>2 DEF SendNext
<1>3. SendSpec => []Base
    BY SendsImplementTree, TreeImplementsWorker, ConversationHolds, TypeCorrect, PTL
<1>. QED
    BY <1>1, <1>2, <1>3, PTL DEF SendSpec

(* CIRCLE_worksend_free never finds a send it would have to leave to MPI:  *)
(* the list is empty, and the request slot free, when CIRCLE_worker        *)
(* returns.                                                                *)
THEOREM NothingTornHolds == SendSpec => []NothingTorn
<1>1. Collected => NothingTorn
    BY DEF Collected, NothingTorn
<1>. QED
    BY <1>1, SendInvHolds, PTL

(* However many sends complete, and in whatever order the backward walk of *)
(* CIRCLE_worksend_check swaps the last entry into the slot of a completed *)
(* one, every buffer that is not released stays on the list, once, and no  *)
(* buffer is released that MPI still reads.                                *)
THEOREM BuffersHeldHolds == SendSpec => []BuffersHeld
<1>1. SendInv => BuffersHeld
  <2>. SUFFICES ASSUME SendInv PROVE BuffersHeld
      OBVIOUS
  <2>1. Lists /\ \A s \in sends : s.src \in Rank
      BY DEF SendInv, SendTypes, Send
  <2>2. ASSUME NEW s \in sends
        PROVE  \E i \in 1 .. Len(send_reqs[s.src]) : send_reqs[s.src][i] = s
    <3>1. PICK q \in Rank : q = s.src
        BY <2>1
    <3>2. Tracks(send_reqs[q], q, sends)
        BY <2>1 DEF Lists
    <3>3. \E i \in 1 .. Len(send_reqs[q]) : send_reqs[q][i] = s
        BY <3>1, <3>2 DEF Tracks
    <3>. QED
        BY <3>1, <3>3
  <2>3. ASSUME NEW r \in Rank
        PROVE  /\ held[r] = Len(send_reqs[r])
               /\ \A i \in 1 .. Len(send_reqs[r]) :
                     /\ send_reqs[r][i] \in sends \cup {Complete}
                     /\ \A j \in 1 .. Len(send_reqs[r]) :
                           send_reqs[r][i] = send_reqs[r][j] => i = j \/ send_reqs[r][i] = Complete
    <3>1. Tracks(send_reqs[r], r, sends) /\ held[r] = Len(send_reqs[r])
        BY <2>1 DEF Lists
    <3>. QED
        BY <3>1 DEF Tracks
  <2>. QED
      BY <2>2, <2>3 DEF BuffersHeld
<1>. QED
    BY <1>1, SendInvHolds, PTL

(* Where no receipt is in flight, no send of a receipt is incomplete.      *)
LEMMA NoReceiptSends ==
    ASSUME SendInv, NEW d \in Rank, receipts[d] = 0
    PROVE  ReceiptsTo(d) = {}
<1>1. ReceiptsTo(d) \in SUBSET Send /\ Cardinality(ReceiptsTo(d)) = 0
    BY DEF SendInv, SendTypes, ReceiptsCounted, ReceiptsTo
<1>2. IsFiniteSet(ReceiptsTo(d))
    BY <1>1, SendsFinite
<1>. QED
    BY <1>1, <1>2, FS_EmptySet

(* Once a rank is past the barrier, everything it still tracks has been    *)
(* received, and the MPI_Waitall of CIRCLE_worksend_wait returns.          *)
THEOREM SendsMatchedHolds == SendSpec => []SendsMatched
<1>1. SendInv /\ CleanExit => SendsMatched
  <2>. SUFFICES ASSUME SendInv, CleanExit, NEW r \in Rank, Past(r)
                PROVE  (\A s \in sends : s.src # r) /\ \A d \in Rank : <<r, d>> \notin requests
      BY DEF SendsMatched
  <2>1. requests = {} /\ replies = {} /\ \A q \in Rank : receipts[q] = 0
      BY DEF CleanExit
  <2>2. ASSUME NEW s \in sends PROVE FALSE
    <3>1. s \in Send
        BY DEF SendInv, SendTypes
    <3>2. s.dst \in Rank /\ (s.tag = "reply" \/ s.tag = "receipt")
        BY <3>1 DEF Send
    <3>3. s.tag # "reply"
        BY <2>1 DEF SendInv, RepliesInFlight
    <3>4. ReceiptsTo(s.dst) = {}
        BY <2>1, <3>2, NoReceiptSends
    <3>. QED
        BY <3>2, <3>3, <3>4 DEF ReceiptsTo
  <2>. QED
      BY <2>1, <2>2
<1>. QED
    BY <1>1, SendInvHolds, SendsImplementTree, CleanExitHolds, PTL

(* Every send that has not completed has a receiver that still probes for  *)
(* its message, so that the backlog of CIRCLE_workreq_check and the wait   *)
(* of the cleanup loop for send_count to reach zero come to an end.        *)
THEOREM SendsReceivableHolds == SendSpec => []SendsReceivable
<1>1. /\ TypeOK /\ Conversation /\ CleanExit /\ NothingLeftOver /\ ReceiptsBalance /\ SendInv
      => SendsReceivable
  <2>. SUFFICES ASSUME TypeOK, Conversation, CleanExit, NothingLeftOver, ReceiptsBalance, SendInv,
                       NEW s \in sends
                PROVE  /\ s.tag = "reply" => /\ work_requested[s.dst] = s.src
                                             /\ phase[s.dst] \in {"loop", "cleanup"}
                       /\ s.tag = "receipt" => phase[s.dst] = "loop" /\ work_outstanding[s.dst] > 0
      BY DEF SendsReceivable
  <2>0. s.dst \in Rank /\ phase \in [Rank -> Phase] /\ receipts \in [Rank -> Nat]
      BY DEF SendInv, SendTypes, Send, TypeOK, WorkerTypes
  <2>1. CASE s.tag = "reply"
    <3>1. PICK m \in replies : m.src = s.src /\ m.dst = s.dst
        BY <2>1 DEF SendInv, RepliesInFlight
    <3>2. work_requested[s.dst] = s.src
        BY <3>1 DEF Conversation
    <3>3. ~Past(s.dst)
        BY <2>0, <3>1 DEF CleanExit
    <3>4. phase[s.dst] \in {"loop", "cleanup"}
        BY <2>0, <3>3 DEF Past, Phase
    <3>. QED
        BY <2>1, <3>2, <3>4
  <2>2. CASE s.tag = "receipt"
    <3>1. s \in ReceiptsTo(s.dst)
        BY <2>2 DEF ReceiptsTo
    <3>2. receipts[s.dst] # 0
        BY <2>0, <3>1, NoReceiptSends
    <3>3. phase[s.dst] = "loop"
        BY <2>0, <3>2 DEF NothingLeftOver
    <3>4. Cardinality(Transfers(s.dst)) \in Nat
        BY RankFacts DEF Transfers
    <3>5. work_outstanding[s.dst] = receipts[s.dst] + Cardinality(Transfers(s.dst))
        BY <2>0 DEF ReceiptsBalance
    <3>6. work_outstanding[s.dst] > 0
        BY <2>0, <3>2, <3>4, <3>5
    <3>. QED
        BY <2>2, <3>3, <3>6
  <2>. QED
      BY <2>1, <2>2
<1>. QED
    BY <1>1, SendInvHolds, SendsImplementTree, TypeCorrect, TreeImplementsWorker,
       ConversationHolds, CleanExitHolds, NothingLeftOverHolds, ReceiptsBalanceHolds, PTL

(* However late sends complete, no rank leaves the work loop while any     *)
(* rank has work to do, no item is lost or duplicated, all ranks agree on  *)
(* the abort, and nothing is left for the next call of CIRCLE_begin.       *)
THEOREM SendsKeepSafety ==
    SendSpec => [](/\ TerminationSafe /\ WorkConserved /\ CleanExit
                   /\ AbortAgreement /\ NothingLost)
BY SendsImplementTree, TerminationSafeHolds, WorkConservedHolds, CleanExitHolds,
   AbortAgreementHolds, NothingLostHolds, PTL
=============================================================================
