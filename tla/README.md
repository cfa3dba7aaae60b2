# libcircle in TLA+

libcircle distributes a workload over the ranks of an MPI job. Each rank has a
queue of work items (strings). It processes its own items, steals items from a
random rank when it has none, and stops when all ranks together have no work
left. There is no shared memory. Everything hard about the library is in the
interleaving of the ranks and their messages: when may a rank conclude that
*nobody* has work, what happens to items that are moving at that moment, and
how does an abort, which any callback may ask for at any time, get everyone
out with nothing lost.

The modules here model that core and what surrounds it: reductions of user
data, the non-blocking sends, the memory of the queue, checkpoint files, and
applications that call the library again. TLC checks them on small jobs, and
TLAPS proves every safety property of those runs, the refinements among them,
for any number of ranks, any tree width and any set of items.

## 1. Inventory

| component | code | state | operations | interacts with |
|---|---|---|---|---|
| collective tree | `token.c` `CIRCLE_tree_init` | parent, children | computed once | used by abort, termination, reduction, barrier |
| work distribution | `token.c` `CIRCLE_workreq_check`, `_workreceipt_check`, `_request_work`, `_work_receive`, `_send_work*` | queue, `work_requested`, `work_outstanding` | ask, refuse, split and send, receive, acknowledge | blackens the ring's colours, spoils the tree's rounds, carries the abort code |
| tree termination | `CIRCLE_check_for_term_allreduce` | `term_flag`, `term_up`, `term_replies` | gather flags, send up, decide, pass down | reads `work_outstanding` |
| ring termination (default) | `CIRCLE_check_for_term`, `CIRCLE_token_*` | `token_is_local`, `token_proc`, `token_buf`, `token_send_req` | pass the token, receive it, forward TERMINATE | stops in abort state |
| abort | `CIRCLE_abort_check`, `_abort_start`, `_abort_reduce` | `CIRCLE_ABORT_FLAG`, `abort_state`, `abort_outstanding` | flood, acknowledge, agree at the end | stops processing and stealing |
| cleanup barrier | `CIRCLE_barrier_start`, `_barrier_test` | `barrier_*` | start, gather, release | starts when nothing is outstanding |
| worker | `worker.c` `CIRCLE_work_loop`, `CIRCLE_worker` | the position in the two loops | calls all the above in a fixed order | callbacks of the application |
| send tracking | `CIRCLE_worksend_*` | `send_count`, `send_reqs`, `send_bufs`, `work_request_req` | track, test, wait | gates the barrier and `send_backlog` |
| user reduction | `CIRCLE_reduce_check`, `_reduce_sync` | `reduce_*` | periodic and final reduction | gates the barrier |
| queue, checkpoints | `queue.c`, `CIRCLE_send_work`, `CIRCLE_work_receive` | string pool, offsets, files | push, pop, extend, cut, overwrite, write, read | everything above |
| interface | `lib.c` | `CIRCLE_INPUT_ST`, `CIRCLE_ABORT_FLAG` | init, options, begin, restart, finalize | calls the worker |

Left aside: logging, the Doxygen and autotools files, and
`experimental/flex_queue`, which is not built into the library.

What is hard here, and hard to test: steps of ranks in orders no test
produces; probes with `MPI_ANY_SOURCE` that may match the wrong message; a
termination round that overlaps a transfer of work; an abort that races with
termination; messages still in flight when a rank stops listening; blocking
sends in loops that must go on receiving; state and files left over from one
call to the next; loops that must end. `PROJECT.json` lists the hazards with their lines and with the
properties that are about them.

## 2. Modules

```
CircleTree                 the tree, pure operators
  CircleWork               queues, requests, replies, receipts, loops
    CircleAbort            flood, final reduction, checkpoint
    CircleTermTree         allreduce rounds          CircleTermRing   token
    CircleBarrier          cleanup barrier
    CircleWorker           skeleton: work + abort + barrier, detection left open
      CircleTreeWorker     with the allreduce   --implements--> WorkPool
        CircleTreeInv        inductive invariant;  MCTreeWorker
        CircleReduceWorker   with CircleReduce: user reductions, blocking sends;  MCReduceWorker
          CircleReduceInv      inductive invariant
        CircleSends          with tracked non-blocking sends;  MCSends
        CircleSession        several CIRCLE_begin calls, restarts;  MCSession
          CircleSessionInv     inductive invariant
      CircleRingWorker     with the token;  MCRingWorker
        CircleRingInv        inductive invariant
Totals                     sums
CircleQueue                string pool of the queues   --implements--> WorkStacks;  MCQueue
CircleCheckpoint           text of the checkpoint file;  MCCheckpoint

CircleWorkerProofs         tree, sums, work distribution, barrier and abort
  CircleTreeProofs         tree termination, exit, WorkPool
    CircleLayerProofs        reductions        CircleSendProofs    tracked sends
    CircleSessionProofs      repeated calls, restarts
  CircleRingProofs         ring termination
CircleQueueProofs          memory of the queue, WorkStacks
CircleCheckpointProofs     the checkpoint file
```

`CircleWorker` is what the two workers share: `WorkerSpec` allows a rank to leave
the work loop at any time, rightly or not. What is proved of it, conservation
of work and everything about the barrier and the abort, owes nothing to
termination detection, and holds for the ring although the ring can announce
termination too early.

The three modules under `CircleTreeWorker` are layers: each adds variables and
conditions to the tree worker's actions and changes none of its variables on
its own (`CircleSession` does between calls). The first two are proved to
implement the tree worker, so its theorems hold for them.

**Control.** A rank is one thread. `phase[r]` says where `CIRCLE_worker` is:
the work loop (`loop`), the cleanup loop (`cleanup`), `CIRCLE_abort_reduce`
before the partial result is sent (`reduce`) and while the final one is awaited
(`await`), or returned (`exit`). `pc[r]` is the position of the next handler in
the current iteration, by the tables `loop_order` and `cleanup_order`. Each
handler that finds something to do is one action: between two handlers of one
rank any step of another rank can happen. A handler that finds nothing is not a
step; the handler at position h is enabled when `pc[r] <= h`, the ones in
between having found nothing. Since a probe may miss a message in flight,
skipping a handler that waits for a message is always possible; skipping what
the code does unconditionally is not: `AbortDue` (the flag is set, so
`CIRCLE_abort_check` must run first), `SendDue` and `TokenDue` (a flag or the
token is at hand, so the termination check sends it) forbid it. Long handlers
are split where another rank's step in between could matter:
`CIRCLE_check_for_term_allreduce` and `CIRCLE_barrier_test` before the probe
for the parent's message, `CIRCLE_abort_check` before its `MPI_Testall`.

**Messages.** Every tag has a variable of its own holding the messages in
flight. They are sets: by `OneConversation` and `TermRounds` no two equal
messages are ever in flight, except receipts, which are counted per receiver.
MPI does not lose or duplicate messages, so the models do not either; they are
delivered in any order across tags and sources. Of one source and tag there is
never more than one in flight, so MPI's non-overtaking rule has nothing to
order. It does order a token and a work reply from the same rank as
*arrivals*, not as receptions: probes are per tag. `InOrder` chooses whether
the ring's token can be seen before an earlier reply of the same sender; the
passing runs allow it, the runs that show violations do not need it.

**Data.** An item is a model value, a queue a set of items. Which items are
sent is left open (the code sends the most recent ones), how many is not:
`spread_counts` and `split_sizes` are the code's arithmetic, and
`SplitKeepsOne` is about them: a split that came to more than the queue has
would have no transfer in the model, and in the code one from below the pool. `Process` stands
for the application: it takes one item and may enqueue new ones and call
`CIRCLE_abort`. An application that dequeues nothing, or several items, in one
callback is not modelled. The items of a transfer and its header are two
messages in the code; the receiver takes both at once (it blocks on the
second), so they are one here. A work reply and the receipt it triggers are
one step for the same reason.

**Abstracted control.** Whether a non-blocking send has completed *locally* is
not tracked in the base modules. It matters in three places, and each is a choice of the model: a
rank may refuse a requestor although it has work (`send_backlog`), may put off
its next request (`request_slot_free`), and may put off starting the barrier
(`send_count`, `work_request_req`). The model therefore has every behaviour of
the code here, and some more; `CircleSends` has exactly the code's, and is
proved to implement this model. One consequence is conservative: `CleanExit`
shows that the barrier is right even without waiting for `send_count`.

**History variables.** `created`, `processed`, `sense` (parity of the rounds a
rank has completed, in all its calls), `overlap` (a token was passed on by a rank with a
transfer in flight), `since`, `delivered` and `final` (reductions), `called`,
`remaining` and `stale` (sessions), `held` (sends) and `written` (checkpoints) only record; no guard that models code reads them, except
that `Process` draws fresh items from outside `created`.

**CircleTermTree.** `TermGather` is the function up to the send to the parent:
take flags of children (`TermWait`), send up (`TermSendUp`) or, at the root,
decide (`TermDecide`). `TermResult` is the rest. `ForceRound` is the assignment
to `term_flag` in `CIRCLE_workreceipt_check`.

**CircleTermRing.** `TokenPass` is the branch of `CIRCLE_check_for_term` with
the token at hand, including the colour the rank takes when
`CIRCLE_token_issend` returns without sending; `TokenRecv` is
`CIRCLE_token_check` and `CIRCLE_token_recv`, in both loops; `TokenTest` the
`MPI_Test` of the cleanup loop. `MPI_Issend` makes `token_send_req` clear only
once the token has been received.

**CircleAbort.** `CIRCLE_abort_check` with `abort_start` in it; `AbortTest`;
then `AbortReduceUp`, `AbortReduceDown` and `Finish`, which also stands for
`CIRCLE_checkpoint` in `CIRCLE_worker`: it is the next thing the rank does, and
no other rank can see the difference.

**CircleReduce, CircleReduceWorker.** `StartReduce`, `RefuseReduce` and
`GatherReduce` are the three branches of `CIRCLE_reduce_check`; `Combine` and
`CompleteReduce` what it does with partial results. When the timer runs out is
left open. The user's data is a count of contributions per rank, summed by
`reduce_op`, so that a result says who is in it and how often. The header and
the user data of a partial result are two messages in the code, received back
to back, and one here. A handler runs before (`Early`) or after (`Late`) the
reduction check of its iteration; `reduced` says that the check has acted in
this iteration, which goes on to request work and to check for termination. An
iteration in which nothing else happens ends with `ReducedOnly`. `Rendezvous` turns on the other half of what MPI allows
`MPI_Send` to do: a rank takes no step while a termination, barrier, reduction
or abort reduction message it has sent is not received. Abort replies are left
out of `Blocked`, their receives having been posted before.

**CircleSends.** A send is complete when its message has been received, the
slowest transport MPI allows, and a test may see that arbitrarily late. `sends`
is MPI's side, the sends that have not completed; `send_reqs` is the rank's
list, with `Complete` in the place of a send that has, and `held` the number of
requests, with their buffers, that the rank has not released. The two agree only
if the code keeps the list right. `TrackReplies`, `TrackRequest` and
`TakeReceipts` are the tree worker's handlers with the sends they post (two for
a transfer, one for a refusal or a receipt) and complete; `TrackReplies` refuses
exactly when the code does, `Backlog` included. `CIRCLE_worksend_check` walks
the list backwards, at its place among the handlers: each step releases one
entry whose `MPI_Test` succeeds and fills its slot with the last (`Reap`), and
`walk` says which slots it has still to visit, so that a send that completes
behind the walk waits for the next one. `WalkedOnly` ends an iteration in which
nothing else was found. `CIRCLE_worksend_wait` stands between the barrier and
the abort reduction.

**CircleQueue.** The pool is an array of bytes, each byte an index into the
string it belongs to or `Junk`; `strings` has the offsets. Writes go where the
code's pointer arithmetic puts them, inside the allocation or not: `InBounds`
says they stay inside. `CIRCLE_send_work` with its back-off and
`CIRCLE_work_receive` move items between two pools. A rank asks for work only
when its queue is empty and it is not in a callback, which is what
`OneConversation` proves of the workers; `CIRCLE_send_work` takes it as its
guard. Items that the code cuts off are overwritten with `Junk` in the model,
so that reading them again would show. A callback may dequeue whether it is
`process_cb` or `create_cb`, since `CIRCLE_cb_process` registers the one in place
of the other. **WorkStacks** is what the pools
implement: a stack per rank, and transfers of the topmost items in order.

**CircleCheckpoint** has one rank's file as a text: a sequence of characters of
which the newline is one. `LineEnd` is where one `fgets` stops, given its buffer
size; `Lines` is the loop around it, with the character it overwrites.

**CircleSession** lets each rank call `CIRCLE_begin` again on its own as soon as
its previous call has returned, and starts a new job with the checkpoint files
when an aborted one has ended. `CIRCLE_begin` resets what
`CIRCLE_init_local_state` resets and nothing else; the globals of `worker.c` are
initialised by `NewJob` only. (At log level info the
summary's `MPI_Gather` makes the root return last; below it nothing orders the
ranks, which is what is modelled.) Files are sets of items here.

**WorkPool** is the abstract specification: a pool of items, each processed at
most once, and an end that is announced only when every item has been processed
or the run is aborted. `ImplementsPool` says that the tree worker implements
it, with "terminated" when any rank has left the work loop.

## 3. Runs

Every property has a mutant of the code model that breaks it (see
`PROJECT.json`); the mutants are defined next to what they change.

| run | instance | shows |
|---|---|---|
| `tree_star` | 3 ranks, width 2, 3 items, any rank creates (`CREATE_GLOBAL`), random split | types, `WorkConserved`, `OneConversation`, `ReceiptsBalance`, `RoundSound`, `SplitKeepsOne`, `TerminationSafe`, `NothingLeftOver`, refinement of `WorkPool` |
| `tree_abort` | 3 ranks, width 1, 1 item, any rank may abort | `TermRounds`, `AnySourceIsChild`, `NothingLost`, `AbortAgreement`, `CleanExit` |
| `ring_safe` | 3 ranks, 2 items, the last rank creates, rank 0 may abort, equal split | types, `WorkConserved`, `SplitKeepsOne`, `OneToken`, `RingSafeUnlessOverlap` |
| `ring_lost` | 3 ranks, 2 items, default options | **violates** `AllProcessed` |
| `ring_hang` | 2 ranks, 2 items, both may abort, default options, fair | **violates** `AbortHonoured` |
| `ring_receipt` | 2 ranks, 2 items, default options | **violates** `NothingSentIsLeft` |
| `reduce_chain` | 3 ranks, width 1, 1 item, 2 rounds | `RoundsNest`, `NoRoundPastBarrier`, `FinalExact`, `ResultExact` |
| `blocking_hang` | 2 ranks, 1 item, blocking sends, no reductions, fair | **violates** `AllReturn` |
| `sends` | 2 ranks, 3 items, rank 0 may abort, backlog limit 2 sends, lists of at most 3 | `SendsMatched`, `NothingTorn`, `BuffersHeld`, `SendsReceivable` |
| `queue` | 2 ranks, strings of size 1, 2 and too long, 4 items, transfers of at most 3 bytes | `InBounds`, `Laid`, refinement of `WorkStacks` |
| `checkpoint` | buffer of 3, every string the queue accepts, 3 items | `FileRestores` |
| `session_restart` | 2 ranks, 2 items, 2 calls, both may abort, new job after an abort, fair | `NeverLost`, `SessionsApart`, `FilesAreTheRest`, `BeginCompletes`, `AbortSticks`, `CallsReturn` |

**Bounds.** `N`, `K`, `Item`, `CreateRanks`, `MayAbort`: nothing else is
bounded in the tree and ring workers, the state space is finite because a run
creates each item once. The layers add `MaxRounds`, `MaxSends`, `MaxSessions`
and `MaxItems`. Two
ranks have every kind of conversation. Three ranks in a star let one rank
answer two at once and let work move between two ranks while a third decides;
three in a chain give a rank with both a parent and a child, which is where
messages in both directions with one tag can be confused. Two items are needed
to move any (a rank keeps at least one), three to move work a second hop or to
split it among two requestors. `tree_star` lets every rank create (which has
the initial states of root-only creation among its own): what breaks a
termination protocol is a transfer from a rank that has yet to contribute to
one that has, in each direction of the tree. On the ring that is a transfer
from a rank the token has yet to reach to one it has passed, so in `ring_safe`
the last rank has the work; `ring_lost` starts with the work at rank 0. With
one item no work moves, so `tree_abort`, which is about flags and messages,
gets by with one; the interplay of abort and transfers is in
`session_restart`, `ring_safe` and `sends`. The splits are random in
`tree_star` and equal in `ring_safe`, with up to two requestors for up to three
items: remainders, and more requestors than items. Items are interchangeable,
so safety runs use symmetry; the liveness runs do not.

A background round is about messages and phases more than about work:
`reduce_chain` has a rank that forwards a round, a second round behind the
first, and one item to count. With `BacklogPerRank` = 1 a rank reaches its
limit with two unreaped sends, which a work transfer is already; `MaxSends`
leaves room for a transfer to each other rank just below the limit, and lists of
three have entries that the walk moves and entries it has passed. In `queue` both the
pool and the offsets start with room for one string and grow by single steps,
so that every run of pushes extends them, and two items of maximal size do not
fit in one transfer. `checkpoint` has strings of the greatest length that the
push accepts and of the greatest that survives, and the empty one. Two items
and two calls let `session_restart` begin a second call beside the first, and
abort, restart, move an item to the other rank and abort again, with the file of
the first abort left behind. To *read* such a file takes a third call, after
which `FilesAreTheRest` says nothing; the theorems have any number of calls.

**Deadlock** is checked (a terminated job stutters in `Done`) except in
`ring_safe` and `ring_hang`: there the aborted ring stops, which is finding 2;
in `blocking_hang`, where blocking sends stop the job, finding 4; and in
`queue`, which stops when its callbacks have returned and there is nothing to
send.

**Fairness.** `WF` of a rank's steps: a rank keeps running. `SF` of the
handlers: each loop calls each of its handlers over and over, and MPI's progress
rule makes a repeated probe see a message that has been sent; so a handler that
has something to do again and again eventually does it. A weaker `WF` would let
a rank miss a message for ever only because another handler disables the probe
in alternate states. `SessionFairness` has one `SF` for the handlers that act a
bounded number of times in a call together, which is weaker than one for each,
and takes the application to be one program: a call that a rank has entered is
made by the others too (`WF` of the rank includes its `CIRCLE_begin`). Nothing
is assumed about the callbacks except that they return, and nothing about how
often work is refused: an idle rank may be turned away for ever while others
make progress. `CallsReturn` says that again and again all ranks have returned,
and, when an abort was called for, aborted: with it the first call, the second
and the one after a restart each return. `CircleReduceWorker` adds the reduction
check, which every iteration calls; no fairness is assumed of its timer.

### What the violations show

1. **`ring_lost`** (`token.c:1029`). The ring decides on colours alone and
   never looks at `work_outstanding`, and rank 0 always sends a white token.
   Rank 0 gives work to rank 2 and goes idle, the token runs 0, 1, 2, 0 while
   the work reply is on its way, and termination is declared. Rank 2 receives
   the item in the cleanup loop, where nothing processes it.
   `tests/check_deadlock.c:135`: "every item that was created must have been
   processed exactly once". `RingSafeUnlessOverlap` shows that a transfer in
   flight at the rank that passes the token on is the *only* way this happens.
2. **`ring_hang`** (`token.c:903`). `CIRCLE_token_issend` sends nothing in
   abort state. No TERMINATE token goes around, and ranks in the work loop
   never leave it. `libcircle.h:130`: "have all ranks dump a checkpoint file
   and exit". The tree has no such problem (`CallsReturn`).
3. **`ring_receipt`** (`worker.c:391`). The barrier does not wait for
   `work_outstanding`, and the cleanup loop has no handler for work receipts.
   Rank 0 gives an item to rank 1, the ring announces termination while the
   receipt is on its way, and both return. In the next call it is taken for the
   receipt of a later transfer. `worker.c:320`: "We need to be sure that all sent
   messages have been received before returning control to the user". The send
   of a receipt, zero bytes, is taken to complete without a receiver; on a
   transport where it does not, `send_count` keeps its sender in the cleanup
   loop. `OnlyReceiptsLeftHolds` proves that nothing *but* receipts is left this
   way. With the tree the argument in that comment is right (`NothingLeftOver`,
   `CleanExit`).
4. **`blocking_hang`** (`token.c:448`). A child in the `MPI_Send` of its barrier
   message answers no work requests; a parent with a request to that child
   outstanding does not start the barrier, and before it has it does not receive
   barrier messages. `check_deadlock.c:128`: "If the library still blocks in a
   send, this call never returns on at least one process". This needs an MPI
   that does not buffer these tiny messages, which `check_deadlock.c:17` says
   happens: "Even a tiny send blocks when the transport is backed up."

### Limits that passing properties state

Some properties hold only with a condition, and the condition is a limit of the
code that an application should know.

* `FileRestores`: the queue accepts items that the checkpoint file does not give
  back. A newline splits an item; an item of `CIRCLE_MAX_STRING_LEN - 1`
  characters comes back one character short, with an empty item behind it. The
  empty string is accepted and survives: the guard against it (`queue.c:194`,
  `len <= 0`) is dead code, because `len` counts the terminating NUL.
* `FilesAreTheRest`: a rank without items writes no file and leaves an older one
  in place (`queue.c:352`, `LeftBehind`), so that the next restart repeats items
  that have been processed or are in another file. The property says that this
  is the only way the files come to differ from what is left to do, and that
  then they always do. Nothing is lost this way (`NeverLost`), only done twice.
* `BeginCompletes`, `NeverLost`: the run has `Reuse` = FALSE, a new process after
  every aborted call. With TRUE they fail: `CIRCLE_ABORT_FLAG` (`worker.c:26`) outlives
  the call that set it, and a second `CIRCLE_begin` in the same process does no
  work and checkpoints it, over the files of the first. No document says what to
  expect of such a call, so this is a note and not a finding.

Two remarks that need no model checker: `token.c:1548` calls
`CIRCLE_send_no_work(dest)` with one argument where the prototype has two (the
branch cannot be reached while `CIRCLE_MAX_STRING_LEN` is below `INT32_MAX`,
which `CircleQueue` assumes); and
`libcircle.h:28` comments `CIRCLE_DEFAULT_FLAGS` as random splitting although
its value is `CIRCLE_SPLIT_EQUAL`.

## 4. Proofs

The assumptions are those named in the modules: at least one rank, width at
least one, a finite set of items, creators and aborters among the ranks.

Every safety property that a passing run checks is proved. TLC first checked
the inductive invariants on small instances.

**`CircleWorkerProofs`**, about the skeleton.

* `ParentChild`: `d` is a child of `r` exactly when `r` is the parent of `d`;
  `ChildrenCount`: `children(r)` is the number of children. Integer division by
  `K` makes this less obvious than it looks; everything about the collectives
  rests on it.
* `Total`: sums. `Totals` defines the sum of a function as the
  number of its `Units`, the pairs of an argument and a number below its value,
  so that the facts about sums follow from facts about cardinality and need no
  induction.
* `WorkerTypesHold`, `WorkerConverses`, `WorkerBalances`, `WorkerConserves`:
  types, `OneConversation`, `ReceiptsBalance`, `WorkConserved`.
  `OneConversation` counts with cardinalities; `Conversation` is its inductive
  form, with quantifiers. It is what makes `CIRCLE_work_receive` safe: a rank
  that waits for a reply has an empty queue, so writing over it loses nothing.
  `WorkConserved` is then shown item by item.
* `SplitKeepsOneHolds`: `spread_counts` hands out exactly its count
  (`SpreadAll`, by `TotalOfLevels`), which is less than the queue has in the
  random split, and in the equal one includes the share that stays.
* `WorkerInvHolds`, whichever way termination is detected: the above and the
  following three.
* `Barrier`: the barrier has one message at most per edge of the tree, and a
  rank is past it only if its parent is. So the first rank to pass is the root,
  and (`PastTogether`, by the least rank that has not) it passes only when every
  rank has started, with nothing outstanding.
* `AbortFlood`: an abort request that has not been answered has a sender that
  waits for the answer.
* `AbortVote`: until the root decides, a flag that is set anywhere is on a rank
  that has still to vote or in a message on its way up; afterwards every message
  and every rank that has returned has the root's value. `DumpsAfterVote`: files
  appear only after a decision to abort.

**`CircleTreeProofs`**: `TreeImplementsWorker`, hence all of the above for the
tree worker; then termination, `TermRoundsHold` and `TerminationSafeHolds`.

`TerminationSafe` is far from inductive. The argument is the long comment in
`worker.c:332-381` made precise, and it needs three layers. (a) *Rounds*
(`TermRounds`): between a parent and a child there is at most one message, and
it agrees with the parities of both ends; so a rank that sends up has a flag of
the current round from every child, and by induction on ranks (`LeastRank`: a
rank's parent has a smaller rank) when the root decides, *every* rank has
contributed to this round. (b) *Work* (`RoundSound`): a rank that has
contributed is idle and has its flag TRUE again, unless the round is spoiled,
that is, some rank that has yet to contribute has FALSE to say or a transfer
outstanding, or a FALSE is on its way up. A contributed rank can only become busy by receiving work; its
sender has that transfer in `work_outstanding` (`ReceiptsBalance`), therefore
has not contributed and spoils the round; and when the receipt brings the
count down, `term_flag` is set to FALSE at the same moment, so it stays
spoiled. (c) *Result* (`ResultSound`): when the root decides, (a) leaves nobody
to spoil the round but the flags it has just read, so TRUE means that all ranks
are idle; and a system in which all ranks are idle with nothing outstanding
stays so.

* `NothingLeftOverHolds`, the conclusion that the comment in `worker.c` draws,
  needs one more invariant, `Leaving`: a rank that has left the work loop has
  completed the last round, and a child that has not is one round behind with
  the TRUE on its way, if it is on its way at all.
* `AnySourceIsChildHolds` from `TermRounds` and `Barrier`; `CleanExitHolds` from
  `Barrier` and `Conversation`; `AbortAgreementHolds` from `AbortVote`;
  `NothingLostHolds` from `TerminationSafe`, `AbortAgreement` and
  `WorkConserved`; `AbortSticksHolds`, an action property.
* `ImplementsPoolHolds`: the refinement of `WorkPool`. A step is a `Process` of
  the pool, the announcement of the end when the first rank leaves its loop
  (`FirstLeaves`, where `TerminationSafe` is used), or a stutter.

**`CircleRingProofs`**: `RingImplementsWorker`, hence `RingConservesWork` and
`RingAgreesOnAbort`. `Ring` says where the one token is and which ranks have
left; it gives `OneTokenHolds` and, with `Barrier`, `OnlyReceiptsLeftHolds`.
`RingSafeUnlessOverlapHolds` rests on `Debts` and `RingRound`: as long as nobody
has passed the token on with a transfer of its own in flight, a rank with a
transfer to a lower rank in flight is black or holds a black token; hence ranks
that the token has passed are settled, unless the token is black or a black
rank is ahead of it. `RingLosesOnlyByOverlap` concludes: without such an
overlap, a run that is not aborted processes every item. Finding 1 is therefore
the *only* flaw of the ring's detection, for every number of ranks.

**`CircleLayerProofs`**: `ReduceImplementsTree` and `ReduceKeepsSafety`. Every
step of the worker with reductions is a step of the tree worker or leaves its
variables alone, whatever `ReduceEnabled` and `Rendezvous` are. Then the
reductions themselves.

* `RoundsNestHolds`, `NoRoundPastBarrierHolds` from `Rounds` (a round is in at
  most one place on each edge, and a rank that takes part waits for exactly the
  children that have not answered) and `AfterRounds`.
* `FinalExactHolds` from `Counted` and `FinalSums`: the partial results of the
  final reduction have the ranks that have sent theirs in disjoint parts, each
  with the sum of the counts of its part.
* `ResultExactHolds`, about a background round, in which ranks process items
  meanwhile and any of them may refuse. `Shares`: the partial results cover
  disjoint parts of the tree, and one that nobody has spoilt covers everything
  below its rank except the children that still owe an answer; so at the root
  it covers every rank (otherwise take the least rank missing: its parent is
  covered). `Bounds(h)`: if `h` are the counts at the start of the round
  (`AtStart`), the count of a partial result lies between the sum of `h` and the
  sum of the present counts over the part that it covers. `Deliveries`: results
  never go back.

**`CircleSendProofs`**: `SendsImplementTree`, likewise for tracked sends, and
`SendsKeepSafety`.

* `BuffersHeldHolds` from `SendInv`. `Tracks(l, r, A)`: the list `l` has each of
  the sends of `r` in `A` exactly once, and otherwise completed ones. It is kept
  when sends complete (`TracksCompleted`), when they are posted
  (`TracksPosted`), and when the walk releases a completed entry and moves the
  last one into its slot, the last one itself included (`TracksReaped`).
* `NothingTornHolds` is not about the guard of the barrier: a rank answers
  requests after it has started the barrier, so what is inductive is
  `Collected`, that a rank which is past `CIRCLE_abort_reduce`'s first message
  tracks nothing, from the fact that `CIRCLE_worksend_wait` stands between.
* `SendsMatchedHolds` and `SendsReceivableHolds` from `SendInv`, which also ties
  `sends` to the messages of the tree worker (`RepliesInFlight`,
  `ReceiptsCounted`), with `CleanExit`, `Conversation`, `ReceiptsBalance` and
  `NothingLeftOver`.

**`CircleQueueProofs`**: `QueueInv` says that the strings of each pool are
`Arranged`, in order and without overlap below `head`, inside the allocation,
that reading the pool at an offset gives back the string written there, and
that a reply in flight holds such a copy. `InBoundsHolds`, `LaidHolds`, and
`ImplementsStacksHolds`: the queues implement `WorkStacks`. What the
recursive function `BackOff` returns is shown by a least counterexample
instead of induction (`SettlesExists`, `BackOffFits`): some but not all of the
items, so that the sender keeps one.

**`CircleCheckpointProofs`**: `FileRestoresHolds`, for every alphabet, buffer
size and length of the queue. `FileInv` is short (the file is the `Text` of what
was written); the work is in `Restores`, what `Lines` returns for a `Text`.
`LineRead` is about one line, `a`, a string, its newline and `b`: `fgets` stops
at the newline if the string is plain and earlier if it is not, so that what it
returns is then too short. The recursive functions of `FlattenSeq` and `Lines`
are replaced by functions that satisfy their equations (`FlattenJoins`,
`LinesRead`), and the lines are taken from the last to the first
(`DownToZero`, from the fact that a set of numbers has a least one): what is
read from a line on is what was written from it on exactly when that line and
all behind it are plain.

**`CircleSessionProofs`**: the safety properties of `session_restart`. Calls of
different ranks overlap, so the worker's invariants, which start from `Init`,
are not at hand.

* `NeverLostHolds`, if no process calls `CIRCLE_begin` again after an aborted
  call (`~Reuse`). `KeptInv`: a waiting rank has an empty queue, so has one that
  has written its file, and every item created has been processed or is in a
  queue, a reply or a file that will be read. An older file that is overwritten
  held only items that are elsewhere by then.
* `SessionsApartHolds`, without that condition. `CallsInv` has two modes. Either
  all ranks are in the same call (`Together`); then the invariants of the tree
  worker hold (`OneCall`). Or some have begun a newer call; then that call is
  `Young`: all its ranks are in the work loop and in their first round, for the
  round cannot end before the ranks behind have joined it, and the ranks behind
  are `Through`, with nothing left but to receive the last message of the abort
  reduction (`LastMessages`). `Overlapping` are the invariants that hold in
  both modes, the rounds of the allreduce among them: a rank that is behind
  counts as one that has not contributed. From one call to two: when a rank
  returns and begins again, every rank is past the barrier (`PastTogether`), so
  nothing else is in flight and every flag is as `CIRCLE_init_local_state` sets
  it (`LastRound`). From two to one: when the last rank begins, `OneCall` holds
  because nobody has left the loop.
* `BeginCompletesHolds` (`~Reuse`) from `AbortsOwned`: a flag that is set has a
  callback of the same call behind it, so that a call without one ends by
  `ResultSound`, with no work left. `AbortSticksInCalls` (`~Reuse`) from the
  same: a rank that still waits in an older call is not aborted.
* `FilesAreTheRestHolds` (`~Reuse`) from `FilesConserve` and `KeptInv`: until a
  file that was left behind has been read, what has been checkpointed is what the files of the ranks that
  have returned hold, each item in one of them, and `WorkConserved` accounts for
  the rest. When the last rank has returned there is no other place left. A file
  that was left behind holds items that are elsewhere, so the converse holds.

**Checks of the inductive invariants** beyond the runs above (distinct states):

| invariant | instances |
|---|---|
| `Barrier`, `AbortFlood`, `AbortVote` | 3 ranks in a chain (564,467), in a star (1,999,787) |
| `Ring`, `Debts`, `RingRound` | 2 ranks (22,847), 3 ranks and 1 item (586,084), `ring_safe` |
| `Rounds` to `Deliveries` | 3 ranks in a chain, 2 rounds (1,709,772) |
| `SendInv`, `Collected` | `sends` (678,599) |
| `QueueInv` | `queue` (55,823) |
| `KeptInv`, `CallsInv`, `AbortsOwned`, `FilesConserve` | `session_restart` with 3 calls (238,038); the last three with 3 ranks in a chain, 1 item, 2 calls (1,515,773) |
| `CallsInv` with `Reuse` | the same (288,070) |

**Only model-checked:** liveness (`CallsReturn`), which this prover does not
do.

## 5. Not modelled

* `CIRCLE_reduce` with size 0, which keeps a stale buffer size (`lib.c:205`):
  the size of the user's data is not part of the model.
* Liveness with reductions and with tracked sends, and reductions with aborts: the layers multiply the states of the tree worker, and
  instances in which something happens are beyond a run of a few minutes.
* Reductions and tracked sends together with the ring: the handlers are the
  same, and the ring's own findings would mask them.
* Failures of `malloc`, of files and of MPI. The first two return an error or
  end the job; `CIRCLE_MPI_error_handler` writes the checkpoint and exits.
* The summary printed at log level info, logging, and
  `experimental/flex_queue`.
* The size of integers, apart from the `INT32_MAX` of a transfer: the code
  has `TODO: check for overflow` where a queue outgrows 2^31 items.

## 6. What could come next

Liveness with tracked sends and with reductions, on a larger machine; the size
of the user's data in `CIRCLE_reduce`; and the worker with all its layers at
once. The layers are proved to implement the tree worker one at a time, and
they share no variable of their own, but no module puts them together.
