---------------------------- MODULE CircleQueue -----------------------------
(***************************************************************************)
(* The local queue (CIRCLE_internal_queue_t): the strings of the items lie *)
(* in one growing pool of bytes, and an array has the offset of each.  A   *)
(* work transfer copies a range of the pool and its rebased offsets.  A    *)
(* byte is written <<i, k>>, the k-th of item i, whose last byte is the    *)
(* terminating NUL; Junk stands for bytes that no item of the queue holds, *)
(* never written or left over from an item that has gone.                  *)
(***************************************************************************)
EXTENDS Integers, Sequences, FiniteSetsExt

CONSTANTS
    Ranks,
    Strings,         \* strings a callback may enqueue
    Size,            \* strlen + 1 of each
    MAX_STRING_LEN,  \* CIRCLE_MAX_STRING_LEN
    INITIAL_SIZE,    \* CIRCLE_INITIAL_INTERNAL_QUEUE_SIZE
    StringStep,      \* growth of the array of offsets (4096 entries)
    ByteStep,        \* growth of the pool (4096 pages)
    MaxTransfer,     \* INT32_MAX: bytes one message can carry
    MaxItems,        \* bound: items in the queues and replies together
    Junk

ASSUME StringsAssumption ==
    /\ Size \in [Strings -> Nat \ {0}]
    /\ Junk \notin Strings
    /\ MAX_STRING_LEN \in Nat /\ INITIAL_SIZE \in Nat
    /\ StringStep \in Nat \ {0} /\ ByteStep \in Nat \ {0}
    /\ MaxTransfer >= MAX_STRING_LEN

VARIABLES
    qp,       \* the queue of each rank
    reply,    \* the work reply on its way to each rank, or NoReply
    str,      \* the string the last dequeue returned
    callback  \* "running" while the rank is in create_cb or process_cb, else "none"

queueVars == <<qp, reply, str, callback>>

NoReply == [count |-> 0, chars |-> 0, offsets |-> <<>>, buf |-> <<>>]

(* Bytes from o on, read as a C string: Junk unless they are one item.     *)
StringAt(base, o) ==
    LET found == {i \in Strings :
                    \A k \in 1 .. Size[i] : o + k - 1 \in DOMAIN base /\ base[o + k - 1] = <<i, k>>}
    IN  IF found = {} THEN Junk ELSE CHOOSE i \in found : TRUE

(* strlen + 1 of the string at o.                                          *)
SizeAt(base, o) == LET i == StringAt(base, o) IN IF i = Junk THEN 1 ELSE Size[i]

(* A write of buf, with bytes from 0 on, at o, wherever that is.           *)
Write(base, o, buf) ==
    LET to == {o + j : j \in DOMAIN buf}
    IN  [k \in to \cup DOMAIN base |-> IF k \in to THEN buf[k - o] ELSE base[k]]

(* The size a loop reaches that adds step until it is at least size.       *)
GrowTo(current, size, step) ==
    IF current >= size THEN current
    ELSE current + ((size - current + step - 1) \div step) * step

CIRCLE_internal_queue_init ==
    [base |-> [b \in 0 .. MAX_STRING_LEN * INITIAL_SIZE - 1 |-> Junk],
     bytes |-> MAX_STRING_LEN * INITIAL_SIZE,
     head |-> 0, strings |-> [j \in 0 .. INITIAL_SIZE - 1 |-> 0],
     str_count |-> INITIAL_SIZE, count |-> 0]

(* realloc keeps the entries and bytes there are; the new ones are not set. *)
CIRCLE_internal_queue_str_extend(q, size) ==
    LET n == GrowTo(q.str_count, size, StringStep)
    IN  [q EXCEPT !.str_count = n,
                  !.strings = [j \in 0 .. n - 1 |-> IF j < q.str_count THEN @[j] ELSE 0]]

(* Mutant: the pool never grows.                                           *)
CIRCLE_internal_queue_extend_not(q, size) == q

CIRCLE_internal_queue_extend(q, size) ==
    LET n == GrowTo(q.bytes, size, ByteStep)
    IN  [q EXCEPT !.bytes = n,
                  !.base = [b \in 0 .. n - 1 |-> IF b < q.bytes THEN @[b] ELSE Junk]]

(* CIRCLE_internal_queue_push of a string that is not too long.            *)
Pushed(q, i) ==
    LET room == CIRCLE_internal_queue_extend(
                    CIRCLE_internal_queue_str_extend(q, q.count + 1), q.head + Size[i])
    IN  [room EXCEPT !.strings = [@ EXCEPT ![q.count] = q.head],
                     !.base = Write(@, q.head, [k \in 0 .. Size[i] - 1 |-> <<i, k + 1>>]),
                     !.head = @ + Size[i],
                     !.count = @ + 1]

Items == MapThenSumSet(LAMBDA r : qp[r].count + reply[r].count, Ranks)

CIRCLE_enqueue(r, i) ==
    /\ callback[r] # "none"
    /\ Items < MaxItems
    /\ Size[i] <= MAX_STRING_LEN
    /\ qp' = [qp EXCEPT ![r] = Pushed(@, i)]
    /\ UNCHANGED <<reply, str, callback>>

(* The queue without its n topmost items; head stays.                      *)
Cut(q, n) ==
    LET keep == q.count - n
    IN  [q EXCEPT !.count = keep,
                  !.base = [b \in DOMAIN @ |-> IF b < q.strings[keep] THEN @[b] ELSE Junk],
                  !.strings = [j \in DOMAIN @ |-> IF j < keep THEN @[j] ELSE 0]]

(* Mutant: the head goes back to the base of the pool.                     *)
Popped_base(q) == [Cut(q, 1) EXCEPT !.head = 0]

Popped(q) == [Cut(q, 1) EXCEPT !.head = q.strings[q.count - 1]]

(* CIRCLE_internal_queue_pop.  The work loop calls process_cb when there   *)
(* is an item, and the callback begins by dequeuing one.  create_cb may    *)
(* dequeue too: CIRCLE_cb_process registers process_cb in its place.       *)
CIRCLE_dequeue(r) ==
    /\ qp[r].count > 0
    /\ str' = StringAt(qp[r].base, qp[r].strings[qp[r].count - 1])
    /\ qp' = [qp EXCEPT ![r] = Popped(@)]
    /\ callback' = [callback EXCEPT ![r] = "running"]
    /\ UNCHANGED reply

(* The callback returns to the worker.                                     *)
Return(r) ==
    /\ callback[r] # "none"
    /\ callback' = [callback EXCEPT ![r] = "none"]
    /\ UNCHANGED <<qp, reply, str>>

(* Bytes of the n topmost items.                                           *)
Span(q, n) ==
    q.strings[q.count - 1] - q.strings[q.count - n]
        + SizeAt(q.base, q.strings[q.count - 1])

(* The number of items CIRCLE_send_work settles on when it was to send n:  *)
(* a tenth less, at least one, as long as there are too many bytes.        *)
BackOff(q, n) ==
    LET fit[k \in 1 .. n] ==
            IF Span(q, k) > MaxTransfer /\ k > 1
            THEN fit[k - (IF k \div 10 = 0 THEN 1 ELSE k \div 10)]
            ELSE k
    IN  fit[n]

(* Mutant: the offsets are not rebased.                                    *)
Offsets_absolute(q, n) == [k \in 0 .. n - 1 |-> q.strings[q.count - n + k]]

Offsets(q, n) ==
    [k \in 0 .. n - 1 |-> q.strings[q.count - n + k] - q.strings[q.count - n]]

(* CIRCLE_send_work, asked to send some but not all of the items of r.     *)
(* Dest asked for work because it has none.                                *)
CIRCLE_send_work(r, dest, asked) ==
    LET q == qp[r]
        n == BackOff(q, asked)
        from == q.strings[q.count - n]
    IN  /\ dest # r
        /\ callback[r] = "none"
        /\ callback[dest] = "none" /\ qp[dest].count = 0
        /\ reply[dest] = NoReply
        /\ reply' = [reply EXCEPT ![dest] =
              [count |-> n, chars |-> Span(q, n), offsets |-> Offsets(q, n),
               buf |-> [k \in 0 .. Span(q, n) - 1 |-> q.base[from + k]]]]
        /\ qp' = [qp EXCEPT ![r] = Cut(@, n)]
        /\ UNCHANGED <<str, callback>>

(* The queue after CIRCLE_work_receive of the reply m.                     *)
Received(q, m) ==
    LET room == CIRCLE_internal_queue_str_extend(
                    CIRCLE_internal_queue_extend(q, q.head + m.chars), m.count)
        base == Write(room.base, 0, m.buf)
        last == m.offsets[m.count - 1]
    IN  [room EXCEPT !.strings = [j \in DOMAIN @ |-> IF j < m.count THEN m.offsets[j] ELSE @[j]],
                     !.base = base,
                     !.head = last + SizeAt(base, last),
                     !.count = m.count]

CIRCLE_work_receive(r) ==
    /\ reply[r] # NoReply
    /\ qp' = [qp EXCEPT ![r] = Received(@, reply[r])]
    /\ reply' = [reply EXCEPT ![r] = NoReply]
    /\ UNCHANGED <<str, callback>>

QueueInit ==
    /\ qp = [r \in Ranks |-> CIRCLE_internal_queue_init]
    /\ reply = [r \in Ranks |-> NoReply]
    /\ str = Junk
    /\ callback = [r \in Ranks |-> "running"]

QueueNext ==
    \E r \in Ranks :
        \/ \E i \in Strings : CIRCLE_enqueue(r, i)
        \/ CIRCLE_dequeue(r)
        \/ Return(r)
        \/ \E dest \in Ranks : \E n \in 1 .. qp[r].count - 1 : CIRCLE_send_work(r, dest, n)
        \/ CIRCLE_work_receive(r)

QueueSpec == QueueInit /\ [][QueueNext]_queueVars

-----------------------------------------------------------------------------
(* Correctness.                                                            *)

(* The items of a queue, and of a work reply, as their strings read.       *)
Contents(base, strings, n) == [j \in 1 .. n |-> StringAt(base, strings[j - 1])]

(* No write goes past the pool or the array of offsets, however the queue  *)
(* has grown, been cut by transfers and been overwritten by a reply: the   *)
(* memory reached is the memory allocated.                                 *)
InBounds ==
    \A r \in Ranks :
        /\ DOMAIN qp[r].base = 0 .. qp[r].bytes - 1
        /\ DOMAIN qp[r].strings = 0 .. qp[r].str_count - 1
        /\ qp[r].head <= qp[r].bytes
        /\ qp[r].count <= qp[r].str_count

(* The strings in use do not overlap and end before head, where the next   *)
(* push writes; an empty queue starts again at the base of the pool, which *)
(* is where CIRCLE_work_receive writes.  A transfer cuts the queue without *)
(* moving head, so this is not obvious.                                    *)
Laid ==
    \A r \in Ranks :
        LET q == qp[r]
            end(j) == q.strings[j] + SizeAt(q.base, q.strings[j])
        IN  /\ q.count = 0 => q.head = 0
            /\ q.count > 0 => q.strings[0] = 0 /\ end(q.count - 1) <= q.head
            /\ \A j \in 1 .. q.count - 1 : end(j - 1) <= q.strings[j]

(* The pools behave as stacks: no string is overwritten while it is in the *)
(* queue, and every item is dequeued or received as it was enqueued.       *)
Stacks == INSTANCE WorkStacks WITH
    stack <- [r \in Ranks |-> Contents(qp[r].base, qp[r].strings, qp[r].count)],
    carried <- [r \in Ranks |-> Contents(reply[r].buf, reply[r].offsets, reply[r].count)],
    dequeued <- str

ImplementsStacks == Stacks!StackSpec
=============================================================================
