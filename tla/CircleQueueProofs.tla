-------------------------- MODULE CircleQueueProofs --------------------------
(***************************************************************************)
(* The local queue is safe and is a stack, whatever the sizes of the       *)
(* strings, of the pool and of the steps in which it grows, and however    *)
(* many ranks exchange parts of their queues.                              *)
(***************************************************************************)
EXTENDS CircleQueue, WellFoundedInduction, TLAPS

(* Every nonempty set of numbers has a least one.                          *)
LEMMA LeastNumber ==
    ASSUME NEW T \in SUBSET Nat, T # {}
    PROVE  \E x \in T : \A y \in T : ~(y < x)
<1>1. \E x \in T : \A y \in T : ~(<<y, x>> \in OpToRel(<, Nat))
    BY WFMin, NatLessThanWellFounded, Zenon
<1>. QED
    BY <1>1, Zenon DEF OpToRel

(* The loop that grows the pool or the array stops at a size that is large *)
(* enough, and never below the present one.                                *)
LEMMA GrowToEnough ==
    ASSUME NEW a \in Nat, NEW b \in Nat, NEW step \in Nat \ {0}
    PROVE  GrowTo(a, b, step) \in Nat /\ GrowTo(a, b, step) >= a /\ GrowTo(a, b, step) >= b
<1>1. CASE a >= b
    BY <1>1 DEF GrowTo
<1>2. CASE ~(a >= b)
  <2>. DEFINE d == b - a + step - 1
              m == d \div step
  <2>1. d \in Nat /\ b - a \in Nat
      BY <1>2
  <2>. HIDE DEF d
  <2>2. m \in Int /\ step * m <= d /\ d < step * m + step
      BY <2>1
  <2>3. m * step = step * m /\ step * m \in Int
      BY <2>2
  <2>4. GrowTo(a, b, step) = a + m * step
      BY <1>2 DEF GrowTo, d
  <2>. HIDE DEF m
  <2>. DEFINE p == step * m
  <2>5. p \in Int /\ p <= d /\ d < p + step /\ GrowTo(a, b, step) = a + p
      BY <2>2, <2>3, <2>4
  <2>. HIDE DEF p
  <2>. QED
      BY <2>5, <1>2 DEF d
<1>. QED
    BY <1>1, <1>2

-----------------------------------------------------------------------------
(* The loop of CIRCLE_send_work that sends fewer items when there are too  *)
(* many bytes.                                                             *)

(* The next number to try.                                                 *)
Fewer(k) == k - (IF k \div 10 = 0 THEN 1 ELSE k \div 10)

TooMany(q, k) == Span(q, k) > MaxTransfer /\ k > 1

(* f is the result of the loop for every number up to n.                   *)
Settles(q, n, f) == f = [k \in 1 .. n |-> IF TooMany(q, k) THEN f[Fewer(k)] ELSE k]

(* It is smaller, and at least 1.                                          *)
LEMMA FewerFacts ==
    ASSUME NEW k \in Nat, k > 1
    PROVE  Fewer(k) \in 1 .. k - 1
BY DEF Fewer

(* The loop ends: there is such a function.                                *)
LEMMA SettlesExists ==
    ASSUME NEW q, NEW n \in Nat
    PROVE  \E f : Settles(q, n, f) /\ \A k \in 1 .. n : f[k] \in 1 .. k
<1>. DEFINE Fine(m, f) == Settles(q, m, f) /\ \A k \in 1 .. m : f[k] \in 1 .. k
            Bad == {m \in Nat : ~\E f : Fine(m, f)}
<1>. SUFFICES ASSUME n \in Bad PROVE FALSE
    OBVIOUS
<1>1. Bad \in SUBSET Nat /\ Bad # {}
    OBVIOUS
<1>2. PICK m \in Bad : \A y \in Bad : ~(y < m)
  <2>. HIDE DEF Bad
  <2>. QED
      BY <1>1, LeastNumber
<1>3. m \in Nat /\ \A y \in Nat : y < m => y \notin Bad
    BY <1>2
<1>4. CASE m = 0
  <2>. DEFINE f == [k \in 1 .. m |-> k]
  <2>1. 1 .. m = {}
      BY <1>4
  <2>2. Fine(m, f)
      BY <2>1 DEF Settles
  <2>. QED
      BY <1>2, <2>2
<1>5. CASE m > 0
  <2>1. m - 1 \in Nat /\ m - 1 \notin Bad
      BY <1>3, <1>5
  <2>2. PICK f : Fine(m - 1, f)
      BY <2>1
  <2>. DEFINE last == IF TooMany(q, m) THEN f[Fewer(m)] ELSE m
              g == [k \in 1 .. m |-> IF k = m THEN last ELSE f[k]]
  <2>3. \A k \in 1 .. m - 1 : /\ f[k] = IF TooMany(q, k) THEN f[Fewer(k)] ELSE k
                              /\ f[k] \in 1 .. k
      BY <2>2 DEF Settles
  <2>4. \A k \in 1 .. m : TooMany(q, k) => Fewer(k) \in 1 .. k - 1
      BY <1>3, FewerFacts DEF TooMany
  <2>5. \A k \in 1 .. m : TooMany(q, k) => g[Fewer(k)] = f[Fewer(k)] /\ Fewer(k) \in 1 .. m - 1
      BY <1>3, <2>4
  <2>6. \A k \in 1 .. m : g[k] = IF TooMany(q, k) THEN g[Fewer(k)] ELSE k
      BY <1>3, <2>3, <2>5
  <2>7. \A k \in 1 .. m : g[k] \in 1 .. k
      BY <1>3, <2>3, <2>4
  <2>8. g = [k \in 1 .. m |-> g[k]]
      OBVIOUS
  <2>. HIDE DEF g
  <2>9. Settles(q, m, g)
      BY <2>6, <2>8 DEF Settles
  <2>. QED
      BY <1>2, <2>7, <2>9
<1>. QED
    BY <1>3, <1>4, <1>5

(* CIRCLE_send_work sends at least one item and no more than it was to.    *)
LEMMA BackOffType ==
    ASSUME NEW q, NEW n \in Nat \ {0}
    PROVE  BackOff(q, n) \in 1 .. n
<1>. DEFINE f == CHOOSE g : Settles(q, n, g)
<1>1. BackOff(q, n) = f[n]
    BY DEF BackOff, Settles, TooMany, Fewer
<1>2. Settles(q, n, f)
    BY SettlesExists
<1>. HIDE DEF f
<1>. DEFINE Bad == {k \in 1 .. n : f[k] \notin 1 .. k}
<1>3. CASE Bad = {}
    BY <1>1, <1>3
<1>4. CASE Bad # {}
  <2>1. Bad \in SUBSET Nat
      OBVIOUS
  <2>2. PICK k \in Bad : \A y \in Bad : ~(y < k)
    <3>. HIDE DEF Bad
    <3>. QED
        BY <1>4, <2>1, LeastNumber
  <2>3. k \in 1 .. n /\ \A y \in 1 .. n : y < k => f[y] \in 1 .. y
      BY <2>2
  <2>4. f[k] = IF TooMany(q, k) THEN f[Fewer(k)] ELSE k
      BY <1>2, <2>3 DEF Settles
  <2>5. TooMany(q, k) => Fewer(k) \in 1 .. k - 1
      BY <2>3, FewerFacts DEF TooMany
  <2>6. f[k] \in 1 .. k
      BY <2>3, <2>4, <2>5
  <2>. QED
      BY <2>2, <2>6
<1>. QED
    BY <1>3, <1>4

-----------------------------------------------------------------------------
(* Strings in a pool.                                                      *)

(* String i lies in the pool at o, with its terminating NUL.               *)
Reads(base, o, i) ==
    /\ i \in Strings /\ o \in Nat
    /\ \A k \in 1 .. Size[i] : o + k - 1 \in DOMAIN base /\ base[o + k - 1] = <<i, k>>

(* Where the string at o ends.                                             *)
EndAt(base, o) == o + SizeAt(base, o)

(* The first n offsets are those of n strings, the first one at the base   *)
(* of the pool, none reaching into a later one, all ending by top.         *)
Arranged(base, strings, n, top) ==
    /\ n \in Nat /\ top \in Nat
    /\ n > 0 => strings[0] = 0
    /\ \A j \in 0 .. n - 1 :
          /\ j \in DOMAIN strings
          /\ Reads(base, strings[j], StringAt(base, strings[j]))
          /\ EndAt(base, strings[j]) <= top
          /\ \A l \in j + 1 .. n - 1 : EndAt(base, strings[j]) <= strings[l]

(* The sizes of strings are positive.                                      *)
LEMMA SizeType ==
    ASSUME NEW i \in Strings
    PROVE  Size[i] \in Nat /\ Size[i] > 0 /\ i # Junk
BY StringsAssumption

(* No two strings start alike, so what lies at o is what is read there.    *)
LEMMA ReadsString ==
    ASSUME NEW base, NEW o, NEW i, Reads(base, o, i)
    PROVE  /\ StringAt(base, o) = i /\ SizeAt(base, o) = Size[i]
           /\ EndAt(base, o) = o + Size[i] /\ EndAt(base, o) \in Nat /\ EndAt(base, o) > o
<1>. DEFINE found == {j \in Strings : \A k \in 1 .. Size[j] :
                         o + k - 1 \in DOMAIN base /\ base[o + k - 1] = <<j, k>>}
<1>1. i \in Strings /\ o \in Nat /\ i \in found
    BY DEF Reads
<1>2. ASSUME NEW j \in found PROVE j = i
  <2>1. 1 \in 1 .. Size[j] /\ 1 \in 1 .. Size[i]
      BY <1>1, SizeType
  <2>2. base[o + 1 - 1] = <<j, 1>> /\ base[o + 1 - 1] = <<i, 1>>
      BY <1>1, <2>1
  <2>. QED
      BY <2>2
<1>3. StringAt(base, o) = IF found = {} THEN Junk ELSE CHOOSE j \in found : TRUE
    BY DEF StringAt
<1>. HIDE DEF found
<1>4. StringAt(base, o) = i
    BY <1>1, <1>2, <1>3
<1>. QED
    BY <1>1, <1>4, SizeType DEF SizeAt, EndAt

(* A string is still there if the bytes up to its end are.                 *)
LEMMA ReadsKept ==
    ASSUME NEW base, NEW new, NEW o, NEW i, Reads(base, o, i),
           \A b \in Nat : b \in DOMAIN base /\ b < o + Size[i] => b \in DOMAIN new /\ new[b] = base[b]
    PROVE  Reads(new, o, i)
<1>1. i \in Strings /\ o \in Nat /\ Size[i] \in Nat
    BY SizeType DEF Reads
<1>2. ASSUME NEW k \in 1 .. Size[i]
      PROVE  o + k - 1 \in DOMAIN new /\ new[o + k - 1] = <<i, k>>
  <2>1. o + k - 1 \in DOMAIN base /\ base[o + k - 1] = <<i, k>>
      BY DEF Reads
  <2>2. o + k - 1 < o + Size[i] /\ o + k - 1 \in Nat
      BY <1>1
  <2>. QED
      BY <2>1, <2>2
<1>. QED
    BY <1>1, <1>2 DEF Reads

(* The first n of m offsets are kept, and the pool up to top, by which the *)
(* strings at these offsets end.                                           *)
Keeps(base, strings, m, new, offsets, n, top) ==
    /\ n \in Nat /\ top \in Nat /\ n <= m
    /\ \A j \in 0 .. n - 1 : /\ j \in DOMAIN offsets /\ offsets[j] = strings[j]
                             /\ EndAt(base, strings[j]) <= top
    /\ \A b \in Nat : b \in DOMAIN base /\ b < top => b \in DOMAIN new /\ new[b] = base[b]

(* Those strings are then still arranged, and the same.                    *)
LEMMA ArrangedKept ==
    ASSUME NEW base, NEW strings, NEW m, NEW old, Arranged(base, strings, m, old),
           NEW new, NEW offsets, NEW n, NEW top, Keeps(base, strings, m, new, offsets, n, top)
    PROVE  /\ Arranged(new, offsets, n, top)
           /\ \A j \in 0 .. n - 1 : StringAt(new, offsets[j]) = StringAt(base, strings[j])
<1>. USE DEF Keeps
<1>0. m \in Nat
    BY DEF Arranged
<1>1. ASSUME NEW j \in 0 .. n - 1
      PROVE  /\ Reads(new, strings[j], StringAt(base, strings[j]))
             /\ StringAt(new, strings[j]) = StringAt(base, strings[j])
             /\ EndAt(new, strings[j]) = EndAt(base, strings[j])
             /\ \A l \in j + 1 .. n - 1 : EndAt(base, strings[j]) <= strings[l]
  <2>. DEFINE o == strings[j]
              i == StringAt(base, o)
  <2>1. Reads(base, o, i) /\ \A l \in j + 1 .. n - 1 : EndAt(base, o) <= strings[l]
      BY <1>0 DEF Arranged
  <2>2. EndAt(base, o) = o + Size[i] /\ EndAt(base, o) <= top /\ EndAt(base, o) \in Nat
      BY <2>1, ReadsString
  <2>3. ASSUME NEW b \in Nat, b \in DOMAIN base, b < o + Size[i]
        PROVE  b \in DOMAIN new /\ new[b] = base[b]
    <3>1. b < top
      <4>1. EndAt(base, o) > b
          BY <2>2, <2>3
      <4>. HIDE DEF o, i
      <4>. QED
          BY <2>2, <4>1
    <3>. QED
        BY <2>3, <3>1
  <2>. HIDE DEF o, i
  <2>4. Reads(new, o, i)
      BY <2>1, <2>3, ReadsKept
  <2>5. StringAt(new, o) = i /\ EndAt(new, o) = EndAt(base, o)
      BY <2>2, <2>4, ReadsString
  <2>. QED
      BY <2>1, <2>4, <2>5 DEF o, i
<1>2. n > 0 => offsets[0] = 0
    BY <1>0 DEF Arranged
<1>3. ASSUME NEW j \in 0 .. n - 1
      PROVE  /\ offsets[j] = strings[j] /\ j \in DOMAIN offsets
             /\ EndAt(new, offsets[j]) <= top
             /\ \A l \in j + 1 .. n - 1 : EndAt(new, offsets[j]) <= offsets[l]
    BY <1>1
<1>. QED
    BY <1>1, <1>2, <1>3 DEF Arranged

(* One more string, at the top.                                            *)
LEMMA ArrangedMore ==
    ASSUME NEW base, NEW strings, NEW n, NEW top, Arranged(base, strings, n, top),
           n \in DOMAIN strings, strings[n] = top, n = 0 => top = 0,
           NEW i, Reads(base, top, i)
    PROVE  Arranged(base, strings, n + 1, top + Size[i])
<1>0. n \in Nat /\ top \in Nat /\ i \in Strings /\ Size[i] \in Nat
    BY SizeType DEF Arranged, Reads
<1>1. StringAt(base, top) = i /\ EndAt(base, top) = top + Size[i]
    BY ReadsString
<1>2. ASSUME NEW j \in 0 .. n
      PROVE  /\ j \in DOMAIN strings
             /\ Reads(base, strings[j], StringAt(base, strings[j]))
             /\ EndAt(base, strings[j]) <= top + Size[i]
             /\ \A l \in j + 1 .. n : EndAt(base, strings[j]) <= strings[l]
  <2>1. CASE j = n
      BY <1>0, <1>1, <2>1
  <2>2. CASE j < n
    <3>1. /\ j \in DOMAIN strings
          /\ Reads(base, strings[j], StringAt(base, strings[j]))
          /\ EndAt(base, strings[j]) <= top
          /\ \A l \in j + 1 .. n - 1 : EndAt(base, strings[j]) <= strings[l]
        BY <1>0, <2>2 DEF Arranged
    <3>2. EndAt(base, strings[j]) \in Nat
        BY <3>1, ReadsString
    <3>. QED
        BY <1>0, <3>1, <3>2
  <2>. QED
      BY <1>0, <2>1, <2>2
<1>3. strings[0] = 0
    BY <1>0 DEF Arranged
<1>. QED
    BY <1>0, <1>2, <1>3 DEF Arranged

(* A higher top will do, and so will the end of the last string.           *)
LEMMA ArrangedTop ==
    ASSUME NEW base, NEW strings, NEW n, NEW old, Arranged(base, strings, n, old)
    PROVE  /\ \A top \in Nat : old <= top => Arranged(base, strings, n, top)
           /\ n > 0 => Arranged(base, strings, n, EndAt(base, strings[n - 1]))
<1>0. n \in Nat /\ old \in Nat
    BY DEF Arranged
<1>1. \A j \in 0 .. n - 1 :
          /\ Reads(base, strings[j], StringAt(base, strings[j]))
          /\ EndAt(base, strings[j]) <= old
          /\ \A l \in j + 1 .. n - 1 : EndAt(base, strings[j]) <= strings[l]
    BY DEF Arranged
<1>2. \A j \in 0 .. n - 1 : /\ strings[j] \in Nat /\ EndAt(base, strings[j]) \in Nat
                            /\ EndAt(base, strings[j]) > strings[j]
  <2>. SUFFICES ASSUME NEW j \in 0 .. n - 1
                PROVE  /\ strings[j] \in Nat /\ EndAt(base, strings[j]) \in Nat
                       /\ EndAt(base, strings[j]) > strings[j]
      OBVIOUS
  <2>1. strings[j] \in Nat
      BY <1>1 DEF Reads
  <2>. QED
      BY <1>1, <2>1, ReadsString
<1>3. ASSUME NEW top \in Nat, \A j \in 0 .. n - 1 : EndAt(base, strings[j]) <= top
      PROVE  Arranged(base, strings, n, top)
    BY <1>0, <1>3 DEF Arranged
<1>4. ASSUME NEW top \in Nat, old <= top PROVE Arranged(base, strings, n, top)
  <2>1. \A j \in 0 .. n - 1 : EndAt(base, strings[j]) <= top
      BY <1>0, <1>1, <1>2, <1>4
  <2>. QED
      BY <1>3, <2>1
<1>5. ASSUME n > 0 PROVE Arranged(base, strings, n, EndAt(base, strings[n - 1]))
  <2>1. n - 1 \in 0 .. n - 1
      BY <1>0, <1>5
  <2>2. \A j \in 0 .. n - 1 : EndAt(base, strings[j]) <= EndAt(base, strings[n - 1])
    <3>. SUFFICES ASSUME NEW j \in 0 .. n - 1, j # n - 1
                  PROVE  EndAt(base, strings[j]) <= EndAt(base, strings[n - 1])
        BY <1>2
    <3>1. n - 1 \in j + 1 .. n - 1
        BY <1>0
    <3>2. EndAt(base, strings[j]) <= strings[n - 1]
        BY <1>1, <3>1
    <3>. QED
        BY <1>2, <2>1, <3>2
  <2>. QED
      BY <1>2, <1>3, <2>1, <2>2
<1>. QED
    BY <1>4, <1>5

-----------------------------------------------------------------------------
(* The operations on one queue.                                            *)

QueueOf(base, bytes, head, strings, str_count, count) ==
    [base |-> base, bytes |-> bytes, head |-> head, strings |-> strings,
     str_count |-> str_count, count |-> count]

(* What holds of every queue: the sizes recorded are those of the memory   *)
(* there is, the items are arranged below head, and an empty queue has its *)
(* head at the base of the pool.                                           *)
Good(q) ==
    /\ q = QueueOf(q.base, q.bytes, q.head, q.strings, q.str_count, q.count)
    /\ q.bytes \in Nat /\ DOMAIN q.base = 0 .. q.bytes - 1
    /\ q.str_count \in Nat /\ DOMAIN q.strings = 0 .. q.str_count - 1
    /\ q.head <= q.bytes /\ q.count <= q.str_count
    /\ q.count = 0 => q.head = 0
    /\ Arranged(q.base, q.strings, q.count, q.head)

(* The item at position j of queue q.                                      *)
ItemAt(q, j) == StringAt(q.base, q.strings[j])

(* The fields of a queue that is written down as a record.                 *)
LEMMA QueueFields ==
    ASSUME NEW a, NEW b, NEW c, NEW d, NEW e, NEW f
    PROVE  LET q == QueueOf(a, b, c, d, e, f)
           IN  /\ q = QueueOf(q.base, q.bytes, q.head, q.strings, q.str_count, q.count)
               /\ q.base = a /\ q.bytes = b /\ q.head = c /\ q.strings = d
               /\ q.str_count = e /\ q.count = f
BY DEF QueueOf

(* The numbers of a good queue.                                            *)
LEMMA GoodTypes ==
    ASSUME NEW q, Good(q)
    PROVE  /\ q.bytes \in Nat /\ q.str_count \in Nat /\ q.count \in Nat /\ q.head \in Nat
           /\ \A j \in 0 .. q.count - 1 :
                 /\ j \in DOMAIN q.strings /\ q.strings[j] \in Nat
                 /\ ItemAt(q, j) \in Strings
BY DEF Good, Arranged, Reads, ItemAt

(* The queue of CIRCLE_internal_queue_init is empty and good.              *)
LEMMA InitGood == Good(CIRCLE_internal_queue_init) /\ CIRCLE_internal_queue_init.count = 0
<1>. DEFINE B == MAX_STRING_LEN * INITIAL_SIZE
            base == [b \in 0 .. B - 1 |-> Junk]
            strings == [j \in 0 .. INITIAL_SIZE - 1 |-> 0]
            q == QueueOf(base, B, 0, strings, INITIAL_SIZE, 0)
<1>1. B \in Nat /\ INITIAL_SIZE \in Nat
    BY StringsAssumption
<1>2. CIRCLE_internal_queue_init = q
    BY DEF CIRCLE_internal_queue_init, QueueOf
<1>3. DOMAIN base = 0 .. B - 1 /\ DOMAIN strings = 0 .. INITIAL_SIZE - 1
    OBVIOUS
<1>4. Arranged(base, strings, 0, 0)
    BY DEF Arranged
<1>. HIDE DEF B, base, strings
<1>5. /\ q = QueueOf(q.base, q.bytes, q.head, q.strings, q.str_count, q.count)
      /\ q.base = base /\ q.bytes = B /\ q.head = 0 /\ q.strings = strings
      /\ q.str_count = INITIAL_SIZE /\ q.count = 0
    BY QueueFields
<1>. HIDE DEF q
<1>6. Good(q)
    BY <1>1, <1>3, <1>4, <1>5 DEF Good
<1>. QED
    BY <1>2, <1>5, <1>6

(* The bytes and the offsets after the pool or the array has grown.        *)
Grown(base, old, new, fill) == [b \in 0 .. new - 1 |-> IF b < old THEN base[b] ELSE fill]

(* The extension of the pool, written down.                                *)
LEMMA ExtendPool ==
    ASSUME NEW a, NEW b, NEW c, NEW d, NEW e, NEW f, NEW size
    PROVE  LET n == GrowTo(b, size, ByteStep)
           IN  CIRCLE_internal_queue_extend(QueueOf(a, b, c, d, e, f), size)
                   = QueueOf(Grown(a, b, n, Junk), n, c, d, e, f)
<1>. DEFINE q == QueueOf(a, b, c, d, e, f)
            n == GrowTo(b, size, ByteStep)
<1>1. q.base = a /\ q.bytes = b
    BY DEF QueueOf
<1>. HIDE DEF q
<1>2. CIRCLE_internal_queue_extend(q, size) = [q EXCEPT !.bytes = n, !.base = Grown(a, b, n, Junk)]
    BY <1>1 DEF CIRCLE_internal_queue_extend, Grown
<1>. HIDE DEF n
<1>. QED
    BY <1>2 DEF q, n, QueueOf

(* Likewise the array of offsets.                                          *)
LEMMA ExtendStrings ==
    ASSUME NEW a, NEW b, NEW c, NEW d, NEW e, NEW f, NEW size
    PROVE  LET n == GrowTo(e, size, StringStep)
           IN  CIRCLE_internal_queue_str_extend(QueueOf(a, b, c, d, e, f), size)
                   = QueueOf(a, b, c, Grown(d, e, n, 0), n, f)
<1>. DEFINE q == QueueOf(a, b, c, d, e, f)
            n == GrowTo(e, size, StringStep)
<1>1. q.strings = d /\ q.str_count = e
    BY DEF QueueOf
<1>. HIDE DEF q
<1>2. CIRCLE_internal_queue_str_extend(q, size) = [q EXCEPT !.str_count = n, !.strings = Grown(d, e, n, 0)]
    BY <1>1 DEF CIRCLE_internal_queue_str_extend, Grown
<1>. HIDE DEF n
<1>. QED
    BY <1>2 DEF q, n, QueueOf

(* A write of k bytes at o that stays within a pool of n.                  *)
Within(base, n, o, buf, k) ==
    /\ n \in Nat /\ DOMAIN base = 0 .. n - 1
    /\ k \in Nat /\ DOMAIN buf = 0 .. k - 1
    /\ o \in Nat /\ o + k <= n

(* It changes the bytes it covers and no others.                           *)
LEMMA WriteWithin ==
    ASSUME NEW base, NEW n, NEW o, NEW buf, NEW k, Within(base, n, o, buf, k)
    PROVE  /\ DOMAIN Write(base, o, buf) = 0 .. n - 1
           /\ \A b \in 0 .. n - 1 : b < o \/ b >= o + k => Write(base, o, buf)[b] = base[b]
           /\ \A j \in 0 .. k - 1 : Write(base, o, buf)[o + j] = buf[j]
<1>. DEFINE to == {o + j : j \in DOMAIN buf}
<1>. USE DEF Within
<1>1. \A b \in Nat : b \in to <=> o <= b /\ b < o + k
  <2>1. ASSUME NEW b \in Nat, o <= b, b < o + k PROVE b \in to
    <3>1. b - o \in 0 .. k - 1 /\ b = o + (b - o)
        BY <2>1
    <3>. QED
        BY <3>1
  <2>2. ASSUME NEW b \in to PROVE o <= b /\ b < o + k
      BY <2>2
  <2>. QED
      BY <2>1, <2>2
<1>2. to \subseteq 0 .. n - 1
    OBVIOUS
<1>3. Write(base, o, buf) = [b \in to \cup DOMAIN base |-> IF b \in to THEN buf[b - o] ELSE base[b]]
    BY DEF Write
<1>. HIDE DEF to
<1>4. to \cup DOMAIN base = 0 .. n - 1
    BY <1>2
<1>5. Write(base, o, buf) = [b \in 0 .. n - 1 |-> IF b \in to THEN buf[b - o] ELSE base[b]]
    BY <1>3, <1>4
<1>6. ASSUME NEW b \in 0 .. n - 1, b < o \/ b >= o + k
      PROVE  Write(base, o, buf)[b] = base[b]
  <2>1. b \notin to
      BY <1>1, <1>6
  <2>. QED
      BY <1>5, <2>1
<1>7. ASSUME NEW j \in 0 .. k - 1 PROVE Write(base, o, buf)[o + j] = buf[j]
  <2>1. o + j \in Nat /\ o + j \in 0 .. n - 1 /\ (o + j) - o = j /\ o + j < o + k
      OBVIOUS
  <2>2. o + j \in to
      BY <1>1, <2>1
  <2>. QED
      BY <1>5, <2>1, <2>2
<1>. QED
    BY <1>5, <1>6, <1>7

(* A queue with four fields replaced.                                      *)
Replaced(q, base, head, strings, count) ==
    [q EXCEPT !.strings = strings, !.base = base, !.head = head, !.count = count]

(* The same, written down.                                                 *)
LEMMA ReplaceFields ==
    ASSUME NEW a, NEW b, NEW c, NEW d, NEW e, NEW f, NEW w, NEW x, NEW y, NEW z
    PROVE  Replaced(QueueOf(a, b, c, d, e, f), x, y, w, z) = QueueOf(x, b, y, w, e, z)
<1>. DEFINE q == QueueOf(a, b, c, d, e, f)
            F == {"base", "bytes", "head", "strings", "str_count", "count"}
            L == [q EXCEPT !.strings = w, !.base = x, !.head = y, !.count = z]
            R == QueueOf(x, b, y, w, e, z)
<1>1. DOMAIN q = F /\ q["bytes"] = b /\ q["str_count"] = e
    BY DEF QueueOf
<1>2. R = [k \in F |-> R[k]]
    BY DEF QueueOf
<1>3. /\ R["base"] = x /\ R["bytes"] = b /\ R["head"] = y
      /\ R["strings"] = w /\ R["str_count"] = e /\ R["count"] = z
    BY DEF QueueOf
<1>. HIDE DEF q
<1>4. L = [k \in F |-> L[k]]
    BY <1>1
<1>5. /\ L["base"] = x /\ L["bytes"] = q["bytes"] /\ L["head"] = y
      /\ L["strings"] = w /\ L["str_count"] = q["str_count"] /\ L["count"] = z
    BY <1>1
<1>. HIDE DEF L, R
<1>6. \A k \in F : L[k] = R[k]
    BY <1>1, <1>3, <1>5
<1>7. L = R
    BY <1>2, <1>4, <1>6
<1>. QED
    BY <1>7 DEF L, R, q, Replaced

(* CIRCLE_internal_queue_push writes within the pool and the array, and    *)
(* adds the item to those that are there.                                  *)
LEMMA PushGood ==
    ASSUME NEW q, Good(q), NEW i \in Strings
    PROVE  /\ Good(Pushed(q, i)) /\ Pushed(q, i).count = q.count + 1
           /\ \A j \in 0 .. q.count - 1 : ItemAt(Pushed(q, i), j) = ItemAt(q, j)
           /\ ItemAt(Pushed(q, i), q.count) = i
<1>. DEFINE n == GrowTo(q.bytes, q.head + Size[i], ByteStep)
            k == GrowTo(q.str_count, q.count + 1, StringStep)
            room == Grown(q.base, q.bytes, n, Junk)
            slots == Grown(q.strings, q.str_count, k, 0)
            text == [b \in 0 .. Size[i] - 1 |-> <<i, b + 1>>]
            base == Write(room, q.head, text)
            strings == [slots EXCEPT ![q.count] = q.head]
            top == q.head + Size[i]
            p == QueueOf(base, n, top, strings, k, q.count + 1)
<1>0. /\ q.bytes \in Nat /\ q.str_count \in Nat /\ q.count \in Nat /\ q.head \in Nat
      /\ Size[i] \in Nat /\ Size[i] > 0
    BY GoodTypes, SizeType
<1>1. Pushed(q, i) = p
  <2>1. q = QueueOf(q.base, q.bytes, q.head, q.strings, q.str_count, q.count)
      BY DEF Good
  <2>2. CIRCLE_internal_queue_str_extend(q, q.count + 1)
            = QueueOf(q.base, q.bytes, q.head, slots, k, q.count)
      BY <2>1, ExtendStrings
  <2>3. CIRCLE_internal_queue_extend(CIRCLE_internal_queue_str_extend(q, q.count + 1), q.head + Size[i])
            = QueueOf(room, n, q.head, slots, k, q.count)
      BY <2>2, ExtendPool
  <2>. HIDE DEF n, k, room, slots
  <2>4. Pushed(q, i) = [QueueOf(room, n, q.head, slots, k, q.count) EXCEPT
                !.strings = [@ EXCEPT ![q.count] = q.head], !.base = Write(@, q.head, text),
                !.head = @ + Size[i], !.count = @ + 1]
      BY <2>3 DEF Pushed
  <2>. DEFINE R == QueueOf(room, n, q.head, slots, k, q.count)
  <2>5. R.strings = slots /\ R.base = room /\ R.head = q.head /\ R.count = q.count
      BY QueueFields
  <2>. DEFINE more == q.count + 1
  <2>6. Pushed(q, i) = Replaced(R, base, top, strings, more)
      BY <2>4, <2>5 DEF Replaced
  <2>. HIDE DEF text, strings, base, top, more
  <2>7. Pushed(q, i) = QueueOf(base, n, top, strings, k, more)
      BY <2>6, ReplaceFields
  <2>. QED
      BY <2>7 DEF more
<1>2. n \in Nat /\ n >= q.bytes /\ n >= top
  <2>1. q.head + Size[i] \in Nat /\ ByteStep \in Nat \ {0}
      BY <1>0, StringsAssumption
  <2>. QED
      BY <1>0, <2>1, GrowToEnough
<1>3. k \in Nat /\ k >= q.str_count /\ k >= q.count + 1
  <2>1. q.count + 1 \in Nat /\ StringStep \in Nat \ {0}
      BY <1>0, StringsAssumption
  <2>. QED
      BY <1>0, <2>1, GrowToEnough
<1>. HIDE DEF n, k
<1>4. /\ DOMAIN room = 0 .. n - 1 /\ DOMAIN text = 0 .. Size[i] - 1
      /\ \A b \in 0 .. q.bytes - 1 : room[b] = q.base[b]
      /\ \A b \in 0 .. Size[i] - 1 : text[b] = <<i, b + 1>>
    BY <1>0, <1>2 DEF Grown
<1>5. /\ DOMAIN strings = 0 .. k - 1 /\ strings[q.count] = q.head
      /\ \A j \in 0 .. q.count - 1 : strings[j] = q.strings[j]
    BY <1>0, <1>3 DEF Grown, Good
<1>. HIDE DEF room, slots, text, strings
<1>6. /\ DOMAIN base = 0 .. n - 1
      /\ \A b \in 0 .. n - 1 : b < q.head \/ b >= q.head + Size[i] => base[b] = room[b]
      /\ \A b \in 0 .. Size[i] - 1 : base[q.head + b] = text[b]
  <2>1. Within(room, n, q.head, text, Size[i])
      BY <1>0, <1>2, <1>4 DEF Within
  <2>. QED
      BY <2>1, WriteWithin
<1>. HIDE DEF base
<1>7. Reads(base, q.head, i)
  <2>1. ASSUME NEW b \in 1 .. Size[i]
        PROVE  q.head + b - 1 \in DOMAIN base /\ base[q.head + b - 1] = <<i, b>>
    <3>1. b - 1 \in 0 .. Size[i] - 1 /\ q.head + b - 1 = q.head + (b - 1) /\ (b - 1) + 1 = b
        BY <1>0
    <3>2. base[q.head + (b - 1)] = <<i, b>>
        BY <1>4, <1>6, <3>1
    <3>3. q.head + b - 1 \in 0 .. n - 1
        BY <1>0, <1>2
    <3>. QED
        BY <1>6, <3>1, <3>2, <3>3
  <2>. QED
      BY <1>0, <2>1 DEF Reads
<1>8. \A b \in Nat : b \in DOMAIN q.base /\ b < q.head => b \in DOMAIN base /\ base[b] = q.base[b]
  <2>1. DOMAIN q.base = 0 .. q.bytes - 1
      BY DEF Good
  <2>. QED
      BY <1>0, <1>2, <1>4, <1>6, <2>1
<1>9. /\ Arranged(base, strings, q.count, q.head)
      /\ \A j \in 0 .. q.count - 1 : StringAt(base, strings[j]) = StringAt(q.base, q.strings[j])
  <2>1. Arranged(q.base, q.strings, q.count, q.head)
      BY DEF Good
  <2>2. \A j \in 0 .. q.count - 1 : /\ j \in DOMAIN strings /\ strings[j] = q.strings[j]
                                    /\ EndAt(q.base, q.strings[j]) <= q.head
      BY <1>0, <1>3, <1>5, <2>1 DEF Arranged
  <2>3. Keeps(q.base, q.strings, q.count, base, strings, q.count, q.head)
      BY <1>0, <1>8, <2>2 DEF Keeps
  <2>. QED
      BY <2>1, <2>3, ArrangedKept
<1>10. Arranged(base, strings, q.count + 1, top)
  <2>1. q.count \in DOMAIN strings /\ (q.count = 0 => q.head = 0)
      BY <1>0, <1>3, <1>5 DEF Good
  <2>. QED
      BY <1>5, <1>7, <1>9, <2>1, ArrangedMore
<1>11. StringAt(base, strings[q.count]) = i
    BY <1>5, <1>7, ReadsString
<1>12. top \in Nat /\ q.count + 1 # 0
    BY <1>0
<1>. HIDE DEF top
<1>13. /\ p = QueueOf(p.base, p.bytes, p.head, p.strings, p.str_count, p.count)
       /\ p.base = base /\ p.bytes = n /\ p.head = top /\ p.strings = strings
       /\ p.str_count = k /\ p.count = q.count + 1
    BY QueueFields
<1>. HIDE DEF p
<1>14. Good(p)
    BY <1>0, <1>2, <1>3, <1>5, <1>6, <1>10, <1>12, <1>13 DEF Good
<1>. QED
    BY <1>1, <1>9, <1>11, <1>13, <1>14 DEF ItemAt

(* The bytes and the offsets that are left when n items are cut off.       *)
CutBase(q, n) == [b \in DOMAIN q.base |-> IF b < q.strings[q.count - n] THEN q.base[b] ELSE Junk]

CutStrings(q, n) == [j \in DOMAIN q.strings |-> IF j < q.count - n THEN q.strings[j] ELSE 0]

(* The two ways items leave a queue, written down.                         *)
LEMMA CutFields ==
    ASSUME NEW q, Good(q), NEW n
    PROVE  /\ Cut(q, n) = QueueOf(CutBase(q, n), q.bytes, q.head, CutStrings(q, n), q.str_count,
                                  q.count - n)
           /\ Popped(q) = QueueOf(CutBase(q, 1), q.bytes, q.strings[q.count - 1], CutStrings(q, 1),
                                  q.str_count, q.count - 1)
<1>1. ASSUME NEW m
      PROVE  Cut(q, m) = QueueOf(CutBase(q, m), q.bytes, q.head, CutStrings(q, m), q.str_count,
                                 q.count - m)
  <2>. DEFINE F == {"base", "bytes", "head", "strings", "str_count", "count"}
              base == CutBase(q, m)
              strings == CutStrings(q, m)
              keep == q.count - m
              L == [q EXCEPT !.count = keep, !.base = base, !.strings = strings]
              R == QueueOf(base, q.bytes, q.head, strings, q.str_count, keep)
  <2>1. Cut(q, m) = L
      BY DEF Cut, CutBase, CutStrings
  <2>2. DOMAIN q = F
      BY DEF Good, QueueOf
  <2>. HIDE DEF base, strings, keep
  <2>3. L = [k \in F |-> L[k]]
      BY <2>2
  <2>4. R = [k \in F |-> R[k]]
      BY DEF QueueOf
  <2>5. /\ L["base"] = base /\ L["bytes"] = q["bytes"] /\ L["head"] = q["head"]
        /\ L["strings"] = strings /\ L["str_count"] = q["str_count"] /\ L["count"] = keep
      BY <2>2
  <2>6. /\ R["base"] = base /\ R["bytes"] = q["bytes"] /\ R["head"] = q["head"]
        /\ R["strings"] = strings /\ R["str_count"] = q["str_count"] /\ R["count"] = keep
      BY DEF QueueOf
  <2>. HIDE DEF L, R
  <2>7. \A k \in F : L[k] = R[k]
      BY <2>5, <2>6
  <2>8. L = R
      BY <2>3, <2>4, <2>7
  <2>. QED
      BY <2>1, <2>8 DEF R, base, strings, keep
<1>2. Cut(q, 1) = QueueOf(CutBase(q, 1), q.bytes, q.head, CutStrings(q, 1), q.str_count, q.count - 1)
    BY <1>1
<1>3. \A a, b, c, d, e, f, h : [QueueOf(a, b, c, d, e, f) EXCEPT !.head = h] = QueueOf(a, b, h, d, e, f)
    BY DEF QueueOf
<1>4. Popped(q) = [Cut(q, 1) EXCEPT !.head = q.strings[q.count - 1]]
    BY DEF Popped
<1>. QED
    BY <1>1, <1>2, <1>3, <1>4

(* The items below are arranged as before, and end where the first of      *)
(* those that leave began.                                                 *)
LEMMA CutArranged ==
    ASSUME NEW q, Good(q), NEW n \in 1 .. q.count
    PROVE  /\ Arranged(CutBase(q, n), CutStrings(q, n), q.count - n, q.strings[q.count - n])
           /\ \A j \in 0 .. q.count - n - 1 :
                 StringAt(CutBase(q, n), CutStrings(q, n)[j]) = ItemAt(q, j)
           /\ q.strings[q.count - n] \in Nat /\ q.strings[q.count - n] <= q.head
           /\ q.count = n => q.strings[q.count - n] = 0
<1>. DEFINE keep == q.count - n
            top == q.strings[keep]
<1>0. q.count \in Nat /\ q.head \in Nat /\ keep \in 0 .. q.count - 1 /\ keep \in Nat
    BY GoodTypes
<1>1. Arranged(q.base, q.strings, q.count, q.head)
    BY DEF Good
<1>2. \A j \in 0 .. q.count - 1 :
          /\ j \in DOMAIN q.strings
          /\ Reads(q.base, q.strings[j], StringAt(q.base, q.strings[j]))
          /\ EndAt(q.base, q.strings[j]) <= q.head
          /\ \A l \in j + 1 .. q.count - 1 : EndAt(q.base, q.strings[j]) <= q.strings[l]
    BY <1>1 DEF Arranged
<1>3. top \in Nat /\ top <= q.head
  <2>1. Reads(q.base, top, StringAt(q.base, top)) /\ EndAt(q.base, top) <= q.head
      BY <1>0, <1>2
  <2>2. top \in Nat
      BY <2>1 DEF Reads
  <2>3. EndAt(q.base, top) \in Nat /\ EndAt(q.base, top) > top
      BY <2>1, ReadsString
  <2>. QED
      BY <1>0, <2>1, <2>2, <2>3
<1>4. q.count = n => top = 0
    BY <1>0, <1>1 DEF Arranged
<1>5. Keeps(q.base, q.strings, q.count, CutBase(q, n), CutStrings(q, n), keep, top)
  <2>1. ASSUME NEW j \in 0 .. keep - 1
        PROVE  /\ j \in DOMAIN CutStrings(q, n) /\ CutStrings(q, n)[j] = q.strings[j]
               /\ EndAt(q.base, q.strings[j]) <= top
    <3>1. j \in 0 .. q.count - 1 /\ keep \in j + 1 .. q.count - 1 /\ j < keep
        BY <1>0
    <3>2. j \in DOMAIN q.strings /\ EndAt(q.base, q.strings[j]) <= q.strings[keep]
        BY <1>2, <3>1
    <3>. QED
        BY <3>1, <3>2 DEF CutStrings
  <2>2. \A b \in Nat : b \in DOMAIN q.base /\ b < top =>
            b \in DOMAIN CutBase(q, n) /\ CutBase(q, n)[b] = q.base[b]
      BY DEF CutBase
  <2>3. keep <= q.count
      BY <1>0
  <2>. QED
      BY <1>0, <1>3, <2>1, <2>2, <2>3 DEF Keeps
<1>. HIDE DEF keep, top
<1>6. /\ Arranged(CutBase(q, n), CutStrings(q, n), keep, top)
      /\ \A j \in 0 .. keep - 1 :
            StringAt(CutBase(q, n), CutStrings(q, n)[j]) = StringAt(q.base, q.strings[j])
    BY <1>1, <1>5, ArrangedKept
<1>. QED
    BY <1>3, <1>4, <1>6 DEF keep, top, ItemAt

(* CIRCLE_internal_queue_pop leaves the items below the topmost.           *)
LEMMA PopGood ==
    ASSUME NEW q, Good(q), q.count > 0
    PROVE  /\ Good(Popped(q)) /\ Popped(q).count = q.count - 1
           /\ \A j \in 0 .. q.count - 2 : ItemAt(Popped(q), j) = ItemAt(q, j)
<1>. DEFINE p == Popped(q)
            base == CutBase(q, 1)
            strings == CutStrings(q, 1)
            top == q.strings[q.count - 1]
<1>0. q.count \in Nat /\ q.head \in Nat /\ 1 \in 1 .. q.count /\ q.bytes \in Nat /\ q.str_count \in Nat
    BY GoodTypes
<1>1. /\ Arranged(base, strings, q.count - 1, top)
      /\ \A j \in 0 .. q.count - 2 : StringAt(base, strings[j]) = ItemAt(q, j)
      /\ top \in Nat /\ top <= q.head /\ (q.count = 1 => top = 0)
  <2>1. q.count - 1 - 1 = q.count - 2
      BY <1>0
  <2>. QED
      BY <1>0, <2>1, CutArranged
<1>2. /\ DOMAIN base = 0 .. q.bytes - 1 /\ DOMAIN strings = 0 .. q.str_count - 1
      /\ q.head <= q.bytes /\ q.count <= q.str_count
    BY DEF Good, CutBase, CutStrings
<1>3. p = QueueOf(base, q.bytes, top, strings, q.str_count, q.count - 1)
    BY CutFields
<1>. HIDE DEF p, base, strings, top
<1>4. /\ p = QueueOf(p.base, p.bytes, p.head, p.strings, p.str_count, p.count)
      /\ p.base = base /\ p.bytes = q.bytes /\ p.head = top /\ p.strings = strings
      /\ p.str_count = q.str_count /\ p.count = q.count - 1
    BY <1>3, QueueFields
<1>5. top <= q.bytes /\ q.count - 1 <= q.str_count /\ (q.count - 1 = 0 => top = 0)
    BY <1>0, <1>1, <1>2
<1>6. Good(p)
    BY <1>0, <1>1, <1>2, <1>4, <1>5 DEF Good
<1>7. \A j \in 0 .. q.count - 2 : ItemAt(p, j) = ItemAt(q, j)
    BY <1>1, <1>4 DEF ItemAt
<1>. QED
    BY <1>4, <1>6, <1>7 DEF p

(* CIRCLE_send_work leaves the items below those it sends; head stays      *)
(* where it is, above them.                                                *)
LEMMA CutGood ==
    ASSUME NEW q, Good(q), NEW n \in 1 .. q.count - 1
    PROVE  /\ Good(Cut(q, n)) /\ Cut(q, n).count = q.count - n
           /\ \A j \in 0 .. q.count - n - 1 : ItemAt(Cut(q, n), j) = ItemAt(q, j)
<1>. DEFINE p == Cut(q, n)
            base == CutBase(q, n)
            strings == CutStrings(q, n)
<1>0. /\ q.count \in Nat /\ q.head \in Nat /\ n \in 1 .. q.count /\ q.bytes \in Nat
      /\ q.str_count \in Nat
    BY GoodTypes
<1>1. /\ Arranged(base, strings, q.count - n, q.strings[q.count - n])
      /\ \A j \in 0 .. q.count - n - 1 : StringAt(base, strings[j]) = ItemAt(q, j)
      /\ q.strings[q.count - n] \in Nat /\ q.strings[q.count - n] <= q.head
    BY <1>0, CutArranged
<1>2. Arranged(base, strings, q.count - n, q.head)
    BY <1>0, <1>1, ArrangedTop
<1>3. /\ DOMAIN base = 0 .. q.bytes - 1 /\ DOMAIN strings = 0 .. q.str_count - 1
      /\ q.head <= q.bytes /\ q.count <= q.str_count
    BY DEF Good, CutBase, CutStrings
<1>4. p = QueueOf(base, q.bytes, q.head, strings, q.str_count, q.count - n)
    BY CutFields
<1>. HIDE DEF p, base, strings
<1>5. /\ p = QueueOf(p.base, p.bytes, p.head, p.strings, p.str_count, p.count)
      /\ p.base = base /\ p.bytes = q.bytes /\ p.head = q.head /\ p.strings = strings
      /\ p.str_count = q.str_count /\ p.count = q.count - n
    BY <1>4, QueueFields
<1>6. q.count - n <= q.str_count /\ q.count - n # 0
    BY <1>0, <1>3
<1>7. Good(p)
    BY <1>0, <1>2, <1>3, <1>5, <1>6 DEF Good
<1>8. \A j \in 0 .. q.count - n - 1 : ItemAt(p, j) = ItemAt(q, j)
    BY <1>1, <1>5 DEF ItemAt
<1>. QED
    BY <1>5, <1>7, <1>8 DEF p

-----------------------------------------------------------------------------
(* Work replies.                                                           *)

(* The bytes a work reply takes from the pool.                             *)
Copied(base, from, span) == [k \in 0 .. span - 1 |-> base[from + k]]

(* The work reply with the n topmost items of q.                           *)
ReplyWith(q, n) ==
    [count |-> n, chars |-> Span(q, n), offsets |-> Offsets(q, n),
     buf |-> Copied(q.base, q.strings[q.count - n], Span(q, n))]

(* What holds of every work reply: it has an item, its sizes are those of  *)
(* the two messages, and its items are arranged like those of a queue.     *)
GoodReply(m) ==
    /\ m.count \in Nat /\ m.count > 0 /\ DOMAIN m.offsets = 0 .. m.count - 1
    /\ m.chars \in Nat /\ DOMAIN m.buf = 0 .. m.chars - 1
    /\ Arranged(m.buf, m.offsets, m.count, m.chars)

(* The item at position j of a work reply.                                 *)
CarriedAt(m, j) == StringAt(m.buf, m.offsets[j])

(* A string within the range copied is in the copy, at its rebased offset. *)
LEMMA ReadsCopied ==
    ASSUME NEW base, NEW o, NEW i, Reads(base, o, i),
           NEW from \in Nat, NEW span \in Nat, from <= o, o + Size[i] <= from + span
    PROVE  Reads(Copied(base, from, span), o - from, i)
<1>1. i \in Strings /\ o \in Nat /\ Size[i] \in Nat /\ o - from \in Nat
    BY SizeType DEF Reads
<1>. DEFINE new == Copied(base, from, span)
<1>2. ASSUME NEW k \in 1 .. Size[i]
      PROVE  (o - from) + k - 1 \in DOMAIN new /\ new[(o - from) + k - 1] = <<i, k>>
  <2>1. o + k - 1 \in DOMAIN base /\ base[o + k - 1] = <<i, k>>
      BY DEF Reads
  <2>2. (o - from) + k - 1 \in 0 .. span - 1 /\ from + ((o - from) + k - 1) = o + k - 1
      BY <1>1
  <2>. QED
      BY <2>1, <2>2 DEF Copied
<1>. HIDE DEF new
<1>3. Reads(new, o - from, i)
    BY <1>1, <1>2 DEF Reads
<1>. QED
    BY <1>3 DEF new

(* CIRCLE_send_work sends the n topmost items as they are, in their order. *)
LEMMA SendGood ==
    ASSUME NEW q, Good(q), NEW n \in 1 .. q.count
    PROVE  /\ GoodReply(ReplyWith(q, n)) /\ ReplyWith(q, n).count = n
           /\ \A k \in 0 .. n - 1 : CarriedAt(ReplyWith(q, n), k) = ItemAt(q, q.count - n + k)
<1>. DEFINE first == q.count - n
            from == q.strings[first]
            last == q.strings[q.count - 1]
            span == Span(q, n)
            buf == Copied(q.base, from, span)
            offsets == Offsets(q, n)
            O(j) == q.strings[j]
            E(j) == EndAt(q.base, q.strings[j])
<1>0. /\ q.count \in Nat /\ first \in 0 .. q.count - 1 /\ q.count - 1 \in 0 .. q.count - 1
      /\ first \in Nat /\ n \in Nat /\ n > 0 /\ q.count > 0
    BY GoodTypes
<1>1. Arranged(q.base, q.strings, q.count, EndAt(q.base, last))
  <2>1. Arranged(q.base, q.strings, q.count, q.head)
      BY DEF Good
  <2>. QED
      BY <1>0, <2>1, ArrangedTop
<1>2. \A j \in 0 .. q.count - 1 :
          /\ Reads(q.base, O(j), ItemAt(q, j))
          /\ E(j) <= EndAt(q.base, last)
          /\ \A l \in j + 1 .. q.count - 1 : E(j) <= O(l)
    BY <1>1 DEF Arranged, ItemAt
<1>3. \A j \in 0 .. q.count - 1 :
          /\ O(j) \in Nat /\ E(j) \in Nat /\ E(j) > O(j)
          /\ E(j) = O(j) + Size[ItemAt(q, j)] /\ Size[ItemAt(q, j)] \in Nat
  <2>. SUFFICES ASSUME NEW j \in 0 .. q.count - 1
                PROVE  /\ O(j) \in Nat /\ E(j) \in Nat /\ E(j) > O(j)
                       /\ E(j) = O(j) + Size[ItemAt(q, j)] /\ Size[ItemAt(q, j)] \in Nat
      OBVIOUS
  <2>1. Reads(q.base, O(j), ItemAt(q, j))
      BY <1>2
  <2>2. O(j) \in Nat /\ ItemAt(q, j) \in Strings
      BY <2>1 DEF Reads
  <2>. QED
      BY <2>1, <2>2, SizeType, ReadsString
<1>4. \A j \in first .. q.count - 1 : from <= O(j) /\ E(j) <= EndAt(q.base, last)
  <2>. SUFFICES ASSUME NEW j \in first .. q.count - 1 PROVE from <= O(j) /\ E(j) <= EndAt(q.base, last)
      OBVIOUS
  <2>1. j \in 0 .. q.count - 1
      BY <1>0
  <2>2. CASE j = first
      BY <1>2, <1>3, <2>1, <2>2
  <2>3. CASE j > first
    <3>1. j \in first + 1 .. q.count - 1
        BY <1>0, <2>3
    <3>2. E(first) <= O(j)
        BY <1>0, <1>2, <3>1
    <3>. QED
        BY <1>0, <1>2, <1>3, <2>1, <3>2
  <2>. QED
      BY <1>0, <2>2, <2>3
<1>5. span \in Nat /\ from + span = EndAt(q.base, last) /\ from \in Nat
  <2>1. span = last - from + SizeAt(q.base, last)
      BY DEF Span
  <2>2. EndAt(q.base, last) = last + SizeAt(q.base, last)
      BY DEF EndAt
  <2>3. SizeAt(q.base, last) \in Nat
    <3>1. Reads(q.base, last, ItemAt(q, q.count - 1))
        BY <1>0, <1>2
    <3>. QED
        BY <1>0, <1>3, <3>1, ReadsString
  <2>4. last \in Nat /\ from \in Nat /\ from <= last
      BY <1>0, <1>3, <1>4
  <2>. HIDE DEF last, from, span
  <2>. QED
      BY <2>1, <2>2, <2>3, <2>4
<1>. HIDE DEF span, buf
<1>6. ASSUME NEW k \in 0 .. n - 1
      PROVE  /\ first + k \in first .. q.count - 1 /\ offsets[k] = O(first + k) - from
             /\ Reads(buf, offsets[k], ItemAt(q, first + k))
             /\ StringAt(buf, offsets[k]) = ItemAt(q, first + k)
             /\ EndAt(buf, offsets[k]) = E(first + k) - from
  <2>. DEFINE j == first + k
              i == ItemAt(q, j)
  <2>1. j \in first .. q.count - 1 /\ j \in 0 .. q.count - 1
      BY <1>0
  <2>2. offsets[k] = O(j) - from
      BY DEF Offsets
  <2>3. Reads(q.base, O(j), i) /\ from <= O(j) /\ O(j) + Size[i] <= from + span
      BY <1>2, <1>3, <1>4, <1>5, <2>1
  <2>4. O(j) \in Nat /\ E(j) = O(j) + Size[i] /\ Size[i] \in Nat
      BY <1>3, <2>1
  <2>. HIDE DEF from, first, j, i
  <2>5. Reads(buf, O(j) - from, i)
      BY <1>5, <2>3, ReadsCopied DEF buf
  <2>6. StringAt(buf, O(j) - from) = i /\ EndAt(buf, O(j) - from) = (O(j) - from) + Size[i]
      BY <2>5, ReadsString
  <2>7. (O(j) - from) + Size[i] = E(j) - from
      BY <1>5, <2>4
  <2>. QED
      BY <2>1, <2>2, <2>5, <2>6, <2>7 DEF j, i
<1>7. offsets[0] = 0 /\ DOMAIN offsets = 0 .. n - 1
  <2>1. q.count - n + 0 = q.count - n
      BY <1>0
  <2>. QED
      BY <1>0, <1>5, <2>1 DEF Offsets
<1>8. ASSUME NEW k \in 0 .. n - 1
      PROVE  /\ Reads(buf, offsets[k], StringAt(buf, offsets[k]))
             /\ EndAt(buf, offsets[k]) <= span
             /\ \A l \in k + 1 .. n - 1 : EndAt(buf, offsets[k]) <= offsets[l]
  <2>. DEFINE j == first + k
  <2>1. /\ j \in first .. q.count - 1 /\ j \in 0 .. q.count - 1
        /\ Reads(buf, offsets[k], StringAt(buf, offsets[k]))
        /\ EndAt(buf, offsets[k]) = E(j) - from
      BY <1>0, <1>6
  <2>2. E(j) <= from + span /\ E(j) \in Nat
      BY <1>3, <1>4, <1>5, <2>1
  <2>3. ASSUME NEW l \in k + 1 .. n - 1
        PROVE  E(j) - from <= offsets[l]
    <3>1. l \in 0 .. n - 1 /\ first + l \in j + 1 .. q.count - 1 /\ first + l \in 0 .. q.count - 1
        BY <1>0
    <3>2. offsets[l] = O(first + l) - from
        BY <1>6, <3>1
    <3>3. E(j) <= O(first + l) /\ O(first + l) \in Nat
        BY <1>2, <1>3, <2>1, <3>1
    <3>. HIDE DEF offsets, from, first, j
    <3>. QED
        BY <1>5, <2>2, <3>2, <3>3
  <2>4. E(j) - from <= span
      BY <1>5, <2>2
  <2>. HIDE DEF offsets, from, first, j
  <2>. QED
      BY <2>1, <2>3, <2>4
<1>. HIDE DEF offsets
<1>9. Arranged(buf, offsets, n, span)
    BY <1>0, <1>5, <1>7, <1>8 DEF Arranged
<1>10. DOMAIN buf = 0 .. span - 1
    BY DEF buf, Copied
<1>. DEFINE m == ReplyWith(q, n)
<1>11. m.count = n /\ m.chars = span /\ m.offsets = offsets /\ m.buf = buf
    BY DEF ReplyWith, span, offsets, buf
<1>. HIDE DEF m
<1>12. GoodReply(m)
    BY <1>0, <1>5, <1>7, <1>9, <1>10, <1>11 DEF GoodReply
<1>13. \A k \in 0 .. n - 1 : CarriedAt(m, k) = ItemAt(q, q.count - n + k)
    BY <1>6, <1>11 DEF CarriedAt
<1>. QED
    BY <1>11, <1>12, <1>13 DEF m

(* CIRCLE_work_receive writes within the pool and the array of an empty    *)
(* queue, which then has the items of the reply.                           *)
LEMMA ReceiveGood ==
    ASSUME NEW q, Good(q), q.count = 0, NEW m, GoodReply(m)
    PROVE  /\ Good(Received(q, m)) /\ Received(q, m).count = m.count
           /\ \A j \in 0 .. m.count - 1 : ItemAt(Received(q, m), j) = CarriedAt(m, j)
<1>. DEFINE n == GrowTo(q.bytes, q.head + m.chars, ByteStep)
            k == GrowTo(q.str_count, m.count, StringStep)
            room == Grown(q.base, q.bytes, n, Junk)
            slots == Grown(q.strings, q.str_count, k, 0)
            base == Write(room, 0, m.buf)
            strings == [j \in DOMAIN slots |-> IF j < m.count THEN m.offsets[j] ELSE slots[j]]
            last == m.offsets[m.count - 1]
            top == EndAt(base, last)
            p == QueueOf(base, n, top, strings, k, m.count)
<1>0. /\ q.bytes \in Nat /\ q.str_count \in Nat /\ q.head = 0
      /\ m.count \in Nat /\ m.count > 0 /\ m.chars \in Nat /\ q.head + m.chars = m.chars
      /\ m.count - 1 \in 0 .. m.count - 1
    BY GoodTypes DEF Good, GoodReply
<1>1. Received(q, m) = p
  <2>1. q = QueueOf(q.base, q.bytes, q.head, q.strings, q.str_count, q.count)
      BY DEF Good
  <2>2. CIRCLE_internal_queue_extend(q, q.head + m.chars)
            = QueueOf(room, n, q.head, q.strings, q.str_count, q.count)
      BY <2>1, ExtendPool
  <2>. HIDE DEF n, room
  <2>3. CIRCLE_internal_queue_str_extend(CIRCLE_internal_queue_extend(q, q.head + m.chars), m.count)
            = QueueOf(room, n, q.head, slots, k, q.count)
      BY <2>2, ExtendStrings
  <2>. HIDE DEF k, slots
  <2>. DEFINE R == QueueOf(room, n, q.head, slots, k, q.count)
  <2>4. R.strings = slots /\ R.base = room
      BY QueueFields
  <2>5. Received(q, m) = Replaced(R, base, top, strings, m.count)
      BY <2>3, <2>4 DEF Replaced, Received, EndAt
  <2>. HIDE DEF base, strings, top
  <2>. QED
      BY <2>5, ReplaceFields
<1>2. n \in Nat /\ n >= q.bytes /\ n >= m.chars
  <2>1. q.head + m.chars \in Nat /\ ByteStep \in Nat \ {0}
      BY <1>0, StringsAssumption
  <2>. QED
      BY <1>0, <2>1, GrowToEnough
<1>3. k \in Nat /\ k >= q.str_count /\ k >= m.count
  <2>1. StringStep \in Nat \ {0}
      BY StringsAssumption
  <2>. QED
      BY <1>0, <2>1, GrowToEnough
<1>. HIDE DEF n, k
<1>4. DOMAIN room = 0 .. n - 1 /\ DOMAIN slots = 0 .. k - 1
    BY DEF Grown
<1>. HIDE DEF room, slots
<1>5. /\ DOMAIN strings = 0 .. k - 1
      /\ \A j \in 0 .. m.count - 1 : j \in DOMAIN strings /\ strings[j] = m.offsets[j]
    BY <1>0, <1>3, <1>4
<1>. HIDE DEF strings
<1>6. /\ DOMAIN base = 0 .. n - 1
      /\ \A b \in 0 .. m.chars - 1 : base[b] = m.buf[b]
  <2>1. Within(room, n, 0, m.buf, m.chars)
      BY <1>0, <1>2, <1>4 DEF Within, GoodReply
  <2>2. /\ DOMAIN base = 0 .. n - 1
        /\ \A b \in 0 .. m.chars - 1 : base[0 + b] = m.buf[b]
      BY <2>1, WriteWithin
  <2>3. \A b \in 0 .. m.chars - 1 : 0 + b = b
      BY <1>0
  <2>. QED
      BY <2>2, <2>3
<1>. HIDE DEF base
<1>7. /\ Arranged(base, strings, m.count, m.chars)
      /\ \A j \in 0 .. m.count - 1 : StringAt(base, strings[j]) = StringAt(m.buf, m.offsets[j])
  <2>1. Arranged(m.buf, m.offsets, m.count, m.chars) /\ DOMAIN m.buf = 0 .. m.chars - 1
      BY DEF GoodReply
  <2>2. \A j \in 0 .. m.count - 1 : EndAt(m.buf, m.offsets[j]) <= m.chars
      BY <2>1 DEF Arranged
  <2>3. \A b \in Nat : b \in DOMAIN m.buf /\ b < m.chars => b \in DOMAIN base /\ base[b] = m.buf[b]
      BY <1>0, <1>2, <1>6, <2>1
  <2>4. Keeps(m.buf, m.offsets, m.count, base, strings, m.count, m.chars)
      BY <1>0, <1>5, <2>2, <2>3 DEF Keeps
  <2>. QED
      BY <2>1, <2>4, ArrangedKept
<1>8. Arranged(base, strings, m.count, top)
  <2>1. strings[m.count - 1] = last
      BY <1>0, <1>5
  <2>2. Arranged(base, strings, m.count, EndAt(base, strings[m.count - 1]))
      BY <1>0, <1>7, ArrangedTop
  <2>. QED
      BY <2>1, <2>2
<1>9. top \in Nat /\ top <= m.chars
  <2>1. strings[m.count - 1] = last
      BY <1>0, <1>5
  <2>2. EndAt(base, strings[m.count - 1]) <= m.chars
      BY <1>0, <1>7 DEF Arranged
  <2>3. top \in Nat
      BY <1>8 DEF Arranged
  <2>. QED
      BY <2>1, <2>2, <2>3
<1>. HIDE DEF top
<1>10. top <= n
    BY <1>0, <1>2, <1>9
<1>11. /\ p = QueueOf(p.base, p.bytes, p.head, p.strings, p.str_count, p.count)
       /\ p.base = base /\ p.bytes = n /\ p.head = top /\ p.strings = strings
       /\ p.str_count = k /\ p.count = m.count
    BY QueueFields
<1>. HIDE DEF p
<1>12. Good(p)
    BY <1>0, <1>2, <1>3, <1>5, <1>6, <1>8, <1>9, <1>10, <1>11 DEF Good
<1>. QED
    BY <1>1, <1>7, <1>11, <1>12 DEF ItemAt, CarriedAt

-----------------------------------------------------------------------------
(* The queues of all ranks.                                                *)

(* A reply on its way to rank r.                                           *)
Expected(r) ==
    reply[r] # NoReply =>
        GoodReply(reply[r]) /\ qp[r].count = 0 /\ callback[r] = "none"

(* The inductive invariant: every queue is good, and so is every reply,    *)
(* which finds the queue it is going to empty.                             *)
QueueInv ==
    /\ DOMAIN qp = Ranks /\ DOMAIN reply = Ranks /\ DOMAIN callback = Ranks
    /\ \A r \in Ranks : Good(qp[r]) /\ Expected(r)

(* Initially all queues are empty and there is no reply.                   *)
LEMMA QueueInitInv == QueueInit => QueueInv
BY InitGood, Zenon DEF QueueInit, QueueInv, Expected

(* A reply that is good is there.                                          *)
LEMMA GoodReplyIsOne ==
    ASSUME NEW m, GoodReply(m)
    PROVE  m # NoReply
BY DEF GoodReply, NoReply

(* CIRCLE_send_work, with the reply it makes.                              *)
LEMMA SendWorkEffect ==
    ASSUME NEW r, NEW dest, NEW n, CIRCLE_send_work(r, dest, n)
    PROVE  LET k == BackOff(qp[r], n)
           IN  /\ dest # r /\ callback[dest] = "none" /\ qp[dest].count = 0 /\ reply[dest] = NoReply
               /\ reply' = [reply EXCEPT ![dest] = ReplyWith(qp[r], k)]
               /\ qp' = [qp EXCEPT ![r] = Cut(qp[r], k)]
               /\ str' = str /\ callback' = callback
BY DEF CIRCLE_send_work, ReplyWith, Copied

(* The loop settles on some but not all of the items, so that the sender   *)
(* keeps one.                                                              *)
LEMMA BackOffFits ==
    ASSUME NEW q, Good(q), NEW n \in 1 .. q.count - 1
    PROVE  BackOff(q, n) \in 1 .. q.count - 1
<1>1. n \in Nat \ {0} /\ q.count \in Nat
    BY GoodTypes
<1>2. BackOff(q, n) \in 1 .. n
    BY <1>1, BackOffType
<1>. QED
    BY <1>1, <1>2

(* Every step keeps the invariant.                                         *)
LEMMA QueueStepInv ==
    ASSUME QueueInv, [QueueNext]_queueVars
    PROVE  QueueInv'
<1>0. /\ DOMAIN qp = Ranks /\ DOMAIN reply = Ranks /\ DOMAIN callback = Ranks
      /\ \A x \in Ranks : Good(qp[x]) /\ Expected(x)
    BY DEF QueueInv
<1>1. ASSUME NEW r \in Ranks, NEW i \in Strings, CIRCLE_enqueue(r, i) PROVE QueueInv'
  <2>1. /\ callback[r] # "none" /\ qp' = [qp EXCEPT ![r] = Pushed(qp[r], i)]
        /\ reply' = reply /\ callback' = callback
      BY <1>1 DEF CIRCLE_enqueue
  <2>2. Good(Pushed(qp[r], i))
      BY <1>0, PushGood
  <2>3. reply[r] = NoReply
      BY <1>0, <2>1 DEF Expected
  <2>. QED
      BY <1>0, <2>1, <2>2, <2>3, Zenon DEF QueueInv, Expected
<1>2. ASSUME NEW r \in Ranks, CIRCLE_dequeue(r) PROVE QueueInv'
  <2>1. /\ qp[r].count > 0 /\ qp' = [qp EXCEPT ![r] = Popped(qp[r])]
        /\ callback' = [callback EXCEPT ![r] = "running"] /\ reply' = reply
      BY <1>2 DEF CIRCLE_dequeue
  <2>2. Good(Popped(qp[r]))
      BY <1>0, <2>1, PopGood
  <2>3. reply[r] = NoReply
      BY <1>0, <2>1 DEF Expected
  <2>. QED
      BY <1>0, <2>1, <2>2, <2>3, Zenon DEF QueueInv, Expected
<1>3. ASSUME NEW r \in Ranks, Return(r) PROVE QueueInv'
  <2>1. callback' = [callback EXCEPT ![r] = "none"] /\ reply' = reply /\ qp' = qp
      BY <1>3 DEF Return
  <2>. QED
      BY <1>0, <2>1, Zenon DEF QueueInv, Expected
<1>4. ASSUME NEW r \in Ranks, NEW dest \in Ranks, NEW n \in 1 .. qp[r].count - 1,
             CIRCLE_send_work(r, dest, n)
      PROVE  QueueInv'
  <2>. DEFINE k == BackOff(qp[r], n)
  <2>1. /\ dest # r /\ callback[dest] = "none" /\ qp[dest].count = 0 /\ reply[dest] = NoReply
        /\ reply' = [reply EXCEPT ![dest] = ReplyWith(qp[r], k)]
        /\ qp' = [qp EXCEPT ![r] = Cut(qp[r], k)] /\ callback' = callback
      BY <1>4, SendWorkEffect
  <2>2. k \in 1 .. qp[r].count - 1 /\ k \in 1 .. qp[r].count /\ qp[r].count \in Nat
    <3>1. k \in 1 .. qp[r].count - 1 /\ qp[r].count \in Nat
        BY <1>0, BackOffFits, GoodTypes
    <3>. HIDE DEF k
    <3>. QED
        BY <3>1
  <2>. HIDE DEF k
  <2>3. Good(Cut(qp[r], k)) /\ GoodReply(ReplyWith(qp[r], k))
      BY <1>0, <2>2, CutGood, SendGood
  <2>4. reply[r] = NoReply
    <3>1. qp[r].count # 0
        BY <2>2
    <3>. QED
        BY <1>0, <3>1 DEF Expected
  <2>5. DOMAIN qp' = Ranks /\ DOMAIN reply' = Ranks /\ DOMAIN callback' = Ranks
      BY <1>0, <2>1, Zenon
  <2>6. ASSUME NEW x \in Ranks PROVE Good(qp'[x]) /\ Expected(x)'
    <3>1. CASE x = r
        BY <1>0, <2>1, <2>3, <2>4, <3>1, Zenon DEF Expected
    <3>2. CASE x = dest
        BY <1>0, <2>1, <2>3, <3>2, Zenon DEF Expected
    <3>3. CASE x # r /\ x # dest
        BY <1>0, <2>1, <3>3, Zenon DEF Expected
    <3>. QED
        BY <3>1, <3>2, <3>3
  <2>. QED
      BY <2>5, <2>6, Zenon DEF QueueInv
<1>5. ASSUME NEW r \in Ranks, CIRCLE_work_receive(r) PROVE QueueInv'
  <2>1. /\ reply[r] # NoReply /\ qp' = [qp EXCEPT ![r] = Received(qp[r], reply[r])]
        /\ reply' = [reply EXCEPT ![r] = NoReply] /\ callback' = callback
      BY <1>5 DEF CIRCLE_work_receive
  <2>2. Good(Received(qp[r], reply[r]))
      BY <1>0, <2>1, ReceiveGood DEF Expected
  <2>. QED
      BY <1>0, <2>1, <2>2, Zenon DEF QueueInv, Expected
<1>6. CASE UNCHANGED queueVars
    BY <1>0, <1>6, Zenon DEF queueVars, QueueInv, Expected
<1>. QED
    BY <1>1, <1>2, <1>3, <1>4, <1>5, <1>6, Zenon DEF QueueNext

(* The invariant holds in every state.                                     *)
THEOREM QueueInvHolds == QueueSpec => []QueueInv
BY QueueInitInv, QueueStepInv, PTL DEF QueueSpec

(* No write of CIRCLE_internal_queue_push or CIRCLE_work_receive goes past *)
(* the pool or the array of offsets.                                       *)
THEOREM InBoundsHolds == QueueSpec => []InBounds
<1>1. QueueInv => InBounds
    BY Zenon DEF QueueInv, Good, InBounds
<1>. QED
    BY <1>1, QueueInvHolds, PTL

(* The strings of a queue do not overlap, they end before head, and an     *)
(* empty queue starts again at the base of the pool.                       *)
THEOREM LaidHolds == QueueSpec => []Laid
<1>1. ASSUME NEW q, Good(q)
      PROVE  /\ q.count = 0 => q.head = 0
             /\ q.count > 0 => /\ q.strings[0] = 0
                               /\ EndAt(q.base, q.strings[q.count - 1]) <= q.head
             /\ \A j \in 1 .. q.count - 1 : EndAt(q.base, q.strings[j - 1]) <= q.strings[j]
  <2>1. q.count \in Nat /\ Arranged(q.base, q.strings, q.count, q.head) /\ (q.count = 0 => q.head = 0)
      BY <1>1, GoodTypes DEF Good
  <2>2. ASSUME NEW j \in 1 .. q.count - 1 PROVE EndAt(q.base, q.strings[j - 1]) <= q.strings[j]
    <3>1. j - 1 \in 0 .. q.count - 1 /\ j \in (j - 1) + 1 .. q.count - 1
        BY <2>1
    <3>. QED
        BY <2>1, <3>1 DEF Arranged
  <2>3. q.count > 0 => q.count - 1 \in 0 .. q.count - 1
      BY <2>1
  <2>. QED
      BY <2>1, <2>2, <2>3 DEF Arranged
<1>2. QueueInv => Laid
    BY <1>1 DEF QueueInv, Laid, EndAt
<1>. QED
    BY <1>2, QueueInvHolds, PTL

-----------------------------------------------------------------------------
(* The queues behave as stacks.                                            *)

(* The items of a queue, and of a reply, topmost last.                     *)
StackOf(q) == Contents(q.base, q.strings, q.count)

LoadOf(m) == Contents(m.buf, m.offsets, m.count)

(* A good queue is read as a stack of its items.                           *)
LEMMA StackItems ==
    ASSUME NEW q, Good(q)
    PROVE  /\ StackOf(q) \in Seq(Strings) /\ Len(StackOf(q)) = q.count /\ q.count \in Nat
           /\ \A j \in 1 .. q.count : StackOf(q)[j] = ItemAt(q, j - 1)
           /\ q.count = 0 => StackOf(q) = << >>
<1>1. q.count \in Nat /\ \A j \in 0 .. q.count - 1 : ItemAt(q, j) \in Strings
    BY GoodTypes
<1>2. StackOf(q) = [j \in 1 .. q.count |-> ItemAt(q, j - 1)]
    BY DEF StackOf, Contents, ItemAt
<1>3. \A j \in 1 .. q.count : j - 1 \in 0 .. q.count - 1
    BY <1>1
<1>. DEFINE n == q.count
<1>. HIDE DEF n
<1>4. StackOf(q) \in [1 .. n -> Strings]
    BY <1>1, <1>2, <1>3 DEF n
<1>5. StackOf(q) \in Seq(Strings) /\ Len(StackOf(q)) = n
    BY <1>1, <1>4 DEF n
<1>. QED
    BY <1>1, <1>2, <1>5 DEF n

(* Likewise a good reply.                                                  *)
LEMMA LoadItems ==
    ASSUME NEW m, GoodReply(m)
    PROVE  /\ LoadOf(m) \in Seq(Strings) /\ Len(LoadOf(m)) = m.count /\ m.count \in Nat
           /\ \A j \in 1 .. m.count : LoadOf(m)[j] = CarriedAt(m, j - 1)
<1>1. m.count \in Nat /\ \A j \in 0 .. m.count - 1 : CarriedAt(m, j) \in Strings
    BY DEF GoodReply, Arranged, Reads, CarriedAt
<1>2. LoadOf(m) = [j \in 1 .. m.count |-> CarriedAt(m, j - 1)]
    BY DEF LoadOf, Contents, CarriedAt
<1>3. \A j \in 1 .. m.count : j - 1 \in 0 .. m.count - 1
    BY <1>1
<1>. DEFINE n == m.count
<1>. HIDE DEF n
<1>4. LoadOf(m) \in [1 .. n -> Strings]
    BY <1>1, <1>2, <1>3 DEF n
<1>5. LoadOf(m) \in Seq(Strings) /\ Len(LoadOf(m)) = n
    BY <1>1, <1>4 DEF n
<1>. QED
    BY <1>1, <1>2, <1>5 DEF n

(* No reply carries nothing.                                               *)
LEMMA NoLoad == LoadOf(NoReply) = << >>
BY DEF LoadOf, NoReply, Contents

(* A sequence from position a to position b of another.                    *)
LEMMA IsPart ==
    ASSUME NEW S, NEW s \in Seq(S), NEW t \in Seq(S), NEW a \in Nat, NEW b \in Nat,
           a >= 1, b <= Len(s), Len(t) = b - a + 1,
           \A j \in 1 .. Len(t) : t[j] = s[a + j - 1]
    PROVE  t = SubSeq(s, a, b)
<1>. DEFINE u == SubSeq(s, a, b)
<1>1. Len(t) \in Nat /\ Len(s) \in Nat
    OBVIOUS
<1>2. \A j \in 1 .. Len(t) : a + j - 1 \in 1 .. Len(s)
    BY <1>1
<1>3. u \in Seq(S) /\ Len(u) = Len(t)
    BY <1>1, <1>2
<1>4. \A j \in 1 .. Len(t) : u[j] = s[a + j - 1]
    BY <1>1, <1>2, <1>3
<1>. HIDE DEF u
<1>5. t = u
    BY <1>3, <1>4
<1>. QED
    BY <1>5 DEF u

(* A sequence with one more element.                                       *)
LEMMA IsAppend ==
    ASSUME NEW S, NEW s \in Seq(S), NEW t \in Seq(S), NEW i \in S, Len(t) = Len(s) + 1,
           \A j \in 1 .. Len(s) : t[j] = s[j], t[Len(s) + 1] = i
    PROVE  t = Append(s, i)
OBVIOUS

(* A step that changes one queue changes one stack.                        *)
LEMMA OneStack ==
    ASSUME DOMAIN qp = Ranks, NEW r \in Ranks, NEW q, qp' = [qp EXCEPT ![r] = q]
    PROVE  [x \in Ranks |-> StackOf(qp[x])]' = [[x \in Ranks |-> StackOf(qp[x])] EXCEPT ![r] = StackOf(q)]
<1>1. \A x \in Ranks : qp'[x] = IF x = r THEN q ELSE qp[x]
    OBVIOUS
<1>2. \A x \in Ranks : StackOf(qp'[x]) = IF x = r THEN StackOf(q) ELSE StackOf(qp[x])
    BY <1>1, Zenon
<1>. QED
    BY <1>2

(* And one that changes one reply changes what one rank is to receive.     *)
LEMMA OneLoad ==
    ASSUME DOMAIN reply = Ranks, NEW r \in Ranks, NEW m, reply' = [reply EXCEPT ![r] = m]
    PROVE  [x \in Ranks |-> LoadOf(reply[x])]' = [[x \in Ranks |-> LoadOf(reply[x])] EXCEPT ![r] = LoadOf(m)]
<1>1. \A x \in Ranks : reply'[x] = IF x = r THEN m ELSE reply[x]
    OBVIOUS
<1>2. \A x \in Ranks : LoadOf(reply'[x]) = IF x = r THEN LoadOf(m) ELSE LoadOf(reply[x])
    BY <1>1, Zenon
<1>. QED
    BY <1>2

(* A push, a pop, a transfer and its arrival, on stacks.                   *)
LEMMA PushStack ==
    ASSUME NEW q, Good(q), NEW i \in Strings
    PROVE  StackOf(Pushed(q, i)) = Append(StackOf(q), i)
<1>. DEFINE p == Pushed(q, i)
<1>1. /\ Good(p) /\ p.count = q.count + 1 /\ ItemAt(p, q.count) = i
      /\ \A j \in 0 .. q.count - 1 : ItemAt(p, j) = ItemAt(q, j)
    BY PushGood
<1>. HIDE DEF p
<1>2. /\ StackOf(q) \in Seq(Strings) /\ Len(StackOf(q)) = q.count /\ q.count \in Nat
      /\ \A j \in 1 .. q.count : StackOf(q)[j] = ItemAt(q, j - 1)
    BY StackItems
<1>3. /\ StackOf(p) \in Seq(Strings) /\ Len(StackOf(p)) = q.count + 1
      /\ \A j \in 1 .. q.count + 1 : StackOf(p)[j] = ItemAt(p, j - 1)
    BY <1>1, StackItems
<1>4. \A j \in 1 .. q.count : j - 1 \in 0 .. q.count - 1 /\ j \in 1 .. q.count + 1
    BY <1>2
<1>5. \A j \in 1 .. q.count : StackOf(p)[j] = StackOf(q)[j]
    BY <1>1, <1>2, <1>3, <1>4
<1>6. StackOf(p)[q.count + 1] = i
  <2>1. q.count + 1 \in 1 .. q.count + 1 /\ (q.count + 1) - 1 = q.count
      BY <1>2
  <2>. QED
      BY <1>1, <1>3, <2>1
<1>7. StackOf(p) = Append(StackOf(q), i)
    BY <1>2, <1>3, <1>5, <1>6, IsAppend
<1>. QED
    BY <1>7 DEF p

(* What is left is the bottom of the stack.                                *)
LEMMA BottomStack ==
    ASSUME NEW q, Good(q), NEW p, Good(p), p.count <= q.count,
           \A j \in 0 .. p.count - 1 : ItemAt(p, j) = ItemAt(q, j)
    PROVE  StackOf(p) = SubSeq(StackOf(q), 1, p.count)
<1>1. /\ StackOf(q) \in Seq(Strings) /\ Len(StackOf(q)) = q.count /\ q.count \in Nat
      /\ \A j \in 1 .. q.count : StackOf(q)[j] = ItemAt(q, j - 1)
    BY StackItems
<1>2. /\ StackOf(p) \in Seq(Strings) /\ Len(StackOf(p)) = p.count /\ p.count \in Nat
      /\ \A j \in 1 .. p.count : StackOf(p)[j] = ItemAt(p, j - 1)
    BY StackItems
<1>3. \A j \in 1 .. p.count : j - 1 \in 0 .. p.count - 1 /\ j \in 1 .. q.count /\ 1 + j - 1 = j
    BY <1>1, <1>2
<1>4. \A j \in 1 .. Len(StackOf(p)) : StackOf(p)[j] = StackOf(q)[1 + j - 1]
    BY <1>1, <1>2, <1>3
<1>5. Len(StackOf(p)) = p.count - 1 + 1 /\ p.count <= Len(StackOf(q))
    BY <1>1, <1>2
<1>. QED
    BY <1>1, <1>2, <1>4, <1>5, IsPart

(* What is sent is the top of the stack.                                   *)
LEMMA TopStack ==
    ASSUME NEW q, Good(q), NEW n \in 1 .. q.count
    PROVE  LoadOf(ReplyWith(q, n)) = SubSeq(StackOf(q), q.count - n + 1, q.count)
<1>. DEFINE m == ReplyWith(q, n)
            a == q.count - n + 1
<1>1. /\ StackOf(q) \in Seq(Strings) /\ Len(StackOf(q)) = q.count /\ q.count \in Nat
      /\ \A j \in 1 .. q.count : StackOf(q)[j] = ItemAt(q, j - 1)
    BY StackItems
<1>2. /\ GoodReply(m) /\ m.count = n
      /\ \A k \in 0 .. n - 1 : CarriedAt(m, k) = ItemAt(q, q.count - n + k)
    BY SendGood
<1>. HIDE DEF m
<1>3. /\ LoadOf(m) \in Seq(Strings) /\ Len(LoadOf(m)) = n
      /\ \A j \in 1 .. n : LoadOf(m)[j] = CarriedAt(m, j - 1)
    BY <1>2, LoadItems
<1>4. a \in Nat /\ a >= 1 /\ q.count <= Len(StackOf(q)) /\ Len(LoadOf(m)) = q.count - a + 1
    BY <1>1, <1>3
<1>5. ASSUME NEW j \in 1 .. Len(LoadOf(m)) PROVE LoadOf(m)[j] = StackOf(q)[a + j - 1]
  <2>1. /\ j \in 1 .. n /\ j - 1 \in 0 .. n - 1 /\ a + j - 1 \in 1 .. q.count
        /\ (a + j - 1) - 1 = q.count - n + (j - 1)
      BY <1>1, <1>3
  <2>2. StackOf(q)[a + j - 1] = ItemAt(q, q.count - n + (j - 1))
      BY <1>1, <2>1
  <2>. QED
      BY <1>2, <1>3, <2>1, <2>2
<1>. HIDE DEF a
<1>6. LoadOf(m) = SubSeq(StackOf(q), a, q.count)
    BY <1>1, <1>3, <1>4, <1>5, IsPart
<1>. QED
    BY <1>6 DEF m, a

(* What has arrived is what was sent.                                      *)
LEMMA ArriveStack ==
    ASSUME NEW q, Good(q), q.count = 0, NEW m, GoodReply(m)
    PROVE  StackOf(Received(q, m)) = LoadOf(m)
<1>. DEFINE p == Received(q, m)
<1>1. Good(p) /\ p.count = m.count /\ \A j \in 0 .. m.count - 1 : ItemAt(p, j) = CarriedAt(m, j)
    BY ReceiveGood
<1>. HIDE DEF p
<1>2. /\ StackOf(p) \in Seq(Strings) /\ Len(StackOf(p)) = m.count /\ m.count \in Nat
      /\ \A j \in 1 .. m.count : StackOf(p)[j] = ItemAt(p, j - 1)
    BY <1>1, StackItems
<1>3. /\ LoadOf(m) \in Seq(Strings) /\ Len(LoadOf(m)) = m.count
      /\ \A j \in 1 .. m.count : LoadOf(m)[j] = CarriedAt(m, j - 1)
    BY LoadItems
<1>4. \A j \in 1 .. m.count : j - 1 \in 0 .. m.count - 1
    BY <1>2
<1>5. \A j \in 1 .. m.count : StackOf(p)[j] = LoadOf(m)[j]
    BY <1>1, <1>2, <1>3, <1>4
<1>6. StackOf(p) = LoadOf(m)
    BY <1>2, <1>3, <1>5
<1>. QED
    BY <1>6 DEF p

(* The pools behave as stacks: every item is dequeued or received as it    *)
(* was enqueued, and in stack order, however the pools have grown, been    *)
(* cut and been overwritten.                                               *)
THEOREM ImplementsStacksHolds == QueueSpec => ImplementsStacks
<1>. DEFINE S == [x \in Ranks |-> StackOf(qp[x])]
            C == [x \in Ranks |-> LoadOf(reply[x])]
<1>1. QueueInit => Stacks!StackInit
  <2>. SUFFICES ASSUME QueueInit PROVE Stacks!StackInit
      OBVIOUS
  <2>1. \A x \in Ranks : StackOf(qp[x]) = << >>
      BY InitGood, StackItems DEF QueueInit
  <2>2. \A x \in Ranks : LoadOf(reply[x]) = << >>
      BY NoLoad DEF QueueInit
  <2>3. S = [x \in Ranks |-> << >>] /\ C = [x \in Ranks |-> << >>]
      BY <2>1, <2>2
  <2>4. str \notin Strings
      BY StringsAssumption DEF QueueInit
  <2>. QED
      BY <2>3, <2>4 DEF Stacks!StackInit, StackOf, LoadOf
<1>2. ASSUME QueueInv, [QueueNext]_queueVars
      PROVE  [Stacks!StackNext]_(Stacks!stackVars)
  <2>0. /\ DOMAIN qp = Ranks /\ DOMAIN reply = Ranks
        /\ \A x \in Ranks : Good(qp[x]) /\ Expected(x)
      BY <1>2 DEF QueueInv
  <2>1. ASSUME NEW r \in Ranks, NEW i \in Strings, CIRCLE_enqueue(r, i) PROVE Stacks!Push(r, i)
    <3>1. qp' = [qp EXCEPT ![r] = Pushed(qp[r], i)] /\ reply' = reply /\ str' = str
        BY <2>1 DEF CIRCLE_enqueue
    <3>2. S' = [S EXCEPT ![r] = Append(S[r], i)]
      <4>1. S' = [S EXCEPT ![r] = StackOf(Pushed(qp[r], i))]
          BY <2>0, <3>1, OneStack
      <4>2. StackOf(Pushed(qp[r], i)) = Append(S[r], i)
          BY <2>0, PushStack
      <4>. QED
          BY <4>1, <4>2, Zenon
    <3>3. C' = C
        BY <3>1
    <3>. QED
        BY <3>1, <3>2, <3>3 DEF Stacks!Push, StackOf, LoadOf
  <2>2. ASSUME NEW r \in Ranks, CIRCLE_dequeue(r) PROVE Stacks!Pop(r)
    <3>. DEFINE n == qp[r].count
                p == Popped(qp[r])
    <3>1. /\ n > 0 /\ qp' = [qp EXCEPT ![r] = p] /\ reply' = reply /\ str' = ItemAt(qp[r], n - 1)
        BY <2>2 DEF CIRCLE_dequeue, ItemAt
    <3>2. Good(p) /\ p.count = n - 1 /\ \A j \in 0 .. n - 2 : ItemAt(p, j) = ItemAt(qp[r], j)
        BY <2>0, <3>1, PopGood
    <3>3. /\ Len(S[r]) = n /\ n \in Nat /\ \A j \in 1 .. n : S[r][j] = ItemAt(qp[r], j - 1)
        BY <2>0, StackItems
    <3>4. StackOf(p) = SubSeq(S[r], 1, n - 1)
      <4>. HIDE DEF p
      <4>1. p.count <= n /\ \A j \in 0 .. p.count - 1 : ItemAt(p, j) = ItemAt(qp[r], j)
        <5>1. (n - 1) - 1 = n - 2 /\ n - 1 <= n
            BY <3>3
        <5>. QED
            BY <3>2, <5>1
      <4>. QED
          BY <2>0, <3>2, <4>1, BottomStack
    <3>5. S' = [S EXCEPT ![r] = StackOf(p)]
        BY <2>0, <3>1, OneStack
    <3>6. S' = [S EXCEPT ![r] = SubSeq(S[r], 1, Len(S[r]) - 1)] /\ C' = C
        BY <3>1, <3>3, <3>4, <3>5, Zenon
    <3>7. str' = S[r][Len(S[r])] /\ Len(S[r]) > 0
      <4>1. n \in 1 .. n
          BY <3>1, <3>3
      <4>. QED
          BY <3>1, <3>3, <4>1
    <3>. QED
        BY <3>6, <3>7 DEF Stacks!Pop, StackOf, LoadOf
  <2>3. ASSUME NEW r \in Ranks, Return(r) PROVE UNCHANGED Stacks!stackVars
      BY <2>3 DEF Return, Stacks!stackVars
  <2>4. ASSUME NEW r \in Ranks, NEW dest \in Ranks, NEW a \in 1 .. qp[r].count - 1,
               CIRCLE_send_work(r, dest, a)
        PROVE  \E d \in Ranks \ {r} : \E k \in 1 .. Len(S[r]) : Stacks!Transfer(r, d, k)
    <3>. DEFINE n == qp[r].count
                k == BackOff(qp[r], a)
                p == Cut(qp[r], k)
                m == ReplyWith(qp[r], k)
    <3>1. /\ dest # r /\ reply[dest] = NoReply /\ str' = str
          /\ qp' = [qp EXCEPT ![r] = p] /\ reply' = [reply EXCEPT ![dest] = m]
        BY <2>4, SendWorkEffect
    <3>2. k \in 1 .. n - 1 /\ n \in Nat
        BY <2>0, BackOffFits, GoodTypes
    <3>3. Good(p) /\ p.count = n - k /\ \A j \in 0 .. n - k - 1 : ItemAt(p, j) = ItemAt(qp[r], j)
        BY <2>0, <3>2, CutGood
    <3>. HIDE DEF k
    <3>4. k \in 1 .. n /\ n - k <= n
        BY <3>2
    <3>5. LoadOf(m) = SubSeq(S[r], n - k + 1, n)
        BY <2>0, <3>4, TopStack
    <3>. HIDE DEF p, m
    <3>6. StackOf(p) = SubSeq(S[r], 1, n - k)
        BY <2>0, <3>3, <3>4, BottomStack
    <3>7. Len(S[r]) = n
        BY <2>0, StackItems
    <3>8. S' = [S EXCEPT ![r] = SubSeq(S[r], 1, Len(S[r]) - k)]
      <4>1. S' = [S EXCEPT ![r] = StackOf(p)]
          BY <2>0, <3>1, OneStack
      <4>. QED
          BY <3>6, <3>7, <4>1, Zenon
    <3>9. C' = [C EXCEPT ![dest] = SubSeq(S[r], Len(S[r]) - k + 1, Len(S[r]))]
      <4>1. C' = [C EXCEPT ![dest] = LoadOf(m)]
          BY <2>0, <3>1, OneLoad
      <4>. QED
          BY <3>5, <3>7, <4>1, Zenon
    <3>10. C[dest] = << >>
        BY <3>1, NoLoad
    <3>11. Stacks!Transfer(r, dest, k)
      <4>1. k <= Len(S[r])
          BY <3>4, <3>7
      <4>. QED
          BY <3>1, <3>8, <3>9, <3>10, <4>1, Zenon DEF Stacks!Transfer, StackOf, LoadOf
    <3>. QED
        BY <3>1, <3>4, <3>7, <3>11, Zenon
  <2>5. ASSUME NEW r \in Ranks, CIRCLE_work_receive(r) PROVE Stacks!Arrive(r)
    <3>1. /\ reply[r] # NoReply /\ str' = str
          /\ qp' = [qp EXCEPT ![r] = Received(qp[r], reply[r])] /\ reply' = [reply EXCEPT ![r] = NoReply]
        BY <2>5 DEF CIRCLE_work_receive
    <3>2. GoodReply(reply[r]) /\ qp[r].count = 0 /\ Good(qp[r])
        BY <2>0, <3>1 DEF Expected
    <3>3. S[r] = << >>
        BY <3>2, StackItems
    <3>4. S' = [S EXCEPT ![r] = C[r]]
      <4>1. S' = [S EXCEPT ![r] = StackOf(Received(qp[r], reply[r]))]
          BY <2>0, <3>1, OneStack
      <4>2. StackOf(Received(qp[r], reply[r])) = C[r]
          BY <3>2, ArriveStack
      <4>. QED
          BY <4>1, <4>2, Zenon
    <3>5. C' = [C EXCEPT ![r] = << >>]
      <4>1. C' = [C EXCEPT ![r] = LoadOf(NoReply)]
          BY <2>0, <3>1, OneLoad
      <4>. QED
          BY <4>1, NoLoad, Zenon
    <3>. QED
        BY <3>1, <3>3, <3>4, <3>5, Zenon DEF Stacks!Arrive, StackOf, LoadOf
  <2>6. CASE UNCHANGED queueVars
      BY <2>6 DEF queueVars, Stacks!stackVars
  <2>. QED
      BY <1>2, <2>1, <2>2, <2>3, <2>4, <2>5, <2>6, Zenon
      DEF QueueNext, Stacks!StackNext, StackOf
<1>. QED
    BY <1>1, <1>2, QueueInvHolds, PTL DEF QueueSpec, ImplementsStacks, Stacks!StackSpec
==============================================================================
