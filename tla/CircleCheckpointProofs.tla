----------------------- MODULE CircleCheckpointProofs -----------------------
(***************************************************************************)
(* The checkpoint file gives back exactly the queues of plain strings, for *)
(* every queue, every alphabet and every CIRCLE_MAX_STRING_LEN.            *)
(* Statements about all the lines of a file are proved for the least line  *)
(* at which they could fail.                                               *)
(***************************************************************************)
EXTENDS CircleCheckpoint, SequenceTheorems, WellFoundedInduction, TLAPS

(* Every nonempty set of numbers has a least one.                          *)
LEMMA LeastNumber ==
    ASSUME NEW T \in SUBSET Nat, T # {}
    PROVE  \E x \in T : \A y \in T : ~(y < x)
<1>1. \E x \in T : \A y \in T : ~(<<y, x>> \in OpToRel(<, Nat))
    BY WFMin, NatLessThanWellFounded, Zenon
<1>. QED
    BY <1>1, Zenon DEF OpToRel

(* Induction from n down to 0, for a set of numbers.                       *)
LEMMA DownToZero ==
    ASSUME NEW n \in Nat, NEW T, n \in T, \A m \in 1 .. n : m \in T => m - 1 \in T
    PROVE  \A m \in 0 .. n : m \in T
<1>. DEFINE D == {j \in 0 .. n : n - j \notin T}
<1>. SUFFICES ASSUME D # {} PROVE FALSE
  <2>1. ASSUME NEW m \in 0 .. n, m \notin T PROVE n - m \in D
      BY <2>1
  <2>. QED
      BY <2>1
<1>1. PICK j \in D : \A y \in D : ~(y < j)
  <2>1. D \in SUBSET Nat
      OBVIOUS
  <2>. HIDE DEF D
  <2>. QED
      BY <2>1, LeastNumber
<1>2. j \in 0 .. n /\ n - j \notin T /\ j # 0
    BY <1>1
<1>3. j - 1 \in 0 .. n /\ n - (j - 1) \in 1 .. n /\ (n - (j - 1)) - 1 = n - j
    BY <1>2
<1>4. n - (j - 1) \in T
    BY <1>1, <1>3
<1>. QED
    BY <1>2, <1>3, <1>4

-----------------------------------------------------------------------------
(* Writing.                                                                *)

(* The recursive function of FlattenSeq is the one its equation describes. *)
Flattens(s, h) == h = [i \in 1 .. Len(s) |-> IF i = 1 THEN s[i] ELSE h[i - 1] \o s[i]]

(* g[i] is what the first i sequences of s are together.                   *)
Joins(s, g, n) == g[0] = << >> /\ \A i \in 1 .. n : g[i] = g[i - 1] \o s[i]

(* There is such a g.                                                      *)
LEMMA JoinsExist ==
    ASSUME NEW S, NEW s \in Seq(Seq(S)), NEW n \in 0 .. Len(s)
    PROVE  \E g \in [0 .. n -> Seq(S)] : Joins(s, g, n)
<1>. DEFINE Fails(m) == ~\E g \in [0 .. m -> Seq(S)] : Joins(s, g, m)
            T == {m \in 0 .. Len(s) : Fails(m)}
<1>. SUFFICES ASSUME Fails(n) PROVE FALSE
    OBVIOUS
<1>1. PICK m \in T : \A y \in T : ~(y < m)
  <2>1. T \in SUBSET Nat /\ n \in T
      OBVIOUS
  <2>. HIDE DEF T
  <2>. QED
      BY <2>1, LeastNumber
<1>2. m \in 0 .. Len(s) /\ Fails(m) /\ \A y \in 0 .. Len(s) : Fails(y) => ~(y < m)
    BY <1>1
<1>. HIDE DEF T
<1>3. CASE m = 0
  <2>. DEFINE g == [i \in 0 .. 0 |-> << >>]
  <2>1. g \in [0 .. m -> Seq(S)] /\ Joins(s, g, m)
      BY <1>3 DEF Joins
  <2>. HIDE DEF g
  <2>. QED
      BY <1>2, <2>1
<1>4. CASE m # 0
  <2>1. m - 1 \in 0 .. Len(s) /\ m - 1 < m /\ m \in 1 .. Len(s) /\ Len(s) \in Nat
      BY <1>2, <1>4
  <2>2. ~Fails(m - 1)
    <3>. HIDE DEF Fails
    <3>. QED
        BY <1>2, <2>1
  <2>3. PICK g \in [0 .. m - 1 -> Seq(S)] : Joins(s, g, m - 1)
      BY <2>2
  <2>. DEFINE h == [i \in 0 .. m |-> IF i = m THEN g[m - 1] \o s[m] ELSE g[i]]
  <2>4. s[m] \in Seq(S) /\ g[m - 1] \in Seq(S)
      BY <2>1
  <2>5. g[m - 1] \o s[m] \in Seq(S)
      BY <2>4, ConcatProperties
  <2>6. h \in [0 .. m -> Seq(S)]
      BY <2>1, <2>5
  <2>7. h[0] = << >>
      BY <2>1, <2>3 DEF Joins
  <2>8. ASSUME NEW i \in 1 .. m PROVE h[i] = h[i - 1] \o s[i]
    <3>1. CASE i = m
      <4>1. i \in 0 .. m /\ i - 1 \in 0 .. m /\ i - 1 # m
          BY <2>1, <2>8
      <4>. QED
          BY <3>1, <4>1
    <3>2. CASE i # m
      <4>1. i \in 1 .. m - 1 /\ i \in 0 .. m /\ i - 1 \in 0 .. m /\ i - 1 # m
          BY <2>1, <2>8, <3>2
      <4>2. g[i] = g[i - 1] \o s[i]
          BY <2>3, <4>1 DEF Joins
      <4>. QED
          BY <3>2, <4>1, <4>2
    <3>. QED
        BY <3>1, <3>2
  <2>9. Joins(s, h, m)
    <3>. HIDE DEF h
    <3>. QED
        BY <2>7, <2>8 DEF Joins
  <2>. HIDE DEF h
  <2>. QED
      BY <1>2, <2>6, <2>9
<1>. QED
    BY <1>3, <1>4

(* FlattenSeq joins the sequences.                                         *)
LEMMA FlattenJoins ==
    ASSUME NEW S, NEW s \in Seq(Seq(S))
    PROVE  \E g \in [0 .. Len(s) -> Seq(S)] : Joins(s, g, Len(s)) /\ FlattenSeq(s) = g[Len(s)]
<1>0. Len(s) \in Nat /\ s \in [1 .. Len(s) -> Seq(S)]
    BY LenProperties
<1>1. PICK g \in [0 .. Len(s) -> Seq(S)] : Joins(s, g, Len(s))
    BY <1>0, JoinsExist
<1>2. CASE Len(s) = 0
  <2>1. FlattenSeq(s) = s
      BY <1>2, Zenon DEF FlattenSeq
  <2>2. s = << >>
      BY <1>2, EmptySeq
  <2>3. FlattenSeq(s) = g[Len(s)]
      BY <1>1, <1>2, <2>1, <2>2 DEF Joins
  <2>. QED
      BY <1>1, <2>3
<1>3. CASE Len(s) # 0
  <2>1. FlattenSeq(s) = (CHOOSE h : Flattens(s, h))[Len(s)]
      BY <1>3, Zenon DEF FlattenSeq, Flattens
  <2>2. \E h : Flattens(s, h)
    <3>. DEFINE h == [i \in 1 .. Len(s) |-> g[i]]
    <3>1. ASSUME NEW i \in 1 .. Len(s) PROVE h[i] = IF i = 1 THEN s[i] ELSE h[i - 1] \o s[i]
      <4>1. g[i] = g[i - 1] \o s[i]
          BY <1>1 DEF Joins
      <4>2. CASE i = 1
        <5>1. g[0] = << >> /\ s[1] \in Seq(S) /\ i - 1 = 0
            BY <1>0, <1>1, <4>2 DEF Joins
        <5>2. << >> \o s[1] = s[1]
            BY <5>1, ConcatEmptySeq
        <5>. QED
            BY <4>1, <4>2, <5>1, <5>2
      <4>3. CASE i # 1
        <5>1. i - 1 \in 1 .. Len(s)
            BY <1>0, <4>3
        <5>. QED
            BY <4>1, <4>3, <5>1
      <4>. QED
          BY <4>2, <4>3
    <3>2. Flattens(s, h)
        BY <3>1 DEF Flattens
    <3>. HIDE DEF h
    <3>. QED
        BY <3>2
  <2>3. PICK h : Flattens(s, h) /\ FlattenSeq(s) = h[Len(s)]
    <3>1. Flattens(s, CHOOSE h : Flattens(s, h))
        BY <2>2, Zenon
    <3>. QED
        BY <2>1, <3>1
  <2>4. \A i \in 1 .. Len(s) : h[i] = IF i = 1 THEN s[i] ELSE h[i - 1] \o s[i]
    <3>. DEFINE e(i) == IF i = 1 THEN s[i] ELSE h[i - 1] \o s[i]
    <3>1. h = [i \in 1 .. Len(s) |-> e(i)]
        BY <2>3 DEF Flattens
    <3>. HIDE DEF e
    <3>2. \A i \in 1 .. Len(s) : h[i] = e(i)
        BY <3>1
    <3>. QED
        BY <3>2 DEF e
  <2>5. \A i \in 1 .. Len(s) : h[i] = g[i]
    <3>. DEFINE T == {i \in 1 .. Len(s) : h[i] # g[i]}
    <3>. SUFFICES ASSUME T # {} PROVE FALSE
        OBVIOUS
    <3>1. PICK i \in T : \A y \in T : ~(y < i)
      <4>1. T \in SUBSET Nat
          OBVIOUS
      <4>. HIDE DEF T
      <4>. QED
          BY <4>1, LeastNumber
    <3>2. i \in 1 .. Len(s) /\ h[i] # g[i] /\ g[i] = g[i - 1] \o s[i]
        BY <1>1, <3>1 DEF Joins
    <3>3. CASE i = 1
      <4>1. g[0] = << >> /\ s[1] \in Seq(S) /\ i - 1 = 0
          BY <1>0, <1>1, <3>2, <3>3 DEF Joins
      <4>2. << >> \o s[1] = s[1]
          BY <4>1, ConcatEmptySeq
      <4>. QED
          BY <2>4, <3>2, <3>3, <4>1, <4>2
    <3>4. CASE i # 1
      <4>1. i - 1 \in 1 .. Len(s) /\ i - 1 < i
          BY <1>0, <3>2, <3>4
      <4>2. h[i - 1] = g[i - 1]
          BY <3>1, <4>1
      <4>. QED
          BY <2>4, <3>2, <3>4, <4>2
    <3>. QED
        BY <3>3, <3>4
  <2>6. FlattenSeq(s) = g[Len(s)]
      BY <1>0, <1>3, <2>3, <2>5
  <2>. QED
      BY <1>1, <2>6
<1>. QED
    BY <1>2, <1>3

-----------------------------------------------------------------------------
(* Reading one line.                                                       *)

(* When it reads from i on, fgets may stop at j.                           *)
Stops(text, i, j) == text[j] = Newline \/ j = i + MAX_STRING_LEN - 2 \/ j = Len(text)

(* It stops at e and at none before.                                       *)
StopsFirst(text, i, e) ==
    /\ text[e] = Newline \/ e = i + MAX_STRING_LEN - 2 \/ e = Len(text)
    /\ \A k \in i .. e - 1 : text[k] # Newline /\ k # i + MAX_STRING_LEN - 2

(* LineEnd is the first character at which fgets stops.                    *)
LEMMA LineEndFacts ==
    ASSUME NEW text \in Seq(Char), NEW i \in 1 .. Len(text)
    PROVE  LineEnd(text, i) \in i .. Len(text) /\ StopsFirst(text, i, LineEnd(text, i))
<1>0. Len(text) \in Nat
    BY LenProperties
<1>. DEFINE T == {j \in i .. Len(text) : Stops(text, i, j)}
<1>1. PICK j \in T : \A y \in T : ~(y < j)
  <2>1. T \in SUBSET Nat /\ Len(text) \in T
      BY <1>0 DEF Stops
  <2>. HIDE DEF T
  <2>. QED
      BY <2>1, LeastNumber
<1>2. j \in i .. Len(text) /\ StopsFirst(text, i, j)
  <2>1. ASSUME NEW k \in i .. j - 1 PROVE ~Stops(text, i, k)
      BY <1>0, <1>1, <2>1
  <2>. QED
      BY <1>1, <2>1 DEF Stops, StopsFirst
<1>. HIDE DEF T
<1>3. LineEnd(text, i) = CHOOSE y \in i .. Len(text) : StopsFirst(text, i, y)
    BY Zenon DEF LineEnd, StopsFirst
<1>. QED
    BY <1>2, <1>3, Zenon

(* A line in a text: what is in front of it, and what behind.              *)
LineAt(text, a, str, b) == text = a \o (Append(str, Newline) \o b)

(* The n characters of str are in the text behind p others, and a newline  *)
(* behind them.                                                            *)
Stands(text, str, p, n) ==
    (\A j \in 1 .. n : text[p + j] = str[j]) /\ text[p + n + 1] = Newline

(* Where its characters are.                                               *)
LEMMA LinePlace ==
    ASSUME NEW a \in Seq(Char), NEW str \in Seq(Char), NEW b \in Seq(Char), NEW text, LineAt(text, a, str, b)
    PROVE  /\ text \in Seq(Char) /\ Len(a) \in Nat /\ Len(str) \in Nat /\ Len(b) \in Nat
           /\ Len(text) = Len(a) + Len(str) + 1 + Len(b)
           /\ Stands(text, str, Len(a), Len(str))
<1>. DEFINE c == Append(str, Newline)
            d == c \o b
<1>0. Len(a) \in Nat /\ Len(str) \in Nat /\ Len(b) \in Nat /\ Newline \in Char
    BY LenProperties, CharAssumption
<1>1. /\ c \in Seq(Char) /\ Len(c) = Len(str) + 1 /\ c[Len(str) + 1] = Newline
      /\ \A j \in 1 .. Len(str) : c[j] = str[j]
    BY <1>0, AppendProperties
<1>. HIDE DEF c
<1>2. /\ d \in Seq(Char) /\ Len(d) = Len(c) + Len(b)
      /\ \A j \in 1 .. Len(c) + Len(b) : d[j] = IF j <= Len(c) THEN c[j] ELSE b[j - Len(c)]
    BY <1>1, ConcatProperties
<1>. HIDE DEF d
<1>3. text = a \o d
    BY DEF LineAt, d, c
<1>4. /\ text \in Seq(Char) /\ Len(text) = Len(a) + Len(d)
      /\ \A j \in 1 .. Len(a) + Len(d) : text[j] = IF j <= Len(a) THEN a[j] ELSE d[j - Len(a)]
  <2>1. /\ a \o d \in Seq(Char) /\ Len(a \o d) = Len(a) + Len(d)
        /\ \A j \in 1 .. Len(a) + Len(d) : (a \o d)[j] = IF j <= Len(a) THEN a[j] ELSE d[j - Len(a)]
    <3>1. d \in Seq(Char)
        BY <1>2
    <3>. QED
        BY <3>1, ConcatProperties, Zenon
  <2>. QED
      BY <1>3, <2>1, Zenon
<1>5. \A j \in 1 .. Len(d) : text[Len(a) + j] = d[j]
  <2>. TAKE j \in 1 .. Len(d)
  <2>1. Len(a) + j \in 1 .. Len(a) + Len(d) /\ ~(Len(a) + j <= Len(a)) /\ (Len(a) + j) - Len(a) = j
      BY <1>0, <1>1, <1>2
  <2>. QED
      BY <1>4, <2>1
<1>6. \A j \in 1 .. Len(c) : d[j] = c[j] /\ j \in 1 .. Len(d)
    BY <1>0, <1>1, <1>2
<1>7. \A j \in 1 .. Len(str) : j \in 1 .. Len(c)
    BY <1>0, <1>1
<1>8. Len(str) + 1 \in 1 .. Len(c) /\ Len(a) + (Len(str) + 1) = Len(a) + Len(str) + 1
    BY <1>0, <1>1
<1>9. Len(text) = Len(a) + Len(str) + 1 + Len(b)
    BY <1>0, <1>1, <1>2, <1>4
<1>10. \A j \in 1 .. Len(str) : text[Len(a) + j] = str[j]
    BY <1>1, <1>5, <1>6, <1>7
<1>11. text[Len(a) + Len(str) + 1] = Newline
    BY <1>1, <1>5, <1>6, <1>8
<1>. QED
    BY <1>0, <1>4, <1>9, <1>10, <1>11 DEF Stands

(* A string of n characters is plain.                                      *)
Fits(str, n) == (\A j \in 1 .. n : str[j] # Newline) /\ n + 2 <= MAX_STRING_LEN

(* From where its characters are follows where fgets stops: p characters   *)
(* are in front of a string of n.                                         *)
LEMMA StopsWhere ==
    ASSUME NEW text, NEW str, NEW p \in Nat, NEW n \in Nat, Len(text) \in Nat, p + n + 1 <= Len(text),
           Stands(text, str, p, n), NEW e \in Int, p + 1 <= e, e <= Len(text), StopsFirst(text, p + 1, e)
    PROVE  /\ Fits(str, n) => e = p + n + 1
           /\ ~Fits(str, n) => e - (p + 1) < n
<1>. DEFINE l == Len(text)
<1>0. /\ l \in Nat /\ p + n + 1 <= l /\ e <= l
      /\ text[e] = Newline \/ e = (p + 1) + MAX_STRING_LEN - 2 \/ e = l
      /\ \A k \in p + 1 .. e - 1 : text[k] # Newline /\ k # (p + 1) + MAX_STRING_LEN - 2
      /\ (\A j \in 1 .. n : text[p + j] = str[j]) /\ text[p + n + 1] = Newline
    BY DEF Stands, StopsFirst
<1>. HIDE DEF l
<1>1. ASSUME \A j \in 1 .. n : str[j] # Newline, n + 2 <= MAX_STRING_LEN PROVE e = p + n + 1
  <2>1. CASE e < p + n + 1
    <3>1. e - p \in 1 .. n /\ p + (e - p) = e
        BY <2>1
    <3>2. text[e] # Newline
        BY <1>0, <1>1, <3>1
    <3>. QED
        BY <1>0, <1>1, <2>1, <3>2, LenAssumption
  <2>2. CASE e > p + n + 1
    <3>1. p + n + 1 \in p + 1 .. e - 1
        BY <2>2
    <3>. QED
        BY <1>0, <3>1
  <2>. QED
      BY <2>1, <2>2
<1>2. ASSUME NEW j \in 1 .. n, str[j] = Newline PROVE e - (p + 1) < n
  <2>1. text[p + j] = Newline
      BY <1>0, <1>2
  <2>2. ~(p + j \in p + 1 .. e - 1)
      BY <1>0, <2>1
  <2>. QED
      BY <2>2
<1>3. ASSUME n + 2 > MAX_STRING_LEN PROVE e - (p + 1) < n
  <2>1. ~((p + 1) + MAX_STRING_LEN - 2 \in p + 1 .. e - 1)
      BY <1>0
  <2>. QED
      BY <1>3, <2>1, LenAssumption
<1>4. n + 2 <= MAX_STRING_LEN \/ n + 2 > MAX_STRING_LEN
    BY LenAssumption
<1>. QED
    BY <1>1, <1>2, <1>3, <1>4, Zenon DEF Fits

(* What SubSeq takes out of a text.                                        *)
LEMMA ChunkFacts ==
    ASSUME NEW text \in Seq(Char), NEW p \in Nat, NEW e \in Int, p + 1 <= e, e <= Len(text)
    PROVE  /\ Chunk(text, p + 1, e) \in Seq(Char) /\ Len(Chunk(text, p + 1, e)) = e - (p + 1)
           /\ \A j \in 1 .. e - (p + 1) : Chunk(text, p + 1, e)[j] = text[p + j]
<1>0. Len(text) \in Nat
    BY LenProperties
<1>1. \A k \in p + 1 .. e - 1 : text[k] \in Char
  <2>1. \A k \in p + 1 .. e - 1 : k \in 1 .. Len(text)
      BY <1>0
  <2>. QED
      BY <2>1, ElementOfSeq
<1>. DEFINE c == SubSeq(text, p + 1, e - 1)
<1>2. p + 1 \in Int /\ e - 1 \in Int
    OBVIOUS
<1>3. /\ c \in Seq(Char) /\ Len(c) = (IF p + 1 <= e - 1 THEN (e - 1) - (p + 1) + 1 ELSE 0)
      /\ \A j \in 1 .. (e - 1) - (p + 1) + 1 : c[j] = text[(p + 1) + j - 1]
    BY <1>1, <1>2, SubSeqProperties
<1>4. Chunk(text, p + 1, e) = c
    BY DEF Chunk
<1>. HIDE DEF c
<1>5. /\ (IF p + 1 <= e - 1 THEN (e - 1) - (p + 1) + 1 ELSE 0) = e - (p + 1)
      /\ (e - 1) - (p + 1) + 1 = e - (p + 1)
    BY <1>0
<1>6. ASSUME NEW j \in 1 .. e - (p + 1) PROVE c[j] = text[p + j]
  <2>1. (p + 1) + j - 1 = p + j
      OBVIOUS
  <2>. QED
      BY <1>3, <1>5, <2>1
<1>. QED
    BY <1>3, <1>4, <1>5, <1>6

(* fgets reads a plain string to its newline and not further; what it      *)
(* reads of another string is too short.                                   *)
LEMMA LineRead ==
    ASSUME NEW a \in Seq(Char), NEW str \in Seq(Char), NEW b \in Seq(Char), NEW text, LineAt(text, a, str, b)
    PROVE  LET i == Len(a) + 1
               e == LineEnd(text, i)
           IN  /\ i \in 1 .. Len(text) /\ e \in i .. Len(text)
               /\ Chunk(text, i, e) \in Seq(Char)
               /\ Plain(str) => e = Len(a) + Len(str) + 1 /\ Chunk(text, i, e) = str
               /\ ~Plain(str) => Chunk(text, i, e) # str
<1>. DEFINE p == Len(a)
            n == Len(str)
            l == Len(text)
            e == LineEnd(text, p + 1)
            c == Chunk(text, p + 1, e)
<1>1. /\ p \in Nat /\ n \in Nat /\ Len(b) \in Nat /\ l = p + n + 1 + Len(b)
      /\ text \in Seq(Char) /\ Stands(text, str, p, n)
    BY LinePlace
<1>2. Plain(str) <=> Fits(str, n)
  <2>1. Range(str) = {str[j] : j \in 1 .. n}
      BY LenProperties DEF Range
  <2>. QED
      BY <2>1 DEF Plain, Fits
<1>3. p + 1 \in 1 .. Len(text) /\ l \in Nat /\ p + n + 1 <= l
  <2>. HIDE DEF p, n
  <2>. QED
      BY <1>1
<1>. HIDE DEF p, n
<1>4. e \in p + 1 .. l /\ StopsFirst(text, p + 1, e)
    BY <1>1, <1>3, LineEndFacts
<1>. HIDE DEF l, e
<1>5. e \in Int /\ p + 1 <= e /\ e <= l
    BY <1>1, <1>3, <1>4
<1>6. (Plain(str) => e = p + n + 1) /\ (~Plain(str) => e - (p + 1) < n)
  <2>0. Len(text) \in Nat /\ p + n + 1 <= Len(text) /\ e <= Len(text)
      BY <1>3, <1>5 DEF l
  <2>1. (Fits(str, n) => e = p + n + 1) /\ (~Fits(str, n) => e - (p + 1) < n)
    <3>1. p \in Nat /\ n \in Nat /\ Stands(text, str, p, n)
        BY <1>1
    <3>2. StopsFirst(text, p + 1, e) /\ e \in Int /\ p + 1 <= e
        BY <1>4, <1>5
    <3>. QED
        BY <2>0, <3>1, <3>2, StopsWhere, Zenon
  <2>. QED
      BY <1>2, <2>1, Zenon
<1>7. c \in Seq(Char) /\ Len(c) = e - (p + 1) /\ \A j \in 1 .. e - (p + 1) : c[j] = text[p + j]
  <2>1. e <= Len(text)
      BY <1>5 DEF l
  <2>. QED
      BY <1>1, <1>5, <2>1, ChunkFacts
<1>. HIDE DEF c
<1>8. ASSUME Plain(str) PROVE c = str
  <2>1. e - (p + 1) = n
      BY <1>1, <1>5, <1>6, <1>8
  <2>2. Len(c) = Len(str) /\ \A j \in 1 .. Len(c) : c[j] = str[j]
      BY <1>1, <1>7, <2>1 DEF n, Stands
  <2>. QED
      BY <1>7, <2>2, SeqEqual
<1>9. ASSUME ~Plain(str) PROVE c # str
  <2>1. Len(c) < n
      BY <1>6, <1>7, <1>9
  <2>2. Len(str) = n /\ ~(n < n)
      BY <1>1 DEF n
  <2>. QED
      BY <2>1, <2>2
<1>10. p + 1 \in 1 .. Len(text) /\ e \in p + 1 .. Len(text)
    BY <1>3, <1>4 DEF l
<1>. QED
    BY <1>6, <1>7, <1>8, <1>9, <1>10, Zenon DEF p, n, e, c

-----------------------------------------------------------------------------
(* Reading the file.                                                       *)

(* The strings, as a set whose members need not be looked into.            *)
Str == Seq(Char)

(* Every index has a value and a greater index, its successor.             *)
Links(S, c, next, n) == \A i \in 1 .. n : c[i] \in S /\ next[i] \in i + 1 .. n + 1

(* f lists the values from an index on, from successor to successor.       *)
Chains(f, c, next, n) == f[n + 1] = << >> /\ \A i \in 1 .. n : f[i] = <<c[i]>> \o f[next[i]]

(* Such a function is defined from the greatest index down.                *)
LEMMA ChainExists ==
    ASSUME NEW S, NEW n \in Nat, NEW c, NEW next, Links(S, c, next, n)
    PROVE  \E f \in [1 .. n + 1 -> Seq(S)] : Chains(f, c, next, n)
<1>0. \A i \in 1 .. n : c[i] \in S /\ next[i] \in i + 1 .. n + 1
    BY DEF Links
<1>. DEFINE Chain(f, m) == f[n + 1] = << >> /\ \A i \in m + 1 .. n : f[i] = <<c[i]>> \o f[next[i]]
            T == {m \in 0 .. n : \E f \in [m + 1 .. n + 1 -> Seq(S)] : Chain(f, m)}
<1>1. n \in T
  <2>. DEFINE f == [i \in n + 1 .. n + 1 |-> << >>]
  <2>1. f \in [n + 1 .. n + 1 -> Seq(S)] /\ Chain(f, n)
      OBVIOUS
  <2>. HIDE DEF f, Chain
  <2>. QED
      BY <2>1
<1>2. ASSUME NEW m \in 1 .. n, m \in T PROVE m - 1 \in T
  <2>1. PICK f \in [m + 1 .. n + 1 -> Seq(S)] : Chain(f, m)
      BY <1>2
  <2>2. c[m] \in S /\ next[m] \in m + 1 .. n + 1
      BY <1>0
  <2>3. f[next[m]] \in Seq(S)
      BY <2>2
  <2>. DEFINE new == <<c[m]>> \o f[next[m]]
              g == [i \in m .. n + 1 |-> IF i = m THEN new ELSE f[i]]
  <2>4. new \in Seq(S)
    <3>1. <<c[m]>> \in Seq(S)
        BY <2>2
    <3>. QED
        BY <2>3, <3>1, ConcatProperties
  <2>. HIDE DEF new
  <2>5. \A i \in m + 1 .. n + 1 : i \in m .. n + 1 /\ i # m
      OBVIOUS
  <2>6. g \in [m .. n + 1 -> Seq(S)]
    <3>1. \A i \in m .. n + 1 : i = m \/ i \in m + 1 .. n + 1
        OBVIOUS
    <3>. QED
        BY <2>4, <3>1
  <2>7. g[m] = new /\ \A i \in m + 1 .. n + 1 : g[i] = f[i]
    <3>1. m \in m .. n + 1
        OBVIOUS
    <3>. QED
        BY <2>5, <3>1
  <2>. HIDE DEF g
  <2>8. g[n + 1] = << >>
    <3>1. n + 1 \in m + 1 .. n + 1
        OBVIOUS
    <3>. QED
        BY <2>1, <2>7, <3>1
  <2>9. ASSUME NEW i \in m .. n PROVE g[i] = <<c[i]>> \o g[next[i]]
    <3>1. i \in 1 .. n
        OBVIOUS
    <3>2. next[i] \in m + 1 .. n + 1
      <4>1. next[i] \in i + 1 .. n + 1
          BY <1>0, <3>1
      <4>. QED
          BY <4>1
    <3>3. g[next[i]] = f[next[i]]
        BY <2>7, <3>2
    <3>4. CASE i = m
        BY <2>7, <3>3, <3>4 DEF new
    <3>5. CASE i # m
      <4>1. i \in m + 1 .. n /\ i \in m + 1 .. n + 1
          BY <3>5
      <4>2. f[i] = <<c[i]>> \o f[next[i]] /\ g[i] = f[i]
          BY <2>1, <2>7, <4>1
      <4>. QED
          BY <3>3, <4>2
    <3>. QED
        BY <3>4, <3>5
  <2>10. (m - 1) + 1 = m /\ m - 1 \in 0 .. n
      OBVIOUS
  <2>11. Chain(g, m - 1)
      BY <2>8, <2>9, <2>10
  <2>. HIDE DEF Chain
  <2>. QED
      BY <2>6, <2>10, <2>11
<1>3. 0 \in T
  <2>. HIDE DEF T
  <2>. QED
      BY <1>1, <1>2, DownToZero
<1>4. 0 + 1 = 1
    OBVIOUS
<1>. QED
    BY <1>3, <1>4, Zenon DEF Chains

(* The recursive function of Lines is the one its equation describes.      *)
Reads(text, f) ==
    f = [i \in 1 .. Len(text) + 1 |->
            IF i > Len(text) THEN << >>
            ELSE <<Chunk(text, i, LineEnd(text, i))>> \o f[LineEnd(text, i) + 1]]

(* f[i] is what is read from i on.                                         *)
ReadBy(text, f) ==
    /\ f[Len(text) + 1] = << >>
    /\ \A i \in 1 .. Len(text) : f[i] = <<Chunk(text, i, LineEnd(text, i))>> \o f[LineEnd(text, i) + 1]

(* Each call of fgets returns a string and gets further.                   *)
LEMMA ReadsOn ==
    ASSUME NEW text \in Seq(Char), NEW i \in 1 .. Len(text)
    PROVE  Chunk(text, i, LineEnd(text, i)) \in Str /\ LineEnd(text, i) + 1 \in i + 1 .. Len(text) + 1
<1>. DEFINE e == LineEnd(text, i)
            p == i - 1
<1>0. Len(text) \in Nat /\ e \in i .. Len(text)
    BY LenProperties, LineEndFacts
<1>. HIDE DEF e
<1>1. p \in Nat /\ e \in Int /\ p + 1 <= e /\ e <= Len(text) /\ p + 1 = i
    BY <1>0
<1>2. e + 1 \in i + 1 .. Len(text) + 1
    BY <1>0
<1>. HIDE DEF p
<1>3. Chunk(text, p + 1, e) \in Seq(Char)
    BY <1>1, ChunkFacts
<1>4. Chunk(text, i, e) \in Str
    BY <1>1, <1>3, Zenon DEF Str
<1>. QED
    BY <1>2, <1>4, Zenon DEF e

(* What Lines returns.                                                     *)
LEMMA LinesRead ==
    ASSUME NEW text \in Seq(Char)
    PROVE  \E f \in [1 .. Len(text) + 1 -> Seq(Str)] : ReadBy(text, f) /\ Lines(text) = f[1]
<1>. DEFINE n == Len(text)
            ch(i) == Chunk(text, i, LineEnd(text, i))
            nx(i) == LineEnd(text, i) + 1
            c == [i \in 1 .. n |-> ch(i)]
            next == [i \in 1 .. n |-> nx(i)]
<1>0. n \in Nat
    BY LenProperties
<1>1. \A i \in 1 .. n : ch(i) \in Str /\ nx(i) \in i + 1 .. n + 1
    BY ReadsOn
<1>2. Lines(text) = (CHOOSE f : Reads(text, f))[1]
    BY Zenon DEF Lines, Reads
<1>3. \A f : Reads(text, f) <=> f = [i \in 1 .. n + 1 |-> IF i > n THEN << >> ELSE <<ch(i)>> \o f[nx(i)]]
    BY Zenon DEF Reads
<1>4. \A f : ReadBy(text, f) <=> f[n + 1] = << >> /\ \A i \in 1 .. n : f[i] = <<ch(i)>> \o f[nx(i)]
    BY Zenon DEF ReadBy
<1>. HIDE DEF ch, nx, n
<1>5. \A i \in 1 .. n : c[i] = ch(i) /\ next[i] = nx(i)
    OBVIOUS
<1>6. Links(Str, c, next, n)
    BY <1>1, <1>5 DEF Links
<1>. HIDE DEF c, next
<1>7. PICK g \in [1 .. n + 1 -> Seq(Str)] : Chains(g, c, next, n)
    BY <1>0, <1>6, ChainExists, Zenon
<1>8. g[n + 1] = << >> /\ \A i \in 1 .. n : g[i] = <<ch(i)>> \o g[nx(i)]
    BY <1>5, <1>7 DEF Chains
<1>9. \A i \in 1 .. n + 1 : i \in 1 .. n \/ i = n + 1
    BY <1>0
<1>10. Reads(text, g)
  <2>1. ASSUME NEW i \in 1 .. n + 1 PROVE g[i] = IF i > n THEN << >> ELSE <<ch(i)>> \o g[nx(i)]
    <3>1. CASE i = n + 1
        BY <1>0, <1>8, <3>1
    <3>2. CASE i \in 1 .. n
      <4>1. ~(i > n)
          BY <1>0, <3>2
      <4>. QED
          BY <1>8, <3>2, <4>1
    <3>. QED
        BY <1>9, <3>1, <3>2
  <2>. DEFINE rest(i) == IF i > n THEN << >> ELSE <<ch(i)>> \o g[nx(i)]
  <2>2. \A i \in 1 .. n + 1 : g[i] = rest(i)
      BY <2>1
  <2>3. g = [i \in 1 .. n + 1 |-> rest(i)]
    <3>. HIDE DEF rest
    <3>. QED
        BY <2>2
  <2>. QED
      BY <1>3, <2>3
<1>11. PICK h : Reads(text, h) /\ Lines(text) = h[1]
  <2>1. Reads(text, CHOOSE f : Reads(text, f))
      BY <1>10, Zenon
  <2>. QED
      BY <1>2, <2>1
<1>12. h[n + 1] = << >> /\ \A i \in 1 .. n : h[i] = <<ch(i)>> \o h[nx(i)]
  <2>. DEFINE rest(i) == IF i > n THEN << >> ELSE <<ch(i)>> \o h[nx(i)]
  <2>1. h = [i \in 1 .. n + 1 |-> rest(i)]
      BY <1>3, <1>11
  <2>2. \A i \in 1 .. n + 1 : h[i] = rest(i)
    <3>. HIDE DEF rest
    <3>. QED
        BY <2>1
  <2>3. n + 1 \in 1 .. n + 1 /\ n + 1 > n /\ \A i \in 1 .. n : i \in 1 .. n + 1 /\ ~(i > n)
      BY <1>0
  <2>. QED
      BY <2>2, <2>3
<1>. DEFINE T == {m \in 0 .. n : \A i \in m + 1 .. n + 1 : h[i] = g[i]}
<1>13. n \in T
  <2>1. \A i \in n + 1 .. n + 1 : i = n + 1
      BY <1>0
  <2>. QED
      BY <1>0, <1>8, <1>12, <2>1
<1>14. ASSUME NEW m \in 1 .. n, m \in T PROVE m - 1 \in T
  <2>1. \A i \in m + 1 .. n + 1 : h[i] = g[i]
      BY <1>14
  <2>2. nx(m) \in m + 1 .. n + 1
      BY <1>1
  <2>3. h[m] = g[m]
      BY <1>8, <1>12, <2>1, <2>2
  <2>4. m - 1 \in 0 .. n /\ (m - 1) + 1 = m /\ \A i \in m .. n + 1 : i = m \/ i \in m + 1 .. n + 1
      BY <1>0
  <2>5. \A i \in (m - 1) + 1 .. n + 1 : h[i] = g[i]
      BY <2>1, <2>3, <2>4
  <2>. QED
      BY <2>4, <2>5
<1>15. 0 \in T
  <2>. HIDE DEF T
  <2>1. \A m \in 0 .. n : m \in T
      BY <1>0, <1>13, <1>14, DownToZero, Zenon
  <2>. QED
      BY <1>0, <2>1
<1>16. h[1] = g[1]
  <2>1. 1 \in 0 + 1 .. n + 1
      BY <1>0
  <2>. QED
      BY <1>15, <2>1
<1>17. ReadBy(text, g) /\ Lines(text) = g[1]
    BY <1>4, <1>8, <1>11, <1>16, Zenon
<1>. QED
    BY <1>17 DEF n

-----------------------------------------------------------------------------
(* The file.                                                               *)

(* The items of a sequence determine it.                                   *)
LEMMA ConsEqual ==
    ASSUME NEW S, NEW x \in S, NEW y \in S, NEW u \in Seq(S), NEW v \in Seq(S)
    PROVE  Cons(x, u) = Cons(y, v) <=> x = y /\ u = v
<1>1. <<x>> \in Seq(S) /\ <<y>> \in Seq(S) /\ Len(<<x>>) = 1 /\ Len(<<y>>) = 1 /\ <<x>>[1] = x /\ <<y>>[1] = y
    OBVIOUS
<1>2. (<<x>> \o u)[1] = x /\ (<<y>> \o v)[1] = y
  <2>1. 1 \in 1 .. 1 + Len(u) /\ 1 \in 1 .. 1 + Len(v) /\ 1 <= 1
      BY LenProperties
  <2>. QED
      BY <1>1, <2>1, ConcatProperties
<1>3. x = y /\ <<x>> \o u = <<y>> \o v => u = v
  <2>1. \A s, t, w \in Seq(S) : s \o t = s \o w => t = w
      BY ConcatSimplifications, Zenon
  <2>. QED
      BY <1>1, <2>1, Zenon
<1>. QED
    BY <1>2, <1>3, Zenon DEF Cons

(* Joining strings.                                                        *)
LEMMA JoinStrings ==
    ASSUME NEW x \in Str, NEW y \in Str, NEW z \in Str
    PROVE  (x \o y) \o z = x \o (y \o z) /\ y \o z \in Str
<1>. USE DEF Str
<1>1. (x \o y) \o z = x \o (y \o z)
    BY ConcatAssociative
<1>2. y \o z \in Seq(Char)
    BY ConcatProperties
<1>. QED
    BY <1>1, <1>2

(* The n sequences of s are strings, and so is what the first of them are  *)
(* together.                                                               *)
JoinsStrings(s, g, n) ==
    Joins(s, g, n) /\ (\A i \in 1 .. n : s[i] \in Str) /\ \A i \in 0 .. n : g[i] \in Str

(* The text of the file is what the lines in front of any one are          *)
(* together, and a rest.                                                   *)
Splits(g, n) == \A m \in 0 .. n : \E b \in Str : g[n] = g[m] \o b

(* The text is made of its lines.                                          *)
LEMMA TextSplits ==
    ASSUME NEW s, NEW g, NEW n \in Nat, JoinsStrings(s, g, n)
    PROVE  Splits(g, n)
<1>0. Joins(s, g, n) /\ (\A i \in 1 .. n : s[i] \in Str) /\ \A i \in 0 .. n : g[i] \in Str
    BY DEF JoinsStrings
<1>. DEFINE T == {m \in 0 .. n : \E b \in Str : g[n] = g[m] \o b}
<1>1. n \in T
  <2>1. g[n] \in Str /\ n \in 0 .. n
      BY <1>0
  <2>2. g[n] = g[n] \o << >> /\ << >> \in Str
    <3>1. g[n] \in Seq(Char)
        BY <2>1, Zenon DEF Str
    <3>. QED
        BY <3>1, ConcatEmptySeq, EmptySeq, Zenon DEF Str
  <2>. QED
      BY <2>1, <2>2, Zenon
<1>2. ASSUME NEW m \in 1 .. n, m \in T PROVE m - 1 \in T
  <2>1. PICK b \in Str : g[n] = g[m] \o b
      BY <1>2
  <2>2. m - 1 \in 0 .. n
      OBVIOUS
  <2>3. g[m] = g[m - 1] \o s[m] /\ g[m - 1] \in Str /\ s[m] \in Str
      BY <1>0, <2>2, Zenon DEF Joins
  <2>4. (g[m - 1] \o s[m]) \o b = g[m - 1] \o (s[m] \o b) /\ s[m] \o b \in Str
      BY <2>3, JoinStrings, Zenon
  <2>5. g[n] = g[m - 1] \o (s[m] \o b)
      BY <2>1, <2>3, <2>4, Zenon
  <2>. QED
      BY <2>2, <2>4, <2>5, Zenon
<1>3. \A m \in 0 .. n : m \in T
  <2>. HIDE DEF T
  <2>. QED
      BY <1>1, <1>2, DownToZero, Zenon
<1>. QED
    BY <1>3, Zenon DEF Splits

(* What is read from a line on is what was written from it on exactly when *)
(* the line is plain and the rest is read back.                            *)
LineBack(f, a, str, rest) ==
    f[Len(a) + 1] = Cons(str, rest)
        <=> Plain(str) /\ f[Len(a \o Append(str, Newline)) + 1] = rest

(* This is so for every line in a text.                                    *)
LEMMA LineRestores ==
    ASSUME NEW a \in Str, NEW str \in Str, NEW b \in Str, NEW text, LineAt(text, a, str, b),
           NEW f \in [1 .. Len(text) + 1 -> Seq(Str)], ReadBy(text, f), NEW rest \in Seq(Str)
    PROVE  LineBack(f, a, str, rest)
<1>. DEFINE i == Len(a) + 1
            e == LineEnd(text, i)
            c == Chunk(text, i, e)
<1>0. a \in Seq(Char) /\ str \in Seq(Char) /\ b \in Seq(Char) /\ Newline \in Char
    BY CharAssumption DEF Str
<1>1. /\ i \in 1 .. Len(text) /\ e \in i .. Len(text) /\ c \in Seq(Char)
      /\ Plain(str) => e = Len(a) + Len(str) + 1 /\ c = str
      /\ ~Plain(str) => c # str
    BY <1>0, LineRead
<1>2. Len(a) \in Nat /\ Len(str) \in Nat /\ Len(b) \in Nat /\ Len(text) = Len(a) + Len(str) + 1 + Len(b)
    BY <1>0, LinePlace
<1>3. Len(a \o Append(str, Newline)) = Len(a) + Len(str) + 1
  <2>1. Append(str, Newline) \in Seq(Char) /\ Len(Append(str, Newline)) = Len(str) + 1
      BY <1>0, AppendProperties
  <2>2. Len(a \o Append(str, Newline)) = Len(a) + Len(Append(str, Newline))
      BY <1>0, <2>1, ConcatProperties
  <2>. QED
      BY <1>2, <2>1, <2>2
<1>4. f[i] = Cons(c, f[e + 1])
    BY <1>1 DEF ReadBy, Cons
<1>5. e + 1 \in 1 .. Len(text) + 1
  <2>. HIDE DEF e
  <2>. QED
      BY <1>1, <1>2
<1>6. f[e + 1] \in Seq(Str) /\ c \in Str
    BY <1>1, <1>5, Zenon DEF Str
<1>. HIDE DEF c, e
<1>7. f[i] = Cons(str, rest) <=> c = str /\ f[e + 1] = rest
  <2>1. Cons(c, f[e + 1]) = Cons(str, rest) <=> c = str /\ f[e + 1] = rest
      BY <1>6, ConsEqual
  <2>. QED
      BY <1>4, <2>1, Zenon
<1>. QED
    BY <1>1, <1>3, <1>7, Zenon DEF i, LineBack

(* What is written for a sequence of strings.                              *)
Written(R) == [i \in 1 .. Len(R) |-> Append(R[i], Newline)]

(* The lines that are written are strings.                                 *)
LEMMA WrittenLines ==
    ASSUME NEW R \in Seq(Str)
    PROVE  /\ Written(R) \in Seq(Seq(Char)) /\ Len(Written(R)) = Len(R) /\ Len(R) \in Nat
           /\ \A i \in 1 .. Len(R) : R[i] \in Str /\ Written(R)[i] = Append(R[i], Newline) /\ Written(R)[i] \in Str
<1>0. Len(R) \in Nat /\ \A i \in 1 .. Len(R) : R[i] \in Str
    BY LenProperties, ElementOfSeq
<1>1. \A x \in Str : Append(x, Newline) \in Str
    BY CharAssumption, AppendProperties DEF Str
<1>. DEFINE n == Len(R)
            line(i) == Append(R[i], Newline)
<1>2. n \in Nat /\ \A i \in 1 .. n : line(i) \in Str
    BY <1>0, <1>1
<1>3. Written(R) = [i \in 1 .. n |-> line(i)]
    BY DEF Written
<1>. HIDE DEF n, line
<1>4. Written(R) \in [1 .. n -> Str] /\ \A i \in 1 .. n : Written(R)[i] = line(i)
    BY <1>2, <1>3
<1>5. Written(R) \in Seq(Str) /\ Len(Written(R)) = n
    BY <1>2, <1>4
<1>. QED
    BY <1>0, <1>2, <1>4, <1>5, Zenon DEF n, line, Str

(* The file gives back the strings exactly when they are plain.            *)
LEMMA Restores ==
    ASSUME NEW R \in Seq(Str)
    PROVE  /\ FlattenSeq(Written(R)) \in Str
           /\ Lines(FlattenSeq(Written(R))) \in Seq(Str)
           /\ Lines(FlattenSeq(Written(R))) = R <=> \A k \in 1 .. Len(R) : Plain(R[k])
<1>. DEFINE n == Len(R)
            s == Written(R)
            text == FlattenSeq(s)
<1>0. /\ s \in Seq(Seq(Char)) /\ Len(s) = n /\ n \in Nat
      /\ \A i \in 1 .. n : R[i] \in Str /\ s[i] = Append(R[i], Newline) /\ s[i] \in Str
    BY WrittenLines
<1>. HIDE DEF s, n
<1>1. PICK g \in [0 .. Len(s) -> Seq(Char)] : Joins(s, g, Len(s)) /\ FlattenSeq(s) = g[Len(s)]
    BY <1>0, FlattenJoins, Zenon
<1>2. Joins(s, g, n) /\ text = g[n] /\ g \in [0 .. n -> Str]
    BY <1>0, <1>1, Zenon DEF Str
<1>. HIDE DEF text
<1>3. \A m \in 0 .. n : g[m] \in Str
    BY <1>2
<1>4. \A m \in 0 .. n : \E b \in Str : text = g[m] \o b
  <2>1. n \in Nat /\ JoinsStrings(s, g, n)
      BY <1>0, <1>2, <1>3 DEF JoinsStrings
  <2>2. Splits(g, n)
      BY <2>1, TextSplits
  <2>. QED
      BY <1>2, <2>2, Zenon DEF Splits
<1>5. text \in Seq(Char) /\ text \in Str
    BY <1>0, <1>2, <1>3 DEF Str
<1>6. PICK f \in [1 .. Len(text) + 1 -> Seq(Str)] : ReadBy(text, f) /\ Lines(text) = f[1]
    BY <1>5, LinesRead, Zenon
<1>7. Len(text) \in Nat
    BY <1>5, LenProperties
<1>8. \A m \in 0 .. n : SubSeq(R, m + 1, n) \in Seq(Str)
  <2>. TAKE m \in 0 .. n
  <2>1. \A i \in m + 1 .. n : i \in 1 .. n
      BY <1>0
  <2>2. m + 1 \in Int /\ n \in Int /\ \A i \in m + 1 .. n : R[i] \in Str
      BY <1>0, <2>1
  <2>. QED
      BY <2>2, SubSeqProperties, Zenon
<1>. DEFINE Same(m) == f[Len(g[m]) + 1] = SubSeq(R, m + 1, n)
            AllPlain(m) == \A k \in m + 1 .. n : Plain(R[k])
            T == {m \in 0 .. n : Same(m) <=> AllPlain(m)}
<1>9. n \in T
  <2>1. f[Len(g[n]) + 1] = << >>
      BY <1>2, <1>6, Zenon DEF ReadBy
  <2>2. SubSeq(R, n + 1, n) = << >>
    <3>1. n + 1 \in Int /\ n \in Int /\ n < n + 1
        BY <1>0
    <3>. QED
        BY <3>1, SubSeqEmpty
  <2>3. \A k \in n + 1 .. n : FALSE
      BY <1>0
  <2>4. Same(n)
      BY <2>1, <2>2
  <2>5. AllPlain(n)
      BY <2>3
  <2>. HIDE DEF Same, AllPlain
  <2>. QED
      BY <1>0, <2>4, <2>5
<1>10. ASSUME NEW m \in 1 .. n, m \in T PROVE m - 1 \in T
  <2>1. Same(m) <=> AllPlain(m)
      BY <1>10
  <2>2. m - 1 \in 0 .. n /\ m \in 0 .. n /\ (m - 1) + 1 = m
      BY <1>0
  <2>3. R[m] \in Str /\ s[m] = Append(R[m], Newline) /\ s[m] \in Str
      BY <1>0
  <2>4. g[m - 1] \in Str /\ g[m] = g[m - 1] \o s[m]
      BY <1>2, <1>3, <2>2, Zenon DEF Joins
  <2>5. PICK b \in Str : text = g[m] \o b
      BY <1>4, <2>2, Zenon
  <2>6. (g[m - 1] \o s[m]) \o b = g[m - 1] \o (s[m] \o b)
      BY <2>3, <2>4, JoinStrings, Zenon
  <2>7. LineAt(text, g[m - 1], R[m], b)
      BY <2>3, <2>4, <2>5, <2>6, Zenon DEF LineAt
  <2>8. SubSeq(R, m + 1, n) \in Seq(Str)
      BY <1>8, <2>2
  <2>9. f[Len(g[m - 1]) + 1] = Cons(R[m], SubSeq(R, m + 1, n)) <=> Plain(R[m]) /\ f[Len(g[m]) + 1] = SubSeq(R, m + 1, n)
    <3>1. f[Len(g[m - 1]) + 1] = Cons(R[m], SubSeq(R, m + 1, n))
              <=> Plain(R[m]) /\ f[Len(g[m - 1] \o Append(R[m], Newline)) + 1] = SubSeq(R, m + 1, n)
      <4>. DEFINE a == g[m - 1]
                  str == R[m]
                  rest == SubSeq(R, m + 1, n)
      <4>1. a \in Str /\ str \in Str /\ LineAt(text, a, str, b) /\ rest \in Seq(Str)
          BY <2>3, <2>4, <2>7, <2>8
      <4>. HIDE DEF a, str, rest
      <4>2. LineBack(f, a, str, rest)
        <5>1. ReadBy(text, f)
            BY <1>6
        <5>. QED
            BY <4>1, <5>1, LineRestores, Zenon
      <4>. QED
          BY <4>2, Zenon DEF LineBack, a, str, rest
    <3>. QED
        BY <2>3, <2>4, <3>1, Zenon
  <2>10. SubSeq(R, m, n) = Cons(R[m], SubSeq(R, m + 1, n))
    <3>1. m \in 1 .. Len(R) /\ n \in m .. Len(R)
        BY <1>0 DEF n
    <3>. QED
        BY <3>1, SubSeqRecursiveFirst, Zenon DEF Cons
  <2>11. Same(m - 1) <=> Plain(R[m]) /\ Same(m)
      BY <2>2, <2>9, <2>10, Zenon
  <2>12. AllPlain(m - 1) <=> Plain(R[m]) /\ AllPlain(m)
    <3>1. \A k : k \in (m - 1) + 1 .. n <=> k = m \/ k \in m + 1 .. n
        BY <1>0
    <3>. QED
        BY <3>1, Zenon
  <2>. HIDE DEF Same, AllPlain
  <2>. QED
      BY <2>1, <2>2, <2>11, <2>12
<1>11. \A m \in 0 .. n : m \in T
  <2>. HIDE DEF T
  <2>. QED
      BY <1>0, <1>9, <1>10, DownToZero, Zenon
<1>12. 0 \in 0 .. n /\ 0 + 1 = 1
    BY <1>0
<1>13. Len(g[0]) + 1 = 1
  <2>1. g[0] = << >>
      BY <1>2 DEF Joins
  <2>. QED
      BY <2>1
<1>14. SubSeq(R, 1, n) = R
    BY SubSeqFull, Zenon DEF n
<1>15. Lines(text) = R <=> \A k \in 1 .. n : Plain(R[k])
  <2>1. Same(0) <=> AllPlain(0)
      BY <1>11, <1>12
  <2>. QED
      BY <1>6, <1>12, <1>13, <1>14, <2>1, Zenon
<1>16. Lines(text) \in Seq(Str)
  <2>1. 1 \in 1 .. Len(text) + 1
      BY <1>7
  <2>. QED
      BY <1>6, <2>1
<1>. QED
    BY <1>5, <1>15, <1>16, Zenon DEF text, s, n

(* Popping the queue gives its strings in the opposite order.              *)
LEMMA ReverseFacts ==
    ASSUME NEW S, NEW q \in Seq(S)
    PROVE  /\ Reverse(q) \in Seq(S) /\ Len(Reverse(q)) = Len(q) /\ Len(q) \in Nat
           /\ \A k \in 1 .. Len(q) : Reverse(q)[k] \in S
           /\ Range(q) = {Reverse(q)[k] : k \in 1 .. Len(q)}
<1>0. Len(q) \in Nat /\ q \in [1 .. Len(q) -> S]
    BY LenProperties
<1>1. Reverse(q) = [i \in 1 .. Len(q) |-> q[(Len(q) - i) + 1]]
    BY DEF Reverse
<1>2. \A k \in 1 .. Len(q) : (Len(q) - k) + 1 \in 1 .. Len(q) /\ (Len(q) - ((Len(q) - k) + 1)) + 1 = k
    BY <1>0
<1>3. \A k \in 1 .. Len(q) : Reverse(q)[k] = q[(Len(q) - k) + 1] /\ Reverse(q)[k] \in S
    BY <1>0, <1>1, <1>2
<1>4. Reverse(q) \in [1 .. Len(q) -> S]
    BY <1>0, <1>1, <1>2
<1>5. Reverse(q) \in Seq(S) /\ Len(Reverse(q)) = Len(q)
    BY <1>0, <1>4
<1>6. Range(q) = {q[k] : k \in 1 .. Len(q)}
    BY <1>0 DEF Range
<1>7. {q[k] : k \in 1 .. Len(q)} = {Reverse(q)[k] : k \in 1 .. Len(q)}
  <2>1. ASSUME NEW k \in 1 .. Len(q) PROVE q[k] = Reverse(q)[(Len(q) - k) + 1] /\ (Len(q) - k) + 1 \in 1 .. Len(q)
      BY <1>2, <1>3
  <2>. QED
      BY <1>2, <1>3, <2>1
<1>. QED
    BY <1>0, <1>3, <1>5, <1>6, <1>7

(* What is written to the file and read from it.                           *)
LEMMA QueueRestores ==
    ASSUME NEW q \in Seq(Str)
    PROVE  /\ Text(q) \in Str /\ Lines(Text(q)) \in Seq(Str)
           /\ Lines(Text(q)) = Reverse(q) <=> \A str \in Range(q) : Plain(str)
<1>. DEFINE R == Reverse(q)
<1>1. R \in Seq(Str) /\ Len(R) = Len(q) /\ Range(q) = {R[k] : k \in 1 .. Len(q)}
    BY ReverseFacts, Zenon
<1>2. Text(q) = FlattenSeq(Written(R))
    BY <1>1, Zenon DEF Text, Written
<1>. HIDE DEF R
<1>3. /\ FlattenSeq(Written(R)) \in Str /\ Lines(FlattenSeq(Written(R))) \in Seq(Str)
      /\ Lines(FlattenSeq(Written(R))) = R <=> \A k \in 1 .. Len(R) : Plain(R[k])
    BY <1>1, Restores, Zenon
<1>4. (\A str \in Range(q) : Plain(str)) <=> \A k \in 1 .. Len(R) : Plain(R[k])
    BY <1>1, Zenon
<1>5. Lines(Text(q)) = R <=> \A str \in Range(q) : Plain(str)
    BY <1>2, <1>3, <1>4, Zenon
<1>. QED
    BY <1>2, <1>3, <1>5, Zenon DEF R

(* The inductive invariant: the queues are queues of strings, and the file *)
(* has the text of the one that was last written to it.                    *)
FileInv ==
    /\ queue \in Seq(Str)
    /\ written \in Seq(Str)
    /\ file = Text(written)

(* It holds before anything is written.                                    *)
LEMMA FileInit == CheckpointInit => FileInv
<1>. SUFFICES ASSUME CheckpointInit PROVE FileInv
    OBVIOUS
<1>1. queue = << >> /\ written = << >> /\ file = << >> /\ << >> \in Seq(Str)
    BY EmptySeq DEF CheckpointInit
<1>. DEFINE s == [i \in 1 .. Len(<< >>) |-> Append(Reverse(<< >>)[i], Newline)]
<1>2. s = << >>
    OBVIOUS
<1>3. Text(<< >>) = FlattenSeq(s)
    BY DEF Text
<1>. HIDE DEF s
<1>4. FlattenSeq(s) = s
  <2>1. Len(s) = 0
      BY <1>2
  <2>. QED
      BY <2>1, Zenon DEF FlattenSeq
<1>. QED
    BY <1>1, <1>2, <1>3, <1>4, Zenon DEF FileInv

(* Every operation keeps it.                                               *)
LEMMA FileStep == FileInv /\ [CheckpointNext]_checkpointVars => FileInv'
<1>. SUFFICES ASSUME FileInv, [CheckpointNext]_checkpointVars PROVE FileInv'
    OBVIOUS
<1>0. queue \in Seq(Str) /\ written \in Seq(Str) /\ file = Text(written) /\ Strings \subseteq Str
    BY CharAssumption DEF FileInv, Str
<1>1. ASSUME queue' \in Seq(Str), UNCHANGED <<file, written>> PROVE FileInv'
    BY <1>0, <1>1 DEF FileInv
<1>2. ASSUME NEW i \in Strings, Enqueue(i) PROVE FileInv'
  <2>1. i \in Str /\ queue' = Append(queue, i) /\ UNCHANGED <<file, written>>
      BY <1>0, <1>2 DEF Enqueue
  <2>2. Append(queue, i) \in Seq(Str)
      BY <1>0, <2>1, AppendProperties
  <2>. QED
      BY <1>1, <2>1, <2>2
<1>3. CASE Dequeue
  <2>1. queue' = SubSeq(queue, 1, Len(queue) - 1) /\ UNCHANGED <<file, written>>
      BY <1>3 DEF Dequeue, Front
  <2>2. Len(queue) \in Nat /\ \A k \in 1 .. Len(queue) : queue[k] \in Str
      BY <1>0, LenProperties, ElementOfSeq
  <2>3. 1 \in Int /\ Len(queue) - 1 \in Int /\ \A k \in 1 .. Len(queue) - 1 : queue[k] \in Str
      BY <2>2
  <2>4. SubSeq(queue, 1, Len(queue) - 1) \in Seq(Str)
      BY <2>3, SubSeqProperties, Zenon
  <2>. QED
      BY <1>1, <2>1, <2>4
<1>4. CASE CIRCLE_checkpoint
  <2>1. queue' = << >> /\ << >> \in Seq(Str) /\ written' = queue /\ file' = Text(queue)
      BY <1>4, EmptySeq DEF CIRCLE_checkpoint
  <2>2. file' = Text(written')
      BY <2>1, Zenon
  <2>. QED
      BY <1>0, <2>1, <2>2 DEF FileInv
<1>5. CASE CIRCLE_read_restarts
  <2>1. queue' = queue \o Lines(file) /\ UNCHANGED <<file, written>>
      BY <1>5 DEF CIRCLE_read_restarts
  <2>2. Lines(file) \in Seq(Str)
      BY <1>0, QueueRestores
  <2>3. queue \o Lines(file) \in Seq(Str)
      BY <1>0, <2>2, ConcatProperties
  <2>. QED
      BY <1>1, <2>1, <2>3
<1>6. CASE Exit
  <2>1. queue' = << >> /\ << >> \in Seq(Str) /\ UNCHANGED <<file, written>>
      BY <1>6, EmptySeq DEF Exit
  <2>. QED
      BY <1>1, <2>1
<1>7. CASE UNCHANGED checkpointVars
  <2>1. queue' = queue /\ UNCHANGED <<file, written>>
      BY <1>7 DEF checkpointVars
  <2>. QED
      BY <1>0, <1>1, <2>1
<1>. QED
    BY <1>2, <1>3, <1>4, <1>5, <1>6, <1>7 DEF CheckpointNext

(* The file of CIRCLE_checkpoint gives back to CIRCLE_read_restarts what   *)
(* was written to it exactly when all the items are plain, for every       *)
(* alphabet, every CIRCLE_MAX_STRING_LEN and queues of any length.         *)
THEOREM FileRestoresHolds == CheckpointSpec => []FileRestores
<1>1. FileInv => FileRestores
  <2>. SUFFICES ASSUME FileInv PROVE FileRestores
      OBVIOUS
  <2>1. written \in Seq(Str) /\ file = Text(written)
      BY DEF FileInv
  <2>2. Lines(Text(written)) = Reverse(written) <=> \A str \in Range(written) : Plain(str)
      BY <2>1, QueueRestores
  <2>. QED
      BY <2>1, <2>2, Zenon DEF FileRestores
<1>. QED
    BY <1>1, FileInit, FileStep, PTL DEF CheckpointSpec
=============================================================================
