------------------------- MODULE CircleWorkerProofs -------------------------
(***************************************************************************)
(* Proofs about CircleWorker, whichever way termination is detected.       *)
(* First the tree of CIRCLE_tree_init, for every number of ranks and every *)
(* width, and the distribution of work: types, one conversation per rank,  *)
(* acknowledged transfers, conservation.  Then the end of CIRCLE_worker:   *)
(* the cleanup barrier, the flood of abort requests and the final          *)
(* reduction of the abort flag.                                            *)
(***************************************************************************)
EXTENDS CircleWorker, Totals, FiniteSetTheorems, WellFoundedInduction, TLAPS

(* Every rank but the root has a parent of smaller rank.                   *)
LEMMA ParentBelow ==
    ASSUME NEW r \in Rank, r # 0
    PROVE  parent_rank(r) \in Rank /\ parent_rank(r) < r
<1>1. r - 1 \in Nat /\ r \in Nat
    BY NAssumption DEF Rank
<1>2. (r - 1) \div K \in Int /\ 0 <= (r - 1) \div K /\ (r - 1) \div K <= r - 1
    BY <1>1, KAssumption
<1>. QED
    BY <1>1, <1>2, NAssumption DEF parent_rank, Rank

(* A rank lists exactly the ranks whose parent it is as its children.      *)
THEOREM ParentChild ==
    ASSUME NEW p \in Rank, NEW c \in Rank
    PROVE  c \in child_ranks(p) <=> c # 0 /\ parent_rank(c) = p
<1>1. p \in Nat /\ c \in Nat /\ c < N /\ N \in Nat
    BY NAssumption DEF Rank
<1>2. p * K \in Nat
    BY <1>1, KAssumption
<1>3. c \in child_ranks(p) <=> p * K + 1 <= c /\ c <= p * K + K
    BY <1>1, <1>2, KAssumption DEF child_ranks, left, right
<1>4. ASSUME c # 0
      PROVE  (c - 1) \div K = p <=> p * K <= c - 1 /\ c - 1 < p * K + K
  <2>1. c - 1 \in Nat
      BY <1>1, <1>4
  <2>. DEFINE q == (c - 1) \div K
  <2>2. q \in Int /\ K * q <= c - 1 /\ c - 1 < K * q + K
      BY <2>1, KAssumption
  <2>. HIDE DEF q
  <2>. QED
      BY <2>1, <2>2, <1>1, KAssumption
<1>. QED
    BY <1>1, <1>2, <1>3, <1>4, KAssumption DEF parent_rank, None

(* The ranks form a finite set of naturals that has rank 0 in it.          *)
LEMMA RankFacts ==
    /\ Rank \subseteq Nat
    /\ 0 \in Rank
    /\ None \notin Rank
    /\ IsFiniteSet(Rank)
    /\ \A S \in SUBSET Rank : IsFiniteSet(S) /\ Cardinality(S) \in Nat
<1>1. Rank \subseteq Nat /\ 0 \in Rank /\ None \notin Rank
    BY NAssumption DEF Rank, None
<1>2. IsFiniteSet(Rank)
    BY FS_Interval, NAssumption DEF Rank
<1>3. ASSUME NEW S \in SUBSET Rank
      PROVE  IsFiniteSet(S) /\ Cardinality(S) \in Nat
    BY <1>2, FS_Subset, FS_CardinalityType
<1>. QED
    BY <1>1, <1>2, <1>3

(* children counts the ranks that child_ranks lists.                       *)
LEMMA ChildrenCount ==
    ASSUME NEW p \in Rank
    PROVE  /\ child_ranks(p) \in SUBSET Rank
           /\ children(p) = Cardinality(child_ranks(p))
           /\ children(p) \in Nat
<1>1. p \in Nat /\ N \in Nat /\ p * K \in Nat /\ p < N
    BY NAssumption, KAssumption DEF Rank
<1>2. left(p) \in Nat /\ right(p) \in Nat /\ 0 < left(p) /\ right(p) < N
    BY <1>1, NAssumption, KAssumption DEF left, right
<1>3. left(p) < N => left(p) <= right(p)
    BY <1>1, KAssumption DEF left, right
<1>4. Cardinality(child_ranks(p)) =
         IF left(p) > right(p) THEN 0 ELSE right(p) - left(p) + 1
  <2>1. left(p) \in Int /\ right(p) \in Int
      BY <1>2
  <2>. QED
      BY <2>1, FS_Interval, Zenon DEF child_ranks
<1>5. child_ranks(p) \in SUBSET Rank
    BY <1>1, <1>2 DEF child_ranks, Rank
<1>. QED
    BY <1>1, <1>2, <1>3, <1>4, <1>5 DEF children

(* Every nonempty set of ranks has a least one.                            *)
LEMMA LeastRank ==
    ASSUME NEW T \in SUBSET Nat, T # {}
    PROVE  \E x \in T : \A y \in T : ~(y < x)
<1>1. \E x \in T : \A y \in T : ~(<<y, x>> \in OpToRel(<, Nat))
    BY WFMin, NatLessThanWellFounded, Zenon
<1>. QED
    BY <1>1, Zenon DEF OpToRel

(* The tree, as the proofs below use it.                                   *)
LEMMA TreeFacts ==
    /\ \A r \in Rank : r # 0 => parent_rank(r) \in Rank /\ parent_rank(r) # r
                                   /\ r \in child_ranks(parent_rank(r))
    /\ \A p \in Rank : child_ranks(p) \in SUBSET Rank
    /\ \A p \in Rank : \A c \in child_ranks(p) : c # 0 /\ parent_rank(c) = p /\ c # p
    /\ \A p \in Rank : \A c \in child_ranks(p) : p # 0 => parent_rank(p) # c
<1>1. \A p \in Rank : child_ranks(p) \in SUBSET Rank
    BY ChildrenCount
<1>2. \A p \in Rank : \A c \in child_ranks(p) : c # 0 /\ parent_rank(c) = p
    BY <1>1, ParentChild
<1>3. \A r \in Rank : r # 0 => parent_rank(r) \in Rank /\ parent_rank(r) < r
    BY ParentBelow
<1>4. \A r \in Rank : r # 0 => r \in child_ranks(parent_rank(r))
    BY <1>3, ParentChild
<1>5. ASSUME NEW p \in Rank, NEW c \in child_ranks(p)
      PROVE  c \in Nat /\ p \in Nat /\ p < c
  <2>1. c \in Rank /\ c # 0 /\ parent_rank(c) = p
      BY <1>1, <1>2
  <2>2. parent_rank(c) < c
      BY <1>3, <2>1
  <2>. QED
      BY <2>1, <2>2, RankFacts
<1>6. \A p \in Rank : p # 0 => parent_rank(p) \in Nat /\ p \in Nat /\ parent_rank(p) < p
    BY <1>3, RankFacts
<1>. QED
    BY <1>1, <1>2, <1>3, <1>4, <1>5, <1>6

-----------------------------------------------------------------------------
(* Sums.                                                                   *)

(* A pair of Units(f) is an element and a number up to its count.          *)
LEMMA UnitFacts ==
    ASSUME NEW S, NEW f, DOMAIN f = S
    PROVE  /\ \A u \in Units(f) : \E q \in S : \E i \in 1 .. f[q] : u = <<q, i>>
           /\ \A q \in S : \A i \in 1 .. f[q] : <<q, i>> \in Units(f)
<1>1. ASSUME NEW u \in Units(f)
      PROVE  \E q \in S : \E i \in 1 .. f[q] : u = <<q, i>>
  <2>1. PICK q \in S : u \in {q} \X (1 .. f[q])
      BY DEF Units
  <2>. QED
      BY <2>1
<1>2. ASSUME NEW q \in S, NEW i \in 1 .. f[q]
      PROVE  <<q, i>> \in Units(f)
  <2>1. <<q, i>> \in {q} \X (1 .. f[q])
      OBVIOUS
  <2>. QED
      BY <2>1 DEF Units
<1>. QED
    BY <1>1, <1>2

(* There are finitely many.                                                *)
LEMMA UnitsFinite ==
    ASSUME NEW S, IsFiniteSet(S), NEW f \in [S -> Nat]
    PROVE  IsFiniteSet(Units(f)) /\ Total(f) \in Nat
<1>. DEFINE part == [q \in S |-> {q} \X (1 .. f[q])]
            parts == {{q} \X (1 .. f[q]) : q \in S}
<1>1. \A q \in S : part[q] \in parts
    OBVIOUS
<1>2. \A p \in parts : \E q \in S : part[q] = p
    OBVIOUS
<1>3. \A p \in parts : IsFiniteSet(p)
  <2>. SUFFICES ASSUME NEW q \in S PROVE IsFiniteSet({q} \X (1 .. f[q]))
      OBVIOUS
  <2>1. f[q] \in Int
      OBVIOUS
  <2>2. IsFiniteSet({q})
      BY FS_Singleton
  <2>3. IsFiniteSet(1 .. f[q])
      BY <2>1, FS_Interval
  <2>. QED
      BY <2>2, <2>3, FS_Product
<1>4. Units(f) = UNION parts
    BY DEF Units
<1>5. part \in [S -> parts]
    BY <1>1
<1>. HIDE DEF part, parts
<1>6. part \in Surjection(S, parts)
    BY <1>2, <1>5 DEF Surjection
<1>7. IsFiniteSet(parts)
    BY <1>6, FS_Surjection
<1>. QED
    BY <1>3, <1>4, <1>7, FS_UNION, FS_CardinalityType DEF Total

(* Smaller counts have a smaller sum.                                      *)
LEMMA TotalMonotone ==
    ASSUME NEW S, IsFiniteSet(S), NEW f \in [S -> Nat], NEW g \in [S -> Nat], \A q \in S : g[q] <= f[q]
    PROVE  Total(g) <= Total(f)
<1>1. ASSUME NEW u \in Units(g) PROVE u \in Units(f)
  <2>1. PICK q \in S : \E i \in 1 .. g[q] : u = <<q, i>>
      BY UnitFacts
  <2>2. PICK i \in 1 .. g[q] : u = <<q, i>>
      BY <2>1
  <2>3. g[q] \in Nat /\ f[q] \in Nat /\ g[q] <= f[q]
      OBVIOUS
  <2>4. i \in 1 .. f[q]
      BY <2>3
  <2>. QED
      BY <2>2, <2>4, UnitFacts
<1>2. Units(g) \in SUBSET Units(f)
    BY <1>1
<1>. QED
    BY <1>2, UnitsFinite, FS_Subset DEF Total

(* One more on one count is one more on the sum.                           *)
LEMMA TotalPlusOne ==
    ASSUME NEW S, IsFiniteSet(S), NEW f \in [S -> Nat], NEW r \in S, NEW g \in [S -> Nat],
           g[r] = f[r] + 1, \A q \in S : q # r => g[q] = f[q]
    PROVE  Total(g) = Total(f) + 1
<1>0. f[r] \in Nat
    OBVIOUS
<1>. DEFINE x == <<r, f[r] + 1>>
<1>1. x \notin Units(f)
  <2>. SUFFICES ASSUME x \in Units(f) PROVE FALSE
      OBVIOUS
  <2>1. PICK q \in S : \E i \in 1 .. f[q] : x = <<q, i>>
      BY UnitFacts
  <2>2. PICK i \in 1 .. f[q] : x = <<q, i>>
      BY <2>1
  <2>3. q = r /\ i = f[r] + 1
      BY <2>2
  <2>. QED
      BY <1>0, <2>2, <2>3
<1>2. ASSUME NEW u \in Units(g) PROVE u \in Units(f) \cup {x}
  <2>1. PICK q \in S : \E i \in 1 .. g[q] : u = <<q, i>>
      BY UnitFacts
  <2>2. PICK i \in 1 .. g[q] : u = <<q, i>>
      BY <2>1
  <2>3. CASE q = r /\ i = f[r] + 1
      BY <2>2, <2>3
  <2>4. CASE ~(q = r /\ i = f[r] + 1)
    <3>1. i \in 1 .. f[q]
        BY <1>0, <2>4
    <3>. QED
        BY <2>2, <3>1, UnitFacts
  <2>. QED
      BY <2>3, <2>4
<1>3. ASSUME NEW u \in Units(f) PROVE u \in Units(g)
  <2>1. PICK q \in S : \E i \in 1 .. f[q] : u = <<q, i>>
      BY UnitFacts
  <2>2. PICK i \in 1 .. f[q] : u = <<q, i>>
      BY <2>1
  <2>3. i \in 1 .. g[q]
      BY <1>0
  <2>. QED
      BY <2>2, <2>3, UnitFacts
<1>4. x \in Units(g)
  <2>1. f[r] + 1 \in 1 .. g[r]
      BY <1>0
  <2>. QED
      BY <2>1, UnitFacts
<1>. HIDE DEF x
<1>5. Units(g) = Units(f) \cup {x}
    BY <1>2, <1>3, <1>4
<1>6. Cardinality(Units(f) \cup {x}) = Cardinality(Units(f)) + 1
    BY <1>1, UnitsFinite, FS_AddElement
<1>. QED
    BY <1>5, <1>6 DEF Total

(* A sum of 0 has no count but 0.                                          *)
LEMMA TotalZero ==
    ASSUME NEW S, IsFiniteSet(S), NEW f \in [S -> Nat], Total(f) = 0
    PROVE  \A q \in S : f[q] = 0
<1>1. Units(f) = {}
    BY UnitsFinite, FS_EmptySet DEF Total
<1>. SUFFICES ASSUME NEW q \in S, f[q] # 0 PROVE FALSE
    OBVIOUS
<1>2. 1 \in 1 .. f[q]
    OBVIOUS
<1>. QED
    BY <1>1, <1>2, UnitFacts

(* And counts of 0 add up to 0.                                            *)
LEMMA ZeroTotal ==
    ASSUME NEW S, IsFiniteSet(S), NEW f \in [S -> Nat], \A q \in S : f[q] = 0
    PROVE  Total(f) = 0
<1>1. ASSUME NEW u \in Units(f) PROVE FALSE
  <2>1. PICK q \in S : \E i \in 1 .. f[q] : u = <<q, i>>
      BY UnitFacts
  <2>. QED
      BY <2>1
<1>2. Units(f) = {}
    BY <1>1
<1>. QED
    BY <1>2, FS_EmptySet DEF Total

(* A count more adds to the sum.                                           *)
LEMMA TotalMore ==
    ASSUME NEW S, IsFiniteSet(S), NEW w, \A q \in S : w[q] \in Nat, NEW r, r \notin S, w[r] \in Nat
    PROVE  Total([q \in S \cup {r} |-> w[q]]) = Total([q \in S |-> w[q]]) + w[r]
<1>. DEFINE T == S \cup {r}
            f == [q \in S |-> w[q]]
            g == [q \in T |-> w[q]]
            P == {r} \X (1 .. w[r])
<1>1. f \in [S -> Nat] /\ g \in [T -> Nat] /\ IsFiniteSet(T)
    BY FS_AddElement
<1>2. /\ DOMAIN f = S /\ DOMAIN g = T
      /\ \A q \in S : f[q] = w[q]
      /\ \A q \in T : g[q] = w[q]
    OBVIOUS
<1>3. IsFiniteSet({r}) /\ Cardinality({r}) = 1
    BY FS_Singleton
<1>4. IsFiniteSet(1 .. w[r]) /\ Cardinality(1 .. w[r]) = w[r]
    BY FS_Interval
<1>5. IsFiniteSet(P) /\ Cardinality(P) = w[r]
  <2>1. IsFiniteSet(P) /\ Cardinality(P) = Cardinality({r}) * Cardinality(1 .. w[r])
      BY <1>3, <1>4, FS_Product
  <2>. QED
      BY <1>3, <1>4, <2>1
<1>6. IsFiniteSet(Units(f)) /\ Cardinality(Units(f)) \in Nat
    BY <1>1, UnitsFinite DEF Total
<1>. HIDE DEF f, g, T
<1>7. Units(g) = Units(f) \cup P
  <2>1. ASSUME NEW u \in Units(g) PROVE u \in Units(f) \cup P
    <3>1. PICK q \in T : \E i \in 1 .. g[q] : u = <<q, i>>
        BY <1>2, UnitFacts
    <3>2. PICK i \in 1 .. g[q] : u = <<q, i>>
        BY <3>1
    <3>3. CASE q = r
        BY <1>2, <3>2, <3>3
    <3>4. CASE q \in S
      <4>1. i \in 1 .. f[q]
          BY <1>2, <3>2, <3>4
      <4>. QED
          BY <1>2, <3>2, <3>4, <4>1, UnitFacts
    <3>. QED
        BY <3>3, <3>4 DEF T
  <2>2. ASSUME NEW u \in Units(f) PROVE u \in Units(g)
    <3>1. PICK q \in S : \E i \in 1 .. f[q] : u = <<q, i>>
        BY <1>2, UnitFacts
    <3>2. PICK i \in 1 .. f[q] : u = <<q, i>>
        BY <3>1
    <3>3. q \in T /\ i \in 1 .. g[q]
        BY <1>2, <3>2 DEF T
    <3>. QED
        BY <1>2, <3>2, <3>3, UnitFacts
  <2>3. ASSUME NEW u \in P PROVE u \in Units(g)
    <3>1. PICK i \in 1 .. w[r] : u = <<r, i>>
        OBVIOUS
    <3>2. r \in T /\ i \in 1 .. g[r]
        BY <1>2, <3>1 DEF T
    <3>. QED
        BY <1>2, <3>1, <3>2, UnitFacts
  <2>. QED
      BY <2>1, <2>2, <2>3
<1>8. Units(f) \cap P = {}
  <2>. SUFFICES ASSUME NEW u \in Units(f), u \in P PROVE FALSE
      OBVIOUS
  <2>1. PICK q \in S : \E i \in 1 .. f[q] : u = <<q, i>>
      BY <1>2, UnitFacts
  <2>. QED
      BY <2>1
<1>. HIDE DEF P
<1>9. Cardinality(Units(f) \cup P) = Cardinality(Units(f)) + Cardinality(P) - Cardinality({})
    BY <1>5, <1>6, <1>8, FS_Union
<1>10. Total(g) = Total(f) + w[r]
    BY <1>5, <1>6, <1>7, <1>9, FS_EmptySet DEF Total
<1>. QED
    BY <1>10 DEF f, g, T

(* The sum over two sets without a common element.                         *)
LEMMA TotalUnion ==
    ASSUME NEW S, NEW T, IsFiniteSet(S), IsFiniteSet(T), S \cap T = {},
           NEW w, \A q \in S \cup T : w[q] \in Nat
    PROVE  /\ Total([q \in S \cup T |-> w[q]]) = Total([q \in S |-> w[q]]) + Total([q \in T |-> w[q]])
           /\ Total([q \in S |-> w[q]]) \in Nat /\ Total([q \in T |-> w[q]]) \in Nat
<1>1. PICK f, g, u : f = [q \in S |-> w[q]] /\ g = [q \in T |-> w[q]] /\ u = [q \in S \cup T |-> w[q]]
    OBVIOUS
<1>2. f \in [S -> Nat] /\ g \in [T -> Nat] /\ DOMAIN f = S /\ DOMAIN g = T /\ DOMAIN u = S \cup T
    BY <1>1
<1>3. (\A q \in S : u[q] = f[q]) /\ (\A q \in T : u[q] = g[q])
    BY <1>1
<1>4. /\ IsFiniteSet(Units(f)) /\ IsFiniteSet(Units(g))
      /\ Cardinality(Units(f)) \in Nat /\ Cardinality(Units(g)) \in Nat
    BY <1>2, UnitsFinite DEF Total
<1>5. ASSUME NEW x \in Units(u) PROVE x \in Units(f) \cup Units(g)
  <2>1. PICK q \in S \cup T : \E i \in 1 .. u[q] : x = <<q, i>>
      BY <1>2, UnitFacts
  <2>2. PICK i \in 1 .. u[q] : x = <<q, i>>
      BY <2>1
  <2>3. CASE q \in S
      BY <1>2, <1>3, <2>2, <2>3, UnitFacts
  <2>4. CASE q \in T
      BY <1>2, <1>3, <2>2, <2>4, UnitFacts
  <2>. QED
      BY <2>3, <2>4
<1>6. ASSUME NEW x \in Units(f) PROVE x \in Units(u) /\ x \notin Units(g)
  <2>1. PICK q \in S : \E i \in 1 .. f[q] : x = <<q, i>>
      BY <1>2, UnitFacts
  <2>2. PICK i \in 1 .. f[q] : x = <<q, i>>
      BY <2>1
  <2>3. x \in Units(u)
      BY <1>2, <1>3, <2>2, UnitFacts
  <2>4. ASSUME x \in Units(g) PROVE FALSE
    <3>1. PICK t \in T : \E j \in 1 .. g[t] : x = <<t, j>>
        BY <1>2, <2>4, UnitFacts
    <3>. QED
        BY <2>2, <3>1
  <2>. QED
      BY <2>3, <2>4
<1>7. ASSUME NEW x \in Units(g) PROVE x \in Units(u)
  <2>1. PICK q \in T : \E i \in 1 .. g[q] : x = <<q, i>>
      BY <1>2, UnitFacts
  <2>2. PICK i \in 1 .. g[q] : x = <<q, i>>
      BY <2>1
  <2>. QED
      BY <1>2, <1>3, <2>2, UnitFacts
<1>8. Units(u) = Units(f) \cup Units(g) /\ Units(f) \cap Units(g) = {}
    BY <1>5, <1>6, <1>7
<1>9. Cardinality(Units(f) \cup Units(g))
        = Cardinality(Units(f)) + Cardinality(Units(g)) - Cardinality({})
    BY <1>4, <1>8, FS_Union
<1>10. Total(u) = Total(f) + Total(g) /\ Total(f) \in Nat /\ Total(g) \in Nat
    BY <1>4, <1>8, <1>9, FS_EmptySet DEF Total
<1>. QED
    BY <1>1, <1>10

(* Of counts that are 0 but for at most one, which is 1.                   *)
LEMMA TotalOfOne ==
    ASSUME NEW S, NEW f \in [S -> {0, 1}], \A x, y \in S : f[x] = 1 /\ f[y] = 1 => x = y
    PROVE  Total(f) = IF \E x \in S : f[x] = 1 THEN 1 ELSE 0
<1>0. DOMAIN f = S
    OBVIOUS
<1>1. ASSUME NEW u \in Units(f) PROVE \E x \in S : f[x] = 1 /\ u = <<x, 1>>
  <2>1. PICK q \in S : \E i \in 1 .. f[q] : u = <<q, i>>
      BY <1>0, UnitFacts
  <2>2. PICK i \in 1 .. f[q] : u = <<q, i>>
      BY <2>1
  <2>3. f[q] = 1 /\ i = 1
      BY <2>2
  <2>. QED
      BY <2>2, <2>3
<1>2. CASE \E x \in S : f[x] = 1
  <2>1. PICK x \in S : f[x] = 1
      BY <1>2
  <2>2. <<x, 1>> \in Units(f)
    <3>1. 1 \in 1 .. f[x]
        BY <2>1
    <3>. QED
        BY <1>0, <3>1, UnitFacts
  <2>3. Units(f) = {<<x, 1>>}
      BY <1>1, <2>1, <2>2
  <2>4. Cardinality({<<x, 1>>}) = 1
      BY FS_Singleton
  <2>. QED
      BY <1>2, <2>3, <2>4 DEF Total
<1>3. CASE ~\E x \in S : f[x] = 1
  <2>1. Units(f) = {}
      BY <1>1, <1>3
  <2>. QED
      BY <1>3, <2>1, FS_EmptySet DEF Total
<1>. QED
    BY <1>2, <1>3

(* The parts D[m] of S have no element in common; w counts the elements of *)
(* S, and c the parts.                                                     *)
Apart(G, S, w, D, c) ==
    /\ IsFiniteSet(G) /\ IsFiniteSet(S)
    /\ w \in [S -> Nat] /\ D \in [G -> SUBSET S] /\ c \in [G -> Nat]
    /\ \A m, n \in G : m # n => D[m] \cap D[n] = {}
    /\ \A m \in G : c[m] = Total([q \in D[m] |-> w[q]])

(* The sums of the parts of a set add up to the sum over the set.          *)
LEMMA TotalOfParts ==
    ASSUME NEW G, NEW S, NEW w, NEW D, NEW c, Apart(G, S, w, D, c)
    PROVE  Total(c) = Total([q \in UNION {D[m] : m \in G} |-> w[q]])
<1>. DEFINE U == UNION {D[m] : m \in G}
            all == [q \in U |-> w[q]]
            part(m) == [q \in D[m] |-> w[q]]
            b == [m \in G |-> CHOOSE h : h \in Bijection(1 .. c[m], Units(part(m)))]
            F == [u \in Units(c) |-> b[u[1]][u[2]]]
<1>0. /\ IsFiniteSet(G) /\ IsFiniteSet(S)
      /\ w \in [S -> Nat] /\ D \in [G -> SUBSET S] /\ c \in [G -> Nat]
      /\ \A m, n \in G : m # n => D[m] \cap D[n] = {}
      /\ \A m \in G : c[m] = Total([q \in D[m] |-> w[q]])
    BY DEF Apart
<1>. USE <1>0
<1>1. U \in SUBSET S /\ all \in [U -> Nat] /\ \A q \in U : all[q] = w[q]
    OBVIOUS
<1>2. IsFiniteSet(Units(c))
    BY UnitsFinite
<1>3. ASSUME NEW m \in G
      PROVE  /\ DOMAIN part(m) = D[m] /\ \A q \in D[m] : part(m)[q] = w[q]
             /\ b[m] \in Bijection(1 .. c[m], Units(part(m)))
  <2>1. part(m) \in [D[m] -> Nat] /\ D[m] \in SUBSET S /\ \A q \in D[m] : part(m)[q] = w[q]
      OBVIOUS
  <2>2. IsFiniteSet(D[m])
      BY <2>1, FS_Subset
  <2>3. IsFiniteSet(Units(part(m))) /\ c[m] = Cardinality(Units(part(m)))
    <3>. HIDE DEF part
    <3>1. IsFiniteSet(Units(part(m)))
        BY <2>1, <2>2, UnitsFinite
    <3>. QED
        BY <3>1 DEF Total, part
  <2>. HIDE DEF part
  <2>4. ExistsBijection(1 .. c[m], Units(part(m)))
      BY <2>3, FS_CardinalityType
  <2>. QED
      BY <2>1, <2>4 DEF ExistsBijection
<1>4. ASSUME NEW u \in Units(c)
      PROVE  \E m \in G : \E k \in 1 .. c[m] :
                u = <<m, k>> /\ F[u] = b[m][k] /\ F[u] \in Units(part(m))
  <2>1. PICK m \in G : \E k \in 1 .. c[m] : u = <<m, k>>
      BY UnitFacts
  <2>2. PICK k \in 1 .. c[m] : u = <<m, k>>
      BY <2>1
  <2>3. F[u] = b[m][k]
    <3>. HIDE DEF b
    <3>. QED
        BY <2>2
  <2>4. b[m] \in [1 .. c[m] -> Units(part(m))]
    <3>. HIDE DEF b, part
    <3>. QED
        BY <1>3 DEF Bijection, Injection
  <2>. HIDE DEF F, b, part
  <2>. QED
      BY <2>2, <2>3, <2>4
<1>5. ASSUME NEW m \in G, NEW u \in Units(part(m))
      PROVE  u \in Units(all) /\ u[1] \in D[m]
  <2>1. PICK q \in D[m] : \E i \in 1 .. part(m)[q] : u = <<q, i>>
    <3>1. DOMAIN part(m) = D[m]
        BY <1>3
    <3>. HIDE DEF part
    <3>. QED
        BY <3>1, UnitFacts
  <2>2. PICK i \in 1 .. part(m)[q] : u = <<q, i>>
      BY <2>1
  <2>3. q \in U /\ i \in 1 .. all[q]
      BY <1>1, <1>3, <2>2
  <2>4. u \in Units(all)
    <3>. HIDE DEF U
    <3>1. DOMAIN all = U
        OBVIOUS
    <3>. HIDE DEF all
    <3>. QED
        BY <2>2, <2>3, <3>1, UnitFacts
  <2>. QED
      BY <2>2, <2>4
<1>6. ASSUME NEW u \in Units(all)
      PROVE  \E v \in Units(c) : F[v] = u
  <2>1. PICK q \in U : \E i \in 1 .. all[q] : u = <<q, i>>
    <3>. HIDE DEF U
    <3>1. DOMAIN all = U
        OBVIOUS
    <3>. HIDE DEF all
    <3>. QED
        BY <3>1, UnitFacts
  <2>2. PICK i \in 1 .. all[q] : u = <<q, i>>
      BY <2>1
  <2>3. PICK m \in G : q \in D[m]
      BY <2>1
  <2>4. u \in Units(part(m))
    <3>1. i \in 1 .. part(m)[q]
        BY <1>1, <1>3, <2>1, <2>2, <2>3
    <3>. HIDE DEF part
    <3>. QED
        BY <1>3, <2>2, <2>3, <3>1, UnitFacts
  <2>5. PICK k \in 1 .. c[m] : b[m][k] = u
    <3>. HIDE DEF b, part
    <3>. QED
        BY <1>3, <2>4 DEF Bijection, Surjection
  <2>6. <<m, k>> \in Units(c)
      BY <2>3, <2>5, UnitFacts
  <2>7. F[<<m, k>>] = b[m][k]
    <3>. HIDE DEF b
    <3>. QED
        BY <2>6
  <2>. HIDE DEF F, b
  <2>. QED
      BY <2>5, <2>6, <2>7
<1>7. F \in [Units(c) -> Units(all)]
  <2>1. \A u \in Units(c) : F[u] \in Units(all)
    <3>. HIDE DEF F, part, all, b
    <3>. QED
        BY <1>4, <1>5
  <2>2. F = [u \in Units(c) |-> F[u]]
      OBVIOUS
  <2>. HIDE DEF F, all
  <2>. QED
      BY <2>1, <2>2
<1>8. ASSUME NEW u \in Units(c), NEW v \in Units(c), F[u] = F[v]
      PROVE  u = v
  <2>. HIDE DEF F, b, part
  <2>a. PICK m \in G : \E k \in 1 .. c[m] :
            u = <<m, k>> /\ F[u] = b[m][k] /\ F[u] \in Units(part(m))
      BY <1>4
  <2>b. PICK n \in G : \E l \in 1 .. c[n] :
            v = <<n, l>> /\ F[v] = b[n][l] /\ F[v] \in Units(part(n))
      BY <1>4
  <2>1. PICK k \in 1 .. c[m] : u = <<m, k>> /\ F[u] = b[m][k] /\ F[u] \in Units(part(m))
      BY <2>a
  <2>2. PICK l \in 1 .. c[n] : v = <<n, l>> /\ F[v] = b[n][l] /\ F[v] \in Units(part(n))
      BY <2>b
  <2>3. m = n
    <3>1. F[u][1] \in D[m] /\ F[v][1] \in D[n]
        BY <1>5, <2>1, <2>2
    <3>. QED
        BY <1>8, <3>1
  <2>4. k = l
      BY <1>3, <1>8, <2>1, <2>2, <2>3 DEF Bijection, Injection, IsInjective
  <2>. QED
      BY <2>1, <2>2, <2>3, <2>4
<1>. HIDE DEF F, all
<1>9. F \in Bijection(Units(c), Units(all))
    BY <1>6, <1>7, <1>8 DEF Bijection, Injection, IsInjective, Surjection
<1>10. Cardinality(Units(all)) = Cardinality(Units(c))
    BY <1>2, <1>9, FS_Bijection DEF ExistsBijection
<1>. QED
    BY <1>10 DEF Total, all

(* n counts of q, and one more on the first m of them.                     *)
LEMMA TotalOfLevels ==
    ASSUME NEW n \in Nat, NEW q \in Nat, NEW m \in 0 .. n
    PROVE  Total([i \in 1 .. n |-> q + (IF i <= m THEN 1 ELSE 0)]) = n * q + m
<1>. DEFINE f == [i \in 1 .. n |-> q + (IF i <= m THEN 1 ELSE 0)]
            A == (1 .. n) \X (1 .. q)
            B == (1 .. m) \X {q + 1}
<1>1. m \in Nat /\ m <= n
    OBVIOUS
<1>2. /\ DOMAIN f = 1 .. n
      /\ \A i \in 1 .. n : f[i] = q + (IF i <= m THEN 1 ELSE 0)
    OBVIOUS
<1>3. ASSUME NEW u \in Units(f) PROVE u \in A \cup B
  <2>1. PICK i \in 1 .. n : \E k \in 1 .. f[i] : u = <<i, k>>
      BY <1>2, UnitFacts
  <2>2. PICK k \in 1 .. f[i] : u = <<i, k>>
      BY <2>1
  <2>3. f[i] = q + (IF i <= m THEN 1 ELSE 0)
      BY <1>2
  <2>4. k \in 1 .. q \/ (i \in 1 .. m /\ k = q + 1)
      BY <1>1, <2>3
  <2>. QED
      BY <2>2, <2>4
<1>4. ASSUME NEW u \in A \cup B PROVE u \in Units(f)
  <2>1. PICK i \in 1 .. n, k \in 1 .. q + 1 : u = <<i, k>> /\ (k = q + 1 => i <= m)
    <3>1. CASE u \in A
      <4>1. PICK i \in 1 .. n, k \in 1 .. q : u = <<i, k>>
          BY <3>1
      <4>2. k \in 1 .. q + 1 /\ k # q + 1
          BY <4>1
      <4>. QED
          BY <4>1, <4>2
    <3>2. CASE u \in B
      <4>1. PICK i \in 1 .. m : u = <<i, q + 1>>
          BY <3>2
      <4>2. i \in 1 .. n /\ q + 1 \in 1 .. q + 1 /\ i <= m
          BY <1>1
      <4>. QED
          BY <4>1, <4>2
    <3>. QED
        BY <3>1, <3>2
  <2>2. f[i] = q + (IF i <= m THEN 1 ELSE 0)
      BY <1>2
  <2>3. k \in 1 .. f[i]
      BY <1>1, <2>1, <2>2
  <2>. QED
      BY <1>2, <2>1, <2>3, UnitFacts
<1>5. Units(f) = A \cup B
    BY <1>3, <1>4
<1>6. A \cap B = {}
    OBVIOUS
<1>7. IsFiniteSet(A) /\ Cardinality(A) = n * q
  <2>1. /\ IsFiniteSet(1 .. n) /\ Cardinality(1 .. n) = n
        /\ IsFiniteSet(1 .. q) /\ Cardinality(1 .. q) = q
      BY FS_Interval
  <2>. QED
      BY <2>1, FS_Product
<1>8. IsFiniteSet(B) /\ Cardinality(B) = m
  <2>1. IsFiniteSet(1 .. m) /\ Cardinality(1 .. m) = m
      BY <1>1, FS_Interval
  <2>2. IsFiniteSet({q + 1}) /\ Cardinality({q + 1}) = 1
      BY FS_Singleton
  <2>3. IsFiniteSet(B) /\ Cardinality(B) = Cardinality(1 .. m) * Cardinality({q + 1})
      BY <2>1, <2>2, FS_Product
  <2>. QED
      BY <1>1, <2>1, <2>2, <2>3
<1>. HIDE DEF A, B
<1>9. Cardinality(A \cup B) = n * q + m
  <2>1. Cardinality(A \cup B) = Cardinality(A) + Cardinality(B) - Cardinality(A \cap B)
      BY <1>7, <1>8, FS_Union
  <2>2. Cardinality(A \cap B) = 0
      BY <1>6, FS_EmptySet
  <2>3. n * q \in Nat
      OBVIOUS
  <2>. QED
      BY <1>1, <1>7, <1>8, <2>1, <2>2, <2>3
<1>. QED
    BY <1>5, <1>9 DEF Total

(* spread_counts hands out the whole count.                                *)
LEMMA SpreadAll ==
    ASSUME NEW n \in Nat \ {0}, NEW c \in Nat
    PROVE  Total(spread_counts(n, c)) = c
<1>. DEFINE q == c \div n
            m == c % n
<1>1. q \in Nat /\ m \in 0 .. n - 1 /\ c = n * q + m
    OBVIOUS
<1>2. spread_counts(n, c) = [i \in 1 .. n |-> q + (IF i <= m THEN 1 ELSE 0)]
    BY DEF spread_counts
<1>. HIDE DEF q, m
<1>3. m \in 0 .. n /\ n \in Nat
    BY <1>1
<1>4. Total([i \in 1 .. n |-> q + (IF i <= m THEN 1 ELSE 0)]) = n * q + m
    BY <1>1, <1>3, TotalOfLevels
<1>. QED
    BY <1>1, <1>2, <1>4

(* Dividing a queue of c items among n requestors, at random or equally,   *)
(* leaves at least one.                                                    *)
LEMMA SplitLeavesOne ==
    ASSUME NEW n \in Nat \ {0}, NEW c \in Nat \ {0}, NEW sizes \in split_sizes(n, c)
    PROVE  Total(sizes) < c
<1>1. CASE ~SplitEqual
  <2>1. PICK k \in 1 .. c : sizes = spread_counts(n, IF k = c THEN c - 1 ELSE k)
      BY <1>1 DEF split_sizes
  <2>2. PICK d : d = IF k = c THEN c - 1 ELSE k
      OBVIOUS
  <2>3. d \in Nat /\ d < c
      BY <2>2
  <2>4. Total(spread_counts(n, d)) = d
      BY <2>3, SpreadAll
  <2>. QED
      BY <2>1, <2>2, <2>3, <2>4
<1>2. CASE SplitEqual
  <2>. DEFINE q == c \div (n + 1)
              m == c % (n + 1)
  <2>1. q \in Nat /\ m \in 0 .. n /\ c = (n + 1) * q + m
      OBVIOUS
  <2>2. \A i \in 1 .. n : spread_counts(n + 1, c)[i + 1] = q + (IF i + 1 <= m THEN 1 ELSE 0)
    <3>1. \A i \in 1 .. n : i + 1 \in 1 .. n + 1
        OBVIOUS
    <3>. QED
        BY <3>1 DEF spread_counts
  <2>3. sizes = [i \in 1 .. n |-> spread_counts(n + 1, c)[i + 1]]
      BY <1>2 DEF split_sizes
  <2>. HIDE DEF q, m
  <2>4. sizes = [i \in 1 .. n |-> q + (IF i + 1 <= m THEN 1 ELSE 0)]
      BY <2>2, <2>3
  <2>5. (n + 1) * q = n * q + q /\ n * q \in Nat
      BY <2>1
  <2>6. PICK p : p = IF m = 0 THEN 0 ELSE m - 1
      OBVIOUS
  <2>7. p \in 0 .. n /\ \A i \in 1 .. n : i + 1 <= m <=> i <= p
      BY <2>1, <2>6
  <2>8. sizes = [i \in 1 .. n |-> q + (IF i <= p THEN 1 ELSE 0)]
      BY <2>4, <2>7
  <2>9. Total([i \in 1 .. n |-> q + (IF i <= p THEN 1 ELSE 0)]) = n * q + p
      BY <2>1, <2>7, TotalOfLevels
  <2>10. n * q + p < c
    <3>1. PICK t \in Nat : t = n * q
        BY <2>5
    <3>2. c = t + q + m
        BY <2>1, <2>5, <3>1
    <3>. QED
        BY <2>1, <2>6, <3>1, <3>2
  <2>. QED
      BY <2>8, <2>9, <2>10
<1>. QED
    BY <1>1, <1>2

-----------------------------------------------------------------------------
(* The worker.                                                             *)

(* Positions in the loops are positions in the loops.                      *)
LEMMA AfterType ==
    ASSUME NEW r, NEW h \in {"workreq", "receipt", "abort", "test", "request", "tail",
                             "start", "barrier"},
           phase[r] = "loop" => h \in {"workreq", "receipt", "abort", "test", "request", "tail"},
           phase[r] # "loop" => h \in {"workreq", "abort", "test", "request", "start", "barrier"}
    PROVE  After(r, h) \in 1 .. MaxPc
BY DEF After, loop_order, cleanup_order, MaxPc

(* The initial state is well typed.                                        *)
LEMMA WorkerTypesInit == WorkerInit => WorkerTypes
<1>. SUFFICES ASSUME WorkerInit PROVE WorkerTypes
    OBVIOUS
<1>1. created \in SUBSET Item /\ queue \in [Rank -> SUBSET Item]
    BY DEF WorkerInit, WorkInit
<1>. QED
    BY <1>1 DEF WorkerInit, WorkInit, AbortInit, BarrierInit, WorkerTypes, Phase, MaxPc, Flags, Pairs

(* GoTo moves a rank to a phase and a position.                            *)
LEMMA GoToType ==
    ASSUME WorkerTypes, NEW r \in Rank, NEW ph \in Phase, NEW p \in 1 .. MaxPc, GoTo(r, ph, p)
    PROVE  /\ phase' \in [Rank -> Phase]
           /\ pc' \in [Rank -> 1 .. MaxPc]
           /\ UNCHANGED <<queue, created, processed, work_requested, work_outstanding,
                          requests, replies, receipts>>
BY DEF GoTo, WorkerTypes

(* Each action of each rank keeps the state well typed.                    *)
LEMMA WorkerTypesStep == WorkerTypes /\ [WorkerNext]_workerVars => WorkerTypes'
<1>. SUFFICES ASSUME WorkerTypes, [WorkerNext]_workerVars PROVE WorkerTypes'
    OBVIOUS
<1>. USE RankFacts
<1>1. ASSUME NEW r \in Rank, Serve(r) PROVE WorkerTypes'
  <2>1. PICK S \in SUBSET Requestors(r) :
            /\ requests' = requests \ {<<s, r>> : s \in S}
            /\ Refuse(r, S) \/ Share(r, S)
      BY <1>1 DEF Serve, CIRCLE_workreq_check
  <2>2. S \in SUBSET Rank
      BY <2>1 DEF Requestors
  <2>3. pc' \in [Rank -> 1 .. MaxPc]
      BY <1>1, AfterType DEF Serve, CIRCLE_workreq_check, WorkerTypes, InLoop, InCleanup
  <2>4. CASE Refuse(r, S)
    <3>0. ABORT_FLAG[r] \in BOOLEAN
        BY DEF WorkerTypes
    <3>1. replies' \in SUBSET [src : Rank, dst : Rank, items : SUBSET Item, abort : BOOLEAN]
      <4>1. \A s \in S :
               no_work(r, s) \in [src : Rank, dst : Rank, items : SUBSET Item, abort : BOOLEAN]
          BY <2>2, <3>0 DEF no_work
      <4>. QED
          BY <2>4, <4>1 DEF Refuse, WorkerTypes
    <3>. QED
        BY <1>1, <2>1, <2>3, <2>4, <3>1
        DEF Serve, CIRCLE_workreq_check, Refuse, WorkerTypes, abortVars, barrierVars
  <2>5. CASE Share(r, S)
    <3>1. PICK g \in [S -> SUBSET queue[r]] :
             /\ replies' = replies \cup
                   {[src |-> r, dst |-> s, items |-> g[s], abort |-> FALSE] : s \in S}
             /\ queue' = [queue EXCEPT ![r] = @ \ UNION {g[s] : s \in S}]
             /\ work_outstanding' = [work_outstanding EXCEPT
                   ![r] = @ + Cardinality({s \in S : g[s] # {}})]
        BY <2>5 DEF Share, send_work_to_many
    <3>2. Cardinality({s \in S : g[s] # {}}) \in Nat
        BY <2>2
    <3>3. replies' \in SUBSET [src : Rank, dst : Rank, items : SUBSET Item, abort : BOOLEAN]
      <4>1. \A s \in S : g[s] \in SUBSET Item
          BY <3>1 DEF WorkerTypes
      <4>2. \A s \in S : [src |-> r, dst |-> s, items |-> g[s], abort |-> FALSE]
                \in [src : Rank, dst : Rank, items : SUBSET Item, abort : BOOLEAN]
          BY <2>2, <4>1
      <4>3. replies \in SUBSET [src : Rank, dst : Rank, items : SUBSET Item, abort : BOOLEAN]
          BY DEF WorkerTypes
      <4>. QED
          BY <3>1, <4>2, <4>3, Zenon
    <3>4. queue' \in [Rank -> SUBSET Item] /\ work_outstanding' \in [Rank -> Nat]
        BY <3>1, <3>2 DEF WorkerTypes
    <3>. QED
        BY <1>1, <2>1, <2>3, <3>3, <3>4
        DEF Serve, CIRCLE_workreq_check, WorkerTypes, abortVars, barrierVars
  <2>. QED
      BY <2>1, <2>4, <2>5
<1>2. ASSUME NEW r \in Rank, CountReceipts(r) PROVE WorkerTypes'
  <2>1. pc' \in [Rank -> 1 .. MaxPc]
      BY <1>2, AfterType DEF CountReceipts, CIRCLE_workreceipt_check, WorkerTypes, InLoop
  <2>2. receipts' \in [Rank -> Nat] /\ work_outstanding' \in [Rank -> Nat]
      BY <1>2 DEF CountReceipts, CIRCLE_workreceipt_check, WorkerTypes
  <2>. QED
      BY <1>2, <2>1, <2>2
      DEF CountReceipts, CIRCLE_workreceipt_check, WorkerTypes, abortVars, barrierVars
<1>3. ASSUME NEW r \in Rank, Flood(r) PROVE WorkerTypes'
  <2>1. phase[r] \in Phase /\ After(r, "abort") \in 1 .. MaxPc
      BY <1>3, AfterType DEF Flood, CIRCLE_abort_check, WorkerTypes, InLoop, InCleanup
  <2>2. phase' \in [Rank -> Phase] /\ pc' \in [Rank -> 1 .. MaxPc]
        /\ UNCHANGED <<queue, created, processed, work_requested, work_outstanding,
                       requests, replies, receipts>>
      BY <1>3, <2>1, GoToType DEF Flood, CIRCLE_abort_check
  <2>3. abort_requests' \in SUBSET Pairs /\ abort_replies' \in SUBSET Pairs
    <3>. DEFINE to == IF abort_start(r) THEN neighbours(r) ELSE {}
    <3>1. PICK from \in SUBSET {s \in Rank : <<s, r>> \in abort_requests} :
             /\ abort_requests' = (abort_requests \ {<<s, r>> : s \in from})
                                     \cup {<<r, d>> : d \in to}
             /\ abort_replies' = abort_replies \cup {<<r, s>> : s \in from}
        BY <1>3 DEF Flood, CIRCLE_abort_check
    <3>2. to \in SUBSET Rank
        BY DEF neighbours
    <3>. HIDE DEF to
    <3>3. \A d \in to : <<r, d>> \in Pairs
        BY <3>2 DEF Pairs
    <3>4. \A s \in from : <<r, s>> \in Pairs
        BY DEF Pairs
    <3>. QED
        BY <3>1, <3>3, <3>4 DEF WorkerTypes
  <2>4. /\ abort_outstanding' \in [Rank -> BOOLEAN]
        /\ abort_state' \in [Rank -> BOOLEAN]
        /\ ABORT_FLAG' \in [Rank -> BOOLEAN]
      BY <1>3 DEF Flood, CIRCLE_abort_check, WorkerTypes, abort_start
  <2>. QED
      BY <1>3, <2>2, <2>3, <2>4
      DEF Flood, CIRCLE_abort_check, WorkerTypes, barrierVars
<1>4. ASSUME NEW r \in Rank, FloodEnds(r) PROVE WorkerTypes'
  <2>1. phase[r] \in Phase /\ After(r, "test") \in 1 .. MaxPc
      BY <1>4, AfterType DEF FloodEnds, AbortTest, WorkerTypes, InLoop, InCleanup
  <2>2. phase' \in [Rank -> Phase] /\ pc' \in [Rank -> 1 .. MaxPc]
        /\ UNCHANGED <<queue, created, processed, work_requested, work_outstanding,
                       requests, replies, receipts>>
      BY <1>4, <2>1, GoToType DEF FloodEnds, AbortTest
  <2>. QED
      BY <1>4, <2>2 DEF FloodEnds, AbortTest, WorkerTypes, barrierVars
<1>5. ASSUME NEW r \in Rank, Ask(r) PROVE WorkerTypes'
  <2>1. pc' \in [Rank -> 1 .. MaxPc]
      BY <1>5, AfterType DEF Ask, SendRequest, ReceiveReply, WorkerTypes, InLoop, InCleanup
  <2>2. CASE SendRequest(r)
      BY <1>5, <2>1, <2>2
      DEF Ask, SendRequest, WorkerTypes, abortVars, barrierVars, Pairs
  <2>3. CASE ReceiveReply(r)
    <3>1. /\ replies' \in SUBSET [src : Rank, dst : Rank, items : SUBSET Item, abort : BOOLEAN]
          /\ queue' \in [Rank -> SUBSET Item]
          /\ receipts' \in [Rank -> Nat]
          /\ ABORT_FLAG' \in [Rank -> BOOLEAN]
          /\ work_requested' \in [Rank -> Rank \cup {None}]
      <4>1. PICK m \in replies :
               /\ replies' = replies \ {m}
               /\ queue' = [queue EXCEPT ![r] = IF m.items = {} THEN @ ELSE m.items]
               /\ receipts' = [receipts EXCEPT ![m.src] = IF m.items = {} THEN @ ELSE @ + 1]
               /\ ABORT_FLAG' = [ABORT_FLAG EXCEPT ![r] = @ \/ m.abort]
          BY <2>3 DEF ReceiveReply
      <4>2. m.items \in SUBSET Item /\ m.src \in Rank /\ m.abort \in BOOLEAN
          BY DEF WorkerTypes
      <4>3. queue' \in [Rank -> SUBSET Item]
        <5>1. CASE m.items = {}
            BY <4>1, <5>1 DEF WorkerTypes
        <5>2. CASE m.items # {}
            BY <4>1, <4>2, <5>2 DEF WorkerTypes
        <5>. QED
            BY <5>1, <5>2
      <4>4. receipts' \in [Rank -> Nat]
        <5>0. receipts \in [Rank -> Nat]
            BY DEF WorkerTypes
        <5>1. \A x \in Rank : receipts[x] + 1 \in Nat
            BY <5>0
        <5>2. CASE m.items = {}
            BY <4>1, <5>0, <5>2
        <5>3. CASE m.items # {}
            BY <4>1, <4>2, <5>0, <5>1, <5>3
        <5>. QED
            BY <5>2, <5>3
      <4>5. ABORT_FLAG' \in [Rank -> BOOLEAN]
          BY <4>1, <4>2 DEF WorkerTypes
      <4>6. work_requested' \in [Rank -> Rank \cup {None}]
          BY <2>3 DEF ReceiveReply, WorkerTypes
      <4>. QED
          BY <4>1, <4>3, <4>4, <4>5, <4>6 DEF WorkerTypes
    <3>. QED
        BY <1>5, <2>1, <2>3, <3>1
        DEF Ask, ReceiveReply, WorkerTypes, abortVars, barrierVars
  <2>. QED
      BY <1>5, <2>2, <2>3 DEF Ask
<1>6. ASSUME NEW r \in Rank, Work(r) PROVE WorkerTypes'
  <2>1. pc' \in [Rank -> 1 .. MaxPc]
      BY <1>6 DEF Work, Process, WorkerTypes, MaxPc
  <2>2. /\ queue' \in [Rank -> SUBSET Item]
        /\ created' \in SUBSET Item
        /\ processed' \in SUBSET Item
        /\ ABORT_FLAG' \in [Rank -> BOOLEAN]
      BY <1>6 DEF Work, Process, WorkerTypes
  <2>. QED
      BY <1>6, <2>1, <2>2
      DEF Work, Process, WorkerTypes, abortVars, barrierVars
<1>7. ASSUME NEW r \in Rank, Turn(r) PROVE WorkerTypes'
  <2>1. phase' \in [Rank -> Phase] /\ pc' \in [Rank -> 1 .. MaxPc]
        /\ UNCHANGED <<queue, created, processed, work_requested, work_outstanding,
                       requests, replies, receipts>>
      BY <1>7, GoToType DEF Turn, Phase
  <2>. QED
      BY <1>7, <2>1 DEF Turn, WorkerTypes, abortVars, barrierVars
<1>8. ASSUME NEW r \in Rank, EnterBarrier(r) PROVE WorkerTypes'
  <2>1. After(r, "start") \in 1 .. MaxPc
      BY <1>8, AfterType DEF EnterBarrier, CIRCLE_barrier_start, InCleanup
  <2>2. phase' \in [Rank -> Phase] /\ pc' \in [Rank -> 1 .. MaxPc]
        /\ UNCHANGED <<queue, created, processed, work_requested, work_outstanding,
                       requests, replies, receipts>>
      BY <1>8, <2>1, GoToType DEF EnterBarrier, CIRCLE_barrier_start, Phase
  <2>. QED
      BY <1>8, <2>2 DEF EnterBarrier, CIRCLE_barrier_start, WorkerTypes, abortVars
<1>9. ASSUME NEW r \in Rank, TestBarrier(r) PROVE WorkerTypes'
  <2>1. phase[r] = "cleanup"
      BY <1>9 DEF TestBarrier, BarrierGather, BarrierResult, InCleanup
  <2>2. ASSUME NEW rest \in SUBSET Pairs, BarrierComplete(r, rest)
        PROVE  /\ barriers' \in SUBSET Pairs
               /\ barrier_started' \in [Rank -> BOOLEAN]
               /\ barrier_up' \in [Rank -> BOOLEAN]
               /\ barrier_replies' \in [Rank -> Nat]
               /\ \E ph \in Phase, p \in 1 .. MaxPc : GoTo(r, ph, p)
    <3>1. \A c \in child_ranks(r) : <<r, c>> \in Pairs
        BY ChildrenCount DEF Pairs
    <3>2. barriers' \in SUBSET Pairs
        BY <2>2, <3>1 DEF BarrierComplete
    <3>. QED
        BY <2>2, <3>2 DEF BarrierComplete, WorkerTypes, Phase, MaxPc
  <2>3. /\ barriers' \in SUBSET Pairs
        /\ barrier_started' \in [Rank -> BOOLEAN]
        /\ barrier_up' \in [Rank -> BOOLEAN]
        /\ barrier_replies' \in [Rank -> Nat]
        /\ \E ph \in Phase, p \in 1 .. MaxPc : GoTo(r, ph, p)
    <3>1. CASE BarrierResult(r)
        BY <3>1, <2>2 DEF BarrierResult, WorkerTypes
    <3>2. CASE BarrierGather(r)
      <4>1. PICK from \in SUBSET BarrierSources(r) :
               \/ BarrierWait(r, from)
               \/ r # 0 /\ BarrierSendUp(r, from)
               \/ BarrierComplete(r, BarrierRest(r, from))
          BY <3>2 DEF BarrierGather
      <4>2. BarrierCount(r, from) \in Nat
        <5>1. from \in SUBSET Rank
            BY DEF BarrierSources
        <5>2. Cardinality(from) \in Nat /\ barrier_replies[r] \in Nat
            BY <5>1 DEF WorkerTypes
        <5>. QED
            BY <5>2 DEF BarrierCount
      <4>3. BarrierRest(r, from) \in SUBSET Pairs
          BY DEF BarrierRest, WorkerTypes
      <4>4. "cleanup" \in Phase /\ After(r, "barrier") \in 1 .. MaxPc
          BY <2>1, AfterType DEF Phase
      <4>5. CASE BarrierWait(r, from)
          BY <4>2, <4>3, <4>4, <4>5 DEF BarrierWait, WorkerTypes
      <4>6. CASE r # 0 /\ BarrierSendUp(r, from)
        <5>1. barriers' \in SUBSET Pairs
            BY <4>3, <4>6, ParentBelow DEF BarrierSendUp, Pairs
        <5>. QED
            BY <4>2, <4>4, <4>6, <5>1 DEF BarrierSendUp, WorkerTypes
      <4>. QED
          BY <4>1, <4>3, <4>5, <4>6, <2>2
    <3>. QED
        BY <1>9, <3>1, <3>2 DEF TestBarrier
  <2>4. ABORT_FLAG' = ABORT_FLAG /\ UNCHANGED <<abortVars>>
      BY <1>9 DEF TestBarrier, BarrierGather, BarrierResult
  <2>5. /\ phase' \in [Rank -> Phase]
        /\ pc' \in [Rank -> 1 .. MaxPc]
        /\ UNCHANGED <<queue, created, processed, work_requested, work_outstanding,
                       requests, replies, receipts>>
      BY <2>3, GoToType
  <2>. QED
      BY <2>3, <2>4, <2>5 DEF WorkerTypes, abortVars
<1>10. ASSUME NEW r \in Rank, Vote(r) PROVE WorkerTypes'
  <2>1. ASSUME NEW flag \in BOOLEAN, NEW rest \in SUBSET Flags, Finish(r, flag, rest)
        PROVE  WorkerTypes'
    <3>1. \A c \in child_ranks(r) : [src |-> r, dst |-> c, flag |-> flag] \in Flags
        BY ChildrenCount DEF Flags
    <3>2. abort_reduces' \in SUBSET Flags
        BY <2>1, <3>1 DEF Finish
    <3>3. /\ phase' \in [Rank -> Phase]
          /\ pc' \in [Rank -> 1 .. MaxPc]
          /\ queue' \in [Rank -> SUBSET Item]
          /\ checkpointed' \in SUBSET Item
          /\ ABORT_FLAG' \in [Rank -> BOOLEAN]
          /\ abort_state' \in [Rank -> BOOLEAN]
      <4>1. phase' \in [Rank -> Phase] /\ pc' \in [Rank -> 1 .. MaxPc]
          BY <2>1 DEF Finish, WorkerTypes, Phase, MaxPc
      <4>2. queue[r] \in SUBSET Item
          BY DEF WorkerTypes
      <4>3. queue' \in [Rank -> SUBSET Item] /\ checkpointed' \in SUBSET Item
          BY <2>1, <4>2 DEF Finish, WorkerTypes
      <4>4. ABORT_FLAG' \in [Rank -> BOOLEAN] /\ abort_state' \in [Rank -> BOOLEAN]
          BY <2>1 DEF Finish, WorkerTypes
      <4>. QED
          BY <4>1, <4>3, <4>4
    <3>. QED
        BY <1>10, <2>1, <3>2, <3>3 DEF Vote, Finish, WorkerTypes, barrierVars
  <2>2. CASE AbortReduceDown(r)
    <3>1. PICK m \in abort_reduces : Finish(r, m.flag, abort_reduces \ {m})
        BY <2>2 DEF AbortReduceDown
    <3>2. m.flag \in BOOLEAN /\ abort_reduces \ {m} \in SUBSET Flags
        BY DEF WorkerTypes, Flags
    <3>. QED
        BY <3>1, <3>2, <2>1
  <2>3. CASE AbortReduceUp(r)
    <3>. DEFINE flag == ABORT_FLAG[r] \/ \E m \in FromChildren(r) : m.flag
                rest == abort_reduces \ FromChildren(r)
    <3>1. flag \in BOOLEAN /\ rest \in SUBSET Flags
      <4>1. flag \in BOOLEAN
          BY DEF WorkerTypes
      <4>2. rest \in SUBSET Flags
          BY DEF WorkerTypes
      <4>. QED
          BY <4>1, <4>2
    <3>2. CASE Finish(r, flag, rest)
        BY <3>1, <3>2, <2>1
    <3>3. CASE ~Finish(r, flag, rest)
      <4>1. /\ r # 0
            /\ abort_reduces' = rest \cup
                  {[src |-> r, dst |-> parent_rank(r), flag |-> flag]}
            /\ GoTo(r, "await", 1)
            /\ UNCHANGED <<ABORT_FLAG, abort_state, abort_outstanding,
                            abort_requests, abort_replies, checkpointed>>
          BY <2>3, <3>3 DEF AbortReduceUp
      <4>. HIDE DEF flag, rest
      <4>2. abort_reduces' \in SUBSET Flags
          BY <3>1, <4>1, ParentBelow DEF Flags
      <4>3. /\ phase' \in [Rank -> Phase]
            /\ pc' \in [Rank -> 1 .. MaxPc]
            /\ UNCHANGED <<queue, created, processed, work_requested, work_outstanding,
                            requests, replies, receipts>>
          BY <4>1, GoToType DEF Phase, MaxPc
      <4>. QED
          BY <1>10, <4>1, <4>2, <4>3 DEF Vote, WorkerTypes, barrierVars
    <3>. QED
        BY <3>2, <3>3
  <2>. QED
      BY <1>10, <2>2, <2>3 DEF Vote
<1>11. CASE UNCHANGED workerVars
    BY <1>11 DEF workerVars, workVars, abortVars, barrierVars, WorkerTypes
<1>. QED
    BY <1>1, <1>2, <1>3, <1>4, <1>5, <1>6, <1>7, <1>8, <1>9, <1>10, <1>11
    DEF WorkerNext, WorkerStep

(* Type correctness of the whole worker.                                   *)
THEOREM WorkerTypesHold == WorkerSpec => []WorkerTypes
BY WorkerTypesInit, WorkerTypesStep, PTL DEF WorkerSpec

(* Every rank that shares its queue keeps an item (the random split of     *)
(* CIRCLE_send_work_to_many gives away at most all but one, the equal one  *)
(* counts the rank itself), for any number of requestors and items.        *)
THEOREM SplitKeepsOneHolds == WorkerSpec => []SplitKeepsOne
<1>1. WorkerTypes => SplitKeepsOne
  <2>. SUFFICES ASSUME WorkerTypes, NEW r \in Rank, NEW S \in SUBSET Requestors(r),
                       queue[r] # {}, S # {},
                       NEW sizes \in split_sizes(Cardinality(S), Cardinality(queue[r]))
                PROVE  Total(sizes) < Cardinality(queue[r])
      BY DEF SplitKeepsOne
  <2>1. IsFiniteSet(S) /\ IsFiniteSet(queue[r])
    <3>1. S \in SUBSET Rank /\ queue[r] \in SUBSET Item
        BY DEF Requestors, WorkerTypes
    <3>. QED
        BY <3>1, RankFacts, ItemAssumption, FS_Subset
  <2>2. Cardinality(S) \in Nat \ {0} /\ Cardinality(queue[r]) \in Nat \ {0}
      BY <2>1, FS_CardinalityType, FS_EmptySet
  <2>3. PICK n, c : n = Cardinality(S) /\ c = Cardinality(queue[r])
      OBVIOUS
  <2>4. n \in Nat \ {0} /\ c \in Nat \ {0} /\ sizes \in split_sizes(n, c)
      BY <2>2, <2>3
  <2>5. Total(sizes) < c
      BY <2>4, SplitLeavesOne
  <2>. QED
      BY <2>3, <2>5
<1>. QED
    BY <1>1, WorkerTypesHold, PTL

-----------------------------------------------------------------------------
(* The variables work distribution is about, and the steps that touch them. *)

distVars == <<queue, created, processed, checkpointed, work_requested, work_outstanding,
              requests, replies, receipts>>

(* What Serve(r) does, refusal and sharing alike: the ranks in S get the *)
(* disjoint parts g of the queue, all empty in a refusal.                  *)
Served(r, S, g, a) ==
    /\ \A s, t \in S : s # t => g[s] \cap g[t] = {}
    /\ requests' = requests \ {<<s, r>> : s \in S}
    /\ replies' = replies \cup
          {[src |-> r, dst |-> s, items |-> g[s], abort |-> a] : s \in S}
    /\ queue' = [queue EXCEPT ![r] = @ \ UNION {g[s] : s \in S}]
    /\ work_outstanding' = [work_outstanding EXCEPT
          ![r] = @ + Cardinality({s \in S : g[s] # {}})]
    /\ UNCHANGED <<phase, created, processed, checkpointed, ABORT_FLAG, work_requested, receipts>>

(* A step of CIRCLE_workreq_check serves some of the pending requests; it  *)
(* gives work away only in the work loop, outside the abort state.         *)
LEMMA ServedByWorkReq ==
    ASSUME WorkerTypes, NEW r \in Rank, Serve(r)
    PROVE  \E S \in SUBSET Requestors(r) : \E g \in [S -> SUBSET queue[r]], a \in BOOLEAN :
              /\ Served(r, S, g, a)
              /\ \/ \A s \in S : g[s] = {}
                 \/ phase[r] = "loop" /\ queue[r] # {} /\ ~ABORT_FLAG[r]
<1>1. PICK S \in SUBSET Requestors(r) :
          /\ requests' = requests \ {<<s, r>> : s \in S}
          /\ Refuse(r, S) \/ Share(r, S)
    BY DEF Serve, CIRCLE_workreq_check
<1>2. UNCHANGED <<phase, created, processed, checkpointed, ABORT_FLAG, work_requested, receipts>>
    BY DEF Serve, CIRCLE_workreq_check, abortVars
<1>3. CASE Refuse(r, S)
  <2>. DEFINE g == [s \in S |-> {}]
  <2>1. g \in [S -> SUBSET queue[r]] /\ \A s \in S : g[s] = {}
      OBVIOUS
  <2>2. {s \in S : g[s] # {}} = {} /\ UNION {g[s] : s \in S} = {}
      BY <2>1
  <2>3. replies' = replies \cup
          {[src |-> r, dst |-> s, items |-> g[s], abort |-> ABORT_FLAG[r]] : s \in S}
      BY <1>3, <2>1 DEF Refuse, no_work
  <2>. HIDE DEF g
  <2>4. queue' = [queue EXCEPT ![r] = @ \ UNION {g[s] : s \in S}]
    <3>1. queue' = queue /\ queue[r] \ UNION {g[s] : s \in S} = queue[r]
        BY <1>3, <2>2 DEF Refuse
    <3>2. queue = [queue EXCEPT ![r] = queue[r]]
        BY DEF WorkerTypes
    <3>. QED
        BY <3>1, <3>2
  <2>5. work_outstanding' = [work_outstanding EXCEPT
          ![r] = @ + Cardinality({s \in S : g[s] # {}})]
    <3>1. Cardinality({s \in S : g[s] # {}}) = 0
        BY <2>2, FS_EmptySet
    <3>2. work_outstanding \in [Rank -> Nat] /\ work_outstanding' = work_outstanding
        BY <1>3 DEF Refuse, WorkerTypes
    <3>. QED
        BY <3>1, <3>2
  <2>6. Served(r, S, g, ABORT_FLAG[r])
      BY <1>1, <1>2, <2>1, <2>3, <2>4, <2>5 DEF Served
  <2>7. ABORT_FLAG[r] \in BOOLEAN
      BY DEF WorkerTypes
  <2>. QED
      BY <2>1, <2>6, <2>7, Zenon
<1>4. CASE Share(r, S)
  <2>1. PICK g \in [S -> SUBSET queue[r]] :
           /\ \A s, t \in S : s # t => g[s] \cap g[t] = {}
           /\ replies' = replies \cup
                 {[src |-> r, dst |-> s, items |-> g[s], abort |-> FALSE] : s \in S}
           /\ queue' = [queue EXCEPT ![r] = @ \ UNION {g[s] : s \in S}]
           /\ work_outstanding' = [work_outstanding EXCEPT
                 ![r] = @ + Cardinality({s \in S : g[s] # {}})]
      BY <1>4 DEF Share, send_work_to_many
  <2>2. Served(r, S, g, FALSE)
      BY <1>1, <1>2, <2>1 DEF Served
  <2>3. phase[r] = "loop" /\ queue[r] # {} /\ ~ABORT_FLAG[r]
      BY <1>4 DEF Share
  <2>. QED
      BY <2>2, <2>3
<1>. QED
    BY <1>1, <1>3, <1>4

(* Any other step is a receipt check, a request, a reply taken, an item    *)
(* processed or the end of a rank's run, or leaves these variables alone.  *)
LEMMA DistSteps ==
    ASSUME [WorkerNext]_workerVars
    PROVE  \/ \E r \in Rank : Serve(r) \/ CountReceipts(r) \/ Ask(r) \/ Work(r)
           \/ \E r \in Rank : \E flag, rest : Finish(r, flag, rest)
           \/ UNCHANGED distVars
<1>1. ASSUME NEW r \in Rank, Vote(r)
      PROVE  (\E flag, rest : Finish(r, flag, rest)) \/ UNCHANGED distVars
    BY <1>1 DEF Vote, AbortReduceUp, AbortReduceDown, GoTo, distVars
<1>2. ASSUME NEW r \in Rank, Flood(r) \/ FloodEnds(r)
      PROVE  UNCHANGED distVars
    BY <1>2 DEF Flood, CIRCLE_abort_check, FloodEnds, AbortTest, GoTo, distVars
<1>3. ASSUME NEW r \in Rank, EnterBarrier(r) \/ TestBarrier(r) \/ Turn(r)
      PROVE  UNCHANGED distVars
    BY <1>3 DEF EnterBarrier, CIRCLE_barrier_start, TestBarrier, BarrierGather, BarrierResult,
                BarrierWait, BarrierSendUp, BarrierComplete, Turn, GoTo, distVars, abortVars
<1>4. CASE UNCHANGED workerVars
    BY <1>4 DEF workerVars, workVars, abortVars, distVars
<1>. QED
    BY <1>1, <1>2, <1>3, <1>4 DEF WorkerNext, WorkerStep

-----------------------------------------------------------------------------
(* One conversation per rank.                                              *)

(* The replies after CIRCLE_workreq_check: the old ones, all to ranks that *)
(* had no request pending, and the new ones.                               *)
LEMMA ServedReplies ==
    ASSUME Conversation, NEW r \in Rank, NEW S \in SUBSET Requestors(r), NEW g, NEW a,
           Served(r, S, g, a)
    PROVE  /\ S \in SUBSET Rank
           /\ \A m \in replies : m.dst \notin S
           /\ \A m \in replies' : (m \in replies /\ m.dst \notin S) \/
                 (/\ m.dst \in S /\ m.src = r
                  /\ m = [src |-> r, dst |-> m.dst, items |-> g[m.dst], abort |-> a])
<1>3. S \in SUBSET Rank /\ \A s \in S : <<s, r>> \in requests /\ work_requested[s] = r
    BY DEF Requestors, Conversation
<1>4. \A m \in replies' : m \in replies \/
          (\E s \in S : m = [src |-> r, dst |-> s, items |-> g[s], abort |-> a])
    BY DEF Served
<1>5. \A m \in replies : m.dst \notin S
  <2>. SUFFICES ASSUME NEW m \in replies, m.dst \in S PROVE FALSE
      OBVIOUS
  <2>1. work_requested[m.dst] = m.src /\ <<m.dst, m.src>> \notin requests
      BY DEF Conversation
  <2>2. m.src = r
      BY <1>3, <2>1
  <2>. QED
      BY <1>3, <2>1, <2>2
<1>6. \A m \in replies' : (m \in replies /\ m.dst \notin S) \/
          (/\ m.dst \in S /\ m.src = r
           /\ m = [src |-> r, dst |-> m.dst, items |-> g[m.dst], abort |-> a])
  <2>. SUFFICES ASSUME NEW m \in replies', m \notin replies
                PROVE  /\ m.dst \in S /\ m.src = r
                       /\ m = [src |-> r, dst |-> m.dst, items |-> g[m.dst], abort |-> a]
      BY <1>5
  <2>1. PICK s \in S : m = [src |-> r, dst |-> s, items |-> g[s], abort |-> a]
      BY <1>4
  <2>. QED
      BY <2>1
<1>. QED
    BY <1>3, <1>5, <1>6

(* No rank has asked for work in the initial state.                        *)
LEMMA ConversationInit == WorkerInit => Conversation
BY DEF WorkerInit, WorkInit, Conversation, None

(* Requests, replies and the rank waited for stay in step, whoever moves.  *)
LEMMA ConversationStep ==
    ASSUME WorkerTypes, WorkerTypes', Conversation, [WorkerNext]_workerVars
    PROVE  Conversation'
<1>. USE RankFacts
<1>1. ASSUME NEW r \in Rank, Serve(r) PROVE Conversation'
  <2>1. PICK S \in SUBSET Requestors(r) : \E g \in [S -> SUBSET queue[r]], a \in BOOLEAN :
            Served(r, S, g, a)
      BY <1>1, ServedByWorkReq
  <2>2. PICK g \in [S -> SUBSET queue[r]], a \in BOOLEAN : Served(r, S, g, a)
      BY <2>1
  <2>3. S \in SUBSET Rank /\ \A s \in S : <<s, r>> \in requests /\ work_requested[s] = r
      BY DEF Requestors, Conversation
  <2>6. \A m \in replies' : (m \in replies /\ m.dst \notin S) \/
            (/\ m.dst \in S /\ m.src = r
             /\ m = [src |-> r, dst |-> m.dst, items |-> g[m.dst], abort |-> a])
      BY <2>2, ServedReplies
  <2>7. \A q, d \in Rank : <<q, d>> \in requests' <=>
            <<q, d>> \in requests /\ ~(q \in S /\ d = r)
      BY <2>2 DEF Served
  <2>8. work_requested' = work_requested /\ \A q \in Rank : queue'[q] \subseteq queue[q]
      BY <2>2 DEF Served, WorkerTypes
  <2>9. \A q \in Rank : work_requested'[q] # None =>
            /\ queue'[q] = {}
            /\ \/ <<q, work_requested'[q]>> \in requests'
               \/ \E m \in replies' : m.dst = q
    <3>. SUFFICES ASSUME NEW q \in Rank, work_requested[q] # None
                  PROVE  /\ queue'[q] = {}
                         /\ \/ <<q, work_requested[q]>> \in requests'
                            \/ \E m \in replies' : m.dst = q
        BY <2>8
    <3>1. queue'[q] = {}
        BY <2>8 DEF Conversation
    <3>2. CASE q \in S
      <4>1. [src |-> r, dst |-> q, items |-> g[q], abort |-> a] \in replies'
          BY <2>2, <3>2 DEF Served
      <4>. QED
          BY <3>1, <4>1
    <3>3. CASE q \notin S
      <4>1. work_requested[q] \in Rank
          BY DEF WorkerTypes
      <4>2. replies \subseteq replies'
          BY <2>2 DEF Served
      <4>. QED
          BY <2>7, <3>1, <3>3, <4>1, <4>2 DEF Conversation
    <3>. QED
        BY <3>2, <3>3
  <2>10. \A m, n \in replies' : m.dst = n.dst => m = n
      BY <2>6 DEF Conversation
  <2>11. \A m \in replies' : work_requested[m.dst] = m.src
      BY <2>3, <2>6 DEF Conversation
  <2>12. \A m \in replies' : <<m.dst, m.src>> \notin requests'
    <3>. SUFFICES ASSUME NEW m \in replies' PROVE <<m.dst, m.src>> \notin requests'
        OBVIOUS
    <3>1. m.dst \in Rank /\ m.src \in Rank
        BY DEF WorkerTypes
    <3>. QED
        BY <2>6, <2>7, <3>1 DEF Conversation
  <2>13. \A q, d \in Rank : <<q, d>> \in requests' => work_requested[q] = d
      BY <2>7 DEF Conversation
  <2>. QED
      BY <2>8, <2>9, <2>10, <2>11, <2>12, <2>13 DEF Conversation
<1>2. ASSUME NEW r \in Rank, Ask(r) PROVE Conversation'
  <2>1. CASE SendRequest(r)
    <3>1. PICK d \in Rank \ {r} :
             /\ requests' = requests \cup {<<r, d>>}
             /\ work_requested' = [work_requested EXCEPT ![r] = d]
        BY <2>1 DEF SendRequest
    <3>2. queue' = queue /\ replies' = replies /\ queue[r] = {} /\ work_requested[r] = None
        BY <2>1 DEF SendRequest
    <3>3. \A m \in replies : m.dst # r /\ m.dst \in Rank /\ m.src \in Rank
        BY <3>2 DEF Conversation, WorkerTypes
    <3>4. \A q \in Rank : work_requested'[q] = IF q = r THEN d ELSE work_requested[q]
        BY <3>1 DEF WorkerTypes
    <3>5. \A q, e \in Rank : <<q, e>> \in requests' => work_requested'[q] = e
        BY <3>1, <3>2, <3>4 DEF Conversation
    <3>6. /\ \A m \in replies' : work_requested'[m.dst] = m.src
          /\ \A m \in replies' : <<m.dst, m.src>> \notin requests'
          /\ \A m, n \in replies' : m.dst = n.dst => m = n
        BY <3>1, <3>2, <3>3, <3>4 DEF Conversation
    <3>7. ASSUME NEW q \in Rank, work_requested'[q] # None
          PROVE  /\ queue'[q] = {}
                 /\ \/ <<q, work_requested'[q]>> \in requests'
                    \/ \E m \in replies' : m.dst = q
        BY <3>1, <3>2, <3>4, <3>7 DEF Conversation
    <3>. QED
        BY <3>5, <3>6, <3>7 DEF Conversation
  <2>2. CASE ReceiveReply(r)
    <3>1. PICK m \in replies :
             /\ m.dst = r
             /\ m.src = work_requested[r]
             /\ replies' = replies \ {m}
             /\ queue' = [queue EXCEPT ![r] = IF m.items = {} THEN @ ELSE m.items]
        BY <2>2 DEF ReceiveReply
    <3>2. requests' = requests /\ work_requested' = [work_requested EXCEPT ![r] = None]
        BY <2>2 DEF ReceiveReply
    <3>3. \A q \in Rank : work_requested'[q] = IF q = r THEN None ELSE work_requested[q]
        BY <3>2 DEF WorkerTypes
    <3>4. \A q \in Rank : q # r => queue'[q] = queue[q]
        BY <3>1 DEF WorkerTypes
    <3>5. \A d \in Rank : <<r, d>> \notin requests
        BY <3>1 DEF Conversation
    <3>6. \A n \in replies' : n \in replies /\ n.dst # r /\ n.dst \in Rank /\ n.src \in Rank
        BY <3>1 DEF Conversation, WorkerTypes
    <3>7. \A n \in replies : n.dst # r => n \in replies'
        BY <3>1
    <3>8. \A q, d \in Rank : <<q, d>> \in requests' => work_requested'[q] = d
        BY <3>2, <3>3, <3>5 DEF Conversation
    <3>9. /\ \A n \in replies' : work_requested'[n.dst] = n.src
          /\ \A n \in replies' : <<n.dst, n.src>> \notin requests'
          /\ \A n, o \in replies' : n.dst = o.dst => n = o
        BY <3>2, <3>3, <3>6 DEF Conversation
    <3>10. ASSUME NEW q \in Rank, work_requested'[q] # None
           PROVE  /\ queue'[q] = {}
                  /\ \/ <<q, work_requested'[q]>> \in requests'
                     \/ \E n \in replies' : n.dst = q
        BY <3>2, <3>3, <3>4, <3>7, <3>10 DEF Conversation
    <3>. QED
        BY <3>8, <3>9, <3>10 DEF Conversation
  <2>. QED
      BY <1>2, <2>1, <2>2 DEF Ask
<1>3. ASSUME NEW r \in Rank, Work(r) PROVE Conversation'
  <2>1. queue[r] # {} /\ (\A q \in Rank : q # r => queue'[q] = queue[q])
        /\ UNCHANGED <<requests, replies, work_requested>>
      BY <1>3 DEF Work, Process, WorkerTypes
  <2>. QED
      BY <2>1 DEF Conversation
<1>4. ASSUME NEW r \in Rank, NEW flag, NEW rest, Finish(r, flag, rest) PROVE Conversation'
  <2>1. (\A q \in Rank : queue'[q] \subseteq queue[q])
        /\ UNCHANGED <<requests, replies, work_requested>>
      BY <1>4 DEF Finish, WorkerTypes
  <2>. QED
      BY <2>1 DEF Conversation
<1>5. ASSUME NEW r \in Rank, CountReceipts(r) PROVE Conversation'
    BY <1>5 DEF CountReceipts, CIRCLE_workreceipt_check, Conversation
<1>6. CASE UNCHANGED distVars
    BY <1>6 DEF distVars, Conversation
<1>. QED
    BY <1>1, <1>2, <1>3, <1>4, <1>5, <1>6, DistSteps

(* The conversation invariant holds throughout.                            *)
LEMMA ConversationHolds == WorkerSpec => [](WorkerTypes /\ Conversation)
<1>1. WorkerInit => WorkerTypes /\ Conversation
    BY WorkerTypesInit, ConversationInit
<1>2. (WorkerTypes /\ Conversation) /\ [WorkerNext]_workerVars => (WorkerTypes /\ Conversation)'
    BY WorkerTypesStep, ConversationStep
<1>. QED
    BY <1>1, <1>2, PTL DEF WorkerSpec

(* At most one message of a rank's conversation is in flight.              *)
LEMMA ConversationIsOne ==
    ASSUME WorkerTypes, Conversation
    PROVE  OneConversation
<1>. SUFFICES ASSUME NEW r \in Rank
     PROVE LET asked == {d \in Rank : <<r, d>> \in requests}
               answers == {m \in replies : m.dst = r}
           IN  /\ Cardinality(asked) + Cardinality(answers)
                    = (IF work_requested[r] = None THEN 0 ELSE 1)
               /\ \A d \in asked : d = work_requested[r]
               /\ \A m \in answers : m.src = work_requested[r]
               /\ work_requested[r] # None => queue[r] = {}
    BY DEF OneConversation
<1>. DEFINE asked == {d \in Rank : <<r, d>> \in requests}
            answers == {m \in replies : m.dst = r}
<1>1. /\ \A d \in asked : d = work_requested[r]
      /\ \A m \in answers : m.src = work_requested[r] /\ m.src \in Rank
      /\ work_requested[r] # None => queue[r] = {}
    BY DEF Conversation, WorkerTypes
<1>2. CASE work_requested[r] = None
  <2>1. asked = {} /\ answers = {}
      BY <1>1, <1>2, RankFacts
  <2>. HIDE DEF asked, answers
  <2>2. Cardinality(asked) = 0 /\ Cardinality(answers) = 0
      BY <2>1, FS_EmptySet
  <2>. QED
      BY <1>1, <1>2, <2>2 DEF asked, answers
<1>3. CASE /\ work_requested[r] # None
           /\ <<r, work_requested[r]>> \in requests
  <2>1. asked = {work_requested[r]}
      BY <1>1, <1>3 DEF WorkerTypes
  <2>2. answers = {}
    <3>. SUFFICES ASSUME NEW m \in answers PROVE FALSE
        OBVIOUS
    <3>1. m.dst = r /\ m.src = work_requested[r] /\ <<m.dst, m.src>> \notin requests
        BY <1>1 DEF Conversation
    <3>. QED
        BY <1>3, <3>1
  <2>. HIDE DEF asked, answers
  <2>3. Cardinality(asked) = 1 /\ Cardinality(answers) = 0
      BY <2>1, <2>2, FS_EmptySet, FS_Singleton
  <2>. QED
      BY <1>1, <1>3, <2>3 DEF asked, answers
<1>4. CASE /\ work_requested[r] # None
           /\ \E m \in replies : m.dst = r
  <2>1. PICK m \in replies : m.dst = r
      BY <1>4
  <2>2. answers = {m}
      BY <2>1 DEF Conversation
  <2>3. asked = {}
    <3>. SUFFICES ASSUME NEW d \in asked PROVE FALSE
        OBVIOUS
    <3>1. m.dst = r /\ m.src = work_requested[r] /\ <<m.dst, m.src>> \notin requests
        BY <2>1 DEF Conversation
    <3>. QED
        BY <1>1, <3>1
  <2>. HIDE DEF asked, answers
  <2>4. Cardinality(asked) = 0 /\ Cardinality(answers) = 1
      BY <2>2, <2>3, FS_EmptySet, FS_Singleton
  <2>. QED
      BY <1>1, <1>4, <2>4 DEF asked, answers
<1>. QED
    BY <1>2, <1>3, <1>4 DEF Conversation

(* No rank ever has two requests, two replies, or a request and a reply in *)
(* flight, and none is ever owed an answer without waiting for it.         *)
THEOREM WorkerConverses == WorkerSpec => []OneConversation
BY ConversationHolds, ConversationIsOne, PTL

-----------------------------------------------------------------------------
(* Acknowledged transfers.                                                 *)

(* No transfer has been sent in the initial state.                         *)
LEMMA BalanceInit == WorkerInit => ReceiptsBalance
<1>. SUFFICES ASSUME WorkerInit, NEW r \in Rank
              PROVE  work_outstanding[r] = receipts[r] + Cardinality(Transfers(r))
    BY DEF ReceiptsBalance
<1>1. Transfers(r) = {}
    BY DEF WorkerInit, WorkInit, Transfers
<1>2. Cardinality(Transfers(r)) = 0
    BY <1>1, FS_EmptySet
<1>. QED
    BY <1>2 DEF WorkerInit, WorkInit

(* Transfers is a set of ranks, so it has a size.                          *)
LEMMA TransfersFinite ==
    ASSUME NEW r \in Rank
    PROVE  IsFiniteSet(Transfers(r)) /\ Cardinality(Transfers(r)) \in Nat
BY RankFacts, Transfers(r) \in SUBSET Rank DEF Transfers

(* Every work transfer is counted when it is sent and discounted when its  *)
(* receipt is taken, so the count stays exact.                             *)
LEMMA BalanceStep ==
    ASSUME WorkerTypes, WorkerTypes', Conversation, ReceiptsBalance, [WorkerNext]_workerVars
    PROVE  ReceiptsBalance'
<1>. USE RankFacts
<1>1. ASSUME NEW r \in Rank, Serve(r) PROVE ReceiptsBalance'
  <2>1. PICK S \in SUBSET Requestors(r) : \E g \in [S -> SUBSET queue[r]], a \in BOOLEAN :
            Served(r, S, g, a)
      BY <1>1, ServedByWorkReq
  <2>2. PICK g \in [S -> SUBSET queue[r]], a \in BOOLEAN : Served(r, S, g, a)
      BY <2>1
  <2>. DEFINE T == {s \in S : g[s] # {}}
  <2>3. /\ S \in SUBSET Rank
        /\ \A m \in replies : m.dst \notin S
        /\ \A m \in replies' : (m \in replies /\ m.dst \notin S) \/
              (/\ m.dst \in S /\ m.src = r
               /\ m = [src |-> r, dst |-> m.dst, items |-> g[m.dst], abort |-> a])
      BY <2>2, ServedReplies
  <2>4. /\ replies \subseteq replies'
        /\ \A s \in S : [src |-> r, dst |-> s, items |-> g[s], abort |-> a] \in replies'
      BY <2>2 DEF Served
  <2>5. \A q \in Rank : q # r => Transfers(q)' = Transfers(q)
      BY <2>3, <2>4 DEF Transfers
  <2>6. Transfers(r)' = Transfers(r) \cup T
    <3>1. Transfers(r)' \subseteq Transfers(r) \cup T
      <4>. SUFFICES ASSUME NEW m \in replies', m.src = r, m.items # {}, m.dst \in Rank
                    PROVE  m.dst \in Transfers(r) \cup T
          BY DEF Transfers
      <4>. QED
          BY <2>3 DEF Transfers
    <3>2. T \subseteq Transfers(r)'
      <4>. SUFFICES ASSUME NEW s \in T PROVE s \in Transfers(r)'
          OBVIOUS
      <4>1. [src |-> r, dst |-> s, items |-> g[s], abort |-> a] \in replies' /\ g[s] # {}
          BY <2>4
      <4>. QED
          BY <2>3, <4>1 DEF Transfers
    <3>3. Transfers(r) \subseteq Transfers(r)'
        BY <2>4 DEF Transfers
    <3>. QED
        BY <3>1, <3>2, <3>3
  <2>7. Transfers(r) \cap T = {}
      BY <2>3 DEF Transfers
  <2>8. IsFiniteSet(T) /\ Cardinality(T) \in Nat
      BY <2>3, T \in SUBSET Rank
  <2>9. /\ work_outstanding'[r] = work_outstanding[r] + Cardinality(T)
        /\ \A q \in Rank : q # r => work_outstanding'[q] = work_outstanding[q]
        /\ receipts' = receipts
      BY <2>2 DEF Served, WorkerTypes
  <2>. HIDE DEF T
  <2>10. Cardinality(Transfers(r)') = Cardinality(Transfers(r)) + Cardinality(T)
    <3>1. Cardinality(Transfers(r) \cup T) =
            Cardinality(Transfers(r)) + Cardinality(T) - Cardinality(Transfers(r) \cap T)
        BY <2>8, TransfersFinite, FS_Union
    <3>. QED
        BY <2>6, <2>7, <2>8, <3>1, TransfersFinite, FS_EmptySet
  <2>11. work_outstanding[r] \in Nat /\ receipts[r] \in Nat
      BY DEF WorkerTypes
  <2>12. work_outstanding'[r] = receipts'[r] + Cardinality(Transfers(r)')
    <3>1. work_outstanding[r] = receipts[r] + Cardinality(Transfers(r))
        BY DEF ReceiptsBalance
    <3>2. Cardinality(Transfers(r)) \in Nat
        BY TransfersFinite
    <3>. QED
        BY <2>8, <2>9, <2>10, <2>11, <3>1, <3>2
  <2>13. ASSUME NEW q \in Rank, q # r
         PROVE  work_outstanding'[q] = receipts'[q] + Cardinality(Transfers(q)')
    <3>1. Transfers(q)' = Transfers(q)
        BY <2>5, <2>13
    <3>. QED
        BY <2>9, <2>13, <3>1 DEF ReceiptsBalance
  <2>. QED
      BY <2>12, <2>13 DEF ReceiptsBalance
<1>2. ASSUME NEW r \in Rank, CountReceipts(r) PROVE ReceiptsBalance'
  <2>1. PICK n \in 1 .. receipts[r] :
            /\ receipts' = [receipts EXCEPT ![r] = @ - n]
            /\ work_outstanding' = [work_outstanding EXCEPT ![r] = @ - n]
      BY <1>2 DEF CountReceipts, CIRCLE_workreceipt_check
  <2>2. \A q \in Rank : Transfers(q)' = Transfers(q)
      BY <1>2 DEF CountReceipts, CIRCLE_workreceipt_check, Transfers
  <2>. SUFFICES ASSUME NEW q \in Rank
                PROVE  work_outstanding'[q] = receipts'[q] + Cardinality(Transfers(q))
      BY <2>2 DEF ReceiptsBalance
  <2>3. work_outstanding[q] \in Nat /\ receipts[q] \in Nat /\ n \in Int
      BY <2>1 DEF WorkerTypes
  <2>4. CASE q = r
    <3>1. work_outstanding'[r] = work_outstanding[r] - n /\ receipts'[r] = receipts[r] - n
        BY <2>1 DEF WorkerTypes
    <3>. QED
        BY <2>3, <2>4, <3>1, TransfersFinite DEF ReceiptsBalance
  <2>5. CASE q # r
    <3>1. work_outstanding'[q] = work_outstanding[q] /\ receipts'[q] = receipts[q]
        BY <2>1, <2>5 DEF WorkerTypes
    <3>. QED
        BY <3>1 DEF ReceiptsBalance
  <2>. QED
      BY <2>4, <2>5
<1>3. ASSUME NEW r \in Rank, Ask(r) PROVE ReceiptsBalance'
  <2>1. CASE SendRequest(r)
    <3>1. \A q \in Rank : Transfers(q)' = Transfers(q)
        BY <2>1 DEF SendRequest, Transfers
    <3>. QED
        BY <2>1, <3>1 DEF SendRequest, ReceiptsBalance
  <2>2. CASE ReceiveReply(r)
    <3>1. PICK m \in replies :
             /\ m.dst = r
             /\ replies' = replies \ {m}
             /\ receipts' = [receipts EXCEPT ![m.src] = IF m.items = {} THEN @ ELSE @ + 1]
             /\ work_outstanding' = work_outstanding
        BY <2>2 DEF ReceiveReply
    <3>2. m.src \in Rank /\ (\A n \in replies : n.dst = r => n = m)
        BY <3>1 DEF WorkerTypes, Conversation
    <3>3. \A q \in Rank : q # m.src => Transfers(q)' = Transfers(q)
        BY <3>1 DEF Transfers
    <3>4. \A q \in Rank : q # m.src => receipts'[q] = receipts[q]
        BY <3>1 DEF WorkerTypes
    <3>5. CASE m.items = {}
      <4>1. Transfers(m.src)' = Transfers(m.src)
          BY <3>1, <3>5 DEF Transfers
      <4>2. receipts'[m.src] = receipts[m.src]
          BY <3>1, <3>5, <3>2 DEF WorkerTypes
      <4>. QED
          BY <3>1, <3>3, <3>4, <4>1, <4>2 DEF ReceiptsBalance
    <3>6. CASE m.items # {}
      <4>1. Transfers(m.src)' = Transfers(m.src) \ {r} /\ r \in Transfers(m.src)
          BY <3>1, <3>2, <3>6 DEF Transfers
      <4>2. receipts'[m.src] = receipts[m.src] + 1
          BY <3>1, <3>6, <3>2 DEF WorkerTypes
      <4>3. Cardinality(Transfers(m.src)') = Cardinality(Transfers(m.src)) - 1
        <5>1. IsFiniteSet(Transfers(m.src))
            BY <3>2, TransfersFinite
        <5>2. Cardinality(Transfers(m.src) \ {r}) = Cardinality(Transfers(m.src)) - 1
            BY <4>1, <5>1, FS_RemoveElement
        <5>. QED
            BY <4>1, <5>2
      <4>4. work_outstanding[m.src] \in Nat /\ receipts[m.src] \in Nat
          BY <3>2 DEF WorkerTypes
      <4>5. work_outstanding'[m.src] = receipts'[m.src] + Cardinality(Transfers(m.src)')
          BY <3>1, <3>2, <4>2, <4>3, <4>4, TransfersFinite DEF ReceiptsBalance
      <4>. QED
          BY <3>1, <3>3, <3>4, <4>5 DEF ReceiptsBalance
    <3>. QED
        BY <3>5, <3>6
  <2>. QED
      BY <1>3, <2>1, <2>2 DEF Ask
<1>4. ASSUME UNCHANGED <<work_outstanding, receipts, replies>> PROVE ReceiptsBalance'
    BY <1>4 DEF ReceiptsBalance, Transfers
<1>5. ASSUME NEW r \in Rank, Work(r) PROVE ReceiptsBalance'
    BY <1>4, <1>5 DEF Work, Process
<1>6. ASSUME NEW r \in Rank, NEW flag, NEW rest, Finish(r, flag, rest) PROVE ReceiptsBalance'
    BY <1>4, <1>6 DEF Finish
<1>7. CASE UNCHANGED distVars
    BY <1>4, <1>7 DEF distVars
<1>. QED
    BY <1>1, <1>2, <1>3, <1>5, <1>6, <1>7, DistSteps

(* The transfers a rank has sent and not seen acknowledged are exactly the *)
(* work replies and the receipts in flight.                                *)
THEOREM WorkerBalances == WorkerSpec => []ReceiptsBalance
<1>1. WorkerInit => WorkerTypes /\ Conversation /\ ReceiptsBalance
    BY WorkerTypesInit, ConversationInit, BalanceInit
<1>2. (WorkerTypes /\ Conversation /\ ReceiptsBalance) /\ [WorkerNext]_workerVars
         => (WorkerTypes /\ Conversation /\ ReceiptsBalance)'
    BY WorkerTypesStep, ConversationStep, BalanceStep
<1>. QED
    BY <1>1, <1>2, PTL DEF WorkerSpec

-----------------------------------------------------------------------------
(* Conservation of work.                                                   *)

(* The item x is in one of the places that make up created.                *)
Somewhere(x) ==
    \/ x \in processed
    \/ x \in checkpointed
    \/ \E r \in Rank : x \in queue[r]
    \/ \E m \in replies : x \in m.items

(* No item is in two places.                                               *)
NoDuplicates ==
    /\ \A r, s \in Rank : r # s => queue[r] \cap queue[s] = {}
    /\ \A m, n \in replies : m # n => m.items \cap n.items = {}
    /\ \A r \in Rank, m \in replies : queue[r] \cap m.items = {}
    /\ \A r \in Rank : queue[r] \cap (processed \cup checkpointed) = {}
    /\ \A m \in replies : m.items \cap (processed \cup checkpointed) = {}
    /\ processed \cap checkpointed = {}

ItemByItem == (\A x : x \in created <=> Somewhere(x)) /\ NoDuplicates

(* WorkConserved, item by item.                                            *)
LEMMA ConservedPointwise ==
    WorkConserved <=> ItemByItem
<1>1. created = processed \cup checkpointed
                  \cup (UNION {queue[r] : r \in Rank}) \cup (UNION {m.items : m \in replies})
      <=> \A x : x \in created <=> Somewhere(x)
  <2>. DEFINE places == processed \cup checkpointed
                  \cup (UNION {queue[r] : r \in Rank}) \cup (UNION {m.items : m \in replies})
  <2>1. ASSUME NEW x PROVE x \in places <=> Somewhere(x)
    <3>1. x \in UNION {queue[r] : r \in Rank} <=> \E r \in Rank : x \in queue[r]
        BY Zenon
    <3>2. x \in UNION {m.items : m \in replies} <=> \E m \in replies : x \in m.items
        BY Zenon
    <3>. QED
        BY <3>1, <3>2 DEF Somewhere
  <2>. HIDE DEF places
  <2>2. created = places <=> \A x : x \in created <=> Somewhere(x)
      BY <2>1
  <2>. QED
      BY <2>2 DEF places
<1>. QED
    BY <1>1, Zenon DEF WorkConserved, NoDuplicates, ItemByItem

(* Initially the items are in the queues the create callbacks filled.      *)
LEMMA ConservedInit == WorkerInit => WorkConserved
<1>. SUFFICES ASSUME WorkerInit PROVE WorkConserved
    OBVIOUS
<1>1. /\ created = UNION {queue[r] : r \in Rank}
      /\ processed = {} /\ checkpointed = {} /\ replies = {}
      /\ \A r, s \in Rank : r # s => queue[r] \cap queue[s] = {}
    BY DEF WorkerInit, WorkInit, AbortInit
<1>2. \A x : x \in created <=> Somewhere(x)
    BY <1>1 DEF Somewhere
<1>3. NoDuplicates
    BY <1>1 DEF NoDuplicates
<1>. QED
    BY <1>2, <1>3, ConservedPointwise DEF ItemByItem

(* Every step that moves items takes them from one place and puts them in  *)
(* another; only process_cb makes new ones.                                *)
LEMMA ConservedStep ==
    ASSUME WorkerTypes, WorkerTypes', Conversation, WorkConserved, [WorkerNext]_workerVars
    PROVE  WorkConserved'
<1>. USE RankFacts
<1>a. (\A x : x \in created <=> Somewhere(x)) /\ NoDuplicates
    BY ConservedPointwise DEF ItemByItem
<1>b. SUFFICES (\A x : x \in created' <=> Somewhere(x)') /\ NoDuplicates'
  <2>1. ItemByItem' => WorkConserved'
      BY ConservedPointwise, PTL
  <2>. QED
      BY <2>1 DEF ItemByItem
<1>1. ASSUME NEW r \in Rank, Serve(r)
      PROVE  (\A x : x \in created' <=> Somewhere(x)') /\ NoDuplicates'
  <2>1. PICK S \in SUBSET Requestors(r) : \E g \in [S -> SUBSET queue[r]], a \in BOOLEAN :
            Served(r, S, g, a)
      BY <1>1, ServedByWorkReq
  <2>2. PICK g \in [S -> SUBSET queue[r]], a \in BOOLEAN : Served(r, S, g, a)
      BY <2>1
  <2>3. \A m \in replies' : (m \in replies /\ m.dst \notin S) \/
            (/\ m.dst \in S /\ m.src = r
             /\ m = [src |-> r, dst |-> m.dst, items |-> g[m.dst], abort |-> a])
      BY <2>2, ServedReplies
  <2>4. /\ replies \subseteq replies'
        /\ \A s \in S : [src |-> r, dst |-> s, items |-> g[s], abort |-> a] \in replies'
        /\ \A s \in S : g[s] \subseteq queue[r]
        /\ \A s, t \in S : s # t => g[s] \cap g[t] = {}
        /\ UNCHANGED <<created, processed, checkpointed>>
      BY <2>2 DEF Served
  <2>5. /\ \A q \in Rank : q # r => queue'[q] = queue[q]
        /\ queue'[r] \subseteq queue[r]
        /\ \A x \in queue[r] : x \in queue'[r] <=> \A s \in S : x \notin g[s]
      BY <2>2 DEF Served, WorkerTypes
  <2>6. \A m \in replies' : m \in replies \/
            (m.dst \in S /\ m.items = g[m.dst] /\ m.items \subseteq queue[r]
               /\ m.items \cap queue'[r] = {})
      BY <2>3, <2>4, <2>5
  <2>7. ASSUME NEW x PROVE x \in created' <=> Somewhere(x)'
    <3>1. ASSUME Somewhere(x) PROVE Somewhere(x)'
      <4>1. CASE x \in processed \/ x \in checkpointed
          BY <2>4, <4>1 DEF Somewhere
      <4>2. CASE \E q \in Rank : q # r /\ x \in queue[q]
          BY <2>5, <4>2 DEF Somewhere
      <4>3. CASE x \in queue[r]
        <5>1. CASE x \in queue'[r]
            BY <5>1 DEF Somewhere
        <5>2. CASE x \notin queue'[r]
          <6>1. PICK s \in S : x \in g[s]
              BY <2>5, <4>3, <5>2
          <6>2. [src |-> r, dst |-> s, items |-> g[s], abort |-> a] \in replies'
                /\ x \in [src |-> r, dst |-> s, items |-> g[s], abort |-> a].items
              BY <2>4, <6>1
          <6>. QED
              BY <6>2, Zenon DEF Somewhere
        <5>. QED
            BY <5>1, <5>2
      <4>4. CASE \E m \in replies : x \in m.items
          BY <2>4, <4>4 DEF Somewhere
      <4>. QED
          BY <3>1, <4>1, <4>2, <4>3, <4>4 DEF Somewhere
    <3>2. ASSUME Somewhere(x)' PROVE Somewhere(x)
        BY <2>4, <2>5, <2>6, <3>2 DEF Somewhere
    <3>. QED
        BY <1>a, <2>4, <3>1, <3>2
  <2>8. NoDuplicates'
    <3>1. \A q, s \in Rank : q # s => queue'[q] \cap queue'[s] = {}
        BY <1>a, <2>5 DEF NoDuplicates
    <3>2. \A m, n \in replies' : m # n => m.items \cap n.items = {}
      <4>. SUFFICES ASSUME NEW m \in replies', NEW n \in replies', m # n
                    PROVE  m.items \cap n.items = {}
          OBVIOUS
      <4>1. CASE m \in replies /\ n \in replies
          BY <1>a, <4>1 DEF NoDuplicates
      <4>2. CASE m \in replies /\ n \notin replies
          BY <1>a, <2>6, <4>2 DEF NoDuplicates
      <4>3. CASE m \notin replies /\ n \in replies
          BY <1>a, <2>6, <4>3 DEF NoDuplicates
      <4>4. CASE m \notin replies /\ n \notin replies
        <5>1. m.dst \in S /\ n.dst \in S /\ m.dst # n.dst
            BY <2>3, <4>4
        <5>. QED
            BY <2>4, <2>6, <4>4, <5>1
      <4>. QED
          BY <4>1, <4>2, <4>3, <4>4
    <3>3. \A q \in Rank, m \in replies' : queue'[q] \cap m.items = {}
        BY <1>a, <2>5, <2>6 DEF NoDuplicates
    <3>4. /\ \A q \in Rank : queue'[q] \cap (processed' \cup checkpointed') = {}
          /\ processed' \cap checkpointed' = {}
        BY <1>a, <2>4, <2>5 DEF NoDuplicates
    <3>5. \A m \in replies' : m.items \cap (processed' \cup checkpointed') = {}
        BY <1>a, <2>4, <2>6 DEF NoDuplicates
    <3>. QED
        BY <3>1, <3>2, <3>3, <3>4, <3>5 DEF NoDuplicates
  <2>. QED
      BY <2>7, <2>8
<1>2. ASSUME NEW r \in Rank, Ask(r)
      PROVE  (\A x : x \in created' <=> Somewhere(x)') /\ NoDuplicates'
  <2>1. CASE SendRequest(r)
      BY <1>a, <1>2, <2>1 DEF SendRequest, Ask, abortVars, Somewhere, NoDuplicates
  <2>2. CASE ReceiveReply(r)
    <3>1. PICK m \in replies :
             /\ replies' = replies \ {m}
             /\ queue' = [queue EXCEPT ![r] = IF m.items = {} THEN @ ELSE m.items]
        BY <2>2 DEF ReceiveReply
    <3>2. work_requested[r] # None /\ UNCHANGED <<created, processed, checkpointed>>
        BY <1>2, <2>2 DEF ReceiveReply, Ask, abortVars
    <3>3. queue[r] = {}
        BY <3>2 DEF Conversation
    <3>4. queue'[r] = m.items /\ \A q \in Rank : q # r => queue'[q] = queue[q]
        BY <3>1, <3>3 DEF WorkerTypes
    <3>5. \A x : Somewhere(x) <=> Somewhere(x)'
        BY <3>1, <3>2, <3>3, <3>4 DEF Somewhere
    <3>6. NoDuplicates'
        BY <1>a, <3>1, <3>2, <3>3, <3>4 DEF NoDuplicates
    <3>. QED
        BY <1>a, <3>2, <3>5, <3>6
  <2>. QED
      BY <1>2, <2>1, <2>2 DEF Ask
<1>3. ASSUME NEW r \in Rank, Work(r)
      PROVE  (\A x : x \in created' <=> Somewhere(x)') /\ NoDuplicates'
  <2>1. PICK i \in queue[r], new \in SUBSET (Item \ created) :
             /\ queue' = [queue EXCEPT ![r] = (@ \ {i}) \cup new]
             /\ created' = created \cup new
             /\ processed' = processed \cup {i}
      BY <1>3 DEF Work, Process
  <2>2. UNCHANGED <<replies, checkpointed>>
      BY <1>3 DEF Work, Process, abortVars
  <2>3. /\ queue'[r] = (queue[r] \ {i}) \cup new
        /\ \A q \in Rank : q # r => queue'[q] = queue[q]
      BY <2>1 DEF WorkerTypes
  <2>4. \A x : x \in new => ~Somewhere(x)
      BY <1>a
  <2>5. ASSUME NEW x PROVE x \in created' <=> Somewhere(x)'
    <3>1. Somewhere(x)' <=> Somewhere(x) \/ x \in new
        BY <2>1, <2>2, <2>3 DEF Somewhere
    <3>. QED
        BY <1>a, <2>1, <3>1
  <2>6. \A x \in new : /\ x \notin processed /\ x \notin checkpointed
                       /\ \A q \in Rank : x \notin queue[q]
                       /\ \A m \in replies : x \notin m.items
      BY <2>4 DEF Somewhere
  <2>7. NoDuplicates'
    <3>1. \A q, s \in Rank : q # s => queue'[q] \cap queue'[s] = {}
        BY <1>a, <2>3, <2>6 DEF NoDuplicates
    <3>2. \A q \in Rank, m \in replies : queue'[q] \cap m.items = {}
        BY <1>a, <2>3, <2>6 DEF NoDuplicates
    <3>3. \A q \in Rank : queue'[q] \cap (processed' \cup checkpointed) = {}
        BY <1>a, <2>1, <2>3, <2>6 DEF NoDuplicates
    <3>4. \A m \in replies : m.items \cap (processed' \cup checkpointed) = {}
        BY <1>a, <2>1 DEF NoDuplicates
    <3>5. processed' \cap checkpointed = {}
        BY <1>a, <2>1 DEF NoDuplicates
    <3>. QED
        BY <1>a, <2>2, <3>1, <3>2, <3>3, <3>4, <3>5 DEF NoDuplicates
  <2>. QED
      BY <2>5, <2>7
<1>4. ASSUME NEW r \in Rank, NEW flag, NEW rest, Finish(r, flag, rest)
      PROVE  (\A x : x \in created' <=> Somewhere(x)') /\ NoDuplicates'
  <2>1. UNCHANGED <<created, processed, replies>>
      BY <1>4 DEF Finish
  <2>2. CASE flag
    <3>1. /\ checkpointed' = checkpointed \cup queue[r]
          /\ queue'[r] = {}
          /\ \A q \in Rank : q # r => queue'[q] = queue[q]
        BY <1>4, <2>2 DEF Finish, WorkerTypes
    <3>2. \A x : Somewhere(x) <=> Somewhere(x)'
        BY <2>1, <3>1 DEF Somewhere
    <3>3. NoDuplicates'
        BY <1>a, <2>1, <3>1 DEF NoDuplicates
    <3>. QED
        BY <1>a, <2>1, <3>2, <3>3
  <2>3. CASE ~flag
    <3>1. checkpointed' = checkpointed /\ \A q \in Rank : queue'[q] = queue[q]
        BY <1>4, <2>3 DEF Finish, WorkerTypes
    <3>. QED
        BY <1>a, <2>1, <3>1 DEF Somewhere, NoDuplicates
  <2>. QED
      BY <2>2, <2>3
<1>5. ASSUME UNCHANGED <<queue, created, processed, checkpointed, replies>>
      PROVE  (\A x : x \in created' <=> Somewhere(x)') /\ NoDuplicates'
    BY <1>a, <1>5 DEF Somewhere, NoDuplicates
<1>6. ASSUME NEW r \in Rank, CountReceipts(r)
      PROVE  UNCHANGED <<queue, created, processed, checkpointed, replies>>
    BY <1>6 DEF CountReceipts, CIRCLE_workreceipt_check, abortVars
<1>7. CASE UNCHANGED distVars
    BY <1>5, <1>7 DEF distVars
<1>. QED
    BY <1>1, <1>2, <1>3, <1>4, <1>5, <1>6, <1>7, DistSteps

(* No item is lost, duplicated or processed twice, whatever the number of  *)
(* ranks, the tree, the splits, the interleaving and the aborts.           *)
THEOREM WorkerConserves == WorkerSpec => []WorkConserved
<1>1. WorkerInit => WorkerTypes /\ Conversation /\ WorkConserved
    BY WorkerTypesInit, ConversationInit, ConservedInit
<1>2. (WorkerTypes /\ Conversation /\ WorkConserved) /\ [WorkerNext]_workerVars
         => (WorkerTypes /\ Conversation /\ WorkConserved)'
    BY WorkerTypesStep, ConversationStep, ConservedStep
<1>. QED
    BY <1>1, <1>2, PTL DEF WorkerSpec

-----------------------------------------------------------------------------
(* The barrier.                                                            *)

(* Only CIRCLE_barrier_test takes a rank past the barrier or touches its   *)
(* messages and counts.                                                    *)
LEMMA OnlyBarrierPasses ==
    ASSUME WorkerTypes, [WorkerNext]_workerVars, ~\E r \in Rank : TestBarrier(r)
    PROVE  /\ UNCHANGED <<barrier_up, barrier_replies, barriers>>
           /\ \A q \in Rank : Past(q)' <=> Past(q)
           /\ \A q \in Rank : phase[q] = "cleanup" => phase'[q] = "cleanup"
<1>0. phase \in [Rank -> Phase]
    BY DEF WorkerTypes
<1>1. UNCHANGED <<barrier_up, barrier_replies, barriers>>
    BY DEF WorkerNext, WorkerStep, Serve, CountReceipts, Flood, FloodEnds, Ask,
           Work, Turn, EnterBarrier, CIRCLE_barrier_start, Vote, workerVars, barrierVars
<1>2. ASSUME NEW r \in Rank, NEW ph, phase' = [phase EXCEPT ![r] = ph],
             \/ ph = phase[r]
             \/ phase[r] = "loop" /\ ph \in {"loop", "cleanup"}
             \/ Past(r) /\ ph \in {"await", "exit"}
      PROVE  /\ \A q \in Rank : Past(q)' <=> Past(q)
             /\ \A q \in Rank : phase[q] = "cleanup" => phase'[q] = "cleanup"
    BY <1>0, <1>2 DEF Past
<1>3. ASSUME NEW r \in Rank, Serve(r) \/ CountReceipts(r) \/ Ask(r) \/ Work(r)
      PROVE  phase' = phase
    BY <1>3 DEF Serve, CountReceipts, Ask, Work, CIRCLE_workreq_check,
       CIRCLE_workreceipt_check, SendRequest, ReceiveReply, Process
<1>4. ASSUME NEW r \in Rank,
             Flood(r) \/ FloodEnds(r) \/ EnterBarrier(r)
      PROVE  phase' = [phase EXCEPT ![r] = phase[r]]
    BY <1>4 DEF Flood, FloodEnds, CIRCLE_abort_check, AbortTest, GoTo, EnterBarrier,
       CIRCLE_barrier_start, InCleanup
<1>5. ASSUME NEW r \in Rank, Turn(r)
      PROVE  \E ph \in {"loop", "cleanup"} :
                /\ phase' = [phase EXCEPT ![r] = ph]
                /\ ph = phase[r] \/ phase[r] = "loop"
    BY <1>5 DEF Turn, GoTo
<1>6. ASSUME NEW r \in Rank, Vote(r)
      PROVE  Past(r) /\ \E ph \in {"await", "exit"} : phase' = [phase EXCEPT ![r] = ph]
    BY <1>6 DEF Vote, AbortReduceUp, AbortReduceDown, Finish, GoTo, Past
<1>7. CASE UNCHANGED workerVars
    BY <1>1, <1>7 DEF workerVars, workVars, Past
<1>8. ASSUME NEW r \in Rank, WorkerStep(r)
      PROVE  /\ \A q \in Rank : Past(q)' <=> Past(q)
             /\ \A q \in Rank : phase[q] = "cleanup" => phase'[q] = "cleanup"
  <2>1. CASE Serve(r) \/ CountReceipts(r) \/ Ask(r) \/ Work(r)
      BY <2>1, <1>3 DEF Past
  <2>2. CASE Flood(r) \/ FloodEnds(r) \/ EnterBarrier(r)
      BY <2>2, <1>2, <1>4
  <2>3. CASE Turn(r)
      BY <2>3, <1>2, <1>5
  <2>4. CASE Vote(r)
      BY <2>4, <1>2, <1>6
  <2>. QED
      BY <1>8, <2>1, <2>2, <2>3, <2>4 DEF WorkerStep
<1>. QED
    BY <1>1, <1>7, <1>8 DEF WorkerNext

(* Once a rank has left the work loop it asks for no work and floods no    *)
(* abort any more.                                                         *)
LEMMA NothingNewInCleanup ==
    ASSUME WorkerTypes, [WorkerNext]_workerVars, NEW q \in Rank, phase[q] # "loop"
    PROVE  /\ work_requested[q] = None => work_requested'[q] = None
           /\ ~abort_outstanding[q] => ~abort_outstanding'[q]
<1>0. work_requested \in [Rank -> Rank \cup {None}] /\ abort_outstanding \in [Rank -> BOOLEAN]
    BY DEF WorkerTypes
<1>1. CASE UNCHANGED <<work_requested, abort_outstanding>>
    BY <1>1
<1>2. ASSUME NEW r \in Rank, Ask(r)
      PROVE  /\ abort_outstanding' = abort_outstanding
             /\ work_requested[q] = None => work_requested'[q] = None
    BY <1>0, <1>2 DEF Ask, SendRequest, ReceiveReply, InLoop, abortVars
<1>3. ASSUME NEW r \in Rank, Flood(r) \/ FloodEnds(r)
      PROVE  /\ work_requested' = work_requested
             /\ ~abort_outstanding[q] => ~abort_outstanding'[q]
    BY <1>0, <1>3 DEF Flood, FloodEnds, CIRCLE_abort_check, AbortTest, abort_start, GoTo
<1>4. \/ \E r \in Rank : Ask(r) \/ Flood(r) \/ FloodEnds(r)
      \/ UNCHANGED <<work_requested, abort_outstanding>>
  <2>1. ASSUME NEW r \in Rank, Vote(r)
        PROVE  UNCHANGED <<work_requested, abort_outstanding>>
      BY <2>1 DEF Vote, AbortReduceUp, AbortReduceDown, Finish, GoTo
  <2>2. ASSUME NEW r \in Rank, Turn(r)
        PROVE  UNCHANGED <<work_requested, abort_outstanding>>
      BY <2>2 DEF Turn, GoTo, abortVars
  <2>3. ASSUME NEW r \in Rank, EnterBarrier(r) \/ TestBarrier(r)
        PROVE  UNCHANGED <<work_requested, abort_outstanding>>
      BY <2>3 DEF EnterBarrier, TestBarrier, CIRCLE_barrier_start, BarrierGather,
         BarrierResult, BarrierWait, BarrierSendUp, BarrierComplete, GoTo, abortVars
  <2>4. ASSUME NEW r \in Rank, Serve(r) \/ CountReceipts(r) \/ Work(r)
        PROVE  UNCHANGED <<work_requested, abort_outstanding>>
      BY <2>4 DEF Serve, CountReceipts, Work, CIRCLE_workreq_check,
         CIRCLE_workreceipt_check, Process, abortVars
  <2>. QED
      BY <2>1, <2>2, <2>3, <2>4 DEF WorkerNext, WorkerStep, workerVars, workVars, abortVars
<1>. QED
    BY <1>1, <1>2, <1>3, <1>4

(* Nobody is at the barrier in the initial state.                          *)
LEMMA BarrierInitially == WorkerInit => Barrier
<1>. SUFFICES ASSUME WorkerInit PROVE Barrier
    OBVIOUS
<1>1. /\ barriers = {}
      /\ \A r \in Rank : ~barrier_started[r] /\ ~barrier_up[r] /\ barrier_replies[r] = 0 /\ ~Past(r)
    BY DEF WorkerInit, WorkInit, BarrierInit, Past
<1>2. ASSUME NEW p \in Rank PROVE Cardinality(Heard(p)) = 0
  <2>1. Heard(p) = {}
      BY <1>1, TreeFacts DEF Heard
  <2>. QED
      BY <2>1, FS_EmptySet
<1>. QED
    BY <1>1, <1>2, TreeFacts DEF Barrier

(* A rank that takes barrier messages has not told its parent yet, so the  *)
(* messages are from children; the count it reaches counts them.           *)
LEMMA BarrierGatherFacts ==
    ASSUME WorkerTypes, Barrier, NEW r \in Rank, ~Past(r), NEW from \in SUBSET BarrierSources(r),
           BarrierCount(r, from) <= children(r), from # {} \/ ~barrier_up[r]
    PROVE  /\ ~barrier_up[r]
           /\ \A s \in Rank : <<s, r>> \in barriers => s \in child_ranks(r) /\ barrier_up[s]
           /\ from \in SUBSET child_ranks(r)
           /\ \A c \in from : <<c, r>> \in barriers /\ barrier_up[c]
           /\ BarrierCount(r, from) = Cardinality(Heard(r) \cup from)
           /\ BarrierCount(r, from) = children(r) => Heard(r) \cup from = child_ranks(r)
<1>1. Heard(r) \in SUBSET child_ranks(r) /\ Heard(r) \in SUBSET Rank /\ from \in SUBSET Rank
    BY TreeFacts DEF Heard, BarrierSources
<1>2. /\ IsFiniteSet(Heard(r)) /\ Cardinality(Heard(r)) \in Nat
      /\ IsFiniteSet(from) /\ Cardinality(from) \in Nat
    BY <1>1, RankFacts
<1>3. barrier_replies[r] = Cardinality(Heard(r))
    BY DEF Barrier
<1>4. /\ child_ranks(r) \in SUBSET Rank
      /\ children(r) = Cardinality(child_ranks(r))
      /\ children(r) \in Nat
    BY ChildrenCount
<1>5. ~barrier_up[r]
  <2>. SUFFICES ASSUME barrier_up[r], from # {} PROVE FALSE
      OBVIOUS
  <2>1. barrier_replies[r] = children(r)
      BY <1>3, <1>4 DEF Barrier
  <2>2. Cardinality(from) # 0
      BY <1>2, FS_EmptySet
  <2>. QED
      BY <1>2, <1>4, <2>1, <2>2 DEF BarrierCount
<1>6. ASSUME NEW s \in Rank, <<s, r>> \in barriers
      PROVE  s \in child_ranks(r) /\ barrier_up[s]
  <2>. DEFINE m == <<s, r>>
  <2>1. m[1] = s /\ m[2] = r
      OBVIOUS
  <2>2. GoesUp(m)
      BY <1>5, <1>6, <2>1 DEF Barrier
  <2>3. barrier_up[s]
      BY <1>6, <2>1, <2>2 DEF Barrier
  <2>4. s # 0 /\ r = parent_rank(s)
      BY <2>1, <2>2 DEF GoesUp
  <2>. QED
      BY <2>3, <2>4, TreeFacts
<1>7. /\ from \in SUBSET child_ranks(r)
      /\ \A c \in from : <<c, r>> \in barriers /\ barrier_up[c]
    BY <1>6 DEF BarrierSources
<1>8. Heard(r) \cap from = {}
    BY <1>7 DEF Heard
<1>9. /\ BarrierCount(r, from) = Cardinality(Heard(r) \cup from)
      /\ IsFiniteSet(Heard(r) \cup from)
  <2>1. /\ IsFiniteSet(Heard(r) \cup from)
        /\ Cardinality(Heard(r) \cup from) =
              Cardinality(Heard(r)) + Cardinality(from) - Cardinality(Heard(r) \cap from)
      BY <1>2, FS_Union
  <2>2. Cardinality(Heard(r) \cap from) = 0
      BY <1>8, FS_EmptySet
  <2>. QED
      BY <1>2, <1>3, <2>1, <2>2 DEF BarrierCount
<1>10. ASSUME BarrierCount(r, from) = children(r) PROVE Heard(r) \cup from = child_ranks(r)
  <2>1. Heard(r) \cup from \in SUBSET child_ranks(r) /\ IsFiniteSet(child_ranks(r))
      BY <1>1, <1>4, <1>7, RankFacts
  <2>2. Cardinality(child_ranks(r)) = Cardinality(Heard(r) \cup from)
      BY <1>4, <1>9, <1>10
  <2>. QED
      BY <2>1, <2>2, FS_Subset
<1>. QED
    BY <1>5, <1>6, <1>7, <1>9, <1>10

(* The messages taken move to the count.                                   *)
LEMMA HeardMore ==
    ASSUME WorkerTypes, Barrier, NEW r \in Rank, ~Past(r), NEW from \in SUBSET BarrierSources(r),
           BarrierCount(r, from) <= children(r), from # {} \/ ~barrier_up[r],
           barrier_replies' = [barrier_replies EXCEPT ![r] = BarrierCount(r, from)],
           \A c \in child_ranks(r) : barrier_up'[c] = barrier_up[c],
           \A c \in child_ranks(r) : <<c, r>> \in barriers' <=> <<c, r>> \in barriers /\ c \notin from
    PROVE  /\ Heard(r)' = Heard(r) \cup from
           /\ barrier_replies'[r] = Cardinality(Heard(r)')
<1>1. /\ from \in SUBSET child_ranks(r)
      /\ \A c \in from : <<c, r>> \in barriers /\ barrier_up[c]
      /\ BarrierCount(r, from) = Cardinality(Heard(r) \cup from)
    BY BarrierGatherFacts
<1>2. Heard(r)' = Heard(r) \cup from
    BY <1>1 DEF Heard
<1>3. barrier_replies'[r] = BarrierCount(r, from)
    BY DEF WorkerTypes
<1>. QED
    BY <1>1, <1>2, <1>3

(* A rank that waits keeps the barrier in order.                           *)
LEMMA BarrierWaits ==
    ASSUME WorkerTypes, Barrier, NEW r \in Rank, phase[r] = "cleanup",
           NEW from \in SUBSET BarrierSources(r),
           BarrierCount(r, from) <= children(r), from # {}, BarrierWait(r, from),
           UNCHANGED abortVars
    PROVE  Barrier'
<1>0. ~Past(r)
    BY DEF Past
<1>1. /\ ~barrier_up[r]
      /\ \A s \in Rank : <<s, r>> \in barriers => s \in child_ranks(r) /\ barrier_up[s]
      /\ from \in SUBSET child_ranks(r)
    BY <1>0, BarrierGatherFacts
<1>2. /\ barriers' = barriers \ {<<s, r>> : s \in from}
      /\ barrier_replies' = [barrier_replies EXCEPT ![r] = BarrierCount(r, from)]
      /\ barrier_up' = barrier_up /\ barrier_started' = barrier_started
      /\ work_requested' = work_requested /\ abort_outstanding' = abort_outstanding
    BY DEF BarrierWait, BarrierRest, GoTo, abortVars
<1>3. \A q \in Rank : phase'[q] = phase[q]
    BY DEF BarrierWait, GoTo, WorkerTypes
<1>4. \A q \in Rank : Past(q)' <=> Past(q)
    BY <1>3 DEF Past
<1>5. /\ barriers' \subseteq barriers
      /\ \A x, y \in Rank : y # r => (<<x, y>> \in barriers' <=> <<x, y>> \in barriers)
      /\ \A x \in Rank : <<x, r>> \in barriers' <=> <<x, r>> \in barriers /\ x \notin from
    BY <1>2
<1>6. \A m \in barriers' : m[1] \in Rank /\ m[2] \in Rank
    BY <1>5 DEF WorkerTypes, Pairs
<1>7. /\ \A m \in barriers' : GoesUp(m) \/ GoesDown(m)
      /\ \A m \in barriers' : GoesUp(m) => barrier_up'[m[1]] /\ ~barrier_up'[m[2]] /\ ~Past(m[2])'
      /\ \A m \in barriers' : GoesDown(m) => Past(m[1])' /\ barrier_up'[m[2]]
    BY <1>2, <1>4, <1>5, <1>6 DEF Barrier
<1>8. /\ \A c \in Rank : c # 0 /\ Past(c)' => Past(parent_rank(c))'
      /\ \A c \in Rank : c # 0 /\ Past(parent_rank(c))' => Past(c)' \/ barrier_up'[c]
    BY <1>2, <1>4, TreeFacts DEF Barrier
<1>9. \A p \in Rank : p # r => Heard(p)' = Heard(p)
    BY <1>2, <1>5, TreeFacts DEF Heard
<1>10. barrier_replies'[r] = Cardinality(Heard(r)')
    BY <1>0, <1>1, <1>2, <1>5, TreeFacts, HeardMore
<1>11. \A p \in Rank : barrier_up'[p] => p # 0 /\ Heard(p)' = child_ranks(p)
    BY <1>1, <1>2, <1>9 DEF Barrier
<1>12. ASSUME NEW p \in Rank, ~Past(p)' PROVE barrier_replies'[p] = Cardinality(Heard(p)')
  <2>1. CASE p = r
      BY <2>1, <1>10
  <2>2. CASE p # r
    <3>1. barrier_replies'[p] = barrier_replies[p] /\ Heard(p)' = Heard(p) /\ ~Past(p)
        BY <1>2, <1>4, <1>9, <1>12, <2>2 DEF WorkerTypes
    <3>. QED
        BY <3>1 DEF Barrier
  <2>. QED
      BY <2>1, <2>2
<1>13. /\ \A q \in Rank : barrier_up'[q] => barrier_started'[q]
       /\ \A q \in Rank : barrier_started'[q] => phase'[q] = "cleanup"
       /\ \A q \in Rank : barrier_started'[q] \/ Past(q)' =>
             work_requested'[q] = None /\ ~abort_outstanding'[q]
    BY <1>2, <1>3, <1>4 DEF Barrier
<1>. QED
    BY <1>7, <1>8, <1>11, <1>12, <1>13 DEF Barrier, GoesUp, GoesDown

(* A rank that tells its parent has heard from all of its children.        *)
LEMMA BarrierSendsUp ==
    ASSUME WorkerTypes, Barrier, NEW r \in Rank, r # 0, phase[r] = "cleanup", barrier_started[r],
           NEW from \in SUBSET BarrierSources(r),
           BarrierReady(r, from), BarrierSendUp(r, from), UNCHANGED abortVars
    PROVE  Barrier'
<1>. DEFINE p0 == parent_rank(r)
<1>0. ~Past(r) /\ ~barrier_up[r] /\ BarrierCount(r, from) = children(r)
      /\ BarrierCount(r, from) <= children(r)
    BY ChildrenCount DEF Past, BarrierReady
<1>a. p0 \in Rank /\ p0 # r /\ r \in child_ranks(p0) /\ (p0 # 0 => parent_rank(p0) # r)
    BY TreeFacts
<1>1. /\ \A s \in Rank : <<s, r>> \in barriers => s \in child_ranks(r) /\ barrier_up[s]
      /\ from \in SUBSET child_ranks(r)
      /\ Heard(r) \cup from = child_ranks(r)
    BY <1>0, BarrierGatherFacts
<1>2. /\ barriers' = (barriers \ {<<s, r>> : s \in from}) \cup {<<r, p0>>}
      /\ barrier_replies' = [barrier_replies EXCEPT ![r] = BarrierCount(r, from)]
      /\ barrier_up' = [barrier_up EXCEPT ![r] = TRUE] /\ barrier_started' = barrier_started
      /\ work_requested' = work_requested /\ abort_outstanding' = abort_outstanding
    BY DEF BarrierSendUp, BarrierRest, GoTo, abortVars
<1>3. \A q \in Rank : phase'[q] = phase[q]
    BY DEF BarrierSendUp, GoTo, WorkerTypes
<1>4. \A q \in Rank : Past(q)' <=> Past(q)
    BY <1>3 DEF Past
<1>5. /\ barrier_up'[r] /\ \A q \in Rank : q # r => barrier_up'[q] = barrier_up[q]
      /\ \A m \in barriers' : m \in barriers \/ m = <<r, p0>>
      /\ \A x, y \in Rank : y # r /\ <<x, y>> # <<r, p0>> =>
            (<<x, y>> \in barriers' <=> <<x, y>> \in barriers)
      /\ \A x \in Rank : <<x, r>> \in barriers' <=> <<x, r>> \in barriers /\ x \notin from
      /\ <<r, p0>> \in barriers'
    BY <1>2, <1>a DEF WorkerTypes
<1>6. \A m \in barriers : m[1] \in Rank /\ m[2] \in Rank /\ m = <<m[1], m[2]>>
    BY DEF WorkerTypes, Pairs
<1>b. ~Past(p0) /\ ~barrier_up[p0]
  <2>1. ~Past(p0)
      BY <1>0, <1>a DEF Barrier
  <2>2. ~barrier_up[p0]
    <3>1. barrier_up[p0] => Heard(p0) = child_ranks(p0)
        BY <1>a DEF Barrier
    <3>2. r \notin Heard(p0)
        BY <1>0 DEF Heard
    <3>. QED
        BY <1>a, <3>1, <3>2
  <2>. QED
      BY <2>1, <2>2
<1>c. \A m \in barriers : m # <<r, p0>> => m[1] # r
  <2>. SUFFICES ASSUME NEW m \in barriers, m # <<r, p0>>, m[1] = r PROVE FALSE
      OBVIOUS
  <2>1. m[1] \in Rank /\ m[2] \in Rank /\ m = <<m[1], m[2]>>
      BY <1>6
  <2>2. ~GoesUp(m)
      BY <2>1 DEF GoesUp
  <2>3. GoesDown(m)
      BY <2>2 DEF Barrier
  <2>. QED
      BY <1>0, <2>3 DEF Barrier
<1>d. \A m \in barriers' : m[2] = r => FALSE
  <2>. SUFFICES ASSUME NEW m \in barriers', m[2] = r PROVE FALSE
      OBVIOUS
  <2>1. m \in barriers /\ m = <<m[1], r>> /\ m[1] \in Rank
      BY <1>5, <1>6, <1>a
  <2>2. m[1] \in child_ranks(r) /\ m[1] \notin from
      BY <1>1, <1>5, <2>1
  <2>3. m[1] \in Heard(r)
      BY <1>1, <2>2
  <2>. QED
      BY <2>1, <2>3 DEF Heard
<1>7. ASSUME NEW m \in barriers'
      PROVE  /\ GoesUp(m) \/ GoesDown(m)
             /\ GoesUp(m) => barrier_up'[m[1]] /\ ~barrier_up'[m[2]] /\ ~Past(m[2])'
             /\ GoesDown(m) => Past(m[1])' /\ barrier_up'[m[2]]
  <2>1. CASE m = <<r, p0>>
    <3>1. GoesUp(m) /\ ~GoesDown(m) /\ m[1] = r /\ m[2] = p0
        BY <2>1, <1>a DEF GoesUp, GoesDown
    <3>. QED
        BY <3>1, <1>a, <1>b, <1>4, <1>5
  <2>2. CASE m # <<r, p0>>
    <3>1. m \in barriers /\ m[1] \in Rank /\ m[2] \in Rank /\ m[2] # r
        BY <1>5, <1>6, <1>d, <2>2
    <3>2. m[1] # r
        BY <1>c, <3>1, <2>2
    <3>. QED
        BY <3>1, <3>2, <1>4, <1>5 DEF Barrier
  <2>. QED
      BY <2>1, <2>2
<1>8. /\ \A c \in Rank : c # 0 /\ Past(c)' => Past(parent_rank(c))'
      /\ \A c \in Rank : c # 0 /\ Past(parent_rank(c))' => Past(c)' \/ barrier_up'[c]
    BY <1>4, <1>5, TreeFacts DEF Barrier
<1>9. ASSUME NEW p \in Rank, p # r PROVE Heard(p)' = Heard(p)
  <2>1. ASSUME NEW c \in child_ranks(p), c # r
        PROVE  /\ barrier_up'[c] = barrier_up[c]
               /\ <<c, p>> \in barriers' <=> <<c, p>> \in barriers
    <3>1. c \in Rank
        BY TreeFacts
    <3>2. <<c, p>> # <<r, p0>>
        BY <2>1
    <3>. QED
        BY <1>5, <1>9, <2>1, <3>1, <3>2
  <2>2. ASSUME r \in child_ranks(p) PROVE r \notin Heard(p) /\ r \notin Heard(p)'
    <3>1. p = p0
        BY <2>2, TreeFacts
    <3>. QED
        BY <3>1, <1>0, <1>5 DEF Heard
  <2>. QED
      BY <2>1, <2>2 DEF Heard
<1>10. barrier_replies'[r] = Cardinality(Heard(r)') /\ Heard(r)' = child_ranks(r)
  <2>1. \A c \in child_ranks(r) : c \in Rank /\ c # r
      BY TreeFacts
  <2>2. /\ \A c \in child_ranks(r) : barrier_up'[c] = barrier_up[c]
        /\ \A c \in child_ranks(r) :
              <<c, r>> \in barriers' <=> <<c, r>> \in barriers /\ c \notin from
      BY <2>1, <1>5
  <2>. QED
      BY <2>2, <1>0, <1>1, <1>2, HeardMore
<1>11. \A p \in Rank : barrier_up'[p] => p # 0 /\ Heard(p)' = child_ranks(p)
    BY <1>5, <1>9, <1>10 DEF Barrier
<1>12. ASSUME NEW p \in Rank, ~Past(p)' PROVE barrier_replies'[p] = Cardinality(Heard(p)')
  <2>1. CASE p = r
      BY <2>1, <1>10
  <2>2. CASE p # r
    <3>1. barrier_replies'[p] = barrier_replies[p] /\ Heard(p)' = Heard(p) /\ ~Past(p)
        BY <1>2, <1>4, <1>9, <1>12, <2>2 DEF WorkerTypes
    <3>. QED
        BY <3>1 DEF Barrier
  <2>. QED
      BY <2>1, <2>2
<1>13. /\ \A q \in Rank : barrier_up'[q] => barrier_started'[q]
       /\ \A q \in Rank : barrier_started'[q] => phase'[q] = "cleanup"
       /\ \A q \in Rank : barrier_started'[q] \/ Past(q)' =>
             work_requested'[q] = None /\ ~abort_outstanding'[q]
    BY <1>2, <1>3, <1>4, <1>5 DEF Barrier
<1>. QED
    BY <1>7, <1>8, <1>11, <1>12, <1>13 DEF Barrier, GoesUp, GoesDown

(* A rank whose parent is past the barrier, or the root, passes it when    *)
(* all of its children wait for it.                                        *)
LEMMA BarrierPasses ==
    ASSUME WorkerTypes, Barrier, NEW r \in Rank, phase[r] = "cleanup",
           NEW rest \in SUBSET barriers, BarrierComplete(r, rest), UNCHANGED abortVars,
           barrier_started[r],
           \A c \in child_ranks(r) : barrier_up[c],
           \A m \in barriers : m \in rest \/ m[2] = r,
           \A m \in rest : m[2] # r,
           r # 0 => Past(parent_rank(r))
    PROVE  Barrier'
<1>0. ~Past(r)
    BY DEF Past
<1>1. /\ barriers' = rest \cup {<<r, c>> : c \in child_ranks(r)}
      /\ barrier_replies' = [barrier_replies EXCEPT ![r] = 0]
      /\ barrier_up' = [barrier_up EXCEPT ![r] = FALSE]
      /\ barrier_started' = [barrier_started EXCEPT ![r] = FALSE]
      /\ work_requested' = work_requested /\ abort_outstanding' = abort_outstanding
      /\ phase' = [phase EXCEPT ![r] = "reduce"]
    BY DEF BarrierComplete, GoTo, abortVars
<1>2. /\ ~barrier_up'[r] /\ ~barrier_started'[r]
      /\ \A q \in Rank : q # r =>
            /\ barrier_up'[q] = barrier_up[q] /\ barrier_started'[q] = barrier_started[q]
            /\ barrier_replies'[q] = barrier_replies[q]
            /\ phase'[q] = phase[q]
            /\ Past(q)' <=> Past(q)
      /\ Past(r)'
    BY <1>1 DEF WorkerTypes, Past
<1>3. \A m \in barriers : m[1] \in Rank /\ m[2] \in Rank /\ m = <<m[1], m[2]>>
    BY DEF WorkerTypes, Pairs
<1>4. \A c \in child_ranks(r) : c \in Rank /\ c # r /\ c # 0 /\ parent_rank(c) = r
                                   /\ (r # 0 => parent_rank(r) # c)
    BY TreeFacts
<1>5. ASSUME NEW m \in rest PROVE m[1] # r /\ m[2] # r
  <2>. SUFFICES ASSUME m[1] = r PROVE FALSE
      OBVIOUS
  <2>1. m[1] \in Rank /\ m[2] \in Rank
      BY <1>3
  <2>2. ~GoesUp(m)
    <3>. SUFFICES ASSUME GoesUp(m) PROVE FALSE
        OBVIOUS
    <3>1. ~Past(m[2])
        BY DEF Barrier
    <3>. QED
        BY <3>1 DEF GoesUp
  <2>3. ~GoesDown(m)
      BY <1>0 DEF Barrier
  <2>. QED
      BY <2>2, <2>3 DEF Barrier
<1>6. ASSUME NEW m \in barriers'
      PROVE  /\ GoesUp(m) \/ GoesDown(m)
             /\ GoesUp(m) => barrier_up'[m[1]] /\ ~barrier_up'[m[2]] /\ ~Past(m[2])'
             /\ GoesDown(m) => Past(m[1])' /\ barrier_up'[m[2]]
  <2>1. CASE m \in rest
    <3>1. m \in barriers /\ m[1] \in Rank /\ m[2] \in Rank /\ m[1] # r /\ m[2] # r
        BY <1>3, <1>5, <2>1
    <3>. QED
        BY <1>2, <3>1 DEF Barrier
  <2>2. CASE m \notin rest
    <3>1. PICK c \in child_ranks(r) : m = <<r, c>>
        BY <1>1, <2>2
    <3>2. m[1] = r /\ m[2] = c /\ GoesDown(m) /\ ~GoesUp(m)
        BY <1>4, <3>1 DEF GoesDown, GoesUp
    <3>. QED
        BY <1>2, <1>4, <3>2
  <2>. QED
      BY <2>1, <2>2
<1>7. ASSUME NEW c \in Rank, c # 0, Past(c)' PROVE Past(parent_rank(c))'
  <2>1. parent_rank(c) \in Rank
      BY <1>7, TreeFacts
  <2>2. CASE c = r
      BY <1>2, <1>7, <2>1, <2>2
  <2>3. CASE c # r
      BY <1>2, <1>7, <2>1, <2>3 DEF Barrier
  <2>. QED
      BY <2>2, <2>3
<1>8. ASSUME NEW c \in Rank, c # 0, Past(parent_rank(c))' PROVE Past(c)' \/ barrier_up'[c]
  <2>1. parent_rank(c) \in Rank /\ c \in child_ranks(parent_rank(c))
      BY <1>8, TreeFacts
  <2>2. CASE c = r
      BY <1>2, <2>2
  <2>3. CASE c # r /\ parent_rank(c) = r
      BY <1>2, <2>1, <2>3
  <2>4. CASE c # r /\ parent_rank(c) # r
      BY <1>2, <1>8, <2>1, <2>4 DEF Barrier
  <2>. QED
      BY <2>2, <2>3, <2>4
<1>9. ASSUME NEW p \in Rank, p # r, ~Past(p) PROVE Heard(p)' = Heard(p)
  <2>1. r \notin child_ranks(p)
      BY <1>9, TreeFacts
  <2>2. ASSUME NEW c \in child_ranks(p)
        PROVE  /\ barrier_up'[c] = barrier_up[c]
               /\ <<c, p>> \in barriers' <=> <<c, p>> \in barriers
    <3>1. c \in Rank /\ c # r
        BY <2>1, TreeFacts
    <3>2. <<c, p>> \in barriers' <=> <<c, p>> \in rest
        BY <1>1, <3>1
    <3>3. <<c, p>> \in barriers => <<c, p>> \in rest
        BY <1>9
    <3>. QED
        BY <1>2, <3>1, <3>2, <3>3
  <2>. QED
      BY <2>2 DEF Heard
<1>10. ASSUME NEW p \in Rank, barrier_up'[p] PROVE p # 0 /\ Heard(p)' = child_ranks(p)
  <2>1. p # r /\ barrier_up[p]
      BY <1>2, <1>10
  <2>2. ~Past(p)
      BY <2>1 DEF Barrier, Past
  <2>. QED
      BY <1>9, <2>1, <2>2 DEF Barrier
<1>11. ASSUME NEW p \in Rank, ~Past(p)' PROVE barrier_replies'[p] = Cardinality(Heard(p)')
  <2>1. p # r /\ ~Past(p) /\ barrier_replies'[p] = barrier_replies[p]
      BY <1>2, <1>11
  <2>2. Heard(p)' = Heard(p)
      BY <1>9, <2>1
  <2>. QED
      BY <2>1, <2>2 DEF Barrier
<1>12. \A q \in Rank : barrier_up'[q] => barrier_started'[q]
    BY <1>2 DEF Barrier
<1>13. \A q \in Rank : barrier_started'[q] => phase'[q] = "cleanup"
    BY <1>2 DEF Barrier
<1>14. \A q \in Rank : barrier_started'[q] \/ Past(q)' =>
             work_requested'[q] = None /\ ~abort_outstanding'[q]
    BY <1>1, <1>2 DEF Barrier
<1>. QED
    BY <1>6, <1>7, <1>8, <1>10, <1>11, <1>12, <1>13, <1>14 DEF Barrier, GoesUp, GoesDown

(* Every step keeps the barrier in order.                                  *)
LEMMA BarrierStep ==
    ASSUME WorkerTypes, Barrier, [WorkerNext]_workerVars
    PROVE  Barrier'
<1>1. ASSUME NEW r \in Rank, TestBarrier(r) PROVE Barrier'
  <2>1. phase[r] = "cleanup" /\ ~Past(r) /\ UNCHANGED abortVars
      BY <1>1 DEF TestBarrier, BarrierGather, BarrierResult, InCleanup, Past
  <2>2. \A m \in barriers : m[1] \in Rank /\ m[2] \in Rank /\ m = <<m[1], m[2]>>
      BY DEF WorkerTypes, Pairs
  <2>3. CASE BarrierResult(r)
    <3>. DEFINE d == <<parent_rank(r), r>>
                rest == barriers \ {d}
    <3>1. barrier_up[r] /\ d \in barriers /\ BarrierComplete(r, rest)
        BY <2>3 DEF BarrierResult
    <3>2. r # 0 /\ barrier_started[r] /\ Heard(r) = child_ranks(r) /\ parent_rank(r) \in Rank
        BY <3>1, TreeFacts DEF Barrier
    <3>3. GoesDown(d) /\ d[1] = parent_rank(r)
        BY <3>2 DEF GoesDown
    <3>4. Past(parent_rank(r))
        BY <3>1, <3>3 DEF Barrier
    <3>5. \A c \in child_ranks(r) : barrier_up[c]
        BY <3>2 DEF Heard
    <3>6. ASSUME NEW m \in barriers, m[2] = r PROVE m = d
      <4>1. GoesDown(m)
          BY <3>1, <3>6 DEF Barrier
      <4>. QED
          BY <2>2, <3>6, <4>1 DEF GoesDown
    <3>7. rest \in SUBSET barriers /\ (\A m \in barriers : m \in rest \/ m[2] = r)
          /\ \A m \in rest : m[2] # r
        BY <3>6, d[2] = r
    <3>. HIDE DEF rest, d
    <3>. QED
        BY <2>1, <3>1, <3>2, <3>4, <3>5, <3>7, BarrierPasses
  <2>4. CASE BarrierGather(r)
    <3>1. PICK from \in SUBSET BarrierSources(r) :
             /\ BarrierCount(r, from) <= children(r)
             /\ \/ ~BarrierReady(r, from) /\ from # {} /\ BarrierWait(r, from)
                \/ BarrierReady(r, from) /\ r # 0 /\ BarrierSendUp(r, from)
                \/ BarrierReady(r, from) /\ r = 0 /\ BarrierComplete(r, BarrierRest(r, from))
        BY <2>4 DEF BarrierGather
    <3>2. barrier_started[r]
        BY <2>4 DEF BarrierGather
    <3>3. CASE from # {} /\ BarrierWait(r, from)
        BY <2>1, <3>1, <3>3, BarrierWaits
    <3>4. CASE BarrierReady(r, from) /\ r # 0 /\ BarrierSendUp(r, from)
        BY <2>1, <3>2, <3>4, BarrierSendsUp
    <3>5. CASE BarrierReady(r, from) /\ r = 0 /\ BarrierComplete(r, BarrierRest(r, from))
      <4>1. ~barrier_up[r] /\ BarrierCount(r, from) = children(r)
          BY <3>5 DEF BarrierReady
      <4>2. /\ \A s \in Rank : <<s, r>> \in barriers => s \in child_ranks(r) /\ barrier_up[s]
            /\ \A c \in from : barrier_up[c]
            /\ Heard(r) \cup from = child_ranks(r)
          BY <2>1, <3>1, <4>1, BarrierGatherFacts
      <4>3. \A c \in child_ranks(r) : barrier_up[c]
          BY <4>2 DEF Heard
      <4>4. ASSUME NEW m \in BarrierRest(r, from), m[2] = r PROVE FALSE
        <5>1. m \in barriers /\ m = <<m[1], r>> /\ m[1] \in Rank /\ m[1] \notin from
            BY <2>2, <4>4 DEF BarrierRest
        <5>2. m[1] \in Heard(r)
            BY <4>2, <5>1
        <5>. QED
            BY <5>1, <5>2 DEF Heard
      <4>5. BarrierRest(r, from) \in SUBSET barriers
            /\ \A m \in barriers : m \in BarrierRest(r, from) \/ m[2] = r
          BY DEF BarrierRest
      <4>. QED
          BY <2>1, <3>2, <3>5, <4>3, <4>4, <4>5, BarrierPasses
    <3>. QED
        BY <3>1, <3>3, <3>4, <3>5
  <2>. QED
      BY <1>1, <2>3, <2>4 DEF TestBarrier
<1>2. CASE ~\E r \in Rank : TestBarrier(r)
  <2>1. /\ UNCHANGED <<barrier_up, barrier_replies, barriers>>
        /\ \A q \in Rank : Past(q)' <=> Past(q)
        /\ \A q \in Rank : phase[q] = "cleanup" => phase'[q] = "cleanup"
      BY <1>2, OnlyBarrierPasses
  <2>2. \A m \in barriers : m[1] \in Rank /\ m[2] \in Rank
      BY DEF WorkerTypes, Pairs
  <2>3. /\ \A m \in barriers' : GoesUp(m) \/ GoesDown(m)
        /\ \A m \in barriers' : GoesUp(m) => barrier_up'[m[1]] /\ ~barrier_up'[m[2]] /\ ~Past(m[2])'
        /\ \A m \in barriers' : GoesDown(m) => Past(m[1])' /\ barrier_up'[m[2]]
      BY <2>1, <2>2 DEF Barrier
  <2>4. /\ \A c \in Rank : c # 0 /\ Past(c)' => Past(parent_rank(c))'
        /\ \A c \in Rank : c # 0 /\ Past(parent_rank(c))' => Past(c)' \/ barrier_up'[c]
      BY <2>1, TreeFacts DEF Barrier
  <2>5. \A p \in Rank : Heard(p)' = Heard(p)
      BY <2>1 DEF Heard
  <2>6. /\ \A p \in Rank : barrier_up'[p] => p # 0 /\ Heard(p)' = child_ranks(p)
        /\ \A p \in Rank : ~Past(p)' => barrier_replies'[p] = Cardinality(Heard(p)')
      BY <2>1, <2>5 DEF Barrier
  <2>7. ASSUME NEW q \in Rank
        PROVE  \/ barrier_started'[q] = barrier_started[q]
               \/ /\ barrier_started'[q] /\ phase[q] = "cleanup"
                  /\ work_requested[q] = None /\ ~abort_outstanding[q]
    <3>1. ASSUME NEW r \in Rank, EnterBarrier(r)
          PROVE  /\ barrier_started' = [barrier_started EXCEPT ![r] = TRUE]
                 /\ phase[r] = "cleanup" /\ work_requested[r] = None /\ ~abort_outstanding[r]
        BY <3>1 DEF EnterBarrier, CIRCLE_barrier_start, InCleanup
    <3>2. (\E r \in Rank : EnterBarrier(r)) \/ UNCHANGED barrier_started
        BY <1>2 DEF WorkerNext, WorkerStep, Serve, CountReceipts, Flood, FloodEnds, Ask,
           Work, Turn, Vote, workerVars, barrierVars
    <3>. QED
        BY <3>1, <3>2 DEF WorkerTypes
  <2>8. /\ \A q \in Rank : barrier_up'[q] => barrier_started'[q]
        /\ \A q \in Rank : barrier_started'[q] => phase'[q] = "cleanup"
      BY <2>1, <2>7 DEF Barrier
  <2>9. ASSUME NEW q \in Rank, barrier_started'[q] \/ Past(q)'
        PROVE  work_requested'[q] = None /\ ~abort_outstanding'[q]
    <3>1. work_requested[q] = None /\ ~abort_outstanding[q]
        BY <2>1, <2>7, <2>9 DEF Barrier
    <3>2. phase[q] # "loop"
        BY <2>1, <2>7, <2>9 DEF Barrier, Past
    <3>. QED
        BY <3>1, <3>2, NothingNewInCleanup
  <2>. QED
      BY <2>3, <2>4, <2>6, <2>8, <2>9 DEF Barrier, GoesUp, GoesDown
<1>. QED
    BY <1>1, <1>2

(* Once any rank is past the barrier every rank is past it or waits there, *)
(* with nothing outstanding.                                               *)
LEMMA PastTogether ==
    ASSUME WorkerTypes, Barrier, NEW r \in Rank, Past(r)
    PROVE  /\ Past(0)
           /\ \A q \in Rank : Past(q) \/ barrier_up[q]
<1>. USE RankFacts
<1>1. Past(0)
  <2>. DEFINE Top == {q \in Rank : Past(q)}
  <2>1. PICK q \in Top : \A y \in Top : ~(y < q)
      BY LeastRank, Top \in SUBSET Nat, r \in Top
  <2>2. q \in Rank /\ Past(q)
      OBVIOUS
  <2>3. q # 0 => parent_rank(q) \in Rank /\ parent_rank(q) < q /\ Past(parent_rank(q))
      BY <2>2, ParentBelow DEF Barrier
  <2>. QED
      BY <2>1, <2>2, <2>3
<1>2. \A q \in Rank : Past(q) \/ barrier_up[q]
  <2>. DEFINE Bad == {q \in Rank : ~(Past(q) \/ barrier_up[q])}
  <2>. SUFFICES ASSUME Bad # {} PROVE FALSE
      OBVIOUS
  <2>1. PICK q \in Bad : \A y \in Bad : ~(y < q)
      BY LeastRank, Bad \in SUBSET Nat
  <2>2. q \in Rank /\ ~Past(q) /\ ~barrier_up[q]
      OBVIOUS
  <2>3. q # 0
      BY <1>1, <2>2
  <2>4. parent_rank(q) \in Rank /\ parent_rank(q) < q /\ q \in child_ranks(parent_rank(q))
      BY <2>2, <2>3, ParentBelow, TreeFacts
  <2>5. Past(parent_rank(q)) \/ barrier_up[parent_rank(q)]
      BY <2>1, <2>4
  <2>6. ~Past(parent_rank(q))
      BY <2>2, <2>3 DEF Barrier
  <2>7. q \in Heard(parent_rank(q))
      BY <2>4, <2>5, <2>6 DEF Barrier
  <2>. QED
      BY <2>2, <2>7 DEF Heard
<1>. QED
    BY <1>1, <1>2

(* By then no request for work and no answer to one is in flight.          *)
LEMMA NoConversationPast ==
    ASSUME WorkerTypes, Conversation, Barrier, NEW r \in Rank, Past(r)
    PROVE  /\ requests = {} /\ replies = {}
           /\ \A q \in Rank : work_requested[q] = None /\ ~abort_outstanding[q]
<1>1. \A q \in Rank : work_requested[q] = None /\ ~abort_outstanding[q]
    BY PastTogether DEF Barrier
<1>2. ASSUME NEW m \in requests PROVE FALSE
  <2>1. m = <<m[1], m[2]>> /\ m[1] \in Rank /\ m[2] \in Rank
      BY DEF WorkerTypes, Pairs
  <2>. QED
      BY <1>1, <2>1, RankFacts DEF Conversation
<1>3. ASSUME NEW m \in replies PROVE FALSE
  <2>1. m.src \in Rank /\ m.dst \in Rank
      BY DEF WorkerTypes
  <2>. QED
      BY <1>1, <2>1, RankFacts DEF Conversation
<1>. QED
    BY <1>1, <1>2, <1>3

-----------------------------------------------------------------------------
(* The flood of abort requests.                                            *)

(* The steps that touch the abort state, its messages or work replies.     *)
LEMMA AbortSteps ==
    ASSUME [WorkerNext]_workerVars
    PROVE  \/ \E r \in Rank : \/ Serve(r) \/ Ask(r) \/ Work(r)
                              \/ Flood(r) \/ FloodEnds(r) \/ Vote(r)
           \/ UNCHANGED <<ABORT_FLAG, abort_state, abort_outstanding, abort_requests,
                          abort_replies, abort_reduces, checkpointed, replies, queue>>
<1>1. ASSUME NEW r \in Rank, CountReceipts(r) \/ Turn(r)
      PROVE  UNCHANGED <<ABORT_FLAG, abortVars, replies, queue>>
    BY <1>1 DEF CountReceipts, CIRCLE_workreceipt_check, Turn, GoTo
<1>2. ASSUME NEW r \in Rank, EnterBarrier(r) \/ TestBarrier(r)
      PROVE  UNCHANGED <<ABORT_FLAG, abortVars, replies, queue>>
    BY <1>2 DEF EnterBarrier, TestBarrier, CIRCLE_barrier_start, BarrierGather,
       BarrierResult, BarrierWait, BarrierSendUp, BarrierComplete, GoTo
<1>3. CASE UNCHANGED workerVars
    BY <1>3 DEF workerVars, workVars, abortVars
<1>. QED
    BY <1>1, <1>2, <1>3 DEF WorkerNext, WorkerStep, abortVars

(* No abort has been flooded in the initial state.                         *)
LEMMA FloodInit == WorkerInit => AbortFlood
BY DEF WorkerInit, WorkInit, AbortInit, AbortFlood

(* A rank is not its own neighbour, and neighbours are mutual.             *)
LEMMA Neighbours ==
    ASSUME NEW r \in Rank
    PROVE  /\ neighbours(r) \in SUBSET Rank
           /\ r \notin neighbours(r)
           /\ \A d \in neighbours(r) : r \in neighbours(d)
<1>1. neighbours(r) \in SUBSET Rank
    BY DEF neighbours
<1>2. parent_rank(r) # r
  <2>1. CASE r = 0
      BY <2>1 DEF parent_rank, None
  <2>2. CASE r # 0
      BY <2>2, TreeFacts
  <2>. QED
      BY <2>1, <2>2
<1>3. r \notin neighbours(r)
    BY <1>2, TreeFacts DEF neighbours
<1>4. ASSUME NEW d \in neighbours(r) PROVE r \in neighbours(d)
  <2>1. d \in Rank /\ (d = parent_rank(r) \/ d \in child_ranks(r))
      BY DEF neighbours
  <2>2. CASE d = parent_rank(r)
    <3>1. r # 0
        BY <2>1, <2>2, RankFacts DEF parent_rank
    <3>. QED
        BY <2>1, <2>2, <3>1, TreeFacts DEF neighbours
  <2>3. CASE d \in child_ranks(r)
      BY <2>3, TreeFacts DEF neighbours
  <2>. QED
      BY <2>1, <2>2, <2>3
<1>. QED
    BY <1>1, <1>3, <1>4

(* CIRCLE_abort_check answers a request and sends requests of its own.     *)
LEMMA FloodCheck ==
    ASSUME WorkerTypes, AbortFlood, NEW r \in Rank, Flood(r)
    PROVE  AbortFlood'
<1>. DEFINE to == IF abort_start(r) THEN neighbours(r) ELSE {}
<1>1. PICK from \in SUBSET {s \in Rank : <<s, r>> \in abort_requests} :
         /\ abort_requests' = (abort_requests \ {<<s, r>> : s \in from}) \cup {<<r, d>> : d \in to}
         /\ abort_replies' = abort_replies \cup {<<r, s>> : s \in from}
    BY DEF Flood, CIRCLE_abort_check
<1>2. /\ abort_outstanding' = [abort_outstanding EXCEPT
            ![r] = @ \/ (abort_start(r) /\ neighbours(r) # {})]
      /\ abort_state' = [abort_state EXCEPT ![r] = TRUE]
      /\ ABORT_FLAG' = [ABORT_FLAG EXCEPT ![r] = TRUE]
      /\ replies' = replies
    BY DEF Flood, CIRCLE_abort_check, GoTo
<1>3. /\ to \in SUBSET Rank /\ r \notin to
      /\ \A d \in to : d \in neighbours(r) /\ ~abort_state[r]
    BY Neighbours DEF abort_start
<1>4. /\ to # {} => abort_outstanding'[r]
      /\ \A q \in Rank : abort_outstanding[q] => abort_outstanding'[q]
      /\ \A q \in Rank : q # r => abort_outstanding'[q] = abort_outstanding[q]
      /\ \A q \in Rank : ABORT_FLAG[q] => ABORT_FLAG'[q]
      /\ abort_state'[r] /\ ABORT_FLAG'[r]
      /\ \A q \in Rank : q # r => abort_state'[q] = abort_state[q] /\ ABORT_FLAG'[q] = ABORT_FLAG[q]
    BY <1>2 DEF WorkerTypes
<1>. HIDE DEF to
<1>5. /\ \A m \in abort_requests : m[1] \in Rank /\ m[2] \in Rank /\ m = <<m[1], m[2]>>
      /\ \A m \in abort_replies : m[1] \in Rank /\ m[2] \in Rank /\ m = <<m[1], m[2]>>
    BY DEF WorkerTypes, Pairs
<1>6. ASSUME NEW m \in abort_requests'
      PROVE  /\ m[2] \in neighbours(m[1]) /\ abort_outstanding'[m[1]]
             /\ <<m[2], m[1]>> \notin abort_replies'
  <2>1. CASE m \in abort_requests /\ ~\E s \in from : m = <<s, r>>
    <3>1. /\ m[2] \in neighbours(m[1]) /\ abort_outstanding[m[1]]
          /\ <<m[2], m[1]>> \notin abort_replies
        BY <2>1 DEF AbortFlood
    <3>2. ASSUME <<m[2], m[1]>> \in abort_replies' PROVE FALSE
      <4>1. PICK s \in from : <<m[2], m[1]>> = <<r, s>>
          BY <1>1, <3>1, <3>2
      <4>. QED
          BY <1>5, <2>1, <4>1
    <3>. QED
        BY <1>4, <1>5, <2>1, <3>1, <3>2
  <2>2. CASE \E d \in to : m = <<r, d>>
    <3>1. PICK d \in to : m = <<r, d>>
        BY <2>2
    <3>2. m[1] = r /\ m[2] = d /\ d \in neighbours(r) /\ abort_outstanding'[r] /\ d # r /\ d \in Rank
        BY <1>3, <1>4, <3>1
    <3>3. <<d, r>> \notin abort_replies
      <4>. SUFFICES ASSUME <<d, r>> \in abort_replies PROVE FALSE
          OBVIOUS
      <4>1. abort_outstanding[r]
          BY DEF AbortFlood
      <4>. QED
          BY <1>3, <4>1 DEF AbortFlood
    <3>4. <<d, r>> \notin abort_replies'
        BY <1>1, <3>2, <3>3
    <3>. QED
        BY <3>2, <3>4
  <2>. QED
      BY <1>1, <2>1, <2>2
<1>7. ASSUME NEW m \in abort_replies'
      PROVE  m[1] \in neighbours(m[2]) /\ abort_outstanding'[m[2]]
  <2>1. CASE m \in abort_replies
      BY <1>4, <1>5, <2>1 DEF AbortFlood
  <2>2. CASE m \notin abort_replies
    <3>1. PICK s \in from : m = <<r, s>>
        BY <1>1, <2>2
    <3>2. s \in Rank /\ <<s, r>> \in abort_requests
        OBVIOUS
    <3>3. r \in neighbours(s) /\ abort_outstanding[s]
        BY <3>2 DEF AbortFlood
    <3>. QED
        BY <1>4, <3>1, <3>2, <3>3
  <2>. QED
      BY <2>1, <2>2
<1>8. \A q \in Rank : abort_outstanding'[q] => abort_state'[q]
    BY <1>4 DEF AbortFlood
<1>9. \A q \in Rank : abort_state'[q] => ABORT_FLAG'[q]
    BY <1>4 DEF AbortFlood
<1>10. \A m \in replies' : m.abort => ABORT_FLAG'[m.src]
  <2>1. \A m \in replies : m.src \in Rank
      BY DEF WorkerTypes
  <2>. QED
      BY <1>2, <1>4, <2>1 DEF AbortFlood
<1>. QED
    BY <1>6, <1>7, <1>8, <1>9, <1>10 DEF AbortFlood

(* The MPI_Testall that ends a rank's flood takes all the replies to it.   *)
LEMMA FloodTest ==
    ASSUME WorkerTypes, AbortFlood, NEW r \in Rank, FloodEnds(r)
    PROVE  AbortFlood'
<1>1. /\ \A d \in neighbours(r) : <<d, r>> \in abort_replies
      /\ abort_replies' = abort_replies \ {<<d, r>> : d \in neighbours(r)}
      /\ abort_outstanding' = [abort_outstanding EXCEPT ![r] = FALSE]
      /\ UNCHANGED <<ABORT_FLAG, abort_state, abort_requests, replies>>
    BY DEF FloodEnds, AbortTest, GoTo
<1>2. \A q \in Rank : abort_outstanding'[q] <=> abort_outstanding[q] /\ q # r
    BY <1>1 DEF WorkerTypes
<1>3. /\ \A m \in abort_requests : m[1] \in Rank /\ m[2] \in Rank /\ m = <<m[1], m[2]>>
      /\ \A m \in abort_replies : m[1] \in Rank /\ m[2] \in Rank /\ m = <<m[1], m[2]>>
    BY DEF WorkerTypes, Pairs
<1>4. \A m \in abort_requests : m[1] # r
    BY <1>1, <1>3 DEF AbortFlood
<1>5. \A m \in abort_replies' : m \in abort_replies /\ m[2] # r
    BY <1>1, <1>3 DEF AbortFlood
<1>. QED
    BY <1>1, <1>2, <1>3, <1>4, <1>5 DEF AbortFlood

(* Every step before the final reduction keeps the flood accounted for.    *)
LEMMA FloodOther ==
    ASSUME WorkerTypes, WorkerTypes', AbortFlood, [WorkerNext]_workerVars,
           ~\E r \in Rank : Vote(r)
    PROVE  AbortFlood'
<1>0. \A m \in replies : m.src \in Rank
    BY DEF WorkerTypes
<1>1. ASSUME NEW r \in Rank, Serve(r) PROVE AbortFlood'
  <2>1. UNCHANGED <<ABORT_FLAG, abortVars>>
      BY <1>1 DEF Serve, CIRCLE_workreq_check
  <2>2. PICK S : Refuse(r, S) \/ Share(r, S)
      BY <1>1 DEF Serve, CIRCLE_workreq_check
  <2>3. \A m \in replies' : m \in replies \/ (m.src = r /\ (m.abort => ABORT_FLAG[r]))
    <3>1. CASE Refuse(r, S)
        BY <3>1 DEF Refuse, no_work
    <3>2. CASE Share(r, S)
        BY <3>2 DEF Share
    <3>. QED
        BY <2>2, <3>1, <3>2
  <2>. QED
      BY <2>1, <2>3 DEF AbortFlood, abortVars
<1>2. ASSUME NEW r \in Rank, Ask(r) PROVE AbortFlood'
  <2>1. /\ UNCHANGED abortVars /\ replies' \subseteq replies
        /\ \A q \in Rank : ABORT_FLAG[q] => ABORT_FLAG'[q]
      BY <1>2 DEF Ask, SendRequest, ReceiveReply, WorkerTypes
  <2>. QED
      BY <1>0, <2>1 DEF AbortFlood, abortVars
<1>3. ASSUME NEW r \in Rank, Work(r) PROVE AbortFlood'
  <2>1. /\ UNCHANGED abortVars /\ replies' = replies
        /\ \A q \in Rank : ABORT_FLAG[q] => ABORT_FLAG'[q]
      BY <1>3 DEF Work, Process, WorkerTypes
  <2>. QED
      BY <1>0, <2>1 DEF AbortFlood, abortVars
<1>4. CASE UNCHANGED <<ABORT_FLAG, abort_state, abort_outstanding, abort_requests,
                       abort_replies, abort_reduces, checkpointed, replies, queue>>
    BY <1>4 DEF AbortFlood
<1>. QED
    BY <1>1, <1>2, <1>3, <1>4, FloodCheck, FloodTest, AbortSteps

(* So does the reduction: the flood is over by then.                       *)
LEMMA FloodStep ==
    ASSUME WorkerTypes, WorkerTypes', Conversation, Barrier, AbortFlood, [WorkerNext]_workerVars
    PROVE  AbortFlood'
<1>1. ASSUME NEW r \in Rank, Vote(r) PROVE AbortFlood'
  <2>1. Past(r) /\ UNCHANGED <<abort_outstanding, abort_requests, abort_replies, replies>>
      BY <1>1 DEF Vote, AbortReduceUp, AbortReduceDown, Finish, GoTo, Past
  <2>2. replies = {} /\ \A q \in Rank : ~abort_outstanding[q]
      BY <2>1, NoConversationPast
  <2>3. \/ UNCHANGED <<ABORT_FLAG, abort_state>>
        \/ \E flag : /\ ABORT_FLAG' = [ABORT_FLAG EXCEPT ![r] = flag]
                     /\ abort_state' = [abort_state EXCEPT ![r] = flag]
      BY <1>1 DEF Vote, AbortReduceUp, AbortReduceDown, Finish
  <2>4. \A q \in Rank : abort_state'[q] => ABORT_FLAG'[q]
      BY <2>3 DEF AbortFlood, WorkerTypes
  <2>. QED
      BY <2>1, <2>2, <2>4 DEF AbortFlood
<1>. QED
    BY <1>1, FloodOther

-----------------------------------------------------------------------------
(* The final reduction of the abort flag.                                  *)

(* The ranks return from the root down, and only after everyone voted.     *)
LEMMA VotedTogether ==
    ASSUME AbortVote
    PROVE  /\ \A q \in Rank : phase[q] = "exit" => phase[0] = "exit"
           /\ (\A c \in child_ranks(0) : Voted(c)) => \A q \in Rank : q # 0 => Voted(q)
           /\ phase[0] = "exit" => \A q \in Rank : Voted(q)
<1>. USE RankFacts
<1>1. ASSUME NEW z \in Rank, phase[z] = "exit" PROVE phase[0] = "exit"
  <2>. DEFINE Gone == {q \in Rank : phase[q] = "exit"}
  <2>1. PICK q \in Gone : \A y \in Gone : ~(y < q)
      BY <1>1, LeastRank, Gone \in SUBSET Nat, z \in Gone
  <2>2. q \in Rank /\ phase[q] = "exit"
      OBVIOUS
  <2>3. q # 0 => parent_rank(q) \in Rank /\ parent_rank(q) < q /\ phase[parent_rank(q)] = "exit"
      BY <2>2, ParentBelow DEF AbortVote
  <2>. QED
      BY <2>1, <2>2, <2>3
<1>2. ASSUME \A c \in child_ranks(0) : Voted(c), NEW z \in Rank, z # 0 PROVE Voted(z)
  <2>. DEFINE Bad == {q \in Rank : q # 0 /\ ~Voted(q)}
  <2>. SUFFICES ASSUME Bad # {} PROVE FALSE
      BY <1>2
  <2>1. PICK q \in Bad : \A y \in Bad : ~(y < q)
      BY LeastRank, Bad \in SUBSET Nat
  <2>2. q \in Rank /\ q # 0 /\ ~Voted(q)
      OBVIOUS
  <2>3. parent_rank(q) \in Rank /\ parent_rank(q) < q /\ q \in child_ranks(parent_rank(q))
      BY <2>2, ParentBelow, TreeFacts
  <2>4. ~Voted(parent_rank(q))
      BY <2>2 DEF AbortVote
  <2>5. parent_rank(q) = 0
      BY <2>1, <2>3, <2>4
  <2>. QED
      BY <1>2, <2>2, <2>3, <2>5
<1>3. ASSUME phase[0] = "exit", NEW z \in Rank PROVE Voted(z)
  <2>1. Voted(0)
      BY <1>3 DEF Voted
  <2>2. \A c \in child_ranks(0) : c \in Rank /\ c # 0 /\ parent_rank(c) = 0
      BY TreeFacts
  <2>3. \A c \in child_ranks(0) : Voted(c)
      BY <2>1, <2>2 DEF AbortVote
  <2>. QED
      BY <1>2, <2>1, <2>3
<1>. QED
    BY <1>1, <1>2, <1>3

(* What a rank in the reduction sees: at the vote of a rank its children   *)
(* await the result; when the root decides, everyone does, and the flag it *)
(* decides is set exactly if some flag is; a result taken from the parent  *)
(* is the root's.                                                          *)
LEMMA VoteCases ==
    ASSUME WorkerTypes, Barrier, AbortVote, NEW r \in Rank, Vote(r)
    PROVE  \/ \E flag \in BOOLEAN :
                /\ r # 0 /\ phase[r] = "reduce" /\ phase[parent_rank(r)] = "reduce"
                /\ \A c \in child_ranks(r) : phase[c] = "await"
                /\ flag <=> ABORT_FLAG[r] \/ \E m \in FromChildren(r) : m.flag
                /\ abort_reduces' = (abort_reduces \ FromChildren(r)) \cup
                      {[src |-> r, dst |-> parent_rank(r), flag |-> flag]}
                /\ GoTo(r, "await", 1)
                /\ UNCHANGED <<ABORT_FLAG, abort_state, abort_outstanding,
                               abort_requests, abort_replies, checkpointed>>
           \/ \E flag \in BOOLEAN :
                /\ r = 0 /\ phase[0] = "reduce"
                /\ \A q \in Rank : q # 0 => phase[q] = "await"
                /\ flag <=> \E q \in Rank : ABORT_FLAG[q]
                /\ Finish(0, flag, {})
           \/ \E m \in abort_reduces :
                /\ r # 0 /\ phase[r] = "await" /\ phase[0] = "exit"
                /\ m.src = parent_rank(r) /\ m.dst = r /\ phase[parent_rank(r)] = "exit"
                /\ m.flag = ABORT_FLAG[0]
                /\ Finish(r, ABORT_FLAG[0], abort_reduces \ {m})
<1>. USE RankFacts
<1>0. \A m \in abort_reduces : m.src \in Rank /\ m.dst \in Rank /\ m.flag \in BOOLEAN
    BY DEF WorkerTypes, Flags
<1>1. ASSUME NEW m \in FromChildren(r)
      PROVE  m \in abort_reduces /\ IsUp(m) /\ phase[m.src] = "await"
  <2>1. m \in abort_reduces /\ m.dst = r /\ m.src \in child_ranks(r)
      BY DEF FromChildren
  <2>2. IsUp(m)
      BY <2>1, TreeFacts DEF IsUp
  <2>. QED
      BY <2>1, <2>2 DEF AbortVote
<1>2. CASE AbortReduceUp(r)
  <2>. DEFINE flag == ABORT_FLAG[r] \/ \E m \in FromChildren(r) : m.flag
              rest == abort_reduces \ FromChildren(r)
  <2>1. /\ phase[r] = "reduce"
        /\ \A c \in child_ranks(r) : \E m \in FromChildren(r) : m.src = c
      BY <1>2 DEF AbortReduceUp
  <2>2. \A c \in child_ranks(r) : phase[c] = "await"
      BY <1>1, <2>1
  <2>3. flag \in BOOLEAN
      BY DEF WorkerTypes
  <2>4. CASE r # 0
    <3>1. parent_rank(r) \in Rank /\ Past(r) /\ ~Voted(r)
        BY <2>1, <2>4, TreeFacts DEF Past, Voted
    <3>2. Past(parent_rank(r)) /\ ~Voted(parent_rank(r))
        BY <2>4, <3>1 DEF Barrier, AbortVote
    <3>3. phase[parent_rank(r)] = "reduce"
        BY <3>2 DEF Past, Voted
    <3>4. /\ abort_reduces' = rest \cup {[src |-> r, dst |-> parent_rank(r), flag |-> flag]}
          /\ GoTo(r, "await", 1)
          /\ UNCHANGED <<ABORT_FLAG, abort_state, abort_outstanding,
                         abort_requests, abort_replies, checkpointed>>
        BY <1>2, <2>4 DEF AbortReduceUp
    <3>. QED
        BY <2>1, <2>2, <2>3, <2>4, <3>3, <3>4
  <2>5. CASE r = 0
    <3>1. \A q \in Rank : q # 0 => Voted(q)
        BY <2>2, <2>5, VotedTogether DEF Voted
    <3>2. \A q \in Rank : phase[q] # "exit"
        BY <2>1, <2>5, VotedTogether
    <3>3. \A q \in Rank : q # 0 => phase[q] = "await"
        BY <3>1, <3>2 DEF Voted
    <3>4. ASSUME NEW m \in abort_reduces PROVE m \in FromChildren(r)
      <4>1. m.src \in Rank /\ m.dst \in Rank /\ (IsUp(m) \/ IsDown(m))
          BY <1>0 DEF AbortVote
      <4>2. ~IsDown(m)
          BY <3>2, <4>1 DEF AbortVote
      <4>3. phase[m.dst] = "reduce"
          BY <4>1, <4>2 DEF AbortVote
      <4>4. m.dst = r
          BY <2>5, <3>3, <4>1, <4>3
      <4>5. m.src \in child_ranks(r)
          BY <4>1, <4>2, <4>4, TreeFacts DEF IsUp
      <4>. QED
          BY <4>4, <4>5 DEF FromChildren
    <3>5. rest = {}
        BY <3>4
    <3>6. flag <=> \E q \in Rank : ABORT_FLAG[q]
      <4>1. flag => \E q \in Rank : ABORT_FLAG[q]
          BY <1>1 DEF AbortVote
      <4>2. ASSUME \E q \in Rank : ABORT_FLAG[q] PROVE flag
        <5>1. phase[0] # "exit"
            BY <3>2
        <5>2. CASE \E z \in Rank : ~Voted(z) /\ ABORT_FLAG[z]
            BY <2>5, <3>1, <5>2
        <5>3. CASE \E m \in abort_reduces : m.flag
            BY <3>4, <5>3
        <5>. QED
            BY <4>2, <5>1, <5>2, <5>3 DEF AbortVote
      <4>. QED
          BY <4>1, <4>2
    <3>7. Finish(r, flag, rest)
        BY <1>2, <2>5 DEF AbortReduceUp
    <3>. HIDE DEF flag, rest
    <3>8. Finish(0, flag, {})
        BY <2>5, <3>5, <3>7
    <3>. QED
        BY <2>1, <2>3, <2>5, <3>3, <3>6, <3>8
  <2>. QED
      BY <2>4, <2>5
<1>3. CASE AbortReduceDown(r)
  <2>1. phase[r] = "await" /\ r # 0
      BY <1>3 DEF AbortReduceDown, AbortVote
  <2>2. PICK m \in abort_reduces :
            m.src = parent_rank(r) /\ m.dst = r /\ Finish(r, m.flag, abort_reduces \ {m})
      BY <1>3 DEF AbortReduceDown
  <2>3. IsDown(m) /\ parent_rank(r) \in Rank
      BY <2>1, <2>2, TreeFacts DEF IsDown
  <2>4. phase[parent_rank(r)] = "exit"
      BY <2>2, <2>3 DEF AbortVote
  <2>5. phase[0] = "exit"
      BY <2>3, <2>4, VotedTogether
  <2>6. m.flag = ABORT_FLAG[0]
      BY <2>5 DEF AbortVote
  <2>. QED
      BY <2>1, <2>2, <2>4, <2>5, <2>6
<1>. QED
    BY <1>2, <1>3 DEF Vote

(* Outside the reduction an abort flag is only ever set, and only on a     *)
(* rank that is not past the barrier.                                      *)
LEMMA FlagsOnlyRise ==
    ASSUME WorkerTypes, [WorkerNext]_workerVars, ~\E r \in Rank : Vote(r)
    PROVE  /\ abort_reduces' = abort_reduces /\ checkpointed' = checkpointed
           /\ \A q \in Rank : ABORT_FLAG[q] => ABORT_FLAG'[q]
           /\ \A q \in Rank : Past(q) => ABORT_FLAG'[q] = ABORT_FLAG[q] /\ phase'[q] = phase[q]
           /\ \A q \in Rank : ~Past(q) => ~Voted(q)'
<1>0. phase \in [Rank -> Phase] /\ ABORT_FLAG \in [Rank -> BOOLEAN]
    BY DEF WorkerTypes
<1>1. ASSUME NEW r \in Rank, Serve(r) \/ CountReceipts(r) \/ Ask(r) \/ Work(r)
      PROVE  UNCHANGED phase
    BY <1>1 DEF Serve, CountReceipts, Ask, Work, CIRCLE_workreq_check,
       CIRCLE_workreceipt_check, SendRequest, ReceiveReply, Process
<1>2. ASSUME NEW r \in Rank,
             \/ Flood(r) \/ FloodEnds(r) \/ Turn(r)
             \/ EnterBarrier(r) \/ TestBarrier(r)
      PROVE  /\ phase[r] \in {"loop", "cleanup"}
             /\ \E ph \in {"loop", "cleanup", "reduce"} : phase' = [phase EXCEPT ![r] = ph]
  <2>1. CASE Flood(r) \/ FloodEnds(r)
      BY <2>1 DEF Flood, FloodEnds, CIRCLE_abort_check, AbortTest, InLoop, InCleanup, GoTo
  <2>2. CASE Turn(r)
      BY <2>2 DEF Turn, GoTo
  <2>3. CASE EnterBarrier(r) \/ TestBarrier(r)
      BY <2>3 DEF EnterBarrier, TestBarrier, CIRCLE_barrier_start, BarrierGather, BarrierResult,
         BarrierWait, BarrierSendUp, BarrierComplete, InCleanup, GoTo
  <2>. QED
      BY <1>2, <2>1, <2>2, <2>3
<1>3. /\ \A q \in Rank : Past(q) => phase'[q] = phase[q]
      /\ \A q \in Rank : ~Past(q) => ~Voted(q)'
  <2>1. CASE UNCHANGED phase
      BY <1>0, <2>1 DEF Past, Voted, Phase
  <2>2. ASSUME NEW r \in Rank, phase[r] \in {"loop", "cleanup"},
               NEW ph \in {"loop", "cleanup", "reduce"}, phase' = [phase EXCEPT ![r] = ph]
        PROVE  /\ \A q \in Rank : Past(q) => phase'[q] = phase[q]
               /\ \A q \in Rank : ~Past(q) => ~Voted(q)'
      BY <1>0, <2>2 DEF Past, Voted, Phase
  <2>. QED
      BY <1>1, <1>2, <2>1, <2>2 DEF WorkerNext, WorkerStep, workerVars, workVars
<1>4. ASSUME NEW r \in Rank, Ask(r) \/ Work(r) \/ Flood(r)
      PROVE  /\ ~Past(r)
             /\ \E a \in BOOLEAN : ABORT_FLAG' = [ABORT_FLAG EXCEPT ![r] = a] /\ (ABORT_FLAG[r] => a)
  <2>1. CASE Ask(r)
    <3>1. CASE SendRequest(r)
        BY <1>0, <3>1 DEF SendRequest, InLoop, Past
    <3>2. CASE ReceiveReply(r)
      <4>1. ~Past(r)
          BY <3>2 DEF ReceiveReply, InLoop, InCleanup, Past
      <4>2. PICK m \in replies : ABORT_FLAG' = [ABORT_FLAG EXCEPT ![r] = ABORT_FLAG[r] \/ m.abort]
          BY <3>2 DEF ReceiveReply
      <4>3. m.abort \in BOOLEAN
          BY DEF WorkerTypes
      <4>. QED
          BY <4>1, <4>2, <4>3
    <3>. QED
        BY <2>1, <3>1, <3>2 DEF Ask
  <2>2. CASE Work(r)
      BY <2>2 DEF Work, Process, InLoop, Past
  <2>3. CASE Flood(r)
      BY <2>3 DEF Flood, CIRCLE_abort_check, InLoop, InCleanup, Past
  <2>. QED
      BY <1>4, <2>1, <2>2, <2>3
<1>5. ASSUME NEW r \in Rank, Serve(r) \/ FloodEnds(r) PROVE UNCHANGED ABORT_FLAG
    BY <1>5 DEF Serve, CIRCLE_workreq_check, FloodEnds, AbortTest
<1>6. /\ \A q \in Rank : ABORT_FLAG[q] => ABORT_FLAG'[q]
      /\ \A q \in Rank : Past(q) => ABORT_FLAG'[q] = ABORT_FLAG[q]
  <2>1. ASSUME NEW r \in Rank, ~Past(r), NEW a \in BOOLEAN,
               ABORT_FLAG' = [ABORT_FLAG EXCEPT ![r] = a], ABORT_FLAG[r] => a
        PROVE  /\ \A q \in Rank : ABORT_FLAG[q] => ABORT_FLAG'[q]
               /\ \A q \in Rank : Past(q) => ABORT_FLAG'[q] = ABORT_FLAG[q]
      BY <1>0, <2>1
  <2>. QED
      BY <1>4, <1>5, <2>1, AbortSteps
<1>7. abort_reduces' = abort_reduces /\ checkpointed' = checkpointed
  <2>1. ASSUME NEW r \in Rank, Serve(r) \/ Ask(r) \/ Work(r)
                               \/ Flood(r) \/ FloodEnds(r)
        PROVE  UNCHANGED <<abort_reduces, checkpointed>>
      BY <2>1 DEF Serve, Ask, Work, Flood, FloodEnds,
         CIRCLE_abort_check, AbortTest, abortVars
  <2>. QED
      BY <2>1, AbortSteps
<1>. QED
    BY <1>3, <1>6, <1>7

(* Nobody votes in the initial state.                                      *)
LEMMA VoteInit == WorkerInit => AbortVote
<1>. SUFFICES ASSUME WorkerInit PROVE AbortVote
    OBVIOUS
<1>1. abort_reduces = {} /\ \A r \in Rank : phase[r] = "loop"
    BY DEF WorkerInit, WorkInit, AbortInit
<1>2. \A r \in Rank : ~Voted(r)
    BY <1>1 DEF Voted
<1>. QED
    BY <1>1, <1>2, RankFacts, TreeFacts DEF AbortVote

(* Steps outside the reduction leave the vote in order.                    *)
LEMMA VoteOther ==
    ASSUME WorkerTypes, Barrier, AbortVote, [WorkerNext]_workerVars, ~\E r \in Rank : Vote(r)
    PROVE  AbortVote'
<1>. USE RankFacts
<1>1. /\ abort_reduces' = abort_reduces
      /\ \A q \in Rank : ABORT_FLAG[q] => ABORT_FLAG'[q]
      /\ \A q \in Rank : Past(q) => ABORT_FLAG'[q] = ABORT_FLAG[q] /\ phase'[q] = phase[q]
      /\ \A q \in Rank : ~Past(q) => ~Voted(q)'
    BY FlagsOnlyRise
<1>2. \A m \in abort_reduces : m.src \in Rank /\ m.dst \in Rank
    BY DEF WorkerTypes, Flags
<1>3. \A q \in Rank : Voted(q) => Past(q)
    BY DEF Voted, Past
<1>4. \A q \in Rank : Voted(q)' <=> Voted(q)
    BY <1>1, <1>3 DEF Voted
<1>5. \A q \in Rank : /\ phase'[q] = "exit" <=> phase[q] = "exit"
                      /\ phase'[q] = "await" <=> phase[q] = "await"
                      /\ phase[q] = "reduce" => phase'[q] = "reduce"
    BY <1>1, <1>4 DEF Voted, Past
<1>6. /\ \A m \in abort_reduces' : IsUp(m) \/ IsDown(m)
      /\ \A m, n \in abort_reduces' : m.src = n.src /\ m.dst = n.dst => m = n
      /\ \A m \in abort_reduces' : IsUp(m) => phase'[m.src] = "await" /\ phase'[m.dst] = "reduce"
      /\ \A m \in abort_reduces' : IsDown(m) => phase'[m.src] = "exit" /\ phase'[m.dst] = "await"
  <2>1. /\ \A m \in abort_reduces : IsUp(m) \/ IsDown(m)
        /\ \A m, n \in abort_reduces : m.src = n.src /\ m.dst = n.dst => m = n
        /\ \A m \in abort_reduces : IsUp(m) => phase[m.src] = "await" /\ phase[m.dst] = "reduce"
        /\ \A m \in abort_reduces : IsDown(m) => phase[m.src] = "exit" /\ phase[m.dst] = "await"
      BY DEF AbortVote
  <2>2. abort_reduces' = abort_reduces
      BY <1>1
  <2>. QED
      BY <1>2, <1>5, <2>1, <2>2
<1>7. /\ \A c \in Rank : c # 0 /\ phase'[c] = "exit" => phase'[parent_rank(c)] = "exit"
      /\ \A c \in Rank : c # 0 /\ Voted(parent_rank(c))' => Voted(c)'
      /\ phase'[0] # "await"
    BY <1>4, <1>5, TreeFacts DEF AbortVote
<1>8. \A m \in abort_reduces' : m.flag => \E q \in Rank : ABORT_FLAG'[q]
    BY <1>1 DEF AbortVote
<1>9. ASSUME phase'[0] # "exit", NEW q \in Rank, ABORT_FLAG'[q]
      PROVE  \/ \E z \in Rank : ~Voted(z)' /\ ABORT_FLAG'[z]
             \/ \E m \in abort_reduces' : m.flag
  <2>1. CASE ~ABORT_FLAG[q]
    <3>1. ~Past(q)
        BY <1>1, <1>9, <2>1
    <3>. QED
        BY <1>1, <1>9, <3>1
  <2>2. CASE ABORT_FLAG[q]
    <3>1. \/ \E z \in Rank : ~Voted(z) /\ ABORT_FLAG[z]
          \/ \E m \in abort_reduces : m.flag
        BY <1>5, <1>9, <2>2 DEF AbortVote
    <3>. QED
        BY <1>1, <1>4, <3>1
  <2>. QED
      BY <2>1, <2>2
<1>10. ASSUME phase'[0] = "exit"
       PROVE  /\ \A m \in abort_reduces' : m.flag = ABORT_FLAG'[0]
              /\ \A q \in Rank : phase'[q] = "exit" => ABORT_FLAG'[q] = ABORT_FLAG'[0]
              /\ \A q \in Rank : ABORT_FLAG'[q] => ABORT_FLAG'[0]
  <2>1. phase[0] = "exit"
      BY <1>5, <1>10
  <2>2. \A q \in Rank : ABORT_FLAG'[q] = ABORT_FLAG[q]
      BY <1>1, <1>3, <2>1, VotedTogether
  <2>. QED
      BY <1>1, <1>5, <2>1, <2>2 DEF AbortVote
<1>. QED
    BY <1>6, <1>7, <1>8, <1>9, <1>10 DEF AbortVote, IsUp, IsDown

(* A rank votes.                                                           *)
LEMMA VoteUp ==
    ASSUME WorkerTypes, AbortVote, NEW r \in Rank, NEW flag \in BOOLEAN,
           r # 0, phase[r] = "reduce", phase[parent_rank(r)] = "reduce",
           \A c \in child_ranks(r) : phase[c] = "await",
           flag <=> ABORT_FLAG[r] \/ \E m \in FromChildren(r) : m.flag,
           abort_reduces' = (abort_reduces \ FromChildren(r)) \cup
              {[src |-> r, dst |-> parent_rank(r), flag |-> flag]},
           GoTo(r, "await", 1), UNCHANGED ABORT_FLAG
    PROVE  AbortVote'
<1>. USE RankFacts
<1>. DEFINE p == parent_rank(r)
            up == [src |-> r, dst |-> p, flag |-> flag]
<1>1. \A m \in abort_reduces : m.src \in Rank /\ m.dst \in Rank
    BY DEF WorkerTypes, Flags
<1>2. p \in Rank /\ p # r /\ r \in child_ranks(p) /\ (p # 0 => parent_rank(p) # r)
    BY TreeFacts
<1>3. phase'[r] = "await" /\ \A q \in Rank : q # r => phase'[q] = phase[q]
    BY DEF GoTo, WorkerTypes
<1>4. Voted(r)' /\ ~Voted(r) /\ \A q \in Rank : q # r => (Voted(q)' <=> Voted(q))
    BY <1>3 DEF Voted
<1>5. ASSUME NEW m \in abort_reduces, m \notin FromChildren(r) PROVE m.src # r /\ m.dst # r
  <2>1. IsUp(m) \/ IsDown(m)
      BY DEF AbortVote
  <2>2. m.src # r
      BY <1>1, <2>1 DEF AbortVote
  <2>3. ASSUME m.dst = r PROVE FALSE
    <3>1. IsUp(m)
        BY <2>1, <2>3 DEF AbortVote
    <3>2. m.src \in child_ranks(r)
        BY <1>1, <2>3, <3>1, TreeFacts DEF IsUp
    <3>. QED
        BY <1>5, <2>3, <3>2 DEF FromChildren
  <2>. QED
      BY <2>2, <2>3
<1>6. up.src = r /\ up.dst = p /\ up.flag = flag /\ IsUp(up) /\ ~IsDown(up)
    BY <1>2 DEF IsUp, IsDown
<1>. HIDE DEF up
<1>7. ASSUME NEW m \in abort_reduces'
      PROVE  m = up \/ (m \in abort_reduces /\ m.src \in Rank /\ m.dst \in Rank
                          /\ m.src # r /\ m.dst # r)
    BY <1>1, <1>5 DEF up
<1>8. /\ \A m \in abort_reduces' : IsUp(m) \/ IsDown(m)
      /\ \A m, n \in abort_reduces' : m.src = n.src /\ m.dst = n.dst => m = n
    BY <1>6, <1>7 DEF AbortVote
<1>9. /\ \A m \in abort_reduces' : IsUp(m) => phase'[m.src] = "await" /\ phase'[m.dst] = "reduce"
      /\ \A m \in abort_reduces' : IsDown(m) => phase'[m.src] = "exit" /\ phase'[m.dst] = "await"
  <2>1. ASSUME NEW m \in abort_reduces'
        PROVE  /\ IsUp(m) => phase'[m.src] = "await" /\ phase'[m.dst] = "reduce"
               /\ IsDown(m) => phase'[m.src] = "exit" /\ phase'[m.dst] = "await"
    <3>1. CASE m = up
        BY <1>2, <1>3, <1>6, <3>1
    <3>2. CASE m # up
      <4>1. m \in abort_reduces /\ phase'[m.src] = phase[m.src] /\ phase'[m.dst] = phase[m.dst]
          BY <1>3, <1>7, <3>2
      <4>. QED
          BY <4>1 DEF AbortVote
    <3>. QED
        BY <3>1, <3>2
  <2>. QED
      BY <2>1
<1>10. ASSUME NEW c \in Rank, c # 0, phase'[c] = "exit" PROVE phase'[parent_rank(c)] = "exit"
  <2>1. parent_rank(c) \in Rank
      BY <1>10, TreeFacts
  <2>2. phase[parent_rank(c)] = "exit"
      BY <1>3, <1>10 DEF AbortVote
  <2>. QED
      BY <1>3, <2>1, <2>2
<1>11. ASSUME NEW c \in Rank, c # 0, Voted(parent_rank(c))' PROVE Voted(c)'
  <2>1. parent_rank(c) \in Rank /\ c \in child_ranks(parent_rank(c))
      BY <1>11, TreeFacts
  <2>2. CASE parent_rank(c) = r
      BY <1>4, <2>1, <2>2 DEF Voted
  <2>3. CASE parent_rank(c) # r
      BY <1>4, <1>11, <2>1, <2>3 DEF AbortVote
  <2>. QED
      BY <2>2, <2>3
<1>12. \A m \in abort_reduces' : m.flag => \E q \in Rank : ABORT_FLAG'[q]
  <2>1. \A m \in FromChildren(r) : m \in abort_reduces
      BY DEF FromChildren
  <2>. QED
      BY <1>6, <1>7, <2>1 DEF AbortVote
<1>13. ASSUME \E q \in Rank : ABORT_FLAG'[q], phase'[0] # "exit"
       PROVE  \/ \E z \in Rank : ~Voted(z)' /\ ABORT_FLAG'[z]
              \/ \E m \in abort_reduces' : m.flag
  <2>1. \/ \E z \in Rank : ~Voted(z) /\ ABORT_FLAG[z]
        \/ \E m \in abort_reduces : m.flag
      BY <1>3, <1>13 DEF AbortVote
  <2>2. up \in abort_reduces' /\ \A m \in abort_reduces : m \in abort_reduces' \/ m \in FromChildren(r)
      BY DEF up
  <2>3. CASE \E z \in Rank : ~Voted(z) /\ ABORT_FLAG[z]
      BY <1>4, <1>6, <2>2, <2>3
  <2>4. CASE \E m \in abort_reduces : m.flag
      BY <1>6, <2>2, <2>4
  <2>. QED
      BY <2>1, <2>3, <2>4
<1>14. phase'[0] # "exit" /\ phase'[0] # "await"
  <2>1. phase[0] # "exit"
      BY VotedTogether, <1>4
  <2>. QED
      BY <1>3, <2>1 DEF AbortVote
<1>. QED
    BY <1>8, <1>9, <1>10, <1>11, <1>12, <1>13, <1>14 DEF AbortVote, IsUp, IsDown

(* The root decides.                                                       *)
LEMMA VoteDecide ==
    ASSUME WorkerTypes, AbortVote, NEW flag \in BOOLEAN,
           \A q \in Rank : q # 0 => phase[q] = "await",
           flag <=> \E q \in Rank : ABORT_FLAG[q],
           Finish(0, flag, {})
    PROVE  AbortVote'
<1>. USE RankFacts
<1>1. /\ abort_reduces' = {[src |-> 0, dst |-> c, flag |-> flag] : c \in child_ranks(0)}
      /\ ABORT_FLAG' = [ABORT_FLAG EXCEPT ![0] = flag]
      /\ phase' = [phase EXCEPT ![0] = "exit"]
    BY DEF Finish
<1>2. /\ phase'[0] = "exit" /\ \A q \in Rank : q # 0 => phase'[q] = "await"
      /\ ABORT_FLAG'[0] = flag /\ \A q \in Rank : q # 0 => ABORT_FLAG'[q] = ABORT_FLAG[q]
    BY <1>1 DEF WorkerTypes
<1>3. \A q \in Rank : Voted(q)'
    BY <1>2 DEF Voted
<1>4. \A c \in child_ranks(0) : c \in Rank /\ c # 0 /\ parent_rank(c) = 0
    BY TreeFacts
<1>5. ASSUME NEW m \in abort_reduces'
      PROVE  /\ m.src = 0 /\ m.dst \in Rank /\ m.dst # 0 /\ m.flag = flag
             /\ IsDown(m) /\ ~IsUp(m)
             /\ m = [src |-> 0, dst |-> m.dst, flag |-> flag]
    BY <1>1, <1>4 DEF IsDown, IsUp
<1>6. /\ \A m \in abort_reduces' : IsUp(m) \/ IsDown(m)
      /\ \A m, n \in abort_reduces' : m.src = n.src /\ m.dst = n.dst => m = n
      /\ \A m \in abort_reduces' : IsUp(m) => phase'[m.src] = "await" /\ phase'[m.dst] = "reduce"
      /\ \A m \in abort_reduces' : IsDown(m) => phase'[m.src] = "exit" /\ phase'[m.dst] = "await"
    BY <1>2, <1>5
<1>7. \A c \in Rank : c # 0 => phase'[c] # "exit"
    BY <1>2
<1>. QED
    BY <1>2, <1>3, <1>5, <1>6, <1>7 DEF AbortVote, IsUp, IsDown

(* A rank takes the result from its parent.                                *)
LEMMA VoteDown ==
    ASSUME WorkerTypes, AbortVote, NEW r \in Rank, NEW m \in abort_reduces,
           r # 0, phase[r] = "await", phase[0] = "exit",
           m.src = parent_rank(r), m.dst = r, phase[parent_rank(r)] = "exit",
           m.flag = ABORT_FLAG[0],
           Finish(r, ABORT_FLAG[0], abort_reduces \ {m})
    PROVE  AbortVote'
<1>. USE RankFacts
<1>. DEFINE flag == ABORT_FLAG[0]
            new == {[src |-> r, dst |-> c, flag |-> flag] : c \in child_ranks(r)}
<1>1. /\ abort_reduces' = (abort_reduces \ {m}) \cup new
      /\ ABORT_FLAG' = [ABORT_FLAG EXCEPT ![r] = flag]
      /\ phase' = [phase EXCEPT ![r] = "exit"]
    BY DEF Finish
<1>2. /\ phase'[r] = "exit" /\ \A q \in Rank : q # r => phase'[q] = phase[q]
      /\ ABORT_FLAG'[r] = flag /\ \A q \in Rank : q # r => ABORT_FLAG'[q] = ABORT_FLAG[q]
      /\ ABORT_FLAG'[0] = flag
    BY <1>1 DEF WorkerTypes
<1>3. \A q \in Rank : Voted(q)
    BY VotedTogether
<1>4. \A q \in Rank : Voted(q)'
    BY <1>2, <1>3 DEF Voted
<1>5. \A c \in child_ranks(r) : c \in Rank /\ c # r /\ c # 0 /\ parent_rank(c) = r
                                   /\ parent_rank(r) # c
    BY TreeFacts
<1>6. \A c \in child_ranks(r) : phase[c] = "await"
    BY <1>3, <1>5 DEF AbortVote, Voted
<1>7. \A n \in abort_reduces : n.src \in Rank /\ n.dst \in Rank
    BY DEF WorkerTypes, Flags
<1>8. ASSUME NEW n \in abort_reduces, n # m PROVE n.src # r /\ n.dst # r
  <2>1. IsUp(n) \/ IsDown(n)
      BY DEF AbortVote
  <2>2. ~IsUp(n)
      BY <1>3, <1>7 DEF AbortVote, Voted
  <2>3. phase[n.src] = "exit" /\ IsDown(n)
      BY <2>1, <2>2 DEF AbortVote
  <2>4. n.src # r
      BY <2>3
  <2>5. n.dst = r => n.src = m.src /\ n.dst = m.dst
      BY <2>3 DEF IsDown
  <2>. QED
      BY <1>8, <2>4, <2>5 DEF AbortVote
<1>9. ASSUME NEW n \in new
      PROVE  /\ n.src = r /\ n.dst \in child_ranks(r) /\ n.flag = flag
             /\ n = [src |-> r, dst |-> n.dst, flag |-> flag]
             /\ IsDown(n) /\ ~IsUp(n)
    BY <1>5 DEF IsDown, IsUp
<1>. HIDE DEF new, flag
<1>10. ASSUME NEW n \in abort_reduces'
       PROVE  n \in new \/ (n \in abort_reduces /\ n.src \in Rank /\ n.dst \in Rank
                              /\ n.src # r /\ n.dst # r)
    BY <1>1, <1>7, <1>8
<1>11. /\ \A n \in abort_reduces' : IsUp(n) \/ IsDown(n)
       /\ \A n, o \in abort_reduces' : n.src = o.src /\ n.dst = o.dst => n = o
    BY <1>9, <1>10 DEF AbortVote
<1>12. /\ \A n \in abort_reduces' : IsUp(n) => phase'[n.src] = "await" /\ phase'[n.dst] = "reduce"
       /\ \A n \in abort_reduces' : IsDown(n) => phase'[n.src] = "exit" /\ phase'[n.dst] = "await"
    BY <1>2, <1>5, <1>6, <1>9, <1>10 DEF AbortVote
<1>13. ASSUME NEW c \in Rank, c # 0, phase'[c] = "exit" PROVE phase'[parent_rank(c)] = "exit"
  <2>1. parent_rank(c) \in Rank
      BY <1>13, TreeFacts
  <2>2. phase[parent_rank(c)] = "exit"
      BY <1>2, <1>13 DEF AbortVote
  <2>. QED
      BY <1>2, <2>1, <2>2
<1>14. /\ \A n \in abort_reduces' : n.flag = ABORT_FLAG'[0]
       /\ \A q \in Rank : phase'[q] = "exit" => ABORT_FLAG'[q] = ABORT_FLAG'[0]
       /\ \A q \in Rank : ABORT_FLAG'[q] => ABORT_FLAG'[0]
    BY <1>2, <1>9, <1>10 DEF AbortVote, flag
<1>15. phase'[0] = "exit" /\ \A n \in abort_reduces' : n.flag => \E q \in Rank : ABORT_FLAG'[q]
    BY <1>2, <1>14
<1>. QED
    BY <1>4, <1>11, <1>12, <1>13, <1>14, <1>15 DEF AbortVote, IsUp, IsDown

(* Every step keeps the vote in order.                                     *)
LEMMA VoteStep ==
    ASSUME WorkerTypes, Barrier, AbortVote, [WorkerNext]_workerVars
    PROVE  AbortVote'
<1>1. ASSUME NEW r \in Rank, Vote(r) PROVE AbortVote'
  <2>1. CASE \E flag \in BOOLEAN :
                /\ r # 0 /\ phase[r] = "reduce" /\ phase[parent_rank(r)] = "reduce"
                /\ \A c \in child_ranks(r) : phase[c] = "await"
                /\ flag <=> ABORT_FLAG[r] \/ \E m \in FromChildren(r) : m.flag
                /\ abort_reduces' = (abort_reduces \ FromChildren(r)) \cup
                      {[src |-> r, dst |-> parent_rank(r), flag |-> flag]}
                /\ GoTo(r, "await", 1)
                /\ UNCHANGED ABORT_FLAG
      BY <2>1, VoteUp
  <2>2. CASE \E flag \in BOOLEAN :
                /\ \A q \in Rank : q # 0 => phase[q] = "await"
                /\ flag <=> \E q \in Rank : ABORT_FLAG[q]
                /\ Finish(0, flag, {})
      BY <2>2, VoteDecide
  <2>3. CASE \E m \in abort_reduces :
                /\ r # 0 /\ phase[r] = "await" /\ phase[0] = "exit"
                /\ m.src = parent_rank(r) /\ m.dst = r /\ phase[parent_rank(r)] = "exit"
                /\ m.flag = ABORT_FLAG[0]
                /\ Finish(r, ABORT_FLAG[0], abort_reduces \ {m})
      BY <2>3, VoteDown
  <2>. QED
      BY <1>1, <2>1, <2>2, <2>3, VoteCases
<1>. QED
    BY <1>1, VoteOther

-----------------------------------------------------------------------------
(* Queues at the end of the run.                                           *)

(* Outside the reduction nothing changes the queue of a rank that is past  *)
(* the barrier, and nothing leaves the queue of a rank in abort state.     *)
LEMMA QueueSteps ==
    ASSUME WorkerTypes, Conversation, [WorkerNext]_workerVars, ~\E r \in Rank : Vote(r), NEW q \in Rank
    PROVE  /\ Past(q) => queue'[q] = queue[q]
           /\ ABORT_FLAG[q] => queue[q] \subseteq queue'[q]
<1>0. queue \in [Rank -> SUBSET Item]
    BY DEF WorkerTypes
<1>1. ASSUME NEW r \in Rank, Serve(r)
      PROVE  /\ Past(q) => queue'[q] = queue[q]
             /\ ABORT_FLAG[q] => queue[q] \subseteq queue'[q]
  <2>1. PICK S : Refuse(r, S) \/ Share(r, S)
      BY <1>1 DEF Serve, CIRCLE_workreq_check
  <2>2. CASE Refuse(r, S)
      BY <2>2 DEF Refuse
  <2>3. CASE Share(r, S)
    <3>1. /\ phase[r] = "loop" /\ ~ABORT_FLAG[r]
          /\ \E T : queue' = [queue EXCEPT ![r] = T]
        BY <2>3 DEF Share
    <3>. QED
        BY <1>0, <3>1 DEF Past
  <2>. QED
      BY <2>1, <2>2, <2>3
<1>2. ASSUME NEW r \in Rank, Ask(r)
      PROVE  /\ Past(q) => queue'[q] = queue[q]
             /\ ABORT_FLAG[q] => queue[q] \subseteq queue'[q]
  <2>1. CASE SendRequest(r)
      BY <2>1 DEF SendRequest
  <2>2. CASE ReceiveReply(r)
    <3>1. /\ ~Past(r) /\ work_requested[r] # None
          /\ \E T : queue' = [queue EXCEPT ![r] = T]
        BY <2>2 DEF ReceiveReply, InLoop, InCleanup, Past
    <3>2. queue[r] = {}
        BY <3>1 DEF Conversation
    <3>. QED
        BY <1>0, <3>1, <3>2
  <2>. QED
      BY <1>2, <2>1, <2>2 DEF Ask
<1>3. ASSUME NEW r \in Rank, Work(r)
      PROVE  /\ Past(q) => queue'[q] = queue[q]
             /\ ABORT_FLAG[q] => queue[q] \subseteq queue'[q]
  <2>1. /\ phase[r] = "loop" /\ ~ABORT_FLAG[r]
        /\ \E T : queue' = [queue EXCEPT ![r] = T]
      BY <1>3 DEF Work, Process, InLoop
  <2>. QED
      BY <1>0, <2>1 DEF Past
<1>4. ASSUME NEW r \in Rank, Flood(r) \/ FloodEnds(r) PROVE queue' = queue
    BY <1>4 DEF Flood, FloodEnds, CIRCLE_abort_check, AbortTest, GoTo
<1>. QED
    BY <1>1, <1>2, <1>3, <1>4, AbortSteps

(* The reduction never clears an abort flag; it empties the queue of a     *)
(* rank it aborts into the checkpoint, and changes no other queue.         *)
LEMMA ReduceKeeps ==
    ASSUME WorkerTypes, Barrier, AbortVote, NEW r \in Rank, Vote(r)
    PROVE  /\ \A q \in Rank : ABORT_FLAG[q] => ABORT_FLAG'[q]
           /\ \A q \in Rank : q # r => queue'[q] = queue[q] /\ phase'[q] = phase[q]
           /\ queue[r] \subseteq queue'[r] \cup checkpointed'
           /\ ABORT_FLAG'[r] /\ phase'[r] = "exit" => queue'[r] = {}
           /\ ~ABORT_FLAG'[r] => queue'[r] = queue[r]
           /\ (\E q \in Rank : ABORT_FLAG'[q]) => \E q \in Rank : ABORT_FLAG[q]
           /\ UNCHANGED <<created, processed, replies>>
<1>. USE RankFacts
<1>0. queue \in [Rank -> SUBSET Item] /\ phase \in [Rank -> Phase] /\ ABORT_FLAG \in [Rank -> BOOLEAN]
    BY DEF WorkerTypes
<1>1. CASE GoTo(r, "await", 1) /\ UNCHANGED <<ABORT_FLAG, checkpointed>>
  <2>1. queue' = queue /\ phase' = [phase EXCEPT ![r] = "await"] /\ ABORT_FLAG' = ABORT_FLAG
        /\ UNCHANGED <<created, processed, replies>>
      BY <1>1 DEF GoTo
  <2>2. phase'[r] # "exit" /\ \A q \in Rank : q # r => phase'[q] = phase[q]
      BY <1>0, <2>1
  <2>. QED
      BY <2>1, <2>2
<1>2. ASSUME NEW flag \in BOOLEAN, NEW rest, Finish(r, flag, rest),
             ABORT_FLAG[r] => flag, flag => \E q \in Rank : ABORT_FLAG[q]
      PROVE  /\ \A q \in Rank : ABORT_FLAG[q] => ABORT_FLAG'[q]
             /\ \A q \in Rank : q # r => queue'[q] = queue[q] /\ phase'[q] = phase[q]
             /\ queue[r] \subseteq queue'[r] \cup checkpointed'
             /\ ABORT_FLAG'[r] /\ phase'[r] = "exit" => queue'[r] = {}
             /\ ~ABORT_FLAG'[r] => queue'[r] = queue[r]
             /\ (\E q \in Rank : ABORT_FLAG'[q]) => \E q \in Rank : ABORT_FLAG[q]
             /\ UNCHANGED <<created, processed, replies>>
  <2>1. /\ ABORT_FLAG' = [ABORT_FLAG EXCEPT ![r] = flag]
        /\ checkpointed' = IF flag THEN checkpointed \cup queue[r] ELSE checkpointed
        /\ queue' = [queue EXCEPT ![r] = IF flag THEN {} ELSE @]
        /\ phase' = [phase EXCEPT ![r] = "exit"]
        /\ UNCHANGED <<created, processed, replies>>
      BY <1>2 DEF Finish
  <2>. QED
      BY <1>0, <1>2, <2>1
<1>3. CASE \E flag \in BOOLEAN : r = 0 /\ (flag <=> \E q \in Rank : ABORT_FLAG[q]) /\ Finish(0, flag, {})
    BY <1>2, <1>3
<1>4. CASE phase[0] = "exit" /\ \E m \in abort_reduces : Finish(r, ABORT_FLAG[0], abort_reduces \ {m})
  <2>1. ABORT_FLAG[r] => ABORT_FLAG[0]
      BY <1>4 DEF AbortVote
  <2>2. ABORT_FLAG[0] \in BOOLEAN
      BY <1>0
  <2>. QED
      BY <1>2, <1>4, <2>1, <2>2
<1>. QED
    BY <1>1, <1>3, <1>4, VoteCases

(* There is no checkpoint in the initial state.                            *)
LEMMA DumpsInit == WorkerInit => DumpsAfterVote
BY DEF WorkerInit, AbortInit, DumpsAfterVote

(* A rank writes a checkpoint only after the root has decided to abort.    *)
LEMMA DumpsStep ==
    ASSUME WorkerTypes, Barrier, AbortVote, DumpsAfterVote, [WorkerNext]_workerVars
    PROVE  DumpsAfterVote'
<1>. USE RankFacts
<1>0. phase \in [Rank -> Phase] /\ ABORT_FLAG \in [Rank -> BOOLEAN]
    BY DEF WorkerTypes
<1>1. CASE ~\E r \in Rank : Vote(r)
  <2>1. /\ checkpointed' = checkpointed
        /\ \A q \in Rank : Past(q) => ABORT_FLAG'[q] = ABORT_FLAG[q] /\ phase'[q] = phase[q]
      BY <1>1, FlagsOnlyRise
  <2>. QED
      BY <2>1 DEF DumpsAfterVote, Past
<1>2. ASSUME NEW r \in Rank, Vote(r) PROVE DumpsAfterVote'
  <2>1. /\ \A q \in Rank : ABORT_FLAG[q] => ABORT_FLAG'[q]
        /\ \A q \in Rank : q # r => phase'[q] = phase[q]
      BY <1>2, ReduceKeeps
  <2>2. CASE r # 0 /\ GoTo(r, "await", 1) /\ UNCHANGED <<ABORT_FLAG, checkpointed>>
      BY <2>1, <2>2 DEF DumpsAfterVote
  <2>3. CASE phase[0] = "reduce" /\ \E flag \in BOOLEAN : Finish(0, flag, {})
    <3>1. checkpointed = {}
        BY <2>3 DEF DumpsAfterVote
    <3>. QED
        BY <1>0, <2>3, <3>1 DEF Finish, DumpsAfterVote
  <2>4. CASE /\ r # 0 /\ phase[0] = "exit"
             /\ \E m \in abort_reduces : Finish(r, ABORT_FLAG[0], abort_reduces \ {m})
    <3>1. checkpointed' # {} => ABORT_FLAG[0]
        BY <2>4 DEF Finish, DumpsAfterVote
    <3>. QED
        BY <2>1, <2>4, <3>1 DEF DumpsAfterVote
  <2>. QED
      BY <1>2, <2>2, <2>3, <2>4, VoteCases
<1>. QED
    BY <1>1, <1>2

(* The flood and the replies bring the abort flag to a rank only when      *)
(* another rank has it set.                                                *)
LEMMA AbortSource ==
    ASSUME WorkerTypes, AbortFlood, NEW r \in Rank, Flood(r) \/ Ask(r)
    PROVE  (\E q \in Rank : ABORT_FLAG'[q]) => (\E q \in Rank : ABORT_FLAG[q])
<1>1. ASSUME Flood(r) PROVE \E q \in Rank : ABORT_FLAG[q]
  <2>1. PICK from \in SUBSET {s \in Rank : <<s, r>> \in abort_requests} :
            from # {} \/ ABORT_FLAG[r]
      BY <1>1 DEF Flood, CIRCLE_abort_check
  <2>2. CASE from # {}
    <3>1. PICK s \in from : s \in Rank /\ <<s, r>> \in abort_requests
        BY <2>2
    <3>2. <<s, r>>[1] = s
        OBVIOUS
    <3>3. abort_outstanding[s]
        BY <3>1, <3>2 DEF AbortFlood
    <3>. QED
        BY <3>1, <3>3 DEF AbortFlood
  <2>. QED
      BY <2>1, <2>2
<1>2. ASSUME Ask(r)
      PROVE  (\E q \in Rank : ABORT_FLAG'[q]) => (\E q \in Rank : ABORT_FLAG[q])
  <2>1. CASE SendRequest(r)
      BY <2>1 DEF SendRequest
  <2>2. CASE ReceiveReply(r)
    <3>1. PICK m \in replies : ABORT_FLAG' = [ABORT_FLAG EXCEPT ![r] = ABORT_FLAG[r] \/ m.abort]
        BY <2>2 DEF ReceiveReply
    <3>2. m.src \in Rank /\ (m.abort => ABORT_FLAG[m.src])
        BY DEF WorkerTypes, AbortFlood
    <3>3. ABORT_FLAG \in [Rank -> BOOLEAN]
        BY DEF WorkerTypes
    <3>. QED
        BY <3>1, <3>2, <3>3
  <2>. QED
      BY <1>2, <2>1, <2>2 DEF Ask
<1>. QED
    BY <1>1, <1>2

(* A rank enters the abort state only because its own callback asked for   *)
(* it or because another rank is in abort state.                           *)
LEMMA AbortSpreads ==
    ASSUME WorkerTypes, Conversation, Barrier, AbortFlood, AbortVote, [WorkerNext]_workerVars,
           ~\E r \in Rank : Work(r)
    PROVE  (\E q \in Rank : ABORT_FLAG'[q]) <=> (\E q \in Rank : ABORT_FLAG[q])
<1>1. ASSUME NEW r \in Rank, Vote(r)
      PROVE  (\E q \in Rank : ABORT_FLAG'[q]) <=> (\E q \in Rank : ABORT_FLAG[q])
    BY <1>1, ReduceKeeps
<1>2. ASSUME NEW r \in Rank, Serve(r) \/ FloodEnds(r) PROVE UNCHANGED ABORT_FLAG
    BY <1>2 DEF Serve, CIRCLE_workreq_check, FloodEnds, AbortTest
<1>3. CASE ~\E r \in Rank : Vote(r)
  <2>1. \A q \in Rank : ABORT_FLAG[q] => ABORT_FLAG'[q]
      BY <1>3, FlagsOnlyRise
  <2>2. (\E q \in Rank : ABORT_FLAG'[q]) => (\E q \in Rank : ABORT_FLAG[q])
      BY <1>2, <1>3, AbortSource, AbortSteps
  <2>. QED
      BY <2>1, <2>2
<1>. QED
    BY <1>1, <1>3

-----------------------------------------------------------------------------
(* What follows for every run, however termination is detected.            *)

(* The inductive invariant.                                                *)
WorkerInv ==
    /\ WorkerTypes /\ Conversation /\ ReceiptsBalance /\ WorkConserved
    /\ Barrier /\ AbortFlood /\ AbortVote /\ DumpsAfterVote

(* The invariant holds in every reachable state.                           *)
THEOREM WorkerInvHolds == WorkerSpec => []WorkerInv
<1>. DEFINE Base == WorkerTypes /\ Conversation /\ ReceiptsBalance /\ WorkConserved
            End == Barrier /\ AbortFlood /\ AbortVote /\ DumpsAfterVote
<1>1. WorkerInit => End
    BY BarrierInitially, FloodInit, VoteInit, DumpsInit
<1>2. Base /\ Base' /\ End /\ [WorkerNext]_workerVars => End'
    BY BarrierStep, FloodStep, VoteStep, DumpsStep
<1>3. WorkerSpec => []Base
    BY WorkerTypesHold, ConversationHolds, WorkerBalances, WorkerConserves, PTL
<1>4. Base /\ End => WorkerInv
    BY DEF WorkerInv
<1>. HIDE DEF Base, End
<1>. QED
    BY <1>1, <1>2, <1>3, <1>4, PTL DEF WorkerSpec

(* When a rank has left the cleanup loop, every rank has reached the       *)
(* barrier with nothing outstanding, and of all the messages of work       *)
(* distribution, abort and barrier only receipts and the results of the    *)
(* barrier can be left.                                                    *)
LEMMA PastIsClean ==
    ASSUME WorkerTypes, Conversation, Barrier, AbortFlood, NEW r \in Rank, Past(r)
    PROVE  /\ \A q \in Rank : Past(q) \/ (phase[q] = "cleanup" /\ barrier_started[q])
           /\ requests = {} /\ replies = {} /\ abort_requests = {} /\ abort_replies = {}
           /\ \A q \in Rank : work_requested[q] = None /\ ~abort_outstanding[q]
           /\ \A m \in barriers : Past(m[1]) /\ ~Past(m[2])
<1>1. \A q \in Rank : Past(q) \/ barrier_up[q]
    BY PastTogether
<1>2. \A q \in Rank : Past(q) \/ (phase[q] = "cleanup" /\ barrier_started[q])
    BY <1>1 DEF Barrier
<1>3. /\ requests = {} /\ replies = {}
      /\ \A q \in Rank : work_requested[q] = None /\ ~abort_outstanding[q]
    BY NoConversationPast
<1>4. abort_requests = {} /\ abort_replies = {}
  <2>1. /\ \A m \in abort_requests : m[1] \in Rank
        /\ \A m \in abort_replies : m[2] \in Rank
      BY DEF WorkerTypes, Pairs
  <2>. QED
      BY <1>3, <2>1 DEF AbortFlood
<1>5. ASSUME NEW m \in barriers PROVE Past(m[1]) /\ ~Past(m[2])
  <2>1. m[1] \in Rank /\ m[2] \in Rank
      BY DEF WorkerTypes, Pairs
  <2>2. ~GoesUp(m)
      BY <1>1, <2>1 DEF Barrier
  <2>3. Past(m[1]) /\ barrier_up[m[2]]
      BY <2>2 DEF Barrier
  <2>4. phase[m[2]] = "cleanup"
      BY <2>1, <2>3 DEF Barrier
  <2>. QED
      BY <2>3, <2>4 DEF Past
<1>. QED
    BY <1>2, <1>3, <1>4, <1>5

(* So it is in every reachable state.                                      *)
LEMMA CleanPast ==
    ASSUME WorkerInv, NEW r \in Rank, Past(r)
    PROVE  /\ \A q \in Rank : Past(q) \/ (phase[q] = "cleanup" /\ barrier_started[q])
           /\ requests = {} /\ replies = {} /\ abort_requests = {} /\ abort_replies = {}
           /\ \A q \in Rank : work_requested[q] = None /\ ~abort_outstanding[q]
           /\ \A m \in barriers : Past(m[1]) /\ ~Past(m[2])
<1>1. WorkerTypes /\ Conversation /\ Barrier /\ AbortFlood
    BY DEF WorkerInv
<1>. QED
    BY <1>1, PastIsClean

(* When every rank has returned, nothing of the abort reduction is left    *)
(* either.                                                                 *)
LEMMA AllVoted ==
    ASSUME WorkerInv, \A r \in Rank : phase[r] = "exit"
    PROVE  abort_reduces = {} /\ barriers = {}
<1>. USE RankFacts
<1>0. WorkerTypes /\ AbortVote
    BY DEF WorkerInv
<1>1. \A m \in abort_reduces : m.src \in Rank /\ m.dst \in Rank
    BY <1>0 DEF WorkerTypes, Flags
<1>2. abort_reduces = {}
    BY <1>0, <1>1 DEF AbortVote
<1>3. \A m \in barriers : m[2] \in Rank
    BY <1>0 DEF WorkerTypes, Pairs
<1>. QED
    BY <1>2, <1>3, CleanPast DEF Past

(* All ranks return with the same abort flag, which is set if any was.     *)
LEMMA VoteAgrees ==
    ASSUME WorkerInv
    PROVE  AbortAgreement
<1>. SUFFICES ASSUME NEW r \in Rank, NEW q \in Rank, phase[r] = "exit"
     PROVE  /\ ABORT_FLAG[q] => ABORT_FLAG[r]
            /\ phase[q] = "exit" => ABORT_FLAG[q] = ABORT_FLAG[r]
    BY DEF AbortAgreement
<1>1. AbortVote /\ phase[0] = "exit"
    BY VotedTogether DEF WorkerInv
<1>. QED
    BY <1>1 DEF AbortVote

(* A rank in abort state stays there until the reduction, and its items go *)
(* nowhere but into its checkpoint.                                        *)
LEMMA AbortKept ==
    ASSUME WorkerInv, [WorkerNext]_workerVars, NEW q \in Rank, ABORT_FLAG[q]
    PROVE  ABORT_FLAG'[q] /\ queue[q] \subseteq queue'[q] \cup checkpointed'
<1>0. WorkerTypes /\ Conversation /\ Barrier /\ AbortVote
    BY DEF WorkerInv
<1>1. CASE ~\E r \in Rank : Vote(r)
    BY <1>0, <1>1, FlagsOnlyRise, QueueSteps
<1>2. ASSUME NEW r \in Rank, Vote(r)
      PROVE  ABORT_FLAG'[q] /\ queue[q] \subseteq queue'[q] \cup checkpointed'
  <2>1. /\ ABORT_FLAG'[q]
        /\ q # r => queue'[q] = queue[q]
        /\ queue[r] \subseteq queue'[r] \cup checkpointed'
      BY <1>0, <1>2, ReduceKeeps
  <2>. QED
      BY <2>1
<1>. QED
    BY <1>1, <1>2
=============================================================================
