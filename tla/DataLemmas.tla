------------------------------ MODULE DataLemmas -------------------------------
(***************************************************************************)
(* Facts about the data the specifications are built from.  Queues as      *)
(* sequences: what taking a message from the middle does to the positions  *)
(* of the others, and to how many of them are in a given set.  Linked      *)
(* lists: which sequence of cells a walk along one visits.  Folds over     *)
(* finite sets, which are CHOOSEn functions: that there is one, and what   *)
(* sums along them amount to.                                              *)
(***************************************************************************)
EXTENDS Integers, SequencesExt, FiniteSetsExt, SequenceTheorems, FiniteSetTheorems,
        NaturalsInduction, TLAPS

\* Min returns the least element of a set of natural numbers that has any.
LEMMA MinOfNaturals ==
    ASSUME NEW S, S \subseteq Nat, S # {}
    PROVE  Min(S) \in S /\ \A y \in S : Min(S) <= y
<1> DEFINE R == OpToRel(<, Nat)
<1>1. IsWellFoundedOn(R, Nat)
  BY NatLessThanWellFounded
<1>2. \E x \in S : \A y \in S : ~ (<<y, x>> \in R)
  BY <1>1, WFMin
<1>3. \E x \in S : \A y \in S : x <= y
  <2>1. PICK x \in S : \A y \in S : ~ (<<y, x>> \in R)
    BY <1>2
  <2>2. ASSUME NEW y \in S, y < x PROVE FALSE
    <3>1. <<y, x>> \in R
      BY <2>2 DEF OpToRel
    <3>2. QED
      BY <3>1, <2>1
  <2>3. QED
    BY <2>2
<1>4. QED
  BY <1>3 DEF Min

\* The position in s of what is at position k once s[p] is removed.
Before(p, k) == IF k < p THEN k ELSE k + 1

\* Removing a message moves the later ones forward by one.
LEMMA RemoveAtProperties ==
    ASSUME NEW S, NEW s \in Seq(S), NEW p \in 1 .. Len(s)
    PROVE  /\ RemoveAt(s, p) \in Seq(S)
           /\ Len(RemoveAt(s, p)) = Len(s) - 1
           /\ \A k \in 1 .. Len(s) - 1 : RemoveAt(s, p)[k] = s[Before(p, k)]
<1> DEFINE a == SubSeq(s, 1, p - 1)
           b == SubSeq(s, p + 1, Len(s))
<1>1. \A i \in 1 .. Len(s) : s[i] \in S
  BY ElementOfSeq
<1>2. Len(s) \in Nat
  BY LenProperties
<1>3. a \in Seq(S) /\ Len(a) = p - 1 /\ \A i \in 1 .. p - 1 : a[i] = s[i]
  BY <1>1, <1>2, SubSeqProperties
<1>4. b \in Seq(S) /\ Len(b) = Len(s) - p /\ \A i \in 1 .. Len(s) - p : b[i] = s[p + i]
  BY <1>1, <1>2, SubSeqProperties
<1>5. RemoveAt(s, p) = a \o b
  BY DEF RemoveAt
<1> HIDE DEF a, b
<1>6. /\ a \o b \in Seq(S) /\ Len(a \o b) = Len(s) - 1
      /\ \A k \in 1 .. Len(s) - 1 :
            (a \o b)[k] = IF k <= p - 1 THEN a[k] ELSE b[k - (p - 1)]
  <2>1. /\ a \o b \in Seq(S) /\ Len(a \o b) = Len(a) + Len(b)
        /\ \A k \in 1 .. Len(a) + Len(b) :
              (a \o b)[k] = IF k <= Len(a) THEN a[k] ELSE b[k - Len(a)]
    BY <1>3, <1>4, ConcatProperties
  <2>2. Len(a) + Len(b) = Len(s) - 1
    BY <1>2, <1>3, <1>4
  <2>3. QED
    BY <2>1, <2>2, <1>3
<1>7. \A k \in 1 .. Len(s) - 1 : (a \o b)[k] = s[Before(p, k)]
  <2> SUFFICES ASSUME NEW k \in 1 .. Len(s) - 1 PROVE (a \o b)[k] = s[Before(p, k)]
    OBVIOUS
  <2>1. CASE k < p
    BY <1>2, <1>3, <1>6, <2>1 DEF Before
  <2>2. CASE k >= p
    <3>0. Before(p, k) = k + 1
      BY <1>2, <2>2 DEF Before
    <3>1. (a \o b)[k] = b[k - (p - 1)] /\ k - (p - 1) \in 1 .. Len(s) - p
      BY <1>2, <1>6, <2>2
    <3>2. b[k - (p - 1)] = s[p + (k - (p - 1))] /\ p + (k - (p - 1)) = k + 1
      BY <1>2, <1>4, <3>1
    <3>3. QED
      BY <3>0, <3>1, <3>2
  <2>3. k < p \/ k >= p
    BY <1>2
  <2>4. QED
    BY <2>1, <2>2, <2>3, Zenon
<1>8. QED
  BY <1>5, <1>6, <1>7

\* A set of positions without the one removed is as large as before.
LEMMA ShiftedPositions ==
    ASSUME NEW n \in Nat, NEW p \in 1 .. n, NEW K \in SUBSET (1 .. n), p \notin K
    PROVE  LET shifted == {k \in 1 .. n - 1 : Before(p, k) \in K}
           IN  IsFiniteSet(shifted) /\ Cardinality(shifted) = Cardinality(K)
<1> DEFINE shifted == {k \in 1 .. n - 1 : Before(p, k) \in K}
           f == [k \in shifted |-> Before(p, k)]
<1>1. IsFiniteSet(1 .. n - 1)
  BY FS_Interval
<1>2. IsFiniteSet(shifted)
  BY <1>1, FS_Subset
<1>3. f \in [shifted -> K]
  OBVIOUS
<1>4. \A a, b \in shifted : f[a] = f[b] => a = b
  BY DEF Before
<1>5. \A j \in K : \E k \in shifted : f[k] = j
  <2> SUFFICES ASSUME NEW j \in K PROVE \E k \in shifted : f[k] = j
    OBVIOUS
  <2>1. CASE j < p
    <3>1. j \in shifted /\ f[j] = j
      BY <2>1 DEF Before
    <3>2. QED
      BY <3>1
  <2>2. CASE j > p
    <3>1. j - 1 \in shifted /\ f[j - 1] = j
      BY <2>2 DEF Before
    <3>2. QED
      BY <3>1
  <2>3. QED
    BY <2>1, <2>2
<1>6. f \in Bijection(shifted, K)
  BY <1>3, <1>4, <1>5 DEF Bijection, Injection, IsInjective, Surjection
<1>7. ExistsBijection(shifted, K)
  BY <1>6 DEF ExistsBijection
<1>8. QED
  BY <1>2, <1>7, FS_Bijection

\* A set of positions is finite.
LEMMA PositionsFinite ==
    ASSUME NEW n \in Nat, NEW K \in SUBSET (1 .. n)
    PROVE  IsFiniteSet(K) /\ Cardinality(K) \in Nat
<1>1. IsFiniteSet(1 .. n)
  BY FS_Interval
<1>2. IsFiniteSet(K)
  BY <1>1, FS_Subset
<1>3. QED
  BY <1>2, FS_CardinalityType

\* The tail of a queue is the queue without its first message.
LEMMA TailRemoves ==
    ASSUME NEW S, NEW s \in Seq(S), s # <<>>
    PROVE  1 \in 1 .. Len(s) /\ Tail(s) = RemoveAt(s, 1)
<1>1. Len(s) \in Nat /\ 1 \in 1 .. Len(s)
  BY LenProperties, EmptySeq
<1>2. /\ Tail(s) \in Seq(S) /\ Len(Tail(s)) = Len(s) - 1
      /\ \A i \in 1 .. Len(Tail(s)) : Tail(s)[i] = s[i + 1]
  BY HeadTailProperties
<1>3. /\ RemoveAt(s, 1) \in Seq(S) /\ Len(RemoveAt(s, 1)) = Len(s) - 1
      /\ \A k \in 1 .. Len(s) - 1 : RemoveAt(s, 1)[k] = s[Before(1, k)]
  BY <1>1, RemoveAtProperties
<1>4. \A k \in 1 .. Len(s) - 1 : Tail(s)[k] = RemoveAt(s, 1)[k]
  BY <1>1, <1>2, <1>3 DEF Before
<1>5. QED
  BY <1>1, <1>2, <1>3, <1>4, SeqEqual

-------------------------------------------------------------------------------
(* Linked lists. *)

\* W[k] is the pointer reached after k steps along the cells of a linked list,
\* from start to the pointer stop.
Follows(W, N, start, stop, cells) ==
    W = [k \in 0 .. N |-> IF k = 0 THEN start
                          ELSE IF W[k - 1] = stop THEN stop ELSE cells[W[k - 1]].next]

\* Such a walk is determined by the cells.
LEMMA WalkUnique ==
    ASSUME NEW N \in Nat, NEW start, NEW stop, NEW cells, NEW W, NEW G,
           Follows(W, N, start, stop, cells), Follows(G, N, start, stop, cells)
    PROVE  W = G
<1> DEFINE D == {k \in 0 .. N : W[k] # G[k]}
<1>1. /\ \A k \in 0 .. N : W[k] = IF k = 0 THEN start
                                  ELSE IF W[k - 1] = stop THEN stop ELSE cells[W[k - 1]].next
      /\ \A k \in 0 .. N : G[k] = IF k = 0 THEN start
                                  ELSE IF G[k - 1] = stop THEN stop ELSE cells[G[k - 1]].next
  BY DEF Follows
<1>2. ASSUME D # {} PROVE FALSE
  <2>0. D \subseteq Nat
    OBVIOUS
  <2> HIDE DEF D
  <2>1. PICK m \in D : \A k \in D : m <= k
    BY <1>2, <2>0, MinOfNaturals
  <2>2. m \in 0 .. N /\ m # 0 /\ W[m] # G[m]
    BY <1>1, <2>1 DEF D
  <2>3. m - 1 \in 0 .. N /\ W[m - 1] = G[m - 1]
    <3>1. m - 1 \in 0 .. N /\ ~(m <= m - 1)
      BY <2>2
    <3>2. m - 1 \notin D
      BY <2>1, <3>1
    <3>3. QED
      BY <3>1, <3>2 DEF D
  <2>4. QED
    BY <1>1, <2>2, <2>3
<1>3. \A k \in 0 .. N : W[k] = G[k]
  BY <1>2
<1>4. W = [k \in 0 .. N |-> W[k]] /\ G = [k \in 0 .. N |-> G[k]]
  BY DEF Follows
<1>5. QED
  BY <1>3, <1>4

\* The sequences of cells that may be linked, none of them twice.
Paths(cell) == UNION {[1 .. n -> cell] : n \in 0 .. Cardinality(cell)}

\* They are sequences, no longer than the memory ...
LEMMA PathsAreSequences ==
    ASSUME NEW cell, IsFiniteSet(cell), NEW s \in Paths(cell)
    PROVE  /\ s \in Seq(cell) /\ Len(s) \in 0 .. Cardinality(cell)
           /\ Cardinality(cell) \in Nat
           /\ \A k \in 1 .. Len(s) : s[k] \in cell
<1>1. Cardinality(cell) \in Nat
  BY FS_CardinalityType
<1>2. PICK n \in 0 .. Cardinality(cell) : s \in [1 .. n -> cell]
  BY DEF Paths
<1>3. s \in Seq(cell) /\ Len(s) = n
  BY <1>1, <1>2
<1>4. \A k \in 1 .. Len(s) : s[k] \in cell
  BY <1>2, <1>3
<1>5. QED
  BY <1>1, <1>2, <1>3, <1>4

\* ... and such sequences are among them.
LEMMA SequencesArePaths ==
    ASSUME NEW cell, IsFiniteSet(cell), NEW s \in Seq(cell), Len(s) <= Cardinality(cell)
    PROVE  s \in Paths(cell)
<1>1. Cardinality(cell) \in Nat
  BY FS_CardinalityType
<1>2. s \in [1 .. Len(s) -> cell] /\ Len(s) \in 0 .. Cardinality(cell)
  BY <1>1, LenProperties
<1>3. QED
  BY <1>2 DEF Paths

\* The cells of s are linked to one another in this order.
ChainOf(s, start, stop, cells) ==
    /\ start = IF Len(s) = 0 THEN stop ELSE s[1]
    /\ \A k \in 1 .. Len(s) : cells[s[k]].next = IF k = Len(s) THEN stop ELSE s[k + 1]

\* A walk goes along the chain, and stays at its end.
LEMMA ChainWalk ==
    ASSUME NEW N \in Nat, NEW start, NEW stop, NEW cells, NEW s,
           Len(s) \in 0 .. N, \A k \in 1 .. Len(s) : s[k] # stop,
           ChainOf(s, start, stop, cells)
    PROVE  Follows([k \in 0 .. N |-> IF k < Len(s) THEN s[k + 1] ELSE stop],
                   N, start, stop, cells)
<1> DEFINE G == [k \in 0 .. N |-> IF k < Len(s) THEN s[k + 1] ELSE stop]
<1>1. ASSUME NEW k \in 0 .. N
      PROVE  G[k] = IF k = 0 THEN start
                    ELSE IF G[k - 1] = stop THEN stop ELSE cells[G[k - 1]].next
  <2>1. CASE k = 0
    <3>1. start = IF Len(s) = 0 THEN stop ELSE s[1]
      BY DEF ChainOf
    <3>2. QED
      BY <2>1, <3>1
  <2>2. CASE k # 0 /\ k - 1 < Len(s)
    <3>1. k - 1 \in 0 .. N /\ k \in 1 .. Len(s)
      BY <2>2
    <3>2. G[k - 1] = s[k] /\ s[k] # stop
      BY <2>2, <3>1
    <3>3. cells[s[k]].next = IF k = Len(s) THEN stop ELSE s[k + 1]
      BY <3>1 DEF ChainOf
    <3>4. QED
      BY <2>2, <3>1, <3>2, <3>3
  <2>3. CASE k # 0 /\ ~(k - 1 < Len(s))
    BY <2>3
  <2>4. QED
    BY <2>1, <2>2, <2>3
<1>2. QED
  BY <1>1 DEF Follows

-------------------------------------------------------------------------------
(* Sums and folds over finite sets. *)

\* A set of natural numbers that holds 0 and all successors holds them all.
LEMMA SetInduction ==
    ASSUME NEW K, 0 \in K, \A k \in Nat : k \in K => k + 1 \in K
    PROVE  \A k \in Nat : k \in K
<1> SUFFICES ASSUME Nat \ K # {} PROVE FALSE
  OBVIOUS
<1>1. PICK k : k = Min(Nat \ K)
  OBVIOUS
<1>2. k \in Nat /\ k \notin K /\ \A y \in Nat \ K : k <= y
  BY <1>1, MinOfNaturals
<1>3. k # 0 /\ k - 1 \in Nat /\ (k - 1) + 1 = k
  BY <1>2
<1>4. k - 1 \in K
  <2>1. ~ (k <= k - 1)
    BY <1>2
  <2>2. QED
    BY <1>2, <1>3, <2>1
<1>5. QED
  BY <1>2, <1>3, <1>4

\* What holds of a set whenever it holds of the set without any one element
\* holds of all finite sets.
LEMMA RemovalInduction ==
    ASSUME NEW S, IsFiniteSet(S), NEW P,
           \A s \in SUBSET S : (\A x \in s : s \ {x} \in P) => s \in P
    PROVE  \A s \in SUBSET S : s \in P
<1> DEFINE K == {k \in Nat : \A s \in SUBSET S : Cardinality(s) = k => s \in P}
<1>1. \A s \in SUBSET S : IsFiniteSet(s) /\ Cardinality(s) \in Nat
  BY FS_Subset, FS_CardinalityType
<1>2. 0 \in K
  <2> SUFFICES ASSUME NEW s \in SUBSET S, Cardinality(s) = 0 PROVE s \in P
    OBVIOUS
  <2>1. s = {}
    BY <1>1, FS_EmptySet
  <2>2. QED
    BY <2>1
<1>3. \A k \in Nat : k \in K => k + 1 \in K
  <2> SUFFICES ASSUME NEW k \in Nat, k \in K,
                      NEW s \in SUBSET S, Cardinality(s) = k + 1
               PROVE  s \in P
    OBVIOUS
  <2>1. \A x \in s : s \ {x} \in SUBSET S /\ Cardinality(s \ {x}) = k
    BY <1>1, FS_RemoveElement
  <2>2. QED
    BY <2>1
<1>4. \A k \in Nat : k \in K
  <2> HIDE DEF K
  <2>1. QED
    BY <1>2, <1>3, SetInduction
<1>5. QED
  BY <1>1, <1>4

\* g maps the subsets of S to what F makes of their elements one by one, from b.
IsFold(g, F, b, S) ==
    g = [s \in SUBSET S |->
            IF s = {} THEN b
            ELSE F[<<CHOOSE x \in s : TRUE, g[s \ {CHOOSE x \in s : TRUE}]>>]]

\* There is such a fold.
LEMMA FoldExists ==
    ASSUME NEW S, IsFiniteSet(S), NEW V, NEW b \in V, NEW F \in [S \X V -> V]
    PROVE  \E g \in [SUBSET S -> V] : IsFold(g, F, b, S)
<1> DEFINE Upto(k) == {s \in SUBSET S : Cardinality(s) <= k}
           Chosen(s) == CHOOSE x \in s : TRUE
           Good(g, k) == \A s \in Upto(k) :
                            g[s] = IF s = {} THEN b ELSE F[<<Chosen(s), g[s \ {Chosen(s)}]>>]
           K == {k \in Nat : \E g \in [Upto(k) -> V] : Good(g, k)}
<1>1. \A s \in SUBSET S : IsFiniteSet(s) /\ Cardinality(s) \in Nat
  BY FS_Subset, FS_CardinalityType
<1>2. \A s \in SUBSET S : s # {} => Chosen(s) \in s
  OBVIOUS
<1>3. \A s \in SUBSET S : s # {} =>
         /\ Chosen(s) \in S /\ s \ {Chosen(s)} \in SUBSET S
         /\ Cardinality(s \ {Chosen(s)}) = Cardinality(s) - 1
  BY <1>1, <1>2, FS_RemoveElement
<1>4. 0 \in K
  <2>1. \A s \in Upto(0) : s = {}
    BY <1>1, FS_EmptySet
  <2>2. [s \in Upto(0) |-> b] \in [Upto(0) -> V]
    OBVIOUS
  <2>3. Good([s \in Upto(0) |-> b], 0)
    <3> HIDE DEF Upto
    <3>1. QED
      BY <2>1
  <2>4. QED
    BY <2>2, <2>3
<1>5. \A k \in Nat : k \in K => k + 1 \in K
  <2> TAKE k \in Nat
  <2> HAVE k \in K
  <2> SUFFICES \E h \in [Upto(k + 1) -> V] : Good(h, k + 1)
    <3> HIDE DEF Good, Upto
    <3>1. QED
      OBVIOUS
  <2> PICK g \in [Upto(k) -> V] : Good(g, k)
    <3> HIDE DEF Good, Upto
    <3>1. QED
      OBVIOUS
  <2> DEFINE h == [s \in Upto(k + 1) |->
                      IF s \in Upto(k) THEN g[s] ELSE F[<<Chosen(s), g[s \ {Chosen(s)}]>>]]
  <2>1. \A s \in Upto(k + 1) : s # {} => Chosen(s) \in S /\ s \ {Chosen(s)} \in Upto(k)
    <3> SUFFICES ASSUME NEW s \in Upto(k + 1), s # {}
                 PROVE  Chosen(s) \in S /\ s \ {Chosen(s)} \in Upto(k)
      OBVIOUS
    <3> HIDE DEF Chosen
    <3>1. Cardinality(s) \in Nat /\ Cardinality(s) <= k + 1
      BY <1>1
    <3>2. QED
      BY <1>3, <3>1
  <2>2. \A s \in Upto(k) : s \in Upto(k + 1)
    BY <1>1
  <2>3. {} \in Upto(k)
    BY FS_EmptySet
  <2> HIDE DEF Upto, Chosen
  <2>4. h \in [Upto(k + 1) -> V]
    <3> SUFFICES ASSUME NEW s \in Upto(k + 1), s \notin Upto(k)
                 PROVE  F[<<Chosen(s), g[s \ {Chosen(s)}]>>] \in V
      OBVIOUS
    <3>1. Chosen(s) \in S /\ g[s \ {Chosen(s)}] \in V
      BY <2>1, <2>3
    <3>2. QED
      BY <3>1
  <2>5. Good(h, k + 1)
    <3> SUFFICES ASSUME NEW s \in Upto(k + 1)
                 PROVE  h[s] = IF s = {} THEN b ELSE F[<<Chosen(s), h[s \ {Chosen(s)}]>>]
      OBVIOUS
    <3>1. s # {} => h[s \ {Chosen(s)}] = g[s \ {Chosen(s)}]
      BY <2>1, <2>2
    <3>2. CASE s \in Upto(k)
      <4>1. h[s] = g[s]
        BY <3>2
      <4>2. QED
        BY <3>1, <3>2, <4>1
    <3>3. CASE s \notin Upto(k)
      <4>1. s # {} /\ h[s] = F[<<Chosen(s), g[s \ {Chosen(s)}]>>]
        BY <2>3, <3>3
      <4>2. QED
        BY <3>1, <4>1
    <3>4. QED
      BY <3>2, <3>3
  <2>6. QED
    BY <2>4, <2>5
<1>6. Cardinality(S) \in K
  <2>1. Cardinality(S) \in Nat
    BY <1>1
  <2> HIDE DEF K
  <2>2. QED
    BY <1>4, <1>5, <2>1, SetInduction
<1>7. Upto(Cardinality(S)) = SUBSET S
  BY FS_Subset
<1>8. PICK g \in [SUBSET S -> V] : Good(g, Cardinality(S))
  <2> HIDE DEF Upto
  <2>1. QED
    BY <1>6, <1>7
<1>9. \A s \in SUBSET S : g[s] = IF s = {} THEN b ELSE F[<<Chosen(s), g[s \ {Chosen(s)}]>>]
  <2> HIDE DEF Upto, Chosen
  <2>1. QED
    BY <1>7, <1>8
<1>10. g = [s \in SUBSET S |-> IF s = {} THEN b ELSE F[<<Chosen(s), g[s \ {Chosen(s)}]>>]]
  BY <1>9
<1>11. QED
  BY <1>10 DEF IsFold

-------------------------------------------------------------------------------

\* g maps the subsets of S to the sum of v over them.
IsSum(g, v, S) ==
    g = [s \in SUBSET S |->
            IF s = {} THEN 0
            ELSE v[CHOOSE x \in s : TRUE] + g[s \ {CHOOSE x \in s : TRUE}]]

\* The sum of v over S.
Total(v, S) == (CHOOSE g : IsSum(g, v, S))[S]

\* Integers can be summed up.
LEMMA SumsExist ==
    ASSUME NEW S, IsFiniteSet(S), NEW v, \A x \in S : v[x] \in Int
    PROVE  \E g \in [SUBSET S -> Int] : IsSum(g, v, S)
<1> DEFINE F == [p \in S \X Int |-> v[p[1]] + p[2]]
           Chosen(s) == CHOOSE x \in s : TRUE
<1>1. F \in [S \X Int -> Int] /\ 0 \in Int
  OBVIOUS
<1>2. PICK g \in [SUBSET S -> Int] : IsFold(g, F, 0, S)
  <2> HIDE DEF F
  <2>1. \E g \in [SUBSET S -> Int] : IsFold(g, F, 0, S)
    BY ONLY IsFiniteSet(S), <1>1, FoldExists
  <2>2. QED
    BY <2>1
<1>3. \A s \in SUBSET S : g[s] = IF s = {} THEN 0 ELSE F[<<Chosen(s), g[s \ {Chosen(s)}]>>]
  <2> HIDE DEF F
  <2>1. QED
    BY <1>2 DEF IsFold
<1>4. \A s \in SUBSET S : s # {} => Chosen(s) \in S /\ g[s \ {Chosen(s)}] \in Int
  OBVIOUS
<1>5. \A s \in SUBSET S : g[s] = IF s = {} THEN 0 ELSE v[Chosen(s)] + g[s \ {Chosen(s)}]
  <2> HIDE DEF Chosen
  <2>1. QED
    BY <1>3, <1>4
<1>6. g = [s \in SUBSET S |-> IF s = {} THEN 0 ELSE v[Chosen(s)] + g[s \ {Chosen(s)}]]
  <2> HIDE DEF Chosen, F
  <2>1. QED
    BY <1>5
<1>7. QED
  BY <1>6 DEF IsSum

\* An element more adds its value, whichever it is.
Adds(g, v, S) ==
    /\ g[{}] = 0
    /\ \A s \in SUBSET S : \A x \in S \ s : g[s \cup {x}] = v[x] + g[s]

\* The order in which a sum takes its elements does not matter.
LEMMA SumsAdd ==
    ASSUME NEW S, IsFiniteSet(S), NEW v, \A x \in S : v[x] \in Int,
           NEW g \in [SUBSET S -> Int], IsSum(g, v, S)
    PROVE  Adds(g, v, S)
<1> DEFINE Chosen(s) == CHOOSE x \in s : TRUE
           P == {s \in SUBSET S : \A x \in S \ s : g[s \cup {x}] = v[x] + g[s]}
<1>1. g = [s \in SUBSET S |-> IF s = {} THEN 0 ELSE v[Chosen(s)] + g[s \ {Chosen(s)}]]
  BY DEF IsSum
<1>2. \A s \in SUBSET S : g[s] = IF s = {} THEN 0 ELSE v[Chosen(s)] + g[s \ {Chosen(s)}]
  <2> HIDE DEF Chosen
  <2>1. QED
    BY <1>1
<1>3. \A s : s # {} => Chosen(s) \in s
  OBVIOUS
<1> HIDE DEF Chosen
<1>4. ASSUME NEW s \in SUBSET S, \A y \in s : s \ {y} \in P, NEW x \in S \ s
      PROVE  g[s \cup {x}] = v[x] + g[s]
  <2> DEFINE t == s \cup {x}
  <2>1. t \in SUBSET S /\ t # {} /\ Chosen(t) \in t
    BY <1>3
  <2>2. g[t] = v[Chosen(t)] + g[t \ {Chosen(t)}]
    <3> HIDE DEF t
    <3>1. QED
      BY <1>2, <2>1
  <2>3. CASE Chosen(t) = x
    <3>1. t \ {x} = s
      OBVIOUS
    <3> HIDE DEF t
    <3>2. QED
      BY <2>2, <2>3, <3>1 DEF t
  <2>4. CASE Chosen(t) # x
    <3> DEFINE y == Chosen(t)
               r == s \ {y}
    <3>1. y \in s
      BY <2>1, <2>4
    <3> HIDE DEF y
    <3>2. r \in P /\ r \in SUBSET S /\ x \in S \ r /\ y \in S \ r
      BY <1>4, <3>1
    <3>3. g[r \cup {x}] = v[x] + g[r] /\ g[r \cup {y}] = v[y] + g[r]
      BY <3>2
    <3>4. r \cup {x} = t \ {y} /\ r \cup {y} = s
      BY <2>4, <3>1 DEF y
    <3>5. g[t] = v[y] + (v[x] + g[r]) /\ g[s] = v[y] + g[r]
      BY <2>2, <3>3, <3>4 DEF y
    <3>6. v[x] \in Int /\ v[y] \in Int /\ g[r] \in Int
      BY <3>2
    <3> HIDE DEF r, t
    <3>7. QED
      BY <3>5, <3>6 DEF t
  <2>5. QED
    BY <2>3, <2>4
<1>5. \A s \in SUBSET S : (\A y \in s : s \ {y} \in P) => s \in P
  BY <1>4
<1>6. \A s \in SUBSET S : s \in P
  <2> HIDE DEF P
  <2>1. QED
    BY <1>5, RemovalInduction
<1>7. g[{}] = 0
  BY <1>2
<1>8. QED
  BY <1>6, <1>7 DEF Adds

\* What a sum is depends on what is summed up, and on nothing else.
LEMMA SumsUnique ==
    ASSUME NEW S, IsFiniteSet(S), NEW v, \A x \in S : v[x] \in Int,
           NEW T, S \subseteq T, NEW w, \A x \in S : v[x] = w[x],
           NEW g, IsSum(g, v, S), NEW h, IsSum(h, w, T)
    PROVE  \A s \in SUBSET S : g[s] = h[s]
<1> DEFINE Chosen(s) == CHOOSE x \in s : TRUE
           P == {s \in SUBSET S : g[s] = h[s]}
<1>1. g = [s \in SUBSET S |-> IF s = {} THEN 0 ELSE v[Chosen(s)] + g[s \ {Chosen(s)}]]
  BY DEF IsSum
<1>2. h = [s \in SUBSET T |-> IF s = {} THEN 0 ELSE w[Chosen(s)] + h[s \ {Chosen(s)}]]
  BY DEF IsSum
<1>3. \A s : s # {} => Chosen(s) \in s
  OBVIOUS
<1> HIDE DEF Chosen
<1>4. \A s \in SUBSET S : g[s] = IF s = {} THEN 0 ELSE v[Chosen(s)] + g[s \ {Chosen(s)}]
  BY <1>1
<1>5. \A s \in SUBSET T : h[s] = IF s = {} THEN 0 ELSE w[Chosen(s)] + h[s \ {Chosen(s)}]
  BY <1>2
<1>6. ASSUME NEW s \in SUBSET S, \A y \in s : s \ {y} \in P
      PROVE  g[s] = h[s]
  <2>1. CASE s = {}
    <3>1. {} \in SUBSET T
      OBVIOUS
    <3>2. QED
      BY <2>1, <1>4, <1>5, <3>1
  <2>2. CASE s # {}
    <3>1. Chosen(s) \in s /\ s \in SUBSET T
      BY <1>3, <2>2
    <3>2. g[s \ {Chosen(s)}] = h[s \ {Chosen(s)}] /\ v[Chosen(s)] = w[Chosen(s)]
      BY <1>6, <3>1
    <3>3. QED
      BY <1>4, <1>5, <2>2, <3>1, <3>2
  <2>3. QED
    BY <2>1, <2>2
<1>7. \A s \in SUBSET S : (\A y \in s : s \ {y} \in P) => s \in P
  BY <1>6
<1>8. QED
  <2> HIDE DEF P
  <2>1. \A s \in SUBSET S : s \in P
    BY <1>7, RemovalInduction
  <2>2. QED
    BY <2>1 DEF P

\* The sum can be read off any such function.
LEMMA TotalValue ==
    ASSUME NEW S, IsFiniteSet(S), NEW v, \A x \in S : v[x] \in Int,
           NEW T, S \subseteq T, NEW w, \A x \in S : v[x] = w[x],
           NEW h, IsSum(h, w, T)
    PROVE  Total(v, S) = h[S]
<1>1. \E g : IsSum(g, v, S)
  BY SumsExist
<1>2. PICK g : g = CHOOSE f : IsSum(f, v, S)
  OBVIOUS
<1>3. IsSum(g, v, S)
  BY <1>1, <1>2
<1>4. S \in SUBSET S
  OBVIOUS
<1>5. g[S] = h[S]
  BY <1>3, <1>4, SumsUnique
<1>6. QED
  BY <1>2, <1>5 DEF Total

\* The sum over the empty set, over one element more, and its type.
LEMMA TotalAdd ==
    ASSUME NEW S, IsFiniteSet(S), NEW v, \A x \in S : v[x] \in Int
    PROVE  /\ Total(v, {}) = 0
           /\ Total(v, S) \in Int
           /\ \A x : x \notin S /\ v[x] \in Int => Total(v, S \cup {x}) = v[x] + Total(v, S)
<1>1. Total(v, {}) = 0 /\ Total(v, S) \in Int
  <2>1. PICK g \in [SUBSET S -> Int] : IsSum(g, v, S)
    BY SumsExist
  <2>2. IsFiniteSet({}) /\ {} \subseteq S
    BY FS_EmptySet
  <2>3. Total(v, S) = g[S]
    BY <2>1, TotalValue
  <2>4. Total(v, {}) = g[{}]
    BY <2>1, <2>2, TotalValue
  <2>5. g[{}] = 0
    BY <2>1, SumsAdd DEF Adds
  <2>6. QED
    BY <2>1, <2>3, <2>4, <2>5
<1>2. ASSUME NEW e, e \notin S, v[e] \in Int
      PROVE  Total(v, S \cup {e}) = v[e] + Total(v, S)
  <2>0. PICK T : T = S \cup {e}
    OBVIOUS
  <2>1. IsFiniteSet(T)
    BY <2>0, FS_AddElement
  <2>2. \A y \in T : v[y] \in Int
    BY <1>2, <2>0
  <2>3. S \in SUBSET T /\ e \in T \ S
    BY <1>2, <2>0
  <2>4. PICK g \in [SUBSET T -> Int] : IsSum(g, v, T)
    BY <2>1, <2>2, SumsExist
  <2>5. Total(v, T) = g[T]
    BY <2>1, <2>2, <2>4, TotalValue
  <2>6. Total(v, S) = g[S]
    BY <2>1, <2>2, <2>3, <2>4, TotalValue
  <2>7. g[S \cup {e}] = v[e] + g[S]
    <3>1. Adds(g, v, T)
      BY <2>1, <2>2, <2>4, SumsAdd
    <3>2. QED
      BY <2>3, <3>1 DEF Adds
  <2>8. QED
    BY <2>5, <2>6, <2>7, <2>0
<1>3. QED
  BY <1>1, <1>2

\* The sum depends on the values on the set only.
LEMMA TotalSame ==
    ASSUME NEW S, IsFiniteSet(S), NEW v, \A x \in S : v[x] \in Int,
           NEW w, \A x \in S : v[x] = w[x]
    PROVE  Total(v, S) = Total(w, S)
<1>1. \A x \in S : w[x] \in Int
  OBVIOUS
<1>2. PICK h \in [SUBSET S -> Int] : IsSum(h, w, S)
  BY <1>1, SumsExist
<1>3. Total(v, S) = h[S]
  BY <1>2, TotalValue
<1>4. Total(w, S) = h[S]
  BY <1>1, <1>2, TotalValue
<1>5. QED
  BY <1>3, <1>4

\* The sum over two sets that have nothing in common.
LEMMA TotalUnion ==
    ASSUME NEW T, IsFiniteSet(T), NEW v, \A x \in T : v[x] \in Int,
           NEW S, S \subseteq T
    PROVE  Total(v, T) = Total(v, S) + Total(v, T \ S)
<1> DEFINE R == T \ S
           P == {s \in SUBSET R : Total(v, S \cup s) = Total(v, S) + Total(v, s)}
<1>1. \A s \in SUBSET T : IsFiniteSet(s) /\ \A x \in s : v[x] \in Int
  BY FS_Subset
<1>2. IsFiniteSet(R) /\ IsFiniteSet(S)
  BY <1>1
<1>3. \A s \in SUBSET T : Total(v, s) \in Int /\ \A x \in T \ s : Total(v, s \cup {x}) = v[x] + Total(v, s)
  BY <1>1, TotalAdd
<1>4. Total(v, {}) = 0
  BY TotalAdd
<1>5. ASSUME NEW s \in SUBSET R, \A x \in s : s \ {x} \in P
      PROVE  Total(v, S \cup s) = Total(v, S) + Total(v, s)
  <2>1. CASE s = {}
    <3>1. S \cup s = S /\ Total(v, s) = 0 /\ Total(v, S) \in Int
      BY <2>1, <1>3, <1>4
    <3>2. QED
      BY <3>1
  <2>2. CASE s # {}
    <3>1. PICK x \in s : TRUE
      BY <2>2
    <3>2. PICK r : r = s \ {x}
      OBVIOUS
    <3>3. Total(v, S \cup r) = Total(v, S) + Total(v, r)
      BY <1>5, <3>2
    <3>4. r \in SUBSET T /\ S \cup r \in SUBSET T /\ x \in T \ r /\ x \in T \ (S \cup r)
      BY <3>2
    <3>5. s = r \cup {x} /\ S \cup s = (S \cup r) \cup {x}
      BY <3>2
    <3>6. Total(v, s) = v[x] + Total(v, r) /\ Total(v, S \cup s) = v[x] + Total(v, S \cup r)
      BY <1>3, <3>4, <3>5
    <3>7. v[x] \in Int /\ Total(v, r) \in Int /\ Total(v, S) \in Int
      BY <1>3, <3>4
    <3>8. QED
      BY <3>3, <3>6, <3>7
  <2>3. QED
    BY <2>1, <2>2
<1>6. \A s \in SUBSET R : s \in P
  <2>1. \A s \in SUBSET R : (\A x \in s : s \ {x} \in P) => s \in P
    BY <1>5
  <2> HIDE DEF P, R
  <2>2. QED
    BY <1>2, <2>1, RemovalInduction
<1>7. R \in P /\ S \cup R = T
  BY <1>6
<1>8. QED
  BY <1>7

\* Sums of natural numbers are at most what the largest of them allows ...
LEMMA TotalBound ==
    ASSUME NEW S, IsFiniteSet(S), NEW b \in Nat, NEW v, \A x \in S : v[x] \in 0 .. b
    PROVE  Total(v, S) \in 0 .. b * Cardinality(S)
<1> DEFINE P == {s \in SUBSET S : Total(v, s) \in 0 .. b * Cardinality(s)}
<1>1. \A s \in SUBSET S : IsFiniteSet(s) /\ \A x \in s : v[x] \in Int
  BY FS_Subset
<1>2. \A s \in SUBSET S : Total(v, s) \in Int /\ \A x \in S \ s : Total(v, s \cup {x}) = v[x] + Total(v, s)
  BY <1>1, TotalAdd
<1>3. Total(v, {}) = 0 /\ Cardinality({}) = 0
  BY <1>1, TotalAdd, FS_EmptySet
<1>4. ASSUME NEW s \in SUBSET S, \A x \in s : s \ {x} \in P
      PROVE  Total(v, s) \in 0 .. b * Cardinality(s)
  <2>1. CASE s = {}
    BY <2>1, <1>3
  <2>2. CASE s # {}
    <3>1. PICK x \in s : TRUE
      BY <2>2
    <3>2. PICK r : r = s \ {x}
      OBVIOUS
    <3>3. Total(v, r) \in 0 .. b * Cardinality(r)
      BY <1>4, <3>2
    <3>4. r \in SUBSET S /\ x \in S \ r /\ s = r \cup {x}
      BY <3>2
    <3>5. Total(v, s) = v[x] + Total(v, r)
      BY <1>2, <3>4
    <3>6. Cardinality(s) = Cardinality(r) + 1 /\ Cardinality(r) \in Nat
      BY <1>1, <3>4, FS_AddElement, FS_CardinalityType
    <3>7. PICK n \in Nat : n = Cardinality(r)
      BY <3>6
    <3>8. b * (n + 1) = b * n + b /\ b * n \in Nat
      OBVIOUS
    <3>9. v[x] \in 0 .. b
      BY <3>4
    <3>10. QED
      BY <3>3, <3>5, <3>6, <3>7, <3>8, <3>9
  <2>3. QED
    BY <2>1, <2>2
<1>5. \A s \in SUBSET S : s \in P
  <2>1. \A s \in SUBSET S : (\A x \in s : s \ {x} \in P) => s \in P
    BY <1>4
  <2> HIDE DEF P
  <2>2. QED
    BY <2>1, RemovalInduction
<1>6. S \in P
  BY <1>5
<1>7. QED
  BY <1>6

\* ... and grow with the set.
LEMMA TotalMonotone ==
    ASSUME NEW T, IsFiniteSet(T), NEW v, \A x \in T : v[x] \in Nat,
           NEW S, S \subseteq T
    PROVE  Total(v, S) \in Nat /\ Total(v, T) \in Nat /\ Total(v, S) <= Total(v, T)
<1> DEFINE P == {s \in SUBSET T : Total(v, s) \in Nat}
<1>1. \A s \in SUBSET T : IsFiniteSet(s) /\ \A x \in s : v[x] \in Int
  BY FS_Subset
<1>2. \A s \in SUBSET T : \A x \in T \ s : Total(v, s \cup {x}) = v[x] + Total(v, s)
  BY <1>1, TotalAdd
<1>3. Total(v, {}) = 0
  BY <1>1, TotalAdd
<1>4. ASSUME NEW s \in SUBSET T, \A x \in s : s \ {x} \in P
      PROVE  Total(v, s) \in Nat
  <2>1. CASE s = {}
    BY <2>1, <1>3
  <2>2. CASE s # {}
    <3>1. PICK x \in s : TRUE
      BY <2>2
    <3>2. PICK r : r = s \ {x}
      OBVIOUS
    <3>3. Total(v, r) \in Nat
      BY <1>4, <3>2
    <3>4. r \in SUBSET T /\ x \in T \ r /\ s = r \cup {x}
      BY <3>2
    <3>5. Total(v, s) = v[x] + Total(v, r) /\ v[x] \in Nat
      BY <1>2, <3>4
    <3>6. QED
      BY <3>3, <3>5
  <2>3. QED
    BY <2>1, <2>2
<1>5. \A s \in SUBSET T : s \in P
  <2>1. \A s \in SUBSET T : (\A x \in s : s \ {x} \in P) => s \in P
    BY <1>4
  <2> HIDE DEF P
  <2>2. QED
    BY <2>1, RemovalInduction
<1>6. Total(v, S) \in Nat /\ Total(v, T) \in Nat /\ Total(v, T \ S) \in Nat
  BY <1>5
<1>7. Total(v, T) = Total(v, S) + Total(v, T \ S)
  BY <1>1, TotalUnion
<1>8. QED
  BY <1>6, <1>7

\* f maps the elements of S to those of I, which is within T, one to one.
MapsOnto(f, S, T, I) ==
    /\ f \in [S -> T]
    /\ \A x, y \in S : f[x] = f[y] => x = y
    /\ \A t : t \in I <=> \E x \in S : t = f[x]

\* A sum may be taken over the images of the elements instead.
LEMMA TotalImage ==
    ASSUME NEW S, IsFiniteSet(S), NEW T, NEW f, NEW I, MapsOnto(f, S, T, I),
           NEW v, \A t \in T : v[t] \in Int,
           NEW w, \A x \in S : w[x] = v[f[x]]
    PROVE  Total(w, S) = Total(v, I)
<1> DEFINE Image(s) == {f[x] : x \in s}
           P == {s \in SUBSET S : IsFiniteSet(Image(s)) /\ Total(w, s) = Total(v, Image(s))}
<1>0. /\ f \in [S -> T]
      /\ \A x, y \in S : f[x] = f[y] => x = y
      /\ \A t : t \in I <=> \E x \in S : t = f[x]
  BY DEF MapsOnto
<1>1. \A s \in SUBSET S : IsFiniteSet(s) /\ \A x \in s : w[x] \in Int
  BY <1>0, FS_Subset
<1>2. \A s \in SUBSET S : \A x \in S \ s : Total(w, s \cup {x}) = w[x] + Total(w, s)
  BY <1>1, TotalAdd
<1>3. Total(w, {}) = 0 /\ Total(v, {}) = 0 /\ IsFiniteSet({})
  <2>1. \A x \in {} : v[x] \in Int
    OBVIOUS
  <2>2. QED
    BY <1>1, <2>1, TotalAdd, FS_EmptySet
<1>4. ASSUME NEW s \in SUBSET S, \A x \in s : s \ {x} \in P
      PROVE  IsFiniteSet(Image(s)) /\ Total(w, s) = Total(v, Image(s))
  <2>1. CASE s = {}
    <3>1. Image(s) = {}
      BY <2>1
    <3>2. QED
      BY <2>1, <1>3, <3>1
  <2>2. CASE s # {}
    <3>1. PICK x \in s : TRUE
      BY <2>2
    <3>2. PICK r : r = s \ {x}
      OBVIOUS
    <3>3. IsFiniteSet(Image(r)) /\ Total(w, r) = Total(v, Image(r))
      BY <1>4, <3>2
    <3>4. r \in SUBSET S /\ x \in S \ r /\ s = r \cup {x}
      BY <3>2
    <3>5. Image(s) = Image(r) \cup {f[x]}
      BY <3>4
    <3>6. f[x] \notin Image(r) /\ f[x] \in T /\ Image(r) \subseteq T
      BY <1>0, <3>4
    <3>7. Total(w, s) = w[x] + Total(w, r)
      BY <1>2, <3>4
    <3>8. w[x] = v[f[x]]
      BY <3>4
    <3> HIDE DEF Image
    <3>9. IsFiniteSet(Image(s))
      BY <3>3, <3>5, FS_AddElement
    <3>10. Total(v, Image(r) \cup {f[x]}) = v[f[x]] + Total(v, Image(r))
      BY <3>3, <3>6, TotalAdd
    <3>11. QED
      BY <3>3, <3>5, <3>7, <3>8, <3>9, <3>10
  <2>3. QED
    BY <2>1, <2>2
<1>5. \A s \in SUBSET S : s \in P
  <2>1. \A s \in SUBSET S : (\A x \in s : s \ {x} \in P) => s \in P
    BY <1>4
  <2> HIDE DEF P
  <2>2. QED
    BY <2>1, RemovalInduction
<1>6. S \in P /\ Image(S) = I
  BY <1>0, <1>5
<1>7. QED
  BY <1>6

\* The sum of the same number over and over.
LEMMA TotalConstant ==
    ASSUME NEW S, IsFiniteSet(S), NEW c \in Int, NEW v, \A x \in S : v[x] = c
    PROVE  Total(v, S) = c * Cardinality(S)
<1> DEFINE P == {s \in SUBSET S : Total(v, s) = c * Cardinality(s)}
<1>1. \A s \in SUBSET S : IsFiniteSet(s) /\ \A x \in s : v[x] \in Int
  BY FS_Subset
<1>2. \A s \in SUBSET S : \A x \in S \ s : Total(v, s \cup {x}) = v[x] + Total(v, s)
  BY <1>1, TotalAdd
<1>3. Total(v, {}) = 0 /\ Cardinality({}) = 0
  BY <1>1, TotalAdd, FS_EmptySet
<1>4. ASSUME NEW s \in SUBSET S, \A x \in s : s \ {x} \in P
      PROVE  Total(v, s) = c * Cardinality(s)
  <2>1. CASE s = {}
    BY <2>1, <1>3
  <2>2. CASE s # {}
    <3>1. PICK x \in s : TRUE
      BY <2>2
    <3>2. PICK r : r = s \ {x}
      OBVIOUS
    <3>3. Total(v, r) = c * Cardinality(r)
      BY <1>4, <3>2
    <3>4. r \in SUBSET S /\ x \in S \ r /\ s = r \cup {x}
      BY <3>2
    <3>5. Total(v, s) = c + Total(v, r)
      BY <1>2, <3>4
    <3>6. Cardinality(s) = Cardinality(r) + 1 /\ Cardinality(r) \in Nat
      BY <1>1, <3>4, FS_AddElement, FS_CardinalityType
    <3>7. PICK n \in Nat : n = Cardinality(r)
      BY <3>6
    <3>8. c * (n + 1) = c * n + c /\ c * n \in Int
      OBVIOUS
    <3>9. QED
      BY <3>3, <3>5, <3>6, <3>7, <3>8
  <2>3. QED
    BY <2>1, <2>2
<1>5. \A s \in SUBSET S : s \in P
  <2>1. \A s \in SUBSET S : (\A x \in s : s \ {x} \in P) => s \in P
    BY <1>4
  <2> HIDE DEF P
  <2>2. QED
    BY <2>1, RemovalInduction
<1>6. S \in P
  BY <1>5
<1>7. QED
  BY <1>6

\* The sum of two values of each element.
LEMMA TotalPlus ==
    ASSUME NEW S, IsFiniteSet(S), NEW u, NEW v, NEW w,
           \A x \in S : u[x] \in Int /\ v[x] \in Int /\ w[x] = u[x] + v[x]
    PROVE  Total(w, S) = Total(u, S) + Total(v, S)
<1> DEFINE P == {s \in SUBSET S : Total(w, s) = Total(u, s) + Total(v, s)}
<1>1. \A s \in SUBSET S :
         IsFiniteSet(s) /\ \A x \in s : u[x] \in Int /\ v[x] \in Int /\ w[x] \in Int
  BY FS_Subset
<1>2. \A s \in SUBSET S : \A x \in S \ s :
         /\ Total(u, s) \in Int /\ Total(u, s \cup {x}) = u[x] + Total(u, s)
         /\ Total(v, s) \in Int /\ Total(v, s \cup {x}) = v[x] + Total(v, s)
         /\ Total(w, s \cup {x}) = w[x] + Total(w, s)
  <2> SUFFICES ASSUME NEW s \in SUBSET S, NEW x \in S \ s
               PROVE  /\ Total(u, s) \in Int /\ Total(u, s \cup {x}) = u[x] + Total(u, s)
                      /\ Total(v, s) \in Int /\ Total(v, s \cup {x}) = v[x] + Total(v, s)
                      /\ Total(w, s \cup {x}) = w[x] + Total(w, s)
    OBVIOUS
  <2>0. IsFiniteSet(s) /\ x \notin s /\ u[x] \in Int /\ v[x] \in Int /\ w[x] \in Int
    BY <1>1
  <2>1. Total(u, s) \in Int /\ Total(u, s \cup {x}) = u[x] + Total(u, s)
    BY <1>1, <2>0, TotalAdd
  <2>2. Total(v, s) \in Int /\ Total(v, s \cup {x}) = v[x] + Total(v, s)
    BY <1>1, <2>0, TotalAdd
  <2>3. Total(w, s \cup {x}) = w[x] + Total(w, s)
    BY <1>1, <2>0, TotalAdd
  <2>4. QED
    BY <2>1, <2>2, <2>3
<1>3. Total(u, {}) = 0 /\ Total(v, {}) = 0 /\ Total(w, {}) = 0
  <2>1. IsFiniteSet({}) /\ \A x \in {} : u[x] \in Int /\ v[x] \in Int /\ w[x] \in Int
    BY FS_EmptySet
  <2>2. QED
    BY <2>1, TotalAdd
<1>4. ASSUME NEW s \in SUBSET S, \A x \in s : s \ {x} \in P
      PROVE  Total(w, s) = Total(u, s) + Total(v, s)
  <2>1. CASE s = {}
    BY <2>1, <1>3
  <2>2. CASE s # {}
    <3>1. PICK x \in s : TRUE
      BY <2>2
    <3>2. PICK r : r = s \ {x}
      OBVIOUS
    <3>3. Total(w, r) = Total(u, r) + Total(v, r)
      BY <1>4, <3>2
    <3>4. r \in SUBSET S /\ x \in S \ r /\ s = r \cup {x}
      BY <3>2
    <3>5. /\ Total(u, r) \in Int /\ Total(u, s) = u[x] + Total(u, r)
          /\ Total(v, r) \in Int /\ Total(v, s) = v[x] + Total(v, r)
          /\ Total(w, s) = w[x] + Total(w, r)
      BY <1>2, <3>4
    <3>6. u[x] \in Int /\ v[x] \in Int /\ w[x] = u[x] + v[x]
      BY <3>4
    <3>7. QED
      BY <3>3, <3>5, <3>6
  <2>3. QED
    BY <2>1, <2>2
<1>5. \A s \in SUBSET S : s \in P
  <2>1. \A s \in SUBSET S : (\A x \in s : s \ {x} \in P) => s \in P
    BY <1>4
  <2> HIDE DEF P
  <2>2. QED
    BY <2>1, RemovalInduction
<1>6. S \in P
  BY <1>5
<1>7. QED
  BY <1>6

\* Row sums and column sums of a table f: what is in the rows, row by row ...
RowSums(f, S, T) == [x \in S |-> Total(f[x], T)]

\* ... and column by column.
Column(f, S, y)     == [x \in S |-> f[x][y]]
ColumnSums(f, S, T) == [y \in T |-> Total(Column(f, S, y), S)]

\* A table has one sum, by rows or by columns.
LEMMA TotalSwap ==
    ASSUME NEW S, IsFiniteSet(S), NEW T, IsFiniteSet(T), NEW f,
           \A x \in S, y \in T : f[x][y] \in Int
    PROVE  Total(RowSums(f, S, T), S) = Total(ColumnSums(f, S, T), T)
<1> DEFINE Sums(s) == Total(RowSums(f, S, T), s) = Total(ColumnSums(f, s, T), T)
           P == {s \in SUBSET S : Sums(s)}
<1>1. \A s \in SUBSET S : IsFiniteSet(s)
  BY FS_Subset
<1>2. \A x \in S : Total(f[x], T) \in Int
  <2> TAKE x \in S
  <2>1. \A y \in T : f[x][y] \in Int
    OBVIOUS
  <2>2. QED
    BY <2>1, TotalAdd
<1>3. \A x \in S : RowSums(f, S, T)[x] = Total(f[x], T)
  BY DEF RowSums
<1>4. ASSUME NEW s \in SUBSET S, NEW y \in T
      PROVE  /\ \A x \in s : Column(f, s, y)[x] = f[x][y] /\ f[x][y] \in Int
             /\ Total(Column(f, s, y), s) \in Int
             /\ ColumnSums(f, s, T)[y] = Total(Column(f, s, y), s)
  <2>1. \A x \in s : Column(f, s, y)[x] = f[x][y] /\ f[x][y] \in Int
    BY DEF Column
  <2>2. \A x \in s : Column(f, s, y)[x] \in Int
    BY <2>1
  <2>3. Total(Column(f, s, y), s) \in Int
    BY <1>1, <2>2, TotalAdd
  <2>4. ColumnSums(f, s, T)[y] = Total(Column(f, s, y), s)
    BY DEF ColumnSums
  <2>5. QED
    BY <2>1, <2>3, <2>4
<1>5. ASSUME NEW s \in SUBSET S, \A x \in s : s \ {x} \in P
      PROVE  Sums(s)
  <2>1. CASE s = {}
    <3>1. Total(RowSums(f, S, T), {}) = 0
      <4>1. IsFiniteSet({}) /\ \A x \in {} : RowSums(f, S, T)[x] \in Int
        BY FS_EmptySet
      <4>2. QED
        BY <4>1, TotalAdd
    <3>2. \A y \in T : ColumnSums(f, s, T)[y] = 0
      <4> TAKE y \in T
      <4>1. IsFiniteSet({}) /\ \A x \in {} : Column(f, s, y)[x] \in Int
        BY FS_EmptySet
      <4>2. Total(Column(f, s, y), {}) = 0
        BY <4>1, TotalAdd
      <4>3. QED
        BY <1>4, <2>1, <4>2
    <3>3. Total(ColumnSums(f, s, T), T) = 0 * Cardinality(T)
      BY <3>2, TotalConstant
    <3>4. Cardinality(T) \in Nat
      BY FS_CardinalityType
    <3>5. QED
      BY <2>1, <3>1, <3>3, <3>4
  <2>2. CASE s # {}
    <3>1. PICK x \in s : TRUE
      BY <2>2
    <3>2. PICK r : r = s \ {x}
      OBVIOUS
    <3>3. r \in SUBSET S /\ x \in S \ r /\ s = r \cup {x} /\ x \notin r
      BY <3>2
    <3>4. Total(RowSums(f, S, T), r) = Total(ColumnSums(f, r, T), T)
      BY <1>5, <3>2
    <3>5. Total(RowSums(f, S, T), s) = Total(f[x], T) + Total(RowSums(f, S, T), r)
      <4>1. \A z \in r : RowSums(f, S, T)[z] \in Int
        BY <1>2, <1>3, <3>3
      <4>2. RowSums(f, S, T)[x] = Total(f[x], T) /\ RowSums(f, S, T)[x] \in Int
        BY <1>2, <1>3, <3>3
      <4>3. IsFiniteSet(r)
        BY <1>1, <3>3
      <4>4. Total(RowSums(f, S, T), r \cup {x}) = RowSums(f, S, T)[x] + Total(RowSums(f, S, T), r)
        BY <3>3, <4>1, <4>2, <4>3, TotalAdd
      <4>5. QED
        BY <3>3, <4>2, <4>4
    <3>6. ASSUME NEW y \in T
          PROVE  /\ ColumnSums(f, s, T)[y] = f[x][y] + ColumnSums(f, r, T)[y]
                 /\ f[x][y] \in Int /\ ColumnSums(f, r, T)[y] \in Int
      <4>1. /\ \A z \in s : Column(f, s, y)[z] = f[z][y] /\ f[z][y] \in Int
            /\ ColumnSums(f, s, T)[y] = Total(Column(f, s, y), s)
        BY <1>4
      <4>2. /\ \A z \in r : Column(f, r, y)[z] = f[z][y] /\ f[z][y] \in Int
            /\ Total(Column(f, r, y), r) \in Int
            /\ ColumnSums(f, r, T)[y] = Total(Column(f, r, y), r)
        BY <1>4, <3>3
      <4>3. \A z \in r : Column(f, s, y)[z] \in Int /\ Column(f, s, y)[z] = Column(f, r, y)[z]
        BY <3>3, <4>1, <4>2
      <4>4. IsFiniteSet(r) /\ Column(f, s, y)[x] = f[x][y] /\ f[x][y] \in Int
        BY <1>1, <3>3, <4>1
      <4>5. Total(Column(f, s, y), r \cup {x}) = Column(f, s, y)[x] + Total(Column(f, s, y), r)
        BY <3>3, <4>3, <4>4, TotalAdd
      <4>6. Total(Column(f, s, y), r) = Total(Column(f, r, y), r)
        BY <4>3, <4>4, TotalSame
      <4>7. QED
        BY <3>3, <4>1, <4>2, <4>4, <4>5, <4>6
    <3>7. Total(ColumnSums(f, s, T), T) = Total(f[x], T) + Total(ColumnSums(f, r, T), T)
      BY <3>6, TotalPlus
    <3>8. QED
      BY <3>4, <3>5, <3>7
  <2>3. QED
    BY <2>1, <2>2
<1>6. \A s \in SUBSET S : s \in P
  <2>1. \A s \in SUBSET S : (\A x \in s : s \ {x} \in P) => s \in P
    BY <1>5
  <2> HIDE DEF P
  <2>2. QED
    BY <2>1, RemovalInduction
<1>7. S \in P
  BY <1>6
<1>8. QED
  BY <1>7

\* Leaving elements out is counting 0 for them.
LEMMA TotalOf ==
    ASSUME NEW T, IsFiniteSet(T), NEW v, \A x \in T : v[x] \in Int,
           NEW S, S \subseteq T, NEW w,
           \A x \in T : w[x] = IF x \in S THEN v[x] ELSE 0
    PROVE  Total(w, T) = Total(v, S)
<1>1. IsFiniteSet(S) /\ IsFiniteSet(T \ S)
  BY FS_Subset
<1>2. \A x \in T : w[x] \in Int
  OBVIOUS
<1>3. Total(w, T) = Total(w, S) + Total(w, T \ S)
  BY <1>2, TotalUnion
<1>4. \A x \in T \ S : w[x] = 0
  OBVIOUS
<1>5. Total(w, T \ S) = 0 * Cardinality(T \ S)
  BY <1>1, <1>4, TotalConstant
<1>6. Cardinality(T \ S) \in Nat
  BY <1>1, FS_CardinalityType
<1>7. \A x \in S : v[x] \in Int /\ v[x] = w[x]
  OBVIOUS
<1>8. Total(v, S) = Total(w, S)
  BY <1>1, <1>7, TotalSame
<1>9. Total(v, S) \in Int
  BY <1>1, <1>7, TotalAdd
<1>10. QED
  BY <1>3, <1>5, <1>6, <1>8, <1>9

\* The sums of v over what p maps to each element of I.
GroupSums(v, S, p, I) == [j \in I |-> Total(v, {x \in S : p[x] = j})]

\* A sum may be taken group by group.
LEMMA TotalGroups ==
    ASSUME NEW S, IsFiniteSet(S), NEW v, \A x \in S : v[x] \in Int,
           NEW I, IsFiniteSet(I), NEW p, \A x \in S : p[x] \in I
    PROVE  Total(GroupSums(v, S, p, I), I) = Total(v, S)
<1> DEFINE f == [j \in I |-> [x \in S |-> IF p[x] = j THEN v[x] ELSE 0]]
<1>1. \A j \in I, x \in S : f[j][x] = (IF p[x] = j THEN v[x] ELSE 0) /\ f[j][x] \in Int
  OBVIOUS
<1> HIDE DEF f
<1>2. Total(RowSums(f, I, S), I) = Total(ColumnSums(f, I, S), S)
  BY <1>1, TotalSwap
<1>3. \A j \in I : RowSums(f, I, S)[j] = GroupSums(v, S, p, I)[j] /\ RowSums(f, I, S)[j] \in Int
  <2> SUFFICES ASSUME NEW j \in I
               PROVE  RowSums(f, I, S)[j] = GroupSums(v, S, p, I)[j] /\ RowSums(f, I, S)[j] \in Int
    OBVIOUS
  <2>1. PICK Q : Q = {x \in S : p[x] = j}
    OBVIOUS
  <2>2. Q \subseteq S /\ \A x \in S : f[j][x] = IF x \in Q THEN v[x] ELSE 0
    BY <1>1, <2>1
  <2>3. Total(f[j], S) = Total(v, Q)
    BY <2>2, TotalOf
  <2>4. IsFiniteSet(Q) /\ \A x \in Q : v[x] \in Int
    BY <2>2, FS_Subset
  <2>5. Total(v, Q) \in Int
    BY <2>4, TotalAdd
  <2>6. GroupSums(v, S, p, I)[j] = Total(v, Q)
    BY <2>1 DEF GroupSums
  <2>7. QED
    BY <2>3, <2>5, <2>6 DEF RowSums
<1>4. \A x \in S : ColumnSums(f, I, S)[x] = v[x]
  <2> SUFFICES ASSUME NEW x \in S PROVE ColumnSums(f, I, S)[x] = v[x]
    OBVIOUS
  <2>0. PICK w : w = [j \in I |-> v[x]]
    OBVIOUS
  <2>1. {p[x]} \subseteq I /\ \A j \in I : Column(f, I, x)[j] = IF j \in {p[x]} THEN w[j] ELSE 0
    BY <1>1, <2>0 DEF Column
  <2>2. Total(Column(f, I, x), I) = Total(w, {p[x]})
    BY <2>0, <2>1, TotalOf
  <2>3. Total(w, {p[x]}) = v[x] * Cardinality({p[x]})
    <3>1. IsFiniteSet({p[x]}) /\ \A j \in {p[x]} : w[j] = v[x]
      BY <2>0, <2>1, FS_Singleton
    <3>2. QED
      BY <3>1, TotalConstant
  <2>4. Cardinality({p[x]}) = 1
    BY FS_Singleton
  <2>5. QED
    BY <2>2, <2>3, <2>4 DEF ColumnSums
<1>5. Total(RowSums(f, I, S), I) = Total(GroupSums(v, S, p, I), I)
  BY <1>3, TotalSame
<1>6. Total(ColumnSums(f, I, S), S) = Total(v, S)
  BY <1>4, TotalSame
<1>7. QED
  BY <1>2, <1>5, <1>6

===============================================================================
