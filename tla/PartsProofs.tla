------------------------------ MODULE PartsProofs ------------------------------
(***************************************************************************)
(* The sequential parts of the programs, each by itself and then side by   *)
(* side: the pool of pool.c, for any memory; the ranking of print.c, for   *)
(* any number of users and any balances; the parser of conf.txt, for any   *)
(* file and any defaults in order; and what the theorems on the user's     *)
(* list and on the journeys say of them as parts of Parts.                 *)
(***************************************************************************)
EXTENDS Parts, DataLemmas

-------------------------------------------------------------------------------
(* The pool: a first-in-first-out list, whose cells form a chain from head to *)
(* tail that holds every cell allocated, each once.                           *)

\* s is the chain of the cells from head to tail.
Chain(s) ==
    /\ \A k, l \in 1 .. Len(s) : s[k] = s[l] => k = l
    /\ allocated = {s[k] : k \in 1 .. Len(s)}
    /\ Cardinality(allocated) = Len(s)
    /\ head = IF Len(s) = 0 THEN Null ELSE s[1]
    /\ tail = IF Len(s) = 0 THEN Null ELSE s[Len(s)]
    /\ \A k \in 1 .. Len(s) : heap[s[k]].next = IF k = Len(s) THEN Null ELSE s[k + 1]

\* The pool is a chain, as long as its size says.
PoolInv == TypeOK /\ \E s \in Paths(Cell) : Chain(s) /\ size = Len(s)

\* What the operators that walk along the pool return.
Walked(s) ==
    /\ Walk = [k \in 0 .. Cardinality(Cell) |-> IF k < Len(s) THEN s[k + 1] ELSE Null]
    /\ Steps = 0 .. Len(s) - 1
    /\ Cardinality(Steps) = Len(s)
    /\ Contents = [k \in 1 .. Len(s) |-> heap[s[k]].tx]

-------------------------------------------------------------------------------

\* A chain is a sequence of cells, no longer than the memory.
LEMMA CellsAreSequences ==
    ASSUME NEW s \in Paths(Cell)
    PROVE  /\ s \in Seq(Cell) /\ Len(s) \in 0 .. Cardinality(Cell)
           /\ Cardinality(Cell) \in Nat
           /\ \A k \in 1 .. Len(s) : s[k] \in Cell /\ s[k] # Null
BY PathsAreSequences, TransPoolAssumption DEF TransPoolAssumption

\* And the other way round.
LEMMA SequencesAreCells ==
    ASSUME NEW s \in Seq(Cell), Len(s) <= Cardinality(Cell)
    PROVE  s \in Paths(Cell)
BY SequencesArePaths, TransPoolAssumption DEF TransPoolAssumption

\* A walk goes along the chain, and stays at its end.
LEMMA WalkAlong == \A s \in Paths(Cell) : Chain(s) => Walked(s)
<1> SUFFICES ASSUME NEW s \in Paths(Cell), Chain(s) PROVE Walked(s)
  OBVIOUS
<1> DEFINE N == Cardinality(Cell)
           G == [k \in 0 .. N |-> IF k < Len(s) THEN s[k + 1] ELSE Null]
<1>1. /\ Len(s) \in 0 .. N /\ N \in Nat
      /\ \A k \in 1 .. Len(s) : s[k] \in Cell /\ s[k] # Null
  BY CellsAreSequences
<1>2. Follows(G, N, head, Null, heap)
  <2>1. ChainOf(s, head, Null, heap)
    BY DEF Chain, ChainOf
  <2>2. QED
    BY <1>1, <2>1, ChainWalk
<1>3. Follows(Walk, N, head, Null, heap)
  BY <1>2 DEF Walk, Follows
<1>4. Walk = G
  <2> HIDE DEF N, G
  <2>1. QED
    BY <1>1, <1>2, <1>3, WalkUnique
<1>5. Steps = 0 .. Len(s) - 1
  BY <1>1, <1>4 DEF Steps
<1>6. Cardinality(Steps) = Len(s)
  <2>1. Cardinality(0 .. Len(s) - 1) = IF 0 > Len(s) - 1 THEN 0 ELSE (Len(s) - 1) - 0 + 1
    <3>1. 0 \in Int /\ Len(s) - 1 \in Int
      BY <1>1
    <3>2. QED
      BY <3>1, FS_Interval
  <2>2. QED
    BY <1>1, <1>5, <2>1
<1>7. Contents = [k \in 1 .. Len(s) |-> heap[s[k]].tx]
  <2>1. \A k \in 1 .. Len(s) : Walk[k - 1] = s[k]
    BY <1>1, <1>4
  <2>2. QED
    BY <1>6, <2>1 DEF Contents
<1>8. QED
  BY <1>4, <1>5, <1>6, <1>7 DEF Walked

\* The same after a step.
LEMMA WalkAlongNext == \A s \in Paths(Cell) : Chain(s)' => Walked(s)'
<1>1. (\A s \in Paths(Cell) : Chain(s) => Walked(s))'
  BY WalkAlong, PTL
<1>2. QED
  BY <1>1

-------------------------------------------------------------------------------
(* The steps. *)

\* add_to_pool makes the chain, and what the pool holds, longer by one.
LEMMA AddStep ==
    ASSUME PoolInv, NEW t \in Tx, AddToPool(t)
    PROVE  /\ TypeOK'
           /\ \E u \in Paths(Cell) : Chain(u)' /\ size' = Len(u)
           /\ Contents' = Append(Contents, t)
<1>1. PICK s \in Paths(Cell) : Chain(s) /\ size = Len(s)
  BY DEF PoolInv
<1> DEFINE n == Len(s)
<1>2. /\ s \in Seq(Cell) /\ n \in Nat /\ n \in 0 .. Cardinality(Cell) /\ Cardinality(Cell) \in Nat
      /\ \A k \in 1 .. n : s[k] \in Cell /\ s[k] # Null
  BY CellsAreSequences
<1>3. PICK c \in Cell \ allocated :
         /\ allocated' = allocated \cup {c}
         /\ heap' = Linked(c, t)
         /\ tail' = c
         /\ head' = IF head = Null THEN c ELSE head
         /\ size' = size + 1
         /\ taken' = None
  BY DEF AddToPool
<1>4. PICK u \in Seq(Cell) :
         /\ Len(u) = n + 1 /\ u[n + 1] = c
         /\ \A k \in 1 .. n : u[k] = s[k]
  <2>1. /\ Append(s, c) \in Seq(Cell)
        /\ Len(Append(s, c)) = n + 1 /\ Append(s, c)[n + 1] = c
        /\ \A k \in 1 .. n : Append(s, c)[k] = s[k]
    BY <1>2, <1>3, AppendProperties
  <2>2. QED
    BY <2>1
<1>5. /\ \A k, l \in 1 .. n : s[k] = s[l] => k = l
      /\ allocated = {s[k] : k \in 1 .. n}
      /\ Cardinality(allocated) = n
      /\ head = IF n = 0 THEN Null ELSE s[1]
      /\ tail = IF n = 0 THEN Null ELSE s[n]
      /\ \A k \in 1 .. n : heap[s[k]].next = IF k = n THEN Null ELSE s[k + 1]
  BY <1>1 DEF Chain
<1> HIDE DEF n
<1>6. c # Null /\ \A k \in 1 .. n : s[k] # c
  BY <1>3, <1>5, TransPoolAssumption DEF TransPoolAssumption
<1>7. allocated' \in SUBSET Cell /\ Cardinality(allocated') = n + 1 /\ n + 1 <= Cardinality(Cell)
  <2>1. allocated \subseteq Cell /\ allocated' \subseteq Cell /\ IsFiniteSet(Cell)
    BY <1>3, TransPoolAssumption DEF PoolInv, TypeOK, TransPoolAssumption
  <2>2. IsFiniteSet(allocated)
    BY <2>1, FS_Subset
  <2>3. Cardinality(allocated') = Cardinality(allocated) + 1
    BY <1>3, <2>2, FS_AddElement
  <2>4. Cardinality(allocated') <= Cardinality(Cell)
    BY <2>1, FS_Subset
  <2>5. QED
    BY <1>5, <2>1, <2>3, <2>4
<1>8. /\ heap' \in [Cell -> [tx : Tx \cup {None}, next : Cell \cup {Null}]]
      /\ heap'[c].tx = t /\ heap'[c].next = Null
      /\ \A k \in 1 .. n : /\ heap'[s[k]].tx = heap[s[k]].tx
                           /\ heap'[s[k]].next = IF k = n THEN c ELSE heap[s[k]].next
  <2>1. heap \in [Cell -> [tx : Tx \cup {None}, next : Cell \cup {Null}]]
    BY DEF PoolInv, TypeOK
  <2> DEFINE filled == [heap EXCEPT ![c] = [tx |-> t, next |-> Null]]
  <2>2. /\ filled \in [Cell -> [tx : Tx \cup {None}, next : Cell \cup {Null}]]
        /\ filled[c].tx = t /\ filled[c].next = Null
        /\ \A k \in 1 .. n : filled[s[k]] = heap[s[k]]
    BY <1>2, <1>3, <1>6, <2>1
  <2>3. heap' = IF tail = Null THEN filled ELSE [filled EXCEPT ![tail].next = c]
    BY <1>3 DEF Linked
  <2> HIDE DEF filled
  <2>4. CASE n = 0
    BY <1>5, <2>2, <2>3, <2>4
  <2>5. CASE n # 0
    <3>0. n \in 1 .. n /\ tail = s[n]
      BY <1>2, <1>5, <2>5
    <3>1. n \in 1 .. n /\ tail = s[n] /\ tail # Null /\ tail # c /\ tail \in Cell
      BY <1>2, <1>6, <3>0
    <3>2. heap' = [filled EXCEPT ![tail] = [@ EXCEPT !.next = c]]
      BY <2>3, <3>1
    <3>3. /\ filled[tail] \in [tx : Tx \cup {None}, next : Cell \cup {Null}]
          /\ heap'[tail] = [filled[tail] EXCEPT !.next = c]
          /\ \A d \in Cell \ {tail} : heap'[d] = filled[d]
      BY <2>2, <3>1, <3>2
    <3>4. heap'[tail].tx = filled[tail].tx /\ heap'[tail].next = c
      BY <3>3
    <3>5. heap' \in [Cell -> [tx : Tx \cup {None}, next : Cell \cup {Null}]]
      BY <1>3, <2>2, <3>2, <3>3
    <3>6. ASSUME NEW k \in 1 .. n
          PROVE  /\ heap'[s[k]].tx = heap[s[k]].tx
                 /\ heap'[s[k]].next = IF k = n THEN c ELSE heap[s[k]].next
      <4>1. CASE k = n
        BY <2>2, <3>1, <3>4, <4>1
      <4>2. CASE k # n
        <5>1. s[k] \in Cell \ {tail}
          BY <1>2, <1>5, <3>1, <4>2 DEF n
        <5>2. QED
          BY <2>2, <3>3, <4>2, <5>1
      <4>3. QED
        BY <4>1, <4>2
    <3>7. QED
      BY <1>3, <2>2, <3>1, <3>3, <3>5, <3>6
  <2>6. QED
    BY <2>4, <2>5
<1>9. u \in Paths(Cell)
  BY <1>4, <1>7, SequencesAreCells
<1>10. Chain(u)'
  <2>1. \A k, l \in 1 .. n + 1 : u[k] = u[l] => k = l
    <3> SUFFICES ASSUME NEW k \in 1 .. n + 1, NEW l \in 1 .. n + 1, u[k] = u[l] PROVE k = l
      OBVIOUS
    <3>1. \A m \in 1 .. n + 1 : m = n + 1 \/ m \in 1 .. n
      BY <1>2 DEF n
    <3>2. CASE k \in 1 .. n /\ l \in 1 .. n
      BY <1>4, <1>5, <3>2
    <3>3. CASE k = n + 1 /\ l \in 1 .. n
      BY <1>4, <1>6, <3>3
    <3>4. CASE k \in 1 .. n /\ l = n + 1
      BY <1>4, <1>6, <3>4
    <3>5. QED
      BY <3>1, <3>2, <3>3, <3>4
  <2>2. allocated' = {u[k] : k \in 1 .. n + 1}
    <3>1. 1 .. n + 1 = (1 .. n) \cup {n + 1}
      BY <1>2 DEF n
    <3>2. QED
      BY <1>3, <1>4, <1>5, <3>1
  <2>3. head' = u[1] /\ tail' = u[n + 1]
    <3>1. CASE n = 0
      BY <1>3, <1>4, <1>5, <3>1
    <3>2. CASE n # 0
      <4>1. 1 \in 1 .. n
        BY <1>2, <3>2 DEF n
      <4>2. head = s[1] /\ head # Null /\ u[1] = s[1]
        BY <1>2, <1>4, <1>5, <3>2, <4>1
      <4>3. QED
        BY <1>3, <1>4, <4>2
    <3>3. QED
      BY <3>1, <3>2
  <2>4. \A k \in 1 .. n + 1 : heap'[u[k]].next = IF k = n + 1 THEN Null ELSE u[k + 1]
    <3> SUFFICES ASSUME NEW k \in 1 .. n + 1
                 PROVE  heap'[u[k]].next = IF k = n + 1 THEN Null ELSE u[k + 1]
      OBVIOUS
    <3>1. CASE k = n + 1
      BY <1>4, <1>8, <3>1
    <3>2. CASE k = n
      BY <1>2, <1>4, <1>8, <3>2 DEF n
    <3>3. CASE k \in 1 .. n /\ k # n
      <4>1. k + 1 \in 1 .. n /\ k # n + 1
        BY <1>2, <3>3 DEF n
      <4>2. QED
        BY <1>4, <1>5, <1>8, <3>3, <4>1
    <3>4. QED
      BY <1>2, <3>1, <3>2, <3>3 DEF n
  <2>5. n + 1 # 0
    BY <1>2 DEF n
  <2>6. QED
    BY <1>4, <1>7, <2>1, <2>2, <2>3, <2>4, <2>5 DEF Chain
<1>11. TypeOK'
  <2>1. head' \in Cell \cup {Null} /\ size' \in 0 .. Cardinality(Cell)
    BY <1>1, <1>2, <1>3, <1>7 DEF PoolInv, TypeOK, n
  <2>2. QED
    BY <1>3, <1>7, <1>8, <2>1 DEF TypeOK
<1>12. Contents' = Append(Contents, t)
  <2>1. Walked(s) /\ Walked(u)'
    BY <1>1, <1>9, <1>10, WalkAlong, WalkAlongNext
  <2>2. Contents = [k \in 1 .. n |-> heap[s[k]].tx]
    BY <2>1 DEF Walked, n
  <2>3. Contents' = [k \in 1 .. n + 1 |-> heap'[u[k]].tx]
    BY <1>4, <2>1 DEF Walked
  <2>4. Contents \in Seq(Tx \cup {None}) /\ Len(Contents) = n
    BY <1>2, <2>2 DEF PoolInv, TypeOK, n
  <2>5. /\ Append(Contents, t) \in Seq(Tx \cup {None}) /\ Len(Append(Contents, t)) = n + 1
        /\ \A k \in 1 .. n + 1 :
              Append(Contents, t)[k] = IF k = n + 1 THEN t ELSE Contents[k]
    BY <2>4, AppendProperties
  <2>6. \A k \in 1 .. n + 1 : heap'[u[k]].tx = IF k = n + 1 THEN t ELSE Contents[k]
    BY <1>2, <1>4, <1>8, <2>2 DEF n
  <2>7. /\ \A k \in 1 .. n + 1 : Contents'[k] = Append(Contents, t)[k]
        /\ Contents' \in Seq(Tx \cup {None}) /\ Len(Contents') = n + 1
    <3>1. \A k \in 1 .. n + 1 : heap'[u[k]].tx \in Tx \cup {None}
      BY <1>4, <1>11 DEF TypeOK
    <3>2. n + 1 \in Nat
      BY <1>2 DEF n
    <3>3. Contents' \in Seq(Tx \cup {None}) /\ Len(Contents') = n + 1
      BY <2>3, <3>1, <3>2
    <3>4. \A k \in 1 .. n + 1 : Contents'[k] = Append(Contents, t)[k]
      BY <2>3, <2>5, <2>6
    <3>5. QED
      BY <3>3, <3>4
  <2>8. QED
    BY <2>5, <2>7, SeqEqual
<1>13. size' = Len(u)
  BY <1>1, <1>3, <1>4 DEF n
<1>14. QED
  BY <1>9, <1>10, <1>11, <1>12, <1>13

\* remove_from_pool takes the first cell off the chain, and its transaction
\* out of the pool.
LEMMA RemoveStep ==
    ASSUME PoolInv, RemoveFromPool
    PROVE  /\ TypeOK'
           /\ \E u \in Paths(Cell) : Chain(u)' /\ size' = Len(u)
           /\ Contents # <<>> /\ taken' = Head(Contents) /\ Contents' = Tail(Contents)
<1>1. PICK s \in Paths(Cell) : Chain(s) /\ size = Len(s)
  BY DEF PoolInv
<1> DEFINE n == Len(s)
<1>2. /\ s \in Seq(Cell) /\ n \in Nat /\ n \in 0 .. Cardinality(Cell) /\ Cardinality(Cell) \in Nat
      /\ \A k \in 1 .. n : s[k] \in Cell /\ s[k] # Null
  BY CellsAreSequences
<1>3. /\ \A k, l \in 1 .. n : s[k] = s[l] => k = l
      /\ allocated = {s[k] : k \in 1 .. n}
      /\ Cardinality(allocated) = n
      /\ head = IF n = 0 THEN Null ELSE s[1]
      /\ tail = IF n = 0 THEN Null ELSE s[n]
      /\ \A k \in 1 .. n : heap[s[k]].next = IF k = n THEN Null ELSE s[k + 1]
  BY <1>1 DEF Chain
<1>4. /\ head # Null
      /\ taken' = heap[head].tx
      /\ allocated' = allocated \ {head}
      /\ head' = heap[head].next
      /\ tail' = IF heap[head].next = Null THEN Null ELSE tail
      /\ size' = size - 1
      /\ heap' = heap
  BY DEF RemoveFromPool, TailAfterRemove, SizeAfterRemove
<1>5. n \in Nat /\ n # 0 /\ 1 \in 1 .. n /\ head = s[1] /\ s # <<>> /\ n - 1 \in Nat
  <2>1. n # 0 /\ head = s[1]
    BY <1>3, <1>4
  <2>2. s # <<>>
    BY <2>1
  <2> HIDE DEF n
  <2>3. n \in Nat /\ 1 \in 1 .. n /\ n - 1 \in Nat
    BY <1>2, <2>1
  <2>4. QED
    BY <2>1, <2>2, <2>3
<1>6. PICK u \in Seq(Cell) : Len(u) = n - 1 /\ \A k \in 1 .. n - 1 : u[k] = s[k + 1]
  <2>1. /\ Tail(s) \in Seq(Cell) /\ Len(Tail(s)) = n - 1
        /\ \A k \in 1 .. n - 1 : Tail(s)[k] = s[k + 1]
    BY <1>2, <1>5, HeadTailProperties
  <2>2. QED
    BY <2>1
<1> HIDE DEF n
<1>7. u \in Paths(Cell)
  BY <1>2, <1>5, <1>6, SequencesAreCells
<1>8. allocated' \in SUBSET Cell /\ Cardinality(allocated') = n - 1
  <2>1. allocated \subseteq Cell /\ IsFiniteSet(Cell)
    BY TransPoolAssumption DEF PoolInv, TypeOK, TransPoolAssumption
  <2>2. IsFiniteSet(allocated) /\ head \in allocated
    BY <1>3, <1>5, <2>1, FS_Subset
  <2>3. Cardinality(allocated') = Cardinality(allocated) - 1
    BY <1>4, <2>2, FS_RemoveElement
  <2>4. QED
    BY <1>3, <1>4, <2>1, <2>3
<1>9. \A k \in 1 .. n - 1 : k + 1 \in 1 .. n
  BY <1>5
<1>10. Chain(u)'
  <2>1. \A k, l \in 1 .. n - 1 : u[k] = u[l] => k = l
    <3> SUFFICES ASSUME NEW k \in 1 .. n - 1, NEW l \in 1 .. n - 1, u[k] = u[l] PROVE k = l
      OBVIOUS
    <3>1. k + 1 = l + 1
      BY <1>3, <1>6, <1>9
    <3>2. QED
      BY <3>1
  <2>2. allocated' = {u[k] : k \in 1 .. n - 1}
    <3>1. ASSUME NEW d \in allocated' PROVE \E k \in 1 .. n - 1 : d = u[k]
      <4>1. PICK j \in 1 .. n : d = s[j] /\ j # 1
        BY <1>3, <1>4, <1>5
      <4>2. j - 1 \in 1 .. n - 1 /\ (j - 1) + 1 = j
        BY <1>5, <4>1
      <4>3. QED
        BY <1>6, <4>1, <4>2
    <3>2. ASSUME NEW k \in 1 .. n - 1 PROVE u[k] \in allocated'
      <4>1. u[k] = s[k + 1] /\ k + 1 \in 1 .. n /\ k + 1 # 1
        BY <1>6, <1>9
      <4>2. s[k + 1] # s[1] /\ s[k + 1] \in allocated
        BY <1>3, <1>5, <4>1
      <4>3. QED
        BY <1>4, <1>5, <4>1, <4>2
    <3>3. QED
      BY <3>1, <3>2
  <2>3. /\ head' = IF n - 1 = 0 THEN Null ELSE u[1]
        /\ tail' = IF n - 1 = 0 THEN Null ELSE u[n - 1]
    <3>1. heap[head].next = IF 1 = n THEN Null ELSE s[1 + 1]
      BY <1>3, <1>5
    <3>2. CASE n = 1
      BY <1>4, <3>1, <3>2
    <3>3. CASE n # 1
      <4>1. 1 \in 1 .. n - 1 /\ n - 1 \in 1 .. n - 1 /\ (n - 1) + 1 = n /\ n \in 1 .. n
        BY <1>5, <3>3
      <4>2. u[1] = s[1 + 1] /\ u[n - 1] = s[n] /\ s[1 + 1] # Null
        BY <1>2, <1>6, <1>9, <4>1 DEF n
      <4>3. tail = s[n]
        BY <1>3, <1>5
      <4>4. n - 1 # 0
        BY <1>5, <3>3
      <4>5. QED
        BY <1>4, <3>1, <3>3, <4>2, <4>3, <4>4
    <3>4. QED
      BY <3>2, <3>3
  <2>4. \A k \in 1 .. n - 1 : heap'[u[k]].next = IF k = n - 1 THEN Null ELSE u[k + 1]
    <3> SUFFICES ASSUME NEW k \in 1 .. n - 1
                 PROVE  heap'[u[k]].next = IF k = n - 1 THEN Null ELSE u[k + 1]
      OBVIOUS
    <3>1. heap'[u[k]].next = IF k + 1 = n THEN Null ELSE s[(k + 1) + 1]
      BY <1>3, <1>4, <1>6, <1>9
    <3>2. CASE k = n - 1
      BY <1>5, <3>1, <3>2
    <3>3. CASE k # n - 1
      <4>1. k + 1 \in 1 .. n - 1 /\ k + 1 # n
        BY <1>5, <3>3
      <4>2. u[k + 1] = s[(k + 1) + 1]
        BY <1>6, <4>1
      <4>3. QED
        BY <3>1, <3>3, <4>1, <4>2
    <3>4. QED
      BY <3>2, <3>3
  <2>5. QED
    BY <1>6, <1>8, <2>1, <2>2, <2>3, <2>4 DEF Chain
<1>11. TypeOK' /\ size' = Len(u)
  <2>1. size' = n - 1 /\ size' \in 0 .. Cardinality(Cell)
    BY <1>1, <1>2, <1>4, <1>5 DEF n
  <2>2. heap[head] \in [tx : Tx \cup {None}, next : Cell \cup {Null}]
    BY <1>2, <1>5 DEF PoolInv, TypeOK, n
  <2>3. QED
    BY <1>4, <1>6, <1>8, <2>1, <2>2 DEF PoolInv, TypeOK
<1>12. Contents # <<>> /\ taken' = Head(Contents) /\ Contents' = Tail(Contents)
  <2>1. Walked(s) /\ Walked(u)'
    BY <1>1, <1>7, <1>10, WalkAlong, WalkAlongNext
  <2>2. Contents = [k \in 1 .. n |-> heap[s[k]].tx]
    BY <2>1 DEF Walked, n
  <2>3. Contents' = [k \in 1 .. n - 1 |-> heap'[u[k]].tx]
    BY <1>6, <2>1 DEF Walked
  <2>4. Contents \in Seq(Tx \cup {None}) /\ Len(Contents) = n
    BY <1>2, <2>2 DEF PoolInv, TypeOK, n
  <2>5. Contents # <<>> /\ Head(Contents) = Contents[1]
    BY <1>5, <2>4
  <2>6. taken' = Head(Contents)
    BY <1>4, <1>5, <2>2, <2>5
  <2>7. /\ Tail(Contents) \in Seq(Tx \cup {None}) /\ Len(Tail(Contents)) = n - 1
        /\ \A k \in 1 .. n - 1 : Tail(Contents)[k] = Contents[k + 1]
    BY <2>4, <2>5, HeadTailProperties
  <2>8. /\ \A k \in 1 .. n - 1 : Contents'[k] = Tail(Contents)[k]
        /\ Contents' \in Seq(Tx \cup {None}) /\ Len(Contents') = n - 1
    <3>1. \A k \in 1 .. n - 1 : heap'[u[k]].tx = heap[s[k + 1]].tx /\ k + 1 \in 1 .. n
      BY <1>4, <1>6, <1>9
    <3>2. \A k \in 1 .. n - 1 : Contents'[k] = Contents[k + 1]
      BY <2>2, <2>3, <3>1
    <3>3. \A k \in 1 .. n - 1 : heap'[u[k]].tx \in Tx \cup {None}
      BY <1>6, <1>11 DEF TypeOK
    <3>4. Contents' \in Seq(Tx \cup {None}) /\ Len(Contents') = n - 1
      BY <1>5, <2>3, <3>3
    <3>5. QED
      BY <2>7, <3>2, <3>4
  <2>9. QED
    BY <2>5, <2>6, <2>7, <2>8, SeqEqual
<1>13. QED
  BY <1>7, <1>10, <1>11, <1>12

-------------------------------------------------------------------------------
(* The theorems. *)

\* Memory that nobody has allocated holds an empty chain.
LEMMA EmptyPool == Init => PoolInv /\ Contents = <<>>
<1> SUFFICES ASSUME Init PROVE PoolInv /\ Contents = <<>>
  OBVIOUS
<1>1. Cardinality(Cell) \in Nat
  BY FS_CardinalityType, TransPoolAssumption DEF TransPoolAssumption
<1>2. TypeOK
  BY <1>1 DEF Init, TypeOK
<1>3. <<>> \in Paths(Cell) /\ Len(<<>>) = 0
  <2>1. <<>> \in Seq(Cell) /\ Len(<<>>) = 0
    OBVIOUS
  <2>2. ASSUME NEW s \in Seq(Cell), Len(s) = 0 PROVE s \in Paths(Cell)
    <3>1. Len(s) <= Cardinality(Cell)
      BY <1>1, <2>2
    <3>2. QED
      BY <3>1, SequencesAreCells
  <2>3. QED
    BY <2>1, <2>2
<1>4. Chain(<<>>)
  BY <1>3, FS_EmptySet DEF Init, Chain
<1>5. Contents = <<>>
  <2>1. Walked(<<>>)
    BY <1>3, <1>4, WalkAlong
  <2>2. QED
    BY <1>3, <2>1 DEF Walked
<1>6. QED
  BY <1>2, <1>3, <1>4, <1>5 DEF Init, PoolInv

\* A call that finds the pool empty takes nothing.
LEMMA EmptyStep ==
    ASSUME PoolInv, RemoveFromEmpty
    PROVE  PoolInv' /\ Contents = <<>> /\ UNCHANGED Contents /\ taken' = None
<1>1. PICK s \in Paths(Cell) : Chain(s) /\ size = Len(s)
  BY DEF PoolInv
<1>2. Len(s) = 0
  <2>1. \A k \in 1 .. Len(s) : s[k] # Null
    BY CellsAreSequences
  <2>2. Len(s) # 0 => 1 \in 1 .. Len(s)
    BY CellsAreSequences
  <2>3. QED
    BY <1>1, <2>1, <2>2 DEF Chain, RemoveFromEmpty
<1>3. Contents = <<>>
  <2>1. Walked(s)
    BY <1>1, WalkAlong
  <2>2. QED
    BY <1>2, <2>1 DEF Walked
<1>4. Chain(s)'
  BY <1>1 DEF Chain, RemoveFromEmpty
<1>5. Contents' = Contents
  <2>1. Walked(s)'
    BY <1>4, WalkAlongNext
  <2>2. QED
    BY <1>2, <1>3, <2>1 DEF Walked
<1>6. PoolInv'
  BY <1>1, <1>4 DEF PoolInv, TypeOK, RemoveFromEmpty
<1>7. QED
  BY <1>3, <1>5, <1>6 DEF RemoveFromEmpty

\* Every step keeps the pool a chain, and is one of a first-in-first-out list.
LEMMA FifoStep ==
    PoolInv /\ [Next]_vars =>
        PoolInv' /\ [Fifo!TakeHead \/ \E t \in Tx : Fifo!Add(t)]_Fifo!vars
<1> SUFFICES ASSUME PoolInv, [Next]_vars
             PROVE  PoolInv' /\ [Fifo!TakeHead \/ \E t \in Tx : Fifo!Add(t)]_Fifo!vars
  OBVIOUS
<1>1. ASSUME NEW t \in Tx, AddToPool(t) PROVE PoolInv' /\ Fifo!Add(t)
  BY <1>1, AddStep DEF PoolInv, AddToPool, Fifo!Add
<1>2. CASE RemoveFromPool
  BY <1>2, RemoveStep DEF PoolInv, Fifo!TakeHead
<1>3. CASE RemoveFromEmpty
  BY <1>3, EmptyStep DEF Fifo!TakeHead
<1>4. CASE UNCHANGED vars
  <2>1. PICK s \in Paths(Cell) : Chain(s) /\ size = Len(s)
    BY DEF PoolInv
  <2>2. Chain(s)'
    BY <1>4, <2>1 DEF Chain, vars
  <2>3. Walked(s) /\ Walked(s)'
    BY <2>1, <2>2, WalkAlong, WalkAlongNext
  <2>4. UNCHANGED <<Contents, taken>>
    BY <1>4, <2>3 DEF Walked, vars
  <2>5. PoolInv'
    BY <1>4, <2>1, <2>2 DEF PoolInv, TypeOK, vars
  <2>6. QED
    BY <2>4, <2>5 DEF Fifo!vars
<1>5. QED
  BY <1>1, <1>2, <1>3, <1>4 DEF Next

\* The cells of the pool are a chain, in which every cell allocated is once.
THEOREM PoolInvariant == Spec => []PoolInv
<1>1. Init => PoolInv
  BY EmptyPool
<1>2. PoolInv /\ [Next]_vars => PoolInv'
  BY FifoStep
<1>3. QED
  BY <1>1, <1>2, PTL DEF Spec

\* No cell leaks or is linked after it was freed, and size counts them.
THEOREM PoolOwnsCells == Spec => [](ListOwnsCells /\ SizeIsLength)
<1>1. PoolInv => ListOwnsCells /\ SizeIsLength
  <2> SUFFICES ASSUME PoolInv PROVE ListOwnsCells /\ SizeIsLength
    OBVIOUS
  <2>1. PICK s \in Paths(Cell) : Chain(s) /\ size = Len(s)
    BY DEF PoolInv
  <2>2. Walked(s)
    BY <2>1, WalkAlong
  <2>3. Len(s) \in 0 .. Cardinality(Cell) /\ Cardinality(Cell) \in Nat
    BY CellsAreSequences
  <2>4. {Walk[k] : k \in Steps} = allocated
    <3>1. allocated = {s[k] : k \in 1 .. Len(s)}
      BY <2>1 DEF Chain
    <3>2. \A k \in Steps : Walk[k] = s[k + 1] /\ k + 1 \in 1 .. Len(s)
      BY <2>2, <2>3 DEF Walked
    <3>3. \A k \in 1 .. Len(s) : k - 1 \in Steps /\ Walk[k - 1] = s[k]
      BY <2>2, <2>3 DEF Walked
    <3>4. QED
      BY <3>1, <3>2, <3>3
  <2>5. tail = IF Steps = {} THEN Null ELSE Walk[Cardinality(Steps) - 1]
    <3>1. CASE Len(s) = 0
      BY <2>1, <2>2, <3>1 DEF Walked, Chain
    <3>2. CASE Len(s) # 0
      <4>1. Len(s) - 1 \in 0 .. Cardinality(Cell) /\ Len(s) - 1 \in 0 .. Len(s) - 1
              /\ Len(s) - 1 < Len(s) /\ (Len(s) - 1) + 1 = Len(s)
        BY <2>3, <3>2
      <4>2. Steps # {} /\ Walk[Len(s) - 1] = s[Len(s)]
        BY <2>2, <4>1 DEF Walked
      <4>3. QED
        BY <2>1, <2>2, <3>2, <4>2 DEF Walked, Chain
    <3>3. QED
      BY <3>1, <3>2
  <2>6. QED
    BY <2>1, <2>2, <2>4, <2>5 DEF ListOwnsCells, SizeIsLength, Walked, Chain
<1>2. QED
  BY <1>1, PoolInvariant, PTL

\* pool.c implements the first-in-first-out list of TxList.
THEOREM PoolIsFifo == Spec => FifoSpec
<1>1. Init => Fifo!Init
  BY EmptyPool DEF Init, Fifo!Init
<1>2. PoolInv /\ [Next]_vars => [Fifo!TakeHead \/ \E t \in Tx : Fifo!Add(t)]_Fifo!vars
  BY FifoStep
<1>3. QED
  BY <1>1, <1>2, PoolInvariant, PTL DEF Spec, FifoSpec, Fifo!PoolSpec

-------------------------------------------------------------------------------
(* The ranking. *)

\* The entries the loop has done with.
Passed == {e \in Ranks!Entries : e < i}

\* Rank k, unless nobody has taken it, shows an entry and its balance.
Shown(k) == rank[k].of > 0 => rank[k].who \in Passed /\ balance[rank[k].who] = rank[k].of

\* No two ranks show the same entry.
Apart(k, l) == rank[k].of > 0 /\ rank[l].of > 0 => rank[k].who # rank[l].who

\* What the loop has found, as long as no balance changes.
Found ==
    /\ place # 0 => place = Ranks!PlaceOf(balance[i])
    /\ rank[1].of >= rank[2].of /\ rank[2].of >= rank[3].of
    /\ Shown(1) /\ Shown(2) /\ Shown(3)
    /\ Apart(1, 2) /\ Apart(1, 3) /\ Apart(2, 3)
    /\ \A e \in Passed : balance[e] <= rank[1].of
    /\ \A e \in Passed : balance[e] > rank[2].of => e = rank[1].who

\* Types of the variables.
RanksType ==
    /\ balance \in [Ranks!Entries -> 0 .. MaxBalance]
    /\ i \in 1 .. Length + 1
    /\ place \in 0 .. 4
    /\ place # 0 => i \in Ranks!Entries
    /\ rank \in [1 .. 3 -> [who : Ranks!Entries \cup {None}, of : 0 .. MaxBalance]]
    /\ moves \in Nat

\* The loop's invariant.
RanksInv == RanksType /\ (moves = 0 => Found)

-------------------------------------------------------------------------------

\* Significant counts as everybody does.
LEMMA RanksCardinality == \A S : Ranks!Cardinality(S) = Cardinality(S)
BY DEF Ranks!Cardinality, Cardinality

\* The test stops at the first rank below the balance, if there is one.
LEMMA PlaceFound ==
    ASSUME RanksType, NEW b \in Nat
    PROVE  /\ Ranks!PlaceOf(b) \in 1 .. 4
           /\ \A l \in 1 .. 3 : l < Ranks!PlaceOf(b) => b <= rank[l].of
           /\ Ranks!PlaceOf(b) < 4 => b > rank[Ranks!PlaceOf(b)].of
<1> DEFINE P(k) == /\ \A l \in 1 .. 3 : l < k => b <= rank[l].of
                   /\ k < 4 => b > rank[k].of
<1>1. \A l \in 1 .. 3 : rank[l].of \in Nat
  BY RanksAssumption DEF RanksType
<1>2. \E k \in 1 .. 4 : P(k)
  <2>1. CASE b > rank[1].of
    <3>1. P(1)
      BY <2>1
    <3>2. QED
      BY <3>1
  <2>2. CASE b <= rank[1].of /\ b > rank[2].of
    <3>1. P(2)
      BY <2>2
    <3>2. QED
      BY <3>1
  <2>3. CASE b <= rank[1].of /\ b <= rank[2].of /\ b > rank[3].of
    <3>1. P(3)
      BY <2>3
    <3>2. QED
      BY <3>1
  <2>4. CASE b <= rank[1].of /\ b <= rank[2].of /\ b <= rank[3].of
    <3>1. P(4)
      BY <2>4
    <3>2. QED
      BY <3>1
  <2>5. QED
    BY <1>1, <2>1, <2>2, <2>3, <2>4
<1>3. Ranks!PlaceOf(b) = CHOOSE k \in 1 .. 4 : P(k)
  BY DEF Ranks!PlaceOf
<1>4. Ranks!PlaceOf(b) \in 1 .. 4 /\ P(Ranks!PlaceOf(b))
  <2> HIDE DEF P
  <2>1. QED
    BY <1>2, <1>3
<1>5. QED
  BY <1>4

\* Before the loop nobody has a rank.
LEMMA RanksInit == Ranks!Init => RanksInv
<1> SUFFICES ASSUME Ranks!Init PROVE RanksInv
  OBVIOUS
<1>1. /\ rank[1] = Ranks!Rank(None, 0) /\ rank[2] = Ranks!Rank(None, 0) /\ rank[3] = Ranks!Rank(None, 0)
      /\ rank \in [1 .. 3 -> [who : Ranks!Entries \cup {None}, of : 0 .. MaxBalance]]
  BY RanksAssumption DEF Ranks!Init, Ranks!Rank
<1>2. RanksType
  BY <1>1, RanksAssumption DEF Ranks!Init, RanksType
<1>3. Passed = {}
  BY DEF Ranks!Init, Passed, Ranks!Entries
<1>4. Found
  BY <1>1, <1>3 DEF Ranks!Init, Found, Shown, Apart, Ranks!Rank
<1>5. QED
  BY <1>2, <1>4 DEF RanksInv

\* The test of an entry.
LEMMA TestStep == RanksInv /\ Ranks!Test => RanksInv'
<1> SUFFICES ASSUME RanksInv, Ranks!Test PROVE RanksInv'
  OBVIOUS
<1>1. i \in Ranks!Entries /\ place' = Ranks!PlaceOf(balance[i]) /\ UNCHANGED <<balance, i, rank, moves>>
  BY DEF Ranks!Test
<1>2. balance[i] \in Nat
  BY <1>1, RanksAssumption DEF RanksInv, RanksType
<1>3. place' \in 1 .. 4
  BY <1>1, <1>2, PlaceFound DEF RanksInv
<1>4. RanksType'
  BY <1>1, <1>3 DEF RanksInv, RanksType
<1>5. place' = Ranks!PlaceOf(balance[i])'
  BY <1>1 DEF Ranks!PlaceOf
<1>6. ASSUME moves' = 0 PROVE Found'
  <2>1. Found
    BY <1>1, <1>6 DEF RanksInv
  <2>2. QED
    BY <1>1, <1>5, <2>1 DEF Found, Shown, Apart, Passed, Ranks!Entries
<1>7. QED
  BY <1>4, <1>6 DEF RanksInv

\* An entry takes its place.
LEMMA TakeStep == RanksInv /\ Ranks!Take => RanksInv'
<1> SUFFICES ASSUME RanksInv, Ranks!Take PROVE RanksInv'
  OBVIOUS
<1> DEFINE b == balance[i]
           e == Ranks!Rank(i, b)
<1>1. /\ place # 0 /\ rank' = Ranks!Shifted(e) /\ i' = i + 1 /\ place' = 0
      /\ balance' = balance /\ moves' = moves
  BY DEF Ranks!Take
<1>2. /\ i \in Ranks!Entries /\ i \in Nat /\ i <= Length /\ Length \in Nat /\ b \in 0 .. MaxBalance
      /\ place \in 1 .. 4
      /\ balance \in [Ranks!Entries -> 0 .. MaxBalance] /\ moves \in Nat
      /\ rank \in [1 .. 3 -> [who : Ranks!Entries \cup {None}, of : 0 .. MaxBalance]]
  BY <1>1, RanksAssumption DEF RanksInv, RanksType, Ranks!Entries
<1>3. e \in [who : Ranks!Entries \cup {None}, of : 0 .. MaxBalance] /\ e.who = i /\ e.of = b
  BY <1>2 DEF Ranks!Rank
<1> HIDE DEF b, e
<1>4. /\ rank[1] \in [who : Ranks!Entries \cup {None}, of : 0 .. MaxBalance]
      /\ rank[2] \in [who : Ranks!Entries \cup {None}, of : 0 .. MaxBalance]
      /\ rank[3] \in [who : Ranks!Entries \cup {None}, of : 0 .. MaxBalance]
  BY <1>2
<1>5. \/ place = 1 /\ rank' = <<e, rank[1], rank[3]>>
      \/ place = 2 /\ rank' = <<rank[1], e, rank[2]>>
      \/ place = 3 /\ rank' = <<rank[1], rank[2], e>>
      \/ place = 4 /\ rank' = rank
  BY <1>1, <1>2 DEF Ranks!Shifted
<1>6. rank' \in [1 .. 3 -> [who : Ranks!Entries \cup {None}, of : 0 .. MaxBalance]]
  <2>1. ASSUME NEW x \in [who : Ranks!Entries \cup {None}, of : 0 .. MaxBalance],
               NEW y \in [who : Ranks!Entries \cup {None}, of : 0 .. MaxBalance],
               NEW z \in [who : Ranks!Entries \cup {None}, of : 0 .. MaxBalance]
        PROVE  <<x, y, z>> \in [1 .. 3 -> [who : Ranks!Entries \cup {None}, of : 0 .. MaxBalance]]
    OBVIOUS
  <2>2. QED
    BY <1>2, <1>3, <1>4, <1>5, <2>1
<1>7. RanksType'
  <2>1. i' \in 1 .. Length + 1
    BY <1>1, <1>2
  <2>2. QED
    BY <1>1, <1>2, <1>6, <2>1 DEF RanksType, Ranks!Entries
<1>8. ASSUME moves' = 0 PROVE Found'
  <2>1. Found
    BY <1>1, <1>8 DEF RanksInv
  <2>2. Passed' = Passed \cup {i} /\ i \notin Passed /\ Passed \subseteq Ranks!Entries
    BY <1>1, <1>2 DEF Passed, Ranks!Entries
  <2>3. place = Ranks!PlaceOf(b)
    BY <1>1, <2>1 DEF Found, b
  <2>4. /\ \A l \in 1 .. 3 : l < place => b <= rank[l].of
        /\ place < 4 => b > rank[place].of
    BY <1>2, <2>3, PlaceFound DEF RanksInv
  <2>5. \A d \in Passed : balance[d] \in Nat
    BY <1>2, <2>2
  <2>6. b \in Nat /\ rank[1].of \in Nat /\ rank[2].of \in Nat /\ rank[3].of \in Nat
    BY <1>2, <1>4
  <2>7. /\ rank[1].of >= rank[2].of /\ rank[2].of >= rank[3].of
        /\ \A k \in 1 .. 3 : rank[k].of > 0 => rank[k].who \in Passed /\ balance[rank[k].who] = rank[k].of
        /\ Apart(1, 2) /\ Apart(1, 3) /\ Apart(2, 3)
        /\ \A d \in Passed : balance[d] <= rank[1].of
        /\ \A d \in Passed : balance[d] > rank[2].of => d = rank[1].who
    BY <2>1 DEF Found, Shown
  <2>8. /\ \A k \in 1 .. 3 : rank[k].of > 0 => rank[k].who \in Passed' /\ rank[k].who # i
        /\ e.who = i /\ e.of = b /\ i \in Passed' /\ balance[i] = b
    BY <1>3, <2>2, <2>7 DEF b
  <2>9. SUFFICES
           /\ rank'[1].of >= rank'[2].of /\ rank'[2].of >= rank'[3].of
           /\ \A k \in 1 .. 3 : rank'[k].of > 0 =>
                 rank'[k].who \in Passed' /\ balance[rank'[k].who] = rank'[k].of
           /\ Apart(1, 2)' /\ Apart(1, 3)' /\ Apart(2, 3)'
           /\ \A d \in Passed' : balance[d] <= rank'[1].of
           /\ \A d \in Passed' : balance[d] > rank'[2].of => d = rank'[1].who
    BY <1>1 DEF Found, Shown
  <2>10. CASE place = 1
    <3>1. rank'[1] = e /\ rank'[2] = rank[1] /\ rank'[3] = rank[3] /\ b > rank[1].of
      BY <1>5, <2>4, <2>10
    <3>2. \A d \in Passed' : balance[d] <= b /\ (balance[d] > rank[1].of => d = i)
      BY <2>2, <2>5, <2>6, <2>7, <2>8, <3>1
    <3>3. b >= rank[1].of /\ rank[1].of >= rank[3].of
      BY <2>6, <2>7, <3>1
    <3>4. QED
      BY <2>7, <2>8, <3>1, <3>2, <3>3 DEF Apart
  <2>11. CASE place = 2
    <3>1. rank'[1] = rank[1] /\ rank'[2] = e /\ rank'[3] = rank[2] /\ b > rank[2].of
            /\ b <= rank[1].of
      BY <1>5, <2>4, <2>11
    <3>2. \A d \in Passed' : balance[d] <= rank[1].of /\ (balance[d] > b => d = rank[1].who)
      BY <2>2, <2>5, <2>6, <2>7, <2>8, <3>1
    <3>3. rank[1].of >= b /\ b >= rank[2].of
      BY <2>6, <2>7, <3>1
    <3>4. QED
      BY <2>7, <2>8, <3>1, <3>2, <3>3 DEF Apart
  <2>12. CASE place = 3
    <3>1. rank'[1] = rank[1] /\ rank'[2] = rank[2] /\ rank'[3] = e /\ b > rank[3].of
            /\ b <= rank[1].of /\ b <= rank[2].of
      BY <1>5, <2>4, <2>12
    <3>2. \A d \in Passed' : balance[d] <= rank[1].of /\ (balance[d] > rank[2].of => d = rank[1].who)
      BY <2>2, <2>5, <2>6, <2>7, <2>8, <3>1
    <3>3. rank[2].of >= b
      BY <2>6, <3>1
    <3>4. QED
      BY <2>7, <2>8, <3>1, <3>2, <3>3 DEF Apart
  <2>13. CASE place = 4
    <3>1. rank' = rank /\ b <= rank[1].of /\ b <= rank[2].of
      BY <1>5, <2>4, <2>13
    <3>2. \A d \in Passed' : balance[d] <= rank[1].of /\ (balance[d] > rank[2].of => d = rank[1].who)
      BY <2>2, <2>5, <2>6, <2>7, <2>8, <3>1
    <3>3. QED
      BY <2>7, <2>8, <3>1, <3>2 DEF Apart
  <2>14. QED
    BY <1>2, <2>10, <2>11, <2>12, <2>13
<1>9. QED
  BY <1>7, <1>8 DEF RanksInv

\* Every step of the loop, and every change of a balance.
LEMMA RanksStep == RanksInv /\ [Ranks!Next]_Ranks!vars => RanksInv'
<1> SUFFICES ASSUME RanksInv, [Ranks!Next]_Ranks!vars PROVE RanksInv'
  OBVIOUS
<1>1. CASE Ranks!Move
  <2>1. moves' # 0
    BY <1>1 DEF Ranks!Move, RanksInv, RanksType
  <2>2. RanksType'
    BY <1>1 DEF Ranks!Move, RanksInv, RanksType
  <2>3. QED
    BY <2>1, <2>2 DEF RanksInv
<1>2. CASE UNCHANGED Ranks!vars
  BY <1>2 DEF Ranks!vars, RanksInv, RanksType, Found, Shown, Apart, Passed, Ranks!PlaceOf
<1>3. QED
  BY <1>1, <1>2, TestStep, TakeStep DEF Ranks!Next

\* A rank that shows one of the n highest balances: how many are as high.
LEMMA RanksCounted == RanksInv => Ranks!FirstTwoRight
<1> SUFFICES ASSUME RanksInv, moves = 0
             PROVE  /\ Ranks!Right(1) /\ Ranks!Right(2)
                    /\ rank[3].of > 0 => Ranks!AtLeast(rank[3].of) >= 3 /\ balance[rank[3].who] = rank[3].of
  BY DEF Ranks!FirstTwoRight
<1> DEFINE who(k) == rank[k].who
           of(k) == rank[k].of
<1>1. Found /\ RanksType
  BY DEF RanksInv
<1>2. /\ of(1) >= of(2) /\ of(2) >= of(3)
      /\ \A k \in 1 .. 3 : of(k) \in Nat
      /\ \A k \in 1 .. 3 : of(k) > 0 => who(k) \in Passed /\ balance[who(k)] = of(k)
      /\ of(1) > 0 /\ of(2) > 0 => who(1) # who(2)
      /\ of(1) > 0 /\ of(3) > 0 => who(1) # who(3)
      /\ of(2) > 0 /\ of(3) > 0 => who(2) # who(3)
      /\ \A e \in Passed : balance[e] <= of(1)
      /\ \A e \in Passed : balance[e] > of(2) => e = who(1)
      /\ \A e \in Passed : balance[e] \in Nat
  BY <1>1, RanksAssumption DEF Found, Shown, Apart, RanksType, Passed
<1> HIDE DEF who, of
<1>3. IsFiniteSet(Passed)
  <2>1. IsFiniteSet(Ranks!Entries)
    BY FS_Interval, RanksAssumption DEF Ranks!Entries
  <2>2. QED
    BY <2>1, FS_Subset DEF Passed
<1>4. Ranks!Above(of(1)) = 0
  <2>1. {e \in Ranks!Entries : e < i /\ balance[e] > of(1)} = {}
    BY <1>2 DEF Passed
  <2>2. QED
    BY <2>1, FS_EmptySet, RanksCardinality DEF Ranks!Above
<1>5. Ranks!Above(of(2)) < 2
  <2> DEFINE S == {e \in Ranks!Entries : e < i /\ balance[e] > of(2)}
  <2>1. S \subseteq {who(1)}
    BY <1>2 DEF Passed
  <2>2. IsFiniteSet({who(1)}) /\ Cardinality({who(1)}) = 1
    BY FS_Singleton
  <2>3. Cardinality(S) <= 1 /\ Cardinality(S) \in Nat
    <3> HIDE DEF S
    <3>1. IsFiniteSet(S) /\ Cardinality(S) <= Cardinality({who(1)})
      BY <2>1, <2>2, FS_Subset
    <3>2. QED
      BY <2>2, <3>1, FS_CardinalityType
  <2>4. QED
    BY <2>3, RanksCardinality DEF Ranks!Above
<1>6. ASSUME NEW W \in SUBSET Passed, NEW n \in Nat, Cardinality(W) = n,
             NEW a, \A e \in W : balance[e] >= a
      PROVE  Ranks!AtLeast(a) >= n
  <2> DEFINE S == {e \in Ranks!Entries : e < i /\ balance[e] >= a}
  <2>1. W \subseteq S /\ S \subseteq Passed
    BY <1>6 DEF Passed
  <2> HIDE DEF S
  <2>2. IsFiniteSet(S) /\ Cardinality(W) <= Cardinality(S)
    BY <1>3, <2>1, FS_Subset
  <2>3. Cardinality(S) \in Nat
    BY <2>2, FS_CardinalityType
  <2>4. QED
    BY <1>6, <2>2, <2>3, RanksCardinality DEF Ranks!AtLeast, S
<1>7. of(1) > 0 => Ranks!AtLeast(of(1)) >= 1
  <2> SUFFICES ASSUME of(1) > 0 PROVE Ranks!AtLeast(of(1)) >= 1
    OBVIOUS
  <2>1. {who(1)} \in SUBSET Passed /\ Cardinality({who(1)}) = 1
    <3>1. Cardinality({who(1)}) = 1
      BY FS_Singleton
    <3>2. who(1) \in Passed
      BY <1>2
    <3>3. QED
      BY <3>1, <3>2
  <2>2. \A e \in {who(1)} : balance[e] >= of(1)
    BY <1>2
  <2>3. QED
    BY <1>6, <2>1, <2>2
<1>8. of(2) > 0 => Ranks!AtLeast(of(2)) >= 2
  <2> SUFFICES ASSUME of(2) > 0 PROVE Ranks!AtLeast(of(2)) >= 2
    OBVIOUS
  <2>1. of(1) > 0 /\ who(1) # who(2)
    BY <1>2
  <2>2. {who(1), who(2)} \in SUBSET Passed
    BY <1>2, <2>1
  <2>3. Cardinality({who(1), who(2)}) = 2
    <3>1. IsFiniteSet({who(1)}) /\ Cardinality({who(1)}) = 1
      BY FS_Singleton
    <3>2. Cardinality({who(1)} \cup {who(2)}) = Cardinality({who(1)}) + 1
      BY <2>1, <3>1, FS_AddElement
    <3>3. {who(1), who(2)} = {who(1)} \cup {who(2)}
      OBVIOUS
    <3>4. QED
      BY <3>1, <3>2, <3>3
  <2>4. \A e \in {who(1), who(2)} : balance[e] >= of(2)
    BY <1>2, <2>1
  <2>5. QED
    BY <1>6, <2>2, <2>3, <2>4
<1>9. of(3) > 0 => Ranks!AtLeast(of(3)) >= 3
  <2> SUFFICES ASSUME of(3) > 0 PROVE Ranks!AtLeast(of(3)) >= 3
    OBVIOUS
  <2>1. /\ of(1) > 0 /\ of(2) > 0
        /\ who(1) # who(2) /\ who(1) # who(3) /\ who(2) # who(3)
    BY <1>2
  <2>2. {who(1), who(2), who(3)} \in SUBSET Passed
    BY <1>2, <2>1
  <2>3. Cardinality({who(1), who(2), who(3)}) = 3
    <3>1. IsFiniteSet({who(1)}) /\ Cardinality({who(1)}) = 1
      BY FS_Singleton
    <3>2. /\ IsFiniteSet({who(1)} \cup {who(2)})
          /\ Cardinality({who(1)} \cup {who(2)}) = 2
      BY <2>1, <3>1, FS_AddElement
    <3>3. Cardinality(({who(1)} \cup {who(2)}) \cup {who(3)}) = 3
      BY <2>1, <3>2, FS_AddElement
    <3>4. {who(1), who(2), who(3)} = ({who(1)} \cup {who(2)}) \cup {who(3)}
      OBVIOUS
    <3>5. QED
      BY <3>3, <3>4
  <2>4. \A e \in {who(1), who(2), who(3)} : balance[e] >= of(3)
    BY <1>2, <2>1
  <2>5. QED
    BY <1>6, <2>2, <2>3, <2>4
<1>10. QED
  BY <1>2, <1>4, <1>5, <1>7, <1>8, <1>9 DEF Ranks!Right, who, of

\* The search keeps its invariant ...
THEOREM RanksInvariant == Ranks!Spec => []RanksInv
BY RanksInit, RanksStep, PTL DEF Ranks!Spec

\* ... so that its first two ranks are right at every turn, and the third is
\* not too high, as long as no balance changes.
THEOREM FirstTwoAreRight == Ranks!Spec => []Ranks!FirstTwoRight
BY RanksInvariant, RanksCounted, PTL

-------------------------------------------------------------------------------
(* The parser. *)

\* Parameters as they are read: the narrow ones fit.
Readable(p) ==
    /\ p \in [Conf!Name -> Nat]
    /\ \A name \in Conf!Name \ Wide : p[name] < Width
    /\ p["SO_REWARD"] <= 100

\* Parameters that agree with each other.
Corrected(p) == Readable(p) /\ Conf!Consistent(p)

\* Where the divisors are 0, once the corrections are made.
Zeros ==
    /\ par["SO_NODES_NUM"] = 0 <=> ~erange /\ "SO_NODES_NUM" \in zeroed
    /\ par["SO_FRIENDS_NUM"] = 0 <=> ~erange /\ zeroed # {}

\* The parser's invariant: until a line is read the defaults stand, and until
\* the corrections are made the divisors that are 0 are those the file left so.
ConfInv ==
    /\ {erange, done} \subseteq BOOLEAN /\ lines \in Nat
    /\ zeroed \subseteq Conf!Divisors
    /\ Readable(par)
    /\ done \/ lines = 0 => Corrected(par)
    /\ lines = 0 => zeroed = {}
    /\ ~done => \A x \in Conf!Divisors : par[x] = 0 <=> x \in zeroed
    /\ done => Zeros

\* A correction lowers one parameter to another, and leaves the rest alone.
LEMMA CappedLowers ==
    ASSUME NEW p, Readable(p),
           NEW name \in Conf!Name, NEW bound \in Conf!Name, name # bound,
           NEW q, q = Conf!Capped(p, name, bound)
    PROVE  /\ Readable(q)
           /\ q[name] <= q[bound]
           /\ \A x \in Conf!Name \ {name} : q[x] = p[x]
<1>1. p \in [Conf!Name -> Nat] /\ \A x \in Conf!Name \ Wide : p[x] < Width
  BY DEF Readable
<1>2. /\ q \in [Conf!Name -> Nat]
      /\ q[name] = IF p[name] > p[bound] THEN p[bound] ELSE p[name]
      /\ \A x \in Conf!Name \ {name} : q[x] = p[x]
  BY <1>1 DEF Conf!Capped
<1>3. q[name] <= q[bound] /\ \A x \in Conf!Name : q[x] <= p[x]
  BY <1>1, <1>2
<1>4. Readable(q)
  <2>1. "SO_REWARD" \in Conf!Name /\ Width \in Nat
    BY ConfAssumption
  <2>2. q["SO_REWARD"] <= 100
    <3>1. p["SO_REWARD"] \in Nat /\ q["SO_REWARD"] \in Nat /\ q["SO_REWARD"] <= p["SO_REWARD"]
      BY <1>1, <1>2, <1>3, <2>1
    <3>2. QED
      BY <3>1 DEF Readable
  <2>3. ASSUME NEW x \in Conf!Name \ Wide PROVE q[x] < Width
    <3>1. p[x] \in Nat /\ q[x] \in Nat /\ q[x] <= p[x] /\ p[x] < Width
      BY <1>1, <1>2, <1>3
    <3>2. QED
      BY <2>1, <3>1
  <2>4. QED
    BY <1>2, <2>2, <2>3 DEF Readable
<1>5. QED
  BY <1>2, <1>3, <1>4

\* What an unsigned int keeps of a number is a number that fits, and no larger.
LEMMA KeptFits ==
    ASSUME NEW name \in Conf!Name, NEW n \in Number
    PROVE  /\ Conf!Kept(name, n) \in Nat
           /\ name \notin Wide => Conf!Kept(name, n) < Width
           /\ n <= 100 => Conf!Kept(name, n) <= 100
<1>1. n \in Nat /\ Width \in Nat /\ 100 < Width
  BY ConfAssumption
<1>2. n % Width \in 0 .. Width - 1
  BY <1>1
<1>3. n <= 100 => n % Width = n
  BY <1>1
<1>4. QED
  BY <1>1, <1>2, <1>3 DEF Conf!Kept

\* A line of the file.
LEMMA ReadStep ==
    ASSUME ConfInv, NEW name \in Conf!Name, NEW n \in Number,
           Conf!ReadLine(name, n)
    PROVE  ConfInv'
<1>1. ~done /\ UNCHANGED <<erange, done>> /\ lines' = lines + 1 /\ lines' # 0
  BY DEF Conf!ReadLine, ConfInv
<1>2. Readable(par)'
  <2>1. CASE par' = par
    BY <2>1 DEF ConfInv, Readable
  <2>2. CASE par' # par
    <3>1. par' = [par EXCEPT ![name] = Conf!Kept(name, n)] /\ ~(name = "SO_REWARD" /\ n > 100)
      BY <2>2 DEF Conf!ReadLine
    <3>2. /\ Conf!Kept(name, n) \in Nat
          /\ name \notin Wide => Conf!Kept(name, n) < Width
          /\ n <= 100 => Conf!Kept(name, n) <= 100
      BY KeptFits
    <3>3. n \in Nat /\ "SO_REWARD" \in Conf!Name
      BY ConfAssumption
    <3>4. /\ par' \in [Conf!Name -> Nat] /\ par'[name] = Conf!Kept(name, n)
          /\ \A x \in Conf!Name \ {name} : par'[x] = par[x]
      BY <3>1, <3>2 DEF ConfInv, Readable
    <3>5. par'["SO_REWARD"] <= 100
      BY <3>1, <3>2, <3>3, <3>4 DEF ConfInv, Readable
    <3>6. \A x \in Conf!Name \ Wide : par'[x] < Width
      BY <3>2, <3>4 DEF ConfInv, Readable
    <3>7. QED
      BY <3>4, <3>5, <3>6 DEF Readable, Conf!Name
  <2>3. QED
    BY <2>1, <2>2
<1>3. zeroed' \subseteq Conf!Divisors
  BY DEF ConfInv, Conf!ReadLine
<1>4. ASSUME NEW x \in Conf!Divisors PROVE par'[x] = 0 <=> x \in zeroed'
  <2>1. par[x] = 0 <=> x \in zeroed
    BY <1>1 DEF ConfInv
  <2>2. CASE name # x
    <3>1. par'[x] = par[x]
      BY <2>2 DEF Conf!ReadLine, ConfInv, Readable
    <3>2. x \in zeroed' <=> x \in zeroed
      BY <2>2 DEF Conf!ReadLine
    <3>3. QED
      BY <2>1, <3>1, <3>2
  <2>3. CASE name = x
    <3>1. name # "SO_REWARD"
      BY <2>3 DEF Conf!Divisors
    <3>2. par'[x] = Conf!Kept(name, n)
      BY <2>3, <3>1 DEF Conf!ReadLine, ConfInv, Readable
    <3>3. x \in zeroed' <=> Conf!Kept(name, n) = 0
      BY <2>3 DEF Conf!ReadLine
    <3>4. QED
      BY <3>2, <3>3
  <2>4. QED
    BY <2>2, <2>3
<1>5. QED
  BY <1>1, <1>2, <1>3, <1>4 DEF ConfInv

\* The corrections make of what was read, or of the defaults, what agrees, and
\* no divisor 0 but the friends, if there are no nodes.
LEMMA CorrectStep ==
    ASSUME ConfInv, Conf!Correct
    PROVE  ConfInv'
<1>1. PICK read, gen, proc, pool, last :
         /\ read = IF erange THEN Default ELSE par
         /\ gen = Conf!Capped(read, "SO_MIN_TRANS_GEN_NSEC", "SO_MAX_TRANS_GEN_NSEC")
         /\ proc = Conf!Capped(gen, "SO_MIN_TRANS_PROC_NSEC", "SO_MAX_TRANS_PROC_NSEC")
         /\ pool = Conf!PoolRaised(proc)
         /\ last = Conf!Capped(pool, "SO_FRIENDS_NUM", "SO_NODES_NUM")
         /\ par' = last
  BY DEF Conf!Correct
<1>2. done' = TRUE /\ ~done /\ UNCHANGED <<erange, lines, zeroed>>
  BY DEF Conf!Correct
<1>3. /\ "SO_TP_SIZE" \in Conf!Name /\ "SO_REWARD" \in Conf!Name
      /\ "SO_FRIENDS_NUM" \in Conf!Name /\ "SO_NODES_NUM" \in Conf!Name
      /\ "SO_MIN_TRANS_GEN_NSEC" \in Conf!Name /\ "SO_MAX_TRANS_GEN_NSEC" \in Conf!Name
      /\ "SO_MIN_TRANS_PROC_NSEC" \in Conf!Name /\ "SO_MAX_TRANS_PROC_NSEC" \in Conf!Name
      /\ SO_BLOCK_SIZE \in Nat /\ Width \in Nat /\ SO_BLOCK_SIZE + 1 < Width
  BY ConfAssumption
<1>4. Readable(read)
  BY <1>1, ConfAssumption DEF ConfInv, Corrected, Conf!Consistent, Readable
<1>5. /\ Readable(gen)
      /\ gen["SO_MIN_TRANS_GEN_NSEC"] <= gen["SO_MAX_TRANS_GEN_NSEC"]
      /\ \A x \in Conf!Name \ {"SO_MIN_TRANS_GEN_NSEC"} : gen[x] = read[x]
  <2>1. "SO_MIN_TRANS_GEN_NSEC" # "SO_MAX_TRANS_GEN_NSEC"
    OBVIOUS
  <2>2. /\ Readable(gen)
        /\ gen["SO_MIN_TRANS_GEN_NSEC"] <= gen["SO_MAX_TRANS_GEN_NSEC"]
    BY <1>1, <1>3, <1>4, <2>1, CappedLowers
  <2>3. \A x \in Conf!Name \ {"SO_MIN_TRANS_GEN_NSEC"} : gen[x] = read[x]
    BY <1>1, <1>4 DEF Conf!Capped, Readable
  <2>4. QED
    BY <2>2, <2>3
<1>6. /\ Readable(proc)
      /\ proc["SO_MIN_TRANS_PROC_NSEC"] <= proc["SO_MAX_TRANS_PROC_NSEC"]
      /\ \A x \in Conf!Name \ {"SO_MIN_TRANS_PROC_NSEC"} : proc[x] = gen[x]
  <2>1. "SO_MIN_TRANS_PROC_NSEC" # "SO_MAX_TRANS_PROC_NSEC"
    OBVIOUS
  <2>2. /\ Readable(proc)
        /\ proc["SO_MIN_TRANS_PROC_NSEC"] <= proc["SO_MAX_TRANS_PROC_NSEC"]
    BY <1>1, <1>3, <1>5, <2>1, CappedLowers
  <2>3. \A x \in Conf!Name \ {"SO_MIN_TRANS_PROC_NSEC"} : proc[x] = gen[x]
    BY <1>1, <1>5 DEF Conf!Capped, Readable
  <2>4. QED
    BY <2>2, <2>3
<1>7. /\ pool \in [Conf!Name -> Nat] /\ pool["SO_TP_SIZE"] > SO_BLOCK_SIZE
      /\ pool["SO_TP_SIZE"] = proc["SO_TP_SIZE"] \/ pool["SO_TP_SIZE"] = SO_BLOCK_SIZE + 1
      /\ \A x \in Conf!Name \ {"SO_TP_SIZE"} : pool[x] = proc[x]
  BY <1>1, <1>3, <1>6 DEF Conf!PoolRaised, Readable
<1>8. Readable(pool)
  <2>1. ASSUME NEW x \in Conf!Name \ Wide PROVE pool[x] < Width
    <3>1. CASE x = "SO_TP_SIZE"
      BY <1>3, <1>6, <1>7, <3>1 DEF Readable
    <3>2. CASE x # "SO_TP_SIZE"
      BY <1>6, <1>7, <3>2 DEF Readable
    <3>3. QED
      BY <3>1, <3>2
  <2>2. pool["SO_REWARD"] <= 100
    BY <1>3, <1>6, <1>7 DEF Readable
  <2>3. QED
    BY <1>7, <2>1, <2>2 DEF Readable
<1>9. /\ Readable(last) /\ last["SO_FRIENDS_NUM"] <= last["SO_NODES_NUM"]
      /\ \A x \in Conf!Name \ {"SO_FRIENDS_NUM"} : last[x] = pool[x]
  <2>1. "SO_FRIENDS_NUM" # "SO_NODES_NUM"
    OBVIOUS
  <2>2. Readable(last) /\ last["SO_FRIENDS_NUM"] <= last["SO_NODES_NUM"]
    BY <1>1, <1>3, <1>8, <2>1, CappedLowers
  <2>3. \A x \in Conf!Name \ {"SO_FRIENDS_NUM"} : last[x] = pool[x]
    BY <1>1, <1>8 DEF Conf!Capped, Readable
  <2>4. QED
    BY <2>2, <2>3
<1>10. /\ last["SO_TP_SIZE"] = pool["SO_TP_SIZE"]
       /\ last["SO_MIN_TRANS_GEN_NSEC"] = gen["SO_MIN_TRANS_GEN_NSEC"]
       /\ last["SO_MAX_TRANS_GEN_NSEC"] = gen["SO_MAX_TRANS_GEN_NSEC"]
       /\ last["SO_MIN_TRANS_PROC_NSEC"] = proc["SO_MIN_TRANS_PROC_NSEC"]
       /\ last["SO_MAX_TRANS_PROC_NSEC"] = proc["SO_MAX_TRANS_PROC_NSEC"]
  BY <1>3, <1>6, <1>7, <1>9
<1>11. Corrected(last)
  BY <1>5, <1>6, <1>7, <1>9, <1>10 DEF Corrected, Conf!Consistent, Readable
<1>12. Zeros'
  <2> DEFINE F == "SO_FRIENDS_NUM"
             D == "SO_NODES_NUM"
  <2>1. \A x \in {F, D} : read[x] = 0 <=> ~erange /\ x \in zeroed
    <3>1. \A x \in {F, D} : x \in Conf!Divisors
      BY DEF Conf!Divisors
    <3>2. CASE erange
      BY <1>1, <3>1, <3>2, ConfAssumption
    <3>3. CASE ~erange
      BY <1>1, <1>2, <3>1, <3>3 DEF ConfInv
    <3>4. QED
      BY <3>2, <3>3
  <2>2. pool[F] = read[F] /\ pool[D] = read[D] /\ last[D] = read[D]
    BY <1>3, <1>5, <1>6, <1>7, <1>9
  <2>3. last[F] = IF pool[F] > pool[D] THEN pool[D] ELSE pool[F]
    BY <1>1, <1>3, <1>8 DEF Conf!Capped, Readable
  <2>4. pool[F] \in Nat /\ pool[D] \in Nat
    BY <1>3, <1>7
  <2>5. zeroed # {} <=> F \in zeroed \/ D \in zeroed
    BY DEF ConfInv, Conf!Divisors
  <2>6. /\ last[D] = 0 <=> ~erange /\ D \in zeroed
        /\ last[F] = 0 <=> ~erange /\ zeroed # {}
    BY <2>1, <2>2, <2>3, <2>4, <2>5
  <2>7. QED
    BY <1>1, <1>2, <2>6 DEF Zeros
<1>13. Readable(par)' /\ Corrected(par)'
  BY <1>1, <1>9, <1>11 DEF Readable, Corrected, Conf!Consistent, Conf!Name
<1>14. QED
  BY <1>2, <1>12, <1>13 DEF ConfInv

\* Every step of the parser.
LEMMA ConfStep == ConfInv /\ [Conf!Next]_Conf!vars => ConfInv'
<1> SUFFICES ASSUME ConfInv, [Conf!Next]_Conf!vars PROVE ConfInv'
  OBVIOUS
<1>1. CASE Conf!NoFile
  <2>1. /\ done' = TRUE /\ ~done /\ lines = 0 /\ UNCHANGED <<par, lines, erange, zeroed>>
        /\ Readable(par)' /\ Corrected(par)'
    BY <1>1 DEF Conf!NoFile, ConfInv, Readable, Corrected, Conf!Consistent
  <2>2. zeroed = {} /\ par["SO_NODES_NUM"] # 0 /\ par["SO_FRIENDS_NUM"] # 0
    BY <2>1 DEF ConfInv, Conf!Divisors
  <2>3. Zeros'
    BY <2>1, <2>2 DEF Zeros
  <2>4. QED
    BY <2>1, <2>3 DEF ConfInv
<1>2. CASE Conf!ReadTooLarge
  BY <1>2 DEF Conf!ReadTooLarge, ConfInv, Readable
<1>3. CASE UNCHANGED Conf!vars
  BY <1>3 DEF Conf!vars, ConfInv, Readable, Corrected, Conf!Consistent, Zeros
<1>4. QED
  BY <1>1, <1>2, <1>3, ReadStep, CorrectStep DEF Conf!Next

\* The parser keeps its invariant ...
THEOREM ConfInvariant == Conf!Spec => []ConfInv
<1>1. Conf!Init => ConfInv
  <2>1. Corrected(Default) /\ Readable(Default)
    BY ConfAssumption DEF Corrected, Conf!Consistent, Readable
  <2> SUFFICES ASSUME Conf!Init PROVE ConfInv
    OBVIOUS
  <2>2. par = Default /\ lines = 0 /\ erange = FALSE /\ done = FALSE /\ zeroed = {}
    BY DEF Conf!Init
  <2>3. Corrected(par) /\ Readable(par)
    BY <2>1, <2>2
  <2>4. \A x \in Conf!Divisors : par[x] # 0
    BY <2>2, ConfAssumption
  <2>5. QED
    BY <2>2, <2>3, <2>4 DEF ConfInv
<1>2. QED
  BY <1>1, ConfStep, PTL DEF Conf!Spec

\* ... and leaves parameters that agree with each other, whatever it has read,
\* with no friends, or no nodes, only where the file left 0 of them.
THEOREM ParametersAdmissible == Conf!Spec => []Conf!Admissible
<1>1. ConfInv => Conf!Admissible
  BY DEF ConfInv, Corrected, Zeros, Conf!Admissible
<1>2. QED
  BY <1>1, ConfInvariant, PTL

-------------------------------------------------------------------------------
(* Side by side. *)

\* What is proved of the user's list and of the journeys.
List == INSTANCE OutgoingListProofs WITH
    heap <- userHeap, allocated <- userAllocated, head <- userHead

Road == INSTANCE LedgerProofs WITH Empty <- None

\* A step is a step of one part, and the others stay as they are.
LEMMA PartSteps ==
    [PartsNext]_parts =>
        /\ [Next]_vars
        /\ [Outgoing!Next]_Outgoing!vars
        /\ [Ranks!Next]_Ranks!vars
        /\ [Conf!Next]_Conf!vars
        /\ [Journeys!JourneyNext]_Journeys!journey
<1> USE DEF poolVars, listVars, ranksVars, confVars, ledgerVars, journeyVars,
            vars, Outgoing!vars, Ranks!vars, Conf!vars,
            Journeys!vars, Journeys!journey
<1> SUFFICES ASSUME [PartsNext]_parts
             PROVE  /\ Next \/ UNCHANGED vars
                    /\ Outgoing!Next \/ UNCHANGED Outgoing!vars
                    /\ Ranks!Next \/ UNCHANGED Ranks!vars
                    /\ Conf!Next \/ UNCHANGED Conf!vars
                    /\ Journeys!JourneyNext \/ UNCHANGED Journeys!journey
  OBVIOUS
<1>1. CASE UNCHANGED parts
  BY <1>1 DEF parts
<1>2. CASE PartsNext
  BY <1>2 DEF PartsNext
<1>3. QED
  BY <1>1, <1>2

\* Each part runs by itself.
THEOREM PartsRun ==
    PartsSpec => Spec /\ Outgoing!Spec /\ Ranks!Spec /\ Conf!Spec /\ Journeys!JourneySpec
<1>1. PartsInit => Init /\ Outgoing!Init /\ Ranks!Init /\ Conf!Init /\ Journeys!JourneyInit
  BY DEF PartsInit
<1>2. QED
  BY <1>1, PartSteps, PTL
     DEF PartsSpec, Spec, Outgoing!Spec, Ranks!Spec, Conf!Spec, Journeys!JourneySpec

\* The user's list is the one OutgoingListProofs is about ...
LEMMA SameList ==
    /\ List!MemoryOK
    /\ Outgoing!Init <=> List!Init
    /\ Outgoing!Next <=> List!Next
    /\ Outgoing!vars = List!vars
    /\ Outgoing!ListOwnsCells <=> List!ListOwnsCells
<1>1. List!MemoryOK
  BY TransPoolAssumption DEF List!MemoryOK, List!IsFiniteSet, IsFiniteSet
<1>2. Outgoing!Init <=> List!Init
  BY DEF Outgoing!Init, List!Init
<1>3. Outgoing!vars = List!vars
  BY DEF Outgoing!vars, List!vars
<1>4. Outgoing!Walk = List!Walk
  BY DEF Outgoing!Walk, List!Walk, Outgoing!Cardinality, List!Cardinality
<1>5. Outgoing!Steps = List!Steps
  BY <1>4 DEF Outgoing!Steps, List!Steps, Outgoing!Cardinality, List!Cardinality
<1>6. Outgoing!ListOwnsCells <=> List!ListOwnsCells
  BY <1>4, <1>5 DEF Outgoing!ListOwnsCells, List!ListOwnsCells,
                    Outgoing!Cardinality, List!Cardinality
<1>7. Outgoing!Next <=> List!Next
  <2>1. ASSUME NEW t \in Tx PROVE Outgoing!NewNode(t) <=> List!NewNode(t)
    BY DEF Outgoing!NewNode, List!NewNode
  <2>2. ASSUME NEW t \in Tx PROVE Outgoing!Push(t) <=> List!Push(t)
    BY <1>4, <1>5 DEF Outgoing!Push, List!Push
  <2>3. ASSUME NEW t \in Tx PROVE Outgoing!NotFound(t) <=> List!NotFound(t)
    BY <1>4, <1>5 DEF Outgoing!NotFound, List!NotFound
  <2>4. ASSUME NEW t \in Tx PROVE Outgoing!FindAndRemove(t) <=> List!FindAndRemove(t)
    BY <1>4, <1>5 DEF Outgoing!FindAndRemove, List!FindAndRemove, Outgoing!FirstMatch,
                      List!FirstMatch, Outgoing!Unlinked, List!Unlinked
  <2>5. QED
    BY <2>1, <2>2, <2>3, <2>4 DEF Outgoing!Next, List!Next
<1>8. QED
  BY <1>1, <1>2, <1>3, <1>6, <1>7

\* ... holds the same transactions ...
LEMMA SameContents == Outgoing!Contents = List!Contents
<1>1. \A S : Outgoing!Cardinality(S) = List!Cardinality(S)
  BY DEF Outgoing!Cardinality, List!Cardinality
<1>2. Outgoing!Walk = List!Walk
  BY DEF Outgoing!Walk, List!Walk, Outgoing!Cardinality, List!Cardinality
<1>3. Outgoing!Steps = List!Steps
  BY <1>2 DEF Outgoing!Steps, List!Steps, Outgoing!Cardinality, List!Cardinality
<1>4. QED
  BY <1>1, <1>2, <1>3 DEF Outgoing!Contents, List!Contents

\* ... in which a match is removed alike ...
LEMMA SameRemoval ==
    ASSUME NEW q, NEW t
    PROVE  /\ Outgoing!Abstract!Contains(q, t) <=> List!Abstract!Contains(q, t)
           /\ Outgoing!Abstract!RemoveFirst(q, t) = List!Abstract!RemoveFirst(q, t)
<1>1. Outgoing!Abstract!Contains(q, t) <=> List!Abstract!Contains(q, t)
  BY DEF Outgoing!Abstract!Contains, List!Abstract!Contains
<1>2. \A S : Outgoing!Abstract!Min(S) = List!Abstract!Min(S)
  BY DEF Outgoing!Abstract!Min, List!Abstract!Min
<1>3. \A k : Outgoing!Abstract!RemoveAt(q, k) = List!Abstract!RemoveAt(q, k)
  BY DEF Outgoing!Abstract!RemoveAt, List!Abstract!RemoveAt
<1>4. Outgoing!Abstract!RemoveFirst(q, t) = List!Abstract!RemoveFirst(q, t)
  BY <1>2, <1>3 DEF Outgoing!Abstract!RemoveFirst, List!Abstract!RemoveFirst,
                    Outgoing!Abstract!SelectInSeq, List!Abstract!SelectInSeq
<1>5. QED
  BY <1>1, <1>4

\* ... and runs as that one does.
LEMMA ListRuns == Outgoing!Spec => List!Spec
<1>1. [Outgoing!Next]_Outgoing!vars => [List!Next]_List!vars
  BY SameList DEF Outgoing!vars, List!vars
<1>2. Outgoing!Init => List!Init
  BY SameList
<1>3. QED
  BY <1>1, <1>2, PTL DEF Outgoing!Spec, List!Spec

\* The journeys are those LedgerProofs is about ...
LEMMA SameRoad ==
    /\ Road!LedgerAssumption
    /\ Journeys!JourneyInit <=> Road!JourneyInit
    /\ Journeys!JourneyNext <=> Road!JourneyNext
    /\ Journeys!journey = Road!journey
<1> USE DEF Journeys!Index, Road!Index, Journeys!Slot, Road!Slot, Journeys!Carried, Road!Carried
<1>1. Road!LedgerAssumption
  BY JourneyAssumption
<1>2. Journeys!vars = Road!vars /\ Journeys!journey = Road!journey
  BY DEF Journeys!vars, Road!vars, Journeys!journey, Road!journey
<1>3. \A b \in Builders : Journeys!Running(b) <=> Road!Running(b)
  BY DEF Journeys!Running, Road!Running, Journeys!Working, Road!Working
<1>4. Journeys!JourneyInit <=> Road!JourneyInit
  BY DEF Journeys!JourneyInit, Road!JourneyInit, Journeys!Init, Road!Init, Journeys!Sem!SemInit,
         Road!Sem!SemInit, Journeys!FirstIndex, Road!FirstIndex, Journeys!Sem!SemNsems,
         Road!Sem!SemNsems, Journeys!Sent!Init, Road!Sent!Init
<1>5. Journeys!Travel <=> Road!Travel
  BY <1>2 DEF Journeys!Travel, Road!Travel, Journeys!Sent!Send, Road!Sent!Send, Journeys!Sent!Discard,
              Road!Sent!Discard, Journeys!vars, Road!vars
<1>6. Journeys!Interrupt <=> Road!Interrupt
  BY DEF Journeys!Interrupt, Road!Interrupt
<1>7. ASSUME NEW b \in Builders
      PROVE  /\ Journeys!ForkWithBatch(b) <=> Road!ForkWithBatch(b)
             /\ Journeys!Killed(b) <=> Road!Killed(b)
             /\ Journeys!Builder(b) <=> Road!Builder(b)
  <2>1. Journeys!ForkWithBatch(b) <=> Road!ForkWithBatch(b)
    <3>1. {c \in Builders : Journeys!Running(c)} = {c \in Builders : Road!Running(c)}
      BY <1>3
    <3>2. \A S : Journeys!Cardinality(S) = Road!Cardinality(S)
      BY DEF Journeys!Cardinality, Road!Cardinality
    <3>3. Journeys!Fork(b) <=> Road!Fork(b)
      BY <3>1, <3>2 DEF Journeys!Fork, Road!Fork
    <3>4. \A S : Journeys!Sent!Cardinality(S) = Road!Sent!Cardinality(S)
      BY DEF Journeys!Sent!Cardinality, Road!Sent!Cardinality
    <3>5. \A batch : Journeys!TakeFromPool(batch) <=> Road!TakeFromPool(batch)
      BY <3>4 DEF Journeys!TakeFromPool, Road!TakeFromPool, Journeys!Sent!Build, Road!Sent!Build
    <3>6. QED
      BY <3>3, <3>5 DEF Journeys!ForkWithBatch, Road!ForkWithBatch
  <2>2. Journeys!Killed(b) <=> Road!Killed(b)
    BY <1>3 DEF Journeys!Killed, Road!Killed
  <2>3. Journeys!Scan(b) <=> Road!Scan(b)
    BY <1>3 DEF Journeys!Scan, Road!Scan, Journeys!Free, Road!Free
  <2>4. Journeys!LedgerFull(b) <=> Road!LedgerFull(b)
    BY <1>3 DEF Journeys!LedgerFull, Road!LedgerFull, Journeys!PastEnd, Road!PastEnd
  <2>5. Journeys!Reserve(b) <=> Road!Reserve(b)
    BY <1>3 DEF Journeys!Reserve, Road!Reserve, Journeys!Sem!SemReserve, Road!Sem!SemReserve,
                Journeys!Sem!SemNum, Road!Sem!SemNum
  <2>6. Journeys!Release(b) <=> Road!Release(b)
    BY <1>3 DEF Journeys!Release, Road!Release, Journeys!Sem!SemRelease, Road!Sem!SemRelease,
                Journeys!Sem!SemNum, Road!Sem!SemNum
  <2>7. ASSUME NEW j \in Journeys!Slot
        PROVE  (Journeys!Copy(b, j) <=> Road!Copy(b, j)) /\ (Journeys!Confirm(b, j) <=> Road!Confirm(b, j))
    BY <1>3 DEF Journeys!Copy, Road!Copy, Journeys!Confirm, Road!Confirm, Journeys!Written,
                Road!Written, Journeys!LastToConfirm, Road!LastToConfirm
  <2>8. QED
    BY <2>1, <2>2, <2>3, <2>4, <2>5, <2>6, <2>7 DEF Journeys!Builder, Road!Builder
<1>8. Journeys!JourneyNext <=> Road!JourneyNext
  BY <1>5, <1>6, <1>7 DEF Journeys!JourneyNext, Road!JourneyNext, Journeys!Write, Road!Write
<1>9. QED
  BY <1>1, <1>2, <1>4, <1>8

\* ... and they run as those do.
LEMMA RoadRuns == Journeys!JourneySpec => Road!JourneySpec
<1>1. [Journeys!JourneyNext]_Journeys!journey => [Road!JourneyNext]_Road!journey
  BY SameRoad DEF Journeys!journey, Road!journey, Journeys!vars, Road!vars
<1>2. Journeys!JourneyInit => Road!JourneyInit
  BY SameRoad
<1>3. QED
  BY <1>1, <1>2, PTL DEF Journeys!JourneySpec, Road!JourneySpec

\* No cell of the pool or of a user's list leaks, none is reached after it was
\* freed, and the pool's size is the number of its transactions.
THEOREM ListsAreSound == PartsSpec => []ListsSound
<1>1. List!Spec => []List!ListOwnsCells
  BY SameList, List!ListOwnsItsCells
<1>2. Outgoing!Spec => List!Spec
  BY ListRuns
<1>3. ListOwnsCells /\ SizeIsLength /\ List!ListOwnsCells => ListsSound
  BY SameList DEF ListsSound
<1>4. QED
  BY <1>1, <1>2, <1>3, PartsRun, PoolOwnsCells, PTL

\* The first two ranks the master prints are right, whatever the balances.
THEOREM TopTwoAreRight == PartsSpec => []FirstTwoRight
<1>1. Ranks!FirstTwoRight => FirstTwoRight
  BY DEF FirstTwoRight
<1>2. QED
  BY <1>1, PartsRun, FirstTwoAreRight, PTL

\* The parameters in shared memory agree with each other, whatever conf.txt says,
\* and are no divisors of 0 unless it leaves 0 of them.
THEOREM ParametersAgree == PartsSpec => []Admissible
<1>1. Conf!Admissible => Admissible
  BY DEF Admissible
<1>2. QED
  BY <1>1, PartsRun, ParametersAdmissible, PTL

\* What get_balance finds of a transaction: nothing yet, then its one place at
\* most, then nothing for ever.
THEOREM TransactionsMeetTheirFates == PartsSpec => JourneyFates
<1>1. Road!JourneySpec => Road!FateSpec
  BY SameRoad, Road!JourneyImplementsFates
<1>2. ASSUME NEW t \in Tx PROVE Road!FateOf(t) = Journeys!FateOf(t)
  <2>1. \A k \in Journeys!Index : Road!Reached(k) <=> Journeys!Reached(k)
    BY DEF Road!Reached, Journeys!Reached, Road!Index, Journeys!Index, Road!Visible, Journeys!Visible
  <2>2. Road!Places(t) = Journeys!Places(t)
    BY <2>1 DEF Road!Places, Journeys!Places, Road!Index, Journeys!Index, Road!Carried,
                Journeys!Carried, Road!Slot, Journeys!Slot
  <2>3. Road!Lost(t) <=> Journeys!Lost(t)
    BY DEF Road!Lost, Journeys!Lost, Road!Copied, Journeys!Copied, Road!Carried, Journeys!Carried,
           Road!Slot, Journeys!Slot
  <2>4. QED
    BY <2>2, <2>3 DEF Road!FateOf, Journeys!FateOf
<1>3. \A t \in Tx : Road!FateOf(t) = Journeys!FateOf(t)
  BY <1>2
<1> DEFINE road == [t \in Tx |-> Road!FateOf(t)]
           pair == [t \in Tx |-> Journeys!FateOf(t)]
<1>4. road = pair
  BY <1>3
<1>5. (road = pair)'
  BY <1>4, PTL
<1>6. Road!Fate!Init => Journeys!Fate!Init
  BY <1>4 DEF Road!Fate!Init, Journeys!Fate!Init
<1>7. [Road!Fate!Next]_road => [Journeys!Fate!Next]_pair
  BY <1>4, <1>5 DEF Road!Fate!Next, Journeys!Fate!Next, Road!Fate!Turns, Journeys!Fate!Turns
<1>8. QED
  BY <1>1, <1>6, <1>7, PartsRun, RoadRuns, PTL
     DEF JourneyFates, Journeys!FateSpec, Road!FateSpec, Journeys!Fate!Spec, Road!Fate!Spec

\* A user's list gives back the oldest of the transactions it was given.
THEOREM OutgoingTakesOldest == PartsSpec => Outgoing!OutgoingSpec
<1>1. List!Spec => List!OutgoingSpec
  BY SameList, List!ListTakesOldest
<1>2. Outgoing!Contents = List!Contents
  BY SameContents
<1>3. (Outgoing!Contents = List!Contents)'
  BY SameContents, PTL
<1>4. Outgoing!Abstract!vars = List!Abstract!vars
  BY <1>2 DEF Outgoing!Abstract!vars, List!Abstract!vars
<1>5. List!Abstract!Init => Outgoing!Abstract!Init
  BY <1>2 DEF List!Abstract!Init, Outgoing!Abstract!Init
<1>6. ASSUME NEW t \in Tx
      PROVE  /\ List!Abstract!Add(t) => Outgoing!Abstract!Add(t)
             /\ List!Abstract!Take(t) => Outgoing!Abstract!Take(t)
  <2>1. List!Abstract!Add(t) => Outgoing!Abstract!Add(t)
    BY <1>2, <1>3 DEF List!Abstract!Add, Outgoing!Abstract!Add
  <2>2. List!Abstract!Take(t) => Outgoing!Abstract!Take(t)
    BY <1>2, <1>3, SameRemoval DEF List!Abstract!Take, Outgoing!Abstract!Take
  <2>3. QED
    BY <2>1, <2>2
<1>7. [\E t \in Tx : List!Abstract!Add(t) \/ List!Abstract!Take(t)]_List!Abstract!vars
        => [\E t \in Tx : Outgoing!Abstract!Add(t) \/ Outgoing!Abstract!Take(t)]_Outgoing!Abstract!vars
  BY <1>2, <1>3, <1>6 DEF Outgoing!Abstract!vars, List!Abstract!vars
<1>8. QED
  BY <1>1, <1>5, <1>7, PartsRun, ListRuns, PTL
     DEF Outgoing!OutgoingSpec, List!OutgoingSpec,
         Outgoing!Abstract!OutgoingSpec, List!Abstract!OutgoingSpec

\* And the pool gives back the transactions it was given in their order.
THEOREM ListsAreQueues == PartsSpec => ListsSpec
BY PartsRun, PoolIsFifo, OutgoingTakesOldest, PTL DEF ListsSpec

===============================================================================
