--------------------------- MODULE OutgoingListProofs --------------------------
(***************************************************************************)
(* The list of outgoing transactions of lklist.c implements a list from    *)
(* which the oldest equal transaction is removed, for any memory and any   *)
(* number of equal transactions.                                           *)
(***************************************************************************)
EXTENDS OutgoingList, DataLemmas

\* malloc's memory is finite, and NULL is no part of it: what the theorems
\* assume of the constants.
MemoryOK == IsFiniteSet(Cell) /\ Null \notin Cell

\* s is the chain of the cells from head on.
Chain(s) ==
    /\ \A k, l \in 1 .. Len(s) : s[k] = s[l] => k = l
    /\ allocated = {s[k] : k \in 1 .. Len(s)}
    /\ Cardinality(allocated) = Len(s)
    /\ head = IF Len(s) = 0 THEN Null ELSE s[1]
    /\ \A k \in 1 .. Len(s) : heap[s[k]].next = IF k = Len(s) THEN Null ELSE s[k + 1]

\* The list is a chain of all the cells in use.
ListInv == TypeOK /\ \E s \in Paths(Cell) : Chain(s)

\* What the operators that walk along the list return.
Walked(s) ==
    /\ Walk = [k \in 0 .. Cardinality(Cell) |-> IF k < Len(s) THEN s[k + 1] ELSE Null]
    /\ Steps = 0 .. Len(s) - 1
    /\ Cardinality(Steps) = Len(s)
    /\ Contents = [k \in 1 .. Len(s) |-> heap[s[k]].tx]

-------------------------------------------------------------------------------

\* A chain is a sequence of cells, no longer than the memory.
LEMMA CellsAreSequences ==
    ASSUME MemoryOK, NEW s \in Paths(Cell)
    PROVE  /\ s \in Seq(Cell) /\ Len(s) \in 0 .. Cardinality(Cell)
           /\ Cardinality(Cell) \in Nat
           /\ \A k \in 1 .. Len(s) : s[k] \in Cell /\ s[k] # Null
BY PathsAreSequences DEF MemoryOK

\* And the other way round.
LEMMA SequencesAreCells ==
    ASSUME MemoryOK, NEW s \in Seq(Cell), Len(s) <= Cardinality(Cell)
    PROVE  s \in Paths(Cell)
BY SequencesArePaths DEF MemoryOK

\* A walk goes along the chain, and stays at its end.
LEMMA WalkAlong ==
    ASSUME MemoryOK
    PROVE  \A s \in Paths(Cell) : Chain(s) => Walked(s)
<1> SUFFICES ASSUME NEW s \in Paths(Cell), Chain(s) PROVE Walked(s)
  OBVIOUS
<1> DEFINE N == Cardinality(Cell)
           G == [k \in 0 .. N |-> IF k < Len(s) THEN s[k + 1] ELSE Null]
<1>1. /\ Len(s) \in 0 .. N /\ N \in Nat
      /\ \A k \in 1 .. Len(s) : s[k] \in Cell /\ s[k] # Null
  BY CellsAreSequences
<1>2. Follows(G, N, head, Null, heap)
  <2>1. ChainOf(s, head, Null, heap)
    BY DEF Chain, ChainOf
  <2>2. QED
    BY <1>1, <2>1, ChainWalk
<1>3. Follows(Walk, N, head, Null, heap)
  BY <1>2 DEF Walk, Follows
<1>4. Walk = G
  <2> HIDE DEF N, G
  <2>1. QED
    BY <1>1, <1>2, <1>3, WalkUnique
<1>5. Steps = 0 .. Len(s) - 1
  BY <1>1, <1>4 DEF Steps
<1>6. Cardinality(Steps) = Len(s)
  <2>1. Cardinality(0 .. Len(s) - 1) = IF 0 > Len(s) - 1 THEN 0 ELSE (Len(s) - 1) - 0 + 1
    <3>1. 0 \in Int /\ Len(s) - 1 \in Int
      BY <1>1
    <3>2. QED
      BY <3>1, FS_Interval
  <2>2. QED
    BY <1>1, <1>5, <2>1
<1>7. Contents = [k \in 1 .. Len(s) |-> heap[s[k]].tx]
  <2>1. \A k \in 1 .. Len(s) : Walk[k - 1] = s[k]
    BY <1>1, <1>4
  <2>2. QED
    BY <1>6, <2>1 DEF Contents
<1>8. QED
  BY <1>4, <1>5, <1>6, <1>7 DEF Walked

\* The same after a step.
LEMMA WalkAlongNext ==
    ASSUME MemoryOK
    PROVE  \A s \in Paths(Cell) : Chain(s)' => Walked(s)'
<1>1. (\A s \in Paths(Cell) : Chain(s) => Walked(s))'
  BY WalkAlong, PTL
<1>2. QED
  BY <1>1

\* Where the steps of a walk are.
LEMMA StepsAlong ==
    ASSUME MemoryOK, NEW s \in Paths(Cell), Chain(s)
    PROVE  /\ \A k \in Steps : k + 1 \in 1 .. Len(s) /\ k \in Nat /\ Walk[k] = s[k + 1]
           /\ \A k \in 1 .. Len(s) : k - 1 \in Steps /\ Walk[k - 1] = s[k]
<1>1. Len(s) \in 0 .. Cardinality(Cell) /\ Cardinality(Cell) \in Nat
  BY CellsAreSequences
<1>2. Walked(s)
  BY WalkAlong
<1>3. QED
  BY <1>1, <1>2 DEF Walked

\* The transactions of a chain of cells of the right type.
LEMMA ContentsAlong ==
    ASSUME MemoryOK, ListInv, NEW s \in Paths(Cell), Chain(s)
    PROVE  /\ Contents \in Seq(Tx \cup {None}) /\ Len(Contents) = Len(s)
           /\ \A k \in 1 .. Len(s) : Contents[k] = heap[s[k]].tx
<1>1. Len(s) \in Nat /\ \A k \in 1 .. Len(s) : s[k] \in Cell
  BY CellsAreSequences
<1>2. Contents = [k \in 1 .. Len(s) |-> heap[s[k]].tx]
  BY WalkAlong DEF Walked
<1>3. \A k \in 1 .. Len(s) : heap[s[k]].tx \in Tx \cup {None}
  BY <1>1 DEF ListInv, TypeOK
<1>4. QED
  BY <1>1, <1>2, <1>3

\* The same after a step.
LEMMA ContentsAlongNext ==
    ASSUME MemoryOK, ListInv', NEW s \in Paths(Cell), Chain(s)'
    PROVE  /\ Contents' \in Seq(Tx \cup {None}) /\ Len(Contents') = Len(s)
           /\ \A k \in 1 .. Len(s) : Contents'[k] = heap'[s[k]].tx
<1>1. Len(s) \in Nat /\ \A k \in 1 .. Len(s) : s[k] \in Cell
  BY CellsAreSequences
<1>2. Contents' = [k \in 1 .. Len(s) |-> heap'[s[k]].tx]
  BY WalkAlongNext DEF Walked
<1>3. \A k \in 1 .. Len(s) : heap'[s[k]].tx \in Tx \cup {None}
  BY <1>1 DEF ListInv, TypeOK
<1>4. QED
  BY <1>1, <1>2, <1>3

-------------------------------------------------------------------------------
(* The steps. *)

\* What new_node and push do to the cells.
Grows(s, c, t) ==
    /\ allocated' = allocated \cup {c}
    /\ head' = IF Len(s) = 0 THEN c ELSE head
    /\ heap' \in [Cell -> [tx : Tx \cup {None}, next : Cell \cup {Null}]]
    /\ heap'[c].tx = t /\ heap'[c].next = Null
    /\ \A k \in 1 .. Len(s) : /\ heap'[s[k]].tx = heap[s[k]].tx
                              /\ heap'[s[k]].next = IF k = Len(s) THEN c ELSE heap[s[k]].next
    /\ removed' = None

\* A cell linked to the end makes the list longer by one.
LEMMA GrowStep ==
    ASSUME MemoryOK, ListInv, NEW s \in Paths(Cell), Chain(s),
           NEW c \in Cell \ allocated, NEW t \in Tx, Grows(s, c, t)
    PROVE  ListInv' /\ Contents' = Append(Contents, t)
<1> DEFINE n == Len(s)
<1>1. /\ s \in Seq(Cell) /\ n \in Nat /\ n \in 0 .. Cardinality(Cell) /\ Cardinality(Cell) \in Nat
      /\ \A k \in 1 .. n : s[k] \in Cell /\ s[k] # Null
  BY CellsAreSequences
<1>2. PICK u \in Seq(Cell) :
         /\ Len(u) = n + 1 /\ u[n + 1] = c
         /\ \A k \in 1 .. n : u[k] = s[k]
  <2>1. /\ Append(s, c) \in Seq(Cell)
        /\ Len(Append(s, c)) = n + 1 /\ Append(s, c)[n + 1] = c
        /\ \A k \in 1 .. n : Append(s, c)[k] = s[k]
    BY <1>1, AppendProperties
  <2>2. QED
    BY <2>1
<1>3. /\ \A k, l \in 1 .. n : s[k] = s[l] => k = l
      /\ allocated = {s[k] : k \in 1 .. n}
      /\ Cardinality(allocated) = n
      /\ head = IF n = 0 THEN Null ELSE s[1]
      /\ \A k \in 1 .. n : heap[s[k]].next = IF k = n THEN Null ELSE s[k + 1]
  BY DEF Chain
<1>4. /\ allocated' = allocated \cup {c}
      /\ head' = IF n = 0 THEN c ELSE head
      /\ heap' \in [Cell -> [tx : Tx \cup {None}, next : Cell \cup {Null}]]
      /\ heap'[c].tx = t /\ heap'[c].next = Null
      /\ \A k \in 1 .. n : /\ heap'[s[k]].tx = heap[s[k]].tx
                           /\ heap'[s[k]].next = IF k = n THEN c ELSE heap[s[k]].next
      /\ removed' = None
  BY DEF Grows
<1> HIDE DEF n
<1>5. \A k \in 1 .. n : s[k] # c
  BY <1>3
<1>6. allocated' \in SUBSET Cell /\ Cardinality(allocated') = n + 1 /\ n + 1 <= Cardinality(Cell)
  <2>1. allocated \subseteq Cell /\ allocated' \subseteq Cell /\ IsFiniteSet(Cell)
    BY <1>4 DEF ListInv, TypeOK, MemoryOK
  <2>2. IsFiniteSet(allocated)
    BY <2>1, FS_Subset
  <2>3. Cardinality(allocated') = Cardinality(allocated) + 1
    BY <1>4, <2>2, FS_AddElement
  <2>4. Cardinality(allocated') <= Cardinality(Cell)
    BY <2>1, FS_Subset
  <2>5. QED
    BY <1>3, <2>1, <2>3, <2>4
<1>7. u \in Paths(Cell)
  BY <1>2, <1>6, SequencesAreCells
<1>8. Chain(u)'
  <2>1. \A i \in 1 .. n + 1 : i = n + 1 \/ i \in 1 .. n
    BY <1>1
  <2>2. \A k, l \in 1 .. n + 1 : u[k] = u[l] => k = l
    <3> SUFFICES ASSUME NEW k \in 1 .. n + 1, NEW l \in 1 .. n + 1, u[k] = u[l] PROVE k = l
      OBVIOUS
    <3>1. CASE k \in 1 .. n /\ l \in 1 .. n
      BY <1>2, <1>3, <3>1
    <3>2. CASE k = n + 1 /\ l \in 1 .. n
      BY <1>2, <1>5, <3>2
    <3>3. CASE k \in 1 .. n /\ l = n + 1
      BY <1>2, <1>5, <3>3
    <3>4. QED
      BY <2>1, <3>1, <3>2, <3>3
  <2>3. allocated' = {u[k] : k \in 1 .. n + 1}
    <3>1. 1 .. n + 1 = (1 .. n) \cup {n + 1}
      BY <1>1
    <3>2. QED
      BY <1>2, <1>3, <1>4, <3>1
  <2>4. head' = u[1]
    <3>1. CASE n = 0
      BY <1>2, <1>4, <3>1
    <3>2. CASE n # 0
      <4>1. 1 \in 1 .. n
        BY <1>1, <3>2
      <4>2. QED
        BY <1>2, <1>3, <1>4, <3>2, <4>1
    <3>3. QED
      BY <3>1, <3>2
  <2>5. \A k \in 1 .. n + 1 : heap'[u[k]].next = IF k = n + 1 THEN Null ELSE u[k + 1]
    <3> SUFFICES ASSUME NEW k \in 1 .. n + 1
                 PROVE  heap'[u[k]].next = IF k = n + 1 THEN Null ELSE u[k + 1]
      OBVIOUS
    <3>1. CASE k = n + 1
      BY <1>2, <1>4, <3>1
    <3>2. CASE k \in 1 .. n /\ k = n
      BY <1>1, <1>2, <1>4, <3>2
    <3>3. CASE k \in 1 .. n /\ k # n
      <4>1. k + 1 \in 1 .. n /\ k # n + 1
        BY <1>1, <3>3
      <4>2. QED
        BY <1>2, <1>3, <1>4, <3>3, <4>1
    <3>4. QED
      BY <2>1, <3>1, <3>2, <3>3
  <2>6. n + 1 # 0
    BY <1>1
  <2>7. QED
    BY <1>2, <1>6, <2>2, <2>3, <2>4, <2>5, <2>6 DEF Chain
<1>9. ListInv'
  <2>1. head' \in Cell \cup {Null}
    BY <1>4 DEF ListInv, TypeOK
  <2>2. QED
    BY <1>4, <1>6, <1>7, <1>8, <2>1 DEF ListInv, TypeOK
<1>10. Contents' = Append(Contents, t)
  <2>1. /\ Contents \in Seq(Tx \cup {None}) /\ Len(Contents) = n
        /\ \A k \in 1 .. n : Contents[k] = heap[s[k]].tx
    BY ContentsAlong DEF n
  <2>2. /\ Contents' \in Seq(Tx \cup {None}) /\ Len(Contents') = n + 1
        /\ \A k \in 1 .. n + 1 : Contents'[k] = heap'[u[k]].tx
    <3>1. /\ Contents' \in Seq(Tx \cup {None}) /\ Len(Contents') = Len(u)
          /\ \A k \in 1 .. Len(u) : Contents'[k] = heap'[u[k]].tx
      BY <1>7, <1>8, <1>9, ContentsAlongNext
    <3>2. QED
      BY <1>2, <3>1
  <2>3. /\ Append(Contents, t) \in Seq(Tx \cup {None}) /\ Len(Append(Contents, t)) = n + 1
        /\ Append(Contents, t)[n + 1] = t
        /\ \A k \in 1 .. n : Append(Contents, t)[k] = Contents[k]
    BY <2>1, AppendProperties
  <2>4. ASSUME NEW k \in 1 .. n + 1 PROVE Contents'[k] = Append(Contents, t)[k]
    <3>1. CASE k = n + 1
      BY <1>2, <1>4, <2>2, <2>3, <3>1
    <3>2. CASE k \in 1 .. n
      <4>1. Contents'[k] = heap'[s[k]].tx
        BY <1>2, <2>2, <3>2
      <4>2. heap'[s[k]].tx = heap[s[k]].tx
        BY <1>4, <3>2
      <4>3. Append(Contents, t)[k] = heap[s[k]].tx
        BY <2>1, <2>3, <3>2
      <4>4. QED
        BY <4>1, <4>2, <4>3
    <3>3. k = n + 1 \/ k \in 1 .. n
      BY <1>1 DEF n
    <3>4. QED
      BY <3>1, <3>2, <3>3
  <2>5. QED
    BY <2>2, <2>3, <2>4, SeqEqual
<1>11. QED
  BY <1>9, <1>10

\* new_node makes a list of one transaction.
LEMMA NewNodeStep ==
    ASSUME MemoryOK, ListInv, NEW t \in Tx, NewNode(t)
    PROVE  ListInv' /\ Abstract!Add(t)
<1>1. PICK s \in Paths(Cell) : Chain(s)
  BY DEF ListInv
<1>2. PICK c \in Cell \ allocated :
         /\ heap' = [heap EXCEPT ![c] = [tx |-> t, next |-> Null]]
         /\ allocated' = allocated \cup {c}
         /\ head' = c
  BY DEF NewNode
<1>3. head = Null /\ removed' = None
  BY DEF NewNode
<1>4. Len(s) = 0
  <2>1. Len(s) # 0 => 1 \in 1 .. Len(s)
    BY CellsAreSequences
  <2>2. \A k \in 1 .. Len(s) : s[k] # Null
    BY CellsAreSequences
  <2>3. QED
    BY <1>1, <1>3, <2>1, <2>2 DEF Chain
<1>5. /\ heap' \in [Cell -> [tx : Tx \cup {None}, next : Cell \cup {Null}]]
      /\ heap'[c].tx = t /\ heap'[c].next = Null
  BY <1>2 DEF ListInv, TypeOK
<1>6. Grows(s, c, t)
  BY <1>2, <1>3, <1>4, <1>5 DEF Grows
<1>7. QED
  BY <1>1, <1>3, <1>6, GrowStep DEF Abstract!Add

\* push links a transaction to the end of the list.
LEMMA PushStep ==
    ASSUME MemoryOK, ListInv, NEW t \in Tx, Push(t)
    PROVE  ListInv' /\ Abstract!Add(t)
<1>1. PICK s \in Paths(Cell) : Chain(s)
  BY DEF ListInv
<1>2. /\ Len(s) \in Nat /\ \A k \in 1 .. Len(s) : s[k] \in Cell /\ s[k] # Null
  BY CellsAreSequences
<1>3. PICK j \in Steps, c \in Cell \ allocated :
         /\ heap[Walk[j]].next = Null
         /\ heap' = [heap EXCEPT ![c] = [tx |-> t, next |-> Null], ![Walk[j]].next = c]
         /\ allocated' = allocated \cup {c}
  BY DEF Push
<1>4. head # Null /\ head' = head /\ removed' = None
  BY DEF Push
<1>5. j + 1 \in 1 .. Len(s) /\ Walk[j] = s[j + 1]
  BY <1>1, <1>3, StepsAlong
<1> DEFINE last == s[j + 1]
<1>6. j + 1 = Len(s) /\ Len(s) # 0
  <2>1. heap[last].next = IF j + 1 = Len(s) THEN Null ELSE s[(j + 1) + 1]
    BY <1>1, <1>5 DEF Chain
  <2>2. j + 1 # Len(s) => (j + 1) + 1 \in 1 .. Len(s)
    BY <1>2, <1>5
  <2>3. j + 1 = Len(s)
    BY <1>2, <1>3, <1>5, <2>1, <2>2
  <2>4. QED
    BY <1>5, <2>3
<1>7. last \in Cell /\ last # c /\ \A k \in 1 .. Len(s) : s[k] # c
  <2>1. \A k \in 1 .. Len(s) : s[k] \in allocated
    BY <1>1 DEF Chain
  <2>2. QED
    BY <1>2, <1>5, <2>1
<1> HIDE DEF last
<1>8. /\ heap' \in [Cell -> [tx : Tx \cup {None}, next : Cell \cup {Null}]]
      /\ heap'[c].tx = t /\ heap'[c].next = Null
      /\ heap'[last].tx = heap[last].tx /\ heap'[last].next = c
      /\ \A d \in Cell \ {c, last} : heap'[d] = heap[d]
  <2>1. heap \in [Cell -> [tx : Tx \cup {None}, next : Cell \cup {Null}]]
    BY DEF ListInv, TypeOK
  <2>2. heap' = [[heap EXCEPT ![c] = [tx |-> t, next |-> Null]]
                    EXCEPT ![last] = [heap[last] EXCEPT !.next = c]]
    BY <1>3, <1>5, <1>7, <2>1 DEF last
  <2>3. /\ heap[last] \in [tx : Tx \cup {None}, next : Cell \cup {Null}]
        /\ [heap[last] EXCEPT !.next = c] \in [tx : Tx \cup {None}, next : Cell \cup {Null}]
        /\ [heap[last] EXCEPT !.next = c].tx = heap[last].tx
        /\ [heap[last] EXCEPT !.next = c].next = c
    BY <1>7, <2>1
  <2>4. /\ heap'[c] = [tx |-> t, next |-> Null]
        /\ heap'[last] = [heap[last] EXCEPT !.next = c]
        /\ \A d \in Cell \ {c, last} : heap'[d] = heap[d]
        /\ heap' \in [Cell -> [tx : Tx \cup {None}, next : Cell \cup {Null}]]
    BY <1>7, <2>1, <2>2, <2>3
  <2>5. QED
    BY <2>3, <2>4
<1>9. ASSUME NEW k \in 1 .. Len(s)
      PROVE  /\ heap'[s[k]].tx = heap[s[k]].tx
             /\ heap'[s[k]].next = IF k = Len(s) THEN c ELSE heap[s[k]].next
  <2>1. CASE k = Len(s)
    BY <1>6, <1>8, <2>1 DEF last
  <2>2. CASE k # Len(s)
    <3>1. s[k] # last
      BY <1>1, <1>5, <1>6, <2>2 DEF Chain, last
    <3>2. s[k] \in Cell \ {c, last}
      BY <1>2, <1>7, <3>1
    <3>3. QED
      BY <1>8, <2>2, <3>2
  <2>3. QED
    BY <2>1, <2>2
<1>10. Grows(s, c, t)
  BY <1>3, <1>4, <1>6, <1>8, <1>9 DEF Grows
<1>11. QED
  BY <1>1, <1>4, <1>10, GrowStep DEF Abstract!Add

\* A search without a match changes nothing.
LEMMA NotFoundStep ==
    ASSUME MemoryOK, ListInv, NEW t \in Tx, NotFound(t)
    PROVE  ListInv' /\ Abstract!Take(t)
<1>1. PICK s \in Paths(Cell) : Chain(s)
  BY DEF ListInv
<1>2. UNCHANGED <<heap, allocated, head>> /\ removed' = None
  BY DEF NotFound
<1>3. Chain(s)'
  BY <1>1, <1>2 DEF Chain
<1>4. ListInv'
  BY <1>1, <1>2, <1>3 DEF ListInv, TypeOK
<1>5. Contents' = Contents
  BY <1>1, <1>2, <1>3, WalkAlong, WalkAlongNext DEF Walked
<1>6. ~ Abstract!Contains(Contents, t)
  <2>1. Len(Contents) = Len(s) /\ \A k \in 1 .. Len(s) : Contents[k] = heap[s[k]].tx
    BY <1>1, ContentsAlong
  <2>2. \A k \in 1 .. Len(s) : k - 1 \in Steps /\ Walk[k - 1] = s[k]
    BY <1>1, StepsAlong
  <2>3. \A k \in 1 .. Len(s) : heap[s[k]].tx # t
    BY <2>2 DEF NotFound
  <2>4. QED
    BY <2>1, <2>3 DEF Abstract!Contains
<1>7. QED
  BY <1>2, <1>4, <1>5, <1>6 DEF Abstract!Take

\* The first of the positions where a list has t is what RemoveFirst removes.
LEMMA RemoveFirstAt ==
    ASSUME NEW S, NEW q \in Seq(S), NEW t, NEW p \in 1 .. Len(q),
           q[p] = t, \A k \in 1 .. Len(q) : k < p => q[k] # t
    PROVE  Abstract!Contains(q, t) /\ Abstract!RemoveFirst(q, t) = RemoveAt(q, p)
<1> DEFINE I == {k \in 1 .. Len(q) : q[k] = t}
<1>1. p \in I /\ I \subseteq Nat /\ I # {}
  BY LenProperties
<1>2. Min(I) = p
  <2>1. Min(I) \in I /\ \A y \in I : Min(I) <= y
    <3> HIDE DEF I
    <3>1. QED
      BY <1>1, MinOfNaturals
  <2>2. Min(I) \in 1 .. Len(q) /\ q[Min(I)] = t /\ Min(I) <= p
    BY <1>1, <2>1
  <2> HIDE DEF I
  <2>3. Len(q) \in Nat
    BY LenProperties
  <2>4. QED
    BY <2>2, <2>3
<1>3. Abstract!Min(I) = Min(I)
  BY Zenon DEF Abstract!Min, Min
<1>4. Abstract!SelectInSeq(q, LAMBDA v : v = t) = p
  BY <1>1, <1>2, <1>3 DEF Abstract!SelectInSeq
<1>5. Abstract!RemoveAt(q, p) = RemoveAt(q, p)
  BY Zenon DEF Abstract!RemoveAt, RemoveAt
<1>6. Abstract!Contains(q, t)
  BY DEF Abstract!Contains
<1>7. QED
  BY <1>4, <1>5, <1>6 DEF Abstract!RemoveFirst

\* What find_and_remove does to the cells, p being the place of the match.
Shrinks(s, p, t) ==
    /\ allocated' = allocated \ {s[p]}
    /\ head' = IF p = 1 THEN heap[s[1]].next ELSE head
    /\ heap' \in [Cell -> [tx : Tx \cup {None}, next : Cell \cup {Null}]]
    /\ \A k \in 1 .. Len(s) :
          /\ heap'[s[k]].tx = heap[s[k]].tx
          /\ heap'[s[k]].next = IF k = p - 1 THEN heap[s[p]].next ELSE heap[s[k]].next
    /\ removed' = t

\* A cell unlinked leaves the others in their order.
LEMMA ShrinkStep ==
    ASSUME MemoryOK, ListInv, NEW s \in Paths(Cell), Chain(s),
           NEW p \in 1 .. Len(s), NEW t \in Tx, Shrinks(s, p, t)
    PROVE  ListInv' /\ Contents' = RemoveAt(Contents, p)
<1> DEFINE n == Len(s)
<1>1. /\ s \in Seq(Cell) /\ n \in Nat /\ n \in 0 .. Cardinality(Cell) /\ Cardinality(Cell) \in Nat
      /\ \A k \in 1 .. n : s[k] \in Cell /\ s[k] # Null
  BY CellsAreSequences
<1>2. PICK u \in Seq(Cell) : Len(u) = n - 1 /\ \A k \in 1 .. n - 1 : u[k] = s[Before(p, k)]
  BY <1>1, RemoveAtProperties
<1>3. /\ \A k, l \in 1 .. n : s[k] = s[l] => k = l
      /\ allocated = {s[k] : k \in 1 .. n}
      /\ Cardinality(allocated) = n
      /\ head = IF n = 0 THEN Null ELSE s[1]
      /\ \A k \in 1 .. n : heap[s[k]].next = IF k = n THEN Null ELSE s[k + 1]
  BY DEF Chain
<1>4. /\ allocated' = allocated \ {s[p]}
      /\ head' = IF p = 1 THEN heap[s[1]].next ELSE head
      /\ heap' \in [Cell -> [tx : Tx \cup {None}, next : Cell \cup {Null}]]
      /\ \A k \in 1 .. n :
            /\ heap'[s[k]].tx = heap[s[k]].tx
            /\ heap'[s[k]].next = IF k = p - 1 THEN heap[s[p]].next ELSE heap[s[k]].next
      /\ removed' = t
  BY DEF Shrinks
<1>5. p \in 1 .. n /\ p \in Nat /\ 1 \in 1 .. n /\ n \in 1 .. n /\ n - 1 \in Nat
  BY <1>1
<1> HIDE DEF n
<1>6. /\ \A k \in 1 .. n - 1 : Before(p, k) \in 1 .. n /\ Before(p, k) # p
      /\ \A k, l \in 1 .. n - 1 : Before(p, k) = Before(p, l) => k = l
      /\ \A j \in 1 .. n : j # p => \E k \in 1 .. n - 1 : Before(p, k) = j
  <2>1. \A k \in 1 .. n - 1 : Before(p, k) \in 1 .. n /\ Before(p, k) # p
    BY <1>5 DEF Before, n
  <2>2. \A k, l \in 1 .. n - 1 : Before(p, k) = Before(p, l) => k = l
    BY <1>5 DEF Before, n
  <2>3. ASSUME NEW j \in 1 .. n, j # p PROVE \E k \in 1 .. n - 1 : Before(p, k) = j
    <3>1. CASE j < p
      <4>1. j \in 1 .. n - 1 /\ Before(p, j) = j
        BY <1>1, <1>5, <3>1 DEF Before, n
      <4>2. QED
        BY <4>1
    <3>2. CASE ~ (j < p)
      <4>1. j - 1 \in 1 .. n - 1 /\ Before(p, j - 1) = j
        BY <1>1, <1>5, <2>3, <3>2 DEF Before, n
      <4>2. QED
        BY <4>1
    <3>3. QED
      BY <3>1, <3>2
  <2>4. QED
    BY <2>1, <2>2, <2>3
<1>7. allocated' \in SUBSET Cell /\ Cardinality(allocated') = n - 1
  <2>1. allocated \subseteq Cell /\ IsFiniteSet(Cell)
    BY DEF ListInv, TypeOK, MemoryOK
  <2>2. IsFiniteSet(allocated) /\ s[p] \in allocated
    BY <1>3, <1>5, <2>1, FS_Subset
  <2>3. Cardinality(allocated') = Cardinality(allocated) - 1
    BY <1>4, <2>2, FS_RemoveElement
  <2>4. QED
    BY <1>3, <1>4, <2>1, <2>3
<1>8. u \in Paths(Cell)
  <2>1. Len(u) <= Cardinality(Cell)
    BY <1>1, <1>2, <1>5 DEF n
  <2>2. QED
    BY <2>1, SequencesAreCells
<1>9. Chain(u)'
  <2>1. \A k, l \in 1 .. n - 1 : u[k] = u[l] => k = l
    BY <1>2, <1>3, <1>6
  <2>2. allocated' = {u[k] : k \in 1 .. n - 1}
    <3>1. ASSUME NEW d \in allocated' PROVE \E k \in 1 .. n - 1 : d = u[k]
      <4>1. PICK j \in 1 .. n : d = s[j] /\ j # p
        BY <1>3, <1>4
      <4>2. QED
        BY <1>2, <1>6, <4>1
    <3>2. ASSUME NEW k \in 1 .. n - 1 PROVE u[k] \in allocated'
      <4>1. u[k] = s[Before(p, k)] /\ Before(p, k) \in 1 .. n /\ Before(p, k) # p
        BY <1>2, <1>6
      <4>2. QED
        BY <1>3, <1>4, <1>5, <4>1
    <3>3. QED
      BY <3>1, <3>2
  <2>3. head' = IF n - 1 = 0 THEN Null ELSE u[1]
    <3>1. CASE p = 1 /\ n = 1
      BY <1>3, <1>4, <1>5, <3>1
    <3>2. CASE p = 1 /\ n # 1
      <4>1. 1 \in 1 .. n - 1 /\ Before(p, 1) = 2
        BY <1>5, <3>2 DEF Before
      <4>2. heap[s[1]].next = s[1 + 1]
        BY <1>3, <1>5, <3>2
      <4>3. u[1] = s[2]
        BY <1>2, <4>1
      <4>4. n - 1 # 0
        BY <1>5, <3>2
      <4>5. QED
        BY <1>4, <3>2, <4>2, <4>3, <4>4
    <3>3. CASE p # 1
      <4>1. 1 \in 1 .. n - 1 /\ Before(p, 1) = 1 /\ n - 1 # 0 /\ n # 0
        BY <1>5, <3>3 DEF Before
      <4>2. QED
        BY <1>2, <1>3, <1>4, <3>3, <4>1
    <3>4. QED
      BY <3>1, <3>2, <3>3
  <2>4. \A k \in 1 .. n - 1 : heap'[u[k]].next = IF k = n - 1 THEN Null ELSE u[k + 1]
    <3> SUFFICES ASSUME NEW k \in 1 .. n - 1
                 PROVE  heap'[u[k]].next = IF k = n - 1 THEN Null ELSE u[k + 1]
      OBVIOUS
    <3>0. k \in Nat /\ n \in Nat /\ p \in Nat
      BY <1>5 DEF n
    <3>1. CASE k = p - 1
      <4>1. Before(p, k) = k /\ k \in 1 .. n
        BY <1>5, <1>6, <3>0, <3>1 DEF Before
      <4>2. heap'[u[k]].next = IF p = n THEN Null ELSE s[p + 1]
        BY <1>2, <1>3, <1>4, <1>5, <3>1, <4>1
      <4>3. k + 1 = p /\ (p = n <=> k = n - 1)
        BY <3>0, <3>1
      <4>4. k # n - 1 => p \in 1 .. n - 1 /\ Before(p, p) = p + 1
        BY <1>5, <3>0, <3>1 DEF Before
      <4>5. QED
        BY <1>2, <4>2, <4>3, <4>4
    <3>2. CASE k # p - 1
      <4>1. Before(p, k) \in 1 .. n /\ Before(p, k) # p - 1
        BY <1>5, <1>6, <3>0, <3>2 DEF Before
      <4>2. heap'[u[k]].next = IF Before(p, k) = n THEN Null ELSE s[Before(p, k) + 1]
        BY <1>2, <1>3, <1>4, <4>1
      <4>3. Before(p, k) = n <=> k = n - 1
        BY <1>5, <3>0, <3>2 DEF Before
      <4>4. k # n - 1 => k + 1 \in 1 .. n - 1 /\ Before(p, k + 1) = Before(p, k) + 1
        BY <1>5, <3>0, <3>2 DEF Before
      <4>5. QED
        BY <1>2, <4>2, <4>3, <4>4
    <3>3. QED
      BY <3>1, <3>2
  <2>5. QED
    BY <1>2, <1>7, <2>1, <2>2, <2>3, <2>4 DEF Chain
<1>10. ListInv'
  <2>1. heap[s[1]] \in [tx : Tx \cup {None}, next : Cell \cup {Null}]
    BY <1>1, <1>5 DEF ListInv, TypeOK, n
  <2>2. head' \in Cell \cup {Null}
    BY <1>4, <2>1 DEF ListInv, TypeOK
  <2>3. QED
    BY <1>4, <1>7, <1>8, <1>9, <2>2 DEF ListInv, TypeOK
<1>11. Contents' = RemoveAt(Contents, p)
  <2>1. /\ Contents \in Seq(Tx \cup {None}) /\ Len(Contents) = n
        /\ \A k \in 1 .. n : Contents[k] = heap[s[k]].tx
    BY ContentsAlong DEF n
  <2>2. /\ Contents' \in Seq(Tx \cup {None}) /\ Len(Contents') = n - 1
        /\ \A k \in 1 .. n - 1 : Contents'[k] = heap'[u[k]].tx
    <3>1. /\ Contents' \in Seq(Tx \cup {None}) /\ Len(Contents') = Len(u)
          /\ \A k \in 1 .. Len(u) : Contents'[k] = heap'[u[k]].tx
      BY <1>8, <1>9, <1>10, ContentsAlongNext
    <3>2. QED
      BY <1>2, <3>1
  <2>3. /\ RemoveAt(Contents, p) \in Seq(Tx \cup {None}) /\ Len(RemoveAt(Contents, p)) = n - 1
        /\ \A k \in 1 .. n - 1 : RemoveAt(Contents, p)[k] = Contents[Before(p, k)]
    <3>1. p \in 1 .. Len(Contents)
      BY <1>5, <2>1
    <3>2. QED
      BY <2>1, <3>1, RemoveAtProperties
  <2>4. ASSUME NEW k \in 1 .. n - 1 PROVE Contents'[k] = RemoveAt(Contents, p)[k]
    <3>1. Before(p, k) \in 1 .. n
      BY <1>6
    <3>2. Contents'[k] = heap'[s[Before(p, k)]].tx
      BY <1>2, <2>2
    <3>3. heap'[s[Before(p, k)]].tx = heap[s[Before(p, k)]].tx
      BY <1>4, <3>1
    <3>4. QED
      BY <2>1, <2>3, <3>1, <3>2, <3>3
  <2>5. QED
    BY <2>2, <2>3, <2>4, SeqEqual
<1>12. QED
  BY <1>10, <1>11

\* find_and_remove takes out the oldest equal transaction.
LEMMA FindAndRemoveStep ==
    ASSUME MemoryOK, ListInv, NEW t \in Tx, FindAndRemove(t)
    PROVE  ListInv' /\ Abstract!Take(t)
<1>1. PICK s \in Paths(Cell) : Chain(s)
  BY DEF ListInv
<1>2. /\ Len(s) \in Nat /\ \A k \in 1 .. Len(s) : s[k] \in Cell /\ s[k] # Null
  BY CellsAreSequences
<1>3. PICK j \in Steps :
         /\ FirstMatch(j, t)
         /\ allocated' = allocated \ {Walk[j]}
         /\ removed' = t
         /\ IF j = 0
            THEN head' = heap[head].next /\ UNCHANGED heap
            ELSE heap' = Unlinked(j) /\ UNCHANGED head
  BY DEF FindAndRemove
<1> DEFINE p == j + 1
<1>4. p \in 1 .. Len(s) /\ p \in Nat /\ j \in Nat /\ Walk[j] = s[p]
  BY <1>1, <1>3, StepsAlong
<1>5. /\ \A k, l \in 1 .. Len(s) : s[k] = s[l] => k = l
      /\ head = s[1]
      /\ heap \in [Cell -> [tx : Tx \cup {None}, next : Cell \cup {Null}]]
  <2>1. Len(s) # 0
    BY <1>2, <1>4
  <2>2. QED
    BY <1>1, <2>1 DEF Chain, ListInv, TypeOK
<1>6. Shrinks(s, p, t)
  <2>1. CASE j = 0
    <3>1. p = 1 /\ heap' = heap /\ head' = heap[s[1]].next
      BY <1>3, <1>5, <2>1
    <3>2. \A k \in 1 .. Len(s) : k # p - 1
      BY <2>1
    <3>3. allocated' = allocated \ {s[p]} /\ removed' = t
      BY <1>3, <1>4
    <3> HIDE DEF p
    <3>4. QED
      BY <1>5, <3>1, <3>2, <3>3 DEF Shrinks
  <2>2. CASE j # 0
    <3> DEFINE before == s[j]
    <3>1. j \in 1 .. Len(s) /\ Walk[j - 1] = before /\ before \in Cell /\ j = p - 1 /\ p # 1
      <4>1. j \in 1 .. Len(s)
        BY <1>2, <1>4, <2>2
      <4>2. Walk[j - 1] = s[j]
        BY <1>1, <4>1, StepsAlong
      <4>3. QED
        BY <1>2, <1>4, <2>2, <4>1, <4>2
    <3>2. heap[s[p]].next \in Cell \cup {Null}
      BY <1>2, <1>4, <1>5
    <3>3. heap' = [heap EXCEPT ![before] = [heap[before] EXCEPT !.next = heap[s[p]].next]]
      BY <1>3, <1>4, <1>5, <2>2, <3>1 DEF Unlinked
    <3> HIDE DEF before
    <3>4. /\ [heap[before] EXCEPT !.next = heap[s[p]].next]
                \in [tx : Tx \cup {None}, next : Cell \cup {Null}]
          /\ [heap[before] EXCEPT !.next = heap[s[p]].next].tx = heap[before].tx
          /\ [heap[before] EXCEPT !.next = heap[s[p]].next].next = heap[s[p]].next
      BY <1>5, <3>1, <3>2
    <3>5. /\ heap' \in [Cell -> [tx : Tx \cup {None}, next : Cell \cup {Null}]]
          /\ heap'[before] = [heap[before] EXCEPT !.next = heap[s[p]].next]
          /\ \A d \in Cell \ {before} : heap'[d] = heap[d]
      BY <1>5, <3>1, <3>3, <3>4
    <3>6. ASSUME NEW k \in 1 .. Len(s)
          PROVE  /\ heap'[s[k]].tx = heap[s[k]].tx
                 /\ heap'[s[k]].next = IF k = p - 1 THEN heap[s[p]].next ELSE heap[s[k]].next
      <4>1. CASE k = j
        BY <3>1, <3>4, <3>5, <4>1 DEF before
      <4>2. CASE k # j
        <5>1. s[k] \in Cell \ {before} /\ k # p - 1
          BY <1>2, <1>5, <3>1, <4>2 DEF before
        <5>2. QED
          BY <3>5, <5>1
      <4>3. QED
        BY <4>1, <4>2
    <3>7. allocated' = allocated \ {s[p]} /\ removed' = t /\ head' = head
      BY <1>3, <1>4, <2>2
    <3> HIDE DEF p
    <3>8. QED
      BY <3>1, <3>5, <3>6, <3>7 DEF Shrinks
  <2>3. QED
    BY <2>1, <2>2
<1>7. ListInv' /\ Contents' = RemoveAt(Contents, p)
  BY <1>1, <1>4, <1>6, ShrinkStep
<1>8. Abstract!Contains(Contents, t) /\ Abstract!RemoveFirst(Contents, t) = RemoveAt(Contents, p)
  <2>1. /\ Contents \in Seq(Tx \cup {None}) /\ Len(Contents) = Len(s)
        /\ \A k \in 1 .. Len(s) : Contents[k] = heap[s[k]].tx
    BY <1>1, ContentsAlong
  <2>2. heap[s[p]].tx = t /\ \A k \in Steps : k < j => heap[Walk[k]].tx # t
    BY <1>3, <1>4 DEF FirstMatch
  <2>3. \A k \in 1 .. Len(s) : k - 1 \in Steps /\ Walk[k - 1] = s[k]
    BY <1>1, StepsAlong
  <2>4. \A k \in 1 .. Len(s) : k < p => heap[s[k]].tx # t
    BY <1>4, <2>2, <2>3
  <2>5. p \in 1 .. Len(Contents) /\ Contents[p] = t
    BY <1>4, <2>1, <2>2
  <2>6. \A k \in 1 .. Len(Contents) : k < p => Contents[k] # t
    BY <2>1, <2>4
  <2> HIDE DEF p
  <2>7. QED
    BY <2>1, <2>5, <2>6, RemoveFirstAt
<1>9. QED
  BY <1>3, <1>7, <1>8 DEF Abstract!Take

-------------------------------------------------------------------------------
(* The theorems. *)

\* Memory that nobody has allocated holds an empty list.
LEMMA EmptyList == MemoryOK /\ Init => ListInv /\ Contents = <<>>
<1> SUFFICES ASSUME MemoryOK, Init PROVE ListInv /\ Contents = <<>>
  OBVIOUS
<1>1. Cardinality(Cell) \in Nat
  BY FS_CardinalityType DEF MemoryOK
<1>2. PICK s \in Seq(Cell) : s = <<>> /\ Len(s) = 0
  <2>1. <<>> \in Seq(Cell) /\ Len(<<>>) = 0
    OBVIOUS
  <2>2. QED
    BY <2>1
<1>3. s \in Paths(Cell)
  <2>1. Len(s) <= Cardinality(Cell)
    BY <1>1, <1>2
  <2>2. QED
    BY <2>1, SequencesAreCells
<1>4. Chain(s)
  BY <1>2, FS_EmptySet DEF Init, Chain
<1>5. Walked(s)
  BY <1>3, <1>4, WalkAlong
<1>6. Contents = <<>>
  BY <1>2, <1>5 DEF Walked
<1>7. QED
  BY <1>3, <1>4, <1>6 DEF Init, ListInv, TypeOK

\* Every step keeps the list a chain, and adds one transaction to the end of it
\* or takes the oldest equal one, if there is any.
LEMMA OutgoingStep ==
    MemoryOK /\ ListInv /\ [Next]_vars =>
        ListInv' /\ [\E t \in Tx : Abstract!Add(t) \/ Abstract!Take(t)]_Abstract!vars
<1> SUFFICES ASSUME MemoryOK, ListInv, [Next]_vars
             PROVE  /\ ListInv'
                    /\ [\E t \in Tx : Abstract!Add(t) \/ Abstract!Take(t)]_Abstract!vars
  OBVIOUS
<1>1. ASSUME NEW t \in Tx, NewNode(t) PROVE ListInv' /\ Abstract!Add(t)
  BY <1>1, NewNodeStep
<1>2. ASSUME NEW t \in Tx, Push(t) PROVE ListInv' /\ Abstract!Add(t)
  BY <1>2, PushStep
<1>3. ASSUME NEW t \in Tx, NotFound(t) PROVE ListInv' /\ Abstract!Take(t)
  BY <1>3, NotFoundStep
<1>4. ASSUME NEW t \in Tx, FindAndRemove(t) PROVE ListInv' /\ Abstract!Take(t)
  BY <1>4, FindAndRemoveStep
<1>5. CASE UNCHANGED vars
  <2>1. PICK s \in Paths(Cell) : Chain(s)
    BY DEF ListInv
  <2>2. Chain(s)'
    BY <1>5, <2>1 DEF Chain, vars
  <2>3. Walked(s) /\ Walked(s)'
    BY <2>1, <2>2, WalkAlong, WalkAlongNext
  <2>4. UNCHANGED <<Contents, removed>>
    BY <1>5, <2>3 DEF Walked, vars
  <2>5. ListInv'
    BY <1>5, <2>1, <2>2 DEF ListInv, TypeOK, vars
  <2>6. QED
    BY <2>4, <2>5 DEF Abstract!vars
<1>6. QED
  BY <1>1, <1>2, <1>3, <1>4, <1>5 DEF Next

\* The cells of a user's list are a chain, in which every cell in use is once.
THEOREM ListInvariant ==
    ASSUME MemoryOK
    PROVE  Spec => []ListInv
<1>1. Init => ListInv
  BY EmptyList
<1>2. ListInv /\ [Next]_vars => ListInv'
  BY OutgoingStep
<1>3. QED
  BY <1>1, <1>2, PTL DEF Spec

\* No cell of a user's list leaks, and none is linked after it was freed.
THEOREM ListOwnsItsCells ==
    ASSUME MemoryOK
    PROVE  Spec => []ListOwnsCells
<1>1. ListInv => ListOwnsCells
  <2> SUFFICES ASSUME ListInv PROVE ListOwnsCells
    OBVIOUS
  <2>1. PICK s \in Paths(Cell) : Chain(s)
    BY DEF ListInv
  <2>2. Walked(s)
    BY <2>1, WalkAlong
  <2>3. {Walk[k] : k \in Steps} = {s[k] : k \in 1 .. Len(s)}
    <3>1. \A k \in Steps : k + 1 \in 1 .. Len(s) /\ Walk[k] = s[k + 1]
      BY <2>1, StepsAlong
    <3>2. \A k \in 1 .. Len(s) : k - 1 \in Steps /\ Walk[k - 1] = s[k]
      BY <2>1, StepsAlong
    <3>3. QED
      BY <3>1, <3>2
  <2>4. QED
    BY <2>1, <2>2, <2>3 DEF ListOwnsCells, Walked, Chain
<1>2. QED
  BY <1>1, ListInvariant, PTL

\* lklist.c implements the list of TxList: transactions in the order they were
\* sent, from which one found in the ledger takes the oldest equal one.
THEOREM ListTakesOldest ==
    ASSUME MemoryOK
    PROVE  Spec => OutgoingSpec
<1>1. Init => Abstract!Init
  BY EmptyList DEF Init, Abstract!Init
<1>2. ListInv /\ [Next]_vars =>
         [\E t \in Tx : Abstract!Add(t) \/ Abstract!Take(t)]_Abstract!vars
  BY OutgoingStep
<1>3. QED
  BY <1>1, <1>2, ListInvariant, PTL DEF Spec, OutgoingSpec, Abstract!OutgoingSpec

===============================================================================
