----------------------------- MODULE LedgerProofs -----------------------------
(***************************************************************************)
(* The safety properties of Ledger, proved for any set of builders, block  *)
(* size, registry size and number of builders in flight: among them, that  *)
(* the ledger is an append-only log until two builders choose the same     *)
(* index; and that Journey, where the builders write what nodes give them, *)
(* implements Fates.                                                       *)
(***************************************************************************)
EXTENDS Journey, DataLemmas

USE LedgerAssumption DEF FirstIndex, Free, PastEnd, Written, LastToConfirm

\* Slots 0 and 1, which the code's two emptiness tests read, exist in every block.
LEMMA TestedSlots == 0 \in Slot /\ 1 \in Slot
BY DEF Slot

\* The initial state satisfies the inductive invariant.
LEMMA InitInv == Init => IInv
<1> SUFFICES ASSUME Init PROVE IInv
  OBVIOUS
<1> USE DEF Init
<1>1. TypeOK
  <2>1. 0 \in 0 .. SO_REGISTRY_SIZE
    OBVIOUS
  <2>2. QED
    BY <2>1 DEF TypeOK
<1>2. PassedOccupied
  BY DEF PassedOccupied, Index
<1>3. ScanEnd
  BY DEF ScanEnd, Chosen
<1>4. SlotHasWriter /\ PendingHasConfirmer
  BY DEF SlotHasWriter, PendingHasConfirmer
<1>5. CopiedNotEmpty
  BY DEF CopiedNotEmpty, Copied
<1>6. QED
  BY <1>1, <1>2, <1>3, <1>4, <1>5 DEF IInv

\* Every step preserves the types.
LEMMA TypeStep == IInv /\ [Next]_vars => TypeOK'
<1> SUFFICES ASSUME IInv, [Next]_vars PROVE TypeOK'
  OBVIOUS
<1> USE DEF IInv, TypeOK, Working, Running
<1>1. ASSUME NEW b \in Builders, Fork(b) PROVE TypeOK'
  BY <1>1 DEF Fork
<1>2. ASSUME NEW b \in Builders, Scan(b) PROVE TypeOK'
  <2>1. at[b] + 1 \in 0 .. SO_REGISTRY_SIZE
    BY <1>2 DEF Scan, Index
  <2>2. at' \in [Builders -> 0 .. SO_REGISTRY_SIZE]
    BY <1>2, <2>1 DEF Scan
  <2>3. pc' \in [Builders -> Working \cup {"none", "full", "done"}]
    BY <1>2 DEF Scan
  <2>4. QED
    BY <1>2, <2>2, <2>3 DEF Scan
<1>3. ASSUME NEW b \in Builders, LedgerFull(b) PROVE TypeOK'
  BY <1>3 DEF LedgerFull
<1>4. ASSUME NEW b \in Builders, Reserve(b) PROVE TypeOK'
  BY <1>4 DEF Reserve
<1>5. ASSUME NEW b \in Builders, NEW j \in Slot, Copy(b, j) PROVE TypeOK'
  <2>1. at[b] \in Index
    BY <1>5 DEF ScanEnd, Chosen, Copy
  <2>2. ledger' \in [Index -> [Slot -> Builders \cup {Empty}]]
    BY <1>5, <2>1 DEF Copy
  <2>3. status' \in [Index -> [Slot -> {"pending", "confirmed"}]]
    BY <1>5, <2>1 DEF Copy
  <2>4. todo' \in [Builders -> SUBSET Slot]
    <3>1. CASE todo[b] = {j}
      BY <1>5, <3>1 DEF Copy
    <3>2. CASE todo[b] # {j}
      BY <1>5, <3>2 DEF Copy
    <3>3. QED
      BY <3>1, <3>2
  <2>6. pc' \in [Builders -> Working \cup {"none", "full", "done"}]
    BY <1>5 DEF Copy
  <2>5. QED
    BY <1>5, <2>2, <2>3, <2>4, <2>6 DEF Copy
<1>6. ASSUME NEW b \in Builders, NEW j \in Slot, Confirm(b, j) PROVE TypeOK'
  BY <1>6 DEF Confirm
<1>7. ASSUME NEW b \in Builders, Release(b) PROVE TypeOK'
  BY <1>7 DEF Release
<1>8. ASSUME NEW b \in Builders, Killed(b) PROVE TypeOK'
  BY <1>8 DEF Killed
<1>9. CASE Interrupt
  BY <1>9 DEF Interrupt
<1>10. CASE UNCHANGED vars
  BY <1>10 DEF vars
<1>11. QED
  BY <1>1, <1>2, <1>3, <1>4, <1>5, <1>6, <1>7, <1>8, <1>9, <1>10 DEF Next, Builder

\* What a copy does to the slots: only the slot copied changes, and it is
\* never blank afterwards.
LEMMA CopySlots ==
    ASSUME IInv, NEW b \in Builders, NEW j \in Slot, Copy(b, j)
    PROVE  /\ at[b] \in Index
           /\ ledger'[at[b]][j] = b
           /\ status'[at[b]][j] = "pending"
           /\ \A i \in Index, k \in Slot :
                 <<i, k>> # <<at[b], j>> =>
                     ledger'[i][k] = ledger[i][k] /\ status'[i][k] = status[i][k]
<1>1. at[b] \in Index
  BY DEF IInv, ScanEnd, Chosen, Copy, Running
<1>2. /\ ledger \in [Index -> [Slot -> Builders \cup {Empty}]]
      /\ status \in [Index -> [Slot -> {"pending", "confirmed"}]]
  BY DEF IInv, TypeOK
<1>3. /\ ledger' = [ledger EXCEPT ![at[b]][j] = b]
      /\ status' = [status EXCEPT ![at[b]][j] = "pending"]
  BY DEF Copy
<1>4. QED
  BY <1>1, <1>2, <1>3

\* Slots are never erased: an occupied index stays occupied.
LEMMA SlotsKept ==
    ASSUME IInv, [Next]_vars, NEW i \in Index, NEW j \in Slot, ledger[i][j] # Empty
    PROVE  ledger'[i][j] # Empty
<1>1. ASSUME NEW b \in Builders, NEW k \in Slot, Copy(b, k) PROVE ledger'[i][j] # Empty
  <2>1. CASE <<i, j>> = <<at[b], k>>
    BY <1>1, <2>1, CopySlots
  <2>2. CASE <<i, j>> # <<at[b], k>>
    BY <1>1, <2>2, CopySlots
  <2>3. QED
    BY <2>1, <2>2
<1>2. CASE UNCHANGED ledger
  BY <1>2
<1>3. QED
  BY <1>1, <1>2 DEF Next, Builder, Fork, Scan, LedgerFull, Reserve, Confirm, Release,
     Killed, Interrupt, vars

\* A builder never goes back on the index it chose, nor uncopies a slot.
LEMMA ChoiceKept ==
    ASSUME IInv, [Next]_vars, NEW c \in Builders, Chosen(c)
    PROVE  /\ Chosen(c)' /\ at'[c] = at[c]
           /\ \A k \in Slot : Copied(c, k) => Copied(c, k)'
<1> USE DEF Chosen, Copied
<1>0. TypeOK
  BY DEF IInv
<1>1. ASSUME NEW b \in Builders, Fork(b) \/ LedgerFull(b)
      PROVE  pc'[c] = pc[c] /\ at'[c] = at[c] /\ todo'[c] = todo[c]
  BY <1>0, <1>1 DEF Fork, LedgerFull, TypeOK
<1>2. ASSUME NEW b \in Builders, Scan(b)
      PROVE  pc'[c] = pc[c] /\ at'[c] = at[c] /\ todo'[c] = todo[c]
  BY <1>0, <1>2 DEF Scan, TypeOK
<1>3. ASSUME NEW b \in Builders, NEW j \in Slot, Copy(b, j)
      PROVE  /\ Chosen(c)' /\ at'[c] = at[c]
             /\ \A k \in Slot : Copied(c, k) => Copied(c, k)'
  <2>1. CASE todo[b] = {j}
    BY <1>0, <1>3, <2>1 DEF Copy, TypeOK
  <2>2. CASE todo[b] # {j}
    BY <1>0, <1>3, <2>2 DEF Copy, TypeOK
  <2>3. QED
    BY <2>1, <2>2
<1>4. ASSUME NEW b \in Builders, NEW j \in Slot, Confirm(b, j)
      PROVE  /\ Chosen(c)' /\ at'[c] = at[c]
             /\ \A k \in Slot : Copied(c, k) => Copied(c, k)'
  BY <1>0, <1>4 DEF Confirm, TypeOK
<1>5. ASSUME NEW b \in Builders, Reserve(b) \/ Release(b)
      PROVE  /\ Chosen(c)' /\ at'[c] = at[c]
             /\ \A k \in Slot : Copied(c, k) => Copied(c, k)'
  BY <1>0, <1>5 DEF Reserve, Release, TypeOK
<1>6. CASE Interrupt \/ UNCHANGED vars \/ \E b \in Builders : Killed(b)
  BY <1>6 DEF Interrupt, vars, Killed
<1>7. QED
  BY <1>1, <1>2, <1>3, <1>4, <1>5, <1>6 DEF Next, Builder

\* Only a Copy step makes a slot copied.
LEMMA OnlyCopyCopies ==
    ASSUME IInv, [Next]_vars, NEW c \in Builders, NEW k \in Slot,
           Copied(c, k)', ~Copied(c, k)
    PROVE  Copy(c, k)
<1> USE DEF Copied
<1>0. TypeOK
  BY DEF IInv
<1>1. ASSUME NEW b \in Builders, Fork(b) \/ LedgerFull(b) PROVE FALSE
  BY <1>0, <1>1 DEF Fork, LedgerFull, TypeOK
<1>2. ASSUME NEW b \in Builders, Scan(b) PROVE FALSE
  BY <1>0, <1>2 DEF Scan, TypeOK
<1>3. ASSUME NEW b \in Builders, NEW j \in Slot, Copy(b, j) PROVE Copy(c, k)
  <2>1. CASE b # c
    BY <1>0, <1>3, <2>1 DEF Copy, TypeOK
  <2>2. CASE b = c /\ j # k
    <3>1. k \in todo[c] /\ pc[c] = "copy"
      BY <1>3, <2>2 DEF Copy
    <3>2. pc' = pc /\ todo' = [todo EXCEPT ![c] = @ \ {j}]
      BY <1>3, <2>2, <3>1 DEF Copy
    <3>3. k \in todo'[c]
      BY <1>0, <2>2, <3>1, <3>2 DEF TypeOK
    <3>4. QED
      BY <3>1, <3>2, <3>3
  <2>3. CASE b = c /\ j = k
    BY <1>3, <2>3
  <2>4. QED
    BY <2>1, <2>2, <2>3
<1>4. ASSUME NEW b \in Builders, NEW j \in Slot, Confirm(b, j) PROVE FALSE
  BY <1>0, <1>4 DEF Confirm, TypeOK
<1>5. ASSUME NEW b \in Builders, Reserve(b) PROVE FALSE
  BY <1>0, <1>5 DEF Reserve, TypeOK
<1>6. ASSUME NEW b \in Builders, Release(b) PROVE FALSE
  BY <1>0, <1>6 DEF Release, TypeOK
<1>7. CASE Interrupt \/ UNCHANGED vars \/ \E b \in Builders : Killed(b)
  BY <1>7 DEF Interrupt, vars, Killed
<1>8. QED
  BY <1>1, <1>2, <1>3, <1>4, <1>5, <1>6, <1>7 DEF Next, Builder

\* Only a Copy step changes the ledger.
LEMMA OnlyCopyWrites ==
    ASSUME [Next]_vars
    PROVE  UNCHANGED ledger \/ \E b \in Builders, j \in Slot : Copy(b, j)
BY DEF Next, Builder, Fork, Scan, LedgerFull, Reserve, Confirm, Release, Killed,
   Interrupt, vars

\* A builder advances only past an index it has found occupied.
LEMMA PassedOccupiedStep == IInv /\ [Next]_vars => PassedOccupied'
<1> SUFFICES ASSUME IInv, [Next]_vars, NEW c \in Builders, NEW i \in Index, i < at'[c]
             PROVE  ledger'[i][1] # Empty
  BY DEF PassedOccupied, Occupied, Index
<1>0. TypeOK /\ PassedOccupied
  BY DEF IInv
<1>1. ledger[i][1] # Empty
  <2>1. CASE at'[c] = at[c]
    BY <1>0, <2>1 DEF PassedOccupied, Occupied
  <2>2. CASE at'[c] # at[c]
    <3>1. Scan(c) /\ at'[c] = at[c] + 1 /\ ~Free(at[c])
      BY <1>0, <2>2 DEF TypeOK, Next, Builder, Fork, Scan, LedgerFull, Reserve, Copy,
         Confirm, Release, Killed, Interrupt, vars
    <3>2. i < at[c] \/ i = at[c]
      BY <1>0, <3>1 DEF Index, TypeOK
    <3>3. QED
      BY <1>0, <3>1, <3>2 DEF PassedOccupied, Occupied
  <2>3. QED
    BY <2>1, <2>2
<1>2. QED
  BY <1>1, TestedSlots, SlotsKept

\* A scan ends at an index of the ledger, or past all of them.
LEMMA ScanEndStep == IInv /\ [Next]_vars => ScanEnd'
<1> SUFFICES ASSUME IInv, [Next]_vars, NEW c \in Builders
             PROVE  /\ Chosen(c)' => at'[c] \in Index
                    /\ pc'[c] = "full" => at'[c] = SO_REGISTRY_SIZE
  BY DEF ScanEnd, Index
<1>0. TypeOK /\ ScanEnd
  BY DEF IInv
<1>1. ASSUME Chosen(c)' PROVE at'[c] \in Index
  <2>1. CASE Chosen(c)
    BY <1>0, <2>1, ChoiceKept DEF ScanEnd
  <2>2. CASE ~Chosen(c)
    <3>1. Scan(c) /\ at'[c] = at[c]
      BY <1>0, <1>1, <2>2 DEF Chosen, TypeOK, Next, Builder, Fork, Scan, LedgerFull,
         Reserve, Copy, Confirm, Release, Killed, Interrupt, vars
    <3>2. QED
      BY <3>1 DEF Scan
  <2>3. QED
    BY <2>1, <2>2
<1>2. ASSUME pc'[c] = "full" PROVE at'[c] = SO_REGISTRY_SIZE
  <2>1. CASE pc[c] = "full"
    <3>1. at'[c] = at[c]
      BY <1>0, <2>1 DEF TypeOK, Next, Builder, Fork, Scan, LedgerFull, Reserve, Copy,
         Confirm, Release, Killed, Interrupt, vars
    <3>2. QED
      BY <1>0, <2>1, <3>1 DEF ScanEnd
  <2>2. CASE pc[c] # "full"
    <3>1. LedgerFull(c)
      BY <1>0, <1>2, <2>2 DEF TypeOK, Next, Builder, Fork, Scan, LedgerFull, Reserve,
         Copy, Confirm, Release, Killed, Interrupt, vars
    <3>2. QED
      BY <3>1 DEF LedgerFull
  <2>3. QED
    BY <2>1, <2>2
<1>3. QED
  BY <1>1, <1>2

\* What a slot holds comes from the builder that copied it there.
LEMMA SlotHasWriterStep == IInv /\ [Next]_vars => SlotHasWriter'
<1> SUFFICES ASSUME IInv, [Next]_vars, NEW i \in Index, NEW j \in Slot,
                    NEW w, w = ledger'[i][j], w # Empty
             PROVE  at'[w] = i /\ Copied(w, j)'
  BY DEF SlotHasWriter, Index, Slot, Copied
<1>0. TypeOK /\ SlotHasWriter
  BY DEF IInv
<1>1. CASE w = ledger[i][j]
  <2>1. w \in Builders /\ at[w] = i /\ Copied(w, j)
    BY <1>0, <1>1 DEF TypeOK, SlotHasWriter
  <2>2. Chosen(w)
    BY <2>1 DEF Copied, Chosen
  <2>3. QED
    BY <2>1, <2>2, ChoiceKept
<1>2. CASE w # ledger[i][j]
  <2>1. PICK b \in Builders, k \in Slot : Copy(b, k)
    BY <1>2, OnlyCopyWrites
  <2>2. i = at[b] /\ j = k /\ w = b
    BY <1>2, <2>1, CopySlots
  <2>3. at'[w] = i
    BY <2>1, <2>2 DEF Copy
  <2>4. CASE todo[w] = {j}
    BY <1>0, <2>1, <2>2, <2>4 DEF Copy, Copied, TypeOK
  <2>5. CASE todo[w] # {j}
    <3>1. pc'[w] = "copy" /\ todo'[w] = todo[w] \ {j}
      BY <1>0, <2>1, <2>2, <2>5 DEF Copy, TypeOK
    <3>2. QED
      BY <2>3, <3>1 DEF Copied
  <2>6. QED
    BY <2>3, <2>4, <2>5
<1>3. QED
  BY <1>1, <1>2

\* What has been copied is never blank again.
LEMMA CopiedNotEmptyStep == IInv /\ [Next]_vars => CopiedNotEmpty'
<1> SUFFICES ASSUME IInv, [Next]_vars, NEW c \in Builders, NEW k \in Slot, Copied(c, k)'
             PROVE  ledger'[at'[c]][k] # Empty
  BY DEF CopiedNotEmpty, Slot
<1>1. CASE Copied(c, k)
  <2>1. Chosen(c) /\ ledger[at[c]][k] # Empty /\ at[c] \in Index
    BY <1>1 DEF IInv, ScanEnd, CopiedNotEmpty, Copied, Chosen
  <2>2. QED
    BY <2>1, ChoiceKept, SlotsKept
<1>2. CASE ~Copied(c, k)
  <2>1. Copy(c, k)
    BY <1>2, OnlyCopyCopies
  <2>2. ledger'[at[c]][k] = c /\ at'[c] = at[c]
    BY <2>1, CopySlots DEF Copy
  <2>3. QED
    BY <2>2
<1>3. QED
  BY <1>1, <1>2

\* Where status is written, and what a pending slot waits for.
LEMMA PendingHasConfirmerStep == IInv /\ [Next]_vars => PendingHasConfirmer'
<1> SUFFICES ASSUME IInv, [Next]_vars, NEW i \in Index, NEW j \in Slot,
                    ledger'[i][j] # Empty, status'[i][j] = "pending"
             PROVE  \E c \in Builders : Confirmer(c, i, j)'
  BY DEF PendingHasConfirmer, Index, Slot
<1>0. TypeOK
  BY DEF IInv
<1>1. ASSUME NEW b \in Builders, NEW k \in Slot, Copy(b, k)
      PROVE  pc'[b] = "copy" \/ (pc'[b] = "confirm" /\ todo'[b] = Slot)
  BY <1>0, <1>1 DEF Copy, TypeOK
<1>2. ASSUME NEW b \in Builders, NEW k \in Slot, Confirm(b, k), at[b] = i, k = j
      PROVE  FALSE
  BY <1>0, <1>2 DEF Confirm, TypeOK
<1>3. CASE \E b \in Builders : at[b] = i /\ Copy(b, j)
  <2>1. PICK b \in Builders : at[b] = i /\ Copy(b, j)
    BY <1>3
  <2>2. at'[b] = i
    BY <2>1 DEF Copy
  <2>3. QED
    BY <1>1, <2>1, <2>2 DEF Confirmer
<1>4. CASE ~ \E b \in Builders : at[b] = i /\ Copy(b, j)
  <2>1. ledger[i][j] # Empty /\ status[i][j] = "pending"
    <3>1. ASSUME NEW b \in Builders, NEW k \in Slot, Copy(b, k)
          PROVE  ledger[i][j] # Empty /\ status[i][j] = "pending"
      <4>1. <<i, j>> # <<at[b], k>>
        BY <1>4, <3>1
      <4>2. QED
        BY <3>1, <4>1, CopySlots
    <3>2. ASSUME NEW b \in Builders, NEW k \in Slot, Confirm(b, k)
          PROVE  ledger[i][j] # Empty /\ status[i][j] = "pending"
      <4>1. ~(at[b] = i /\ k = j)
        BY <1>2, <3>2
      <4>2. ledger' = ledger /\ status' = [status EXCEPT ![at[b]][k] = "confirmed"]
        BY <3>2 DEF Confirm
      <4>3. status'[i][j] = status[i][j]
        BY <1>0, <4>1, <4>2 DEF TypeOK
      <4>4. QED
        BY <4>2, <4>3
    <3>3. CASE UNCHANGED <<ledger, status>>
      BY <3>3
    <3>4. QED
      BY <3>1, <3>2, <3>3 DEF Next, Builder, Fork, Scan, LedgerFull, Reserve, Release,
         Killed, Interrupt, vars
  <2>2. PICK c \in Builders : Confirmer(c, i, j)
    BY <2>1 DEF IInv, PendingHasConfirmer
  <2>3. at'[c] = i
    <3>1. Chosen(c)
      BY <2>2 DEF Chosen, Confirmer
    <3>2. QED
      BY <2>2, <3>1, ChoiceKept DEF Confirmer
  <2>4. ASSUME UNCHANGED <<pc, todo>> PROVE Confirmer(c, i, j)'
    BY <2>2, <2>3, <2>4 DEF Confirmer
  <2>5. ASSUME NEW b \in Builders, NEW k \in Slot, Copy(b, k) PROVE Confirmer(c, i, j)'
    <3>1. CASE b = c
      BY <1>1, <2>3, <2>5, <3>1 DEF Confirmer
    <3>2. CASE b # c
      <4>1. pc'[c] = pc[c] /\ todo'[c] = todo[c]
        BY <1>0, <2>5, <3>2 DEF Copy, TypeOK
      <4>2. QED
        BY <2>2, <2>3, <4>1 DEF Confirmer
    <3>3. QED
      BY <3>1, <3>2
  <2>6. ASSUME NEW b \in Builders, NEW k \in Slot, Confirm(b, k) PROVE Confirmer(c, i, j)'
    <3>1. CASE b = c
      <4>1. k # j /\ pc[c] = "confirm" /\ j \in todo[c]
        BY <1>2, <2>2, <2>6, <3>1 DEF Confirm, Confirmer
      <4>2. pc' = pc /\ todo' = [todo EXCEPT ![c] = @ \ {k}]
        BY <2>6, <3>1, <4>1 DEF Confirm
      <4>3. j \in todo'[c]
        BY <1>0, <4>1, <4>2 DEF TypeOK
      <4>4. QED
        BY <2>3, <4>1, <4>2, <4>3 DEF Confirmer
    <3>2. CASE b # c
      <4>1. pc'[c] = pc[c] /\ todo'[c] = todo[c]
        BY <1>0, <2>6, <3>2 DEF Confirm, TypeOK
      <4>2. QED
        BY <2>2, <2>3, <4>1 DEF Confirmer
    <3>3. QED
      BY <3>1, <3>2
  <2>7. ASSUME NEW b \in Builders, b # c, pc'[c] = pc[c], todo'[c] = todo[c]
        PROVE  Confirmer(c, i, j)'
    BY <2>2, <2>3, <2>7 DEF Confirmer
  <2>8. ASSUME NEW b \in Builders,
               Fork(b) \/ Scan(b) \/ LedgerFull(b) \/ Reserve(b) \/ Release(b)
        PROVE  Confirmer(c, i, j)'
    <3>1. b # c
      BY <2>2, <2>8 DEF Fork, Scan, LedgerFull, Reserve, Release, Confirmer
    <3>2. pc'[c] = pc[c] /\ todo'[c] = todo[c]
      BY <1>0, <2>8, <3>1 DEF Fork, Scan, LedgerFull, Reserve, Release, TypeOK
    <3>3. QED
      BY <2>7, <3>1, <3>2
  <2>9. ASSUME Interrupt \/ UNCHANGED vars \/ \E b \in Builders : Killed(b)
        PROVE  Confirmer(c, i, j)'
    BY <2>4, <2>9 DEF vars, Interrupt, Killed
  <2>10. Confirmer(c, i, j)'
    BY <2>5, <2>6, <2>8, <2>9 DEF Next, Builder
  <2>11. QED
    BY <2>10
<1>5. QED
  BY <1>3, <1>4

\* The inductive invariant holds throughout.
THEOREM InductiveInvariant == Spec => []IInv
<1>1. IInv /\ [Next]_vars => IInv'
  BY TypeStep, PassedOccupiedStep, ScanEndStep, SlotHasWriterStep,
     CopiedNotEmptyStep, PendingHasConfirmerStep DEF IInv
<1>2. QED
  BY InitInv, <1>1, PTL DEF Spec

-------------------------------------------------------------------------------

\* Types are respected.
THEOREM TypeCorrect == Spec => []TypeOK
BY InductiveInvariant, PTL DEF IInv

\* The occupied indexes are a prefix of the ledger: the builder that filled
\* index k had passed every index below it.
THEOREM PrefixOccupied == Spec => []NoHoles
<1>1. ASSUME IInv, NEW i \in Index, NEW k \in Index, i < k, ledger[k][1] # Empty
      PROVE  ledger[i][1] # Empty
  <2>1. ledger[k][1] \in Builders /\ at[ledger[k][1]] = k
    BY <1>1, TestedSlots DEF IInv, TypeOK, SlotHasWriter
  <2>2. QED
    BY <1>1, <2>1 DEF IInv, PassedOccupied, Occupied
<1>2. IInv => NoHoles
  BY <1>1 DEF NoHoles, Occupied
<1>3. QED
  BY InductiveInvariant, <1>2, PTL

\* A block is hidden from get_balance only by a builder still copying below it.
THEOREM HiddenOnlyWhileCopying == Spec => []GapOnlyWhileCopying
<1>1. ASSUME IInv, NEW i \in Index, NEW k \in Index, i < k,
             ledger[k][0] # Empty, ledger[i][0] = Empty
      PROVE  \E b \in Builders : at[b] = i /\ pc[b] = "copy"
  <2>1. ledger[k][0] \in Builders /\ at[ledger[k][0]] = k
    BY <1>1, TestedSlots DEF IInv, TypeOK, SlotHasWriter
  <2>2. ledger[i][1] # Empty
    BY <1>1, <2>1 DEF IInv, PassedOccupied, Occupied
  <2>3. PICK c \in Builders : at[c] = i /\ Copied(c, 1)
    BY <1>1, <2>2, TestedSlots DEF IInv, TypeOK, SlotHasWriter
  <2>4. ~Copied(c, 0)
    BY <1>1, <2>3, TestedSlots DEF IInv, CopiedNotEmpty
  <2>5. pc[c] = "copy"
    BY <2>3, <2>4 DEF Copied
  <2>6. QED
    BY <2>3, <2>5
<1>2. IInv => GapOnlyWhileCopying
  BY <1>1 DEF GapOnlyWhileCopying, Visible
<1>3. QED
  BY InductiveInvariant, <1>2, PTL

\* A finished block is damaged only by a builder that chose the same index.
THEOREM DamageNeedsCollision == Spec => []LostOnlyByCollision
<1>1. ASSUME IInv, NEW b \in Builders, pc[b] = "done", NEW j \in Slot, ledger[at[b]][j] # b
      PROVE  \E c \in Builders \ {b} : Chosen(c) /\ at[c] = at[b]
  <2>1. at[b] \in Index /\ ledger[at[b]][j] # Empty
    BY <1>1 DEF IInv, ScanEnd, Chosen, CopiedNotEmpty, Copied
  <2>2. PICK c \in Builders : ledger[at[b]][j] = c /\ at[c] = at[b] /\ Copied(c, j)
    BY <1>1, <2>1 DEF IInv, TypeOK, SlotHasWriter
  <2>3. Chosen(c)
    BY <2>2 DEF Copied, Chosen
  <2>4. QED
    BY <1>1, <2>2, <2>3
<1>2. IInv => LostOnlyByCollision
  BY <1>1 DEF LostOnlyByCollision
<1>3. QED
  BY InductiveInvariant, <1>2, PTL

\* When every builder has come to its end, every slot written is confirmed.
THEOREM AllConfirmed == Spec => []ConfirmedAtRest
<1>1. ASSUME IInv, AtRest, NEW i \in Index, NEW j \in Slot, ledger[i][j] # Empty
      PROVE  status[i][j] = "confirmed"
  <2>1. SUFFICES ASSUME status[i][j] # "confirmed" PROVE FALSE
    OBVIOUS
  <2>2. status[i][j] = "pending"
    BY <1>1, <2>1 DEF IInv, TypeOK
  <2>3. PICK b \in Builders : pc[b] \in {"copy", "confirm"}
    BY <1>1, <2>2 DEF IInv, PendingHasConfirmer, Confirmer
  <2>4. Running(b)
    BY <1>1, <2>3 DEF AtRest, Running, Working
  <2>5. QED
    BY <1>1, <2>4 DEF AtRest
<1>2. IInv => ConfirmedAtRest
  BY <1>1 DEF ConfirmedAtRest
<1>3. QED
  BY InductiveInvariant, <1>2, PTL

\* The simulation ends for a full ledger only when the ledger is full.
THEOREM FullIsFull == Spec => []FullOnlyWhenFull
<1>1. ASSUME IInv, NEW b \in Builders, pc[b] = "full", NEW i \in Index PROVE Occupied(i)
  <2>1. i < at[b]
    BY <1>1 DEF IInv, ScanEnd, Index
  <2>2. QED
    BY <1>1, <2>1 DEF IInv, PassedOccupied
<1>2. IInv => FullOnlyWhenFull
  BY <1>1 DEF FullOnlyWhenFull
<1>3. QED
  BY InductiveInvariant, <1>2, PTL

-------------------------------------------------------------------------------
(* The log. *)

\* Builders that have chosen the same index stay so.
LEMMA CollisionStays == IInv /\ [Next]_vars /\ Collision => Collision'
<1> SUFFICES ASSUME IInv, [Next]_vars, Collision PROVE Collision'
  OBVIOUS
<1>1. PICK b \in Builders, c \in Builders : b # c /\ Chosen(b) /\ Chosen(c) /\ at[b] = at[c]
  BY DEF Collision
<1>2. Chosen(b)' /\ at'[b] = at[b] /\ Chosen(c)' /\ at'[c] = at[c]
  BY <1>1, ChoiceKept
<1>3. QED
  BY <1>1, <1>2 DEF Collision

\* The occupied prefix of the ledger, and the log it is read as.
LEMMA LogRead ==
    ASSUME IInv
    PROVE  \E n \in 0 .. SO_REGISTRY_SIZE :
              /\ {i \in Index : Occupied(i)} = 0 .. n - 1
              /\ LogOf = [p \in 1 .. n |-> ledger[p - 1][1]]
<1> DEFINE O == {i \in Index : Occupied(i)}
           F == {k \in 0 .. SO_REGISTRY_SIZE : k \notin O}
<1>1. ASSUME NEW i \in Index, NEW k \in O, i < k PROVE i \in O
  <2>1. ledger[k][1] \in Builders /\ at[ledger[k][1]] = k
    BY TestedSlots DEF IInv, TypeOK, SlotHasWriter, Occupied
  <2>2. QED
    BY <1>1, <2>1 DEF IInv, PassedOccupied
<1>2. SO_REGISTRY_SIZE \in F /\ F \subseteq Nat
  BY DEF Index
<1>3. PICK n \in F : \A k \in F : n <= k
  <2> HIDE DEF F
  <2>1. QED
    BY <1>2, MinOfNaturals
<1>4. n \in 0 .. SO_REGISTRY_SIZE /\ n \in Nat /\ n \notin O
  OBVIOUS
<1>5. O = 0 .. n - 1
  <2>1. ASSUME NEW k \in O PROVE k \in 0 .. n - 1
    <3>1. k \in Index /\ k \in Nat
      BY DEF Index
    <3>2. n < k => n \in Index
      BY <1>4, <3>1 DEF Index
    <3>3. ~(n < k) /\ n # k
      BY <1>1, <1>4, <3>2
    <3> HIDE DEF O
    <3>4. QED
      BY <1>4, <3>1, <3>3
  <2>2. ASSUME NEW k \in 0 .. n - 1 PROVE k \in O
    <3>1. k \in 0 .. SO_REGISTRY_SIZE /\ ~(n <= k)
      BY <1>4
    <3>2. QED
      BY <1>3, <3>1
  <2>3. QED
    BY <2>1, <2>2
<1>6. Cardinality(O) = n
  <2> HIDE DEF O
  <2>1. 0 \in Int /\ n - 1 \in Int
    BY <1>4
  <2>2. Cardinality(0 .. n - 1) = IF 0 > n - 1 THEN 0 ELSE (n - 1) - 0 + 1
    BY <2>1, FS_Interval
  <2>3. QED
    BY <1>4, <1>5, <2>2
<1>7. LogOf = [p \in 1 .. n |-> ledger[p - 1][1]]
  BY <1>6 DEF LogOf
<1>8. QED
  BY <1>4, <1>5, <1>7

\* The same after a step.
LEMMA LogReadNext ==
    ASSUME IInv'
    PROVE  \E n \in 0 .. SO_REGISTRY_SIZE :
              /\ {i \in Index : Occupied(i)'} = 0 .. n - 1
              /\ LogOf' = [p \in 1 .. n |-> ledger'[p - 1][1]]
<1>1. (IInv => \E n \in 0 .. SO_REGISTRY_SIZE :
                  /\ {i \in Index : Occupied(i)} = 0 .. n - 1
                  /\ LogOf = [p \in 1 .. n |-> ledger[p - 1][1]])'
  BY LogRead, PTL
<1>2. QED
  BY <1>1 DEF Index

\* A copy into slot 1 appends the builder's block to the log, if the builder is
\* the only one to have chosen its index: that is still blank then, and all
\* before it are occupied.
LEMMA CopyAppends ==
    ASSUME IInv, IInv', ~Collision, NEW b \in Builders, Copy(b, 1)
    PROVE  Log!AppendBlock(b)
<1>0. TypeOK
  BY DEF IInv
<1>1. at[b] \in Index /\ Chosen(b) /\ 1 \in todo[b] /\ pc[b] = "copy"
  BY DEF Copy, Chosen, IInv, ScanEnd
<1>2. ~Copied(b, 1)
  BY <1>1 DEF Copied
<1>3. ledger[at[b]][1] = Empty
  <2> SUFFICES ASSUME ledger[at[b]][1] # Empty PROVE FALSE
    OBVIOUS
  <2> DEFINE w == ledger[at[b]][1]
  <2>1. w \in Builders /\ at[w] = at[b] /\ Copied(w, 1)
    BY <1>0, <1>1, TestedSlots DEF IInv, TypeOK, SlotHasWriter
  <2>2. Chosen(w) /\ w # b
    BY <1>2, <2>1 DEF Copied, Chosen
  <2>3. QED
    BY <1>1, <2>1, <2>2 DEF Collision
<1>4. PICK n \in 0 .. SO_REGISTRY_SIZE :
         /\ {i \in Index : Occupied(i)} = 0 .. n - 1
         /\ LogOf = [p \in 1 .. n |-> ledger[p - 1][1]]
  BY LogRead
<1>5. PICK m \in 0 .. SO_REGISTRY_SIZE :
         /\ {i \in Index : Occupied(i)'} = 0 .. m - 1
         /\ LogOf' = [p \in 1 .. m |-> ledger'[p - 1][1]]
  BY LogReadNext
<1>6. /\ ledger'[at[b]][1] = b
      /\ \A i \in Index : i # at[b] => ledger'[i][1] = ledger[i][1]
  BY TestedSlots, CopySlots, <1>0
<1>7. /\ at[b] \notin 0 .. n - 1
      /\ \A i \in Index : i < at[b] => i \in 0 .. n - 1
  <2>1. at[b] \notin 0 .. n - 1
    BY <1>3, <1>4 DEF Occupied
  <2>2. \A i \in Index : i < at[b] => Occupied(i)
    BY <1>0 DEF IInv, PassedOccupied
  <2>3. QED
    BY <1>4, <2>1, <2>2
<1>8. at[b] = n /\ n \in Nat /\ n < SO_REGISTRY_SIZE
  BY <1>1, <1>7 DEF Index
<1>9. m = n + 1
  <2>1. \A i \in Index : i \in 0 .. m - 1 <=> i \in 0 .. n
    <3>1. \A i \in Index : i \in 0 .. m - 1 <=> ledger'[i][1] # Empty
      BY <1>5 DEF Occupied
    <3>2. \A i \in Index : i \in 0 .. n - 1 <=> ledger[i][1] # Empty
      BY <1>4 DEF Occupied
    <3>3. \A i \in Index : i \in 0 .. n <=> i = n \/ i \in 0 .. n - 1
      BY <1>8 DEF Index
    <3>4. QED
      BY <1>6, <1>8, <3>1, <3>2, <3>3
  <2>2. n \in Index /\ (n + 1 < SO_REGISTRY_SIZE => n + 1 \in Index)
    BY <1>8 DEF Index
  <2>3. m \in Nat /\ m <= SO_REGISTRY_SIZE
    OBVIOUS
  <2>4. n \in 0 .. m - 1
    BY <1>8, <2>1, <2>2
  <2>5. ~(n + 1 \in 0 .. m - 1)
    BY <1>8, <2>1, <2>2, <2>3
  <2>6. QED
    BY <1>8, <2>3, <2>4, <2>5
<1>10. \A p \in 1 .. n : p - 1 \in Index /\ p - 1 # n
  BY <1>8 DEF Index
<1>11. LogOf \in Seq(Builders) /\ Len(LogOf) = n /\ DOMAIN LogOf = 1 .. n
  <2>1. \A p \in 1 .. n : ledger[p - 1][1] \in Builders
    <3>1. ASSUME NEW p \in 1 .. n PROVE ledger[p - 1][1] \in Builders
      <4>1. p - 1 \in 0 .. n - 1
        BY <1>8
      <4>2. p - 1 \in Index /\ ledger[p - 1][1] # Empty
        BY <1>4, <4>1 DEF Occupied
      <4>3. QED
        BY <1>0, <4>2, TestedSlots DEF TypeOK
    <3>2. QED
      BY <3>1
  <2>2. QED
    BY <1>4, <1>8, <2>1
<1>12. LogOf' = Append(LogOf, b)
  <2>1. \A p \in 1 .. n : ledger'[p - 1][1] = ledger[p - 1][1]
    BY <1>6, <1>8, <1>10
  <2>2. LogOf' = [p \in 1 .. n + 1 |-> IF p = n + 1 THEN b ELSE ledger[p - 1][1]]
    <3>1. \A p \in 1 .. n + 1 : p = n + 1 \/ p \in 1 .. n
      BY <1>8
    <3>2. ledger'[(n + 1) - 1][1] = b
      BY <1>6, <1>8
    <3>3. \A p \in 1 .. n + 1 : ledger'[p - 1][1] = IF p = n + 1 THEN b ELSE ledger[p - 1][1]
      BY <1>8, <2>1, <3>1, <3>2
    <3>4. QED
      BY <1>5, <1>9, <3>3
  <2>3. /\ LogOf' \in Seq(Builders) /\ Len(LogOf') = n + 1
        /\ \A p \in 1 .. n + 1 : LogOf'[p] = IF p = n + 1 THEN b ELSE LogOf[p]
    <3>1. \A p \in 1 .. n + 1 : p # n + 1 => p \in 1 .. n
      BY <1>8
    <3>2. \A p \in 1 .. n : ledger[p - 1][1] \in Builders /\ LogOf[p] = ledger[p - 1][1]
      BY <1>4, <1>8, <1>11
    <3>3. \A p \in 1 .. n + 1 : (IF p = n + 1 THEN b ELSE ledger[p - 1][1]) \in Builders
      BY <3>1, <3>2
    <3>4. n + 1 \in Nat
      BY <1>8
    <3>5. LogOf' \in Seq(Builders) /\ Len(LogOf') = n + 1
      BY <2>2, <3>3, <3>4
    <3>6. \A p \in 1 .. n + 1 : LogOf'[p] = IF p = n + 1 THEN b ELSE LogOf[p]
      BY <2>2, <3>1, <3>2
    <3>7. QED
      BY <3>5, <3>6
  <2>4. /\ Append(LogOf, b) \in Seq(Builders) /\ Len(Append(LogOf, b)) = n + 1
        /\ \A p \in 1 .. n + 1 : Append(LogOf, b)[p] = IF p = n + 1 THEN b ELSE LogOf[p]
    BY <1>11, AppendProperties
  <2>5. QED
    BY <2>3, <2>4, SeqEqual
<1>13. \A p \in 1 .. n : LogOf[p] # b
  <2> SUFFICES ASSUME NEW p \in 1 .. n, LogOf[p] = b PROVE FALSE
    OBVIOUS
  <2>1. ledger[p - 1][1] = b /\ p - 1 \in Index
    BY <1>4, <1>10
  <2>2. Copied(b, 1)
    BY <1>0, <2>1, TestedSlots DEF IInv, SlotHasWriter
  <2>3. QED
    BY <1>2, <2>2
<1>14. QED
  BY <1>8, <1>11, <1>12, <1>13 DEF Log!AppendBlock

\* Every step appends a block to the log, or leaves it alone.
LEMMA LogStep ==
    IInv /\ IInv' /\ [Next]_vars /\ ~Collision => [Log!Next]_LogOf
<1> SUFFICES ASSUME IInv, IInv', [Next]_vars, ~Collision PROVE Log!Next \/ LogOf' = LogOf
  OBVIOUS
<1>1. CASE \E b \in Builders : Copy(b, 1)
  BY <1>1, CopyAppends DEF Log!Next
<1>2. CASE ~ \E b \in Builders : Copy(b, 1)
  <2>1. \A i \in Index : ledger'[i][1] = ledger[i][1]
    <3>1. CASE UNCHANGED ledger
      BY <3>1
    <3>2. ASSUME NEW b \in Builders, NEW j \in Slot, Copy(b, j)
          PROVE  \A i \in Index : ledger'[i][1] = ledger[i][1]
      <4>1. j # 1
        BY <1>2, <3>2
      <4>2. QED
        BY <3>2, <4>1, CopySlots, TestedSlots
    <3>3. QED
      BY <3>1, <3>2, OnlyCopyWrites
  <2>2. PICK n \in 0 .. SO_REGISTRY_SIZE :
           /\ {i \in Index : Occupied(i)} = 0 .. n - 1
           /\ LogOf = [p \in 1 .. n |-> ledger[p - 1][1]]
    BY LogRead
  <2>3. PICK m \in 0 .. SO_REGISTRY_SIZE :
           /\ {i \in Index : Occupied(i)'} = 0 .. m - 1
           /\ LogOf' = [p \in 1 .. m |-> ledger'[p - 1][1]]
    BY LogReadNext
  <2>4. 0 .. n - 1 = 0 .. m - 1
    BY <2>1, <2>2, <2>3 DEF Occupied
  <2>5. n = m
    BY <2>4
  <2>6. \A p \in 1 .. n : p - 1 \in Index
    BY DEF Index
  <2>7. QED
    BY <2>1, <2>2, <2>3, <2>5, <2>6
<1>3. QED
  BY <1>1, <1>2

\* With any number of builders at work, the ledger is an append-only log until
\* two of them have chosen the same index.
THEOREM AppendsToTheLog == Spec => AppendsUntilCollision
<1>1. IInv /\ IInv' /\ [Next]_vars => [~Collision' => [Log!Next]_LogOf]_vars
  BY CollisionStays, LogStep
<1>2. QED
  BY InductiveInvariant, <1>1, PTL DEF Spec, AppendsUntilCollision

-------------------------------------------------------------------------------
(* Journeys of transactions. *)

\* Builder b has been forked with a batch that has t behind slot j.
Carrier(t, b, j) == pc[b] # "none" /\ carries[b][j] = t

\* Types of what Journey adds.
JourneyTypes ==
    /\ pending \subseteq Tx /\ discarded \subseteq Tx
    /\ carries \in [Builders -> {<<>>} \cup [Carried -> Tx]]
    /\ \A b \in Builders : pc[b] # "none" => carries[b] \in [Carried -> Tx]

\* A transaction is pending, given up or with the builders, and with one
\* builder, behind one slot.
CarriedOnce ==
    /\ pending \cap discarded = {}
    /\ \A b \in Builders, j \in Carried, t \in Tx :
          Carrier(t, b, j) =>
              /\ t \notin pending /\ t \notin discarded
              /\ t \in UNION blocks
              /\ \A c \in Builders, k \in Carried : Carrier(t, c, k) => c = b /\ k = j
    /\ \A t \in UNION blocks : t \notin pending /\ t \notin discarded

JourneyInv == IInv /\ JourneyTypes /\ CarriedOnce

\* get_balance gets as far as the slot j of builder b.
Found(b, j) == at[b] \in Index /\ ledger[at[b]][j] = b /\ Reached(at[b])

\* Another builder has written over that slot.
Overwritten(b, j) == Copied(b, j) /\ ledger[at[b]][j] # b

\* What that makes of the transaction it carries there.
SlotFate(b, j) ==
    IF Found(b, j) THEN "confirmed" ELSE IF Overwritten(b, j) THEN "lost" ELSE "pending"

\* What users and nodes do leaves the builders alone, and the other way round.
LEMMA JourneySteps == [JourneyNext]_journey => [Next]_vars /\ [Sent!Next]_Sent!vars
<1> USE DEF Sent!vars
<1> SUFFICES ASSUME JourneyNext \/ UNCHANGED journey
             PROVE  (Next \/ UNCHANGED vars) /\ (Sent!Next \/ UNCHANGED Sent!vars)
  OBVIOUS
<1>1. CASE UNCHANGED journey
  BY <1>1 DEF journey
<1>2. CASE Travel
  BY <1>2 DEF Travel, Sent!Next
<1>3. CASE Write
  BY <1>3 DEF Write, Next
<1>4. ASSUME NEW b \in Builders, ForkWithBatch(b)
      PROVE  Next /\ Sent!Next
  <2>1. Next
    BY <1>4 DEF ForkWithBatch, Next
  <2>2. PICK batch \in [Carried -> pending] : TakeFromPool({batch[j] : j \in Carried})
    BY <1>4 DEF ForkWithBatch
  <2>3. {batch[j] : j \in Carried} \in SUBSET pending
    OBVIOUS
  <2>4. QED
    BY <2>1, <2>2, <2>3 DEF TakeFromPool, Sent!Next
<1>5. QED
  BY <1>1, <1>2, <1>3, <1>4 DEF JourneyNext

\* Nodes and builders together are the nodes that TxFate describes, and the
\* builders that Ledger does.
THEOREM JourneyIsBoth == JourneySpec => Spec /\ Sent!Spec
<1>1. JourneyInit => Init /\ Sent!Init
  BY DEF JourneyInit
<1>2. QED
  BY <1>1, JourneySteps, PTL DEF JourneySpec, Spec, Sent!Spec

\* At first nothing is carried.
LEMMA JourneyInitially == JourneyInit => JourneyInv
<1> SUFFICES ASSUME JourneyInit PROVE JourneyInv
  OBVIOUS
<1>1. IInv
  BY InitInv DEF JourneyInit
<1>2. /\ pending = {} /\ discarded = {} /\ blocks = {}
      /\ carries = [b \in Builders |-> <<>>]
      /\ \A b \in Builders : pc[b] = "none"
  BY DEF JourneyInit, Sent!Init, Init
<1>3. JourneyTypes
  BY <1>2 DEF JourneyTypes
<1>4. CarriedOnce
  BY <1>2 DEF CarriedOnce, Carrier
<1>5. QED
  BY <1>1, <1>3, <1>4 DEF JourneyInv

\* Only a fork takes a builder from where it is not yet.
LEMMA OnlyForkForks ==
    ASSUME IInv, [Next]_vars, NEW c \in Builders
    PROVE  /\ pc[c] # "none" => pc'[c] # "none"
           /\ pc[c] = "none" /\ pc'[c] # "none" => Fork(c)
<1>0. TypeOK
  BY DEF IInv
<1>1. ASSUME NEW b \in Builders, Fork(b)
      PROVE  /\ pc[c] # "none" => pc'[c] # "none"
             /\ pc[c] = "none" /\ pc'[c] # "none" => b = c
  BY <1>0, <1>1 DEF Fork, TypeOK
<1>2. ASSUME NEW b \in Builders, Builder(b)
      PROVE  /\ pc[c] # "none" => pc'[c] # "none"
             /\ pc[c] = "none" => pc'[c] = "none"
  <2>1. Running(b) /\ pc[b] # "none"
    BY <1>2 DEF Builder, Scan, LedgerFull, Reserve, Copy, Confirm, Release, Running, Working
  <2>2. pc' = pc \/ \E l \in {"reserve", "full", "copy", "confirm", "release", "done"} :
                       pc' = [pc EXCEPT ![b] = l]
    BY <1>2 DEF Builder, Scan, LedgerFull, Reserve, Copy, Confirm, Release
  <2>3. QED
    BY <1>0, <2>1, <2>2 DEF TypeOK
<1>3. CASE Interrupt \/ UNCHANGED vars \/ \E b \in Builders : Killed(b)
  BY <1>3 DEF Interrupt, vars, Killed
<1>4. QED
  BY <1>1, <1>2, <1>3 DEF Next

\* What the journey steps do to what Journey adds to the ledger.
LEMMA JourneyEffects ==
    ASSUME JourneyInv, [JourneyNext]_journey
    PROVE  \/ /\ UNCHANGED carries
              /\ \A b \in Builders : pc[b] = "none" <=> pc'[b] = "none"
              /\ blocks' = blocks
              /\ \/ UNCHANGED <<pending, discarded>>
                 \/ \E t \in Tx : /\ t \notin pending \cup (UNION blocks) \cup discarded
                                  /\ pending' = pending \cup {t} /\ discarded' = discarded
                 \/ \E lost \in SUBSET pending :
                       pending' = pending \ lost /\ discarded' = discarded \cup lost
           \/ \E b \in Builders : ForkWithBatch(b)
<1>1. CASE UNCHANGED journey
  BY <1>1 DEF journey, vars
<1>2. CASE Travel
  <2>1. UNCHANGED <<carries, pc>>
    BY <1>2 DEF Travel, vars
  <2>2. CASE \E t \in Tx : Sent!Send(t)
    BY <2>1, <2>2 DEF Sent!Send
  <2>3. CASE \E lost \in SUBSET pending : Sent!Discard(lost)
    BY <2>1, <2>3 DEF Sent!Discard
  <2>4. QED
    BY <1>2, <2>2, <2>3 DEF Travel
<1>3. CASE Write
  <2>1. UNCHANGED <<pending, blocks, discarded, carries>>
    BY <1>3 DEF Write
  <2>2. ASSUME NEW b \in Builders PROVE pc[b] = "none" <=> pc'[b] = "none"
    <3>1. IInv /\ [Next]_vars
      BY <1>3 DEF Write, Next, JourneyInv
    <3>2. ASSUME Fork(b) PROVE FALSE
      <4>0. TypeOK
        BY <3>1 DEF IInv
      <4>1. pc[b] = "none" /\ pc' = [pc EXCEPT ![b] = "scan"]
        BY <3>2 DEF Fork
      <4>2. CASE Interrupt \/ \E c \in Builders : Killed(c)
        BY <4>0, <4>1, <4>2 DEF Interrupt, Killed, TypeOK
      <4>3. ASSUME NEW c \in Builders, Builder(c) PROVE FALSE
        <5>1. Running(c) /\ pc[c] # "none"
          BY <4>3 DEF Builder, Scan, LedgerFull, Reserve, Copy, Confirm, Release, Running, Working
        <5>2. pc' = pc \/ \E l : pc' = [pc EXCEPT ![c] = l]
          BY <4>3 DEF Builder, Scan, LedgerFull, Reserve, Copy, Confirm, Release
        <5>3. QED
          BY <4>0, <4>1, <5>1, <5>2 DEF TypeOK
      <4>4. QED
        BY <1>3, <4>2, <4>3 DEF Write
    <3>3. QED
      BY <3>1, <3>2, OnlyForkForks
  <2>3. QED
    BY <2>1, <2>2
<1>4. QED
  BY <1>1, <1>2, <1>3 DEF JourneyNext

\* What a fork with a batch does: the builder alone gets something to carry, and
\* each transaction it carries was pending.
LEMMA ForkEffects ==
    ASSUME JourneyInv, NEW b \in Builders, ForkWithBatch(b)
    PROVE  /\ pc[b] = "none" /\ pc'[b] = "scan"
           /\ \A c \in Builders \ {b} : pc'[c] = pc[c] /\ carries'[c] = carries[c]
           /\ carries' \in [Builders -> {<<>>} \cup [Carried -> Tx]]
           /\ carries'[b] \in [Carried -> pending]
           /\ \A j, k \in Carried : carries'[b][j] = carries'[b][k] => j = k
           /\ blocks' = blocks \cup {{carries'[b][j] : j \in Carried}}
           /\ pending' = pending \ {carries'[b][j] : j \in Carried}
           /\ UNCHANGED <<ledger, at, todo, discarded>>
<1>1. TypeOK /\ JourneyTypes
  BY DEF JourneyInv, IInv
<1>2. /\ pc[b] = "none" /\ pc' = [pc EXCEPT ![b] = "scan"] /\ UNCHANGED <<ledger, at, todo>>
  BY DEF ForkWithBatch, Fork
<1>3. PICK batch \in [Carried -> pending] :
         /\ \A j, k \in Carried : batch[j] = batch[k] => j = k
         /\ TakeFromPool({batch[j] : j \in Carried})
         /\ carries' = [carries EXCEPT ![b] = batch]
  BY DEF ForkWithBatch
<1>4. carries'[b] = batch /\ \A c \in Builders \ {b} : carries'[c] = carries[c]
  BY <1>1, <1>3 DEF JourneyTypes
<1>5. batch \in [Carried -> Tx]
  BY <1>1, <1>3 DEF JourneyTypes
<1>6. carries' \in [Builders -> {<<>>} \cup [Carried -> Tx]]
  BY <1>1, <1>3, <1>5 DEF JourneyTypes
<1>7. /\ blocks' = blocks \cup {{batch[j] : j \in Carried}}
      /\ pending' = pending \ {batch[j] : j \in Carried}
      /\ UNCHANGED discarded
  BY <1>3 DEF TakeFromPool, Sent!Build
<1>8. pc'[b] = "scan" /\ \A c \in Builders \ {b} : pc'[c] = pc[c]
  BY <1>1, <1>2 DEF TypeOK
<1>9. QED
  BY <1>2, <1>3, <1>4, <1>6, <1>7, <1>8

\* Types are respected on the journey, too.
LEMMA JourneyTypesStep == JourneyInv /\ [JourneyNext]_journey => JourneyTypes'
<1> SUFFICES ASSUME JourneyInv, [JourneyNext]_journey PROVE JourneyTypes'
  OBVIOUS
<1>1. JourneyTypes
  BY DEF JourneyInv
<1>2. ASSUME NEW b \in Builders, ForkWithBatch(b) PROVE JourneyTypes'
  <2>1. pending' \subseteq Tx /\ discarded' \subseteq Tx
    BY <1>1, <1>2, ForkEffects DEF JourneyTypes
  <2>2. ASSUME NEW c \in Builders, pc'[c] # "none"
        PROVE  carries'[c] \in [Carried -> Tx]
    <3>1. CASE c = b
      <4>1. carries'[b] \in [Carried -> pending] /\ pending \subseteq Tx
        BY <1>1, <1>2, ForkEffects DEF JourneyTypes
      <4>2. QED
        BY <3>1, <4>1
    <3>2. CASE c # b
      BY <1>1, <1>2, <2>2, <3>2, ForkEffects DEF JourneyTypes
    <3>3. QED
      BY <3>1, <3>2
  <2>3. carries' \in [Builders -> {<<>>} \cup [Carried -> Tx]]
    BY <1>2, ForkEffects
  <2>4. QED
    BY <2>1, <2>2, <2>3 DEF JourneyTypes, Carried, Slot
<1>3. CASE ~\E b \in Builders : ForkWithBatch(b)
  <2>1. UNCHANGED carries /\ \A b \in Builders : pc[b] = "none" <=> pc'[b] = "none"
    BY <1>3, JourneyEffects
  <2>2. pending' \subseteq Tx /\ discarded' \subseteq Tx
    BY <1>1, <1>3, JourneyEffects DEF JourneyTypes
  <2>3. QED
    BY <1>1, <2>1, <2>2 DEF JourneyTypes, Carried, Slot
<1>4. QED
  BY <1>2, <1>3

\* A batch is taken from what is pending, so nothing is carried twice.
LEMMA CarriedOnceStep == JourneyInv /\ [JourneyNext]_journey => CarriedOnce'
<1> SUFFICES ASSUME JourneyInv, [JourneyNext]_journey PROVE CarriedOnce'
  OBVIOUS
<1> USE DEF Carrier
<1>1. CarriedOnce /\ JourneyTypes
  BY DEF JourneyInv
<1>2. ASSUME NEW b \in Builders, ForkWithBatch(b) PROVE CarriedOnce'
  <2> DEFINE batch == {carries'[b][j] : j \in Carried}
  <2>0. /\ carries'[b] \in [Carried -> pending]
        /\ \A j, k \in Carried : carries'[b][j] = carries'[b][k] => j = k
        /\ blocks' = blocks \cup {batch} /\ pending' = pending \ batch
        /\ UNCHANGED discarded
        /\ pc[b] = "none" /\ pc'[b] # "none"
    BY <1>2, ForkEffects
  <2>1. \A c \in Builders \ {b}, k \in Carried, t \in Tx :
           Carrier(t, c, k)' <=> Carrier(t, c, k)
    BY <1>2, ForkEffects
  <2>2. \A t \in batch : t \in pending /\ t \notin discarded /\ t \in UNION blocks'
    <3>1. batch \subseteq pending
      BY <2>0
    <3>2. batch \subseteq UNION blocks'
      BY <2>0
    <3>3. QED
      BY <1>1, <3>1, <3>2 DEF CarriedOnce
  <2>3. \A j \in Carried, t \in Tx : Carrier(t, b, j)' => t \in batch
    OBVIOUS
  <2>4. UNION blocks' = (UNION blocks) \cup batch
    BY <2>0
  <2>5. pending' \cap discarded' = {}
    BY <1>1, <2>0 DEF CarriedOnce
  <2>6. \A t \in UNION blocks' : t \notin pending' /\ t \notin discarded'
    BY <1>1, <2>0, <2>2, <2>4 DEF CarriedOnce
  <2>7. ASSUME NEW c \in Builders, NEW j \in Carried, NEW t \in Tx, Carrier(t, c, j)',
               NEW d \in Builders, NEW k \in Carried, Carrier(t, d, k)'
        PROVE  d = c /\ k = j /\ t \in UNION blocks'
    <3>1. CASE c = b /\ d = b
      BY <2>0, <2>2, <2>3, <2>7, <3>1
    <3>2. CASE c # b /\ d # b
      <4>1. Carrier(t, c, j) /\ Carrier(t, d, k)
        BY <2>1, <2>7, <3>2
      <4>2. d = c /\ k = j /\ t \in UNION blocks
        BY <1>1, <4>1 DEF CarriedOnce
      <4>3. QED
        BY <2>4, <4>2
    <3>3. CASE c = b /\ d # b
      <4>1. Carrier(t, d, k) /\ t \in batch
        BY <2>1, <2>3, <2>7, <3>3
      <4>2. QED
        BY <1>1, <2>2, <4>1 DEF CarriedOnce
    <3>4. CASE c # b /\ d = b
      <4>1. Carrier(t, c, j) /\ t \in batch
        BY <2>1, <2>3, <2>7, <3>4
      <4>2. QED
        BY <1>1, <2>2, <4>1 DEF CarriedOnce
    <3>5. QED
      BY <3>1, <3>2, <3>3, <3>4
  <2>8. QED
    <3> HIDE DEF batch
    <3>1. \A c \in Builders, j \in Carried, t \in Tx :
             Carrier(t, c, j)' => t \in UNION blocks'
      BY <2>7
    <3>2. \A c \in Builders, j \in Carried, t \in Tx :
             Carrier(t, c, j)' =>
                 /\ t \notin pending' /\ t \notin discarded'
                 /\ t \in UNION blocks'
                 /\ \A d \in Builders, k \in Carried : Carrier(t, d, k)' => d = c /\ k = j
      BY <2>6, <2>7, <3>1
    <3>3. QED
      BY <2>5, <2>6, <3>2 DEF CarriedOnce, Carried, Slot
<1>3. CASE ~\E b \in Builders : ForkWithBatch(b)
  <2>1. /\ UNCHANGED carries /\ blocks' = blocks
        /\ \A b \in Builders : pc[b] = "none" <=> pc'[b] = "none"
        /\ \/ UNCHANGED <<pending, discarded>>
           \/ \E t \in Tx : /\ t \notin pending \cup (UNION blocks) \cup discarded
                            /\ pending' = pending \cup {t} /\ discarded' = discarded
           \/ \E lost \in SUBSET pending :
                 pending' = pending \ lost /\ discarded' = discarded \cup lost
    BY <1>3, JourneyEffects
  <2>2. \A c \in Builders, k \in Carried, t \in Tx :
           Carrier(t, c, k)' <=> Carrier(t, c, k)
    BY <2>1
  <2>3. pending' \cap discarded' = {}
    BY <1>1, <2>1 DEF CarriedOnce
  <2>4. \A t \in UNION blocks' : t \notin pending' /\ t \notin discarded'
    BY <1>1, <2>1 DEF CarriedOnce
  <2>5. \A c \in Builders, j \in Carried, t \in Tx :
           Carrier(t, c, j)' =>
               /\ t \notin pending' /\ t \notin discarded'
               /\ t \in UNION blocks'
               /\ \A d \in Builders, k \in Carried : Carrier(t, d, k)' => d = c /\ k = j
    BY ONLY <1>1, <2>1, <2>2, <2>4 DEF CarriedOnce
  <2>6. QED
    BY ONLY <2>3, <2>4, <2>5 DEF CarriedOnce, Carried, Slot
<1>4. QED
  BY <1>2, <1>3

\* The invariant of the journeys, throughout.
THEOREM JourneyInvariant == JourneySpec => []JourneyInv
<1>1. JourneyInv /\ [JourneyNext]_journey => JourneyInv'
  <2> SUFFICES ASSUME JourneyInv, [JourneyNext]_journey PROVE JourneyInv'
    OBVIOUS
  <2>1. IInv' 
    BY JourneySteps, TypeStep, PassedOccupiedStep, ScanEndStep, SlotHasWriterStep,
       CopiedNotEmptyStep, PendingHasConfirmerStep DEF IInv, JourneyInv
  <2>2. QED
    BY <2>1, JourneyTypesStep, CarriedOnceStep DEF JourneyInv
<1>2. QED
  BY JourneyInitially, <1>1, PTL DEF JourneySpec

\* A transaction that a builder carries is at one place at most: where that
\* builder wrote it.
LEMMA CarriedPlaces ==
    ASSUME JourneyInv, NEW t \in Tx, NEW b \in Builders, NEW j \in Carried, Carrier(t, b, j)
    PROVE  Places(t) = IF Found(b, j) THEN {<<at[b], j>>} ELSE {}
<1>1. IInv /\ TypeOK /\ CarriedOnce
  BY DEF JourneyInv, IInv
<1>2. ASSUME NEW p \in Places(t) PROVE p = <<at[b], j>> /\ Found(b, j)
  <2> DEFINE w == ledger[p[1]][p[2]]
  <2>1. /\ p \in Index \X Carried /\ Reached(p[1])
        /\ w # Empty /\ carries[w][p[2]] = t
    BY <1>2 DEF Places
  <2>2. PICK k \in Index, l \in Carried : p = <<k, l>>
    BY <2>1
  <2>3. w \in Builders /\ at[w] = k /\ Copied(w, l)
    BY <1>1, <2>1, <2>2 DEF IInv, TypeOK, SlotHasWriter, Carried
  <2>4. Carrier(t, w, l)
    BY <2>1, <2>2, <2>3 DEF Carrier, Copied
  <2>5. w = b /\ l = j
    BY <1>1, <2>3, <2>4 DEF CarriedOnce
  <2>6. QED
    BY <2>1, <2>2, <2>3, <2>5 DEF Found
<1>3. ASSUME Found(b, j) PROVE <<at[b], j>> \in Places(t)
  BY <1>3, LedgerAssumption DEF Found, Places, Carrier
<1>4. QED
  BY <1>2, <1>3

\* One that no builder carries is nowhere.
LEMMA UncarriedPlaces ==
    ASSUME JourneyInv, NEW t \in Tx,
           \A b \in Builders, j \in Carried : ~Carrier(t, b, j)
    PROVE  Places(t) = {}
<1> SUFFICES ASSUME NEW p \in Places(t) PROVE FALSE
  OBVIOUS
<1> DEFINE w == ledger[p[1]][p[2]]
<1>1. /\ p \in Index \X Carried
      /\ w # Empty /\ carries[w][p[2]] = t
  BY DEF Places
<1>2. PICK k \in Index, l \in Carried : p = <<k, l>>
  BY <1>1
<1>3. w \in Builders /\ Copied(w, l)
  BY <1>1, <1>2 DEF JourneyInv, IInv, TypeOK, SlotHasWriter, Carried
<1>4. Carrier(t, w, l)
  BY <1>1, <1>2, <1>3 DEF Carrier, Copied
<1>5. QED
  BY <1>2, <1>3, <1>4

\* What becomes of a transaction that is carried, by its slot ...
LEMMA CarriedFate ==
    ASSUME JourneyInv, NEW t \in Tx, NEW b \in Builders, NEW j \in Carried, Carrier(t, b, j)
    PROVE  FateOf(t) = SlotFate(b, j)
<1> USE DEF SlotFate
<1>1. CASE Found(b, j)
  <2> DEFINE q == <<at[b], j>>
  <2>1. Places(t) = {q}
    BY <1>1, CarriedPlaces
  <2> HIDE DEF q
  <2>2. Places(t) # {} /\ \E p \in Places(t) : Places(t) = {p}
    BY <2>1
  <2>3. QED
    BY ONLY <1>1, <2>2 DEF FateOf
<1>2. CASE ~Found(b, j)
  <2>1. Places(t) = {}
    BY <1>2, CarriedPlaces
  <2>2. Lost(t) <=> Overwritten(b, j)
    <3>1. t \notin discarded
      BY DEF JourneyInv, CarriedOnce
    <3>2. ASSUME NEW c \in Builders, NEW k \in Carried, Copied(c, k), carries[c][k] = t
          PROVE  c = b /\ k = j
      <4>1. Carrier(t, c, k)
        BY <3>2 DEF Carrier, Copied
      <4>2. QED
        BY <4>1 DEF JourneyInv, CarriedOnce
    <3>3. QED
      BY <3>1, <3>2 DEF Lost, Overwritten, Carrier
  <2>3. QED
    BY <1>2, <2>1, <2>2 DEF FateOf
<1>3. QED
  BY <1>1, <1>2

\* ... and of one that is not.
LEMMA UncarriedFate ==
    ASSUME JourneyInv, NEW t \in Tx,
           \A b \in Builders, j \in Carried : ~Carrier(t, b, j)
    PROVE  FateOf(t) = IF t \in discarded THEN "lost" ELSE "pending"
<1>1. Places(t) = {}
  BY UncarriedPlaces
<1>2. ASSUME NEW c \in Builders, NEW k \in Carried, Copied(c, k) PROVE carries[c][k] # t
  BY <1>2 DEF Carrier, Copied
<1>3. Lost(t) <=> t \in discarded
  BY <1>2 DEF Lost
<1>4. QED
  BY <1>1, <1>3 DEF FateOf

\* Both, for every transaction.
FatesBySlot ==
    /\ \A t \in Tx, b \in Builders, j \in Carried :
          Carrier(t, b, j) => FateOf(t) = SlotFate(b, j)
    /\ \A t \in Tx :
          (\A b \in Builders, j \in Carried : ~Carrier(t, b, j))
              => FateOf(t) = IF t \in discarded THEN "lost" ELSE "pending"

\* They hold of a state, and of the state that follows.
LEMMA FatesRead == JourneyInv => FatesBySlot
BY CarriedFate, UncarriedFate DEF FatesBySlot

\* The latter.
LEMMA FatesReadNext == JourneyInv' => FatesBySlot'
BY FatesRead, PTL

\* What get_balance has passed, it passes for ever.
LEMMA ReachedKept ==
    ASSUME IInv, [Next]_vars, NEW i \in Index, Reached(i)
    PROVE  Reached(i)'
BY SlotsKept, TestedSlots DEF Reached, Visible

\* A slot that was found and is found no more has been written over ...
LEMMA FoundKept ==
    ASSUME IInv, [Next]_vars, NEW b \in Builders, NEW j \in Carried, Found(b, j)
    PROVE  Found(b, j)' \/ Overwritten(b, j)'
<1>1. at[b] \in Index /\ j \in Slot /\ ledger[at[b]][j] = b /\ Reached(at[b])
  BY DEF Found, Carried
<1>2. Copied(b, j) /\ Chosen(b)
  BY <1>1, LedgerAssumption DEF IInv, SlotHasWriter, Copied, Chosen
<1>3. at'[b] = at[b] /\ Copied(b, j)'
  BY <1>1, <1>2, ChoiceKept
<1>4. Reached(at[b])'
  <2>1. PICK i \in Index : i = at[b]
    BY <1>1
  <2>2. Reached(i)'
    BY <1>1, <2>1, ReachedKept
  <2>3. at'[b] = i
    BY <1>3, <2>1
  <2>4. QED
    BY <2>2, <2>3 DEF Reached
<1>5. QED
  BY <1>1, <1>3, <1>4 DEF Found, Overwritten

\* ... and it stays so: a builder writes each of its slots once.
LEMMA OverwrittenKept ==
    ASSUME IInv, [Next]_vars, NEW b \in Builders, NEW j \in Carried, Overwritten(b, j)
    PROVE  Overwritten(b, j)' /\ ~Found(b, j)'
<1>1. j \in Slot /\ Copied(b, j) /\ Chosen(b) /\ ledger[at[b]][j] # b
  BY DEF Overwritten, Copied, Chosen, Carried
<1>2. at'[b] = at[b] /\ Copied(b, j)' /\ at[b] \in Index
  BY <1>1, ChoiceKept DEF IInv, ScanEnd
<1>3. ledger'[at[b]][j] # b
  <2>1. CASE UNCHANGED ledger
    BY <1>1, <2>1
  <2>2. ASSUME NEW c \in Builders, NEW k \in Slot, Copy(c, k)
        PROVE  ledger'[at[b]][j] # b
    <3>1. CASE <<at[b], j>> # <<at[c], k>>
      BY <1>1, <1>2, <2>2, <3>1, CopySlots
    <3>2. CASE <<at[b], j>> = <<at[c], k>>
      <4>1. ~Copied(c, k)
        BY <2>2 DEF Copied, Copy
      <4>2. c # b
        BY <1>1, <3>2, <4>1
      <4>3. QED
        BY <2>2, <3>2, <4>2, CopySlots
    <3>3. QED
      BY <3>1, <3>2
  <2>3. QED
    BY <2>1, <2>2, OnlyCopyWrites
<1>4. QED
  BY <1>2, <1>3 DEF Overwritten, Found

\* A transaction never turns but as Fates says.
LEMMA FateStep ==
    ASSUME JourneyInv, [JourneyNext]_journey, JourneyInv', NEW t \in Tx
    PROVE  FateOf(t)' = FateOf(t) \/ <<FateOf(t), FateOf(t)'>> \in Fate!Turns
<1>1. FatesBySlot /\ FatesBySlot'
  BY FatesRead, FatesReadNext
<1>2. IInv /\ [Next]_vars /\ CarriedOnce
  BY JourneySteps DEF JourneyInv
<1>3. ASSUME NEW b \in Builders, NEW j \in Carried, Carrier(t, b, j), Carrier(t, b, j)'
      PROVE  FateOf(t)' = FateOf(t) \/ <<FateOf(t), FateOf(t)'>> \in Fate!Turns
  <2>1. FateOf(t) = SlotFate(b, j) /\ FateOf(t)' = SlotFate(b, j)'
    BY <1>1, <1>3 DEF FatesBySlot, Carried, Slot
  <2>2. SlotFate(b, j) = "confirmed" => SlotFate(b, j)' \in {"confirmed", "lost"}
    BY <1>2, FoundKept DEF SlotFate
  <2>3. SlotFate(b, j) = "lost" => SlotFate(b, j)' = "lost"
    BY <1>2, OverwrittenKept DEF SlotFate
  <2>4. /\ SlotFate(b, j) \in {"pending", "confirmed", "lost"}
        /\ SlotFate(b, j)' \in {"pending", "confirmed", "lost"}
    BY DEF SlotFate
  <2>5. QED
    BY <2>1, <2>2, <2>3, <2>4 DEF Fate!Turns
<1>4. ASSUME NEW b \in Builders, ForkWithBatch(b), NEW j \in Carried, carries'[b][j] = t
      PROVE  FateOf(t)' = FateOf(t)
  <2>1. /\ t \in pending /\ pc'[b] = "scan"
        /\ ledger' = ledger /\ at' = at
    BY <1>4, ForkEffects
  <2>2. FateOf(t) = "pending"
    <3>1. t \notin discarded /\ \A c \in Builders, k \in Carried : ~Carrier(t, c, k)
      BY <1>2, <2>1 DEF CarriedOnce
    <3>2. QED
      BY <1>1, <3>1 DEF FatesBySlot
  <2>3. Carrier(t, b, j)'
    BY <1>4, <2>1 DEF Carrier
  <2>4. ~Copied(b, j)'
    BY <2>1 DEF Copied
  <2>5. ~Found(b, j)' /\ ~Overwritten(b, j)'
    <3>1. ~Overwritten(b, j)'
      BY <2>4 DEF Overwritten
    <3>2. ASSUME Found(b, j)' PROVE FALSE
      <4>1. at[b] \in Index /\ j \in Slot /\ ledger[at[b]][j] = b
        BY <2>1, <3>2 DEF Found, Index, Carried
      <4>2. pc[b] = "none"
        BY <1>4, ForkEffects
      <4>3. Copied(b, j)
        BY <1>2, <4>1, LedgerAssumption DEF IInv, SlotHasWriter
      <4>4. QED
        BY <4>2, <4>3 DEF Copied
    <3>3. QED
      BY <3>1, <3>2
  <2>6. FateOf(t)' = "pending"
    BY <1>1, <2>3, <2>5 DEF FatesBySlot, SlotFate, Carried, Slot
  <2>7. QED
    BY <2>2, <2>6
<1>5. ASSUME NEW b \in Builders, NEW j \in Carried, Carrier(t, b, j) PROVE Carrier(t, b, j)'
  <2>1. CASE \E c \in Builders : ForkWithBatch(c)
    BY <1>5, <2>1, ForkEffects DEF Carrier
  <2>2. CASE ~\E c \in Builders : ForkWithBatch(c)
    BY <1>5, <2>2, JourneyEffects DEF Carrier
  <2>3. QED
    BY <2>1, <2>2
<1>6. ASSUME NEW b \in Builders, NEW j \in Carried, ~Carrier(t, b, j), Carrier(t, b, j)'
      PROVE  ForkWithBatch(b) /\ carries'[b][j] = t
  <2>1. carries'[b][j] = t
    BY <1>6 DEF Carrier
  <2>2. PICK c \in Builders : ForkWithBatch(c)
    BY <1>6, JourneyEffects DEF Carrier
  <2>3. c = b
    BY <1>6, <2>2, ForkEffects DEF Carrier
  <2>4. QED
    BY <2>1, <2>2, <2>3
<1>7. CASE \A b \in Builders, j \in Carried : ~Carrier(t, b, j) /\ ~Carrier(t, b, j)'
  <2>1. t \in discarded => t \in discarded'
    <3>1. CASE \E c \in Builders : ForkWithBatch(c)
      BY <3>1, ForkEffects
    <3>2. CASE ~\E c \in Builders : ForkWithBatch(c)
      BY <3>2, JourneyEffects
    <3>3. QED
      BY <3>1, <3>2
  <2>2. FateOf(t) = IF t \in discarded THEN "lost" ELSE "pending"
    BY <1>1, <1>7 DEF FatesBySlot
  <2>3. FateOf(t)' = IF t \in discarded' THEN "lost" ELSE "pending"
    BY <1>1, <1>7 DEF FatesBySlot, Carried, Slot
  <2>4. QED
    BY <2>1, <2>2, <2>3 DEF Fate!Turns
<1>8. QED
  BY <1>3, <1>4, <1>5, <1>6, <1>7

\* Nodes and builders together give the users what Fates promises them.
THEOREM JourneyImplementsFates == JourneySpec => FateSpec
<1>1. JourneyInit => Fate!Init
  <2> SUFFICES ASSUME JourneyInit PROVE \A t \in Tx : FateOf(t) = "pending"
    BY DEF Fate!Init
  <2>1. JourneyInv
    BY JourneyInitially
  <2>2. FatesBySlot
    BY <2>1, FatesRead
  <2>3. discarded = {} /\ \A t \in Tx, b \in Builders, j \in Carried : ~Carrier(t, b, j)
    BY DEF JourneyInit, Init, Sent!Init, Carrier
  <2>4. QED
    BY <2>2, <2>3 DEF FatesBySlot
<1>2. JourneyInv /\ [JourneyNext]_journey /\ JourneyInv' => Fate!Next
  BY FateStep DEF Fate!Next
<1>3. QED
  BY <1>1, <1>2, JourneyInvariant, PTL DEF JourneySpec, FateSpec, Fate!Spec

===============================================================================
