-------------------------------- MODULE Ledger --------------------------------
(***************************************************************************)
(* The ledger in shared memory and the block builders that fill it: the    *)
(* children each node forks (nodes.c, main) to run new_block and           *)
(* insert_block_in_ledger.  A builder looks for the first index whose      *)
(* transList[1].sender is still 0, copies its block there one slot at a    *)
(* time, and then marks every slot of that index confirmed.  Nothing else  *)
(* writes the ledger.                                                      *)
(*                                                                         *)
(* A builder stands for its block: ledger[i][j] = b says that slot j of    *)
(* index i holds the transaction builder b put there.  The copy            *)
(* ledger[i] = tmp is not atomic, and concurrent accesses to it are data   *)
(* races: its slots may reach memory one by one and in any order.          *)
(***************************************************************************)
EXTENDS Integers, FiniteSets

CONSTANTS
    Builders,          \* the block builders that may ever be forked
    SO_BLOCK_SIZE,     \* transactions per block, the reward in slot 0 included
    SO_REGISTRY_SIZE,  \* capacity of the ledger, in blocks
    MaxInFlight,       \* bound: builders at work at the same time
    Empty              \* the contents of a slot nobody has written

ASSUME LedgerAssumption ==
    /\ SO_BLOCK_SIZE \in Nat /\ SO_BLOCK_SIZE >= 2
    /\ SO_REGISTRY_SIZE \in Nat \ {0}
    /\ MaxInFlight \in Nat \ {0}
    /\ Empty \notin Builders

VARIABLES
    ledger,     \* ledger[i][j]: whose transaction is in slot j of index i
    status,     \* status[i][j]: that slot's transaction status
    semLedger,  \* the semaphore set semLedger_ID
    pc,         \* where each builder is
    at,         \* the index each builder has reached in its scan
    todo,       \* the slots a builder has still to copy or to confirm
    sigint,     \* has SIGINT been sent to the process group?
    killed      \* the builders that SIGINT has ended

vars == <<ledger, status, semLedger, pc, at, todo, sigint, killed>>

Sem == INSTANCE SemSet WITH sem <- semLedger

Index == 0 .. SO_REGISTRY_SIZE - 1
Slot  == 0 .. SO_BLOCK_SIZE - 1

\* The test insert_block_in_ledger makes on an index.
Free(i) == ledger[i][1] = Empty

Occupied(i) == ledger[i][1] # Empty

\* Mutant: the scan starts at index 1.
FirstIndexOne == 1

\* Where the scan of insert_block_in_ledger starts ...
FirstIndex == 0

\* Mutant: the scan ends one index early.
PastEndEarly(i) == i = SO_REGISTRY_SIZE - 1

\* ... and where it has run out of indexes.
PastEnd(i) == i = SO_REGISTRY_SIZE

\* The test get_balance makes before it reads index i: the reward slot has
\* a timestamp.
Visible(i) == ledger[i][0] # Empty

Working == {"scan", "reserve", "copy", "confirm", "release"}

Running(b) == pc[b] \in Working /\ b \notin killed

-------------------------------------------------------------------------------

Init ==
    /\ ledger = [i \in Index |-> [j \in Slot |-> Empty]]
    /\ status = [i \in Index |-> [j \in Slot |-> "pending"]]
    /\ Sem!SemInit
    /\ pc = [b \in Builders |-> "none"]
    /\ at = [b \in Builders |-> FirstIndex]
    /\ todo = [b \in Builders |-> {}]
    /\ sigint = FALSE
    /\ killed = {}

\* A node forks a builder.  The kernel restarts a fork whose caller has a
\* signal pending, so none is forked once SIGINT is out.
Fork(b) ==
    /\ pc[b] = "none"
    /\ ~sigint
    /\ Cardinality({c \in Builders : Running(c)}) < MaxInFlight
    /\ pc' = [pc EXCEPT ![b] = "scan"]
    /\ UNCHANGED <<ledger, status, semLedger, at, todo, sigint, killed>>

\* One turn of the for loop: the test is made before sem_reserve.
Scan(b) ==
    /\ Running(b) /\ pc[b] = "scan"
    /\ at[b] \in Index
    /\ IF Free(at[b])
       THEN pc' = [pc EXCEPT ![b] = "reserve"] /\ UNCHANGED at
       ELSE at' = [at EXCEPT ![b] = @ + 1] /\ UNCHANGED pc
    /\ UNCHANGED <<ledger, status, semLedger, todo, sigint, killed>>

\* The loop ran out of indexes: killpg(0, SIGINT).
LedgerFull(b) ==
    /\ Running(b) /\ pc[b] = "scan"
    /\ PastEnd(at[b])
    /\ pc' = [pc EXCEPT ![b] = "full"]
    /\ sigint' = TRUE
    /\ UNCHANGED <<ledger, status, semLedger, at, todo, killed>>

\* sem_reserve, which fails at once.
Reserve(b) ==
    /\ Running(b) /\ pc[b] = "reserve"
    /\ Sem!SemReserve(Sem!SemNum)
    /\ pc' = [pc EXCEPT ![b] = "copy"]
    /\ todo' = [todo EXCEPT ![b] = Slot]
    /\ UNCHANGED <<ledger, status, at, sigint, killed>>

\* Mutant: the rest of the index is zeroed.
WrittenAlone(i, j, b) ==
    [ledger EXCEPT ![i] = [k \in Slot |-> IF k = j THEN b ELSE Empty]]

\* The ledger with slot j of index i written by builder b.
Written(i, j, b) == [ledger EXCEPT ![i][j] = b]

\* One slot of ledger[i] = tmp becomes visible; its status is still the
\* pending of the transaction it was built from.
Copy(b, j) ==
    /\ Running(b) /\ pc[b] = "copy"
    /\ j \in todo[b]
    /\ ledger' = Written(at[b], j, b)
    /\ status' = [status EXCEPT ![at[b]][j] = "pending"]
    /\ IF todo[b] = {j}
       THEN /\ todo' = [todo EXCEPT ![b] = Slot]
            /\ pc' = [pc EXCEPT ![b] = "confirm"]
       ELSE /\ todo' = [todo EXCEPT ![b] = @ \ {j}]
            /\ UNCHANGED pc
    /\ UNCHANGED <<semLedger, at, sigint, killed>>

\* Mutant: the loop of confirm_block ends one slot early.
LastToConfirmEarly(b, j) == j = SO_BLOCK_SIZE - 2

\* The loop of confirm_block ends when every slot has had its turn.
LastToConfirm(b, j) == todo[b] = {j}

\* One turn of the loop of confirm_block, on whatever the slot holds now.
Confirm(b, j) ==
    /\ Running(b) /\ pc[b] = "confirm"
    /\ j \in todo[b]
    /\ \A k \in todo[b] : j <= k
    /\ status' = [status EXCEPT ![at[b]][j] = "confirmed"]
    /\ todo' = [todo EXCEPT ![b] = @ \ {j}]
    /\ IF LastToConfirm(b, j)
       THEN pc' = [pc EXCEPT ![b] = "release"]
       ELSE UNCHANGED pc
    /\ UNCHANGED <<ledger, semLedger, at, sigint, killed>>

\* sem_release, which fails too; the builder exits.
Release(b) ==
    /\ Running(b) /\ pc[b] = "release"
    /\ Sem!SemRelease(Sem!SemNum)
    /\ pc' = [pc EXCEPT ![b] = "done"]
    /\ UNCHANGED <<ledger, status, at, todo, sigint, killed>>

\* SIGINT reaches the group: the master's alarm, its own killpg, or CTRL-C.
Interrupt ==
    /\ ~sigint
    /\ sigint' = TRUE
    /\ UNCHANGED <<ledger, status, semLedger, pc, at, todo, killed>>

\* A builder runs the handler it inherited from its node, which exits.
Killed(b) ==
    /\ sigint
    /\ Running(b)
    /\ killed' = killed \cup {b}
    /\ UNCHANGED <<ledger, status, semLedger, pc, at, todo, sigint>>

\* Everything a builder does on its own.
Builder(b) ==
    \/ Scan(b)
    \/ LedgerFull(b)
    \/ Reserve(b)
    \/ \E j \in Slot : Copy(b, j) \/ Confirm(b, j)
    \/ Release(b)

Next ==
    \/ \E b \in Builders : Fork(b) \/ Builder(b) \/ Killed(b)
    \/ Interrupt

Spec == Init /\ [][Next]_vars

\* A forked builder is an ordinary process the kernel keeps scheduling.
FairSpec == Spec /\ \A b \in Builders : WF_vars(Builder(b))

-------------------------------------------------------------------------------

\* Types of the variables.
TypeOK ==
    /\ ledger \in [Index -> [Slot -> Builders \cup {Empty}]]
    /\ status \in [Index -> [Slot -> {"pending", "confirmed"}]]
    /\ pc \in [Builders -> Working \cup {"none", "full", "done"}]
    /\ at \in [Builders -> 0 .. SO_REGISTRY_SIZE]
    /\ todo \in [Builders -> SUBSET Slot]
    /\ sigint \in BOOLEAN
    /\ killed \in SUBSET Builders

\* Builder b has written slot j of the index it chose.
Copied(b, j) ==
    \/ pc[b] \in {"confirm", "release", "done"}
    \/ pc[b] = "copy" /\ j \notin todo[b]

\* Builder b has chosen its index and will write it, or has.
Chosen(b) == pc[b] \in {"reserve", "copy", "confirm", "release", "done"}

\* Two builders have chosen the same index: both have tested it before either
\* had written there.
Collision ==
    \E b, c \in Builders : b # c /\ Chosen(b) /\ Chosen(c) /\ at[b] = at[c]

\* Nobody is at work and nobody was interrupted at work.
AtRest == killed = {} /\ \A b \in Builders : ~Running(b)

\* The occupied indexes are a prefix of the ledger, whatever the builders'
\* interleaving: insert_block_in_ledger's early return, on the first free
\* index, never leaves one behind that a later block has jumped over.
NoHoles ==
    \A i, k \in Index : i < k /\ Occupied(k) => Occupied(i)

\* get_balance stops at the first index whose reward slot is blank.  Such a
\* blank below a visible block is transient: the builder that has chosen that
\* index is in the middle of its copy, so a block stays hidden from the users
\* only if SIGINT stopped another one half way.
GapOnlyWhileCopying ==
    \A i, k \in Index :
        i < k /\ Visible(k) /\ ~Visible(i) =>
            \E b \in Builders : at[b] = i /\ pc[b] = "copy"

\* A block insert_block_in_ledger has finished writing stays whole unless
\* another builder chose the same index: choosing an index nobody else chose
\* is enough to be safe, with no semaphore.
LostOnlyByCollision ==
    \A b \in Builders :
        pc[b] = "done" =>
            \/ \A j \in Slot : ledger[at[b]][j] = b
            \/ \E c \in Builders \ {b} : Chosen(c) /\ at[c] = at[b]

\* Once every builder has run to its end, no transaction in the ledger is
\* left pending, even where builders overwrote each other's slots.
ConfirmedAtRest ==
    AtRest =>
        \A i \in Index, j \in Slot :
            ledger[i][j] # Empty => status[i][j] = "confirmed"

\* The simulation is interrupted for a full ledger only when every index is
\* occupied.
FullOnlyWhenFull ==
    \A b \in Builders : pc[b] = "full" => \A i \in Index : Occupied(i)

\* The occupied prefix, read as a log of blocks by the slot that is tested.
LogOf ==
    LET n == Cardinality({i \in Index : Occupied(i)})
    IN  [p \in 1 .. n |-> ledger[p - 1][1]]

Log == INSTANCE LedgerLog WITH log <- LogOf

\* However many builders scan, copy and are interrupted at the same time, the
\* ledger is an append-only log, to which each block is added behind all the
\* others and once, up to the moment two builders have chosen the same index:
\* that is all insert_block_in_ledger would need to be protected from.
AppendsUntilCollision == [][~Collision' => [Log!Next]_LogOf]_vars

\* Every builder that is forked comes to an end: it never waits for a
\* semaphore nobody will release.
BuilderTerminates ==
    \A b \in Builders : pc[b] = "scan" ~> ~Running(b)

-------------------------------------------------------------------------------
\* What the repository's own texts say of the ledger, and the code does not do.

\* "un array di blocchi che contiene tutte le transazioni confermate"
\* (README.md:116): a block that was inserted and confirmed is in the ledger.
NoLostBlock ==
    \A b \in Builders :
        pc[b] = "done" => \E i \in Index : \A j \in Slot : ledger[i][j] = b

-------------------------------------------------------------------------------

\* The inductive invariant behind the properties above.

\* A scan has only passed occupied indexes.
PassedOccupied ==
    \A b \in Builders, i \in Index : i < at[b] => Occupied(i)

\* A builder that has chosen an index has chosen a real one, and one that
\* found the ledger full has scanned all of it.
ScanEnd ==
    \A b \in Builders :
        /\ Chosen(b) => at[b] \in Index
        /\ pc[b] = "full" => at[b] = SO_REGISTRY_SIZE

\* What a slot holds was put there by a builder that chose that index.
SlotHasWriter ==
    \A i \in Index, j \in Slot :
        ledger[i][j] # Empty => at[ledger[i][j]] = i /\ Copied(ledger[i][j], j)

\* What a builder has copied may be overwritten, but never erased.
CopiedNotEmpty ==
    \A b \in Builders, j \in Slot : Copied(b, j) => ledger[at[b]][j] # Empty

\* Builder b has still to confirm slot j of index i.
Confirmer(b, i, j) ==
    at[b] = i /\ (pc[b] = "copy" \/ (pc[b] = "confirm" /\ j \in todo[b]))

\* A pending slot still has a builder on its way to confirm it.
PendingHasConfirmer ==
    \A i \in Index, j \in Slot :
        ledger[i][j] # Empty /\ status[i][j] = "pending" =>
            \E b \in Builders : Confirmer(b, i, j)

IInv ==
    /\ TypeOK
    /\ PassedOccupied
    /\ ScanEnd
    /\ SlotHasWriter
    /\ CopiedNotEmpty
    /\ PendingHasConfirmer

===============================================================================
