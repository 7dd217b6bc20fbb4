----------------------------- MODULE AccountsProofs ----------------------------
(***************************************************************************)
(* The balances of users and nodes, on top of the ledger: what is added to *)
(* them stays there, and money is conserved, for any set of users, nodes   *)
(* and builders, any budget and any rewards.                               *)
(***************************************************************************)
EXTENDS Accounts, LedgerProofs

USE LedgerAssumption DEF FirstIndex, Free, PastEnd, Written, LastToConfirm

\* Types of the variables, and which stages a process passes through.
AccountsType ==
    /\ mined \in [Builders -> [node : Node, from : User, to : User, reward : Rewards]]
    /\ \A b \in Builders : mined[b].from # mined[b].to
    /\ balance \in [User \cup Node -> Int]
    /\ held \in [Node \cup Builders -> Int]
    /\ stage \in [Process -> {"runs", "load", "store", "insert", "read", "ended", "astray"}]
    /\ late \in BOOLEAN
    /\ \A u \in User : stage[u] \in {"runs", "ended", "astray"}
    /\ \A n \in Node : stage[n] \in {"runs", "read", "ended"}
    /\ \A b \in Builders : pc[b] = "none" => stage[b] = "runs"

\* What each builder adds to its node's balance.
RewardSums == [b \in Builders |-> SumReward(b)]

\* The builders of a node at some stages.
BuildersOf(n, stages) == {b \in Builders : mined[b].node = n /\ stage[b] \in stages}

\* Two of them have loaded the same balance.
Overlap(n) ==
    \E b, c \in BuildersOf(n, {"store", "insert"}) : b # c /\ held[b] = held[c]

\* Without an overlap the balance is what has been added, and what a builder
\* that is about to store has loaded.
AddedUp ==
    ~SomebodyRead =>
        \A n \in Node \ {FirstExtra} :
            ~Overlap(n) =>
                /\ balance[n] = Total(RewardSums, BuildersOf(n, {"insert"}))
                /\ \A b \in BuildersOf(n, {"store"}) : held[b] = balance[n]

\* As long as shared memory does not change under them, final balances are
\* what the ledger says they are, except those of users that went astray.
Exact ==
    ~late =>
        /\ \A u \in User : stage[u] = "ended" => balance[u] = SO_BUDGET_INIT + Net(u)
        /\ \A p \in Node \cup Builders :
               stage[p] = "read" => held[p] = AccurateBalance(Entry(p))
        /\ \A n \in Node : stage[n] = "ended" => balance[n] = AccurateBalance(n)

\* The inductive invariant of the balances.
AccountsInv == AccountsType /\ AddedUp /\ Exact

-------------------------------------------------------------------------------

\* What the CONSTANTS are, for the provers.
LEMMA AccountsConstants ==
    /\ IsFiniteSet(User) /\ IsFiniteSet(Node) /\ IsFiniteSet(Builders)
    /\ FirstExtra \in Node
    /\ SO_BUDGET_INIT \in Nat /\ Amount \in Nat
    /\ Rewards \subseteq Nat /\ Stray \subseteq Nat
    /\ SO_BLOCK_SIZE - 1 \in Nat
    /\ \A p \in User : p \notin Node /\ p \notin Builders
    /\ \A p \in Node : p \notin Builders
<1>1. /\ IsFiniteSet(User) /\ IsFiniteSet(Node) /\ IsFiniteSet(Builders)
      /\ FirstExtra \in Node
      /\ {SO_BUDGET_INIT, Amount} \cup Rewards \cup Stray \subseteq Nat
      /\ User \cap Node = {} /\ User \cap Builders = {} /\ Node \cap Builders = {}
  BY AccountsAssumption
<1>2. SO_BLOCK_SIZE - 1 \in Nat
  BY LedgerAssumption
<1>3. QED
  BY <1>1, <1>2

\* Every step of the accounts is one of the ledger, or leaves it alone.
LEMMA LedgerUnder == [AccountsNext]_all => [Next]_vars
<1> SUFFICES ASSUME [AccountsNext]_all PROVE [Next]_vars
  OBVIOUS
<1>1. CASE UNCHANGED all
  BY <1>1 DEF all
<1>2. ASSUME NEW b \in Builders, ForkBuilder(b)
      PROVE  Next
  BY <1>2 DEF ForkBuilder, Next
<1>3. ASSUME NEW b \in Builders, Load(b) \/ Store(b)
      PROVE  UNCHANGED vars
  BY <1>3 DEF Load, Store
<1>4. ASSUME NEW b \in Builders, Insert(b)
      PROVE  Next
  BY <1>4 DEF Insert, Next
<1>5. Reset => UNCHANGED vars
  BY DEF Reset
<1>6. InterruptAll => Next
  BY DEF InterruptAll, Next
<1>7. ASSUME NEW p \in Process, UserEnds(p) \/ UserAstray(p) \/ HandlerStores(p)
      PROVE  UNCHANGED vars
  BY <1>7 DEF UserEnds, UserAstray, HandlerStores
<1>8. ASSUME NEW p \in Process, HandlerReads(p)
      PROVE  UNCHANGED vars \/ Next
  BY <1>8 DEF HandlerReads, Next
<1>9. QED
  BY <1>1, <1>2, <1>3, <1>4, <1>5, <1>6, <1>7, <1>8 DEF AccountsNext

\* The ledger beneath the balances is the ledger.
THEOREM AccountsKeepLedger == AccountsSpec => Spec
<1>1. AccountsInit => Init
  BY DEF AccountsInit
<1>2. QED
  BY <1>1, LedgerUnder, PTL DEF AccountsSpec, Spec

-------------------------------------------------------------------------------
(* The sums. *)

\* What a builder's transactions do to a user.
Effect(u, m) ==
    CASE m.to = u   -> Amount
      [] m.from = u -> -(Amount + m.reward)
      [] OTHER      -> 0

\* The transactions of the builder that wrote slot t, and what they do to users.
MinerOf(t) == mined[ledger[t[1]][t[2]]]

Effects == [u \in User |-> [t \in Transactions |-> Effect(u, MinerOf(t))]]

\* The reward of each block, and the blocks of node n.
BlockRewards == [i \in Index |-> SumReward(ledger[i][0])]

Blocks(n) == {i \in Index : Visible(i) /\ mined[ledger[i][0]].node = n}

\* The summands are integers, and finitely many.
LEMMA SumsAreFinite ==
    ASSUME TypeOK, AccountsType
    PROVE  /\ IsFiniteSet(Transactions) /\ IsFiniteSet(Index)
           /\ \A t \in Transactions :
                 /\ t[1] \in Seen /\ t[1] \in Index /\ t[2] \in Slot \ {0}
                 /\ ledger[t[1]][t[2]] \in Builders /\ MinerOf(t) \in
                       [node : Node, from : User, to : User, reward : Rewards]
                 /\ MinerOf(t).from # MinerOf(t).to
           /\ \A u \in User, t \in Transactions :
                 Effects[u][t] = Effect(u, MinerOf(t)) /\ Effects[u][t] \in Int
           /\ \A b \in Builders : SumReward(b) \in Int /\ RewardSums[b] = SumReward(b)
           /\ \A i \in Index : Visible(i) => ledger[i][0] \in Builders
<1>1. IsFiniteSet(Index) /\ IsFiniteSet(Slot)
  BY FS_Interval, LedgerAssumption DEF Index, Slot
<1>2. IsFiniteSet(Slot \ {0}) /\ IsFiniteSet(Seen)
  BY <1>1, FS_Subset DEF Seen
<1>3. IsFiniteSet(Seen \X (Slot \ {0}))
  BY <1>2, FS_Product
<1>4. IsFiniteSet(Transactions)
  <2>1. Transactions \subseteq Seen \X (Slot \ {0})
    BY DEF Transactions
  <2>2. QED
    BY <1>3, <2>1, FS_Subset
<1>5. ASSUME NEW t \in Transactions
      PROVE  /\ t[1] \in Seen /\ t[1] \in Index /\ t[2] \in Slot \ {0}
             /\ ledger[t[1]][t[2]] \in Builders
             /\ MinerOf(t) \in [node : Node, from : User, to : User, reward : Rewards]
             /\ MinerOf(t).from # MinerOf(t).to
  <2>1. t[1] \in Seen /\ t[2] \in Slot \ {0} /\ ledger[t[1]][t[2]] # Empty
    BY <1>5 DEF Transactions
  <2>2. t[1] \in Index
    BY <2>1 DEF Seen
  <2>3. ledger[t[1]][t[2]] \in Builders
    BY <2>1, <2>2 DEF TypeOK
  <2>4. QED
    BY <2>1, <2>2, <2>3 DEF AccountsType, MinerOf
<1>6. ASSUME NEW u \in User, NEW t \in Transactions
      PROVE  Effects[u][t] = Effect(u, MinerOf(t)) /\ Effects[u][t] \in Int
  <2>1. Effects[u][t] = Effect(u, MinerOf(t))
    BY DEF Effects
  <2>2. PICK r : r = MinerOf(t).reward
    OBVIOUS
  <2>3. r \in Nat /\ Amount \in Nat
    BY <1>5, <2>2, AccountsConstants
  <2>4. Effect(u, MinerOf(t)) \in {Amount, -(Amount + r), 0}
    BY <2>2 DEF Effect
  <2>5. QED
    BY <2>1, <2>3, <2>4
<1>7. ASSUME NEW b \in Builders
      PROVE  SumReward(b) \in Int /\ RewardSums[b] = SumReward(b)
  <2>1. PICK r, k : r = mined[b].reward /\ k = SO_BLOCK_SIZE - 1
    OBVIOUS
  <2>2. r \in Nat /\ k \in Nat
    BY <2>1, AccountsConstants DEF AccountsType
  <2>3. k * r \in Int
    BY <2>2
  <2>4. SumReward(b) = k * r
    BY <2>1 DEF SumReward
  <2>5. QED
    BY <2>3, <2>4 DEF RewardSums
<1>8. \A i \in Index : Visible(i) => ledger[i][0] \in Builders
  BY TestedSlots DEF Visible, TypeOK
<1>9. QED
  BY <1>1, <1>4, <1>5, <1>6, <1>7, <1>8

\* What the model sums up, as sums that can be reasoned about.
SumsAddUp ==
    TypeOK /\ AccountsType =>
        /\ \A u \in User : Net(u) = Total(Effects[u], Transactions)
        /\ \A n \in Node : AccurateBalance(n) = Total(BlockRewards, Blocks(n))
        /\ \A S \in SUBSET Builders : MapThenSumSet(SumReward, S) = Total(RewardSums, S)
        /\ MapThenSumSet(LAMBDA p : balance[p], User \cup Node) = Total(balance, User \cup Node)

\* They are in every state ...
LEMMA SumsAreTotals == SumsAddUp
<1> SUFFICES ASSUME TypeOK, AccountsType
             PROVE  /\ \A u \in User : Net(u) = Total(Effects[u], Transactions)
                    /\ \A n \in Node : AccurateBalance(n) = Total(BlockRewards, Blocks(n))
                    /\ \A S \in SUBSET Builders :
                          MapThenSumSet(SumReward, S) = Total(RewardSums, S)
                    /\ MapThenSumSet(LAMBDA p : balance[p], User \cup Node)
                          = Total(balance, User \cup Node)
  BY DEF SumsAddUp
<1> DEFINE Some(s) == CHOOSE x \in s : TRUE
<1>0. \A s : s # {} => Some(s) \in s
  OBVIOUS
<1>1. ASSUME NEW u \in User
      PROVE  Net(u) = Total(Effects[u], Transactions)
  <2> DEFINE T == Transactions
             Value(t) == LET m == mined[ledger[t[1]][t[2]]]
                         IN  CASE m.to = u   -> Amount
                               [] m.from = u -> -(Amount + m.reward)
                               [] OTHER      -> 0
  <2>1. IsFiniteSet(T) /\ \A t \in T : Effects[u][t] \in Int /\ Effects[u][t] = Value(t)
    <3>1. IsFiniteSet(T) /\ \A t \in T : Effects[u][t] \in Int /\ Effects[u][t] = Effect(u, MinerOf(t))
      BY SumsAreFinite
    <3>2. \A t \in T : Value(t) = Effect(u, MinerOf(t))
      BY DEF Effect, MinerOf
    <3>3. QED
      BY <3>1, <3>2
  <2>2. PICK h \in [SUBSET T -> Int] : IsSum(h, Effects[u], T)
    BY <2>1, SumsExist
  <2>3. h = [s \in SUBSET T |-> IF s = {} THEN 0 ELSE Value(Some(s)) + h[s \ {Some(s)}]]
    <3>1. h = [s \in SUBSET T |-> IF s = {} THEN 0 ELSE Effects[u][Some(s)] + h[s \ {Some(s)}]]
      BY <2>2 DEF IsSum
    <3> HIDE DEF Some, Value, T
    <3>2. QED
      BY <1>0, <2>1, <3>1
  <2>4. Net(u) = MapThenSumSet(Value, T)
    BY DEF Net
  <2>5. PICK g : /\ g = [s \in SUBSET T |-> IF s = {} THEN 0 ELSE Value(Some(s)) + g[s \ {Some(s)}]]
                 /\ MapThenSumSet(Value, T) = g[T]
    <3> HIDE DEF Value
    <3>1. QED
      BY <2>3 DEF MapThenSumSet, MapThenFoldSet
  <2>6. IsSum(g, Effects[u], T)
    <3>1. g = [s \in SUBSET T |-> IF s = {} THEN 0 ELSE Effects[u][Some(s)] + g[s \ {Some(s)}]]
      <4> HIDE DEF Some, Value, T
      <4>1. QED
        BY <1>0, <2>1, <2>5
    <3>2. QED
      BY <3>1 DEF IsSum
  <2>7. Total(Effects[u], T) = g[T]
    <3> HIDE DEF Value, T
    <3>1. QED
      BY <2>1, <2>6, TotalValue
  <2>8. QED
    BY <2>4, <2>5, <2>7
<1>2. ASSUME NEW n \in Node
      PROVE  AccurateBalance(n) = Total(BlockRewards, Blocks(n))
  <2> DEFINE T == Blocks(n)
             Value(i) == SumReward(ledger[i][0])
  <2>1. /\ IsFiniteSet(T)
        /\ \A i \in T : BlockRewards[i] \in Int /\ BlockRewards[i] = Value(i)
    <3>1. T \subseteq Index /\ \A i \in T : Visible(i)
      BY DEF Blocks
    <3>2. QED
      BY <3>1, SumsAreFinite, FS_Subset DEF BlockRewards
  <2>2. PICK h \in [SUBSET T -> Int] : IsSum(h, BlockRewards, T)
    BY <2>1, SumsExist
  <2>3. h = [s \in SUBSET T |-> IF s = {} THEN 0 ELSE Value(Some(s)) + h[s \ {Some(s)}]]
    <3>1. h = [s \in SUBSET T |-> IF s = {} THEN 0 ELSE BlockRewards[Some(s)] + h[s \ {Some(s)}]]
      BY <2>2 DEF IsSum
    <3> HIDE DEF Some, Value, T
    <3>2. QED
      BY <1>0, <2>1, <3>1
  <2>4. AccurateBalance(n) = MapThenSumSet(Value, T)
    BY DEF AccurateBalance, Blocks
  <2>5. PICK g : /\ g = [s \in SUBSET T |-> IF s = {} THEN 0 ELSE Value(Some(s)) + g[s \ {Some(s)}]]
                 /\ MapThenSumSet(Value, T) = g[T]
    <3> HIDE DEF Value
    <3>1. QED
      BY <2>3 DEF MapThenSumSet, MapThenFoldSet
  <2>6. IsSum(g, BlockRewards, T)
    <3>1. g = [s \in SUBSET T |-> IF s = {} THEN 0 ELSE BlockRewards[Some(s)] + g[s \ {Some(s)}]]
      <4> HIDE DEF Some, Value, T
      <4>1. QED
        BY <1>0, <2>1, <2>5
    <3>2. QED
      BY <3>1 DEF IsSum
  <2>7. Total(BlockRewards, T) = g[T]
    <3> HIDE DEF Value, T
    <3>1. QED
      BY <2>1, <2>6, TotalValue
  <2>8. QED
    BY <2>4, <2>5, <2>7
<1>3. ASSUME NEW T \in SUBSET Builders
      PROVE  MapThenSumSet(SumReward, T) = Total(RewardSums, T)
  <2>1. IsFiniteSet(T) /\ \A b \in T : RewardSums[b] \in Int /\ RewardSums[b] = SumReward(b)
    BY SumsAreFinite, AccountsConstants, FS_Subset
  <2>2. PICK h \in [SUBSET T -> Int] : IsSum(h, RewardSums, T)
    BY <2>1, SumsExist
  <2>3. h = [s \in SUBSET T |-> IF s = {} THEN 0 ELSE SumReward(Some(s)) + h[s \ {Some(s)}]]
    <3>1. h = [s \in SUBSET T |-> IF s = {} THEN 0 ELSE RewardSums[Some(s)] + h[s \ {Some(s)}]]
      BY <2>2 DEF IsSum
    <3> HIDE DEF Some
    <3>2. QED
      BY <1>0, <2>1, <3>1
  <2>5. PICK g : /\ g = [s \in SUBSET T |-> IF s = {} THEN 0 ELSE SumReward(Some(s)) + g[s \ {Some(s)}]]
                 /\ MapThenSumSet(SumReward, T) = g[T]
    BY ONLY <2>3 DEF MapThenSumSet, MapThenFoldSet
  <2>6. IsSum(g, RewardSums, T)
    <3>1. g = [s \in SUBSET T |-> IF s = {} THEN 0 ELSE RewardSums[Some(s)] + g[s \ {Some(s)}]]
      <4> HIDE DEF Some
      <4>1. QED
        BY <1>0, <2>1, <2>5
    <3>2. QED
      BY <3>1 DEF IsSum
  <2>7. Total(RewardSums, T) = g[T]
    BY <2>1, <2>6, TotalValue
  <2>8. QED
    BY <2>5, <2>7
<1>4. MapThenSumSet(LAMBDA p : balance[p], User \cup Node) = Total(balance, User \cup Node)
  <2> DEFINE T == User \cup Node
  <2>1. IsFiniteSet(T) /\ \A p \in T : balance[p] \in Int
    BY AccountsConstants, FS_Union DEF AccountsType
  <2>2. PICK h \in [SUBSET T -> Int] : IsSum(h, balance, T)
    BY <2>1, SumsExist
  <2>3. h = [s \in SUBSET T |-> IF s = {} THEN 0 ELSE balance[Some(s)] + h[s \ {Some(s)}]]
    BY <2>2 DEF IsSum
  <2>5. PICK g : /\ g = [s \in SUBSET T |-> IF s = {} THEN 0 ELSE balance[Some(s)] + g[s \ {Some(s)}]]
                 /\ MapThenSumSet(LAMBDA p : balance[p], T) = g[T]
    BY <2>3 DEF MapThenSumSet, MapThenFoldSet
  <2>6. IsSum(g, balance, T)
    BY <2>5 DEF IsSum
  <2>7. Total(balance, T) = g[T]
    <3> HIDE DEF T
    <3>1. QED
      BY <2>1, <2>6, TotalValue
  <2>8. QED
    BY <2>5, <2>7
<1>5. QED
  BY <1>1, <1>2, <1>3, <1>4

\* ... and so in the next.
LEMMA SumsAreTotalsNext == SumsAddUp'
  BY SumsAreTotals, PTL

-------------------------------------------------------------------------------
(* What users and nodes make of the same ledger cancels out. *)

\* Blocks that nobody overwrote or left unfinished are whole, and all seen.
LEMMA WholeBlocks ==
    ASSUME IInv, ~Collision, ~HalfWritten
    PROVE  /\ \A i \in Index : i \in Seen <=> Visible(i)
           /\ \A i \in Seen, j \in Slot : ledger[i][j] = ledger[i][0] /\ ledger[i][j] # Empty
           /\ Transactions = Seen \X (Slot \ {0})
<1>1. \A i \in Index, j \in Slot :
         ledger[i][j] # Empty => /\ ledger[i][j] \in Builders /\ at[ledger[i][j]] = i
                                 /\ Copied(ledger[i][j], j)
  BY DEF IInv, TypeOK, SlotHasWriter
<1>2. ASSUME NEW b \in Builders, NEW j \in Slot, Copied(b, j)
      PROVE  Chosen(b) /\ \A k \in Slot : Copied(b, k)
  <2>1. pc[b] # "copy"
    BY <1>2 DEF Copied, HalfWritten
  <2>2. QED
    BY <1>2, <2>1 DEF Copied, Chosen
<1>3. ASSUME NEW b \in Builders, NEW j \in Slot, Copied(b, j)
      PROVE  /\ at[b] \in Index
             /\ \A k \in Slot : ledger[at[b]][k] = b
  <2>1. at[b] \in Index
    BY <1>2, <1>3 DEF IInv, ScanEnd
  <2>2. ASSUME NEW k \in Slot PROVE ledger[at[b]][k] = b
    <3>1. ledger[at[b]][k] # Empty
      BY <1>2, <1>3 DEF IInv, CopiedNotEmpty
    <3>2. PICK c : c = ledger[at[b]][k]
      OBVIOUS
    <3>3. c \in Builders /\ at[c] = at[b] /\ Copied(c, k)
      BY <1>1, <2>1, <3>1, <3>2
    <3>4. Chosen(b) /\ Chosen(c)
      BY <1>2, <1>3, <3>3
    <3>5. QED
      BY <3>2, <3>3, <3>4 DEF Collision
  <2>3. QED
    BY <2>1, <2>2
<1>4. ASSUME NEW i \in Index, NEW j \in Slot, ledger[i][j] # Empty
      PROVE  \A k \in Slot : ledger[i][k] = ledger[i][j]
  BY <1>1, <1>3, <1>4
<1>5. ASSUME NEW i \in Index, Visible(i), NEW k \in 0 .. i
      PROVE  Visible(k)
  <2>1. PICK b : b = ledger[i][0]
    OBVIOUS
  <2>2. b \in Builders /\ at[b] = i /\ k \in Index
    <3>1. b \in Builders /\ at[b] = i
      BY <1>1, <1>5, <2>1, TestedSlots DEF Visible
    <3>2. k \in Index
      BY LedgerAssumption DEF Index
    <3>3. QED
      BY <3>1, <3>2
  <2>3. CASE k = i
    BY <1>5, <2>3
  <2>4. CASE k < i
    <3>1. Occupied(k)
      BY <2>2, <2>4 DEF IInv, PassedOccupied
    <3>2. ledger[k][1] # Empty
      BY <3>1 DEF Occupied
    <3>3. QED
      BY <1>4, <2>2, <3>2, TestedSlots DEF Visible
  <2>5. k = i \/ k < i
    BY DEF Index
  <2>6. QED
    BY <2>3, <2>4, <2>5
<1>6. \A i \in Index : i \in Seen <=> Visible(i)
  <2>1. \A i \in Index : i \in 0 .. i
    BY DEF Index
  <2>2. QED
    BY <1>5, <2>1 DEF Seen
<1>7. Seen \subseteq Index
  BY DEF Seen
<1>8. \A i \in Seen, j \in Slot : ledger[i][j] = ledger[i][0] /\ ledger[i][j] # Empty
  BY <1>4, <1>6, <1>7, TestedSlots DEF Visible
<1>9. Transactions = Seen \X (Slot \ {0})
  <2>1. \A t \in Seen \X (Slot \ {0}) : ledger[t[1]][t[2]] # Empty
    BY <1>8
  <2>2. QED
    BY <2>1 DEF Transactions
<1>10. QED
  BY <1>6, <1>8, <1>9

\* One transaction takes its reward from the users.
LEMMA NetOfOne ==
    ASSUME NEW m \in [node : Node, from : User, to : User, reward : Rewards],
           m.from # m.to, NEW f, \A u \in User : f[u] = Effect(u, m)
    PROVE  Total(f, User) = -m.reward
<1>1. PICK r, a : r = m.reward /\ a = Amount
  OBVIOUS
<1>2. r \in Int /\ a \in Int
  BY <1>1, AccountsConstants
<1>3. PICK x, y : x = m.from /\ y = m.to
  OBVIOUS
<1>4. x \in User /\ y \in User /\ x # y
  BY <1>3
<1>5. /\ f[y] = a /\ f[x] = -(a + r)
      /\ \A u \in User : u \notin {x, y} => f[u] = 0
  BY <1>1, <1>3, <1>4 DEF Effect
<1>6. \A u \in User : f[u] \in Int
  <2>1. -(a + r) \in Int
    BY <1>2
  <2>2. QED
    BY <1>2, <1>5, <2>1
<1>7. {x, y} \subseteq User /\ \A u \in User : f[u] = IF u \in {x, y} THEN f[u] ELSE 0
  BY <1>4, <1>5
<1>8. Total(f, User) = Total(f, {x, y})
  <2>1. PICK S : S = {x, y}
    OBVIOUS
  <2>2. S \subseteq User /\ \A u \in User : f[u] = IF u \in S THEN f[u] ELSE 0
    BY <1>7, <2>1
  <2>3. Total(f, User) = Total(f, S)
    BY <1>6, <2>2, AccountsConstants, TotalOf
  <2>4. QED
    BY <2>1, <2>3
<1>9. Total(f, {x}) = f[x]
  <2>1. IsFiniteSet({}) /\ \A u \in {} : f[u] \in Int
    BY FS_EmptySet
  <2>2. x \notin {} /\ f[x] \in Int
    BY <1>4, <1>6
  <2>3. Total(f, {}) = 0 /\ Total(f, {} \cup {x}) = f[x] + Total(f, {})
    BY <2>1, <2>2, TotalAdd
  <2>4. {} \cup {x} = {x}
    OBVIOUS
  <2>5. QED
    BY <2>2, <2>3, <2>4
<1>10. Total(f, {x, y}) = f[y] + f[x]
  <2>1. IsFiniteSet({x}) /\ \A u \in {x} : f[u] \in Int
    BY <1>4, <1>6, FS_Singleton
  <2>2. y \notin {x} /\ f[y] \in Int
    BY <1>4, <1>6
  <2>3. Total(f, {x} \cup {y}) = f[y] + Total(f, {x})
    BY <2>1, <2>2, TotalAdd
  <2>4. {x} \cup {y} = {x, y}
    OBVIOUS
  <2>5. QED
    BY <1>9, <2>3, <2>4
<1>11. QED
  <2>1. a + (-(a + r)) = -r
    BY <1>2
  <2>2. QED
    BY <1>1, <1>5, <1>8, <1>10, <2>1

\* What the ledger does to each user, and gives each node.
Nets  == [u \in User |-> Net(u)]
Gains == [n \in Node |-> AccurateBalance(n)]

\* Integers, all of them.
LEMMA FinalsAreIntegers ==
    ASSUME TypeOK, AccountsType
    PROVE  /\ \A u \in User : Nets[u] = Net(u) /\ Net(u) \in Int
           /\ \A n \in Node : Gains[n] = AccurateBalance(n) /\ AccurateBalance(n) \in Int
<1>1. ASSUME NEW u \in User PROVE Net(u) \in Int
  <2>1. IsFiniteSet(Transactions) /\ \A t \in Transactions : Effects[u][t] \in Int
    BY SumsAreFinite
  <2>2. Total(Effects[u], Transactions) \in Int
    BY <2>1, TotalAdd
  <2>3. QED
    BY <2>2, SumsAreTotals DEF SumsAddUp
<1>2. ASSUME NEW n \in Node PROVE AccurateBalance(n) \in Int
  <2>1. IsFiniteSet(Blocks(n)) /\ \A i \in Blocks(n) : BlockRewards[i] \in Int
    <3>1. Blocks(n) \subseteq Index /\ \A i \in Blocks(n) : Visible(i)
      BY DEF Blocks
    <3>2. QED
      BY <3>1, SumsAreFinite, FS_Subset DEF BlockRewards
  <2>2. Total(BlockRewards, Blocks(n)) \in Int
    BY <2>1, TotalAdd
  <2>3. QED
    BY <2>2, SumsAreTotals DEF SumsAddUp
<1>3. QED
  BY <1>1, <1>2 DEF Nets, Gains

\* What the users have lost is what the nodes have earned.
LEMMA GainsAreLosses ==
    ASSUME IInv, AccountsType, ~Collision, ~HalfWritten
    PROVE  Total(Nets, User) + Total(Gains, Node) = 0
<1> DEFINE Taken == [t \in Transactions |-> -MinerOf(t).reward]
           First == [t \in Transactions |-> t[1]]
           Whose == [i \in Seen |-> mined[ledger[i][0]].node]
<1>0. TypeOK
  BY DEF IInv
<1>1. /\ IsFiniteSet(Seen) /\ Seen \subseteq Index
      /\ \A i \in Seen : ledger[i][0] \in Builders
      /\ \A i \in Seen : BlockRewards[i] = SumReward(ledger[i][0]) /\ BlockRewards[i] \in Int
  <2>1. IsFiniteSet(Seen) /\ Seen \subseteq Index
    BY <1>0, SumsAreFinite, FS_Subset DEF Seen
  <2>2. \A i \in Seen : ledger[i][0] \in Builders
    BY <1>0, <2>1, WholeBlocks, SumsAreFinite
  <2>3. \A i \in Seen : BlockRewards[i] = SumReward(ledger[i][0])
    BY <2>1 DEF BlockRewards
  <2>4. QED
    BY <1>0, <2>1, <2>2, <2>3, SumsAreFinite
<1>2. ASSUME NEW t \in Transactions
      PROVE  ColumnSums(Effects, User, Transactions)[t] = Taken[t] /\ Taken[t] \in Int
  <2>1. PICK m : m = MinerOf(t)
    OBVIOUS
  <2>2. m \in [node : Node, from : User, to : User, reward : Rewards] /\ m.from # m.to
    BY <1>0, <2>1, SumsAreFinite
  <2>3. PICK f : f = Column(Effects, User, t)
    OBVIOUS
  <2>4. \A u \in User : f[u] = Effect(u, m)
    BY <1>0, <2>1, <2>3, SumsAreFinite DEF Column
  <2>5. Total(f, User) = -m.reward
    BY <2>2, <2>4, NetOfOne
  <2>6. m.reward \in Int
    <3>1. PICK r : r = m.reward
      OBVIOUS
    <3>2. r \in Rewards
      BY <2>2, <3>1
    <3>3. r \in Int
      BY <3>2, AccountsConstants
    <3>4. QED
      BY <3>1, <3>3
  <2>7. QED
    BY <2>1, <2>3, <2>5, <2>6 DEF ColumnSums
<1>3. Total(Nets, User) = Total(Taken, Transactions)
  <2> HIDE DEF Taken
  <2>1. /\ IsFiniteSet(Transactions)
        /\ \A u \in User, t \in Transactions : Effects[u][t] \in Int
    BY <1>0, SumsAreFinite
  <2>2. Total(RowSums(Effects, User, Transactions), User)
           = Total(ColumnSums(Effects, User, Transactions), Transactions)
    BY <2>1, AccountsConstants, TotalSwap
  <2>3. \A u \in User : Nets[u] \in Int /\ Nets[u] = RowSums(Effects, User, Transactions)[u]
    BY <1>0, FinalsAreIntegers, SumsAreTotals DEF SumsAddUp, RowSums
  <2>4. Total(Nets, User) = Total(RowSums(Effects, User, Transactions), User)
    BY <2>3, AccountsConstants, TotalSame
  <2>5. Total(Taken, Transactions) = Total(ColumnSums(Effects, User, Transactions), Transactions)
    BY <1>2, <2>1, TotalSame
  <2>6. QED
    BY <2>2, <2>4, <2>5
<1>4. ASSUME NEW i \in Seen
      PROVE  /\ GroupSums(Taken, Transactions, First, Seen)[i] \in Int
             /\ GroupSums(Taken, Transactions, First, Seen)[i] + BlockRewards[i] = 0
  <2>1. PICK Q : Q = {t \in Transactions : First[t] = i}
    OBVIOUS
  <2>2. PICK r, k : r = mined[ledger[i][0]].reward /\ k = SO_BLOCK_SIZE - 1
    OBVIOUS
  <2>3. r \in Int /\ -r \in Int /\ k \in Nat
    <3>1. r \in Rewards
      BY <1>1, <2>2 DEF AccountsType
    <3>2. r \in Int
      BY <3>1, AccountsConstants
    <3>3. QED
      BY <2>2, <3>2, AccountsConstants
  <2>4. \A t \in Q : Taken[t] = -r
    <3> SUFFICES ASSUME NEW t \in Q PROVE Taken[t] = -r
      OBVIOUS
    <3>1. t \in Transactions /\ t[1] = i
      BY <2>1
    <3>2. t[2] \in Slot
      BY <1>0, <3>1, SumsAreFinite
    <3>3. ledger[t[1]][t[2]] = ledger[i][0]
      BY <3>1, <3>2, WholeBlocks
    <3>4. QED
      BY <2>2, <3>1, <3>3 DEF MinerOf
  <2>5. IsFiniteSet(Q) /\ Cardinality(Q) = k
    <3>1. Q = {i} \X (Slot \ {0})
      <4>1. Transactions = Seen \X (Slot \ {0})
        BY WholeBlocks
      <4>2. \A t \in Seen \X (Slot \ {0}) : First[t] = t[1]
        BY <4>1
      <4>3. QED
        BY <2>1, <4>1, <4>2
    <3>2. IsFiniteSet(Slot \ {0}) /\ Cardinality(Slot \ {0}) = k
      <4>1. IsFiniteSet(Slot) /\ Cardinality(Slot) = SO_BLOCK_SIZE
        BY FS_Interval, LedgerAssumption DEF Slot
      <4>2. 0 \in Slot
        BY TestedSlots
      <4>3. IsFiniteSet(Slot \ {0}) /\ Cardinality(Slot \ {0}) = Cardinality(Slot) - 1
        BY <4>1, <4>2, FS_RemoveElement
      <4>4. QED
        BY <2>2, <4>1, <4>3
    <3>3. IsFiniteSet({i}) /\ Cardinality({i}) = 1
      BY FS_Singleton
    <3>4. PICK R : R = Slot \ {0}
      OBVIOUS
    <3>5. IsFiniteSet({i} \X R) /\ Cardinality({i} \X R) = Cardinality({i}) * Cardinality(R)
      BY <3>2, <3>3, <3>4, FS_Product
    <3>6. QED
      BY <2>3, <3>1, <3>2, <3>3, <3>4, <3>5
  <2>6. Total(Taken, Q) = (-r) * k
    <3> HIDE DEF Taken
    <3>1. QED
      BY <2>3, <2>4, <2>5, TotalConstant
  <2>7. GroupSums(Taken, Transactions, First, Seen)[i] = (-r) * k
    <3> HIDE DEF Taken, First
    <3>1. QED
      BY <2>1, <2>6 DEF GroupSums
  <2>8. BlockRewards[i] = k * r
    BY <1>1, <2>2 DEF SumReward
  <2>9. (-r) * k \in Int /\ (-r) * k + k * r = 0
    BY <2>3
  <2>10. QED
    BY <2>7, <2>8, <2>9
<1>5. Total(GroupSums(Taken, Transactions, First, Seen), Seen) = Total(Taken, Transactions)
  <2>1. \A t \in Transactions : First[t] \in Seen
    BY <1>0, SumsAreFinite
  <2>2. IsFiniteSet(Transactions)
    BY <1>0, SumsAreFinite
  <2> HIDE DEF Taken, First
  <2>3. QED
    BY <1>1, <1>2, <2>1, <2>2, TotalGroups
<1>6. Total(Gains, Node) = Total(BlockRewards, Seen)
  <2>1. \A i \in Seen : Whose[i] \in Node
    BY <1>1 DEF AccountsType
  <2>2. \A n \in Node : Gains[n] = GroupSums(BlockRewards, Seen, Whose, Node)[n] /\ Gains[n] \in Int
    <3> SUFFICES ASSUME NEW n \in Node
                 PROVE  Gains[n] = GroupSums(BlockRewards, Seen, Whose, Node)[n] /\ Gains[n] \in Int
      OBVIOUS
    <3>1. PICK Q : Q = {i \in Seen : Whose[i] = n}
      OBVIOUS
    <3>2. Q = Blocks(n)
      BY <1>1, <3>1, WholeBlocks DEF Blocks
    <3>3. GroupSums(BlockRewards, Seen, Whose, Node)[n] = Total(BlockRewards, Q)
      <4> HIDE DEF Whose
      <4>1. QED
        BY <3>1 DEF GroupSums
    <3>4. QED
      BY <1>0, <3>2, <3>3, FinalsAreIntegers, SumsAreTotals DEF SumsAddUp
  <2> HIDE DEF Whose
  <2>3. Total(GroupSums(BlockRewards, Seen, Whose, Node), Node) = Total(BlockRewards, Seen)
    BY <1>1, <2>1, AccountsConstants, TotalGroups
  <2>4. Total(Gains, Node) = Total(GroupSums(BlockRewards, Seen, Whose, Node), Node)
    BY <2>2, AccountsConstants, TotalSame
  <2>5. QED
    BY <2>3, <2>4
<1>7. QED
  <2> DEFINE G == GroupSums(Taken, Transactions, First, Seen)
             Zero == [i \in Seen |-> 0]
  <2>1. \A i \in Seen : G[i] \in Int /\ BlockRewards[i] \in Int /\ Zero[i] = G[i] + BlockRewards[i]
    BY <1>1, <1>4
  <2>2. \A i \in Seen : Zero[i] = 0
    OBVIOUS
  <2> HIDE DEF G, Zero
  <2>3. Total(Zero, Seen) = Total(G, Seen) + Total(BlockRewards, Seen)
    BY <1>1, <2>1, TotalPlus
  <2>4. Total(Zero, Seen) = 0 * Cardinality(Seen) /\ Cardinality(Seen) \in Nat
    BY <1>1, <2>2, TotalConstant, FS_CardinalityType
  <2>5. Total(G, Seen) = Total(Nets, User)
    BY <1>3, <1>5 DEF G
  <2>6. QED
    BY <1>6, <2>3, <2>4, <2>5

-------------------------------------------------------------------------------
(* The invariant. *)

\* Nothing has been added, and nobody has read, at first.
LEMMA AccountsInitially == AccountsInit => AccountsInv
<1> SUFFICES ASSUME AccountsInit PROVE AccountsInv
  OBVIOUS
<1>1. AccountsType
  <2>1. /\ mined \in [Builders -> [node : Node, from : User, to : User, reward : Rewards]]
        /\ \A b \in Builders : mined[b].from # mined[b].to
        /\ late \in BOOLEAN
    BY DEF AccountsInit
  <2>2. balance \in [User \cup Node -> Int] /\ held \in [Node \cup Builders -> Int]
    BY DEF AccountsInit
  <2>3. /\ stage \in [Process -> {"runs", "load", "store", "insert", "read", "ended", "astray"}]
        /\ \A p \in Process : stage[p] = "runs"
    BY DEF AccountsInit
  <2>4. QED
    BY <2>1, <2>2, <2>3 DEF AccountsType, Process
<1>2. \A p \in Process : stage[p] = "runs"
  BY DEF AccountsInit
<1>3. AddedUp
  <2> SUFFICES ASSUME NEW n \in Node
               PROVE  /\ balance[n] = Total(RewardSums, BuildersOf(n, {"insert"}))
                      /\ \A b \in BuildersOf(n, {"store"}) : held[b] = balance[n]
    BY DEF AddedUp
  <2>1. BuildersOf(n, {"insert"}) = {} /\ BuildersOf(n, {"store"}) = {}
    BY <1>2 DEF BuildersOf, Process
  <2>2. Total(RewardSums, {}) = 0
    <3>1. IsFiniteSet({}) /\ \A b \in {} : RewardSums[b] \in Int
      BY FS_EmptySet
    <3>2. QED
      BY <3>1, TotalAdd
  <2>3. balance[n] = 0
    BY DEF AccountsInit
  <2>4. QED
    BY <2>1, <2>2, <2>3
<1>4. Exact
  BY <1>2 DEF Exact, Process
<1>5. QED
  BY <1>1, <1>3, <1>4 DEF AccountsInv

\* No step of the ledger makes a builder one that has never been forked.
LEMMA NeverUnforked ==
    ASSUME TypeOK, [Next]_vars, NEW c \in Builders, pc'[c] = "none"
    PROVE  pc[c] = "none"
<1>1. CASE UNCHANGED vars
  BY <1>1 DEF vars
<1>2. ASSUME NEW b \in Builders, Fork(b) \/ Killed(b) PROVE pc[c] = "none"
  BY <1>2 DEF Fork, Killed, TypeOK
<1>3. ASSUME NEW b \in Builders, Scan(b) PROVE pc[c] = "none"
  BY <1>3 DEF Scan, TypeOK
<1>4. ASSUME NEW b \in Builders, LedgerFull(b) \/ Reserve(b) \/ Release(b) PROVE pc[c] = "none"
  BY <1>4 DEF LedgerFull, Reserve, Release, TypeOK
<1>5. ASSUME NEW b \in Builders, NEW j \in Slot, Copy(b, j) \/ Confirm(b, j) PROVE pc[c] = "none"
  BY <1>5 DEF Copy, Confirm, TypeOK
<1>6. CASE Interrupt
  BY <1>6 DEF Interrupt
<1>7. QED
  BY <1>1, <1>2, <1>3, <1>4, <1>5, <1>6 DEF Next, Builder

\* Types are respected.
LEMMA AccountsTypeStep ==
    ASSUME TypeOK, AccountsType, AccountsNext
    PROVE  AccountsType'
<1>1. [Next]_vars
  BY LedgerUnder
<1>2. \A b \in Builders : pc'[b] = "none" => pc[b] = "none"
  BY <1>1, NeverUnforked
<1>3. mined' = mined
  BY DEF AccountsNext, ForkBuilder, Load, Store, Insert, Reset, InterruptAll, accounts,
         UserEnds, UserAstray, HandlerReads, HandlerStores
<1>4. mined' \in [Builders -> [node : Node, from : User, to : User, reward : Rewards]]
      /\ \A b \in Builders : mined'[b].from # mined'[b].to
  BY <1>3 DEF AccountsType
<1>5. ASSUME /\ balance' \in [User \cup Node -> Int]
             /\ held' \in [Node \cup Builders -> Int]
             /\ stage' \in [Process -> {"runs", "load", "store", "insert", "read", "ended", "astray"}]
             /\ late' \in BOOLEAN
             /\ \A u \in User : stage'[u] \in {"runs", "ended", "astray"}
             /\ \A n \in Node : stage'[n] \in {"runs", "read", "ended"}
             /\ \A b \in Builders : pc'[b] = "none" => stage'[b] = "runs"
      PROVE  AccountsType'
  BY <1>4, <1>5 DEF AccountsType
<1>6. /\ balance \in [User \cup Node -> Int]
      /\ held \in [Node \cup Builders -> Int]
      /\ stage \in [Process -> {"runs", "load", "store", "insert", "read", "ended", "astray"}]
      /\ late \in BOOLEAN
      /\ \A u \in User : stage[u] \in {"runs", "ended", "astray"}
      /\ \A n \in Node : stage[n] \in {"runs", "read", "ended"}
      /\ \A b \in Builders : pc[b] = "none" => stage[b] = "runs"
      /\ \A b \in Builders : mined[b].node \in Node
  BY DEF AccountsType
<1>7. /\ \A p \in User : p \notin Node /\ p \notin Builders
      /\ \A p \in Node : p \notin Builders
      /\ User \subseteq Process /\ Node \subseteq Process /\ Builders \subseteq Process
  BY AccountsConstants DEF Process
<1>8. ASSUME NEW b \in Builders, ForkBuilder(b)
      PROVE  AccountsType'
  <2>1. pc'[b] # "none"
    BY <1>8 DEF ForkBuilder, Fork, TypeOK
  <2>2. stage' = [stage EXCEPT ![b] = "load"] /\ UNCHANGED <<balance, held, late>>
    BY <1>8 DEF ForkBuilder
  <2>3. QED
    BY <1>2, <1>5, <1>6, <1>7, <2>1, <2>2
<1>9. ASSUME NEW b \in Builders, Load(b)
      PROVE  AccountsType'
  <2>1. /\ stage' = [stage EXCEPT ![b] = "store"] /\ UNCHANGED <<balance, late>>
        /\ held' = [held EXCEPT ![b] = balance[mined[b].node]]
        /\ stage[b] = "load"
    BY <1>9 DEF Load
  <2>2. balance[mined[b].node] \in Int
    BY <1>6
  <2>3. held' \in [Node \cup Builders -> Int]
    BY <1>6, <2>1, <2>2
  <2>4. QED
    BY <1>2, <1>5, <1>6, <1>7, <2>1, <2>3
<1>10. ASSUME NEW b \in Builders, Store(b)
       PROVE  AccountsType'
  <2>1. /\ stage' = [stage EXCEPT ![b] = "insert"] /\ UNCHANGED <<held>>
        /\ balance' = [balance EXCEPT ![mined[b].node] = Added(b)]
        /\ late' = (late \/ SomebodyRead) /\ stage[b] = "store"
    BY <1>10 DEF Store
  <2>2. Added(b) \in Int
    BY <1>6, SumsAreFinite DEF Added
  <2>3. balance' \in [User \cup Node -> Int]
    BY <1>6, <2>1, <2>2
  <2>4. late' \in BOOLEAN
    BY <1>6, <2>1 DEF SomebodyRead
  <2>5. QED
    BY <1>2, <1>5, <1>6, <1>7, <2>1, <2>3, <2>4
<1>11. ASSUME NEW b \in Builders, Insert(b)
       PROVE  AccountsType'
  <2>1. UNCHANGED <<balance, held, stage>> /\ late' \in BOOLEAN
    BY <1>6, <1>11 DEF Insert, SomebodyRead
  <2>2. QED
    BY <1>2, <1>5, <1>6, <2>1
<1>12. CASE Reset
  <2>1. /\ balance' = [balance EXCEPT ![FirstExtra] = 0] /\ UNCHANGED <<held, stage>>
        /\ late' \in BOOLEAN
    BY <1>6, <1>12 DEF Reset, SomebodyRead
  <2>2. balance' \in [User \cup Node -> Int]
    BY <1>6, <2>1, 0 \in Int
  <2>3. QED
    BY <1>2, <1>5, <1>6, <2>1, <2>2
<1>13. CASE InterruptAll
  <2>1. UNCHANGED <<balance, held, stage, late>>
    BY <1>13 DEF InterruptAll, accounts
  <2>2. QED
    BY <1>2, <1>5, <1>6, <2>1
<1>14. ASSUME NEW u \in Process, UserEnds(u)
       PROVE  AccountsType'
  <2>1. /\ u \in User /\ stage' = [stage EXCEPT ![u] = "ended"]
        /\ balance' = [balance EXCEPT ![u] = SO_BUDGET_INIT + Net(u)]
        /\ UNCHANGED <<held, late>>
    BY <1>14 DEF UserEnds
  <2>2. SO_BUDGET_INIT + Net(u) \in Int
    <3>1. Net(u) \in Int
      BY <2>1, FinalsAreIntegers
    <3>2. SO_BUDGET_INIT \in Nat
      BY AccountsConstants
    <3>3. QED
      BY <3>1, <3>2
  <2>3. balance' \in [User \cup Node -> Int]
    BY <1>6, <2>1, <2>2
  <2>4. QED
    BY <1>2, <1>5, <1>6, <1>7, <2>1, <2>3
<1>15. ASSUME NEW p \in Process, HandlerReads(p)
       PROVE  AccountsType'
  <2>1. /\ p \in Node \cup Builders
        /\ held' = [held EXCEPT ![p] = AccurateBalance(Entry(p))]
        /\ stage' = [stage EXCEPT ![p] = "read"]
        /\ UNCHANGED <<balance, late>>
        /\ p \in Builders => pc[p] # "none"
    <3>1. /\ held' = [held EXCEPT ![p] = AccurateBalance(Entry(p))]
          /\ stage' = [stage EXCEPT ![p] = "read"]
          /\ UNCHANGED <<balance, late>>
      BY <1>15 DEF HandlerReads
    <3>2. \/ p \in Node
          \/ p \in Builders /\ Killed(p)
          \/ p \in Builders /\ pc[p] \in {"done", "full"}
      BY <1>15 DEF HandlerReads
    <3>3. p \in Builders /\ Killed(p) => pc[p] # "none"
      BY DEF Killed, Running, Working
    <3>4. QED
      BY <1>7, <3>1, <3>2, <3>3
  <2>2. AccurateBalance(Entry(p)) \in Int
    <3>1. Entry(p) \in Node
      BY <1>6, <2>1 DEF Entry
    <3>2. QED
      BY <3>1, FinalsAreIntegers
  <2>3. held' \in [Node \cup Builders -> Int]
    BY <1>6, <2>1, <2>2
  <2>4. QED
    BY <1>2, <1>5, <1>6, <1>7, <2>1, <2>3
<1>16. ASSUME NEW p \in Process, HandlerStores(p)
       PROVE  AccountsType'
  <2>1. /\ balance' = [balance EXCEPT ![Entry(p)] = held[p]]
        /\ stage' = [stage EXCEPT ![p] = "ended"]
        /\ UNCHANGED <<held, late>> /\ stage[p] = "read"
    BY <1>16 DEF HandlerStores
  <2>2. p \in Node \cup Builders
    BY <1>6, <2>1 DEF Process
  <2>3. held[p] \in Int
    BY <1>6, <2>2
  <2>4. balance' \in [User \cup Node -> Int]
    BY <1>6, <2>1, <2>3
  <2>5. \A b \in Builders : pc'[b] = "none" => stage'[b] = "runs"
    BY <1>2, <1>6, <1>7, <2>1
  <2>6. QED
    BY <1>2, <1>5, <1>6, <1>7, <2>1, <2>2, <2>4, <2>5
<1>17. ASSUME NEW u \in Process, UserAstray(u)
       PROVE  AccountsType'
  <2>1. PICK n \in Stray : balance' = [balance EXCEPT ![u] = n]
    BY <1>17 DEF UserAstray
  <2>2. /\ u \in User /\ stage' = [stage EXCEPT ![u] = "astray"]
        /\ UNCHANGED <<vars, held, late>>
    BY <1>17 DEF UserAstray
  <2>3. n \in Int
    BY <2>1, AccountsConstants
  <2>4. UNCHANGED pc
    BY <2>2 DEF vars
  <2>5. QED
    BY <1>5, <1>6, <1>7, <2>1, <2>2, <2>3, <2>4
<1>18. QED
  BY <1>8, <1>9, <1>10, <1>11, <1>12, <1>13, <1>14, <1>15, <1>16, <1>17 DEF AccountsNext

\* Whoever has read the ledger for its final balance has read it for good.
LEMMA ReadForGood ==
    ASSUME TypeOK, AccountsType, AccountsNext, SomebodyRead
    PROVE  SomebodyRead'
<1>1. PICK q \in Process : stage[q] \in {"read", "ended"}
  BY DEF SomebodyRead
<1>2. SUFFICES stage'[q] \in {"read", "ended"}
  BY DEF SomebodyRead, Process
<1>3. stage \in [Process -> {"runs", "load", "store", "insert", "read", "ended", "astray"}]
  BY DEF AccountsType
<1>4. ASSUME NEW b \in Builders, ForkBuilder(b)
      PROVE  stage'[q] \in {"read", "ended"}
  <2>1. stage[b] = "runs" /\ stage' = [stage EXCEPT ![b] = "load"]
    BY <1>4 DEF ForkBuilder, Fork, AccountsType
  <2>2. QED
    BY <1>1, <1>3, <2>1
<1>5. ASSUME NEW b \in Builders, Load(b) \/ Store(b)
      PROVE  stage'[q] \in {"read", "ended"}
  <2>1. /\ stage[b] \in {"load", "store"}
        /\ stage' = [stage EXCEPT ![b] = "store"] \/ stage' = [stage EXCEPT ![b] = "insert"]
    BY <1>5 DEF Load, Store
  <2>2. QED
    BY <1>1, <1>3, <2>1
<1>6. ASSUME NEW b \in Builders, Insert(b)
      PROVE  stage'[q] \in {"read", "ended"}
  BY <1>1, <1>6 DEF Insert
<1>7. Reset \/ InterruptAll => stage'[q] \in {"read", "ended"}
  BY <1>1 DEF Reset, InterruptAll, accounts
<1>8. ASSUME NEW p \in Process, UserEnds(p) \/ HandlerReads(p) \/ HandlerStores(p)
      PROVE  stage'[q] \in {"read", "ended"}
  <2>1. stage' = [stage EXCEPT ![p] = "read"] \/ stage' = [stage EXCEPT ![p] = "ended"]
    BY <1>8 DEF UserEnds, HandlerReads, HandlerStores
  <2>2. QED
    BY <1>1, <1>3, <2>1
<1>9. ASSUME NEW u \in Process, UserAstray(u)
      PROVE  stage'[q] \in {"read", "ended"}
  <2>1. stage[u] = "runs" /\ stage' = [stage EXCEPT ![u] = "astray"]
    BY <1>9 DEF UserAstray
  <2>2. QED
    BY <1>1, <1>3, <2>1
<1>10. QED
  BY <1>4, <1>5, <1>6, <1>7, <1>8, <1>9 DEF AccountsNext

\* A process that computes or stores its final balance has read.
LEMMA FinalReads ==
    ASSUME AccountsType, NEW p \in Process, UserEnds(p) \/ HandlerReads(p) \/ HandlerStores(p)
    PROVE  SomebodyRead'
<1>1. stage' = [stage EXCEPT ![p] = "read"] \/ stage' = [stage EXCEPT ![p] = "ended"]
  BY DEF UserEnds, HandlerReads, HandlerStores
<1>2. stage'[p] \in {"read", "ended"}
  BY <1>1 DEF AccountsType
<1>3. QED
  BY <1>2 DEF SomebodyRead, Process

\* Nobody's transactions change.
LEMMA MinedConstant == AccountsNext => mined' = mined
  BY DEF AccountsNext, ForkBuilder, Load, Store, Insert, Reset, InterruptAll, accounts,
         UserEnds, UserAstray, HandlerReads, HandlerStores

\* What builders add stays in their node's balance.
LEMMA AddedUpStep ==
    ASSUME TypeOK, AccountsType, AddedUp, AccountsNext
    PROVE  AddedUp'
<1> SUFFICES ASSUME ~SomebodyRead', NEW n \in Node \ {FirstExtra}, ~Overlap(n)'
             PROVE  /\ balance'[n] = Total(RewardSums', BuildersOf(n, {"insert"})')
                    /\ \A c \in BuildersOf(n, {"store"})' : held'[c] = balance'[n]
  BY DEF AddedUp
<1>1. ~SomebodyRead
  BY ReadForGood
<1>2. mined' = mined
  BY MinedConstant
<1>3. RewardSums' = RewardSums
  BY <1>2 DEF RewardSums, SumReward
<1>4. \A b \in Builders : RewardSums[b] = SumReward(b) /\ RewardSums[b] \in Int
  BY SumsAreFinite
<1>5. /\ stage \in [Process -> {"runs", "load", "store", "insert", "read", "ended", "astray"}]
      /\ held \in [Node \cup Builders -> Int]
      /\ balance \in [User \cup Node -> Int]
      /\ \A b \in Builders : mined[b].node \in Node
      /\ Builders \subseteq Process
      /\ n \in Node /\ n # FirstExtra
  BY DEF AccountsType, Process
<1>6. \/ \E b \in Builders : ForkBuilder(b) \/ Load(b) \/ Store(b) \/ Insert(b)
      \/ Reset \/ InterruptAll
      \/ \E u \in Process : UserAstray(u)
  BY FinalReads DEF AccountsNext
<1>7. ASSUME /\ \A b \in BuildersOf(n, {"store", "insert"}) : b \in BuildersOf(n, {"store", "insert"})'
             /\ \A b \in BuildersOf(n, {"store", "insert"}) : held'[b] = held[b]
      PROVE  /\ ~Overlap(n)
             /\ balance[n] = Total(RewardSums, BuildersOf(n, {"insert"}))
             /\ \A c \in BuildersOf(n, {"store"}) : held[c] = balance[n]
  <2>1. ~Overlap(n)
    <3> SUFFICES ASSUME Overlap(n) PROVE FALSE
      OBVIOUS
    <3>1. PICK b, c \in BuildersOf(n, {"store", "insert"}) : b # c /\ held[b] = held[c]
      BY DEF Overlap
    <3>2. /\ b \in BuildersOf(n, {"store", "insert"})' /\ c \in BuildersOf(n, {"store", "insert"})'
          /\ b # c /\ held'[b] = held'[c]
      BY <1>7, <3>1
    <3>3. Overlap(n)'
      BY <3>2 DEF Overlap
    <3>4. QED
      BY <3>3
  <2>2. QED
    BY <1>1, <2>1 DEF AddedUp
<1>8. ASSUME UNCHANGED <<held, stage>>, balance'[n] = balance[n]
      PROVE  /\ balance'[n] = Total(RewardSums', BuildersOf(n, {"insert"})')
             /\ \A c \in BuildersOf(n, {"store"})' : held'[c] = balance'[n]
  <2>1. /\ BuildersOf(n, {"insert"})' = BuildersOf(n, {"insert"})
        /\ BuildersOf(n, {"store"})' = BuildersOf(n, {"store"})
        /\ BuildersOf(n, {"store", "insert"})' = BuildersOf(n, {"store", "insert"})
    BY <1>2, <1>8 DEF BuildersOf
  <2>2. QED
    BY <1>3, <1>7, <1>8, <2>1
<1>9. ASSUME NEW b \in Builders, ForkBuilder(b)
      PROVE  /\ balance'[n] = Total(RewardSums', BuildersOf(n, {"insert"})')
             /\ \A c \in BuildersOf(n, {"store"})' : held'[c] = balance'[n]
  <2>1. stage[b] = "runs" /\ stage' = [stage EXCEPT ![b] = "load"] /\ UNCHANGED <<held, balance>>
    BY <1>9 DEF ForkBuilder, Fork, AccountsType
  <2>2. /\ BuildersOf(n, {"insert"})' = BuildersOf(n, {"insert"})
        /\ BuildersOf(n, {"store"})' = BuildersOf(n, {"store"})
        /\ BuildersOf(n, {"store", "insert"})' = BuildersOf(n, {"store", "insert"})
    BY <1>2, <1>5, <2>1 DEF BuildersOf
  <2>3. QED
    BY <1>3, <1>7, <2>1, <2>2
<1>10. ASSUME NEW b \in Builders, Load(b)
       PROVE  /\ balance'[n] = Total(RewardSums', BuildersOf(n, {"insert"})')
              /\ \A c \in BuildersOf(n, {"store"})' : held'[c] = balance'[n]
  <2>1. /\ stage[b] = "load" /\ stage' = [stage EXCEPT ![b] = "store"]
        /\ held' = [held EXCEPT ![b] = balance[mined[b].node]] /\ UNCHANGED balance
    BY <1>10 DEF Load
  <2>2. /\ BuildersOf(n, {"insert"})' = BuildersOf(n, {"insert"})
        /\ \A c \in BuildersOf(n, {"store"})' :
              \/ c \in BuildersOf(n, {"store"}) /\ c # b
              \/ c = b /\ mined[b].node = n
        /\ \A c \in BuildersOf(n, {"store", "insert"}) :
              c # b /\ c \in BuildersOf(n, {"store", "insert"})'
    BY <1>2, <1>5, <2>1 DEF BuildersOf
  <2>3. \A c \in Builders : held'[c] = IF c = b THEN balance[mined[b].node] ELSE held[c]
    BY <1>5, <2>1
  <2>4. \A c \in BuildersOf(n, {"store", "insert"}) : held'[c] = held[c]
    BY <2>2, <2>3 DEF BuildersOf
  <2>5. /\ balance[n] = Total(RewardSums, BuildersOf(n, {"insert"}))
        /\ \A c \in BuildersOf(n, {"store"}) : held[c] = balance[n]
    BY <1>7, <2>2, <2>4
  <2>6. ASSUME NEW c \in BuildersOf(n, {"store"})' PROVE held'[c] = balance'[n]
    <3>1. c \in Builders
      BY DEF BuildersOf
    <3>2. QED
      BY <2>1, <2>2, <2>3, <2>5, <3>1
  <2>7. QED
    BY <1>3, <2>1, <2>2, <2>5, <2>6
<1>11. ASSUME NEW b \in Builders, Store(b)
       PROVE  /\ balance'[n] = Total(RewardSums', BuildersOf(n, {"insert"})')
              /\ \A c \in BuildersOf(n, {"store"})' : held'[c] = balance'[n]
  <2>1. /\ stage[b] = "store" /\ stage' = [stage EXCEPT ![b] = "insert"]
        /\ balance' = [balance EXCEPT ![mined[b].node] = Added(b)] /\ UNCHANGED held
    BY <1>11 DEF Store
  <2>2. /\ \A c \in BuildersOf(n, {"store", "insert"}) : c \in BuildersOf(n, {"store", "insert"})'
        /\ \A c \in BuildersOf(n, {"store"})' : c \in BuildersOf(n, {"store"}) /\ c # b
    BY <1>2, <1>5, <2>1 DEF BuildersOf
  <2>3. /\ ~Overlap(n)
        /\ balance[n] = Total(RewardSums, BuildersOf(n, {"insert"}))
        /\ \A c \in BuildersOf(n, {"store"}) : held[c] = balance[n]
    BY <1>7, <2>1, <2>2
  <2>4. CASE mined[b].node = n
    <3>1. /\ b \in BuildersOf(n, {"store"}) /\ b \notin BuildersOf(n, {"insert"})
          /\ BuildersOf(n, {"insert"})' = BuildersOf(n, {"insert"}) \cup {b}
      BY <1>2, <1>5, <2>1, <2>4 DEF BuildersOf
    <3>2. balance'[n] = SumReward(b) + balance[n]
      <4>1. balance'[n] = Added(b)
        BY <1>5, <2>1, <2>4
      <4>2. Added(b) = held[b] + SumReward(b) /\ held[b] = balance[n]
        BY <2>3, <3>1 DEF Added
      <4>3. balance[n] \in Int /\ SumReward(b) \in Int
        BY <1>4, <1>5
      <4>4. QED
        BY <4>1, <4>2, <4>3
    <3>3. Total(RewardSums, BuildersOf(n, {"insert"}) \cup {b})
             = RewardSums[b] + Total(RewardSums, BuildersOf(n, {"insert"}))
      <4>1. PICK S : S = BuildersOf(n, {"insert"})
        OBVIOUS
      <4>2. IsFiniteSet(S) /\ \A c \in S : RewardSums[c] \in Int
        <5>1. S \subseteq Builders
          BY <4>1 DEF BuildersOf
        <5>2. QED
          BY <1>4, <5>1, AccountsConstants, FS_Subset
      <4>3. b \notin S /\ RewardSums[b] \in Int
        BY <1>4, <3>1, <4>1
      <4>4. Total(RewardSums, S \cup {b}) = RewardSums[b] + Total(RewardSums, S)
        BY <4>2, <4>3, TotalAdd
      <4>5. QED
        BY <4>1, <4>4
    <3>4. \A c \in BuildersOf(n, {"store"})' : FALSE
      <4> SUFFICES ASSUME NEW c \in BuildersOf(n, {"store"})' PROVE FALSE
        OBVIOUS
      <4>1. c \in BuildersOf(n, {"store"}) /\ c # b
        BY <2>2
      <4>2. held[c] = held[b]
        BY <2>3, <3>1, <4>1
      <4>3. \A d \in BuildersOf(n, {"store"}) : d \in BuildersOf(n, {"store", "insert"})
        BY DEF BuildersOf
      <4>4. Overlap(n)
        BY <3>1, <4>1, <4>2, <4>3 DEF Overlap
      <4>5. QED
        BY <2>3, <4>4
    <3>5. QED
      BY <1>3, <1>4, <2>3, <3>1, <3>2, <3>3, <3>4
  <2>5. CASE mined[b].node # n
    <3>1. /\ BuildersOf(n, {"insert"})' = BuildersOf(n, {"insert"})
          /\ BuildersOf(n, {"store"})' = BuildersOf(n, {"store"})
      BY <1>2, <1>5, <2>1, <2>5 DEF BuildersOf
    <3>2. balance'[n] = balance[n]
      BY <1>5, <2>1, <2>5
    <3>3. QED
      BY <1>3, <2>1, <2>3, <3>1, <3>2
  <2>6. QED
    BY <2>4, <2>5
<1>12. ASSUME NEW b \in Builders, Insert(b)
       PROVE  UNCHANGED <<held, stage>> /\ balance'[n] = balance[n]
  BY <1>12 DEF Insert
<1>13. Reset => UNCHANGED <<held, stage>> /\ balance'[n] = balance[n]
  <2> SUFFICES ASSUME Reset PROVE UNCHANGED <<held, stage>> /\ balance'[n] = balance[n]
    OBVIOUS
  <2>1. balance' = [balance EXCEPT ![FirstExtra] = 0] /\ UNCHANGED <<held, stage>>
    BY DEF Reset
  <2>2. QED
    BY <1>5, <2>1
<1>14. InterruptAll => UNCHANGED <<held, stage>> /\ balance'[n] = balance[n]
  BY DEF InterruptAll, accounts
<1>15. ASSUME NEW u \in Process, UserAstray(u)
       PROVE  /\ balance'[n] = Total(RewardSums', BuildersOf(n, {"insert"})')
              /\ \A c \in BuildersOf(n, {"store"})' : held'[c] = balance'[n]
  <2>1. u \in User /\ stage' = [stage EXCEPT ![u] = "astray"] /\ held' = held
    BY <1>15 DEF UserAstray
  <2>2. balance'[n] = balance[n]
    BY <1>5, <1>15, AccountsConstants DEF UserAstray
  <2>3. /\ BuildersOf(n, {"insert"})' = BuildersOf(n, {"insert"})
        /\ BuildersOf(n, {"store"})' = BuildersOf(n, {"store"})
        /\ BuildersOf(n, {"store", "insert"})' = BuildersOf(n, {"store", "insert"})
    BY <1>2, <1>5, <2>1, AccountsConstants DEF BuildersOf
  <2>4. QED
    BY <1>3, <1>7, <2>1, <2>2, <2>3
<1>16. QED
  BY <1>6, <1>8, <1>9, <1>10, <1>11, <1>12, <1>13, <1>14, <1>15

\* Final balances follow from the ledger and from whose the builders are.
LEMMA FinalsKept ==
    ASSUME TypeOK, AccountsType, TypeOK', AccountsType', ledger' = ledger, mined' = mined
    PROVE  /\ \A u \in User : Net(u)' = Net(u)
           /\ \A n \in Node : AccurateBalance(n)' = AccurateBalance(n)
<1>1. Transactions' = Transactions
  BY DEF Transactions, Seen, Visible
<1>2. Effects' = Effects
  BY <1>1 DEF Effects, Effect, MinerOf
<1>3. BlockRewards' = BlockRewards
  BY DEF BlockRewards, SumReward
<1>4. \A n \in Node : Blocks(n)' = Blocks(n)
  BY DEF Blocks, Visible
<1>5. /\ \A u \in User : Net(u) = Total(Effects[u], Transactions)
      /\ \A n \in Node : AccurateBalance(n) = Total(BlockRewards, Blocks(n))
  BY SumsAreTotals DEF SumsAddUp
<1>6. /\ \A u \in User : Net(u)' = Total(Effects'[u], Transactions')
      /\ \A n \in Node : AccurateBalance(n)' = Total(BlockRewards', Blocks(n)')
  BY SumsAreTotalsNext DEF SumsAddUp
<1>7. QED
  BY <1>1, <1>2, <1>3, <1>4, <1>5, <1>6

\* Final balances are exact until shared memory changes under them.
LEMMA ExactStep ==
    ASSUME TypeOK, TypeOK', AccountsType, AccountsType', Exact, AccountsNext
    PROVE  Exact'
<1> SUFFICES ASSUME ~late' PROVE Exact'
  BY DEF Exact
<1>1. mined' = mined
  BY MinedConstant
<1>2. \A p \in Node \cup Builders : Entry(p)' = Entry(p) /\ Entry(p) \in Node
  BY <1>1, AccountsConstants DEF Entry, AccountsType
<1>3. ~late
  <2>1. \A b \in Builders : ForkBuilder(b) \/ Load(b) \/ Store(b) \/ Insert(b) => (late => late')
    BY DEF ForkBuilder, Load, Store, Insert
  <2>2. Reset \/ InterruptAll => (late => late')
    BY DEF Reset, InterruptAll, accounts
  <2>3. \A p \in Process :
           UserEnds(p) \/ UserAstray(p) \/ HandlerReads(p) \/ HandlerStores(p) => (late => late')
    BY DEF UserEnds, UserAstray, HandlerReads, HandlerStores
  <2>4. QED
    BY <2>1, <2>2, <2>3 DEF AccountsNext
<1>4. /\ \A u \in User : stage[u] = "ended" => balance[u] = SO_BUDGET_INIT + Net(u)
      /\ \A p \in Node \cup Builders : stage[p] = "read" => held[p] = AccurateBalance(Entry(p))
      /\ \A n \in Node : stage[n] = "ended" => balance[n] = AccurateBalance(n)
  BY <1>3 DEF Exact
<1>5. /\ stage \in [Process -> {"runs", "load", "store", "insert", "read", "ended", "astray"}]
      /\ held \in [Node \cup Builders -> Int]
      /\ balance \in [User \cup Node -> Int]
      /\ \A b \in Builders : mined[b].node \in Node
      /\ User \subseteq Process /\ Node \subseteq Process /\ Builders \subseteq Process
      /\ \A p \in User : p \notin Node /\ p \notin Builders
      /\ \A p \in Node : p \notin Builders
  BY AccountsConstants DEF AccountsType, Process
<1>6. ASSUME ~SomebodyRead'
      PROVE  Exact'
  <2>1. \A p \in Process : stage'[p] \notin {"read", "ended"}
    BY <1>6 DEF SomebodyRead, Process
  <2>2. QED
    BY <1>5, <2>1 DEF Exact
<1>7. ASSUME ledger' = ledger,
             \A u \in User : stage'[u] = "ended" => balance'[u] = SO_BUDGET_INIT + Net(u),
             \A p \in Node \cup Builders : stage'[p] = "read" => held'[p] = AccurateBalance(Entry(p)),
             \A n \in Node : stage'[n] = "ended" => balance'[n] = AccurateBalance(n)
      PROVE  Exact'
  <2>1. /\ \A u \in User : Net(u)' = Net(u)
        /\ \A n \in Node : AccurateBalance(n)' = AccurateBalance(n)
    BY <1>1, <1>7, FinalsKept
  <2>2. \A p \in Node \cup Builders : AccurateBalance(Entry(p))' = AccurateBalance(Entry(p))
    BY <1>2, <2>1
  <2>3. QED
    BY <1>7, <2>1, <2>2 DEF Exact
<1>8. ASSUME NEW b \in Builders, ForkBuilder(b)
      PROVE  Exact'
  <2>1. stage' = [stage EXCEPT ![b] = "load"] /\ UNCHANGED <<balance, held, ledger>>
    BY <1>8 DEF ForkBuilder, Fork
  <2>2. QED
    BY <1>4, <1>5, <1>7, <2>1
<1>9. ASSUME NEW b \in Builders, Load(b)
      PROVE  Exact'
  <2>1. /\ stage' = [stage EXCEPT ![b] = "store"] /\ UNCHANGED <<balance, ledger>>
        /\ held' = [held EXCEPT ![b] = balance[mined[b].node]]
    BY <1>9 DEF Load, vars
  <2>2. QED
    BY <1>4, <1>5, <1>7, <2>1
<1>10. ASSUME NEW b \in Builders, Store(b)
       PROVE  Exact'
  <2>1. stage' = [stage EXCEPT ![b] = "insert"] /\ ~SomebodyRead
    BY <1>10 DEF Store
  <2>2. ~SomebodyRead'
    <3>1. \A p \in Process : stage[p] \notin {"read", "ended"}
      BY <2>1 DEF SomebodyRead
    <3>2. \A p \in Process : stage'[p] \notin {"read", "ended"}
      BY <1>5, <2>1, <3>1
    <3>3. QED
      BY <3>2 DEF SomebodyRead, Process
  <2>3. QED
    BY <1>6, <2>2
<1>11. ASSUME NEW b \in Builders, Insert(b)
       PROVE  Exact'
  <2>1. UNCHANGED <<balance, held, stage>> /\ (ledger' = ledger \/ ~SomebodyRead)
    BY <1>11 DEF Insert
  <2>2. CASE ledger' = ledger
    BY <1>4, <1>7, <2>1, <2>2
  <2>3. CASE ~SomebodyRead
    <3>1. ~SomebodyRead'
      BY <2>1, <2>3 DEF SomebodyRead, Process
    <3>2. QED
      BY <1>6, <3>1
  <2>4. QED
    BY <2>1, <2>2, <2>3
<1>12. CASE Reset
  <2>1. ~SomebodyRead'
    BY <1>12 DEF Reset, SomebodyRead, Process
  <2>2. QED
    BY <1>6, <2>1
<1>13. CASE InterruptAll
  <2>1. UNCHANGED <<balance, held, stage, ledger>>
    BY <1>13 DEF InterruptAll, Interrupt, accounts
  <2>2. QED
    BY <1>4, <1>7, <2>1
<1>14. ASSUME NEW u \in Process, UserEnds(u)
       PROVE  Exact'
  <2>1. /\ u \in User /\ stage' = [stage EXCEPT ![u] = "ended"]
        /\ balance' = [balance EXCEPT ![u] = SO_BUDGET_INIT + Net(u)]
        /\ UNCHANGED <<held, ledger>>
    BY <1>14 DEF UserEnds, vars
  <2>2. QED
    BY <1>4, <1>5, <1>7, <2>1
<1>15. ASSUME NEW p \in Process, HandlerReads(p)
       PROVE  Exact'
  <2>1. /\ p \in Node \cup Builders
        /\ held' = [held EXCEPT ![p] = AccurateBalance(Entry(p))]
        /\ stage' = [stage EXCEPT ![p] = "read"]
        /\ UNCHANGED <<balance, ledger>>
    BY <1>15 DEF HandlerReads, Killed, vars
  <2>2. QED
    BY <1>4, <1>5, <1>7, <2>1
<1>16. ASSUME NEW p \in Process, HandlerStores(p)
       PROVE  Exact'
  <2>1. /\ balance' = [balance EXCEPT ![Entry(p)] = held[p]]
        /\ stage' = [stage EXCEPT ![p] = "ended"]
        /\ UNCHANGED <<held, ledger>> /\ stage[p] = "read"
    BY <1>16 DEF HandlerStores, vars
  <2>2. p \in Node \cup Builders
    BY <2>1 DEF AccountsType, Process
  <2>3. held[p] = AccurateBalance(Entry(p)) /\ Entry(p) \in Node
    BY <1>2, <1>4, <2>1, <2>2
  <2>4. \A u \in User : stage'[u] = "ended" => balance'[u] = SO_BUDGET_INIT + Net(u)
    BY <1>4, <1>5, <2>1, <2>2, <2>3
  <2>5. \A q \in Node \cup Builders : stage'[q] = "read" => held'[q] = AccurateBalance(Entry(q))
    BY <1>4, <1>5, <2>1
  <2>6. \A n \in Node : stage'[n] = "ended" => balance'[n] = AccurateBalance(n)
    <3> SUFFICES ASSUME NEW n \in Node, stage'[n] = "ended"
                 PROVE  balance'[n] = AccurateBalance(n)
      OBVIOUS
    <3>1. CASE n = Entry(p)
      BY <1>5, <2>1, <2>3, <3>1
    <3>2. CASE n # Entry(p)
      <4>1. n # p
        BY <1>5, <3>2 DEF Entry
      <4>2. stage[n] = "ended" /\ balance'[n] = balance[n]
        BY <1>5, <2>1, <3>2, <4>1
      <4>3. QED
        BY <1>4, <4>2
    <3>3. QED
      BY <3>1, <3>2
  <2>7. QED
    BY <1>7, <2>1, <2>4, <2>5, <2>6
<1>17. ASSUME NEW u \in Process, UserAstray(u)
       PROVE  Exact'
  <2>1. PICK m \in Stray : balance' = [balance EXCEPT ![u] = m]
    BY <1>17 DEF UserAstray
  <2>2. /\ u \in User /\ stage' = [stage EXCEPT ![u] = "astray"]
        /\ UNCHANGED <<held, ledger>>
    BY <1>17 DEF UserAstray, vars
  <2>3. QED
    BY <1>4, <1>5, <1>7, <2>1, <2>2
<1>18. QED
  BY <1>8, <1>9, <1>10, <1>11, <1>12, <1>13, <1>14, <1>15, <1>16, <1>17 DEF AccountsNext

\* A state looks the same after a step that changes nothing.
LEMMA AccountsStutter ==
    ASSUME TypeOK, TypeOK', AccountsInv, UNCHANGED all
    PROVE  AccountsInv'
<1>1. UNCHANGED <<mined, balance, held, stage, late, ledger, pc>>
  BY DEF all, vars, accounts
<1>2. AccountsType'
  BY <1>1 DEF AccountsInv, AccountsType
<1>3. AddedUp'
  <2>1. SomebodyRead' = SomebodyRead /\ RewardSums' = RewardSums
    BY <1>1 DEF SomebodyRead, RewardSums, SumReward, Process
  <2>2. \A n \in Node :
           /\ BuildersOf(n, {"insert"})' = BuildersOf(n, {"insert"})
           /\ BuildersOf(n, {"store"})' = BuildersOf(n, {"store"})
           /\ Overlap(n)' <=> Overlap(n)
    BY <1>1 DEF Overlap, BuildersOf
  <2>3. QED
    BY <1>1, <2>1, <2>2 DEF AccountsInv, AddedUp
<1>4. Exact'
  <2>1. /\ \A u \in User : Net(u)' = Net(u)
        /\ \A n \in Node : AccurateBalance(n)' = AccurateBalance(n)
    BY <1>1, <1>2, FinalsKept DEF AccountsInv
  <2>2. \A p \in Node \cup Builders : Entry(p)' = Entry(p) /\ Entry(p) \in Node
    BY <1>1, AccountsConstants DEF Entry, AccountsInv, AccountsType
  <2>3. \A p \in Node \cup Builders : AccurateBalance(Entry(p))' = AccurateBalance(Entry(p))
    BY <2>1, <2>2
  <2>4. QED
    BY <1>1, <2>1, <2>3 DEF AccountsInv, Exact
<1>5. QED
  BY <1>2, <1>3, <1>4 DEF AccountsInv

\* The balances, from the first state on.
THEOREM AccountsInvariant == AccountsSpec => [](IInv /\ AccountsInv)
<1>1. AccountsSpec => []IInv
  BY AccountsKeepLedger, InductiveInvariant, PTL
<1>2. IInv /\ IInv' /\ AccountsInv /\ [AccountsNext]_all => AccountsInv'
  <2> SUFFICES ASSUME IInv, IInv', AccountsInv, [AccountsNext]_all PROVE AccountsInv'
    OBVIOUS
  <2>1. TypeOK /\ TypeOK'
    BY DEF IInv
  <2>2. AccountsType /\ AddedUp /\ Exact
    BY DEF AccountsInv
  <2>3. CASE UNCHANGED all
    BY <2>1, <2>3, AccountsStutter
  <2>4. CASE AccountsNext
    <3>1. AccountsType'
      BY <2>1, <2>2, <2>4, AccountsTypeStep
    <3>2. AddedUp'
      BY <2>1, <2>2, <2>4, AddedUpStep
    <3>3. Exact'
      BY <2>1, <2>2, <2>4, <3>1, ExactStep
    <3>4. QED
      BY <3>1, <3>2, <3>3 DEF AccountsInv
  <2>5. QED
    BY <2>3, <2>4
<1>3. QED
  BY <1>1, <1>2, AccountsInitially, PTL DEF AccountsSpec

\* A node's balance is the sum of what its builders have added in new_block,
\* unless two of them loaded the same balance.
THEOREM RewardsAddUp == AccountsSpec => []RewardLostOnlyByOverlap
<1>1. IInv /\ AccountsInv => RewardLostOnlyByOverlap
  <2> SUFFICES ASSUME IInv, AccountsInv, ~SomebodyRead, NEW n \in Node \ {FirstExtra}
               PROVE  \/ balance[n] = MapThenSumSet(SumReward, BuildersOf(n, {"insert"}))
                      \/ \E b, c \in BuildersOf(n, {"store", "insert"}) : b # c /\ held[b] = held[c]
    BY DEF RewardLostOnlyByOverlap, BuildersOf
  <2>1. Overlap(n) \/ balance[n] = Total(RewardSums, BuildersOf(n, {"insert"}))
    BY DEF AccountsInv, AddedUp
  <2>2. BuildersOf(n, {"insert"}) \in SUBSET Builders
    BY DEF BuildersOf
  <2>3. MapThenSumSet(SumReward, BuildersOf(n, {"insert"})) = Total(RewardSums, BuildersOf(n, {"insert"}))
    BY <2>2, SumsAreTotals DEF SumsAddUp, IInv, AccountsInv
  <2>4. QED
    BY <2>1, <2>3 DEF Overlap
<1>2. QED
  BY <1>1, AccountsInvariant, PTL

\* The balances in the master's table (print.c) sum up to the initial money,
\* unless something that is named in TotalConserved has happened.
THEOREM MoneyIsConserved == AccountsSpec => []TotalConserved
<1>1. IInv /\ AccountsInv => TotalConserved
  <2> SUFFICES ASSUME IInv, AccountsInv, Prints,
                      ~late, stage[FirstExtra] = "ended", ~Collision, ~HalfWritten,
                      \A u \in User : stage[u] # "astray"
               PROVE  MapThenSumSet(LAMBDA p : balance[p], User \cup Node)
                         = SO_BUDGET_INIT * Cardinality(User)
    BY DEF TotalConserved
  <2> DEFINE Budgets == [u \in User |-> SO_BUDGET_INIT]
  <2>0. TypeOK /\ AccountsType
    BY DEF IInv, AccountsInv
  <2>1. \A p \in User \cup Node : stage[p] = "ended"
    <3>1. \A p \in (User \cup Node) \ {FirstExtra} : stage[p] \in {"ended", "astray"}
      BY DEF Prints
    <3>2. \A n \in Node : stage[n] # "astray"
      BY <2>0 DEF AccountsType
    <3>3. QED
      BY <3>1, <3>2
  <2>2. /\ \A u \in User : balance[u] = SO_BUDGET_INIT + Net(u)
        /\ \A n \in Node : balance[n] = AccurateBalance(n)
    BY <2>1 DEF AccountsInv, Exact
  <2>3. /\ \A u \in User : Nets[u] = Net(u) /\ Net(u) \in Int
        /\ \A n \in Node : Gains[n] = AccurateBalance(n) /\ AccurateBalance(n) \in Int
    BY <2>0, FinalsAreIntegers
  <2>4. SO_BUDGET_INIT \in Int /\ \A u \in User : Budgets[u] = SO_BUDGET_INIT
    BY AccountsConstants
  <2> HIDE DEF Budgets
  <2>5. \A u \in User : /\ Budgets[u] \in Int /\ Nets[u] \in Int
                        /\ balance[u] = Budgets[u] + Nets[u]
    BY <2>2, <2>3, <2>4
  <2>6. Total(balance, User) = Total(Budgets, User) + Total(Nets, User)
    BY <2>5, AccountsConstants, TotalPlus
  <2>7. Total(Budgets, User) = SO_BUDGET_INIT * Cardinality(User)
    BY <2>4, AccountsConstants, TotalConstant
  <2>8. Total(balance, Node) = Total(Gains, Node)
    <3>1. \A n \in Node : Gains[n] \in Int /\ Gains[n] = balance[n]
      BY <2>2, <2>3
    <3>2. Total(Gains, Node) = Total(balance, Node)
      BY <3>1, AccountsConstants, TotalSame
    <3>3. QED
      BY <3>2
  <2>9. Total(balance, User \cup Node) = Total(balance, User) + Total(balance, Node)
    <3>1. PICK T : T = User \cup Node
      OBVIOUS
    <3>2. IsFiniteSet(T)
      BY <3>1, AccountsConstants, FS_Union
    <3>3. User \subseteq T /\ T \ User = Node
      BY <3>1, AccountsConstants
    <3>4. \A p \in T : balance[p] \in Int
      BY <2>0, <3>1 DEF AccountsType
    <3>5. Total(balance, T) = Total(balance, User) + Total(balance, T \ User)
      BY <3>2, <3>3, <3>4, TotalUnion
    <3>6. QED
      BY <3>1, <3>3, <3>5
  <2>10. Total(Nets, User) + Total(Gains, Node) = 0
    BY <2>0, GainsAreLosses
  <2>11. Total(Nets, User) \in Int /\ Total(Gains, Node) \in Int
    <3>1. \A u \in User : Nets[u] \in Int
      BY <2>3
    <3>2. \A n \in Node : Gains[n] \in Int
      BY <2>3
    <3>3. Total(Nets, User) \in Int
      BY <3>1, AccountsConstants, TotalAdd
    <3>4. Total(Gains, Node) \in Int
      BY <3>2, AccountsConstants, TotalAdd
    <3>5. QED
      BY <3>3, <3>4
  <2>12. Cardinality(User) \in Nat
    BY AccountsConstants, FS_CardinalityType
  <2>13. Total(balance, User \cup Node) = SO_BUDGET_INIT * Cardinality(User)
    <3>1. PICK k : k = SO_BUDGET_INIT * Cardinality(User)
      OBVIOUS
    <3>2. k \in Int
      BY <2>4, <2>12, <3>1
    <3>3. Total(balance, User \cup Node) = (k + Total(Nets, User)) + Total(Gains, Node)
      BY <2>6, <2>7, <2>8, <2>9, <3>1
    <3>4. QED
      BY <2>10, <2>11, <3>1, <3>2, <3>3
  <2>14. QED
    BY <2>0, <2>13, SumsAreTotals DEF SumsAddUp
<1>2. QED
  BY <1>1, AccountsInvariant, PTL

===============================================================================
