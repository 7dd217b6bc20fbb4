------------------------------ MODULE UserProofs -------------------------------
(***************************************************************************)
(* Proofs about a user (User.tla), for any budget, reward, number of       *)
(* retries, and any bounds.                                                *)
(***************************************************************************)
EXTENDS User, DataLemmas, TLAPS

-------------------------------------------------------------------------------
(* The invariant: types and the stack. *)

Transactions == [mine : BOOLEAN, amount : Nat, reward : Nat, timestamp : Nat]
Own          == [mine : {TRUE}, amount : Nat, reward : Nat, timestamp : Nat]

Fates == {"pending", "confirmed", "discarded", "overwritten"}

\* Where main and SIGUSR1's handler may be, and where SIGINT's.
LoopPcs == {"copy", "walk", "publish", "check", "draw", "compose", "send", "track"}
IntPcs  == {"copy", "walk", "publish", "settle", "refund", "exit"}

FrameType ==
    [proc : {"main", "usr1", "int"}, masked : SUBSET {"usr1", "int"},
     pc : LoopPcs \cup IntPcs, view : SUBSET Nat, temp : 0 .. Width - 1,
     draw : Own \cup {None}, retry : 0 .. Width - 1, listed : BOOLEAN]

\* A frame f: where it may be, and what it has by then.
FrameOK(f) ==
    /\ f \in FrameType
    /\ f.view \subseteq DOMAIN message
    /\ f.pc \in IF f.proc = "int" THEN IntPcs ELSE LoopPcs
    /\ f.proc = "main" => f.masked = {}
    /\ f.proc = "usr1" => "usr1" \in f.masked
    /\ f.proc = "int" => "int" \in f.masked
    /\ f.pc = "compose" => f.draw \in Own
    /\ f.pc \in {"send", "track"} => transMsg \in Own
    /\ f.listed => f.proc = "int" /\ recorded

\* Main or SIGINT's handler, and perhaps SIGUSR1's above it.
Stack ==
    /\ frames \in Seq(FrameType)
    /\ Len(frames) \in 1 .. 2
    /\ \A k \in 1 .. Len(frames) : FrameOK(frames[k])
    /\ frames[1].proc # "usr1"
    /\ Len(frames) = 2 => frames[2].proc = "usr1"

\* Types of the variables that are no frames.
DataType ==
    /\ recorded \in BOOLEAN /\ sigint \in BOOLEAN
    /\ status \in {"alive", "broke", "dead"}
    /\ balance \in 0 .. Width - 1 /\ currBalance \in 0 .. Width - 1
    /\ life \in {"runs", "exited", "segv", "fpe"}
    /\ outgoing \in Seq(Transactions)
    /\ transMsg \in Own \cup {None}
    /\ clock \in 1 .. MaxClock + 1
    /\ message \in Seq(Transactions)
    /\ fate \in Seq(Fates)
    /\ Len(fate) = Len(message)
    /\ signals \in 0 .. MaxSignals

\* Others have not paid more than the bounds of the model allow.
Bounded ==
    /\ \A n \in Theirs(DOMAIN message) : message[n].amount <= MaxDraw
    /\ Cardinality(Theirs(DOMAIN message)) <= MaxPayments

UserType == DataType /\ Stack /\ Bounded

-------------------------------------------------------------------------------
(* The invariant: a user that has taken no SIGUSR1, and whose only frame is f. *)

\* Where t is in a list.
In(t, list) == \E p \in 1 .. Len(list) : list[p] = t

\* No transaction is twice in a list.
NoneTwice(list) == \A p, q \in 1 .. Len(list) : list[p] = list[q] => p = q

\* Message n is in the list of outgoing transactions.
Tracked(n) == In(message[n], outgoing)

\* It has been sent, and will be put into the list next.
Sent(f, n) == f.pc = "track" /\ message[n] = transMsg

\* No two transactions of the user are equal, neither sent nor outgoing.
Distinct ==
    /\ \A n \in Mine(DOMAIN message) : message[n].timestamp < clock
    /\ \A n, k \in Mine(DOMAIN message) : message[n] = message[k] => n = k
    /\ NoneTwice(outgoing)
    /\ \A p \in 1 .. Len(outgoing) : \E n \in Mine(DOMAIN message) : outgoing[p] = message[n]

\* What is being sent is new, until it is tracked.
Sending(f) ==
    /\ f.pc = "send" =>
          /\ transMsg.timestamp < clock
          /\ \A n \in Mine(DOMAIN message) : message[n].timestamp < transMsg.timestamp
    /\ f.pc = "track" =>
          /\ \E n \in Mine(DOMAIN message) : transMsg = message[n]
          /\ ~ In(transMsg, outgoing)

\* Main's list has every transaction that is not in the ledger ...
Kept(f) ==
    f.proc = "main" =>
        \A n \in Mine(DOMAIN message) :
            fate[n] \in {"pending", "discarded"} => Tracked(n) \/ Sent(f, n)

\* ... and one that is in the ledger but not in the list is in the copy, which
\* shows what was confirmed when it was made.
Copied(f) ==
    f.pc = "walk" =>
        /\ f.view \subseteq Confirmed \cup Overwritten
        /\ f.proc = "main" => \A n \in Mine(Confirmed) : n \in f.view \/ Tracked(n)

\* SIGINT's handler: what it has computed, in the local variable, in the entry,
\* and at the end.
Settling(f) ==
    /\ life = "exited" => f.pc = "exit"
    /\ life # "runs" => f.pc # "track"
    /\ f.proc = "int" /\ f.pc = "publish" =>
          f.temp = SO_BUDGET_INIT + Net(f.view) - CostOf(outgoing)
    /\ f.listed /\ f.pc \in {"settle", "refund"} =>
          balance = SO_BUDGET_INIT + Net(f.view) - CostOf(outgoing)
    /\ f.listed /\ f.pc \in {"settle", "refund", "exit"} =>
          SO_BUDGET_INIT + Net(f.view) \in 0 .. Width - 1
    /\ f.listed /\ f.pc = "exit" => balance = SO_BUDGET_INIT + Net(f.view)

Quiet(f) ==
    /\ status = "dead" => life # "runs" \/ f.proc = "int"
    /\ Distinct /\ Sending(f) /\ Kept(f) /\ Copied(f) /\ Settling(f)
    /\ f.pc = "draw" => currBalance >= 2

-------------------------------------------------------------------------------
(* The invariant: its money, as long as the ledger has lost no payment to it. *)

Calm == signals = 0 /\ Theirs(Overwritten) = {}

Amounts == [n \in DOMAIN message |-> message[n].amount]
Costs   == [n \in DOMAIN message |-> Cost(message[n])]

\* The transactions that count against the user: those it will see deducted.
Charged(f) ==
    {n \in Mine(DOMAIN message) : fate[n] # "overwritten" \/ Tracked(n) \/ Sent(f, n)}

\* What it has left, whatever it knows of it.
Rest(f) == SO_BUDGET_INIT + Total(Amounts, Theirs(Confirmed)) - Total(Costs, Charged(f))

\* Those that the walk deducts.
Deducted(view) == Mine(view) \cup {n \in Mine(DOMAIN message) : Tracked(n)}

\* What the walk over a copy finds.
Worth(view) ==
    SO_BUDGET_INIT + Total(Amounts, Theirs(view)) - Total(Costs, Deducted(view))

\* The user has never more in mind than it has left.
Solvent(f) ==
    /\ life \notin {"segv", "fpe"}
    /\ 0 <= Rest(f)
    /\ f.pc = "walk" => 0 <= Worth(f.view)
    /\ f.proc = "main" =>
          /\ f.pc = "publish" => f.temp <= Rest(f)
          /\ f.pc \in {"check", "draw"} => currBalance <= Rest(f)
          /\ f.pc = "compose" => Cost(f.draw) <= Rest(f)
          /\ f.pc = "send" => Cost(transMsg) <= Rest(f)

\* The inductive invariant.
UserInv ==
    /\ UserType
    /\ signals = 0 => Len(frames) = 1 /\ Quiet(Top)
    /\ Calm => Solvent(Top)
-------------------------------------------------------------------------------
(* Money. *)

\* The reward is taken out of the sum drawn, and the two make it up again.
LEMMA WholeIsCost ==
    ASSUME NEW mine \in BOOLEAN, NEW whole \in Nat, NEW time \in Nat
    PROVE  /\ Transaction(mine, whole, time) \in Transactions
           /\ Cost(Transaction(mine, whole, time)) = whole
           /\ Transaction(mine, whole, time).amount <= whole
           /\ Transaction(mine, whole, time).mine = mine
<1>1. PICK x : x = SO_REWARD * whole
  OBVIOUS
<1>2. x \in Nat /\ x <= 100 * whole
  <2>1. SO_REWARD \in Nat /\ 100 - SO_REWARD \in Nat
    BY UserAssumption
  <2>2. SO_REWARD * whole \in Nat /\ (100 - SO_REWARD) * whole \in Nat
    BY <2>1
  <2>3. (100 - SO_REWARD) * whole = 100 * whole - SO_REWARD * whole
    BY <2>1
  <2>4. QED
    BY <1>1, <2>2, <2>3
<1>3. Reward(whole) = (x + 99) \div 100
  BY <1>1 DEF Reward
<1>4. Reward(whole) \in 0 .. whole
  BY <1>2, <1>3
<1>5. QED
  BY <1>4 DEF Transaction, Transactions, Cost

\* What a transaction costs.
LEMMA CostIsNat == \A t \in Transactions : Cost(t) \in Nat /\ t.amount \in Nat
  BY DEF Transactions, Cost

\* What the sums of the model are over.
LEMMA MessagesAre ==
    ASSUME message \in Seq(Transactions), NEW V, V \subseteq DOMAIN message
    PROVE  /\ IsFiniteSet(V) /\ IsFiniteSet(Mine(V)) /\ IsFiniteSet(Theirs(V))
           /\ Mine(V) \subseteq V /\ Theirs(V) \subseteq V
           /\ \A n \in V : Amounts[n] \in Nat /\ Costs[n] \in Nat
           /\ \A n \in V : Amounts[n] = message[n].amount /\ Costs[n] = Cost(message[n])
<1>1. DOMAIN message = 1 .. Len(message) /\ Len(message) \in Nat
  BY LenProperties
<1>2. IsFiniteSet(DOMAIN message)
  <2>1. 1 \in Int /\ Len(message) \in Int
    BY <1>1
  <2>2. QED
    BY <1>1, <2>1, FS_Interval
<1>3. Mine(V) \subseteq V /\ Theirs(V) \subseteq V
  BY DEF Mine, Theirs
<1>4. IsFiniteSet(V) /\ IsFiniteSet(Mine(V)) /\ IsFiniteSet(Theirs(V))
  BY <1>2, <1>3, FS_Subset
<1>5. \A n \in V : message[n] \in Transactions
  BY <1>1, ElementOfSeq
<1>6. \A n \in V : Amounts[n] = message[n].amount /\ Costs[n] = Cost(message[n])
  BY DEF Amounts, Costs
<1>7. QED
  BY <1>3, <1>4, <1>5, <1>6, CostIsNat

\* What the ledger adds, as two sums.
NetAddsUp ==
    message \in Seq(Transactions) =>
        \A V \in SUBSET DOMAIN message :
            Net(V) = Total(Amounts, Theirs(V)) - Total(Costs, Mine(V))

\* It does in every state ...
LEMMA NetIsTotal == NetAddsUp
<1> SUFFICES ASSUME message \in Seq(Transactions), NEW V, V \subseteq DOMAIN message
             PROVE  Net(V) = Total(Amounts, Theirs(V)) - Total(Costs, Mine(V))
  BY DEF NetAddsUp
<1> DEFINE Chosen(s) == CHOOSE n \in s : TRUE
<1>1. ASSUME NEW T, T = Theirs(V)
      PROVE  MapThenSumSet(LAMBDA n : message[n].amount, T) = Total(Amounts, T)
  <2>1. /\ IsFiniteSet(T) /\ \A n \in T : Amounts[n] \in Int
        /\ \A n \in T : Amounts[n] = message[n].amount
    BY <1>1, MessagesAre
  <2>2. PICK h \in [SUBSET T -> Int] : IsSum(h, Amounts, T)
    BY <2>1, SumsExist
  <2>3. \A s : s # {} => Chosen(s) \in s
    OBVIOUS
  <2>4. h = [s \in SUBSET T |-> IF s = {} THEN 0 ELSE message[Chosen(s)].amount + h[s \ {Chosen(s)}]]
    <3>1. h = [s \in SUBSET T |-> IF s = {} THEN 0 ELSE Amounts[Chosen(s)] + h[s \ {Chosen(s)}]]
      BY <2>2 DEF IsSum
    <3> HIDE DEF Chosen
    <3>2. QED
      BY <2>1, <2>3, <3>1
  <2>5. PICK g : /\ g = [s \in SUBSET T |-> IF s = {} THEN 0
                                            ELSE message[Chosen(s)].amount + g[s \ {Chosen(s)}]]
                 /\ MapThenSumSet(LAMBDA n : message[n].amount, T) = g[T]
    BY <2>4 DEF MapThenSumSet, MapThenFoldSet
  <2>6. IsSum(g, Amounts, T)
    <3>1. g = [s \in SUBSET T |-> IF s = {} THEN 0 ELSE Amounts[Chosen(s)] + g[s \ {Chosen(s)}]]
      <4> HIDE DEF Chosen
      <4>1. QED
        BY <2>1, <2>3, <2>5
    <3>2. QED
      BY <3>1 DEF IsSum
  <2>7. Total(Amounts, T) = g[T]
    BY <2>1, <2>6, TotalValue
  <2>8. QED
    BY <2>5, <2>7
<1>2. ASSUME NEW T, T = Mine(V)
      PROVE  MapThenSumSet(LAMBDA n : Cost(message[n]), T) = Total(Costs, T)
  <2>1. /\ IsFiniteSet(T) /\ \A n \in T : Costs[n] \in Int
        /\ \A n \in T : Costs[n] = Cost(message[n])
    BY <1>2, MessagesAre
  <2>2. PICK h \in [SUBSET T -> Int] : IsSum(h, Costs, T)
    BY <2>1, SumsExist
  <2>3. \A s : s # {} => Chosen(s) \in s
    OBVIOUS
  <2>4. h = [s \in SUBSET T |-> IF s = {} THEN 0 ELSE Cost(message[Chosen(s)]) + h[s \ {Chosen(s)}]]
    <3>1. h = [s \in SUBSET T |-> IF s = {} THEN 0 ELSE Costs[Chosen(s)] + h[s \ {Chosen(s)}]]
      BY <2>2 DEF IsSum
    <3> HIDE DEF Chosen
    <3>2. QED
      BY <2>1, <2>3, <3>1
  <2>5. PICK g : /\ g = [s \in SUBSET T |-> IF s = {} THEN 0
                                            ELSE Cost(message[Chosen(s)]) + g[s \ {Chosen(s)}]]
                 /\ MapThenSumSet(LAMBDA n : Cost(message[n]), T) = g[T]
    BY <2>4 DEF MapThenSumSet, MapThenFoldSet
  <2>6. IsSum(g, Costs, T)
    <3>1. g = [s \in SUBSET T |-> IF s = {} THEN 0 ELSE Costs[Chosen(s)] + g[s \ {Chosen(s)}]]
      <4> HIDE DEF Chosen
      <4>1. QED
        BY <2>1, <2>3, <2>5
    <3>2. QED
      BY <3>1 DEF IsSum
  <2>7. Total(Costs, T) = g[T]
    BY <2>1, <2>6, TotalValue
  <2>8. QED
    BY <2>5, <2>7
<1>3. QED
  BY <1>1, <1>2 DEF Net

\* ... and so in the next.
LEMMA NetIsTotalNext == NetAddsUp'
  BY NetIsTotal, PTL

\* The costs along a list.
CostsAlong(list) == [p \in 1 .. Len(list) |-> Cost(list[p])]

\* What a list costs, as a sum.
LEMMA CostOfIsTotal ==
    ASSUME NEW list \in Seq(Transactions)
    PROVE  /\ CostOf(list) = Total(CostsAlong(list), 1 .. Len(list))
           /\ CostOf(list) \in Nat
<1> DEFINE Chosen(s) == CHOOSE n \in s : TRUE
<1>1. Len(list) \in Nat /\ DOMAIN list = 1 .. Len(list) /\ \A p \in 1 .. Len(list) : list[p] \in Transactions
  BY LenProperties, ElementOfSeq
<1>2. PICK T : T = 1 .. Len(list)
  OBVIOUS
<1>3. IsFiniteSet(T)
  <2>1. 1 \in Int /\ Len(list) \in Int
    BY <1>1
  <2>2. QED
    BY <1>2, <2>1, FS_Interval
<1>4. \A p \in T : CostsAlong(list)[p] = Cost(list[p]) /\ CostsAlong(list)[p] \in Nat
  BY <1>1, <1>2, CostIsNat DEF CostsAlong
<1>5. PICK h \in [SUBSET T -> Int] : IsSum(h, CostsAlong(list), T)
  <2>1. \A p \in T : CostsAlong(list)[p] \in Int
    BY <1>4
  <2>2. QED
    BY <1>3, <2>1, SumsExist
<1>6. \A s : s # {} => Chosen(s) \in s
  OBVIOUS
<1>7. h = [s \in SUBSET T |-> IF s = {} THEN 0 ELSE Cost(list[Chosen(s)]) + h[s \ {Chosen(s)}]]
  <2>1. h = [s \in SUBSET T |-> IF s = {} THEN 0 ELSE CostsAlong(list)[Chosen(s)] + h[s \ {Chosen(s)}]]
    BY <1>5 DEF IsSum
  <2> HIDE DEF Chosen
  <2>2. QED
    BY <1>4, <1>6, <2>1
<1>8. PICK g : /\ g = [s \in SUBSET T |-> IF s = {} THEN 0
                                          ELSE Cost(list[Chosen(s)]) + g[s \ {Chosen(s)}]]
               /\ CostOf(list) = g[T]
  <2>1. T = DOMAIN list
    BY <1>1, <1>2
  <2>2. h = [s \in SUBSET DOMAIN list |-> IF s = {} THEN 0
                                          ELSE Cost(list[Chosen(s)]) + h[s \ {Chosen(s)}]]
    BY <1>7, <2>1
  <2>3. \E g : /\ g = [s \in SUBSET DOMAIN list |-> IF s = {} THEN 0
                                          ELSE Cost(list[Chosen(s)]) + g[s \ {Chosen(s)}]]
               /\ CostOf(list) = g[DOMAIN list]
    BY <2>2 DEF CostOf, FoldSeq, FoldFunction, FoldFunctionOnSet, MapThenFoldSet
  <2>4. QED
    BY <2>1, <2>3
<1>9. IsSum(g, CostsAlong(list), T)
  <2>1. g = [s \in SUBSET T |-> IF s = {} THEN 0 ELSE CostsAlong(list)[Chosen(s)] + g[s \ {Chosen(s)}]]
    <3> HIDE DEF Chosen
    <3>1. QED
      BY <1>4, <1>6, <1>8
  <2>2. QED
    BY <2>1 DEF IsSum
<1>10. CostOf(list) = Total(CostsAlong(list), T)
  <2>1. \A p \in T : CostsAlong(list)[p] \in Int
    BY <1>4
  <2>2. Total(CostsAlong(list), T) = g[T]
    BY <1>3, <1>9, <2>1, TotalValue
  <2>3. QED
    BY <1>8, <2>2
<1>11. Total(CostsAlong(list), T) \in Nat
  BY <1>3, <1>4, TotalMonotone
<1>12. QED
  BY <1>2, <1>10, <1>11

\* find_and_remove on lists: the list stays one, and one without repetitions
\* loses just what is looked for.
LEMMA RemoveFirstIs ==
    ASSUME NEW S, NEW list \in Seq(S), NEW t
    PROVE  /\ RemoveFirst(list, t) \in Seq(S)
           /\ NoneTwice(list) =>
                 /\ NoneTwice(RemoveFirst(list, t))
                 /\ \A u : In(u, RemoveFirst(list, t)) <=> In(u, list) /\ u # t
<1>1. Len(list) \in Nat
  BY LenProperties
<1>2. CASE ~ In(t, list)
  <2>1. RemoveFirst(list, t) = list
    BY <1>2 DEF RemoveFirst, In
  <2>2. \A u : In(u, list) => u # t
    BY <1>2
  <2>3. QED
    BY <2>1, <2>2
<1>3. CASE In(t, list)
  <2> DEFINE I == {i \in 1 .. Len(list) : list[i] = t}
  <2>1. I # {} /\ I \subseteq Nat
    BY <1>3 DEF In
  <2>2. PICK p : p = Min(I)
    OBVIOUS
  <2>3. p \in I
    <3> HIDE DEF I
    <3>1. QED
      BY <2>1, <2>2, MinOfNaturals
  <2>4. p \in 1 .. Len(list) /\ list[p] = t
    BY <2>3
  <2>5. RemoveFirst(list, t) = RemoveAt(list, p)
    <3>1. SelectInSeq(list, LAMBDA v : v = t) = p
      BY <2>1, <2>2 DEF SelectInSeq
    <3>2. QED
      BY <1>3, <3>1 DEF RemoveFirst, In
  <2>6. PICK r : r = RemoveAt(list, p)
    OBVIOUS
  <2>7. /\ r \in Seq(S) /\ Len(r) = Len(list) - 1
        /\ \A k \in 1 .. Len(list) - 1 : r[k] = list[Before(p, k)]
    BY <2>4, <2>6, RemoveAtProperties
  <2>8. \A k \in 1 .. Len(list) - 1 : Before(p, k) \in 1 .. Len(list) /\ Before(p, k) # p
    BY <1>1, <2>4 DEF Before
  <2>9. \A k, l \in 1 .. Len(list) - 1 : Before(p, k) = Before(p, l) => k = l
    BY <1>1, <2>4 DEF Before
  <2>10. \A q \in 1 .. Len(list) : q # p => \E k \in 1 .. Len(list) - 1 : Before(p, k) = q
    <3> SUFFICES ASSUME NEW q \in 1 .. Len(list), q # p
                 PROVE  \E k \in 1 .. Len(list) - 1 : Before(p, k) = q
      OBVIOUS
    <3>1. CASE q < p
      <4>1. q \in 1 .. Len(list) - 1 /\ Before(p, q) = q
        BY <1>1, <2>4, <3>1 DEF Before
      <4>2. QED
        BY <4>1
    <3>2. CASE q > p
      <4>1. q - 1 \in 1 .. Len(list) - 1 /\ Before(p, q - 1) = q
        BY <1>1, <2>4, <3>2 DEF Before
      <4>2. QED
        BY <4>1
    <3>3. QED
      BY <1>1, <2>4, <3>1, <3>2
  <2> HIDE DEF I
  <2>11. ASSUME NoneTwice(list)
         PROVE  NoneTwice(r) /\ \A u : In(u, r) <=> In(u, list) /\ u # t
    <3>1. NoneTwice(r)
      <4> SUFFICES ASSUME NEW k \in 1 .. Len(list) - 1, NEW l \in 1 .. Len(list) - 1, r[k] = r[l]
                   PROVE  k = l
        BY <2>7 DEF NoneTwice
      <4>1. list[Before(p, k)] = list[Before(p, l)]
        BY <2>7
      <4>2. Before(p, k) = Before(p, l)
        BY <2>8, <2>11, <4>1 DEF NoneTwice
      <4>3. QED
        BY <2>9, <4>2
    <3>2. ASSUME NEW u, In(u, r) PROVE In(u, list) /\ u # t
      <4>1. PICK k \in 1 .. Len(list) - 1 : r[k] = u
        BY <2>7, <3>2 DEF In
      <4>2. list[Before(p, k)] = u /\ Before(p, k) \in 1 .. Len(list) /\ Before(p, k) # p
        BY <2>7, <2>8, <4>1
      <4>3. In(u, list)
        BY <4>2 DEF In
      <4>4. list[Before(p, k)] # list[p]
        BY <2>4, <2>11, <4>2 DEF NoneTwice
      <4>5. QED
        BY <2>4, <4>2, <4>3, <4>4
    <3>3. ASSUME NEW u, In(u, list), u # t PROVE In(u, r)
      <4>1. PICK q \in 1 .. Len(list) : list[q] = u
        BY <3>3 DEF In
      <4>2. q # p
        BY <2>4, <3>3, <4>1
      <4>3. PICK k \in 1 .. Len(list) - 1 : Before(p, k) = q
        BY <2>10, <4>2
      <4>4. r[k] = u
        BY <2>7, <4>1, <4>3
      <4>5. QED
        BY <2>7, <4>4 DEF In
    <3>4. QED
      BY <3>1, <3>2, <3>3
  <2>12. QED
    BY <2>5, <2>6, <2>7, <2>11
<1>4. QED
  BY <1>2, <1>3

\* The walk takes out of the list what the copy of the ledger shows.
LEMMA StillOutgoingIs ==
    ASSUME message \in Seq(Transactions), outgoing \in Seq(Transactions),
           NEW V, V \subseteq DOMAIN message
    PROVE  /\ StillOutgoing(V) \in Seq(Transactions)
           /\ NoneTwice(outgoing) =>
                 /\ NoneTwice(StillOutgoing(V))
                 /\ \A u : In(u, StillOutgoing(V)) <=>
                           In(u, outgoing) /\ \A n \in Mine(V) : u # message[n]
<1> DEFINE Chosen(s) == CHOOSE n \in s : TRUE
<1>1. PICK T : T = Mine(V)
  OBVIOUS
<1>2. IsFiniteSet(T)
  BY <1>1, MessagesAre
<1>3. PICK L : L = Seq(Transactions)
  OBVIOUS
<1>4. PICK F : F = [a \in T \X L |-> RemoveFirst(a[2], message[a[1]])]
  OBVIOUS
<1>5. F \in [T \X L -> L]
  <2>1. \A a \in T \X L : RemoveFirst(a[2], message[a[1]]) \in L
    BY <1>3, RemoveFirstIs
  <2>2. QED
    BY <1>4, <2>1
<1>6. \A n \in T, list \in L : F[<<n, list>>] = RemoveFirst(list, message[n])
  BY <1>4
<1>7. PICK h \in [SUBSET T -> L] : IsFold(h, F, outgoing, T)
  <2>1. outgoing \in L
    BY <1>3
  <2>2. QED
    BY <1>2, <1>5, <2>1, FoldExists
<1>8. \A s : s # {} => Chosen(s) \in s
  OBVIOUS
<1>9. h = [s \in SUBSET T |-> IF s = {} THEN outgoing
                              ELSE RemoveFirst(h[s \ {Chosen(s)}], message[Chosen(s)])]
  <2>1. h = [s \in SUBSET T |-> IF s = {} THEN outgoing ELSE F[<<Chosen(s), h[s \ {Chosen(s)}]>>]]
    BY <1>7 DEF IsFold
  <2> HIDE DEF Chosen
  <2>2. \A s \in SUBSET T : s # {} => Chosen(s) \in T /\ h[s \ {Chosen(s)}] \in L
    BY <1>8
  <2>3. \A s \in SUBSET T : s # {} =>
           F[<<Chosen(s), h[s \ {Chosen(s)}]>>] = RemoveFirst(h[s \ {Chosen(s)}], message[Chosen(s)])
    BY <1>6, <2>2
  <2>4. QED
    BY <2>1, <2>3
<1>10. PICK g : /\ g = [s \in SUBSET T |-> IF s = {} THEN outgoing
                                          ELSE RemoveFirst(g[s \ {Chosen(s)}], message[Chosen(s)])]
                /\ FoldSet(LAMBDA n, list : RemoveFirst(list, message[n]), outgoing, T) = g[T]
  BY <1>9 DEF FoldSet, MapThenFoldSet
<1> DEFINE Good(list, s) ==
              /\ list \in L
              /\ NoneTwice(outgoing) =>
                    /\ NoneTwice(list)
                    /\ \A u : In(u, list) <=> In(u, outgoing) /\ \A n \in s : u # message[n]
           P == {s \in SUBSET T : Good(g[s], s)}
<1>11. ASSUME NEW s \in SUBSET T, \A n \in s : s \ {n} \in P PROVE Good(g[s], s)
  <2> HIDE DEF Chosen
  <2>1. CASE s = {}
    <3>1. g[s] = outgoing
      BY <1>10, <2>1
    <3>2. QED
      BY <1>3, <2>1, <3>1
  <2>2. CASE s # {}
    <3>1. PICK n : n = Chosen(s)
      OBVIOUS
    <3>2. n \in s /\ g[s] = RemoveFirst(g[s \ {n}], message[n])
      BY <1>8, <1>10, <2>2, <3>1
    <3>3. Good(g[s \ {n}], s \ {n})
      BY <1>11, <3>2
    <3>4. PICK list : list = g[s \ {n}]
      OBVIOUS
    <3>5. list \in L /\ g[s] = RemoveFirst(list, message[n])
      BY <3>2, <3>3, <3>4
    <3>6. /\ g[s] \in L
          /\ NoneTwice(list) =>
                /\ NoneTwice(g[s])
                /\ \A u : In(u, g[s]) <=> In(u, list) /\ u # message[n]
      BY <1>3, <3>5, RemoveFirstIs
    <3>7. NoneTwice(outgoing) =>
             /\ NoneTwice(list)
             /\ \A u : In(u, list) <=> In(u, outgoing) /\ \A k \in s \ {n} : u # message[k]
      BY <3>3, <3>4
    <3>8. ASSUME NoneTwice(outgoing), NEW u
          PROVE  In(u, g[s]) <=> In(u, outgoing) /\ \A k \in s : u # message[k]
      BY <3>2, <3>6, <3>7, <3>8
    <3>9. QED
      BY <3>6, <3>7, <3>8
  <2>3. QED
    BY <2>1, <2>2
<1>12. \A s \in SUBSET T : (\A n \in s : s \ {n} \in P) => s \in P
  BY <1>11
<1>13. T \in P
  <2> HIDE DEF P
  <2>1. QED
    BY <1>2, <1>12, RemovalInduction
<1>14. StillOutgoing(V) = g[T]
  BY <1>1, <1>10 DEF StillOutgoing
<1>15. QED
  BY <1>1, <1>3, <1>13, <1>14

\* A list of transactions sent, none of them twice, costs what they cost.
LEMMA CostOfTracked ==
    ASSUME message \in Seq(Transactions),
           \A n, k \in Mine(DOMAIN message) : message[n] = message[k] => n = k,
           NEW list \in Seq(Transactions), NoneTwice(list),
           \A p \in 1 .. Len(list) : \E n \in Mine(DOMAIN message) : list[p] = message[n]
    PROVE  CostOf(list) = Total(Costs, {n \in Mine(DOMAIN message) : In(message[n], list)})
<1> DEFINE T == Mine(DOMAIN message)
           I == {n \in T : In(message[n], list)}
<1>1. PICK S : S = 1 .. Len(list)
  OBVIOUS
<1>2. PICK f : f = [p \in S |-> CHOOSE n \in T : list[p] = message[n]]
  OBVIOUS
<1>3. \A p \in S : f[p] \in T /\ list[p] = message[f[p]]
  <2> HIDE DEF T
  <2>1. ASSUME NEW p \in S PROVE f[p] \in T /\ list[p] = message[f[p]]
    <3>1. \E n \in T : list[p] = message[n]
      BY <1>1 DEF T
    <3>2. f[p] = CHOOSE n \in T : list[p] = message[n]
      BY <1>2
    <3>3. QED
      BY <3>1, <3>2
  <2>2. QED
    BY <2>1
<1>4. f \in [S -> T]
  <2> HIDE DEF T
  <2>1. QED
    BY <1>2, <1>3
<1>5. \A p, q \in S : f[p] = f[q] => p = q
  <2> SUFFICES ASSUME NEW p \in S, NEW q \in S, f[p] = f[q] PROVE p = q
    OBVIOUS
  <2>1. list[p] = list[q]
    BY <1>3
  <2>2. QED
    BY <1>1, <2>1 DEF NoneTwice
<1>6. \A n : n \in I <=> \E p \in S : n = f[p]
  <2>1. ASSUME NEW p \in S PROVE f[p] \in I
    BY <1>1, <1>3 DEF In
  <2>2. ASSUME NEW n \in I PROVE \E p \in S : f[p] = n
    <3>1. PICK p \in S : list[p] = message[n]
      BY <1>1 DEF In
    <3>2. n \in T /\ f[p] \in T /\ message[f[p]] = message[n]
      BY <1>3, <3>1
    <3>3. f[p] = n
      BY <3>2
    <3>4. QED
      BY <3>3
  <2> HIDE DEF I
  <2>3. QED
    BY <2>1, <2>2
<1>7. \A n \in T : Costs[n] \in Int /\ Costs[n] = Cost(message[n])
  <2>1. DOMAIN message \subseteq DOMAIN message /\ T \subseteq DOMAIN message
    BY DEF Mine
  <2> HIDE DEF T
  <2>2. QED
    BY <2>1, MessagesAre
<1>8. \A p \in S : CostsAlong(list)[p] = Costs[f[p]]
  <2> HIDE DEF T
  <2>1. \A p \in S : CostsAlong(list)[p] = Cost(list[p])
    BY <1>1 DEF CostsAlong
  <2>2. QED
    BY <2>1, <1>3, <1>7
<1>9. IsFiniteSet(S)
  <2>1. 1 \in Int /\ Len(list) \in Int
    BY LenProperties
  <2>2. QED
    BY <1>1, <2>1, FS_Interval
<1> HIDE DEF T, I
<1>10. Total(CostsAlong(list), S) = Total(Costs, I)
  <2>1. PICK v : v = Costs
    OBVIOUS
  <2>2. PICK w : w = CostsAlong(list)
    OBVIOUS
  <2>3. PICK R : R = T
    OBVIOUS
  <2>4. PICK J : J = I
    OBVIOUS
  <2>5. Total(w, S) = Total(v, J)
    <3>1. MapsOnto(f, S, R, J)
      BY <1>4, <1>5, <1>6, <2>3, <2>4 DEF MapsOnto
    <3>2. \A t \in R : v[t] \in Int
      BY <1>7, <2>1, <2>3
    <3>3. \A x \in S : w[x] = v[f[x]]
      BY <1>8, <2>1, <2>2
    <3>4. QED
      BY <1>9, <3>1, <3>2, <3>3, TotalImage
  <2>6. QED
    BY <2>1, <2>2, <2>4, <2>5
<1>11. CostOf(list) = Total(CostsAlong(list), S)
  BY <1>1, CostOfIsTotal
<1>12. QED
  BY <1>6, <1>10, <1>11 DEF I, T

\* What the walk finds is the worth of the copy, and the budget is not exceeded
\* by more than others have paid.
LEMMA WalkAddsUp ==
    ASSUME UserType, Distinct, NEW V, V \subseteq DOMAIN message
    PROVE  /\ StillOutgoing(V) \in Seq(Transactions)
           /\ NoneTwice(StillOutgoing(V))
           /\ \A u : In(u, StillOutgoing(V)) <=>
                     In(u, outgoing) /\ \A n \in Mine(V) : u # message[n]
           /\ SO_BUDGET_INIT + Accumulate(V) = Worth(V)
<1>1. message \in Seq(Transactions) /\ outgoing \in Seq(Transactions)
  BY DEF UserType, DataType
<1>2. NoneTwice(outgoing) /\ \A n, k \in Mine(DOMAIN message) : message[n] = message[k] => n = k
  BY DEF Distinct
<1>3. PICK list : list = StillOutgoing(V)
  OBVIOUS
<1>4. /\ list \in Seq(Transactions) /\ NoneTwice(list)
      /\ \A u : In(u, list) <=> In(u, outgoing) /\ \A n \in Mine(V) : u # message[n]
  BY <1>1, <1>2, <1>3, StillOutgoingIs
<1>5. \A p \in 1 .. Len(list) : \E n \in Mine(DOMAIN message) : list[p] = message[n]
  <2> SUFFICES ASSUME NEW p \in 1 .. Len(list)
               PROVE  \E n \in Mine(DOMAIN message) : list[p] = message[n]
    OBVIOUS
  <2>1. In(list[p], list)
    BY DEF In
  <2>2. In(list[p], outgoing)
    BY <1>4, <2>1
  <2>3. QED
    BY <2>2 DEF In, Distinct
<1>6. CostOf(list) = Total(Costs, {n \in Mine(DOMAIN message) : In(message[n], list)})
  BY <1>1, <1>2, <1>4, <1>5, CostOfTracked
<1>7. Mine(V) \subseteq Mine(DOMAIN message)
  BY DEF Mine
<1>8. {n \in Mine(DOMAIN message) : In(message[n], list)} = Deducted(V) \ Mine(V)
  <2>1. \A n \in Mine(DOMAIN message) :
           In(message[n], list) <=> Tracked(n) /\ n \notin Mine(V)
    <3> SUFFICES ASSUME NEW n \in Mine(DOMAIN message)
                 PROVE  In(message[n], list) <=> Tracked(n) /\ n \notin Mine(V)
      OBVIOUS
    <3>1. In(message[n], list) <=> Tracked(n) /\ \A k \in Mine(V) : message[n] # message[k]
      BY <1>4 DEF Tracked
    <3>2. (\A k \in Mine(V) : message[n] # message[k]) <=> n \notin Mine(V)
      BY <1>2, <1>7
    <3>3. QED
      BY <3>1, <3>2
  <2>2. QED
    BY <2>1, <1>7 DEF Deducted
<1>9. Net(V) = Total(Amounts, Theirs(V)) - Total(Costs, Mine(V))
  BY <1>1, NetIsTotal DEF NetAddsUp
<1>10. PICK D : D = Deducted(V)
  OBVIOUS
<1>11. IsFiniteSet(D) /\ Mine(V) \subseteq D /\ \A n \in D : Costs[n] \in Int
  <2>1. D \subseteq DOMAIN message /\ Mine(V) \subseteq D
    BY <1>7, <1>10 DEF Deducted, Mine
  <2>2. IsFiniteSet(D) /\ \A n \in D : Costs[n] \in Nat
    BY <1>1, <2>1, MessagesAre
  <2>3. QED
    BY <2>1, <2>2
<1>12. Total(Costs, D) = Total(Costs, Mine(V)) + Total(Costs, D \ Mine(V))
  BY <1>11, TotalUnion
<1>13. Total(Costs, Mine(V)) \in Int /\ Total(Costs, D \ Mine(V)) \in Int
  <2>1. /\ IsFiniteSet(Mine(V)) /\ IsFiniteSet(D \ Mine(V))
        /\ \A n \in Mine(V) : Costs[n] \in Int
        /\ \A n \in D \ Mine(V) : Costs[n] \in Int
    BY <1>11, FS_Subset
  <2>2. QED
    BY <2>1, TotalAdd
<1>14. Total(Amounts, Theirs(V)) \in Int /\ SO_BUDGET_INIT \in Int
  <2>1. IsFiniteSet(Theirs(V)) /\ \A n \in Theirs(V) : Amounts[n] \in Int
    BY <1>1, MessagesAre
  <2>2. QED
    BY <2>1, TotalAdd, UserAssumption
<1>15. Accumulate(V) = Net(V) - Total(Costs, D \ Mine(V))
  BY <1>3, <1>6, <1>8, <1>10 DEF Accumulate
<1>16. Worth(V) = SO_BUDGET_INIT + Total(Amounts, Theirs(V)) - Total(Costs, D)
  BY <1>10 DEF Worth
<1>17. SO_BUDGET_INIT + Accumulate(V) = Worth(V)
  BY <1>9, <1>12, <1>13, <1>14, <1>15, <1>16
<1>18. QED
  BY <1>3, <1>4, <1>17

\* What others have paid fits.
LEMMA NetFits ==
    ASSUME UserType, NEW V, V \subseteq DOMAIN message
    PROVE  Net(V) \in Int /\ SO_BUDGET_INIT + Net(V) < Width
<1>1. message \in Seq(Transactions)
  BY DEF UserType, DataType
<1>2. Net(V) = Total(Amounts, Theirs(V)) - Total(Costs, Mine(V))
  BY <1>1, NetIsTotal DEF NetAddsUp
<1>3. PICK D : D = DOMAIN message
  OBVIOUS
<1>4. Total(Costs, Mine(V)) \in Nat
  <2>1. IsFiniteSet(Mine(V)) /\ \A n \in Mine(V) : Costs[n] \in Nat
    BY <1>1, MessagesAre
  <2>2. QED
    BY <2>1, TotalMonotone
<1>5. Total(Amounts, Theirs(V)) \in Nat /\ Total(Amounts, Theirs(V)) <= Total(Amounts, Theirs(D))
  <2>1. IsFiniteSet(Theirs(D)) /\ \A n \in Theirs(D) : Amounts[n] \in Nat
    BY <1>1, <1>3, MessagesAre
  <2>2. Theirs(V) \subseteq Theirs(D)
    BY <1>3 DEF Theirs
  <2>3. QED
    BY <2>1, <2>2, TotalMonotone
<1>6. PICK c : c = Cardinality(Theirs(D))
  OBVIOUS
<1>7. Total(Amounts, Theirs(D)) \in 0 .. MaxDraw * c
  <2>1. IsFiniteSet(Theirs(D)) /\ \A n \in Theirs(D) : Amounts[n] \in Nat /\ Amounts[n] = message[n].amount
    BY <1>1, <1>3, MessagesAre
  <2>2. \A n \in Theirs(D) : Amounts[n] <= MaxDraw
    BY <1>3, <2>1 DEF UserType, Bounded
  <2>3. \A n \in Theirs(D) : Amounts[n] \in 0 .. MaxDraw
    BY <2>1, <2>2, UserAssumption
  <2>4. MaxDraw \in Nat
    BY UserAssumption
  <2>5. QED
    BY <1>6, <2>1, <2>3, <2>4, TotalBound
<1>8. MaxDraw * c <= MaxDraw * MaxPayments
  <2>1. c \in Nat /\ c <= MaxPayments
    <3>1. IsFiniteSet(Theirs(D))
      BY <1>1, <1>3, MessagesAre
    <3>2. QED
      BY <1>3, <1>6, <3>1, FS_CardinalityType DEF UserType, Bounded
  <2>2. MaxDraw \in Nat /\ MaxPayments \in Nat /\ MaxPayments - c \in Nat
    BY <2>1, UserAssumption
  <2>3. MaxDraw * (MaxPayments - c) \in Nat
    BY <2>2
  <2>4. MaxDraw * (MaxPayments - c) = MaxDraw * MaxPayments - MaxDraw * c
    BY <2>1, <2>2
  <2>5. MaxDraw * MaxPayments \in Int /\ MaxDraw * c \in Int
    BY <2>1, <2>2
  <2>6. QED
    BY <2>3, <2>4, <2>5
<1>9. PICK m : m = MaxDraw * MaxPayments
  OBVIOUS
<1>10. SO_BUDGET_INIT \in Nat /\ Width > SO_BUDGET_INIT + m /\ Width \in Nat /\ m \in Nat
  BY <1>9, UserAssumption
<1>11. PICK k : k = MaxDraw * c
  OBVIOUS
<1>12. QED
  BY <1>2, <1>4, <1>5, <1>7, <1>8, <1>9, <1>10, <1>11

-------------------------------------------------------------------------------
(* The stack. *)

\* What no step takes away from a frame.
Preserves ==
    /\ DOMAIN message \subseteq DOMAIN message'
    /\ transMsg \in Own => transMsg' \in Own
    /\ recorded => recorded'

\* The frame on top.
LEMMA TopFrame ==
    ASSUME Stack
    PROVE  /\ Len(frames) \in 1 .. 2
           /\ Top = frames[Len(frames)]
           /\ FrameOK(Top)
           /\ Top.proc = "usr1" <=> Len(frames) = 2
<1>1. Top = frames[Len(frames)]
  BY DEF Top, Last
<1>2. QED
  BY <1>1 DEF Stack

\* Another top on the same stack.
LEMMA Replaced ==
    ASSUME NEW S, NEW s \in Seq(S), Len(s) >= 1, NEW g \in S
    PROVE  /\ Append(Front(s), g) \in Seq(S)
           /\ Len(Append(Front(s), g)) = Len(s)
           /\ Append(Front(s), g)[Len(s)] = g
           /\ \A k \in 1 .. Len(s) - 1 : Append(Front(s), g)[k] = s[k]
<1>1. Len(s) \in Nat /\ \A i \in 1 .. Len(s) : s[i] \in S
  BY LenProperties, ElementOfSeq
<1>2. PICK f : f = Front(s)
  OBVIOUS
<1>3. f \in Seq(S) /\ Len(f) = Len(s) - 1 /\ \A i \in 1 .. Len(s) - 1 : f[i] = s[i]
  <2>1. f = SubSeq(s, 1, Len(s) - 1)
    BY <1>2 DEF Front
  <2>2. \A i \in 1 .. Len(s) - 1 : s[i] \in S
    BY <1>1
  <2>3. 1 \in Int /\ Len(s) - 1 \in Int
    BY <1>1
  <2>4. /\ SubSeq(s, 1, Len(s) - 1) \in Seq(S)
        /\ Len(SubSeq(s, 1, Len(s) - 1)) = IF 1 <= Len(s) - 1 THEN (Len(s) - 1) - 1 + 1 ELSE 0
        /\ \A i \in 1 .. (Len(s) - 1) - 1 + 1 : SubSeq(s, 1, Len(s) - 1)[i] = s[1 + i - 1]
    BY <2>2, <2>3, SubSeqProperties
  <2>5. PICK n \in Nat : n = Len(s) /\ n >= 1
    BY <1>1
  <2>6. (IF 1 <= n - 1 THEN (n - 1) - 1 + 1 ELSE 0) = n - 1 /\ (n - 1) - 1 + 1 = n - 1
    BY <2>5
  <2>7. \A i \in 1 .. n - 1 : 1 + i - 1 = i
    BY <2>5
  <2>8. f \in Seq(S) /\ Len(f) = n - 1 /\ \A i \in 1 .. n - 1 : f[i] = s[1 + i - 1]
    BY <2>1, <2>4, <2>5, <2>6
  <2>9. QED
    BY <2>5, <2>7, <2>8
<1>4. /\ Append(f, g) \in Seq(S) /\ Len(Append(f, g)) = Len(f) + 1
      /\ \A i \in 1 .. Len(f) : Append(f, g)[i] = f[i]
      /\ Append(f, g)[Len(f) + 1] = g
  BY <1>3, AppendProperties
<1>5. Len(f) + 1 = Len(s)
  BY <1>1, <1>3
<1>6. QED
  BY <1>2, <1>3, <1>4, <1>5

\* Other frames stay what they are.
LEMMA FrameKept ==
    ASSUME Preserves, NEW f, FrameOK(f)
    PROVE  FrameOK(f)'
  BY DEF Preserves, FrameOK

\* No frame is touched.
LEMMA StackSame ==
    ASSUME Stack, Preserves, UNCHANGED frames
    PROVE  Stack' /\ Top' = Top /\ Len(frames') = Len(frames)
<1>1. \A k \in 1 .. Len(frames) : FrameOK(frames[k])'
  <2> SUFFICES ASSUME NEW k \in 1 .. Len(frames) PROVE FrameOK(frames[k])'
    OBVIOUS
  <2>1. PICK f : f = frames[k]
    OBVIOUS
  <2>2. FrameOK(f)'
    BY <2>1, FrameKept DEF Stack
  <2>3. QED
    BY <2>1, <2>2 DEF FrameOK
<1>2. QED
  BY <1>1 DEF Stack, Top

\* The top of the stack becomes g.
LEMMA StackBecome ==
    ASSUME Stack, Preserves, NEW g, Become(g), FrameOK(g)', g.proc = Top.proc
    PROVE  Stack' /\ Top' = g /\ Len(frames') = Len(frames)
<1>1. g \in FrameType
  BY DEF FrameOK
<1>2. Len(frames) \in 1 .. 2 /\ frames \in Seq(FrameType)
  BY DEF Stack
<1>3. /\ frames' \in Seq(FrameType) /\ Len(frames') = Len(frames) /\ frames'[Len(frames)] = g
      /\ \A k \in 1 .. Len(frames) - 1 : frames'[k] = frames[k]
  <2>1. \A n \in 1 .. 2 : n >= 1
    OBVIOUS
  <2>2. Len(frames) >= 1
    BY <1>2, <2>1
  <2>3. QED
    BY <1>1, <1>2, <2>2, Replaced DEF Become
<1>4. Top' = g
  BY <1>3 DEF Top, Last
<1>5. \A k \in 1 .. Len(frames) : FrameOK(frames[k])'
  <2> SUFFICES ASSUME NEW k \in 1 .. Len(frames) PROVE FrameOK(frames[k])'
    OBVIOUS
  <2>1. PICK f : f = frames'[k]
    OBVIOUS
  <2>2. FrameOK(f)'
    <3>1. CASE k = Len(frames)
      BY <1>3, <2>1, <3>1
    <3>2. CASE k # Len(frames)
      <4>1. f = frames[k]
        BY <1>2, <1>3, <2>1, <3>2
      <4>2. QED
        BY <4>1, FrameKept DEF Stack
    <3>3. QED
      BY <3>1, <3>2
  <2>3. QED
    BY <2>1, <2>2 DEF FrameOK
<1>6. frames'[1].proc # "usr1" /\ (Len(frames') = 2 => frames'[2].proc = "usr1")
  <2>1. Top = frames[Len(frames)]
    BY TopFrame
  <2>2. CASE Len(frames) = 1
    BY <1>3, <2>1, <2>2 DEF Stack
  <2>3. CASE Len(frames) = 2
    BY <1>3, <2>1, <2>3 DEF Stack
  <2>4. QED
    BY <1>2, <2>2, <2>3
<1>7. Stack'
  BY <1>2, <1>3, <1>5, <1>6 DEF Stack
<1>8. QED
  BY <1>3, <1>4, <1>7

\* SIGUSR1's handler returns.
LEMMA StackReturn ==
    ASSUME Stack, Preserves, Top.proc = "usr1", Return
    PROVE  Stack' /\ Len(frames') = 1
<1>1. Len(frames) = 2 /\ frames \in Seq(FrameType)
  BY TopFrame DEF Stack
<1>2. frames[1] \in FrameType /\ frames[2] \in FrameType
  BY <1>1, ElementOfSeq
<1>3. frames' \in Seq(FrameType) /\ Len(frames') = 1 /\ frames'[1] = frames[1]
  <2>1. frames' = SubSeq(frames, 1, 1)
    BY <1>1 DEF Return, Front
  <2>2. \A i \in 1 .. 1 : frames[i] \in FrameType
    BY <1>2
  <2>3. QED
    BY <2>1, <2>2, SubSeqProperties
<1>4. FrameOK(frames[1])'
  <2>1. PICK f : f = frames[1]
    OBVIOUS
  <2>2. FrameOK(f)'
    BY <1>1, <2>1, FrameKept DEF Stack
  <2>3. QED
    BY <1>3, <2>1, <2>2 DEF FrameOK
<1>5. QED
  BY <1>3, <1>4 DEF Stack

\* A frame starts as one should.
LEMMA NewFrame ==
    ASSUME NEW proc \in {"main", "usr1", "int"}, NEW masked \in SUBSET {"usr1", "int"},
           proc = "main" => masked = {},
           proc = "usr1" => "usr1" \in masked,
           proc = "int" => "int" \in masked,
           recorded \in BOOLEAN
    PROVE  FrameOK(Frame(proc, masked))
<1>1. SO_RETRY \in 0 .. Width - 1 /\ 0 \in 0 .. Width - 1
  <2>1. PICK m : m = MaxDraw * MaxPayments
    OBVIOUS
  <2>2. QED
    BY UserAssumption
<1>2. PICK f : f = Frame(proc, masked)
  OBVIOUS
<1>3. /\ f.proc = proc /\ f.masked = masked /\ f.pc = "copy" /\ f.view = {}
      /\ f.listed = (proc = "int" /\ recorded)
  BY <1>2 DEF Frame
<1>4. f \in FrameType
  <2>1. (proc = "int" /\ recorded) \in BOOLEAN
    OBVIOUS
  <2>2. "copy" \in LoopPcs \cup IntPcs /\ {} \in SUBSET Nat /\ None \in Own \cup {None}
    BY DEF LoopPcs
  <2>3. QED
    BY <1>1, <1>2, <2>1, <2>2 DEF Frame, FrameType
<1>5. "copy" \in LoopPcs /\ "copy" \in IntPcs
  BY DEF LoopPcs, IntPcs
<1>6. FrameOK(f)
  BY <1>3, <1>4, <1>5 DEF FrameOK
<1>7. QED
  BY <1>2, <1>6

\* SIGINT's handler starts.
LEMMA StackCallInt ==
    ASSUME Stack, CallInt, recorded \in BOOLEAN, recorded' = recorded
    PROVE  /\ Stack' /\ Len(frames') = 1
           /\ Top' = Frame("int", Top.masked \cup {"int"})
<1>1. PICK masked \in SUBSET {"usr1", "int"} : masked = Top.masked \cup {"int"}
  <2>1. Top \in FrameType
    BY TopFrame DEF FrameOK
  <2>2. QED
    BY <2>1 DEF FrameType
<1>2. PICK f : f = Frame("int", masked)
  OBVIOUS
<1>3. frames' = <<f>>
  BY <1>1, <1>2 DEF CallInt
<1>4. FrameOK(f)
  BY <1>1, <1>2, NewFrame
<1>5. f \in FrameType /\ f.proc = "int"
  BY <1>2, <1>4 DEF FrameOK, Frame
<1>6. frames' \in Seq(FrameType) /\ Len(frames') = 1 /\ frames'[1] = f
  BY <1>3, <1>5
<1>7. FrameOK(f)'
  <2>1. f.view = {} /\ f.pc = "copy"
    BY <1>2 DEF Frame
  <2>2. QED
    BY <1>4, <2>1 DEF FrameOK
<1>8. FrameOK(frames[1])'
  BY <1>6, <1>7 DEF FrameOK
<1>9. Stack'
  BY <1>5, <1>6, <1>8 DEF Stack
<1>10. Top' = f
  BY <1>6 DEF Top, Last
<1>11. QED
  BY <1>1, <1>2, <1>6, <1>9, <1>10

-------------------------------------------------------------------------------
(* Types. *)

\* A message more.
LEMMA OneMore ==
    ASSUME message \in Seq(Transactions), NEW t \in Transactions,
           message' = Append(message, t)
    PROVE  /\ message' \in Seq(Transactions)
           /\ Len(message') = Len(message) + 1
           /\ DOMAIN message' = DOMAIN message \cup {Len(message) + 1}
           /\ Len(message) + 1 \notin DOMAIN message
           /\ message'[Len(message) + 1] = t
           /\ \A n \in DOMAIN message : message'[n] = message[n]
<1>1. Len(message) \in Nat /\ DOMAIN message = 1 .. Len(message)
  BY LenProperties
<1>2. /\ message' \in Seq(Transactions)
      /\ Len(message') = Len(message) + 1
      /\ \A i \in 1 .. Len(message) : message'[i] = message[i]
      /\ message'[Len(message) + 1] = t
  BY AppendProperties
<1>3. DOMAIN message' = 1 .. Len(message')
  BY <1>2, LenProperties
<1>4. PICK n \in Nat : n = Len(message)
  BY <1>1
<1>5. 1 .. n + 1 = (1 .. n) \cup {n + 1} /\ n + 1 \notin 1 .. n
  OBVIOUS
<1>6. QED
  BY <1>1, <1>2, <1>3, <1>4, <1>5

\* The same for what becomes of it.
LEMMA FateMore ==
    ASSUME DataType, message' \in Seq(Transactions), Len(message') = Len(message) + 1,
           fate' = Append(fate, "pending")
    PROVE  /\ fate' \in Seq(Fates) /\ Len(fate') = Len(message')
           /\ \A n \in DOMAIN message : fate'[n] = fate[n]
           /\ fate'[Len(message) + 1] = "pending"
<1>1. fate \in Seq(Fates) /\ Len(fate) = Len(message) /\ message \in Seq(Transactions)
  BY DEF DataType
<1>2. "pending" \in Fates
  BY DEF Fates
<1>3. DOMAIN message = 1 .. Len(message)
  BY <1>1, LenProperties
<1>4. QED
  BY <1>1, <1>2, <1>3, AppendProperties

\* A transaction given another fate.
LEMMA FateChange ==
    ASSUME DataType, NEW n \in DOMAIN message, NEW f \in Fates, fate' = [fate EXCEPT ![n] = f]
    PROVE  /\ fate' \in Seq(Fates) /\ Len(fate') = Len(message)
           /\ \A k \in DOMAIN message : fate'[k] = IF k = n THEN f ELSE fate[k]
<1>1. fate \in Seq(Fates) /\ Len(fate) = Len(message) /\ DOMAIN message = 1 .. Len(message)
  BY LenProperties DEF DataType
<1>2. QED
  BY <1>1, ExceptSeq

\* What the user may do and still be of its type, whatever moved on the stack.
LEMMA SameWorld ==
    ASSUME UserType, UNCHANGED <<message, fate, signals, sigint>>
    PROVE  Bounded' /\ (Preserves <=> /\ (transMsg \in Own => transMsg' \in Own)
                                      /\ (recorded => recorded'))
  BY DEF UserType, Bounded, Preserves, Theirs

\* The copy of the ledger has messages only.
LEMMA ViewType ==
    ASSUME DataType
    PROVE  /\ Confirmed \subseteq DOMAIN message /\ Overwritten \subseteq DOMAIN message
           /\ DOMAIN message \subseteq Nat
  BY LenProperties DEF Confirmed, Overwritten, DataType

\* Numbers that wrap at Width.
LEMMA Wraps ==
    /\ Width \in Nat /\ 0 < Width /\ SO_BUDGET_INIT \in 0 .. Width - 1 /\ SO_RETRY \in 0 .. Width - 1
    /\ 0 \in 0 .. Width - 1
    /\ \A x \in Int : x % Width \in 0 .. Width - 1
    /\ \A x \in Int : x \in 0 .. Width - 1 => x % Width = x
    /\ \A x \in Nat : x % Width <= x
<1>1. PICK m : m = MaxDraw * MaxPayments
  OBVIOUS
<1>2. MaxDraw \in Nat /\ MaxPayments \in Nat
  BY UserAssumption
<1>3. m \in Nat
  BY <1>1, <1>2
<1>4. /\ Width \in Nat /\ 0 < Width /\ SO_BUDGET_INIT \in 0 .. Width - 1
      /\ SO_RETRY \in 0 .. Width - 1 /\ 0 \in 0 .. Width - 1
  BY <1>1, <1>3, UserAssumption
<1>5. \A w \in Nat : w > 0 => \A x \in Int : x % w \in 0 .. w - 1
  OBVIOUS
<1>6. \A w \in Nat : w > 0 => \A x \in Int : x \in 0 .. w - 1 => x % w = x
  OBVIOUS
<1>7. \A w \in Nat : w > 0 => \A x \in Nat : x % w <= x
  <2> SUFFICES ASSUME NEW w \in Nat, w > 0, NEW x \in Nat PROVE x % w <= x
    OBVIOUS
  <2>1. CASE x \in 0 .. w - 1
    BY <1>6, <2>1
  <2>2. CASE x > w - 1
    BY <1>5, <2>2
  <2>3. QED
    BY <2>1, <2>2
<1>8. QED
  BY <1>4, <1>5, <1>6, <1>7

\* The user starts as one should.
LEMMA TypeInit == Init => UserType
<1> SUFFICES ASSUME Init PROVE UserType
  OBVIOUS
<1>1. PICK f : f = Frame("main", {})
  OBVIOUS
<1>2. FrameOK(f) /\ f.proc = "main" /\ f \in FrameType
  <2>1. recorded \in BOOLEAN
    BY DEF Init
  <2>2. FrameOK(f)
    BY <1>1, <2>1, NewFrame
  <2>3. QED
    BY <1>1, <2>2 DEF Frame, FrameOK
<1>3. Stack
  <2>1. frames = <<f>>
    BY <1>1 DEF Init
  <2>2. frames \in Seq(FrameType) /\ Len(frames) = 1 /\ frames[1] = f
    BY <1>2, <2>1
  <2>3. QED
    BY <1>2, <2>2 DEF Stack
<1>4. DataType
  <2>1. 1 \in 1 .. MaxClock + 1 /\ 0 \in 0 .. MaxSignals
    BY UserAssumption
  <2>2. message = <<>> /\ fate = <<>> /\ outgoing = <<>>
    BY DEF Init
  <2>3. message \in Seq(Transactions) /\ fate \in Seq(Fates) /\ outgoing \in Seq(Transactions) /\ Len(fate) = Len(message)
    BY <2>2
  <2>4. balance \in 0 .. Width - 1 /\ currBalance \in 0 .. Width - 1
    BY Wraps DEF Init
  <2>5. QED
    BY <2>1, <2>3, <2>4 DEF Init, DataType
<1>5. Bounded
  <2>1. Theirs(DOMAIN message) = {}
    BY DEF Init, Theirs
  <2>2. Cardinality({}) = 0 /\ MaxPayments \in Nat
    BY FS_EmptySet, UserAssumption
  <2>3. QED
    BY <2>1, <2>2 DEF Bounded
<1>6. QED
  BY <1>3, <1>4, <1>5 DEF UserType

\* The top becomes f with another pc, or another g, while the messages stay.
LEMMA BecomeType ==
    ASSUME UserType, NEW g \in FrameType, Become(g),
           UNCHANGED <<message, fate, signals, sigint>>,
           recorded => recorded', DataType',
           transMsg \in Own => transMsg' \in Own,
           g.proc = Top.proc, g.masked = Top.masked, g.listed = Top.listed,
           g.view \subseteq DOMAIN message,
           g.pc \in IF g.proc = "int" THEN IntPcs ELSE LoopPcs,
           g.pc = "compose" => g.draw \in Own,
           g.pc \in {"send", "track"} => transMsg' \in Own
    PROVE  UserType' /\ Top' = g /\ Len(frames') = Len(frames)
<1>1. Stack /\ FrameOK(Top)
  BY TopFrame DEF UserType
<1>2. Preserves /\ Bounded'
  BY SameWorld
<1>3. FrameOK(g)'
  BY <1>1 DEF FrameOK
<1>4. Stack' /\ Top' = g /\ Len(frames') = Len(frames)
  BY <1>1, <1>2, <1>3, StackBecome
<1>5. QED
  BY <1>2, <1>4 DEF UserType

\* Where a frame that is not SIGINT's handler may be.
LEMMA Pcs ==
    /\ {"copy", "walk", "publish", "check", "draw", "compose", "send", "track"} = LoopPcs
    /\ {"copy", "walk", "publish", "settle", "refund", "exit"} = IntPcs
  BY DEF LoopPcs, IntPcs

\* The frame on top, as a record.
LEMMA TopIs ==
    ASSUME UserType
    PROVE  /\ Stack /\ DataType /\ FrameOK(Top) /\ Top \in FrameType
           /\ Top.view \subseteq DOMAIN message
           /\ Top.view \in SUBSET Nat /\ Top.temp \in 0 .. Width - 1
           /\ Top.retry \in 0 .. Width - 1 /\ Top.listed \in BOOLEAN
           /\ Top.proc \in {"main", "usr1", "int"}
           /\ Top.pc \in IF Top.proc = "int" THEN IntPcs ELSE LoopPcs
<1>1. Stack /\ DataType /\ FrameOK(Top)
  BY TopFrame DEF UserType
<1>2. Top \in FrameType
  BY <1>1 DEF FrameOK
<1>3. QED
  BY <1>1, <1>2 DEF FrameOK, FrameType

\* get_balance's copy.
LEMMA CopyLedgerType ==
    ASSUME UserType, CopyLedger
    PROVE  /\ UserType' /\ Len(frames') = Len(frames)
           /\ Top' = [Top EXCEPT !.view = Confirmed, !.pc = "walk"]
<1>1. PICK g : g = [Top EXCEPT !.view = Confirmed, !.pc = "walk"]
  OBVIOUS
<1>2. Confirmed \subseteq DOMAIN message /\ DOMAIN message \subseteq Nat
  BY TopIs, ViewType
<1>3. /\ g.proc = Top.proc /\ g.masked = Top.masked /\ g.listed = Top.listed
      /\ g.view = Confirmed /\ g.pc = "walk" /\ g \in FrameType
  <2>1. "walk" \in LoopPcs \cup IntPcs /\ Confirmed \in SUBSET Nat /\ Top \in FrameType
    BY <1>2, TopIs DEF LoopPcs
  <2>2. QED
    BY <1>1, <2>1 DEF FrameType
<1>4. DataType'
  BY TopIs DEF CopyLedger, DataType, entry, globals, world
<1>5. g.pc \in IF g.proc = "int" THEN IntPcs ELSE LoopPcs
  BY <1>3 DEF LoopPcs, IntPcs
<1>6. Become(g) /\ UNCHANGED <<message, fate, signals, sigint, recorded, transMsg>>
  BY <1>1 DEF CopyLedger, entry, globals, world
<1>7. QED
  BY <1>1, <1>2, <1>3, <1>4, <1>5, <1>6, BecomeType

\* What the walk computes.
LEMMA WalkType ==
    ASSUME UserType, NEW V, V \subseteq DOMAIN message
    PROVE  /\ StillOutgoing(V) \in Seq(Transactions)
           /\ Accumulate(V) \in Int
           /\ Accumulate(V) = Net(V) - CostOf(StillOutgoing(V))
           /\ Net(V) \in Int /\ CostOf(StillOutgoing(V)) \in Nat
<1>1. StillOutgoing(V) \in Seq(Transactions)
  BY StillOutgoingIs DEF UserType, DataType
<1>2. CostOf(StillOutgoing(V)) \in Nat
  BY <1>1, CostOfIsTotal
<1>3. Net(V) \in Int
  BY NetFits
<1>4. Accumulate(V) = Net(V) - CostOf(StillOutgoing(V))
  BY Zenon DEF Accumulate
<1>5. QED
  BY <1>1, <1>2, <1>3, <1>4

\* get_balance's walk ...
LEMMA WalkStepType ==
    ASSUME UserType, Walk
    PROVE  /\ UserType' /\ Len(frames') = Len(frames)
           /\ Top'.proc = Top.proc /\ Top'.listed = Top.listed /\ Top'.pc = "publish"
           /\ Top'.view = IF Top.proc = "int" THEN Top.view ELSE {}
           /\ Top'.temp = (SO_BUDGET_INIT + Accumulate(Top.view)) % Width
           /\ 0 <= SO_BUDGET_INIT + Accumulate(Top.view)
<1>1. PICK a : a = Accumulate(Top.view)
  OBVIOUS
<1>2. a \in Int /\ StillOutgoing(Top.view) \in Seq(Transactions)
  BY <1>1, TopIs, WalkType
<1>3. PICK temp : temp = (SO_BUDGET_INIT + a) % Width
  OBVIOUS
<1>4. temp \in 0 .. Width - 1
  BY <1>2, <1>3, Wraps
<1>5. PICK g : g = [Top EXCEPT !.temp = temp, !.pc = "publish",
                               !.view = IF Top.proc = "int" THEN Top.view ELSE {}]
  OBVIOUS
<1>6. /\ g.proc = Top.proc /\ g.masked = Top.masked /\ g.listed = Top.listed
      /\ g.view = (IF Top.proc = "int" THEN Top.view ELSE {}) /\ g.pc = "publish"
      /\ g.temp = temp /\ g \in FrameType
  <2>1. PICK v : v = (IF Top.proc = "int" THEN Top.view ELSE {})
    OBVIOUS
  <2>2. v \in SUBSET Nat /\ "publish" \in LoopPcs \cup IntPcs /\ Top \in FrameType
    BY <2>1, TopIs DEF LoopPcs
  <2>3. g = [Top EXCEPT !.temp = temp, !.pc = "publish", !.view = v]
    BY <1>5, <2>1
  <2>4. QED
    BY <1>4, <2>1, <2>2, <2>3 DEF FrameType
<1>7. /\ -a <= SO_BUDGET_INIT
      /\ Become([Top EXCEPT !.temp = (SO_BUDGET_INIT + a) % Width,
                            !.view = IF Top.proc = "int" THEN @ ELSE {},
                            !.pc = "publish"])
      /\ outgoing' = StillOutgoing(Top.view)
      /\ UNCHANGED <<entry, life, currBalance, transMsg, world>>
  BY <1>1 DEF Walk
<1>8. Become(g)
  <2>1. [Top EXCEPT !.temp = (SO_BUDGET_INIT + a) % Width,
                    !.view = IF Top.proc = "int" THEN @ ELSE {}, !.pc = "publish"] = g
    BY <1>3, <1>5, TopIs DEF FrameType
  <2>2. QED
    BY <1>7, <2>1
<1>9. DataType'
  BY <1>2, <1>7, TopIs DEF DataType, entry, world
<1>10. g.view \subseteq DOMAIN message /\ g.pc \in IF g.proc = "int" THEN IntPcs ELSE LoopPcs
  BY <1>6, TopIs DEF LoopPcs, IntPcs
<1>11. UNCHANGED <<message, fate, signals, sigint, recorded, transMsg>>
  BY <1>7 DEF entry, world
<1>12. UserType' /\ Top' = g /\ Len(frames') = Len(frames)
  BY <1>6, <1>8, <1>9, <1>10, <1>11, BecomeType
<1>13. 0 <= SO_BUDGET_INIT + a
  BY <1>2, <1>7, Wraps
<1>14. QED
  BY <1>1, <1>3, <1>6, <1>12, <1>13

\* ... and its error branch.
LEMMA OverflowType ==
    ASSUME UserType, Overflow
    PROVE  UserType' /\ Len(frames') = Len(frames) /\ Top' = Top
<1>1. StillOutgoing(Top.view) \in Seq(Transactions)
  BY TopIs, WalkType
<1>2. DataType'
  BY <1>1, TopIs DEF Overflow, DataType, SetStatus, world
<1>3. Preserves /\ Bounded'
  BY SameWorld DEF Overflow, world
<1>4. QED
  BY <1>2, <1>3, TopIs, StackSame DEF UserType, Overflow

\* update_balance.
LEMMA PublishType ==
    ASSUME UserType, Publish
    PROVE  /\ UserType' /\ Len(frames') = Len(frames)
           /\ Top' = [Top EXCEPT !.temp = 0, !.pc = IF Top.proc = "int"
                                                    THEN "settle" ELSE "check"]
<1>1. PICK pc : pc = IF Top.proc = "int" THEN "settle" ELSE "check"
  OBVIOUS
<1>2. PICK g : g = [Top EXCEPT !.temp = 0, !.pc = pc]
  OBVIOUS
<1>3. /\ g.proc = Top.proc /\ g.masked = Top.masked /\ g.listed = Top.listed
      /\ g.view = Top.view /\ g.pc = pc /\ g \in FrameType
  <2>1. pc \in LoopPcs \cup IntPcs /\ 0 \in 0 .. Width - 1 /\ Top \in FrameType
    BY <1>1, TopIs, Wraps DEF LoopPcs, IntPcs
  <2>2. QED
    BY <1>2, <2>1 DEF FrameType
<1>4. /\ currBalance' = Top.temp /\ SetBalance(Top.temp) /\ Become(g)
      /\ UNCHANGED <<recorded, status, life, outgoing, transMsg, world>>
  BY <1>1, <1>2 DEF Publish
<1>5. DataType'
  BY <1>4, TopIs DEF DataType, SetBalance, world
<1>6. g.pc \in IF g.proc = "int" THEN IntPcs ELSE LoopPcs
  BY <1>1, <1>3 DEF LoopPcs, IntPcs
<1>7. UNCHANGED <<message, fate, signals, sigint, recorded, transMsg>>
  BY <1>4 DEF world
<1>8. pc # "compose" /\ pc \notin {"send", "track"}
  BY <1>1
<1>9. UserType' /\ Top' = g /\ Len(frames') = Len(frames)
  BY <1>3, <1>4, <1>5, <1>6, <1>7, <1>8, TopIs, BecomeType
<1>10. QED
  BY <1>1, <1>2, <1>9

\* Steps that go on at another pc.
LEMMA GotoType ==
    ASSUME UserType, NEW pc \in LoopPcs \cup IntPcs, Goto(pc), DataType',
           UNCHANGED <<message, fate, signals, sigint, recorded>>,
           transMsg \in Own => transMsg' \in Own,
           pc \in IF Top.proc = "int" THEN IntPcs ELSE LoopPcs,
           pc # "compose", pc \in {"send", "track"} => transMsg' \in Own
    PROVE  UserType' /\ Len(frames') = Len(frames) /\ Top' = [Top EXCEPT !.pc = pc]
<1>1. PICK g : g = [Top EXCEPT !.pc = pc]
  OBVIOUS
<1>2. /\ g.proc = Top.proc /\ g.masked = Top.masked /\ g.listed = Top.listed
      /\ g.view = Top.view /\ g.pc = pc /\ g \in FrameType
  BY <1>1, TopIs DEF FrameType
<1>3. Become(g)
  BY <1>1 DEF Goto
<1>4. QED
  BY <1>1, <1>2, <1>3, TopIs, BecomeType

\* The test of the balance, in main ...
LEMMA CheckInMainType ==
    ASSUME UserType, CheckInMain
    PROVE  /\ UserType' /\ Len(frames') = Len(frames)
           /\ \/ currBalance >= 2 /\ Top' = [Top EXCEPT !.pc = "draw"]
              \/ Top' = [Top EXCEPT !.pc = "copy"]
<1>1. DataType'
  BY TopIs DEF CheckInMain, DataType, SetStatus, globals, world
<1>2. UNCHANGED <<message, fate, signals, sigint, recorded, transMsg>> /\ Top.proc = "main"
  BY DEF CheckInMain, globals, world
<1>3. (Goto("draw") /\ currBalance >= 2) \/ Goto("copy")
  BY DEF CheckInMain
<1>4. {"draw", "copy"} \subseteq LoopPcs
  BY DEF LoopPcs
<1>5. CASE Goto("draw") /\ currBalance >= 2
  <2>1. UserType' /\ Len(frames') = Len(frames) /\ Top' = [Top EXCEPT !.pc = "draw"]
    BY <1>1, <1>2, <1>4, <1>5, GotoType
  <2>2. QED
    BY <1>5, <2>1
<1>6. CASE Goto("copy")
  <2>1. UserType' /\ Len(frames') = Len(frames) /\ Top' = [Top EXCEPT !.pc = "copy"]
    BY <1>1, <1>2, <1>4, <1>6, GotoType
  <2>2. QED
    BY <2>1
<1>7. QED
  BY <1>3, <1>5, <1>6

\* ... and in SIGUSR1's handler.
LEMMA CheckInHandlerType ==
    ASSUME UserType, CheckInHandler
    PROVE  UserType'
<1>1. DataType' /\ Preserves /\ Bounded'
  <2>1. UNCHANGED <<message, fate, signals, sigint, recorded, transMsg>>
    BY DEF CheckInHandler, entry, globals, world
  <2>2. DataType'
    BY TopIs DEF CheckInHandler, DataType, entry, globals, world
  <2>3. QED
    BY <2>1, <2>2, SameWorld
<1>2. UNCHANGED <<message, fate, signals, sigint, recorded, transMsg>> /\ Top.proc = "usr1"
  BY DEF CheckInHandler, entry, globals, world
<1>3. Goto("draw") \/ Return
  BY DEF CheckInHandler
<1>4. "draw" \in LoopPcs
  BY DEF LoopPcs
<1>5. CASE Goto("draw")
  BY <1>1, <1>2, <1>4, <1>5, GotoType
<1>6. CASE Return
  BY <1>1, <1>2, <1>6, TopIs, StackReturn DEF UserType
<1>7. QED
  BY <1>3, <1>5, <1>6

\* The amount is drawn.
LEMMA DrawType ==
    ASSUME UserType, Draw
    PROVE  /\ UserType' /\ Len(frames') = Len(frames)
           /\ \E whole \in Draws :
                 Top' = [Top EXCEPT !.pc = "compose", !.draw = Transaction(TRUE, whole, 0)]
<1>1. PICK whole \in Draws :
         Become([Top EXCEPT !.pc = "compose", !.draw = Transaction(TRUE, whole, 0)])
  BY DEF Draw
<1>2. PICK t \in Own : t = Transaction(TRUE, whole, 0)
  <2>1. whole \in Nat
    BY UserAssumption DEF Draws
  <2>2. /\ Transaction(TRUE, whole, 0) \in Transactions
        /\ Transaction(TRUE, whole, 0).mine = TRUE
    BY <2>1, WholeIsCost
  <2>3. QED
    BY <2>2 DEF Transactions, Own
<1>3. PICK g : g = [Top EXCEPT !.pc = "compose", !.draw = t]
  OBVIOUS
<1>4. /\ g.proc = Top.proc /\ g.masked = Top.masked /\ g.listed = Top.listed
      /\ g.view = Top.view /\ g.pc = "compose" /\ g.draw = t /\ g \in FrameType
  <2>1. "compose" \in LoopPcs \cup IntPcs
    BY DEF LoopPcs
  <2>2. QED
    BY <1>3, <2>1, TopIs DEF FrameType
<1>5. Become(g)
  BY <1>1, <1>2, <1>3
<1>6. DataType'
  BY TopIs DEF Draw, DataType, SetStatus, globals, world
<1>7. UNCHANGED <<message, fate, signals, sigint, recorded, transMsg>>
  BY DEF Draw, globals, world
<1>8. g.pc \in IF g.proc = "int" THEN IntPcs ELSE LoopPcs
  <2>1. Top.pc = "draw"
    BY DEF Draw, At
  <2>2. Top.proc # "int"
    BY <2>1, TopIs DEF IntPcs
  <2>3. QED
    BY <1>4, <2>2 DEF LoopPcs
<1>9. UserType' /\ Top' = g /\ Len(frames') = Len(frames)
  BY <1>4, <1>5, <1>6, <1>7, <1>8, TopIs, BecomeType
<1>10. QED
  BY <1>2, <1>3, <1>9

\* Steps that leave the stack alone.
LEMMA StillType ==
    ASSUME UserType, UNCHANGED <<frames, message, fate, signals, transMsg>>,
           recorded => recorded', DataType'
    PROVE  UserType' /\ Len(frames') = Len(frames) /\ Top' = Top
<1>1. Preserves /\ Bounded'
  BY DEF UserType, Bounded, Preserves, Theirs
<1>2. QED
  BY <1>1, TopIs, StackSame DEF UserType

\* RAND divides by zero, or the user exits.
LEMMA EndType ==
    ASSUME UserType, DivideByZero \/ Exit
    PROVE  UserType' /\ Len(frames') = Len(frames) /\ Top' = Top
<1>1. UNCHANGED <<entry, frames, globals, world>> /\ life' \in {"fpe", "exited"}
  BY DEF DivideByZero, Exit
<1>2. DataType'
  BY <1>1, TopIs DEF DataType, entry, globals, world
<1>3. QED
  BY <1>1, <1>2, StillType DEF entry, globals, world

\* transaction_init.
LEMMA ComposeType ==
    ASSUME UserType, Compose
    PROVE  /\ UserType' /\ Len(frames') = Len(frames)
           /\ Top.draw \in Own
           /\ Top' = [Top EXCEPT !.pc = "send", !.draw = None]
<1>1. Top.draw \in Own /\ Top.pc = "compose" /\ Top.proc # "int"
  BY TopIs DEF Compose, At, FrameOK, IntPcs
<1>2. clock \in Nat /\ clock' \in 1 .. MaxClock + 1
  <2>1. PICK n \in Nat : n = MaxClock
    BY UserAssumption
  <2>2. clock \in 1 .. n + 1 /\ clock <= n /\ clock' = clock + 1
    BY <2>1, TopIs DEF Compose, DataType
  <2>3. QED
    BY <2>1, <2>2
<1>3. transMsg' = [Top.draw EXCEPT !.timestamp = clock] /\ transMsg' \in Own
  <2>1. transMsg' = [Top.draw EXCEPT !.timestamp = clock]
    BY DEF Compose
  <2>2. QED
    BY <1>1, <1>2, <2>1 DEF Own
<1>4. PICK g : g = [Top EXCEPT !.pc = "send", !.draw = None]
  OBVIOUS
<1>5. /\ g.proc = Top.proc /\ g.masked = Top.masked /\ g.listed = Top.listed
      /\ g.view = Top.view /\ g.pc = "send" /\ g \in FrameType
  <2>1. "send" \in LoopPcs \cup IntPcs /\ None \in Own \cup {None}
    BY DEF LoopPcs
  <2>2. QED
    BY <1>4, <2>1, TopIs DEF FrameType
<1>6. Become(g) /\ UNCHANGED <<entry, life, currBalance, outgoing, message, fate, sigint, signals>>
  BY <1>4 DEF Compose
<1>7. DataType'
  BY <1>2, <1>3, <1>6, TopIs DEF DataType, entry
<1>8. g.pc \in IF g.proc = "int" THEN IntPcs ELSE LoopPcs
  BY <1>1, <1>5 DEF LoopPcs
<1>9. UserType' /\ Top' = g /\ Len(frames') = Len(frames)
  BY <1>3, <1>5, <1>6, <1>7, <1>8, TopIs, BecomeType DEF entry
<1>10. QED
  BY <1>1, <1>4, <1>9

\* msgsnd finds room.
LEMMA SendType ==
    ASSUME UserType, Send
    PROVE  /\ UserType' /\ Len(frames') = Len(frames)
           /\ Top' = [Top EXCEPT !.pc = "track"]
           /\ transMsg \in Own
<1>1. transMsg \in Own /\ Top.pc = "send" /\ Top.proc # "int"
  BY TopIs DEF Send, At, FrameOK, IntPcs
<1>2. transMsg \in Transactions /\ transMsg.mine
  BY <1>1 DEF Own, Transactions
<1>3. message' = Append(message, transMsg) /\ fate' = Append(fate, "pending")
  BY DEF Send
<1>4. /\ message' \in Seq(Transactions) /\ Len(message') = Len(message) + 1
      /\ DOMAIN message' = DOMAIN message \cup {Len(message) + 1}
      /\ message'[Len(message) + 1] = transMsg
      /\ \A n \in DOMAIN message : message'[n] = message[n]
  <2>1. message \in Seq(Transactions)
    BY TopIs DEF DataType
  <2>2. QED
    BY <1>2, <1>3, <2>1, OneMore
<1>5. fate' \in Seq(Fates) /\ Len(fate') = Len(message')
  BY <1>3, <1>4, TopIs, FateMore
<1>6. DataType'
  BY <1>4, <1>5, TopIs DEF Send, DataType, entry, globals
<1>7. Bounded'
  <2>1. Theirs(DOMAIN message)' = Theirs(DOMAIN message)
    BY <1>2, <1>4 DEF Theirs
  <2>2. \A n \in Theirs(DOMAIN message) : message'[n] = message[n]
    BY <1>4 DEF Theirs
  <2>3. QED
    BY <2>1, <2>2 DEF UserType, Bounded
<1>8. Preserves
  BY <1>1, <1>4 DEF Send, Preserves, entry, globals
<1>9. PICK g : g = [Top EXCEPT !.pc = "track"]
  OBVIOUS
<1>10. FrameOK(g)'
  <2>1. /\ g.proc = Top.proc /\ g.masked = Top.masked /\ g.listed = Top.listed
        /\ g.view = Top.view /\ g.pc = "track" /\ g \in FrameType
    <3>1. "track" \in LoopPcs \cup IntPcs
      BY DEF LoopPcs
    <3>2. QED
      BY <1>9, <3>1, TopIs DEF FrameType
  <2>2. "track" \in LoopPcs
    BY DEF LoopPcs
  <2>3. UNCHANGED <<recorded, transMsg>>
    BY DEF Send, entry, globals
  <2>4. QED
    BY <1>1, <1>4, <2>1, <2>2, <2>3, TopIs DEF FrameOK
<1>11. Become(g) /\ g.proc = Top.proc
  BY <1>9, TopIs DEF Send, Goto, FrameType
<1>12. QED
  BY <1>1, <1>6, <1>7, <1>8, <1>9, <1>10, <1>11, TopIs, StackBecome DEF UserType

\* After msgsnd: what becomes of the stack, of main's in particular.
LEMMA AfterSendType ==
    ASSUME UserType, NEW retry \in 0 .. Width - 1, AfterSend(retry), Top.proc # "int",
           UNCHANGED <<message, fate, signals, sigint, recorded, transMsg>>, DataType'
    PROVE  /\ UserType'
           /\ Top.proc = "main" =>
                 \/ Len(frames') = 1 /\ Top' = Frame("int", {"int"})
                 \/ /\ Len(frames') = Len(frames) /\ status' = status
                    /\ Top' = [Top EXCEPT !.pc = "copy", !.retry = retry]
<1>1. Preserves /\ Bounded'
  BY SameWorld
<1>2. Top.proc = "main" => Top.masked = {}
  BY TopIs DEF FrameOK
<1>3. CASE retry = 0 /\ "int" \notin Top.masked
  <2>1. CallInt
    BY <1>3 DEF AfterSend
  <2>2. Stack' /\ Len(frames') = 1 /\ Top' = Frame("int", Top.masked \cup {"int"})
    BY <2>1, TopIs, StackCallInt DEF DataType
  <2>3. Top.proc = "main" => Top.masked \cup {"int"} = {"int"}
    BY <1>2
  <2>4. QED
    BY <1>1, <2>2, <2>3 DEF UserType
<1>4. CASE ~ (retry = 0 /\ "int" \notin Top.masked) /\ Top.proc = "main"
  <2>1. PICK g : g = [Top EXCEPT !.pc = "copy", !.retry = retry]
    OBVIOUS
  <2>2. Become(g) /\ status' = status
    BY <1>2, <1>4, <2>1 DEF AfterSend
  <2>3. /\ g.proc = Top.proc /\ g.masked = Top.masked /\ g.listed = Top.listed
        /\ g.view = Top.view /\ g.pc = "copy" /\ g \in FrameType
    <3>1. "copy" \in LoopPcs \cup IntPcs
      BY DEF LoopPcs
    <3>2. QED
      BY <2>1, <3>1, TopIs DEF FrameType
  <2>4. g.pc \in IF g.proc = "int" THEN IntPcs ELSE LoopPcs
    BY <2>3 DEF LoopPcs, IntPcs
  <2>5. UserType' /\ Top' = g /\ Len(frames') = Len(frames)
    BY <2>2, <2>3, <2>4, TopIs, BecomeType
  <2>6. QED
    BY <2>1, <2>2, <2>5
<1>5. CASE ~ (retry = 0 /\ "int" \notin Top.masked) /\ Top.proc # "main"
  <2>1. Top.proc = "usr1" /\ Return
    BY <1>5, TopIs DEF AfterSend
  <2>2. Stack'
    BY <1>1, <2>1, TopIs, StackReturn
  <2>3. QED
    BY <1>1, <1>5, <2>2 DEF UserType
<1>6. QED
  BY <1>3, <1>4, <1>5

\* send_transaction's bookkeeping.
LEMMA TrackType ==
    ASSUME UserType, Track
    PROVE  /\ UserType' /\ transMsg \in Own
           /\ Top.proc = "main" =>
                 \/ Len(frames') = 1 /\ Top' = Frame("int", {"int"})
                 \/ /\ Len(frames') = Len(frames) /\ status' = status
                    /\ Top' = [Top EXCEPT !.pc = "copy", !.retry = SO_RETRY]
<1>1. transMsg \in Own /\ Top.pc = "track" /\ Top.proc # "int"
  BY TopIs DEF Track, At, FrameOK, IntPcs
<1>2. transMsg \in Transactions /\ Cost(transMsg) \in Nat
  BY <1>1, CostIsNat DEF Own, Transactions
<1>3. currBalance' \in 0 .. Width - 1
  <2>1. currBalance \in Int
    BY TopIs DEF DataType
  <2>2. QED
    BY <1>2, <2>1, Wraps DEF Track, Spent
<1>4. outgoing' \in Seq(Transactions)
  BY <1>2, TopIs, AppendProperties DEF Track, DataType
<1>5. DataType'
  BY <1>3, <1>4, TopIs DEF Track, DataType, AfterSend, SetStatus, world
<1>6. UNCHANGED <<message, fate, signals, sigint, recorded, transMsg>> /\ AfterSend(SO_RETRY)
  BY DEF Track, world
<1>7. SO_RETRY \in 0 .. Width - 1
  BY Wraps
<1>8. QED
  BY <1>1, <1>5, <1>6, <1>7, AfterSendType

\* The queue is full.
LEMMA SendFailsType ==
    ASSUME UserType, SendFails
    PROVE  /\ UserType'
           /\ Top.proc = "main" =>
                 \/ Len(frames') = 1 /\ Top' = Frame("int", {"int"})
                 \/ /\ Len(frames') = Len(frames) /\ status' = status
                    /\ Top' = [Top EXCEPT !.pc = "copy", !.retry = (Top.retry - 1) % Width]
<1>1. Top.pc = "send" /\ Top.proc # "int"
  BY TopIs DEF SendFails, At, IntPcs
<1>2. PICK retry : retry = (Top.retry - 1) % Width
  OBVIOUS
<1>3. retry \in 0 .. Width - 1
  <2>1. Top.retry - 1 \in Int
    BY TopIs
  <2>2. QED
    BY <1>2, <2>1, Wraps
<1>4. AfterSend(retry) /\ UNCHANGED <<recorded, balance, life, globals, world>>
  BY <1>2 DEF SendFails
<1>5. DataType'
  BY <1>4, TopIs DEF DataType, AfterSend, SetStatus, globals, world
<1>6. UNCHANGED <<message, fate, signals, sigint, recorded, transMsg>>
  BY <1>4 DEF globals, world
<1>7. QED
  BY <1>1, <1>2, <1>3, <1>4, <1>5, <1>6, AfterSendType

\* SIGINT's handler sets the status ...
LEMMA SettleType ==
    ASSUME UserType, Settle
    PROVE  UserType' /\ Len(frames') = Len(frames) /\ Top' = [Top EXCEPT !.pc = "refund"]
<1>1. Top.pc = "settle" /\ Top.proc = "int"
  BY TopIs DEF Settle, At, LoopPcs
<1>2. DataType'
  BY TopIs DEF Settle, DataType, SetStatus, globals, world
<1>3. "refund" \in IntPcs
  BY DEF IntPcs
<1>4. Goto("refund") /\ UNCHANGED <<message, fate, signals, sigint, recorded, transMsg>>
  BY DEF Settle, globals, world
<1>5. QED
  BY <1>1, <1>2, <1>3, <1>4, GotoType

\* ... and adds back what is outgoing.
LEMMA RefundType ==
    ASSUME UserType, Refund
    PROVE  UserType' /\ Len(frames') = Len(frames) /\ Top' = [Top EXCEPT !.pc = "exit"]
<1>1. Top.pc = "refund" /\ Top.proc = "int"
  BY TopIs DEF Refund, At, LoopPcs
<1>2. balance' \in 0 .. Width - 1
  <2>1. balance \in 0 .. Width - 1 /\ CostOf(outgoing) \in Nat
    BY TopIs, CostOfIsTotal DEF DataType
  <2>2. balance \in Int
    BY <2>1
  <2>3. (balance + CostOf(outgoing)) % Width \in 0 .. Width - 1
    BY <2>1, <2>2, Wraps
  <2>4. QED
    BY <2>1, <2>3 DEF Refund, RefundOf
<1>3. DataType'
  BY <1>2, TopIs DEF Refund, DataType, globals, world
<1>4. "exit" \in IntPcs
  BY DEF IntPcs
<1>5. Goto("exit") /\ UNCHANGED <<message, fate, signals, sigint, recorded, transMsg>>
  BY DEF Refund, globals, world
<1>6. QED
  BY <1>1, <1>3, <1>4, <1>5, GotoType

\* spawn_user stores the pid; SIGINT is sent to the group.
LEMMA RecordType ==
    ASSUME UserType, Record \/ Interrupt
    PROVE  UserType' /\ Len(frames') = Len(frames) /\ Top' = Top
<1>1. /\ UNCHANGED <<frames, message, fate, signals, transMsg, status, balance, life, currBalance, outgoing, clock>>
      /\ recorded' \in BOOLEAN /\ sigint' \in BOOLEAN /\ (recorded => recorded')
  <2>1. recorded \in BOOLEAN /\ sigint \in BOOLEAN
    BY TopIs DEF DataType
  <2>2. CASE Record
    BY <2>1, <2>2 DEF Record, globals, world
  <2>3. CASE Interrupt
    BY <2>1, <2>3 DEF Interrupt, entry, globals
  <2>4. QED
    BY <2>2, <2>3
<1>2. DataType'
  BY <1>1, TopIs DEF DataType
<1>3. QED
  BY <1>1, <1>2, StillType

\* The user takes a SIGINT.
LEMMA SigintType ==
    ASSUME UserType, Sigint
    PROVE  /\ UserType' /\ Len(frames') = 1 /\ Top.proc # "int"
           /\ Top' = Frame("int", Top.masked \cup {"int"})
<1>1. CallInt /\ UNCHANGED <<entry, life, globals, world>> /\ Top.proc # "int"
  BY TopIs DEF Sigint, TakesSigint, FrameOK
<1>2. DataType' /\ Bounded'
  BY <1>1, TopIs DEF DataType, UserType, Bounded, Theirs, entry, globals, world
<1>3. recorded \in BOOLEAN /\ recorded' = recorded
  BY <1>1, TopIs DEF DataType, entry
<1>4. QED
  BY <1>1, <1>2, <1>3, TopIs, StackCallInt DEF UserType

\* The user takes a SIGUSR1.
LEMMA Sigusr1Type ==
    ASSUME UserType, Sigusr1
    PROVE  UserType' /\ signals' > 0
<1>1. Top.proc # "usr1" /\ Len(frames) = 1 /\ frames \in Seq(FrameType)
  <2>1. Top.proc # "usr1"
    BY TopIs DEF Sigusr1, FrameOK
  <2>2. QED
    BY <2>1, TopIs, TopFrame DEF Stack
<1>2. PICK masked \in SUBSET {"usr1", "int"} : masked = Top.masked \cup {"usr1"}
  <2>1. Top \in FrameType
    BY TopIs
  <2>2. QED
    BY <2>1 DEF FrameType
<1>3. PICK g : g = Frame("usr1", masked)
  OBVIOUS
<1>4. FrameOK(g) /\ g.proc = "usr1" /\ g \in FrameType
  <2>1. recorded \in BOOLEAN
    BY TopIs DEF DataType
  <2>2. FrameOK(g)
    BY <1>2, <1>3, <2>1, NewFrame
  <2>3. QED
    BY <1>3, <2>2 DEF Frame, FrameOK
<1>5. /\ frames' = Append(frames, g) /\ signals' = signals + 1 /\ signals < MaxSignals
      /\ UNCHANGED <<entry, life, globals, clock, message, fate, sigint>>
  BY <1>2, <1>3 DEF Sigusr1
<1>6. frames' \in Seq(FrameType) /\ Len(frames') = 2 /\ frames'[1] = frames[1] /\ frames'[2] = g
  <2>1. /\ Append(frames, g) \in Seq(FrameType) /\ Len(Append(frames, g)) = Len(frames) + 1
        /\ \A i \in 1 .. Len(frames) : Append(frames, g)[i] = frames[i]
        /\ Append(frames, g)[Len(frames) + 1] = g
    BY <1>1, <1>4, AppendProperties
  <2>2. Len(frames) + 1 = 2 /\ 1 \in 1 .. Len(frames)
    BY <1>1
  <2>3. QED
    BY <1>5, <2>1, <2>2
<1>7. Preserves
  BY <1>5 DEF Preserves, entry, globals
<1>8. FrameOK(frames[1])' /\ FrameOK(g)'
  <2>1. PICK f : f = frames[1]
    OBVIOUS
  <2>2. FrameOK(f)
    BY <1>1, <2>1, TopIs DEF Stack
  <2>3. FrameOK(f)' /\ FrameOK(g)'
    BY <1>4, <1>7, <2>2, FrameKept
  <2>4. f = frames'[1]
    BY <1>6, <2>1
  <2>5. QED
    BY <2>3, <2>4 DEF FrameOK
<1>9. \A k \in 1 .. 2 : FrameOK(frames[k])'
  <2>1. FrameOK(frames[2])'
    BY <1>6, <1>8 DEF FrameOK
  <2>2. QED
    BY <1>8, <2>1
<1>10. Stack'
  <2>1. frames[1].proc # "usr1"
    BY TopIs DEF Stack
  <2>2. QED
    BY <1>4, <1>6, <1>9, <2>1 DEF Stack
<1>11. signals' \in 0 .. MaxSignals /\ signals' > 0
  <2>1. signals \in 0 .. MaxSignals /\ MaxSignals \in Nat
    BY TopIs, UserAssumption DEF DataType
  <2>2. QED
    BY <1>5, <2>1
<1>12. DataType' /\ Bounded'
  BY <1>5, <1>11, TopIs DEF DataType, UserType, Bounded, Theirs, entry, globals
<1>13. QED
  BY <1>10, <1>11, <1>12 DEF UserType

\* Another user pays this one.
LEMMA PayType ==
    ASSUME UserType, Pay
    PROVE  /\ UserType' /\ Len(frames') = Len(frames) /\ Top' = Top
           /\ Len(message) + 1 \notin DOMAIN message
           /\ DOMAIN message' = DOMAIN message \cup {Len(message) + 1}
           /\ ~ message'[Len(message) + 1].mine
           /\ \A n \in DOMAIN message : message'[n] = message[n] /\ fate'[n] = fate[n]
           /\ fate'[Len(message) + 1] = "pending"
<1>1. PICK whole \in 2 .. MaxDraw : message' = Append(message, Transaction(FALSE, whole, 0))
  BY DEF Pay
<1>2. PICK t : t = Transaction(FALSE, whole, 0)
  OBVIOUS
<1>3. t \in Transactions /\ t.amount <= MaxDraw /\ ~ t.mine
  <2>1. MaxDraw \in Nat /\ whole \in Nat /\ whole <= MaxDraw
    BY UserAssumption
  <2>2. /\ Transaction(FALSE, whole, 0) \in Transactions
        /\ Transaction(FALSE, whole, 0).amount <= whole
        /\ Transaction(FALSE, whole, 0).mine = FALSE
    BY <2>1, WholeIsCost
  <2>3. Transaction(FALSE, whole, 0).amount \in Nat
    BY <2>2 DEF Transactions
  <2>4. t \in Transactions /\ t.amount \in Nat /\ t.amount <= whole
    BY <1>2, <2>2, <2>3
  <2>5. t.amount <= MaxDraw
    BY <2>1, <2>4
  <2>6. ~ t.mine
    BY <1>2, <2>2
  <2>7. QED
    BY <2>4, <2>5, <2>6
<1>4. PICK m : m = Len(message) + 1
  OBVIOUS
<1>5. /\ message' \in Seq(Transactions) /\ Len(message') = Len(message) + 1
      /\ DOMAIN message' = DOMAIN message \cup {m} /\ m \notin DOMAIN message
      /\ message'[m] = t
      /\ \A n \in DOMAIN message : message'[n] = message[n]
  <2>1. message \in Seq(Transactions) /\ message' = Append(message, t)
    BY <1>1, <1>2, <1>3, TopIs DEF DataType
  <2>2. QED
    BY <1>4, <1>3, <2>1, OneMore
<1>6. /\ fate' \in Seq(Fates) /\ Len(fate') = Len(message')
      /\ \A n \in DOMAIN message : fate'[n] = fate[n]
      /\ fate'[m] = "pending"
  <2>1. fate' = Append(fate, "pending")
    BY DEF Pay
  <2>2. QED
    BY <1>4, <1>5, <2>1, TopIs, FateMore
<1>7. DataType'
  BY <1>5, <1>6, TopIs DEF Pay, DataType, entry, globals
<1>8. Bounded'
  <2>1. PICK T : T = Theirs(DOMAIN message)
    OBVIOUS
  <2>2. Theirs(DOMAIN message)' = T \cup {m} /\ m \notin T /\ T \subseteq DOMAIN message
    BY <1>3, <1>5, <2>1 DEF Theirs
  <2>3. IsFiniteSet(T)
    BY <2>1, TopIs, MessagesAre DEF DataType
  <2>4. Cardinality(T \cup {m}) = Cardinality(T) + 1 /\ Cardinality(T) \in Nat
    BY <2>2, <2>3, FS_AddElement, FS_CardinalityType
  <2>5. Cardinality(T) < MaxPayments /\ MaxPayments \in Nat
    BY <2>1, UserAssumption DEF Pay
  <2>6. Cardinality(T \cup {m}) <= MaxPayments
    <3>1. PICK c \in Nat : c = Cardinality(T)
      BY <2>4
    <3>2. QED
      BY <2>4, <2>5, <3>1
  <2>7. \A n \in T \cup {m} : message'[n].amount <= MaxDraw
    BY <1>3, <1>5, <2>1, <2>2 DEF UserType, Bounded
  <2>8. QED
    BY <2>2, <2>6, <2>7 DEF Bounded
<1>9. Preserves
  BY <1>5 DEF Pay, Preserves, entry, globals
<1>10. UNCHANGED frames
  BY DEF Pay
<1>11. Stack' /\ Top' = Top /\ Len(frames') = Len(frames)
  BY <1>9, <1>10, TopIs, StackSame
<1>12. QED
  BY <1>3, <1>4, <1>5, <1>6, <1>7, <1>8, <1>11 DEF UserType

\* The nodes and builders decide on a transaction.
LEMMA DecideType ==
    ASSUME UserType, NEW n \in DOMAIN message, Decide(n) \/ Overwrite(n)
    PROVE  /\ UserType' /\ Len(frames') = Len(frames) /\ Top' = Top
           /\ \E f \in Fates :
                 /\ \A k \in DOMAIN message : fate'[k] = IF k = n THEN f ELSE fate[k]
                 /\ \/ fate[n] = "pending" /\ f \in {"confirmed", "discarded"}
                    \/ fate[n] = "confirmed" /\ f = "overwritten"
<1>1. UNCHANGED <<entry, life, frames, globals, clock, message, sigint, signals>>
  BY DEF Decide, Overwrite
<1>2. PICK f \in Fates : /\ fate' = [fate EXCEPT ![n] = f]
                         /\ \/ fate[n] = "pending" /\ f \in {"confirmed", "discarded"}
                            \/ fate[n] = "confirmed" /\ f = "overwritten"
  BY DEF Decide, Overwrite, Fates
<1>3. /\ fate' \in Seq(Fates) /\ Len(fate') = Len(message)
      /\ \A k \in DOMAIN message : fate'[k] = IF k = n THEN f ELSE fate[k]
  BY <1>2, TopIs, FateChange
<1>4. DataType'
  BY <1>1, <1>3, TopIs DEF DataType, entry, globals
<1>5. Preserves /\ Bounded'
  BY <1>1 DEF UserType, Bounded, Preserves, Theirs, entry, globals
<1>6. Stack' /\ Top' = Top /\ Len(frames') = Len(frames)
  BY <1>1, <1>5, TopIs, StackSame
<1>7. QED
  BY <1>2, <1>3, <1>4, <1>5, <1>6 DEF UserType

\* Nothing happens.
LEMMA StutterType ==
    ASSUME UserType, UNCHANGED vars
    PROVE  UserType' /\ Len(frames') = Len(frames) /\ Top' = Top
<1>1. UNCHANGED <<recorded, status, balance, life, frames, currBalance, outgoing,
                  transMsg, clock, message, fate, sigint, signals>>
  BY DEF vars
<1>2. DataType'
  BY <1>1, TopIs DEF DataType
<1>3. QED
  BY <1>1, <1>2, StillType

\* Every step keeps the types.
LEMMA TypeStep ==
    ASSUME UserType, [Next]_vars
    PROVE  UserType'
<1>1. CASE UserStep
  BY <1>1, CopyLedgerType, WalkStepType, OverflowType, PublishType, CheckInMainType,
     CheckInHandlerType, DrawType, EndType, ComposeType, SendType, TrackType, SendFailsType,
     SettleType, RefundType DEF UserStep
<1>2. CASE Record \/ Interrupt \/ Sigint \/ Sigusr1 \/ Pay
  BY <1>2, RecordType, SigintType, Sigusr1Type, PayType
<1>3. CASE \E n \in DOMAIN message : Decide(n) \/ Overwrite(n)
  BY <1>3, DecideType
<1>4. CASE UNCHANGED vars
  BY <1>4, StutterType
<1>5. QED
  BY <1>1, <1>2, <1>3, <1>4 DEF Next

-------------------------------------------------------------------------------
(* A user that no SIGUSR1 has disturbed. *)

\* What the invariant says of the next state, of the frame g on top of it.
LEMMA QuietNext ==
    ASSUME NEW g, g = Top', Distinct', Sending(g)', Kept(g)', Copied(g)', Settling(g)',
           status' = "dead" => life' # "runs" \/ g.proc = "int",
           g.pc = "draw" => currBalance' >= 2
    PROVE  Quiet(Top)'
  BY DEF Quiet, Sending, Kept, Copied, Settling, Sent

\* Steps that neither send nor track anything.
LEMMA QuietSame ==
    ASSUME NEW f, NEW g, Quiet(f), UNCHANGED <<message, fate, outgoing, clock, transMsg>>,
           g.proc = f.proc \/ g.proc = "int",
           g.pc = f.pc \/ (f.pc # "track" /\ g.pc \notin {"send", "track"})
    PROVE  Distinct' /\ Sending(g)' /\ (f.pc # "track" \/ f.pc = g.pc => Kept(g)')
<1>1. Distinct'
  BY DEF Quiet, Distinct, Mine, NoneTwice
<1>2. Sending(g)'
  BY DEF Quiet, Sending, Mine, In
<1>3. ASSUME f.pc # "track" \/ f.pc = g.pc PROVE Kept(g)'
  BY <1>3 DEF Quiet, Kept, Sent, Tracked, In, Mine
<1>4. QED
  BY <1>1, <1>2, <1>3

\* The ledger adds the same as long as the messages in it are the same.
LEMMA NetKept ==
    ASSUME message \in Seq(Transactions), message' \in Seq(Transactions),
           NEW W, W \subseteq DOMAIN message, W \subseteq DOMAIN message',
           \A n \in W : message'[n] = message[n]
    PROVE  Net(W)' = Net(W)
<1>1. Net(W) = Total(Amounts, Theirs(W)) - Total(Costs, Mine(W))
  BY NetIsTotal DEF NetAddsUp
<1>2. Net(W)' = Total(Amounts', Theirs(W)') - Total(Costs', Mine(W)')
  BY NetIsTotalNext DEF NetAddsUp
<1>3. Theirs(W)' = Theirs(W) /\ Mine(W)' = Mine(W)
  BY DEF Theirs, Mine
<1>4. PICK v, w, c, d : v = Amounts /\ w = Amounts' /\ c = Costs /\ d = Costs'
  OBVIOUS
<1>5. /\ IsFiniteSet(Theirs(W)) /\ IsFiniteSet(Mine(W))
      /\ \A n \in Theirs(W) : v[n] \in Int /\ v[n] = w[n]
      /\ \A n \in Mine(W) : c[n] \in Int /\ c[n] = d[n]
  <2>1. /\ IsFiniteSet(Theirs(W)) /\ IsFiniteSet(Mine(W))
        /\ Theirs(W) \subseteq W /\ Mine(W) \subseteq W
        /\ \A n \in W : v[n] \in Nat /\ c[n] \in Nat
    BY <1>4, MessagesAre
  <2>2. \A n \in W : v[n] = w[n] /\ c[n] = d[n]
    BY <1>4 DEF Amounts, Costs, Cost
  <2>3. QED
    BY <2>1, <2>2
<1>6. Total(v, Theirs(W)) = Total(w, Theirs(W)) /\ Total(c, Mine(W)) = Total(d, Mine(W))
  BY <1>5, TotalSame
<1>7. QED
  BY <1>1, <1>2, <1>3, <1>4, <1>6

\* The only frame is main's or SIGINT's handler's; main's computes no refund.
LEMMA Alone ==
    ASSUME UserType, Len(frames) = 1
    PROVE  /\ Top.proc \in {"main", "int"}
           /\ Top.pc \in {"check", "draw", "compose", "send", "track"} => Top.proc = "main"
           /\ Top.pc \in {"settle", "refund", "exit"} => Top.proc = "int"
           /\ Top.proc = "main" => ~ Top.listed /\ Top.masked = {}
           /\ Top.listed => recorded
<1>1. Top.proc \in {"main", "int"}
  BY TopIs, TopFrame DEF Stack
<1>2. FrameOK(Top) /\ Top.pc \in IF Top.proc = "int" THEN IntPcs ELSE LoopPcs
  BY TopIs
<1>3. QED
  BY <1>1, <1>2 DEF FrameOK, LoopPcs, IntPcs

\* get_balance's copy.
LEMMA CopyLedgerQuiet ==
    ASSUME UserType, Len(frames) = 1, Quiet(Top), CopyLedger
    PROVE  Quiet(Top)'
<1>1. PICK f, g : f = Top /\ g = Top'
  OBVIOUS
<1>2. Quiet(f) /\ f.pc = "copy" /\ life = "runs"
  BY <1>1 DEF CopyLedger, At
<1>3. UNCHANGED <<entry, life, globals, world>>
  BY DEF CopyLedger
<1>4. g.view = Confirmed /\ g.pc = "walk" /\ g.proc = f.proc /\ g.listed = f.listed
  BY <1>1, CopyLedgerType, TopIs DEF FrameType
<1>5. Distinct' /\ Sending(g)' /\ Kept(g)'
  BY <1>2, <1>3, <1>4, QuietSame DEF globals, world
<1>6. Copied(g)'
  BY <1>3, <1>4 DEF Copied, Confirmed, Overwritten, Mine, world
<1>7. Settling(g)'
  BY <1>2, <1>3, <1>4 DEF Settling
<1>8. QED
  BY <1>1, <1>2, <1>3, <1>4, <1>5, <1>6, <1>7, QuietNext DEF Quiet, entry

\* The walk takes nothing out of the list that is not in the ledger, and leaves
\* what is.
LEMMA WalkKeeps ==
    ASSUME UserType, NEW f, Quiet(f), f.pc = "walk", f.view \subseteq DOMAIN message,
           outgoing' = StillOutgoing(f.view), UNCHANGED <<clock, transMsg, message, fate>>
    PROVE  /\ Distinct'
           /\ \A n \in Mine(DOMAIN message) : Tracked(n)' <=> Tracked(n) /\ n \notin f.view
           /\ f.proc = "main" =>
                 \A n \in Mine(DOMAIN message) : fate[n] \in {"pending", "discarded"} => Tracked(n)'
<1>1. PICK list : list = outgoing'
  OBVIOUS
<1>2. /\ NoneTwice(list)
      /\ \A u : In(u, list) <=> In(u, outgoing) /\ \A n \in Mine(f.view) : u # message[n]
  BY <1>1, WalkAddsUp DEF Quiet
<1>3. /\ Mine(f.view) \subseteq Mine(DOMAIN message)
      /\ \A n \in Mine(DOMAIN message) : n \in f.view <=> n \in Mine(f.view)
  BY DEF Mine
<1>4. \A n, k \in Mine(DOMAIN message) : message[n] = message[k] => n = k
  BY DEF Quiet, Distinct
<1>5. \A n \in Mine(DOMAIN message) : In(message[n], list) <=> Tracked(n) /\ n \notin f.view
  <2> SUFFICES ASSUME NEW n \in Mine(DOMAIN message)
               PROVE  In(message[n], list) <=> Tracked(n) /\ n \notin f.view
    OBVIOUS
  <2>1. (\A k \in Mine(f.view) : message[n] # message[k]) <=> n \notin f.view
    BY <1>3, <1>4
  <2>2. QED
    BY <1>2, <2>1 DEF Tracked
<1>6. \A n \in Mine(DOMAIN message) : Tracked(n)' <=> Tracked(n) /\ n \notin f.view
  BY <1>1, <1>5 DEF Tracked
<1>7. Distinct'
  <2>1. \A p \in 1 .. Len(list) : \E n \in Mine(DOMAIN message) : list[p] = message[n]
    <3> SUFFICES ASSUME NEW p \in 1 .. Len(list)
                 PROVE  \E n \in Mine(DOMAIN message) : list[p] = message[n]
      OBVIOUS
    <3>1. In(list[p], list)
      BY DEF In
    <3>2. In(list[p], outgoing)
      BY <1>2, <3>1
    <3>3. QED
      BY <3>2 DEF In, Quiet, Distinct
  <2>2. Mine(DOMAIN message)' = Mine(DOMAIN message)
    BY DEF Mine
  <2>3. NoneTwice(outgoing)'
    BY <1>1, <1>2 DEF NoneTwice
  <2>4. \A n \in Mine(DOMAIN message) : message[n].timestamp < clock
    BY DEF Quiet, Distinct
  <2>5. QED
    BY <1>1, <1>4, <2>1, <2>2, <2>3, <2>4 DEF Distinct
<1>8. ASSUME f.proc = "main", NEW n \in Mine(DOMAIN message), fate[n] \in {"pending", "discarded"}
      PROVE  Tracked(n)'
  <2>1. Tracked(n)
    BY <1>8 DEF Quiet, Kept, Sent
  <2>2. n \notin f.view
    BY <1>8 DEF Quiet, Copied, Confirmed, Overwritten
  <2>3. QED
    BY <1>6, <2>1, <2>2
<1>9. QED
  BY <1>6, <1>7, <1>8

\* get_balance's walk: it comes out at what the ledger and the list say.
LEMMA WalkQuiet ==
    ASSUME UserType, Len(frames) = 1, Quiet(Top), Walk
    PROVE  Quiet(Top)'
<1>1. PICK f, g : f = Top /\ g = Top'
  OBVIOUS
<1>2. Quiet(f) /\ f.pc = "walk" /\ life = "runs" /\ f.view \subseteq DOMAIN message
  BY <1>1, TopIs DEF Walk, At
<1>3. UNCHANGED <<entry, life, currBalance, transMsg, world>> /\ outgoing' = StillOutgoing(f.view)
  BY <1>1 DEF Walk
<1>4. /\ g.pc = "publish" /\ g.proc = f.proc /\ g.listed = f.listed
      /\ f.proc = "int" => g.view = f.view
      /\ g.temp = (SO_BUDGET_INIT + Accumulate(f.view)) % Width
      /\ 0 <= SO_BUDGET_INIT + Accumulate(f.view)
  BY <1>1, WalkStepType
<1>5. /\ Distinct'
      /\ f.proc = "main" =>
            \A n \in Mine(DOMAIN message) : fate[n] \in {"pending", "discarded"} => Tracked(n)'
  BY <1>2, <1>3, WalkKeeps DEF world
<1>6. Sending(g)' /\ Copied(g)'
  BY <1>4 DEF Sending, Copied
<1>7. Kept(g)'
  BY <1>3, <1>4, <1>5 DEF Kept, Mine, world
<1>8. g.temp = SO_BUDGET_INIT + Net(f.view) - CostOf(outgoing')
  <2>1. PICK list : list = StillOutgoing(f.view)
    OBVIOUS
  <2>2. /\ Accumulate(f.view) = Net(f.view) - CostOf(list)
        /\ Net(f.view) \in Int /\ CostOf(list) \in Nat
    BY <1>2, <2>1, WalkType
  <2>3. SO_BUDGET_INIT + Net(f.view) < Width
    BY <1>2, NetFits
  <2>4. PICK a, b, c : a = Net(f.view) /\ b = CostOf(list) /\ c = Accumulate(f.view)
    OBVIOUS
  <2>5. /\ a \in Int /\ b \in Nat /\ c = a - b /\ SO_BUDGET_INIT + a < Width
        /\ 0 <= SO_BUDGET_INIT + c
    BY <1>4, <2>2, <2>3, <2>4
  <2>6. PICK s \in Nat : s = SO_BUDGET_INIT
    BY UserAssumption
  <2>7. s + c \in Int /\ s + c \in 0 .. Width - 1 /\ s + c = s + a - b
    BY <2>5, <2>6, Wraps
  <2>8. (s + c) % Width = s + c
    BY <2>7, Wraps
  <2>9. g.temp = s + a - b
    BY <1>4, <2>4, <2>6, <2>7, <2>8
  <2>10. QED
    BY <1>3, <2>1, <2>4, <2>6, <2>9
<1>9. Settling(g)'
  <2>1. Net(f.view)' = Net(f.view)
    BY <1>2, <1>3, TopIs, NetKept DEF DataType, world
  <2>2. PICK e : e = CostOf(outgoing')
    OBVIOUS
  <2>3. CostOf(outgoing)' = e
    BY <2>2
  <2>4. f.proc = "int" => Net(g.view)' = Net(f.view)
    <3>1. ASSUME f.proc = "int" PROVE Net(g.view)' = Net(f.view)
      <4>1. g.view = f.view
        BY <1>4, <3>1
      <4>2. QED
        BY <2>1, <4>1
    <3>2. QED
      BY <3>1
  <2>5. life' # "exited"
    BY <1>2, <1>3
  <2>6. f.proc = "int" => g.temp = SO_BUDGET_INIT + Net(g.view)' - CostOf(outgoing)'
    BY <1>8, <2>2, <2>3, <2>4
  <2>7. QED
    BY <1>4, <2>5, <2>6 DEF Settling
<1>10. QED
  BY <1>1, <1>2, <1>3, <1>4, <1>5, <1>6, <1>7, <1>9, QuietNext DEF Quiet, entry

\* Its error branch.
LEMMA OverflowQuiet ==
    ASSUME UserType, Len(frames) = 1, Quiet(Top), Overflow
    PROVE  Quiet(Top)'
<1>1. PICK f : f = Top
  OBVIOUS
<1>2. Quiet(f) /\ f.pc = "walk" /\ f.view \subseteq DOMAIN message /\ f = Top'
  BY <1>1, OverflowType, TopIs DEF Overflow, At
<1>3. UNCHANGED <<currBalance, transMsg, world>> /\ outgoing' = StillOutgoing(f.view) /\ life' = "segv"
  BY <1>1 DEF Overflow
<1>4. /\ Distinct'
      /\ \A n \in Mine(DOMAIN message) : Tracked(n)' <=> Tracked(n) /\ n \notin f.view
      /\ f.proc = "main" =>
            \A n \in Mine(DOMAIN message) : fate[n] \in {"pending", "discarded"} => Tracked(n)'
  BY <1>2, <1>3, WalkKeeps DEF world
<1>5. Sending(f)' /\ Settling(f)'
  BY <1>1, <1>2, <1>3, Alone DEF Sending, Settling
<1>6. Kept(f)'
  BY <1>3, <1>4 DEF Kept, Mine, world
<1>7. Copied(f)'
  <2>1. Confirmed' = Confirmed /\ Overwritten' = Overwritten /\ Mine(Confirmed)' = Mine(Confirmed)
    BY <1>3 DEF Confirmed, Overwritten, Mine, world
  <2>2. Mine(Confirmed) \subseteq Mine(DOMAIN message)
    BY DEF Confirmed, Mine
  <2>3. f.proc = "main" => \A n \in Mine(Confirmed) : n \in f.view \/ Tracked(n)'
    BY <1>2, <1>4, <2>2 DEF Quiet, Copied
  <2>4. f.view \subseteq Confirmed \cup Overwritten
    BY <1>2 DEF Quiet, Copied
  <2>5. QED
    BY <2>1, <2>3, <2>4 DEF Copied
<1>8. QED
  BY <1>2, <1>3, <1>4, <1>5, <1>6, <1>7, QuietNext

\* update_balance.
LEMMA PublishQuiet ==
    ASSUME UserType, Len(frames) = 1, Quiet(Top), Publish
    PROVE  Quiet(Top)'
<1>1. PICK f, g : f = Top /\ g = Top'
  OBVIOUS
<1>2. Quiet(f) /\ f.pc = "publish" /\ life = "runs" /\ f.view \subseteq DOMAIN message
  BY <1>1, TopIs DEF Publish, At
<1>3. /\ UNCHANGED <<recorded, status, life, outgoing, transMsg, world>>
      /\ balance' = IF recorded THEN f.temp ELSE balance
  BY <1>1 DEF Publish, SetBalance
<1>4. /\ g.pc = (IF f.proc = "int" THEN "settle" ELSE "check")
      /\ g.proc = f.proc /\ g.listed = f.listed /\ g.view = f.view
  BY <1>1, PublishType, TopIs DEF FrameType
<1>5. Distinct' /\ Sending(g)' /\ Kept(g)'
  BY <1>2, <1>3, <1>4, QuietSame DEF world
<1>6. Copied(g)'
  BY <1>4 DEF Copied
<1>7. Settling(g)'
  <2>1. PICK a, b : a = Net(f.view) /\ b = CostOf(outgoing)
    OBVIOUS
  <2>2. a \in Int /\ SO_BUDGET_INIT + a < Width /\ b \in Nat /\ SO_BUDGET_INIT \in Nat /\ Width \in Nat
    BY <1>2, <2>1, TopIs, NetFits, CostOfIsTotal, UserAssumption DEF DataType
  <2>3. Net(f.view)' = a
    BY <1>2, <1>3, <2>1, TopIs, NetKept DEF DataType, world
  <2>4. CostOf(outgoing)' = b
    BY <1>3, <2>1
  <2>5. f.listed => f.proc = "int" /\ recorded
    BY <1>1, TopIs DEF FrameOK
  <2>6. ASSUME f.listed
        PROVE balance' = SO_BUDGET_INIT + a - b /\ SO_BUDGET_INIT + a \in 0 .. Width - 1
    <3>1. balance' = f.temp /\ f.temp = SO_BUDGET_INIT + a - b
      BY <1>2, <1>3, <2>1, <2>5, <2>6 DEF Quiet, Settling
    <3>2. f.temp \in 0 .. Width - 1
      BY <1>1, TopIs
    <3>3. QED
      BY <2>2, <3>1, <3>2
  <2>7. life' # "exited" /\ g.pc # "publish" /\ g.pc # "exit"
    BY <1>2, <1>3, <1>4
  <2>8. Net(g.view)' = a
    BY <1>4, <2>3
  <2>9. QED
    BY <1>4, <2>4, <2>6, <2>7, <2>8 DEF Settling
<1>8. QED
  BY <1>1, <1>2, <1>3, <1>4, <1>5, <1>6, <1>7, QuietNext DEF Quiet

\* main's test of the balance.
LEMMA CheckInMainQuiet ==
    ASSUME UserType, Len(frames) = 1, Quiet(Top), CheckInMain
    PROVE  Quiet(Top)'
<1>1. PICK f, g : f = Top /\ g = Top'
  OBVIOUS
<1>2. Quiet(f) /\ f.pc = "check" /\ f.proc = "main" /\ life = "runs" /\ ~ f.listed
  BY <1>1, Alone DEF CheckInMain, At
<1>3. UNCHANGED <<recorded, balance, life, globals, world>>
  BY DEF CheckInMain
<1>4. /\ g.proc = f.proc /\ g.listed = f.listed
      /\ g.pc = "copy" \/ (g.pc = "draw" /\ currBalance >= 2)
  BY <1>1, CheckInMainType, TopIs DEF FrameType
<1>5. Distinct' /\ Sending(g)' /\ Kept(g)'
  BY <1>2, <1>3, <1>4, QuietSame DEF globals, world
<1>6. Copied(g)' /\ Settling(g)'
  BY <1>2, <1>3, <1>4 DEF Copied, Settling
<1>7. status' \in {status, "alive", "broke"}
  BY DEF CheckInMain, SetStatus
<1>8. QED
  BY <1>1, <1>2, <1>3, <1>4, <1>5, <1>6, <1>7, QuietNext DEF Quiet, globals

\* The amount is drawn.
LEMMA DrawQuiet ==
    ASSUME UserType, Len(frames) = 1, Quiet(Top), Draw
    PROVE  Quiet(Top)'
<1>1. PICK f, g : f = Top /\ g = Top'
  OBVIOUS
<1>2. Quiet(f) /\ f.pc = "draw" /\ f.proc = "main" /\ life = "runs" /\ ~ f.listed
  BY <1>1, Alone DEF Draw, At
<1>3. UNCHANGED <<recorded, status, balance, life, globals, world>>
  BY <1>1, <1>2 DEF Draw
<1>4. g.proc = f.proc /\ g.listed = f.listed /\ g.pc = "compose"
  BY <1>1, DrawType, TopIs DEF FrameType
<1>5. Distinct' /\ Sending(g)' /\ Kept(g)'
  BY <1>2, <1>3, <1>4, QuietSame DEF globals, world
<1>6. Copied(g)' /\ Settling(g)'
  BY <1>2, <1>3, <1>4 DEF Copied, Settling
<1>7. QED
  BY <1>1, <1>2, <1>3, <1>4, <1>5, <1>6, QuietNext DEF Quiet

\* Steps that leave the user's own state alone.
LEMMA StillQuiet ==
    ASSUME UserType, Quiet(Top), Top' = Top,
           UNCHANGED <<status, balance, currBalance, outgoing, transMsg, clock, message, fate>>,
           life' = life \/ (life' = "fpe" /\ Top.pc = "draw") \/ (life' = "exited" /\ Top.pc = "exit")
    PROVE  Quiet(Top)'
<1>1. PICK f : f = Top /\ f = Top'
  OBVIOUS
<1>2. Quiet(f)
  BY <1>1
<1>3. Distinct' /\ Sending(f)' /\ Kept(f)'
  BY <1>2, QuietSame
<1>4. Copied(f)'
  BY <1>2 DEF Quiet, Copied, Confirmed, Overwritten, Mine, Tracked, In
<1>5. Settling(f)'
  <2>1. PICK a, b : a = Net(f.view) /\ b = CostOf(outgoing)
    OBVIOUS
  <2>2. Net(f.view)' = a
    BY <1>1, <2>1, TopIs, NetKept DEF DataType
  <2>3. CostOf(outgoing)' = b
    BY <2>1
  <2>4. (life' = "exited" => f.pc = "exit") /\ (life' # "runs" => f.pc # "track")
    BY <1>1, <1>2 DEF Quiet, Settling
  <2>5. QED
    BY <1>2, <2>1, <2>2, <2>3, <2>4 DEF Quiet, Settling
<1>6. QED
  BY <1>1, <1>2, <1>3, <1>4, <1>5, QuietNext DEF Quiet

\* The division by zero, the exit, and what the master and the others do.
LEMMA OthersQuiet ==
    ASSUME UserType, Quiet(Top),
           DivideByZero \/ Exit \/ Record \/ Interrupt \/ UNCHANGED vars
    PROVE  Quiet(Top)'
<1>1. UNCHANGED <<status, balance, frames, currBalance, outgoing, transMsg, clock, message, fate>>
  BY DEF DivideByZero, Exit, Record, Interrupt, vars, entry, globals, world
<1>2. Top' = Top
  BY <1>1 DEF Top
<1>3. \/ life' = life
      \/ life' = "fpe" /\ Top.pc = "draw"
      \/ life' = "exited" /\ Top.pc = "exit"
  BY DEF DivideByZero, Exit, Record, Interrupt, vars, At
<1>4. QED
  BY <1>1, <1>2, <1>3, StillQuiet

\* transaction_init: what will be sent is newer than anything sent before.
LEMMA ComposeQuiet ==
    ASSUME UserType, Len(frames) = 1, Quiet(Top), Compose
    PROVE  Quiet(Top)'
<1>1. PICK f, g : f = Top /\ g = Top'
  OBVIOUS
<1>2. Quiet(f) /\ f.pc = "compose" /\ f.proc = "main" /\ life = "runs" /\ ~ f.listed
  BY <1>1, Alone DEF Compose, At
<1>3. /\ UNCHANGED <<entry, life, currBalance, outgoing, message, fate, sigint, signals>>
      /\ clock' = clock + 1 /\ transMsg' = [f.draw EXCEPT !.timestamp = clock]
  BY <1>1 DEF Compose
<1>4. g.proc = f.proc /\ g.listed = f.listed /\ g.pc = "send" /\ f.draw \in Own
  BY <1>1, ComposeType, TopIs DEF FrameType
<1>5. clock \in Nat
  <2>1. clock \in 1 .. MaxClock + 1 /\ MaxClock \in Nat
    BY TopIs, UserAssumption DEF DataType
  <2>2. QED
    BY <2>1
<1>6. transMsg'.timestamp = clock
  BY <1>3, <1>4 DEF Own
<1>7. \A n \in Mine(DOMAIN message) : message[n].timestamp \in Nat /\ message[n].timestamp < clock
  <2>1. \A n \in DOMAIN message : message[n] \in Transactions
    BY TopIs, LenProperties, ElementOfSeq DEF DataType
  <2>2. QED
    BY <1>2, <2>1 DEF Quiet, Distinct, Transactions, Mine
<1>8. Mine(DOMAIN message)' = Mine(DOMAIN message)
  BY <1>3 DEF Mine
<1>9. Distinct'
  <2>1. \A n \in Mine(DOMAIN message) : message[n].timestamp < clock + 1
    BY <1>5, <1>7
  <2>2. /\ \A n, k \in Mine(DOMAIN message) : message[n] = message[k] => n = k
        /\ NoneTwice(outgoing)
        /\ \A p \in 1 .. Len(outgoing) : \E n \in Mine(DOMAIN message) : outgoing[p] = message[n]
    BY <1>2 DEF Quiet, Distinct
  <2>3. NoneTwice(outgoing)'
    BY <1>3, <2>2 DEF NoneTwice
  <2>4. QED
    BY <1>3, <1>8, <2>1, <2>2, <2>3 DEF Distinct
<1>10. Sending(g)'
  BY <1>3, <1>4, <1>5, <1>6, <1>7, <1>8 DEF Sending
<1>11. Kept(g)'
  BY <1>2, <1>3, <1>4, <1>8 DEF Quiet, Kept, Sent, Tracked, In
<1>12. Copied(g)' /\ Settling(g)'
  BY <1>2, <1>3, <1>4 DEF Copied, Settling
<1>13. QED
  BY <1>1, <1>2, <1>3, <1>4, <1>9, <1>10, <1>11, <1>12, QuietNext DEF Quiet, entry

\* msgsnd finds room: nothing equal to what is sent was sent before.
LEMMA SendQuiet ==
    ASSUME UserType, Len(frames) = 1, Quiet(Top), Send
    PROVE  Quiet(Top)'
<1>1. PICK f, g : f = Top /\ g = Top'
  OBVIOUS
<1>2. Quiet(f) /\ f.pc = "send" /\ f.proc = "main" /\ life = "runs" /\ ~ f.listed
  BY <1>1, Alone DEF Send, At
<1>3. /\ UNCHANGED <<entry, life, globals, clock, sigint, signals>>
      /\ message' = Append(message, transMsg) /\ fate' = Append(fate, "pending")
  BY DEF Send
<1>4. g.proc = f.proc /\ g.listed = f.listed /\ g.pc = "track"
  BY <1>1, SendType, TopIs DEF FrameType
<1>5. PICK m : m = Len(message) + 1
  OBVIOUS
<1>6. transMsg \in Own /\ transMsg \in Transactions /\ transMsg.mine
  BY SendType DEF Own, Transactions
<1>7. /\ message' \in Seq(Transactions) /\ Len(message') = Len(message) + 1
      /\ DOMAIN message' = DOMAIN message \cup {m} /\ m \notin DOMAIN message
      /\ message'[m] = transMsg
      /\ \A n \in DOMAIN message : message'[n] = message[n]
  <2>1. message \in Seq(Transactions)
    BY TopIs DEF DataType
  <2>2. QED
    BY <1>3, <1>5, <1>6, <2>1, OneMore
<1>8. fate'[m] = "pending" /\ \A n \in DOMAIN message : fate'[n] = fate[n]
  BY <1>3, <1>5, <1>7, TopIs, FateMore
<1>9. PICK M : M = Mine(DOMAIN message)
  OBVIOUS
<1>10. Mine(DOMAIN message)' = M \cup {m} /\ m \notin M /\ M \subseteq DOMAIN message
  BY <1>6, <1>7, <1>9 DEF Mine
<1>11. /\ transMsg.timestamp < clock
       /\ \A n \in M : message[n].timestamp < transMsg.timestamp /\ message[n].timestamp < clock
       /\ \A n, k \in M : message[n] = message[k] => n = k
       /\ NoneTwice(outgoing)
       /\ \A p \in 1 .. Len(outgoing) : \E n \in M : outgoing[p] = message[n]
  BY <1>2, <1>9 DEF Quiet, Sending, Distinct
<1>12. \A n \in M : message[n] # transMsg
  <2> SUFFICES ASSUME NEW n \in M, message[n] = transMsg PROVE FALSE
    OBVIOUS
  <2>1. transMsg.timestamp < transMsg.timestamp /\ transMsg.timestamp \in Nat
    BY <1>6, <1>11 DEF Own
  <2>2. QED
    BY <2>1
<1>13. outgoing' = outgoing /\ transMsg' = transMsg /\ clock' = clock
  BY <1>3 DEF globals
<1>14. Distinct'
  <2>1. \A n \in M \cup {m} : message'[n].timestamp < clock
    BY <1>7, <1>10, <1>11
  <2>2. \A n, k \in M \cup {m} : message'[n] = message'[k] => n = k
    BY <1>7, <1>10, <1>11, <1>12
  <2>3. \A p \in 1 .. Len(outgoing) : \E n \in M \cup {m} : outgoing[p] = message'[n]
    BY <1>7, <1>10, <1>11
  <2>4. NoneTwice(outgoing)'
    BY <1>11, <1>13 DEF NoneTwice
  <2>5. QED
    BY <1>10, <1>13, <2>1, <2>2, <2>3, <2>4 DEF Distinct
<1>15. Sending(g)'
  <2>1. ~ In(transMsg, outgoing)
    BY <1>11, <1>12 DEF In
  <2>2. QED
    BY <1>4, <1>7, <1>10, <1>13, <2>1 DEF Sending, In
<1>16. Kept(g)'
  <2>1. \A n \in M : fate[n] \in {"pending", "discarded"} => Tracked(n)
    BY <1>2, <1>9 DEF Quiet, Kept, Sent
  <2>2. \A n \in M : Tracked(n)' <=> Tracked(n)
    BY <1>7, <1>10, <1>13 DEF Tracked, In
  <2>3. Sent(g, m)'
    BY <1>4, <1>7, <1>13 DEF Sent
  <2>4. \A n \in M \cup {m} : fate'[n] \in {"pending", "discarded"} => Tracked(n)' \/ Sent(g, n)'
    BY <1>8, <1>10, <2>1, <2>2, <2>3
  <2>5. QED
    BY <1>10, <2>4 DEF Kept
<1>17. Copied(g)' /\ Settling(g)'
  BY <1>2, <1>3, <1>4 DEF Copied, Settling
<1>18. QED
  BY <1>1, <1>2, <1>3, <1>4, <1>14, <1>15, <1>16, <1>17, QuietNext DEF Quiet, entry

\* send_transaction takes note of it, once.
LEMMA TrackQuiet ==
    ASSUME UserType, Len(frames) = 1, Quiet(Top), Track
    PROVE  Quiet(Top)' /\ Len(frames') = 1
<1>1. PICK f, g : f = Top /\ g = Top'
  OBVIOUS
<1>2. Quiet(f) /\ f.pc = "track" /\ f.proc = "main" /\ life = "runs" /\ ~ f.listed
  BY <1>1, Alone DEF Track, At
<1>3. /\ UNCHANGED <<recorded, balance, life, transMsg, world>>
      /\ outgoing' = Append(outgoing, transMsg)
  BY DEF Track
<1>4. /\ g.pc = "copy" /\ Len(frames') = 1
      /\ \/ g.proc = "int"
         \/ g.proc = "main" /\ ~ g.listed /\ status' = status
  <2>1. \/ Len(frames') = 1 /\ g = Frame("int", {"int"})
        \/ /\ Len(frames') = 1 /\ status' = status
           /\ g = [f EXCEPT !.pc = "copy", !.retry = SO_RETRY]
    BY <1>1, <1>2, TrackType
  <2>2. CASE g = Frame("int", {"int"})
    BY <2>1, <2>2 DEF Frame
  <2>3. CASE status' = status /\ g = [f EXCEPT !.pc = "copy", !.retry = SO_RETRY]
    BY <1>1, <1>2, <2>1, <2>3, TopIs DEF FrameType
  <2>4. QED
    BY <2>1, <2>2, <2>3
<1>5. PICK M : M = Mine(DOMAIN message)
  OBVIOUS
<1>6. /\ \A n \in M : message[n].timestamp < clock
      /\ \A n, k \in M : message[n] = message[k] => n = k
      /\ NoneTwice(outgoing)
      /\ \A p \in 1 .. Len(outgoing) : \E n \in M : outgoing[p] = message[n]
      /\ \E n \in M : transMsg = message[n]
      /\ ~ In(transMsg, outgoing)
  BY <1>2, <1>5 DEF Quiet, Sending, Distinct
<1>7. PICK l \in Nat : l = Len(outgoing)
  BY TopIs, LenProperties DEF DataType
<1>8. PICK list : list = outgoing'
  OBVIOUS
<1>9. /\ Len(list) = l + 1 /\ list[l + 1] = transMsg
      /\ \A p \in 1 .. l : list[p] = outgoing[p]
  <2>1. outgoing \in Seq(Transactions) /\ transMsg \in Transactions
    BY TopIs, TrackType DEF DataType, Own, Transactions
  <2>2. QED
    BY <1>3, <1>7, <1>8, <2>1, AppendProperties
<1>10. 1 .. l + 1 = (1 .. l) \cup {l + 1} /\ l + 1 \notin 1 .. l
  OBVIOUS
<1>11. NoneTwice(list)
  <2>1. \A p \in 1 .. l : list[p] # transMsg
    BY <1>6, <1>7, <1>9 DEF In
  <2>2. \A p, q \in 1 .. l : list[p] = list[q] => p = q
    BY <1>6, <1>7, <1>9 DEF NoneTwice
  <2>3. QED
    BY <1>9, <1>10, <2>1, <2>2 DEF NoneTwice
<1>12. \A u : In(u, list) <=> In(u, outgoing) \/ u = transMsg
  BY <1>7, <1>9, <1>10 DEF In
<1>13. Mine(DOMAIN message)' = M /\ message' = message /\ fate' = fate /\ clock' = clock
  BY <1>3, <1>5 DEF Mine, world
<1>14. Distinct'
  <2>1. \A p \in 1 .. Len(list) : \E n \in M : list[p] = message[n]
    BY <1>6, <1>7, <1>9, <1>10
  <2>2. NoneTwice(outgoing)'
    BY <1>8, <1>11 DEF NoneTwice
  <2>3. QED
    BY <1>6, <1>8, <1>13, <2>1, <2>2 DEF Distinct
<1>15. Sending(g)' /\ Copied(g)'
  BY <1>4 DEF Sending, Copied
<1>16. Kept(g)'
  <2>1. \A n \in M : fate[n] \in {"pending", "discarded"} => Tracked(n) \/ Sent(f, n)
    BY <1>2, <1>5 DEF Quiet, Kept
  <2>2. \A n \in M : Tracked(n) \/ Sent(f, n) => In(message[n], list)
    BY <1>12 DEF Tracked, Sent
  <2>3. \A n \in M : In(message[n], list) => Tracked(n)'
    BY <1>8, <1>13 DEF Tracked
  <2>4. QED
    BY <1>13, <2>1, <2>2, <2>3 DEF Kept
<1>17. Settling(g)'
  BY <1>2, <1>3, <1>4 DEF Settling
<1>18. status' = "dead" => life' # "runs" \/ g.proc = "int"
  BY <1>2, <1>4 DEF Quiet
<1>19. QED
  BY <1>1, <1>4, <1>14, <1>15, <1>16, <1>17, <1>18, QuietNext

\* The queue is full.
LEMMA SendFailsQuiet ==
    ASSUME UserType, Len(frames) = 1, Quiet(Top), SendFails
    PROVE  Quiet(Top)' /\ Len(frames') = 1
<1>1. PICK f, g : f = Top /\ g = Top'
  OBVIOUS
<1>2. Quiet(f) /\ f.pc = "send" /\ f.proc = "main" /\ life = "runs" /\ ~ f.listed
  BY <1>1, Alone DEF SendFails, At
<1>3. UNCHANGED <<recorded, balance, life, globals, world>>
  BY DEF SendFails
<1>4. /\ g.pc = "copy" /\ Len(frames') = 1
      /\ \/ g.proc = "int"
         \/ g.proc = "main" /\ ~ g.listed /\ status' = status
  <2>1. \/ Len(frames') = 1 /\ g = Frame("int", {"int"})
        \/ /\ Len(frames') = 1 /\ status' = status
           /\ g = [f EXCEPT !.pc = "copy", !.retry = (f.retry - 1) % Width]
    BY <1>1, <1>2, SendFailsType
  <2>2. CASE g = Frame("int", {"int"})
    BY <2>1, <2>2 DEF Frame
  <2>3. CASE status' = status /\ g = [f EXCEPT !.pc = "copy", !.retry = (f.retry - 1) % Width]
    BY <1>1, <1>2, <2>1, <2>3, TopIs DEF FrameType
  <2>4. QED
    BY <2>1, <2>2, <2>3
<1>5. Distinct' /\ Sending(g)' /\ Kept(g)'
  BY <1>2, <1>3, <1>4, QuietSame DEF globals, world
<1>6. Copied(g)' /\ Settling(g)'
  BY <1>2, <1>3, <1>4 DEF Copied, Settling
<1>7. QED
  BY <1>1, <1>2, <1>4, <1>5, <1>6, QuietNext DEF Quiet

\* The user takes a SIGINT.
LEMMA SigintQuiet ==
    ASSUME UserType, Len(frames) = 1, Quiet(Top), Sigint
    PROVE  Quiet(Top)' /\ Len(frames') = 1
<1>1. PICK f, g : f = Top /\ g = Top'
  OBVIOUS
<1>2. Quiet(f) /\ life = "runs"
  BY <1>1 DEF Sigint
<1>3. UNCHANGED <<entry, life, globals, world>>
  BY DEF Sigint
<1>4. g.pc = "copy" /\ g.proc = "int" /\ Len(frames') = 1
  BY <1>1, SigintType DEF Frame
<1>5. Distinct' /\ Sending(g)'
  <2>1. Distinct'
    BY <1>2, <1>3 DEF Quiet, Distinct, Mine, NoneTwice, globals, world
  <2>2. QED
    BY <1>4, <2>1 DEF Sending
<1>6. Kept(g)' /\ Copied(g)' /\ Settling(g)'
  BY <1>2, <1>3, <1>4 DEF Kept, Copied, Settling
<1>7. QED
  BY <1>1, <1>4, <1>5, <1>6, QuietNext

\* SIGINT's handler sets the status ...
LEMMA SettleQuiet ==
    ASSUME UserType, Len(frames) = 1, Quiet(Top), Settle
    PROVE  Quiet(Top)'
<1>1. PICK f, g : f = Top /\ g = Top'
  OBVIOUS
<1>2. Quiet(f) /\ f.pc = "settle" /\ f.proc = "int" /\ life = "runs"
  BY <1>1, Alone DEF Settle, At
<1>3. UNCHANGED <<recorded, balance, life, globals, world>>
  BY DEF Settle
<1>4. g.proc = f.proc /\ g.listed = f.listed /\ g.pc = "refund" /\ g.view = f.view
  BY <1>1, SettleType, TopIs DEF FrameType
<1>5. Distinct' /\ Sending(g)' /\ Kept(g)'
  BY <1>2, <1>3, <1>4, QuietSame DEF globals, world
<1>6. Copied(g)'
  BY <1>4 DEF Copied
<1>7. Settling(g)'
  <2>1. PICK a, b : a = Net(f.view) /\ b = CostOf(outgoing)
    OBVIOUS
  <2>2. Net(g.view)' = a
    <3>1. Net(f.view)' = a
      BY <1>1, <1>3, <2>1, TopIs, NetKept DEF DataType, world
    <3>2. QED
      BY <1>4, <3>1
  <2>3. CostOf(outgoing)' = b
    BY <1>3, <2>1 DEF globals
  <2>4. f.listed => balance = SO_BUDGET_INIT + a - b /\ SO_BUDGET_INIT + a \in 0 .. Width - 1
    BY <1>2, <2>1 DEF Quiet, Settling
  <2>5. QED
    BY <1>2, <1>3, <1>4, <2>2, <2>3, <2>4 DEF Settling
<1>8. QED
  BY <1>1, <1>2, <1>4, <1>5, <1>6, <1>7, QuietNext

\* ... and adds back what is outgoing.
LEMMA RefundQuiet ==
    ASSUME UserType, Len(frames) = 1, Quiet(Top), Refund
    PROVE  Quiet(Top)'
<1>1. PICK f, g : f = Top /\ g = Top'
  OBVIOUS
<1>2. Quiet(f) /\ f.pc = "refund" /\ f.proc = "int" /\ life = "runs"
  BY <1>1, Alone DEF Refund, At
<1>3. /\ UNCHANGED <<recorded, status, life, globals, world>>
      /\ f.listed => balance' = (balance + CostOf(outgoing)) % Width
  BY <1>1 DEF Refund, RefundOf
<1>4. g.proc = f.proc /\ g.listed = f.listed /\ g.pc = "exit" /\ g.view = f.view
  BY <1>1, RefundType, TopIs DEF FrameType
<1>5. Distinct' /\ Sending(g)' /\ Kept(g)'
  BY <1>2, <1>3, <1>4, QuietSame DEF globals, world
<1>6. Copied(g)'
  BY <1>4 DEF Copied
<1>7. Settling(g)'
  <2>1. PICK a, b, s : a = Net(f.view) /\ b = CostOf(outgoing) /\ s = SO_BUDGET_INIT
    OBVIOUS
  <2>2. Net(g.view)' = a
    <3>1. Net(f.view)' = a
      BY <1>1, <1>3, <2>1, TopIs, NetKept DEF DataType, world
    <3>2. QED
      BY <1>4, <3>1
  <2>3. a \in Int /\ b \in Nat /\ s \in Nat
    BY <1>1, <2>1, TopIs, NetFits, CostOfIsTotal, UserAssumption DEF DataType
  <2>4. ASSUME f.listed
        PROVE  balance' = s + a /\ s + a \in 0 .. Width - 1
    <3>1. balance = s + a - b /\ s + a \in 0 .. Width - 1
      BY <1>2, <2>1, <2>4 DEF Quiet, Settling
    <3>2. balance + b = s + a
      BY <2>3, <3>1
    <3>3. (s + a) % Width = s + a
      BY <2>3, <3>1, Wraps
    <3>4. QED
      BY <1>3, <2>1, <2>4, <3>1, <3>2, <3>3
  <2>5. life' # "exited"
    BY <1>2, <1>3
  <2>6. QED
    BY <1>4, <2>1, <2>2, <2>4, <2>5 DEF Settling
<1>8. QED
  BY <1>1, <1>2, <1>4, <1>5, <1>6, <1>7, QuietNext

\* Another user pays this one.
LEMMA PayQuiet ==
    ASSUME UserType, Quiet(Top), Pay
    PROVE  Quiet(Top)'
<1>1. PICK f : f = Top /\ f = Top'
  BY PayType
<1>2. Quiet(f) /\ life = "runs"
  BY <1>1 DEF Pay
<1>3. UNCHANGED <<entry, life, frames, globals, clock, sigint, signals>>
  BY DEF Pay
<1>4. PICK m : m = Len(message) + 1
  OBVIOUS
<1>5. /\ m \notin DOMAIN message /\ DOMAIN message' = DOMAIN message \cup {m}
      /\ ~ message'[m].mine /\ fate'[m] = "pending"
      /\ \A n \in DOMAIN message : message'[n] = message[n] /\ fate'[n] = fate[n]
  BY <1>4, PayType
<1>6. PICK M : M = Mine(DOMAIN message)
  OBVIOUS
<1>7. Mine(DOMAIN message)' = M /\ \A n \in M : message'[n] = message[n] /\ fate'[n] = fate[n]
  BY <1>5, <1>6 DEF Mine
<1>8. Distinct'
  <2>1. /\ \A n \in M : message[n].timestamp < clock
        /\ \A n, k \in M : message[n] = message[k] => n = k
        /\ NoneTwice(outgoing)
        /\ \A p \in 1 .. Len(outgoing) : \E n \in M : outgoing[p] = message[n]
    BY <1>2, <1>6 DEF Quiet, Distinct
  <2>2. NoneTwice(outgoing)'
    BY <1>3, <2>1 DEF NoneTwice, globals
  <2>3. QED
    BY <1>3, <1>7, <2>1, <2>2 DEF Distinct, globals
<1>9. Sending(f)'
  BY <1>2, <1>3, <1>6, <1>7 DEF Quiet, Sending, In, globals
<1>10. Kept(f)'
  BY <1>2, <1>3, <1>6, <1>7 DEF Quiet, Kept, Sent, Tracked, In, globals
<1>11. Confirmed' = Confirmed /\ Overwritten' = Overwritten
  BY <1>5 DEF Confirmed, Overwritten
<1>12. Copied(f)'
  <2>1. Mine(Confirmed)' = Mine(Confirmed) /\ Mine(Confirmed) \subseteq M
    BY <1>5, <1>6, <1>11 DEF Mine, Confirmed
  <2>2. \A n \in M : Tracked(n)' <=> Tracked(n)
    BY <1>3, <1>7 DEF Tracked, In, globals
  <2>3. QED
    BY <1>2, <1>11, <2>1, <2>2 DEF Quiet, Copied
<1>13. Settling(f)'
  <2>1. PICK a, b : a = Net(f.view) /\ b = CostOf(outgoing)
    OBVIOUS
  <2>2. Net(f.view)' = a
    <3>1. message \in Seq(Transactions) /\ message' \in Seq(Transactions)
      BY TopIs, PayType DEF UserType, DataType
    <3>2. QED
      BY <1>1, <1>5, <2>1, <3>1, TopIs, NetKept
  <2>3. CostOf(outgoing)' = b
    BY <1>3, <2>1 DEF globals
  <2>4. QED
    BY <1>2, <1>3, <2>1, <2>2, <2>3 DEF Quiet, Settling, entry
<1>14. QED
  BY <1>1, <1>2, <1>3, <1>8, <1>9, <1>10, <1>12, <1>13, QuietNext DEF Quiet, entry, globals

\* The nodes and builders decide on a transaction: one that is given up, or not
\* yet in the ledger, is in the list, and stays there until a copy shows it.
LEMMA DecideQuiet ==
    ASSUME UserType, Quiet(Top), NEW n \in DOMAIN message, Decide(n) \/ Overwrite(n)
    PROVE  Quiet(Top)'
<1>1. PICK f : f = Top /\ f = Top'
  BY DecideType
<1>2. Quiet(f)
  BY <1>1
<1>3. UNCHANGED <<entry, life, frames, globals, clock, message, sigint, signals>>
  BY DEF Decide, Overwrite
<1>4. PICK w \in Fates :
         /\ \A k \in DOMAIN message : fate'[k] = IF k = n THEN w ELSE fate[k]
         /\ \/ fate[n] = "pending" /\ w \in {"confirmed", "discarded"}
            \/ fate[n] = "confirmed" /\ w = "overwritten"
  BY DecideType
<1>5. PICK M : M = Mine(DOMAIN message) /\ M = Mine(DOMAIN message)' /\ M \subseteq DOMAIN message
  BY <1>3 DEF Mine
<1>6. Distinct' /\ Sending(f)'
  BY <1>2, <1>3, <1>5 DEF Quiet, Distinct, Sending, NoneTwice, In, globals
<1>7. \A k \in M : /\ Tracked(k)' <=> Tracked(k)
                   /\ Sent(f, k)' <=> Sent(f, k)
  BY <1>3 DEF Tracked, Sent, In, globals
<1>8. ASSUME f.proc = "main" PROVE \A k \in M : fate[k] \in {"pending", "discarded"} => Tracked(k) \/ Sent(f, k)
  BY <1>2, <1>5, <1>8 DEF Quiet, Kept
<1>9. Kept(f)'
  <2>1. ASSUME f.proc = "main", NEW k \in M, fate'[k] \in {"pending", "discarded"}
        PROVE  Tracked(k)' \/ Sent(f, k)'
    <3>1. fate[k] \in {"pending", "discarded"}
      BY <1>4, <1>5, <2>1
    <3>2. QED
      BY <1>7, <1>8, <2>1, <3>1
  <2>2. QED
    BY <1>5, <2>1 DEF Kept
<1>10. Copied(f)'
  <2> SUFFICES ASSUME f.pc = "walk" PROVE Copied(f)'
    BY DEF Copied
  <2>1. Confirmed \cup Overwritten \subseteq (Confirmed \cup Overwritten)'
    BY <1>3, <1>4 DEF Confirmed, Overwritten
  <2>2. f.view \subseteq (Confirmed \cup Overwritten)'
    BY <1>2, <2>1 DEF Quiet, Copied
  <2>3. ASSUME f.proc = "main", NEW k \in Mine(Confirmed)' PROVE k \in f.view \/ Tracked(k)'
    <3>1. k \in M /\ fate'[k] = "confirmed"
      BY <1>3, <1>5 DEF Mine, Confirmed
    <3>2. CASE k = n
      <4>1. fate[k] = "pending"
        BY <1>4, <1>5, <3>1, <3>2
      <4>2. Tracked(k)
        BY <1>8, <2>3, <3>1, <4>1 DEF Sent
      <4>3. QED
        BY <1>7, <3>1, <4>2
    <3>3. CASE k # n
      <4>1. k \in Mine(Confirmed)
        BY <1>4, <1>5, <3>1, <3>3 DEF Mine, Confirmed
      <4>2. k \in f.view \/ Tracked(k)
        BY <1>2, <2>3, <4>1 DEF Quiet, Copied
      <4>3. QED
        BY <1>7, <3>1, <4>2
    <3>4. QED
      BY <3>2, <3>3
  <2>4. QED
    BY <2>2, <2>3 DEF Copied
<1>11. Settling(f)'
  <2>1. PICK a, b : a = Net(f.view) /\ b = CostOf(outgoing)
    OBVIOUS
  <2>2. Net(f.view)' = a
    BY <1>1, <1>3, <2>1, TopIs, NetKept DEF DataType
  <2>3. CostOf(outgoing)' = b
    BY <1>3, <2>1 DEF globals
  <2>4. QED
    BY <1>2, <1>3, <2>1, <2>2, <2>3 DEF Quiet, Settling, entry
<1>12. QED
  BY <1>1, <1>2, <1>3, <1>6, <1>9, <1>10, <1>11, QuietNext DEF Quiet, entry, globals

\* Every step without a SIGUSR1.
LEMMA QuietStep ==
    ASSUME UserType, Len(frames) = 1, Quiet(Top), [Next]_vars, signals' = 0
    PROVE  Len(frames') = 1 /\ Quiet(Top)'
<1>1. CASE UserStep
  <2>1. CASE CopyLedger \/ Walk \/ Overflow \/ Publish
    BY <2>1, CopyLedgerQuiet, CopyLedgerType, WalkQuiet, WalkStepType,
       OverflowQuiet, OverflowType, PublishQuiet, PublishType
  <2>2. CASE CheckInMain \/ Draw \/ Compose \/ Send
    BY <2>2, CheckInMainQuiet, CheckInMainType, DrawQuiet, DrawType,
       ComposeQuiet, ComposeType, SendQuiet, SendType
  <2>3. CASE CheckInHandler
    <3>1. Top.proc = "usr1"
      BY <2>3 DEF CheckInHandler
    <3>2. QED
      BY <3>1, Alone
  <2>4. CASE Track \/ SendFails
    BY <2>4, TrackQuiet, SendFailsQuiet
  <2>5. CASE Settle \/ Refund
    BY <2>5, SettleQuiet, SettleType, RefundQuiet, RefundType
  <2>6. CASE DivideByZero \/ Exit
    BY <2>6, OthersQuiet, EndType
  <2>7. QED
    BY <1>1, <2>1, <2>2, <2>3, <2>4, <2>5, <2>6 DEF UserStep
<1>2. CASE Sigusr1
  <2>1. signals' > 0 /\ signals' \in Nat
    BY <1>2, Sigusr1Type, UserAssumption DEF UserType, DataType
  <2>2. QED
    BY <2>1
<1>3. CASE Record \/ Interrupt
  BY <1>3, OthersQuiet, RecordType
<1>4. CASE Sigint \/ Pay
  BY <1>4, SigintQuiet, PayQuiet, PayType
<1>5. CASE \E n \in DOMAIN message : Decide(n) \/ Overwrite(n)
  BY <1>5, DecideQuiet, DecideType
<1>6. CASE UNCHANGED vars
  BY <1>6, OthersQuiet, StutterType
<1>7. QED
  BY <1>1, <1>2, <1>3, <1>4, <1>5, <1>6 DEF Next

-------------------------------------------------------------------------------
(* What the user has left. *)

\* More to get and less to pay.
LEMMA MoneyGrows ==
    ASSUME NEW b \in Int, NEW v, NEW w, NEW c, NEW d,
           NEW T2, IsFiniteSet(T2), \A n \in T2 : w[n] \in Nat,
           NEW T, T \subseteq T2, \A n \in T : v[n] = w[n],
           NEW C, IsFiniteSet(C), \A n \in C : c[n] \in Nat,
           NEW C2, C2 \subseteq C, \A n \in C2 : c[n] = d[n]
    PROVE  /\ b + Total(v, T) - Total(c, C) \in Int
           /\ b + Total(w, T2) - Total(d, C2) \in Int
           /\ b + Total(v, T) - Total(c, C) <= b + Total(w, T2) - Total(d, C2)
<1>1. /\ Total(w, T) \in Nat /\ Total(w, T2) \in Nat /\ Total(w, T) <= Total(w, T2)
      /\ Total(c, C2) \in Nat /\ Total(c, C) \in Nat /\ Total(c, C2) <= Total(c, C)
  BY TotalMonotone
<1>2. IsFiniteSet(T) /\ IsFiniteSet(C2)
  BY FS_Subset
<1>3. Total(v, T) = Total(w, T)
  <2>1. \A n \in T : v[n] \in Int
    OBVIOUS
  <2>2. QED
    BY <1>2, <2>1, TotalSame
<1>4. Total(c, C2) = Total(d, C2)
  <2>1. \A n \in C2 : c[n] \in Int
    OBVIOUS
  <2>2. QED
    BY <1>2, <2>1, TotalSame
<1>5. QED
  BY <1>1, <1>3, <1>4

\* What was sent stays what it was.
MessagesStay == \A n \in DOMAIN message : n \in DOMAIN message' /\ message'[n] = message[n]

\* The sums in the next state.
LEMMA MessagesAreNext ==
    ASSUME UserType', NEW V, V \subseteq DOMAIN message'
    PROVE  IsFiniteSet(V) /\ \A n \in V : Amounts'[n] \in Nat /\ Costs'[n] \in Nat
<1>1. message' \in Seq(Transactions)
  BY DEF UserType, DataType
<1>2. DOMAIN message' = 1 .. Len(message') /\ Len(message') \in Nat
  BY <1>1, LenProperties
<1>3. IsFiniteSet(DOMAIN message')
  <2>1. 1 \in Int /\ Len(message') \in Int
    BY <1>2
  <2>2. QED
    BY <1>2, <2>1, FS_Interval
<1>4. IsFiniteSet(V)
  BY <1>3, FS_Subset
<1>5. \A n \in V : message'[n] \in Transactions
  BY <1>1, <1>2, ElementOfSeq
<1>6. \A n \in V : Amounts'[n] = message'[n].amount /\ Costs'[n] = Cost(message'[n])
  BY DEF Amounts, Costs, Cost
<1>7. QED
  BY <1>4, <1>5, <1>6, CostIsNat

\* Its transactions and the others'.
LEMMA Parts ==
    ASSUME UserType
    PROVE  /\ Theirs(Confirmed) \subseteq DOMAIN message
           /\ \A f : Charged(f) \subseteq DOMAIN message
           /\ \A V : V \subseteq DOMAIN message =>
                 Theirs(V) \subseteq DOMAIN message /\ Deducted(V) \subseteq DOMAIN message
  BY DEF Theirs, Mine, Confirmed, Charged, Deducted

\* Amounts and costs stay, too.
LEMMA AmountsStay ==
    ASSUME MessagesStay
    PROVE  \A n \in DOMAIN message : Amounts[n] = Amounts'[n] /\ Costs[n] = Costs'[n]
  BY DEF MessagesStay, Amounts, Costs, Cost

\* The user has no less left if more is paid to it and less is charged.
LEMMA RestGrows ==
    ASSUME UserType, UserType', MessagesStay, NEW f, NEW g,
           Theirs(Confirmed) \subseteq Theirs(Confirmed)',
           Charged(g)' \subseteq Charged(f)
    PROVE  Rest(f) \in Int /\ Rest(g)' \in Int /\ Rest(f) <= Rest(g)'
<1>1. PICK T, T2, C, C2 : /\ T = Theirs(Confirmed) /\ T2 = Theirs(Confirmed)'
                          /\ C = Charged(f) /\ C2 = Charged(g)'
  OBVIOUS
<1>2. PICK v, w, c, d : v = Amounts /\ w = Amounts' /\ c = Costs /\ d = Costs'
  OBVIOUS
<1>3. T \subseteq DOMAIN message /\ C \subseteq DOMAIN message /\ T2 \subseteq DOMAIN message'
  BY <1>1, Parts DEF Theirs, Confirmed
<1>4. IsFiniteSet(T2) /\ \A n \in T2 : w[n] \in Nat
  BY <1>2, <1>3, MessagesAreNext
<1>5. IsFiniteSet(C) /\ \A n \in C : c[n] \in Nat
  BY <1>2, <1>3, MessagesAre DEF UserType, DataType
<1>6. /\ T \subseteq T2 /\ \A n \in T : v[n] = w[n]
      /\ C2 \subseteq C /\ \A n \in C2 : c[n] = d[n]
  BY <1>1, <1>2, <1>3, AmountsStay
<1>7. SO_BUDGET_INIT \in Int
  BY UserAssumption
<1>8. /\ SO_BUDGET_INIT + Total(v, T) - Total(c, C) \in Int
      /\ SO_BUDGET_INIT + Total(w, T2) - Total(d, C2) \in Int
      /\ SO_BUDGET_INIT + Total(v, T) - Total(c, C) <= SO_BUDGET_INIT + Total(w, T2) - Total(d, C2)
  BY <1>4, <1>5, <1>6, <1>7, MoneyGrows
<1>9. Rest(f) = SO_BUDGET_INIT + Total(v, T) - Total(c, C)
  BY <1>1, <1>2 DEF Rest
<1>10. Rest(g)' = SO_BUDGET_INIT + Total(w, T2) - Total(d, C2)
  BY <1>1, <1>2 DEF Rest
<1>11. QED
  BY <1>8, <1>9, <1>10

\* What the walk finds does not change with what is in the copy.
LEMMA WorthStays ==
    ASSUME UserType, UserType', MessagesStay, NEW V, V \subseteq DOMAIN message,
           Theirs(V) \subseteq Theirs(V)', Deducted(V)' \subseteq Deducted(V)
    PROVE  Worth(V) \in Int /\ Worth(V)' \in Int /\ Worth(V) <= Worth(V)'
<1>1. PICK T, T2, C, C2 : /\ T = Theirs(V) /\ T2 = Theirs(V)'
                          /\ C = Deducted(V) /\ C2 = Deducted(V)'
  OBVIOUS
<1>2. PICK v, w, c, d : v = Amounts /\ w = Amounts' /\ c = Costs /\ d = Costs'
  OBVIOUS
<1>3. T \subseteq DOMAIN message /\ C \subseteq DOMAIN message /\ T2 \subseteq DOMAIN message'
  <2>1. DOMAIN message \subseteq DOMAIN message'
    BY DEF MessagesStay
  <2>2. QED
    BY <1>1, <2>1, Parts DEF Theirs
<1>4. IsFiniteSet(T2) /\ \A n \in T2 : w[n] \in Nat
  BY <1>2, <1>3, MessagesAreNext
<1>5. IsFiniteSet(C) /\ \A n \in C : c[n] \in Nat
  BY <1>2, <1>3, MessagesAre DEF UserType, DataType
<1>6. /\ T \subseteq T2 /\ \A n \in T : v[n] = w[n]
      /\ C2 \subseteq C /\ \A n \in C2 : c[n] = d[n]
  BY <1>1, <1>2, <1>3, AmountsStay
<1>7. SO_BUDGET_INIT \in Int
  BY UserAssumption
<1>8. /\ SO_BUDGET_INIT + Total(v, T) - Total(c, C) \in Int
      /\ SO_BUDGET_INIT + Total(w, T2) - Total(d, C2) \in Int
      /\ SO_BUDGET_INIT + Total(v, T) - Total(c, C) <= SO_BUDGET_INIT + Total(w, T2) - Total(d, C2)
  BY <1>4, <1>5, <1>6, <1>7, MoneyGrows
<1>9. Worth(V) = SO_BUDGET_INIT + Total(v, T) - Total(c, C)
  BY <1>1, <1>2 DEF Worth
<1>10. Worth(V)' = SO_BUDGET_INIT + Total(w, T2) - Total(d, C2)
  BY <1>1, <1>2 DEF Worth
<1>11. QED
  BY <1>8, <1>9, <1>10

\* A new copy of the ledger shows at least what the user has left.
LEMMA CopyShowsRest ==
    ASSUME UserType, NEW f
    PROVE  Rest(f) \in Int /\ Worth(Confirmed) \in Int /\ Rest(f) <= Worth(Confirmed)
<1>1. PICK T, C, C2 : T = Theirs(Confirmed) /\ C = Charged(f) /\ C2 = Deducted(Confirmed)
  OBVIOUS
<1>2. PICK v, c : v = Amounts /\ c = Costs
  OBVIOUS
<1>3. T \subseteq DOMAIN message /\ C \subseteq DOMAIN message
  BY <1>1, Parts
<1>4. C2 \subseteq C
  BY <1>1 DEF Deducted, Charged, Mine, Confirmed
<1>5. IsFiniteSet(T) /\ IsFiniteSet(C) /\ (\A n \in T : v[n] \in Nat) /\ (\A n \in C : c[n] \in Nat)
  BY <1>2, <1>3, MessagesAre DEF UserType, DataType
<1>6. SO_BUDGET_INIT \in Int
  BY UserAssumption
<1>7. /\ SO_BUDGET_INIT + Total(v, T) - Total(c, C) \in Int
      /\ SO_BUDGET_INIT + Total(v, T) - Total(c, C2) \in Int
      /\ SO_BUDGET_INIT + Total(v, T) - Total(c, C) <= SO_BUDGET_INIT + Total(v, T) - Total(c, C2)
  BY <1>4, <1>5, <1>6, MoneyGrows
<1>8. QED
  BY <1>1, <1>2, <1>7 DEF Rest, Worth

\* Main's walk finds no more than it has left.
LEMMA WalkWithinRest ==
    ASSUME UserType, UserType', NEW f, NEW g, NEW V, V \subseteq DOMAIN message, UNCHANGED message,
           Theirs(V) \subseteq Theirs(Confirmed)', Charged(g)' \subseteq Deducted(V)
    PROVE  Worth(V) \in Int /\ Rest(g)' \in Int /\ Worth(V) <= Rest(g)'
<1>1. PICK T, T2, C, C2 : /\ T = Theirs(V) /\ T2 = Theirs(Confirmed)'
                          /\ C = Deducted(V) /\ C2 = Charged(g)'
  OBVIOUS
<1>2. PICK v, w, c, d : v = Amounts /\ w = Amounts' /\ c = Costs /\ d = Costs'
  OBVIOUS
<1>3. T \subseteq DOMAIN message /\ C \subseteq DOMAIN message /\ T2 \subseteq DOMAIN message'
  BY <1>1, Parts DEF Theirs, Confirmed
<1>4. IsFiniteSet(T2) /\ \A n \in T2 : w[n] \in Nat
  BY <1>2, <1>3, MessagesAreNext
<1>5. IsFiniteSet(C) /\ \A n \in C : c[n] \in Nat
  BY <1>2, <1>3, MessagesAre DEF UserType, DataType
<1>6. /\ T \subseteq T2 /\ \A n \in T : v[n] = w[n]
      /\ C2 \subseteq C /\ \A n \in C2 : c[n] = d[n]
  <2>1. MessagesStay
    BY DEF MessagesStay
  <2>2. QED
    BY <1>1, <1>2, <1>3, <2>1, AmountsStay
<1>7. SO_BUDGET_INIT \in Int
  BY UserAssumption
<1>8. /\ SO_BUDGET_INIT + Total(v, T) - Total(c, C) \in Int
      /\ SO_BUDGET_INIT + Total(w, T2) - Total(d, C2) \in Int
      /\ SO_BUDGET_INIT + Total(v, T) - Total(c, C) <= SO_BUDGET_INIT + Total(w, T2) - Total(d, C2)
  BY <1>4, <1>5, <1>6, <1>7, MoneyGrows
<1>9. Worth(V) = SO_BUDGET_INIT + Total(v, T) - Total(c, C)
  BY <1>1, <1>2 DEF Worth
<1>10. Rest(g)' = SO_BUDGET_INIT + Total(w, T2) - Total(d, C2)
  BY <1>1, <1>2 DEF Rest
<1>11. QED
  BY <1>8, <1>9, <1>10

\* The ledger and the messages stay, and the list and what is sent hold no more.
LEMMA RestKept ==
    ASSUME UserType, UserType', NEW f, NEW g, UNCHANGED <<message, fate>>,
           \A n \in Mine(DOMAIN message) :
               Tracked(n)' \/ Sent(g, n)' => Tracked(n) \/ Sent(f, n)
    PROVE  Rest(f) \in Int /\ Rest(g)' \in Int /\ Rest(f) <= Rest(g)'
<1>1. MessagesStay
  BY DEF MessagesStay
<1>2. Theirs(Confirmed)' = Theirs(Confirmed) /\ Mine(DOMAIN message)' = Mine(DOMAIN message)
  BY DEF Theirs, Mine, Confirmed
<1>3. Charged(g)' \subseteq Charged(f)
  BY <1>2 DEF Charged
<1>4. QED
  BY <1>1, <1>2, <1>3, RestGrows

\* The same of steps that leave the list and transMsg alone.
LEMMA RestSame ==
    ASSUME UserType, UserType', NEW f, NEW g, UNCHANGED <<message, fate, outgoing, transMsg>>,
           g.pc # "track" \/ g.pc = f.pc
    PROVE  Rest(f) \in Int /\ Rest(g)' \in Int /\ Rest(f) <= Rest(g)'
<1>1. \A n \in Mine(DOMAIN message) : Tracked(n)' \/ Sent(g, n)' => Tracked(n) \/ Sent(f, n)
  BY DEF Tracked, Sent, In
<1>2. QED
  BY <1>1, RestKept

\* What the invariant says of the next state, of the frame g on top of it.
LEMMA SolventNext ==
    ASSUME NEW g, g = Top', life' \notin {"segv", "fpe"}, 0 <= Rest(g)',
           g.pc = "walk" => 0 <= Worth(g.view)',
           g.proc = "main" =>
              /\ g.pc = "publish" => g.temp <= Rest(g)'
              /\ g.pc \in {"check", "draw"} => currBalance' <= Rest(g)'
              /\ g.pc = "compose" => Cost(g.draw) <= Rest(g)'
              /\ g.pc = "send" => Cost(transMsg)' <= Rest(g)'
    PROVE  Solvent(Top)'
  BY DEF Solvent, Rest, Charged, Sent

\* A step to a frame that has nothing in mind.
LEMMA SolventIdle ==
    ASSUME NEW f, NEW g, g = Top', Solvent(f), life' \notin {"segv", "fpe"},
           Rest(f) \in Int, Rest(g)' \in Int, Rest(f) <= Rest(g)',
           g.pc # "walk", g.proc = "main" => g.pc \in {"copy", "track"}
    PROVE  Solvent(Top)'
<1>1. 0 <= Rest(g)'
  BY DEF Solvent
<1>2. QED
  BY <1>1, SolventNext

\* get_balance's copy, which shows no less than what the user has left.
LEMMA CopyLedgerSolvent ==
    ASSUME UserType, UserType', Solvent(Top), CopyLedger
    PROVE  Solvent(Top)'
<1>1. PICK f, g : f = Top /\ g = Top'
  OBVIOUS
<1>2. Solvent(f)
  BY <1>1
<1>3. UNCHANGED <<entry, life, globals, world>>
  BY DEF CopyLedger
<1>4. g.view = Confirmed /\ g.pc = "walk"
  BY <1>1, CopyLedgerType, TopIs DEF FrameType
<1>5. Rest(f) \in Int /\ Rest(g)' \in Int /\ Rest(f) <= Rest(g)'
  BY <1>3, <1>4, RestSame DEF globals, world
<1>6. 0 <= Rest(f) /\ Rest(f) <= Worth(Confirmed) /\ Worth(Confirmed) \in Int
  BY <1>2, CopyShowsRest DEF Solvent
<1>7. PICK V : V = Confirmed
  OBVIOUS
<1>8. Worth(V) <= Worth(V)' /\ Worth(V) \in Int /\ Worth(V)' \in Int
  <2>1. V \subseteq DOMAIN message
    BY <1>7, TopIs, ViewType
  <2>2. /\ MessagesStay /\ Theirs(V)' = Theirs(V) /\ Deducted(V)' = Deducted(V)
    BY <1>3 DEF MessagesStay, Theirs, Deducted, Mine, Tracked, In, globals, world
  <2>3. QED
    BY <2>1, <2>2, WorthStays
<1>9. 0 <= Worth(g.view)'
  <2>1. 0 <= Worth(V)'
    BY <1>5, <1>6, <1>7, <1>8
  <2>2. g.view = V
    BY <1>4, <1>7
  <2>3. QED
    BY <2>1, <2>2
<1>10. 0 <= Rest(g)'
  BY <1>5, <1>6
<1>11. QED
  BY <1>1, <1>2, <1>3, <1>4, <1>9, <1>10, SolventNext DEF Solvent

\* The walk: the budget is not exceeded, and main's balance is what it has left
\* or less.
LEMMA WalkSolvent ==
    ASSUME UserType, UserType', Len(frames) = 1, Quiet(Top), Solvent(Top), Theirs(Overwritten) = {}, Walk
    PROVE  Solvent(Top)'
<1>1. PICK f, g : f = Top /\ g = Top'
  OBVIOUS
<1>2. Solvent(f) /\ Quiet(f) /\ f.pc = "walk" /\ f.view \subseteq DOMAIN message
  BY <1>1, TopIs DEF Walk, At
<1>3. UNCHANGED <<entry, life, currBalance, transMsg, world>> /\ outgoing' = StillOutgoing(f.view)
  BY <1>1 DEF Walk
<1>4. /\ g.proc = f.proc /\ g.pc = "publish"
      /\ g.temp = (SO_BUDGET_INIT + Accumulate(f.view)) % Width
      /\ 0 <= SO_BUDGET_INIT + Accumulate(f.view)
  BY <1>1, WalkStepType
<1>5. /\ \A n \in Mine(DOMAIN message) : Tracked(n)' <=> Tracked(n) /\ n \notin f.view
      /\ f.proc = "main" =>
            \A n \in Mine(DOMAIN message) : fate[n] \in {"pending", "discarded"} => Tracked(n)'
  BY <1>2, <1>3, WalkKeeps DEF world
<1>6. Rest(f) \in Int /\ Rest(g)' \in Int /\ Rest(f) <= Rest(g)'
  <2>1. \A n \in Mine(DOMAIN message) : Tracked(n)' \/ Sent(g, n)' => Tracked(n) \/ Sent(f, n)
    BY <1>4, <1>5 DEF Sent
  <2>2. QED
    BY <1>3, <2>1, RestKept DEF world
<1>7. ASSUME f.proc = "main" PROVE g.temp <= Rest(g)'
  <2>1. Theirs(f.view) \subseteq Theirs(Confirmed)'
    <3>1. f.view \subseteq Confirmed \cup Overwritten
      BY <1>2 DEF Quiet, Copied
    <3>2. Theirs(f.view) \subseteq Theirs(Confirmed)
      BY <3>1 DEF Theirs
    <3>3. QED
      BY <1>3, <3>2 DEF Theirs, Confirmed, world
  <2>2. Charged(g)' \subseteq Deducted(f.view)
    <3>1. Mine(DOMAIN message)' = Mine(DOMAIN message) /\ fate' = fate
      BY <1>3 DEF Mine, world
    <3>2. ASSUME NEW n \in Mine(DOMAIN message), fate[n] # "overwritten" \/ Tracked(n)'
          PROVE  n \in Deducted(f.view)
      <4>1. CASE Tracked(n)'
        BY <1>5, <4>1 DEF Deducted
      <4>2. CASE fate[n] \in {"pending", "discarded"}
        BY <1>5, <1>7, <4>2 DEF Deducted
      <4>3. CASE fate[n] = "confirmed"
        <5>1. n \in Mine(Confirmed)
          BY <4>3 DEF Mine, Confirmed
        <5>2. n \in f.view \/ Tracked(n)
          BY <1>2, <1>7, <5>1 DEF Quiet, Copied
        <5>3. QED
          BY <5>2 DEF Deducted, Mine
      <4>4. fate[n] \in Fates
        <5>1. fate \in Seq(Fates) /\ n \in 1 .. Len(fate)
          BY TopIs, LenProperties DEF DataType, Mine
        <5>2. QED
          BY <5>1, ElementOfSeq
      <4>5. QED
        BY <3>2, <4>1, <4>2, <4>3, <4>4 DEF Fates
    <3>3. QED
      BY <1>4, <3>1, <3>2 DEF Charged, Sent
  <2>3. Worth(f.view) \in Int /\ Worth(f.view) <= Rest(g)'
    BY <1>2, <1>3, <2>1, <2>2, WalkWithinRest DEF world
  <2>4. PICK x : x = SO_BUDGET_INIT + Accumulate(f.view)
    OBVIOUS
  <2>5. x = Worth(f.view)
    BY <1>2, <2>4, WalkAddsUp DEF Quiet
  <2>6. x \in Nat /\ g.temp = x % Width
    BY <1>4, <2>3, <2>4, <2>5
  <2>7. x % Width <= x /\ x % Width \in Int
    BY <2>6, Wraps
  <2>8. QED
    BY <1>6, <2>3, <2>5, <2>6, <2>7
<1>8. 0 <= Rest(g)'
  BY <1>2, <1>6 DEF Solvent
<1>9. life' \notin {"segv", "fpe"}
  BY <1>2, <1>3 DEF Solvent
<1>10. QED
  BY <1>1, <1>4, <1>7, <1>8, <1>9, SolventNext

\* The error branch is not reached.
LEMMA OverflowSolvent ==
    ASSUME UserType, Quiet(Top), Solvent(Top), Overflow
    PROVE  FALSE
<1>1. PICK V, a, s : V = Top.view /\ a = Accumulate(V) /\ s = SO_BUDGET_INIT
  OBVIOUS
<1>2. V \subseteq DOMAIN message /\ Top.pc = "walk" /\ -a > s
  BY <1>1, TopIs DEF Overflow, At
<1>3. s + a = Worth(V) /\ a \in Int /\ s \in Int
  BY <1>1, <1>2, WalkAddsUp, WalkType, UserAssumption DEF Quiet
<1>4. 0 <= Worth(V)
  BY <1>1, <1>2 DEF Solvent
<1>5. QED
  BY <1>2, <1>3, <1>4

\* update_balance.
LEMMA PublishSolvent ==
    ASSUME UserType, UserType', Solvent(Top), Publish
    PROVE  Solvent(Top)'
<1>1. PICK f, g : f = Top /\ g = Top'
  OBVIOUS
<1>2. Solvent(f) /\ f.pc = "publish"
  BY <1>1 DEF Publish, At
<1>3. UNCHANGED <<recorded, status, life, outgoing, transMsg, world>> /\ currBalance' = f.temp
  BY <1>1 DEF Publish
<1>4. g.pc = (IF f.proc = "int" THEN "settle" ELSE "check") /\ g.proc = f.proc
  BY <1>1, PublishType, TopIs DEF FrameType
<1>5. Rest(f) \in Int /\ Rest(g)' \in Int /\ Rest(f) <= Rest(g)'
  BY <1>3, <1>4, RestSame DEF world
<1>6. f.temp \in Int
  BY <1>1, TopIs
<1>7. 0 <= Rest(g)' /\ (g.proc = "main" => currBalance' <= Rest(g)')
  BY <1>2, <1>3, <1>4, <1>5, <1>6 DEF Solvent
<1>8. QED
  BY <1>1, <1>2, <1>3, <1>4, <1>7, SolventNext DEF Solvent

\* main's test of the balance.
LEMMA CheckInMainSolvent ==
    ASSUME UserType, UserType', Solvent(Top), CheckInMain
    PROVE  Solvent(Top)'
<1>1. PICK f, g : f = Top /\ g = Top'
  OBVIOUS
<1>2. Solvent(f) /\ f.pc = "check" /\ f.proc = "main"
  BY <1>1 DEF CheckInMain, At
<1>3. UNCHANGED <<recorded, balance, life, globals, world>>
  BY DEF CheckInMain
<1>4. g.proc = f.proc /\ g.pc \in {"copy", "draw"}
  BY <1>1, CheckInMainType, TopIs DEF FrameType
<1>5. Rest(f) \in Int /\ Rest(g)' \in Int /\ Rest(f) <= Rest(g)'
  BY <1>3, <1>4, RestSame DEF globals, world
<1>6. currBalance \in Int /\ currBalance' = currBalance
  BY <1>3, TopIs DEF DataType, globals
<1>7. 0 <= Rest(g)' /\ currBalance' <= Rest(g)'
  BY <1>2, <1>5, <1>6 DEF Solvent
<1>8. QED
  BY <1>1, <1>2, <1>3, <1>4, <1>7, SolventNext DEF Solvent

\* The amount is drawn from what the user has left.
LEMMA DrawSolvent ==
    ASSUME UserType, UserType', Len(frames) = 1, Quiet(Top), Solvent(Top), Draw
    PROVE  Solvent(Top)'
<1>1. PICK f, g : f = Top /\ g = Top'
  OBVIOUS
<1>2. Solvent(f) /\ Quiet(f) /\ f.pc = "draw" /\ f.proc = "main"
  BY <1>1, Alone DEF Draw, At
<1>3. UNCHANGED <<recorded, balance, life, globals, world>>
  BY DEF Draw
<1>4. PICK whole \in Draws : g = [f EXCEPT !.pc = "compose", !.draw = Transaction(TRUE, whole, 0)]
  BY <1>1, DrawType
<1>5. whole \in Nat /\ whole <= currBalance
  <2>1. currBalance >= 2 /\ currBalance \in Int
    BY <1>2, TopIs DEF Quiet, DataType
  <2>2. MaxDraw \in Nat
    BY UserAssumption
  <2>3. QED
    BY <2>1, <2>2 DEF Draws
<1>6. g.pc = "compose" /\ g.draw = Transaction(TRUE, whole, 0)
  BY <1>1, <1>4, TopIs DEF FrameType
<1>7. Cost(g.draw) = whole
  BY <1>5, <1>6, WholeIsCost
<1>8. Rest(f) \in Int /\ Rest(g)' \in Int /\ Rest(f) <= Rest(g)'
  BY <1>3, <1>6, RestSame DEF globals, world
<1>9. 0 <= Rest(g)' /\ Cost(g.draw) <= Rest(g)'
  <2>1. currBalance <= Rest(f) /\ 0 <= Rest(f) /\ currBalance \in Int
    BY <1>2, TopIs DEF Solvent, DataType
  <2>2. QED
    BY <1>5, <1>7, <1>8, <2>1
<1>10. QED
  BY <1>1, <1>2, <1>3, <1>6, <1>9, SolventNext DEF Solvent

\* transaction_init keeps the sum.
LEMMA ComposeSolvent ==
    ASSUME UserType, UserType', Len(frames) = 1, Solvent(Top), Compose
    PROVE  Solvent(Top)'
<1>1. PICK f, g : f = Top /\ g = Top'
  OBVIOUS
<1>2. Solvent(f) /\ f.pc = "compose" /\ f.proc = "main"
  BY <1>1, Alone DEF Compose, At
<1>3. /\ UNCHANGED <<entry, life, currBalance, outgoing, message, fate, sigint, signals>>
      /\ transMsg' = [f.draw EXCEPT !.timestamp = clock]
  BY <1>1 DEF Compose
<1>4. g.proc = f.proc /\ g.pc = "send" /\ f.draw \in Own
  BY <1>1, ComposeType, TopIs DEF FrameType
<1>5. Cost(transMsg)' = Cost(f.draw) /\ Cost(f.draw) \in Nat
  <2>1. PICK t : t = transMsg'
    OBVIOUS
  <2>2. Cost(t) = Cost(f.draw)
    BY <1>3, <1>4, <2>1 DEF Cost, Own
  <2>3. f.draw \in Transactions
    BY <1>4 DEF Own, Transactions
  <2>4. QED
    BY <2>1, <2>2, <2>3, CostIsNat
<1>6. Rest(f) \in Int /\ Rest(g)' \in Int /\ Rest(f) <= Rest(g)'
  <2>1. \A n \in Mine(DOMAIN message) : Tracked(n)' \/ Sent(g, n)' => Tracked(n) \/ Sent(f, n)
    BY <1>3, <1>4 DEF Tracked, Sent, In
  <2>2. QED
    BY <1>3, <2>1, RestKept
<1>7. 0 <= Rest(g)' /\ Cost(transMsg)' <= Rest(g)'
  BY <1>2, <1>5, <1>6 DEF Solvent
<1>8. QED
  BY <1>1, <1>2, <1>3, <1>4, <1>7, SolventNext DEF Solvent

\* RAND does not divide by zero.
LEMMA DivideSolvent ==
    ASSUME UserType, Quiet(Top), DivideByZero
    PROVE  FALSE
<1>1. Top.pc = "draw" /\ currBalance = 1
  BY DEF DivideByZero, At
<1>2. currBalance >= 2
  BY <1>1 DEF Quiet
<1>3. QED
  BY <1>1, <1>2

\* What is sent counts against the user, which had as much left.
LEMMA SendSolvent ==
    ASSUME UserType, UserType', Len(frames) = 1, Quiet(Top), Solvent(Top), Send
    PROVE  Solvent(Top)'
<1>1. PICK f, g : f = Top /\ g = Top'
  OBVIOUS
<1>2. Solvent(f) /\ Quiet(f) /\ f.pc = "send" /\ f.proc = "main"
  BY <1>1, Alone DEF Send, At
<1>3. /\ UNCHANGED <<entry, life, globals, clock, sigint, signals>>
      /\ message' = Append(message, transMsg) /\ fate' = Append(fate, "pending")
  BY DEF Send
<1>4. g.proc = f.proc /\ g.pc = "track"
  BY <1>1, SendType, TopIs DEF FrameType
<1>5. PICK m : m = Len(message) + 1
  OBVIOUS
<1>6. transMsg \in Transactions /\ transMsg.mine
  BY SendType DEF Own, Transactions
<1>7. /\ message' \in Seq(Transactions) /\ Len(message') = Len(message) + 1
      /\ DOMAIN message' = DOMAIN message \cup {m} /\ m \notin DOMAIN message
      /\ message'[m] = transMsg
      /\ \A n \in DOMAIN message : message'[n] = message[n]
  <2>1. message \in Seq(Transactions)
    BY TopIs DEF DataType
  <2>2. QED
    BY <1>3, <1>5, <1>6, <2>1, OneMore
<1>8. fate'[m] = "pending" /\ \A n \in DOMAIN message : fate'[n] = fate[n]
  BY <1>3, <1>5, <1>7, TopIs, FateMore
<1>9. PICK T, C : T = Theirs(Confirmed) /\ C = Charged(f)
  OBVIOUS
<1>10. PICK v, w, c, d : v = Amounts /\ w = Amounts' /\ c = Costs /\ d = Costs'
  OBVIOUS
<1>11. T \subseteq DOMAIN message /\ C \subseteq DOMAIN message
  BY <1>9, Parts
<1>12. Theirs(Confirmed)' = T
  BY <1>7, <1>8, <1>9 DEF Theirs, Confirmed
<1>13. Charged(g)' \subseteq C \cup {m}
  <2>1. outgoing' = outgoing
    BY <1>3 DEF globals
  <2>2. \A n \in DOMAIN message : Tracked(n)' <=> Tracked(n)
    BY <1>7, <2>1 DEF Tracked, In
  <2>3. Mine(DOMAIN message)' = Mine(DOMAIN message) \cup {m} /\ Mine(DOMAIN message) \subseteq DOMAIN message
    BY <1>6, <1>7 DEF Mine
  <2>4. \A n \in Mine(DOMAIN message) : ~ Sent(g, n)'
    <3> SUFFICES ASSUME NEW n \in Mine(DOMAIN message), message[n] = transMsg PROVE FALSE
      BY <1>3, <1>7, <2>3 DEF Sent, globals
    <3>1. message[n].timestamp < transMsg.timestamp
      BY <1>2 DEF Quiet, Sending
    <3>2. transMsg.timestamp \in Nat
      BY <1>6 DEF Transactions
    <3>3. transMsg.timestamp < transMsg.timestamp
      BY <3>1
    <3>4. QED
      BY <3>2, <3>3
  <2>5. QED
    BY <1>8, <1>9, <2>2, <2>3, <2>4 DEF Charged
<1>14. PICK b : b = SO_BUDGET_INIT
  OBVIOUS
<1>15. b \in Int /\ 0 <= Rest(f) /\ Cost(transMsg) <= Rest(f)
  BY <1>2, <1>14, UserAssumption DEF Solvent
<1>16. Rest(f) = b + Total(v, T) - Total(c, C)
  BY <1>9, <1>10, <1>14 DEF Rest
<1>17. PICK C2 : C2 = Charged(g)'
  OBVIOUS
<1>18. Rest(g)' = b + Total(w, T) - Total(d, C2)
  BY <1>10, <1>12, <1>14, <1>17 DEF Rest
<1>19. /\ IsFiniteSet(T) /\ \A n \in T : v[n] \in Int /\ v[n] = w[n]
       /\ IsFiniteSet(C) /\ \A n \in C : c[n] \in Nat /\ c[n] = d[n] /\ d[n] \in Int
  <2>1. MessagesStay
    BY <1>7 DEF MessagesStay
  <2>2. \A n \in DOMAIN message : v[n] = w[n] /\ c[n] = d[n]
    BY <1>10, <2>1, AmountsStay
  <2>3. IsFiniteSet(T) /\ IsFiniteSet(C) /\ (\A n \in T : v[n] \in Nat) /\ (\A n \in C : c[n] \in Nat)
    BY <1>10, <1>11, MessagesAre DEF UserType, DataType
  <2>4. QED
    BY <1>11, <2>2, <2>3
<1>20. d[m] = Cost(transMsg) /\ d[m] \in Nat
  <2>1. d[m] = Cost(message'[m])
    BY <1>7, <1>10 DEF Costs, Cost
  <2>2. QED
    BY <1>6, <1>7, <2>1, CostIsNat
<1>21. Total(v, T) = Total(w, T) /\ Total(v, T) \in Int
  BY <1>19, TotalSame, TotalAdd
<1>22. Total(c, C) = Total(d, C) /\ Total(c, C) \in Int /\ m \notin C
  <2>1. \A n \in C : c[n] \in Int /\ c[n] = d[n]
    BY <1>19
  <2>2. QED
    BY <1>7, <1>11, <1>19, <2>1, TotalSame, TotalAdd
<1>23. Total(d, C \cup {m}) = d[m] + Total(d, C)
  BY <1>19, <1>20, <1>22, TotalAdd
<1>24. Total(d, C2) <= Total(d, C \cup {m}) /\ Total(d, C2) \in Int
  <2>1. IsFiniteSet(C \cup {m}) /\ C2 \subseteq C \cup {m}
    BY <1>13, <1>17, <1>19, FS_AddElement
  <2>2. \A n \in C \cup {m} : d[n] \in Nat
    BY <1>19, <1>20
  <2>3. QED
    BY <2>1, <2>2, TotalMonotone
<1>25. 0 <= Rest(g)'
  <2>1. PICK x, y, z, k : x = Total(v, T) /\ y = Total(c, C) /\ z = Total(d, C2) /\ k = Cost(transMsg)
    OBVIOUS
  <2>2. x \in Int /\ y \in Int /\ z \in Int /\ k \in Nat /\ z <= k + y
    BY <1>20, <1>21, <1>22, <1>23, <1>24, <2>1
  <2>3. k <= b + x - y
    BY <1>15, <1>16, <2>1
  <2>4. 0 <= b + x - z
    BY <1>15, <2>2, <2>3
  <2>5. QED
    BY <1>18, <1>21, <2>1, <2>4
<1>26. life' \notin {"segv", "fpe"}
  BY <1>2, <1>3 DEF Solvent
<1>27. QED
  BY <1>1, <1>4, <1>25, <1>26, SolventNext

\* What is tracked has been charged already.
LEMMA TrackSolvent ==
    ASSUME UserType, UserType', Len(frames) = 1, Solvent(Top), Track
    PROVE  Solvent(Top)'
<1>1. PICK f, g : f = Top /\ g = Top'
  OBVIOUS
<1>2. Solvent(f) /\ f.pc = "track" /\ f.proc = "main"
  BY <1>1, Alone DEF Track, At
<1>3. /\ UNCHANGED <<recorded, balance, life, transMsg, world>>
      /\ outgoing' = Append(outgoing, transMsg)
  BY DEF Track
<1>4. g.pc = "copy"
  <2>1. g = Frame("int", {"int"}) \/ g = [f EXCEPT !.pc = "copy", !.retry = SO_RETRY]
    BY <1>1, <1>2, TrackType
  <2>2. CASE g = Frame("int", {"int"})
    BY <2>2 DEF Frame
  <2>3. CASE g = [f EXCEPT !.pc = "copy", !.retry = SO_RETRY]
    BY <1>1, <2>3, TopIs DEF FrameType
  <2>4. QED
    BY <2>1, <2>2, <2>3
<1>5. \A u : In(u, outgoing') => In(u, outgoing) \/ u = transMsg
  <2>1. PICK l \in Nat : l = Len(outgoing)
    BY TopIs, LenProperties DEF DataType
  <2>2. outgoing \in Seq(Transactions) /\ transMsg \in Transactions
    BY TopIs, TrackType DEF DataType, Own, Transactions
  <2>3. PICK list : list = outgoing'
    OBVIOUS
  <2>4. /\ Len(list) = l + 1 /\ list[l + 1] = transMsg
        /\ \A p \in 1 .. l : list[p] = outgoing[p]
    BY <1>3, <2>1, <2>2, <2>3, AppendProperties
  <2>5. 1 .. l + 1 = (1 .. l) \cup {l + 1}
    OBVIOUS
  <2>6. QED
    BY <2>1, <2>3, <2>4, <2>5 DEF In
<1>6. Rest(f) \in Int /\ Rest(g)' \in Int /\ Rest(f) <= Rest(g)'
  <2>1. UNCHANGED <<message, fate>>
    BY <1>3 DEF world
  <2>2. \A n \in Mine(DOMAIN message) : Tracked(n)' => Tracked(n) \/ Sent(f, n)
    BY <1>2, <1>5, <2>1 DEF Tracked, Sent
  <2>3. \A n \in Mine(DOMAIN message) : Tracked(n)' \/ Sent(g, n)' => Tracked(n) \/ Sent(f, n)
    BY <1>4, <2>2 DEF Sent
  <2>4. QED
    BY <2>1, <2>3, RestKept
<1>7. life' \notin {"segv", "fpe"}
  BY <1>2, <1>3 DEF Solvent
<1>8. QED
  BY <1>1, <1>2, <1>4, <1>6, <1>7, SolventIdle

\* The queue is full.
LEMMA SendFailsSolvent ==
    ASSUME UserType, UserType', Len(frames) = 1, Solvent(Top), SendFails
    PROVE  Solvent(Top)'
<1>1. PICK f, g : f = Top /\ g = Top'
  OBVIOUS
<1>2. Solvent(f) /\ f.pc = "send" /\ f.proc = "main"
  BY <1>1, Alone DEF SendFails, At
<1>3. UNCHANGED <<recorded, balance, life, globals, world>>
  BY DEF SendFails
<1>4. g.pc = "copy"
  <2>1. g = Frame("int", {"int"}) \/ g = [f EXCEPT !.pc = "copy", !.retry = (f.retry - 1) % Width]
    BY <1>1, <1>2, SendFailsType
  <2>2. CASE g = Frame("int", {"int"})
    BY <2>2 DEF Frame
  <2>3. CASE g = [f EXCEPT !.pc = "copy", !.retry = (f.retry - 1) % Width]
    BY <1>1, <2>3, TopIs DEF FrameType
  <2>4. QED
    BY <2>1, <2>2, <2>3
<1>5. Rest(f) \in Int /\ Rest(g)' \in Int /\ Rest(f) <= Rest(g)'
  BY <1>3, <1>4, RestSame DEF globals, world
<1>6. life' \notin {"segv", "fpe"}
  BY <1>2, <1>3 DEF Solvent
<1>7. QED
  BY <1>1, <1>2, <1>4, <1>5, <1>6, SolventIdle

\* SIGINT's handler starts, and goes on.
LEMMA HandlerSolvent ==
    ASSUME UserType, UserType', Len(frames) = 1, Solvent(Top), Sigint \/ Settle \/ Refund
    PROVE  Solvent(Top)'
<1>1. PICK f, g : f = Top /\ g = Top'
  OBVIOUS
<1>2. Solvent(f)
  BY <1>1
<1>3. UNCHANGED <<recorded, life, globals, world>>
  BY DEF Sigint, Settle, Refund, entry
<1>4. g.proc = "int" /\ g.pc \in {"copy", "refund", "exit"}
  <2>1. CASE Sigint
    BY <1>1, <2>1, SigintType DEF Frame
  <2>2. CASE Settle
    BY <1>1, <2>2, SettleType, Alone, TopIs DEF FrameType, Settle, At
  <2>3. CASE Refund
    BY <1>1, <2>3, RefundType, Alone, TopIs DEF FrameType, Refund, At
  <2>4. QED
    BY <2>1, <2>2, <2>3
<1>5. Rest(f) \in Int /\ Rest(g)' \in Int /\ Rest(f) <= Rest(g)'
  BY <1>3, <1>4, RestSame DEF globals, world
<1>6. life' \notin {"segv", "fpe"}
  BY <1>2, <1>3 DEF Solvent
<1>7. QED
  BY <1>1, <1>2, <1>4, <1>5, <1>6, SolventIdle

\* Steps of the others: the user may be paid, and no payment is lost.
LEMMA StillSolvent ==
    ASSUME UserType, UserType', Solvent(Top), Top' = Top, life' \notin {"segv", "fpe"},
           MessagesStay, UNCHANGED <<currBalance, outgoing, transMsg>>,
           \A n \in DOMAIN message' : n \in DOMAIN message \/ ~ message'[n].mine,
           \A n \in DOMAIN message : fate[n] = "overwritten" => fate'[n] = "overwritten",
           \A n \in Theirs(Confirmed) : fate'[n] = "confirmed"
    PROVE  Solvent(Top)'
<1>1. PICK f : f = Top /\ f = Top'
  OBVIOUS
<1>2. Solvent(f) /\ f.view \subseteq DOMAIN message
  BY <1>1, TopIs
<1>3. Mine(DOMAIN message)' = Mine(DOMAIN message) /\ \A n \in Mine(DOMAIN message) : message'[n] = message[n]
  BY DEF Mine, MessagesStay
<1>4. Theirs(Confirmed) \subseteq Theirs(Confirmed)'
  BY DEF Theirs, Confirmed, MessagesStay
<1>5. \A n \in Mine(DOMAIN message) : (Tracked(n)' <=> Tracked(n)) /\ (Sent(f, n)' <=> Sent(f, n))
  BY <1>3 DEF Tracked, Sent, In
<1>6. Charged(f)' \subseteq Charged(f)
  <2>1. \A n \in Mine(DOMAIN message) : n \in DOMAIN message
    BY DEF Mine
  <2>2. QED
    BY <1>3, <1>5, <2>1 DEF Charged
<1>7. Rest(f) \in Int /\ Rest(f)' \in Int /\ Rest(f) <= Rest(f)'
  BY <1>4, <1>6, RestGrows
<1>8. PICK V : V = f.view
  OBVIOUS
<1>9. Worth(V) \in Int /\ Worth(V)' \in Int /\ Worth(V) <= Worth(V)'
  <2>1. Theirs(V) \subseteq Theirs(V)'
    BY <1>2, <1>8 DEF Theirs, MessagesStay
  <2>2. Mine(V)' = Mine(V)
    BY <1>2, <1>8 DEF Mine, MessagesStay
  <2>3. Deducted(V)' \subseteq Deducted(V)
    BY <1>3, <1>5, <2>2 DEF Deducted
  <2>4. QED
    BY <1>2, <1>8, <2>1, <2>3, WorthStays
<1>10. 0 <= Rest(f)'
  BY <1>2, <1>7 DEF Solvent
<1>11. f.pc = "walk" => 0 <= Worth(f.view)'
  <2>1. f.pc = "walk" => 0 <= Worth(V)
    BY <1>2, <1>8 DEF Solvent
  <2>2. f.pc = "walk" => 0 <= Worth(V)'
    BY <1>9, <2>1
  <2>3. QED
    BY <1>8, <2>2
<1>12. /\ f.temp \in Int /\ currBalance \in Int
       /\ f.pc = "compose" => Cost(f.draw) \in Int
       /\ f.pc = "send" => Cost(transMsg) \in Int
  <2>1. \A t \in Own : Cost(t) \in Int
    <3> SUFFICES ASSUME NEW t \in Own PROVE Cost(t) \in Int
      OBVIOUS
    <3>1. t \in Transactions
      BY DEF Own, Transactions
    <3>2. Cost(t) \in Nat
      BY <3>1, CostIsNat
    <3>3. QED
      BY <3>2
  <2>2. QED
    BY <1>1, <2>1, TopIs DEF FrameOK, DataType
<1>13. Cost(transMsg)' = Cost(transMsg)
  BY DEF Cost
<1>14. ASSUME f.proc = "main"
       PROVE  /\ f.pc = "publish" => f.temp <= Rest(f)'
              /\ f.pc \in {"check", "draw"} => currBalance' <= Rest(f)'
              /\ f.pc = "compose" => Cost(f.draw) <= Rest(f)'
              /\ f.pc = "send" => Cost(transMsg)' <= Rest(f)'
  <2>1. /\ f.pc = "publish" => f.temp <= Rest(f)
        /\ f.pc \in {"check", "draw"} => currBalance <= Rest(f)
        /\ f.pc = "compose" => Cost(f.draw) <= Rest(f)
        /\ f.pc = "send" => Cost(transMsg) <= Rest(f)
    BY <1>2, <1>14 DEF Solvent
  <2>2. QED
    BY <1>7, <1>12, <1>13, <2>1
<1>15. QED
  BY <1>1, <1>10, <1>11, <1>14, SolventNext

\* Exits, records, interrupts, payments, decisions, and what changes nothing.
LEMMA OthersSolvent ==
    ASSUME UserType, UserType', Solvent(Top), Theirs(Overwritten)' = {},
           \/ Exit \/ Record \/ Interrupt \/ Pay \/ UNCHANGED vars
           \/ \E n \in DOMAIN message : Decide(n) \/ Overwrite(n)
    PROVE  Solvent(Top)'
<1>1. life \notin {"segv", "fpe"}
  BY DEF Solvent
<1>2. CASE Exit \/ Record \/ Interrupt \/ UNCHANGED vars
  <2>1. UNCHANGED <<frames, currBalance, outgoing, transMsg, message, fate>>
    BY <1>2 DEF Exit, Record, Interrupt, vars, globals, world
  <2>2. life' \in {life, "exited"}
    BY <1>2 DEF Exit, Record, Interrupt, vars
  <2>3. Top' = Top
    BY <2>1 DEF Top
  <2>4. MessagesStay /\ \A n \in Theirs(Confirmed) : fate'[n] = "confirmed"
    BY <2>1 DEF MessagesStay, Theirs, Confirmed
  <2>5. QED
    BY <1>1, <2>1, <2>2, <2>3, <2>4, StillSolvent
<1>3. CASE Pay
  <2>1. UNCHANGED <<life, currBalance, outgoing, transMsg>>
    BY <1>3 DEF Pay, globals
  <2>2. MessagesStay /\ \A n \in Theirs(Confirmed) : fate'[n] = "confirmed"
    BY <1>3, PayType DEF MessagesStay, Theirs, Confirmed
  <2>3. \A n \in DOMAIN message' : n \in DOMAIN message \/ ~ message'[n].mine
    BY <1>3, PayType
  <2>4. \A n \in DOMAIN message : fate'[n] = fate[n]
    BY <1>3, PayType
  <2>5. QED
    BY <1>1, <1>3, <2>1, <2>2, <2>3, <2>4, PayType, StillSolvent
<1>4. CASE \E n \in DOMAIN message : Decide(n) \/ Overwrite(n)
  <2>1. PICK n \in DOMAIN message : Decide(n) \/ Overwrite(n)
    BY <1>4
  <2>2. UNCHANGED <<life, currBalance, outgoing, transMsg, message>>
    BY <2>1 DEF Decide, Overwrite, globals
  <2>3. PICK w \in Fates :
           /\ \A k \in DOMAIN message : fate'[k] = IF k = n THEN w ELSE fate[k]
           /\ \/ fate[n] = "pending" /\ w \in {"confirmed", "discarded"}
              \/ fate[n] = "confirmed" /\ w = "overwritten"
    BY <2>1, DecideType
  <2>4. MessagesStay
    BY <2>2 DEF MessagesStay
  <2>5. \A k \in DOMAIN message : fate[k] = "overwritten" => fate'[k] = "overwritten"
    BY <2>3
  <2>6. ASSUME NEW k \in Theirs(Confirmed) PROVE fate'[k] = "confirmed"
    <3>1. k \in DOMAIN message /\ ~ message[k].mine /\ fate[k] = "confirmed"
      BY DEF Theirs, Confirmed
    <3>2. k \notin Theirs(Overwritten)'
      OBVIOUS
    <3>3. fate'[k] # "overwritten"
      BY <2>2, <3>1, <3>2 DEF Theirs, Overwritten
    <3>4. QED
      BY <2>3, <3>1, <3>3
  <2>7. Top' = Top
    BY <2>1, DecideType
  <2>8. QED
    BY <1>1, <2>2, <2>4, <2>5, <2>6, <2>7, StillSolvent
<1>5. QED
  BY <1>2, <1>3, <1>4

\* What the ledger has lost it does not get back.
LEMMA LostForGood ==
    ASSUME UserType, [Next]_vars, Theirs(Overwritten)' = {}
    PROVE  Theirs(Overwritten) = {}
<1> SUFFICES ASSUME NEW k \in Theirs(Overwritten) PROVE FALSE
  OBVIOUS
<1>1. k \in DOMAIN message /\ ~ message[k].mine /\ fate[k] = "overwritten"
  BY DEF Theirs, Overwritten
<1>2. ASSUME k \in DOMAIN message', message'[k] = message[k], fate'[k] = "overwritten" PROVE FALSE
  BY <1>1, <1>2 DEF Theirs, Overwritten
<1>3. CASE Pay
  BY <1>1, <1>2, <1>3, PayType
<1>4. CASE \E n \in DOMAIN message : Decide(n) \/ Overwrite(n)
  <2>1. PICK n \in DOMAIN message : Decide(n) \/ Overwrite(n)
    BY <1>4
  <2>2. UNCHANGED message
    BY <2>1 DEF Decide, Overwrite
  <2>3. fate'[k] = "overwritten"
    BY <1>1, <2>1, DecideType
  <2>4. QED
    BY <1>1, <1>2, <2>2, <2>3
<1>5. CASE Send
  <2>1. transMsg \in Transactions
    BY <1>5, SendType DEF Own, Transactions
  <2>2. message \in Seq(Transactions) /\ message' = Append(message, transMsg) /\ fate' = Append(fate, "pending")
    BY <1>5, TopIs DEF Send, DataType
  <2>3. /\ message' \in Seq(Transactions) /\ Len(message') = Len(message) + 1
        /\ k \in DOMAIN message' /\ message'[k] = message[k]
    BY <1>1, <2>1, <2>2, OneMore
  <2>4. fate'[k] = fate[k]
    BY <1>1, <2>2, <2>3, TopIs, FateMore
  <2>5. QED
    BY <1>1, <1>2, <2>3, <2>4
<1>6. CASE UNCHANGED <<message, fate>>
  BY <1>1, <1>2, <1>6
<1>7. Pay \/ Send \/ UNCHANGED <<message, fate>> \/ \E n \in DOMAIN message : Decide(n) \/ Overwrite(n)
  BY DEF Next, UserStep, CopyLedger, Walk, Overflow, Publish, CheckInMain, CheckInHandler, Draw,
     DivideByZero, Compose, Track, SendFails, Settle, Refund, Exit, Record, Sigusr1, Interrupt,
     Sigint, vars, world
<1>8. QED
  BY <1>3, <1>4, <1>5, <1>6, <1>7

\* Every step without a SIGUSR1, no payment having been lost.
LEMMA SolventStep ==
    ASSUME UserType, UserType', Len(frames) = 1, Quiet(Top), Solvent(Top), [Next]_vars, Calm'
    PROVE  Solvent(Top)'
<1>1. Theirs(Overwritten) = {} /\ Theirs(Overwritten)' = {} /\ signals' = 0
  BY LostForGood DEF Calm
<1>2. CASE UserStep
  <2>1. CASE CopyLedger \/ Walk \/ Publish
    BY <1>1, <2>1, CopyLedgerSolvent, WalkSolvent, PublishSolvent
  <2>2. CASE Overflow \/ DivideByZero
    BY <2>2, OverflowSolvent, DivideSolvent
  <2>3. CASE CheckInMain \/ Draw \/ Compose
    BY <2>3, CheckInMainSolvent, DrawSolvent, ComposeSolvent
  <2>4. CASE CheckInHandler
    <3>1. Top.proc = "usr1"
      BY <2>4 DEF CheckInHandler
    <3>2. QED
      BY <3>1, Alone
  <2>5. CASE Send \/ Track \/ SendFails
    BY <2>5, SendSolvent, TrackSolvent, SendFailsSolvent
  <2>6. CASE Settle \/ Refund
    BY <2>6, HandlerSolvent
  <2>7. CASE Exit
    BY <1>1, <2>7, OthersSolvent
  <2>8. QED
    BY <1>2, <2>1, <2>2, <2>3, <2>4, <2>5, <2>6, <2>7 DEF UserStep
<1>3. CASE Sigusr1
  <2>1. signals' > 0
    BY <1>3, Sigusr1Type
  <2>2. QED
    BY <1>1, <2>1
<1>4. CASE Sigint
  BY <1>4, HandlerSolvent
<1>5. CASE Record \/ Interrupt \/ Pay \/ UNCHANGED vars \/ \E n \in DOMAIN message : Decide(n) \/ Overwrite(n)
  BY <1>1, <1>5, OthersSolvent
<1>6. QED
  BY <1>2, <1>3, <1>4, <1>5 DEF Next

-------------------------------------------------------------------------------
(* The invariant, and what follows from it. *)

\* The user starts undisturbed, with its budget.
LEMMA InvInit == Init => UserInv
<1> SUFFICES ASSUME Init PROVE UserInv
  OBVIOUS
<1>1. UserType
  BY TypeInit
<1>2. PICK f : f = Frame("main", {})
  OBVIOUS
<1>3. frames = <<f>> /\ message = <<>> /\ outgoing = <<>> /\ status = "alive" /\ life = "runs"
  BY <1>2 DEF Init
<1>4. Len(frames) = 1 /\ Top = f
  BY <1>3 DEF Top, Last
<1>5. f.proc = "main" /\ f.pc = "copy" /\ ~ f.listed
  BY <1>2 DEF Frame
<1>6. Mine(DOMAIN message) = {} /\ Theirs(Confirmed) = {} /\ Len(outgoing) = 0
  BY <1>3 DEF Mine, Theirs, Confirmed
<1>7. Quiet(f)
  <2>1. Distinct
    BY <1>6 DEF Distinct, NoneTwice
  <2>2. Sending(f) /\ Kept(f) /\ Copied(f)
    BY <1>5, <1>6 DEF Sending, Kept, Copied
  <2>3. Settling(f)
    BY <1>3, <1>5 DEF Settling
  <2>4. QED
    BY <1>3, <1>5, <2>1, <2>2, <2>3 DEF Quiet
<1>8. Solvent(f)
  <2>1. Charged(f) = {}
    BY <1>6 DEF Charged
  <2>2. PICK v, c : v = Amounts /\ c = Costs
    OBVIOUS
  <2>3. Total(v, {}) = 0 /\ Total(c, {}) = 0
    <3>1. IsFiniteSet({}) /\ (\A x \in {} : v[x] \in Int) /\ (\A x \in {} : c[x] \in Int)
      BY FS_EmptySet
    <3>2. QED
      BY <3>1, TotalAdd
  <2>4. Rest(f) = SO_BUDGET_INIT + Total(v, {}) - Total(c, {})
    BY <1>6, <2>1, <2>2 DEF Rest
  <2>5. 0 <= Rest(f)
    BY <2>3, <2>4, UserAssumption
  <2>6. QED
    BY <1>3, <1>5, <2>5 DEF Solvent
<1>9. QED
  BY <1>1, <1>4, <1>7, <1>8 DEF UserInv

\* SIGUSR1s are not forgotten.
LEMMA SignalsCount ==
    ASSUME UserType, [Next]_vars, signals' = 0
    PROVE  signals = 0
<1>1. CASE Sigusr1
  <2>1. signals' > 0
    BY <1>1, Sigusr1Type
  <2>2. QED
    BY <2>1
<1>2. CASE ~ Sigusr1
  <2>1. UNCHANGED signals
    BY <1>2 DEF Next, UserStep, CopyLedger, Walk, Overflow, Publish, CheckInMain, CheckInHandler, Draw,
       DivideByZero, Compose, Send, Track, SendFails, Settle, Refund, Exit, Record, Interrupt,
       Sigint, Pay, Decide, Overwrite, vars, world
  <2>2. QED
    BY <2>1
<1>3. QED
  BY <1>1, <1>2

\* Every step keeps the invariant.
LEMMA InvStep == UserInv /\ [Next]_vars => UserInv'
<1> SUFFICES ASSUME UserInv, [Next]_vars PROVE UserInv'
  OBVIOUS
<1>1. UserType /\ UserType'
  BY TypeStep DEF UserInv
<1>2. ASSUME signals' = 0 PROVE Len(frames') = 1 /\ Quiet(Top)'
  <2>1. signals = 0
    BY <1>1, <1>2, SignalsCount
  <2>2. Len(frames) = 1 /\ Quiet(Top)
    BY <2>1 DEF UserInv
  <2>3. QED
    BY <1>1, <1>2, <2>2, QuietStep
<1>3. ASSUME Calm' PROVE Solvent(Top)'
  <2>1. signals' = 0 /\ Theirs(Overwritten)' = {}
    BY <1>3 DEF Calm
  <2>2. signals = 0 /\ Theirs(Overwritten) = {}
    BY <1>1, <2>1, SignalsCount, LostForGood
  <2>3. Len(frames) = 1 /\ Quiet(Top) /\ Solvent(Top)
    BY <2>2 DEF UserInv, Calm
  <2>4. QED
    BY <1>1, <1>3, <2>3, SolventStep
<1>4. QED
  BY <1>1, <1>2, <1>3 DEF UserInv

\* The inductive invariant: the types and the shape of the stack; of a user
\* without SIGUSR1s, where each of its transactions is and what the handler of
\* SIGINT has worked out; and, no payment having been lost, that it never has
\* more in mind than it has left.
THEOREM UserInvariant == Spec => []UserInv
<1>1. Init => UserInv
  BY InvInit
<1>2. UserInv /\ [Next]_vars => UserInv'
  BY InvStep
<1>3. QED
  BY <1>1, <1>2, PTL DEF Spec

\* The types of a user's variables, its stack of at most two frames included.
THEOREM UserTypes == Spec => []TypeOK
<1>1. UserInv => TypeOK
  <2> SUFFICES ASSUME UserInv PROVE TypeOK
    OBVIOUS
  <2>1. DataType /\ Stack
    BY DEF UserInv, UserType
  <2>2. DOMAIN fate = DOMAIN message
    BY <2>1, LenProperties DEF DataType
  <2>3. QED
    BY <2>1, <2>2 DEF DataType, Stack, TypeOK
<1>2. QED
  BY <1>1, UserInvariant, PTL

\* get_balance's error branch, and RAND's division by zero, are reached only by
\* a user that has taken a SIGUSR1 or lost a payment: the walk deducts each of
\* its transactions once, whatever the ledger shows of it.
THEOREM SolventUnlessDisturbed == Spec => []InsolventOnlyIfDisturbed
<1>1. UserInv => InsolventOnlyIfDisturbed
  <2> SUFFICES ASSUME UserInv, life \in {"segv", "fpe"}
               PROVE  signals > 0 \/ Theirs(Overwritten) # {}
    BY DEF InsolventOnlyIfDisturbed
  <2>1. ~ Calm
    BY DEF UserInv, Solvent
  <2>2. signals \in Nat
    BY UserAssumption DEF UserInv, UserType, DataType
  <2>3. QED
    BY <2>1, <2>2 DEF Calm
<1>2. QED
  BY <1>1, UserInvariant, PTL

\* main's list of outgoing transactions has every transaction that is not in the
\* ledger, once, from the end of send_transaction on.
THEOREM NothingOutgoingLost == Spec => []OutgoingKept
<1>1. UserInv => OutgoingKept
  <2> SUFFICES ASSUME UserInv, NEW n \in Mine(DOMAIN message),
                      fate[n] \in {"pending", "discarded"}, signals = 0, Top.proc = "main"
               PROVE  \/ At("track") /\ transMsg = message[n]
                      \/ Cardinality({p \in DOMAIN outgoing : outgoing[p] = message[n]}) = 1
    BY DEF OutgoingKept
  <2>1. PICK f : f = Top
    OBVIOUS
  <2>2. Quiet(f) /\ Len(frames) = 1 /\ f.proc = "main" /\ UserType
    BY <2>1 DEF UserInv
  <2>3. Tracked(n) \/ Sent(f, n)
    BY <2>2 DEF Quiet, Kept
  <2>4. CASE Tracked(n)
    <3>1. PICK p \in 1 .. Len(outgoing) : outgoing[p] = message[n]
      BY <2>4 DEF Tracked, In
    <3>2. DOMAIN outgoing = 1 .. Len(outgoing)
      BY <2>2, LenProperties DEF UserType, DataType
    <3>3. \A q \in 1 .. Len(outgoing) : outgoing[q] = message[n] => q = p
      BY <2>2, <3>1 DEF Quiet, Distinct, NoneTwice
    <3>4. {q \in DOMAIN outgoing : outgoing[q] = message[n]} = {p}
      BY <3>1, <3>2, <3>3
    <3>5. QED
      BY <3>4, FS_Singleton
  <2>5. CASE Sent(f, n) /\ life = "runs"
    BY <2>1, <2>5 DEF Sent, At
  <2>6. Sent(f, n) => life = "runs"
    BY <2>2 DEF Sent, Quiet, Settling
  <2>7. QED
    BY <2>3, <2>4, <2>5, <2>6
<1>2. QED
  BY <1>1, UserInvariant, PTL

\* What SIGINT's handler leaves behind as the balance is the budget and what the
\* copy of the ledger it has read says, whatever was outgoing.
THEOREM RefundIsExact == Spec => []FinalBalance
<1>1. UserInv => FinalBalance
  <2> SUFFICES ASSUME UserInv, life = "exited", signals = 0, Top.listed
               PROVE  balance = SO_BUDGET_INIT + Net(Top.view)
    BY DEF FinalBalance
  <2>1. PICK f : f = Top
    OBVIOUS
  <2>2. Quiet(f) /\ f.listed
    BY <2>1 DEF UserInv
  <2>3. f.pc = "exit"
    BY <2>2 DEF Quiet, Settling
  <2>4. balance = SO_BUDGET_INIT + Net(f.view)
    BY <2>2, <2>3 DEF Quiet, Settling
  <2>5. QED
    BY <2>1, <2>4
<1>2. QED
  BY <1>1, UserInvariant, PTL

\* No step of an undisturbed user, not even its SIGINT's handler, revives a dead
\* one: main is left as soon as the user has declared itself dead.
THEOREM DeadUserStaysDead == Spec => DeadStaysDead
<1>1. UserInv /\ [Next]_vars => [status = "dead" /\ signals' = 0 => status' = "dead"]_vars
  <2> SUFFICES ASSUME UserInv, Next, status = "dead", signals' = 0
               PROVE  status' = "dead"
    OBVIOUS
  <2>1. UserType /\ signals = 0
    BY SignalsCount DEF UserInv
  <2>2. Len(frames) = 1 /\ Quiet(Top)
    BY <2>1 DEF UserInv
  <2>3. life = "runs" => Top.proc = "int"
    BY <2>2 DEF Quiet
  <2>4. Top.proc = "int" => Top.pc \in IntPcs
    BY <2>1, TopIs
  <2>5. CASE UserStep
    <3>1. CASE CheckInMain \/ CheckInHandler \/ Draw
      BY <2>3, <2>4, <3>1 DEF CheckInMain, CheckInHandler, Draw, At, IntPcs
    <3>2. CASE Overflow \/ Track \/ SendFails
      BY <3>2 DEF Overflow, Track, SendFails, AfterSend, SetStatus
    <3>3. CASE Settle
      BY <3>3 DEF Settle, MaySettle
    <3>4. CASE CopyLedger \/ Walk \/ Publish \/ DivideByZero \/ Compose \/ Send \/ Refund \/ Exit
      BY <3>4 DEF CopyLedger, Walk, Publish, DivideByZero, Compose, Send, Refund, Exit, entry
    <3>5. QED
      BY <2>5, <3>1, <3>2, <3>3, <3>4 DEF UserStep
  <2>6. CASE Record \/ Sigusr1 \/ Interrupt \/ Sigint \/ Pay \/ \E n \in DOMAIN message : Decide(n) \/ Overwrite(n)
    BY <2>6 DEF Record, Sigusr1, Interrupt, Sigint, Pay, Decide, Overwrite, entry
  <2>7. QED
    BY <2>5, <2>6 DEF Next
<1>2. QED
  BY <1>1, UserInvariant, PTL DEF Spec, DeadStaysDead

-------------------------------------------------------------------------------
(* The rest of the world, as a user knows it. *)

\* A user cannot tell a transaction that a node has given up from one that
\* another block has been written over.
Seen(f) == IF f \in {"discarded", "overwritten"} THEN "lost" ELSE f

\* Of each message, and of those still to be sent.
WorldFate == [n \in Nat |-> IF n \in DOMAIN message THEN Seen(fate[n]) ELSE "pending"]

\* What nodes and builders promise (see Journey).
World == INSTANCE Fates WITH Tx <- Nat, fate <- WorldFate

\* A step changes what the user sees as Fates allows.
LEMMA WorldStep == UserType /\ [Next]_vars => World!Next
<1> SUFFICES ASSUME UserType, [Next]_vars, NEW n \in Nat
             PROVE  \/ WorldFate'[n] = WorldFate[n]
                    \/ <<WorldFate[n], WorldFate'[n]>> \in World!Turns
  BY DEF World!Next
<1>1. DataType /\ DOMAIN message = 1 .. Len(message) /\ DOMAIN message \subseteq Nat
  BY LenProperties DEF UserType, DataType
<1>2. CASE UNCHANGED <<message, fate>>
  BY <1>2 DEF WorldFate
<1>3. CASE Send \/ Pay
  <2>1. /\ DOMAIN message' = 1 .. Len(message) + 1
        /\ fate' = Append(fate, "pending")
        /\ fate \in Seq(Fates) /\ Len(fate) = Len(message)
    <3>1. PICK m : message' = Append(message, m)
      BY <1>3 DEF Send, Pay
    <3>2. message \in Seq(Transactions)
      BY <1>1 DEF DataType
    <3>3. Len(message) \in Nat /\ DOMAIN Append(message, m) = 1 .. Len(message) + 1
      BY <3>2, LenProperties
    <3>4. QED
      BY <1>1, <1>3, <3>1, <3>3 DEF Send, Pay, DataType
  <2>2. \A k \in DOMAIN message : fate'[k] = fate[k]
    BY <1>1, <2>1, AppendProperties
  <2>3. fate'[Len(message) + 1] = "pending"
    BY <1>1, <2>1, AppendProperties
  <2>4. CASE n \in DOMAIN message
    <3>1. n \in DOMAIN message' /\ fate'[n] = fate[n]
      BY <1>1, <2>1, <2>2, <2>4, LenProperties DEF DataType
    <3>2. QED
      BY <2>4, <3>1 DEF WorldFate
  <2>5. CASE n \notin DOMAIN message
    <3>1. n \in DOMAIN message' => n = Len(message) + 1
      BY <1>1, <2>1, <2>5, LenProperties DEF DataType
    <3>2. Seen("pending") = "pending"
      BY DEF Seen
    <3>3. QED
      BY <2>3, <2>5, <3>1, <3>2 DEF WorldFate
  <2>6. QED
    BY <2>4, <2>5
<1>4. ASSUME NEW k \in DOMAIN message, Decide(k) \/ Overwrite(k)
      PROVE  \/ WorldFate'[n] = WorldFate[n]
             \/ <<WorldFate[n], WorldFate'[n]>> \in World!Turns
  <2>1. message' = message
    BY <1>4 DEF Decide, Overwrite
  <2>2. PICK f \in Fates :
           /\ \A l \in DOMAIN message : fate'[l] = IF l = k THEN f ELSE fate[l]
           /\ \/ fate[k] = "pending" /\ f \in {"confirmed", "discarded"}
              \/ fate[k] = "confirmed" /\ f = "overwritten"
    BY <1>4, DecideType
  <2>3. CASE n = k
    <3>1. WorldFate[n] = Seen(fate[k]) /\ WorldFate'[n] = Seen(f)
      BY <1>4, <2>1, <2>2, <2>3 DEF WorldFate
    <3>2. QED
      BY <2>2, <3>1 DEF Seen, World!Turns
  <2>4. CASE n # k
    BY <2>1, <2>2, <2>4 DEF WorldFate
  <2>5. QED
    BY <2>3, <2>4
<1>5. Next /\ ~(Send \/ Pay) /\ ~(\E k \in DOMAIN message : Decide(k) \/ Overwrite(k))
        => UNCHANGED <<message, fate>>
  BY DEF Next, UserStep, CopyLedger, Walk, Overflow, Publish, CheckInMain, CheckInHandler,
         Draw, DivideByZero, Compose, Track, SendFails, Settle, Refund, Exit, Record,
         Sigusr1, Interrupt, Sigint, world
<1>6. QED
  BY <1>2, <1>3, <1>4, <1>5 DEF vars

\* A user's model of nodes, master and builders does nothing that Fates, which
\* Journey implements, does not allow ...
THEOREM WorldMeetsFates == Spec => World!Spec
<1>1. Init => World!Init
  BY DEF Init, World!Init, WorldFate
<1>2. UserInv => UserType
  BY DEF UserInv
<1>3. QED
  BY <1>1, <1>2, WorldStep, UserInvariant, PTL DEF Spec, World!Spec

\* ... and leaves out nothing that it does: whatever turn a message may take,
\* there is a step of the model with that turn.  Only the number of confirmed
\* transactions that are written over is bounded.
THEOREM EveryTurnIsModelled ==
    ASSUME UserType, Cardinality(Overwritten) < MaxOverwritten,
           NEW n \in DOMAIN message, NEW f, <<Seen(fate[n]), f>> \in World!Turns
    PROVE  \E g \in Fates :
              /\ Seen(g) = f
              /\ /\ fate' = [fate EXCEPT ![n] = g]
                 /\ UNCHANGED <<entry, life, frames, globals, clock, message, sigint, signals>>
                 => Next
<1>1. n \in DOMAIN fate /\ fate[n] \in Fates
  BY LenProperties, ElementOfSeq DEF UserType, DataType
<1>2. ASSUME NEW g, fate[n] = "pending", g \in {"confirmed", "discarded"},
             fate' = [fate EXCEPT ![n] = g],
             UNCHANGED <<entry, life, frames, globals, clock, message, sigint, signals>>
      PROVE  Next
  BY <1>2 DEF Next, Decide
<1>3. ASSUME fate[n] = "confirmed", fate' = [fate EXCEPT ![n] = "overwritten"],
             UNCHANGED <<entry, life, frames, globals, clock, message, sigint, signals>>
      PROVE  Next
  BY <1>3 DEF Next, Overwrite
<1>4. CASE fate[n] = "pending" /\ f = "confirmed"
  <2>1. "confirmed" \in Fates /\ Seen("confirmed") = f
    BY <1>4 DEF Fates, Seen
  <2>2. QED
    BY <1>2, <1>4, <2>1
<1>5. CASE fate[n] = "pending" /\ f = "lost"
  <2>1. "discarded" \in Fates /\ Seen("discarded") = f
    BY <1>5 DEF Fates, Seen
  <2>2. QED
    BY <1>2, <1>5, <2>1
<1>6. CASE fate[n] = "confirmed" /\ f = "lost"
  <2>1. "overwritten" \in Fates /\ Seen("overwritten") = f
    BY <1>6 DEF Fates, Seen
  <2>2. QED
    BY <1>3, <1>6, <2>1
<1>7. QED
  BY <1>1, <1>4, <1>5, <1>6 DEF World!Turns, Seen, Fates

===============================================================================
