------------------------------ MODULE Significant ------------------------------
(***************************************************************************)
(* The search for the three users with the highest balances (print.c),     *)
(* which the master repeats every second over balances that their owners   *)
(* change meanwhile.  The loop for the three lowest is written the same    *)
(* way, with the comparisons turned round; those over the nodes differ (a  *)
(* pid must not be 0 for the lowest, the pids found are kept from one call *)
(* to the next) and are not modelled.                                      *)
(***************************************************************************)
EXTENDS Integers, FiniteSets

CONSTANTS
    Length,      \* of usersPID
    MaxBalance,  \* bound: the largest balance
    MaxMoves,    \* bound: balances that change during the call
    Nobody       \* what a rank shows before somebody takes it

VARIABLES
    balance,  \* the balances in the array
    i,        \* the index the loop has reached
    place,    \* the rank the test has found for it, 0 before the test
    rank,     \* the three processes found so far: who they are, and what of
    moves     \* how many balances have changed

vars == <<balance, i, place, rank, moves>>

Entries == 1 .. Length
Rank(who, of) == [who |-> who, of |-> of]

Init ==
    /\ balance \in [Entries -> 0 .. MaxBalance]
    /\ i = 1
    /\ place = 0
    /\ rank = <<Rank(Nobody, 0), Rank(Nobody, 0), Rank(Nobody, 0)>>
    /\ moves = 0

\* The rank that balance b takes: the first it exceeds, or none.
PlaceOf(b) == CHOOSE k \in 1 .. 4 :
    /\ \A l \in 1 .. 3 : l < k => b <= rank[l].of
    /\ k < 4 => b > rank[k].of

\* The tests of the loop's body read the balance ...
Test ==
    /\ i \in Entries /\ place = 0
    /\ place' = PlaceOf(balance[i])
    /\ UNCHANGED <<balance, i, rank, moves>>

\* Mutant: a new first does not hand its place down.
ShiftedNever(e) == [rank EXCEPT ![place] = e]

\* The ranks once e has taken its place.  A new first drops the old second, for
\* only one rank is handed down: bn3 and n3 stay.
Shifted(e) ==
    CASE place = 1 -> <<e, rank[1], rank[3]>>
      [] place = 2 -> <<rank[1], e, rank[2]>>
      [] place = 3 -> <<rank[1], rank[2], e>>
      [] OTHER     -> rank

\* ... and what it does with it reads it again.
Take ==
    /\ place # 0
    /\ rank' = Shifted(Rank(i, balance[i]))
    /\ i' = i + 1
    /\ place' = 0
    /\ UNCHANGED <<balance, moves>>

\* Meanwhile a user computes its balance.
Move ==
    /\ i \in Entries /\ moves < MaxMoves
    /\ \E e \in Entries, b \in 0 .. MaxBalance :
          b # balance[e] /\ balance' = [balance EXCEPT ![e] = b]
    /\ moves' = moves + 1
    /\ UNCHANGED <<i, place, rank>>

Next == Test \/ Take \/ Move

Spec == Init /\ [][Next]_vars

-------------------------------------------------------------------------------

\* How many of the entries before i are above b.
Above(b) == Cardinality({e \in Entries : e < i /\ balance[e] > b})
AtLeast(b) == Cardinality({e \in Entries : e < i /\ balance[e] >= b})

\* Rank k shows the k-th highest of the balances walked, and whose it is.
Right(k) ==
    /\ Above(rank[k].of) < k
    /\ rank[k].of > 0 => AtLeast(rank[k].of) >= k /\ balance[rank[k].who] = rank[k].of

\* The first two ranks are right at every turn of the loop, and the third,
\* though a new first makes it forget a balance, is never too high and shows
\* the balance of the process it names, unless a balance has changed during the
\* call.
FirstTwoRight ==
    moves = 0 =>
        /\ Right(1) /\ Right(2)
        /\ rank[3].of > 0 => AtLeast(rank[3].of) >= 3 /\ balance[rank[3].who] = rank[3].of

===============================================================================
