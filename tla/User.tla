--------------------------------- MODULE User ----------------------------------
(***************************************************************************)
(* A user (users.c): it computes its balance from the ledger and from the  *)
(* list of what it has sent and not yet found there, spends some of it,    *)
(* and starts again, until it gives up or SIGINT ends it.  SIGUSR1 makes   *)
(* it run a second such round inside the first, on the same globals.       *)
(*                                                                         *)
(* Users meet only in the ledger and in usersPID, so the others are part   *)
(* of the environment, with the nodes and builders: they pay this user,    *)
(* and may all be dead or not yet listed.  What is sent may be confirmed,  *)
(* given up, or confirmed and then overwritten (see Nodes and Ledger).  A  *)
(* block becomes visible slot by slot, so each transaction does on its own.*)
(*                                                                         *)
(* The user runs on a stack of frames: main, and above it the handlers     *)
(* that have interrupted it.  A signal is taken between two actions;       *)
(* inside one, that is in the middle of a list operation or of filling     *)
(* transMsg, it is not modelled.                                           *)
(***************************************************************************)
EXTENDS Integers, SequencesExt, FiniteSetsExt

CONSTANTS
    SO_BUDGET_INIT,    \* what the user starts with
    SO_REWARD,         \* the share of a transaction its node gets, in percent
    SO_RETRY,          \* failures in a row after which it gives up
    Width,             \* one more than the largest unsigned int
    MaxDraw,           \* bound: the largest sum drawn, or paid by another user
    MaxClock,          \* bound: transactions initialised
    MaxPayments,       \* bound: transactions of others to this user
    MaxSignals,        \* bound: SIGUSR1s
    MaxOverwritten     \* bound: confirmed transactions lost by the ledger

ASSUME UserAssumption ==
    /\ SO_BUDGET_INIT \in Nat
    /\ SO_REWARD \in 0 .. 100
    /\ SO_RETRY \in Nat
    /\ MaxDraw \in Nat
    /\ Width \in Nat /\ Width > SO_BUDGET_INIT + MaxDraw * MaxPayments /\ Width > SO_RETRY
    /\ {MaxClock, MaxPayments, MaxSignals, MaxOverwritten} \subseteq Nat

VARIABLES
    recorded,     \* is the user's pid in usersPID?
    status,       \* status of its entry there
    balance,      \* balance of its entry
    life,         \* whether it runs, and what has ended it
    frames,       \* its stack
    currBalance,  \* the globals of users.c
    outgoing,
    transMsg,
    clock,        \* the next timestamp
    message,      \* the transactions from and to this user that were sent
    fate,         \* what became of each
    sigint,       \* has SIGINT been sent to the process group?
    signals       \* how many SIGUSR1s the user has taken

vars == <<recorded, status, balance, life, frames, currBalance, outgoing,
          transMsg, clock, message, fate, sigint, signals>>

entry   == <<recorded, status, balance>>
globals == <<currBalance, outgoing, transMsg>>
world   == <<clock, message, fate, sigint, signals>>

-------------------------------------------------------------------------------
(* Transactions and money. *)

None == [mine |-> FALSE]

\* REWARD: the percentage, rounded up.
Reward(amount) == (SO_REWARD * amount + 99) \div 100

Transaction(mine, whole, time) ==
    [mine |-> mine, amount |-> whole - Reward(whole), reward |-> Reward(whole),
     timestamp |-> time]

Cost(t) == t.amount + t.reward

CostOf(list) == FoldSeq(LAMBDA t, sum : Cost(t) + sum, 0, list)

\* The ledger, as which of the messages are in it.
Confirmed   == {n \in DOMAIN message : fate[n] = "confirmed"}
Overwritten == {n \in DOMAIN message : fate[n] = "overwritten"}

Mine(view)   == {n \in view : message[n].mine}
Theirs(view) == {n \in view : ~message[n].mine}

\* What the ledger adds to the budget.
Net(view) ==
    MapThenSumSet(LAMBDA n : message[n].amount, Theirs(view))
        - MapThenSumSet(LAMBDA n : Cost(message[n]), Mine(view))

\* RAND(2, currBalance) on unsigned ints: a range that wraps around for 0, and
\* a division by zero for 1.
Draws == {d \in 2 .. MaxDraw : currBalance = 0 \/ (currBalance # 1 /\ d <= currBalance)}

-------------------------------------------------------------------------------
(* Frames. *)

\* A call of main or of a handler, with its local variables, and the signals
\* blocked meanwhile.  listed: SIGINT's handler has found its index.
Frame(proc, masked) ==
    [proc |-> proc, masked |-> masked, pc |-> "copy", view |-> {}, temp |-> 0,
     draw |-> None, retry |-> SO_RETRY, listed |-> proc = "int" /\ recorded]

Top == Last(frames)

At(pc) == life = "runs" /\ Top.pc = pc

Become(f) == frames' = Append(Front(frames), f)
Goto(pc)  == Become([Top EXCEPT !.pc = pc])
Return    == frames' = Front(frames)

\* SIGINT's handler never returns: what is below it is never run again.
CallInt == frames' = <<Frame("int", Top.masked \cup {"int"})>>

\* update_status and update_balance on usersPID[get_pid_userIndex(myPID)],
\* which is not the user's entry as long as the pid is not recorded.
SetStatus(s)  == status' = IF recorded THEN s ELSE status
SetBalance(b) == balance' = IF recorded THEN b ELSE balance

-------------------------------------------------------------------------------

\* The master has filled in the user's entry and forked it.
Init ==
    /\ recorded = FALSE
    /\ status = "alive"
    /\ balance = 0
    /\ life = "runs"
    /\ frames = <<Frame("main", {})>>
    /\ currBalance = SO_BUDGET_INIT
    /\ outgoing = <<>>
    /\ transMsg = None
    /\ clock = 1
    /\ message = <<>>
    /\ fate = <<>>
    /\ sigint = FALSE
    /\ signals = 0

\* spawn_user stores the pid after the fork.
Record ==
    /\ ~recorded
    /\ recorded' = TRUE
    /\ UNCHANGED <<status, balance, life, frames, globals, world>>

-------------------------------------------------------------------------------
(* get_balance. *)

\* The local copy of the ledger.
CopyLedger ==
    /\ At("copy")
    /\ Become([Top EXCEPT !.view = Confirmed, !.pc = "walk"])
    /\ UNCHANGED <<entry, life, globals, world>>

\* Mutant: find_and_remove takes the oldest transaction, whichever it is.
StillOutgoingOldest(view) ==
    FoldSet(LAMBDA n, list : IF list = <<>> THEN list ELSE Tail(list), outgoing, Mine(view))

\* find_and_remove for each of the user's transactions in the copy.
StillOutgoing(view) ==
    FoldSet(LAMBDA n, list : RemoveFirst(list, message[n]), outgoing, Mine(view))

\* Mutant: what is outgoing counts as still there.
AccumulateLedgerOnly(view) == Net(view)

\* What the walk over the copy and over the outgoing list adds up to.
Accumulate(view) == Net(view) - CostOf(StillOutgoing(view))

\* The walk, which ends in the balance ...
Walk ==
    /\ At("walk")
    /\ LET accumulate == Accumulate(Top.view)
       IN  /\ -accumulate <= SO_BUDGET_INIT
           /\ Become([Top EXCEPT
                 !.temp = (SO_BUDGET_INIT + accumulate) % Width,
                 !.view = IF Top.proc = "int" THEN @ ELSE {},
                 !.pc = "publish"])
    /\ outgoing' = StillOutgoing(Top.view)
    /\ UNCHANGED <<entry, life, currBalance, transMsg, world>>

\* ... or in the error branch: the user dies of print_outgoing_pool's (FILE *)2
\* before it gets to killpg.
Overflow ==
    /\ At("walk")
    /\ -Accumulate(Top.view) > SO_BUDGET_INIT
    /\ outgoing' = StillOutgoing(Top.view)
    /\ SetStatus("dead")
    /\ life' = "segv"
    /\ UNCHANGED <<recorded, balance, frames, currBalance, transMsg, world>>

\* update_balance.
Publish ==
    /\ At("publish")
    /\ currBalance' = Top.temp
    /\ SetBalance(Top.temp)
    /\ Become([Top EXCEPT !.temp = 0, !.pc = IF Top.proc = "int"
                                             THEN "settle" ELSE "check"])
    /\ UNCHANGED <<recorded, status, life, outgoing, transMsg, world>>

-------------------------------------------------------------------------------
(* One transaction, in main or in the SIGUSR1 handler. *)

\* main's test of the balance ...
CheckInMain ==
    /\ At("check") /\ Top.proc = "main"
    /\ IF currBalance >= 2
       THEN SetStatus("alive") /\ Goto("draw")
       ELSE SetStatus("broke") /\ Goto("copy")
    /\ UNCHANGED <<recorded, balance, life, globals, world>>

\* ... and the handler's.
CheckInHandler ==
    /\ At("check") /\ Top.proc = "usr1"
    /\ IF currBalance >= 2 THEN Goto("draw") ELSE Return
    /\ UNCHANGED <<entry, life, globals, world>>

\* A receiver has been found, which may take for ever, and the amount is drawn;
\* the handler sets the status only now.
Draw ==
    /\ At("draw")
    /\ \E whole \in Draws :
          Become([Top EXCEPT !.pc = "compose", !.draw = Transaction(TRUE, whole, 0)])
    /\ IF Top.proc = "usr1" THEN SetStatus("alive") ELSE UNCHANGED status
    /\ UNCHANGED <<recorded, balance, life, globals, world>>

\* RAND divides by zero.
DivideByZero ==
    /\ At("draw")
    /\ currBalance = 1
    /\ life' = "fpe"
    /\ UNCHANGED <<entry, frames, globals, world>>

\* transaction_init fills the global transMsg.
Compose ==
    /\ At("compose")
    /\ clock <= MaxClock
    /\ transMsg' = [Top.draw EXCEPT !.timestamp = clock]
    /\ clock' = clock + 1
    /\ Become([Top EXCEPT !.pc = "send", !.draw = None])
    /\ UNCHANGED <<entry, life, currBalance, outgoing, message, fate, sigint, signals>>

\* msgsnd finds room for what transMsg now holds ...
Send ==
    /\ At("send")
    /\ message' = Append(message, transMsg)
    /\ fate' = Append(fate, "pending")
    /\ Goto("track")
    /\ UNCHANGED <<entry, life, globals, clock, sigint, signals>>

\* What follows, retry being what is left: give up, by a SIGINT to itself
\* unless that is blocked, or go on.
AfterSend(retry) ==
    /\ IF retry = 0 THEN SetStatus("dead") ELSE UNCHANGED status
    /\ IF retry = 0 /\ "int" \notin Top.masked
       THEN CallInt
       ELSE IF Top.proc = "main"
            THEN Become([Top EXCEPT !.pc = "copy", !.retry = retry])
            ELSE Return

\* Mutant: the balance is a signed number.
SpentSigned(t) == currBalance - Cost(t)

\* currBalance, unsigned, without what t costs.
Spent(t) == (currBalance - Cost(t)) % Width

\* ... and send_transaction takes note of what transMsg holds by then;
Track ==
    /\ At("track")
    /\ currBalance' = Spent(transMsg)
    /\ outgoing' = Append(outgoing, transMsg)
    /\ AfterSend(SO_RETRY)
    /\ UNCHANGED <<recorded, balance, life, transMsg, world>>

\* or the queue is full.
SendFails ==
    /\ At("send")
    /\ AfterSend((Top.retry - 1) % Width)
    /\ UNCHANGED <<recorded, balance, life, globals, world>>

-------------------------------------------------------------------------------
(* SIGINT's handler, after its get_balance. *)

\* Mutant: the test is left out.
MaySettleAlways == TRUE

\* The handler leaves a dead user dead.
MaySettle == status # "dead"

\* Another user is alive or broke.
Settle ==
    /\ At("settle")
    /\ IF MaySettle
       THEN SetStatus(IF balance >= 2 THEN "alive" ELSE "broke")
       ELSE UNCHANGED status
    /\ Goto("refund")
    /\ UNCHANGED <<recorded, balance, life, globals, world>>

\* Mutant: the rewards are forgotten.
RefundOfAmounts == FoldSeq(LAMBDA t, sum : t.amount + sum, 0, outgoing)

\* What the handler adds back for the transactions still outgoing ...
RefundOf == CostOf(outgoing)

\* ... to the entry it has found at its start.
Refund ==
    /\ At("refund")
    /\ balance' = IF Top.listed THEN (balance + RefundOf) % Width ELSE balance
    /\ Goto("exit")
    /\ UNCHANGED <<recorded, status, life, globals, world>>

Exit ==
    /\ At("exit")
    /\ life' = "exited"
    /\ UNCHANGED <<entry, frames, globals, world>>

UserStep ==
    \/ CopyLedger \/ Walk \/ Overflow \/ Publish
    \/ CheckInMain \/ CheckInHandler
    \/ Draw \/ DivideByZero \/ Compose
    \/ Send \/ Track \/ SendFails
    \/ Settle \/ Refund \/ Exit

-------------------------------------------------------------------------------
(* Signals and the environment. *)

\* Somebody sends the user a SIGUSR1, which its handler blocks.
Sigusr1 ==
    /\ life = "runs"
    /\ "usr1" \notin Top.masked
    /\ signals < MaxSignals
    /\ signals' = signals + 1
    /\ frames' = Append(frames, Frame("usr1", Top.masked \cup {"usr1"}))
    /\ UNCHANGED <<entry, life, globals, clock, message, fate, sigint>>

\* SIGINT is sent to the group: alarm, full ledger, CTRL-C, too many dead.
Interrupt ==
    /\ ~sigint
    /\ sigint' = TRUE
    /\ UNCHANGED <<entry, life, frames, globals, clock, message, fate, signals>>

\* Mutant: SIGINT is held back outside the sleep at the loop's end.
TakesSigintAsleep == Top.pc = "copy" /\ "int" \notin Top.masked

\* Only SIGINT's own handler blocks it.
TakesSigint == "int" \notin Top.masked

\* The user takes it.
Sigint ==
    /\ sigint
    /\ life = "runs"
    /\ TakesSigint
    /\ CallInt
    /\ UNCHANGED <<entry, life, globals, world>>

\* Another user pays this one, which concerns it as long as it runs.
Pay ==
    /\ life = "runs"
    /\ Cardinality(Theirs(DOMAIN message)) < MaxPayments
    /\ \E whole \in 2 .. MaxDraw : message' = Append(message, Transaction(FALSE, whole, 0))
    /\ fate' = Append(fate, "pending")
    /\ UNCHANGED <<entry, life, frames, globals, clock, sigint, signals>>

\* A builder confirms a transaction, or a node gives it up.
Decide(n) ==
    /\ fate[n] = "pending"
    /\ \E f \in {"confirmed", "discarded"} : fate' = [fate EXCEPT ![n] = f]
    /\ UNCHANGED <<entry, life, frames, globals, clock, message, sigint, signals>>

\* Another builder writes its block over that of a confirmed transaction.
Overwrite(n) ==
    /\ fate[n] = "confirmed"
    /\ Cardinality(Overwritten) < MaxOverwritten
    /\ fate' = [fate EXCEPT ![n] = "overwritten"]
    /\ UNCHANGED <<entry, life, frames, globals, clock, message, sigint, signals>>

Next ==
    \/ Record \/ UserStep
    \/ Sigusr1 \/ Interrupt \/ Sigint
    \/ Pay
    \/ \E n \in DOMAIN message : Decide(n) \/ Overwrite(n)

Spec == Init /\ [][Next]_vars

\* A signal sent to the user is delivered, and SIGINT's handler, which waits
\* for nothing, is run.  The loop may wait for a receiver, or a queue, for ever.
FairSpec == Spec /\ WF_vars(Sigint) /\ WF_vars(Top.proc = "int" /\ UserStep)

-------------------------------------------------------------------------------

\* Types of the variables.
TypeOK ==
    /\ {recorded, sigint} \subseteq BOOLEAN
    /\ status \in {"alive", "broke", "dead"}
    /\ {balance, currBalance} \subseteq 0 .. Width - 1
    /\ life \in {"runs", "exited", "segv", "fpe"}
    /\ Len(frames) \in 1 .. 2
    /\ clock \in 1 .. MaxClock + 1
    /\ DOMAIN fate = DOMAIN message
    /\ signals \in 0 .. MaxSignals

\* get_balance reaches its error branch, and RAND divides by zero, only for a
\* user that has taken a SIGUSR1 in its loop or that was paid by a transaction
\* the ledger has lost since: what it sends is deducted once, wherever the
\* transaction is and whatever the copy of the ledger shows of it.
InsolventOnlyIfDisturbed ==
    life \in {"segv", "fpe"} => signals > 0 \/ Theirs(Overwritten) # {}

\* A transaction that has not reached the ledger is in the list of outgoing
\* ones, once, from the end of send_transaction on: get_balance, on however
\* old a copy of the ledger, takes out nothing else.
OutgoingKept ==
    \A n \in Mine(DOMAIN message) :
        /\ fate[n] \in {"pending", "discarded"}
        /\ signals = 0
        /\ Top.proc = "main"
        => \/ At("track") /\ transMsg = message[n]
           \/ Cardinality({p \in DOMAIN outgoing : outgoing[p] = message[n]}) = 1

\* The balance user_interrupt_handle leaves behind is the budget and what the
\* ledger it has read says, no more and no less: what it adds back is what
\* get_balance has deducted.
FinalBalance ==
    life = "exited" /\ signals = 0 /\ Top.listed =>
        balance = SO_BUDGET_INIT + Net(Top.view)

\* A user counted as dead stays dead, through SIGINT's handler too, unless a
\* SIGUSR1 revives it.
DeadStaysDead ==
    [][status = "dead" /\ signals' = 0 => status' = "dead"]_vars

\* The user ends once SIGINT is out, even while its loop looks for a
\* receiver that does not exist; a SIGUSR1 taken inside SIGINT's handler could
\* keep it looking for ever.
EndsWhenInterrupted ==
    sigint /\ life = "runs" ~> life # "runs" \/ signals > 0

-------------------------------------------------------------------------------
\* What the repository's own texts say of the users, and the code does not do.

\* "errror in calculating balance, overflow" (users.c:266): an error the user
\* does not make.
NoOverflow == life # "segv"

\* "a questo punto le transazioni nella linked list outGoingTransactions possono
\* essere considerate come scartate" (README.md:114): what a user has added
\* back to its balance does not get into the ledger once it has ended.
RefundedNeverConfirmed ==
    [][life = "exited" =>
          \A n \in Mine(Confirmed' \ Confirmed) : ~Contains(outgoing, message[n])]_vars

===============================================================================
