# A verification of Simulazione-Transazioni

The repository simulates a ledger of transactions with Unix processes: a
*master* forks *nodes* and *users*; users send each other money through the
nodes' message queues; nodes collect transactions and let short-lived children,
the *block builders*, write blocks of them into a *ledger* in shared memory,
from which users read their balances. Everything is C and System V IPC: shared
memory, message queues, semaphore sets, signals.

This directory holds TLA+ models of that program, TLC configurations that check
them on small instances, and proofs, checked by TLAPS, of what holds for every
size of the constants. Paths below are relative to the repository; line numbers
are those of the commit beside this directory.

## 1. The system

### Components

| component | source | state it keeps | operations |
|---|---|---|---|
| semaphore sets | `src/utils/sem.c`, `master.c:280-305` | three sets of **one** semaphore, never given a value | `sem_reserve`, `sem_release`, `sem_set_val` (never called) |
| ledger and block builders | `nodes.c:148-171, 212-244, 369-398` | `ledger[i].transList[j]`, every transaction's status | `new_block`, `insert_block_in_ledger`, `confirm_block`; forked, killed |
| nodes | `nodes.c` | pool, friend list, `flag`, `errno`, index in `nodesPID` | `fill_friendList`, `fetch_messages`, `send_to_random_friend`, `fill_block_transList`, SIGINT |
| node rewards | `nodes.c:253-269`, `master.c:452-495` | `nodesPID[i].balance` | `sum_reward`, block reward in `new_block` |
| master | `master.c` | `nodesPID`, `usersPID`, `nCounter`, parameters | spawning, friend lists, alarm, `start_continuous_print`, SIGINT |
| listener | `master.c:452-495` | `transHopped`, `overBuf` | receive a hopped transaction, spawn an extra node |
| message wrappers | `src/utils/msg.c` | none (but it reads `errno`) | `send_message`, `receive_message`, `message_queue_attach` |
| transaction pool | `src/utils/pool.c` | linked list with head and tail | `add_to_pool`, `remove_from_pool` |
| outgoing list | `src/utils/lklist.c` | linked list with head | `push`, `find_and_remove`, `compare_transactions` |
| users | `users.c` | balance, outgoing list, `retry`, `transMsg`, status | `get_balance`, `send_transaction`, SIGUSR1, SIGINT |
| parser | `parser.c` | the parameters | `parse_parameters` and its normalisation |
| printing | `print.c` | none | balances, three most and least significant, block count |
| shared memory, arguments | `master.c:40-96, 229-278, 308-320` | identifiers | created once, formatted into `argv` |
| debug traces | `src/utils/debug.c` | none | output |

### How they interact

* **Master to node**: fork, then `exec` of `./nodes`; the node's queue is
  created by the child before `exec`; friend messages (`mtype FRIENDS`) follow.
  The pid goes into `nodesPID` *after* the fork.
* **User to node**: a transaction message (`mtype TRANSACTION`), without waiting
  for room.
* **Node to node**: one transaction in `flag` (20) receptions is forwarded to one of
  the first `SO_FRIENDS_NUM` friends, at the cost of a hop; without hops it goes to
  the queue of the node's *parent*, which the listener reads.
* **Node to ledger**: through a forked builder, whose copy of the block is the
  node's memory at the fork.
* **Ledger to user**: users read it, with no synchronisation, up to the first
  index whose reward slot has no timestamp.
* **Signals**: SIGINT (alarm, full ledger, keyboard, too few users) ends
  everything and is inherited by every child; SIGUSR1 makes a user send.

### What is hard

No semaphore call ever reaches a semaphore: each set has one semaphore, number
0, and all calls name number 1. `semop` fails with `EFBIG`, and nobody
looks at its result. So everything that looks protected is not, and what the
program does right it does for other reasons. The rest of the list is in
`PROJECT.json` under `hazards`, each at its line; in outline:

* builders choose an index, write it slot by slot and confirm it, all of it
  interleaved with each other and cut off by SIGINT anywhere;
* a message wrapper decides on an `errno` that an earlier call has left;
* a node runs before its pid is recorded, and reads friends from the same queue
  as transactions;
* a transaction changes hands on five paths, each with a way to fail (no room,
  no queue, no hops, no friend, no fork);
* the listener stops at capacity or after a failed fork, although the master's
  queue stays;
* SIGUSR1 runs a complete second send anywhere in a user's main loop;
* balances are computed from a ledger whose blocks may be overwritten or hidden;
* builders of one node add to one balance, the listener resets it, and the
  handlers of the node and of its builders store over it what they computed;
* the master signals its own process group, itself included, from a handler that
  two signals share; and every child is a copy of the master, handler
  included, until its `exec`, and after it has none until its own `sigaction`;
* the master waits for its children; builders and extra nodes are not among them.

### What makes each component correct

| component | properties |
|---|---|
| ledger | occupied indexes form a prefix; blocks are only appended, until two builders choose the same index; a whole block is hidden or damaged only for stated reasons; nothing stays pending; the end is declared only when full |
| nodes | each transaction in one place until it is in one block or given up; a pool holds less than two batches; a node knows its index and its friends when it starts; it starts, and fetches what it is sent |
| listener | discards only at capacity; reads every transaction sent to it, until it is gone |
| lists | the cells on the list are those allocated; first in, first out; oldest equal removed |
| users | never spend what they do not have; nothing counted twice between ledger and outgoing list; a dead user stays dead |
| rewards | a node's balance is what its builders have added; a reward is lost only where two overlap |
| shutdown | the table is printed once, after the master's children have ended; nothing is removed that somebody's main code still needs; nobody survives; time ends the simulation |
| accounts | the balances in the table sum up to the initial money, unless one of five things has happened |
| printing | the users with the highest balances are shown as such |
| parser | the parameters agree with each other; a divisor of 0 comes from the file only |

## 2. Modules

| module | models | of |
|---|---|---|
| `SemSet` | a semaphore set as the callers use it | `sem.c`, `master.c:280` |
| `Ledger` | ledger and builders | `nodes.c` |
| `LedgerLog` | abstract: an append-only log of blocks, until two builders collide | |
| `Journey` | transactions on their way into the ledger: `TxFate` and `Ledger` together | `nodes.c:147-193, 369-395`, `users.c:237-254` |
| `Fates` | abstract: what users may rely on | |
| `Nodes` | master (spawning), listener, nodes, queues, friends | `nodes.c`, `master.c`, `msg.c` |
| `TxFate` | abstract: what may happen to a transaction | |
| `TransPool`, `OutgoingList` | the two linked lists, on a heap of cells | `pool.c`, `lklist.c` |
| `TxList` | abstract: a list of transactions | |
| `User` | one user, on a stack of frames | `users.c`, `master.c:98` |
| `Master` | the life of all processes, from the first fork to the last exit | `master.c`, handlers of `nodes.c`, `users.c` |
| `Accounts` | balances of users and nodes, on top of `Ledger` | `nodes.c`, `users.c`, `master.c`, `print.c` |
| `Significant` | the search for the three users with the highest balances | `print.c:321-344` |
| `Parameters` | reading and correcting the parameters | `parser.c`, `parser.h` |
| `Parts` | the two lists, `Significant`, `Parameters` and `Journey`, side by side | |
| `LedgerProofs` | theorems on `Ledger`, `LedgerLog`, `Journey` and `Fates` | |
| `AccountsProofs` | theorems on `Accounts` | |
| `NodesProofs`, `MasterProofs`, `UserProofs` | theorems on `Nodes` and `TxFate`, `Master`, `User` and `Fates` | |
| `OutgoingListProofs` | theorems on `OutgoingList` and `TxList` | |
| `PartsProofs` | theorems on `TransPool`, `Significant`, `Parameters`, and on all of `Parts` | |
| `DataLemmas` | what these use of queues, chains of cells, and sums over finite sets | |
| `MCLedger`, `MCNodes`, `MCUser`, `MCMaster`, `MCAccounts`, `MCParts` | the above for TLC, with symmetry sets | |

`Ledger` composes `SemSet`; `Nodes` takes the effect of a failing `semop` on
`errno` from it, and hands batches to builders (the set `blocks`); the pools of
`Nodes` are the sequences `TransPool` implements. `Journey` extends `Ledger` and
composes it with `TxFate`, which `Nodes` implements: the step that makes a batch a
block is the one that forks its builder.
`Accounts` extends `Ledger`, whose actions its own contain whole. `Master` has of
all other processes what their signals and exits need. `User`
has the sequence `OutgoingList` implements, and of `Nodes` and `Ledger` what
they may do to a transaction: confirm it, give it up, or lose it after it was
confirmed (`Decide`, `Overwrite`). That these are neither too many nor too few is
what `Fates` is for:

    Nodes  implements  TxFate
    TxFate and Ledger, composed in Journey, implement  Fates
    the rest of the world in User  is  Fates

Each line is proved, so that what is proved of a user, `InsolventOnlyIfDisturbed`
for one, holds with the nodes and builders that are modelled elsewhere.

### Ledger

`ledger[i][j]` is the builder whose transaction is in slot `j` of index `i`.
A builder's steps are those of the code: `Scan` is one turn of the loop and
its test of `transList[1].sender` (made before `sem_reserve`), `Reserve` and
`Release` the semaphore calls, `Copy` one slot of the structure assignment in
any order, since it is not atomic and has no memory barrier, `Confirm` one
turn of `confirm_block`. `LedgerFull` is the `killpg` after the loop.
`Interrupt` and `Killed` are SIGINT, which a builder handles with its node's
handler, by exiting. The block's contents are the builder's private copy, so
its identity stands for them.

### Journey

A transaction is `pending` until a node takes it out of its pool, with a batch of
others, and forks a builder (`ForkWithBatch`), or gives it up. `carries[b][j]` is
the transaction that builder `b` copies to slot `j` (`new_block` puts the reward
into slot 0 and the batch behind it). `Travel` is everything that users and nodes
do, as `TxFate` has it; `Write` everything that the builders do.

`Places(t)` is where `get_balance` finds transaction `t`: in an index it gets as far as
(`Reached`: the walk stops at the first block without a timestamp), in a slot that
the builder carrying `t` was the last to write. `Fates` promises what a reader of
the ledger wants of this, over time: a transaction is found nowhere, then in one
place, then nowhere for ever. Since `ledger[i] = tmp` is not atomic, builders
collide on an index and SIGINT stops them half way, it is not evident that a
transaction which was visible cannot become pending again (when an index below it
loses its timestamp), or one that was lost reappear (when a slow builder writes over
the one that wrote over it); and were a batch left in the pool, another builder
would write it again.

### Parts

The lists, the ranking, the parser and the journeys have nothing to do with each
other, but each is too small for a run of its own. The variable `part` says which
of them runs.

### Nodes

One action per system call that another process can notice: `CreateQueue`,
`Befriend`, `FetchTransaction`, `FetchFriend`, `Forward` (with its five
outcomes), `Report`, `MakeBlock`; for the master `SpawnInitial`,
`RecordInitial`, then for each node in a second loop `StartFriendLists` or
`SendFriendList`, and `Deliver` for each message; for the listener `Listen` and
`RecordExtra`, with `Deliver` for its messages. Queues carry transactions and
friends in one sequence; `msgrcv` takes the first of the type asked for, and
`Room` is `IPC_NOWAIT`'s test in bytes (64 for a transaction, 16 for a
friend). A friend list is any choice of `SO_FRIENDS_NUM` initial nodes. Every fork
may fail, of a node, of an extra node or of a builder, up to `MaxForkFailures` of
them. Users are the environment: each sends each transaction once.

`Report` stands for the write of `tpSize` between two semaphore calls. It
matters because those calls leave `EFBIG` in `errno`: `receive_message` tests
`errno`, not the result, and would otherwise take the `ENOMSG` of the node's
last look for friends for an answer to its next reception, and lose the
transaction. `NothingLostOnReceive` holds thanks to the failing semaphore, as
its mutant shows.

### Lists

Cells, with `malloc` choosing any free one and `free` leaving the contents of
the cell, which the code then reads once more. The `size` of a pool is kept by
its callers, and is part of `TransPool`. A node's pool and a user's list never
meet.

### User

Users meet only in the ledger and in `usersPID`. The model has one of them; the
others, with nodes and builders, are its environment. Its stack `frames` holds
`main` and the handlers that have interrupted it, each frame with its local
variables and the signals blocked meanwhile (`sigaction` blocks a handler's own
signal, and only that one): SIGUSR1 interrupts `main` and SIGINT's handler,
SIGINT interrupts both others and never returns. The globals `currBalance`,
`outgoing` and `transMsg` are shared by all frames, which is where the
hazards are.

The steps of a frame are those between which another frame, or the environment,
can change what the next one reads: the copy of the ledger (`CopyLedger`), the
walk over copy and list (`Walk`, or `Overflow`), `update_balance` (`Publish`),
the test of the balance, the draw of an amount (`Draw`), `transaction_init`
(`Compose`), `msgsnd` (`Send`, `SendFails`) and the bookkeeping of what `transMsg`
*then* holds (`Track`); in SIGINT's handler `Settle`, `Refund` and `Exit`.
`currBalance` and `balance` are unsigned, and wrap at `Width`. A pid not yet
stored by `spawn_user` (`recorded`) makes `get_pid_userIndex` return -1, and
what is written goes elsewhere; `user_interrupt_handle` looks its index up twice,
which is the local `listed`. Writing to `(FILE *)2` ends the process before it
reaches `killpg`.

`errno == ERANGE` (users.c:273) is never true after what precedes it, and its
branch is left out. So are the choice of a node and its queue, and of a
receiver: both loops read nothing that the properties speak of, and `Draw` may
simply never be taken.

### Master

`pc` is where the master is: in one of `main`'s loops (`Spawn`, `SendFriendList`,
`NextLoop`), at the alarm, at the listener's fork, in a turn of
`start_continuous_print` (`Second`, `WakeUp`), or in its handler (`Kill`, `Wait`,
`PrintTable`, `Remove`). `stack` holds the signals it handles: SIGINT and
SIGALRM have one handler, each blocks only itself, and a nested call exits, so
that nothing interrupted is ever resumed. `Tick` is the kernel's clock; the loop's seconds
start after the alarm's, which is all `Woken` says of real time.

`life` is what each other process is: not forked, `forked` (a copy of the
master, whose handler it runs on SIGINT), `ready` (its program has begun), in the
copy's handler (`copy`, `copied`), in the handler of a user or a node (`handling`),
or `ended`. Users, initial nodes and the listener are the master's children, which
`wait` waits for; extra nodes and builders are not. A `killpg` makes SIGINT `pending`
for all processes alive; each takes it in its own time. What it does then is
`Interrupted`: a copy runs the master's handler; the listener and its extra nodes
end at once; so do users and nodes between their `exec` and their `sigaction`
(users.c:157), and run their own handler after it; builders have that handler from
their birth.

`Calls` are the processes whose *main code* gets on with system calls; a signal
comes before those. The handlers of users and nodes make calls as well
(users.c:206, 234, 345; nodes.c:324), on semaphores that may be gone by then, whose
results nobody looks at; `handling` is the time in which they do.

Left out: the reason that is printed (`termReason`); the messages and balances,
which are in `Nodes` and `Accounts`; and SIGUSR1, which may come inside SIGINT's
handler and send there: if it chooses a node whose queue is gone, `queue_to_pid` spins
with SIGINT blocked, and the master waits for that user for ever. `Ends` is said of
runs without it.

### Accounts

`balance` is the field of that name in `usersPID` and `nodesPID`. `mined` says
whose each builder is and what its transactions are: between two different users,
with one of several rewards. `balance += sum` in `new_block` is `Load` and `Store`, since
the semaphore around it excludes nobody; `Insert` is any step of the builder in
`Ledger`. The handler of nodes.c:305 is `HandlerReads` and `HandlerStores`, for the node
and for each of its builders that SIGINT finds, at work or asleep; both write
the entry of the node, whose pid the builders have in their memory. A user whose
handler is not disturbed ends with the budget plus what the ledger it then sees adds
(`UserEnds`): its outgoing transactions cancel out, as `FinalBalance` of `User`
checks. All other ways to end, or not to begin, are `UserAstray`, which may leave
behind any balance of `Stray`: SIGINT comes before the user is spawned or handles
it, or before the master has stored its pid, so that the handler writes in front of
the array; SIGUSR1 comes inside the handler, which then adds back what was never
deducted; SIGINT comes inside a list operation; or the user dies of a division by
zero or of writing to `(FILE *)2`. `Reset` is the listener's
`nodesPID[nCounter].balance = 0`, always of the first extra node.

`late` becomes true as soon as shared memory changes after somebody computed a
final balance. Nothing is said of the sum in such states, nor in later ones, nor after
a user has gone astray, and `StillExact` keeps TLC from going on from them.

Left out: a failing fork of a builder; wrapping of balances (`User` has it); the
`memcpy` of the ledger, which is one step here (in `Ledger` a copy *into* it is
not). The extra node is there from the start, which only lets `Reset` happen
more often.

### Significant and Parameters

`Significant` is the body of the loop over `usersPID` for the highest balances
(print.c:321-344) in `print_most_significant_processes`. The tests read a balance which
`Shifted` reads again, and in between a user may store another (`Move`). The loop for
the lowest balances is the same with the comparisons turned round. The two over
the nodes are not: the one for the lowest skips entries without a pid, and both keep
the pids they have found from one call to the next. None of the three is modelled.

`Parameters` is `parse_parameters`: `assign_defaults`, one `ReadLine` for each of
the `NUM_PARAMETERS` lines, in any order and with any name, `strtoul`'s range
and the cut to `unsigned int`, then the corrections. With the file missing, the
code returns before the corrections (`NoFile`), and the defaults
satisfy the property as they are. `zeroed` is not in the program: it remembers of which
of the two `Divisors` the last line left 0, since zeros, given or left by the cut, pass the
parser and `RAND` divides by them (nodes.c:100, users.c:76). `Admissible` says that
the parameters agree with each other, and that a divisor is 0 exactly if the file
has brought it about.

## 3. Runs

All runs finish within three minutes, most within one. `MaxInFlight`,
`MaxForkFailures`, `ForwardEvery`, `QueueBytes`, `Cell`, `MaxMoves`, `MaxBalance`,
`Number`, `NUM_PARAMETERS`, `Stray`, `Width` and `SimSec` are bounds or stand for larger
numbers in the code; the others are parameters of the simulation.

| run | instance | shows |
|---|---|---|
| `ledger` | 3 builders, 2 indexes, blocks of 2, all interleavings and interrupts | the inductive invariant and the properties of the ledger, an append-only log (`LedgerLog`) until two builders collide among them |
| `ledger_lost` | 2 builders | **violated**: a confirmed block is overwritten |
| `nodes` | 2 initial and 2 extra nodes, 3 transactions of 1 hop, room for two transactions and a friend in a queue, one fork fails | where a transaction may be; what a node relies on; the inductive invariant `NodesInv`; refinement of `TxFate` |
| `nodes_live` | as before with 2 transactions | liveness: nodes start, fetch, and what hops too often reaches the listener |
| `nodes_hopped` | 1 initial node, no hops | **violated**: the listener drops the transaction it spawns a node for |
| `nodes_parent` | 1 initial node, no hops | **violated**: an extra node's hopped transactions do not reach the master |
| `parts` | lists: 3 cells, 3 transactions; ranking: 5 balances up to 4, one change; parser: 4 lines; journeys: 3 transactions, 3 builders at work at once, 2 indexes, blocks of 2 | the lists implement `TxList` and own their cells; the first two ranks are right; the parameters agree with each other, and are divisors of 0 only by the file; `get_balance` finds what `Fates` promises |
| `master` | 2 users, 1 initial and 1 extra node, 1 builder, `SO_SIM_SEC` 0 or 2 | shutdown, however it begins and wherever it finds each process; the inductive invariant `MasterInv` |
| `accounts` | 2 users, 1 initial and 1 extra node, 2 builders, 2 indexes, blocks of 2, a user astray leaves 0 or 13 | the balances in the final table, and those of nodes before it |
| `user` | budget 3, draws of 2 with a reward of 50%, `SO_RETRY` 2, 2 transactions of its own, 1 payment, 1 SIGUSR1, 1 block lost | the user's accounts, and its end |
| `user_overflow` | as before, 3 transactions, no payment, no block lost | **violated**: SIGUSR1 makes a user spend what it does not have |
| `user_refund` | as before, 2 transactions, no SIGUSR1 | **violated**: a transaction is confirmed after its sender has added it back |

Why the bounds are enough. The ledger's hazards are between builders in pairs:
two collide on an index, and a third looks past them; two indexes have a first and a
last; a block of two slots has the slot readers test (0) and the slot writers
test (1), and the proofs cover all other sizes. For nodes, two initial nodes
can be each other's friend or their own, two extra nodes are the capacity
(the second shows that `nCounter` is never advanced, and the third attempt
ends the listener), a batch of two is the least that is not a single
transaction, three transactions give a batch and one besides, and 144 bytes
make a queue run full both of friends and of transactions. `ForwardEvery = 1`
makes every second call a forward: the code's 20 is the same counter. For
the lists, three cells make a head, a middle and a tail, and a list of three can
be emptied and filled again with cells in another order; the transactions
make equal and unequal neighbours. A journey has three builders, of which two may
meet at an index while the third meets them, has passed it or comes after; with blocks of two a
batch is a single transaction, and larger ones are the proof's. A ranking of five fills three ranks and
displaces each of them. Four lines can set both sides of a comparison and
repeat a name, and the numbers lie on both sides of every default, of 100 and of
`Width`, with a 0, one that is cut to 0 and one that is cut to 2. In `master` one process of each kind can be anywhere in its life when
a signal comes, two users are the fewest of which one may die without ending the
simulation at once, and two seconds let the loop go round once before the alarm.
In `accounts` two builders may belong to one node or to two, meet at one
index or not, and one may still be at work when the others have ended; a user astray leaves
less or more than any other can. For the user, a budget of 3 leaves a
balance of 1 after one transaction (the value `RAND` cannot divide by), a
payment adds 1 and makes a second one possible, which then depends on the
payment, and the lost block takes that back; one SIGUSR1 makes a stack of two
frames, and 32 is above every sum of the instance, as `UserAssumption`
requires of the 2^32 it stands for.

Fairness. `ledger`: a forked builder is an ordinary process and keeps
being scheduled (weak fairness of its own steps; a fork is not assumed).
`nodes_live`: the same for the master with its listener and for every node.
Users need never send. `WF` is enough, because every wait of the code is for a
condition that only the waiting process can end (a message it takes, room it
fills). `master`: all processes are scheduled, also those that a fork
has only just made, and time passes; nobody has to press CTRL-C, give up, fork a
builder or fill the ledger. `user`: a signal that is sent is delivered, and the steps of
SIGINT's handler, which waits for nothing, are taken (`FairSpec`). Nothing is
assumed of the main loop or of SIGUSR1's handler: both may look for a receiver
for ever.

Deadlock is not checked: builders, users, the master, the parser and the ranking
end, and nodes wait for messages for ever.

### What disagrees with the texts

* `ledger_lost`: the semaphore of README.md:78 and sem.h:47 excludes nobody,
  and the test for a free index is made before it anyway. A block that was
  confirmed disappears, and two blocks may be mixed in one index for good. Up to that
  moment the ledger is the log it should be (`AppendsUntilCollision`), so that this
  race is all a semaphore would have to exclude, the test included.
* `nodes_hopped`, `nodes_parent`: README.md:46 and 56. Also against README.md:46,
  the listener exits at its limit, or when a fork of its own fails, and what is sent to the
  master afterwards stays in its queue: `HoppedReceived` holds only with
  that exception.
* `user_overflow`: a SIGUSR1 between the main loop's draw and its bookkeeping runs a
  second send on the same balance, against README.md:69; if it falls between
  `transaction_init` and the end of `send_transaction`, the handler's
  transaction is also noted twice, or sent twice. `InsolventOnlyIfDisturbed`
  shows that only this and a lost block lead there.
* `user_refund`: README.md:114 counts outgoing transactions as discarded at the
  end. Those in nodes and builders may still be confirmed, and count twice.
* `nodes.c:54` (and footnote 2 of README.md:111) fears a deadlock with two friend
  messages in front of a transaction. `Fetched` shows there is none: `msgrcv`
  selects by type, and friend messages only occupy room.
* README.md:55-56: a node enlarges its friend list to make room for a new node,
  and sends a transaction to a friend chosen at random. It never chooses a new one: nodes.c:100
  draws among the first `SO_FRIENDS_NUM`, and announced friends come after those. So
  an extra node, which is spawned because the others do not get through with what they
  are sent, never gets any of that; only users send to it. This is proved
  (`ExtraNodesFedByUsers`, from a conjunct of `NodesInv`). It also hides that
  `master.c:490` announces `nodesPID[nCounter]` with `nCounter` still `SO_NODES_NUM`,
  so that every extra node after the first is announced under the first one's pid.
* `accounts`: README.md:107 says that the total balance at the end is slightly
  different, and suspects rounding or the formula for the nodes. The same whole
  numbers are taken and given; `TotalConserved` names what it is: builders
  that are still at work or collide, blocks cut short, an extra node for which
  nobody waits, and users that end before their handler is there for them, or in
  the middle of something else.
* `master.c:467` resets SIGINT in the listener, "else it would print ledger and
  all twice". It may still, if the signal comes before that line; and so may a
  node or a user that is signalled before its `exec`. `TableOnce` is about the master's own
  table. Such a copy also removes queue and semaphores, while handlers of others may
  still call the semaphores, as they may after the master has removed them; the calls
  fail then, which they do anyway. `QueueOutlivesUse` shows that nobody's main code
  is left without them, so that no message is lost and no node spawned for want of the
  queue.
* With `SO_SIM_SEC` 0, or without a listener, `main` returns and leaves
  everybody running (`NobodyLeft` excludes just these).
* `print.c:325` (and 271, over the nodes): a new first drops the second from the three. The first two
  ranks are right (`FirstTwoRight`), the third may be too low. Nodes' pids are kept
  from call to call while their balances start anew, so that a rank nobody takes
  still shows an old pid.

## 4. Proofs

All proofs hold for every value of the constants that satisfies the assumption of
the module (`LedgerAssumption`, `NodesAssumption`, ...), which TLC evaluates on each
run. `PROJECT.json` lists the theorems with the properties they state. Each section is the
argument: which invariant is inductive, and why the property alone is not.

### The ledger (`LedgerProofs`)

`LedgerAssumption`: a block has at least two slots, the ledger at least one index,
`Empty` is no builder. The properties of the run `ledger` follow from `IInv`,
whose argument runs through *who wrote what*:

* `PassedOccupied`: a scan has passed only occupied indexes. With
  `SlotHasWriter` (what is in a slot was put there by a builder that had chosen
  that index and copied that slot) this gives `NoHoles`: an occupied index has a
  writer, whose scan passed all lower ones.
* `CopiedNotEmpty`: a copied slot may be overwritten but never blank again, which
  keeps `PassedOccupied` through other builders' copies. With the writer above
  it gives `GapOnlyWhileCopying` and `LostOnlyByCollision`.
* `PendingHasConfirmer`: a pending slot has a builder that has not yet
  confirmed it. A copy makes the slot pending again, but the copier confirms
  later; so at rest none is left.
* `ScanEnd`: a builder that will write has a real index, and one that declared
  the ledger full has scanned all of it.

`IInv` is also an invariant of the run `ledger`, so TLC evaluates what is proved.

`AppendsToTheLog` maps every step to an append or a stutter of `LedgerLog`, whatever
the number of builders at work, as long as no two have chosen the same index. The log
is the occupied prefix, read by the slot the scan tests; the step that appends is the
copy of that slot. Without a collision nobody else has written to the builder's index, so
it is blank there before the step and nowhere below (`PassedOccupied`); and no builder
is in the log twice, since a slot tells the one index its writer has chosen
(`SlotHasWriter`).

### Journeys (`LedgerProofs`, last part)

Every step of `Journey` is one of `Ledger` or leaves it alone, and one of `TxFate`
or leaves that alone (`JourneyIsBoth`). So `IInv` holds, and what has to be added is
little: `CarriedOnce` says that a transaction is pending, given up, or with the
builders, and in that case behind one slot of one builder. It is inductive because
a batch comes out of `pending` and has no transaction twice.

With it, what becomes of a carried transaction can be read off its slot
(`FatesBySlot`). By `SlotHasWriter`, a builder found in a slot has copied it and had
chosen that index, so `t` can be nowhere but where its builder has written it. Then

* a transaction that is found stays found or is written over (`FoundKept`): no slot is
  ever blank again, slot 0 of the indexes below included, so that the walk gets at
  least as far as before (`ReachedKept`), and the builder's choice stands;
* one that is written over stays so (`OverwrittenKept`): a builder copies each slot
  once, and only to the index it has chosen;
* one that a builder has just been forked with is not yet copied, hence pending.

This is `JourneyImplementsFates`, for any number of builders at work at the same time.

### Balances (`AccountsProofs`)

`AccountsAssumption` adds that users, nodes and builders are finite, disjoint
sets. Every step of `Accounts` is one of `Ledger` or leaves it alone
(`AccountsKeepLedger`), so `IInv` holds. On top of it:

* `AddedUp`: as long as nobody has read a final balance and no two builders of
  a node have loaded the same balance, the node's balance is the sum of what
  builders have stored, *and every builder between load and store holds just
  this balance*. The second half makes it inductive: if two were between load
  and store, they would hold the same. It gives `RewardLostOnlyByOverlap`.
* `Exact`: until shared memory changes after a look at it, every final
  balance that was read or stored is what the ledger still says. A user astray
  has none.

`TotalConserved` then is a statement about one ledger (`GainsAreLosses`): without
collision and half-written block each visible index is one whole block, all of
them are seen (`WholeBlocks`, from `IInv`), and the sum over users of what
each finds equals the negated sum over nodes. That exchange of sums
(`TotalSwap`, `TotalGroups`) is in `DataLemmas`.

### Nodes (`NodesProofs`)

`NodesInv` is an invariant of the run `nodes` too. Its parts carry each other:

* `SpawnOrder`, `BeforeMainLoop`: where the master's loops are and what a node
  has so far; without them a node could be spawned twice.
* `LoopState`, with `NothingLostOnReceive`: `ENOMSG` is only left in `errno` until
  `Report`, whose failing `semop` replaces it.
* `BatchAtOnce`, `PoolBelowBatch`: a full batch is made a block before
  anything else is fetched, so a pool never gets near `SO_TP_SIZE`.
* `MailForRecorded`, `ListBeforeNews`, `ListComplete`: what friends are in a
  queue, in which order, and how many are still to come. They give
  `FriendsReady` and, with the order of messages, `ExtraFedByUsers`: what an extra
  node is sent has all its hops left, since nobody has forwarded it.
* `OneOwner`: a transaction is once in one queue, pool, batch or list of the
  dropped. It gives `OnePlace`, and with it each step maps to a step of `TxFate` or to
  a stutter (`NodesImplementTxFate`).

### The master (`MasterProofs`)

`MasterInv` is an invariant of the run `master`. `SignalledFromKill`
says that once a handler has called `killpg` everybody alive has been signalled, or is in the
handler for it, and nobody is left to fork; it gives `NobodyLeft` and
`QueueOutlivesUse`. `NoChildReturns`
gives `ChildrenFirst`. `TableOnce` needs `PrintsUnderSigint`: the master has
signalled itself, so that SIGALRM's handler is interrupted before it can wait
or print. `AlarmAhead` is why the loop cannot end before the alarm, and
`ListenerLast` why nobody is forked after the listener.

### A user (`UserProofs`)

`UserAssumption` takes `Width`, 2^32 in the program, to be larger than
the budget and all payments to the user together. `UserInv` has three parts:

* `UserType`: types, and the stack: `main` or SIGINT's handler, with at most one
  frame of SIGUSR1's handler above it.
* `Quiet`, while no SIGUSR1 has been taken: no two of the user's transactions are
  equal (`Distinct`, `Sending`), and each that is not in the ledger is in the
  list or about to be (`Kept`). `Copied` speaks of a ledger that is
  copied but not yet walked: whatever was confirmed since is still in the list, so
  that a walk deducts each transaction exactly once. `Settling` is what SIGINT's handler has computed at
  each of its steps. They give `OutgoingKept`, `FinalBalance` and `DeadStaysDead`.
* `Solvent`, while no payment has been lost either: the sums the user
  has in mind, in `balance`, `currBalance` or the draw, are at most what it
  has left (`Rest`), and a walk finds no less than 0 (`Worth`). It
  gives `InsolventOnlyIfDisturbed`: the subtraction in `get_balance` cannot wrap.

The environment of the user, read as what becomes of its messages (`WorldFate`, in
which a transaction given up and one written over are both lost), implements `Fates`
(`WorldMeetsFates`); and whatever turn `Fates` allows a message, there is a step of
the user's environment with just that turn (`EveryTurnIsModelled`), as long as
the bound on overwritten transactions is not used up. If several turn in one step of a
builder, the model has one step for each, before the user goes on. So nothing that
`Journey` can do to a user is missing in `User`.

### Lists, ranking, parser (`PartsProofs`)

There is a path from head to null (for the pool, ending at tail) through exactly the
allocated cells (`Chain`). What `Walk` returns is then the path (`ChainWalk`), and
every step appends, removes the first, or removes the first equal one: `PoolIsFifo`
and, in `OutgoingListProofs`, `ListTakesOldest`. `MemoryOK` assumes for the list that
memory is finite and that `Null` is no cell, as `TransPoolAssumption` does for the pool.

`RanksInv` says of the entries passed so far that none is above
the first rank, and that only the first is above the second. Nothing like it holds of the third,
which is the defect at `print.c:325`. `RanksAssumption`: length and
balances are natural numbers. `ConfInv`: until the corrections the parameters are numbers
of their type, and a divisor is 0 exactly if `zeroed` has it; after them they are
`Admissible`. A correction can only carry a 0 from the nodes to the friends.
`ConfAssumption` names the parameters the corrections speak of and says that the
*defaults* agree with each other and have no divisor of 0, as the real ones do
(`parser.c:7-22`, with `SO_BLOCK_SIZE` 10 in `common.h:48`).

### Side by side (`PartsProofs`, last part)

A step of `Parts` is a step of one part (`PartSteps`), so a run of `Parts` is a run of
each (`PartsRun`). The theorems on the user's list and on journeys are instantiated for the
variables they have there (`List`, `Road`), once the assumptions of these modules are
shown to follow from those of `Parts`. So every property of the run `parts` is a
theorem about any memory, table, file and ledger, and any number of builders.

### Sums, and what stays with TLC

`MapThenSumSet` is a recursive function over subsets, which picks its elements by
CHOOSE. `DataLemmas` proves that such a function exists for every finite set
(`FoldExists`), that the order does not matter (`SumsAdd`), and from this what sums need:
union, images, groups, bounds. Induction is done over a set of natural
numbers or of subsets (`SetInduction`, `RemovalInduction`), which needs no
operator as a parameter. `Total`, the sum the invariants are written with, is a CHOOSE over
functions that TLC cannot evaluate: this is why `UserInv` and `AccountsInv` are
in no configuration. They hold on the instances of `user` and `accounts` with
`Total` read as `MapThenSumSet`, and `NetIsTotal` and `SumsAreTotals` prove the
two equal.

Only model-checked: liveness under fairness (`BuilderTerminates`, `NodeStarts`, `Fetched`,
`HoppedReceived`, `EndsWhenInterrupted`, `Ends`). All other properties of
passing runs are proved.

## 5. Not modelled, and why

* `malloc` returning NULL; `realloc` for one friend too few at `nodes.c:74`
  (the allocator rounds up); friend arrays of `SO_FRIENDS_NUM` *bytes*
  (`make_friend_list`), enough for up to 6 friends: `Nodes` assumes so.
* What becomes of the programs with parameters the parser should not let through.
  `SO_FRIENDS_NUM` 0 (which `NodesAssumption` excludes) ends a node in `RAND` at its
  first forward, `SO_NODES_NUM` 0, or 2^31, which doubles to 0, a user at its first draw
  of a node; a sleep between 0 and the largest `unsigned long` has a range of 0,
  too. `Admissible` says where zeros come from, and nothing of the other two.
* Blocks whose slots are torn within a word; a slot is written whole.
* A failing `msgget` for the master's queue; other IPC limits.
* SIGINT in `Nodes`: what it does is in `Master`, and what it leaves half done
  in `Ledger` and `Accounts`.
* A `conf.txt` with fewer than `NUM_PARAMETERS` lines, after which the parser
  reads what it has not written.
* The loops of `print_most_significant_processes` for the lowest balances, and those
  over the nodes.
* `print_num_blocks` shows 1 for an empty ledger, `print_ledger` takes a
  nanosecond count of zero for no timestamp, and `print_user_nodes_table` stops
  at the first node whose fork failed: wording and layout, read by nobody but
  the terminal. The node's own display of its balance (nodes.c:316) may be stale.
* Creation of the shared segments and their ids in `argv`: done once, before
  there is another process.
* In `User`: signals inside a list operation, inside the filling of `transMsg`
  or before the handlers are installed (for `Accounts`, a user that ends so is
  astray); a SIGUSR1 in SIGINT's handler that finds its node gone, and spins. A transaction in a block that an
  interrupted copy hides (see `Ledger`) is one that stays pending.
* Formatting, files, terminal, debug output.

## 6. Plan

Done: all modules of the table, and proofs of every safety property, action
property and refinement the passing runs check; and of the way of a transaction
from a user through nodes and builders to what users read. What is left:

1. The hazards without a property (`PROJECT.json`, each with its reason): a retry
   count that wraps, `queue_to_pid` after a node has gone, signals inside a list operation,
   announced friends, the third rank.
2. `Nodes` and `Journey` meet in `TxFate`, `Journey` and `User` in `Fates`. One
   module over all of them would let TLC run the whole, on instances
   too small to say more than these theorems do.
