-------------------------------- MODULE Master ---------------------------------
(***************************************************************************)
(* The life of the simulation (master.c): the master forks nodes, users    *)
(* and the listener, sets an alarm, counts the seconds, and ends           *)
(* everything with a SIGINT to the process group, to which it belongs      *)
(* itself.  Alarm, keyboard, a full ledger and too many dead users lead to *)
(* the same handler, which may be interrupted by itself.                   *)
(*                                                                         *)
(* A forked process is a copy of the master, handlers included, until it   *)
(* execs; then SIGINT ends it at once until it has installed a handler of  *)
(* its own.  The kernel adds a SIGINT to every process of the group in one *)
(* step (killpg holds the lock a fork needs), each process takes it later, *)
(* and a fork whose caller has a signal pending is restarted after it.     *)
(* The handlers of users, nodes and builders call the semaphores, too.     *)
(* What nodes and users do meanwhile is in Nodes, Ledger and User.         *)
(***************************************************************************)
EXTENDS Integers, FiniteSets, Sequences

CONSTANTS
    User, Node,        \* the users and the initial nodes
    Extra,             \* the nodes the listener may spawn
    Builder,           \* the block builders the nodes may fork
    Listener, Master,  \* two more processes
    SimSec             \* bound: the values SO_SIM_SEC may have

ASSUME MasterAssumption ==
    /\ IsFiniteSet(User) /\ User # {}
    /\ SimSec \subseteq Nat
    /\ User \cap Node = {} /\ Extra \cap Builder = {}
    /\ (User \cup Node) \cap (Extra \cup Builder) = {}
    /\ Listener # Master
    /\ {Listener, Master} \cap (User \cup Node \cup Extra \cup Builder) = {}

VARIABLES
    pc,         \* where the master is, in main or in its handler
    todo,       \* the children main's current loop has still to deal with
    stack,      \* the signals whose handlers it is in, the latest last
    simSec,     \* SO_SIM_SEC
    time,       \* the seconds start_continuous_print has left
    alarm,      \* the seconds until SIGALRM, 0 if none is to come
    due,        \* is SIGALRM pending?
    life,       \* what each process is
    pending,    \* the processes with a SIGINT pending
    dead,       \* the users whose status is dead
    tables,     \* how often the master has printed the final table
    queue       \* do the master's queue and the semaphores exist?

vars == <<pc, todo, stack, simSec, time, alarm, due, life, pending, dead,
          tables, queue>>

clock   == <<time, alarm, due>>
outcome == <<dead, tables, queue>>

Child   == User \cup Node \cup {Listener}
Process == Child \cup Extra \cup Builder

Alive    == {p \in Process : life[p] \notin {"none", "ended"}}
Finished == pc \in {"exited", "returned"}

\* Processes in a handler, which ends them.
Ending(p) == life[p] \in {"copy", "copied", "handling"}

\* What killpg(0, SIGINT) makes pending.  Whoever is in the handler blocks the
\* signal until it exits.
Signalled ==
    pending \cup {p \in Alive : ~Ending(p)} \cup (IF Finished THEN {} ELSE {Master})

\* A process whose main code executes system calls, unlike that of one which
\* has a signal to take, or is in the handler for it.
Calls(p) == life[p] = "ready" /\ p \notin pending

MasterInterrupted ==
    \/ Master \in pending /\ "int" \notin {stack[k] : k \in DOMAIN stack}
    \/ due /\ "alrm" \notin {stack[k] : k \in DOMAIN stack}

\* The master's own steps are system calls, which signals come before.
At(place) == pc = place /\ ~MasterInterrupted

Init ==
    /\ pc = "nodes" /\ todo = Node
    /\ stack = <<>>
    /\ simSec \in SimSec
    /\ time = simSec /\ alarm = 0 /\ due = FALSE
    /\ life = [p \in Process |-> "none"]
    /\ pending = {}
    /\ dead = {} /\ tables = 0 /\ queue = TRUE

-------------------------------------------------------------------------------
(* main. *)

\* fork returns a child, or fails.
Fork(p, state) == life' = life \/ life' = [life EXCEPT ![p] = state]

\* The loops go by the order of the arrays.
NextOf(S) == IF S = {} THEN Master ELSE CHOOSE p \in S : TRUE

\* One turn of the loop that spawns the nodes, or of the one for the users.
Spawn(p) ==
    /\ At("nodes") \/ At("users")
    /\ p = NextOf(todo)
    /\ Fork(p, "forked")
    /\ todo' = todo \ {p}
    /\ UNCHANGED <<pc, stack, simSec, clock, pending, outcome>>

\* send_friend_list, which waits for the queue a node creates before its exec.
SendFriendList(p) ==
    /\ At("mail")
    /\ p = NextOf(todo) /\ life[p] # "forked"
    /\ todo' = todo \ {p}
    /\ UNCHANGED <<pc, stack, simSec, clock, life, pending, outcome>>

\* The end of one of these loops.
NextLoop ==
    /\ todo = {}
    /\ \/ At("nodes") /\ pc' = "mail" /\ todo' = Node
       \/ At("mail") /\ pc' = "users" /\ todo' = User
       \/ At("users") /\ pc' = "alarm" /\ UNCHANGED todo
    /\ UNCHANGED <<stack, simSec, clock, life, pending, outcome>>

\* alarm(0) sets none.
SetAlarm ==
    /\ At("alarm")
    /\ alarm' = simSec
    /\ pc' = "fork"
    /\ UNCHANGED <<todo, stack, simSec, time, due, life, pending, outcome>>

\* Without a listener, main returns.
ForkListener ==
    /\ At("fork")
    /\ Fork(Listener, "forked")
    /\ pc' = IF life' = life THEN "returned" ELSE "loop"
    /\ UNCHANGED <<todo, stack, simSec, clock, pending, outcome>>

\* The loop of start_continuous_print ends the simulation for dead users.
EnoughDead == Cardinality(dead) >= Cardinality(User) - 1

\* One turn of it, up to its sleep(1) ...
Second ==
    /\ At("loop") /\ time > 0
    /\ pending' = IF EnoughDead THEN Signalled ELSE pending
    /\ pc' = "sleep"
    /\ UNCHANGED <<todo, stack, simSec, clock, life, outcome>>

\* Mutant: the alarm is set after the loop's first second.
WokenAtOnce == TRUE

\* ... which takes a second of real time: the alarm was set earlier.
Woken == alarm < time

WakeUp ==
    /\ At("sleep")
    /\ Woken
    /\ time' = time - 1
    /\ pc' = "loop"
    /\ UNCHANGED <<todo, stack, simSec, alarm, due, life, pending, outcome>>

\* The loop has run out of time, and main returns.
Return ==
    /\ At("loop") /\ time = 0
    /\ pc' = "returned"
    /\ UNCHANGED <<todo, stack, simSec, clock, life, pending, outcome>>

-------------------------------------------------------------------------------
(* master_interrupt_handle, of which a nested call never returns: what it  *)
(* interrupts is never resumed.                                            *)

TakeSigint ==
    /\ ~Finished
    /\ Master \in pending /\ "int" \notin {stack[k] : k \in DOMAIN stack}
    /\ stack' = Append(stack, "int")
    /\ pending' = pending \ {Master}
    /\ pc' = "kill"
    /\ UNCHANGED <<todo, simSec, clock, life, outcome>>

TakeSigalrm ==
    /\ ~Finished
    /\ due /\ "alrm" \notin {stack[k] : k \in DOMAIN stack}
    /\ stack' = Append(stack, "alrm")
    /\ due' = FALSE
    /\ pc' = "kill"
    /\ UNCHANGED <<todo, simSec, time, alarm, life, pending, outcome>>

\* Mutant: the signal goes to the children only.
SignalledOthers == pending \cup Alive

\* Mutant: the signal goes to the children the master knows, not to the group.
SignalledChildren == pending \cup (Child \cap Alive)

\* Whom the handler's killpg reaches, the master itself included.
SignalledByHandler == Signalled

Kill ==
    /\ At("kill")
    /\ pending' = SignalledByHandler
    /\ pc' = "wait"
    /\ UNCHANGED <<todo, stack, simSec, clock, life, outcome>>

\* Mutant: one wait is made, for whichever child ends first.
NoChildLeftOnce == ~(Child \subseteq Alive)

\* wait has no child left to wait for.
NoChildLeft == Child \cap Alive = {}

Wait ==
    /\ At("wait")
    /\ NoChildLeft
    /\ pc' = "print"
    /\ UNCHANGED <<todo, stack, simSec, clock, life, pending, outcome>>

\* The table, the dead, the blocks and the ledger.
PrintTable ==
    /\ At("print")
    /\ tables' = tables + 1
    /\ pc' = "remove"
    /\ UNCHANGED <<todo, stack, simSec, clock, life, pending, dead, queue>>

Remove ==
    /\ At("remove")
    /\ queue' = FALSE
    /\ pc' = "exited"
    /\ UNCHANGED <<todo, stack, simSec, clock, life, pending, dead, tables>>

MasterStep ==
    \/ \E p \in Process : Spawn(p) \/ SendFriendList(p)
    \/ NextLoop \/ SetAlarm \/ ForkListener
    \/ Second \/ WakeUp \/ Return
    \/ TakeSigint \/ TakeSigalrm \/ Kill \/ Wait \/ PrintTable \/ Remove

-------------------------------------------------------------------------------
(* The other processes. *)

\* A process moves on to the next stage of its life.
Becomes(p, from, to) == life[p] = from /\ life' = [life EXCEPT ![p] = to]

\* A node (its queue created) or a user execs, which resets the handlers, or
\* the listener resets the one it was born with.
Start(p) ==
    /\ Becomes(p, "forked", "ready")
    /\ UNCHANGED <<pc, todo, stack, simSec, clock, pending, outcome>>

\* What SIGINT may make of p.  A copy runs the master's handler, and an extra
\* node has the default action of the listener from its birth, as the listener
\* has.  Users and nodes have it, too, until they install a handler of their
\* own; builders have their node's from their birth.
Interrupted(p) ==
    CASE life[p] = "forked" -> IF p \in Child THEN {"copy"} ELSE {"ended"}
      [] p = Listener       -> {"ended"}
      [] p \in Builder      -> {"handling"}
      [] OTHER              -> {"handling", "ended"}

Take(p) ==
    /\ p \in pending
    /\ life[p] \in {"forked", "ready"}
    /\ \E to \in Interrupted(p) : life' = [life EXCEPT ![p] = to]
    /\ pending' = pending \ {p}
    /\ UNCHANGED <<pc, todo, stack, simSec, clock, outcome>>

\* The handler of a user, a node or a builder has made its calls, and exits.
HandlerExits(p) ==
    /\ Becomes(p, "handling", "ended")
    /\ UNCHANGED <<pc, todo, stack, simSec, clock, pending, outcome>>

\* A builder has done its block; a signal it has not taken goes with it.
End(p) ==
    /\ p \in Builder /\ Becomes(p, "ready", "ended")
    /\ pending' = pending \ {p}
    /\ UNCHANGED <<pc, todo, stack, simSec, clock, outcome>>

\* The copy's killpg ...
CopyKills(p) ==
    /\ Becomes(p, "copy", "copied")
    /\ pending' = Signalled
    /\ UNCHANGED <<pc, todo, stack, simSec, clock, outcome>>

\* ... after which it has no children to wait for, prints, removes and exits.
CopyPrints(p) ==
    /\ Becomes(p, "copied", "ended")
    /\ queue' = FALSE
    /\ UNCHANGED <<pc, todo, stack, simSec, clock, pending, dead, tables>>

\* A user has run out of retries: its status, and a SIGINT to itself.
GiveUp(p) ==
    /\ p \in User /\ Calls(p)
    /\ dead' = dead \cup {p}
    /\ pending' = pending \cup {p}
    /\ UNCHANGED <<pc, todo, stack, simSec, clock, life, tables, queue>>

\* The listener spawns an extra node, or a node forks a builder, which has
\* the node's handler from its birth.
ForkOrphan(p) ==
    /\ life[p] = "none"
    /\ \/ p \in Extra /\ Calls(Listener) /\ life' = [life EXCEPT ![p] = "forked"]
       \/ /\ p \in Builder
          /\ \E n \in Node \cup Extra : Calls(n)
          /\ life' = [life EXCEPT ![p] = "ready"]
    /\ UNCHANGED <<pc, todo, stack, simSec, clock, pending, outcome>>

\* A builder finds the ledger full: killpg.
LedgerFull(p) ==
    /\ p \in Builder /\ Calls(p)
    /\ pending' = Signalled
    /\ UNCHANGED <<pc, todo, stack, simSec, clock, life, outcome>>

\* CTRL-C, for all that are in the foreground.
Keyboard ==
    /\ ~Finished /\ Master \notin pending
    /\ pending' = Signalled
    /\ UNCHANGED <<pc, todo, stack, simSec, clock, life, outcome>>

\* A second passes.
Tick ==
    /\ alarm > 0 /\ ~Finished
    /\ alarm' = alarm - 1
    /\ due' = (alarm = 1)
    /\ UNCHANGED <<pc, todo, stack, simSec, time, life, pending, outcome>>

\* What a process does without waiting for others.
Proceed(p) ==
    \/ Start(p) \/ Take(p) \/ HandlerExits(p) \/ End(p)
    \/ CopyKills(p) \/ CopyPrints(p)

Next ==
    \/ MasterStep \/ Keyboard \/ Tick
    \/ \E p \in Process :
          Proceed(p) \/ GiveUp(p) \/ ForkOrphan(p) \/ LedgerFull(p)

Spec == Init /\ [][Next]_vars

\* Processes are scheduled, and time passes: as long as the master, the clock or
\* some process can go on, one of them does.  Nobody has to press CTRL-C.
FairSpec == Spec /\ WF_vars(MasterStep \/ Tick \/ \E p \in Process : Proceed(p))

-------------------------------------------------------------------------------

\* The master prints its table only after every child it forked has ended,
\* whichever signals interrupt one another: no handler of a user or of an
\* initial node changes a balance any more (those of builders may).
ChildrenFirst ==
    tables > 0 => Child \cap Alive = {}

\* Nobody is left running without a master: when it exits, whoever is alive
\* has been signalled, however late it was forked, or is in the handler that
\* ends it; and it leaves main otherwise
\* only with SO_SIM_SEC 0 or without a listener, since the alarm comes before
\* the loop's last second is over.
NobodyLeft ==
    /\ pc = "exited" => \A p \in Alive : p \in pending \/ Ending(p)
    /\ pc = "returned" => simSec = 0 \/ life[Listener] = "none"

\* The final table is printed once, by the master, although SIGINT and SIGALRM
\* run the same handler and the handler signals its own process: only a
\* SIGALRM after a SIGINT prints it again.
TableOnce ==
    tables > 1 => stack = <<"int", "alrm">>

\* Once the master's queue and the semaphores are removed, no process gets on
\* with its main code: the listener spawns no node for a message it could not
\* receive, and no transaction is lost for want of the queue.  What still calls
\* the semaphores, without a look at the results, are the handlers of SIGINT
\* (users.c:206, nodes.c:324); but not those of the master's children, if it
\* was the master that removed them, and not a copy of it.
QueueOutlivesUse ==
    /\ ~queue => \A p \in Process : ~Calls(p)
    /\ pc = "exited" => \A p \in Child : life[p] # "handling"

\* The simulation's time ends it: everybody, orphans included, comes to an end.
Ends ==
    pc = "loop" /\ simSec > 0 ~> pc = "exited" /\ Alive = {}

-------------------------------------------------------------------------------
(* The inductive invariant behind the safety properties. *)

\* Types of the variables.
TypeOK ==
    /\ pc \in {"nodes", "mail", "users", "alarm", "fork", "loop", "sleep",
              "kill", "wait", "print", "remove", "exited", "returned"}
    /\ todo \in SUBSET Process
    /\ stack \in {<<>>, <<"int">>, <<"alrm">>, <<"int", "alrm">>, <<"alrm", "int">>}
    /\ simSec \in Nat /\ time \in Nat /\ alarm \in Nat /\ tables \in Nat
    /\ due \in BOOLEAN /\ queue \in BOOLEAN
    /\ life \in [Process -> {"none", "forked", "ready", "handling", "copy", "copied", "ended"}]
    /\ pending \in SUBSET (Process \cup {Master})
    /\ dead \in SUBSET User

\* The master handles signals exactly while it is in the handler.
Handling == stack = <<>> <=> pc \notin {"kill", "wait", "print", "remove", "exited"}

\* Past its wait, the master has no child, and will have none.
NoChildReturns == pc \in {"print", "remove", "exited"} \/ tables > 0 => Child \cap Alive = {}

\* Everybody alive has been signalled or signals others, and nobody is left
\* to fork: the master is signalled too, or in its handler, or gone.
AllSignalled ==
    /\ \A p \in Alive : p \in pending \/ Ending(p)
    /\ Master \in pending \/ stack # <<>> \/ pc = "returned"

\* This is so from the first killpg of a handler on.
SignalledFromKill ==
    \/ pc \in {"wait", "print", "remove", "exited"}
    \/ ~queue
    \/ \E p \in Process : life[p] = "copied"
    => AllSignalled

\* SIGALRM's handler is interrupted by its own SIGINT before it can wait, and
\* a handler that SIGALRM does not interrupt prints once.
PrintsUnderSigint ==
    /\ pc \in {"wait", "print", "remove", "exited"} =>
          Master \in pending \/ stack \notin {<<>>, <<"alrm">>}
    /\ stack = <<"alrm">> => pc \in {"kill", "wait"}
    /\ stack \in {<<>>, <<"alrm">>} => tables = 0
    /\ stack \in {<<"int">>, <<"alrm", "int">>} =>
          tables <= 1 /\ (pc \in {"kill", "wait", "print"} => tables = 0)

\* The loops deal with the children in order, the listener the last.
ListenerLast ==
    /\ pc \in {"nodes", "mail"} => todo \subseteq Node
    /\ pc = "users" => todo \subseteq User
    /\ pc \in {"nodes", "mail", "users", "alarm", "fork"} => life[Listener] = "none"

\* The alarm is ahead of the loop, and cannot be missed.
AlarmAhead ==
    /\ pc \in {"nodes", "mail", "users", "alarm", "fork"} => time = simSec
    /\ pc \in {"fork", "loop", "sleep"} =>
          /\ alarm <= time
          /\ alarm > 0 \/ due \/ simSec = 0
    /\ pc = "returned" => simSec = 0 \/ life[Listener] = "none"

MasterInv ==
    /\ TypeOK
    /\ Handling
    /\ NoChildReturns
    /\ SignalledFromKill
    /\ PrintsUnderSigint
    /\ ListenerLast
    /\ AlarmAhead

===============================================================================
