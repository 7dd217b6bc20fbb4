--------------------------------- MODULE Nodes ---------------------------------
(***************************************************************************)
(* The nodes and the master's part in their life: how nodes are spawned    *)
(* and given their friends, how they fetch transactions from their message *)
(* queues into their pools, forward one to a friend every now and then,    *)
(* hand full batches to block builders, and how the process forked by the  *)
(* master (the listener) answers transactions that ran out of hops by      *)
(* spawning an extra node.                                                 *)
(*                                                                         *)
(* A node is named by its index in nodesPID: 0 .. SO_NODES_NUM - 1 are the *)
(* initial nodes, the rest the extra ones, in the order they are spawned.  *)
(* Users are outside: they send each transaction once, to any node.  What  *)
(* becomes of a batch is the subject of Ledger.                            *)
(***************************************************************************)
EXTENDS Integers, SequencesExt, FiniteSetsExt

CONSTANTS
    Tx,                \* the transactions users may send
    SO_NODES_NUM,      \* initial nodes
    SO_FRIENDS_NUM,    \* friends the master gives to each node
    SO_HOPS,           \* hops a transaction starts with
    SO_BLOCK_SIZE,     \* transactions per block, the reward included
    SO_TP_SIZE,        \* nominal capacity of a transaction pool
    ForwardEvery,      \* fetch_messages' limit on flag, 20 in the code
    QueueBytes,        \* msg_qbytes of every queue
    MaxForkFailures,   \* bound: how often fork may fail
    NoPid              \* the pid 0 of a nodesPID entry whose fork failed

ASSUME NodesAssumption ==
    /\ SO_NODES_NUM \in Nat \ {0}
    /\ SO_FRIENDS_NUM \in 1 .. SO_NODES_NUM
    /\ SO_HOPS \in Nat
    /\ SO_BLOCK_SIZE \in Nat /\ SO_BLOCK_SIZE >= 2
    /\ SO_TP_SIZE \in Nat /\ SO_TP_SIZE > SO_BLOCK_SIZE
    /\ ForwardEvery \in Nat \ {0}
    /\ QueueBytes \in Nat
    /\ MaxForkFailures \in Nat
    /\ NoPid \notin Nat

InitialNode == 0 .. SO_NODES_NUM - 1
ExtraNode   == SO_NODES_NUM .. 2 * SO_NODES_NUM - 1
Node        == InitialNode \cup ExtraNode

Master == 2 * SO_NODES_NUM      \* the owner of the queue masterQ

VARIABLES
    queue,      \* the message queues, of the nodes and of the master
    pool,       \* each node's transPool, oldest transaction first
    friends,    \* each node's friendList
    flag,       \* fetch_messages' static counter
    errno,      \* each node's errno, as far as receive_message looks at it
    pc,         \* where each node is
    recorded,   \* the nodes whose pid is in nodesPID
    master,     \* where the master is, and the listener it becomes part of
    at,         \* the nCounter of main's loops, then the listener's overBuf
    outbox,     \* the friend messages the master or the listener still sends
    blocks,     \* the batches handed to block builders
    dropped,    \* the transactions given up, and where
    failures    \* how often fork has failed

vars == <<queue, pool, friends, flag, errno, pc, recorded, master, at, outbox,
          blocks, dropped, failures>>

nodeVars   == <<pool, friends, flag, errno>>
masterVars == <<recorded, master, at, outbox>>

-------------------------------------------------------------------------------
(* Messages and System V queues. *)

Transaction(t, h) == [mtype |-> "TRANSACTION", tx |-> t, hops |-> h]
Friend(f) == [mtype |-> "FRIENDS", friend |-> f]

\* sizeof(struct msgbuf_trans) and sizeof(struct msgbuf_friends).
Bytes(m) == IF m.mtype = "TRANSACTION" THEN 64 ELSE 16

Used(q) == FoldSeq(LAMBDA m, sum : sum + Bytes(m), 0, queue[q])

\* msgsnd with IPC_NOWAIT finds room.
Room(q, m) == Used(q) + Bytes(m) <= QueueBytes

\* The positions of the messages of one type: msgrcv takes the first.
Waiting(q, mtype) == {p \in DOMAIN queue[q] : queue[q][p].mtype = mtype}

\* Mutant: msgrcv waits whatever its flag.
ReturnsLate(q, mtype, msgflg) == Waiting(q, mtype) # {}

\* msgrcv returns, with a message of that type or, if told not to wait, without.
Returns(q, mtype, msgflg) == Waiting(q, mtype) # {} \/ msgflg = "IPC_NOWAIT"

\* A node's queue exists from message_queue_init to its SIGINT handler.
HasQueue(n) == pc[n] \notin {"none", "forked", "dead"}

\* receive_message reports ERROR after a successful msgrcv (whose result is
\* the length received, never 0) if errno still holds one of its errors.
ReceiveFails(n) == errno[n] = "ENOMSG"

-------------------------------------------------------------------------------

Init ==
    /\ queue = [q \in Node \cup {Master} |-> <<>>]
    /\ pool = [n \in Node |-> <<>>]
    /\ friends = [n \in Node |-> <<>>]
    /\ flag = [n \in Node |-> ForwardEvery]
    /\ errno = [n \in Node |-> "none"]
    /\ pc = [n \in Node |-> "none"]
    /\ recorded = {}
    /\ master = "spawn"
    /\ at = 0
    /\ outbox = <<>>
    /\ blocks = {}
    /\ dropped = {}
    /\ failures = 0

-------------------------------------------------------------------------------
(* The master, and the listener it forks. *)

\* nodesPID[n].pid, 0 if the fork of node n failed or was not recorded yet.
PidAt(n) == IF n \in recorded THEN n ELSE NoPid

\* make_friend_list: SO_FRIENDS_NUM initial nodes, in ascending order.
FriendLists ==
    {[i \in 1 .. SO_FRIENDS_NUM |-> PidAt(drawn[i])] :
        drawn \in {d \in [1 .. SO_FRIENDS_NUM -> InitialNode] :
                     \A i, j \in 1 .. SO_FRIENDS_NUM : i < j => d[i] < d[j]}}

\* Mutant: the loop that sends them stops one message early.
MailShort(to, friend) ==
    [i \in 1 .. SO_FRIENDS_NUM - 1 |-> [to |-> to[i], friend |-> friend[i]]]

\* SO_FRIENDS_NUM friend messages, the i-th one saying friend[i] to node to[i].
Mail(to, friend) ==
    [i \in 1 .. SO_FRIENDS_NUM |-> [to |-> to[i], friend |-> friend[i]]]

Always(pid) == [i \in 1 .. SO_FRIENDS_NUM |-> pid]

\* spawn_node forks the node of index at; the child runs at once.
SpawnForks(next) ==
    /\ pc' = [pc EXCEPT ![at] = "forked"]
    /\ master' = next
    /\ UNCHANGED failures

\* Mutant: an extra node's pid is stored at nCounter instead of overBuf.
StorePidAtCounter(n) ==
    recorded' = recorded \cup {IF n \in InitialNode THEN n ELSE SO_NODES_NUM}

\* The parent stores the pid fork returned.
StorePid(n) == recorded' = recorded \cup {n}

\* Fork returns -1.
ForkFails == failures < MaxForkFailures /\ failures' = failures + 1

\* main's first loop forks an initial node; a failed fork is only reported.
SpawnInitial ==
    /\ master = "spawn"
    /\ at < SO_NODES_NUM
    /\ \/ SpawnForks("record") /\ UNCHANGED at
       \/ ForkFails /\ at' = at + 1 /\ UNCHANGED <<pc, master>>
    /\ UNCHANGED <<queue, nodeVars, recorded, outbox, blocks, dropped>>

\* ... and stores its pid, which is when others can see it.
RecordInitial ==
    /\ master = "record"
    /\ StorePid(at)
    /\ at' = at + 1
    /\ master' = "spawn"
    /\ UNCHANGED <<queue, nodeVars, pc, outbox, blocks, dropped, failures>>

\* The first loop is over.
StartFriendLists ==
    /\ master = "spawn"
    /\ at = SO_NODES_NUM
    /\ master' = "lists" /\ at' = 0
    /\ UNCHANGED <<queue, nodeVars, pc, recorded, outbox, blocks, dropped, failures>>

\* main's second loop: send_friend_list for every initial node in turn.
SendFriendList ==
    /\ master = "lists"
    /\ \E list \in FriendLists : outbox' = Mail(Always(PidAt(at)), list)
    /\ at' = at + 1
    /\ master' = "mail"
    /\ UNCHANGED <<queue, nodeVars, pc, recorded, blocks, dropped, failures>>

\* One msgsnd of a friend message, which waits for the queue to be created
\* and to have room.  A dead node's queue is gone and the call fails; the
\* pid 0 of a failed fork names no node's queue.
Deliver ==
    /\ outbox # <<>>
    /\ LET to == Head(outbox).to
           m  == Friend(Head(outbox).friend)
       IN  IF to # NoPid /\ pc[to] # "dead"
           THEN /\ HasQueue(to) /\ Room(to, m)
                /\ queue' = [queue EXCEPT ![to] = Append(@, m)]
           ELSE UNCHANGED queue
    /\ outbox' = Tail(outbox)
    /\ master' = IF Len(outbox) > 1 THEN "mail"
                 ELSE IF at < SO_NODES_NUM THEN "lists" ELSE "listen"
    /\ UNCHANGED <<nodeVars, pc, recorded, at, blocks, dropped, failures>>

\* Mutant: the extra nodes' half of nodesPID is forgotten.
AtLimitEarly == at >= SO_NODES_NUM

\* spawn_node has no index left.
AtLimit == at >= 2 * SO_NODES_NUM

\* The listener takes a transaction that ran out of hops, and forgets it:
\* nothing reads transHopped again.  spawn_node then forks, and gives up at
\* capacity or if the fork fails, which ends the listener.
Listen ==
    /\ master = "listen"
    /\ queue[Master] # <<>>
    /\ queue' = [queue EXCEPT ![Master] = Tail(@)]
    /\ dropped' = dropped \cup {[tx |-> Head(queue[Master]).tx, by |-> "listener"]}
    /\ IF AtLimit
       THEN master' = "gone" /\ UNCHANGED <<pc, failures>>
       ELSE \/ SpawnForks("recordExtra")
            \/ ForkFails /\ master' = "gone" /\ UNCHANGED pc
    /\ UNCHANGED <<nodeVars, recorded, at, outbox, blocks>>

\* The listener stores the pid, sends the new node its friends and announces
\* nodesPID[nCounter] to SO_FRIENDS_NUM initial nodes; its nCounter is still
\* SO_NODES_NUM, whichever node it has just spawned.
RecordExtra ==
    /\ master = "recordExtra"
    /\ StorePid(at)
    /\ at' = at + 1
    /\ \E list, told \in FriendLists :
          outbox' = Mail(Always(at), list) \o Mail(told, Always(SO_NODES_NUM))
    /\ master' = "mail"
    /\ UNCHANGED <<queue, nodeVars, pc, blocks, dropped, failures>>

MasterStep ==
    \/ SpawnInitial \/ RecordInitial \/ StartFriendLists \/ SendFriendList
    \/ Deliver \/ Listen \/ RecordExtra

-------------------------------------------------------------------------------
(* A node. *)

\* Mutant: the node enters its main loop without waiting for its friends.
CreateQueueOnly(n) ==
    /\ pc[n] = "forked"
    /\ pc' = [pc EXCEPT ![n] = "fetch"]
    /\ UNCHANGED <<queue, nodeVars, masterVars, blocks, dropped, failures>>

\* The child of spawn_node creates its queue before it becomes ./nodes.
CreateQueue(n) ==
    /\ pc[n] = "forked"
    /\ pc' = [pc EXCEPT ![n] = "befriend"]
    /\ UNCHANGED <<queue, nodeVars, masterVars, blocks, dropped, failures>>

\* fill_friendList: the first SO_FRIENDS_NUM friends, before anything else.
Befriend(n) ==
    /\ pc[n] = "befriend"
    /\ Returns(n, "FRIENDS", "WAIT")
    /\ LET p == Min(Waiting(n, "FRIENDS"))
       IN  /\ friends' = [friends EXCEPT ![n] = Append(@, queue[n][p].friend)]
           /\ queue' = [queue EXCEPT ![n] = RemoveAt(@, p)]
    /\ pc' = [pc EXCEPT ![n] = IF Len(friends[n]) + 1 = SO_FRIENDS_NUM
                               THEN "fetch" ELSE "befriend"]
    /\ UNCHANGED <<pool, flag, errno, masterVars, blocks, dropped, failures>>

MayFetch(n) == Len(pool[n]) < SO_TP_SIZE /\ flag[n] < ForwardEvery

\* fetch_messages: wait for a transaction, whatever else is in the queue.
FetchTransaction(n) ==
    /\ pc[n] = "fetch"
    /\ MayFetch(n)
    /\ Returns(n, "TRANSACTION", "WAIT")
    /\ LET p == Min(Waiting(n, "TRANSACTION"))
           m == queue[n][p]
       IN  /\ queue' = [queue EXCEPT ![n] = RemoveAt(@, p)]
           /\ IF ReceiveFails(n)
              THEN /\ dropped' = dropped \cup {[tx |-> m.tx, by |-> "receive"]}
                   /\ UNCHANGED pool
              ELSE /\ pool' = [pool EXCEPT ![n] = Append(@, m)]
                   /\ UNCHANGED dropped
    /\ pc' = [pc EXCEPT ![n] = "newFriend"]
    /\ UNCHANGED <<friends, flag, errno, masterVars, blocks, failures>>

\* fetch_messages, continued: take a new friend if there is one.
FetchFriend(n) ==
    /\ pc[n] = "newFriend"
    /\ Returns(n, "FRIENDS", "IPC_NOWAIT")
    /\ IF Waiting(n, "FRIENDS") = {}
       THEN /\ errno' = [errno EXCEPT ![n] = "ENOMSG"]
            /\ UNCHANGED <<queue, friends>>
       ELSE LET p == Min(Waiting(n, "FRIENDS"))
            IN  /\ queue' = [queue EXCEPT ![n] = RemoveAt(@, p)]
                /\ friends' = IF ReceiveFails(n) THEN friends
                              ELSE [friends EXCEPT ![n] = Append(@, queue[n][p].friend)]
                /\ UNCHANGED errno
    /\ flag' = [flag EXCEPT ![n] = @ + 1]
    /\ pc' = [pc EXCEPT ![n] = "report"]
    /\ UNCHANGED <<pool, masterVars, blocks, dropped, failures>>

\* fetch_messages instead calls send_to_random_friend, which finds an empty
\* pool ...
ForwardNothing(n) ==
    /\ pool[n] = <<>>
    /\ pc' = [pc EXCEPT ![n] = "report"]
    /\ UNCHANGED <<queue, pool, dropped>>

\* send_to_random_friend's test of the hops that remain.
NoHopsLeft(m) == m.hops <= 0

\* Mutant: what is forwarded stays in the pool.
RestWithHead(n) == pool[n]

\* The pool without the transaction remove_from_pool has taken.
Rest(n) == Tail(pool[n])

\* Mutant: a transaction that could not be sent is not put back.
PutBackNothing(n, m) == Rest(n)

\* The pool once that transaction is back, at the end.
PutBack(n, m) == Append(Rest(n), m)

\* The positions in friendList RAND chooses from.
FriendChoices(n) == 1 .. SO_FRIENDS_NUM

\* ... or a transaction without hops, which goes to the queue of the node's
\* parent.  Only the initial nodes' parent, the master, has a queue.
ForwardToParent(n) ==
    LET m == Head(pool[n])
    IN  /\ pool[n] # <<>> /\ NoHopsLeft(m)
        /\ IF n \in InitialNode /\ Room(Master, m)
           THEN /\ queue' = [queue EXCEPT ![Master] = Append(@, m)]
                /\ UNCHANGED dropped
           ELSE /\ dropped' = dropped \cup {[tx |-> m.tx, by |-> "hops"]}
                /\ UNCHANGED queue
        /\ pool' = [pool EXCEPT ![n] = Rest(n)]
        /\ pc' = [pc EXCEPT ![n] = "report"]

\* ... or one for one of the first SO_FRIENDS_NUM friends; it costs a hop even
\* if it goes back to the end of the pool, the friend being the node itself
\* or the send having failed.
ForwardToFriend(n, f) ==
    LET m    == Head(pool[n])
        sent == [m EXCEPT !.hops = @ - 1]
    IN  /\ pool[n] # <<>> /\ ~NoHopsLeft(m)
        /\ f # NoPid
        /\ IF f # n /\ HasQueue(f) /\ Room(f, sent)
           THEN /\ queue' = [queue EXCEPT ![f] = Append(@, sent)]
                /\ pool' = [pool EXCEPT ![n] = Rest(n)]
           ELSE /\ pool' = [pool EXCEPT ![n] = PutBack(n, sent)]
                /\ UNCHANGED queue
        /\ pc' = [pc EXCEPT ![n] = "report"]
        /\ UNCHANGED dropped

\* ... or a friend whose fork had failed: the node sends itself SIGINT, whose
\* handler removes the queue and exits.
ForwardToNobody(n, f) ==
    /\ pool[n] # <<>> /\ ~NoHopsLeft(Head(pool[n]))
    /\ f = NoPid
    /\ dropped' = dropped \cup
          {[tx |-> m.tx, by |-> "exit"] :
             m \in {x \in Range(pool[n]) \cup Range(queue[n]) : x.mtype = "TRANSACTION"}}
    /\ pool' = [pool EXCEPT ![n] = <<>>]
    /\ queue' = [queue EXCEPT ![n] = <<>>]
    /\ pc' = [pc EXCEPT ![n] = "dead"]

\* One call of send_to_random_friend.
Forward(n) ==
    /\ pc[n] = "fetch"
    /\ ~MayFetch(n)
    /\ \/ ForwardNothing(n)
       \/ ForwardToParent(n)
       \/ \E i \in FriendChoices(n) :
             \/ ForwardToFriend(n, friends[n][i])
             \/ ForwardToNobody(n, friends[n][i])
    /\ flag' = [flag EXCEPT ![n] = 0]
    /\ UNCHANGED <<friends, errno, masterVars, blocks, failures>>

\* Mutant: the semaphore calls succeed, and leave errno as it was.
ErrnoKept(e) == e

\* errno after sem_reserve and sem_release, which fail (see SemSet).
ErrnoAfterSemop(e) == "EFBIG"

\* Mutant: > instead of >=.
BatchDueLate(n) == Len(pool[n]) > SO_BLOCK_SIZE - 1

\* main's test for a block.
BatchDue(n) == Len(pool[n]) >= SO_BLOCK_SIZE - 1

\* main writes tpSize between sem_reserve and sem_release, which fail and
\* leave EFBIG in errno; then it looks whether a block is due.
Report(n) ==
    /\ pc[n] = "report"
    /\ errno' = [errno EXCEPT ![n] = ErrnoAfterSemop(@)]
    /\ pc' = [pc EXCEPT ![n] = IF BatchDue(n) THEN "block" ELSE "fetch"]
    /\ UNCHANGED <<queue, pool, friends, flag, masterVars, blocks, dropped, failures>>

\* The transactions fill_block_transList takes.
Batch(n) == {pool[n][p].tx : p \in 1 .. SO_BLOCK_SIZE - 1}

\* fill_block_transList takes a batch, then main forks its builder; the batch
\* is lost if the fork fails.
MakeBlock(n) ==
    /\ pc[n] = "block"
    /\ pool' = [pool EXCEPT ![n] = SubSeq(@, SO_BLOCK_SIZE, Len(@))]
    /\ \/ /\ blocks' = blocks \cup {Batch(n)}
          /\ UNCHANGED <<dropped, failures>>
       \/ /\ ForkFails
          /\ dropped' = dropped \cup {[tx |-> t, by |-> "fork"] : t \in Batch(n)}
          /\ UNCHANGED blocks
    /\ pc' = [pc EXCEPT ![n] = "fetch"]
    /\ UNCHANGED <<queue, friends, flag, errno, masterVars>>

NodeStep(n) ==
    \/ CreateQueue(n) \/ Befriend(n)
    \/ FetchTransaction(n) \/ FetchFriend(n) \/ Forward(n)
    \/ Report(n) \/ MakeBlock(n)

-------------------------------------------------------------------------------

MessagesAt(q) == {m \in Range(queue[q]) : m.mtype = "TRANSACTION"}

\* Where a transaction is.
Queued(t) == {q \in Node \cup {Master} : \E m \in MessagesAt(q) : m.tx = t}
Pooled(t) == {n \in Node : \E p \in DOMAIN pool[n] : pool[n][p].tx = t}
Built(t)  == {b \in blocks : t \in b}
Given(t)  == {d \in dropped : d.tx = t}

Unsent(t) == Queued(t) = {} /\ Pooled(t) = {} /\ Built(t) = {} /\ Given(t) = {}

\* The master spawns the users once it has sent the friend lists.
UsersRunning ==
    /\ master \notin {"spawn", "record", "lists"}
    /\ master = "mail" => at > SO_NODES_NUM

\* A user sends a transaction to a node it finds in nodesPID, if there is room.
Send(t, n) ==
    /\ UsersRunning
    /\ n \in recorded
    /\ Unsent(t)
    /\ HasQueue(n) /\ Room(n, Transaction(t, SO_HOPS))
    /\ queue' = [queue EXCEPT ![n] = Append(@, Transaction(t, SO_HOPS))]
    /\ UNCHANGED <<nodeVars, pc, masterVars, blocks, dropped, failures>>

Next ==
    \/ MasterStep
    \/ \E n \in Node : NodeStep(n)
    \/ \E t \in Tx, n \in Node : Send(t, n)

Spec == Init /\ [][Next]_vars

\* The master, the listener and the nodes are processes the kernel keeps
\* scheduling; users need not send anything.
FairSpec == Spec /\ WF_vars(MasterStep) /\ \A n \in Node : WF_vars(NodeStep(n))

-------------------------------------------------------------------------------

TransactionMessage == [mtype : {"TRANSACTION"}, tx : Tx, hops : 0 .. SO_HOPS]
FriendMessage      == [mtype : {"FRIENDS"}, friend : Node \cup {NoPid}]
Message            == TransactionMessage \cup FriendMessage

Running == {"fetch", "newFriend", "report", "block"}

\* Types of the variables, and what bounds them.
TypeOK ==
    /\ queue \in [Node \cup {Master} -> Seq(Message)]
    /\ queue[Master] \in Seq(TransactionMessage)
    /\ pool \in [Node -> Seq(TransactionMessage)]
    /\ friends \in [Node -> Seq(Node \cup {NoPid})]
    /\ flag \in [Node -> 0 .. ForwardEvery]
    /\ errno \in [Node -> {"none", "ENOMSG", "EFBIG"}]
    /\ pc \in [Node -> Running \cup {"none", "forked", "befriend", "dead"}]
    /\ recorded \in SUBSET Node
    /\ master \in {"spawn", "record", "lists", "mail", "listen", "recordExtra", "gone"}
    /\ at \in 0 .. 2 * SO_NODES_NUM
    /\ outbox \in Seq([to : Node \cup {NoPid}, friend : Node \cup {NoPid}])
    /\ blocks \in SUBSET SUBSET Tx
    /\ dropped \in SUBSET [tx : Tx, by : {"listener", "hops", "exit", "fork", "receive"}]
    /\ failures \in 0 .. MaxForkFailures

\* The positions of transaction t in the sequences of f.
Places(f, t) ==
    UNION {{i} \X {p \in DOMAIN f[i] : f[i][p].mtype = "TRANSACTION" /\ f[i][p].tx = t} :
           i \in DOMAIN f}

\* A transaction that was sent exists once: forwarding it, putting it back
\* after a failed send and handing it to a builder never duplicate it.
OnePlace ==
    \A t \in Tx :
        Cardinality(Places(queue, t)) + Cardinality(Places(pool, t))
            + Cardinality(Built(t)) + Cardinality(Given(t)) <= 1

\* A pool never holds more than one batch, so the branch of fetch_messages
\* for a full pool is never taken: with fewer than SO_BLOCK_SIZE - 1
\* transactions at each fetch, a node forwards only because of flag.
PoolBelowBatch ==
    \A n \in Node :
        /\ Len(pool[n]) < SO_BLOCK_SIZE
        /\ pc[n] = "fetch" => Len(pool[n]) < SO_BLOCK_SIZE - 1

\* A node that reaches its main loop finds itself in nodesPID, although
\* spawn_node stores its pid only after the fork: get_pid_nodeIndex never
\* returns ERROR, which main and sum_reward would use as an index.
KnowsItsIndex ==
    \A n \in Node : pc[n] \in Running => n \in recorded

\* A node in its main loop has all the friends send_to_random_friend may
\* choose from, and they are the ones make_friend_list drew, never a late
\* announcement read in their place.
FriendsReady ==
    \A n \in Node :
        pc[n] \in Running =>
            /\ Len(friends[n]) >= SO_FRIENDS_NUM
            /\ \A i \in 1 .. SO_FRIENDS_NUM : friends[n][i] \in InitialNode \cup {NoPid}

\* No transaction taken out of a queue is thrown away on account of the
\* errno of an earlier call.
NothingLostOnReceive ==
    \A d \in dropped : d.by # "receive"

\* A transaction sent stays pending until it is in one full batch, or given up.
Fate == INSTANCE TxFate WITH
    BatchSize <- SO_BLOCK_SIZE - 1,
    pending   <- {t \in Tx : Queued(t) # {} \/ Pooled(t) # {}},
    blocks    <- blocks,
    discarded <- {d.tx : d \in dropped}

FateSpec == Fate!Spec

\* A node that was forked gets to its main loop: the master waiting for the
\* node's queue and for room in it, and the node waiting for its friends,
\* never block each other.
NodeStarts ==
    \A n \in Node : pc[n] = "forked" ~> pc[n] \in Running

\* A transaction in a node's queue is fetched, whatever friend messages
\* are in the queue around it, unless the node exits.
Fetched ==
    \A n \in Node, t \in Tx : n \in Queued(t) ~> n \notin Queued(t)

\* A transaction on the master's queue is received, whatever the listener is
\* doing to announce its extra nodes, unless the listener has exited: at its
\* limit or after a failed fork it never reads the queue again, although beyond
\* the limit "la transazione viene semplicemente scartata" (README.md:46).
HoppedReceived ==
    \A t \in Tx : Master \in Queued(t) ~>
        \/ Master \notin Queued(t)
        \/ master = "gone" /\ (failures > 0 \/ at = 2 * SO_NODES_NUM)

-------------------------------------------------------------------------------
(* The inductive invariant behind the safety properties. *)

\* spawn_node has not been called for this index yet.
Unspawned(n) ==
    IF n \in InitialNode
    THEN (master = "spawn" /\ at <= n) \/ (master = "record" /\ at < n)
    ELSE at < n \/ (at = n /\ master # "recordExtra")

\* The master goes through its loops, then takes up extra nodes one by one.
SpawnOrder ==
    /\ master \in {"record", "lists"} => at < SO_NODES_NUM
    /\ master = "spawn" => at <= SO_NODES_NUM
    /\ master = "mail" => at > 0
    /\ master \in {"listen", "recordExtra", "gone"} => at >= SO_NODES_NUM
    /\ master = "recordExtra" => at < 2 * SO_NODES_NUM
    /\ master # "mail" => outbox = <<>>
    /\ \A n \in Node : Unspawned(n) => pc[n] = "none"

\* What a node has before it enters its main loop.
BeforeMainLoop ==
    \A n \in Node :
        /\ pc[n] \in {"none", "forked"} => queue[n] = <<>> /\ friends[n] = <<>>
        /\ pc[n] \in {"none", "forked", "befriend"} =>
              pool[n] = <<>> /\ Len(friends[n]) < SO_FRIENDS_NUM

\* flag and errno at each place of the main loop.
LoopState ==
    \A n \in Node :
        /\ pc[n] = "newFriend" => flag[n] < ForwardEvery
        /\ errno[n] = "ENOMSG" => pc[n] = "report"

\* Announced or not, an extra node is never the friend a transaction is
\* forwarded to (nodes.c:100), although it is announced "per poter far posto a un
\* nuovo node amico" (README.md:55): its transactions are those users sent it.
ExtraFedByUsers ==
    \A n \in ExtraNode : \A m \in MessagesAt(n) : m.hops = SO_HOPS

\* A pool with a batch leads to a block at once.
BatchAtOnce ==
    \A n \in Node : pc[n] = "block" => Len(pool[n]) = SO_BLOCK_SIZE - 1

\* Friends are sent to recorded nodes only.
MailForRecorded ==
    /\ \A n \in Node : Waiting(n, "FRIENDS") # {} => n \in recorded
    /\ \A i \in DOMAIN outbox : outbox[i].to \in recorded \cup {NoPid}

\* The friends make_friend_list draws.
Drawn == InitialNode \cup {NoPid}

\* The announcement of an extra node.
Announces(m) == m.mtype = "FRIENDS" /\ m.friend \notin Drawn

\* The friend messages of a queue before position p.
FriendsBefore(s, p) == {k \in DOMAIN s : k < p /\ s[k].mtype = "FRIENDS"}

\* How many friends node n has, or finds in its queue before position p.
FriendsUpTo(n, p) == Len(friends[n]) + Cardinality(FriendsBefore(queue[n], p))

\* The friend messages still to be sent to initial node n by main's loop.
StillToSend(n) ==
    IF master = "mail" /\ at <= SO_NODES_NUM /\ n = at - 1 THEN Len(outbox) ELSE 0

\* An initial node is told of extra nodes only behind its SO_FRIENDS_NUM
\* friends, since queues are first-in-first-out for each type; an extra node is
\* never told of any.
ListBeforeNews ==
    /\ \A n \in Node : \A i \in DOMAIN friends[n] :
          i <= SO_FRIENDS_NUM => friends[n][i] \in Drawn
    /\ \A n \in Node : \A p \in DOMAIN queue[n] :
          Announces(queue[n][p]) =>
              n \in InitialNode /\ FriendsUpTo(n, p) >= SO_FRIENDS_NUM
    /\ \A i \in DOMAIN outbox :
          outbox[i].friend \notin Drawn => at > SO_NODES_NUM /\ outbox[i].to \in Drawn

\* Whoever was sent a list has it, or finds it in its queue.
ListComplete ==
    /\ master = "mail" /\ at <= SO_NODES_NUM =>
          \A i \in DOMAIN outbox : outbox[i].to = PidAt(at - 1)
    /\ \A n \in InitialNode \cap recorded :
          pc[n] # "dead" /\ master \notin {"spawn", "record"} /\ n < at =>
              FriendsUpTo(n, Len(queue[n]) + 1) + StillToSend(n) >= SO_FRIENDS_NUM

\* No sequence of messages holds a transaction twice.
Once(s) ==
    \A i, j \in DOMAIN s :
        s[i].mtype = "TRANSACTION" /\ s[j].mtype = "TRANSACTION" /\ s[i].tx = s[j].tx => i = j

\* A set of at most one element.
AtMostOne(S) == \A x, y \in S : x = y

\* Each transaction is once in one queue, pool, batch or list of the dropped.
OneOwner ==
    /\ \A q \in Node \cup {Master} : Once(queue[q])
    /\ \A n \in Node : Once(pool[n])
    /\ \A t \in Tx :
          /\ AtMostOne(Queued(t)) /\ AtMostOne(Pooled(t))
          /\ AtMostOne(Built(t)) /\ AtMostOne(Given(t))
          /\ Queued(t) # {} => Pooled(t) = {} /\ Built(t) = {} /\ Given(t) = {}
          /\ Pooled(t) # {} => Built(t) = {} /\ Given(t) = {}
          /\ Built(t) # {} => Given(t) = {}

NodesInv ==
    /\ TypeOK
    /\ SpawnOrder
    /\ BeforeMainLoop
    /\ LoopState
    /\ NothingLostOnReceive
    /\ BatchAtOnce
    /\ PoolBelowBatch
    /\ MailForRecorded
    /\ KnowsItsIndex
    /\ ListBeforeNews
    /\ ListComplete
    /\ FriendsReady
    /\ ExtraFedByUsers
    /\ OneOwner

-------------------------------------------------------------------------------
\* What the repository's own texts say of the nodes, and the code does not do.

\* "quando ne riceve una crea un nuovo nodo (fino ad un massimo ...), nel caso
\* in cui ci siano gia' troppi nodi extra generati la transazione viene
\* semplicemente scartata" (README.md:46): the listener discards a
\* transaction only when there are too many extra nodes.
DiscardedAtCapacity ==
    [][\A t \in Tx :
          [tx |-> t, by |-> "listener"] \in dropped' \ dropped => at = 2 * SO_NODES_NUM]_vars

\* "se invece la transazione ha gia' esaurito gli hop dispnibili, questa viene
\* inviata al master" (README.md:56): a node gives such a transaction up only
\* if the master's queue has no room for it.
HopsGoToMaster ==
    [][\A t \in Tx :
          [tx |-> t, by |-> "hops"] \in dropped' \ dropped => ~Room(Master, Transaction(t, 0))]_vars

===============================================================================
