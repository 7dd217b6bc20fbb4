------------------------------ MODULE NodesProofs ------------------------------
(***************************************************************************)
(* The safety properties of Nodes, and that it implements TxFate, proved   *)
(* for any number of nodes and friends and any sizes of blocks, pools and  *)
(* queues.                                                                 *)
(***************************************************************************)
EXTENDS Nodes, DataLemmas

-------------------------------------------------------------------------------
(* Indices, messages and queues. *)

\* The master's queue is none of the nodes', and a failed fork names no node.
LEMMA Indices ==
    /\ Node = 0 .. 2 * SO_NODES_NUM - 1
    /\ InitialNode \subseteq Node /\ InitialNode \cap ExtraNode = {}
    /\ Master \notin Node /\ NoPid \notin Node
    /\ SO_NODES_NUM \in Node /\ ExtraNode \subseteq Node
    /\ \A n \in Node : n \in InitialNode <=> n < SO_NODES_NUM
BY NodesAssumption DEF NodesAssumption, Node, InitialNode, ExtraNode, Master

\* Messages have the fields of their type.
LEMMA Messages ==
    ASSUME NEW m \in Message
    PROVE  /\ m.mtype \in {"TRANSACTION", "FRIENDS"}
           /\ m.mtype = "TRANSACTION" => m \in TransactionMessage
           /\ m \in TransactionMessage =>
                 m.mtype = "TRANSACTION" /\ m.tx \in Tx /\ m.hops \in 0 .. SO_HOPS
           /\ m.mtype = "FRIENDS" => m.friend \in Node \cup {NoPid}
BY DEF Message, TransactionMessage, FriendMessage

\* What is sent is a message.
LEMMA Sent ==
    /\ \A t \in Tx : /\ Transaction(t, SO_HOPS) \in TransactionMessage
                     /\ Transaction(t, SO_HOPS).tx = t
                     /\ Transaction(t, SO_HOPS).hops = SO_HOPS
    /\ \A f \in Node \cup {NoPid} : /\ Friend(f) \in FriendMessage
                                   /\ Friend(f).mtype = "FRIENDS" /\ Friend(f).friend = f
    /\ TransactionMessage \subseteq Message /\ FriendMessage \subseteq Message
BY NodesAssumption
   DEF NodesAssumption, Transaction, Friend, TransactionMessage, FriendMessage, Message

\* A transaction that is forwarded loses a hop and nothing else.
LEMMA HopLess ==
    ASSUME NEW m \in TransactionMessage, ~NoHopsLeft(m)
    PROVE  LET sent == [m EXCEPT !.hops = @ - 1]
           IN  sent \in TransactionMessage /\ sent.tx = m.tx /\ sent.mtype = "TRANSACTION"
BY NodesAssumption DEF NodesAssumption, TransactionMessage, NoHopsLeft

\* msgrcv takes the first message of its type.
LEMMA FirstWaiting ==
    ASSUME TypeOK, NEW n \in Node, NEW mtype, Waiting(n, mtype) # {}
    PROVE  LET p == Min(Waiting(n, mtype))
           IN  /\ p \in 1 .. Len(queue[n]) /\ p \in DOMAIN queue[n]
               /\ queue[n][p] \in Message /\ queue[n][p].mtype = mtype
               /\ \A k \in Waiting(n, mtype) : p <= k
               /\ RemoveAt(queue[n], p) \in Seq(Message)
<1>1. queue[n] \in Seq(Message)
  BY DEF TypeOK
<1>2. DOMAIN queue[n] = 1 .. Len(queue[n]) /\ Len(queue[n]) \in Nat
  BY <1>1, LenProperties
<1>3. Waiting(n, mtype) \subseteq 1 .. Len(queue[n])
  BY <1>2 DEF Waiting
<1>4. Min(Waiting(n, mtype)) \in Waiting(n, mtype) /\
      \A k \in Waiting(n, mtype) : Min(Waiting(n, mtype)) <= k
  BY <1>2, <1>3, MinOfNaturals
<1>5. QED
  BY <1>1, <1>3, <1>4, ElementOfSeq, RemoveAtProperties DEF Waiting

\* A list of friends, and the messages that announce it.
LEMMA Lists ==
    ASSUME TypeOK
    PROVE  /\ \A n \in InitialNode : PidAt(n) \in recorded \cup {NoPid} /\ PidAt(n) \in Drawn
           /\ \A list \in FriendLists : \A i \in 1 .. SO_FRIENDS_NUM :
                 list[i] \in recorded \cup {NoPid} /\ list[i] \in Drawn
           /\ \A to, friend :
                 /\ DOMAIN Mail(to, friend) = 1 .. SO_FRIENDS_NUM
                 /\ \A i \in 1 .. SO_FRIENDS_NUM :
                       /\ Mail(to, friend)[i].to = to[i]
                       /\ Mail(to, friend)[i].friend = friend[i]
           /\ \A pid : \A i \in 1 .. SO_FRIENDS_NUM : Always(pid)[i] = pid
<1>1. \A n \in InitialNode : PidAt(n) \in recorded \cup {NoPid} /\ PidAt(n) \in Drawn
  BY DEF PidAt, Drawn
<1>2. ASSUME NEW list \in FriendLists, NEW i \in 1 .. SO_FRIENDS_NUM
      PROVE  list[i] \in recorded \cup {NoPid} /\ list[i] \in Drawn
  BY <1>1 DEF FriendLists
<1>3. QED
  BY <1>1, <1>2 DEF Mail, Always

\* The entries of an outbox.
Entry == [to : Node \cup {NoPid}, friend : Node \cup {NoPid}]

\* What Mail builds is a sequence of SO_FRIENDS_NUM entries.
LEMMA MailType ==
    ASSUME NEW to, NEW friend,
           \A i \in 1 .. SO_FRIENDS_NUM :
               to[i] \in Node \cup {NoPid} /\ friend[i] \in Node \cup {NoPid}
    PROVE  Mail(to, friend) \in Seq(Entry) /\ Len(Mail(to, friend)) = SO_FRIENDS_NUM
<1>1. SO_FRIENDS_NUM \in Nat
  BY NodesAssumption DEF NodesAssumption
<1>2. Mail(to, friend) \in [1 .. SO_FRIENDS_NUM -> Entry]
  BY DEF Mail, Entry
<1>3. QED
  BY <1>1, <1>2

\* The initial state has the types.
LEMMA TypeInit == Init => TypeOK
<1> SUFFICES ASSUME Init PROVE TypeOK
  OBVIOUS
<1>1. ForwardEvery \in 0 .. ForwardEvery /\ 0 \in 0 .. 2 * SO_NODES_NUM /\ 0 \in 0 .. MaxForkFailures
  BY NodesAssumption DEF NodesAssumption
<1>2. QED
  BY <1>1 DEF Init, TypeOK

\* A step that changes the queue of one node leaves the others alone.
LEMMA OneQueue ==
    ASSUME TypeOK, NEW n \in Node, NEW s \in Seq(Message), queue' = [queue EXCEPT ![n] = s]
    PROVE  /\ queue' \in [Node \cup {Master} -> Seq(Message)]
           /\ queue'[n] = s /\ queue'[Master] = queue[Master]
           /\ \A q \in (Node \cup {Master}) \ {n} : queue'[q] = queue[q]
BY Indices DEF TypeOK

-------------------------------------------------------------------------------
(* Types. *)

\* The steps of the master preserve the types.
LEMMA MasterTypeStep == TypeOK /\ SpawnOrder /\ MasterStep => TypeOK'
<1> SUFFICES ASSUME TypeOK, SpawnOrder, MasterStep PROVE TypeOK'
  OBVIOUS
<1> USE DEF TypeOK, nodeVars
<1>1. CASE SpawnInitial
  <2>1. at' \in 0 .. 2 * SO_NODES_NUM /\ failures' \in 0 .. MaxForkFailures
    BY <1>1, NodesAssumption DEF NodesAssumption, SpawnInitial, SpawnForks, ForkFails
  <2>2. QED
    BY <1>1, <2>1 DEF SpawnInitial, SpawnForks
<1>2. CASE RecordInitial
  <2>1. at' \in 0 .. 2 * SO_NODES_NUM /\ at \in Node
    BY <1>2, NodesAssumption, Indices DEF NodesAssumption, RecordInitial, SpawnOrder
  <2>2. QED
    BY <1>2, <2>1 DEF RecordInitial, StorePid
<1>3. CASE StartFriendLists
  BY <1>3, NodesAssumption DEF NodesAssumption, StartFriendLists
<1>4. CASE SendFriendList
  <2>1. at' \in 0 .. 2 * SO_NODES_NUM /\ at \in InitialNode
    BY <1>4, NodesAssumption DEF NodesAssumption, SendFriendList, SpawnOrder, InitialNode
  <2>2. PICK list \in FriendLists : outbox' = Mail(Always(PidAt(at)), list)
    BY <1>4 DEF SendFriendList
  <2>3. \A i \in 1 .. SO_FRIENDS_NUM :
           Always(PidAt(at))[i] \in Node \cup {NoPid} /\ list[i] \in Node \cup {NoPid}
    BY <2>1, Lists, Indices DEF Drawn, Always
  <2>4. outbox' \in Seq(Entry)
    BY <2>2, <2>3, MailType
  <2>5. QED
    BY <1>4, <2>1, <2>4 DEF SendFriendList, Entry
<1>5. CASE Deliver
  <2>1. outbox # <<>> /\ outbox \in Seq(Entry)
    BY <1>5 DEF Deliver, Entry
  <2> DEFINE to == Head(outbox).to
             m  == Friend(Head(outbox).friend)
  <2>2. Head(outbox) \in Entry /\ Tail(outbox) \in Seq(Entry)
    BY <2>1, HeadTailProperties
  <2>3. to \in Node \cup {NoPid} /\ m \in Message
    BY <2>2, Sent DEF Entry
  <2>4. \/ UNCHANGED queue
        \/ to \in Node /\ queue' = [queue EXCEPT ![to] = Append(@, m)]
    BY <1>5, <2>3 DEF Deliver
  <2> HIDE DEF to, m
  <2>5. \A n \in Node : Append(queue[n], m) \in Seq(Message)
    BY <2>3, AppendProperties
  <2>6. queue' \in [Node \cup {Master} -> Seq(Message)] /\ queue'[Master] = queue[Master]
    <3>1. CASE UNCHANGED queue
      BY <3>1
    <3>2. CASE to \in Node /\ queue' = [queue EXCEPT ![to] = Append(@, m)]
      BY <3>2, <2>5, OneQueue
    <3>3. QED
      BY <2>4, <3>1, <3>2
  <2>7. master' \in {"mail", "lists", "listen"}
    BY <1>5 DEF Deliver
  <2>8. QED
    BY <1>5, <2>2, <2>6, <2>7 DEF Deliver, Entry
<1>6. CASE Listen
  <2>1. queue[Master] \in Seq(TransactionMessage) /\ queue[Master] # <<>>
    BY <1>6 DEF Listen
  <2>2. /\ Head(queue[Master]) \in TransactionMessage
        /\ Tail(queue[Master]) \in Seq(TransactionMessage)
        /\ Tail(queue[Master]) \in Seq(Message)
    BY <2>1, HeadTailProperties
  <2>3. /\ queue' \in [Node \cup {Master} -> Seq(Message)]
        /\ queue'[Master] \in Seq(TransactionMessage)
    BY <1>6, <2>2 DEF Listen
  <2>4. /\ pc' \in [Node -> Running \cup {"none", "forked", "befriend", "dead"}]
        /\ master' \in {"gone", "recordExtra"} /\ failures' \in 0 .. MaxForkFailures
    <3>1. \/ master' = "gone" /\ UNCHANGED pc
          \/ master' = "recordExtra" /\ pc' = [pc EXCEPT ![at] = "forked"]
      BY <1>6 DEF Listen, SpawnForks
    <3>2. failures' = failures \/ (failures < MaxForkFailures /\ failures' = failures + 1)
      BY <1>6 DEF Listen, SpawnForks, ForkFails
    <3>3. QED
      <4>1. failures' \in 0 .. MaxForkFailures
        BY <3>2, NodesAssumption DEF NodesAssumption
      <4>2. pc' \in [Node -> Running \cup {"none", "forked", "befriend", "dead"}]
        BY <3>1
      <4>3. QED
        BY <3>1, <4>1, <4>2
  <2>5. dropped' \in SUBSET [tx : Tx, by : {"listener", "hops", "exit", "fork", "receive"}]
    BY <1>6, <2>2 DEF Listen, TransactionMessage
  <2>6. QED
    BY <1>6, <2>3, <2>4, <2>5 DEF Listen
<1>7. CASE RecordExtra
  <2>1. at' \in 0 .. 2 * SO_NODES_NUM /\ at \in Node /\ SO_NODES_NUM \in Node
    BY <1>7, NodesAssumption, Indices DEF NodesAssumption, RecordExtra, SpawnOrder
  <2>2. PICK list \in FriendLists, told \in FriendLists :
           outbox' = Mail(Always(at), list) \o Mail(told, Always(SO_NODES_NUM))
    BY <1>7 DEF RecordExtra
  <2>3. \A i \in 1 .. SO_FRIENDS_NUM :
           /\ Always(at)[i] \in Node \cup {NoPid} /\ list[i] \in Node \cup {NoPid}
           /\ Always(SO_NODES_NUM)[i] \in Node \cup {NoPid} /\ told[i] \in Node \cup {NoPid}
    BY <2>1, Lists, Indices DEF Drawn, Always
  <2>4. Mail(Always(at), list) \in Seq(Entry) /\ Mail(told, Always(SO_NODES_NUM)) \in Seq(Entry)
    BY <2>3, MailType
  <2>5. outbox' \in Seq(Entry)
    BY <2>2, <2>4, ConcatProperties
  <2>6. QED
    BY <1>7, <2>1, <2>5 DEF RecordExtra, StorePid, Entry
<1>8. QED
  BY <1>1, <1>2, <1>3, <1>4, <1>5, <1>6, <1>7 DEF MasterStep

\* The steps of a node preserve the types.
LEMMA NodeTypeStep ==
    ASSUME TypeOK, LoopState, FriendsReady, BatchAtOnce, NEW n \in Node, NodeStep(n)
    PROVE  TypeOK'
<1> USE DEF TypeOK, masterVars
<1>1. CASE CreateQueue(n)
  BY <1>1 DEF CreateQueue, nodeVars
<1>2. CASE Befriend(n)
  <2> DEFINE p == Min(Waiting(n, "FRIENDS"))
  <2>1. Waiting(n, "FRIENDS") # {}
    BY <1>2 DEF Befriend, Returns
  <2>2. /\ queue[n][p] \in Message /\ queue[n][p].mtype = "FRIENDS"
        /\ RemoveAt(queue[n], p) \in Seq(Message)
    BY <2>1, FirstWaiting
  <2>3. /\ queue' = [queue EXCEPT ![n] = RemoveAt(queue[n], p)]
        /\ friends' = [friends EXCEPT ![n] = Append(friends[n], queue[n][p].friend)]
    BY <1>2 DEF Befriend
  <2> HIDE DEF p
  <2>4. Append(friends[n], queue[n][p].friend) \in Seq(Node \cup {NoPid})
    BY <2>2, Messages, AppendProperties
  <2>5. friends' \in [Node -> Seq(Node \cup {NoPid})]
    BY <2>3, <2>4
  <2>6. pc' \in [Node -> Running \cup {"none", "forked", "befriend", "dead"}]
    BY <1>2 DEF Befriend, Running
  <2>7. QED
    BY <1>2, <2>2, <2>3, <2>5, <2>6, OneQueue DEF Befriend
<1>3. CASE FetchTransaction(n)
  <2> DEFINE p == Min(Waiting(n, "TRANSACTION"))
  <2>1. Waiting(n, "TRANSACTION") # {}
    BY <1>3 DEF FetchTransaction, Returns
  <2>2. /\ queue[n][p] \in Message /\ queue[n][p].mtype = "TRANSACTION"
        /\ RemoveAt(queue[n], p) \in Seq(Message)
    BY <2>1, FirstWaiting
  <2>3. ~ReceiveFails(n)
    BY <1>3 DEF FetchTransaction, ReceiveFails, LoopState
  <2>4. /\ queue' = [queue EXCEPT ![n] = RemoveAt(queue[n], p)]
        /\ pool' = [pool EXCEPT ![n] = Append(pool[n], queue[n][p])] /\ UNCHANGED dropped
    BY <1>3, <2>3 DEF FetchTransaction
  <2> HIDE DEF p
  <2>5. Append(pool[n], queue[n][p]) \in Seq(TransactionMessage)
    BY <2>2, Messages, AppendProperties
  <2>6. pool' \in [Node -> Seq(TransactionMessage)]
    BY <2>4, <2>5
  <2>7. pc' \in [Node -> Running \cup {"none", "forked", "befriend", "dead"}]
    BY <1>3 DEF FetchTransaction, Running
  <2>8. QED
    BY <1>3, <2>2, <2>4, <2>6, <2>7, OneQueue DEF FetchTransaction
<1>4. CASE FetchFriend(n)
  <2> DEFINE p == Min(Waiting(n, "FRIENDS"))
  <2>1. /\ flag' = [flag EXCEPT ![n] = @ + 1] /\ flag[n] < ForwardEvery
        /\ pc' = [pc EXCEPT ![n] = "report"]
    BY <1>4 DEF FetchFriend, LoopState
  <2>2. flag' \in [Node -> 0 .. ForwardEvery]
    <3>1. flag[n] + 1 \in 0 .. ForwardEvery
      BY <2>1, NodesAssumption DEF NodesAssumption
    <3>2. QED
      BY <2>1, <3>1
  <2>3. pc' \in [Node -> Running \cup {"none", "forked", "befriend", "dead"}]
    BY <2>1 DEF Running
  <2>4. CASE Waiting(n, "FRIENDS") = {}
    BY <1>4, <2>2, <2>3, <2>4 DEF FetchFriend
  <2>5. CASE Waiting(n, "FRIENDS") # {}
    <3>1. /\ queue[n][p] \in Message /\ queue[n][p].mtype = "FRIENDS"
          /\ RemoveAt(queue[n], p) \in Seq(Message)
      BY <2>5, FirstWaiting
    <3>2. /\ queue' = [queue EXCEPT ![n] = RemoveAt(queue[n], p)]
          /\ friends' \in {friends,
                           [friends EXCEPT ![n] = Append(friends[n], queue[n][p].friend)]}
          /\ UNCHANGED errno
      BY <1>4, <2>5 DEF FetchFriend
    <3> HIDE DEF p
    <3>3. Append(friends[n], queue[n][p].friend) \in Seq(Node \cup {NoPid})
      BY <3>1, Messages, AppendProperties
    <3>4. friends' \in [Node -> Seq(Node \cup {NoPid})]
      BY <3>2, <3>3
    <3>5. QED
      BY <1>4, <2>2, <2>3, <3>1, <3>2, <3>4, OneQueue DEF FetchFriend
  <2>6. QED
    BY <2>4, <2>5
<1>5. CASE Forward(n)
  <2>1. flag' \in [Node -> 0 .. ForwardEvery]
    BY <1>5, NodesAssumption DEF NodesAssumption, Forward
  <2>2. UNCHANGED <<friends, errno, masterVars, blocks, failures>>
    BY <1>5 DEF Forward
  <2> DEFINE Rests == /\ queue' \in [Node \cup {Master} -> Seq(Message)]
                      /\ queue'[Master] \in Seq(TransactionMessage)
                      /\ pool' \in [Node -> Seq(TransactionMessage)]
                      /\ pc' \in [Node -> Running \cup {"none", "forked", "befriend", "dead"}]
                      /\ dropped' \in SUBSET [tx : Tx, by : {"listener", "hops", "exit", "fork",
                                                             "receive"}]
  <2>3. ASSUME ForwardNothing(n) PROVE Rests
    BY <2>3 DEF ForwardNothing, Running
  <2>4. ASSUME pool[n] # <<>>
        PROVE  Head(pool[n]) \in TransactionMessage /\ Rest(n) \in Seq(TransactionMessage)
    BY <2>4, HeadTailProperties DEF Rest
  <2>5. ASSUME ForwardToParent(n) PROVE Rests
    <3> DEFINE m == Head(pool[n])
    <3>1. m \in TransactionMessage /\ m \in Message /\ Rest(n) \in Seq(TransactionMessage)
      BY <2>4, <2>5, Sent DEF ForwardToParent
    <3>2. /\ \/ queue' = [queue EXCEPT ![Master] = Append(@, m)] /\ UNCHANGED dropped
             \/ dropped' = dropped \cup {[tx |-> m.tx, by |-> "hops"]} /\ UNCHANGED queue
          /\ pool' = [pool EXCEPT ![n] = Rest(n)]
          /\ pc' = [pc EXCEPT ![n] = "report"]
      BY <2>5 DEF ForwardToParent
    <3> HIDE DEF m
    <3>3. /\ Append(queue[Master], m) \in Seq(TransactionMessage)
          /\ Append(queue[Master], m) \in Seq(Message)
      BY <3>1, AppendProperties
    <3>4. [tx |-> m.tx, by |-> "hops"]
             \in [tx : Tx, by : {"listener", "hops", "exit", "fork", "receive"}]
      BY <3>1 DEF TransactionMessage
    <3>5. pool' \in [Node -> Seq(TransactionMessage)]
      BY <3>1, <3>2
    <3>6. pc' \in [Node -> Running \cup {"none", "forked", "befriend", "dead"}]
      BY <3>2 DEF Running
    <3>7. /\ queue' \in [Node \cup {Master} -> Seq(Message)]
          /\ queue'[Master] \in Seq(TransactionMessage)
      BY <3>2, <3>3
    <3>8. QED
      BY <3>2, <3>4, <3>5, <3>6, <3>7
  <2>6. ASSUME NEW f \in Node \cup {NoPid}, ForwardToFriend(n, f)
        PROVE  Rests
    <3> DEFINE sent == [Head(pool[n]) EXCEPT !.hops = @ - 1]
    <3>1. sent \in TransactionMessage /\ sent \in Message /\ Rest(n) \in Seq(TransactionMessage)
      BY <2>4, <2>6, HopLess, Sent DEF ForwardToFriend
    <3>2. /\ \/ /\ queue' = [queue EXCEPT ![f] = Append(queue[f], sent)] /\ f \in Node
                /\ pool' = [pool EXCEPT ![n] = Rest(n)]
             \/ /\ pool' = [pool EXCEPT ![n] = Append(Rest(n), sent)]
                /\ UNCHANGED queue
          /\ pc' = [pc EXCEPT ![n] = "report"]
          /\ UNCHANGED dropped
      BY <2>6 DEF ForwardToFriend, PutBack
    <3> HIDE DEF sent
    <3>3. Append(Rest(n), sent) \in Seq(TransactionMessage)
      BY <3>1, AppendProperties
    <3>4. pool' \in [Node -> Seq(TransactionMessage)]
      BY <3>1, <3>2, <3>3
    <3>5. pc' \in [Node -> Running \cup {"none", "forked", "befriend", "dead"}]
      BY <3>2 DEF Running
    <3>6. f \in Node => Append(queue[f], sent) \in Seq(Message)
      BY <3>1, AppendProperties
    <3>7. /\ queue' \in [Node \cup {Master} -> Seq(Message)]
          /\ queue'[Master] \in Seq(TransactionMessage)
      BY <3>2, <3>6, OneQueue
    <3>8. QED
      BY <3>2, <3>4, <3>5, <3>7
  <2>7. ASSUME NEW f, ForwardToNobody(n, f)
        PROVE  Rests
    <3>1. /\ pool' = [pool EXCEPT ![n] = <<>>] /\ queue' = [queue EXCEPT ![n] = <<>>]
          /\ pc' = [pc EXCEPT ![n] = "dead"]
          /\ dropped' = dropped \cup
                {[tx |-> m.tx, by |-> "exit"] :
                   m \in {x \in Range(pool[n]) \cup Range(queue[n]) : x.mtype = "TRANSACTION"}}
      BY <2>7 DEF ForwardToNobody
    <3>2. Range(pool[n]) \subseteq TransactionMessage /\ Range(queue[n]) \subseteq Message
      BY LenProperties DEF Range
    <3>3. \A m \in {x \in Range(pool[n]) \cup Range(queue[n]) : x.mtype = "TRANSACTION"} :
             m.tx \in Tx
      BY <3>2, Messages, Sent
    <3>4. dropped' \in SUBSET [tx : Tx, by : {"listener", "hops", "exit", "fork", "receive"}]
      BY <3>1, <3>3
    <3>5. /\ queue' \in [Node \cup {Master} -> Seq(Message)]
          /\ queue'[Master] \in Seq(TransactionMessage)
      <4>1. <<>> \in Seq(Message)
        BY EmptySeq
      <4>2. QED
        BY <3>1, <4>1, OneQueue
    <3>6. QED
      BY <3>1, <3>4, <3>5
  <2>8. Rests
    <3>1. ASSUME NEW i \in FriendChoices(n) PROVE friends[n][i] \in Node \cup {NoPid}
      BY <1>5, <3>1, Indices DEF FriendsReady, Forward, Running, FriendChoices
    <3>2. QED
      BY <1>5, <2>3, <2>5, <2>6, <2>7, <3>1 DEF Forward
  <2>9. QED
    BY <2>1, <2>2, <2>8
<1>6. CASE Report(n)
  <2>1. /\ errno' \in [Node -> {"none", "ENOMSG", "EFBIG"}]
        /\ pc' \in [Node -> Running \cup {"none", "forked", "befriend", "dead"}]
    BY <1>6 DEF Report, ErrnoAfterSemop, Running
  <2>2. QED
    BY <1>6, <2>1 DEF Report
<1>7. CASE MakeBlock(n)
  <2>1. \A p \in 1 .. SO_BLOCK_SIZE - 1 : pool[n][p].tx \in Tx
    <3>1. Len(pool[n]) = SO_BLOCK_SIZE - 1
      BY <1>7 DEF MakeBlock, BatchAtOnce
    <3>2. \A p \in 1 .. SO_BLOCK_SIZE - 1 : pool[n][p] \in TransactionMessage
      BY <3>1, ElementOfSeq
    <3>3. QED
      BY <3>2 DEF TransactionMessage
  <2>2. Batch(n) \in SUBSET Tx
    BY <2>1 DEF Batch
  <2>3. SubSeq(pool[n], SO_BLOCK_SIZE, Len(pool[n])) \in Seq(TransactionMessage)
    <3>1. \A i \in SO_BLOCK_SIZE .. Len(pool[n]) : pool[n][i] \in TransactionMessage
      BY NodesAssumption, ElementOfSeq DEF NodesAssumption
    <3>2. SO_BLOCK_SIZE \in Int /\ Len(pool[n]) \in Int
      BY NodesAssumption, LenProperties DEF NodesAssumption
    <3>3. QED
      BY <3>1, <3>2, SubSeqProperties
  <2>4. pool' \in [Node -> Seq(TransactionMessage)]
    BY <1>7, <2>3 DEF MakeBlock
  <2>5. pc' \in [Node -> Running \cup {"none", "forked", "befriend", "dead"}]
    BY <1>7 DEF MakeBlock, Running
  <2>6. \/ /\ blocks' = blocks \cup {Batch(n)} /\ UNCHANGED <<dropped, failures>>
        \/ /\ failures < MaxForkFailures /\ failures' = failures + 1 /\ UNCHANGED blocks
           /\ dropped' = dropped \cup {[tx |-> t, by |-> "fork"] : t \in Batch(n)}
    BY <1>7 DEF MakeBlock, ForkFails
  <2>7. /\ blocks' \in SUBSET SUBSET Tx /\ failures' \in 0 .. MaxForkFailures
        /\ dropped' \in SUBSET [tx : Tx, by : {"listener", "hops", "exit", "fork", "receive"}]
    <3>1. failures' \in 0 .. MaxForkFailures
      BY <2>6, NodesAssumption DEF NodesAssumption
    <3>2. blocks' \in SUBSET SUBSET Tx
      BY <2>2, <2>6
    <3>3. \A t \in Batch(n) : [tx |-> t, by |-> "fork"]
             \in [tx : Tx, by : {"listener", "hops", "exit", "fork", "receive"}]
      BY <2>2
    <3>4. dropped' \in SUBSET [tx : Tx, by : {"listener", "hops", "exit", "fork", "receive"}]
      BY <2>6, <3>3
    <3>5. QED
      BY <3>1, <3>2, <3>4
  <2>8. QED
    BY <1>7, <2>4, <2>5, <2>7 DEF MakeBlock
<1>8. QED
  BY <1>1, <1>2, <1>3, <1>4, <1>5, <1>6, <1>7 DEF NodeStep

-------------------------------------------------------------------------------
(* What the steps do, in terms of the state before them. *)

\* Deliver takes the first entry of outbox and appends a friend message, or loses it.
LEMMA DeliverEffect ==
    ASSUME TypeOK, Deliver
    PROVE  \E to \in Node \cup {NoPid}, friend \in Node \cup {NoPid} :
              /\ Len(outbox) \in Nat \ {0} /\ Len(outbox') = Len(outbox) - 1
              /\ outbox[1].to = to /\ outbox[1].friend = friend
              /\ \A i \in DOMAIN outbox' : i + 1 \in DOMAIN outbox /\ outbox'[i] = outbox[i + 1]
              /\ 1 \in DOMAIN outbox /\ DOMAIN outbox = 1 .. Len(outbox)
              /\ \/ (to = NoPid \/ pc[to] = "dead") /\ UNCHANGED queue
                 \/ /\ to \in Node /\ HasQueue(to)
                    /\ queue' = [queue EXCEPT ![to] = Append(queue[to], Friend(friend))]
              /\ master' = IF Len(outbox) > 1 THEN "mail"
                           ELSE IF at < SO_NODES_NUM THEN "lists" ELSE "listen"
              /\ (Len(outbox) = 1 => outbox' = <<>>)
              /\ UNCHANGED <<pool, friends, flag, errno, pc, recorded, at, blocks, dropped,
                             failures>>
<1>1. outbox # <<>> /\ outbox \in Seq(Entry) /\ outbox' = Tail(outbox)
  BY DEF Deliver, TypeOK, Entry
<1>2. /\ Head(outbox) = outbox[1] /\ Head(outbox) \in Entry
      /\ outbox' \in Seq(Entry) /\ Len(outbox') = Len(outbox) - 1
      /\ \A i \in 1 .. Len(outbox') : outbox'[i] = outbox[i + 1]
  BY <1>1, HeadTailProperties
<1>3. /\ Len(outbox) \in Nat \ {0} /\ DOMAIN outbox = 1 .. Len(outbox)
      /\ DOMAIN outbox' = 1 .. Len(outbox') /\ (Len(outbox') = 0 => outbox' = <<>>)
  BY <1>1, <1>2, LenProperties, EmptySeq
<1>4. outbox[1].to \in Node \cup {NoPid} /\ outbox[1].friend \in Node \cup {NoPid}
  BY <1>2 DEF Entry
<1>5. \/ (outbox[1].to = NoPid \/ pc[outbox[1].to] = "dead") /\ UNCHANGED queue
      \/ /\ outbox[1].to \in Node /\ HasQueue(outbox[1].to)
         /\ queue' = [queue EXCEPT ![outbox[1].to] =
                         Append(queue[outbox[1].to], Friend(outbox[1].friend))]
  BY <1>2, <1>4 DEF Deliver
<1>6. /\ master' = IF Len(outbox) > 1 THEN "mail"
                   ELSE IF at < SO_NODES_NUM THEN "lists" ELSE "listen"
      /\ UNCHANGED <<pool, friends, flag, errno, pc, recorded, at, blocks, dropped, failures>>
  BY DEF Deliver, nodeVars
<1>7. /\ \A i \in DOMAIN outbox' : i + 1 \in DOMAIN outbox /\ outbox'[i] = outbox[i + 1]
      /\ 1 \in DOMAIN outbox /\ (Len(outbox) = 1 => outbox' = <<>>)
  BY <1>2, <1>3
<1>8. QED
  BY <1>2, <1>3, <1>4, <1>5, <1>6, <1>7

\* Listen takes the oldest transaction of the master's queue, and may fork the next node.
LEMMA ListenEffect ==
    ASSUME TypeOK, SpawnOrder, Listen
    PROVE  LET m == Head(queue[Master])
           IN  /\ master = "listen" /\ m = queue[Master][1] /\ m \in TransactionMessage
               /\ queue[Master] # <<>>
               /\ queue' = [queue EXCEPT ![Master] = Tail(queue[Master])]
               /\ dropped' = dropped \cup {[tx |-> m.tx, by |-> "listener"]}
               /\ \/ master' = "gone" /\ UNCHANGED pc
                  \/ /\ master' = "recordExtra" /\ at \in Node /\ at < 2 * SO_NODES_NUM
                     /\ pc[at] = "none" /\ pc' = [pc EXCEPT ![at] = "forked"]
               /\ UNCHANGED <<pool, friends, flag, errno, recorded, at, outbox, blocks>>
<1>1. queue[Master] \in Seq(TransactionMessage) /\ queue[Master] # <<>>
  BY DEF Listen, TypeOK
<1>2. Head(queue[Master]) = queue[Master][1] /\ Head(queue[Master]) \in TransactionMessage
  BY <1>1, HeadTailProperties
<1>3. \/ master' = "gone" /\ UNCHANGED pc
      \/ /\ master' = "recordExtra" /\ ~AtLimit
         /\ pc' = [pc EXCEPT ![at] = "forked"]
  BY DEF Listen, SpawnForks
<1>4. ~AtLimit => at \in Node /\ at < 2 * SO_NODES_NUM /\ pc[at] = "none"
  <2> SUFFICES ASSUME ~AtLimit PROVE at \in Node /\ at < 2 * SO_NODES_NUM /\ pc[at] = "none"
    OBVIOUS
  <2>1. at < 2 * SO_NODES_NUM /\ at >= SO_NODES_NUM /\ at \in Nat /\ master = "listen"
    BY NodesAssumption DEF NodesAssumption, TypeOK, SpawnOrder, Listen, AtLimit
  <2>2. at \in Node /\ at \notin InitialNode
    BY <2>1, Indices, NodesAssumption DEF NodesAssumption
  <2>3. Unspawned(at)
    BY <2>1, <2>2 DEF Unspawned
  <2>4. QED
    BY <2>1, <2>2, <2>3 DEF SpawnOrder
<1>5. QED
  BY <1>1, <1>2, <1>3, <1>4 DEF Listen, nodeVars

\* SpawnInitial forks a node that did not exist, or goes on to the next index.
LEMMA SpawnEffect ==
    ASSUME TypeOK, SpawnOrder, SpawnInitial
    PROVE  /\ master = "spawn" /\ at < SO_NODES_NUM /\ at \in InitialNode /\ at \in Node
           /\ \/ /\ master' = "record" /\ UNCHANGED at
                 /\ pc[at] = "none" /\ pc' = [pc EXCEPT ![at] = "forked"]
              \/ at' = at + 1 /\ UNCHANGED <<pc, master>>
           /\ UNCHANGED <<queue, pool, friends, flag, errno, recorded, outbox, blocks, dropped>>
<1>1. master = "spawn" /\ at < SO_NODES_NUM /\ at \in Nat
  BY DEF SpawnInitial, TypeOK
<1>2. at \in InitialNode /\ at \in Node
  BY <1>1, NodesAssumption, Indices DEF NodesAssumption
<1>3. pc[at] = "none"
  BY <1>1, <1>2 DEF SpawnOrder, Unspawned
<1>4. QED
  BY <1>1, <1>2, <1>3 DEF SpawnInitial, SpawnForks, nodeVars

\* Befriend moves the oldest friend message of the queue to friendList.
LEMMA BefriendEffect ==
    ASSUME TypeOK, NEW n \in Node, Befriend(n)
    PROVE  \E p \in 1 .. Len(queue[n]) :
              /\ queue[n][p] \in Message /\ queue[n][p].mtype = "FRIENDS"
              /\ queue[n][p].friend \in Node \cup {NoPid}
              /\ \A k \in Waiting(n, "FRIENDS") : p <= k
              /\ p \in Waiting(n, "FRIENDS")
              /\ RemoveAt(queue[n], p) \in Seq(Message)
              /\ queue' = [queue EXCEPT ![n] = RemoveAt(queue[n], p)]
              /\ friends' = [friends EXCEPT ![n] = Append(friends[n], queue[n][p].friend)]
              /\ pc[n] = "befriend"
              /\ pc' = [pc EXCEPT ![n] = IF Len(friends[n]) + 1 = SO_FRIENDS_NUM
                                         THEN "fetch" ELSE "befriend"]
              /\ UNCHANGED <<pool, flag, errno, recorded, master, at, outbox, blocks, dropped,
                             failures>>
<1>1. Waiting(n, "FRIENDS") # {}
  BY DEF Befriend, Returns
<1> DEFINE p == Min(Waiting(n, "FRIENDS"))
<1>2. /\ p \in 1 .. Len(queue[n]) /\ p \in DOMAIN queue[n]
      /\ queue[n][p] \in Message /\ queue[n][p].mtype = "FRIENDS"
      /\ \A k \in Waiting(n, "FRIENDS") : p <= k
      /\ RemoveAt(queue[n], p) \in Seq(Message)
  BY <1>1, FirstWaiting
<1>3. queue[n][p].friend \in Node \cup {NoPid} /\ p \in Waiting(n, "FRIENDS")
  BY <1>2, Messages DEF Waiting
<1>4. /\ queue' = [queue EXCEPT ![n] = RemoveAt(queue[n], p)]
      /\ friends' = [friends EXCEPT ![n] = Append(friends[n], queue[n][p].friend)]
      /\ pc[n] = "befriend"
      /\ pc' = [pc EXCEPT ![n] = IF Len(friends[n]) + 1 = SO_FRIENDS_NUM
                                 THEN "fetch" ELSE "befriend"]
      /\ UNCHANGED <<pool, flag, errno, recorded, master, at, outbox, blocks, dropped, failures>>
  BY DEF Befriend, masterVars
<1> HIDE DEF p
<1>5. QED
  BY <1>2, <1>3, <1>4

\* FetchTransaction moves the oldest transaction of the queue to the pool.
LEMMA FetchTransactionEffect ==
    ASSUME TypeOK, LoopState, NEW n \in Node, FetchTransaction(n)
    PROVE  \E p \in 1 .. Len(queue[n]) :
              /\ queue[n][p] \in TransactionMessage /\ queue[n][p].mtype = "TRANSACTION"
              /\ RemoveAt(queue[n], p) \in Seq(Message)
              /\ queue' = [queue EXCEPT ![n] = RemoveAt(queue[n], p)]
              /\ pool' = [pool EXCEPT ![n] = Append(pool[n], queue[n][p])]
              /\ pc[n] = "fetch" /\ flag[n] < ForwardEvery
              /\ pc' = [pc EXCEPT ![n] = "newFriend"]
              /\ UNCHANGED <<friends, flag, errno, recorded, master, at, outbox, blocks, dropped,
                             failures>>
<1>1. Waiting(n, "TRANSACTION") # {}
  BY DEF FetchTransaction, Returns
<1> DEFINE p == Min(Waiting(n, "TRANSACTION"))
<1>2. /\ p \in 1 .. Len(queue[n])
      /\ queue[n][p] \in Message /\ queue[n][p].mtype = "TRANSACTION"
      /\ RemoveAt(queue[n], p) \in Seq(Message)
  BY <1>1, FirstWaiting
<1>3. queue[n][p] \in TransactionMessage
  BY <1>2, Messages
<1>4. ~ReceiveFails(n)
  BY DEF FetchTransaction, ReceiveFails, LoopState
<1>5. /\ queue' = [queue EXCEPT ![n] = RemoveAt(queue[n], p)]
      /\ pool' = [pool EXCEPT ![n] = Append(pool[n], queue[n][p])]
      /\ pc[n] = "fetch" /\ flag[n] < ForwardEvery
      /\ pc' = [pc EXCEPT ![n] = "newFriend"]
      /\ UNCHANGED <<friends, flag, errno, recorded, master, at, outbox, blocks, dropped, failures>>
  BY <1>4 DEF FetchTransaction, MayFetch, masterVars
<1> HIDE DEF p
<1>6. QED
  BY <1>2, <1>3, <1>5

\* FetchFriend takes the oldest friend message, or leaves ENOMSG in errno.
LEMMA FetchFriendEffect ==
    ASSUME TypeOK, LoopState, NEW n \in Node, FetchFriend(n)
    PROVE  /\ pc[n] = "newFriend" /\ pc' = [pc EXCEPT ![n] = "report"]
           /\ flag' = [flag EXCEPT ![n] = @ + 1]
           /\ \/ /\ Waiting(n, "FRIENDS") = {} /\ errno' = [errno EXCEPT ![n] = "ENOMSG"]
                 /\ UNCHANGED <<queue, friends>>
              \/ \E p \in 1 .. Len(queue[n]) :
                    /\ queue[n][p] \in Message /\ queue[n][p].mtype = "FRIENDS"
                    /\ queue[n][p].friend \in Node \cup {NoPid}
                    /\ p \in Waiting(n, "FRIENDS")
                    /\ \A k \in Waiting(n, "FRIENDS") : p <= k
                    /\ RemoveAt(queue[n], p) \in Seq(Message)
                    /\ queue' = [queue EXCEPT ![n] = RemoveAt(queue[n], p)]
                    /\ friends' = [friends EXCEPT ![n] = Append(friends[n], queue[n][p].friend)]
                    /\ UNCHANGED errno
           /\ UNCHANGED <<pool, recorded, master, at, outbox, blocks, dropped, failures>>
<1>1. /\ pc[n] = "newFriend" /\ pc' = [pc EXCEPT ![n] = "report"]
      /\ flag' = [flag EXCEPT ![n] = @ + 1]
      /\ UNCHANGED <<pool, recorded, master, at, outbox, blocks, dropped, failures>>
  BY DEF FetchFriend, masterVars
<1>2. ~ReceiveFails(n)
  BY <1>1 DEF ReceiveFails, LoopState
<1>3. CASE Waiting(n, "FRIENDS") = {}
  BY <1>1, <1>3 DEF FetchFriend
<1>4. CASE Waiting(n, "FRIENDS") # {}
  <2> DEFINE p == Min(Waiting(n, "FRIENDS"))
  <2>1. /\ p \in 1 .. Len(queue[n]) /\ p \in DOMAIN queue[n]
        /\ queue[n][p] \in Message /\ queue[n][p].mtype = "FRIENDS"
        /\ \A k \in Waiting(n, "FRIENDS") : p <= k
        /\ RemoveAt(queue[n], p) \in Seq(Message)
    BY <1>4, FirstWaiting
  <2>2. queue[n][p].friend \in Node \cup {NoPid} /\ p \in Waiting(n, "FRIENDS")
    BY <2>1, Messages DEF Waiting
  <2>3. /\ queue' = [queue EXCEPT ![n] = RemoveAt(queue[n], p)]
        /\ friends' = [friends EXCEPT ![n] = Append(friends[n], queue[n][p].friend)]
        /\ UNCHANGED errno
    BY <1>2, <1>4 DEF FetchFriend
  <2> HIDE DEF p
  <2>4. QED
    BY <1>1, <2>1, <2>2, <2>3
<1>5. QED
  BY <1>3, <1>4

\* A node forwards the oldest transaction of its pool, if any.
LEMMA ForwardEffect ==
    ASSUME TypeOK, FriendsReady, NEW n \in Node, Forward(n)
    PROVE  /\ pc[n] = "fetch" /\ flag' = [flag EXCEPT ![n] = 0]
           /\ UNCHANGED <<friends, errno, recorded, master, at, outbox, blocks, failures>>
           /\ \/ ForwardNothing(n)
              \/ ForwardToParent(n)
              \/ \E f \in InitialNode : ForwardToFriend(n, f)
              \/ ForwardToNobody(n, NoPid)
<1>1. /\ pc[n] = "fetch" /\ flag' = [flag EXCEPT ![n] = 0]
      /\ UNCHANGED <<friends, errno, recorded, master, at, outbox, blocks, failures>>
  BY DEF Forward, masterVars
<1>2. ASSUME NEW i \in FriendChoices(n),
             ForwardToFriend(n, friends[n][i]) \/ ForwardToNobody(n, friends[n][i])
      PROVE  \/ \E f \in InitialNode : ForwardToFriend(n, f)
             \/ ForwardToNobody(n, NoPid)
  <2>1. friends[n][i] \in InitialNode \cup {NoPid}
    BY <1>1, <1>2 DEF FriendsReady, Running, FriendChoices
  <2>2. ForwardToFriend(n, friends[n][i]) => friends[n][i] # NoPid
    BY DEF ForwardToFriend
  <2>3. ForwardToNobody(n, friends[n][i]) => friends[n][i] = NoPid
    BY DEF ForwardToNobody
  <2>4. QED
    BY <1>2, <2>1, <2>2, <2>3
<1>3. QED
  BY <1>1, <1>2 DEF Forward

\* ForwardToParent takes the oldest transaction of the pool to the master or drops it.
LEMMA ForwardToParentEffect ==
    ASSUME TypeOK, NEW n \in Node, ForwardToParent(n)
    PROVE  \E m \in TransactionMessage :
              /\ pool[n] # <<>> /\ pool[n][1] = m
              /\ pool' = [pool EXCEPT ![n] = Tail(pool[n])]
              /\ pc' = [pc EXCEPT ![n] = "report"]
              /\ \/ /\ queue' = [queue EXCEPT ![Master] = Append(queue[Master], m)]
                    /\ UNCHANGED dropped
                 \/ /\ dropped' = dropped \cup {[tx |-> m.tx, by |-> "hops"]}
                    /\ UNCHANGED queue
<1>1. pool[n] # <<>> /\ pool[n] \in Seq(TransactionMessage)
  BY DEF ForwardToParent, TypeOK
<1>2. Head(pool[n]) \in TransactionMessage /\ Head(pool[n]) = pool[n][1]
  BY <1>1, HeadTailProperties
<1>3. QED
  BY <1>1, <1>2 DEF ForwardToParent, Rest

\* ForwardToFriend takes it to a friend's queue, or to the end of the pool.
LEMMA ForwardToFriendEffect ==
    ASSUME TypeOK, NEW n \in Node, NEW f \in InitialNode, ForwardToFriend(n, f)
    PROVE  \E sent \in TransactionMessage :
              /\ pool[n] # <<>> /\ sent.tx = pool[n][1].tx
              /\ pool[n][1].mtype = "TRANSACTION" /\ sent.mtype = "TRANSACTION"
              /\ pc' = [pc EXCEPT ![n] = "report"]
              /\ \/ /\ HasQueue(f) /\ f # n
                    /\ queue' = [queue EXCEPT ![f] = Append(queue[f], sent)]
                    /\ pool' = [pool EXCEPT ![n] = Tail(pool[n])]
                 \/ /\ pool' = [pool EXCEPT ![n] = Append(Tail(pool[n]), sent)]
                    /\ UNCHANGED queue
              /\ UNCHANGED dropped
<1>1. pool[n] # <<>> /\ pool[n] \in Seq(TransactionMessage)
  BY DEF ForwardToFriend, TypeOK
<1>2. Head(pool[n]) \in TransactionMessage /\ Head(pool[n]) = pool[n][1]
  BY <1>1, HeadTailProperties
<1> DEFINE sent == [Head(pool[n]) EXCEPT !.hops = @ - 1]
<1>3. /\ sent \in TransactionMessage /\ sent.tx = pool[n][1].tx /\ sent.mtype = "TRANSACTION"
      /\ pool[n][1].mtype = "TRANSACTION"
  BY <1>2, HopLess DEF ForwardToFriend, TransactionMessage
<1>4. /\ pc' = [pc EXCEPT ![n] = "report"]
      /\ \/ /\ HasQueue(f) /\ f # n
            /\ queue' = [queue EXCEPT ![f] = Append(queue[f], sent)]
            /\ pool' = [pool EXCEPT ![n] = Tail(pool[n])]
         \/ /\ pool' = [pool EXCEPT ![n] = Append(Tail(pool[n]), sent)]
            /\ UNCHANGED queue
      /\ UNCHANGED dropped
  BY DEF ForwardToFriend, PutBack, Rest
<1> HIDE DEF sent
<1>5. QED
  BY <1>1, <1>3, <1>4

\* A due batch is the whole pool.
LEMMA MakeBlockEffect ==
    ASSUME TypeOK, BatchAtOnce, NEW n \in Node, MakeBlock(n)
    PROVE  /\ pc[n] = "block" /\ pc' = [pc EXCEPT ![n] = "fetch"]
           /\ DOMAIN pool[n] = 1 .. SO_BLOCK_SIZE - 1
           /\ pool' = [pool EXCEPT ![n] = <<>>]
           /\ \/ /\ blocks' = blocks \cup {Batch(n)} /\ UNCHANGED dropped
              \/ /\ dropped' = dropped \cup {[tx |-> t, by |-> "fork"] : t \in Batch(n)}
                 /\ UNCHANGED blocks
           /\ UNCHANGED <<queue, friends, flag, errno, recorded, master, at, outbox>>
<1>1. /\ pc[n] = "block" /\ pc' = [pc EXCEPT ![n] = "fetch"]
      /\ pool' = [pool EXCEPT ![n] = SubSeq(pool[n], SO_BLOCK_SIZE, Len(pool[n]))]
      /\ \/ /\ blocks' = blocks \cup {Batch(n)} /\ UNCHANGED dropped
         \/ /\ dropped' = dropped \cup {[tx |-> t, by |-> "fork"] : t \in Batch(n)}
            /\ UNCHANGED blocks
      /\ UNCHANGED <<queue, friends, flag, errno, recorded, master, at, outbox>>
  BY DEF MakeBlock, masterVars
<1>2. pool[n] \in Seq(TransactionMessage) /\ Len(pool[n]) = SO_BLOCK_SIZE - 1
  BY <1>1 DEF TypeOK, BatchAtOnce
<1>3. SubSeq(pool[n], SO_BLOCK_SIZE, Len(pool[n])) = <<>>
  BY <1>2, SubSeqEmpty, NodesAssumption DEF NodesAssumption
<1>4. DOMAIN pool[n] = 1 .. SO_BLOCK_SIZE - 1
  BY <1>2, LenProperties
<1>5. QED
  BY <1>1, <1>3, <1>4

\* The master's steps change nothing of a node but that it is forked; a queue
\* that does not exist yet gets no message.
LEMMA MasterEffect ==
    ASSUME TypeOK, SpawnOrder, MasterStep
    PROVE  /\ UNCHANGED <<pool, friends, flag, errno, blocks>>
           /\ \/ UNCHANGED pc
              \/ at \in Node /\ pc[at] = "none" /\ pc' = [pc EXCEPT ![at] = "forked"]
           /\ recorded \subseteq recorded'
           /\ \A d \in dropped' \ dropped : d.by = "listener"
           /\ \A n \in Node : pc[n] \in {"none", "forked"} => queue'[n] = queue[n]
<1>1. CASE SpawnInitial
  BY <1>1, SpawnEffect
<1>2. CASE RecordInitial
  BY <1>2 DEF RecordInitial, StorePid, nodeVars
<1>3. CASE StartFriendLists \/ SendFriendList
  BY <1>3 DEF StartFriendLists, SendFriendList, nodeVars
<1>4. CASE Deliver
  <2>1. PICK to \in Node \cup {NoPid}, friend \in Node \cup {NoPid} :
           /\ \/ UNCHANGED queue
              \/ /\ to \in Node /\ HasQueue(to)
                 /\ queue' = [queue EXCEPT ![to] = Append(queue[to], Friend(friend))]
           /\ UNCHANGED <<pool, friends, flag, errno, pc, recorded, blocks, dropped>>
    BY <1>4, DeliverEffect
  <2>2. \A n \in Node : pc[n] \in {"none", "forked"} => queue'[n] = queue[n]
    BY <2>1 DEF HasQueue, TypeOK
  <2>3. QED
    BY <2>1, <2>2
<1>5. CASE Listen
  <2> DEFINE m == Head(queue[Master])
  <2>1. /\ queue' = [queue EXCEPT ![Master] = Tail(queue[Master])]
        /\ dropped' = dropped \cup {[tx |-> m.tx, by |-> "listener"]}
        /\ \/ UNCHANGED pc
           \/ at \in Node /\ pc[at] = "none" /\ pc' = [pc EXCEPT ![at] = "forked"]
        /\ UNCHANGED <<pool, friends, flag, errno, recorded, blocks>>
    BY <1>5, ListenEffect
  <2>2. \A n \in Node : queue'[n] = queue[n]
    BY <2>1, Indices DEF TypeOK
  <2>3. \A d \in dropped' \ dropped : d.by = "listener"
    BY <2>1
  <2>4. QED
    BY <2>1, <2>2, <2>3
<1>6. CASE RecordExtra
  BY <1>6 DEF RecordExtra, StorePid, nodeVars
<1>7. QED
  BY <1>1, <1>2, <1>3, <1>4, <1>5, <1>6 DEF MasterStep

\* A node's steps leave the others where they are, and queues that do not
\* exist empty.
LEMMA NodeEffect ==
    ASSUME TypeOK, LoopState, FriendsReady, BatchAtOnce, NEW n \in Node, NodeStep(n)
    PROVE  /\ UNCHANGED <<recorded, master, at, outbox>>
           /\ pc[n] \notin {"none", "dead"}
           /\ \A k \in Node \ {n} :
                 /\ pool'[k] = pool[k] /\ friends'[k] = friends[k] /\ flag'[k] = flag[k]
                 /\ errno'[k] = errno[k] /\ pc'[k] = pc[k]
                 /\ pc[k] \in {"none", "forked"} => queue'[k] = queue[k]
<1>1. CASE CreateQueue(n)
  BY <1>1 DEF CreateQueue, nodeVars, masterVars, TypeOK
<1>2. CASE Befriend(n)
  <2>1. PICK p \in 1 .. Len(queue[n]) :
           /\ pc[n] = "befriend"
           /\ queue' = [queue EXCEPT ![n] = RemoveAt(queue[n], p)]
           /\ friends' = [friends EXCEPT ![n] = Append(friends[n], queue[n][p].friend)]
           /\ pc' = [pc EXCEPT ![n] = IF Len(friends[n]) + 1 = SO_FRIENDS_NUM
                                      THEN "fetch" ELSE "befriend"]
           /\ UNCHANGED <<pool, flag, errno, recorded, master, at, outbox>>
    BY <1>2, BefriendEffect
  <2>2. QED
    BY <2>1 DEF TypeOK
<1>3. CASE FetchTransaction(n)
  <2>1. PICK p \in 1 .. Len(queue[n]) :
           /\ pc[n] = "fetch" /\ pc' = [pc EXCEPT ![n] = "newFriend"]
           /\ queue' = [queue EXCEPT ![n] = RemoveAt(queue[n], p)]
           /\ pool' = [pool EXCEPT ![n] = Append(pool[n], queue[n][p])]
           /\ UNCHANGED <<friends, flag, errno, recorded, master, at, outbox>>
    BY <1>3, FetchTransactionEffect
  <2>2. QED
    BY <2>1 DEF TypeOK
<1>4. CASE FetchFriend(n)
  <2>1. /\ pc[n] = "newFriend" /\ pc' = [pc EXCEPT ![n] = "report"]
        /\ flag' = [flag EXCEPT ![n] = @ + 1]
        /\ UNCHANGED <<pool, recorded, master, at, outbox>>
    BY <1>4 DEF FetchFriend, masterVars
  <2>2. /\ UNCHANGED queue \/ \E s : queue' = [queue EXCEPT ![n] = s]
        /\ UNCHANGED friends \/ \E s : friends' = [friends EXCEPT ![n] = s]
        /\ UNCHANGED errno \/ \E s : errno' = [errno EXCEPT ![n] = s]
    BY <1>4 DEF FetchFriend, masterVars
  <2>3. QED
    BY <2>1, <2>2 DEF TypeOK
<1>5. CASE Forward(n)
  <2>1. /\ pc[n] = "fetch" /\ flag' = [flag EXCEPT ![n] = 0]
        /\ UNCHANGED <<friends, errno, recorded, master, at, outbox>>
    BY <1>5, ForwardEffect
  <2> DEFINE Others == \A k \in Node \ {n} :
                          /\ pool'[k] = pool[k] /\ pc'[k] = pc[k]
                          /\ pc[k] \in {"none", "forked"} => queue'[k] = queue[k]
  <2>2. ForwardNothing(n) => Others
    BY DEF ForwardNothing, TypeOK
  <2>3. ForwardToParent(n) => Others
    <3>1. /\ \E s : pool' = [pool EXCEPT ![n] = s]
          /\ pc' = [pc EXCEPT ![n] = "report"]
          /\ UNCHANGED queue \/ \E s : queue' = [queue EXCEPT ![Master] = s]
          => Others
      BY Indices DEF TypeOK
    <3>2. QED
      BY <3>1 DEF ForwardToParent
  <2>4. ASSUME NEW f \in InitialNode, ForwardToFriend(n, f) PROVE Others
    <3>1. /\ UNCHANGED queue \/ \E s : HasQueue(f) /\ queue' = [queue EXCEPT ![f] = s]
          /\ \E s : pool' = [pool EXCEPT ![n] = s]
          /\ pc' = [pc EXCEPT ![n] = "report"]
      BY <2>4 DEF ForwardToFriend
    <3>2. QED
      BY <3>1, Indices DEF HasQueue, TypeOK
  <2>5. ForwardToNobody(n, NoPid) => Others
    BY DEF ForwardToNobody, TypeOK
  <2>6. Others
    BY <1>5, <2>2, <2>3, <2>4, <2>5, ForwardEffect
  <2>7. QED
    BY <2>1, <2>6 DEF TypeOK
<1>6. CASE Report(n)
  BY <1>6 DEF Report, masterVars, TypeOK
<1>7. CASE MakeBlock(n)
  BY <1>7, MakeBlockEffect DEF TypeOK
<1>8. QED
  BY <1>1, <1>2, <1>3, <1>4, <1>5, <1>6, <1>7 DEF NodeStep

-------------------------------------------------------------------------------
(* The parts of the invariant about one node at a time. *)

LocalOK(n) ==
    /\ pc[n] \in {"none", "forked"} => queue[n] = <<>> /\ friends[n] = <<>>
    /\ pc[n] \in {"none", "forked", "befriend"} =>
          pool[n] = <<>> /\ Len(friends[n]) < SO_FRIENDS_NUM
    /\ pc[n] = "newFriend" => flag[n] < ForwardEvery
    /\ errno[n] = "ENOMSG" => pc[n] = "report"
    /\ pc[n] = "block" => Len(pool[n]) = SO_BLOCK_SIZE - 1
    /\ Len(pool[n]) < SO_BLOCK_SIZE
    /\ pc[n] = "fetch" => Len(pool[n]) < SO_BLOCK_SIZE - 1

LocalParts == BeforeMainLoop /\ LoopState /\ BatchAtOnce /\ PoolBelowBatch

\* The parts of the invariant about one node at a time, node by node,
LEMMA LocalPartsOK == LocalParts <=> \A n \in Node : LocalOK(n)
BY DEF LocalParts, BeforeMainLoop, LoopState, BatchAtOnce, PoolBelowBatch, LocalOK

\* ... and after a step.
LEMMA LocalPartsOKNext == LocalParts' <=> \A n \in Node : LocalOK(n)'
BY DEF LocalParts, BeforeMainLoop, LoopState, BatchAtOnce, PoolBelowBatch, LocalOK

\* A node's own steps.
LEMMA LocalNodeStep ==
    ASSUME NodesInv, NEW n \in Node, NodeStep(n)
    PROVE  LocalOK(n)'
<1>1. LocalOK(n) /\ TypeOK /\ LoopState /\ FriendsReady /\ BatchAtOnce
  BY LocalPartsOK DEF LocalParts, NodesInv
<1>2. /\ Len(pool[n]) \in Nat /\ Len(friends[n]) \in Nat /\ SO_BLOCK_SIZE \in Nat
      /\ SO_BLOCK_SIZE >= 2 /\ SO_FRIENDS_NUM \in Nat \ {0}
  BY <1>1, LenProperties, NodesAssumption DEF NodesAssumption, TypeOK
<1>3. CASE CreateQueue(n)
  BY <1>1, <1>3 DEF CreateQueue, nodeVars, LocalOK, TypeOK
<1>4. CASE Befriend(n)
  <2>1. PICK p \in 1 .. Len(queue[n]) :
           /\ queue[n][p].friend \in Node \cup {NoPid}
           /\ friends' = [friends EXCEPT ![n] = Append(friends[n], queue[n][p].friend)]
           /\ pc[n] = "befriend"
           /\ pc' = [pc EXCEPT ![n] = IF Len(friends[n]) + 1 = SO_FRIENDS_NUM
                                      THEN "fetch" ELSE "befriend"]
           /\ UNCHANGED <<pool, flag, errno>>
    BY <1>1, <1>4, BefriendEffect
  <2>2. friends'[n] = Append(friends[n], queue[n][p].friend)
    BY <1>1, <2>1 DEF TypeOK
  <2>3. Len(friends'[n]) = Len(friends[n]) + 1
    BY <1>1, <2>1, <2>2, AppendProperties DEF TypeOK
  <2>4. pool'[n] = <<>> /\ Len(pool'[n]) = 0 /\ errno'[n] # "ENOMSG"
    BY <1>1, <2>1 DEF LocalOK
  <2>5. pc'[n] = "fetch" \/ (pc'[n] = "befriend" /\ Len(friends[n]) + 1 # SO_FRIENDS_NUM)
    BY <1>1, <2>1 DEF TypeOK
  <2>6. Len(friends[n]) < SO_FRIENDS_NUM
    BY <1>1, <2>1 DEF LocalOK
  <2>7. QED
    BY <1>2, <2>3, <2>4, <2>5, <2>6 DEF LocalOK
<1>5. CASE FetchTransaction(n)
  <2>1. PICK p \in 1 .. Len(queue[n]) :
           /\ queue[n][p] \in TransactionMessage
           /\ pool' = [pool EXCEPT ![n] = Append(pool[n], queue[n][p])]
           /\ pc[n] = "fetch" /\ flag[n] < ForwardEvery
           /\ pc' = [pc EXCEPT ![n] = "newFriend"]
           /\ UNCHANGED <<flag, errno>>
    BY <1>1, <1>5, FetchTransactionEffect
  <2>2. pool'[n] = Append(pool[n], queue[n][p]) /\ pc'[n] = "newFriend"
    BY <1>1, <2>1 DEF TypeOK
  <2>3. Len(pool'[n]) = Len(pool[n]) + 1
    BY <1>1, <2>1, <2>2, AppendProperties DEF TypeOK
  <2>4. QED
    BY <1>1, <1>2, <2>1, <2>2, <2>3 DEF LocalOK
<1>6. CASE FetchFriend(n)
  <2>1. pc[n] = "newFriend" /\ pc'[n] = "report" /\ UNCHANGED pool
    BY <1>1, <1>6 DEF FetchFriend, TypeOK
  <2>2. QED
    BY <1>1, <2>1 DEF LocalOK
<1>7. CASE Forward(n)
  <2>1. pc[n] = "fetch" /\ UNCHANGED errno
    BY <1>7 DEF Forward
  <2>2. pc'[n] \in {"report", "dead"} /\ Len(pool'[n]) <= Len(pool[n])
    <3>1. CASE ForwardNothing(n)
      <4>1. pool'[n] = pool[n] /\ pc'[n] = "report"
        BY <1>1, <3>1 DEF ForwardNothing, TypeOK
      <4>2. QED
        BY <1>2, <4>1
    <3>2. ASSUME pool[n] # <<>>
          PROVE  Tail(pool[n]) \in Seq(TransactionMessage) /\ Len(Tail(pool[n])) = Len(pool[n]) - 1
      BY <1>1, <3>2, HeadTailProperties DEF TypeOK
    <3>3. CASE ForwardToParent(n)
      <4>1. /\ pool[n] # <<>> /\ pool' = [pool EXCEPT ![n] = Tail(pool[n])]
            /\ pc' = [pc EXCEPT ![n] = "report"]
        BY <1>1, <3>3, ForwardToParentEffect
      <4>2. pool'[n] = Tail(pool[n]) /\ pc'[n] = "report"
        BY <1>1, <4>1 DEF TypeOK
      <4>3. QED
        BY <1>2, <3>2, <4>1, <4>2
    <3>4. ASSUME NEW f \in InitialNode, ForwardToFriend(n, f)
          PROVE  pc'[n] \in {"report", "dead"} /\ Len(pool'[n]) <= Len(pool[n])
      <4>1. PICK sent \in TransactionMessage :
               /\ pool[n] # <<>> /\ pc' = [pc EXCEPT ![n] = "report"]
               /\ \/ pool' = [pool EXCEPT ![n] = Tail(pool[n])]
                  \/ pool' = [pool EXCEPT ![n] = Append(Tail(pool[n]), sent)]
        BY <1>1, <3>4, ForwardToFriendEffect
      <4>2. Len(Append(Tail(pool[n]), sent)) = Len(Tail(pool[n])) + 1
        BY <3>2, <4>1, AppendProperties
      <4>3. /\ pool'[n] = Tail(pool[n]) \/ pool'[n] = Append(Tail(pool[n]), sent)
            /\ pc'[n] = "report"
        BY <1>1, <4>1 DEF TypeOK
      <4>4. /\ Len(pool'[n]) \in {Len(Tail(pool[n])), Len(Append(Tail(pool[n]), sent))}
            /\ Len(Tail(pool[n])) = Len(pool[n]) - 1
        BY <3>2, <4>1, <4>3, Zenon
      <4> DEFINE longer == Append(Tail(pool[n]), sent)
      <4> HIDE DEF longer
      <4>5. Len(longer) = Len(pool[n])
        BY <1>2, <4>2, <4>4 DEF longer
      <4>6. Len(pool'[n]) \in {Len(Tail(pool[n])), Len(longer)}
        BY <4>4 DEF longer
      <4>7. QED
        BY <1>2, <4>3, <4>4, <4>5, <4>6
    <3>5. CASE ForwardToNobody(n, NoPid)
      <4>1. pool'[n] = <<>> /\ pc'[n] = "dead"
        BY <1>1, <3>5 DEF ForwardToNobody, TypeOK
      <4>2. Len(pool'[n]) = 0
        BY <4>1
      <4>3. QED
        BY <1>2, <4>1, <4>2
    <3>6. QED
      BY <1>1, <1>7, <3>1, <3>3, <3>4, <3>5, ForwardEffect
  <2>3. Len(pool'[n]) < SO_BLOCK_SIZE /\ errno'[n] # "ENOMSG"
    <3>1. TypeOK'
      BY <1>1, NodeTypeStep
    <3>2. Len(pool'[n]) \in Nat
      BY <3>1, LenProperties DEF TypeOK
    <3>3. QED
      BY <1>1, <1>2, <2>1, <2>2, <3>2 DEF LocalOK
  <2>4. QED
    BY <2>2, <2>3 DEF LocalOK
<1>8. CASE Report(n)
  <2>1. /\ pc'[n] = IF BatchDue(n) THEN "block" ELSE "fetch"
        /\ errno'[n] = "EFBIG" /\ UNCHANGED pool
    BY <1>1, <1>8 DEF Report, TypeOK, ErrnoAfterSemop
  <2>2. QED
    BY <1>1, <1>2, <2>1 DEF LocalOK, BatchDue
<1>9. CASE MakeBlock(n)
  <2>1. /\ pc[n] = "block" /\ pc'[n] = "fetch" /\ pool'[n] = <<>> /\ errno'[n] = errno[n]
    BY <1>1, <1>9, MakeBlockEffect DEF TypeOK
  <2>2. QED
    BY <1>1, <1>2, <2>1 DEF LocalOK
<1>10. QED
  BY <1>3, <1>4, <1>5, <1>6, <1>7, <1>8, <1>9 DEF NodeStep

\* Every step preserves the parts of the invariant about one node at a time.
LEMMA LocalStep == NodesInv /\ [Next]_vars => LocalParts' /\ NothingLostOnReceive'
<1> SUFFICES ASSUME NodesInv, [Next]_vars PROVE LocalParts' /\ NothingLostOnReceive'
  OBVIOUS
<1>1. /\ TypeOK /\ SpawnOrder /\ LoopState /\ FriendsReady /\ BatchAtOnce
      /\ NothingLostOnReceive /\ \A n \in Node : LocalOK(n)
  BY LocalPartsOK DEF LocalParts, NodesInv
<1>2. CASE MasterStep
  <2>1. /\ UNCHANGED <<pool, friends, flag, errno>>
        /\ \/ UNCHANGED pc
           \/ at \in Node /\ pc[at] = "none" /\ pc' = [pc EXCEPT ![at] = "forked"]
        /\ \A d \in dropped' \ dropped : d.by = "listener"
        /\ \A n \in Node : pc[n] \in {"none", "forked"} => queue'[n] = queue[n]
    BY <1>1, <1>2, MasterEffect
  <2>2. ASSUME NEW n \in Node PROVE LocalOK(n)'
    <3>1. LocalOK(n)
      BY <1>1
    <3>2. pc'[n] = pc[n] \/ (pc[n] = "none" /\ pc'[n] = "forked")
      BY <1>1, <2>1 DEF TypeOK
    <3>3. QED
      BY <2>1, <3>1, <3>2 DEF LocalOK
  <2>3. NothingLostOnReceive'
    BY <1>1, <2>1 DEF NothingLostOnReceive
  <2>4. QED
    BY <2>2, <2>3, LocalPartsOKNext
<1>3. ASSUME NEW n \in Node, NodeStep(n) PROVE LocalParts' /\ NothingLostOnReceive'
  <2>1. ASSUME NEW k \in Node \ {n} PROVE LocalOK(k)'
    <3>1. LocalOK(k)
      BY <1>1
    <3>2. /\ pool'[k] = pool[k] /\ friends'[k] = friends[k] /\ flag'[k] = flag[k]
          /\ errno'[k] = errno[k] /\ pc'[k] = pc[k]
          /\ pc[k] \in {"none", "forked"} => queue'[k] = queue[k]
      BY <1>1, <1>3, NodeEffect
    <3>3. QED
      BY <3>1, <3>2 DEF LocalOK
  <2>2. LocalOK(n)'
    BY <1>3, LocalNodeStep
  <2>3. \A d \in dropped' \ dropped : d.by # "receive"
    <3>1. CASE FetchTransaction(n)
      BY <1>1, <3>1, FetchTransactionEffect
    <3>2. CASE ~FetchTransaction(n)
      BY <1>3, <3>2 DEF NodeStep, CreateQueue, Befriend, FetchFriend, Forward, ForwardNothing,
                        ForwardToParent, ForwardToFriend, ForwardToNobody, Report, MakeBlock
    <3>3. QED
      BY <3>1, <3>2
  <2>4. NothingLostOnReceive'
    BY <1>1, <2>3 DEF NothingLostOnReceive
  <2>5. QED
    BY <2>1, <2>2, <2>4, LocalPartsOKNext
<1>4. ASSUME NEW t \in Tx, NEW n \in Node, Send(t, n) PROVE LocalParts' /\ NothingLostOnReceive'
  <2>1. /\ HasQueue(n)
        /\ queue' = [queue EXCEPT ![n] = Append(queue[n], Transaction(t, SO_HOPS))]
        /\ UNCHANGED <<pool, friends, flag, errno, pc, dropped>>
    BY <1>4 DEF Send, nodeVars
  <2>2. ASSUME NEW k \in Node PROVE LocalOK(k)'
    <3>1. LocalOK(k) /\ (pc[k] \in {"none", "forked"} => queue'[k] = queue[k])
      BY <1>1, <2>1 DEF HasQueue, TypeOK
    <3>2. QED
      BY <2>1, <3>1 DEF LocalOK
  <2>3. QED
    BY <1>1, <2>1, <2>2, LocalPartsOKNext DEF NothingLostOnReceive
<1>5. CASE UNCHANGED vars
  <2>1. \A n \in Node : LocalOK(n)'
    BY <1>1, <1>5 DEF vars, LocalOK
  <2>2. QED
    BY <1>1, <1>5, <2>1, LocalPartsOKNext DEF vars, NothingLostOnReceive
<1>6. QED
  BY <1>2, <1>3, <1>4, <1>5 DEF Next

-------------------------------------------------------------------------------
(* The master's loops. *)

\* What the master's steps other than Deliver do to its place in them.
LEMMA MasterOrderStep ==
    ASSUME TypeOK, SpawnOrder, MasterStep
    PROVE  SpawnOrder'
<1> DEFINE N == SO_NODES_NUM
<1>1. N \in Nat \ {0} /\ at \in 0 .. 2 * N /\ Node \subseteq Nat /\ DOMAIN pc = Node
  <2>1. N \in Nat \ {0} /\ Node \subseteq Nat
    BY NodesAssumption, Indices DEF NodesAssumption
  <2>2. at \in 0 .. 2 * N /\ DOMAIN pc = Node
    BY DEF TypeOK
  <2>3. QED
    BY <2>1, <2>2
<1>2. \A n \in Node : n \in InitialNode <=> n < N
  BY Indices
<1>3. \A n \in Node : Unspawned(n) => pc[n] = "none"
  BY DEF SpawnOrder
<1>4. CASE SpawnInitial
  <2>1. /\ master = "spawn" /\ at < N /\ outbox' = outbox /\ outbox = <<>>
        /\ \/ /\ master' = "record" /\ UNCHANGED at
              /\ pc' = [pc EXCEPT ![at] = "forked"]
           \/ at' = at + 1 /\ UNCHANGED <<pc, master>>
    BY <1>4, SpawnEffect DEF SpawnOrder
  <2>2. ASSUME NEW n \in Node, Unspawned(n)' PROVE pc'[n] = "none"
    <3>1. Unspawned(n) /\ (UNCHANGED pc \/ n # at)
      BY <1>1, <1>2, <2>1, <2>2 DEF Unspawned
    <3>2. QED
      BY <1>1, <1>3, <2>1, <3>1
  <2>3. QED
    BY <1>1, <2>1, <2>2 DEF SpawnOrder
<1>5. CASE RecordInitial
  <2>1. /\ master = "record" /\ at < N /\ outbox' = outbox /\ outbox = <<>>
        /\ master' = "spawn" /\ at' = at + 1 /\ UNCHANGED pc
    BY <1>5 DEF RecordInitial, SpawnOrder
  <2>2. ASSUME NEW n \in Node, Unspawned(n)' PROVE Unspawned(n)
    BY <1>1, <1>2, <2>1, <2>2 DEF Unspawned
  <2>3. QED
    BY <1>1, <1>3, <2>1, <2>2 DEF SpawnOrder
<1>6. CASE StartFriendLists
  <2>1. /\ master = "spawn" /\ at = N /\ outbox' = outbox /\ outbox = <<>>
        /\ master' = "lists" /\ at' = 0 /\ UNCHANGED pc
    BY <1>6 DEF StartFriendLists, SpawnOrder
  <2>2. ASSUME NEW n \in Node, Unspawned(n)' PROVE Unspawned(n)
    BY <1>1, <1>2, <2>1, <2>2 DEF Unspawned
  <2>3. QED
    BY <1>1, <1>3, <2>1, <2>2 DEF SpawnOrder
<1>7. CASE SendFriendList
  <2>1. master = "lists" /\ at < N /\ master' = "mail" /\ at' = at + 1 /\ UNCHANGED pc
    BY <1>7 DEF SendFriendList, SpawnOrder
  <2>2. ASSUME NEW n \in Node, Unspawned(n)' PROVE Unspawned(n)
    BY <1>1, <1>2, <2>1, <2>2 DEF Unspawned
  <2>3. QED
    BY <1>1, <1>3, <2>1, <2>2 DEF SpawnOrder
<1>8. CASE Deliver
  <2>1. /\ Len(outbox) \in Nat \ {0} /\ UNCHANGED <<pc, at>>
        /\ master' = IF Len(outbox) > 1 THEN "mail"
                     ELSE IF at < SO_NODES_NUM THEN "lists" ELSE "listen"
        /\ (Len(outbox) = 1 => outbox' = <<>>)
    BY <1>8, DeliverEffect
  <2>2. master = "mail" /\ at > 0
    BY <1>8 DEF Deliver, SpawnOrder
  <2>3. ASSUME NEW n \in Node, Unspawned(n)' PROVE Unspawned(n)
    BY <1>1, <1>2, <2>1, <2>2, <2>3 DEF Unspawned
  <2>4. master' # "mail" => outbox' = <<>>
    <3>1. Len(outbox) > 1 => master' = "mail"
      BY <2>1
    <3>2. ~ (Len(outbox) > 1) => Len(outbox) = 1
      BY <2>1
    <3>3. QED
      BY <2>1, <3>1, <3>2, Zenon
  <2>5. QED
    BY <1>1, <1>3, <2>1, <2>2, <2>3, <2>4 DEF SpawnOrder
<1>9. CASE Listen
  <2>1. /\ master = "listen" /\ UNCHANGED <<at, outbox>> /\ at >= N /\ outbox = <<>>
        /\ \/ master' = "gone" /\ UNCHANGED pc
           \/ master' = "recordExtra" /\ at < 2 * N /\ pc' = [pc EXCEPT ![at] = "forked"]
    BY <1>9, ListenEffect DEF SpawnOrder
  <2>2. ASSUME NEW n \in Node, Unspawned(n)' PROVE pc'[n] = "none"
    <3>1. Unspawned(n) /\ (UNCHANGED pc \/ n # at)
      BY <1>1, <1>2, <2>1, <2>2 DEF Unspawned
    <3>2. QED
      BY <1>1, <1>3, <2>1, <3>1
  <2>3. QED
    BY <1>1, <2>1, <2>2 DEF SpawnOrder
<1>10. CASE RecordExtra
  <2>1. /\ master = "recordExtra" /\ at >= N /\ at < 2 * N
        /\ master' = "mail" /\ at' = at + 1 /\ UNCHANGED pc
    BY <1>10 DEF RecordExtra, SpawnOrder
  <2>2. ASSUME NEW n \in Node, Unspawned(n)' PROVE Unspawned(n)
    BY <1>1, <1>2, <2>1, <2>2 DEF Unspawned
  <2>3. QED
    BY <1>1, <1>3, <2>1, <2>2 DEF SpawnOrder
<1>11. QED
  BY <1>4, <1>5, <1>6, <1>7, <1>8, <1>9, <1>10 DEF MasterStep

\* Nobody else moves the master or forks a node.
LEMMA SpawnOrderStep == NodesInv /\ [Next]_vars => SpawnOrder'
<1> SUFFICES ASSUME NodesInv, [Next]_vars PROVE SpawnOrder'
  OBVIOUS
<1>1. TypeOK /\ SpawnOrder /\ LoopState /\ FriendsReady /\ BatchAtOnce
  BY DEF NodesInv
<1>2. ASSUME NEW n \in Node, NodeStep(n) PROVE SpawnOrder'
  <2>1. /\ UNCHANGED <<recorded, master, at, outbox>> /\ pc[n] # "none"
        /\ \A k \in Node \ {n} : pc'[k] = pc[k]
    BY <1>1, <1>2, NodeEffect
  <2>2. \A k \in Node : Unspawned(k)' <=> Unspawned(k)
    BY <2>1 DEF Unspawned
  <2>3. QED
    BY <1>1, <2>1, <2>2 DEF SpawnOrder
<1>3. CASE UNCHANGED <<pc, master, at, outbox>>
  BY <1>1, <1>3 DEF SpawnOrder, Unspawned
<1>4. QED
  BY <1>1, <1>2, <1>3, MasterOrderStep DEF Next, Send, masterVars, vars

-------------------------------------------------------------------------------
(* Friend messages: how many a node has had when it gets to one. *)

\* Removing a message from a queue removes it from those before any other.
LEMMA FriendsRemoved ==
    ASSUME NEW s \in Seq(Message), NEW p \in 1 .. Len(s), NEW j \in 1 .. Len(s)
    PROVE  /\ IsFiniteSet(FriendsBefore(s, Before(p, j)))
           /\ Cardinality(FriendsBefore(RemoveAt(s, p), j))
                 = Cardinality(FriendsBefore(s, Before(p, j)) \ {p})
<1> DEFINE K == FriendsBefore(s, Before(p, j)) \ {p}
           shifted == {k \in 1 .. Len(s) - 1 : Before(p, k) \in K}
<1>1. Len(s) \in Nat /\ DOMAIN s = 1 .. Len(s)
  BY LenProperties
<1>2. /\ RemoveAt(s, p) \in Seq(Message)
      /\ DOMAIN RemoveAt(s, p) = 1 .. Len(s) - 1
      /\ \A k \in 1 .. Len(s) - 1 : RemoveAt(s, p)[k] = s[Before(p, k)]
  BY RemoveAtProperties, LenProperties
<1>3. K \in SUBSET (1 .. Len(s)) /\ p \notin K
  BY <1>1 DEF FriendsBefore
<1>4. \A k \in 1 .. Len(s) - 1 :
         /\ Before(p, k) \in 1 .. Len(s) /\ Before(p, k) # p
         /\ Before(p, k) < Before(p, j) <=> k < j
  BY <1>1 DEF Before
<1>5. FriendsBefore(RemoveAt(s, p), j) = shifted
  BY <1>1, <1>2, <1>4 DEF FriendsBefore
<1>6. Cardinality(shifted) = Cardinality(K)
  <2> HIDE DEF K
  <2>1. QED
    BY <1>1, <1>3, ShiftedPositions
<1>7. IsFiniteSet(FriendsBefore(s, Before(p, j)))
  <2>1. FriendsBefore(s, Before(p, j)) \subseteq 1 .. Len(s)
    BY <1>1 DEF FriendsBefore
  <2>2. QED
    BY <1>1, <2>1, PositionsFinite
<1>8. QED
  BY <1>5, <1>6, <1>7

\* A message that arrives is behind all others.
LEMMA FriendsAppended ==
    ASSUME NEW s \in Seq(Message), NEW m \in Message
    PROVE  /\ \A j \in 1 .. Len(s) + 1 : FriendsBefore(Append(s, m), j) = FriendsBefore(s, j)
           /\ FriendsBefore(Append(s, m), Len(s) + 2) =
                 FriendsBefore(s, Len(s) + 1)
                     \cup IF m.mtype = "FRIENDS" THEN {Len(s) + 1} ELSE {}
           /\ IsFiniteSet(FriendsBefore(s, Len(s) + 1))
<1>1. Len(s) \in Nat /\ DOMAIN s = 1 .. Len(s)
  BY LenProperties
<1>2. /\ DOMAIN Append(s, m) = 1 .. Len(s) + 1
      /\ \A k \in 1 .. Len(s) : Append(s, m)[k] = s[k]
      /\ Append(s, m)[Len(s) + 1] = m
  BY AppendProperties, LenProperties
<1>3. \A j \in 1 .. Len(s) + 1 : FriendsBefore(Append(s, m), j) = FriendsBefore(s, j)
  BY <1>1, <1>2 DEF FriendsBefore
<1>4. FriendsBefore(Append(s, m), Len(s) + 2) =
         FriendsBefore(s, Len(s) + 1) \cup IF m.mtype = "FRIENDS" THEN {Len(s) + 1} ELSE {}
  BY <1>1, <1>2 DEF FriendsBefore
<1>5. FriendsBefore(s, Len(s) + 1) \subseteq 1 .. Len(s)
  BY <1>1 DEF FriendsBefore
<1>6. IsFiniteSet(FriendsBefore(s, Len(s) + 1))
  BY <1>1, <1>5, PositionsFinite
<1>7. QED
  BY <1>3, <1>4, <1>6

\* What a step may do to the queue and the friends of a node.
Untouched(n) == queue'[n] = queue[n] /\ friends'[n] = friends[n]

Gets(n, m) == queue'[n] = Append(queue[n], m) /\ friends'[n] = friends[n]

Fetches(n, p) ==
    /\ p \in 1 .. Len(queue[n]) /\ queue[n][p].mtype = "TRANSACTION"
    /\ queue'[n] = RemoveAt(queue[n], p) /\ friends'[n] = friends[n]

TakesFriend(n, p) ==
    /\ p \in Waiting(n, "FRIENDS") /\ \A k \in Waiting(n, "FRIENDS") : p <= k
    /\ queue'[n] = RemoveAt(queue[n], p)
    /\ friends'[n] = Append(friends[n], queue[n][p].friend)

Leaves(n) == queue'[n] = <<>> /\ friends'[n] = friends[n] /\ pc'[n] = "dead"

\* A message's friend messages before it are never lost: they are before it
\* still, or friends by now.
FriendsKept(n) ==
    /\ FriendsUpTo(n, Len(queue[n]) + 1)' >= FriendsUpTo(n, Len(queue[n]) + 1)
    /\ \A j \in DOMAIN queue'[n] :
          queue'[n][j].mtype = "FRIENDS" =>
              \E p \in DOMAIN queue[n] :
                  /\ queue[n][p] = queue'[n][j]
                  /\ FriendsUpTo(n, j)' >= FriendsUpTo(n, p)

\* The sequences of a node.
LEMMA NodeSequences ==
    ASSUME TypeOK, NEW n \in Node
    PROVE  /\ queue[n] \in Seq(Message) /\ Len(queue[n]) \in Nat
           /\ DOMAIN queue[n] = 1 .. Len(queue[n]) /\ Len(queue[n]) + 1 \in Nat
           /\ friends[n] \in Seq(Node \cup {NoPid}) /\ Len(friends[n]) \in Nat
           /\ DOMAIN friends[n] = 1 .. Len(friends[n])
           /\ pool[n] \in Seq(TransactionMessage) /\ Len(pool[n]) \in Nat
           /\ DOMAIN pool[n] = 1 .. Len(pool[n])
<1>1. /\ queue[n] \in Seq(Message) /\ friends[n] \in Seq(Node \cup {NoPid})
      /\ pool[n] \in Seq(TransactionMessage)
  BY DEF TypeOK
<1>2. QED
  BY <1>1, LenProperties

\* FriendsUpTo is a number.
LEMMA FriendsUpToType ==
    ASSUME TypeOK, NEW n \in Node, NEW j \in Nat
    PROVE  /\ Len(queue[n]) \in Nat /\ DOMAIN queue[n] = 1 .. Len(queue[n])
           /\ Len(friends[n]) \in Nat
           /\ IsFiniteSet(FriendsBefore(queue[n], j))
           /\ Cardinality(FriendsBefore(queue[n], j)) \in Nat
           /\ FriendsUpTo(n, j) \in Nat
<1>1. queue[n] \in Seq(Message) /\ friends[n] \in Seq(Node \cup {NoPid})
  BY DEF TypeOK
<1>2. /\ Len(queue[n]) \in Nat /\ DOMAIN queue[n] = 1 .. Len(queue[n])
      /\ Len(friends[n]) \in Nat
  BY <1>1, LenProperties
<1>3. FriendsBefore(queue[n], j) \subseteq 1 .. Len(queue[n])
  BY <1>2 DEF FriendsBefore
<1>4. IsFiniteSet(FriendsBefore(queue[n], j)) /\ Cardinality(FriendsBefore(queue[n], j)) \in Nat
  BY <1>2, <1>3, PositionsFinite
<1>5. QED
  BY <1>2, <1>4 DEF FriendsUpTo

\* The same after a step.
LEMMA TypesNext ==
    ASSUME TypeOK', NEW n \in Node
    PROVE  /\ Len(queue'[n]) \in Nat /\ DOMAIN queue'[n] = 1 .. Len(queue'[n])
           /\ Len(friends'[n]) \in Nat /\ DOMAIN friends'[n] = 1 .. Len(friends'[n])
           /\ \A j \in Nat : FriendsUpTo(n, j)' \in Nat
           /\ FriendsUpTo(n, Len(queue[n]) + 1)' \in Nat
<1>1. queue'[n] \in Seq(Message) /\ friends'[n] \in Seq(Node \cup {NoPid})
  BY DEF TypeOK
<1>2. /\ Len(queue'[n]) \in Nat /\ DOMAIN queue'[n] = 1 .. Len(queue'[n])
      /\ Len(friends'[n]) \in Nat /\ DOMAIN friends'[n] = 1 .. Len(friends'[n])
  BY <1>1, LenProperties
<1>3. ASSUME NEW j \in Nat
      PROVE  Len(friends'[n]) + Cardinality(FriendsBefore(queue'[n], j)) \in Nat
  <2>1. FriendsBefore(queue'[n], j) \subseteq 1 .. Len(queue'[n])
    BY <1>2 DEF FriendsBefore
  <2>2. Cardinality(FriendsBefore(queue'[n], j)) \in Nat
    BY <1>2, <2>1, PositionsFinite
  <2>3. QED
    BY <1>2, <2>2
<1>4. \A j \in Nat : FriendsUpTo(n, j)' \in Nat
  BY <1>3 DEF FriendsUpTo
<1>5. FriendsUpTo(n, Len(queue[n]) + 1)' \in Nat
  <2>1. Len(queue'[n]) + 1 \in Nat
    BY <1>2
  <2>2. QED
    BY <1>3, <2>1 DEF FriendsUpTo
<1>6. QED
  BY <1>2, <1>4, <1>5

\* Taking a message keeps the friend messages before the others.
LEMMA FetchKeepsFriends ==
    ASSUME TypeOK, NEW n \in Node, NEW p,
           Fetches(n, p) \/ TakesFriend(n, p)
    PROVE  FriendsKept(n)
<1> DEFINE s == queue[n]
<1>1. s \in Seq(Message) /\ friends[n] \in Seq(Node \cup {NoPid})
  BY DEF TypeOK
<1>2. Len(s) \in Nat /\ DOMAIN s = 1 .. Len(s) /\ Len(friends[n]) \in Nat
  BY <1>1, LenProperties
<1>3. p \in 1 .. Len(s) /\ queue'[n] = RemoveAt(s, p)
  BY <1>2 DEF Fetches, TakesFriend, Waiting
<1>4. /\ queue'[n] \in Seq(Message) /\ Len(queue'[n]) = Len(s) - 1
      /\ DOMAIN queue'[n] = 1 .. Len(s) - 1
      /\ \A k \in 1 .. Len(s) - 1 : queue'[n][k] = s[Before(p, k)]
  BY <1>1, <1>3, RemoveAtProperties, LenProperties
<1>5. ASSUME NEW j \in 1 .. Len(s)
      PROVE  FriendsUpTo(n, j)' >= FriendsUpTo(n, Before(p, j))
  <2> DEFINE B == FriendsBefore(s, Before(p, j))
  <2>1. /\ IsFiniteSet(B) /\ Cardinality(FriendsBefore(queue'[n], j)) = Cardinality(B \ {p})
    BY <1>1, <1>3, FriendsRemoved
  <2>2. /\ Cardinality(B) \in Nat /\ Cardinality(B \ {p}) \in Nat
        /\ Cardinality(B \ {p}) = IF p \in B THEN Cardinality(B) - 1 ELSE Cardinality(B)
    BY <2>1, FS_CardinalityType, FS_RemoveElement
  <2> HIDE DEF B, s
  <2>3. CASE Fetches(n, p)
    <3>1. p \notin B
      BY <2>3 DEF Fetches, B, FriendsBefore, s
    <3>2. QED
      BY <1>2, <2>1, <2>2, <2>3, <3>1 DEF Fetches, FriendsUpTo, B, s
  <2>4. CASE TakesFriend(n, p)
    <3>1. Len(friends'[n]) = Len(friends[n]) + 1
      <4>1. s[p].friend \in Node \cup {NoPid}
        BY <1>1, <1>3, <2>4, ElementOfSeq, Messages DEF TakesFriend, Waiting, s
      <4>2. QED
        BY <1>1, <2>4, <4>1, AppendProperties DEF TakesFriend, s
    <3>2. Cardinality(B \ {p}) >= Cardinality(B) - 1 /\ Cardinality(B \ {p}) \in Nat
      BY <2>2
    <3>3. QED
      BY <1>2, <2>1, <2>2, <3>1, <3>2 DEF FriendsUpTo, B, s
  <2>5. QED
    BY <2>3, <2>4
<1>6. FriendsUpTo(n, Len(queue[n]) + 1)' >= FriendsUpTo(n, Len(queue[n]) + 1)
  <2>1. PICK j \in 1 .. Len(s) : j = Len(s)
    BY <1>2, <1>3
  <2>2. Before(p, j) = Len(s) + 1 /\ Len(queue'[n]) + 1 = j
    BY <1>2, <1>3, <1>4, <2>1 DEF Before
  <2>3. FriendsUpTo(n, j)' >= FriendsUpTo(n, Len(s) + 1)
    BY <1>5, <2>2
  <2>4. QED
    BY <2>2, <2>3 DEF FriendsUpTo
<1>7. ASSUME NEW j \in DOMAIN queue'[n]
      PROVE  \E k \in DOMAIN queue[n] :
                queue[n][k] = queue'[n][j] /\ FriendsUpTo(n, j)' >= FriendsUpTo(n, k)
  <2>1. j \in 1 .. Len(s) /\ Before(p, j) \in DOMAIN s /\ queue'[n][j] = s[Before(p, j)]
    BY <1>2, <1>3, <1>4 DEF Before
  <2>2. QED
    BY <1>5, <2>1
<1>8. QED
  BY <1>6, <1>7 DEF FriendsKept

\* Neither does a message that arrives take anything away; a friend message
\* that does is one more.
LEMMA GetsKeepsFriends ==
    ASSUME TypeOK, NEW n \in Node, NEW m \in Message, Gets(n, m)
    PROVE  /\ FriendsUpTo(n, Len(queue[n]) + 1)' >=
                 FriendsUpTo(n, Len(queue[n]) + 1) + IF m.mtype = "FRIENDS" THEN 1 ELSE 0
           /\ \A j \in DOMAIN queue'[n] :
                 \/ /\ j \in DOMAIN queue[n] /\ queue[n][j] = queue'[n][j]
                    /\ FriendsUpTo(n, j)' = FriendsUpTo(n, j)
                 \/ /\ queue'[n][j] = m
                    /\ FriendsUpTo(n, j)' = FriendsUpTo(n, Len(queue[n]) + 1)
<1> DEFINE s == queue[n]
<1>1. s \in Seq(Message) /\ queue'[n] = Append(s, m) /\ friends'[n] = friends[n]
  BY DEF TypeOK, Gets
<1>2. Len(s) \in Nat /\ DOMAIN s = 1 .. Len(s) /\ Len(friends[n]) \in Nat
  BY <1>1, LenProperties, FriendsUpToType
<1>3. /\ Len(queue'[n]) = Len(s) + 1 /\ DOMAIN queue'[n] = 1 .. Len(s) + 1
      /\ \A k \in 1 .. Len(s) : queue'[n][k] = s[k]
      /\ queue'[n][Len(s) + 1] = m
  BY <1>1, AppendProperties, LenProperties
<1>4. /\ \A j \in 1 .. Len(s) + 1 : FriendsBefore(queue'[n], j) = FriendsBefore(s, j)
      /\ FriendsBefore(queue'[n], Len(s) + 2) =
            FriendsBefore(s, Len(s) + 1)
                \cup IF m.mtype = "FRIENDS" THEN {Len(s) + 1} ELSE {}
      /\ IsFiniteSet(FriendsBefore(s, Len(s) + 1))
  BY <1>1, FriendsAppended
<1>5. \A j \in 1 .. Len(s) + 1 : FriendsUpTo(n, j)' = FriendsUpTo(n, j)
  BY <1>1, <1>4 DEF FriendsUpTo
<1>6. Cardinality(FriendsBefore(queue'[n], Len(s) + 2)) =
         Cardinality(FriendsBefore(s, Len(s) + 1)) + IF m.mtype = "FRIENDS" THEN 1 ELSE 0
  <2>1. Len(s) + 1 \notin FriendsBefore(s, Len(s) + 1)
    BY <1>2 DEF FriendsBefore
  <2>2. Cardinality(FriendsBefore(s, Len(s) + 1)) \in Nat
    BY <1>4, FS_CardinalityType
  <2> DEFINE B == FriendsBefore(s, Len(s) + 1)
             l == Len(s) + 1
  <2> HIDE DEF B, l
  <2>3. Cardinality(B \cup {l}) = Cardinality(B) + 1
    BY <1>4, <2>1, FS_AddElement DEF B, l
  <2>4. CASE m.mtype = "FRIENDS"
    BY <1>4, <2>2, <2>3, <2>4 DEF B, l
  <2>5. CASE m.mtype # "FRIENDS"
    <3>1. FriendsBefore(queue'[n], Len(s) + 2) = B
      BY <1>4, <2>5 DEF B
    <3>2. QED
      BY <2>2, <2>5, <3>1 DEF B
  <2>6. QED
    BY <2>4, <2>5
<1>7. FriendsUpTo(n, Len(queue[n]) + 1)' >=
         FriendsUpTo(n, Len(queue[n]) + 1) + IF m.mtype = "FRIENDS" THEN 1 ELSE 0
  <2>1. Len(queue'[n]) + 1 = Len(s) + 2 /\ Cardinality(FriendsBefore(s, Len(s) + 1)) \in Nat
    BY <1>2, <1>3, <1>4, FS_CardinalityType
  <2>2. FriendsUpTo(n, Len(queue[n]) + 1)' =
           Len(friends[n]) + Cardinality(FriendsBefore(queue'[n], Len(s) + 2))
    BY <1>1, <2>1 DEF FriendsUpTo
  <2>3. QED
    BY <1>2, <1>6, <2>1, <2>2 DEF FriendsUpTo
<1>8. ASSUME NEW j \in DOMAIN queue'[n]
      PROVE  \/ /\ j \in DOMAIN queue[n] /\ queue[n][j] = queue'[n][j]
                /\ FriendsUpTo(n, j)' = FriendsUpTo(n, j)
             \/ /\ queue'[n][j] = m
                /\ FriendsUpTo(n, j)' = FriendsUpTo(n, Len(queue[n]) + 1)
  <2>1. CASE j \in 1 .. Len(s)
    BY <1>2, <1>3, <1>5, <2>1
  <2>2. CASE j = Len(s) + 1
    <3>1. FriendsUpTo(n, j)' = FriendsUpTo(n, j)
      BY <1>2, <1>5, <2>2
    <3>2. QED
      BY <1>3, <2>2, <3>1
  <2>3. QED
    BY <1>2, <1>3, <2>1, <2>2
<1>9. QED
  BY <1>7, <1>8

\* What nodes and users do to queues and friends; only Deliver sends a friend
\* message, and only Befriend takes a node to its main loop.
MailChange(n) ==
    \/ Untouched(n)
    \/ \E m \in TransactionMessage :
          Gets(n, m) /\ (n \in ExtraNode => m.hops = SO_HOPS)
    \/ \E p \in Nat : Fetches(n, p)
    \/ \E p \in Nat : TakesFriend(n, p)
    \/ Leaves(n)

EntersLoop(n) ==
    /\ pc[n] = "befriend" /\ Len(friends[n]) + 1 = SO_FRIENDS_NUM
    /\ \E p \in Nat : TakesFriend(n, p)

PlaceChange(n) ==
    /\ pc'[n] \in Running => pc[n] \in Running \/ EntersLoop(n)
    /\ pc[n] = "dead" => pc'[n] = "dead"

\* What a node's step does to the friends that nodes have and that wait in queues.
LEMMA NodeMailStep ==
    ASSUME TypeOK, LoopState, FriendsReady, BatchAtOnce, NEW k \in Node, NodeStep(k)
    PROVE  \A n \in Node : MailChange(n) /\ PlaceChange(n)
<1>1. /\ DOMAIN queue = Node \cup {Master} /\ DOMAIN friends = Node /\ DOMAIN pc = Node
      /\ Master \notin Node
  BY Indices DEF TypeOK
<1>2. \A n \in Node \ {k} : friends'[n] = friends[n] /\ pc'[n] = pc[n]
  BY NodeEffect
<1>3. \A n \in Node \ {k} : PlaceChange(n)
  BY <1>2 DEF PlaceChange
<1>4. CASE CreateQueue(k) \/ Report(k) \/ MakeBlock(k)
  <2>1. UNCHANGED <<queue, friends>>
    BY <1>4 DEF CreateQueue, Report, MakeBlock, nodeVars
  <2>2. pc'[k] \notin Running \/ pc[k] \in Running
    BY <1>1, <1>4 DEF CreateQueue, Report, MakeBlock, Running
  <2>3. pc[k] # "dead"
    BY <1>4 DEF CreateQueue, Report, MakeBlock
  <2>4. QED
    BY <1>3, <2>1, <2>2, <2>3 DEF MailChange, Untouched, PlaceChange
<1>5. CASE Befriend(k)
  <2>1. PICK p \in 1 .. Len(queue[k]) :
           /\ p \in Waiting(k, "FRIENDS") /\ \A j \in Waiting(k, "FRIENDS") : p <= j
           /\ queue' = [queue EXCEPT ![k] = RemoveAt(queue[k], p)]
           /\ friends' = [friends EXCEPT ![k] = Append(friends[k], queue[k][p].friend)]
           /\ pc[k] = "befriend"
           /\ pc' = [pc EXCEPT ![k] = IF Len(friends[k]) + 1 = SO_FRIENDS_NUM
                                      THEN "fetch" ELSE "befriend"]
    BY <1>5, BefriendEffect
  <2>2. p \in Nat /\ TakesFriend(k, p)
    BY <1>1, <2>1 DEF TakesFriend
  <2>3. \A n \in Node \ {k} : Untouched(n)
    BY <1>1, <1>2, <2>1 DEF Untouched
  <2>4. pc'[k] = "befriend" \/ (pc'[k] = "fetch" /\ Len(friends[k]) + 1 = SO_FRIENDS_NUM)
    BY <1>1, <2>1
  <2>5. PlaceChange(k)
    BY <2>1, <2>2, <2>4 DEF PlaceChange, EntersLoop, Running
  <2>6. QED
    BY <1>3, <2>2, <2>3, <2>5 DEF MailChange
<1>6. CASE FetchTransaction(k)
  <2>1. PICK p \in 1 .. Len(queue[k]) :
           /\ queue[k][p].mtype = "TRANSACTION"
           /\ queue' = [queue EXCEPT ![k] = RemoveAt(queue[k], p)]
           /\ pc[k] = "fetch" /\ UNCHANGED friends
    BY <1>6, FetchTransactionEffect
  <2>2. p \in Nat /\ Fetches(k, p) /\ PlaceChange(k)
    BY <1>1, <2>1 DEF Fetches, PlaceChange, Running
  <2>3. \A n \in Node \ {k} : Untouched(n)
    BY <1>1, <1>2, <2>1 DEF Untouched
  <2>4. QED
    BY <1>3, <2>2, <2>3 DEF MailChange
<1>7. CASE FetchFriend(k)
  <2>1. /\ pc[k] = "newFriend"
        /\ \/ UNCHANGED <<queue, friends>>
           \/ \E p \in 1 .. Len(queue[k]) :
                 /\ p \in Waiting(k, "FRIENDS") /\ \A j \in Waiting(k, "FRIENDS") : p <= j
                 /\ queue' = [queue EXCEPT ![k] = RemoveAt(queue[k], p)]
                 /\ friends' = [friends EXCEPT ![k] = Append(friends[k], queue[k][p].friend)]
    BY <1>7, FetchFriendEffect
  <2>2. PlaceChange(k)
    BY <2>1 DEF PlaceChange, Running
  <2>3. CASE UNCHANGED <<queue, friends>>
    BY <1>3, <2>2, <2>3 DEF MailChange, Untouched
  <2>4. ASSUME NEW p \in 1 .. Len(queue[k]),
               /\ p \in Waiting(k, "FRIENDS") /\ \A j \in Waiting(k, "FRIENDS") : p <= j
               /\ queue' = [queue EXCEPT ![k] = RemoveAt(queue[k], p)]
               /\ friends' = [friends EXCEPT ![k] = Append(friends[k], queue[k][p].friend)]
        PROVE  \A n \in Node : MailChange(n)
    <3>1. p \in Nat /\ TakesFriend(k, p)
      BY <1>1, <2>4 DEF TakesFriend
    <3>2. \A n \in Node \ {k} : Untouched(n)
      BY <1>1, <1>2, <2>4 DEF Untouched
    <3>3. QED
      BY <3>1, <3>2 DEF MailChange
  <2>5. QED
    BY <1>3, <2>1, <2>2, <2>3, <2>4
<1>8. CASE Forward(k)
  <2>1. /\ pc[k] = "fetch" /\ UNCHANGED friends
        /\ \/ ForwardNothing(k)
           \/ ForwardToParent(k)
           \/ \E f \in InitialNode : ForwardToFriend(k, f)
           \/ ForwardToNobody(k, NoPid)
    BY <1>8, ForwardEffect
  <2>2. PlaceChange(k)
    BY <2>1 DEF PlaceChange, Running
  <2>3. ASSUME ForwardNothing(k) PROVE \A n \in Node : MailChange(n)
    BY <2>1, <2>3 DEF ForwardNothing, MailChange, Untouched
  <2>4. ASSUME ForwardToParent(k) PROVE \A n \in Node : MailChange(n)
    <3>1. UNCHANGED queue \/ \E s : queue' = [queue EXCEPT ![Master] = s]
      BY <2>4 DEF ForwardToParent
    <3>2. \A n \in Node : Untouched(n)
      BY <1>1, <2>1, <3>1 DEF Untouched
    <3>3. QED
      BY <3>2 DEF MailChange
  <2>5. ASSUME NEW f \in InitialNode, ForwardToFriend(k, f)
        PROVE  \A n \in Node : MailChange(n)
    <3>1. PICK sent \in TransactionMessage :
             \/ queue' = [queue EXCEPT ![f] = Append(queue[f], sent)]
             \/ UNCHANGED queue
      BY <2>5, ForwardToFriendEffect
    <3>2. f \in Node /\ f \notin ExtraNode
      BY Indices
    <3>3. \A n \in Node : Untouched(n) \/ (n = f /\ Gets(n, sent))
      BY <1>1, <2>1, <3>1, <3>2 DEF Untouched, Gets
    <3>4. QED
      BY <3>2, <3>3 DEF MailChange
  <2>6. ASSUME ForwardToNobody(k, NoPid) PROVE \A n \in Node : MailChange(n)
    <3>1. queue' = [queue EXCEPT ![k] = <<>>] /\ pc' = [pc EXCEPT ![k] = "dead"]
      BY <2>6 DEF ForwardToNobody
    <3>2. Leaves(k) /\ \A n \in Node \ {k} : Untouched(n)
      BY <1>1, <2>1, <3>1 DEF Leaves, Untouched
    <3>3. QED
      BY <3>2 DEF MailChange
  <2>7. QED
    BY <1>3, <2>1, <2>2, <2>3, <2>4, <2>5, <2>6
<1>9. QED
  BY <1>4, <1>5, <1>6, <1>7, <1>8 DEF NodeStep

\* Nodes lose friend messages only when they exit.
LEMMA MailChangeKeeps ==
    ASSUME TypeOK, NEW n \in Node, MailChange(n)
    PROVE  FriendsKept(n) \/ Leaves(n)
<1>1. CASE Untouched(n)
  <2>1. \A j \in Nat : FriendsUpTo(n, j)' = FriendsUpTo(n, j) /\ FriendsUpTo(n, j) \in Nat
    BY <1>1, FriendsUpToType DEF Untouched, FriendsUpTo
  <2>2. Len(queue[n]) + 1 \in Nat /\ DOMAIN queue[n] \subseteq Nat
    BY NodeSequences
  <2>3. FriendsUpTo(n, Len(queue[n]) + 1)' = FriendsUpTo(n, Len(queue[n]) + 1)
    BY <1>1 DEF Untouched, FriendsUpTo
  <2>4. FriendsUpTo(n, Len(queue[n]) + 1)' >= FriendsUpTo(n, Len(queue[n]) + 1)
    BY <2>1, <2>2, <2>3
  <2>5. \A j \in DOMAIN queue[n] : FriendsUpTo(n, j)' >= FriendsUpTo(n, j)
    BY <2>1, <2>2
  <2>6. QED
    BY <1>1, <2>4, <2>5 DEF FriendsKept, Untouched
<1>2. ASSUME NEW m \in TransactionMessage, Gets(n, m) PROVE FriendsKept(n)
  <2>1. m \in Message /\ m.mtype = "TRANSACTION"
    BY Sent, Messages
  <2>2. /\ FriendsUpTo(n, Len(queue[n]) + 1)' >= FriendsUpTo(n, Len(queue[n]) + 1) + 0
        /\ \A j \in DOMAIN queue'[n] :
              \/ /\ j \in DOMAIN queue[n] /\ queue[n][j] = queue'[n][j]
                 /\ FriendsUpTo(n, j)' = FriendsUpTo(n, j)
              \/ queue'[n][j] = m
    BY <1>2, <2>1, GetsKeepsFriends
  <2>3. \A j \in DOMAIN queue[n] : FriendsUpTo(n, j) \in Nat
    BY FriendsUpToType
  <2>4. FriendsUpTo(n, Len(queue[n]) + 1) \in Nat
    BY NodeSequences, FriendsUpToType
  <2>5. FriendsUpTo(n, Len(queue[n]) + 1)' >= FriendsUpTo(n, Len(queue[n]) + 1)
    BY <2>2, <2>4
  <2>6. \A j \in DOMAIN queue'[n] :
           queue'[n][j].mtype = "FRIENDS" =>
               \E p \in DOMAIN queue[n] :
                   /\ queue[n][p] = queue'[n][j]
                   /\ FriendsUpTo(n, j)' >= FriendsUpTo(n, p)
    BY <2>1, <2>2, <2>3
  <2>7. QED
    BY <2>5, <2>6 DEF FriendsKept
<1>3. QED
  BY <1>1, <1>2, FetchKeepsFriends DEF MailChange

\* The parts of the invariant about lists of friends.
ListParts ==
    /\ MailForRecorded /\ KnowsItsIndex /\ ListBeforeNews /\ ListComplete
    /\ FriendsReady /\ ExtraFedByUsers

\* The friends a node has, and its messages with hops, after such a change.
LEMMA FriendsAfter ==
    ASSUME NodesInv, NEW n \in Node, MailChange(n), PlaceChange(n)
    PROVE  /\ \A i \in DOMAIN friends'[n] : i <= SO_FRIENDS_NUM => friends'[n][i] \in Drawn
           /\ pc'[n] \in Running => Len(friends'[n]) >= SO_FRIENDS_NUM /\ n \in recorded
           /\ n \in ExtraNode => \A m \in MessagesAt(n)' : m.hops = SO_HOPS
<1>1. /\ TypeOK /\ MailForRecorded /\ KnowsItsIndex /\ ListBeforeNews /\ FriendsReady
      /\ ExtraFedByUsers
  BY DEF NodesInv
<1>2. /\ queue[n] \in Seq(Message) /\ Len(queue[n]) \in Nat /\ DOMAIN queue[n] = 1 .. Len(queue[n])
      /\ friends[n] \in Seq(Node \cup {NoPid}) /\ Len(friends[n]) \in Nat
      /\ DOMAIN friends[n] = 1 .. Len(friends[n]) /\ SO_FRIENDS_NUM \in Nat
  BY <1>1, LenProperties, NodesAssumption DEF TypeOK, NodesAssumption
<1>3. ASSUME NEW p \in Nat, TakesFriend(n, p)
      PROVE  /\ Len(friends'[n]) = Len(friends[n]) + 1
             /\ DOMAIN friends'[n] = 1 .. Len(friends[n]) + 1
             /\ \A i \in 1 .. Len(friends[n]) : friends'[n][i] = friends[n][i]
             /\ friends'[n][Len(friends[n]) + 1] = queue[n][p].friend
             /\ p \in DOMAIN queue[n] /\ queue[n][p].mtype = "FRIENDS"
             /\ queue[n][p].friend \in Node \cup {NoPid}
             /\ FriendsUpTo(n, p) = Len(friends[n])
             /\ n \in recorded
  <2>1. /\ p \in DOMAIN queue[n] /\ queue[n][p].mtype = "FRIENDS"
        /\ queue[n][p].friend \in Node \cup {NoPid}
    BY <1>2, <1>3, ElementOfSeq, Messages DEF TakesFriend, Waiting
  <2>2. /\ Len(friends'[n]) = Len(friends[n]) + 1
        /\ DOMAIN friends'[n] = 1 .. Len(friends[n]) + 1
        /\ \A i \in 1 .. Len(friends[n]) : friends'[n][i] = friends[n][i]
        /\ friends'[n][Len(friends[n]) + 1] = queue[n][p].friend
    BY <1>2, <1>3, <2>1, AppendProperties, LenProperties DEF TakesFriend
  <2>3. FriendsBefore(queue[n], p) = {}
    BY <1>2, <1>3, <2>1 DEF FriendsBefore, TakesFriend, Waiting
  <2>4. FriendsUpTo(n, p) = Len(friends[n])
    BY <1>2, <2>3, FS_EmptySet DEF FriendsUpTo
  <2>5. n \in recorded
    BY <1>1, <1>3 DEF MailForRecorded, TakesFriend
  <2>6. QED
    BY <2>1, <2>2, <2>4, <2>5
<1>4. friends'[n] = friends[n] \/ \E p \in Nat : TakesFriend(n, p)
  BY DEF MailChange, Untouched, Gets, Fetches, Leaves
<1>5. \A i \in DOMAIN friends'[n] : i <= SO_FRIENDS_NUM => friends'[n][i] \in Drawn
  <2>1. CASE friends'[n] = friends[n]
    BY <1>1, <2>1 DEF ListBeforeNews
  <2>2. ASSUME NEW p \in Nat, TakesFriend(n, p), NEW i \in DOMAIN friends'[n],
               i <= SO_FRIENDS_NUM
        PROVE  friends'[n][i] \in Drawn
    <3>1. CASE i \in 1 .. Len(friends[n])
      BY <1>1, <1>2, <1>3, <2>2, <3>1 DEF ListBeforeNews
    <3>2. CASE i = Len(friends[n]) + 1
      <4>1. ~Announces(queue[n][p])
        BY <1>1, <1>2, <1>3, <2>2, <3>2 DEF ListBeforeNews
      <4>2. queue[n][p].friend \in Drawn
        BY <1>3, <2>2, <4>1 DEF Announces
      <4>3. QED
        BY <1>3, <2>2, <3>2, <4>2
    <3>3. QED
      BY <1>2, <1>3, <2>2, <3>1, <3>2
  <2>3. QED
    BY <1>4, <2>1, <2>2
<1>6. pc'[n] \in Running => Len(friends'[n]) >= SO_FRIENDS_NUM /\ n \in recorded
  <2>1. Len(friends'[n]) >= Len(friends[n])
    BY <1>2, <1>3, <1>4
  <2>2. pc[n] \in Running => Len(friends[n]) >= SO_FRIENDS_NUM /\ n \in recorded
    BY <1>1 DEF FriendsReady, KnowsItsIndex
  <2>3. EntersLoop(n) => Len(friends'[n]) = SO_FRIENDS_NUM /\ n \in recorded
    BY <1>3 DEF EntersLoop
  <2>4. Len(friends'[n]) \in Nat
    BY <1>2, <1>3, <1>4
  <2>5. QED
    BY <1>2, <2>1, <2>2, <2>3, <2>4 DEF PlaceChange
<1>7. ASSUME n \in ExtraNode PROVE \A m \in MessagesAt(n)' : m.hops = SO_HOPS
  <2>1. \A m \in MessagesAt(n) : m.hops = SO_HOPS
    BY <1>1, <1>7 DEF ExtraFedByUsers
  <2>2. ASSUME NEW p \in 1 .. Len(queue[n]), queue'[n] = RemoveAt(queue[n], p)
        PROVE  Range(queue'[n]) \subseteq Range(queue[n])
    <3>1. /\ DOMAIN queue'[n] = 1 .. Len(queue[n]) - 1
          /\ \A k \in 1 .. Len(queue[n]) - 1 : queue'[n][k] = queue[n][Before(p, k)]
      BY <1>2, <2>2, RemoveAtProperties, LenProperties
    <3>2. \A k \in 1 .. Len(queue[n]) - 1 : Before(p, k) \in DOMAIN queue[n]
      BY <1>2 DEF Before
    <3>3. QED
      BY <3>1, <3>2 DEF Range
  <2>3. ASSUME NEW m \in TransactionMessage, Gets(n, m), m.hops = SO_HOPS
        PROVE  Range(queue'[n]) \subseteq Range(queue[n]) \cup {m}
    <3>1. /\ DOMAIN queue'[n] = 1 .. Len(queue[n]) + 1
          /\ \A k \in 1 .. Len(queue[n]) : queue'[n][k] = queue[n][k]
          /\ queue'[n][Len(queue[n]) + 1] = m
      BY <1>2, <2>3, Sent, AppendProperties, LenProperties DEF Gets
    <3>2. QED
      BY <1>2, <3>1 DEF Range
  <2>4. \/ Range(queue'[n]) \subseteq Range(queue[n])
        \/ \E m \in TransactionMessage :
              m.hops = SO_HOPS /\ Range(queue'[n]) \subseteq Range(queue[n]) \cup {m}
    <3>1. CASE Untouched(n)
      BY <3>1 DEF Untouched
    <3>2. CASE \E p \in Nat : Fetches(n, p) \/ TakesFriend(n, p)
      BY <1>2, <2>2, <3>2 DEF Fetches, TakesFriend, Waiting
    <3>3. CASE Leaves(n)
      BY <3>3 DEF Leaves, Range
    <3>4. QED
      BY <1>7, <2>3, <3>1, <3>2, <3>3 DEF MailChange
  <2>5. QED
    BY <2>1, <2>4 DEF MessagesAt
<1>8. QED
  BY <1>5, <1>6, <1>7

\* Nodes and users keep them.
LEMMA ListsOutsideMaster ==
    ASSUME NodesInv, TypeOK', UNCHANGED <<recorded, master, at, outbox>>,
           \A n \in Node : MailChange(n) /\ PlaceChange(n)
    PROVE  ListParts'
<1>1. /\ TypeOK /\ MailForRecorded /\ KnowsItsIndex /\ ListBeforeNews /\ ListComplete
      /\ FriendsReady /\ ExtraFedByUsers
  BY DEF NodesInv
<1>2. \A n \in Node :
         /\ \A i \in DOMAIN friends'[n] : i <= SO_FRIENDS_NUM => friends'[n][i] \in Drawn
         /\ pc'[n] \in Running => Len(friends'[n]) >= SO_FRIENDS_NUM /\ n \in recorded
         /\ n \in ExtraNode => \A m \in MessagesAt(n)' : m.hops = SO_HOPS
  BY FriendsAfter
<1>3. \A n \in Node : FriendsKept(n) \/ Leaves(n)
  BY <1>1, MailChangeKeeps
<1>4. ASSUME NEW n \in Node, NEW j \in DOMAIN queue'[n], queue'[n][j].mtype = "FRIENDS"
      PROVE  \E p \in DOMAIN queue[n] :
                /\ queue[n][p] = queue'[n][j]
                /\ FriendsUpTo(n, j)' >= FriendsUpTo(n, p)
                /\ FriendsUpTo(n, j)' \in Nat /\ FriendsUpTo(n, p) \in Nat
  <2>1. ~Leaves(n)
    BY <1>4 DEF Leaves
  <2>2. PICK p \in DOMAIN queue[n] :
           queue[n][p] = queue'[n][j] /\ FriendsUpTo(n, j)' >= FriendsUpTo(n, p)
    BY <1>3, <1>4, <2>1 DEF FriendsKept
  <2>3. FriendsUpTo(n, p) \in Nat
    BY <1>1, FriendsUpToType
  <2>4. FriendsUpTo(n, j)' \in Nat
    BY <1>4, TypesNext
  <2>5. QED
    BY <2>2, <2>3, <2>4
<1>5. MailForRecorded'
  <2>1. ASSUME NEW n \in Node, Waiting(n, "FRIENDS")' # {} PROVE n \in recorded
    BY <1>1, <1>4, <2>1 DEF MailForRecorded, Waiting
  <2>2. QED
    BY <1>1, <2>1 DEF MailForRecorded
<1>6. KnowsItsIndex'
  BY <1>2 DEF KnowsItsIndex
<1>7. ListBeforeNews'
  <2>1. ASSUME NEW n \in Node, NEW j \in DOMAIN queue'[n], Announces(queue'[n][j])
        PROVE  n \in InitialNode /\ FriendsUpTo(n, j)' >= SO_FRIENDS_NUM
    <3>1. PICK p \in DOMAIN queue[n] :
             /\ queue[n][p] = queue'[n][j]
             /\ FriendsUpTo(n, j)' >= FriendsUpTo(n, p)
             /\ FriendsUpTo(n, j)' \in Nat /\ FriendsUpTo(n, p) \in Nat
      BY <1>4, <2>1 DEF Announces
    <3>2. n \in InitialNode /\ FriendsUpTo(n, p) >= SO_FRIENDS_NUM
      BY <1>1, <2>1, <3>1 DEF ListBeforeNews
    <3>3. QED
      BY <3>1, <3>2, NodesAssumption DEF NodesAssumption
  <2>2. QED
    BY <1>1, <1>2, <2>1 DEF ListBeforeNews
<1>8. ListComplete'
  <2>1. ASSUME NEW n \in InitialNode \cap recorded,
               pc'[n] # "dead", master \notin {"spawn", "record"}, n < at
        PROVE  FriendsUpTo(n, Len(queue[n]) + 1)' + StillToSend(n) >= SO_FRIENDS_NUM
    <3>1. n \in Node /\ pc[n] # "dead" /\ ~Leaves(n)
      BY <2>1, Indices DEF PlaceChange, Leaves
    <3>2. FriendsUpTo(n, Len(queue[n]) + 1)' >= FriendsUpTo(n, Len(queue[n]) + 1)
      BY <1>3, <3>1 DEF FriendsKept
    <3>3. FriendsUpTo(n, Len(queue[n]) + 1) + StillToSend(n) >= SO_FRIENDS_NUM
      BY <1>1, <2>1, <3>1 DEF ListComplete
    <3>4. /\ FriendsUpTo(n, Len(queue[n]) + 1) \in Nat
          /\ FriendsUpTo(n, Len(queue[n]) + 1)' \in Nat
      BY <1>1, <3>1, NodeSequences, FriendsUpToType, TypesNext
    <3>5. StillToSend(n) \in Nat
      BY <1>1, LenProperties DEF StillToSend, TypeOK
    <3>6. QED
      BY <3>2, <3>3, <3>4, <3>5, NodesAssumption DEF NodesAssumption
  <2>2. \A n \in InitialNode : StillToSend(n)' = StillToSend(n)
    BY DEF StillToSend
  <2>3. QED
    BY <1>1, <2>1, <2>2 DEF ListComplete, PidAt
<1>9. FriendsReady'
  <2>1. ASSUME NEW n \in Node, pc'[n] \in Running, NEW i \in 1 .. SO_FRIENDS_NUM
        PROVE  friends'[n][i] \in InitialNode \cup {NoPid}
    <3>1. Len(friends'[n]) >= SO_FRIENDS_NUM
      BY <1>2, <2>1
    <3>2. Len(friends'[n]) \in Nat /\ DOMAIN friends'[n] = 1 .. Len(friends'[n])
      BY TypesNext
    <3>3. i \in DOMAIN friends'[n] /\ i <= SO_FRIENDS_NUM
      BY <3>1, <3>2, NodesAssumption DEF NodesAssumption
    <3>4. QED
      BY <1>2, <3>3 DEF Drawn
  <2>2. QED
    BY <1>2, <2>1 DEF FriendsReady
<1>10. ExtraFedByUsers'
  BY <1>2, Indices DEF ExtraFedByUsers
<1>11. QED
  BY <1>5, <1>6, <1>7, <1>8, <1>9, <1>10 DEF ListParts

\* What the master leaves as it is when it sends nothing.
LEMMA QuietStep ==
    ASSUME NodesInv, TypeOK', \A n \in Node : Untouched(n) /\ PlaceChange(n),
           recorded \subseteq recorded'
    PROVE  /\ \A n \in Node : Waiting(n, "FRIENDS")' # {} => n \in recorded'
           /\ KnowsItsIndex' /\ FriendsReady' /\ ExtraFedByUsers'
           /\ \A n \in Node : \A i \in DOMAIN friends'[n] :
                 i <= SO_FRIENDS_NUM => friends'[n][i] \in Drawn
           /\ \A n \in Node : \A p \in DOMAIN queue'[n] :
                 Announces(queue'[n][p]) =>
                     n \in InitialNode /\ FriendsUpTo(n, p)' >= SO_FRIENDS_NUM
           /\ \A n \in Node :
                 /\ FriendsUpTo(n, Len(queue[n]) + 1)' = FriendsUpTo(n, Len(queue[n]) + 1)
                 /\ FriendsUpTo(n, Len(queue[n]) + 1) \in Nat
                 /\ pc'[n] # "dead" => pc[n] # "dead"
<1>1. TypeOK /\ MailForRecorded /\ ListBeforeNews
  BY DEF NodesInv
<1>2. \A n \in Node :
         /\ \A i \in DOMAIN friends'[n] : i <= SO_FRIENDS_NUM => friends'[n][i] \in Drawn
         /\ pc'[n] \in Running => Len(friends'[n]) >= SO_FRIENDS_NUM /\ n \in recorded
         /\ n \in ExtraNode => \A m \in MessagesAt(n)' : m.hops = SO_HOPS
  BY FriendsAfter DEF MailChange
<1>3. \A n \in Node : Waiting(n, "FRIENDS")' # {} => n \in recorded'
  BY <1>1 DEF MailForRecorded, Waiting, Untouched
<1>4. KnowsItsIndex' /\ ExtraFedByUsers'
  BY <1>2, Indices DEF KnowsItsIndex, ExtraFedByUsers
<1>5. FriendsReady'
  <2>1. ASSUME NEW n \in Node, pc'[n] \in Running, NEW i \in 1 .. SO_FRIENDS_NUM
        PROVE  friends'[n][i] \in InitialNode \cup {NoPid}
    <3>1. /\ Len(friends'[n]) \in Nat /\ DOMAIN friends'[n] = 1 .. Len(friends'[n])
          /\ Len(friends'[n]) >= SO_FRIENDS_NUM
      BY <1>2, <2>1, TypesNext
    <3>2. i \in DOMAIN friends'[n] /\ i <= SO_FRIENDS_NUM
      BY <2>1, <3>1, NodesAssumption DEF NodesAssumption
    <3>3. QED
      BY <1>2, <3>2 DEF Drawn
  <2>2. QED
    BY <1>2, <2>1 DEF FriendsReady
<1>6. ASSUME NEW n \in Node, NEW p \in DOMAIN queue'[n], Announces(queue'[n][p])
      PROVE  n \in InitialNode /\ FriendsUpTo(n, p)' >= SO_FRIENDS_NUM
  <2>1. FriendsUpTo(n, p)' = FriendsUpTo(n, p) /\ queue'[n] = queue[n]
    BY DEF Untouched, FriendsUpTo
  <2>2. QED
    BY <1>1, <1>6, <2>1 DEF ListBeforeNews
<1>7. \A n \in Node :
         /\ FriendsUpTo(n, Len(queue[n]) + 1)' = FriendsUpTo(n, Len(queue[n]) + 1)
         /\ FriendsUpTo(n, Len(queue[n]) + 1) \in Nat
         /\ pc'[n] # "dead" => pc[n] # "dead"
  BY <1>1, NodeSequences, FriendsUpToType DEF Untouched, FriendsUpTo, PlaceChange
<1>8. QED
  BY <1>2, <1>3, <1>4, <1>5, <1>6, <1>7

\* What it sends to an initial node, and of an extra one.
LEMMA RecordExtraEffect ==
    ASSUME TypeOK, SpawnOrder, RecordExtra
    PROVE  /\ at \in Node /\ at \notin InitialNode /\ at' = at + 1 /\ at' > SO_NODES_NUM
           /\ recorded' = recorded \cup {at} /\ master = "recordExtra" /\ master' = "mail"
           /\ \A i \in DOMAIN outbox' :
                 /\ outbox'[i].to \in recorded' \cup {NoPid}
                 /\ outbox'[i].friend \notin Drawn => outbox'[i].to \in Drawn
           /\ UNCHANGED <<queue, pool, friends, flag, errno, pc, blocks, dropped, failures>>
<1>1. /\ at >= SO_NODES_NUM /\ at < 2 * SO_NODES_NUM /\ at \in Nat
      /\ at' = at + 1 /\ recorded' = recorded \cup {at}
      /\ master = "recordExtra" /\ master' = "mail"
      /\ UNCHANGED <<queue, pool, friends, flag, errno, pc, blocks, dropped, failures>>
  BY NodesAssumption
     DEF NodesAssumption, RecordExtra, StorePid, SpawnOrder, TypeOK, nodeVars
<1>2. /\ at \in Node /\ at \notin InitialNode /\ at' > SO_NODES_NUM
      /\ SO_NODES_NUM \in Node /\ SO_FRIENDS_NUM \in Nat
  BY <1>1, Indices, NodesAssumption DEF NodesAssumption
<1>3. PICK list \in FriendLists, told \in FriendLists :
         outbox' = Mail(Always(at), list) \o Mail(told, Always(SO_NODES_NUM))
  BY DEF RecordExtra
<1> DEFINE a == Mail(Always(at), list)
           b == Mail(told, Always(SO_NODES_NUM))
<1>4. \A i \in 1 .. SO_FRIENDS_NUM :
         /\ a[i].to = at /\ a[i].friend = list[i] /\ list[i] \in Drawn
         /\ b[i].to = told[i] /\ told[i] \in recorded \cup {NoPid} /\ told[i] \in Drawn
         /\ b[i].friend = SO_NODES_NUM
  BY Lists
<1>5. a \in Seq(Entry) /\ Len(a) = SO_FRIENDS_NUM /\ b \in Seq(Entry) /\ Len(b) = SO_FRIENDS_NUM
  <2>1. \A i \in 1 .. SO_FRIENDS_NUM :
           /\ Always(at)[i] \in Node \cup {NoPid} /\ list[i] \in Node \cup {NoPid}
           /\ Always(SO_NODES_NUM)[i] \in Node \cup {NoPid} /\ told[i] \in Node \cup {NoPid}
    <3>1. Drawn \subseteq Node \cup {NoPid}
      BY Indices DEF Drawn
    <3>2. QED
      BY <1>2, <1>4, <3>1 DEF Always
  <2>2. QED
    BY <2>1, MailType
<1> HIDE DEF a, b
<1>6. ASSUME NEW i \in DOMAIN outbox'
      PROVE  \/ i \in 1 .. SO_FRIENDS_NUM /\ outbox'[i] = a[i]
             \/ i - SO_FRIENDS_NUM \in 1 .. SO_FRIENDS_NUM /\ outbox'[i] = b[i - SO_FRIENDS_NUM]
  <2>1. outbox' = a \o b
    BY <1>3 DEF a, b
  <2>2. /\ a \o b \in Seq(Entry) /\ Len(a \o b) = SO_FRIENDS_NUM + SO_FRIENDS_NUM
        /\ \A k \in 1 .. Len(a) + Len(b) :
              (a \o b)[k] = IF k <= Len(a) THEN a[k] ELSE b[k - Len(a)]
    BY <1>5, ConcatProperties
  <2>3. i \in 1 .. SO_FRIENDS_NUM + SO_FRIENDS_NUM
    BY <1>6, <2>1, <2>2, LenProperties
  <2>4. CASE i <= SO_FRIENDS_NUM
    BY <1>2, <1>5, <2>1, <2>2, <2>3, <2>4
  <2>5. CASE ~ (i <= SO_FRIENDS_NUM)
    BY <1>2, <1>5, <2>1, <2>2, <2>3, <2>5
  <2>6. QED
    BY <2>4, <2>5
<1>7. \A i \in DOMAIN outbox' :
         /\ outbox'[i].to \in recorded' \cup {NoPid}
         /\ outbox'[i].friend \notin Drawn => outbox'[i].to \in Drawn
  BY <1>1, <1>4, <1>6
<1>8. QED
  BY <1>1, <1>2, <1>7

\* SendFriendList fills outbox with SO_FRIENDS_NUM drawn friends for one node.
LEMMA SendFriendListEffect ==
    ASSUME TypeOK, SpawnOrder, SendFriendList
    PROVE  /\ at \in InitialNode /\ at' = at + 1 /\ at' <= SO_NODES_NUM /\ at' - 1 = at
           /\ master = "lists" /\ master' = "mail"
           /\ Len(outbox') = SO_FRIENDS_NUM
           /\ \A i \in DOMAIN outbox' :
                 /\ outbox'[i].to = PidAt(at) /\ PidAt(at) \in recorded \cup {NoPid}
                 /\ outbox'[i].friend \in Drawn
           /\ UNCHANGED <<queue, pool, friends, flag, errno, pc, recorded, blocks, dropped,
                          failures>>
<1>1. /\ master = "lists" /\ at < SO_NODES_NUM /\ at \in Nat
      /\ at' = at + 1 /\ master' = "mail"
      /\ UNCHANGED <<queue, pool, friends, flag, errno, pc, recorded, blocks, dropped, failures>>
  BY DEF SendFriendList, SpawnOrder, TypeOK, nodeVars
<1>2. at \in InitialNode /\ at' <= SO_NODES_NUM /\ at' - 1 = at
  BY <1>1, NodesAssumption DEF NodesAssumption, InitialNode
<1>3. PICK list \in FriendLists : outbox' = Mail(Always(PidAt(at)), list)
  BY DEF SendFriendList
<1>4. /\ PidAt(at) \in recorded \cup {NoPid} /\ PidAt(at) \in Node \cup {NoPid}
      /\ \A i \in 1 .. SO_FRIENDS_NUM :
            list[i] \in Drawn /\ list[i] \in Node \cup {NoPid}
  BY <1>2, Lists, Indices DEF Drawn
<1>5. Len(outbox') = SO_FRIENDS_NUM
  BY <1>3, <1>4, MailType DEF Always
<1>6. \A i \in DOMAIN outbox' : outbox'[i].to = PidAt(at) /\ outbox'[i].friend \in Drawn
  <2>1. /\ DOMAIN outbox' = 1 .. SO_FRIENDS_NUM
        /\ \A i \in 1 .. SO_FRIENDS_NUM :
              outbox'[i] = [to |-> Always(PidAt(at))[i], friend |-> list[i]]
    BY <1>3 DEF Mail
  <2>2. QED
    BY <1>4, <2>1 DEF Always
<1>7. QED
  BY <1>1, <1>2, <1>4, <1>5, <1>6

\* The master's steps keep the lists, those that send nothing first.
LEMMA ListsQuietStep ==
    ASSUME NodesInv, TypeOK', MasterStep, ~Deliver
    PROVE  ListParts'
<1>1. /\ TypeOK /\ SpawnOrder /\ MailForRecorded /\ KnowsItsIndex /\ ListBeforeNews
      /\ ListComplete /\ FriendsReady /\ ExtraFedByUsers
  BY DEF NodesInv
<1>2. SO_NODES_NUM \in Nat \ {0} /\ SO_FRIENDS_NUM \in Nat \ {0} /\ at \in Nat
  BY <1>1, NodesAssumption DEF NodesAssumption, TypeOK
<1>3. UNCHANGED friends /\ recorded \subseteq recorded' /\ \A n \in Node : queue'[n] = queue[n]
  <2>1. CASE Listen
    BY <1>1, <2>1, ListenEffect, Indices DEF TypeOK
  <2>2. CASE ~Listen
    BY <1>1, <2>2 DEF MasterStep, SpawnInitial, RecordInitial, StorePid, StartFriendLists,
                      SendFriendList, RecordExtra, nodeVars
  <2>3. QED
    BY <2>1, <2>2
<1>4. ASSUME NEW n \in Node PROVE Untouched(n) /\ PlaceChange(n)
  <2>1. UNCHANGED pc \/ (at \in Node /\ pc[at] = "none" /\ pc' = [pc EXCEPT ![at] = "forked"])
    BY <1>1, MasterEffect
  <2>2. pc'[n] = pc[n] \/ (pc[n] = "none" /\ pc'[n] = "forked")
    BY <1>1, <2>1 DEF TypeOK
  <2>3. QED
    BY <1>3, <2>2 DEF Untouched, PlaceChange, Running
<1>5. /\ \A n \in Node : Waiting(n, "FRIENDS")' # {} => n \in recorded'
      /\ KnowsItsIndex' /\ FriendsReady' /\ ExtraFedByUsers'
      /\ \A n \in Node : \A i \in DOMAIN friends'[n] :
            i <= SO_FRIENDS_NUM => friends'[n][i] \in Drawn
      /\ \A n \in Node : \A p \in DOMAIN queue'[n] :
            Announces(queue'[n][p]) =>
                n \in InitialNode /\ FriendsUpTo(n, p)' >= SO_FRIENDS_NUM
      /\ \A n \in Node :
            /\ FriendsUpTo(n, Len(queue[n]) + 1)' = FriendsUpTo(n, Len(queue[n]) + 1)
            /\ FriendsUpTo(n, Len(queue[n]) + 1) \in Nat
            /\ pc'[n] # "dead" => pc[n] # "dead"
  BY <1>3, <1>4, QuietStep
<1> DEFINE OutboxParts ==
              /\ \A i \in DOMAIN outbox' : outbox'[i].to \in recorded' \cup {NoPid}
              /\ \A i \in DOMAIN outbox' :
                    outbox'[i].friend \notin Drawn =>
                        at' > SO_NODES_NUM /\ outbox'[i].to \in Drawn
<1>6. ASSUME OutboxParts, ListComplete' PROVE ListParts'
  BY <1>5, <1>6 DEF ListParts, MailForRecorded, ListBeforeNews
<1>7. CASE SpawnInitial \/ RecordInitial \/ StartFriendLists
  <2>1. outbox' = <<>> /\ (master' \in {"spawn", "record"} \/ (master' = "lists" /\ at' = 0))
    BY <1>1, <1>7, SpawnEffect DEF RecordInitial, StartFriendLists, SpawnOrder
  <2>2. ListComplete'
    BY <2>1, Indices DEF ListComplete
  <2>3. QED
    BY <1>6, <2>1, <2>2
<1>8. CASE SendFriendList
  <2>1. /\ at \in InitialNode /\ at' = at + 1 /\ at' <= SO_NODES_NUM /\ at' - 1 = at
        /\ master = "lists" /\ master' = "mail"
        /\ Len(outbox') = SO_FRIENDS_NUM
        /\ \A i \in DOMAIN outbox' :
              /\ outbox'[i].to = PidAt(at) /\ PidAt(at) \in recorded \cup {NoPid}
              /\ outbox'[i].friend \in Drawn
        /\ UNCHANGED recorded
    BY <1>1, <1>8, SendFriendListEffect
  <2>2. OutboxParts
    BY <2>1
  <2>3. ASSUME NEW n \in InitialNode \cap recorded, pc'[n] # "dead", n < at'
        PROVE  FriendsUpTo(n, Len(queue[n]) + 1)' + StillToSend(n)' >= SO_FRIENDS_NUM
    <3>1. /\ n \in Node /\ n \in Nat /\ pc[n] # "dead"
          /\ FriendsUpTo(n, Len(queue[n]) + 1)' = FriendsUpTo(n, Len(queue[n]) + 1)
          /\ FriendsUpTo(n, Len(queue[n]) + 1) \in Nat
      BY <1>2, <1>5, <2>3, Indices
    <3>2. CASE n = at
      <4>1. StillToSend(n)' = SO_FRIENDS_NUM
        BY <2>1, <3>2 DEF StillToSend
      <4>2. QED
        BY <1>2, <3>1, <4>1
    <3>3. CASE n # at
      <4>1. n < at /\ StillToSend(n)' = 0 /\ StillToSend(n) = 0
        BY <1>2, <2>1, <2>3, <3>1, <3>3 DEF StillToSend
      <4>2. FriendsUpTo(n, Len(queue[n]) + 1) + StillToSend(n) >= SO_FRIENDS_NUM
        BY <1>1, <2>1, <2>3, <3>1, <4>1 DEF ListComplete
      <4>3. QED
        BY <3>1, <4>1, <4>2
    <3>4. QED
      BY <3>2, <3>3
  <2>4. PidAt(at - 1)' = PidAt(at)
    BY <2>1 DEF PidAt
  <2>5. ListComplete'
    BY <2>1, <2>3, <2>4 DEF ListComplete
  <2>6. QED
    BY <1>6, <2>2, <2>5
<1>9. CASE Listen
  <2>1. /\ master = "listen" /\ master' \in {"gone", "recordExtra"} /\ UNCHANGED <<at, recorded>>
        /\ outbox' = <<>>
    BY <1>1, <1>9, ListenEffect DEF SpawnOrder
  <2>2. \A n \in InitialNode : n \in Node /\ StillToSend(n)' = 0 /\ StillToSend(n) = 0
    BY <2>1, Indices DEF StillToSend
  <2>3. ListComplete'
    BY <1>1, <1>5, <2>1, <2>2 DEF ListComplete
  <2>4. QED
    BY <1>6, <2>1, <2>3
<1>10. CASE RecordExtra
  <2>1. /\ at \notin InitialNode /\ at' = at + 1 /\ at' > SO_NODES_NUM
        /\ recorded' = recorded \cup {at} /\ master = "recordExtra"
        /\ \A i \in DOMAIN outbox' :
              /\ outbox'[i].to \in recorded' \cup {NoPid}
              /\ outbox'[i].friend \notin Drawn => outbox'[i].to \in Drawn
    BY <1>1, <1>10, RecordExtraEffect
  <2>2. \A n \in InitialNode : /\ n \in Node /\ n < at
                               /\ StillToSend(n)' = 0 /\ StillToSend(n) = 0
    BY <1>2, <2>1, Indices DEF StillToSend
  <2>3. ~ (at' <= SO_NODES_NUM)
    BY <1>2, <2>1
  <2>4. ListComplete'
    BY <1>1, <1>5, <2>1, <2>2, <2>3 DEF ListComplete
  <2>5. QED
    BY <1>6, <2>1, <2>4
<1>11. QED
  BY <1>7, <1>8, <1>9, <1>10 DEF MasterStep

\* What delivering a friend message does to queues and lists.
LEMMA ListsDeliverStep ==
    ASSUME NodesInv, TypeOK', Deliver
    PROVE  ListParts'
<1>1. /\ TypeOK /\ SpawnOrder /\ MailForRecorded /\ KnowsItsIndex /\ ListBeforeNews
      /\ ListComplete /\ FriendsReady /\ ExtraFedByUsers
  BY DEF NodesInv
<1>2. SO_NODES_NUM \in Nat \ {0} /\ SO_FRIENDS_NUM \in Nat \ {0} /\ at \in Nat
  BY <1>1, NodesAssumption DEF NodesAssumption, TypeOK
<1>3. PICK to \in Node \cup {NoPid}, friend \in Node \cup {NoPid} :
         /\ Len(outbox) \in Nat \ {0} /\ Len(outbox') = Len(outbox) - 1
         /\ outbox[1].to = to /\ outbox[1].friend = friend
         /\ \A i \in DOMAIN outbox' : i + 1 \in DOMAIN outbox /\ outbox'[i] = outbox[i + 1]
         /\ 1 \in DOMAIN outbox
         /\ \/ (to = NoPid \/ pc[to] = "dead") /\ UNCHANGED queue
            \/ /\ to \in Node /\ HasQueue(to)
               /\ queue' = [queue EXCEPT ![to] = Append(queue[to], Friend(friend))]
         /\ master' = IF Len(outbox) > 1 THEN "mail"
                      ELSE IF at < SO_NODES_NUM THEN "lists" ELSE "listen"
         /\ UNCHANGED <<friends, pc, recorded, at>>
  BY <1>1, DeliverEffect
<1>4. master = "mail" /\ at > 0
  BY <1>1 DEF Deliver, SpawnOrder
<1> DEFINE m == Friend(friend)
<1>5. m \in Message /\ m.mtype = "FRIENDS" /\ m.friend = friend
  BY Sent
<1> HIDE DEF m
<1>6. ASSUME NEW n \in Node
      PROVE  \/ queue'[n] = queue[n] /\ (n # to \/ pc[n] = "dead")
             \/ n = to /\ Gets(n, m) /\ n \in recorded
  <2>1. to \in Node => to \in recorded
    BY <1>1, <1>3, Indices DEF MailForRecorded
  <2>2. CASE (to = NoPid \/ pc[to] = "dead") /\ UNCHANGED queue
    BY <2>2, Indices
  <2>3. CASE to \in Node /\ queue' = [queue EXCEPT ![to] = Append(queue[to], m)]
    BY <1>1, <1>3, <2>1, <2>3 DEF Gets, TypeOK
  <2>4. QED
    BY <1>3, <2>2, <2>3 DEF m
<1>7. ASSUME NEW n \in Node
      PROVE  /\ FriendsUpTo(n, Len(queue[n]) + 1) \in Nat
             /\ FriendsUpTo(n, Len(queue[n]) + 1)' \in Nat
             /\ FriendsUpTo(n, Len(queue[n]) + 1)' >= FriendsUpTo(n, Len(queue[n]) + 1)
             /\ n = to /\ pc[n] # "dead" =>
                   FriendsUpTo(n, Len(queue[n]) + 1)' >= FriendsUpTo(n, Len(queue[n]) + 1) + 1
             /\ \A j \in DOMAIN queue'[n] :
                   \/ /\ j \in DOMAIN queue[n] /\ queue[n][j] = queue'[n][j]
                      /\ FriendsUpTo(n, j)' = FriendsUpTo(n, j)
                   \/ /\ queue'[n][j] = m /\ n = to /\ n \in recorded /\ pc[n] # "dead"
                      /\ FriendsUpTo(n, j)' = FriendsUpTo(n, Len(queue[n]) + 1)
  <2>1. /\ FriendsUpTo(n, Len(queue[n]) + 1) \in Nat
        /\ FriendsUpTo(n, Len(queue[n]) + 1)' \in Nat
    BY <1>1, NodeSequences, FriendsUpToType, TypesNext
  <2>2. CASE queue'[n] = queue[n] /\ (n # to \/ pc[n] = "dead")
    <3>1. /\ FriendsUpTo(n, Len(queue[n]) + 1)' = FriendsUpTo(n, Len(queue[n]) + 1)
          /\ \A j \in DOMAIN queue'[n] : FriendsUpTo(n, j)' = FriendsUpTo(n, j)
      BY <1>3, <2>2 DEF FriendsUpTo
    <3>2. QED
      BY <2>1, <2>2, <3>1
  <2>3. CASE n = to /\ Gets(n, m) /\ n \in recorded /\ pc[n] # "dead"
    <3>1. /\ FriendsUpTo(n, Len(queue[n]) + 1)' >= FriendsUpTo(n, Len(queue[n]) + 1) + 1
          /\ \A j \in DOMAIN queue'[n] :
                \/ /\ j \in DOMAIN queue[n] /\ queue[n][j] = queue'[n][j]
                   /\ FriendsUpTo(n, j)' = FriendsUpTo(n, j)
                \/ /\ queue'[n][j] = m
                   /\ FriendsUpTo(n, j)' = FriendsUpTo(n, Len(queue[n]) + 1)
      BY <1>1, <1>5, <2>3, GetsKeepsFriends
    <3>2. FriendsUpTo(n, Len(queue[n]) + 1)' >= FriendsUpTo(n, Len(queue[n]) + 1)
      BY <2>1, <3>1
    <3>3. QED
      BY <2>1, <2>3, <3>1, <3>2
  <2>4. pc[n] # "dead" \/ queue'[n] = queue[n]
    BY <1>1, <1>3 DEF HasQueue, TypeOK
  <2>5. QED
    BY <1>6, <2>2, <2>3, <2>4
<1>8. MailForRecorded'
  <2>1. ASSUME NEW n \in Node, Waiting(n, "FRIENDS")' # {} PROVE n \in recorded'
    <3>1. PICK j \in DOMAIN queue'[n] : queue'[n][j].mtype = "FRIENDS"
      BY <2>1 DEF Waiting
    <3>2. n \in recorded \/ Waiting(n, "FRIENDS") # {}
      BY <1>7, <3>1 DEF Waiting
    <3>3. QED
      BY <1>1, <1>3, <3>2 DEF MailForRecorded
  <2>2. \A i \in DOMAIN outbox' : outbox'[i].to \in recorded' \cup {NoPid}
    BY <1>1, <1>3 DEF MailForRecorded
  <2>3. QED
    BY <2>1, <2>2 DEF MailForRecorded
<1>9. KnowsItsIndex' /\ FriendsReady'
  BY <1>1, <1>3 DEF KnowsItsIndex, FriendsReady
<1>10. ListBeforeNews'
  <2>1. ASSUME NEW n \in Node, NEW j \in DOMAIN queue'[n], Announces(queue'[n][j])
        PROVE  n \in InitialNode /\ FriendsUpTo(n, j)' >= SO_FRIENDS_NUM
    <3>1. CASE /\ j \in DOMAIN queue[n] /\ queue[n][j] = queue'[n][j]
               /\ FriendsUpTo(n, j)' = FriendsUpTo(n, j)
      BY <1>1, <2>1, <3>1 DEF ListBeforeNews
    <3>2. CASE /\ queue'[n][j] = m /\ n = to /\ n \in recorded /\ pc[n] # "dead"
               /\ FriendsUpTo(n, j)' = FriendsUpTo(n, Len(queue[n]) + 1)
      <4>1. at > SO_NODES_NUM /\ to \in Drawn
        BY <1>1, <1>3, <1>5, <2>1, <3>2 DEF ListBeforeNews, Announces
      <4>2. n \in InitialNode /\ n < at
        BY <1>2, <3>2, <4>1, Indices DEF Drawn
      <4>3. StillToSend(n) = 0
        BY <1>2, <4>1 DEF StillToSend
      <4>4. FriendsUpTo(n, Len(queue[n]) + 1) + StillToSend(n) >= SO_FRIENDS_NUM
        BY <1>1, <1>4, <3>2, <4>2 DEF ListComplete
      <4>5. QED
        BY <1>7, <3>2, <4>2, <4>3, <4>4
    <3>3. QED
      BY <1>7, <3>1, <3>2
  <2>2. \A n \in Node : \A i \in DOMAIN friends'[n] :
           i <= SO_FRIENDS_NUM => friends'[n][i] \in Drawn
    BY <1>1, <1>3 DEF ListBeforeNews
  <2>3. \A i \in DOMAIN outbox' :
           outbox'[i].friend \notin Drawn => at' > SO_NODES_NUM /\ outbox'[i].to \in Drawn
    BY <1>1, <1>3 DEF ListBeforeNews
  <2>4. QED
    BY <2>1, <2>2, <2>3 DEF ListBeforeNews
<1>11. ListComplete'
  <2>1. ASSUME NEW n \in InitialNode \cap recorded, pc[n] # "dead", n < at
        PROVE  FriendsUpTo(n, Len(queue[n]) + 1)' + StillToSend(n)' >= SO_FRIENDS_NUM
    <3>1. n \in Node /\ n \in Nat
      BY Indices
    <3>2. FriendsUpTo(n, Len(queue[n]) + 1) + StillToSend(n) >= SO_FRIENDS_NUM
      BY <1>1, <1>4, <2>1 DEF ListComplete
    <3>3. CASE at <= SO_NODES_NUM /\ n = at - 1
      <4>1. StillToSend(n) = Len(outbox)
        BY <1>4, <3>3 DEF StillToSend
      <4>2. StillToSend(n)' = Len(outbox) - 1
        <5>1. CASE Len(outbox) > 1
          BY <1>3, <3>3, <5>1 DEF StillToSend
        <5>2. CASE Len(outbox) = 1
          BY <1>3, <3>3, <5>2 DEF StillToSend
        <5>3. QED
          BY <1>3, <5>1, <5>2
      <4>3. n = to
        BY <1>1, <1>3, <1>4, <2>1, <3>3 DEF ListComplete, PidAt
      <4>4. /\ FriendsUpTo(n, Len(queue[n]) + 1)' >= FriendsUpTo(n, Len(queue[n]) + 1) + 1
            /\ FriendsUpTo(n, Len(queue[n]) + 1) \in Nat
            /\ FriendsUpTo(n, Len(queue[n]) + 1)' \in Nat
        BY <1>7, <2>1, <3>1, <4>3
      <4>5. QED
        BY <1>2, <1>3, <3>2, <4>1, <4>2, <4>4
    <3>4. CASE ~ (at <= SO_NODES_NUM /\ n = at - 1)
      <4>1. StillToSend(n) = 0 /\ StillToSend(n)' = 0
        BY <1>3, <3>4 DEF StillToSend
      <4>2. /\ FriendsUpTo(n, Len(queue[n]) + 1)' >= FriendsUpTo(n, Len(queue[n]) + 1)
            /\ FriendsUpTo(n, Len(queue[n]) + 1) \in Nat
            /\ FriendsUpTo(n, Len(queue[n]) + 1)' \in Nat
        BY <1>7, <3>1
      <4>3. QED
        BY <1>2, <3>2, <4>1, <4>2
    <3>5. QED
      BY <3>3, <3>4
  <2>2. at <= SO_NODES_NUM => \A i \in DOMAIN outbox' : outbox'[i].to = PidAt(at - 1)
    BY <1>1, <1>3, <1>4 DEF ListComplete
  <2>3. PidAt(at - 1)' = PidAt(at - 1)
    BY <1>3 DEF PidAt
  <2>4. QED
    BY <1>3, <2>1, <2>2, <2>3 DEF ListComplete
<1>12. ExtraFedByUsers'
  <2>1. ASSUME NEW n \in Node PROVE MessagesAt(n)' \subseteq MessagesAt(n)
    BY <1>5, <1>7 DEF MessagesAt, Range
  <2>2. QED
    BY <1>1, <2>1, Indices DEF ExtraFedByUsers
<1>13. QED
  BY <1>8, <1>9, <1>10, <1>11, <1>12 DEF ListParts

\* A user's transaction.
LEMMA SendEffect ==
    ASSUME TypeOK, NEW t \in Tx, NEW n \in Node, Send(t, n)
    PROVE  LET m == Transaction(t, SO_HOPS)
           IN  /\ m \in TransactionMessage /\ m \in Message /\ m.tx = t /\ m.mtype = "TRANSACTION"
               /\ Unsent(t) /\ HasQueue(n)
               /\ queue' = [queue EXCEPT ![n] = Append(queue[n], m)]
               /\ UNCHANGED <<pool, friends, flag, errno, pc, recorded, master, at, outbox,
                              blocks, dropped, failures>>
               /\ \A k \in Node : MailChange(k) /\ PlaceChange(k)
<1> DEFINE m == Transaction(t, SO_HOPS)
<1>1. /\ m \in TransactionMessage /\ m \in Message /\ m.tx = t /\ m.hops = SO_HOPS
      /\ m.mtype = "TRANSACTION"
  BY Sent DEF Transaction
<1>2. /\ Unsent(t) /\ HasQueue(n)
      /\ queue' = [queue EXCEPT ![n] = Append(queue[n], m)]
      /\ UNCHANGED <<pool, friends, flag, errno, pc, recorded, master, at, outbox, blocks,
                     dropped, failures>>
  BY DEF Send, nodeVars, masterVars
<1> HIDE DEF m
<1>3. \A k \in Node : Untouched(k) \/ (k = n /\ Gets(k, m))
  BY <1>2 DEF TypeOK, Untouched, Gets
<1>4. \A k \in Node : MailChange(k) /\ PlaceChange(k)
  BY <1>1, <1>2, <1>3 DEF MailChange, PlaceChange
<1>5. QED
  BY <1>1, <1>2, <1>4 DEF m

\* Every step preserves the types and the lists.
LEMMA TypeStep == NodesInv /\ [Next]_vars => TypeOK'
<1> SUFFICES ASSUME NodesInv, [Next]_vars PROVE TypeOK'
  OBVIOUS
<1>1. TypeOK /\ SpawnOrder /\ LoopState /\ FriendsReady /\ BatchAtOnce
  BY DEF NodesInv
<1>2. ASSUME NEW t \in Tx, NEW n \in Node, Send(t, n) PROVE TypeOK'
  <2> DEFINE s == Append(queue[n], Transaction(t, SO_HOPS))
  <2>1. /\ queue' = [queue EXCEPT ![n] = s] /\ Transaction(t, SO_HOPS) \in Message
        /\ UNCHANGED <<pool, friends, flag, errno, pc, recorded, master, at, outbox, blocks,
                       dropped, failures>>
    BY <1>1, <1>2, SendEffect
  <2>2. s \in Seq(Message)
    BY <1>1, <2>1, NodeSequences, AppendProperties
  <2> HIDE DEF s
  <2>3. /\ queue' \in [Node \cup {Master} -> Seq(Message)]
        /\ queue'[Master] = queue[Master]
    BY <1>1, <2>1, <2>2, OneQueue
  <2>4. QED
    BY <1>1, <2>1, <2>3 DEF TypeOK
<1>3. CASE UNCHANGED vars
  BY <1>1, <1>3 DEF vars, TypeOK
<1>4. QED
  BY <1>1, <1>2, <1>3, MasterTypeStep, NodeTypeStep DEF Next

\* Every step preserves what the invariant says of the friend lists.
LEMMA ListsStep == NodesInv /\ [Next]_vars => ListParts'
<1> SUFFICES ASSUME NodesInv, [Next]_vars PROVE ListParts'
  OBVIOUS
<1>1. TypeOK /\ LoopState /\ FriendsReady /\ BatchAtOnce /\ TypeOK'
  BY TypeStep DEF NodesInv
<1>2. ASSUME NEW n \in Node, NodeStep(n) PROVE ListParts'
  BY <1>1, <1>2, NodeEffect, NodeMailStep, ListsOutsideMaster
<1>3. ASSUME NEW t \in Tx, NEW n \in Node, Send(t, n) PROVE ListParts'
  BY <1>1, <1>3, SendEffect, ListsOutsideMaster
<1>4. CASE UNCHANGED vars
  <2>1. UNCHANGED <<recorded, master, at, outbox>>
    BY <1>4 DEF vars
  <2>2. \A n \in Node : MailChange(n) /\ PlaceChange(n)
    BY <1>4 DEF vars, MailChange, Untouched, PlaceChange
  <2>3. QED
    BY <1>1, <2>1, <2>2, ListsOutsideMaster
<1>5. QED
  BY <1>1, <1>2, <1>3, <1>4, ListsQuietStep, ListsDeliverStep DEF Next

-------------------------------------------------------------------------------
(* Where transactions are. *)

\* A sequence of messages holds transaction t.
Holds(s, t) == \E p \in DOMAIN s : s[p].mtype = "TRANSACTION" /\ s[p].tx = t

\* Appending a transaction adds it, and a friend message nothing.
LEMMA HoldsAppend ==
    ASSUME NEW s \in Seq(Message), NEW m \in Message
    PROVE  /\ Append(s, m) \in Seq(Message)
           /\ \A t : Holds(Append(s, m), t) <=>
                        Holds(s, t) \/ (m.mtype = "TRANSACTION" /\ m.tx = t)
           /\ Once(s) /\ (m.mtype = "TRANSACTION" => ~Holds(s, m.tx)) => Once(Append(s, m))
<1>1. /\ Append(s, m) \in Seq(Message)
      /\ Len(s) \in Nat /\ DOMAIN s = 1 .. Len(s)
      /\ DOMAIN Append(s, m) = 1 .. Len(s) + 1
      /\ \A i \in 1 .. Len(s) : Append(s, m)[i] = s[i]
      /\ Append(s, m)[Len(s) + 1] = m
  BY AppendProperties, LenProperties
<1> DEFINE a == Append(s, m)
           l == Len(s)
<1> HIDE DEF a, l
<1>2. \A t : Holds(a, t) <=> Holds(s, t) \/ (m.mtype = "TRANSACTION" /\ m.tx = t)
  <2> SUFFICES ASSUME NEW t
               PROVE  Holds(a, t) <=> Holds(s, t) \/ (m.mtype = "TRANSACTION" /\ m.tx = t)
    OBVIOUS
  <2>1. DOMAIN a = DOMAIN s \cup {l + 1}
    BY <1>1 DEF a, l
  <2>2. QED
    BY <1>1, <2>1 DEF Holds, a, l
<1>3. ASSUME Once(s), m.mtype = "TRANSACTION" => ~Holds(s, m.tx) PROVE Once(a)
  <2> SUFFICES ASSUME NEW i \in DOMAIN a, NEW j \in DOMAIN a,
                      a[i].mtype = "TRANSACTION", a[j].mtype = "TRANSACTION", a[i].tx = a[j].tx
               PROVE  i = j
    BY DEF Once
  <2>1. /\ (i \in DOMAIN s /\ a[i] = s[i]) \/ (i = l + 1 /\ a[i] = m)
        /\ (j \in DOMAIN s /\ a[j] = s[j]) \/ (j = l + 1 /\ a[j] = m)
    BY <1>1 DEF a, l
  <2>2. CASE i \in DOMAIN s /\ j \in DOMAIN s /\ a[i] = s[i] /\ a[j] = s[j]
    BY <1>3, <2>2 DEF Once
  <2>3. CASE a[i] = m /\ j \in DOMAIN s /\ a[j] = s[j]
    BY <1>3, <2>3 DEF Holds
  <2>4. CASE a[j] = m /\ i \in DOMAIN s /\ a[i] = s[i]
    BY <1>3, <2>4 DEF Holds
  <2>5. QED
    BY <2>1, <2>2, <2>3, <2>4
<1>4. QED
  BY <1>1, <1>2, <1>3 DEF a

\* Removing a transaction that is there once removes it.
LEMMA HoldsRemoved ==
    ASSUME NEW s \in Seq(Message), NEW p \in 1 .. Len(s), Once(s)
    PROVE  /\ RemoveAt(s, p) \in Seq(Message)
           /\ \A t : Holds(RemoveAt(s, p), t) <=>
                        Holds(s, t) /\ ~ (s[p].mtype = "TRANSACTION" /\ s[p].tx = t)
           /\ s[p].mtype = "TRANSACTION" => Holds(s, s[p].tx)
           /\ Once(RemoveAt(s, p))
<1>1. Len(s) \in Nat /\ DOMAIN s = 1 .. Len(s)
  BY LenProperties
<1>2. /\ RemoveAt(s, p) \in Seq(Message)
      /\ DOMAIN RemoveAt(s, p) = 1 .. Len(s) - 1
      /\ \A k \in 1 .. Len(s) - 1 : RemoveAt(s, p)[k] = s[Before(p, k)]
  BY RemoveAtProperties, LenProperties
<1>3. /\ \A k \in 1 .. Len(s) - 1 : Before(p, k) \in 1 .. Len(s) /\ Before(p, k) # p
      /\ \A k, i \in 1 .. Len(s) - 1 : Before(p, k) = Before(p, i) => k = i
      /\ \A j \in 1 .. Len(s) : j # p => \E k \in 1 .. Len(s) - 1 : Before(p, k) = j
  <2>1. /\ \A k \in 1 .. Len(s) - 1 : Before(p, k) \in 1 .. Len(s) /\ Before(p, k) # p
        /\ \A k, i \in 1 .. Len(s) - 1 : Before(p, k) = Before(p, i) => k = i
    BY <1>1 DEF Before
  <2>2. ASSUME NEW j \in 1 .. Len(s), j # p
        PROVE  \E k \in 1 .. Len(s) - 1 : Before(p, k) = j
    <3>1. CASE j < p
      <4>1. j \in 1 .. Len(s) - 1 /\ Before(p, j) = j
        BY <1>1, <3>1 DEF Before
      <4>2. QED
        BY <4>1
    <3>2. CASE j > p
      <4>1. j - 1 \in 1 .. Len(s) - 1 /\ Before(p, j - 1) = j
        BY <1>1, <3>2 DEF Before
      <4>2. QED
        BY <4>1
    <3>3. QED
      BY <1>1, <2>2, <3>1, <3>2
  <2>3. QED
    BY <2>1, <2>2
<1> DEFINE r == RemoveAt(s, p)
<1> HIDE DEF r
<1>4. ASSUME NEW t
      PROVE  Holds(r, t) <=> Holds(s, t) /\ ~ (s[p].mtype = "TRANSACTION" /\ s[p].tx = t)
  <2>1. ASSUME Holds(r, t)
        PROVE  Holds(s, t) /\ ~ (s[p].mtype = "TRANSACTION" /\ s[p].tx = t)
    <3>1. PICK k \in 1 .. Len(s) - 1 : r[k].mtype = "TRANSACTION" /\ r[k].tx = t
      BY <1>2, <2>1 DEF Holds, r
    <3>2. Before(p, k) \in DOMAIN s /\ Before(p, k) # p /\ r[k] = s[Before(p, k)]
      BY <1>1, <1>2, <1>3 DEF r
    <3>3. QED
      BY <1>1, <3>1, <3>2 DEF Holds, Once
  <2>2. ASSUME Holds(s, t), ~ (s[p].mtype = "TRANSACTION" /\ s[p].tx = t)
        PROVE  Holds(r, t)
    <3>1. PICK j \in 1 .. Len(s) : s[j].mtype = "TRANSACTION" /\ s[j].tx = t
      BY <1>1, <2>2 DEF Holds
    <3>2. PICK k \in 1 .. Len(s) - 1 : Before(p, k) = j
      BY <1>3, <2>2, <3>1
    <3>3. QED
      BY <1>2, <3>1, <3>2 DEF Holds, r
  <2>3. QED
    BY <2>1, <2>2
<1>5. Once(r)
  <2> SUFFICES ASSUME NEW i \in 1 .. Len(s) - 1, NEW j \in 1 .. Len(s) - 1,
                      r[i].mtype = "TRANSACTION", r[j].mtype = "TRANSACTION", r[i].tx = r[j].tx
               PROVE  i = j
    BY <1>2 DEF Once, r
  <2>1. Before(p, i) = Before(p, j)
    BY <1>1, <1>2, <1>3 DEF Once, r
  <2>2. QED
    BY <1>3, <2>1
<1>6. s[p].mtype = "TRANSACTION" => Holds(s, s[p].tx)
  BY <1>1 DEF Holds
<1>7. QED
  BY <1>2, <1>4, <1>5, <1>6 DEF r

\* What a sequence holds without its first message.
LEMMA HoldsTail ==
    ASSUME NEW s \in Seq(Message), s # <<>>, Once(s)
    PROVE  /\ \A t : Holds(Tail(s), t) <=>
                        Holds(s, t) /\ ~ (s[1].mtype = "TRANSACTION" /\ s[1].tx = t)
           /\ s[1].mtype = "TRANSACTION" => Holds(s, s[1].tx)
           /\ Once(Tail(s)) /\ Tail(s) \in Seq(Message)
<1>1. 1 \in 1 .. Len(s) /\ Tail(s) = RemoveAt(s, 1)
  BY TailRemoves
<1> DEFINE r == RemoveAt(s, 1)
<1>2. /\ r \in Seq(Message)
      /\ \A t : Holds(r, t) <=> Holds(s, t) /\ ~ (s[1].mtype = "TRANSACTION" /\ s[1].tx = t)
      /\ s[1].mtype = "TRANSACTION" => Holds(s, s[1].tx)
      /\ Once(r)
  BY <1>1, HoldsRemoved
<1> HIDE DEF r
<1>3. QED
  BY <1>1, <1>2 DEF r

\* The empty sequence holds nothing.
LEMMA HoldsNothing == (\A t : ~Holds(<<>>, t)) /\ Once(<<>>)
BY DEF Holds, Once

\* Queues and pools as sets of holders.
LEMMA Holders ==
    ASSUME TypeOK
    PROVE  \A t : /\ Queued(t) = {q \in Node \cup {Master} : Holds(queue[q], t)}
                  /\ Pooled(t) = {n \in Node : Holds(pool[n], t)}
<1>1. \A n \in Node : \A p \in DOMAIN pool[n] : pool[n][p].mtype = "TRANSACTION"
  <2>1. ASSUME NEW n \in Node, NEW p \in DOMAIN pool[n] PROVE pool[n][p] \in TransactionMessage
    BY <2>1, NodeSequences, ElementOfSeq
  <2>2. QED
    BY <2>1 DEF TransactionMessage
<1>2. QED
  BY <1>1 DEF Queued, Pooled, MessagesAt, Holds, Range

\* Where transactions are queued once one queue has been replaced.
LEMMA QueueAt ==
    ASSUME TypeOK, TypeOK', NEW q \in Node \cup {Master}, NEW s, queue' = [queue EXCEPT ![q] = s]
    PROVE  \A t : Queued(t)' = (Queued(t) \ {q}) \cup IF Holds(s, t) THEN {q} ELSE {}
<1>1. \A t : Queued(t)' = {k \in Node \cup {Master} : Holds(queue'[k], t)}
  BY DEF Queued, MessagesAt, Holds, Range
<1>2. queue'[q] = s /\ \A k \in (Node \cup {Master}) \ {q} : queue'[k] = queue[k]
  BY DEF TypeOK
<1>3. QED
  BY <1>1, <1>2, Holders

\* Where transactions are pooled once one pool has been replaced.
LEMMA PoolAt ==
    ASSUME TypeOK, TypeOK', NEW n \in Node, NEW s, pool' = [pool EXCEPT ![n] = s]
    PROVE  \A t : Pooled(t)' = (Pooled(t) \ {n}) \cup IF Holds(s, t) THEN {n} ELSE {}
<1>1. \A k \in Node : \A p \in DOMAIN pool'[k] : pool'[k][p].mtype = "TRANSACTION"
  <2>1. ASSUME NEW k \in Node, NEW p \in DOMAIN pool'[k] PROVE pool'[k][p] \in TransactionMessage
    <3>1. pool'[k] \in Seq(TransactionMessage)
      BY DEF TypeOK
    <3>2. QED
      BY <2>1, <3>1, ElementOfSeq, LenProperties
  <2>2. QED
    BY <2>1 DEF TransactionMessage
<1>2. \A t : Pooled(t)' = {k \in Node : Holds(pool'[k], t)}
  BY <1>1 DEF Pooled, Holds
<1>3. pool'[n] = s /\ \A k \in Node \ {n} : pool'[k] = pool[k]
  BY DEF TypeOK
<1>4. QED
  BY <1>2, <1>3, Holders

\* No queue and no pool holds a transaction twice.
OnceInQueues == \A q \in Node \cup {Master} : Once(queue[q])
OnceInPools  == \A n \in Node : Once(pool[n])

\* What changes of one queue or pool do to the holders.
LEMMA QueueRemoved ==
    ASSUME TypeOK, TypeOK', OnceInQueues, NEW q \in Node \cup {Master},
           NEW p \in 1 .. Len(queue[q]), queue' = [queue EXCEPT ![q] = RemoveAt(queue[q], p)]
    PROVE  LET m == queue[q][p]
           IN  /\ \A t : Queued(t)' = IF m.mtype = "TRANSACTION" /\ m.tx = t
                                      THEN Queued(t) \ {q} ELSE Queued(t)
               /\ m.mtype = "TRANSACTION" => q \in Queued(m.tx)
               /\ OnceInQueues'
<1> DEFINE m == queue[q][p]
           r == RemoveAt(queue[q], p)
<1>1. queue[q] \in Seq(Message) /\ Once(queue[q])
  BY DEF TypeOK, OnceInQueues
<1>2. /\ \A t : Holds(r, t) <=> Holds(queue[q], t) /\ ~ (m.mtype = "TRANSACTION" /\ m.tx = t)
      /\ m.mtype = "TRANSACTION" => Holds(queue[q], m.tx)
      /\ Once(r)
  BY <1>1, HoldsRemoved
<1>3. queue' = [queue EXCEPT ![q] = r]
  OBVIOUS
<1> HIDE DEF m, r
<1>4. \A t : /\ Queued(t)' = (Queued(t) \ {q}) \cup IF Holds(r, t) THEN {q} ELSE {}
             /\ q \in Queued(t) <=> Holds(queue[q], t)
  <2>1. \A t : Queued(t)' = (Queued(t) \ {q}) \cup IF Holds(r, t) THEN {q} ELSE {}
    BY <1>3, QueueAt
  <2>2. \A t : q \in Queued(t) <=> Holds(queue[q], t)
    BY Holders
  <2>3. QED
    BY <2>1, <2>2
<1>5. \A t : Queued(t)' = IF m.mtype = "TRANSACTION" /\ m.tx = t
                          THEN Queued(t) \ {q} ELSE Queued(t)
  <2> SUFFICES ASSUME NEW t
               PROVE  Queued(t)' = IF m.mtype = "TRANSACTION" /\ m.tx = t
                                   THEN Queued(t) \ {q} ELSE Queued(t)
    OBVIOUS
  <2>1. Holds(r, t) <=> q \in Queued(t) /\ ~ (m.mtype = "TRANSACTION" /\ m.tx = t)
    BY <1>2, <1>4
  <2>2. QED
    BY <1>4, <2>1
<1>6. OnceInQueues'
  BY <1>2, <1>3 DEF OnceInQueues, TypeOK
<1>7. QED
  BY <1>2, <1>4, <1>5, <1>6 DEF m

\* A message appended to a queue adds that queue for its transaction alone.
LEMMA QueueAppended ==
    ASSUME TypeOK, TypeOK', OnceInQueues, NEW q \in Node \cup {Master}, NEW m \in Message,
           queue' = [queue EXCEPT ![q] = Append(queue[q], m)]
    PROVE  /\ \A t : Queued(t)' = IF m.mtype = "TRANSACTION" /\ m.tx = t
                                  THEN Queued(t) \cup {q} ELSE Queued(t)
           /\ (m.mtype = "TRANSACTION" => q \notin Queued(m.tx)) => OnceInQueues'
<1> DEFINE a == Append(queue[q], m)
<1>1. queue[q] \in Seq(Message) /\ Once(queue[q])
  BY DEF TypeOK, OnceInQueues
<1>2. /\ \A t : Holds(a, t) <=> Holds(queue[q], t) \/ (m.mtype = "TRANSACTION" /\ m.tx = t)
      /\ (m.mtype = "TRANSACTION" => ~Holds(queue[q], m.tx)) => Once(a)
  BY <1>1, HoldsAppend
<1>3. queue' = [queue EXCEPT ![q] = a]
  OBVIOUS
<1> HIDE DEF a
<1>4. \A t : /\ Queued(t)' = (Queued(t) \ {q}) \cup IF Holds(a, t) THEN {q} ELSE {}
             /\ q \in Queued(t) <=> Holds(queue[q], t)
  <2>1. \A t : Queued(t)' = (Queued(t) \ {q}) \cup IF Holds(a, t) THEN {q} ELSE {}
    BY <1>3, QueueAt
  <2>2. \A t : q \in Queued(t) <=> Holds(queue[q], t)
    BY Holders
  <2>3. QED
    BY <2>1, <2>2
<1>5. ASSUME NEW t
      PROVE  Queued(t)' = IF m.mtype = "TRANSACTION" /\ m.tx = t
                          THEN Queued(t) \cup {q} ELSE Queued(t)
  <2>1. Holds(a, t) <=> q \in Queued(t) \/ (m.mtype = "TRANSACTION" /\ m.tx = t)
    BY <1>2, <1>4
  <2>2. QED
    BY <1>4, <2>1
<1>6. ASSUME m.mtype = "TRANSACTION" => q \notin Queued(m.tx) PROVE OnceInQueues'
  BY <1>2, <1>3, <1>4, <1>6 DEF OnceInQueues, TypeOK
<1>7. QED
  BY <1>5, <1>6

\* A pool that is replaced by a sequence without repetitions.
LEMMA PoolReplaced ==
    ASSUME TypeOK, TypeOK', OnceInPools, NEW n \in Node, NEW s, Once(s),
           pool' = [pool EXCEPT ![n] = s]
    PROVE  /\ \A t : Pooled(t)' = IF Holds(s, t) THEN Pooled(t) \cup {n} ELSE Pooled(t) \ {n}
           /\ \A t : n \in Pooled(t) <=> Holds(pool[n], t)
           /\ OnceInPools'
<1>1. \A t : /\ Pooled(t)' = (Pooled(t) \ {n}) \cup IF Holds(s, t) THEN {n} ELSE {}
             /\ n \in Pooled(t) <=> Holds(pool[n], t)
  <2>1. \A t : Pooled(t)' = (Pooled(t) \ {n}) \cup IF Holds(s, t) THEN {n} ELSE {}
    BY PoolAt
  <2>2. \A t : n \in Pooled(t) <=> Holds(pool[n], t)
    BY Holders
  <2>3. QED
    BY <2>1, <2>2
<1>2. ASSUME NEW t
      PROVE  Pooled(t)' = IF Holds(s, t) THEN Pooled(t) \cup {n} ELSE Pooled(t) \ {n}
  BY <1>1
<1>3. OnceInPools'
  BY DEF OnceInPools, TypeOK
<1>4. QED
  BY <1>1, <1>2, <1>3

\* The oldest transaction of a pool.
LEMMA OldestOfPool ==
    ASSUME TypeOK, OnceInPools, NEW n \in Node, pool[n] # <<>>
    PROVE  LET t == pool[n][1].tx
           IN  /\ pool[n][1] \in TransactionMessage /\ t \in Tx /\ n \in Pooled(t)
               /\ \A u : Holds(Tail(pool[n]), u) <=> Holds(pool[n], u) /\ u # t
               /\ Once(Tail(pool[n])) /\ Tail(pool[n]) \in Seq(Message)
<1>1. pool[n] \in Seq(TransactionMessage) /\ Once(pool[n])
  BY DEF TypeOK, OnceInPools
<1>2. pool[n] \in Seq(Message)
  BY <1>1, Sent, NodeSequences, ElementOfSeq
<1>3. pool[n][1] \in TransactionMessage
  BY <1>1, HeadTailProperties
<1>4. pool[n][1].mtype = "TRANSACTION" /\ pool[n][1].tx \in Tx
  BY <1>3 DEF TransactionMessage
<1>5. /\ \A u : Holds(Tail(pool[n]), u) <=> Holds(pool[n], u) /\ u # pool[n][1].tx
      /\ Holds(pool[n], pool[n][1].tx)
      /\ Once(Tail(pool[n])) /\ Tail(pool[n]) \in Seq(Message)
  BY <1>1, <1>2, <1>4, HoldsTail
<1>6. QED
  BY <1>3, <1>4, <1>5, Holders

-------------------------------------------------------------------------------
(* What a step does to every transaction. *)

\* A transaction has at most one owner.
OwnerOK(t) ==
    /\ AtMostOne(Queued(t)) /\ AtMostOne(Pooled(t))
    /\ AtMostOne(Built(t)) /\ AtMostOne(Given(t))
    /\ Queued(t) # {} => Pooled(t) = {} /\ Built(t) = {} /\ Given(t) = {}
    /\ Pooled(t) # {} => Built(t) = {} /\ Given(t) = {}
    /\ Built(t) # {} => Given(t) = {}

\* OneOwner, transaction by transaction.
LEMMA OneOwnerParts == OneOwner <=> OnceInQueues /\ OnceInPools /\ \A t \in Tx : OwnerOK(t)
BY DEF OneOwner, OnceInQueues, OnceInPools, OwnerOK

\* t has been sent, and is neither in a batch nor given up.
Pending(t) == Queued(t) # {} \/ Pooled(t) # {}

\* Nothing happens to t.
Steady(t) ==
    /\ Queued(t)' = Queued(t) /\ Pooled(t)' = Pooled(t)
    /\ Built(t)' = Built(t) /\ Given(t)' = Given(t)

\* t is in one queue or one pool after the step.
GoesTo(t) ==
    /\ Built(t)' = {} /\ Given(t)' = {}
    /\ \/ Pooled(t)' = {} /\ \E q : Queued(t)' = {q}
       \/ Queued(t)' = {} /\ \E n : Pooled(t)' = {n}

\* The step moves t, which may be new, to a queue or a pool.
MovesOne(t) ==
    /\ Unsent(t) \/ Pending(t)
    /\ GoesTo(t)
    /\ \A u \in Tx \ {t} : Steady(u)
    /\ UNCHANGED <<blocks, dropped>>

\* It hands the batch T to a builder.
HandsOver(T) ==
    /\ Cardinality(T) = SO_BLOCK_SIZE - 1
    /\ blocks' = blocks \cup {T} /\ UNCHANGED dropped
    /\ \A t \in T : /\ Pending(t)
                    /\ Queued(t)' = {} /\ Pooled(t)' = {} /\ Built(t)' = {T} /\ Given(t)' = {}
    /\ \A u \in Tx \ T : Steady(u)

\* It gives the transactions of T up.
GivesUp(T) ==
    /\ UNCHANGED blocks
    /\ {d.tx : d \in dropped'} = {d.tx : d \in dropped} \cup T
    /\ \A t \in T : /\ Pending(t)
                    /\ Queued(t)' = {} /\ Pooled(t)' = {} /\ Built(t)' = {}
                    /\ \E d : Given(t)' = {d}
    /\ \A u \in Tx \ T : Steady(u)

\* What a step does to all transactions together.
Flow ==
    \/ \E t \in Tx : MovesOne(t)
    \/ \E T \in SUBSET Tx : HandsOver(T)
    \/ \E T \in SUBSET Tx : GivesUp(T)

\* A step that touches no transaction gives up none.
LEMMA NoFlow ==
    ASSUME \A t \in Tx : Queued(t)' = Queued(t), \A t \in Tx : Pooled(t)' = Pooled(t),
           UNCHANGED <<blocks, dropped>>
    PROVE  Flow
<1>1. \A t \in Tx : Built(t)' = Built(t) /\ Given(t)' = Given(t)
  BY DEF Built, Given
<1>2. GivesUp({})
  BY <1>1 DEF GivesUp, Steady
<1>3. QED
  BY <1>2 DEF Flow

\* Pools that stay as they are hold the same transactions.
LEMMA PoolUnchanged == UNCHANGED pool => \A t : Pooled(t)' = Pooled(t)
BY DEF Pooled

\* Queues that stay as they are hold the same transactions.
LEMMA QueueUnchanged == UNCHANGED queue => \A t : Queued(t)' = Queued(t)
BY DEF Queued, MessagesAt

\* A pending transaction has no other owner.
LEMMA OnlyOwner ==
    ASSUME NEW t, OwnerOK(t)
    PROVE  /\ \A q \in Queued(t) : /\ Queued(t) = {q} /\ Pooled(t) = {}
                                   /\ Built(t) = {} /\ Given(t) = {}
           /\ \A n \in Pooled(t) : /\ Queued(t) = {} /\ Pooled(t) = {n}
                                   /\ Built(t) = {} /\ Given(t) = {}
BY DEF OwnerOK, AtMostOne

\* One transaction is given up.
LEMMA GivesUpOne ==
    ASSUME NEW t \in Tx, NEW where, OwnerOK(t), Pending(t),
           dropped' = dropped \cup {[tx |-> t, by |-> where]}, UNCHANGED blocks,
           \A u \in Tx : Queued(u)' = IF u = t THEN {} ELSE Queued(u),
           \A u \in Tx : Pooled(u)' = IF u = t THEN {} ELSE Pooled(u)
    PROVE  Flow
<1>1. Built(t) = {} /\ Given(t) = {}
  BY OnlyOwner DEF Pending
<1>2. \A u \in Tx : Built(u)' = Built(u)
  BY DEF Built
<1>3. \A u : Given(u)' = IF u = t THEN Given(u) \cup {[tx |-> t, by |-> where]} ELSE Given(u)
  BY DEF Given
<1>4. {d.tx : d \in dropped'} = {d.tx : d \in dropped} \cup {t}
  <2> DEFINE r == [tx |-> t, by |-> where]
  <2>1. dropped' = dropped \cup {r} /\ r.tx = t
    OBVIOUS
  <2> HIDE DEF r
  <2>2. QED
    BY <2>1
<1>5. Given(t)' = {[tx |-> t, by |-> where]}
  BY <1>1, <1>3
<1>6. \A u \in Tx \ {t} : Steady(u)
  BY <1>2, <1>3 DEF Steady
<1>7. GivesUp({t})
  BY <1>1, <1>2, <1>4, <1>5, <1>6 DEF GivesUp
<1>8. QED
  BY <1>7 DEF Flow

\* What every step may assume, and has to show.
LEMMA OwnersBefore ==
    ASSUME NodesInv
    PROVE  /\ TypeOK /\ SpawnOrder /\ LoopState /\ FriendsReady /\ BatchAtOnce
           /\ OnceInQueues /\ OnceInPools /\ \A t \in Tx : OwnerOK(t)
BY OneOwnerParts DEF NodesInv

\* The master only moves friends, and the listener gives one transaction up.
LEMMA MasterFlow ==
    ASSUME NodesInv, TypeOK', MasterStep
    PROVE  Flow /\ OnceInQueues' /\ OnceInPools'
<1>1. /\ TypeOK /\ SpawnOrder /\ OnceInQueues /\ OnceInPools /\ \A t \in Tx : OwnerOK(t)
  BY OwnersBefore
<1>2. UNCHANGED <<pool, blocks>> /\ OnceInPools' /\ \A t : Pooled(t)' = Pooled(t)
  BY <1>1, MasterEffect, PoolUnchanged DEF OnceInPools
<1>3. CASE UNCHANGED <<queue, dropped>>
  <2>1. OnceInQueues'
    BY <1>1, <1>3 DEF OnceInQueues
  <2>2. QED
    BY <1>2, <1>3, <2>1, QueueUnchanged, NoFlow
<1>4. CASE Deliver
  <2>1. PICK to \in Node \cup {NoPid}, friend \in Node \cup {NoPid} :
           /\ \/ UNCHANGED queue
              \/ to \in Node /\ queue' = [queue EXCEPT ![to] = Append(queue[to], Friend(friend))]
           /\ UNCHANGED dropped
    BY <1>1, <1>4, DeliverEffect
  <2>2. CASE to \in Node /\ queue' = [queue EXCEPT ![to] = Append(queue[to], Friend(friend))]
    <3> DEFINE m == Friend(friend)
    <3>1. m \in Message /\ m.mtype = "FRIENDS"
      BY Sent
    <3>2. queue' = [queue EXCEPT ![to] = Append(queue[to], m)]
      BY <2>2
    <3> HIDE DEF m
    <3>3. (\A t : Queued(t)' = Queued(t)) /\ OnceInQueues'
      BY <1>1, <2>2, <3>1, <3>2, QueueAppended
    <3>4. QED
      BY <1>2, <2>1, <3>3, NoFlow
  <2>3. QED
    BY <1>3, <2>1, <2>2
<1>5. CASE Listen
  <2> DEFINE m == Head(queue[Master])
  <2>1. /\ m = queue[Master][1] /\ m \in TransactionMessage /\ queue[Master] # <<>>
        /\ queue' = [queue EXCEPT ![Master] = Tail(queue[Master])]
        /\ dropped' = dropped \cup {[tx |-> m.tx, by |-> "listener"]}
    BY <1>1, <1>5, ListenEffect
  <2> HIDE DEF m
  <2>2. m.mtype = "TRANSACTION" /\ m.tx \in Tx
    BY <2>1 DEF TransactionMessage
  <2>3. /\ 1 \in 1 .. Len(queue[Master])
        /\ queue' = [queue EXCEPT ![Master] = RemoveAt(queue[Master], 1)]
    BY <1>1, <2>1, TailRemoves DEF TypeOK
  <2>4. /\ \A t : Queued(t)' = IF t = m.tx THEN Queued(t) \ {Master} ELSE Queued(t)
        /\ Master \in Queued(m.tx) /\ OnceInQueues'
    <3> DEFINE x == queue[Master][1]
    <3>1. /\ \A t : Queued(t)' = IF x.mtype = "TRANSACTION" /\ x.tx = t
                               THEN Queued(t) \ {Master} ELSE Queued(t)
          /\ x.mtype = "TRANSACTION" => Master \in Queued(x.tx)
          /\ OnceInQueues'
      BY <1>1, <2>3, QueueRemoved
    <3>2. QED
      BY <2>1, <2>2, <3>1
  <2>5. Queued(m.tx) = {Master} /\ Pooled(m.tx) = {} /\ Pending(m.tx)
    BY <1>1, <2>2, <2>4, OnlyOwner DEF Pending
  <2>6. /\ \A u \in Tx : Queued(u)' = IF u = m.tx THEN {} ELSE Queued(u)
        /\ \A u \in Tx : Pooled(u)' = IF u = m.tx THEN {} ELSE Pooled(u)
    BY <1>2, <2>4, <2>5
  <2>7. Flow
    BY <1>1, <1>2, <2>1, <2>2, <2>5, <2>6, GivesUpOne
  <2>8. QED
    BY <1>2, <2>4, <2>7
<1>6. QED
  <2>1. CASE ~Deliver /\ ~Listen
    BY <1>3, <2>1 DEF MasterStep, SpawnInitial, RecordInitial, StartFriendLists, SendFriendList,
                      RecordExtra
  <2>2. QED
    BY <1>4, <1>5, <2>1

\* One transaction moves.
LEMMA MovesFlow ==
    ASSUME NEW t \in Tx, Unsent(t) \/ (OwnerOK(t) /\ Pending(t)), UNCHANGED <<blocks, dropped>>,
           \/ Pooled(t)' = {} /\ \E q : Queued(t)' = {q}
           \/ Queued(t)' = {} /\ \E n : Pooled(t)' = {n},
           \A u \in Tx \ {t} : Queued(u)' = Queued(u) /\ Pooled(u)' = Pooled(u)
    PROVE  Flow
<1>1. \A u : Built(u)' = Built(u) /\ Given(u)' = Given(u)
  BY DEF Built, Given
<1>2. Built(t) = {} /\ Given(t) = {}
  BY OnlyOwner DEF Unsent, Pending
<1>3. MovesOne(t)
  BY <1>1, <1>2 DEF MovesOne, GoesTo, Steady
<1>4. QED
  BY <1>3 DEF Flow

\* A node's step, but for forwarding and blocks.
LEMMA FetchFlow ==
    ASSUME NodesInv, TypeOK', NEW n \in Node,
           \/ CreateQueue(n) \/ Befriend(n) \/ FetchTransaction(n) \/ FetchFriend(n) \/ Report(n)
    PROVE  Flow /\ OnceInQueues' /\ OnceInPools'
<1>1. /\ TypeOK /\ LoopState /\ OnceInQueues /\ OnceInPools /\ \A t \in Tx : OwnerOK(t)
  BY OwnersBefore
<1>2. CASE UNCHANGED <<queue, pool, blocks, dropped>>
  BY <1>1, <1>2, QueueUnchanged, PoolUnchanged, NoFlow DEF OnceInQueues, OnceInPools
<1>3. ASSUME NEW p \in 1 .. Len(queue[n]), queue[n][p].mtype = "FRIENDS",
             queue' = [queue EXCEPT ![n] = RemoveAt(queue[n], p)],
             UNCHANGED <<pool, blocks, dropped>>
      PROVE  Flow /\ OnceInQueues' /\ OnceInPools'
  <2>1. (\A t : Queued(t)' = Queued(t)) /\ OnceInQueues'
    BY <1>1, <1>3, QueueRemoved
  <2>2. OnceInPools' /\ \A t : Pooled(t)' = Pooled(t)
    BY <1>1, <1>3, PoolUnchanged DEF OnceInPools
  <2>3. QED
    BY <1>3, <2>1, <2>2, NoFlow
<1>4. CASE CreateQueue(n) \/ Report(n)
  BY <1>2, <1>4 DEF CreateQueue, Report, nodeVars
<1>5. CASE Befriend(n)
  <2>1. PICK p \in 1 .. Len(queue[n]) :
           /\ queue[n][p].mtype = "FRIENDS"
           /\ queue' = [queue EXCEPT ![n] = RemoveAt(queue[n], p)]
           /\ UNCHANGED <<pool, blocks, dropped>>
    BY <1>1, <1>5, BefriendEffect
  <2>2. QED
    BY <1>3, <2>1
<1>6. CASE FetchFriend(n)
  <2>1. /\ UNCHANGED <<pool, blocks, dropped>>
        /\ \/ UNCHANGED queue
           \/ \E p \in 1 .. Len(queue[n]) :
                 /\ queue[n][p].mtype = "FRIENDS"
                 /\ queue' = [queue EXCEPT ![n] = RemoveAt(queue[n], p)]
    BY <1>1, <1>6, FetchFriendEffect
  <2>2. QED
    BY <1>2, <1>3, <2>1
<1>7. CASE FetchTransaction(n)
  <2>1. PICK p \in 1 .. Len(queue[n]) :
           /\ queue[n][p] \in TransactionMessage /\ queue[n][p].mtype = "TRANSACTION"
           /\ queue' = [queue EXCEPT ![n] = RemoveAt(queue[n], p)]
           /\ pool' = [pool EXCEPT ![n] = Append(pool[n], queue[n][p])]
           /\ UNCHANGED <<blocks, dropped>>
    BY <1>1, <1>7, FetchTransactionEffect
  <2> DEFINE m == queue[n][p]
             s == Append(pool[n], m)
  <2>2. m \in TransactionMessage /\ m \in Message /\ m.mtype = "TRANSACTION" /\ m.tx \in Tx
    BY <2>1, Sent DEF TransactionMessage
  <2>3. /\ \A t : Queued(t)' = IF m.mtype = "TRANSACTION" /\ m.tx = t
                               THEN Queued(t) \ {n} ELSE Queued(t)
        /\ m.mtype = "TRANSACTION" => n \in Queued(m.tx)
        /\ OnceInQueues'
    BY <1>1, <2>1, QueueRemoved
  <2>4. pool[n] \in Seq(Message) /\ Once(pool[n]) /\ pool' = [pool EXCEPT ![n] = s]
    <3>1. pool[n] \in Seq(Message)
      BY <1>1, NodeSequences, Sent, ElementOfSeq
    <3>2. QED
      BY <1>1, <2>1, <3>1 DEF OnceInPools
  <2>5. PICK x \in Tx : x = m.tx
    BY <2>2
  <2>6. Queued(x) = {n} /\ Pooled(x) = {} /\ Pending(x) /\ ~Holds(pool[n], x)
    BY <1>1, <2>2, <2>3, <2>5, OnlyOwner, Holders DEF Pending
  <2>7. (\A t : Holds(s, t) <=> Holds(pool[n], t) \/ x = t) /\ Once(s)
    BY <2>2, <2>4, <2>5, <2>6, HoldsAppend
  <2> HIDE DEF m, s
  <2>8. /\ \A t : Pooled(t)' = IF Holds(s, t) THEN Pooled(t) \cup {n} ELSE Pooled(t) \ {n}
        /\ \A t : n \in Pooled(t) <=> Holds(pool[n], t)
        /\ OnceInPools'
    BY <1>1, <2>4, <2>7, PoolReplaced
  <2>9. \A u \in Tx \ {x} : Queued(u)' = Queued(u) /\ Pooled(u)' = Pooled(u)
    BY <2>2, <2>3, <2>5, <2>7, <2>8
  <2>10. Queued(x)' = {} /\ Pooled(x)' = {n}
    BY <2>2, <2>3, <2>5, <2>6, <2>7, <2>8
  <2>11. Flow
    BY <1>1, <2>1, <2>6, <2>9, <2>10, MovesFlow
  <2>12. QED
    BY <2>3, <2>8, <2>11
<1>8. QED
  BY <1>4, <1>5, <1>6, <1>7

\* Forwarding.
LEMMA ForwardFlow ==
    ASSUME NodesInv, TypeOK', NEW n \in Node, Forward(n)
    PROVE  Flow /\ OnceInQueues' /\ OnceInPools'
<1>1. /\ TypeOK /\ FriendsReady /\ OnceInQueues /\ OnceInPools /\ \A t \in Tx : OwnerOK(t)
  BY OwnersBefore
<1>2. UNCHANGED blocks
  BY <1>1, ForwardEffect
<1>3. CASE ForwardNothing(n)
  <2>1. UNCHANGED <<queue, pool, dropped>>
    BY <1>3 DEF ForwardNothing
  <2>2. QED
    BY <1>1, <1>2, <2>1, QueueUnchanged, PoolUnchanged, NoFlow DEF OnceInQueues, OnceInPools
<1>4. ASSUME NEW x \in Tx, pool[n] # <<>>, x = pool[n][1].tx
      PROVE  /\ Queued(x) = {} /\ Pooled(x) = {n} /\ Pending(x)
             /\ \A u : Holds(Tail(pool[n]), u) <=> Holds(pool[n], u) /\ u # x
             /\ Once(Tail(pool[n])) /\ Tail(pool[n]) \in Seq(Message)
  <2>1. /\ n \in Pooled(x)
        /\ \A u : Holds(Tail(pool[n]), u) <=> Holds(pool[n], u) /\ u # x
        /\ Once(Tail(pool[n])) /\ Tail(pool[n]) \in Seq(Message)
    BY <1>1, <1>4, OldestOfPool
  <2>2. QED
    BY <1>1, <2>1, OnlyOwner DEF Pending
<1>5. ASSUME NEW x \in Tx, pool[n] # <<>>, x = pool[n][1].tx,
             pool' = [pool EXCEPT ![n] = Tail(pool[n])]
      PROVE  OnceInPools' /\ \A u : Pooled(u)' = IF u = x THEN {} ELSE Pooled(u)
  <2> DEFINE s == Tail(pool[n])
  <2>1. /\ Pooled(x) = {n} /\ \A u : Holds(s, u) <=> Holds(pool[n], u) /\ u # x
        /\ Once(s) /\ pool' = [pool EXCEPT ![n] = s]
    BY <1>4, <1>5
  <2> HIDE DEF s
  <2>2. /\ \A t : Pooled(t)' = IF Holds(s, t) THEN Pooled(t) \cup {n} ELSE Pooled(t) \ {n}
        /\ \A t : n \in Pooled(t) <=> Holds(pool[n], t)
        /\ OnceInPools'
    BY <1>1, <2>1, PoolReplaced
  <2>3. QED
    BY <2>1, <2>2
<1>6. CASE ForwardToParent(n)
  <2>1. PICK m \in TransactionMessage :
           /\ pool[n] # <<>> /\ pool[n][1] = m
           /\ pool' = [pool EXCEPT ![n] = Tail(pool[n])]
           /\ \/ /\ queue' = [queue EXCEPT ![Master] = Append(queue[Master], m)]
                 /\ UNCHANGED dropped
              \/ /\ dropped' = dropped \cup {[tx |-> m.tx, by |-> "hops"]}
                 /\ UNCHANGED queue
    BY <1>1, <1>6, ForwardToParentEffect
  <2>2. PICK x \in Tx : x = m.tx
    BY DEF TransactionMessage
  <2>3. m \in Message /\ m.mtype = "TRANSACTION"
    BY Sent DEF TransactionMessage
  <2>4. Queued(x) = {} /\ Pooled(x) = {n} /\ Pending(x)
    BY <1>4, <2>1, <2>2
  <2>5. OnceInPools' /\ \A u : Pooled(u)' = IF u = x THEN {} ELSE Pooled(u)
    BY <1>5, <2>1, <2>2
  <2>6. CASE queue' = [queue EXCEPT ![Master] = Append(queue[Master], m)] /\ UNCHANGED dropped
    <3>1. OnceInQueues' /\ \A t : Queued(t)' = IF x = t THEN Queued(t) \cup {Master} ELSE Queued(t)
      BY <1>1, <2>2, <2>3, <2>4, <2>6, QueueAppended
    <3>2. Queued(x)' = {Master} /\ Pooled(x)' = {}
      BY <2>4, <2>5, <3>1
    <3>3. Flow
      BY <1>1, <1>2, <2>4, <2>5, <2>6, <3>1, <3>2, MovesFlow
    <3>4. QED
      BY <2>5, <3>1, <3>3
  <2>7. CASE dropped' = dropped \cup {[tx |-> m.tx, by |-> "hops"]} /\ UNCHANGED queue
    <3>1. OnceInQueues' /\ \A u \in Tx : Queued(u)' = IF u = x THEN {} ELSE Queued(u)
      BY <1>1, <2>4, <2>7, QueueUnchanged DEF OnceInQueues
    <3>2. Flow
      BY <1>1, <1>2, <2>2, <2>4, <2>5, <2>7, <3>1, GivesUpOne
    <3>3. QED
      BY <2>5, <3>1, <3>2
  <2>8. QED
    BY <2>1, <2>6, <2>7
<1>7. ASSUME NEW f \in InitialNode, ForwardToFriend(n, f)
      PROVE  Flow /\ OnceInQueues' /\ OnceInPools'
  <2>1. PICK sent \in TransactionMessage :
           /\ pool[n] # <<>> /\ sent.tx = pool[n][1].tx
           /\ pool[n][1].mtype = "TRANSACTION" /\ sent.mtype = "TRANSACTION"
           /\ \/ /\ queue' = [queue EXCEPT ![f] = Append(queue[f], sent)]
                 /\ pool' = [pool EXCEPT ![n] = Tail(pool[n])]
              \/ /\ pool' = [pool EXCEPT ![n] = Append(Tail(pool[n]), sent)]
                 /\ UNCHANGED queue
           /\ UNCHANGED dropped
    BY <1>1, <1>7, ForwardToFriendEffect
  <2>2. PICK x \in Tx : x = sent.tx
    BY DEF TransactionMessage
  <2>3. sent \in Message /\ f \in Node
    BY Sent, Indices
  <2>4. /\ Queued(x) = {} /\ Pooled(x) = {n} /\ Pending(x)
        /\ \A u : Holds(Tail(pool[n]), u) <=> Holds(pool[n], u) /\ u # x
        /\ Once(Tail(pool[n])) /\ Tail(pool[n]) \in Seq(Message)
    BY <1>4, <2>1, <2>2
  <2>5. CASE /\ queue' = [queue EXCEPT ![f] = Append(queue[f], sent)]
             /\ pool' = [pool EXCEPT ![n] = Tail(pool[n])]
    <3>1. OnceInPools' /\ \A u : Pooled(u)' = IF u = x THEN {} ELSE Pooled(u)
      BY <1>5, <2>1, <2>2, <2>5
    <3>2. OnceInQueues' /\ \A t : Queued(t)' = IF x = t THEN Queued(t) \cup {f} ELSE Queued(t)
      BY <1>1, <2>1, <2>2, <2>3, <2>4, <2>5, QueueAppended
    <3>3. Queued(x)' = {f} /\ Pooled(x)' = {}
      BY <2>4, <3>1, <3>2
    <3>4. Flow
      BY <1>1, <1>2, <2>1, <2>4, <3>1, <3>2, <3>3, MovesFlow
    <3>5. QED
      BY <3>1, <3>2, <3>4
  <2>6. CASE /\ pool' = [pool EXCEPT ![n] = Append(Tail(pool[n]), sent)]
             /\ UNCHANGED queue
    <3> DEFINE s == Append(Tail(pool[n]), sent)
    <3>1. (\A t : Holds(s, t) <=> Holds(Tail(pool[n]), t) \/ x = t) /\ Once(s)
      BY <2>1, <2>2, <2>3, <2>4, HoldsAppend
    <3>2. pool' = [pool EXCEPT ![n] = s]
      BY <2>6
    <3> HIDE DEF s
    <3>3. /\ \A t : Pooled(t)' = IF Holds(s, t) THEN Pooled(t) \cup {n} ELSE Pooled(t) \ {n}
          /\ \A t : n \in Pooled(t) <=> Holds(pool[n], t)
          /\ OnceInPools'
      BY <1>1, <3>1, <3>2, PoolReplaced
    <3>4. \A t : Pooled(t)' = Pooled(t)
      BY <2>4, <3>1, <3>3
    <3>5. OnceInQueues' /\ \A t : Queued(t)' = Queued(t)
      BY <1>1, <2>6, QueueUnchanged DEF OnceInQueues
    <3>6. QED
      BY <1>2, <2>1, <3>3, <3>4, <3>5, NoFlow
  <2>7. QED
    BY <2>1, <2>5, <2>6
<1>8. CASE ForwardToNobody(n, NoPid)
  <2> DEFINE T == {t \in Tx : Holds(pool[n], t) \/ Holds(queue[n], t)}
             lost == {x \in Range(pool[n]) \cup Range(queue[n]) : x.mtype = "TRANSACTION"}
  <2>1. /\ pool' = [pool EXCEPT ![n] = <<>>] /\ queue' = [queue EXCEPT ![n] = <<>>]
        /\ dropped' = dropped \cup {[tx |-> m.tx, by |-> "exit"] : m \in lost}
    BY <1>8 DEF ForwardToNobody
  <2>2. /\ \A m \in lost : m.tx \in T
        /\ \A t \in T : \E m \in lost : m.tx = t
    <3>1. \A m \in lost : m.tx \in Tx
      <4>1. Range(pool[n]) \subseteq Message /\ Range(queue[n]) \subseteq Message
        BY <1>1, NodeSequences, ElementOfSeq, Sent DEF Range
      <4>2. QED
        BY <4>1, Messages
    <3>2. QED
      BY <3>1 DEF Holds, Range
  <2> HIDE DEF lost
  <2>3. \A t : Given(t)' = Given(t) \cup IF t \in T THEN {[tx |-> t, by |-> "exit"]} ELSE {}
    BY <2>1, <2>2 DEF Given
  <2>4. {d.tx : d \in dropped'} = {d.tx : d \in dropped} \cup T
    <3>1. \A d \in dropped' : d \in dropped \/ d.tx \in T
      BY <2>1, <2>2
    <3>2. ASSUME NEW t \in T PROVE \E d \in dropped' : d.tx = t
      <4>1. PICK m \in lost : m.tx = t
        BY <2>2
      <4>2. [tx |-> m.tx, by |-> "exit"] \in dropped'
        BY <2>1
      <4>3. QED
        BY <4>1, <4>2
    <3>3. dropped \subseteq dropped'
      BY <2>1
    <3>4. QED
      BY <3>1, <3>2, <3>3
  <2>5. /\ \A t : Pooled(t)' = Pooled(t) \ {n} /\ (n \in Pooled(t) <=> Holds(pool[n], t))
        /\ OnceInPools'
    BY <1>1, <2>1, PoolReplaced, HoldsNothing
  <2>6. /\ \A t : Queued(t)' = Queued(t) \ {n} /\ (n \in Queued(t) <=> Holds(queue[n], t))
        /\ OnceInQueues'
    <3>1. \A t : Queued(t)' = (Queued(t) \ {n}) \cup IF Holds(<<>>, t) THEN {n} ELSE {}
      BY <1>1, <2>1, QueueAt
    <3>2. \A t : n \in Queued(t) <=> Holds(queue[n], t)
      BY <1>1, Holders
    <3>3. OnceInQueues'
      BY <1>1, <2>1, HoldsNothing DEF OnceInQueues, TypeOK
    <3>4. QED
      BY <3>1, <3>2, <3>3, HoldsNothing
  <2>7. ASSUME NEW t \in T
        PROVE  /\ Pending(t) /\ Queued(t)' = {} /\ Pooled(t)' = {} /\ Built(t)' = {}
               /\ Given(t)' = {[tx |-> t, by |-> "exit"]}
    <3>1. n \in Pooled(t) \/ n \in Queued(t)
      BY <2>5, <2>6
    <3>2. /\ Pending(t) /\ Queued(t) \subseteq {n} /\ Pooled(t) \subseteq {n}
          /\ Built(t) = {} /\ Given(t) = {}
      BY <1>1, <3>1, OnlyOwner DEF Pending
    <3>3. Built(t)' = {} /\ Given(t)' = {[tx |-> t, by |-> "exit"]}
      BY <1>2, <2>3, <3>2 DEF Built
    <3>4. QED
      BY <2>5, <2>6, <3>2, <3>3
  <2>8. ASSUME NEW u \in Tx \ T PROVE Steady(u)
    <3>1. Pooled(u)' = Pooled(u) /\ Queued(u)' = Queued(u)
      BY <2>5, <2>6
    <3>2. QED
      BY <1>2, <2>3, <3>1 DEF Steady, Built
  <2>9. GivesUp(T)
    BY <1>2, <2>4, <2>7, <2>8 DEF GivesUp
  <2>10. QED
    BY <2>5, <2>6, <2>9 DEF Flow
<1>9. QED
  BY <1>1, <1>3, <1>6, <1>7, <1>8, ForwardEffect

\* A batch: the transactions of the pool, all different.
LEMMA BatchOfPool ==
    ASSUME TypeOK, OnceInPools, NEW n \in Node, DOMAIN pool[n] = 1 .. SO_BLOCK_SIZE - 1
    PROVE  /\ Batch(n) \in SUBSET Tx
           /\ \A t \in Tx : t \in Batch(n) <=> Holds(pool[n], t)
           /\ Cardinality(Batch(n)) = SO_BLOCK_SIZE - 1
<1> DEFINE D == 1 .. SO_BLOCK_SIZE - 1
           f == [p \in D |-> pool[n][p].tx]
<1>1. \A p \in D : pool[n][p].mtype = "TRANSACTION" /\ pool[n][p].tx \in Tx
  <2>1. \A p \in D : pool[n][p] \in TransactionMessage
    BY NodeSequences, ElementOfSeq
  <2>2. QED
    BY <2>1 DEF TransactionMessage
<1>2. Batch(n) \in SUBSET Tx /\ \A t \in Tx : t \in Batch(n) <=> Holds(pool[n], t)
  BY <1>1 DEF Batch, Holds
<1>3. \A p, q \in D : pool[n][p].tx = pool[n][q].tx => p = q
  BY <1>1 DEF OnceInPools, Once
<1>4. f \in [D -> Batch(n)] /\ (\A p, q \in D : f[p] = f[q] => p = q)
      /\ \A t \in Batch(n) : \E p \in D : f[p] = t
  BY <1>3 DEF Batch
<1>5. ExistsBijection(D, Batch(n))
  <2> HIDE DEF f, D
  <2>1. f \in Bijection(D, Batch(n))
    BY <1>4 DEF Bijection, Injection, IsInjective, Surjection
  <2>2. QED
    BY <2>1 DEF ExistsBijection
<1>6. IsFiniteSet(D) /\ Cardinality(D) = SO_BLOCK_SIZE - 1
  BY FS_Interval, NodesAssumption DEF NodesAssumption
<1>7. Cardinality(Batch(n)) = SO_BLOCK_SIZE - 1
  BY <1>5, <1>6, FS_Bijection
<1>8. QED
  BY <1>2, <1>7

\* Handing a batch to its builder.
LEMMA BlockFlow ==
    ASSUME NodesInv, TypeOK', NEW n \in Node, MakeBlock(n)
    PROVE  Flow /\ OnceInQueues' /\ OnceInPools'
<1>1. /\ TypeOK /\ BatchAtOnce /\ OnceInQueues /\ OnceInPools /\ \A t \in Tx : OwnerOK(t)
  BY OwnersBefore
<1>2. /\ DOMAIN pool[n] = 1 .. SO_BLOCK_SIZE - 1
      /\ pool' = [pool EXCEPT ![n] = <<>>]
      /\ \/ blocks' = blocks \cup {Batch(n)} /\ UNCHANGED dropped
         \/ /\ dropped' = dropped \cup {[tx |-> t, by |-> "fork"] : t \in Batch(n)}
            /\ UNCHANGED blocks
      /\ UNCHANGED queue
  BY <1>1, MakeBlockEffect
<1>3. PICK T \in SUBSET Tx : T = Batch(n)
  BY <1>1, <1>2, BatchOfPool
<1>4. Cardinality(T) = SO_BLOCK_SIZE - 1 /\ \A t \in Tx : t \in T <=> Holds(pool[n], t)
  BY <1>1, <1>2, <1>3, BatchOfPool
<1>5. /\ \A t : Pooled(t)' = Pooled(t) \ {n} /\ (n \in Pooled(t) <=> Holds(pool[n], t))
      /\ OnceInPools'
  BY <1>1, <1>2, PoolReplaced, HoldsNothing
<1>6. OnceInQueues' /\ \A t : Queued(t)' = Queued(t)
  BY <1>1, <1>2, QueueUnchanged DEF OnceInQueues
<1>7. ASSUME NEW t \in T
      PROVE  /\ Pending(t) /\ Queued(t)' = {} /\ Pooled(t)' = {}
             /\ Built(t) = {} /\ Given(t) = {}
  <2>1. n \in Pooled(t)
    BY <1>4, <1>5
  <2>2. Queued(t) = {} /\ Pooled(t) = {n} /\ Built(t) = {} /\ Given(t) = {}
    BY <1>1, <2>1, OnlyOwner
  <2>3. QED
    BY <1>5, <1>6, <2>1, <2>2 DEF Pending
<1>8. ASSUME NEW u \in Tx \ T PROVE Queued(u)' = Queued(u) /\ Pooled(u)' = Pooled(u)
  BY <1>4, <1>5, <1>6
<1>9. CASE blocks' = blocks \cup {T} /\ UNCHANGED dropped
  <2>1. \A t : /\ Built(t)' = Built(t) \cup IF t \in T THEN {T} ELSE {}
               /\ Given(t)' = Given(t)
    BY <1>9 DEF Built, Given
  <2>2. HandsOver(T)
    BY <1>4, <1>7, <1>8, <1>9, <2>1 DEF HandsOver, Steady
  <2>3. QED
    BY <1>5, <1>6, <2>2 DEF Flow
<1>10. CASE /\ dropped' = dropped \cup {[tx |-> t, by |-> "fork"] : t \in T}
            /\ UNCHANGED blocks
  <2>1. \A t : /\ Given(t)' = Given(t) \cup IF t \in T THEN {[tx |-> t, by |-> "fork"]} ELSE {}
               /\ Built(t)' = Built(t)
    BY <1>10 DEF Built, Given
  <2>2. {d.tx : d \in dropped'} = {d.tx : d \in dropped} \cup T
    <3>1. \A d \in dropped' : d \in dropped \/ d.tx \in T
      BY <1>10
    <3>2. ASSUME NEW t \in T PROVE \E d \in dropped' : d.tx = t
      <4>1. [tx |-> t, by |-> "fork"] \in dropped'
        BY <1>10
      <4>2. QED
        BY <4>1
    <3>3. dropped \subseteq dropped'
      BY <1>10
    <3>4. QED
      BY <3>1, <3>2, <3>3
  <2>3. GivesUp(T)
    BY <1>7, <1>8, <1>10, <2>1, <2>2 DEF GivesUp, Steady
  <2>4. QED
    BY <1>5, <1>6, <2>3 DEF Flow
<1>11. QED
  BY <1>2, <1>3, <1>9, <1>10

\* A user's transaction is new.
LEMMA SendFlow ==
    ASSUME NodesInv, TypeOK', NEW t \in Tx, NEW n \in Node, Send(t, n)
    PROVE  Flow /\ OnceInQueues' /\ OnceInPools'
<1>1. TypeOK /\ OnceInQueues /\ OnceInPools
  BY OwnersBefore
<1> DEFINE m == Transaction(t, SO_HOPS)
<1>2. /\ m \in Message /\ m.tx = t /\ m.mtype = "TRANSACTION" /\ Unsent(t)
      /\ queue' = [queue EXCEPT ![n] = Append(queue[n], m)]
      /\ UNCHANGED <<pool, blocks, dropped>>
  BY <1>1, SendEffect
<1> HIDE DEF m
<1>3. /\ \A u : Queued(u)' = IF t = u THEN Queued(u) \cup {n} ELSE Queued(u)
      /\ OnceInQueues'
  BY <1>1, <1>2, QueueAppended DEF Unsent
<1>4. OnceInPools' /\ \A u : Pooled(u)' = Pooled(u)
  BY <1>1, <1>2, PoolUnchanged DEF OnceInPools
<1>5. Queued(t)' = {n} /\ Pooled(t)' = {}
  BY <1>2, <1>3, <1>4 DEF Unsent
<1>6. Flow
  BY <1>2, <1>3, <1>4, <1>5, MovesFlow
<1>7. QED
  BY <1>3, <1>4, <1>6

\* Every step moves one transaction, hands over a batch, gives some up, or none of these.
LEMMA FlowStep == NodesInv /\ [Next]_vars => Flow /\ OnceInQueues' /\ OnceInPools'
<1> SUFFICES ASSUME NodesInv, [Next]_vars PROVE Flow /\ OnceInQueues' /\ OnceInPools'
  OBVIOUS
<1>1. TypeOK' /\ OnceInQueues /\ OnceInPools
  BY TypeStep, OwnersBefore
<1>2. CASE UNCHANGED vars
  <2>1. UNCHANGED <<queue, pool, blocks, dropped>>
    BY <1>2 DEF vars
  <2>2. QED
    BY <1>1, <2>1, QueueUnchanged, PoolUnchanged, NoFlow DEF OnceInQueues, OnceInPools
<1>3. QED
  BY <1>1, <1>2, MasterFlow, FetchFlow, ForwardFlow, BlockFlow, SendFlow DEF Next, NodeStep

\* It keeps every transaction in one place.
LEMMA OneOwnerStep == NodesInv /\ [Next]_vars => OneOwner'
<1> SUFFICES ASSUME NodesInv, [Next]_vars PROVE OneOwner'
  OBVIOUS
<1>1. \A t \in Tx : OwnerOK(t)
  BY OwnersBefore
<1>2. ASSUME NEW t \in Tx PROVE OwnerOK(t)'
  <2>1. CASE Steady(t)
    BY <1>1, <2>1 DEF Steady, OwnerOK
  <2>2. CASE GoesTo(t)
    BY <2>2 DEF GoesTo, OwnerOK, AtMostOne
  <2>3. ASSUME NEW T \in SUBSET Tx, t \in T, HandsOver(T) PROVE OwnerOK(t)'
    BY <2>3 DEF HandsOver, OwnerOK, AtMostOne
  <2>4. ASSUME NEW T \in SUBSET Tx, t \in T, GivesUp(T) PROVE OwnerOK(t)'
    BY <2>4 DEF GivesUp, OwnerOK, AtMostOne
  <2>5. QED
    BY <2>1, <2>2, <2>3, <2>4, FlowStep DEF Flow, MovesOne, HandsOver, GivesUp
<1>3. OnceInQueues' /\ OnceInPools'
  BY FlowStep
<1>4. QED
  BY <1>2, <1>3 DEF OneOwner, OnceInQueues, OnceInPools, OwnerOK

-------------------------------------------------------------------------------
(* The theorems. *)

\* The inductive invariant holds before anything is spawned.
LEMMA InitInv == Init => NodesInv
<1> SUFFICES ASSUME Init PROVE NodesInv
  OBVIOUS
<1>1. TypeOK
  BY TypeInit
<1>2. SO_NODES_NUM \in Nat \ {0} /\ SO_FRIENDS_NUM \in Nat \ {0}
      /\ SO_BLOCK_SIZE \in Nat /\ SO_BLOCK_SIZE >= 2
  BY NodesAssumption DEF NodesAssumption
<1>3. \A n \in Node : /\ queue[n] = <<>> /\ pool[n] = <<>> /\ friends[n] = <<>>
                      /\ pc[n] = "none" /\ errno[n] = "none"
  BY DEF Init
<1>4. \A n \in Node : Len(pool[n]) = 0 /\ Len(friends[n]) = 0
  BY <1>3
<1>5. SpawnOrder
  BY <1>2, <1>3 DEF Init, SpawnOrder
<1>6. BeforeMainLoop /\ LoopState /\ BatchAtOnce /\ PoolBelowBatch
  BY <1>2, <1>3, <1>4 DEF BeforeMainLoop, LoopState, BatchAtOnce, PoolBelowBatch
<1>7. NothingLostOnReceive
  BY DEF Init, NothingLostOnReceive
<1>8. MailForRecorded /\ KnowsItsIndex /\ FriendsReady
  BY <1>3 DEF Init, MailForRecorded, Waiting, KnowsItsIndex, FriendsReady, Running
<1>9. ListBeforeNews
  BY <1>3 DEF Init, ListBeforeNews
<1>10. ListComplete
  BY DEF Init, ListComplete
<1>11. ExtraFedByUsers
  BY <1>3, Indices DEF ExtraFedByUsers, MessagesAt, Range
<1>12. OneOwner
  BY HoldsNothing DEF Init, OneOwner, AtMostOne, Queued, Pooled, Built, Given, MessagesAt, Range
<1>13. QED
  BY <1>1, <1>5, <1>6, <1>7, <1>8, <1>9, <1>10, <1>11, <1>12 DEF NodesInv

\* Every step of the nodes, the master, the listener and the users preserves
\* the inductive invariant: what each has, what it is about to send and where
\* every transaction is.
THEOREM NodesInvariant == Spec => []NodesInv
<1>1. Init => NodesInv
  BY InitInv
<1>2. NodesInv /\ [Next]_vars => NodesInv'
  <2> SUFFICES ASSUME NodesInv, [Next]_vars PROVE NodesInv'
    OBVIOUS
  <2>1. TypeOK'
    BY TypeStep
  <2>2. SpawnOrder'
    BY SpawnOrderStep
  <2>3. LocalParts' /\ NothingLostOnReceive'
    BY LocalStep
  <2>4. ListParts'
    BY ListsStep
  <2>5. OneOwner'
    BY OneOwnerStep
  <2>6. QED
    BY <2>1, <2>2, <2>3, <2>4, <2>5 DEF NodesInv, LocalParts, ListParts
<1>3. QED
  BY <1>1, <1>2, PTL DEF Spec

\* A pool never holds more than the batch main takes at once, so the branch of
\* fetch_messages for a full pool is never taken.
THEOREM PoolStaysBelowBatch == Spec => []PoolBelowBatch
<1>1. NodesInv => PoolBelowBatch
  BY DEF NodesInv
<1>2. QED
  BY <1>1, NodesInvariant, PTL

\* get_pid_nodeIndex finds every node that runs its main loop.
THEOREM NodesKnowTheirIndex == Spec => []KnowsItsIndex
<1>1. NodesInv => KnowsItsIndex
  BY DEF NodesInv
<1>2. QED
  BY <1>1, NodesInvariant, PTL

\* A node in its main loop has the friends make_friend_list drew for it.
THEOREM NodesHaveTheirFriends == Spec => []FriendsReady
<1>1. NodesInv => FriendsReady
  BY DEF NodesInv
<1>2. QED
  BY <1>1, NodesInvariant, PTL

\* receive_message never throws a transaction away for an earlier errno.
THEOREM ReceiveKeepsTransactions == Spec => []NothingLostOnReceive
<1>1. NodesInv => NothingLostOnReceive
  BY DEF NodesInv
<1>2. QED
  BY <1>1, NodesInvariant, PTL

\* No transaction is ever forwarded to an extra node, although README.md:55-56
\* has new nodes announced so that they become friends a transaction may be
\* sent to: nodes.c:100 draws among the first SO_FRIENDS_NUM, which are others.
THEOREM ExtraNodesFedByUsers == Spec => []ExtraFedByUsers
<1>1. NodesInv => ExtraFedByUsers
  BY DEF NodesInv
<1>2. QED
  BY <1>1, NodesInvariant, PTL

\* A set of at most one element, counted.
LEMMA CountAtMostOne ==
    ASSUME NEW S, AtMostOne(S)
    PROVE  Cardinality(S) = IF S = {} THEN 0 ELSE 1
<1>1. S = {} \/ \E x \in S : S = {x}
  BY DEF AtMostOne
<1>2. QED
  BY <1>1, FS_EmptySet, FS_Singleton

\* Counted over positions too, a transaction is in one place.
LEMMA OwnerIsOnePlace == NodesInv => OnePlace
<1> SUFFICES ASSUME NodesInv, NEW t \in Tx
             PROVE  Cardinality(Places(queue, t)) + Cardinality(Places(pool, t))
                        + Cardinality(Built(t)) + Cardinality(Given(t)) <= 1
  BY DEF OnePlace
<1>1. TypeOK /\ OnceInQueues /\ OnceInPools /\ OwnerOK(t)
  BY OwnersBefore
<1>2. ASSUME NEW f, NEW S, DOMAIN f = S, \A i \in S : Once(f[i]),
             AtMostOne({i \in S : Holds(f[i], t)})
      PROVE  /\ AtMostOne(Places(f, t))
             /\ Places(f, t) = {} <=> {i \in S : Holds(f[i], t)} = {}
  <2>1. Places(f, t) = UNION {{i} \X {p \in DOMAIN f[i] : f[i][p].mtype = "TRANSACTION"
                                                           /\ f[i][p].tx = t} : i \in S}
    BY <1>2 DEF Places
  <2>2. \A x : x \in Places(f, t) <=>
           \E i \in S : \E p \in DOMAIN f[i] :
               x = <<i, p>> /\ f[i][p].mtype = "TRANSACTION" /\ f[i][p].tx = t
    BY <2>1
  <2>3. ASSUME NEW x \in Places(f, t), NEW y \in Places(f, t) PROVE x = y
    <3>1. PICK i \in S : \E p \in DOMAIN f[i] :
             x = <<i, p>> /\ f[i][p].mtype = "TRANSACTION" /\ f[i][p].tx = t
      BY <2>2
    <3>2. PICK j \in S : \E q \in DOMAIN f[j] :
             y = <<j, q>> /\ f[j][q].mtype = "TRANSACTION" /\ f[j][q].tx = t
      BY <2>2
    <3>3. i = j
      BY <1>2, <3>1, <3>2 DEF AtMostOne, Holds
    <3>4. PICK p \in DOMAIN f[i] :
             x = <<i, p>> /\ f[i][p].mtype = "TRANSACTION" /\ f[i][p].tx = t
      BY <3>1
    <3>5. PICK q \in DOMAIN f[i] :
             y = <<i, q>> /\ f[i][q].mtype = "TRANSACTION" /\ f[i][q].tx = t
      BY <3>2, <3>3
    <3>6. p = q
      BY <1>2, <3>4, <3>5 DEF Once
    <3>7. QED
      BY <3>4, <3>5, <3>6
  <2>4. Places(f, t) = {} <=> {i \in S : Holds(f[i], t)} = {}
    BY <2>2 DEF Holds
  <2>5. QED
    BY <2>3, <2>4 DEF AtMostOne
<1>3. AtMostOne(Places(queue, t)) /\ (Places(queue, t) = {} <=> Queued(t) = {})
  <2>1. Queued(t) = {q \in Node \cup {Master} : Holds(queue[q], t)} /\ AtMostOne(Queued(t))
    BY <1>1, Holders DEF OwnerOK
  <2>2. DOMAIN queue = Node \cup {Master} /\ \A q \in Node \cup {Master} : Once(queue[q])
    BY <1>1 DEF TypeOK, OnceInQueues
  <2>3. QED
    BY <1>2, <2>1, <2>2
<1>4. AtMostOne(Places(pool, t)) /\ (Places(pool, t) = {} <=> Pooled(t) = {})
  <2>1. Pooled(t) = {n \in Node : Holds(pool[n], t)} /\ AtMostOne(Pooled(t))
    BY <1>1, Holders DEF OwnerOK
  <2>2. DOMAIN pool = Node /\ \A n \in Node : Once(pool[n])
    BY <1>1 DEF TypeOK, OnceInPools
  <2>3. QED
    BY <1>2, <2>1, <2>2
<1>5. AtMostOne(Built(t)) /\ AtMostOne(Given(t))
  BY <1>1 DEF OwnerOK
<1>6. /\ Cardinality(Places(queue, t)) = IF Queued(t) = {} THEN 0 ELSE 1
      /\ Cardinality(Places(pool, t)) = IF Pooled(t) = {} THEN 0 ELSE 1
      /\ Cardinality(Built(t)) = IF Built(t) = {} THEN 0 ELSE 1
      /\ Cardinality(Given(t)) = IF Given(t) = {} THEN 0 ELSE 1
  BY <1>3, <1>4, <1>5, CountAtMostOne
<1>7. QED
  BY <1>1, <1>6 DEF OwnerOK

\* Forwarding, putting back and handing to builders never duplicates a
\* transaction.
THEOREM TransactionsInOnePlace == Spec => []OnePlace
BY NodesInvariant, OwnerIsOnePlace, PTL

\* Every step is one of TxFate, or leaves its variables alone.
LEMMA FateStep == NodesInv /\ [Next]_vars => [Fate!Next]_Fate!vars
<1> SUFFICES ASSUME NodesInv, [Next]_vars PROVE [Fate!Next]_Fate!vars
  OBVIOUS
<1>1. Flow /\ \A t \in Tx : OwnerOK(t)
  BY FlowStep, OwnersBefore
<1> DEFINE pending   == {t \in Tx : Queued(t) # {} \/ Pooled(t) # {}}
           discarded == {d.tx : d \in dropped}
<1>2. ASSUME NEW t \in Tx, MovesOne(t) PROVE [Fate!Next]_Fate!vars
  <2>1. \A u \in Tx \ {t} : u \in pending' <=> u \in pending
    BY <1>2 DEF MovesOne, Steady
  <2>2. t \in pending'
    BY <1>2 DEF MovesOne, GoesTo
  <2>3. UNCHANGED <<blocks, discarded>>
    BY <1>2 DEF MovesOne
  <2>4. CASE Pending(t)
    <3>1. UNCHANGED pending
      BY <2>1, <2>2, <2>4 DEF Pending
    <3>2. QED
      BY <2>3, <3>1 DEF Fate!vars
  <2>5. CASE Unsent(t)
    <3>1. pending' = pending \cup {t}
      BY <2>1, <2>2
    <3>2. t \notin pending \cup (UNION blocks) \cup discarded
      BY <2>5 DEF Unsent, Built, Given
    <3>3. Fate!Send(t)
      BY <2>3, <3>1, <3>2 DEF Fate!Send
    <3>4. QED
      BY <3>3 DEF Fate!Next
  <2>6. QED
    BY <1>2, <2>4, <2>5 DEF MovesOne
<1>3. ASSUME NEW T \in SUBSET Tx, HandsOver(T) PROVE Fate!Next
  <2>1. T \subseteq pending /\ pending' = pending \ T
    BY <1>3 DEF HandsOver, Pending, Steady
  <2>2. /\ Cardinality(T) = SO_BLOCK_SIZE - 1
        /\ blocks' = blocks \cup {T}
        /\ UNCHANGED discarded
    BY <1>3 DEF HandsOver
  <2>3. Fate!Cardinality(T) = Cardinality(T)
    BY Zenon DEF Fate!Cardinality, Cardinality
  <2>4. Fate!Build(T)
    BY <2>1, <2>2, <2>3 DEF Fate!Build
  <2>5. QED
    BY <2>1, <2>4 DEF Fate!Next
<1>4. ASSUME NEW T \in SUBSET Tx, GivesUp(T) PROVE Fate!Next
  <2>1. T \subseteq pending /\ pending' = pending \ T
    BY <1>4 DEF GivesUp, Pending, Steady
  <2>2. UNCHANGED blocks /\ discarded' = discarded \cup T
    BY <1>4 DEF GivesUp
  <2>3. Fate!Discard(T)
    BY <2>1, <2>2 DEF Fate!Discard
  <2>4. QED
    BY <2>1, <2>3 DEF Fate!Next
<1>5. QED
  BY <1>1, <1>2, <1>3, <1>4 DEF Flow

\* What a user has sent stays pending until it is in one full batch, or is
\* given up: the nodes implement TxFate.
THEOREM NodesImplementTxFate == Spec => FateSpec
<1>1. Init => Fate!Init
  BY HoldsNothing DEF Init, Fate!Init, Queued, Pooled, MessagesAt, Range
<1>2. NodesInv /\ [Next]_vars => [Fate!Next]_Fate!vars
  BY FateStep
<1>3. QED
  BY <1>1, <1>2, NodesInvariant, PTL DEF Spec, FateSpec, Fate!Spec

===============================================================================
