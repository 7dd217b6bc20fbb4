----------------------------- MODULE MasterProofs -----------------------------
(***************************************************************************)
(* The safety properties of Master, proved for any sets of users, nodes,   *)
(* extra nodes and builders and for any values of SO_SIM_SEC.              *)
(***************************************************************************)
EXTENDS Master, SequenceTheorems, TLAPS

\* The master is none of the other processes, and the listener is one.
LEMMA Processes == Master \notin Process /\ Listener \in Child /\ Child \subseteq Process
BY MasterAssumption DEF MasterAssumption, Process, Child

\* What Append makes of a literal of one element.
LEMMA AppendToOne ==
    ASSUME NEW S, NEW s \in S, NEW t \in S
    PROVE  Append(<<s>>, t) = <<s, t>>
<1>1. <<s>> \in Seq(S) /\ <<s, t>> \in Seq(S)
  OBVIOUS
<1>2. /\ Append(<<s>>, t) \in Seq(S) /\ Len(Append(<<s>>, t)) = 2
      /\ Append(<<s>>, t)[1] = s /\ Append(<<s>>, t)[2] = t
  BY <1>1, AppendProperties
<1>3. Len(<<s, t>>) = 2 /\ <<s, t>>[1] = s /\ <<s, t>>[2] = t
  OBVIOUS
<1>4. \A i \in 1..2 : Append(<<s>>, t)[i] = <<s, t>>[i]
  BY <1>2, <1>3
<1>5. QED
  BY <1>1, <1>2, <1>3, <1>4, SeqEqual, Zenon

\* A signal that is not being handled adds itself to the stack, which holds
\* each signal once.
LEMMA Nesting ==
    ASSUME TypeOK
    PROVE  /\ "int" \notin {stack[k] : k \in DOMAIN stack} =>
                 \/ stack = <<>> /\ Append(stack, "int") = <<"int">>
                 \/ stack = <<"alrm">> /\ Append(stack, "int") = <<"alrm", "int">>
           /\ "alrm" \notin {stack[k] : k \in DOMAIN stack} =>
                 \/ stack = <<>> /\ Append(stack, "alrm") = <<"alrm">>
                 \/ stack = <<"int">> /\ Append(stack, "alrm") = <<"int", "alrm">>
<1>1. /\ Append(<<>>, "int") = <<"int">>
      /\ Append(<<"alrm">>, "int") = <<"alrm", "int">>
      /\ Append(<<>>, "alrm") = <<"alrm">>
      /\ Append(<<"int">>, "alrm") = <<"int", "alrm">>
  <2>1. Append(<<>>, "int") = <<"int">>
    OBVIOUS
  <2>2. Append(<<>>, "alrm") = <<"alrm">>
    OBVIOUS
  <2>3. "int" \in {"int", "alrm"} /\ "alrm" \in {"int", "alrm"}
    OBVIOUS
  <2>4. QED
    BY <2>1, <2>2, <2>3, AppendToOne, Zenon
<1>2. ASSUME "int" \notin {stack[k] : k \in DOMAIN stack}
      PROVE  stack \in {<<>>, <<"alrm">>}
  <2>1. \A k \in DOMAIN stack : stack[k] # "int"
    BY <1>2
  <2>2. stack # <<"int">> /\ stack # <<"int", "alrm">>
    <3>1. stack \in {<<"int">>, <<"int", "alrm">>} => 1 \in DOMAIN stack /\ stack[1] = "int"
      OBVIOUS
    <3>2. QED
      BY <2>1, <3>1
  <2>3. stack # <<"alrm", "int">>
    <3>1. stack = <<"alrm", "int">> => 2 \in DOMAIN stack /\ stack[2] = "int"
      OBVIOUS
    <3>2. QED
      BY <2>1, <3>1
  <2>4. QED
    BY <2>2, <2>3 DEF TypeOK
<1>3. ASSUME "alrm" \notin {stack[k] : k \in DOMAIN stack}
      PROVE  stack \in {<<>>, <<"int">>}
  <2>1. \A k \in DOMAIN stack : stack[k] # "alrm"
    BY <1>3
  <2>2. stack # <<"alrm">> /\ stack # <<"alrm", "int">>
    <3>1. stack \in {<<"alrm">>, <<"alrm", "int">>} => 1 \in DOMAIN stack /\ stack[1] = "alrm"
      OBVIOUS
    <3>2. QED
      BY <2>1, <3>1
  <2>3. stack # <<"int", "alrm">>
    <3>1. stack = <<"int", "alrm">> => 2 \in DOMAIN stack /\ stack[2] = "alrm"
      OBVIOUS
    <3>2. QED
      BY <2>1, <3>1
  <2>4. QED
    BY <2>2, <2>3 DEF TypeOK
<1>4. QED
  BY <1>1, <1>2, <1>3, Zenon

\* The initial state satisfies the inductive invariant.
LEMMA InitInv == Init => MasterInv
<1> SUFFICES ASSUME Init PROVE MasterInv
  OBVIOUS
<1> USE DEF Init
<1>1. TypeOK
  BY MasterAssumption DEF MasterAssumption, TypeOK, Process, Child
<1>2. NoChildReturns /\ SignalledFromKill /\ ListenerLast
  BY Processes DEF NoChildReturns, SignalledFromKill, ListenerLast
<1>3. Handling /\ PrintsUnderSigint /\ AlarmAhead
  BY DEF Handling, PrintsUnderSigint, AlarmAhead
<1>4. QED
  BY <1>1, <1>2, <1>3 DEF MasterInv

\* Every step preserves the types.
LEMMA TypeStep == TypeOK /\ [Next]_vars => TypeOK'
<1> SUFFICES ASSUME TypeOK, [Next]_vars PROVE TypeOK'
  OBVIOUS
<1> USE DEF TypeOK
<1>1. ASSUME NEW p \in Process, Spawn(p) PROVE TypeOK'
  BY <1>1 DEF Spawn, Fork, clock, outcome
<1>2. ASSUME NEW p \in Process, SendFriendList(p) PROVE TypeOK'
  BY <1>2 DEF SendFriendList, clock, outcome
<1>3. CASE NextLoop
  BY <1>3, Processes DEF NextLoop, clock, outcome, Child
<1>4. CASE SetAlarm \/ WakeUp
  BY <1>4 DEF SetAlarm, WakeUp, Woken, outcome
<1>5. CASE ForkListener
  BY <1>5 DEF ForkListener, Fork, clock, outcome
<1>6. CASE Second \/ Return
  BY <1>6 DEF Second, Return, Signalled, Alive, clock, outcome
<1>7. CASE TakeSigint
  <2>1. stack' = <<"int">> \/ stack' = <<"alrm", "int">>
    BY <1>7, Nesting, Zenon DEF TakeSigint
  <2>2. stack' \in {<<>>, <<"int">>, <<"alrm">>, <<"int", "alrm">>, <<"alrm", "int">>}
    BY <2>1, Zenon
  <2>3. /\ pc' = "kill" /\ due' \in BOOLEAN /\ pending' \in SUBSET (Process \cup {Master})
        /\ UNCHANGED <<todo, simSec, time, alarm, life, dead, tables, queue>>
    BY <1>7 DEF TakeSigint, clock, outcome
  <2>4. QED
    BY <2>2, <2>3
<1>8. CASE TakeSigalrm
  <2>1. stack' = <<"alrm">> \/ stack' = <<"int", "alrm">>
    BY <1>8, Nesting, Zenon DEF TakeSigalrm
  <2>2. stack' \in {<<>>, <<"int">>, <<"alrm">>, <<"int", "alrm">>, <<"alrm", "int">>}
    BY <2>1, Zenon
  <2>3. /\ pc' = "kill" /\ due' \in BOOLEAN /\ pending' \in SUBSET (Process \cup {Master})
        /\ UNCHANGED <<todo, simSec, time, alarm, life, dead, tables, queue>>
    BY <1>8 DEF TakeSigalrm, outcome
  <2>4. QED
    BY <2>2, <2>3
<1>9. CASE Kill \/ Wait \/ PrintTable \/ Remove
  <2>1. CASE Kill
    BY <2>1 DEF Kill, SignalledByHandler, Signalled, Alive, clock, outcome
  <2>2. CASE Wait \/ PrintTable
    BY <2>2 DEF Wait, PrintTable, clock, outcome
  <2>3. CASE Remove
    <3>1. queue' \in BOOLEAN
      BY <2>3 DEF Remove
    <3>2. QED
      BY <2>3, <3>1 DEF Remove, clock
  <2>4. QED
    BY <1>9, <2>1, <2>2, <2>3
<1>10. CASE Keyboard \/ Tick
  <2>1. CASE Keyboard
    BY <2>1 DEF Keyboard, Signalled, Alive, clock, outcome
  <2>2. CASE Tick
    <3>1. due' \in BOOLEAN
      BY <2>2 DEF Tick
    <3>2. alarm' \in Nat
      BY <2>2 DEF Tick
    <3>3. QED
      BY <2>2, <3>1, <3>2 DEF Tick, outcome
  <2>3. QED
    BY <1>10, <2>1, <2>2
<1>11. ASSUME NEW p \in Process, Start(p) \/ Take(p) \/ HandlerExits(p) \/ End(p)
       PROVE  TypeOK'
  BY <1>11 DEF Start, Take, HandlerExits, End, Becomes, Interrupted, clock, outcome
<1>12. ASSUME NEW p \in Process, CopyKills(p) \/ CopyPrints(p)
       PROVE  TypeOK'
  BY <1>12 DEF CopyKills, CopyPrints, Becomes, Signalled, Alive, clock, outcome
<1>13. ASSUME NEW p \in Process, GiveUp(p) \/ ForkOrphan(p) \/ LedgerFull(p)
       PROVE  TypeOK'
  BY <1>13 DEF GiveUp, ForkOrphan, LedgerFull, Signalled, Alive, clock, outcome
<1>14. CASE UNCHANGED vars
  BY <1>14 DEF vars
<1>15. QED
  BY <1>1, <1>2, <1>3, <1>4, <1>5, <1>6, <1>7, <1>8, <1>9, <1>10, <1>11, <1>12, <1>13, <1>14
     DEF Next, MasterStep, Proceed

-------------------------------------------------------------------------------
(* What the steps have in common. *)

\* The master takes a step of its own only without a signal to take: in main,
\* with no signal at all.
LEMMA OwnStep ==
    ASSUME TypeOK, Handling, NEW place, At(place)
    PROVE  /\ pc = place
           /\ pc \notin {"kill", "wait", "print", "remove", "exited"} =>
                 stack = <<>> /\ Master \notin pending /\ ~due
           /\ stack = <<"alrm">> => Master \notin pending
<1>1. stack = <<>> => {stack[k] : k \in DOMAIN stack} = {}
  OBVIOUS
<1>2. stack = <<"alrm">> => "int" \notin {stack[k] : k \in DOMAIN stack}
  OBVIOUS
<1>3. QED
  BY <1>1, <1>2 DEF At, MasterInterrupted, Handling, TypeOK

\* Signals are taken by the handler, whatever they interrupt.
LEMMA SignalStep ==
    ASSUME TypeOK, TakeSigint \/ TakeSigalrm
    PROVE  /\ pc' = "kill" /\ pc \notin {"exited", "returned"}
           /\ \/ stack = <<>> /\ stack' = <<"int">>
              \/ stack = <<"alrm">> /\ stack' = <<"alrm", "int">>
              \/ stack = <<>> /\ stack' = <<"alrm">>
              \/ stack = <<"int">> /\ stack' = <<"int", "alrm">>
           /\ pending \ {Master} \subseteq pending' /\ pending' \subseteq pending
           /\ UNCHANGED <<todo, simSec, time, alarm, life, dead, tables, queue>>
<1>1. CASE TakeSigint
  BY <1>1, Nesting, Zenon DEF TakeSigint, Finished, clock, outcome
<1>2. CASE TakeSigalrm
  BY <1>2, Nesting, Zenon DEF TakeSigalrm, Finished, outcome
<1>3. QED
  BY <1>1, <1>2

\* Every other step leaves the master where it is.
OthersStep ==
    \/ Keyboard \/ Tick
    \/ \E p \in Process : Proceed(p) \/ GiveUp(p) \/ ForkOrphan(p) \/ LedgerFull(p)
    \/ UNCHANGED vars

\* What the children and the clock do leaves the master's own state alone.
LEMMA OthersLeave ==
    ASSUME OthersStep
    PROVE  UNCHANGED <<pc, todo, stack, simSec, time, tables>>
<1>1. CASE Keyboard \/ Tick \/ UNCHANGED vars
  BY <1>1 DEF Keyboard, Tick, vars, clock, outcome
<1>2. ASSUME NEW p \in Process, Proceed(p)
      PROVE  UNCHANGED <<pc, todo, stack, simSec, time, tables>>
  BY <1>2 DEF Proceed, Start, Take, HandlerExits, End, CopyKills, CopyPrints, clock, outcome
<1>3. ASSUME NEW p \in Process, GiveUp(p) \/ ForkOrphan(p) \/ LedgerFull(p)
      PROVE  UNCHANGED <<pc, todo, stack, simSec, time, tables>>
  BY <1>3 DEF GiveUp, ForkOrphan, LedgerFull, clock, outcome
<1>4. QED
  BY <1>1, <1>2, <1>3 DEF OthersStep

\* The master's loops give birth to the child at hand.
LEMMA SpawnStep ==
    ASSUME TypeOK, ListenerLast, NEW p \in Process, Spawn(p)
    PROVE  /\ p \in todo /\ p \in User \cup Node
           /\ life' \in {life, [life EXCEPT ![p] = "forked"]}
<1>1. p \in todo
  BY Processes DEF Spawn, NextOf
<1>2. todo \subseteq User \cup Node
  BY DEF Spawn, At, ListenerLast
<1>3. QED
  BY <1>1, <1>2 DEF Spawn, Fork

\* A life goes on only while it lasts.
LEMMA LifeStep ==
    ASSUME TypeOK, NEW p \in Process, Proceed(p)
    PROVE  /\ p \in Alive
           /\ \E to \in {"ready", "handling", "copy", "copied", "ended"} :
                 life' = [life EXCEPT ![p] = to]
           /\ Alive' \subseteq Alive
<1>1. life[p] \in {"forked", "ready", "handling", "copy", "copied"}
  BY DEF Proceed, Start, Take, HandlerExits, End, CopyKills, CopyPrints, Becomes
<1>2. \E to \in {"ready", "handling", "copy", "copied", "ended"} :
         life' = [life EXCEPT ![p] = to]
  BY DEF Proceed, Start, Take, HandlerExits, End, CopyKills, CopyPrints, Becomes, Interrupted
<1>3. p \in Alive
  BY <1>1 DEF Alive
<1>4. Alive' \subseteq Alive
  BY <1>2, <1>3 DEF Alive, TypeOK
<1>5. QED
  BY <1>2, <1>3, <1>4

\* A listener is forked by the master only.
LEMMA NoListener ==
    ASSUME TypeOK, OthersStep, life[Listener] = "none"
    PROVE  life'[Listener] = "none"
<1>1. CASE Keyboard \/ Tick \/ UNCHANGED vars
  BY <1>1 DEF Keyboard, Tick, vars
<1>2. ASSUME NEW p \in Process, Proceed(p) PROVE life'[Listener] = "none"
  <2>1. p # Listener
    BY <1>2, LifeStep DEF Alive
  <2>2. QED
    BY <1>2, <2>1, LifeStep, Processes DEF TypeOK
<1>3. ASSUME NEW p \in Process, GiveUp(p) \/ ForkOrphan(p) \/ LedgerFull(p)
      PROVE  life'[Listener] = "none"
  <2>1. p \in Extra \cup Builder => p # Listener
    BY MasterAssumption DEF MasterAssumption
  <2>2. QED
    BY <1>3, <2>1, Processes DEF GiveUp, ForkOrphan, LedgerFull, TypeOK
<1>4. QED
  BY <1>1, <1>2, <1>3 DEF OthersStep

\* No child of the master's is born without it.
LEMMA NoNewChild ==
    ASSUME TypeOK, OthersStep
    PROVE  Child \cap Alive' \subseteq Child \cap Alive
<1>1. CASE Keyboard \/ Tick \/ UNCHANGED vars
  BY <1>1 DEF Keyboard, Tick, vars, Alive
<1>2. ASSUME NEW p \in Process, Proceed(p) PROVE Alive' \subseteq Alive
  BY <1>2, LifeStep
<1>3. ASSUME NEW p \in Process, GiveUp(p) \/ LedgerFull(p) PROVE Alive' = Alive
  BY <1>3 DEF GiveUp, LedgerFull, Alive
<1>4. ASSUME NEW p \in Process, ForkOrphan(p)
      PROVE  Alive' \subseteq Alive \cup Extra \cup Builder
  BY <1>4 DEF ForkOrphan, Alive, TypeOK
<1>5. Child \cap (Extra \cup Builder) = {}
  BY MasterAssumption DEF MasterAssumption, Child
<1>6. QED
  BY <1>1, <1>2, <1>3, <1>4, <1>5 DEF OthersStep

\* A SIGINT to the master stays pending until the master takes it.
LEMMA MasterStaysSignalled ==
    ASSUME OthersStep
    PROVE  Master \in pending => Master \in pending'
<1>1. CASE Keyboard \/ Tick \/ UNCHANGED vars
  BY <1>1 DEF Keyboard, Tick, vars, Signalled
<1>2. ASSUME NEW p \in Process, Proceed(p) PROVE Master \in pending => Master \in pending'
  BY <1>2, Processes
     DEF Proceed, Start, Take, HandlerExits, End, CopyKills, CopyPrints, Signalled
<1>3. ASSUME NEW p \in Process, GiveUp(p) \/ ForkOrphan(p) \/ LedgerFull(p)
      PROVE  Master \in pending => Master \in pending'
  BY <1>3 DEF GiveUp, ForkOrphan, LedgerFull, Signalled
<1>4. QED
  BY <1>1, <1>2, <1>3 DEF OthersStep

-------------------------------------------------------------------------------
(* Every step preserves each part of the inductive invariant. *)

\* The master is in its handler exactly when there is something to return to.
LEMMA HandlingStep == MasterInv /\ [Next]_vars => Handling'
<1> SUFFICES ASSUME MasterInv, [Next]_vars PROVE Handling'
  OBVIOUS
<1> USE DEF MasterInv, Handling
<1>1. ASSUME NEW p \in Process, Spawn(p) \/ SendFriendList(p) PROVE Handling'
  BY <1>1 DEF Spawn, SendFriendList, At
<1>2. CASE NextLoop \/ SetAlarm \/ ForkListener \/ Second \/ WakeUp \/ Return
  BY <1>2 DEF NextLoop, SetAlarm, ForkListener, Second, WakeUp, Return, At
<1>3. CASE TakeSigint \/ TakeSigalrm
  BY <1>3, SignalStep
<1>4. CASE Kill \/ Wait \/ PrintTable \/ Remove
  BY <1>4 DEF Kill, Wait, PrintTable, Remove, At
<1>5. CASE OthersStep
  BY <1>5, OthersLeave
<1>6. QED
  BY <1>1, <1>2, <1>3, <1>4, <1>5 DEF Next, MasterStep, OthersStep

\* The listener is forked after every other child of the master.
LEMMA ListenerLastStep == MasterInv /\ [Next]_vars => ListenerLast'
<1> SUFFICES ASSUME MasterInv, [Next]_vars PROVE ListenerLast'
  OBVIOUS
<1> USE DEF MasterInv, ListenerLast
<1>1. ASSUME NEW p \in Process, Spawn(p) PROVE ListenerLast'
  <2>1. p \in User \cup Node /\ life' \in {life, [life EXCEPT ![p] = "forked"]}
    BY <1>1, SpawnStep
  <2>2. life'[Listener] = life[Listener]
    BY <2>1, Processes, MasterAssumption DEF MasterAssumption, TypeOK
  <2>3. QED
    BY <1>1, <2>2 DEF Spawn
<1>2. ASSUME NEW p \in Process, SendFriendList(p) PROVE ListenerLast'
  BY <1>2 DEF SendFriendList
<1>3. CASE NextLoop \/ SetAlarm \/ Second \/ WakeUp \/ Return
  BY <1>3 DEF NextLoop, SetAlarm, Second, WakeUp, Return, At
<1>4. CASE ForkListener
  BY <1>4 DEF ForkListener
<1>5. CASE TakeSigint \/ TakeSigalrm
  BY <1>5, SignalStep
<1>6. CASE Kill \/ Wait \/ PrintTable \/ Remove
  BY <1>6 DEF Kill, Wait, PrintTable, Remove
<1>7. CASE OthersStep
  BY <1>7, OthersLeave, NoListener
<1>8. QED
  BY <1>1, <1>2, <1>3, <1>4, <1>5, <1>6, <1>7 DEF Next, MasterStep, OthersStep

\* The alarm stays ahead of the loop that waits for it.
LEMMA AlarmAheadStep == MasterInv /\ [Next]_vars => AlarmAhead'
<1> SUFFICES ASSUME MasterInv, [Next]_vars PROVE AlarmAhead'
  OBVIOUS
<1> USE DEF MasterInv, AlarmAhead
<1>1. ASSUME NEW p \in Process, Spawn(p) \/ SendFriendList(p) PROVE AlarmAhead'
  BY <1>1 DEF Spawn, SendFriendList, At, clock
<1>2. CASE NextLoop \/ SetAlarm
  BY <1>2 DEF NextLoop, SetAlarm, At, clock, TypeOK
<1>3. CASE ForkListener
  BY <1>3 DEF ForkListener, At, clock, ListenerLast
<1>4. CASE Second \/ WakeUp
  BY <1>4 DEF Second, WakeUp, Woken, At, clock, TypeOK
<1>5. CASE Return
  <2>1. pc = "loop" /\ ~due
    BY <1>5, OwnStep DEF Return
  <2>2. QED
    BY <1>5, <2>1 DEF Return, TypeOK
<1>6. CASE TakeSigint \/ TakeSigalrm
  BY <1>6, SignalStep
<1>7. CASE Kill \/ Wait \/ PrintTable \/ Remove
  BY <1>7 DEF Kill, Wait, PrintTable, Remove
<1>8. CASE OthersStep
  <2>1. pc' = "returned" => simSec' = 0 \/ life'[Listener] = "none"
    BY <1>8, OthersLeave, NoListener
  <2>2. alarm' \in Nat /\ alarm' <= alarm /\ (alarm > 0 \/ due => alarm' > 0 \/ due')
    <3>1. CASE Tick
      <4>1. alarm = 1 => due'
        BY <3>1, Zenon DEF Tick
      <4>2. alarm' = alarm - 1 /\ alarm > 0 /\ alarm \in Nat
        BY <3>1 DEF Tick, TypeOK
      <4>3. QED
        BY <4>1, <4>2
    <3>2. CASE ~Tick
      BY <1>8, <3>2 DEF OthersStep, Keyboard, Proceed, Start, Take, HandlerExits, End, CopyKills,
                        CopyPrints, GiveUp, ForkOrphan, LedgerFull, clock, vars, TypeOK
    <3>3. QED
      BY <3>1, <3>2
  <2>3. QED
    BY <1>8, <2>1, <2>2, OthersLeave DEF TypeOK
<1>9. QED
  BY <1>1, <1>2, <1>3, <1>4, <1>5, <1>6, <1>7, <1>8 DEF Next, MasterStep, OthersStep

\* A handler of SIGALRM never prints, one of SIGINT prints once.
LEMMA PrintsUnderSigintStep == MasterInv /\ [Next]_vars => PrintsUnderSigint'
<1> SUFFICES ASSUME MasterInv, [Next]_vars PROVE PrintsUnderSigint'
  OBVIOUS
<1> USE DEF MasterInv, PrintsUnderSigint
<1>1. ASSUME NEW p \in Process, Spawn(p) \/ SendFriendList(p) PROVE PrintsUnderSigint'
  BY <1>1 DEF Spawn, SendFriendList, At, Handling, outcome
<1>2. CASE NextLoop \/ SetAlarm \/ ForkListener \/ Second \/ WakeUp \/ Return
  BY <1>2 DEF NextLoop, SetAlarm, ForkListener, Second, WakeUp, Return, At, Handling, outcome
<1>3. CASE TakeSigint \/ TakeSigalrm
  BY <1>3, SignalStep DEF TypeOK
<1>4. CASE Kill
  BY <1>4 DEF Kill, At, SignalledByHandler, Signalled, Finished, outcome
<1>5. CASE Wait
  <2>1. pc = "wait" /\ (stack = <<"alrm">> => Master \notin pending)
    BY <1>5, OwnStep DEF Wait
  <2>2. QED
    BY <1>5, <2>1 DEF Wait, outcome
<1>6. CASE PrintTable \/ Remove
  BY <1>6 DEF PrintTable, Remove, At, Handling, TypeOK
<1>7. CASE OthersStep
  <2>1. Master \in pending => Master \in pending'
    BY <1>7, MasterStaysSignalled
  <2>2. QED
    BY <1>7, <2>1, OthersLeave
<1>8. QED
  BY <1>1, <1>2, <1>3, <1>4, <1>5, <1>6, <1>7 DEF Next, MasterStep, OthersStep

\* Past wait(NULL), no child of the master is left, and none comes back.
LEMMA NoChildReturnsStep == MasterInv /\ [Next]_vars => NoChildReturns'
<1> SUFFICES ASSUME MasterInv, [Next]_vars PROVE NoChildReturns'
  OBVIOUS
<1> USE DEF MasterInv, NoChildReturns
<1>1. pc \in {"nodes", "users", "fork"} => tables = 0
  BY DEF Handling, PrintsUnderSigint
<1>2. ASSUME NEW p \in Process, Spawn(p) PROVE NoChildReturns'
  BY <1>1, <1>2 DEF Spawn, At, outcome
<1>3. ASSUME NEW p \in Process, SendFriendList(p) PROVE NoChildReturns'
  BY <1>3 DEF SendFriendList, At, outcome, Alive
<1>4. CASE NextLoop \/ SetAlarm \/ Second \/ WakeUp \/ Return
  BY <1>4 DEF NextLoop, SetAlarm, Second, WakeUp, Return, At, outcome, Alive
<1>5. CASE ForkListener
  BY <1>1, <1>5 DEF ForkListener, At, outcome
<1>6. CASE TakeSigint \/ TakeSigalrm
  BY <1>6, SignalStep DEF Alive
<1>7. CASE Kill \/ Wait \/ PrintTable \/ Remove
  BY <1>7 DEF Kill, Wait, NoChildLeft, PrintTable, Remove, At, outcome, Alive
<1>8. CASE OthersStep
  BY <1>8, OthersLeave, NoNewChild
<1>9. QED
  BY <1>2, <1>3, <1>4, <1>5, <1>6, <1>7, <1>8 DEF Next, MasterStep, OthersStep

\* Once everybody is signalled, nobody is born, and everybody stays so.
LEMMA StaysSignalled ==
    ASSUME MasterInv, [Next]_vars, AllSignalled
    PROVE  AllSignalled'
<1> USE DEF MasterInv, AllSignalled, Ending
<1>1. ASSUME NEW place, At(place),
             place \notin {"kill", "wait", "print", "remove", "exited", "returned"}
      PROVE  FALSE
  BY <1>1, OwnStep
<1>2. ASSUME NEW p \in Process, Spawn(p) \/ SendFriendList(p) PROVE FALSE
  BY <1>1, <1>2 DEF Spawn, SendFriendList
<1>3. CASE NextLoop \/ SetAlarm \/ ForkListener \/ Second \/ WakeUp \/ Return
  <2>1. FALSE
    BY <1>1, <1>3 DEF NextLoop, SetAlarm, ForkListener, Second, WakeUp, Return
  <2>2. QED
    BY <2>1
<1>4. CASE TakeSigint \/ TakeSigalrm
  BY <1>4, SignalStep, Processes DEF Alive
<1>5. CASE Kill \/ Wait \/ PrintTable \/ Remove
  BY <1>5 DEF Kill, Wait, PrintTable, Remove, SignalledByHandler, Signalled, Alive, Finished, At,
              outcome
<1>6. CASE Keyboard \/ Tick \/ UNCHANGED vars
  BY <1>6 DEF Keyboard, Tick, Signalled, Alive, vars
<1>7. ASSUME NEW p \in Process, Proceed(p) PROVE AllSignalled'
  <2>1. CASE Take(p)
    BY <2>1, Processes DEF Take, Interrupted, Alive, TypeOK
  <2>2. CASE Start(p) \/ HandlerExits(p) \/ End(p) \/ CopyPrints(p)
    BY <2>2, Processes DEF Start, HandlerExits, End, CopyPrints, Becomes, Alive, TypeOK
  <2>3. CASE CopyKills(p)
    BY <2>3 DEF CopyKills, Becomes, Signalled, Alive, TypeOK
  <2>4. QED
    BY <1>7, <2>1, <2>2, <2>3 DEF Proceed
<1>8. ASSUME NEW p \in Process, GiveUp(p) \/ LedgerFull(p) PROVE AllSignalled'
  BY <1>8 DEF GiveUp, LedgerFull, Signalled, Alive
<1>9. ASSUME NEW p \in Process, ForkOrphan(p) PROVE FALSE
  <2>1. PICK q \in Process : Calls(q)
    BY <1>9, Processes DEF ForkOrphan, Process, Child
  <2>2. QED
    BY <2>1 DEF Calls, Alive
<1>10. QED
  BY <1>2, <1>3, <1>4, <1>5, <1>6, <1>7, <1>8, <1>9 DEF Next, MasterStep

\* From the kill of the handler on, every process has been signalled.
LEMMA SignalledFromKillStep == MasterInv /\ [Next]_vars => SignalledFromKill'
<1> SUFFICES ASSUME MasterInv, [Next]_vars PROVE SignalledFromKill'
  OBVIOUS
<1>1. CASE AllSignalled
  BY <1>1, StaysSignalled DEF SignalledFromKill
<1>2. CASE ~AllSignalled
  <2>1. /\ pc \notin {"wait", "print", "remove", "exited"}
        /\ queue /\ \A p \in Process : life[p] # "copied"
    BY <1>2 DEF MasterInv, SignalledFromKill, TypeOK
  <2> USE <2>1 DEF SignalledFromKill, MasterInv
  <2>2. ASSUME NEW p \in Process, Spawn(p) \/ SendFriendList(p) PROVE SignalledFromKill'
    <3>1. pc' = pc /\ queue' = queue
      BY <2>2 DEF Spawn, SendFriendList, outcome
    <3>2. \A q \in Process : life'[q] # "copied"
      BY <2>2 DEF Spawn, Fork, SendFriendList, TypeOK
    <3>3. QED
      BY <3>1, <3>2
  <2>3. CASE NextLoop \/ SetAlarm \/ ForkListener \/ Second \/ WakeUp \/ Return
    <3>1. pc' \notin {"wait", "print", "remove", "exited"} /\ queue' = queue
      BY <2>3 DEF NextLoop, SetAlarm, ForkListener, Second, WakeUp, Return, outcome
    <3>2. \A q \in Process : life'[q] # "copied"
      BY <2>3 DEF NextLoop, SetAlarm, ForkListener, Fork, Second, WakeUp, Return, TypeOK
    <3>3. QED
      BY <3>1, <3>2
  <2>4. CASE TakeSigint \/ TakeSigalrm
    BY <2>4, SignalStep
  <2>5. CASE Kill
    BY <2>5 DEF Kill, At, SignalledByHandler, Signalled, Finished, Alive, AllSignalled, Ending
  <2>6. CASE Wait \/ PrintTable \/ Remove
    BY <2>6 DEF Wait, PrintTable, Remove, At
  <2>7. CASE Keyboard \/ Tick \/ UNCHANGED vars
    BY <2>7 DEF Keyboard, Tick, vars, outcome
  <2>8. ASSUME NEW p \in Process, Proceed(p) PROVE SignalledFromKill'
    <3>1. CASE CopyKills(p)
      <4>1. ASSUME NEW q \in Alive' PROVE q \in pending' \/ Ending(q)'
        <5>1. q \in Process /\ q \in Alive /\ pending' = Signalled
          BY <2>8, <3>1, LifeStep DEF CopyKills, Alive
        <5>2. life' = [life EXCEPT ![p] = "copied"]
          BY <3>1 DEF CopyKills, Becomes
        <5>3. CASE q = p
          BY <5>2, <5>3 DEF Ending, TypeOK
        <5>4. CASE q # p
          <6>1. Ending(q)' <=> Ending(q)
            BY <5>1, <5>2, <5>4 DEF Ending, TypeOK
          <6>2. QED
            BY <5>1, <6>1 DEF Signalled
        <5>5. QED
          BY <5>3, <5>4
      <4>2. Master \in pending' \/ stack' # <<>> \/ pc' = "returned"
        BY <3>1 DEF CopyKills, Signalled, Finished, Handling
      <4>3. QED
        BY <4>1, <4>2 DEF AllSignalled
    <3>2. CASE ~CopyKills(p)
      <4>1. pc' = pc /\ queue' = queue
        BY <2>8, <3>2 DEF Proceed, Start, Take, HandlerExits, End, CopyPrints, Becomes, outcome
      <4>2. \A q \in Process : life'[q] # "copied"
        BY <2>8, <3>2
           DEF Proceed, Start, Take, HandlerExits, End, CopyPrints, Becomes, Interrupted, TypeOK
      <4>3. QED
        BY <4>1, <4>2
    <3>3. QED
      BY <3>1, <3>2
  <2>9. ASSUME NEW p \in Process, GiveUp(p) \/ ForkOrphan(p) \/ LedgerFull(p)
        PROVE  SignalledFromKill'
    <3>1. pc' = pc /\ queue' = queue
      BY <2>9 DEF GiveUp, ForkOrphan, LedgerFull, outcome
    <3>2. \A q \in Process : life'[q] # "copied"
      BY <2>9 DEF GiveUp, ForkOrphan, LedgerFull, TypeOK
    <3>3. QED
      BY <3>1, <3>2
  <2>10. QED
    BY <2>2, <2>3, <2>4, <2>5, <2>6, <2>7, <2>8, <2>9 DEF Next, MasterStep
<1>3. QED
  BY <1>1, <1>2

-------------------------------------------------------------------------------

\* The inductive invariant holds.
THEOREM MasterInvariant == Spec => []MasterInv
<1>1. MasterInv /\ [Next]_vars => MasterInv'
  BY TypeStep, HandlingStep, NoChildReturnsStep, SignalledFromKillStep,
     PrintsUnderSigintStep, ListenerLastStep, AlarmAheadStep DEF MasterInv
<1>2. QED
  BY InitInv, <1>1, PTL DEF Spec

\* When the master prints the final table, no user, no initial node and no
\* listener is left, whatever the number of processes and the signals.
THEOREM TableAfterChildren == Spec => []ChildrenFirst
<1>1. MasterInv => ChildrenFirst
  BY DEF MasterInv, NoChildReturns, ChildrenFirst
<1>2. QED
  BY MasterInvariant, <1>1, PTL

\* No process outlives the master unsignalled, the orphans of the listener and
\* of the nodes included.
THEOREM NobodyOutlives == Spec => []NobodyLeft
<1>1. MasterInv => NobodyLeft
  BY DEF MasterInv, SignalledFromKill, AllSignalled, AlarmAhead, NobodyLeft
<1>2. QED
  BY MasterInvariant, <1>1, PTL

\* Only a SIGALRM that interrupts the handler of a SIGINT makes the master
\* print its table twice.
THEOREM TablePrintedOnce == Spec => []TableOnce
<1>1. MasterInv => TableOnce
  BY DEF MasterInv, TypeOK, PrintsUnderSigint, TableOnce
<1>2. QED
  BY MasterInvariant, <1>1, PTL

\* The queue and the semaphores are there as long as a process is in its main
\* code, and if the master removes them, also for the handlers of its children:
\* only the handlers of orphans, or of children that a copy of the master
\* forestalls, may find them gone.
THEOREM QueueThereForMains == Spec => []QueueOutlivesUse
<1>1. MasterInv => QueueOutlivesUse
  <2>1. MasterInv /\ ~queue => \A p \in Process : ~Calls(p)
    BY DEF MasterInv, SignalledFromKill, AllSignalled, Ending, Calls, Alive
  <2>2. MasterInv /\ pc = "exited" => \A p \in Child : life[p] # "handling"
    BY Processes DEF MasterInv, NoChildReturns, Alive
  <2>3. QED
    BY <2>1, <2>2 DEF QueueOutlivesUse
<1>2. QED
  BY MasterInvariant, <1>1, PTL

===============================================================================
