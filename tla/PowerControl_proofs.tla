------------------------- MODULE PowerControl_proofs -------------------------
(***************************************************************************)
(* PowerControl for any number of nodes, goroutines and disturbances: the    *)
(* tasks stay well-formed through polls, mutations, interrupts and crashes.  *)
(***************************************************************************)
EXTENDS PowerControl, TLAPS, FiniteSetTheorems

LEMMA InitTyped == Init => TypeOK
  BY DisturbancesAssumption, SlotsAssumption
  DEF Init, TypeOK, PhysState, Machine

LEMMA DisturbTyped == ASSUME TypeOK, Disturb PROVE left' \in Nat
  BY DEF TypeOK, Disturb

-----------------------------------------------------------------------------
(* Tasks *)

\* An enumeration of the nodes is a sequence of nodes.
LEMMA OrdersAreSequences == ASSUME NEW order \in SetToSeqs(Nodes) PROVE order \in Seq(Nodes)
  <1>1. Cardinality(Nodes) \in Nat
    BY NodesAssumption, FS_CardinalityType
  <1>2. order \in [1 .. Cardinality(Nodes) -> Nodes]
    BY DEF SetToSeqs
  <1> QED
    BY <1>1, <1>2

LEMMA NewTaskTyped ==
    ASSUME NEW op \in Order \cup {"poll"}, NEW n \in Nodes, NEW rest \in Seq(Nodes)
    PROVE  NewTask(op, n, rest) \in Task
  BY DEF NewTask, First, Task, NoValue

\* What is left of a poll is a sequence of nodes, and the next step is a call.
LEMMA NextTyped ==
    ASSUME TypeOK, NEW s \in Slots, task[s] \in Task
    PROVE  /\ Next1(s) \in Task \cup {Idle}
           /\ Next1(s) # Idle => Next1(s).at = "call"
  <1>1. task[s].rest \in Seq(Nodes)
    BY DEF Task
  <1>2. CASE task[s].rest = <<>>
    BY <1>2 DEF Next1
  <1>3. CASE task[s].rest # <<>>
    <2>1. Head(task[s].rest) \in Nodes /\ Tail(task[s].rest) \in Seq(Nodes)
      BY <1>1, <1>3
    <2> QED
      BY <1>3, <2>1 DEF Next1, Task
  <1> QED
    BY <1>2, <1>3

LEMMA ReportedTyped == ASSUME NEW m \in Machine PROVE Reported(m) \in PhysState \cup {NoValue}
  BY DEF Machine, Reported, PhysState, NoValue

LEMMA AimTyped == ASSUME NEW op PROVE Aim(op) \in PhysState /\ Done(op) \in Machine
  BY DEF Aim, Done, PhysState, Machine

\* The tasks a step of a slot may lead to.
LEMMA SendsTyped ==
    ASSUME TypeOK, NEW s \in Slots, task[s] \in Task, NEW v \in PhysState \cup {NoValue}, Sends(s, v)
    PROVE  task' \in [Slots -> Task \cup {Idle}] /\ task'[s].value = v
  <1>1. [task[s] EXCEPT !.at = "send", !.value = v] \in Task
    BY DEF Task
  <1> QED
    BY <1>1 DEF Sends, TypeOK, Task

LEMMA GoesTyped ==
    ASSUME TypeOK, NEW s \in Slots, task[s] \in Task,
           NEW at \in {"dial", "nil", "call", "send"}, Goes(s, at)
    PROVE  task' \in [Slots -> Task \cup {Idle}]
  <1>1. [task[s] EXCEPT !.at = at] \in Task
    BY DEF Task
  <1> QED
    BY <1>1 DEF Goes, TypeOK

LEMMA NextNodeTyped ==
    ASSUME TypeOK, NEW s \in Slots, task[s] \in Task, NextNode(s)
    PROVE  task' \in [Slots -> Task \cup {Idle}]
  BY NextTyped DEF NextNode, TypeOK

LEMMA AtTyped == ASSUME TypeOK, NEW s \in Slots, NEW at, At(s, at) PROVE task[s] \in Task
  BY DEF At, TypeOK

-----------------------------------------------------------------------------
(* The goroutines *)

LEMMA PanicTyped == ASSUME TypeOK, Panic, left' \in Nat PROVE TypeOK'
  BY DEF TypeOK, Panic, engine

LEMMA HandleTyped ==
    ASSUME TypeOK, NEW s \in Handlers, NEW n \in Nodes, NEW op \in Order, HandleMutation(s, n, op)
    PROVE  TypeOK'
  <1>1. NewTask(op, n, <<>>) \in Task
    <2>1. <<>> \in Seq(Nodes) /\ op \in Order \cup {"poll"}
      OBVIOUS
    <2> QED
      BY <2>1, NewTaskTyped
  <1>2. task' \in [Slots -> Task \cup {Idle}]
    BY <1>1 DEF TypeOK, HandleMutation, Slots
  <1>3. inbox' \subseteq inbox
    BY DEF HandleMutation
  <1> QED
    BY <1>2, <1>3 DEF TypeOK, HandleMutation, engine

LEMMA PollTyped == ASSUME TypeOK, NEW s \in Pollers, DiscoverAll(s) PROVE TypeOK'
  <1>1. PICK order \in SetToSeqs(Nodes) : PollFrom(s, order)
    BY DEF DiscoverAll
  <1>2. order \in Seq(Nodes)
    BY OrdersAreSequences
  <1>3. CASE order = <<>>
    BY <1>1, <1>3 DEF PollFrom, TypeOK, engine
  <1>4. CASE order # <<>>
    <2>1. Head(order) \in Nodes /\ Tail(order) \in Seq(Nodes)
      BY <1>2, <1>4
    <2>2. NewTask("poll", Head(order), Tail(order)) \in Task
      BY <2>1, NewTaskTyped
    <2> QED
      BY <1>1, <1>4, <2>2 DEF PollFrom, TypeOK, engine
  <1> QED
    BY <1>3, <1>4

LEMMA DialTyped == ASSUME TypeOK, NEW s \in Slots, Dial(s) PROVE TypeOK'
  <1>1. task' \in [Slots -> Task \cup {Idle}]
    BY AtTyped, GoesTyped, NextNodeTyped DEF Dial
  <1>2. left' \in Nat /\ conn' \in BOOLEAN
    BY DisturbTyped DEF Dial, TypeOK
  <1> QED
    BY <1>1, <1>2 DEF Dial, TypeOK, engine

LEMMA NilTyped == ASSUME TypeOK, NEW s \in Slots, NilConnection(s) PROVE TypeOK'
  <1>1. left' \in Nat
    BY DEF NilConnection, TypeOK
  <1>2. CASE task[s].op \in {"on", "off"}
    BY <1>1, <1>2, PanicTyped DEF NilConnection
  <1>3. CASE task[s].op \notin {"on", "off"}
    BY <1>1, <1>3 DEF NilConnection, TypeOK, engine
  <1> QED
    BY <1>2, <1>3

LEMMA LookTyped == ASSUME TypeOK, NEW s \in Slots, Look(s) PROVE TypeOK'
  <1>1. task[s] \in Task /\ task[s].node \in Nodes
    BY AtTyped DEF Look, Task
  <1>2. Reported(machine[task[s].node]) \in PhysState \cup {NoValue} /\ "PHYS_UNKNOWN" \in PhysState
    BY <1>1, ReportedTyped DEF TypeOK, PhysState
  <1>3. task' \in [Slots -> Task \cup {Idle}]
    BY <1>1, <1>2, SendsTyped, NextNodeTyped DEF Look
  <1>4. left' \in Nat
    BY DisturbTyped DEF Look, TypeOK
  <1> QED
    BY <1>3, <1>4 DEF Look, TypeOK, engine

LEMMA SwitchTyped == ASSUME TypeOK, NEW s \in Slots, Switch(s) PROVE TypeOK'
  <1>1. task[s] \in Task /\ task[s].node \in Nodes
    BY AtTyped DEF Switch, Task
  <1>2. Aim(task[s].op) \in PhysState /\ Done(task[s].op) \in Machine
    BY AimTyped
  <1>3. task' \in [Slots -> Task \cup {Idle}]
    BY <1>1, <1>2, SendsTyped, NextNodeTyped DEF Switch, Failed, FailedAnyway
  <1>4. left' \in Nat /\ machine' \in [Nodes -> Machine]
    BY <1>1, <1>2, DisturbTyped DEF Switch, TypeOK
  <1> QED
    BY <1>3, <1>4 DEF Switch, TypeOK, engine

LEMMA SendTyped == ASSUME TypeOK, NEW s \in Slots, Send(s) PROVE TypeOK'
  <1>1. task[s] \in Task /\ task[s].node \in Nodes /\ task[s].value \in PhysState \cup {NoValue}
    BY AtTyped DEF Send, Task
  <1>2. task' \in [Slots -> Task \cup {Idle}]
    BY <1>1, NextNodeTyped DEF Send
  <1>3. phys' \in [Nodes -> PhysState]
    BY <1>1 DEF Send, TypeOK
  <1> QED
    BY <1>2, <1>3 DEF Send, TypeOK

LEMMA StepTyped == ASSUME TypeOK, NEW s \in Slots, Step(s) PROVE TypeOK'
  BY DialTyped, NilTyped, LookTyped, SwitchTyped, SendTyped DEF Step

-----------------------------------------------------------------------------
(* The engine and the environment *)

LEMMA UpdateTyped == ASSUME TypeOK, UpdateConfig PROVE TypeOK'
  BY DisturbTyped DEF TypeOK, UpdateConfig, engine

LEMMA RestartTyped == ASSUME TypeOK, Restart PROVE TypeOK'
  BY DEF TypeOK, Restart, engine

LEMMA RaceTyped == ASSUME TypeOK, NEW s \in Slots, MapRace(s) PROVE TypeOK'
  BY DisturbTyped, PanicTyped DEF MapRace

LEMMA InterruptTyped ==
    ASSUME TypeOK, NEW n \in Nodes, Interrupt(n)
    PROVE  /\ mut' \in [Nodes -> Mutation \cup {NoMut}]
           /\ inbox' \subseteq Nodes \X Order /\ polling' \in BOOLEAN
  BY DEF TypeOK, Interrupt, Order

LEMMA ExpireTyped == ASSUME TypeOK, NEW n \in Nodes, Expire(n), left' \in Nat PROVE TypeOK'
  BY InterruptTyped DEF Expire, TypeOK, PhysState

LEMMA EngineTyped ==
    ASSUME TypeOK, NEW n \in Nodes,
           \/ (\E m \in Muts : Request(n, m)) \/ Settle(n) \/ Timeout(n) \/ TimeoutEarly(n)
           \/ ChangeGoal(n) \/ Drop(n) \/ Resume(n) \/ Sync(n)
    PROVE  TypeOK'
  <1>1. \A m \in Muts : m \in Mutation /\ m.op \in Order
    BY DEF Muts, Mutation, PhysState, Wanted, Order
  <1>2. ASSUME NEW m \in Muts, Request(n, m) PROVE TypeOK'
    BY <1>1, <1>2 DEF Request, TypeOK
  <1>3. CASE Settle(n)
    BY <1>3, InterruptTyped DEF Settle, TypeOK
  <1>4. CASE Timeout(n)
    BY <1>4, ExpireTyped DEF Timeout, TypeOK
  <1>5. CASE TimeoutEarly(n)
    BY <1>5, ExpireTyped, DisturbTyped DEF TimeoutEarly
  <1>6. CASE ChangeGoal(n)
    <2>1. goal' \in [Nodes -> Wanted] /\ left' \in Nat
      BY <1>6, DisturbTyped DEF ChangeGoal, TypeOK
    <2>2. /\ mut' \in [Nodes -> Mutation \cup {NoMut}]
          /\ inbox' \subseteq Nodes \X Order /\ polling' \in BOOLEAN
      BY <1>6, InterruptTyped DEF ChangeGoal, TypeOK
    <2> QED
      BY <1>6, <2>1, <2>2 DEF ChangeGoal, TypeOK
  <1>7. CASE Drop(n)
    BY <1>7, DisturbTyped DEF Drop, TypeOK, engine, Machine
  <1>8. CASE Resume(n)
    BY <1>8 DEF Resume, TypeOK, engine, Machine
  <1>9. CASE Sync(n)
    BY <1>9 DEF Sync, TypeOK
  <1> QED
    BY <1>2, <1>3, <1>4, <1>5, <1>6, <1>7, <1>8, <1>9

LEMMA NextTypeOK == TypeOK /\ [Next]_vars => TypeOK'
  <1> SUFFICES ASSUME TypeOK, [Next]_vars PROVE TypeOK'
    OBVIOUS
  <1>1. CASE UNCHANGED vars
    BY <1>1 DEF vars, engine, TypeOK
  <1>2. CASE Next
    BY <1>2, UpdateTyped, RestartTyped, StepTyped, RaceTyped, HandleTyped, PollTyped, EngineTyped
    DEF Next
  <1> QED
    BY <1>1, <1>2

\* Tasks, events and discoveries keep their types: a poll cut short by a failed call or
\* an update still has a list of nodes left.
THEOREM Typing == Spec => []TypeOK
  BY InitTyped, NextTypeOK, PTL DEF Spec

=============================================================================
