---------------------------- MODULE PowerControl ----------------------------
(***************************************************************************)
(* The power modules powerapi, libvirt and vboxmanage (src/modules), with   *)
(* the state engine that asks them for mutations of PhysState and the       *)
(* server that holds the machines.  The three are written alike: platform   *)
(* says which one runs, and where they differ.                              *)
(*                                                                          *)
(* The main loop starts a goroutine for every poll and every mutation; they *)
(* share nothing but libvirt's connection and take no lock.  A goroutine is *)
(* a slot s, and task[s] is the call it is about to make or the discovery   *)
(* it is about to send.                                                     *)
(***************************************************************************)
EXTENDS Naturals, Sequences, FiniteSets, SequencesExt

CONSTANTS
    Nodes,      \* nodes of this platform, each with a machine on one server
    Handlers,   \* goroutines that may handle mutations at a time
    Pollers,    \* goroutines that may poll at a time
    NoMut,      \* the engine waits for no mutation
    Idle,       \* a slot without a goroutine
    Disturbances \* how many disturbances may come from outside

Slots == Handlers \cup Pollers

ASSUME SlotsAssumption == Handlers \cap Pollers = {}
ASSUME DisturbancesAssumption == Disturbances \in Nat
ASSUME NodesAssumption == IsFiniteSet(Nodes)

-----------------------------------------------------------------------------
(* Values *)

Platforms == {"powerapi", "libvirt", "vbox"}
PhysState == {"PHYS_UNKNOWN", "POWER_OFF", "POWER_ON", "PHYS_HANG"}
Wanted    == {"POWER_OFF", "POWER_ON"}

\* A machine that is on or off, paused or suspended, or in none of these to its server
\* (crashed, aborted, between two states).
Machine == {"on", "off", "paused", "lost"}

\* What the main loop is told to do about a node: part of a mutation, or its interrupt.
Order == {"discover", "on", "off", "interrupt"}

\* A ValueID that is not among the registered ones: the engine has no use for it.
NoValue == "none"

\* The mutation the engine asks for in each PhysState that is not the wanted one.
Mutation == [f : PhysState, t : Wanted, op : {"discover", "on", "off"}]
Muts == { [f |-> "PHYS_UNKNOWN", t |-> "POWER_OFF", op |-> "discover"],
          [f |-> "POWER_OFF",    t |-> "POWER_ON",  op |-> "on"],
          [f |-> "POWER_ON",     t |-> "POWER_OFF", op |-> "off"],
          [f |-> "PHYS_HANG",    t |-> "POWER_OFF", op |-> "off"] }

ASSUME NoMutAssumption == NoMut \notin Mutation

\* at: where the goroutine is; node: whose machine; rest: the nodes a poll has left.
Task == [op : Order \cup {"poll"}, node : Nodes,
         at : {"dial", "nil", "call", "send"},
         value : PhysState \cup {NoValue}, rest : Seq(Nodes)]

ASSUME IdleAssumption == Idle \notin Task

VARIABLES
    platform,   \* the module that runs
    goal,       \* configured PhysState of each node
    phys,       \* discoverable PhysState of each node
    inSync,     \* RunState of the node is SYNC
    mut,        \* the mutation the engine waits for, or NoMut
    machine,    \* the machines on the server
    conn,       \* libvirt: srvConns has the server's connection
    polling,    \* the main loop waits on a ticker that ticks
    inbox,      \* mutation events not yet handled: <<node, order>>
    task,       \* Slots -> Task or Idle
    up,         \* the module's process is alive
    left        \* disturbances that may still happen

engine == <<goal, phys, inSync, mut>>
vars   == <<platform, engine, machine, conn, polling, inbox, task, up, left>>

Init ==
    /\ platform \in Platforms
    /\ goal \in [Nodes -> Wanted]
    /\ phys = [n \in Nodes |-> "PHYS_UNKNOWN"]
    /\ inSync = [n \in Nodes |-> FALSE]
    /\ mut = [n \in Nodes |-> NoMut]
    /\ machine \in [Nodes -> {"on", "off"}]
    /\ conn = FALSE
    /\ polling = TRUE
    /\ inbox = {}
    /\ task = [s \in Slots |-> Idle]
    /\ up = TRUE
    /\ left = Disturbances

\* One more disturbance: a call fails, a mutation times out while it is worked at, the
\* wanted state changes, a machine stops or pauses by itself, the configuration is updated,
\* two goroutines touch libvirt's map of connections at the same time.
Disturb == left > 0 /\ left' = left - 1

-----------------------------------------------------------------------------
(* The main loop *)

\* A libvirt goroutine looks for the server's connection first: it dials if there is none.
First == IF platform = "libvirt" /\ ~ conn THEN "dial" ELSE "call"

NewTask(op, n, rest) ==
    [op |-> op, node |-> n, at |-> First, value |-> NoValue, rest |-> rest]

\* handleMutation.  The loop comes round and waits on the ticker there is now.
HandleMutation(s, n, op) ==
    /\ task[s] = Idle /\ <<n, op>> \in inbox
    /\ inbox' = inbox \ {<<n, op>>}
    /\ task' = IF op = "interrupt" /\ First = "call" THEN task
               ELSE [task EXCEPT ![s] = NewTask(op, n, <<>>)]
    /\ polling' = TRUE
    /\ UNCHANGED <<platform, engine, machine, conn, up, left>>

\* discoverAll, over the nodes in any order: it ranges over a map.  With the first of
\* them forgotten, and as it is.
PollFrom(s, order) ==
    /\ up /\ polling /\ task[s] = Idle
    /\ task' = [task EXCEPT ![s] =
                  IF order = <<>> THEN Idle ELSE NewTask("poll", Head(order), Tail(order))]
    /\ UNCHANGED <<platform, engine, machine, conn, polling, inbox, up, left>>

DiscoverRest(s) == \E order \in SetToSeqs(Nodes) : order # <<>> /\ PollFrom(s, Tail(order))
DiscoverAll(s)  == \E order \in SetToSeqs(Nodes) : PollFrom(s, order)

\* UpdateConfig replaces the ticker.  The main loop keeps waiting on the stopped one
\* until a mutation, or a tick left in its channel, wakes it.
UpdateConfig ==
    /\ up /\ Disturb
    /\ polling' \in BOOLEAN
    /\ UNCHANGED <<platform, engine, machine, conn, inbox, task, up>>

\* The process dies and is started again: Init and Entry.
Panic ==
    /\ up' = FALSE /\ conn' = FALSE /\ polling' = FALSE /\ inbox' = {}
    /\ task' = [s \in Slots |-> Idle]
    /\ UNCHANGED <<platform, engine, machine>>

Restart ==
    /\ ~ up
    /\ up' = TRUE /\ polling' = TRUE
    /\ UNCHANGED <<platform, engine, machine, conn, inbox, task, left>>

-----------------------------------------------------------------------------
(* A goroutine *)

At(s, at) == task[s] # Idle /\ task[s].at = at

Goes(s, at) == task' = [task EXCEPT ![s].at = at]

\* The goroutine is done with its node: a poll goes on with the next one, others end.
Next1(s) ==
    LET t == task[s]
    IN  IF t.rest = <<>> THEN Idle
        ELSE [t EXCEPT !.node = Head(t.rest), !.rest = Tail(t.rest), !.at = "call"]

NextNode(s) == task' = [task EXCEPT ![s] = Next1(s)]

\* connectToServer of libvirt, when there was no connection: a new one, or nil.
Dial(s) ==
    /\ At(s, "dial")
    /\ \/ /\ conn' = TRUE /\ UNCHANGED left
          /\ IF task[s].op = "interrupt" THEN NextNode(s) ELSE Goes(s, "call")
       \/ Disturb /\ Goes(s, "nil") /\ UNCHANGED conn
    /\ UNCHANGED <<platform, engine, machine, polling, inbox, up>>

\* A goroutine that is about to start.
Starting(r) == task[r] = Idle /\ IF r \in Pollers THEN polling ELSE inbox # {}

\* srvConns is a map without a lock: the runtime may stop a process in which one goroutine
\* writes it (it has dialled) and another writes or reads it (it starts).
MapRace(s) ==
    /\ At(s, "dial")
    /\ \E r \in Slots \ {s} : At(r, "dial") \/ Starting(r)
    /\ Disturb
    /\ Panic

\* A nil connection: vmDiscover and discoverAll look for it, vmOn and vmOff do not.
NilConnection(s) ==
    /\ At(s, "nil")
    /\ IF task[s].op \in {"on", "off"}
       THEN Panic
       ELSE /\ task' = [task EXCEPT ![s] = Idle]
            /\ UNCHANGED <<platform, engine, machine, conn, polling, inbox, up>>
    /\ UNCHANGED left

\* What a look at the machine is discovered as: powerToPhys, domainState and the
\* switch of vmDiscover.  The latter two take a paused machine for one that is off.
ReportedRaw(m) == m

Reported(m) ==
    CASE m = "on"  -> "POWER_ON"
      [] m = "off" -> "POWER_OFF"
      [] m \in {"paused", "lost"} /\ platform = "powerapi" -> NoValue
      [] m = "paused" /\ platform # "powerapi" -> "POWER_OFF"
      [] m = "lost" /\ platform # "powerapi"   -> "PHYS_UNKNOWN"

Sends(s, v) == task' = [task EXCEPT ![s].at = "send", ![s].value = v]

\* A look that fails discovers nothing, except that a libvirt domain which is found and
\* whose state is not becomes PHYS_UNKNOWN.
Look(s) ==
    /\ At(s, "call") /\ task[s].op \in {"discover", "poll"}
    /\ \/ Sends(s, Reported(machine[task[s].node])) /\ UNCHANGED left
       \/ Disturb /\ NextNode(s)
       \/ platform = "libvirt" /\ Disturb /\ Sends(s, "PHYS_UNKNOWN")
    /\ UNCHANGED <<platform, engine, machine, conn, polling, inbox, up>>

\* A machine that is there, paused or not, is not started, and no other is stopped:
\* libvirt and vboxmanage refuse, a power API does not.
Refused(op, m) ==
    platform # "powerapi" /\ (op = "on" <=> m \in {"on", "paused"})

Aim(op)  == IF op = "on" THEN "POWER_ON" ELSE "POWER_OFF"
Done(op) == IF op = "on" THEN "on" ELSE "off"

\* A call that failed discovers nothing, except in libvirt once the domain was found.
FailedAnyway(s) == Sends(s, Aim(task[s].op))
Failed(s)       == NextNode(s) \/ (platform = "libvirt" /\ FailedAnyway(s))

\* nodeOn and nodeOff, vmOn and vmOff: a call that fails may have had its effect.
Switch(s) ==
    /\ At(s, "call") /\ task[s].op \in {"on", "off"}
    /\ LET n  == task[s].node
           op == task[s].op
       IN  \/ /\ ~ Refused(op, machine[n])
              /\ machine' = [machine EXCEPT ![n] = Done(op)]
              /\ Sends(s, Aim(op))
              /\ UNCHANGED left
           \/ /\ Refused(op, machine[n])
              /\ Failed(s)
              /\ UNCHANGED <<machine, left>>
           \/ /\ ~ Refused(op, machine[n]) /\ Disturb
              /\ machine' \in {machine, [machine EXCEPT ![n] = Done(op)]}
              /\ Failed(s)
    /\ UNCHANGED <<platform, engine, conn, polling, inbox, up>>

\* The send on the discovery channel, and the engine takes the discovery; it has seen to
\* what the one before means for the mutation.
Send(s) ==
    /\ At(s, "send")
    /\ LET n == task[s].node IN mut[n] # NoMut => phys[n] = mut[n].f
    /\ phys' = IF task[s].value = NoValue THEN phys
               ELSE [phys EXCEPT ![task[s].node] = task[s].value]
    /\ NextNode(s)
    /\ UNCHANGED <<platform, goal, inSync, mut, machine, conn, polling, inbox, up, left>>

-----------------------------------------------------------------------------
(* The state engine, the machines *)

\* The engine asks for the mutation out of a PhysState that is not the wanted one.  A
\* node in SYNC is not powered off, except by libvirt, which has no such exclusion.
Excluded(n, m) == m.f = "POWER_ON" /\ inSync[n] /\ platform # "libvirt"

Request(n, m) ==
    /\ mut[n] = NoMut /\ phys[n] # goal[n] /\ m.f = phys[n] /\ ~ Excluded(n, m)
    /\ mut' = [mut EXCEPT ![n] = m]
    /\ inbox' = IF up THEN inbox \cup {<<n, m.op>>} ELSE inbox
    /\ UNCHANGED <<platform, goal, phys, inSync, machine, conn, polling, task, up, left>>

\* The engine forgets the mutation and tells the module so.  There is nothing to do for an
\* interrupt but to come round the loop, and libvirt connects before it looks at it.
Interrupt(n) ==
    /\ mut' = [mut EXCEPT ![n] = NoMut]
    /\ inbox' = IF up /\ First = "dial" THEN inbox \cup {<<n, "interrupt">>} ELSE inbox
    /\ polling' = up

\* The mutation is done, or PhysState went elsewhere.
Settle(n) ==
    /\ mut[n] # NoMut
    /\ \/ phys[n] = mut[n].t /\ mut' = [mut EXCEPT ![n] = NoMut] /\ UNCHANGED <<inbox, polling>>
       \/ phys[n] \notin {mut[n].f, mut[n].t} /\ Interrupt(n)
    /\ UNCHANGED <<platform, goal, phys, inSync, machine, conn, task, up, left>>

\* Every mutation fails to PHYS_HANG when its time is over.
Expire(n) ==
    /\ mut[n] # NoMut /\ phys[n] = mut[n].f
    /\ Interrupt(n)
    /\ phys' = [phys EXCEPT ![n] = "PHYS_HANG"]
    /\ UNCHANGED <<platform, goal, inSync, machine, conn, task, up>>

\* The module is still at work for the mutation.
Working(n) ==
    \/ <<n, mut[n].op>> \in inbox
    \/ \E s \in Handlers : task[s] # Idle /\ task[s].node = n /\ task[s].op = mut[n].op

Timeout(n)      == Expire(n) /\ ~ Working(n) /\ UNCHANGED left
TimeoutEarly(n) == Expire(n) /\ Working(n) /\ Disturb

ChangeGoal(n) ==
    /\ Disturb
    /\ \E w \in Wanted \ {goal[n]} : goal' = [goal EXCEPT ![n] = w]
    /\ IF mut[n] = NoMut THEN UNCHANGED <<mut, inbox, polling>> ELSE Interrupt(n)
    /\ UNCHANGED <<platform, phys, inSync, machine, conn, task, up>>

\* A machine stops by itself or is paused; a paused one goes on.
Drop(n) ==
    /\ machine[n] = "on" /\ Disturb
    /\ \E m \in Machine \ {"on"} : machine' = [machine EXCEPT ![n] = m]
    /\ UNCHANGED <<platform, engine, conn, polling, inbox, task, up>>

Resume(n) ==
    /\ machine[n] = "paused"
    /\ machine' = [machine EXCEPT ![n] = "on"]
    /\ UNCHANGED <<platform, engine, conn, polling, inbox, task, up, left>>

\* The node boots into SYNC; it leaves SYNC to be powered off, or as it is gone.  No
\* mutation of libvirt looks at it.
Sync(n) ==
    /\ platform # "libvirt"
    /\ \/ ~ inSync[n] /\ machine[n] = "on" /\ goal[n] = "POWER_ON"
       \/ inSync[n] /\ (goal[n] = "POWER_OFF" \/ machine[n] # "on")
    /\ inSync' = [inSync EXCEPT ![n] = ~ @]
    /\ UNCHANGED <<platform, goal, phys, mut, machine, conn, polling, inbox, task, up, left>>

-----------------------------------------------------------------------------
(* The system *)

Step(s) == \/ Dial(s) \/ NilConnection(s)
           \/ Look(s) \/ Switch(s) \/ Send(s)

Next ==
    \/ UpdateConfig \/ Restart
    \/ \E s \in Slots : Step(s) \/ MapRace(s)
    \/ \E s \in Handlers, n \in Nodes, op \in Order : HandleMutation(s, n, op)
    \/ \E s \in Pollers : DiscoverAll(s)
    \/ \E n \in Nodes : \/ \E m \in Muts : Request(n, m)
                        \/ Settle(n) \/ Timeout(n) \/ TimeoutEarly(n) \/ ChangeGoal(n)
                        \/ Drop(n) \/ Resume(n) \/ Sync(n)

Spec == Init /\ [][Next]_vars

\* Goroutines and the engine keep going, a dead process is started again, the ticker
\* ticks as long as the loop waits on it, a goroutine is started for every mutation, and
\* a mutation nobody works at times out.
Fairness ==
    /\ \A s \in Slots : WF_vars(Step(s))
    /\ \A s \in Pollers : WF_vars(DiscoverAll(s))
    /\ WF_vars(Restart)
    /\ \A n \in Nodes : /\ SF_vars(\E m \in Muts : Request(n, m))
                        /\ WF_vars(Settle(n)) /\ WF_vars(Timeout(n)) /\ WF_vars(Sync(n))
                        /\ SF_vars(\E s \in Handlers, op \in Order :
                                      HandleMutation(s, n, op))

FairSpec == Spec /\ Fairness

-----------------------------------------------------------------------------
(* Properties *)

TypeOK ==
    /\ platform \in Platforms
    /\ goal \in [Nodes -> Wanted]
    /\ phys \in [Nodes -> PhysState]
    /\ inSync \in [Nodes -> BOOLEAN]
    /\ mut \in [Nodes -> Mutation \cup {NoMut}]
    /\ machine \in [Nodes -> Machine]
    /\ conn \in BOOLEAN /\ polling \in BOOLEAN /\ up \in BOOLEAN
    /\ inbox \subseteq Nodes \X Order
    /\ task \in [Slots -> Task \cup {Idle}]
    /\ left \in Nat

\* A goroutine that is overtaken: what it is about to discover is not so any more.
Overtaken(s) == At(s, "send") /\ task[s].value # Reported(machine[task[s].node])

\* As long as polls go on, goroutines are not overtaken again and again, and nobody leaves a
\* machine paused or lost, each node ends in the wanted state, in fact and as far as the
\* engine knows: whatever was lost with a failed call, a nil connection or a dead process
\* is made up for by the timeout of its mutation, and what late polls and mutations
\* overwrite, by a later poll.
PowerConverges ==
    (/\ <>[](polling /\ \A s \in Slots : ~ Overtaken(s))
     /\ \A n \in Nodes : []<>(machine[n] \in {"on", "off"}))
        => \A n \in Nodes :
             <>[](phys[n] = goal[n] /\ machine[n] = IF goal[n] = "POWER_ON" THEN "on" ELSE "off")

=============================================================================
