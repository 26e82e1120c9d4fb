------------------------------ MODULE PxeServer ------------------------------
(***************************************************************************)
(* The pxe module (src/modules/pxe): the table of booting nodes, the DHCP    *)
(* and TFTP servers that look nodes up in it, the state engine that asks for *)
(* the mutations of a node's PXE state, and the nodes' boot firmware, which  *)
(* talks to the servers over a network that loses, delays and repeats.       *)
(*                                                                           *)
(* The module starts a goroutine for every mutation event and every packet;  *)
(* nothing orders them but the mutex of the table.  A goroutine runs up to   *)
(* its next send on the discovery channel in one step: the table is all it   *)
(* shares, and it accesses it once.  pending holds what is left to be sent.  *)
(***************************************************************************)
EXTENDS Naturals, FiniteSets

CONSTANTS
    Nodes,        \* nodes that boot; a node stands for its MAC address too
    IPs,          \* addresses
    Address,      \* the address a node is configured with at first
    Nothing,      \* no node, no address
    Disturbances  \* how many disturbances may come from outside

ASSUME AddressAssumption ==
    /\ Address \in [Nodes -> IPs]
    /\ \A m, n \in Nodes : Address[m] = Address[n] => m = n
ASSUME NothingAssumption == Nothing \notin Nodes \cup IPs
ASSUME DisturbancesAssumption == Disturbances \in Nat

-----------------------------------------------------------------------------
(* Values *)

PxeState  == {"NONE", "WAIT", "INIT"}
RunState  == {"UNKNOWN", "INIT"}
PhysState == {"POWER_ON", "PHYS_HANG"}

\* The mutations the module registers, and none.
Mutation == {"NONEtoWAIT", "WAITtoINIT", "none"}

\* A mutation event, with the node's address when the engine sent it.
MutationEvent == [type : {"MUTATE", "INTERRUPT"}, node : Nodes, ip : IPs]

\* A DHCP packet from or to the node.
Packet == [type : {"discover", "offer", "request", "ack", "nak"}, node : Nodes, ip : IPs \cup {Nothing}]

\* A discovery a goroutine has to send: the PXE state, or the RunState INIT.
Discovery == [node : Nodes, value : {"WAIT", "INIT", "NODE_INIT"}]

\* What the firmware of a node does.
Boot == {"start", "discovering", "requesting", "bound", "loaded"}

VARIABLES
    addr,      \* configured address of each node
    mishaps,   \* what has happened that the module is not made for
    phys,      \* discoverable PhysState of each node
    pxe,       \* discoverable PXE state of each node
    run,       \* discoverable RunState of each node
    mut,       \* the mutation the engine waits for
    byIP,      \* nodeBy["IP"]: the node registered with an address
    byMAC,     \* nodeBy["MAC"]: the address a node is registered with
    inbox,     \* mutation events not yet handled
    pending,   \* goroutines that have discoveries to send, as what each sends next
    wire,      \* packets on the network
    boot,      \* what the firmware of each node does
    lease,     \* the address the firmware asks for or has
    identity,  \* the node it was told to be, in the file it loaded
    left       \* disturbances that may still happen

engine   == <<addr, phys, mut>>
table    == <<byIP, byMAC>>
firmware == <<boot, lease, identity>>
vars     == <<engine, mishaps, pxe, run, table, inbox, pending, wire, firmware, left>>

Init ==
    /\ addr = Address /\ mishaps = {}
    /\ phys = [n \in Nodes |-> "POWER_ON"]
    /\ pxe = [n \in Nodes |-> "NONE"]
    /\ run = [n \in Nodes |-> "UNKNOWN"]
    /\ mut = [n \in Nodes |-> "none"]
    /\ byIP = [i \in IPs |-> Nothing]
    /\ byMAC = [n \in Nodes |-> Nothing]
    /\ inbox = {} /\ pending = {} /\ wire = {}
    /\ boot = [n \in Nodes |-> "start"]
    /\ lease = [n \in Nodes |-> Nothing]
    /\ identity = [n \in Nodes |-> Nothing]
    /\ left = Disturbances

\* One more disturbance: a packet is lost or repeated, the firmware or a mutation times
\* out early, an address is changed, the module's process dies.
Disturb == left > 0 /\ left' = left - 1

\* A goroutine takes longer than what goes on meanwhile: a DHCP exchange, the timeout of
\* the mutation it handles, the node's next boot.
Late   == Disturb /\ mishaps' = mishaps \cup {"late"}
InTime == UNCHANGED <<mishaps, left>>

-----------------------------------------------------------------------------
(* The table *)

\* Forgetting the second map; a slip the checks must notice.
NodeCreateHalf(n, ip) ==
    byIP' = [byIP EXCEPT ![ip] = n] /\ UNCHANGED byMAC

NodeCreate(n, ip) ==
    /\ byIP' = [byIP EXCEPT ![ip] = n]
    /\ byMAC' = [byMAC EXCEPT ![n] = ip]

\* The node registered with the address leaves both maps.
NodeDelete(ip) ==
    IF byIP[ip] = Nothing THEN UNCHANGED table
    ELSE /\ byIP' = [byIP EXCEPT ![ip] = Nothing]
         /\ byMAC' = [byMAC EXCEPT ![byIP[ip]] = Nothing]

-----------------------------------------------------------------------------
(* Mutations *)

\* NONEtoWAIT registers the node, and then sends that it waits.
HandleMUTATE(e) ==
    /\ e \in inbox /\ e.type = "MUTATE"
    /\ inbox' = inbox \ {e}
    /\ NodeCreate(e.node, e.ip)
    /\ pending' = pending \cup {[node |-> e.node, value |-> "WAIT"]}
    /\ UNCHANGED <<engine, mishaps, pxe, run, wire, firmware, left>>

\* An interrupt of either mutation; it may overtake what it interrupts.
HandleINTERRUPT(e) ==
    /\ e \in inbox /\ e.type = "INTERRUPT"
    /\ inbox' = inbox \ {e}
    /\ NodeDelete(e.ip)
    /\ IF \E f \in inbox : f.node = e.node /\ f.type = "MUTATE" THEN Late ELSE InTime
    /\ UNCHANGED <<engine, pxe, run, pending, wire, firmware>>

\* A discovery reaches the engine, which ends the mutation that aimed at it.
Discover(n, p, r) ==
    /\ pxe' = [pxe EXCEPT ![n] = p]
    /\ run' = [run EXCEPT ![n] = r]
    /\ mut' = [mut EXCEPT ![n] =
                 IF <<@, p>> = <<"NONEtoWAIT", "WAIT">>
                    \/ <<@, p, r>> = <<"WAITtoINIT", "INIT", "INIT">>
                 THEN "none" ELSE @]

\* A send on the discovery channel.  The RunState follows the PXE state INIT.
Send(d) ==
    /\ d \in pending
    /\ \/ /\ d.value = "WAIT"
          /\ Discover(d.node, "WAIT", run[d.node])
          /\ pending' = pending \ {d}
       \/ /\ d.value = "INIT"
          /\ Discover(d.node, "INIT", run[d.node])
          /\ pending' = (pending \ {d}) \cup {[d EXCEPT !.value = "NODE_INIT"]}
       \/ /\ d.value = "NODE_INIT"
          /\ Discover(d.node, pxe[d.node], "INIT")
          /\ pending' = pending \ {d}
    /\ UNCHANGED <<addr, phys, mishaps, table, inbox, wire, firmware, left>>

-----------------------------------------------------------------------------
(* DHCP and TFTP *)

Reply(p, type, ip) == (wire \ {p}) \cup {[type |-> type, node |-> p.node, ip |-> ip]}

\* A goroutine of the node's mutations is still at work.
Mutating(n) == \/ \E e \in inbox : e.node = n
               \/ [node |-> n, value |-> "WAIT"] \in pending

\* handleDHCPRequest: a node that is not registered is not answered.
IgnorePacket(p) ==
    /\ byMAC[p.node] = Nothing
    /\ wire' = wire \ {p}
    /\ UNCHANGED <<pending, mishaps, left>>

Offer(p) ==
    /\ byMAC[p.node] # Nothing /\ p.type = "discover"
    /\ wire' = Reply(p, "offer", byMAC[p.node])
    /\ UNCHANGED <<pending, mishaps, left>>

\* The address asked for is acknowledged, be it the node's or not.
AcknowledgeAny(p) ==
    /\ byMAC[p.node] # Nothing /\ p.type = "request"
    /\ wire' = Reply(p, "ack", p.ip)
    /\ pending' = pending \cup {[node |-> p.node, value |-> "INIT"]}
    /\ IF Mutating(p.node) THEN Late ELSE InTime

Acknowledge(p) == p.ip = byMAC[p.node] /\ AcknowledgeAny(p)

Refuse(p) ==
    /\ byMAC[p.node] # Nothing /\ p.type = "request" /\ p.ip # byMAC[p.node]
    /\ wire' = Reply(p, "nak", byMAC[p.node])
    /\ UNCHANGED <<pending, mishaps, left>>

HandleDHCPRequest(p) ==
    /\ p \in wire /\ p.type \in {"discover", "request"}
    /\ IgnorePacket(p) \/ Offer(p) \/ Acknowledge(p) \/ Refuse(p)
    /\ UNCHANGED <<engine, pxe, run, table, inbox, firmware>>

\* writeToTFTP: the file tells the node at that address who it is.
WriteToTFTP(n) ==
    /\ boot[n] = "bound" /\ byIP[lease[n]] # Nothing
    /\ boot' = [boot EXCEPT ![n] = "loaded"]
    /\ identity' = [identity EXCEPT ![n] = byIP[lease[n]]]
    /\ UNCHANGED <<engine, mishaps, pxe, run, table, inbox, pending, wire, lease, left>>

\* The process dies and is started again.
Restart ==
    /\ Disturb
    /\ byIP' = [i \in IPs |-> Nothing] /\ byMAC' = [n \in Nodes |-> Nothing]
    /\ inbox' = {} /\ pending' = {}
    /\ mishaps' = mishaps \cup {"restart"}
    /\ UNCHANGED <<engine, pxe, run, wire, firmware>>

-----------------------------------------------------------------------------
(* The firmware, the network *)

\* A packet of the node is under way, or an answer to it being made.
UnderWay(n) == \E p \in wire : p.node = n

Ask(n, type, ip) ==
    /\ wire' = wire \cup {[type |-> type, node |-> n, ip |-> ip]}
    /\ lease' = [lease EXCEPT ![n] = ip]
    /\ boot' = [boot EXCEPT ![n] = IF type = "request" THEN "requesting" ELSE "discovering"]
    /\ UNCHANGED <<engine, mishaps, pxe, run, table, inbox, pending, identity>>

\* A node starts with a discover, or with a request for an address it remembers.
StartBoot(n) ==
    /\ boot[n] = "start" /\ UNCHANGED left
    /\ \/ Ask(n, "discover", Nothing)
       \/ \E ip \in IPs : Ask(n, "request", ip)

\* No answer, or none yet.
Retransmit(n) ==
    /\ boot[n] \in {"discovering", "requesting"}
    /\ Ask(n, "discover", Nothing)
    /\ IF UnderWay(n) THEN Disturb ELSE UNCHANGED left

\* The firmware takes the answer it waits for; it knows it by its transaction.
TakeAnswer(n, p) ==
    /\ p \in wire /\ p.node = n /\ p.type \in {"offer", "ack", "nak"}
    /\ CASE p.type = "offer" /\ boot[n] = "discovering" ->
              /\ wire' = (wire \ {p}) \cup {[type |-> "request", node |-> n, ip |-> p.ip]}
              /\ boot' = [boot EXCEPT ![n] = "requesting"]
              /\ lease' = [lease EXCEPT ![n] = p.ip]
         [] p.type = "ack" /\ boot[n] = "requesting" ->
              /\ wire' = wire \ {p}
              /\ boot' = [boot EXCEPT ![n] = "bound"]
              /\ lease' = [lease EXCEPT ![n] = p.ip]
         [] p.type = "nak" /\ boot[n] = "requesting" ->
              /\ wire' = wire \ {p}
              /\ boot' = [boot EXCEPT ![n] = "discovering"]
              /\ UNCHANGED lease
         [] OTHER -> wire' = wire \ {p} /\ UNCHANGED <<boot, lease>>
    /\ UNCHANGED <<engine, mishaps, pxe, run, table, inbox, pending, identity, left>>

Lose(p) ==
    /\ p \in wire /\ Disturb
    /\ wire' = wire \ {p}
    /\ UNCHANGED <<engine, mishaps, pxe, run, table, inbox, pending, firmware>>

\* A packet the server has answered comes once more.
Repeat(n) ==
    /\ boot[n] \in {"requesting", "bound"} /\ lease[n] # Nothing /\ Disturb
    /\ wire' = wire \cup {[type |-> "request", node |-> n, ip |-> lease[n]]}
    /\ UNCHANGED <<engine, mishaps, pxe, run, table, inbox, pending, firmware>>

-----------------------------------------------------------------------------
(* The state engine *)

\* With the registered address, and with the configured one.
TellRegistered(type, n) == inbox' = inbox \cup {[type |-> type, node |-> n, ip |-> byMAC[n]]}
Tell(type, n) == inbox' = inbox \cup {[type |-> type, node |-> n, ip |-> addr[n]]}

\* The next mutation towards INIT, which is what every node is to reach.  The module has
\* nothing to do for the second one.
RequestNONEtoWAIT(n) ==
    /\ mut[n] = "none" /\ phys[n] = "POWER_ON" /\ pxe[n] = "NONE"
    /\ mut' = [mut EXCEPT ![n] = "NONEtoWAIT"]
    /\ Tell("MUTATE", n)
    /\ UNCHANGED <<addr, mishaps, phys, pxe, run, table, pending, wire, firmware, left>>

RequestWAITtoINIT(n) ==
    /\ mut[n] = "none" /\ phys[n] = "POWER_ON" /\ pxe[n] = "WAIT" /\ run[n] = "UNKNOWN"
    /\ mut' = [mut EXCEPT ![n] = "WAITtoINIT"]
    /\ UNCHANGED <<addr, mishaps, phys, pxe, run, table, inbox, pending, wire, firmware, left>>

\* No goroutine works for the node, and none will: it is not registered, or is through.
Quiet(n) ==
    /\ \A e \in inbox : e.node # n
    /\ \A d \in pending : d.node # n

Unattended(n) == Quiet(n) /\ (byMAC[n] = Nothing \/ boot[n] = "loaded")

\* A mutation that fails and leaves the node where it is.
TimeoutInPlace(n) ==
    /\ mut[n] # "none" /\ phys[n] = "POWER_ON"
    /\ IF Unattended(n) THEN UNCHANGED left ELSE Disturb
    /\ mut' = [mut EXCEPT ![n] = "none"]
    /\ Tell("INTERRUPT", n)
    /\ UNCHANGED <<addr, phys, mishaps, pxe, run, table, pending, wire, firmware>>

\* The mutation fails to PHYS_HANG; it was interrupted, and the module is told so.  That
\* is a disturbance if it could still have been done.
Timeout(n) ==
    /\ mut[n] # "none" /\ phys[n] = "POWER_ON"
    /\ IF Unattended(n) THEN UNCHANGED left ELSE Disturb
    /\ phys' = [phys EXCEPT ![n] = "PHYS_HANG"]
    /\ mut' = [mut EXCEPT ![n] = "none"]
    /\ Tell("INTERRUPT", n)
    /\ UNCHANGED <<addr, mishaps, pxe, run, table, pending, wire, firmware>>

\* A node that hangs is powered off and on: what depends on its power is unknown again,
\* and it boots anew.
PowerCycle(n) ==
    /\ phys[n] = "PHYS_HANG"
    /\ IF Quiet(n) THEN InTime ELSE Late
    /\ phys' = [phys EXCEPT ![n] = "POWER_ON"]
    /\ pxe' = [pxe EXCEPT ![n] = "NONE"]
    /\ run' = [run EXCEPT ![n] = "UNKNOWN"]
    /\ boot' = [boot EXCEPT ![n] = "start"]
    /\ lease' = [lease EXCEPT ![n] = Nothing]
    /\ identity' = [identity EXCEPT ![n] = Nothing]
    /\ wire' = {p \in wire : p.node = n => p.type \in {"discover", "request"}}
    /\ UNCHANGED <<addr, mut, table, inbox, pending>>

\* The operator gives the node an address that is free.
Readdress(n) ==
    /\ Disturb
    /\ \E ip \in IPs \ {addr[m] : m \in Nodes} : addr' = [addr EXCEPT ![n] = ip]
    /\ mishaps' = mishaps \cup {"address"}
    /\ UNCHANGED <<phys, mut, pxe, run, table, inbox, pending, wire, firmware>>

-----------------------------------------------------------------------------
(* The system *)

Server ==
    \/ \E e \in inbox : HandleMUTATE(e) \/ HandleINTERRUPT(e)
    \/ \E d \in pending : Send(d)
    \/ \E p \in wire : HandleDHCPRequest(p)

Engine(n) == \/ RequestNONEtoWAIT(n) \/ RequestWAITtoINIT(n)
             \/ Timeout(n) \/ PowerCycle(n) \/ Readdress(n)

Firmware(n) == \/ StartBoot(n) \/ Retransmit(n) \/ WriteToTFTP(n) \/ Repeat(n)
               \/ \E p \in wire : TakeAnswer(n, p)

Next == \/ Server \/ Restart
        \/ \E n \in Nodes : Engine(n) \/ Firmware(n)
        \/ \E p \in wire : Lose(p)

Spec == Init /\ [][Next]_vars

\* Every event and packet gets a goroutine, which goes on; the engine and the firmware
\* go on; a mutation that cannot end any more times out.
Fairness ==
    \A n \in Nodes :
        /\ WF_vars(\E e \in inbox : e.node = n /\ (HandleMUTATE(e) \/ (InTime /\ HandleINTERRUPT(e))))
        /\ WF_vars(\E d \in pending : d.node = n /\ Send(d))
        /\ WF_vars(\E p \in wire : p.node = n /\ (HandleDHCPRequest(p) \/ TakeAnswer(n, p)))
        /\ WF_vars(RequestNONEtoWAIT(n) \/ RequestWAITtoINIT(n))
        /\ WF_vars(Unattended(n) /\ Timeout(n))
        /\ WF_vars(Quiet(n) /\ PowerCycle(n))
        /\ WF_vars(StartBoot(n))
        /\ WF_vars(~ UnderWay(n) /\ Retransmit(n))
        /\ WF_vars(WriteToTFTP(n))

FairSpec == Spec /\ Fairness

-----------------------------------------------------------------------------
(* Properties *)

TypeOK ==
    /\ addr \in [Nodes -> IPs] /\ mishaps \subseteq {"address", "restart", "late"}
    /\ phys \in [Nodes -> PhysState] /\ pxe \in [Nodes -> PxeState]
    /\ run \in [Nodes -> RunState] /\ mut \in [Nodes -> Mutation]
    /\ byIP \in [IPs -> Nodes \cup {Nothing}]
    /\ byMAC \in [Nodes -> IPs \cup {Nothing}]
    /\ inbox \subseteq MutationEvent /\ pending \subseteq Discovery /\ wire \subseteq Packet
    /\ boot \in [Nodes -> Boot]
    /\ lease \in [Nodes -> IPs \cup {Nothing}]
    /\ identity \in [Nodes -> Nodes \cup {Nothing}]
    /\ left \in Nat

\* As long as no address is changed, a node that has loaded its files was told to be
\* itself: the lease that DHCP found by the MAC address leads TFTP to the same node.
BootedAsItself ==
    "address" \notin mishaps => \A n \in Nodes : boot[n] = "loaded" => identity[n] = n

Booted(n) == boot[n] = "loaded" /\ pxe[n] = "INIT" /\ run[n] = "INIT"

\* No mutation leads from where the node is, no goroutine works for it, and it is not
\* registered while it boots: its packets are ignored, and no timeout starts it again.
Stranded(n) ==
    /\ phys[n] = "POWER_ON" /\ mut[n] = "none" /\ ~ Booted(n)
    /\ pxe[n] = "INIT" \/ (pxe[n] = "WAIT" /\ run[n] = "INIT")
    /\ Unattended(n)

\* Lost and repeated packets, and mutations that time out at any moment, leave no node
\* stranded: it takes a restart of the process or a goroutine that is late.
NoneStranded == mishaps = {} => \A n \in Nodes : ~ Stranded(n)

\* As long as no address is changed, a node that is never stranded is booted in the end
\* and known to be, although packets are lost or come again, goroutines overtake each
\* other, mutations time out and the process is restarted.
EveryNodeBoots ==
    \A n \in Nodes :
        [] ("address" \notin mishaps /\ ~ Stranded(n)) => <>[] Booted(n)

=============================================================================
