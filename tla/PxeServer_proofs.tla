--------------------------- MODULE PxeServer_proofs ---------------------------
(***************************************************************************)
(* PxeServer for any number of nodes and addresses: the two maps of the     *)
(* table, the packets on the network and the leases of the nodes agree, so  *)
(* that a node is never booted as another, whatever is lost, repeated,      *)
(* reordered, interrupted or restarted.                                     *)
(***************************************************************************)
EXTENDS PxeServer, TLAPS

\* An acknowledgement names an address, and so has a node that took one.
Leased ==
    /\ \A p \in wire : p.type = "ack" => p.ip # Nothing
    /\ \A n \in Nodes : boot[n] \in {"bound", "loaded"} => lease[n] # Nothing

\* Every place that holds an address of a node holds the one it is configured with.
TableAgrees ==
    /\ \A k \in IPs : byIP[k] # Nothing => Address[byIP[k]] = k
    /\ \A n \in Nodes : byMAC[n] # Nothing => byMAC[n] = Address[n]

PacketsAgree ==
    /\ \A e \in inbox : e.ip = Address[e.node]
    /\ \A p \in wire : p.type = "ack" => p.ip = Address[p.node]

NodesAgree ==
    \A n \in Nodes :
        /\ boot[n] \in {"bound", "loaded"} => lease[n] = Address[n]
        /\ boot[n] = "loaded" => identity[n] = n

Agree == addr = Address /\ TableAgrees /\ PacketsAgree /\ NodesAgree

IInv == TypeOK /\ Leased /\ ("address" \notin mishaps => Agree)

-----------------------------------------------------------------------------
(* The module *)

LEMMA InitIInv == Init => IInv
  <1> SUFFICES ASSUME Init PROVE IInv
    OBVIOUS
  <1>1. TypeOK
    BY AddressAssumption, DisturbancesAssumption
    DEF Init, TypeOK, PhysState, PxeState, RunState, Mutation, Boot
  <1>2. Leased /\ Agree
    BY DEF Init, Leased, Agree, TableAgrees, PacketsAgree, NodesAgree
  <1> QED
    BY <1>1, <1>2 DEF IInv

LEMMA DisturbTyped == ASSUME TypeOK, Disturb PROVE left' \in Nat
  BY DEF TypeOK, Disturb

LEMMA MUTATEIInv == ASSUME IInv, NEW e \in inbox, HandleMUTATE(e) PROVE IInv'
  <1>1. e.node \in Nodes /\ e.ip \in IPs
    BY DEF IInv, TypeOK, MutationEvent
  <1>2. TypeOK'
    BY <1>1 DEF IInv, TypeOK, HandleMUTATE, NodeCreate, Discovery, engine, firmware
  <1>3. Leased'
    BY DEF IInv, Leased, HandleMUTATE, firmware
  <1>4. ASSUME Agree PROVE Agree'
    <2>1. e.ip = Address[e.node]
      BY <1>4 DEF Agree, PacketsAgree
    <2>2. TableAgrees'
      BY <1>1, <1>4, <2>1 DEF Agree, TableAgrees, HandleMUTATE, NodeCreate, IInv, TypeOK
    <2> QED
      BY <1>4, <2>2 DEF Agree, PacketsAgree, NodesAgree, HandleMUTATE, engine, firmware
  <1> QED
    BY <1>2, <1>3, <1>4 DEF IInv, HandleMUTATE

\* A registered node leaves the two maps together.
LEMMA DeleteAgrees ==
    ASSUME TypeOK, NEW ip \in IPs, NodeDelete(ip)
    PROVE  /\ byIP' \in [IPs -> Nodes \cup {Nothing}] /\ byMAC' \in [Nodes -> IPs \cup {Nothing}]
           /\ TableAgrees => TableAgrees'
  <1>1. CASE byIP[ip] = Nothing
    BY <1>1 DEF NodeDelete, table, TypeOK, TableAgrees
  <1>2. CASE byIP[ip] # Nothing
    BY <1>2 DEF NodeDelete, TypeOK, TableAgrees
  <1> QED
    BY <1>1, <1>2

LEMMA INTERRUPTIInv == ASSUME IInv, NEW e \in inbox, HandleINTERRUPT(e) PROVE IInv'
  <1>1. e.ip \in IPs
    BY DEF IInv, TypeOK, MutationEvent
  <1>2. /\ inbox' = inbox \ {e} /\ NodeDelete(e.ip)
        /\ UNCHANGED <<engine, pxe, run, pending, wire, firmware>>
    BY DEF HandleINTERRUPT
  <1>3. mishaps' \in {mishaps, mishaps \cup {"late"}} /\ left' \in Nat
    BY DisturbTyped DEF HandleINTERRUPT, Late, InTime, IInv, TypeOK
  <1>4. TypeOK'
    BY <1>1, <1>2, <1>3, DeleteAgrees DEF IInv, TypeOK, engine, firmware
  <1>5. Leased'
    BY <1>2 DEF IInv, Leased, firmware
  <1>6. ASSUME Agree PROVE Agree'
    BY <1>1, <1>2, <1>6, DeleteAgrees DEF IInv, Agree, PacketsAgree, NodesAgree, engine, firmware
  <1> QED
    BY <1>3, <1>4, <1>5, <1>6 DEF IInv

LEMMA SendIInv == ASSUME IInv, NEW d \in pending, Send(d) PROVE IInv'
  <1>1. d.node \in Nodes /\ d \in Discovery
    BY DEF IInv, TypeOK, Discovery
  <1>2. ASSUME NEW p \in PxeState, NEW r \in RunState, Discover(d.node, p, r)
        PROVE  /\ pxe' \in [Nodes -> PxeState] /\ run' \in [Nodes -> RunState]
               /\ mut' \in [Nodes -> Mutation]
    BY <1>1, <1>2 DEF Discover, IInv, TypeOK, Mutation
  <1>3. pxe' \in [Nodes -> PxeState] /\ run' \in [Nodes -> RunState] /\ mut' \in [Nodes -> Mutation]
    <2>1. pxe[d.node] \in PxeState /\ run[d.node] \in RunState
      BY <1>1 DEF IInv, TypeOK
    <2>2. "WAIT" \in PxeState /\ "INIT" \in PxeState /\ "INIT" \in RunState
      BY DEF PxeState, RunState
    <2>3. \/ Discover(d.node, "WAIT", run[d.node])
          \/ Discover(d.node, "INIT", run[d.node])
          \/ Discover(d.node, pxe[d.node], "INIT")
      BY DEF Send
    <2> QED
      BY <1>2, <2>1, <2>2, <2>3
  <1>4. pending' \subseteq Discovery
    BY <1>1 DEF Send, IInv, TypeOK, Discovery
  <1> QED
    BY <1>3, <1>4 DEF IInv, TypeOK, Leased, Agree, TableAgrees, PacketsAgree, NodesAgree,
                      Send, table, firmware

-----------------------------------------------------------------------------
(* DHCP and TFTP *)

LEMMA ReplyTyped ==
    ASSUME wire \subseteq Packet, NEW p \in wire, NEW type \in {"offer", "ack", "nak"},
           NEW ip \in IPs \cup {Nothing}
    PROVE  Reply(p, type, ip) \subseteq Packet
  BY DEF Reply, Packet

LEMMA DHCPIInv == ASSUME IInv, NEW p \in wire, HandleDHCPRequest(p) PROVE IInv'
  <1>1. p.node \in Nodes /\ byMAC[p.node] \in IPs \cup {Nothing} /\ wire \subseteq Packet
    BY DEF IInv, TypeOK, Packet
  <1>2. UNCHANGED <<engine, pxe, run, table, inbox, firmware>>
    BY DEF HandleDHCPRequest
  <1>3. /\ mishaps' \in {mishaps, mishaps \cup {"late"}} /\ left' \in Nat
        /\ pending' \subseteq Discovery
    BY <1>1, DisturbTyped DEF HandleDHCPRequest, IgnorePacket, Offer, Acknowledge, AcknowledgeAny,
                              Refuse, Late, InTime, IInv, TypeOK, Discovery
  <1>4. /\ wire' \subseteq Packet
        /\ \A q \in wire' : q.type = "ack" => \/ q \in wire
                                              \/ q.node = p.node /\ q.ip = byMAC[p.node] /\ q.ip # Nothing
    <2>1. CASE IgnorePacket(p)
      BY <1>1, <2>1 DEF IgnorePacket
    <2>2. CASE Offer(p)
      BY <1>1, <2>2, ReplyTyped DEF Offer, Reply
    <2>3. CASE Acknowledge(p)
      BY <1>1, <2>3, ReplyTyped DEF Acknowledge, AcknowledgeAny, Reply
    <2>4. CASE Refuse(p)
      BY <1>1, <2>4, ReplyTyped DEF Refuse, Reply
    <2> QED
      BY <2>1, <2>2, <2>3, <2>4 DEF HandleDHCPRequest
  <1>5. TypeOK'
    BY <1>2, <1>3, <1>4 DEF IInv, TypeOK, engine, table, firmware
  <1>6. Leased'
    BY <1>2, <1>4 DEF IInv, Leased, firmware
  <1>7. ASSUME Agree PROVE Agree'
    BY <1>1, <1>2, <1>4, <1>7 DEF Agree, TableAgrees, PacketsAgree, NodesAgree, engine, table, firmware
  <1> QED
    BY <1>3, <1>5, <1>6, <1>7 DEF IInv

\* The file is made for the node that has the address: the node itself.
LEMMA TFTPIInv == ASSUME IInv, NEW n \in Nodes, WriteToTFTP(n) PROVE IInv'
  <1>1. lease[n] \in IPs /\ byIP[lease[n]] \in Nodes
    BY DEF IInv, TypeOK, Leased, WriteToTFTP
  <1>2. TypeOK'
    BY <1>1 DEF IInv, TypeOK, WriteToTFTP, engine, table, Boot
  <1>3. Leased'
    BY <1>1 DEF IInv, TypeOK, Leased, WriteToTFTP
  <1>4. ASSUME Agree PROVE Agree'
    <2>1. Address[byIP[lease[n]]] = Address[n]
      BY <1>1, <1>4 DEF Agree, TableAgrees, NodesAgree, WriteToTFTP
    <2>2. byIP[lease[n]] = n
      BY <1>1, <2>1, AddressAssumption
    <2>3. NodesAgree'
      BY <1>4, <2>2 DEF Agree, NodesAgree, WriteToTFTP, IInv, TypeOK
    <2> QED
      BY <1>4, <2>3 DEF Agree, TableAgrees, PacketsAgree, WriteToTFTP, engine, table
  <1> QED
    BY <1>2, <1>3, <1>4 DEF IInv, WriteToTFTP

LEMMA RestartIInv == ASSUME IInv, Restart PROVE IInv'
  <1>1. TypeOK'
    BY DisturbTyped DEF IInv, TypeOK, Restart, engine, firmware
  <1> QED
    BY <1>1 DEF IInv, Leased, Agree, TableAgrees, PacketsAgree, NodesAgree, Restart, engine, firmware

-----------------------------------------------------------------------------
(* The firmware and the network *)

LEMMA AskIInv ==
    ASSUME IInv, NEW n \in Nodes, NEW type \in {"discover", "request"},
           NEW ip \in IPs \cup {Nothing}, Ask(n, type, ip), left' \in Nat
    PROVE  IInv'
  <1>1. wire' \subseteq Packet /\ \A p \in wire' : p.type = "ack" => p \in wire
    BY DEF Ask, Packet, IInv, TypeOK
  <1>2. /\ boot' \in [Nodes -> Boot] /\ lease' \in [Nodes -> IPs \cup {Nothing}]
        /\ \A m \in Nodes : boot'[m] \in {"bound", "loaded"} => boot'[m] = boot[m] /\ lease'[m] = lease[m]
    BY DEF Ask, IInv, TypeOK, Boot
  <1>3. TypeOK'
    BY <1>1, <1>2 DEF IInv, TypeOK, Ask, engine, table
  <1>4. Leased'
    BY <1>1, <1>2 DEF IInv, Leased
  <1>5. ASSUME Agree PROVE Agree'
    BY <1>1, <1>2, <1>5 DEF Agree, TableAgrees, PacketsAgree, NodesAgree, Ask, engine, table
  <1> QED
    BY <1>3, <1>4, <1>5 DEF IInv, Ask

LEMMA StartBootIInv == ASSUME IInv, NEW n \in Nodes, StartBoot(n) PROVE IInv'
  <1>1. left' \in Nat
    BY DEF StartBoot, IInv, TypeOK
  <1>2. CASE Ask(n, "discover", Nothing)
    BY <1>1, <1>2, AskIInv
  <1>3. CASE \E ip \in IPs : Ask(n, "request", ip)
    BY <1>1, <1>3, AskIInv
  <1> QED
    BY <1>2, <1>3 DEF StartBoot

LEMMA RetransmitIInv == ASSUME IInv, NEW n \in Nodes, Retransmit(n) PROVE IInv'
  <1>1. left' \in Nat
    BY DisturbTyped DEF Retransmit, IInv, TypeOK
  <1> QED
    BY <1>1, AskIInv DEF Retransmit

\* The lease of a node that is bound is the address that was acknowledged.
LEMMA AnswerIInv == ASSUME IInv, NEW n \in Nodes, NEW p \in wire, TakeAnswer(n, p) PROVE IInv'
  <1>1. p \in Packet /\ p.node = n
    BY DEF IInv, TypeOK, TakeAnswer
  <1>2. UNCHANGED <<engine, mishaps, pxe, run, table, inbox, pending, identity, left>>
    BY DEF TakeAnswer
  <1>3. /\ wire' \subseteq Packet /\ \A q \in wire' : q.type = "ack" => q \in wire
        /\ boot' \in [Nodes -> Boot] /\ lease' \in [Nodes -> IPs \cup {Nothing}]
        /\ \A m \in Nodes : boot'[m] \in {"bound", "loaded"} =>
              \/ boot'[m] = boot[m] /\ lease'[m] = lease[m]
              \/ m = n /\ boot'[m] = "bound" /\ p.type = "ack" /\ lease'[m] = p.ip
    <2>1. CASE p.type = "offer" /\ boot[n] = "discovering"
      BY <1>1, <2>1 DEF TakeAnswer, IInv, TypeOK, Packet, Boot
    <2>2. CASE p.type = "ack" /\ boot[n] = "requesting"
      BY <1>1, <2>2 DEF TakeAnswer, IInv, TypeOK, Packet, Boot
    <2>3. CASE p.type = "nak" /\ boot[n] = "requesting"
      BY <1>1, <2>3 DEF TakeAnswer, IInv, TypeOK, Packet, Boot
    <2>4. CASE /\ ~ (p.type = "offer" /\ boot[n] = "discovering")
               /\ ~ (p.type = "ack" /\ boot[n] = "requesting")
               /\ ~ (p.type = "nak" /\ boot[n] = "requesting")
      BY <2>4 DEF TakeAnswer, IInv, TypeOK
    <2> QED
      BY <2>1, <2>2, <2>3, <2>4
  <1>4. TypeOK'
    BY <1>2, <1>3 DEF IInv, TypeOK, engine, table
  <1>5. Leased'
    BY <1>3 DEF IInv, Leased
  <1>6. ASSUME Agree PROVE Agree'
    BY <1>1, <1>2, <1>3, <1>6 DEF Agree, TableAgrees, PacketsAgree, NodesAgree, engine, table
  <1> QED
    BY <1>2, <1>4, <1>5, <1>6 DEF IInv

LEMMA LoseIInv == ASSUME IInv, NEW p \in wire, Lose(p) PROVE IInv'
  <1>1. TypeOK'
    BY DisturbTyped DEF IInv, TypeOK, Lose, engine, table, firmware
  <1> QED
    BY <1>1 DEF IInv, Leased, Agree, TableAgrees, PacketsAgree, NodesAgree, Lose, engine, table,
                firmware

LEMMA RepeatIInv == ASSUME IInv, NEW n \in Nodes, Repeat(n) PROVE IInv'
  <1>1. lease[n] \in IPs
    BY DEF Repeat, IInv, TypeOK
  <1>2. wire' \subseteq Packet /\ \A p \in wire' : p.type = "ack" => p \in wire
    BY <1>1 DEF Repeat, Packet, IInv, TypeOK
  <1>3. TypeOK'
    BY <1>2, DisturbTyped DEF IInv, TypeOK, Repeat, engine, table, firmware
  <1> QED
    BY <1>2, <1>3 DEF IInv, Leased, Agree, TableAgrees, PacketsAgree, NodesAgree, Repeat, engine,
                      table, firmware

-----------------------------------------------------------------------------
(* The state engine *)

LEMMA TellTyped ==
    ASSUME TypeOK, NEW n \in Nodes, NEW type \in {"MUTATE", "INTERRUPT"}, Tell(type, n)
    PROVE  /\ inbox' \subseteq MutationEvent
           /\ Agree => \A e \in inbox' : e.ip = Address[e.node]
  BY DEF Tell, TypeOK, MutationEvent, Agree, PacketsAgree

LEMMA NONEtoWAITIInv == ASSUME IInv, NEW n \in Nodes, RequestNONEtoWAIT(n) PROVE IInv'
  <1>1. TypeOK'
    BY TellTyped DEF IInv, TypeOK, RequestNONEtoWAIT, Mutation, table, firmware
  <1> QED
    BY <1>1, TellTyped DEF IInv, Leased, Agree, TableAgrees, PacketsAgree, NodesAgree,
                           RequestNONEtoWAIT, table, firmware

LEMMA WAITtoINITIInv == ASSUME IInv, NEW n \in Nodes, RequestWAITtoINIT(n) PROVE IInv'
  <1>1. TypeOK'
    BY DEF IInv, TypeOK, RequestWAITtoINIT, Mutation, table, firmware
  <1> QED
    BY <1>1 DEF IInv, Leased, Agree, TableAgrees, PacketsAgree, NodesAgree, RequestWAITtoINIT,
                table, firmware

LEMMA TimeoutIInv == ASSUME IInv, NEW n \in Nodes, Timeout(n) PROVE IInv'
  <1>1. left' \in Nat
    BY DisturbTyped DEF Timeout, IInv, TypeOK
  <1>2. TypeOK'
    BY <1>1, TellTyped DEF IInv, TypeOK, Timeout, Mutation, PhysState, table, firmware
  <1> QED
    BY <1>2, TellTyped DEF IInv, Leased, Agree, TableAgrees, PacketsAgree, NodesAgree, Timeout,
                           table, firmware

LEMMA PowerCycleIInv == ASSUME IInv, NEW n \in Nodes, PowerCycle(n) PROVE IInv'
  <1>1. mishaps' \in {mishaps, mishaps \cup {"late"}} /\ left' \in Nat
    BY DisturbTyped DEF PowerCycle, Late, InTime, IInv, TypeOK
  <1>2. UNCHANGED <<addr, mut, table, inbox, pending>> /\ wire' \subseteq wire
    BY DEF PowerCycle
  <1>3. \A m \in Nodes : boot'[m] \in {"bound", "loaded"} =>
            boot'[m] = boot[m] /\ lease'[m] = lease[m] /\ identity'[m] = identity[m]
    BY DEF PowerCycle, IInv, TypeOK
  <1>4. TypeOK'
    BY <1>1, <1>2 DEF IInv, TypeOK, PowerCycle, PhysState, PxeState, RunState, Boot, table
  <1>5. Leased'
    BY <1>2, <1>3 DEF IInv, Leased
  <1>6. ASSUME Agree PROVE Agree'
    BY <1>2, <1>3, <1>6 DEF Agree, TableAgrees, PacketsAgree, NodesAgree, table
  <1> QED
    BY <1>1, <1>4, <1>5, <1>6 DEF IInv

\* From here on the addresses need not agree any more.
LEMMA ReaddressIInv == ASSUME IInv, NEW n \in Nodes, Readdress(n) PROVE IInv'
  <1>1. addr' \in [Nodes -> IPs] /\ left' \in Nat
    BY DisturbTyped DEF Readdress, IInv, TypeOK
  <1>2. TypeOK'
    BY <1>1 DEF IInv, TypeOK, Readdress, table, firmware
  <1> QED
    BY <1>2 DEF IInv, Leased, Readdress, firmware

-----------------------------------------------------------------------------
(* The invariant *)

LEMMA StepIInv == IInv /\ [Next]_vars => IInv'
  <1> SUFFICES ASSUME IInv, [Next]_vars PROVE IInv'
    OBVIOUS
  <1>1. CASE Server
    BY <1>1, MUTATEIInv, INTERRUPTIInv, SendIInv, DHCPIInv DEF Server
  <1>2. CASE Restart
    BY <1>2, RestartIInv
  <1>3. ASSUME NEW n \in Nodes, Engine(n) PROVE IInv'
    BY <1>3, NONEtoWAITIInv, WAITtoINITIInv, TimeoutIInv, PowerCycleIInv, ReaddressIInv DEF Engine
  <1>4. ASSUME NEW n \in Nodes, Firmware(n) PROVE IInv'
    BY <1>4, StartBootIInv, RetransmitIInv, TFTPIInv, RepeatIInv, AnswerIInv DEF Firmware
  <1>5. ASSUME NEW p \in wire, Lose(p) PROVE IInv'
    BY <1>5, LoseIInv
  <1>6. CASE UNCHANGED vars
    BY <1>6 DEF vars, engine, table, firmware, IInv, TypeOK, Leased, Agree, TableAgrees,
                PacketsAgree, NodesAgree
  <1> QED
    BY <1>1, <1>2, <1>3, <1>4, <1>5, <1>6 DEF Next

LEMMA Invariance == Spec => []IInv
  BY InitIInv, StepIInv, PTL DEF Spec

\* The maps, the packets and the states of the nodes keep their types.
THEOREM Typing == Spec => []TypeOK
  <1>1. IInv => TypeOK
    BY DEF IInv
  <1> QED
    BY Invariance, <1>1, PTL

\* As long as no address is changed, no node is ever told to be another one.
THEOREM NeverMistaken == Spec => []BootedAsItself
  <1>1. IInv => BootedAsItself
    BY DEF IInv, Agree, NodesAgree, BootedAsItself
  <1> QED
    BY Invariance, <1>1, PTL

=============================================================================
