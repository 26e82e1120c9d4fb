------------------------- MODULE PxeStranding_proofs -------------------------
(***************************************************************************)
(* No node of PxeServer is stranded unless the process is restarted, an     *)
(* address is changed or a goroutine is late: whatever is lost or repeated  *)
(* and whenever a mutation times out, a node that has left the PXE state    *)
(* NONE stays registered until an interrupt is on its way, and a node that  *)
(* took an acknowledgement is known, or about to be known, to be booting.   *)
(***************************************************************************)
EXTENDS PxeServer_proofs

Asked(n)       == [type |-> "MUTATE", node |-> n, ip |-> Address[n]] \in inbox
Interrupted(n) == [type |-> "INTERRUPT", node |-> n, ip |-> Address[n]] \in inbox
Has(n, v)      == [node |-> n, value |-> v] \in pending
Registered(n)  == byMAC[n] # Nothing
Acked(n)       == \/ boot[n] \in {"bound", "loaded"}
                  \/ \E p \in wire : p.type = "ack" /\ p.node = n

\* The two maps hold the same nodes.
Paired == \A n \in Nodes : byMAC[n] = Address[n] <=> byIP[Address[n]] = n

\* The mutation NONEtoWAIT is still to be done, and nothing that comes after it is.
Waits(n) ==
    Asked(n) \/ Has(n, "WAIT") =>
        /\ ~ (Asked(n) /\ Has(n, "WAIT"))
        /\ ~ Acked(n) /\ ~ Has(n, "INIT") /\ ~ Has(n, "NODE_INIT")
        /\ pxe[n] = "NONE" /\ run[n] = "UNKNOWN"

\* What was acknowledged is discovered.
Discovers(n) ==
    /\ Has(n, "NODE_INIT") \/ run[n] = "INIT" => pxe[n] = "INIT"
    /\ Acked(n) => \/ Has(n, "INIT")
                   \/ pxe[n] = "INIT" /\ (Has(n, "NODE_INIT") \/ run[n] = "INIT")

\* A node that hangs is about to leave the table.
Hangs(n) ==
    phys[n] = "PHYS_HANG" =>
        mut[n] = "none" /\ (Asked(n) \/ Registered(n) => Interrupted(n))

\* A node that is on is registered from when its mutation is handled.
Runs(n) ==
    phys[n] = "POWER_ON" =>
        /\ ~ Interrupted(n)
        /\ pxe[n] # "NONE" => Registered(n)
        /\ pxe[n] = "NONE" => ~ Has(n, "INIT")
        /\ pxe[n] = "NONE" /\ mut[n] = "none" =>
              ~ Asked(n) /\ ~ Registered(n) /\ ~ Has(n, "WAIT")
        /\ pxe[n] = "NONE" /\ mut[n] # "none" =>
              (Asked(n) \/ Registered(n)) /\ ~ (Asked(n) /\ Registered(n))
              /\ (Registered(n) => Has(n, "WAIT"))

NodeInv(n) == Waits(n) /\ Discovers(n) /\ Hangs(n) /\ Runs(n)

SInv == mishaps = {} => Paired /\ \A n \in Nodes : NodeInv(n)

LEMMA InitSInv == Init => SInv
  BY AddressAssumption, NothingAssumption
  DEF Init, SInv, Paired, NodeInv, Waits, Discovers, Hangs, Runs, Asked, Interrupted, Has,
      Registered, Acked

-----------------------------------------------------------------------------
(* What a step needs, and what it leaves alone *)

LEMMA Inboxed ==
    ASSUME IInv, mishaps = {}, NEW e \in inbox
    PROVE  /\ e.node \in Nodes /\ e.ip = Address[e.node]
           /\ e = [type |-> e.type, node |-> e.node, ip |-> Address[e.node]]
           /\ e.type = "MUTATE" => Asked(e.node)
           /\ e.type = "INTERRUPT" => Interrupted(e.node)
  <1>1. e \in MutationEvent /\ e.ip = Address[e.node]
    BY DEF IInv, TypeOK, Agree, PacketsAgree
  <1>2. e.node \in Nodes /\ e = [type |-> e.type, node |-> e.node, ip |-> Address[e.node]]
    BY <1>1 DEF MutationEvent
  <1> QED
    BY <1>1, <1>2 DEF Asked, Interrupted

\* A node keeps its part of the invariant when the step is about something else.
LEMMA Frame ==
    ASSUME NEW n \in Nodes, NodeInv(n),
           phys'[n] = phys[n], pxe'[n] = pxe[n], run'[n] = run[n], mut'[n] = mut[n],
           byMAC'[n] = byMAC[n],
           Asked(n)' <=> Asked(n), Interrupted(n)' <=> Interrupted(n),
           \A v \in {"WAIT", "INIT", "NODE_INIT"} : Has(n, v)' <=> Has(n, v),
           Acked(n)' => Acked(n)
    PROVE  NodeInv(n)'
  <1>1. Registered(n)' <=> Registered(n)
    BY DEF Registered
  <1>2. Waits(n)'
    BY DEF NodeInv, Waits
  <1>3. Discovers(n)'
    BY DEF NodeInv, Discovers
  <1>4. Hangs(n)'
    BY <1>1 DEF NodeInv, Hangs
  <1>5. Runs(n)'
    BY <1>1 DEF NodeInv, Runs
  <1> QED
    BY <1>2, <1>3, <1>4, <1>5 DEF NodeInv

\* A step of the firmware or the network that makes no acknowledgement.
LEMMA QuietStep ==
    ASSUME IInv, SInv, mishaps = {}, UNCHANGED <<engine, pxe, run, table, inbox, pending>>,
           \A n \in Nodes : Acked(n)' => Acked(n)
    PROVE  Paired' /\ \A n \in Nodes : NodeInv(n)'
  <1>1. Paired'
    BY DEF SInv, Paired, table
  <1>2. ASSUME NEW n \in Nodes PROVE NodeInv(n)'
    <2>1. NodeInv(n)
      BY DEF SInv
    <2>2. /\ Asked(n)' <=> Asked(n)
          /\ Interrupted(n)' <=> Interrupted(n)
          /\ \A v \in {"WAIT", "INIT", "NODE_INIT"} : Has(n, v)' <=> Has(n, v)
      BY DEF Asked, Interrupted, Has
    <2> QED
      BY <2>1, <2>2, Frame DEF engine, table
  <1> QED
    BY <1>1, <1>2

-----------------------------------------------------------------------------
(* The module *)

LEMMA MUTATESInv ==
    ASSUME IInv, SInv, mishaps = {}, NEW e \in inbox, HandleMUTATE(e)
    PROVE  Paired' /\ \A n \in Nodes : NodeInv(n)'
  <1> DEFINE o == e.node
  <1>1. o \in Nodes /\ e.ip = Address[o] /\ e = [type |-> "MUTATE", node |-> o, ip |-> Address[o]]
        /\ Asked(o)
    BY Inboxed DEF HandleMUTATE
  <1>2. /\ byIP' = [byIP EXCEPT ![Address[o]] = o] /\ byMAC' = [byMAC EXCEPT ![o] = Address[o]]
        /\ inbox' = inbox \ {e} /\ pending' = pending \cup {[node |-> o, value |-> "WAIT"]}
        /\ UNCHANGED <<phys, mut, pxe, run, wire, boot>>
    BY <1>1 DEF HandleMUTATE, NodeCreate, engine, firmware
  <1>3. byIP \in [IPs -> Nodes \cup {Nothing}] /\ byMAC \in [Nodes -> IPs \cup {Nothing}]
        /\ \A m \in Nodes : Address[m] \in IPs /\ (Address[m] = Address[o] => m = o)
    BY <1>1, AddressAssumption DEF IInv, TypeOK
  <1>4. Paired'
    BY <1>1, <1>2, <1>3 DEF SInv, Paired
  <1>5. \A m \in Nodes : Acked(m)' <=> Acked(m)
    BY <1>2 DEF Acked
  <1>6. ASSUME NEW m \in Nodes, m # o PROVE NodeInv(m)'
    <2>1. /\ Asked(m)' <=> Asked(m)
          /\ Interrupted(m)' <=> Interrupted(m)
          /\ \A v \in {"WAIT", "INIT", "NODE_INIT"} : Has(m, v)' <=> Has(m, v)
          /\ byMAC'[m] = byMAC[m]
      BY <1>1, <1>2, <1>3, <1>6 DEF Asked, Interrupted, Has
    <2> QED
      BY <1>2, <1>5, <2>1, Frame DEF SInv
  <1>7. NodeInv(o)'
    <2>1. /\ ~ Asked(o)'
          /\ Interrupted(o)' <=> Interrupted(o)
          /\ Has(o, "WAIT")'
          /\ Has(o, "INIT")' <=> Has(o, "INIT")
          /\ Has(o, "NODE_INIT")' <=> Has(o, "NODE_INIT")
      BY <1>1, <1>2 DEF Asked, Interrupted, Has
    <2>2. Registered(o)'
      BY <1>1, <1>2, <1>3, NothingAssumption DEF Registered
    <2> QED
      BY <1>1, <1>2, <1>5, <2>1, <2>2 DEF SInv, NodeInv, Waits, Discovers, Hangs, Runs
  <1> QED
    BY <1>4, <1>6, <1>7

\* An interrupt is only outstanding for a node that hangs; in time, it comes after the
\* mutation it interrupts.
LEMMA INTERRUPTSInv ==
    ASSUME IInv, SInv, mishaps = {}, mishaps' = {}, NEW e \in inbox, HandleINTERRUPT(e)
    PROVE  Paired' /\ \A n \in Nodes : NodeInv(n)'
  <1> DEFINE o == e.node
  <1>1. o \in Nodes /\ e.ip = Address[o] /\ e = [type |-> "INTERRUPT", node |-> o, ip |-> Address[o]]
        /\ Interrupted(o)
    BY Inboxed DEF HandleINTERRUPT
  <1>2. /\ NodeDelete(Address[o]) /\ inbox' = inbox \ {e}
        /\ UNCHANGED <<phys, mut, pxe, run, pending, wire, boot>>
    BY <1>1 DEF HandleINTERRUPT, engine, firmware
  <1>3. ~ Asked(o)
    BY <1>1 DEF HandleINTERRUPT, Late, Asked
  <1>4. byIP \in [IPs -> Nodes \cup {Nothing}] /\ byMAC \in [Nodes -> IPs \cup {Nothing}]
        /\ \A m \in Nodes : Address[m] \in IPs /\ (Address[m] = Address[o] => m = o)
    BY <1>1, AddressAssumption DEF IInv, TypeOK
  <1>5. Paired /\ TableAgrees /\ \A m \in Nodes : NodeInv(m)
    BY DEF SInv, IInv, Agree
  <1>6. byIP[Address[o]] \in {Nothing, o}
    BY <1>1, <1>4, <1>5 DEF TableAgrees
  <1>7. /\ byMAC'[o] = Nothing /\ byIP'[Address[o]] = Nothing
        /\ \A m \in Nodes \ {o} : byMAC'[m] = byMAC[m] /\ byIP'[Address[m]] = byIP[Address[m]]
    <2>1. CASE byIP[Address[o]] = Nothing
      <3>1. byMAC[o] = Nothing
        BY <1>1, <1>4, <1>5, <2>1, NothingAssumption DEF Paired, TableAgrees
      <3> QED
        BY <1>2, <2>1, <3>1 DEF NodeDelete, table
    <2>2. CASE byIP[Address[o]] = o
      BY <1>1, <1>2, <1>4, <2>2, NothingAssumption DEF NodeDelete
    <2> QED
      BY <1>6, <2>1, <2>2
  <1>8. Paired'
    BY <1>1, <1>4, <1>5, <1>7, NothingAssumption DEF Paired
  <1>9. \A m \in Nodes : Acked(m)' <=> Acked(m)
    BY <1>2 DEF Acked
  <1>10. ASSUME NEW m \in Nodes, m # o PROVE NodeInv(m)'
    <2>1. /\ Asked(m)' <=> Asked(m)
          /\ Interrupted(m)' <=> Interrupted(m)
          /\ \A v \in {"WAIT", "INIT", "NODE_INIT"} : Has(m, v)' <=> Has(m, v)
      BY <1>1, <1>2, <1>10 DEF Asked, Interrupted, Has
    <2> QED
      BY <1>2, <1>5, <1>7, <1>9, <1>10, <2>1, Frame
  <1>11. NodeInv(o)'
    <2>1. /\ ~ Asked(o)'
          /\ \A v \in {"WAIT", "INIT", "NODE_INIT"} : Has(o, v)' <=> Has(o, v)
          /\ ~ Registered(o)'
      BY <1>2, <1>3, <1>7 DEF Asked, Has, Registered
    <2>2. phys[o] # "POWER_ON"
      BY <1>1, <1>5 DEF NodeInv, Runs
    <2> QED
      BY <1>1, <1>2, <1>3, <1>5, <1>9, <2>1, <2>2 DEF NodeInv, Waits, Discovers, Hangs, Runs
  <1> QED
    BY <1>8, <1>10, <1>11

\* Discoveries are sent in the order in which the node went through the states.
LEMMA SendSInv ==
    ASSUME IInv, SInv, mishaps = {}, NEW d \in pending, Send(d)
    PROVE  Paired' /\ \A n \in Nodes : NodeInv(n)'
  <1> DEFINE o == d.node
  <1>1. /\ o \in Nodes /\ d = [node |-> o, value |-> d.value]
        /\ d.value \in {"WAIT", "INIT", "NODE_INIT"} /\ Has(o, d.value)
    <2>1. d \in Discovery
      BY DEF IInv, TypeOK
    <2>2. o \in Nodes /\ d.value \in {"WAIT", "INIT", "NODE_INIT"} /\ d = [node |-> o, value |-> d.value]
      BY <2>1 DEF Discovery
    <2> QED
      BY <2>2 DEF Has
  <1>2. UNCHANGED <<phys, byIP, byMAC, inbox, wire, boot>>
    BY DEF Send, table, firmware
  <1>3. pxe \in [Nodes -> PxeState] /\ run \in [Nodes -> RunState] /\ mut \in [Nodes -> Mutation]
    BY DEF IInv, TypeOK
  <1>4. Paired'
    BY <1>2 DEF SInv, Paired
  <1>5. \A m \in Nodes : /\ Acked(m)' <=> Acked(m)
                         /\ Asked(m)' <=> Asked(m)
                         /\ Interrupted(m)' <=> Interrupted(m)
                         /\ Registered(m)' <=> Registered(m)
    BY <1>2 DEF Acked, Asked, Interrupted, Registered
  <1>6. ASSUME NEW m \in Nodes, m # o PROVE NodeInv(m)'
    <2>1. \A v \in {"WAIT", "INIT", "NODE_INIT"} : Has(m, v)' <=> Has(m, v)
      BY <1>1, <1>6 DEF Send, Has
    <2>2. pxe'[m] = pxe[m] /\ run'[m] = run[m] /\ mut'[m] = mut[m]
      BY <1>3, <1>6 DEF Send, Discover
    <2> QED
      BY <1>2, <1>5, <2>1, <2>2, Frame DEF SInv
  <1>7. NodeInv(o)
    BY <1>1 DEF SInv
  <1>8. CASE d.value = "WAIT"
    <2>1. /\ pxe'[o] = "WAIT" /\ run'[o] = run[o] /\ mut'[o] \in {"none", mut[o]}
          /\ ~ Has(o, "WAIT")'
          /\ Has(o, "INIT")' <=> Has(o, "INIT")
          /\ Has(o, "NODE_INIT")' <=> Has(o, "NODE_INIT")
      BY <1>1, <1>3, <1>8 DEF Send, Discover, Has
    <2>2. /\ Has(o, "WAIT") /\ run[o] = "UNKNOWN" /\ pxe[o] = "NONE"
          /\ ~ Asked(o) /\ ~ Acked(o) /\ ~ Has(o, "INIT") /\ ~ Has(o, "NODE_INIT")
      BY <1>1, <1>7, <1>8 DEF NodeInv, Waits
    <2>3. phys[o] = "POWER_ON" => Registered(o)
      BY <1>7, <2>2 DEF NodeInv, Runs
    <2>4. phys[o] = "PHYS_HANG" => mut'[o] = "none"
      BY <1>7, <2>1 DEF NodeInv, Hangs
    <2>5. Waits(o)'
      BY <1>1, <1>5, <2>1, <2>2 DEF Waits
    <2>6. Discovers(o)'
      BY <1>1, <1>5, <2>1, <2>2 DEF Discovers
    <2>7. Hangs(o)'
      BY <1>1, <1>2, <1>5, <1>7, <2>4 DEF Hangs, NodeInv
    <2>8. Runs(o)'
      BY <1>1, <1>2, <1>5, <1>7, <2>1, <2>3 DEF Runs, NodeInv
    <2> QED
      BY <1>4, <1>6, <2>5, <2>6, <2>7, <2>8 DEF NodeInv
  <1>9. CASE d.value = "INIT"
    <2>1. /\ pxe'[o] = "INIT" /\ run'[o] = run[o] /\ mut'[o] \in {"none", mut[o]}
          /\ ~ Has(o, "INIT")' /\ Has(o, "NODE_INIT")'
          /\ Has(o, "WAIT")' <=> Has(o, "WAIT")
      BY <1>1, <1>3, <1>9 DEF Send, Discover, Has
    <2>2. Has(o, "INIT") /\ ~ Has(o, "WAIT") /\ ~ Asked(o)
      BY <1>1, <1>7, <1>9 DEF NodeInv, Waits
    <2>3. phys[o] = "POWER_ON" => Registered(o)
      BY <1>7, <2>2 DEF NodeInv, Runs
    <2>4. phys[o] = "PHYS_HANG" => mut'[o] = "none"
      BY <1>7, <2>1 DEF NodeInv, Hangs
    <2>5. Waits(o)'
      BY <1>1, <1>5, <2>1, <2>2 DEF Waits
    <2>6. Discovers(o)'
      BY <1>1, <1>5, <2>1, <2>2 DEF Discovers
    <2>7. Hangs(o)'
      BY <1>1, <1>2, <1>5, <1>7, <2>4 DEF Hangs, NodeInv
    <2>8. Runs(o)'
      BY <1>1, <1>2, <1>5, <1>7, <2>1, <2>3 DEF Runs, NodeInv
    <2> QED
      BY <1>4, <1>6, <2>5, <2>6, <2>7, <2>8 DEF NodeInv
  <1>10. CASE d.value = "NODE_INIT"
    <2>1. /\ pxe'[o] = pxe[o] /\ run'[o] = "INIT" /\ mut'[o] \in {"none", mut[o]}
          /\ ~ Has(o, "NODE_INIT")'
          /\ Has(o, "INIT")' <=> Has(o, "INIT")
          /\ Has(o, "WAIT")' <=> Has(o, "WAIT")
      BY <1>1, <1>3, <1>10 DEF Send, Discover, Has
    <2>2. Has(o, "NODE_INIT") /\ ~ Has(o, "WAIT") /\ ~ Asked(o) /\ pxe[o] = "INIT"
      BY <1>1, <1>7, <1>10 DEF NodeInv, Waits, Discovers
    <2>3. phys[o] = "POWER_ON" => Registered(o)
      BY <1>7, <2>2 DEF NodeInv, Runs
    <2>4. phys[o] = "PHYS_HANG" => mut'[o] = "none"
      BY <1>7, <2>1 DEF NodeInv, Hangs
    <2>5. Waits(o)'
      BY <1>1, <1>5, <2>1, <2>2 DEF Waits
    <2>6. Discovers(o)'
      BY <1>1, <1>5, <1>7, <2>1, <2>2 DEF Discovers, NodeInv
    <2>7. Hangs(o)'
      BY <1>1, <1>2, <1>5, <1>7, <2>4 DEF Hangs, NodeInv
    <2>8. Runs(o)'
      BY <1>1, <1>2, <1>5, <1>7, <2>1, <2>2, <2>3 DEF Runs, NodeInv
    <2> QED
      BY <1>4, <1>6, <2>5, <2>6, <2>7, <2>8 DEF NodeInv
  <1> QED
    BY <1>1, <1>8, <1>9, <1>10

\* In time, only a node that is on and has left NONE is acknowledged.
LEMMA AckSInv ==
    ASSUME IInv, SInv, mishaps = {}, mishaps' = {}, NEW p \in wire, Acknowledge(p),
           UNCHANGED <<engine, pxe, run, table, inbox, firmware>>
    PROVE  Paired' /\ \A n \in Nodes : NodeInv(n)'
  <1> DEFINE o == p.node
  <1>1. o \in Nodes
    BY DEF IInv, TypeOK, Packet
  <1>2. /\ Registered(o) /\ wire' = Reply(p, "ack", p.ip)
        /\ pending' = pending \cup {[node |-> o, value |-> "INIT"]}
        /\ ~ Mutating(o)
    BY DEF Acknowledge, AcknowledgeAny, Late, Registered
  <1>3. ~ Asked(o) /\ ~ Interrupted(o) /\ ~ Has(o, "WAIT")
    BY <1>2 DEF Mutating, Asked, Interrupted, Has
  <1>4. phys[o] = "POWER_ON" /\ pxe[o] # "NONE"
    <2>1. phys[o] \in PhysState
      BY <1>1 DEF IInv, TypeOK
    <2> QED
      BY <1>1, <1>2, <1>3, <2>1 DEF PhysState, SInv, NodeInv, Hangs, Runs
  <1>5. Paired'
    BY DEF SInv, Paired, table
  <1>6. ASSUME NEW m \in Nodes PROVE NodeInv(m)'
    <2>1. /\ Asked(m)' <=> Asked(m)
          /\ Interrupted(m)' <=> Interrupted(m)
          /\ Registered(m)' <=> Registered(m)
          /\ phys'[m] = phys[m] /\ mut'[m] = mut[m] /\ pxe'[m] = pxe[m] /\ run'[m] = run[m]
          /\ byMAC'[m] = byMAC[m]
      BY DEF Asked, Interrupted, Registered, engine, table
    <2>2. NodeInv(m)
      BY DEF SInv
    <2>3. CASE m # o
      <3>1. /\ Acked(m)' <=> Acked(m)
            /\ \A v \in {"WAIT", "INIT", "NODE_INIT"} : Has(m, v)' <=> Has(m, v)
        BY <1>2, <2>3 DEF Acked, Has, Reply, firmware
      <3> QED
        BY <2>1, <2>2, <3>1, Frame
    <2>4. CASE m = o
      <3>1. /\ Has(m, "INIT")'
            /\ Has(m, "WAIT")' <=> Has(m, "WAIT")
            /\ Has(m, "NODE_INIT")' <=> Has(m, "NODE_INIT")
        BY <1>2, <2>4 DEF Has
      <3> QED
        BY <1>3, <1>4, <2>1, <2>2, <2>4, <3>1 DEF NodeInv, Waits, Discovers, Hangs, Runs
    <2> QED
      BY <2>3, <2>4
  <1> QED
    BY <1>5, <1>6

LEMMA DHCPSInv ==
    ASSUME IInv, SInv, mishaps = {}, mishaps' = {}, NEW p \in wire, HandleDHCPRequest(p)
    PROVE  Paired' /\ \A n \in Nodes : NodeInv(n)'
  <1>1. UNCHANGED <<engine, pxe, run, table, inbox, firmware>>
    BY DEF HandleDHCPRequest
  <1>2. CASE Acknowledge(p)
    BY <1>1, <1>2, AckSInv
  <1>3. CASE IgnorePacket(p) \/ Offer(p) \/ Refuse(p)
    <2>1. pending' = pending
      BY <1>3 DEF IgnorePacket, Offer, Refuse
    <2>2. \A q \in wire' : q.type = "ack" => q \in wire
      BY <1>3 DEF IgnorePacket, Offer, Refuse, Reply
    <2> QED
      BY <1>1, <2>1, <2>2, QuietStep DEF Acked, firmware
  <1> QED
    BY <1>2, <1>3 DEF HandleDHCPRequest

-----------------------------------------------------------------------------
(* The firmware and the network *)

LEMMA FirmwareSInv ==
    ASSUME IInv, SInv, mishaps = {}, NEW n \in Nodes, Firmware(n)
    PROVE  Paired' /\ \A m \in Nodes : NodeInv(m)'
  <1>1. UNCHANGED <<engine, pxe, run, table, inbox, pending>>
    BY DEF Firmware, StartBoot, Retransmit, Ask, WriteToTFTP, Repeat, TakeAnswer
  <1>2. /\ boot \in [Nodes -> Boot]
    BY DEF IInv, TypeOK
  <1>3. ASSUME NEW type \in {"discover", "request"}, NEW ip, Ask(n, type, ip)
        PROVE  \A m \in Nodes : Acked(m)' => Acked(m)
    BY <1>2, <1>3 DEF Ask, Acked
  <1>4. CASE StartBoot(n) \/ Retransmit(n)
    BY <1>1, <1>3, <1>4, QuietStep DEF StartBoot, Retransmit
  <1>5. CASE WriteToTFTP(n)
    BY <1>1, <1>2, <1>5, QuietStep DEF WriteToTFTP, Acked
  <1>6. CASE Repeat(n)
    BY <1>1, <1>6, QuietStep DEF Repeat, Acked, firmware
  <1>7. ASSUME NEW p \in wire, TakeAnswer(n, p) PROVE \A m \in Nodes : Acked(m)' => Acked(m)
    <2>1. \A q \in wire' : q.type = "ack" => q \in wire
      BY <1>7 DEF TakeAnswer
    <2>2. \A m \in Nodes : boot'[m] \in {"bound", "loaded"} =>
             boot'[m] = boot[m] \/ (m = n /\ p.type = "ack" /\ p.node = n)
      BY <1>2, <1>7 DEF TakeAnswer
    <2> QED
      BY <2>1, <2>2 DEF Acked
  <1>8. CASE \E p \in wire : TakeAnswer(n, p)
    BY <1>1, <1>7, <1>8, QuietStep
  <1> QED
    BY <1>4, <1>5, <1>6, <1>8 DEF Firmware

LEMMA LoseSInv ==
    ASSUME IInv, SInv, mishaps = {}, NEW p \in wire, Lose(p)
    PROVE  Paired' /\ \A n \in Nodes : NodeInv(n)'
  BY QuietStep DEF Lose, Acked, firmware

-----------------------------------------------------------------------------
(* The state engine *)

\* A step of the engine is about one node.
LEMMA EngineFrame ==
    ASSUME IInv, SInv, mishaps = {}, NEW n \in Nodes, UNCHANGED <<addr, table, pending>>,
           \A m \in Nodes \ {n} :
               /\ phys'[m] = phys[m] /\ pxe'[m] = pxe[m] /\ run'[m] = run[m]
               /\ mut'[m] = mut[m] /\ boot'[m] = boot[m],
           \A e \in inbox' \ inbox : e.node = n, inbox \subseteq inbox', wire' \subseteq wire,
           NodeInv(n)'
    PROVE  Paired' /\ \A m \in Nodes : NodeInv(m)'
  <1>1. Paired'
    BY DEF SInv, Paired, table
  <1>2. ASSUME NEW m \in Nodes \ {n} PROVE NodeInv(m)'
    <2>1. /\ Asked(m)' <=> Asked(m)
          /\ Interrupted(m)' <=> Interrupted(m)
          /\ \A v \in {"WAIT", "INIT", "NODE_INIT"} : Has(m, v)' <=> Has(m, v)
          /\ byMAC'[m] = byMAC[m]
          /\ Acked(m)' => Acked(m)
      BY <1>2 DEF Asked, Interrupted, Has, Acked, table
    <2> QED
      BY <1>2, <2>1, Frame DEF SInv
  <1> QED
    BY <1>1, <1>2

LEMMA TellSInv ==
    ASSUME IInv, mishaps = {}, NEW n \in Nodes, NEW type \in {"MUTATE", "INTERRUPT"}, Tell(type, n)
    PROVE  /\ inbox \subseteq inbox' /\ \A e \in inbox' \ inbox : e.node = n
           /\ Asked(n)' <=> (Asked(n) \/ type = "MUTATE")
           /\ Interrupted(n)' <=> (Interrupted(n) \/ type = "INTERRUPT")
  <1>1. inbox' = inbox \cup {[type |-> type, node |-> n, ip |-> Address[n]]}
    BY DEF Tell, IInv, Agree
  <1> QED
    BY <1>1 DEF Asked, Interrupted

LEMMA NONEtoWAITSInv ==
    ASSUME IInv, SInv, mishaps = {}, NEW n \in Nodes, RequestNONEtoWAIT(n)
    PROVE  Paired' /\ \A m \in Nodes : NodeInv(m)'
  <1>1. /\ inbox \subseteq inbox' /\ \A e \in inbox' \ inbox : e.node = n
        /\ Asked(n)'
        /\ Interrupted(n)' <=> Interrupted(n)
    BY TellSInv DEF RequestNONEtoWAIT
  <1>2. /\ Acked(n)' <=> Acked(n)
        /\ Registered(n)' <=> Registered(n)
        /\ \A v \in {"WAIT", "INIT", "NODE_INIT"} : Has(n, v)' <=> Has(n, v)
    BY DEF RequestNONEtoWAIT, Acked, Registered, Has, table, firmware
  <1>3. /\ mut' = [mut EXCEPT ![n] = "NONEtoWAIT"] /\ mut \in [Nodes -> Mutation]
        /\ UNCHANGED <<phys, pxe, run, boot, wire, addr, table, pending>>
        /\ mut[n] = "none" /\ phys[n] = "POWER_ON" /\ pxe[n] = "NONE"
    BY DEF RequestNONEtoWAIT, firmware, IInv, TypeOK
  <1>4. /\ NodeInv(n) /\ ~ Asked(n) /\ ~ Registered(n) /\ ~ Has(n, "WAIT") /\ ~ Has(n, "INIT")
        /\ ~ Has(n, "NODE_INIT") /\ ~ Acked(n) /\ run[n] = "UNKNOWN"
    <2>1. run[n] \in RunState
      BY DEF IInv, TypeOK
    <2> QED
      BY <1>3, <2>1 DEF SInv, NodeInv, Runs, Discovers, RunState
  <1>5. NodeInv(n)'
    BY <1>1, <1>2, <1>3, <1>4 DEF NodeInv, Waits, Discovers, Hangs, Runs
  <1> QED
    BY <1>1, <1>3, <1>5, EngineFrame

LEMMA WAITtoINITSInv ==
    ASSUME IInv, SInv, mishaps = {}, NEW n \in Nodes, RequestWAITtoINIT(n)
    PROVE  Paired' /\ \A m \in Nodes : NodeInv(m)'
  <1>1. /\ Acked(n)' <=> Acked(n)
        /\ Registered(n)' <=> Registered(n)
        /\ Asked(n)' <=> Asked(n)
        /\ Interrupted(n)' <=> Interrupted(n)
        /\ \A v \in {"WAIT", "INIT", "NODE_INIT"} : Has(n, v)' <=> Has(n, v)
    BY DEF RequestWAITtoINIT, Acked, Registered, Asked, Interrupted, Has, table, firmware
  <1>2. /\ mut' = [mut EXCEPT ![n] = "WAITtoINIT"] /\ mut \in [Nodes -> Mutation]
        /\ UNCHANGED <<phys, pxe, run, boot, wire, addr, table, pending, inbox>>
        /\ phys[n] = "POWER_ON" /\ pxe[n] = "WAIT"
    BY DEF RequestWAITtoINIT, firmware, IInv, TypeOK
  <1>3. NodeInv(n)'
    BY <1>1, <1>2 DEF SInv, NodeInv, Waits, Discovers, Hangs, Runs
  <1> QED
    BY <1>2, <1>3, EngineFrame

LEMMA TimeoutSInv ==
    ASSUME IInv, SInv, mishaps = {}, NEW n \in Nodes, Timeout(n)
    PROVE  Paired' /\ \A m \in Nodes : NodeInv(m)'
  <1>1. /\ inbox \subseteq inbox' /\ \A e \in inbox' \ inbox : e.node = n
        /\ Asked(n)' <=> Asked(n)
        /\ Interrupted(n)'
    BY TellSInv DEF Timeout
  <1>2. /\ Acked(n)' <=> Acked(n)
        /\ \A v \in {"WAIT", "INIT", "NODE_INIT"} : Has(n, v)' <=> Has(n, v)
    BY DEF Timeout, Acked, Has, firmware
  <1>3. /\ mut' = [mut EXCEPT ![n] = "none"] /\ mut \in [Nodes -> Mutation]
        /\ phys' = [phys EXCEPT ![n] = "PHYS_HANG"] /\ phys \in [Nodes -> PhysState]
        /\ UNCHANGED <<pxe, run, boot, wire, addr, table, pending>>
    BY DEF Timeout, firmware, IInv, TypeOK
  <1>4. NodeInv(n)'
    BY <1>1, <1>2, <1>3 DEF SInv, NodeInv, Waits, Discovers, Hangs, Runs
  <1> QED
    BY <1>1, <1>3, <1>4, EngineFrame

\* In time, the interrupt was handled when the node is switched on again.
LEMMA PowerCycleSInv ==
    ASSUME IInv, SInv, mishaps = {}, mishaps' = {}, NEW n \in Nodes, PowerCycle(n)
    PROVE  Paired' /\ \A m \in Nodes : NodeInv(m)'
  <1>1. Quiet(n)
    BY DEF PowerCycle, Late
  <1>2. ~ Asked(n) /\ ~ Interrupted(n) /\ \A v \in {"WAIT", "INIT", "NODE_INIT"} : ~ Has(n, v)
    BY <1>1 DEF Quiet, Asked, Interrupted, Has
  <1>3. ~ Registered(n) /\ mut[n] = "none"
    BY <1>2 DEF PowerCycle, SInv, NodeInv, Hangs
  <1>4. /\ phys \in [Nodes -> PhysState] /\ pxe \in [Nodes -> PxeState] /\ run \in [Nodes -> RunState]
        /\ boot \in [Nodes -> Boot]
    BY DEF IInv, TypeOK
  <1>5. UNCHANGED <<addr, mut, table, inbox, pending>> /\ wire' \subseteq wire
    BY DEF PowerCycle
  <1>6. /\ phys'[n] = "POWER_ON" /\ pxe'[n] = "NONE" /\ run'[n] = "UNKNOWN" /\ boot'[n] = "start"
        /\ \A p \in wire' : p.node = n => p.type # "ack"
        /\ \A m \in Nodes \ {n} : /\ phys'[m] = phys[m] /\ pxe'[m] = pxe[m] /\ run'[m] = run[m]
                                  /\ boot'[m] = boot[m]
    BY <1>4 DEF PowerCycle
  <1>7. NodeInv(n)'
    <2>1. /\ ~ Asked(n)' /\ ~ Interrupted(n)' /\ ~ Registered(n)' /\ ~ Acked(n)'
          /\ \A v \in {"WAIT", "INIT", "NODE_INIT"} : ~ Has(n, v)'
      BY <1>2, <1>3, <1>5, <1>6 DEF Asked, Interrupted, Registered, Acked, Has, table
    <2> QED
      BY <1>3, <1>5, <1>6, <2>1 DEF NodeInv, Waits, Discovers, Hangs, Runs
  <1> QED
    BY <1>5, <1>6, <1>7, EngineFrame

-----------------------------------------------------------------------------
(* The invariant *)

\* What has gone wrong is not forgotten.
LEMMA MishapsGrow == [Next]_vars => mishaps \subseteq mishaps'
  BY DEF Next, vars, Server, Engine, Firmware, HandleMUTATE, HandleINTERRUPT, Late, InTime, Send,
         HandleDHCPRequest, IgnorePacket, Offer, Acknowledge, AcknowledgeAny, Refuse, WriteToTFTP,
         Restart, Ask, StartBoot, Retransmit, TakeAnswer, Lose, Repeat, RequestNONEtoWAIT,
         RequestWAITtoINIT, Timeout, PowerCycle, Readdress

LEMMA StepSInv == IInv /\ SInv /\ [Next]_vars => SInv'
  <1> SUFFICES ASSUME IInv, SInv, [Next]_vars, mishaps' = {}
               PROVE  Paired' /\ \A n \in Nodes : NodeInv(n)'
    BY DEF SInv
  <1>1. mishaps = {}
    BY MishapsGrow
  <1>2. CASE Server
    BY <1>1, <1>2, MUTATESInv, INTERRUPTSInv, SendSInv, DHCPSInv DEF Server
  <1>3. ASSUME NEW n \in Nodes, Engine(n) PROVE Paired' /\ \A m \in Nodes : NodeInv(m)'
    <2>1. ~ Readdress(n)
      BY DEF Readdress
    <2> QED
      BY <1>1, <1>3, <2>1, NONEtoWAITSInv, WAITtoINITSInv, TimeoutSInv, PowerCycleSInv DEF Engine
  <1>4. ASSUME NEW n \in Nodes, Firmware(n) PROVE Paired' /\ \A m \in Nodes : NodeInv(m)'
    BY <1>1, <1>4, FirmwareSInv
  <1>5. ASSUME NEW p \in wire, Lose(p) PROVE Paired' /\ \A m \in Nodes : NodeInv(m)'
    BY <1>1, <1>5, LoseSInv
  <1>6. CASE UNCHANGED vars
    BY <1>1, <1>6, QuietStep DEF vars, Acked, firmware
  <1>7. ~ Restart
    BY DEF Restart
  <1> QED
    BY <1>2, <1>3, <1>4, <1>5, <1>6, <1>7 DEF Next

\* Without a restart, a new address or a late goroutine, no node is left where it is not
\* answered and no mutation starts it again.
THEOREM NoneLeftBehind == Spec => []NoneStranded
  <1>1. IInv /\ SInv => NoneStranded
    <2> SUFFICES ASSUME IInv, SInv, mishaps = {}, NEW n \in Nodes, Stranded(n)
                 PROVE  FALSE
      BY DEF NoneStranded
    <2>1. NodeInv(n)
      BY DEF SInv
    <2>2. phys[n] = "POWER_ON" /\ pxe[n] = "INIT"
      BY <2>1 DEF Stranded, NodeInv, Discovers
    <2>3. boot[n] = "loaded"
      BY <2>1, <2>2 DEF NodeInv, Runs, Registered, Stranded, Unattended
    <2>4. ~ Has(n, "INIT") /\ ~ Has(n, "NODE_INIT")
      BY DEF Stranded, Unattended, Quiet, Has
    <2>5. run[n] = "INIT"
      BY <2>1, <2>3, <2>4 DEF NodeInv, Discovers, Acked
    <2> QED
      BY <2>2, <2>3, <2>5 DEF Stranded, Booted
  <1> QED
    BY InitIInv, StepIInv, InitSInv, StepSInv, <1>1, PTL DEF Spec

=============================================================================
