------------------------------ MODULE ImageAgent ------------------------------
(***************************************************************************)
(* The imageapi module (src/modules/imageapi) of one compute node, together *)
(* with what it talks to: the state engine that stores the node's state and *)
(* issues mutations, and the container daemon behind the image API.         *)
(*                                                                          *)
(* The module's main loop starts a goroutine for every poll, mutation and   *)
(* event.  A goroutine is a slot p whose remaining work is a sequence of    *)
(* operations todo[p]; the first operation is executed in one step, which   *)
(* may put further operations before the rest (a call).  An operation reads *)
(* shared state and then performs at most one write: one critical section   *)
(* of is.mutex, one call to the daemon, or one channel send.  Everything a  *)
(* goroutine does between two such points can be overtaken by the others.   *)
(***************************************************************************)
EXTENDS ImageSet, Sequences, SequencesExt

CONSTANTS
    Handlers,   \* goroutines that may handle events and mutations at a time
    Poller,     \* the goroutine of the polling ticker (one at a time)
    Nobody,     \* no goroutine: holds the mutex, has the processor
    Wants,      \* container states a configuration may ask for
    ChanCap,    \* discoveries the discovery channel holds
    Slow,       \* operations that last: the others run meanwhile
    Unlimited,  \* a disturbance without a bound
    Budget      \* how often each disturbance may happen

Slots == Handlers \cup {Poller}

\* The operations that may last: the calls to the container daemon, the sleeps.
Lasting == {"list", "create", "tCreate", "delete", "tDelete", "recovered", "pause"}

\* What happens to the system from outside; Budget bounds each kind.
Disturbance == {"config", "goal", "death", "call", "timeout", "kill", "init",
                "update", "preempt", "request", "overtake"}

ASSUME PollerAssumption   == Poller \notin Handlers

\* What the module is configured with: how often an image is retried, and whether an
\* API server is there that can be reached.
Config == [limit : Limit, server : BOOLEAN]
NewConfig == [limit |-> MaxRetries, server |-> TRUE]

\* What the holder of is.mutex has read (the configured and the discoverable set, and
\* whether its client's server can be reached), and the limits there were since.
Holding == [by : Slots, isc : CfgMap, isd : DscSet, server : BOOLEAN, limits : SUBSET Limit]

ASSUME NobodyAssumption   == Nobody \notin Slots \cup Holding
ASSUME WantsAssumption    == Wants \subseteq Observed
ASSUME SlowAssumption     == Slow \subseteq Lasting
ASSUME ChanCapAssumption  == ChanCap \in Nat
ASSUME BudgetAssumption   == Budget \in [Disturbance -> Nat \cup {Unlimited}]
ASSUME UnlimitedAssumption == Unlimited \notin Nat

-----------------------------------------------------------------------------
(* Mutations, triggers, operations *)

\* One row of the muts table: from state f to state t, failing to failto.
Mut(name, f, t, failto) == [name |-> name, f |-> f, t |-> t, failto |-> failto]

Muts == { Mut("UKtoIDLE",       UNKNOWN, IDLE,   FATAL),
          Mut("IDLEtoACTIVE",   IDLE,    ACTIVE, ERROR),
          Mut("ACTIVEtoIDLE",   ACTIVE,  IDLE,   ERROR),
          Mut("UPDATEtoACTIVE", UPDATE,  ACTIVE, ERROR),
          Mut("UPDATEtoIDLE",   UPDATE,  IDLE,   ERROR),
          Mut("ERRORtoACTIVE",  ERROR,   ACTIVE, FATAL),
          Mut("ERRORtoIDLE",    ERROR,   IDLE,   FATAL) }

\* The barrier mutation changes RunState; f and t are not used.
SYNCtoINIT == Mut("SYNCtoINIT", IDLE, IDLE, ERROR)
NoMut      == Mut("none", UNKNOWN, UNKNOWN, UNKNOWN)

Trigger == {"tDelete", "tCreate", "tSetACTIVE", "tSetIDLE", "clearAction"}

NoTriggers == [n \in Images |-> [s \in ContainerState |-> <<>>]]
NoActions  == [n \in Images |-> "NONE"]

\* An operation: its name, and the image, the container state or action, the
\* image state and the trigger it is called with, as far as it takes them.
ImageOps == Trigger \cup
    { "idle", "activateIfNew", "activate", "decide", "begin", "setAction", "delete",
      "create", "raiseError", "setTrigger", "fire", "fireElse", "unexpected", "cfgChange",
      "mark", "dscChange" }
ModuleOps ==
    { "clearAllTriggers", "clearAllActions", "clearRunning", "setRunning", "setTarget",
      "activateAll", "idleAll", "updateSetState", "discoverSet", "discoverINIT",
      "discover", "list", "recover", "recovered", "pause", "stopPolling" }
OpName == ImageOps \cup ModuleOps

Arg == ContainerState \cup Action \cup Sub

Operation(o, n, a, s, t) == [op |-> o, img |-> n, arg |-> a, state |-> s, t |-> t]

Call(o)             == Operation(o, NoImage, "", UNKNOWN, "clearAction")
CallWith(o, s)      == Operation(o, NoImage, "", s, "clearAction")
CallOn(o, n)        == Operation(o, n, "", UNKNOWN, "clearAction")
CallOnWith(o, n, a) == Operation(o, n, a, UNKNOWN, "clearAction")
SetTrigger(n, c, t) == Operation("setTrigger", n, c, UNKNOWN, t)

\* A handler invocation that the main loop has yet to start.
CfgEvent(n)     == [kind |-> "CFG", img |-> n, sub |-> "", names |-> {}]
DscEvent(n, s)  == [kind |-> "DSC", img |-> n, sub |-> s, names |-> {}]
Interrupt       == [kind |-> "INTERRUPT", img |-> NoImage, sub |-> "", names |-> {}]
Mutate(m, ns)   == [kind |-> m, img |-> NoImage, sub |-> "", names |-> ns]
NoEvent         == [kind |-> "none", img |-> NoImage, sub |-> "", names |-> {}]
Isolated(e)     == e.kind \in {"CFG", "DSC", "none"}

\* A discovery on its way to the engine: of the set's state or of RunState.
SetDiscovery(s) == [url |-> "State", state |-> s]
InitDiscovery   == [url |-> "RunState", state |-> UNKNOWN]

-----------------------------------------------------------------------------
VARIABLES
    \* the state engine
    cfg,       \* configured images: Images -> wanted container state or Absent
    goal,      \* configured state of the set: IDLE or ACTIVE
    dsc,       \* discoverable ImageSet: [state, images]
    runState,  \* the node's RunState: SYNC, INIT or ERROR
    mut,       \* the mutation the engine is waiting for
    \* the container daemon
    daemon,    \* Images -> Observed, "starting" or Absent
    \* the module's fields
    conf,      \* is.cfg: [limit, server]
    target, running, actions, triggers,
    ticker,    \* is.pollTicker has not been stopped
    polling,   \* the main loop waits on a ticker that has not been stopped
    mutex,     \* Nobody, or the holder with what it read
    \* the module's goroutines and channels
    todo,      \* Slots -> remaining operations
    turn,      \* the goroutine that runs, or Nobody between two of them
    me,        \* Slots -> the event being handled, or NoEvent
    inbox,     \* handler invocations not yet started
    dchan,     \* discoveries sent and not yet applied by the engine
    up,        \* the module's process is alive
    \* bounds
    left       \* what is left of Budget

engine == <<cfg, goal, dsc, runState, mut>>
fields == <<conf, target, running, actions, triggers, ticker, polling>>
work   == <<todo, turn, me, inbox, dchan>>
vars   == <<cfg, goal, dsc, runState, mut, daemon, conf, target, running, actions,
            triggers, ticker, polling, mutex, todo, turn, me, inbox, dchan, up, left>>

Init ==
    /\ cfg \in [Images -> Wants \cup {Absent}]
    /\ goal \in {IDLE, ACTIVE}
    /\ dsc = [state |-> UNKNOWN, images |-> NoImages]
    /\ runState = "SYNC"
    /\ mut = NoMut
    /\ daemon = [n \in Images |-> Absent]
    /\ conf = NewConfig
    /\ target = UNKNOWN
    /\ running = FALSE
    /\ actions = NoActions
    /\ triggers = NoTriggers
    /\ ticker = TRUE
    /\ polling = TRUE
    /\ mutex = Nobody
    /\ todo = [p \in Slots |-> <<>>]
    /\ turn = Nobody
    /\ me = [p \in Slots |-> NoEvent]
    /\ inbox = {}
    /\ dchan = <<>>
    /\ up = TRUE
    /\ left = Budget

-----------------------------------------------------------------------------
(* Running a goroutine *)

\* The next operation of p is o.
At(p, o) == todo[p] # <<>> /\ Head(todo[p]).op = o

Img(p)  == Head(todo[p]).img
Par(p)  == Head(todo[p]).arg
Goal(p) == Head(todo[p]).state

\* p finishes its operation and goes on with ops before the rest.
Then(p, ops) ==
    /\ todo' = [todo EXCEPT ![p] = ops \o Tail(@)]
    /\ turn' = IF todo'[p] = <<>> THEN Nobody ELSE p
    /\ me' = IF todo'[p] = <<>> THEN [me EXCEPT ![p] = NoEvent] ELSE me

\* p locks and unlocks is.mutex within the step.
Locking == mutex = Nobody

\* Operations that need the mutex, and that send on the discovery channel.
LockOps == {"clearRunning", "setRunning", "setTarget", "setAction", "clearAction",
            "clearAllActions", "clearAllTriggers", "setTrigger", "fire", "fireElse",
            "raiseError", "tSetACTIVE", "tSetIDLE", "mark", "activateIfNew",
            "activate", "decide", "discover", "recover"}
SendOps == {"discoverSet", "discoverINIT"}

\* The goroutine that runs can be overtaken: it has none of its work left, has to
\* wait, or is preempted.  Budget bounds only the preemptions.
Waits(p) == /\ todo[p] # <<>>
            /\ \/ Head(todo[p]).op \in LockOps /\ mutex # Nobody
               \/ Head(todo[p]).op \in SendOps /\ Len(dchan) = ChanCap
               \/ Head(todo[p]).op \in Slow
Yielded == turn # Nobody => Waits(turn)

Events(old, new) ==
    {DscEvent(n, s) : n \in Images, s \in Sub} \cap
    UNION {{DscEvent(n, s) : s \in ChangedSubs(old[n], new[n])} : n \in Images}

\* The engine stores new discoverable values and reports what changed.
Store(new) ==
    /\ dsc' = new
    /\ inbox' = inbox \cup Events(dsc.images, new.images)

StoreImage(n, img) == Store([dsc EXCEPT !.images[n] = img])

Spend(k) ==
    IF left[k] = Unlimited
    THEN UNCHANGED left
    ELSE left[k] > 0 /\ left' = [left EXCEPT ![k] = @ - 1]

\* The sequences that hold each element of S once: the orders in which a
\* range over a Go map may visit S.
Orders(S) ==
    {f \in [1 .. Cardinality(S) -> S] : \A n \in S : \E i \in DOMAIN f : f[i] = n}

\* The same operation on every image of an order.
Each(o, order) == [i \in DOMAIN order |-> CallOn(o, order[i])]

-----------------------------------------------------------------------------
(* Fields behind the mutex: actions.go, triggers.go *)

\* Everything but the fields, the goroutines' work and what a step names.
Outside == <<engine, conf, daemon, up, left>>

ClearRunning(p) ==
    /\ At(p, "clearRunning") /\ Locking
    /\ running' = FALSE
    /\ Then(p, <<>>)
    /\ UNCHANGED <<Outside, target, actions, triggers, ticker, polling, mutex, inbox, dchan>>

SetRunning(p) ==
    /\ At(p, "setRunning") /\ Locking
    /\ running' = TRUE
    /\ Then(p, <<>>)
    /\ UNCHANGED <<Outside, target, actions, triggers, ticker, polling, mutex, inbox, dchan>>

SetTarget(p) ==
    /\ At(p, "setTarget") /\ Locking
    /\ target' = Goal(p)
    /\ Then(p, <<>>)
    /\ UNCHANGED <<Outside, running, actions, triggers, ticker, polling, mutex, inbox, dchan>>

SetAction(p) ==
    /\ At(p, "setAction") /\ Locking
    /\ actions' = [actions EXCEPT ![Img(p)] = Par(p)]
    /\ Then(p, <<>>)
    /\ UNCHANGED <<Outside, target, running, triggers, ticker, polling, mutex, inbox, dchan>>

ClearAction(p) ==
    /\ At(p, "clearAction") /\ Locking
    /\ actions' = [actions EXCEPT ![Img(p)] = "NONE"]
    /\ Then(p, <<>>)
    /\ UNCHANGED <<Outside, target, running, triggers, ticker, polling, mutex, inbox, dchan>>

ClearAllActions(p) ==
    /\ At(p, "clearAllActions") /\ Locking
    /\ actions' = NoActions
    /\ Then(p, <<>>)
    /\ UNCHANGED <<Outside, target, running, triggers, ticker, polling, mutex, inbox, dchan>>

ClearAllTriggers(p) ==
    /\ At(p, "clearAllTriggers") /\ Locking
    /\ triggers' = NoTriggers
    /\ Then(p, <<>>)
    /\ UNCHANGED <<Outside, target, running, actions, ticker, polling, mutex, inbox, dchan>>

SetATrigger(p) ==
    /\ At(p, "setTrigger") /\ Locking
    /\ triggers' = [triggers EXCEPT ![Img(p)][Par(p)] = Append(@, Head(todo[p]).t)]
    /\ Then(p, <<>>)
    /\ UNCHANGED <<Outside, target, running, actions, ticker, polling, mutex, inbox, dchan>>

\* fireTriggers: take the triggers of a container state and run them in order;
\* "fireElse" goes on with unexpectedStateChange when there are none.
FireTriggers(p) ==
    /\ At(p, "fire") \/ At(p, "fireElse")
    /\ Locking
    /\ LET n == Img(p)
           ts == triggers[n][Par(p)]
       IN  /\ triggers' = [triggers EXCEPT ![n][Par(p)] = <<>>]
           /\ Then(p, IF ts = <<>> /\ At(p, "fireElse")
                      THEN <<CallOn("unexpected", n)>>
                      ELSE [i \in DOMAIN ts |-> CallOn(ts[i], n)])
    /\ UNCHANGED <<Outside, target, running, actions, ticker, polling, mutex, inbox, dchan>>

-----------------------------------------------------------------------------
(* The module's process dies: a Go panic, or a kill *)

\* Everything the process holds is lost.
ProcessGone ==
    /\ up' = FALSE
    /\ target' = UNKNOWN /\ running' = FALSE
    /\ actions' = NoActions /\ triggers' = NoTriggers
    /\ ticker' = FALSE /\ polling' = FALSE /\ mutex' = Nobody
    /\ todo' = [p \in Slots |-> <<>>] /\ turn' = Nobody /\ me' = [p \in Slots |-> NoEvent]
    /\ inbox' = {} /\ dchan' = <<>>

Panic == ProcessGone /\ UNCHANGED <<engine, conf, daemon, left>>

Kill == up /\ Spend("kill") /\ ProcessGone /\ UNCHANGED <<engine, conf, daemon>>

\* The process is started again: Init, with the default configuration, then Entry up to
\* its main loop.  The engine's discoverable values start from nothing.
Restarted(ticking) ==
    /\ ~ up
    /\ up' = TRUE /\ ticker' = ticking /\ polling' = ticking
    /\ conf' = NewConfig
    /\ dsc' = [state |-> UNKNOWN, images |-> NoImages]
    /\ UNCHANGED <<cfg, goal, runState, mut, daemon, target, running, actions,
                   triggers, mutex, work, left>>

\* With the ticker forgotten, and as Entry does it.
RestartSilent == Restarted(FALSE)
Restart       == Restarted(TRUE)

-----------------------------------------------------------------------------
(* Calls to the daemon: operations.go *)

Only(p) == UNCHANGED <<engine, fields, mutex, inbox, dchan, up>>

\* A call fails when its server cannot be reached or refuses it, and may fail anyway.
CallFails(sure) ==
    /\ IF sure THEN UNCHANGED left ELSE Spend("call")
    /\ UNCHANGED daemon

\* createImage, for an image that asks for container state want.  The daemon
\* refuses a name it already has.
Create(p, n, want) ==
    LET failed == <<CallOn("raiseError", n)>>
        agreed == conf.server /\ daemon[n] = Absent
    IN  /\ \/ /\ agreed
              /\ daemon' = [daemon EXCEPT ![n] =
                              IF want = "running" THEN "starting" ELSE "created"]
              /\ Then(p, <<>>) /\ UNCHANGED left
           \/ CallFails(~ agreed) /\ Then(p, failed)
        /\ Only(p)

CreateImage(p) == At(p, "create") /\ Create(p, Img(p), Par(p))

\* tCreate: the value is used before the error is looked at, so an image that is
\* no longer configured panics.
TCreate(p) ==
    /\ At(p, "tCreate")
    /\ IF cfg[Img(p)] = Absent THEN Panic ELSE Create(p, Img(p), cfg[Img(p)])

\* A container the daemon agrees to delete.
Deletable == {"created", "starting", "exited", "dead"}

\* deleteImage and tDelete, by the container state the engine has.
DeleteImage(p) ==
    /\ At(p, "delete") \/ At(p, "tDelete")
    /\ LET n    == Img(p)
           ctn  == IF dsc.images[n] = NoImage THEN "DELETED" ELSE dsc.images[n].ctn
           wait == <<SetTrigger(n, "exited", "tDelete")>>
           failed == <<CallOn("raiseError", n)>>
       IN  \/ /\ ctn \in {"DELETED", NilContainer}
              /\ Then(p, <<>>)
              /\ UNCHANGED <<daemon, left>>
           \/ /\ ctn = "running"
              /\ \/ /\ conf.server /\ daemon[n] # Absent
                    /\ daemon' = [daemon EXCEPT ![n] =
                                    IF @ \in {"running", "starting"} THEN "stopping" ELSE @]
                    /\ Then(p, wait) /\ UNCHANGED left
                 \/ CallFails(~ conf.server \/ daemon[n] = Absent) /\ Then(p, failed \o wait)
           \/ /\ ctn = "stopping"
              /\ Then(p, wait)
              /\ UNCHANGED <<daemon, left>>
           \/ /\ ctn \in {"created", "exited", "dead"}
              /\ \/ /\ conf.server /\ daemon[n] \in Deletable
                    /\ daemon' = [daemon EXCEPT ![n] = Absent]
                    /\ Then(p, <<>>) /\ UNCHANGED left
                 \/ CallFails(~ conf.server \/ daemon[n] \notin Deletable) /\ Then(p, failed)
    /\ Only(p)

-----------------------------------------------------------------------------
(* Writing fields of one image: setValues *)

\* One write of an image; setValues does it under the mutex.
WriteUnlocked(p, img) ==
    /\ StoreImage(Img(p), img)
    /\ Then(p, <<>>)
    /\ UNCHANGED <<cfg, goal, runState, mut, daemon, fields, mutex, dchan, up, left>>

Write(p, img) == Locking /\ WriteUnlocked(p, img)

Old(p) == dsc.images[Img(p)]

ImageRaiseError(p) == At(p, "raiseError") /\ Write(p, Raised(Old(p)))
TSetACTIVE(p)      == At(p, "tSetACTIVE") /\ Write(p, Activated(Old(p)))
TSetIDLE(p)        == At(p, "tSetIDLE") /\ Write(p, Idled(Old(p)))
Mark(p)            == At(p, "mark") /\ Write(p, Marked(Old(p), Par(p)))

-----------------------------------------------------------------------------
(* Event handlers: events.go *)

\* A step that only reads, and goes on with ops.
Read(p, ops) ==
    /\ Then(p, ops)
    /\ UNCHANGED <<engine, daemon, fields, mutex, inbox, dchan, up, left>>

\* cfgChange, up to the write.
CfgChange(p) ==
    /\ At(p, "cfgChange")
    /\ LET n == Img(p)
           known == dsc.images[n] # NoImage
           mark(a) == <<CallOnWith("mark", n, a)>>
       IN  Read(p, (CASE cfg[n] = Absent /\ ~ known -> <<>>
                      [] cfg[n] = Absent /\ known   -> mark("DELETE")
                      [] cfg[n] # Absent /\ ~ known -> mark("CREATE")
                      [] cfg[n] # Absent /\ known   -> mark("RELOAD"))
                   \o <<Call("updateSetState")>>)

\* dscChange: an image or a container that is gone fires the DELETED triggers
\* whatever changed; otherwise the part that changed decides.
DscChange(p) ==
    /\ At(p, "dscChange")
    /\ LET n    == Img(p)
           img  == dsc.images[n]
           sub  == Par(p)
           gone == img = NoImage \/ img.ctn = NilContainer
           moved == <<CallOnWith("fireElse", n, img.ctn), Call("updateSetState")>>
           acting == <<CallOnWith("activateIfNew", n, img.action)>>
       IN  IF gone
           THEN Read(p, <<CallOnWith("fire", n, "DELETED"), Call("updateSetState")>>)
           ELSE \/ sub = "/Action" /\ Read(p, <<CallOn("activate", n)>>)
                \/ sub = "/State"  /\ Read(p, <<Call("updateSetState")>>)
                \/ sub = "/Container/State" /\ Read(p, moved)
                \/ sub = "" /\ Read(p, acting \o moved)

ActivateIfNew(p) ==
    /\ At(p, "activateIfNew") /\ Locking
    /\ Read(p, IF Par(p) # actions[Img(p)] THEN <<CallOn("activate", Img(p))>> ELSE <<>>)

\* The delete that undoes a container nobody asked for, or that DELETE asks for.
Deleting(n) == <<CallOnWith("setAction", n, "DELETE"), CallOn("delete", n),
                 SetTrigger(n, "DELETED", "clearAction")>>

\* A container state that means the container died: dead, or exited unless that is
\* what was asked for.
DiedHard(ctn, wanted) == ctn = "dead"
Died(ctn, wanted)     == ctn = "dead" \/ (ctn = "exited" /\ wanted # "exited")

\* unexpectedStateChange: tear down when the target is IDLE, else raise an error
\* for a container that died.
UnexpectedStateChange(p) ==
    /\ At(p, "unexpected")
    /\ LET n   == Img(p)
           img == dsc.images[n]
       IN  IF img = NoImage \/ cfg[n] = Absent THEN Read(p, <<>>)
           ELSE IF img.ctn = NilContainer THEN Panic
           ELSE IF target = IDLE
           THEN Read(p, IF img.ctn # "DELETED" THEN Deleting(n) ELSE <<>>)
           ELSE Read(p, IF Died(img.ctn, cfg[n]) /\ img.state \notin {ERROR, FATAL}
                        THEN <<CallOn("raiseError", n)>> ELSE <<>>)

\* updateSetState discovers every state that differs, failures included.
VariesUnfailed(s, current) == s # current /\ s \notin {ERROR, FATAL}
Varies(s, current)         == s # current

\* updateSetState: when the derived state differs from the discovered one, stop
\* all work and discover the new one.
UpdateSetState(p) ==
    /\ At(p, "updateSetState")
    /\ LET s == DerivedState(cfg, dsc.images, target)
       IN  Read(p, IF ~ Varies(s, dsc.state) THEN <<>>
                   ELSE <<Call("clearRunning"), Call("clearAllActions"),
                          Call("clearAllTriggers"), CallWith("discoverSet", s)>>)

\* A send on the discovery channel blocks while the channel is full.
Send(p, d) ==
    /\ Len(dchan) < ChanCap
    /\ dchan' = Append(dchan, d)
    /\ Then(p, <<>>)
    /\ UNCHANGED <<engine, daemon, fields, mutex, inbox, up, left>>

DiscoverSet(p)  == At(p, "discoverSet") /\ Send(p, SetDiscovery(Goal(p)))
DiscoverINIT(p) == At(p, "discoverINIT") /\ Send(p, InitDiscovery)

StopPolling(p) ==
    /\ At(p, "stopPolling")
    /\ ticker' = FALSE /\ polling' = FALSE
    /\ Then(p, <<>>)
    /\ UNCHANGED <<engine, daemon, conf, target, running, actions, triggers, mutex,
                   inbox, dchan, up, left>>

-----------------------------------------------------------------------------
(* Activating images: mutations.go *)

ActivateAll(p) ==
    /\ At(p, "activateAll")
    /\ \E order \in Orders(Known(dsc.images)) : Read(p, Each("activate", order))

\* activateImage goes on only while the module runs towards ACTIVE.  It reads the
\* image; the entry may be gone by now, and its use then panics ...
ActivateImage(p) ==
    /\ At(p, "activate") /\ Locking
    /\ IF ~ (running /\ target = ACTIVE) THEN Read(p, <<>>)
       ELSE IF Old(p) = NoImage THEN Panic
       ELSE Read(p, <<CallOnWith("decide", Img(p), Old(p).action)>>)

\* ... takes up the action it has read unless it is in progress already ...
Decide(p) ==
    /\ At(p, "decide") /\ Locking
    /\ Read(p, IF Par(p) = actions[Img(p)] THEN <<>>
               ELSE IF Par(p) = "DELETE" THEN Deleting(Img(p))
               ELSE <<CallOnWith("begin", Img(p), Par(p))>>)

\* ... and needs the configuration for all but a delete.
Begin(p) ==
    /\ At(p, "begin")
    /\ LET n    == Img(p)
           want == cfg[n]
           start == <<CallOnWith("setAction", n, Par(p))>>
           finish == <<SetTrigger(n, want, "tSetACTIVE"), SetTrigger(n, want, "clearAction")>>
       IN  Read(p, CASE want = Absent \/ Par(p) = "NONE" -> <<>>
                     [] want # Absent /\ Par(p) = "CREATE" ->
                          start \o <<CallOnWith("create", n, want)>> \o finish
                     [] want # Absent /\ Par(p) = "RELOAD" ->
                          start \o <<SetTrigger(n, "DELETED", "tCreate"), CallOn("delete", n)>>
                                \o finish)

\* mANYtoIDLE, over the images named in the mutation event.
IdleAll(p) ==
    /\ At(p, "idleAll")
    /\ \E order \in Orders(me[p].names) : Read(p, Each("idle", order))

IdleImage(p) ==
    /\ At(p, "idle")
    /\ LET n == Img(p)
       IN  Read(p, <<CallOnWith("setAction", n, "DELETE"), CallOn("delete", n),
                     SetTrigger(n, "DELETED", "tSetIDLE"),
                     SetTrigger(n, "DELETED", "clearAction")>>)

\* mANYtoACTIVE and mANYtoIDLE; and with running set too late.
TowardsLate(a) ==
    IF a = ACTIVE
    THEN <<CallWith("setTarget", ACTIVE), Call("activateAll"), Call("setRunning")>>
    ELSE <<CallWith("setTarget", IDLE), Call("idleAll"), Call("setRunning")>>

Towards(a) ==
    IF a = ACTIVE
    THEN <<CallWith("setTarget", ACTIVE), Call("setRunning"), Call("activateAll")>>
    ELSE <<Call("setRunning"), CallWith("setTarget", IDLE), Call("idleAll")>>

\* UPDATEtoACTIVE sleeps before it starts.
Pause(p) == At(p, "pause") /\ Read(p, <<>>)

-----------------------------------------------------------------------------
(* Critical sections that span steps: discover and mRecoverError *)

Reading(p) == [by |-> p, isc |-> cfg, isd |-> dsc, server |-> conf.server,
               limits |-> {conf.limit}]

\* p takes the mutex when it is free and reads both image sets while holding it.
TakeAndRead(p, next) ==
    /\ mutex' = Reading(p)
    /\ Then(p, next)
    /\ UNCHANGED <<engine, daemon, fields, inbox, dchan, up, left>>

LockAndRead(p, next) == Locking /\ TakeAndRead(p, next)

\* p writes the whole set, computed from what it read, and unlocks.
StoreAndUnlock(p, images, next) ==
    /\ Store([state |-> mutex.isd.state, images |-> images])
    /\ mutex' = Nobody
    /\ Then(p, next)
    /\ UNCHANGED <<cfg, goal, runState, mut, daemon, fields, dchan, up, left>>

Discover(p) == At(p, "discover") /\ LockAndRead(p, <<Call("list")>>)

Listed == [n \in Images |-> IF daemon[n] = "starting" THEN "created" ELSE daemon[n]]

\* The rest of discover: list the containers, merge, store the whole set.
ListContainers(p) ==
    /\ At(p, "list") /\ mutex.server
    /\ StoreAndUnlock(p, Discovered(mutex.isc, mutex.isd.images, Listed, actions), <<>>)

\* The call fails; discover unlocks and returns.  And: it returns without unlocking.
ListingFailed(p, holder) ==
    /\ At(p, "list")
    /\ CallFails(~ mutex.server)
    /\ mutex' = holder
    /\ Then(p, <<>>)
    /\ UNCHANGED <<engine, fields, inbox, dchan, up>>

ListContainersLocked(p) == ListingFailed(p, mutex)
ListContainersFails(p)  == ListingFailed(p, Nobody)

\* mRecoverError.  The back-off sleeps happen with the mutex held, and each image meets
\* the limit that is configured when its turn comes.
RecoverError(p) ==
    At(p, "recover") /\ LockAndRead(p, <<CallWith("recovered", Goal(p))>>)

Recovery(p) ==
    /\ At(p, "recovered")
    /\ \E limit \in [InError(mutex.isd.images) -> mutex.limits] :
         LET images == mutex.isd.images
             go == IF Recoverable(images, limit) THEN Towards(Goal(p)) ELSE <<>>
         IN  IF InError(images) = {}
             THEN /\ mutex' = Nobody
                  /\ Then(p, go)
                  /\ UNCHANGED <<engine, daemon, fields, inbox, dchan, up, left>>
             ELSE StoreAndUnlock(p, RecoveredImages(images, limit),
                                 <<Call("updateSetState")>> \o go)

-----------------------------------------------------------------------------
(* The main loop: Entry, handleMutation, handleEvent *)

\* What handleMutation does after it has cleared everything.
MutationBody(name) ==
    CASE name = "UKtoIDLE" ->
           <<Call("clearAllTriggers"), CallWith("setTarget", IDLE), Call("discover")>>
      [] name = "UPDATEtoACTIVE" -> <<Call("pause")>> \o Towards(ACTIVE)
      [] name = "IDLEtoACTIVE"   -> Towards(ACTIVE)
      [] name \in {"ACTIVEtoIDLE", "UPDATEtoIDLE"}   -> Towards(IDLE)
      [] name = "ERRORtoACTIVE" -> <<CallWith("recover", ACTIVE)>>
      [] name = "ERRORtoIDLE"   -> <<CallWith("recover", IDLE)>>
      [] name = "SYNCtoINIT"    ->
           <<Call("stopPolling"), CallWith("discoverSet", UNKNOWN), Call("discoverINIT")>>

Body(e) ==
    CASE e.kind = "CFG"       -> <<CallOn("cfgChange", e.img)>>
      [] e.kind = "DSC"       -> <<CallOnWith("dscChange", e.img, e.sub)>>
      [] e.kind = "INTERRUPT" -> <<Call("clearAllActions"), Call("clearAllTriggers"),
                                   Call("clearRunning")>>
      [] OTHER -> <<Call("clearAllTriggers"), Call("clearAllActions"),
                    Call("clearRunning")>> \o MutationBody(e.kind)

\* A goroutine is started for a pending event or mutation: in any order.  The
\* main loop then waits on what is.pollTicker is by now.
Dispatch(p, e) ==
    /\ todo[p] = <<>>
    /\ inbox' = inbox \ {e}
    /\ todo' = [todo EXCEPT ![p] = Body(e)] /\ turn' = p
    /\ me' = [me EXCEPT ![p] = e]
    /\ polling' = ticker
    /\ UNCHANGED <<engine, daemon, conf, target, running, actions, triggers, ticker,
                   mutex, dchan, up, left>>

\* The ticker starts a discovery, here when it gets the mutex.
Poll ==
    /\ up /\ polling
    /\ todo[Poller] = <<>>
    /\ Locking
    /\ mutex' = Reading(Poller)
    /\ todo' = [todo EXCEPT ![Poller] = <<Call("list")>>] /\ turn' = Poller
    /\ UNCHANGED <<engine, daemon, fields, me, inbox, dchan, up, left>>

\* UpdateConfig replaces the configuration, under whoever uses it, and the ticker.  The
\* main loop keeps waiting on the stopped one until something else wakes it; a tick left
\* in its channel does.
UpdateConfig(new) ==
    /\ up /\ Spend("update")
    /\ conf' = new
    /\ mutex' = IF mutex = Nobody THEN Nobody ELSE [mutex EXCEPT !.limits = @ \cup {new.limit}]
    /\ ticker' = TRUE
    /\ polling' \in BOOLEAN
    /\ UNCHANGED <<engine, daemon, target, running, actions, triggers, work, up>>

-----------------------------------------------------------------------------
(* The state engine *)

\* The engine applies a discovery.
Apply ==
    /\ dchan # <<>>
    /\ dchan' = Tail(dchan)
    /\ IF Head(dchan).url = "State"
       THEN dsc' = [dsc EXCEPT !.state = Head(dchan).state] /\ UNCHANGED runState
       ELSE runState' = "INIT" /\ UNCHANGED dsc
    /\ UNCHANGED <<cfg, goal, mut, daemon, fields, mutex, todo, turn, me, inbox, up, left>>

Outstanding == mut # NoMut

\* A mutation event or an interrupt that no goroutine has finished with.
MutationPending == \E e \in inbox \cup {me[p] : p \in Slots} : ~ Isolated(e)

\* The engine asks for the next mutation on the way to the configured state.
\* Budget bounds how often it does so before the previous event is dealt with.
Request(m) ==
    /\ up /\ ~ Outstanding
    /\ mut' = m
    /\ inbox' = inbox \cup {Mutate(m.name, Configured(cfg) \cap Known(dsc.images))}
    /\ UNCHANGED <<cfg, goal, dsc, runState, daemon, fields, mutex, todo, turn, me, dchan, up>>

RequestMutation(m) ==
    /\ runState = "SYNC"
    /\ dsc.state # goal /\ m.f = dsc.state
    /\ m.t = goal \/ m.name = "UKtoIDLE"
    /\ Spend(IF MutationPending THEN "overtake" ELSE "request")
    /\ Request(m)

\* The node is to be powered off: RunState goes through the barrier.
RequestINITAnyway ==
    /\ runState = "SYNC" /\ ~ MutationPending
    /\ Spend("init") /\ Request(SYNCtoINIT)

RequestINIT == dsc.state = IDLE /\ RequestINITAnyway

\* The engine forgets the mutation and tells the module so.
InterruptMutation ==
    /\ mut' = NoMut
    /\ inbox' = IF up THEN inbox \cup {Interrupt} ELSE inbox

Quiet == UNCHANGED <<daemon, fields, mutex, todo, turn, me, dchan, up>>

\* The mutation has done what it was for, or the state went elsewhere.
SettleMutation ==
    /\ Outstanding
    /\ LET arrived == IF mut = SYNCtoINIT THEN runState = "INIT" ELSE dsc.state = mut.t
           moved   == IF mut = SYNCtoINIT THEN dsc.state # IDLE ELSE dsc.state # mut.f
       IN  \/ arrived /\ mut' = NoMut /\ UNCHANGED inbox
           \/ ~ arrived /\ moved /\ InterruptMutation
    /\ UNCHANGED <<cfg, goal, dsc, runState, left>> /\ Quiet

\* The mutation took too long.
TimeoutMutation ==
    /\ Outstanding /\ Spend("timeout")
    /\ InterruptMutation
    /\ IF mut = SYNCtoINIT
       THEN runState = "SYNC" /\ runState' = "ERROR" /\ UNCHANGED dsc
       ELSE dsc.state = mut.f /\ dsc' = [dsc EXCEPT !.state = mut.failto] /\ UNCHANGED runState
    /\ UNCHANGED <<cfg, goal>> /\ Quiet

\* The operator changes the state the set is wanted in.
ChangeGoal ==
    /\ Spend("goal")
    /\ goal' = IF goal = IDLE THEN ACTIVE ELSE IDLE
    /\ IF Outstanding THEN InterruptMutation ELSE UNCHANGED <<mut, inbox>>
    /\ UNCHANGED <<cfg, dsc, runState>> /\ Quiet

\* The operator adds, removes or redefines an image.
ChangeConfig(n, want) ==
    /\ Spend("config")
    /\ cfg[n] = Absent => want # Absent
    /\ cfg' = [cfg EXCEPT ![n] = want]
    /\ inbox' = IF up THEN inbox \cup {CfgEvent(n)} ELSE inbox
    /\ UNCHANGED <<goal, dsc, runState, mut>> /\ Quiet

-----------------------------------------------------------------------------
(* The container daemon *)

Becomes(n, s) ==
    /\ daemon' = [daemon EXCEPT ![n] = s]
    /\ UNCHANGED <<engine, fields, mutex, work, up>>

ContainerRuns(n)  == daemon[n] = "starting" /\ Becomes(n, "running") /\ UNCHANGED left
ContainerExits(n) == daemon[n] = "stopping" /\ Becomes(n, "exited") /\ UNCHANGED left

ContainerDies(n) ==
    /\ daemon[n] \in {"starting", "running"}
    /\ Spend("death")
    /\ \E s \in {"exited", "dead"} : Becomes(n, s)

-----------------------------------------------------------------------------
(* The system *)

Preempt ==
    /\ turn # Nobody
    /\ Spend("preempt")
    /\ turn' = Nobody
    /\ UNCHANGED <<engine, daemon, fields, mutex, todo, me, inbox, dchan, up>>

Step(p) ==
    \/ ClearRunning(p) \/ SetRunning(p) \/ SetTarget(p)
    \/ SetAction(p) \/ ClearAction(p) \/ ClearAllActions(p)
    \/ ClearAllTriggers(p) \/ SetATrigger(p) \/ FireTriggers(p)
    \/ CreateImage(p) \/ TCreate(p) \/ DeleteImage(p)
    \/ ImageRaiseError(p) \/ TSetACTIVE(p) \/ TSetIDLE(p) \/ Mark(p)
    \/ CfgChange(p) \/ DscChange(p) \/ ActivateIfNew(p) \/ UnexpectedStateChange(p)
    \/ UpdateSetState(p) \/ DiscoverSet(p) \/ DiscoverINIT(p) \/ StopPolling(p)
    \/ ActivateAll(p) \/ ActivateImage(p) \/ Decide(p) \/ Begin(p)
    \/ IdleAll(p) \/ IdleImage(p)
    \/ Discover(p) \/ ListContainers(p) \/ ListContainersFails(p)
    \/ RecoverError(p) \/ Recovery(p) \/ Pause(p)

Engine == \/ Apply \/ SettleMutation
          \/ \E m \in Muts : RequestMutation(m)

Daemon == \E n \in Images : ContainerRuns(n) \/ ContainerExits(n)

Disturb == \/ Kill \/ TimeoutMutation \/ ChangeGoal \/ RequestINIT
           \/ \E n \in Images, want \in Wants \cup {Absent} : ChangeConfig(n, want)
           \/ \E n \in Images : ContainerDies(n)
           \/ \E new \in Config : UpdateConfig(new)

\* One goroutine runs at a time; the others, the engine and the daemon get their
\* turn when it yields.
Next == \/ Preempt
        \/ \E p \in Slots : (turn = p \/ Yielded) /\ Step(p)
        \/ /\ Yielded
           /\ \/ \E p \in Handlers, e \in inbox : Dispatch(p, e)
              \/ Poll \/ Restart \/ Engine \/ Daemon \/ Disturb

Spec == Init /\ [][Next]_vars

-----------------------------------------------------------------------------
(* Fairness *)

\* The engine, the daemon, the ticker and the goroutines keep going, whoever's turn
\* it is.  It is strong where others may get in between again and again: a Go mutex
\* hands itself over to a goroutine that starves, and every event gets a goroutine.
Fairness ==
    /\ WF_vars(Apply)
    /\ WF_vars(SettleMutation)
    /\ WF_vars(\E m \in Muts : RequestMutation(m))
    /\ WF_vars(Restart)
    /\ \A n \in Images : WF_vars(ContainerRuns(n) \/ ContainerExits(n))
    /\ WF_vars(Poll)
    /\ WF_vars(Step(Poller))
    /\ \A p \in Handlers : SF_vars(Step(p))
    /\ SF_vars(\E p \in Handlers, e \in inbox : Dispatch(p, e))

FairSpec == Spec /\ Fairness

-----------------------------------------------------------------------------
(* Types *)

Op == {o \in [op : OpName, img : Images \cup {NoImage}, arg : Arg, state : ImageState,
              t : Trigger] :
         /\ o.op \in ImageOps => o.img \in Images
         /\ o.op \in {"setTrigger", "fire", "fireElse"} => o.arg \in ContainerState
         /\ o.op \in {"setAction", "mark", "decide", "begin"} => o.arg \in Action
         /\ o.op = "begin" => o.arg # "DELETE"}

MutationKind == {"SYNCtoINIT"} \cup {m.name : m \in Muts}

Event == [kind : {"CFG", "DSC"}, img : Images, sub : Sub, names : SUBSET Images]
         \cup [kind : {"INTERRUPT"} \cup MutationKind, img : {NoImage}, sub : {""},
               names : SUBSET Images]

Discovery == [url : {"State", "RunState"}, state : ImageState]

EngineTypes ==
    /\ cfg \in CfgMap
    /\ goal \in {IDLE, ACTIVE}
    /\ dsc \in DscSet
    /\ runState \in {"SYNC", "INIT", "ERROR"}
    /\ mut \in Muts \cup {SYNCtoINIT, NoMut}
    /\ daemon \in [Images -> Observed \cup {"starting", Absent}]
    /\ left \in [Disturbance -> Nat \cup {Unlimited}]

FieldTypes ==
    /\ conf \in Config
    /\ target \in ImageState
    /\ running \in BOOLEAN
    /\ actions \in [Images -> Action]
    /\ triggers \in [Images -> [ContainerState -> Seq(Trigger)]]
    /\ ticker \in BOOLEAN /\ polling \in BOOLEAN

WorkTypes ==
    /\ todo \in [Slots -> Seq(Op)]
    /\ turn \in Slots \cup {Nobody}
    /\ me \in [Slots -> Event \cup {NoEvent}]

TypeOK ==
    /\ EngineTypes /\ FieldTypes /\ WorkTypes
    /\ mutex \in Holding \cup {Nobody}
    /\ inbox \subseteq Event
    /\ dchan \in Seq(Discovery)
    /\ up \in BOOLEAN

-----------------------------------------------------------------------------
(* Safety *)

\* The part of discover and of mRecoverError between the first read and the write.
Critical(p) == At(p, "list") \/ At(p, "recovered")

\* is.mutex: a goroutine is in a critical section exactly when it holds the mutex.
\* discover unlocks on two paths and mRecoverError on one; a path that forgot to, or
\* unlocked twice, would leave the module locked or let a second goroutine in.
MutualExclusion ==
    \A p \in Slots : Critical(p) <=> mutex # Nobody /\ mutex.by = p

\* discover and mRecoverError write back the whole image map.  What they computed it
\* from is still what the engine has then: no write of one image (a raised error, a
\* trigger, a configuration change) is lost in between.
SnapshotCurrent ==
    mutex # Nobody => mutex.isd.images = dsc.images

\* The module's process never panics.
NoPanic == up

\* No goroutine has work left, no event, discovery or mutation is on its way.
Quiescent ==
    /\ up /\ inbox = {} /\ dchan = <<>> /\ mut = NoMut
    /\ \A p \in Slots : todo[p] = <<>>

\* When nothing is going on, the state of the set is the one updateSetState derives
\* from the images (discovery.go:108): no image's change was forgotten.
SetStateDerived ==
    Quiescent /\ Known(dsc.images) # {}
        => dsc.state = DerivedState(cfg, dsc.images, target)

\* When nothing is going on and the set is ACTIVE, every configured image is: "all
\* images running & ok" (imageapi.proto:28).
AllActive ==
    Quiescent /\ dsc.state = ACTIVE
        => \A n \in Configured(cfg) : dsc.images[n] # NoImage /\ dsc.images[n].state = ACTIVE

\* SYNCtoINIT is "a barrier against powering off a node if it's in use"
\* (imageapi.go:169): once the node is in INIT, the daemon runs no container, also none
\* that ran before the operator asked for IDLE.
Barrier ==
    runState = "INIT" => \A n \in Images : daemon[n] \notin {"starting", "running"}

\* Each image's state and retries follow the abstract life cycle of ImageLifecycle.
VerdictOf(img) ==
    IF img = NoImage THEN NoImage ELSE [state |-> img.state, retries |-> img.retries]

Verdicts == [n \in Images |-> VerdictOf(dsc.images[n])]

Lifecycle == INSTANCE ImageLifecycle WITH
    verdict <- Verdicts, limit <- conf.limit, Gone <- NoImage,
    met <- IF mutex = Nobody THEN {} ELSE mutex.limits

FollowsLifecycle == Lifecycle!VerdictSpec

-----------------------------------------------------------------------------
(* Liveness *)

\* The set is ACTIVE, and so is every configured image, over a container as asked for.
ReachedACTIVE ==
    /\ dsc.state = ACTIVE
    /\ \A n \in Configured(cfg) :
         dsc.images[n] # NoImage /\ dsc.images[n].state = ACTIVE /\ daemon[n] = cfg[n]

\* A node that is left alone from its cold start on becomes ACTIVE when it is asked to,
\* and stays so with its images and their containers: the chain mutation, action,
\* container, discovery, trigger, derived state loses no link, whichever order the
\* goroutines of its events and polls take.
ColdStartConverges ==
    [](goal = ACTIVE /\ runState = "SYNC") /\ Configured(cfg) # {} => <>[]ReachedACTIVE

\* No goroutine waits for the mutex or for the discovery channel forever: each has its
\* work done again and again, whichever of its calls fail.
GoroutinesFinish ==
    \A p \in Slots : []<>(todo[p] = <<>>)

\* The container state the engine knows, where an image without one has none.
KnownAs(n) ==
    IF dsc.images[n] = NoImage \/ dsc.images[n].ctn \in {"DELETED", NilContainer}
    THEN Absent ELSE dsc.images[n].ctn

\* On a node in SYNC, without an UpdateConfig (which may stop the polls), the engine
\* learns what each container is: also one that an earlier life of the process created,
\* also one of an image that is not configured any more.
ContainersLearned ==
    [](runState = "SYNC") => \A n \in Images : []<>(KnownAs(n) = Listed[n])

=============================================================================
