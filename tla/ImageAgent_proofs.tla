-------------------------- MODULE ImageAgent_proofs ---------------------------
(***************************************************************************)
(* Proofs about ImageAgent, for every value of its constants: the types,    *)
(* the mutual exclusion of discover and mRecoverError, and that what they   *)
(* write back was computed from the current image map.                      *)
(***************************************************************************)
EXTENDS ImageAgent, FiniteSetTheorems, SequenceTheorems, TLAPS

-----------------------------------------------------------------------------
(* The inductive invariant *)

\* The operations between a first read and the write that depends on it are only
\* ever the next operation of a goroutine, never one that it has yet to come to.
CriticalOps == {"list", "recovered"}
TameOp      == {o \in Op : o.op \notin CriticalOps}

Orderly == \A p \in Slots : todo[p] # <<>> => Tail(todo[p]) \in Seq(TameOp)

\* A process that is not running holds nothing.
DownIsIdle ==
    ~ up => /\ mutex = Nobody /\ inbox = {}
            /\ \A p \in Slots : todo[p] = <<>>

\* Whoever holds the mutex has met the limit that is configured.
LimitMet == mutex # Nobody => conf.limit \in mutex.limits

IInv == TypeOK /\ Orderly /\ DownIsIdle /\ LimitMet /\ MutualExclusion /\ SnapshotCurrent

-----------------------------------------------------------------------------
(* Types of what the actions are built from *)

OnState  == {"setTrigger", "fire", "fireElse"}
OnAction == {"setAction", "mark", "decide", "begin"}
Plain    == OpName \ (OnState \cup OnAction)

\* Which names of operations, arguments and triggers are among which.
LEMMA Names ==
    /\ "" \in Arg /\ UNKNOWN \in ImageState /\ "clearAction" \in Trigger
    /\ ContainerState \subseteq Arg /\ Action \subseteq Arg /\ Sub \subseteq Arg
    /\ CriticalOps \subseteq ModuleOps
    /\ ModuleOps \cap ImageOps = {}
    /\ ModuleOps \subseteq Plain
    /\ Trigger \subseteq ImageOps \cap Plain
    /\ {"delete", "create", "raiseError", "idle", "activate", "activateIfNew",
        "unexpected", "cfgChange", "dscChange"} \subseteq ImageOps \cap Plain
  BY DEF Arg, Sub, Action, ContainerState, Observed, Trigger, CriticalOps, ModuleOps,
         ImageOps, OpName, Plain, OnState, OnAction, ImageState, UNKNOWN, FATAL

\* Every operation that is built from typed arguments is one.
LEMMA OperationType ==
    ASSUME NEW o \in OpName, NEW n \in Images \cup {NoImage}, NEW a \in Arg,
           NEW s \in ImageState, NEW t \in Trigger,
           o \in ImageOps => n \in Images,
           o \in OnState => a \in ContainerState,
           o \in OnAction => a \in Action,
           o = "begin" => a # "DELETE"
    PROVE  Operation(o, n, a, s, t) \in Op /\ Operation(o, n, a, s, t).op = o
  BY DEF Op, Operation, OnState, OnAction

\* An operation on the whole module is well formed with whatever state it gets.
LEMMA ModuleCall ==
    ASSUME NEW o \in ModuleOps, NEW s \in ImageState
    PROVE  /\ Call(o) \in Op /\ Call(o).op = o
           /\ CallWith(o, s) \in Op /\ CallWith(o, s).op = o
  <1>1. o \in OpName /\ o \notin ImageOps
    BY Names DEF OpName
  <1>2. o \notin OnState /\ o \notin OnAction /\ o # "begin"
    BY Names DEF Plain, OnAction
  <1>3. ASSUME NEW s1 \in ImageState
        PROVE  /\ Operation(o, NoImage, "", s1, "clearAction") \in Op
               /\ Operation(o, NoImage, "", s1, "clearAction").op = o
    <2>1. "" \in Arg /\ "clearAction" \in Trigger /\ NoImage \in Images \cup {NoImage}
      BY Names
    <2> QED
      BY <1>1, <1>2, <2>1, OperationType
  <1> QED
    BY <1>3, Names DEF Call, CallWith

\* ... and is tame unless it is one of the two critical ones.
LEMMA TameCall ==
    ASSUME NEW o \in ModuleOps \ CriticalOps, NEW s \in ImageState
    PROVE  Call(o) \in TameOp /\ CallWith(o, s) \in TameOp
  BY ModuleCall DEF TameOp

\* An operation on an image with an argument it takes is well formed and tame.
LEMMA TameCallOn ==
    ASSUME NEW n \in Images, NEW o \in ImageOps, NEW a \in Arg,
           o \in OnState => a \in ContainerState,
           o \in OnAction => a \in Action,
           o = "begin" => a # "DELETE"
    PROVE  CallOnWith(o, n, a) \in TameOp
  <1>1. o \in OpName /\ o \notin CriticalOps
    BY Names DEF OpName
  <1>2. "clearAction" \in Trigger /\ UNKNOWN \in ImageState
        /\ n \in Images \cup {NoImage}
    BY Names
  <1>3. /\ Operation(o, n, a, UNKNOWN, "clearAction") \in Op
        /\ Operation(o, n, a, UNKNOWN, "clearAction").op = o
    BY <1>1, <1>2, OperationType
  <1> QED
    BY <1>1, <1>3 DEF TameOp, CallOnWith

\* An operation on an image that takes no argument is well formed and tame.
LEMMA TamePlainCallOn ==
    ASSUME NEW n \in Images, NEW o \in ImageOps \cap Plain
    PROVE  CallOn(o, n) \in TameOp /\ \A a \in Arg : CallOnWith(o, n, a) \in TameOp
  <1>1. o \notin OnState /\ o \notin OnAction /\ o # "begin"
    BY DEF Plain, OnAction
  <1>2. \A a \in Arg : CallOnWith(o, n, a) \in TameOp
    BY <1>1, TameCallOn
  <1>3. CallOn(o, n) = CallOnWith(o, n, "")
    BY DEF CallOn, CallOnWith
  <1> QED
    BY <1>2, <1>3, Names

\* Setting a trigger for a container state is well formed and tame.
LEMMA TameSetTrigger ==
    ASSUME NEW n \in Images, NEW c \in ContainerState, NEW t \in Trigger
    PROVE  SetTrigger(n, c, t) \in TameOp
  <1>1. "setTrigger" \in OpName /\ "setTrigger" \notin CriticalOps
        /\ "setTrigger" \in ImageOps /\ "setTrigger" \notin OnAction
    BY DEF OpName, ImageOps, CriticalOps, OnAction
  <1>2. UNKNOWN \in ImageState /\ c \in Arg /\ n \in Images \cup {NoImage}
    BY Names
  <1>3. /\ Operation("setTrigger", n, c, UNKNOWN, t) \in Op
        /\ Operation("setTrigger", n, c, UNKNOWN, t).op = "setTrigger"
    BY <1>1, <1>2, OperationType
  <1> QED
    BY <1>1, <1>3 DEF TameOp, SetTrigger

-----------------------------------------------------------------------------
(* A goroutine's work *)

\* The work of p after it went on with ops.
LEMMA WorkAfter ==
    ASSUME WorkTypes, Orderly, NEW p \in Slots, todo[p] # <<>>,
           NEW ops \in Seq(Op), Then(p, ops)
    PROVE  /\ WorkTypes'
           /\ todo' = [todo EXCEPT ![p] = ops \o Tail(todo[p])]
           /\ Tail(todo[p]) \in Seq(TameOp)
  <1>1. Tail(todo[p]) \in Seq(TameOp) /\ Tail(todo[p]) \in Seq(Op)
    BY SeqMonotonic DEF Orderly, TameOp
  <1>2. ops \o Tail(todo[p]) \in Seq(Op)
    BY <1>1, ConcatProperties
  <1>3. todo' = [todo EXCEPT ![p] = ops \o Tail(todo[p])]
    BY DEF Then
  <1>4. todo' \in [Slots -> Seq(Op)]
    BY <1>2, <1>3 DEF WorkTypes
  <1>5. turn' \in Slots \cup {Nobody}
    BY DEF Then
  <1>6. me' \in [Slots -> Event \cup {NoEvent}]
    BY DEF Then, WorkTypes
  <1> QED
    BY <1>1, <1>3, <1>4, <1>5, <1>6 DEF WorkTypes

\* Going on with tame operations leaves p outside every critical section.
LEMMA TameWork ==
    ASSUME WorkTypes, Orderly, NEW p \in Slots, todo[p] # <<>>,
           NEW ops \in Seq(TameOp), Then(p, ops)
    PROVE  /\ WorkTypes' /\ Orderly' /\ ~ Critical(p)'
           /\ \A q \in Slots \ {p} : Critical(q)' <=> Critical(q)
  <1>1. ops \in Seq(Op)
    BY SeqMonotonic DEF TameOp
  <1>2. /\ WorkTypes' /\ Tail(todo[p]) \in Seq(TameOp)
        /\ todo' = [todo EXCEPT ![p] = ops \o Tail(todo[p])]
    BY <1>1, WorkAfter
  <1>3. todo'[p] \in Seq(TameOp) /\ \A q \in Slots \ {p} : todo'[q] = todo[q]
    <2>1. ops \o Tail(todo[p]) \in Seq(TameOp)
      BY <1>2, ConcatProperties
    <2> QED
      BY <1>2, <2>1 DEF WorkTypes
  <1>4. todo'[p] # <<>> => /\ Head(todo'[p]) \in TameOp
                           /\ Tail(todo'[p]) \in Seq(TameOp)
    BY <1>3, HeadTailProperties
  <1>5. Orderly'
    BY <1>3, <1>4 DEF Orderly
  <1>6. ~ Critical(p)'
    BY <1>4 DEF Critical, At, TameOp, CriticalOps
  <1>7. \A q \in Slots \ {p} : Critical(q)' <=> Critical(q)
    BY <1>3 DEF Critical, At
  <1> QED
    BY <1>2, <1>5, <1>6, <1>7

\* Going on with a critical operation alone puts p into a critical section.
LEMMA CriticalWork ==
    ASSUME WorkTypes, Orderly, NEW p \in Slots, todo[p] # <<>>,
           NEW o \in Op, o.op \in CriticalOps, Then(p, <<o>>)
    PROVE  /\ WorkTypes' /\ Orderly' /\ Critical(p)'
           /\ \A q \in Slots \ {p} : Critical(q)' <=> Critical(q)
  <1>1. /\ WorkTypes' /\ Tail(todo[p]) \in Seq(TameOp)
        /\ todo' = [todo EXCEPT ![p] = <<o>> \o Tail(todo[p])]
    <2>1. <<o>> \in Seq(Op)
      OBVIOUS
    <2> QED
      BY <2>1, WorkAfter
  <1>2. todo'[p] = <<o>> \o Tail(todo[p]) /\ \A q \in Slots \ {p} : todo'[q] = todo[q]
    BY <1>1 DEF WorkTypes
  <1>3. todo'[p] # <<>> /\ Head(todo'[p]) = o /\ Tail(todo'[p]) = Tail(todo[p])
    <2>1. Tail(todo[p]) \in Seq(Op) /\ <<o>> \in Seq(Op)
      BY <1>1, SeqMonotonic DEF TameOp
    <2> QED
      BY <1>2, <2>1
  <1>4. Orderly'
    BY <1>1, <1>2, <1>3 DEF Orderly
  <1>5. Critical(p)'
    BY <1>3 DEF Critical, At, CriticalOps
  <1>6. \A q \in Slots \ {p} : Critical(q)' <=> Critical(q)
    BY <1>2 DEF Critical, At
  <1> QED
    BY <1>1, <1>4, <1>5, <1>6

-----------------------------------------------------------------------------
(* Steps outside the critical sections *)

\* p executes an operation that is not critical.
LEMMA Working ==
    ASSUME IInv, NEW p \in Slots, NEW o, o \notin CriticalOps, At(p, o)
    PROVE  /\ todo[p] # <<>> /\ ~ Critical(p) /\ up
           /\ Head(todo[p]) \in TameOp /\ Head(todo[p]).op = o
  <1>1. todo[p] # <<>> /\ Head(todo[p]).op = o
    BY DEF At
  <1>2. Head(todo[p]) \in Op
    BY <1>1, HeadTailProperties DEF IInv, TypeOK, WorkTypes
  <1>3. up
    BY <1>1 DEF IInv, DownIsIdle, TypeOK
  <1> QED
    BY <1>1, <1>2, <1>3 DEF Critical, At, CriticalOps, TameOp

\* A step outside the critical sections that goes on with tame operations keeps the
\* invariant if it writes images only while the mutex is free.
LEMMA Goes ==
    ASSUME IInv, NEW p \in Slots, todo[p] # <<>>, ~ Critical(p), up,
           NEW ops \in Seq(TameOp), Then(p, ops),
           EngineTypes', FieldTypes', inbox' \subseteq Event, dchan' \in Seq(Discovery),
           UNCHANGED <<mutex, conf, up>>,
           mutex = Nobody \/ dsc'.images = dsc.images
    PROVE  IInv'
  <1>1. /\ WorkTypes' /\ Orderly' /\ ~ Critical(p)'
        /\ \A q \in Slots \ {p} : Critical(q)' <=> Critical(q)
    BY TameWork DEF IInv, TypeOK
  <1>2. TypeOK'
    BY <1>1 DEF IInv, TypeOK, Holding
  <1>3. DownIsIdle' /\ LimitMet'
    BY DEF DownIsIdle, IInv, LimitMet
  <1>4. MutualExclusion'
    BY <1>1 DEF IInv, MutualExclusion
  <1>5. SnapshotCurrent'
    BY DEF IInv, SnapshotCurrent
  <1> QED
    BY <1>1, <1>2, <1>3, <1>4, <1>5 DEF IInv

\* A step that only reads.
LEMMA ReadGoes ==
    ASSUME IInv, NEW p \in Slots, todo[p] # <<>>, ~ Critical(p), up,
           NEW ops \in Seq(TameOp), Read(p, ops)
    PROVE  IInv'
  <1>1. /\ Then(p, ops)
        /\ UNCHANGED <<cfg, goal, dsc, runState, mut, daemon, left, conf, target, running,
                       actions, triggers, ticker, polling, mutex, inbox, dchan, up>>
    BY DEF Read, engine, fields
  <1>2. EngineTypes' /\ FieldTypes' /\ inbox' \subseteq Event /\ dchan' \in Seq(Discovery)
    BY <1>1 DEF IInv, TypeOK, EngineTypes, FieldTypes
  <1> QED
    BY <1>1, <1>2, Goes

\* The module's process dies.
LEMMA GoneSafe ==
    ASSUME IInv, ProcessGone, conf' = conf, EngineTypes'
    PROVE  IInv'
  <1>1. /\ up' = FALSE /\ mutex' = Nobody /\ inbox' = {} /\ dchan' = <<>>
        /\ todo' = [p \in Slots |-> <<>>] /\ turn' = Nobody
        /\ me' = [p \in Slots |-> NoEvent]
        /\ target' = UNKNOWN /\ running' = FALSE /\ actions' = NoActions
        /\ triggers' = NoTriggers /\ ticker' = FALSE /\ polling' = FALSE
    BY DEF ProcessGone
  <1>2. FieldTypes'
    <2>0. conf' \in Config
      BY DEF IInv, TypeOK, FieldTypes
    <2>1. <<>> \in Seq(Trigger)
      OBVIOUS
    <2>2. NoTriggers \in [Images -> [ContainerState -> Seq(Trigger)]]
      BY <2>1 DEF NoTriggers
    <2>3. NoActions \in [Images -> Action]
      BY DEF NoActions, Action
    <2> QED
      BY <1>1, <2>0, <2>2, <2>3, Names DEF FieldTypes
  <1>3. WorkTypes'
    BY <1>1 DEF WorkTypes
  <1>4. TypeOK'
    <2>1. <<>> \in Seq(Discovery)
      OBVIOUS
    <2> QED
      BY <1>1, <1>2, <1>3, <2>1 DEF TypeOK
  <1>5. Orderly' /\ DownIsIdle' /\ LimitMet' /\ MutualExclusion' /\ SnapshotCurrent'
    BY <1>1 DEF Orderly, DownIsIdle, LimitMet, MutualExclusion, Critical, At, SnapshotCurrent
  <1> QED
    BY <1>4, <1>5 DEF IInv

\* A panic preserves the invariant: nothing is left that could break it.
LEMMA PanicSafe ==
    ASSUME IInv, Panic
    PROVE  IInv'
  BY GoneSafe DEF Panic, engine, IInv, TypeOK, EngineTypes

-----------------------------------------------------------------------------
(* The module's fields *)

\* A step that changes only the fields target, running, actions and triggers.
LEMMA FieldGoes ==
    ASSUME IInv, NEW p \in Slots, todo[p] # <<>>, ~ Critical(p), up,
           NEW ops \in Seq(TameOp), Then(p, ops), FieldTypes',
           UNCHANGED <<engine, daemon, conf, up, left, mutex, inbox, dchan>>
    PROVE  IInv'
  <1>1. EngineTypes' /\ inbox' \subseteq Event /\ dchan' \in Seq(Discovery)
        /\ UNCHANGED <<dsc, mutex, conf, up>>
    BY DEF IInv, TypeOK, EngineTypes, engine
  <1> QED
    BY <1>1, Goes

\* The empty sequence of operations is one of tame operations.
LEMMA NoOps == <<>> \in Seq(TameOp)
  OBVIOUS

\* The types of the module's fields, from the invariant.
LEMMA FieldTypesNow ==
    ASSUME IInv
    PROVE  FieldTypes /\ NoActions \in [Images -> Action]
           /\ NoTriggers \in [Images -> [ContainerState -> Seq(Trigger)]]
  <1>1. <<>> \in Seq(Trigger)
    OBVIOUS
  <1> QED
    BY <1>1 DEF IInv, TypeOK, NoActions, NoTriggers, Action

\* clearRunning preserves the invariant.
LEMMA ClearRunningSafe ==
    ASSUME IInv, NEW p \in Slots, ClearRunning(p)
    PROVE  IInv'
  <1>1. todo[p] # <<>> /\ ~ Critical(p) /\ up /\ Head(todo[p]) \in TameOp
        /\ Head(todo[p]).op = "clearRunning"
    BY Working DEF ClearRunning, CriticalOps
  <1>2. Then(p, <<>>) /\ UNCHANGED <<engine, daemon, conf, up, left, mutex, inbox, dchan>>
    BY DEF ClearRunning, Outside
  <1>4. FieldTypes'
    BY FieldTypesNow DEF ClearRunning, Outside, FieldTypes
  <1> QED
    BY <1>1, <1>2, <1>4, NoOps, FieldGoes

\* setRunning preserves the invariant.
LEMMA SetRunningSafe ==
    ASSUME IInv, NEW p \in Slots, SetRunning(p)
    PROVE  IInv'
  <1>1. todo[p] # <<>> /\ ~ Critical(p) /\ up /\ Head(todo[p]) \in TameOp
        /\ Head(todo[p]).op = "setRunning"
    BY Working DEF SetRunning, CriticalOps
  <1>2. Then(p, <<>>) /\ UNCHANGED <<engine, daemon, conf, up, left, mutex, inbox, dchan>>
    BY DEF SetRunning, Outside
  <1>4. FieldTypes'
    BY FieldTypesNow DEF SetRunning, Outside, FieldTypes
  <1> QED
    BY <1>1, <1>2, <1>4, NoOps, FieldGoes

\* An assignment of is.target preserves the invariant.
LEMMA SetTargetSafe ==
    ASSUME IInv, NEW p \in Slots, SetTarget(p)
    PROVE  IInv'
  <1>1. todo[p] # <<>> /\ ~ Critical(p) /\ up /\ Head(todo[p]) \in TameOp
        /\ Head(todo[p]).op = "setTarget"
    BY Working DEF SetTarget, CriticalOps
  <1>2. Then(p, <<>>) /\ UNCHANGED <<engine, daemon, conf, up, left, mutex, inbox, dchan>>
    BY DEF SetTarget, Outside
  <1>3. Goal(p) \in ImageState
    BY <1>1 DEF Goal, TameOp, Op
  <1>4. FieldTypes'
    BY <1>3, FieldTypesNow DEF SetTarget, Outside, FieldTypes
  <1> QED
    BY <1>1, <1>2, <1>4, NoOps, FieldGoes

\* setAction preserves the invariant.
LEMMA SetActionSafe ==
    ASSUME IInv, NEW p \in Slots, SetAction(p)
    PROVE  IInv'
  <1>1. todo[p] # <<>> /\ ~ Critical(p) /\ up /\ Head(todo[p]) \in TameOp
        /\ Head(todo[p]).op = "setAction"
    BY Working DEF SetAction, CriticalOps
  <1>2. Then(p, <<>>) /\ UNCHANGED <<engine, daemon, conf, up, left, mutex, inbox, dchan>>
    BY DEF SetAction, Outside
  <1>3. Par(p) \in Action
    BY <1>1 DEF Par, TameOp, Op
  <1>4. FieldTypes'
    BY <1>3, FieldTypesNow DEF SetAction, Outside, FieldTypes
  <1> QED
    BY <1>1, <1>2, <1>4, NoOps, FieldGoes

\* clearAction preserves the invariant.
LEMMA ClearActionSafe ==
    ASSUME IInv, NEW p \in Slots, ClearAction(p)
    PROVE  IInv'
  <1>1. todo[p] # <<>> /\ ~ Critical(p) /\ up /\ Head(todo[p]) \in TameOp
        /\ Head(todo[p]).op = "clearAction"
    BY Working DEF ClearAction, CriticalOps
  <1>2. Then(p, <<>>) /\ UNCHANGED <<engine, daemon, conf, up, left, mutex, inbox, dchan>>
    BY DEF ClearAction, Outside
  <1>3. "NONE" \in Action
    BY DEF Action
  <1>4. FieldTypes'
    BY <1>3, FieldTypesNow DEF ClearAction, Outside, FieldTypes
  <1> QED
    BY <1>1, <1>2, <1>4, NoOps, FieldGoes

\* clearAllActions preserves the invariant.
LEMMA ClearAllActionsSafe ==
    ASSUME IInv, NEW p \in Slots, ClearAllActions(p)
    PROVE  IInv'
  <1>1. todo[p] # <<>> /\ ~ Critical(p) /\ up /\ Head(todo[p]) \in TameOp
        /\ Head(todo[p]).op = "clearAllActions"
    BY Working DEF ClearAllActions, CriticalOps
  <1>2. Then(p, <<>>) /\ UNCHANGED <<engine, daemon, conf, up, left, mutex, inbox, dchan>>
    BY DEF ClearAllActions, Outside
  <1>4. FieldTypes'
    BY FieldTypesNow DEF ClearAllActions, Outside, FieldTypes
  <1> QED
    BY <1>1, <1>2, <1>4, NoOps, FieldGoes

\* clearAllTriggers preserves the invariant.
LEMMA ClearAllTriggersSafe ==
    ASSUME IInv, NEW p \in Slots, ClearAllTriggers(p)
    PROVE  IInv'
  <1>1. todo[p] # <<>> /\ ~ Critical(p) /\ up /\ Head(todo[p]) \in TameOp
        /\ Head(todo[p]).op = "clearAllTriggers"
    BY Working DEF ClearAllTriggers, CriticalOps
  <1>2. Then(p, <<>>) /\ UNCHANGED <<engine, daemon, conf, up, left, mutex, inbox, dchan>>
    BY DEF ClearAllTriggers, Outside
  <1>4. FieldTypes'
    BY FieldTypesNow DEF ClearAllTriggers, Outside, FieldTypes
  <1> QED
    BY <1>1, <1>2, <1>4, NoOps, FieldGoes

\* setTrigger preserves the invariant.
LEMMA SetATriggerSafe ==
    ASSUME IInv, NEW p \in Slots, SetATrigger(p)
    PROVE  IInv'
  <1>1. todo[p] # <<>> /\ ~ Critical(p) /\ up /\ Head(todo[p]) \in TameOp
        /\ Head(todo[p]).op = "setTrigger"
    BY Working DEF SetATrigger, CriticalOps
  <1>2. Then(p, <<>>) /\ UNCHANGED <<engine, daemon, conf, up, left, mutex, inbox, dchan>>
    BY DEF SetATrigger, Outside
  <1>3. Img(p) \in Images /\ Par(p) \in ContainerState /\ Head(todo[p]).t \in Trigger
    BY <1>1 DEF Img, Par, TameOp, Op, ImageOps
  <1>4. FieldTypes'
    BY <1>3, AppendProperties, FieldTypesNow DEF SetATrigger, Outside, FieldTypes
  <1> QED
    BY <1>1, <1>2, <1>4, NoOps, FieldGoes

\* The image an operation is called on.
LEMMA OnImage ==
    ASSUME NEW p \in Slots, Head(todo[p]) \in TameOp, Head(todo[p]).op \in ImageOps
    PROVE  Img(p) \in Images
  BY DEF Img, TameOp, Op

\* fireTriggers preserves the invariant: what it calls are tame operations.
LEMMA FireTriggersSafe ==
    ASSUME IInv, NEW p \in Slots, FireTriggers(p)
    PROVE  IInv'
  <1> DEFINE n == Img(p)
             ts == triggers[n][Par(p)]
             ops == IF ts = <<>> /\ At(p, "fireElse")
                    THEN <<CallOn("unexpected", n)>>
                    ELSE [i \in DOMAIN ts |-> CallOn(ts[i], n)]
  <1>1. todo[p] # <<>> /\ ~ Critical(p) /\ up /\ Head(todo[p]) \in TameOp
        /\ Head(todo[p]).op \in {"fire", "fireElse"}
    BY Working DEF FireTriggers, CriticalOps
  <1>2. n \in Images /\ Par(p) \in ContainerState
    BY <1>1 DEF Img, Par, TameOp, Op, ImageOps
  <1>3. ts \in Seq(Trigger)
    BY <1>2, FieldTypesNow DEF FieldTypes
  <1>4. ops \in Seq(TameOp)
    <2>1. CallOn("unexpected", n) \in TameOp
      BY <1>2, TamePlainCallOn, Names
    <2>2. \A i \in 1 .. Len(ts) : CallOn(ts[i], n) \in TameOp
      BY <1>2, <1>3, ElementOfSeq, TamePlainCallOn, Names
    <2>3. [i \in 1 .. Len(ts) |-> CallOn(ts[i], n)] \in Seq(TameOp)
      BY <1>3, <2>2, LenProperties, IsASeq
    <2>4. DOMAIN ts = 1 .. Len(ts)
      BY <1>3, LenProperties
    <2> QED
      BY <2>1, <2>3, <2>4
  <1>5. /\ Then(p, ops) /\ UNCHANGED <<engine, daemon, conf, up, left, mutex, inbox, dchan>>
        /\ triggers' = [triggers EXCEPT ![n][Par(p)] = <<>>]
        /\ UNCHANGED <<conf, target, running, actions, ticker, polling>>
    BY DEF FireTriggers, Outside
  <1>6. FieldTypes'
    <2>1. <<>> \in Seq(Trigger)
      OBVIOUS
    <2> QED
      BY <1>2, <1>5, <2>1, FieldTypesNow DEF FieldTypes
  <1> HIDE DEF ops
  <1> QED
    BY <1>1, <1>4, <1>5, <1>6, FieldGoes

-----------------------------------------------------------------------------
(* Calls to the daemon *)

\* A step that changes only the daemon and the bounds.
LEMMA DaemonGoes ==
    ASSUME IInv, NEW p \in Slots, todo[p] # <<>>, ~ Critical(p), up,
           NEW ops \in Seq(TameOp), Then(p, ops), Only(p),
           daemon' \in [Images -> Observed \cup {"starting", Absent}],
           left' \in [Disturbance -> Nat \cup {Unlimited}]
    PROVE  IInv'
  <1>1. UNCHANGED <<cfg, goal, dsc, runState, mut, conf, target, running, actions, triggers,
                    ticker, polling, mutex, inbox, dchan, up>>
    BY DEF Only, engine, fields
  <1>2. EngineTypes' /\ FieldTypes' /\ inbox' \subseteq Event /\ dchan' \in Seq(Discovery)
    BY <1>1 DEF IInv, TypeOK, EngineTypes, FieldTypes
  <1> QED
    BY <1>1, <1>2, Goes

\* The call of imageRaiseError that follows a failed call is tame.
LEMMA RaisingError ==
    ASSUME NEW n \in Images
    PROVE  <<CallOn("raiseError", n)>> \in Seq(TameOp)
  <1>1. CallOn("raiseError", n) \in TameOp
    BY TamePlainCallOn, Names
  <1> QED
    BY <1>1

\* Spending a disturbance leaves the budget a budget.
LEMMA SpendType ==
    ASSUME IInv, NEW k \in Disturbance, Spend(k)
    PROVE  left' \in [Disturbance -> Nat \cup {Unlimited}]
  BY DEF Spend, IInv, TypeOK, EngineTypes

\* A failing call leaves the daemon alone and the budget a budget.
LEMMA CallFailsType ==
    ASSUME IInv, NEW refused \in BOOLEAN, CallFails(refused)
    PROVE  daemon' = daemon /\ left' \in [Disturbance -> Nat \cup {Unlimited}]
  <1>1. "call" \in Disturbance
    BY DEF Disturbance
  <1>2. CASE refused
    BY <1>2 DEF CallFails, IInv, TypeOK, EngineTypes
  <1>3. CASE ~ refused
    BY <1>1, <1>3, SpendType DEF CallFails
  <1> QED
    BY <1>2, <1>3

\* A call of CreateContainer preserves the invariant.
LEMMA CreateSafe ==
    ASSUME IInv, NEW p \in Slots, todo[p] # <<>>, ~ Critical(p), up,
           NEW n \in Images, NEW want, Create(p, n, want)
    PROVE  IInv'
  <1>1. <<CallOn("raiseError", n)>> \in Seq(TameOp)
    BY RaisingError
  <1>2. daemon \in [Images -> Observed \cup {"starting", Absent}]
        /\ left \in [Disturbance -> Nat \cup {Unlimited}]
    BY DEF IInv, TypeOK, EngineTypes
  <1>3. CASE /\ daemon' = [daemon EXCEPT ![n] =
                              IF want = "running" THEN "starting" ELSE "created"]
             /\ Then(p, <<>>) /\ UNCHANGED left /\ Only(p)
    <2>1. daemon' \in [Images -> Observed \cup {"starting", Absent}] /\ left' = left
      BY <1>2, <1>3 DEF Observed
    <2> QED
      BY <1>2, <1>3, <2>1, NoOps, DaemonGoes
  <1>4. CASE /\ CallFails(~ (conf.server /\ daemon[n] = Absent))
             /\ Then(p, <<CallOn("raiseError", n)>>) /\ Only(p)
    <2>1. daemon' = daemon /\ left' \in [Disturbance -> Nat \cup {Unlimited}]
      BY <1>4, CallFailsType
    <2> QED
      BY <1>1, <1>2, <1>4, <2>1, DaemonGoes
  <1> QED
    BY <1>3, <1>4 DEF Create

\* createImage preserves the invariant.
LEMMA CreateImageSafe ==
    ASSUME IInv, NEW p \in Slots, CreateImage(p)
    PROVE  IInv'
  <1>1. todo[p] # <<>> /\ ~ Critical(p) /\ up /\ Img(p) \in Images
    BY Working, OnImage DEF CreateImage, CriticalOps, ImageOps
  <1> QED
    BY <1>1, CreateSafe DEF CreateImage

\* tCreate preserves the invariant, also where it panics.
LEMMA TCreateSafe ==
    ASSUME IInv, NEW p \in Slots, TCreate(p)
    PROVE  IInv'
  <1>1. todo[p] # <<>> /\ ~ Critical(p) /\ up /\ Img(p) \in Images
    BY Working, OnImage DEF TCreate, CriticalOps, ImageOps, Trigger
  <1> QED
    BY <1>1, CreateSafe, PanicSafe DEF TCreate

\* deleteImage and tDelete preserve the invariant.
LEMMA DeleteImageSafe ==
    ASSUME IInv, NEW p \in Slots, DeleteImage(p)
    PROVE  IInv'
  <1> DEFINE n      == Img(p)
             ctn    == IF dsc.images[n] = NoImage THEN "DELETED" ELSE dsc.images[n].ctn
             wait   == <<SetTrigger(n, "exited", "tDelete")>>
             failed == <<CallOn("raiseError", n)>>
  <1>1. todo[p] # <<>> /\ ~ Critical(p) /\ up /\ n \in Images
    BY Working, OnImage DEF DeleteImage, CriticalOps, ImageOps, Trigger
  <1>2. daemon \in [Images -> Observed \cup {"starting", Absent}]
        /\ left \in [Disturbance -> Nat \cup {Unlimited}]
    BY DEF IInv, TypeOK, EngineTypes
  <1>3. wait \in Seq(TameOp)
    <2>1. SetTrigger(n, "exited", "tDelete") \in TameOp
      BY <1>1, TameSetTrigger DEF ContainerState, Observed, Trigger
    <2> QED
      BY <2>1
  <1>4. failed \in Seq(TameOp) /\ failed \o wait \in Seq(TameOp)
    BY <1>1, <1>3, RaisingError, ConcatProperties
  <1>5. Only(p)
    BY DEF DeleteImage
  <1>6. \/ Then(p, <<>>) /\ UNCHANGED <<daemon, left>>
        \/ Then(p, wait) /\ UNCHANGED <<daemon, left>>
        \/ /\ daemon' = [daemon EXCEPT ![n] =
                           IF @ \in {"running", "starting"} THEN "stopping" ELSE @]
           /\ Then(p, wait) /\ UNCHANGED left
        \/ /\ daemon' = [daemon EXCEPT ![n] = Absent]
           /\ Then(p, <<>>) /\ UNCHANGED left
        \/ CallFails(~ conf.server \/ daemon[n] = Absent) /\ Then(p, failed \o wait)
        \/ CallFails(~ conf.server \/ daemon[n] \notin Deletable) /\ Then(p, failed)
    BY DEF DeleteImage
  <1>7. /\ daemon' \in [Images -> Observed \cup {"starting", Absent}]
        /\ left' \in [Disturbance -> Nat \cup {Unlimited}]
    BY <1>2, <1>6, CallFailsType DEF Observed
  <1>8. \E ops \in Seq(TameOp) : Then(p, ops)
    BY <1>3, <1>4, <1>6, NoOps
  <1> QED
    BY <1>1, <1>5, <1>7, <1>8, DaemonGoes

-----------------------------------------------------------------------------
(* Writing one image *)

\* The entries that the writers of one image leave behind.
LEMMA ImageTypes ==
    ASSUME NEW img \in Image \cup {NoImage}
    PROVE  /\ OrZero(img) \in Image
           /\ Raised(img) \in Image /\ Activated(img) \in Image /\ Idled(img) \in Image
           /\ \A a \in Action : Marked(img, a) \in Image
  <1>1. ZeroImage \in Image
    BY MaxRetriesAssumption DEF ZeroImage, Image, ContainerState, ImageState, UNKNOWN, FATAL,
                                Action
  <1>2. OrZero(img) \in Image
    BY <1>1 DEF OrZero
  <1>3. ERROR \in ImageState /\ ACTIVE \in ImageState /\ IDLE \in ImageState
        /\ UPDATE \in ImageState /\ 0 \in 0 .. MaxRetries + 1
        /\ "NONE" \in Action /\ "CREATE" \in Action
        /\ "DELETED" \in ContainerState
    BY MaxRetriesAssumption DEF ImageState, UNKNOWN, IDLE, ACTIVE, UPDATE, ERROR, FATAL,
                                Action, ContainerState
  <1>4. Raised(img) \in Image /\ Activated(img) \in Image /\ Idled(img) \in Image
    BY <1>2, <1>3 DEF Raised, Activated, Idled, Image
  <1>5. NewImage \in Image
    BY <1>3 DEF NewImage, Image
  <1>6. \A a \in Action : Marked(img, a) \in Image
    BY <1>2, <1>3, <1>5 DEF Marked, Image
  <1> QED
    BY <1>2, <1>4, <1>6

\* The engine reports only events about images.
LEMMA StoreTypes ==
    ASSUME IInv, NEW new \in DscSet, Store(new)
    PROVE  dsc' = new /\ dsc' \in DscSet /\ inbox' \subseteq Event
  <1>1. \A n \in Images, s \in Sub : DscEvent(n, s) \in Event
    BY DEF DscEvent, Event
  <1>2. Events(dsc.images, new.images) \subseteq Event
    BY <1>1 DEF Events
  <1> QED
    BY <1>2 DEF Store, IInv, TypeOK

\* A write of one image preserves the invariant: nobody holds the mutex then, so no
\* snapshot goes stale.
LEMMA WriteSafe ==
    ASSUME IInv, NEW p \in Slots, todo[p] # <<>>, ~ Critical(p), up, Img(p) \in Images,
           NEW img \in Image, Write(p, img)
    PROVE  IInv'
  <1> DEFINE new == [dsc EXCEPT !.images[Img(p)] = img]
  <1>1. new \in DscSet
    BY DEF IInv, TypeOK, EngineTypes, DscSet, ImageMap
  <1>2. /\ Store(new) /\ Then(p, <<>>) /\ mutex = Nobody
        /\ UNCHANGED <<cfg, goal, runState, mut, daemon, conf, target, running, actions,
                       triggers, ticker, polling, mutex, dchan, up, left>>
    BY DEF Write, WriteUnlocked, StoreImage, Locking, fields
  <1>3. dsc' \in DscSet /\ inbox' \subseteq Event
    BY <1>1, <1>2, StoreTypes
  <1>4. EngineTypes' /\ FieldTypes' /\ dchan' \in Seq(Discovery)
    BY <1>2, <1>3 DEF IInv, TypeOK, EngineTypes, FieldTypes
  <1> QED
    BY <1>2, <1>3, <1>4, NoOps, Goes

\* imageRaiseError, tSetACTIVE, tSetIDLE and cfgChange's write preserve the invariant.
LEMMA WritesSafe ==
    ASSUME IInv, NEW p \in Slots,
           ImageRaiseError(p) \/ TSetACTIVE(p) \/ TSetIDLE(p) \/ Mark(p)
    PROVE  IInv'
  <1>1. todo[p] # <<>> /\ ~ Critical(p) /\ up /\ Head(todo[p]) \in TameOp
        /\ Head(todo[p]).op \in {"raiseError", "tSetACTIVE", "tSetIDLE", "mark"}
    BY Working DEF ImageRaiseError, TSetACTIVE, TSetIDLE, Mark, CriticalOps
  <1>2. Img(p) \in Images
    BY <1>1, OnImage DEF ImageOps, Trigger
  <1>3. Old(p) \in Image \cup {NoImage}
    BY <1>2 DEF Old, IInv, TypeOK, EngineTypes, DscSet, ImageMap
  <1>4. CASE Mark(p)
    <2>1. Par(p) \in Action
      BY <1>1, <1>4 DEF Mark, At, Par, TameOp, Op
    <2> QED
      BY <1>1, <1>2, <1>3, <1>4, <2>1, ImageTypes, WriteSafe DEF Mark
  <1>5. CASE ImageRaiseError(p) \/ TSetACTIVE(p) \/ TSetIDLE(p)
    BY <1>1, <1>2, <1>3, <1>5, ImageTypes, WriteSafe
    DEF ImageRaiseError, TSetACTIVE, TSetIDLE
  <1> QED
    BY <1>4, <1>5

-----------------------------------------------------------------------------
(* Handlers of events *)

\* Each image has its type, from the invariant.
LEMMA ImagesNow ==
    ASSUME IInv, NEW n \in Images
    PROVE  /\ dsc.images[n] \in Image \cup {NoImage} /\ cfg[n] \in Observed \cup {Absent}
           /\ mutex # Nobody => mutex.isd.images[n] \in Image \cup {NoImage}
  BY DEF IInv, TypeOK, EngineTypes, DscSet, ImageMap, CfgMap, Holding

\* cfgChange preserves the invariant.
LEMMA CfgChangeSafe ==
    ASSUME IInv, NEW p \in Slots, CfgChange(p)
    PROVE  IInv'
  <1> DEFINE mark(a) == <<CallOnWith("mark", Img(p), a)>>
             rest    == <<Call("updateSetState")>>
  <1>1. todo[p] # <<>> /\ ~ Critical(p) /\ up /\ Img(p) \in Images
    BY Working, OnImage DEF CfgChange, CriticalOps, ImageOps
  <1>2. \A a \in {"CREATE", "DELETE", "RELOAD"} : CallOnWith("mark", Img(p), a) \in TameOp
    BY <1>1, TameCallOn, Names DEF Action, ImageOps, OnState
  <1>3. Call("updateSetState") \in TameOp
    BY TameCall, Names DEF ModuleOps, CriticalOps
  <1>4. /\ <<>> \o rest \in Seq(TameOp)
        /\ \A a \in {"CREATE", "DELETE", "RELOAD"} : mark(a) \o rest \in Seq(TameOp)
    BY <1>2, <1>3
  <1>5. \/ Read(p, <<>> \o rest)
        \/ \E a \in {"CREATE", "DELETE", "RELOAD"} : Read(p, mark(a) \o rest)
    BY DEF CfgChange
  <1> QED
    BY <1>1, <1>4, <1>5, ReadGoes

\* dscChange preserves the invariant.
LEMMA DscChangeSafe ==
    ASSUME IInv, NEW p \in Slots, DscChange(p)
    PROVE  IInv'
  <1> DEFINE n      == Img(p)
             img    == dsc.images[n]
             update == Call("updateSetState")
             moved  == <<CallOnWith("fireElse", n, img.ctn), update>>
             acting == <<CallOnWith("activateIfNew", n, img.action)>>
             gone   == img = NoImage \/ img.ctn = NilContainer
  <1>1. todo[p] # <<>> /\ ~ Critical(p) /\ up /\ n \in Images
    BY Working, OnImage DEF DscChange, CriticalOps, ImageOps
  <1>2. update \in TameOp
    BY TameCall, Names DEF ModuleOps, CriticalOps
  <1>3. <<CallOnWith("fire", n, "DELETED"), update>> \in Seq(TameOp)
    <2>1. "DELETED" \in ContainerState /\ "fire" \in ImageOps
          /\ "fire" \notin OnAction
      BY DEF ContainerState, ImageOps, OnAction
    <2>2. CallOnWith("fire", n, "DELETED") \in TameOp
      BY <1>1, <2>1, TameCallOn, Names
    <2> QED
      BY <1>2, <2>2
  <1>4. ASSUME ~ gone PROVE moved \in Seq(TameOp) /\ acting \in Seq(TameOp)
    <2>1. img \in Image /\ img.ctn \in ContainerState /\ img.action \in Action
      BY <1>1, <1>4, ImagesNow DEF Image
    <2>2. "fireElse" \in ImageOps /\ "fireElse" \notin OnAction
      BY DEF ImageOps, OnAction
    <2>3. CallOnWith("fireElse", n, img.ctn) \in TameOp
      BY <1>1, <2>1, <2>2, TameCallOn, Names
    <2>4. CallOnWith("activateIfNew", n, img.action) \in TameOp
      BY <1>1, <2>1, TamePlainCallOn, Names
    <2> QED
      BY <1>2, <2>3, <2>4
  <1>5. <<CallOn("activate", n)>> \in Seq(TameOp)
    <2>1. CallOn("activate", n) \in TameOp
      BY <1>1, TamePlainCallOn, Names
    <2> QED
      BY <2>1
  <1>6. <<update>> \in Seq(TameOp) /\ (~ gone => acting \o moved \in Seq(TameOp))
    BY <1>2, <1>4, ConcatProperties
  <1>7. \/ Read(p, <<CallOnWith("fire", n, "DELETED"), update>>)
        \/ Read(p, <<CallOn("activate", n)>>)
        \/ Read(p, <<update>>)
        \/ ~ gone /\ Read(p, moved)
        \/ ~ gone /\ Read(p, acting \o moved)
    BY DEF DscChange
  <1> HIDE DEF moved, acting, gone, update, n
  <1> QED
    BY <1>1, <1>3, <1>4, <1>5, <1>6, <1>7, ReadGoes

\* The call of activateImage is tame ...
LEMMA Activating ==
    ASSUME NEW n \in Images
    PROVE  <<CallOn("activate", n)>> \in Seq(TameOp)
  <1>1. CallOn("activate", n) \in TameOp
    BY TamePlainCallOn, Names
  <1> QED
    BY <1>1

\* ... and so are the two it goes on with for an action.
LEMMA Acting ==
    ASSUME NEW n \in Images, NEW a \in Action
    PROVE  /\ <<CallOnWith("decide", n, a)>> \in Seq(TameOp)
           /\ a # "DELETE" => <<CallOnWith("begin", n, a)>> \in Seq(TameOp)
  <1>1. /\ "decide" \in ImageOps /\ "decide" \notin OnState
        /\ "begin" \in ImageOps /\ "begin" \notin OnState
    BY DEF ImageOps, OnState
  <1>2. CallOnWith("decide", n, a) \in TameOp
    BY <1>1, TameCallOn, Names
  <1>3. a # "DELETE" => CallOnWith("begin", n, a) \in TameOp
    BY <1>1, TameCallOn, Names
  <1> QED
    BY <1>2, <1>3

\* activateImage up to its second wait, also where it panics, and its call for a new
\* action preserve the invariant.
LEMMA ActivateSafe ==
    ASSUME IInv, NEW p \in Slots, ActivateIfNew(p) \/ ActivateImage(p)
    PROVE  IInv'
  <1>1. todo[p] # <<>> /\ ~ Critical(p) /\ up /\ Img(p) \in Images
    BY Working, OnImage DEF ActivateIfNew, ActivateImage, CriticalOps, ImageOps
  <1>2. Old(p) \in Image \cup {NoImage} /\ (Old(p) # NoImage => Old(p).action \in Action)
    BY <1>1, ImagesNow DEF Old, Image
  <1>3. \/ Panic \/ Read(p, <<>>) \/ Read(p, <<CallOn("activate", Img(p))>>)
        \/ Old(p) # NoImage /\ Read(p, <<CallOnWith("decide", Img(p), Old(p).action)>>)
    BY DEF ActivateIfNew, ActivateImage
  <1>4. <<CallOn("activate", Img(p))>> \in Seq(TameOp)
    BY <1>1, Activating
  <1>5. ASSUME Old(p) # NoImage
        PROVE  <<CallOnWith("decide", Img(p), Old(p).action)>> \in Seq(TameOp)
    BY <1>1, <1>2, <1>5, Acting
  <1>6. CASE Panic
    BY <1>6, PanicSafe
  <1>7. CASE \E ops \in Seq(TameOp) : Read(p, ops)
    BY <1>1, <1>7, ReadGoes
  <1> QED
    BY <1>3, <1>4, <1>5, <1>6, <1>7, NoOps

\* The operations that undo a container are tame.
LEMMA DeletingType ==
    ASSUME NEW n \in Images
    PROVE  Deleting(n) \in Seq(TameOp)
  <1>1. CallOnWith("setAction", n, "DELETE") \in TameOp
    BY TameCallOn, Names DEF Action, ImageOps, OnState
  <1>2. CallOn("delete", n) \in TameOp
    BY TamePlainCallOn, Names
  <1>3. SetTrigger(n, "DELETED", "clearAction") \in TameOp
    BY TameSetTrigger, Names DEF ContainerState
  <1> QED
    BY <1>1, <1>2, <1>3 DEF Deleting

\* unexpectedStateChange preserves the invariant.
LEMMA UnexpectedStateChangeSafe ==
    ASSUME IInv, NEW p \in Slots, UnexpectedStateChange(p)
    PROVE  IInv'
  <1>1. todo[p] # <<>> /\ ~ Critical(p) /\ up /\ Img(p) \in Images
    BY Working, OnImage DEF UnexpectedStateChange, CriticalOps, ImageOps
  <1>2. \/ Panic \/ Read(p, <<>>) \/ Read(p, Deleting(Img(p)))
        \/ Read(p, <<CallOn("raiseError", Img(p))>>)
    BY DEF UnexpectedStateChange
  <1> QED
    BY <1>1, <1>2, DeletingType, RaisingError, NoOps, ReadGoes, PanicSafe

-----------------------------------------------------------------------------
(* The state of the set *)

\* The highest state of the images is a state.
LEMMA DerivedStateType ==
    ASSUME IInv
    PROVE  DerivedState(cfg, dsc.images, target) \in ImageState
  <1> DEFINE S == {UNKNOWN} \cup {dsc.images[n].state : n \in Known(dsc.images)}
  <1>1. \A n \in Known(dsc.images) : dsc.images[n].state \in ImageState
    BY ImagesNow DEF Known, Image
  <1>2. S \subseteq 0 .. 5 /\ 0 \in S
    BY <1>1 DEF ImageState, UNKNOWN, FATAL
  <1>3. \E x \in S : \A y \in S : x >= y
    <2> HIDE DEF S
    <2>1. CASE 5 \in S
      BY <1>2, <2>1
    <2>2. CASE 5 \notin S /\ 4 \in S
      BY <1>2, <2>2
    <2>3. CASE 5 \notin S /\ 4 \notin S /\ 3 \in S
      BY <1>2, <2>3
    <2>4. CASE 5 \notin S /\ 4 \notin S /\ 3 \notin S /\ 2 \in S
      BY <1>2, <2>4
    <2>5. CASE 5 \notin S /\ 4 \notin S /\ 3 \notin S /\ 2 \notin S /\ 1 \in S
      BY <1>2, <2>5
    <2>6. CASE S \cap 1 .. 5 = {}
      BY <1>2, <2>6
    <2> QED
      BY <2>1, <2>2, <2>3, <2>4, <2>5, <2>6
  <1>4. Max(S) \in S
    BY <1>3 DEF Max
  <1>5. HighestState(dsc.images) \in ImageState
    BY <1>2, <1>4 DEF HighestState, ImageState, UNKNOWN, FATAL
  <1>6. target \in ImageState
    BY DEF IInv, TypeOK, FieldTypes
  <1> QED
    BY <1>5, <1>6 DEF DerivedState

\* updateSetState preserves the invariant.
LEMMA UpdateSetStateSafe ==
    ASSUME IInv, NEW p \in Slots, UpdateSetState(p)
    PROVE  IInv'
  <1> DEFINE s    == DerivedState(cfg, dsc.images, target)
             stop == <<Call("clearRunning"), Call("clearAllActions"),
                       Call("clearAllTriggers"), CallWith("discoverSet", s)>>
  <1>1. todo[p] # <<>> /\ ~ Critical(p) /\ up
    BY Working DEF UpdateSetState, CriticalOps
  <1>2. s \in ImageState
    BY DerivedStateType
  <1>3. Call("clearRunning") \in TameOp /\ Call("clearAllActions") \in TameOp
        /\ Call("clearAllTriggers") \in TameOp /\ CallWith("discoverSet", s) \in TameOp
    <2>1. {"clearRunning", "clearAllActions", "clearAllTriggers", "discoverSet"}
            \subseteq ModuleOps \ CriticalOps
      BY DEF ModuleOps, CriticalOps
    <2> HIDE DEF s
    <2> QED
      BY <1>2, <2>1, TameCall
  <1>4. stop \in Seq(TameOp)
    <2> HIDE DEF s
    <2> QED
      BY <1>3
  <1>5. Read(p, <<>>) \/ Read(p, stop)
    BY DEF UpdateSetState
  <1> HIDE DEF stop
  <1> QED
    BY <1>1, <1>4, <1>5, NoOps, ReadGoes

\* A send on the discovery channel preserves the invariant.
LEMMA SendSafe ==
    ASSUME IInv, NEW p \in Slots, todo[p] # <<>>, ~ Critical(p), up,
           NEW d \in Discovery, Send(p, d)
    PROVE  IInv'
  <1>1. dchan' \in Seq(Discovery)
    BY AppendProperties DEF Send, IInv, TypeOK
  <1>2. /\ Then(p, <<>>)
        /\ UNCHANGED <<cfg, goal, dsc, runState, mut, daemon, left, conf, target, running,
                       actions, triggers, ticker, polling, mutex, inbox, up>>
    BY DEF Send, engine, fields
  <1>3. EngineTypes' /\ FieldTypes' /\ inbox' \subseteq Event
    BY <1>2 DEF IInv, TypeOK, EngineTypes, FieldTypes
  <1> QED
    BY <1>1, <1>2, <1>3, NoOps, Goes

\* The discoveries of the set's state and of RunState preserve the invariant.
LEMMA DiscoveriesSafe ==
    ASSUME IInv, NEW p \in Slots, DiscoverSet(p) \/ DiscoverINIT(p)
    PROVE  IInv'
  <1>1. todo[p] # <<>> /\ ~ Critical(p) /\ up /\ Head(todo[p]) \in TameOp
    BY Working DEF DiscoverSet, DiscoverINIT, CriticalOps
  <1>2. Goal(p) \in ImageState
    BY <1>1 DEF Goal, TameOp, Op
  <1>3. SetDiscovery(Goal(p)) \in Discovery /\ InitDiscovery \in Discovery
    BY <1>2, Names DEF SetDiscovery, InitDiscovery, Discovery
  <1> QED
    BY <1>1, <1>3, SendSafe DEF DiscoverSet, DiscoverINIT

\* Stopping the ticker preserves the invariant.
LEMMA StopPollingSafe ==
    ASSUME IInv, NEW p \in Slots, StopPolling(p)
    PROVE  IInv'
  <1>1. todo[p] # <<>> /\ ~ Critical(p) /\ up
    BY Working DEF StopPolling, CriticalOps
  <1>2. Then(p, <<>>) /\ UNCHANGED <<engine, daemon, conf, up, left, mutex, inbox, dchan>>
    BY DEF StopPolling
  <1>3. FieldTypes'
    BY FieldTypesNow DEF StopPolling, FieldTypes
  <1> QED
    BY <1>1, <1>2, <1>3, NoOps, FieldGoes

-----------------------------------------------------------------------------
(* Activating and idling images *)

\* An operation on each image of a set, in some order.
LEMMA EachType ==
    ASSUME NEW S \in SUBSET Images, NEW order \in Orders(S),
           NEW o \in {"activate", "idle"}
    PROVE  Each(o, order) \in Seq(TameOp)
  <1>1. Cardinality(S) \in Nat
    BY ImagesAssumption, FS_Subset, FS_CardinalityType
  <1>2. order \in [1 .. Cardinality(S) -> S]
    BY DEF Orders
  <1>3. \A i \in 1 .. Cardinality(S) : CallOn(o, order[i]) \in TameOp
    BY <1>2, TamePlainCallOn, Names
  <1>4. [i \in 1 .. Cardinality(S) |-> CallOn(o, order[i])] \in Seq(TameOp)
    BY <1>1, <1>3, IsASeq
  <1> QED
    BY <1>2, <1>4 DEF Each

\* The loop of mANYtoACTIVE preserves the invariant, in any order of the images.
LEMMA ActivateAllSafe ==
    ASSUME IInv, NEW p \in Slots, ActivateAll(p)
    PROVE  IInv'
  <1>1. todo[p] # <<>> /\ ~ Critical(p) /\ up
    BY Working DEF ActivateAll, CriticalOps
  <1>2. PICK order \in Orders(Known(dsc.images)) : Read(p, Each("activate", order))
    BY DEF ActivateAll
  <1>3. Each("activate", order) \in Seq(TameOp)
    BY EachType DEF Known
  <1> QED
    BY <1>1, <1>2, <1>3, ReadGoes

\* The loop of mANYtoIDLE preserves the invariant, in any order of the images.
LEMMA IdleAllSafe ==
    ASSUME IInv, NEW p \in Slots, IdleAll(p)
    PROVE  IInv'
  <1>1. todo[p] # <<>> /\ ~ Critical(p) /\ up
    BY Working DEF IdleAll, CriticalOps
  <1>2. me[p].names \in SUBSET Images
    <2>1. me[p] \in Event \cup {NoEvent}
      BY DEF IInv, TypeOK, WorkTypes
    <2>2. \A e \in Event : e.names \in SUBSET Images
      BY DEF Event
    <2>3. NoEvent.names \in SUBSET Images
      BY DEF NoEvent
    <2> QED
      BY <2>1, <2>2, <2>3
  <1>3. PICK order \in Orders(me[p].names) : Read(p, Each("idle", order))
    BY DEF IdleAll
  <1>4. Each("idle", order) \in Seq(TameOp)
    BY <1>2, <1>3, EachType
  <1> QED
    BY <1>1, <1>3, <1>4, ReadGoes

\* One round of mANYtoIDLE preserves the invariant.
LEMMA IdleImageSafe ==
    ASSUME IInv, NEW p \in Slots, IdleImage(p)
    PROVE  IInv'
  <1> DEFINE n == Img(p)
  <1>1. todo[p] # <<>> /\ ~ Critical(p) /\ up /\ n \in Images
    BY Working, OnImage DEF IdleImage, CriticalOps, ImageOps
  <1>2. CallOnWith("setAction", n, "DELETE") \in TameOp
    BY <1>1, TameCallOn, Names DEF Action, ImageOps, OnState
  <1>3. CallOn("delete", n) \in TameOp
    BY <1>1, TamePlainCallOn, Names
  <1>4. SetTrigger(n, "DELETED", "tSetIDLE") \in TameOp
        /\ SetTrigger(n, "DELETED", "clearAction") \in TameOp
    BY <1>1, TameSetTrigger DEF ContainerState, Trigger
  <1>5. <<CallOnWith("setAction", n, "DELETE"), CallOn("delete", n),
          SetTrigger(n, "DELETED", "tSetIDLE"),
          SetTrigger(n, "DELETED", "clearAction")>> \in Seq(TameOp)
    BY <1>2, <1>3, <1>4
  <1> QED
    BY <1>1, <1>5, ReadGoes DEF IdleImage

\* The action an operation is called with.
LEMMA WithAction ==
    ASSUME NEW p \in Slots, Head(todo[p]) \in TameOp, Head(todo[p]).op \in OnAction
    PROVE  Par(p) \in Action
  BY DEF Par, TameOp, Op, OnAction

\* The decision of activateImage preserves the invariant.
LEMMA DecideSafe ==
    ASSUME IInv, NEW p \in Slots, Decide(p)
    PROVE  IInv'
  <1>1. todo[p] # <<>> /\ ~ Critical(p) /\ up /\ Img(p) \in Images /\ Par(p) \in Action
    BY Working, OnImage, WithAction DEF Decide, CriticalOps, ImageOps, OnAction
  <1>2. \/ Read(p, <<>>)
        \/ Read(p, Deleting(Img(p)))
        \/ Par(p) # "DELETE" /\ Read(p, <<CallOnWith("begin", Img(p), Par(p))>>)
    BY DEF Decide
  <1>3. /\ Deleting(Img(p)) \in Seq(TameOp)
        /\ Par(p) # "DELETE" => <<CallOnWith("begin", Img(p), Par(p))>> \in Seq(TameOp)
    BY <1>1, Acting, DeletingType
  <1>4. \E ops \in Seq(TameOp) : Read(p, ops)
    BY <1>2, <1>3, NoOps
  <1> QED
    BY <1>1, <1>4, ReadGoes

\* The rest of activateImage preserves the invariant.
LEMMA BeginSafe ==
    ASSUME IInv, NEW p \in Slots, Begin(p)
    PROVE  IInv'
  <1> DEFINE n      == Img(p)
             want   == cfg[n]
             start  == <<CallOnWith("setAction", n, Par(p))>>
             finish == <<SetTrigger(n, want, "tSetACTIVE"),
                         SetTrigger(n, want, "clearAction")>>
             create == <<CallOnWith("create", n, want)>>
             reload == <<SetTrigger(n, "DELETED", "tCreate"), CallOn("delete", n)>>
  <1>1. todo[p] # <<>> /\ ~ Critical(p) /\ up /\ n \in Images /\ Par(p) \in Action
    BY Working, OnImage, WithAction DEF Begin, CriticalOps, ImageOps, OnAction
  <1>2. CallOnWith("setAction", n, Par(p)) \in TameOp
    BY <1>1, TameCallOn, Names DEF ImageOps, OnState
  <1>3. CallOn("delete", n) \in TameOp /\ SetTrigger(n, "DELETED", "tCreate") \in TameOp
    <2>1. "DELETED" \in ContainerState /\ "tCreate" \in Trigger
      BY DEF ContainerState, Trigger
    <2> QED
      BY <1>1, <2>1, TamePlainCallOn, TameSetTrigger, Names
  <1>4. ASSUME want # Absent
        PROVE  /\ start \o create \o finish \in Seq(TameOp)
               /\ start \o reload \o finish \in Seq(TameOp)
    <2>1. want \in ContainerState
      BY <1>1, <1>4, ImagesNow DEF ContainerState
    <2>2. CallOnWith("create", n, want) \in TameOp
      BY <1>1, <2>1, TamePlainCallOn, Names
    <2>3. SetTrigger(n, want, "tSetACTIVE") \in TameOp
          /\ SetTrigger(n, want, "clearAction") \in TameOp
      BY <1>1, <2>1, TameSetTrigger DEF Trigger
    <2>4. start \in Seq(TameOp) /\ finish \in Seq(TameOp) /\ create \in Seq(TameOp)
          /\ reload \in Seq(TameOp)
      BY <1>2, <1>3, <2>2, <2>3
    <2> HIDE DEF start, finish, create, reload
    <2> QED
      BY <2>4, ConcatProperties
  <1>5. \/ Read(p, <<>>)
        \/ want # Absent /\ Read(p, start \o create \o finish)
        \/ want # Absent /\ Read(p, start \o reload \o finish)
    <2>1. CASE want = Absent \/ Par(p) = "NONE"
      BY <2>1 DEF Begin
    <2>2. CASE want # Absent /\ Par(p) = "CREATE"
      BY <2>2 DEF Begin
    <2>3. CASE want # Absent /\ Par(p) = "RELOAD"
      BY <2>3 DEF Begin
    <2>4. Par(p) # "DELETE"
      BY Working DEF Begin, CriticalOps, Par, TameOp, Op
    <2> QED
      BY <1>1, <2>1, <2>2, <2>3, <2>4 DEF Action
  <1> HIDE DEF start, finish, create, reload
  <1> QED
    BY <1>1, <1>4, <1>5, NoOps, ReadGoes

\* The sleep of UPDATEtoACTIVE preserves the invariant.
LEMMA PauseSafe ==
    ASSUME IInv, NEW p \in Slots, Pause(p)
    PROVE  IInv'
  <1>1. todo[p] # <<>> /\ ~ Critical(p) /\ up
    BY Working DEF Pause, CriticalOps
  <1> QED
    BY <1>1, NoOps, ReadGoes DEF Pause

-----------------------------------------------------------------------------
(* Critical sections *)

\* What p reads when it takes the mutex.
LEMMA ReadingType ==
    ASSUME IInv, NEW p \in Slots
    PROVE  /\ Reading(p) # Nobody /\ Reading(p) \in Holding /\ Reading(p).by = p
           /\ Reading(p).isd = dsc /\ conf.limit \in Reading(p).limits
  <1>1. conf.limit \in Limit /\ conf.server \in BOOLEAN /\ cfg \in CfgMap /\ dsc \in DscSet
    BY DEF IInv, TypeOK, EngineTypes, FieldTypes, Config
  <1>2. Reading(p) \in Holding
    BY <1>1 DEF Reading, Holding
  <1> QED
    BY <1>2, NobodyAssumption DEF Reading

\* p takes the mutex and goes on with the rest of the critical section.
LEMMA LockSafe ==
    ASSUME IInv, NEW p \in Slots, todo[p] # <<>>, ~ Critical(p), up,
           NEW o \in Op, o.op \in CriticalOps, LockAndRead(p, <<o>>)
    PROVE  IInv'
  <1>1. /\ mutex = Nobody /\ mutex' = Reading(p)
        /\ Then(p, <<o>>)
        /\ UNCHANGED <<cfg, goal, dsc, runState, mut, daemon, left, conf, target, running,
                       actions, triggers, ticker, polling, inbox, dchan, up>>
    BY DEF LockAndRead, TakeAndRead, Locking, engine, fields
  <1>2. /\ WorkTypes' /\ Orderly' /\ Critical(p)'
        /\ \A q \in Slots \ {p} : Critical(q)' <=> Critical(q)
    BY <1>1, CriticalWork DEF IInv, TypeOK
  <1>3. mutex' # Nobody /\ mutex' \in Holding /\ mutex'.by = p /\ mutex'.isd = dsc
        /\ conf.limit \in mutex'.limits
    BY <1>1, ReadingType
  <1>4. TypeOK'
    BY <1>1, <1>2, <1>3 DEF IInv, TypeOK, EngineTypes, FieldTypes
  <1>5. DownIsIdle' /\ LimitMet'
    BY <1>1, <1>3 DEF DownIsIdle, LimitMet
  <1>6. MutualExclusion'
    BY <1>1, <1>2, <1>3 DEF IInv, MutualExclusion
  <1>7. SnapshotCurrent'
    BY <1>1, <1>3 DEF SnapshotCurrent
  <1> QED
    BY <1>2, <1>4, <1>5, <1>6, <1>7 DEF IInv

\* Taking the mutex in discover and in mRecoverError preserves the invariant.
LEMMA LocksSafe ==
    ASSUME IInv, NEW p \in Slots, Discover(p) \/ RecoverError(p)
    PROVE  IInv'
  <1>1. todo[p] # <<>> /\ ~ Critical(p) /\ up /\ Head(todo[p]) \in TameOp
    BY Working DEF Discover, RecoverError, CriticalOps
  <1>2. Goal(p) \in ImageState
    BY <1>1 DEF Goal, TameOp, Op
  <1>3. /\ Call("list") \in Op /\ Call("list").op = "list"
        /\ CallWith("recovered", Goal(p)) \in Op
        /\ CallWith("recovered", Goal(p)).op = "recovered"
    BY <1>2, ModuleCall, Names DEF ModuleOps
  <1> QED
    BY <1>1, <1>3, LockSafe DEF Discover, RecoverError, CriticalOps

\* In a critical section.
LEMMA Holder ==
    ASSUME IInv, NEW p \in Slots, At(p, "list") \/ At(p, "recovered")
    PROVE  /\ todo[p] # <<>> /\ up
           /\ mutex \in Holding /\ mutex # Nobody /\ mutex.by = p /\ mutex.isd \in DscSet
           /\ mutex.isd.images = dsc.images
  <1>1. todo[p] # <<>>
    BY DEF At
  <1>2. up
    BY <1>1 DEF IInv, DownIsIdle, TypeOK
  <1>3. mutex # Nobody /\ mutex.by = p
    BY DEF IInv, MutualExclusion, Critical
  <1> QED
    BY <1>1, <1>2, <1>3 DEF IInv, TypeOK, Holding, SnapshotCurrent

\* p leaves its critical section.
LEMMA UnlockSafe ==
    ASSUME IInv, NEW p \in Slots, At(p, "list") \/ At(p, "recovered"),
           NEW ops \in Seq(TameOp), Then(p, ops), mutex' = Nobody, up' = up,
           EngineTypes', FieldTypes', inbox' \subseteq Event, dchan' \in Seq(Discovery)
    PROVE  IInv'
  <1>1. todo[p] # <<>> /\ up /\ mutex.by = p
    BY Holder
  <1>2. /\ WorkTypes' /\ Orderly' /\ ~ Critical(p)'
        /\ \A q \in Slots \ {p} : Critical(q)' <=> Critical(q)
    BY <1>1, TameWork DEF IInv, TypeOK
  <1>3. TypeOK'
    BY <1>1, <1>2 DEF IInv, TypeOK
  <1>4. MutualExclusion'
    BY <1>1, <1>2 DEF IInv, MutualExclusion
  <1>5. DownIsIdle' /\ LimitMet' /\ SnapshotCurrent'
    BY <1>1 DEF DownIsIdle, LimitMet, SnapshotCurrent
  <1> QED
    BY <1>2, <1>3, <1>4, <1>5 DEF IInv

\* What discover and mRecoverError write back are image maps.
LEMMA ListedTypes ==
    ASSUME IInv, mutex \in Holding
    PROVE  /\ Discovered(mutex.isc, mutex.isd.images, Listed, actions) \in ImageMap
           /\ \A limit \in [InError(mutex.isd.images) -> mutex.limits] :
                 RecoveredImages(mutex.isd.images, limit) \in ImageMap
  <1>1. /\ mutex.isd.images \in ImageMap /\ mutex.isc \in CfgMap
        /\ Listed \in [Images -> Observed \cup {Absent}]
    BY DEF Holding, DscSet, IInv, TypeOK, EngineTypes, Listed, Observed, CfgMap
  <1>2. ASSUME NEW n \in Images
        PROVE  Discovered(mutex.isc, mutex.isd.images, Listed, actions)[n]
                  \in Image \cup {NoImage}
    <2> DEFINE old == mutex.isd.images[n]
    <2>1. old \in Image \cup {NoImage} /\ Listed[n] \in Observed \cup {Absent}
      BY <1>1 DEF ImageMap
    <2>2. OrZero(old) \in Image
      BY <2>1, ImageTypes
    <2>3. Listed[n] # Absent => [OrZero(old) EXCEPT !.ctn = Listed[n]] \in Image
      BY <2>1, <2>2 DEF Image, ContainerState
    <2>4. OrStub(old) \in Image
      <3>1. ZeroImage \in Image
        BY ImageTypes DEF OrZero
      <3>2. IDLE \in ImageState
        BY DEF ImageState, IDLE, UNKNOWN, FATAL
      <3> QED
        BY <2>1, <3>1, <3>2 DEF OrStub, Image
    <2>5. \A a \in Action : Unlisted(old, a) \in Image
      BY <2>4 DEF Unlisted, Image, ContainerState
    <2>6. MissingAction(mutex.isc[n], actions[n]) \in Action
      BY DEF MissingAction, Action
    <2> QED
      BY <2>3, <2>5, <2>6 DEF Discovered, Taken
  <1>3. ASSUME NEW n \in Images, NEW l
        PROVE  mutex.isd.images[n] # NoImage => Recovered(mutex.isd.images[n], l) \in Image
    <2> DEFINE img == mutex.isd.images[n]
    <2>1. img \in Image \cup {NoImage}
      BY <1>1 DEF ImageMap
    <2>2. FATAL \in ImageState /\ UPDATE \in ImageState /\ "RELOAD" \in Action
      BY DEF ImageState, FATAL, UPDATE, UNKNOWN, Action
    <2>3. img # NoImage => Saturated(img.retries + 1) \in 0 .. MaxRetries + 1
      BY <2>1, MaxRetriesAssumption DEF Image, Saturated
    <2> QED
      BY <2>1, <2>2, <2>3 DEF Recovered, RecoveredAt, Image
  <1>4. \A limit \in [InError(mutex.isd.images) -> mutex.limits] :
           RecoveredImages(mutex.isd.images, limit) \in ImageMap
    BY <1>1, <1>3 DEF RecoveredImages, ImageMap, InError
  <1>5. Discovered(mutex.isc, mutex.isd.images, Listed, actions) \in ImageMap
    BY <1>2 DEF Discovered, ImageMap
  <1> QED
    BY <1>4, <1>5

\* Writing the whole set and unlocking preserves the invariant.
LEMMA StoreAndUnlockSafe ==
    ASSUME IInv, NEW p \in Slots, At(p, "list") \/ At(p, "recovered"),
           NEW images \in ImageMap, NEW ops \in Seq(TameOp),
           StoreAndUnlock(p, images, ops)
    PROVE  IInv'
  <1> DEFINE new == [state |-> mutex.isd.state, images |-> images]
  <1>1. new \in DscSet
    BY Holder DEF DscSet
  <1>2. /\ Store(new) /\ mutex' = Nobody /\ Then(p, ops)
        /\ UNCHANGED <<cfg, goal, runState, mut, daemon, conf, target, running, actions,
                       triggers, ticker, polling, dchan, up, left>>
    BY DEF StoreAndUnlock, fields
  <1>3. dsc' \in DscSet /\ inbox' \subseteq Event
    BY <1>1, <1>2, StoreTypes
  <1>4. EngineTypes' /\ FieldTypes' /\ dchan' \in Seq(Discovery)
    BY <1>2, <1>3 DEF IInv, TypeOK, EngineTypes, FieldTypes
  <1> QED
    BY <1>2, <1>3, <1>4, UnlockSafe

\* The end of discover, successful or not, preserves the invariant.
LEMMA ListSafe ==
    ASSUME IInv, NEW p \in Slots, ListContainers(p) \/ ListContainersFails(p)
    PROVE  IInv'
  <1>1. CASE ListContainers(p)
    BY <1>1, Holder, ListedTypes, NoOps, StoreAndUnlockSafe DEF ListContainers
  <1>2. CASE ListContainersFails(p)
    <2>1. /\ At(p, "list") /\ mutex' = Nobody /\ Then(p, <<>>) /\ CallFails(~ mutex.server)
          /\ UNCHANGED <<cfg, goal, dsc, runState, mut, conf, target, running, actions,
                         triggers, ticker, polling, inbox, dchan, up>>
      BY <1>2 DEF ListContainersFails, ListingFailed, engine, fields
    <2>2. daemon' = daemon /\ left' \in [Disturbance -> Nat \cup {Unlimited}]
      BY <2>1, CallFailsType
    <2>3. EngineTypes' /\ FieldTypes' /\ inbox' \subseteq Event /\ dchan' \in Seq(Discovery)
      BY <2>1, <2>2 DEF IInv, TypeOK, EngineTypes, FieldTypes
    <2> QED
      BY <2>1, <2>3, NoOps, UnlockSafe
  <1> QED
    BY <1>1, <1>2

\* The way to ACTIVE and to IDLE are tame operations.
LEMMA TowardsType ==
    ASSUME NEW a \in ImageState
    PROVE  Towards(a) \in Seq(TameOp)
  <1>1. {"setTarget", "setRunning", "activateAll", "idleAll"} \subseteq ModuleOps \ CriticalOps
    BY DEF ModuleOps, CriticalOps
  <1>2. ACTIVE \in ImageState /\ IDLE \in ImageState
    BY DEF ImageState, ACTIVE, IDLE, UNKNOWN, FATAL
  <1>3. /\ CallWith("setTarget", ACTIVE) \in TameOp /\ CallWith("setTarget", IDLE) \in TameOp
        /\ Call("setRunning") \in TameOp /\ Call("activateAll") \in TameOp
        /\ Call("idleAll") \in TameOp
    BY <1>1, <1>2, TameCall
  <1> QED
    BY <1>3 DEF Towards

\* The end of mRecoverError preserves the invariant.
LEMMA RecoverySafe ==
    ASSUME IInv, NEW p \in Slots, Recovery(p)
    PROVE  IInv'
  <1> DEFINE images == mutex.isd.images
  <1>0. PICK limit \in [InError(images) -> mutex.limits] :
           LET ahead == IF Recoverable(images, limit) THEN Towards(Goal(p)) ELSE <<>>
           IN  IF InError(images) = {}
               THEN /\ mutex' = Nobody
                    /\ Then(p, ahead)
                    /\ UNCHANGED <<engine, daemon, fields, inbox, dchan, up, left>>
               ELSE StoreAndUnlock(p, RecoveredImages(images, limit),
                                   <<Call("updateSetState")>> \o ahead)
    BY DEF Recovery
  <1> DEFINE go == IF Recoverable(images, limit) THEN Towards(Goal(p)) ELSE <<>>
  <1>1. At(p, "recovered") /\ todo[p] # <<>> /\ mutex \in Holding
    BY Holder DEF Recovery
  <1>2. Goal(p) \in ImageState
    <2>1. Head(todo[p]) \in Op
      BY <1>1, HeadTailProperties DEF IInv, TypeOK, WorkTypes
    <2> QED
      BY <2>1 DEF Goal, Op
  <1>3. go \in Seq(TameOp)
    BY <1>2, TowardsType, NoOps
  <1>4. <<Call("updateSetState")>> \o go \in Seq(TameOp)
    <2>1. Call("updateSetState") \in TameOp
      BY TameCall, Names DEF ModuleOps, CriticalOps
    <2>2. <<Call("updateSetState")>> \in Seq(TameOp)
      BY <2>1
    <2> HIDE DEF go
    <2> QED
      BY <1>3, <2>2, ConcatProperties
  <1>5. CASE /\ mutex' = Nobody /\ Then(p, go)
             /\ UNCHANGED <<engine, daemon, fields, inbox, dchan, up, left>>
    <2>1. EngineTypes' /\ FieldTypes' /\ inbox' \subseteq Event /\ dchan' \in Seq(Discovery)
          /\ up' = up
      BY <1>5 DEF IInv, TypeOK, EngineTypes, FieldTypes, engine, fields
    <2> HIDE DEF go
    <2> QED
      BY <1>1, <1>3, <1>5, <2>1, UnlockSafe
  <1>6. CASE StoreAndUnlock(p, RecoveredImages(images, limit), <<Call("updateSetState")>> \o go)
    <2>1. RecoveredImages(images, limit) \in ImageMap
      BY <1>1, ListedTypes
    <2> HIDE DEF go
    <2> QED
      BY <1>1, <1>4, <1>6, <2>1, StoreAndUnlockSafe
  <1> QED
    BY <1>0, <1>5, <1>6

-----------------------------------------------------------------------------
(* The main loop *)

\* Every goroutine starts with tame operations.
LEMMA BodyType ==
    ASSUME NEW e \in Event
    PROVE  Body(e) \in Seq(TameOp)
  <1> DEFINE cleared == <<Call("clearAllTriggers"), Call("clearAllActions"),
                          Call("clearRunning")>>
  <1>1. \A o \in {"clearAllTriggers", "clearAllActions", "clearRunning", "stopPolling",
                  "discoverINIT", "discover", "pause"} : Call(o) \in TameOp
    BY TameCall, Names DEF ModuleOps, CriticalOps
  <1>2. \A o \in {"setTarget", "discoverSet", "recover"}, s \in ImageState :
           CallWith(o, s) \in TameOp
    BY TameCall DEF ModuleOps, CriticalOps
  <1>3. UNKNOWN \in ImageState /\ IDLE \in ImageState /\ ACTIVE \in ImageState
    BY DEF ImageState, ACTIVE, IDLE, UNKNOWN, FATAL
  <1>4. cleared \in Seq(TameOp)
    BY <1>1
  <1>5. \A name \in MutationKind : MutationBody(name) \in Seq(TameOp)
    <2>1. /\ <<Call("clearAllTriggers"), CallWith("setTarget", IDLE), Call("discover")>>
               \in Seq(TameOp)
          /\ <<CallWith("recover", ACTIVE)>> \in Seq(TameOp)
          /\ <<CallWith("recover", IDLE)>> \in Seq(TameOp)
          /\ <<Call("stopPolling"), CallWith("discoverSet", UNKNOWN), Call("discoverINIT")>>
               \in Seq(TameOp)
      BY <1>1, <1>2, <1>3
    <2>2. /\ Towards(ACTIVE) \in Seq(TameOp) /\ Towards(IDLE) \in Seq(TameOp)
          /\ <<Call("pause")>> \o Towards(ACTIVE) \in Seq(TameOp)
      <3>1. <<Call("pause")>> \in Seq(TameOp)
        BY <1>1
      <3> QED
        BY <1>3, <3>1, TowardsType, ConcatProperties
    <2>3. MutationKind = {"SYNCtoINIT", "UKtoIDLE", "IDLEtoACTIVE", "ACTIVEtoIDLE",
                          "UPDATEtoACTIVE", "UPDATEtoIDLE", "ERRORtoACTIVE", "ERRORtoIDLE"}
      BY DEF MutationKind, Muts, Mut
    <2> QED
      BY <2>1, <2>2, <2>3 DEF MutationBody
  <1>6. CASE e.kind \in {"CFG", "DSC"}
    <2>0. "CFG" \notin MutationKind /\ "DSC" \notin MutationKind
      BY DEF MutationKind, Muts, Mut
    <2>1. e.img \in Images /\ e.sub \in Sub
      BY <1>6, <2>0 DEF Event
    <2>2. CallOn("cfgChange", e.img) \in TameOp /\ CallOnWith("dscChange", e.img, e.sub) \in TameOp
      BY <2>1, TamePlainCallOn, Names
    <2>3. <<CallOn("cfgChange", e.img)>> \in Seq(TameOp)
          /\ <<CallOnWith("dscChange", e.img, e.sub)>> \in Seq(TameOp)
      BY <2>2
    <2> QED
      BY <1>6, <2>3 DEF Body
  <1>7. CASE e.kind = "INTERRUPT"
    <2>1. <<Call("clearAllActions"), Call("clearAllTriggers"), Call("clearRunning")>>
             \in Seq(TameOp)
      BY <1>1
    <2> QED
      BY <1>7, <2>1 DEF Body
  <1>8. CASE e.kind \in MutationKind
    <2>1. MutationBody(e.kind) \in Seq(TameOp)
      BY <1>5, <1>8
    <2>2. cleared \o MutationBody(e.kind) \in Seq(TameOp)
      BY <1>4, <2>1, ConcatProperties
    <2>3. e.kind \notin {"CFG", "DSC", "INTERRUPT"}
      BY <1>8 DEF MutationKind, Muts, Mut
    <2> QED
      BY <2>2, <2>3 DEF Body
  <1>9. e.kind \in {"CFG", "DSC", "INTERRUPT"} \cup MutationKind
    BY DEF Event
  <1> QED
    BY <1>6, <1>7, <1>8, <1>9

\* Starting a goroutine for an event preserves the invariant.
LEMMA DispatchSafe ==
    ASSUME IInv, NEW p \in Handlers, NEW e \in inbox, Dispatch(p, e)
    PROVE  IInv'
  <1>1. p \in Slots /\ e \in Event /\ up
    BY DEF Slots, IInv, TypeOK, DownIsIdle
  <1>2. /\ todo[p] = <<>> /\ todo' = [todo EXCEPT ![p] = Body(e)] /\ turn' = p
        /\ me' = [me EXCEPT ![p] = e] /\ polling' = ticker /\ inbox' = inbox \ {e}
        /\ UNCHANGED <<cfg, goal, dsc, runState, mut, daemon, conf, target, running, actions,
                       triggers, ticker, mutex, dchan, up, left>>
    BY DEF Dispatch, engine
  <1>3. Body(e) \in Seq(TameOp) /\ Body(e) \in Seq(Op)
    BY <1>1, BodyType, SeqMonotonic DEF TameOp
  <1>4. WorkTypes'
    BY <1>1, <1>2, <1>3 DEF IInv, TypeOK, WorkTypes
  <1>5. TypeOK'
    BY <1>2, <1>4 DEF IInv, TypeOK, EngineTypes, FieldTypes
  <1>6. todo'[p] = Body(e) /\ \A q \in Slots \ {p} : todo'[q] = todo[q]
    BY <1>1, <1>2 DEF IInv, TypeOK, WorkTypes
  <1>7. Body(e) # <<>> => /\ Head(Body(e)) \in TameOp
                          /\ Tail(Body(e)) \in Seq(TameOp)
    BY <1>3, HeadTailProperties
  <1>8. Orderly'
    BY <1>6, <1>7 DEF IInv, Orderly
  <1>9. MutualExclusion'
    <2>1. ~ Critical(p)' /\ ~ Critical(p)
      BY <1>2, <1>6, <1>7 DEF Critical, At, TameOp, CriticalOps
    <2>2. \A q \in Slots \ {p} : Critical(q)' <=> Critical(q)
      BY <1>6 DEF Critical, At
    <2> QED
      BY <1>1, <1>2, <2>1, <2>2 DEF IInv, MutualExclusion
  <1>10. SnapshotCurrent' /\ DownIsIdle' /\ LimitMet'
    BY <1>1, <1>2 DEF IInv, SnapshotCurrent, DownIsIdle, LimitMet
  <1> QED
    BY <1>5, <1>8, <1>9, <1>10 DEF IInv

\* A tick that starts a discovery preserves the invariant.
LEMMA PollSafe ==
    ASSUME IInv, Poll
    PROVE  IInv'
  <1>1. /\ up /\ mutex = Nobody /\ mutex' = Reading(Poller)
        /\ todo[Poller] = <<>> /\ todo' = [todo EXCEPT ![Poller] = <<Call("list")>>]
        /\ turn' = Poller
        /\ UNCHANGED <<cfg, goal, dsc, runState, mut, daemon, conf, target, running, actions,
                       triggers, ticker, polling, me, inbox, dchan, up, left>>
    BY DEF Poll, Locking, engine, fields
  <1>2. Poller \in Slots
    BY DEF Slots
  <1>3. Call("list") \in Op /\ Call("list").op = "list"
    BY ModuleCall, Names DEF ModuleOps
  <1>4. /\ todo'[Poller] = <<Call("list")>> /\ <<Call("list")>> \in Seq(Op)
        /\ \A q \in Slots \ {Poller} : todo'[q] = todo[q]
    BY <1>1, <1>2, <1>3 DEF IInv, TypeOK, WorkTypes
  <1>5. Head(<<Call("list")>>) = Call("list") /\ Tail(<<Call("list")>>) = <<>>
        /\ <<Call("list")>> # <<>>
    OBVIOUS
  <1>6. mutex' # Nobody /\ mutex' \in Holding /\ mutex'.by = Poller /\ mutex'.isd = dsc
        /\ conf.limit \in mutex'.limits
    BY <1>1, <1>2, ReadingType
  <1>7. TypeOK'
    <2>1. WorkTypes'
      BY <1>1, <1>2, <1>4 DEF IInv, TypeOK, WorkTypes
    <2> QED
      BY <1>1, <1>6, <2>1 DEF IInv, TypeOK, EngineTypes, FieldTypes
  <1>8. Orderly'
    BY <1>4, <1>5, NoOps DEF IInv, Orderly
  <1>9. MutualExclusion'
    <2>1. Critical(Poller)'
      BY <1>3, <1>4, <1>5 DEF Critical, At
    <2>2. \A q \in Slots \ {Poller} : Critical(q)' <=> Critical(q)
      BY <1>4 DEF Critical, At
    <2> QED
      BY <1>1, <1>6, <2>1, <2>2 DEF IInv, MutualExclusion
  <1>10. SnapshotCurrent' /\ DownIsIdle' /\ LimitMet'
    BY <1>1, <1>6 DEF SnapshotCurrent, DownIsIdle, LimitMet
  <1> QED
    BY <1>7, <1>8, <1>9, <1>10 DEF IInv

-----------------------------------------------------------------------------
(* The engine, the daemon, and what disturbs them *)

\* A step of something other than a goroutine of the module.
LEMMA Elsewhere ==
    ASSUME IInv, UNCHANGED <<todo, mutex, me>>, turn' \in Slots \cup {Nobody},
           EngineTypes', FieldTypes', inbox' \subseteq Event, dchan' \in Seq(Discovery),
           up' \in BOOLEAN, ~ up' => ~ up /\ inbox' = {},
           mutex = Nobody \/ (dsc'.images = dsc.images /\ conf' = conf)
    PROVE  IInv'
  <1>1. TypeOK'
    BY DEF IInv, TypeOK, WorkTypes
  <1>2. Orderly' /\ MutualExclusion'
    BY DEF IInv, Orderly, MutualExclusion, Critical, At
  <1>3. DownIsIdle' /\ LimitMet' /\ SnapshotCurrent'
    BY DEF IInv, DownIsIdle, LimitMet, SnapshotCurrent
  <1> QED
    BY <1>1, <1>2, <1>3 DEF IInv

\* The same, when it concerns only the engine and the events it sends.
LEMMA EngineGoes ==
    ASSUME IInv, Quiet, EngineTypes', inbox' \subseteq Event, ~ up => inbox' = {},
           dsc'.images = dsc.images
    PROVE  IInv'
  <1>1. UNCHANGED <<todo, mutex, me, turn, conf, target, running, actions, triggers, ticker,
                    polling, dchan, up>>
    BY DEF Quiet, fields
  <1>2. FieldTypes' /\ dchan' \in Seq(Discovery) /\ turn' \in Slots \cup {Nobody}
        /\ up' \in BOOLEAN
    BY <1>1 DEF IInv, TypeOK, FieldTypes, WorkTypes
  <1> QED
    BY <1>1, <1>2, Elsewhere

\* The events the engine and the operator make are events.
LEMMA EventTypes ==
    ASSUME IInv
    PROVE  /\ Interrupt \in Event /\ \A n \in Images : CfgEvent(n) \in Event
           /\ \A m \in Muts \cup {SYNCtoINIT} :
                 Mutate(m.name, Configured(cfg) \cap Known(dsc.images)) \in Event
           /\ inbox \subseteq Event /\ (~ up => inbox = {})
  <1>1. Interrupt \in Event
    BY DEF Interrupt, Event
  <1>2. \A n \in Images : CfgEvent(n) \in Event
    BY DEF CfgEvent, Event, Sub
  <1>3. \A m \in Muts \cup {SYNCtoINIT} : m.name \in MutationKind
    BY DEF MutationKind, SYNCtoINIT, Mut
  <1>4. Configured(cfg) \cap Known(dsc.images) \in SUBSET Images
    BY DEF Configured
  <1>5. \A m \in Muts \cup {SYNCtoINIT} :
           Mutate(m.name, Configured(cfg) \cap Known(dsc.images)) \in Event
    BY <1>3, <1>4 DEF Mutate, Event
  <1> QED
    BY <1>1, <1>2, <1>5 DEF IInv, TypeOK, DownIsIdle

\* Applying a discovery preserves the invariant.
LEMMA ApplySafe ==
    ASSUME IInv, Apply
    PROVE  IInv'
  <1>1. dchan \in Seq(Discovery) /\ dchan # <<>>
    BY DEF Apply, IInv, TypeOK
  <1>2. Head(dchan) \in Discovery /\ dchan' \in Seq(Discovery)
    BY <1>1, HeadTailProperties DEF Apply
  <1>3. UNCHANGED <<cfg, goal, mut, daemon, conf, target, running, actions, triggers, ticker,
                    polling, mutex, todo, turn, me, inbox, up, left>>
    BY DEF Apply, fields
  <1>4. /\ dsc' \in DscSet /\ dsc'.images = dsc.images
        /\ runState' \in {"SYNC", "INIT", "ERROR"}
    BY <1>2 DEF Apply, IInv, TypeOK, EngineTypes, DscSet, Discovery
  <1>5. EngineTypes' /\ FieldTypes' /\ turn' \in Slots \cup {Nobody} /\ up' \in BOOLEAN
        /\ inbox' \subseteq Event
    BY <1>3, <1>4 DEF IInv, TypeOK, EngineTypes, FieldTypes, WorkTypes
  <1> QED
    BY <1>2, <1>3, <1>4, <1>5, Elsewhere, EventTypes

\* Asking for a mutation preserves the invariant.
LEMMA RequestSafe ==
    ASSUME IInv, NEW m \in Muts \cup {SYNCtoINIT}, NEW k \in Disturbance, Spend(k), Request(m)
    PROVE  IInv'
  <1>1. /\ up /\ mut' = m
        /\ inbox' = inbox \cup {Mutate(m.name, Configured(cfg) \cap Known(dsc.images))}
        /\ UNCHANGED <<cfg, goal, dsc, runState>> /\ Quiet /\ daemon' = daemon
    BY DEF Request, Quiet
  <1>2. EngineTypes'
    BY <1>1, SpendType DEF IInv, TypeOK, EngineTypes
  <1>3. inbox' \subseteq Event
    BY <1>1, EventTypes
  <1> QED
    BY <1>1, <1>2, <1>3, EngineGoes

\* Each of the engine's mutation requests preserves the invariant.
LEMMA RequestsSafe ==
    ASSUME IInv, (\E m \in Muts : RequestMutation(m)) \/ RequestINIT
    PROVE  IInv'
  <1>1. "overtake" \in Disturbance /\ "request" \in Disturbance /\ "init" \in Disturbance
    BY DEF Disturbance
  <1> QED
    BY <1>1, RequestSafe DEF RequestMutation, RequestINIT, RequestINITAnyway

\* An interrupt reaches only a module that is up.
LEMMA InterruptTypes ==
    ASSUME IInv, InterruptMutation
    PROVE  /\ mut' = NoMut /\ inbox' \subseteq Event /\ (~ up => inbox' = {})
  BY EventTypes DEF InterruptMutation

\* Forgetting a mutation that is done preserves the invariant.
LEMMA SettleMutationSafe ==
    ASSUME IInv, SettleMutation
    PROVE  IInv'
  <1>1. Quiet /\ daemon' = daemon /\ UNCHANGED <<cfg, goal, dsc, runState, left>>
    BY DEF SettleMutation, Quiet
  <1>2. mut' = NoMut /\ inbox' \subseteq Event /\ (~ up => inbox' = {})
    BY InterruptTypes, EventTypes DEF SettleMutation
  <1>3. EngineTypes'
    BY <1>1, <1>2 DEF IInv, TypeOK, EngineTypes
  <1> QED
    BY <1>1, <1>2, <1>3, EngineGoes

\* A mutation's timeout preserves the invariant.
LEMMA TimeoutMutationSafe ==
    ASSUME IInv, TimeoutMutation
    PROVE  IInv'
  <1>1. Quiet /\ daemon' = daemon /\ UNCHANGED <<cfg, goal>>
    BY DEF TimeoutMutation, Quiet
  <1>2. mut' = NoMut /\ inbox' \subseteq Event /\ (~ up => inbox' = {})
    BY InterruptTypes DEF TimeoutMutation
  <1>3. left' \in [Disturbance -> Nat \cup {Unlimited}]
    BY SpendType DEF TimeoutMutation, Disturbance
  <1>4. ASSUME mut # SYNCtoINIT PROVE mut.failto \in ImageState
    BY <1>4 DEF IInv, TypeOK, EngineTypes, Muts, NoMut, Mut, ImageState, UNKNOWN, ERROR, FATAL
  <1>5. /\ dsc' \in DscSet /\ dsc'.images = dsc.images
        /\ runState' \in {"SYNC", "INIT", "ERROR"}
    BY <1>4 DEF TimeoutMutation, IInv, TypeOK, EngineTypes, DscSet
  <1>6. EngineTypes'
    BY <1>1, <1>2, <1>3, <1>5 DEF IInv, TypeOK, EngineTypes
  <1> QED
    BY <1>1, <1>2, <1>5, <1>6, EngineGoes

\* A new goal preserves the invariant.
LEMMA ChangeGoalSafe ==
    ASSUME IInv, ChangeGoal
    PROVE  IInv'
  <1>1. Quiet /\ daemon' = daemon /\ UNCHANGED <<cfg, dsc, runState>>
        /\ goal' \in {IDLE, ACTIVE}
    BY DEF ChangeGoal, Quiet
  <1>2. /\ mut' \in {NoMut, mut} /\ inbox' \subseteq Event /\ (~ up => inbox' = {})
    BY InterruptTypes, EventTypes DEF ChangeGoal
  <1>3. left' \in [Disturbance -> Nat \cup {Unlimited}]
    BY SpendType DEF ChangeGoal, Disturbance
  <1>4. EngineTypes'
    BY <1>1, <1>2, <1>3 DEF IInv, TypeOK, EngineTypes
  <1> QED
    BY <1>1, <1>2, <1>4, EngineGoes

\* A changed configuration preserves the invariant.
LEMMA ChangeConfigSafe ==
    ASSUME IInv, NEW n \in Images, NEW want \in Wants \cup {Absent}, ChangeConfig(n, want)
    PROVE  IInv'
  <1>1. Quiet /\ daemon' = daemon /\ UNCHANGED <<goal, dsc, runState, mut>>
    BY DEF ChangeConfig, Quiet
  <1>2. cfg' \in CfgMap
    BY WantsAssumption DEF ChangeConfig, IInv, TypeOK, EngineTypes, CfgMap
  <1>3. inbox' \subseteq Event /\ (~ up => inbox' = {})
    BY EventTypes DEF ChangeConfig
  <1>4. left' \in [Disturbance -> Nat \cup {Unlimited}]
    BY SpendType DEF ChangeConfig, Disturbance
  <1>5. EngineTypes'
    BY <1>1, <1>2, <1>4 DEF IInv, TypeOK, EngineTypes
  <1> QED
    BY <1>1, <1>3, <1>5, EngineGoes

\* A container that changes its state preserves the invariant.
LEMMA BecomesSafe ==
    ASSUME IInv, NEW n \in Images, NEW s \in Observed, Becomes(n, s),
           left' \in [Disturbance -> Nat \cup {Unlimited}]
    PROVE  IInv'
  <1>1. UNCHANGED <<cfg, goal, dsc, runState, mut, conf, target, running, actions, triggers,
                    ticker, polling, mutex, todo, turn, me, inbox, dchan, up>>
    BY DEF Becomes, engine, fields, work
  <1>2. daemon' \in [Images -> Observed \cup {"starting", Absent}]
    BY DEF Becomes, IInv, TypeOK, EngineTypes
  <1>3. EngineTypes' /\ FieldTypes' /\ turn' \in Slots \cup {Nobody} /\ up' \in BOOLEAN
        /\ dchan' \in Seq(Discovery)
    BY <1>1, <1>2 DEF IInv, TypeOK, EngineTypes, FieldTypes, WorkTypes
  <1> QED
    BY <1>1, <1>3, Elsewhere, EventTypes

\* The container daemon's own steps preserve the invariant.
LEMMA DaemonSafe ==
    ASSUME IInv, Daemon \/ \E n \in Images : ContainerDies(n)
    PROVE  IInv'
  <1>1. "running" \in Observed /\ "exited" \in Observed /\ "dead" \in Observed
        /\ "death" \in Disturbance
    BY DEF Observed, Disturbance
  <1>2. left \in [Disturbance -> Nat \cup {Unlimited}]
    BY DEF IInv, TypeOK, EngineTypes
  <1>3. CASE Daemon
    BY <1>1, <1>2, <1>3, BecomesSafe DEF Daemon, ContainerRuns, ContainerExits
  <1>4. CASE \E n \in Images : ContainerDies(n)
    <2>1. PICK n \in Images : ContainerDies(n)
      BY <1>4
    <2>2. left' \in [Disturbance -> Nat \cup {Unlimited}]
      BY <1>1, <2>1, SpendType DEF ContainerDies
    <2> QED
      BY <1>1, <2>1, <2>2, BecomesSafe DEF ContainerDies
  <1> QED
    BY <1>3, <1>4

\* A restart preserves the invariant.
LEMMA RestartSafe ==
    ASSUME IInv, Restart
    PROVE  IInv'
  <1>1. /\ ~ up /\ up' = TRUE /\ ticker' = TRUE /\ polling' = TRUE
        /\ dsc' = [state |-> UNKNOWN, images |-> NoImages]
        /\ conf' = NewConfig
        /\ UNCHANGED <<cfg, goal, runState, mut, daemon, target, running, actions,
                       triggers, mutex, todo, turn, me, inbox, dchan, left>>
    BY DEF Restart, Restarted, work
  <1>2. mutex = Nobody
    BY <1>1 DEF IInv, DownIsIdle
  <1>3. dsc' \in DscSet
    BY <1>1, Names DEF DscSet, ImageMap, NoImages
  <1>4. conf' \in Config
    <2>1. MaxRetries \in Limit
      BY MaxRetriesAssumption DEF Limit
    <2> QED
      BY <1>1, <2>1 DEF NewConfig, Config
  <1>5. EngineTypes' /\ FieldTypes' /\ turn' \in Slots \cup {Nobody}
        /\ inbox' \subseteq Event /\ dchan' \in Seq(Discovery)
    BY <1>1, <1>3, <1>4 DEF IInv, TypeOK, EngineTypes, FieldTypes, WorkTypes
  <1> QED
    BY <1>1, <1>2, <1>5, Elsewhere

\* UpdateConfig preserves the invariant: whoever holds the mutex meets the new limit.
LEMMA UpdateConfigSafe ==
    ASSUME IInv, NEW new \in Config, UpdateConfig(new)
    PROVE  IInv'
  <1>1. /\ up /\ conf' = new /\ ticker' = TRUE /\ polling' \in BOOLEAN
        /\ mutex' = IF mutex = Nobody THEN Nobody
                    ELSE [mutex EXCEPT !.limits = mutex.limits \cup {new.limit}]
        /\ UNCHANGED <<cfg, goal, dsc, runState, mut, daemon, target, running, actions,
                       triggers, todo, turn, me, inbox, dchan, up>>
    BY DEF UpdateConfig, engine, work
  <1>2. left' \in [Disturbance -> Nat \cup {Unlimited}]
    BY SpendType DEF UpdateConfig, Disturbance
  <1>3. \/ mutex = Nobody /\ mutex' = Nobody
        \/ /\ mutex # Nobody /\ mutex' # Nobody /\ mutex' \in Holding
           /\ mutex'.by = mutex.by /\ mutex'.isd = mutex.isd /\ new.limit \in mutex'.limits
    <2>1. CASE mutex # Nobody
      <3>1. mutex \in Holding /\ new.limit \in Limit
        BY <2>1 DEF IInv, TypeOK, Config
      <3> DEFINE m == [mutex EXCEPT !.limits = mutex.limits \cup {new.limit}]
      <3>2. m \in Holding /\ m.by = mutex.by /\ m.isd = mutex.isd /\ new.limit \in m.limits
        BY <3>1 DEF Holding
      <3>3. mutex' = m
        BY <1>1, <2>1
      <3> HIDE DEF m
      <3> QED
        BY <2>1, <3>2, <3>3, NobodyAssumption
    <2> QED
      BY <1>1, <2>1
  <1>4. TypeOK'
    <2>1. EngineTypes'
      BY <1>1, <1>2 DEF IInv, TypeOK, EngineTypes
    <2>2. FieldTypes'
      BY <1>1 DEF IInv, TypeOK, FieldTypes
    <2>3. WorkTypes'
      BY <1>1 DEF IInv, TypeOK, WorkTypes
    <2> QED
      BY <1>1, <1>3, <2>1, <2>2, <2>3 DEF IInv, TypeOK
  <1>5. Orderly' /\ DownIsIdle' /\ LimitMet'
    BY <1>1, <1>3 DEF IInv, Orderly, DownIsIdle, LimitMet
  <1>6. MutualExclusion' /\ SnapshotCurrent'
    BY <1>1, <1>3 DEF IInv, MutualExclusion, SnapshotCurrent, Critical, At
  <1> QED
    BY <1>4, <1>5, <1>6 DEF IInv

\* A preemption preserves the invariant.
LEMMA PreemptSafe ==
    ASSUME IInv, Preempt
    PROVE  IInv'
  <1>1. /\ turn' = Nobody
        /\ UNCHANGED <<cfg, goal, dsc, runState, mut, daemon, conf, target, running, actions,
                       triggers, ticker, polling, mutex, todo, me, inbox, dchan, up>>
    BY DEF Preempt, engine, fields
  <1>2. left' \in [Disturbance -> Nat \cup {Unlimited}]
    BY SpendType DEF Preempt, Disturbance
  <1>3. EngineTypes' /\ FieldTypes' /\ dchan' \in Seq(Discovery) /\ up' \in BOOLEAN
    BY <1>1, <1>2 DEF IInv, TypeOK, EngineTypes, FieldTypes
  <1> QED
    BY <1>1, <1>3, Elsewhere, EventTypes

\* A kill preserves the invariant.
LEMMA KillSafe ==
    ASSUME IInv, Kill
    PROVE  IInv'
  <1>1. left' \in [Disturbance -> Nat \cup {Unlimited}]
    BY SpendType DEF Kill, Disturbance
  <1>2. EngineTypes'
    BY <1>1 DEF Kill, engine, IInv, TypeOK, EngineTypes
  <1> QED
    BY <1>2, GoneSafe DEF Kill

-----------------------------------------------------------------------------
(* The theorems *)

\* The initial states satisfy the invariant.
LEMMA InitSafe ==
    ASSUME Init
    PROVE  IInv
  <1>1. <<>> \in Seq(Trigger) /\ <<>> \in Seq(Op) /\ <<>> \in Seq(Discovery)
    OBVIOUS
  <1>2. dsc \in DscSet /\ cfg \in CfgMap
    BY Names, WantsAssumption DEF Init, DscSet, ImageMap, NoImages, CfgMap
  <1>3. EngineTypes
    BY <1>2, BudgetAssumption DEF Init, EngineTypes
  <1>4. FieldTypes
    <2>1. MaxRetries \in Limit
      BY MaxRetriesAssumption DEF Limit
    <2> QED
      BY <1>1, <2>1, Names DEF Init, NewConfig, FieldTypes, Config, NoActions, NoTriggers, Action
  <1>5. WorkTypes
    BY <1>1 DEF Init, WorkTypes
  <1>6. TypeOK
    BY <1>1, <1>3, <1>4, <1>5 DEF Init, TypeOK
  <1>7. Orderly /\ DownIsIdle /\ LimitMet /\ MutualExclusion /\ SnapshotCurrent
    BY DEF Init, Orderly, DownIsIdle, LimitMet, MutualExclusion, Critical, At, SnapshotCurrent
  <1> QED
    BY <1>6, <1>7 DEF IInv

\* Every operation of a goroutine preserves the invariant.
LEMMA StepSafe ==
    ASSUME IInv, NEW p \in Slots, Step(p)
    PROVE  IInv'
  BY ClearRunningSafe, SetRunningSafe, SetTargetSafe, SetActionSafe, ClearActionSafe,
     ClearAllActionsSafe, ClearAllTriggersSafe, SetATriggerSafe, FireTriggersSafe,
     CreateImageSafe, TCreateSafe, DeleteImageSafe, WritesSafe, CfgChangeSafe,
     DscChangeSafe, ActivateSafe, UnexpectedStateChangeSafe, UpdateSetStateSafe,
     DiscoveriesSafe, StopPollingSafe, ActivateAllSafe, DecideSafe, BeginSafe,
     IdleAllSafe, IdleImageSafe, LocksSafe, ListSafe, RecoverySafe, PauseSafe
  DEF Step

\* Every step of the system preserves the invariant.
LEMMA NextSafe ==
    ASSUME IInv, [Next]_vars
    PROVE  IInv'
  <1>1. CASE Preempt
    BY <1>1, PreemptSafe
  <1>2. ASSUME NEW p \in Slots, Step(p) PROVE IInv'
    BY <1>2, StepSafe
  <1>3. ASSUME NEW p \in Handlers, NEW e \in inbox, Dispatch(p, e) PROVE IInv'
    BY <1>3, DispatchSafe
  <1>4. CASE Poll \/ Restart
    BY <1>4, PollSafe, RestartSafe
  <1>5. CASE Engine
    BY <1>5, ApplySafe, SettleMutationSafe, RequestsSafe DEF Engine
  <1>6. CASE Daemon
    BY <1>6, DaemonSafe
  <1>7. CASE Disturb
    BY <1>7, KillSafe, UpdateConfigSafe, TimeoutMutationSafe, ChangeGoalSafe, RequestsSafe,
       ChangeConfigSafe, DaemonSafe DEF Disturb
  <1>8. CASE UNCHANGED vars
    BY <1>8 DEF vars, IInv, TypeOK, EngineTypes, FieldTypes, WorkTypes, Orderly, DownIsIdle,
                LimitMet, MutualExclusion, Critical, At, SnapshotCurrent
  <1> QED
    BY <1>1, <1>2, <1>3, <1>4, <1>5, <1>6, <1>7, <1>8 DEF Next

\* The conjunction of the type invariant, the order of the goroutines' work, an idle
\* process when down, mutual exclusion and the current snapshot is an invariant: the
\* inductive invariant behind every safety theorem about the imageapi module.
THEOREM Invariance == Spec => []IInv
  BY InitSafe, NextSafe, PTL DEF Spec

\* Every variable keeps its type, in particular the work of a goroutine stays a sequence
\* of well-formed operations whatever triggers and handlers put before it.
THEOREM Typing == Spec => []TypeOK
  BY Invariance, PTL DEF IInv

\* discover and mRecoverError exclude each other: is.mutex is held exactly while one of
\* them is between its read and its write, also on their error paths.
THEOREM Exclusion == Spec => []MutualExclusion
  BY Invariance, PTL DEF IInv

\* The image map that discover and mRecoverError write back was computed from the one
\* the engine still has: no write of an image in between is lost.
THEOREM NoLostWrite == Spec => []SnapshotCurrent
  BY Invariance, PTL DEF IInv

=============================================================================
