------------------------ MODULE ImageLifecycle_proofs -------------------------
(***************************************************************************)
(* ImageAgent implements ImageLifecycle: whatever its goroutines do at the  *)
(* same time, what becomes of each image follows the abstract life cycle;   *)
(* in particular only mRecoverError gives an image up, by a limit that was  *)
(* configured while it ran, and no other write of an image falls between    *)
(* what a listing or a recovery reads and what it writes.                   *)
(***************************************************************************)
EXTENDS ImageAgent_proofs

-----------------------------------------------------------------------------
(* How a step changes the images, the mutex and the configuration *)

\* The entries one write may put in place of old.
Rewritten(old) ==
    {Raised(old), Activated(old), Idled(old)} \cup {Marked(old, a) : a \in Action}

\* The images stay: and all the rest; or the mutex is taken, or given back, or the module
\* is configured anew.
Kept == dsc'.images = dsc.images

NothingDone  == Kept /\ UNCHANGED <<mutex, conf>>
SectionBegun == Kept /\ conf' = conf /\ mutex = Nobody /\ \E p \in Slots : mutex' = Reading(p)
SectionLeft  == Kept /\ conf' = conf /\ mutex' = Nobody
Reconfigured == Kept /\ \E new \in Config : UpdateConfig(new)

\* One image is written; the containers are listed; the errors are recovered; the
\* process starts from nothing.
ImageWritten ==
    \E n \in Images : \E img \in Rewritten(dsc.images[n]) :
        dsc'.images = [dsc.images EXCEPT ![n] = img]

ImagesListed ==
    \E isc \in CfgMap, listing \in Listing :
        dsc'.images = Discovered(isc, dsc.images, listing, actions)

ImagesRecovered ==
    \E limit \in [InError(dsc.images) -> mutex.limits] :
        dsc'.images = RecoveredImages(dsc.images, limit)

WrittenFree  == ImageWritten /\ mutex = Nobody /\ UNCHANGED <<mutex, conf>>
SectionStore == /\ ImagesListed \/ ImagesRecovered
                /\ mutex # Nobody /\ mutex' = Nobody /\ conf' = conf
Emptied      == /\ dsc'.images = NoImages /\ mutex = Nobody
                /\ mutex' = mutex /\ conf' = NewConfig

ImageChange == \/ NothingDone \/ SectionBegun \/ SectionLeft \/ Reconfigured
               \/ WrittenFree \/ SectionStore \/ Emptied

\* The four writes of one image.
LEMMA WriteChanges ==
    ASSUME IInv, NEW p \in Slots,
           ImageRaiseError(p) \/ TSetACTIVE(p) \/ TSetIDLE(p) \/ Mark(p)
    PROVE  WrittenFree
  <1>1. Head(todo[p]) \in TameOp /\ Head(todo[p]).op \in {"raiseError", "tSetACTIVE", "tSetIDLE", "mark"}
    BY Working DEF ImageRaiseError, TSetACTIVE, TSetIDLE, Mark, CriticalOps
  <1>2. Img(p) \in Images
    BY <1>1, OnImage DEF ImageOps, Trigger
  <1>3. ASSUME NEW img, Write(p, img)
        PROVE  /\ dsc'.images = [dsc.images EXCEPT ![Img(p)] = img]
               /\ mutex = Nobody /\ UNCHANGED <<mutex, conf>>
    BY <1>3 DEF Write, WriteUnlocked, StoreImage, Store, Locking, fields, IInv, TypeOK, EngineTypes, DscSet
  <1>4. \E img \in Rewritten(Old(p)) : Write(p, img)
    <2>1. CASE Mark(p)
      <3>1. Par(p) \in Action
        BY <1>1, <2>1 DEF Mark, At, Par, TameOp, Op
      <3> QED
        BY <2>1, <3>1 DEF Mark, Rewritten
    <2>2. CASE ImageRaiseError(p) \/ TSetACTIVE(p) \/ TSetIDLE(p)
      BY <2>2 DEF ImageRaiseError, TSetACTIVE, TSetIDLE, Rewritten
    <2> QED
      BY <2>1, <2>2
  <1> QED
    BY <1>2, <1>3, <1>4 DEF WrittenFree, ImageWritten, Old

\* What discover and mRecoverError do when they leave their critical section.
LEMMA CriticalChanges ==
    ASSUME IInv, NEW p \in Slots, ListContainers(p) \/ Recovery(p)
    PROVE  SectionLeft \/ SectionStore
  <1>1. mutex \in Holding /\ mutex # Nobody /\ mutex.isd.images = dsc.images
    BY Holder DEF ListContainers, Recovery
  <1>2. ASSUME NEW images, NEW ops, StoreAndUnlock(p, images, ops)
        PROVE  dsc'.images = images /\ mutex' = Nobody /\ conf' = conf
    BY <1>2 DEF StoreAndUnlock, Store, fields
  <1>3. CASE ListContainers(p)
    <2>1. mutex.isc \in CfgMap /\ Listed \in Listing
      BY <1>1 DEF Holding, Listed, Listing, IInv, TypeOK, EngineTypes, Observed
    <2> QED
      BY <1>1, <1>2, <1>3, <2>1 DEF ListContainers, SectionStore, ImagesListed
  <1>4. CASE Recovery(p)
    <2>1. PICK limit \in [InError(mutex.isd.images) -> mutex.limits] :
             LET go == IF Recoverable(mutex.isd.images, limit) THEN Towards(Goal(p)) ELSE <<>>
             IN  IF InError(mutex.isd.images) = {}
                 THEN /\ mutex' = Nobody
                      /\ Then(p, go)
                      /\ UNCHANGED <<engine, daemon, fields, inbox, dchan, up, left>>
                 ELSE StoreAndUnlock(p, RecoveredImages(mutex.isd.images, limit),
                                     <<Call("updateSetState")>> \o go)
      BY <1>4 DEF Recovery
    <2>2. CASE InError(mutex.isd.images) = {}
      BY <2>1, <2>2 DEF SectionLeft, Kept, engine, fields
    <2>3. CASE InError(mutex.isd.images) # {}
      BY <1>1, <1>2, <2>1, <2>3 DEF SectionStore, ImagesRecovered
    <2> QED
      BY <2>2, <2>3
  <1> QED
    BY <1>3, <1>4

\* No other operation writes an image.
LEMMA OtherSteps ==
    ASSUME NEW p \in Slots, Step(p),
           ~ (ImageRaiseError(p) \/ TSetACTIVE(p) \/ TSetIDLE(p) \/ Mark(p)),
           ~ (ListContainers(p) \/ Recovery(p))
    PROVE  NothingDone \/ SectionBegun \/ SectionLeft
  <1>1. ASSUME NEW ops, Read(p, ops) PROVE NothingDone
    BY <1>1 DEF Read, engine, fields, NothingDone, Kept
  <1>2. ASSUME Panic PROVE SectionLeft
    BY <1>2 DEF Panic, ProcessGone, engine, SectionLeft, Kept
  <1>3. CASE \/ ClearRunning(p) \/ SetRunning(p) \/ SetTarget(p)
             \/ SetAction(p) \/ ClearAction(p) \/ ClearAllActions(p)
             \/ ClearAllTriggers(p) \/ SetATrigger(p) \/ FireTriggers(p)
    BY <1>3 DEF ClearRunning, SetRunning, SetTarget, SetAction, ClearAction, ClearAllActions,
                ClearAllTriggers, SetATrigger, FireTriggers, Outside, engine, NothingDone, Kept
  <1>4. CASE CreateImage(p) \/ TCreate(p) \/ DeleteImage(p)
    BY <1>2, <1>4 DEF CreateImage, TCreate, Create, DeleteImage, Only, engine, fields,
                      NothingDone, Kept
  <1>5. CASE CfgChange(p) \/ DscChange(p) \/ Pause(p)
    BY <1>1, <1>5 DEF CfgChange, DscChange, Pause
  <1>6. CASE \/ ActivateIfNew(p) \/ UnexpectedStateChange(p) \/ UpdateSetState(p)
             \/ ActivateAll(p) \/ ActivateImage(p) \/ Decide(p) \/ Begin(p)
             \/ IdleAll(p) \/ IdleImage(p)
    BY <1>1, <1>2, <1>6 DEF ActivateIfNew, UnexpectedStateChange, UpdateSetState, ActivateAll,
                            ActivateImage, Decide, Begin, IdleAll, IdleImage
  <1>7. CASE DiscoverSet(p) \/ DiscoverINIT(p) \/ StopPolling(p)
    BY <1>7 DEF DiscoverSet, DiscoverINIT, Send, StopPolling, engine, fields, NothingDone, Kept
  <1>8. CASE Discover(p) \/ RecoverError(p)
    BY <1>8 DEF Discover, RecoverError, LockAndRead, TakeAndRead, Locking, engine, fields,
                SectionBegun, Kept
  <1>9. CASE ListContainersFails(p)
    BY <1>9 DEF ListContainersFails, ListingFailed, engine, fields, SectionLeft, Kept
  <1> QED
    BY <1>3, <1>4, <1>5, <1>6, <1>7, <1>8, <1>9 DEF Step

\* Every step of the system changes the images in one of these ways, or not at all.
LEMMA NextChanges ==
    ASSUME IInv, [Next]_vars
    PROVE  ImageChange
  <1>1. ASSUME NEW p \in Slots, Step(p) PROVE ImageChange
    <2>1. CASE ImageRaiseError(p) \/ TSetACTIVE(p) \/ TSetIDLE(p) \/ Mark(p)
      BY <2>1, WriteChanges DEF ImageChange
    <2>2. CASE ListContainers(p) \/ Recovery(p)
      BY <2>2, CriticalChanges DEF ImageChange
    <2> QED
      BY <1>1, <2>1, <2>2, OtherSteps DEF ImageChange
  <1>2. CASE Restart
    BY <1>2 DEF Restart, Restarted, ImageChange, Emptied, IInv, DownIsIdle
  <1>3. CASE Apply \/ TimeoutMutation
    BY <1>3 DEF Apply, TimeoutMutation, Quiet, fields, IInv, TypeOK, EngineTypes, DscSet,
                ImageChange, NothingDone, Kept
  <1>4. CASE Preempt \/ Daemon \/ \E n \in Images : ContainerDies(n)
    BY <1>4 DEF Preempt, Daemon, ContainerRuns, ContainerExits, ContainerDies, Becomes,
                engine, fields, ImageChange, NothingDone, Kept
  <1>5. CASE SettleMutation \/ RequestINIT \/ \E m \in Muts : RequestMutation(m)
    BY <1>5 DEF SettleMutation, Quiet, RequestINIT, RequestINITAnyway, RequestMutation, Request,
                fields, ImageChange, NothingDone, Kept
  <1>6. CASE \/ ChangeGoal
             \/ \E n \in Images, want \in Wants \cup {Absent} : ChangeConfig(n, want)
             \/ \E p \in Handlers, e \in inbox : Dispatch(p, e)
    BY <1>6 DEF ChangeGoal, ChangeConfig, Quiet, Dispatch, engine, fields, ImageChange,
                NothingDone, Kept
  <1>7. CASE Kill
    BY <1>7 DEF Kill, ProcessGone, engine, ImageChange, SectionLeft, Kept
  <1>8. CASE \E new \in Config : UpdateConfig(new)
    BY <1>8 DEF UpdateConfig, engine, ImageChange, Reconfigured, Kept
  <1>9. CASE Poll
    BY <1>9 DEF Poll, Locking, Slots, engine, fields, ImageChange, SectionBegun, Kept
  <1>10. CASE UNCHANGED vars
    BY <1>10 DEF vars, ImageChange, NothingDone, Kept
  <1> QED
    BY <1>1, <1>2, <1>3, <1>4, <1>5, <1>6, <1>7, <1>8, <1>9, <1>10 DEF Next, Engine, Disturb

\* The states and retries that one write leaves behind.
LEMMA RewrittenStates ==
    ASSUME NEW old \in Image \cup {NoImage}, NEW img \in Rewritten(old)
    PROVE  \/ img.state \in {ACTIVE, IDLE} /\ img.retries = 0
           \/ img.state = ERROR /\ img.retries = OrZero(old).retries
           \/ img.state = UPDATE /\ img.retries \in {0, OrZero(old).retries}
  <1>1. OrZero(old) \in Image
    BY ImageTypes
  <1>2. CASE img = Raised(old)
    BY <1>1, <1>2 DEF Raised, Image
  <1>3. CASE img = Activated(old)
    BY <1>1, <1>3 DEF Activated, Image
  <1>4. CASE img = Idled(old)
    BY <1>1, <1>4 DEF Idled, Image
  <1>5. ASSUME NEW a \in Action, img = Marked(old, a)
        PROVE  img.state = UPDATE /\ img.retries \in {0, OrZero(old).retries}
    <2>1. CASE a = "CREATE"
      BY <1>5, <2>1 DEF Marked, NewImage
    <2>2. CASE a # "CREATE"
      BY <1>1, <1>5, <2>2 DEF Marked, Image
    <2> QED
      BY <2>1, <2>2
  <1> QED
    BY <1>2, <1>3, <1>4, <1>5 DEF Rewritten

-----------------------------------------------------------------------------
(* The refinement *)

\* The values of the abstract module are those of the detailed one.
LEMMA SameValues ==
    /\ Lifecycle!UNKNOWN = UNKNOWN /\ Lifecycle!IDLE = IDLE /\ Lifecycle!ACTIVE = ACTIVE
    /\ Lifecycle!UPDATE = UPDATE /\ Lifecycle!ERROR = ERROR /\ Lifecycle!FATAL = FATAL
    /\ Lifecycle!Verdict = Verdict /\ Lifecycle!Limit = Limit
  BY DEF Lifecycle!UNKNOWN, Lifecycle!IDLE, Lifecycle!ACTIVE, Lifecycle!UPDATE,
         Lifecycle!ERROR, Lifecycle!FATAL, Lifecycle!Verdict, Lifecycle!ImageState,
         Lifecycle!Limit,
         UNKNOWN, IDLE, ACTIVE, UPDATE, ERROR, FATAL, Verdict, ImageState, Limit

\* What is decided about an image is a verdict, and NoImage exactly without an entry.
LEMMA VerdictType ==
    ASSUME NEW img \in Image \cup {NoImage}
    PROVE  /\ VerdictOf(img) \in Verdict \cup {NoImage}
           /\ img # NoImage => /\ VerdictOf(img) # NoImage
                               /\ VerdictOf(img) = [state |-> img.state, retries |-> img.retries]
  <1>1. img # NoImage => [state |-> img.state, retries |-> img.retries] \in Verdict
    BY DEF Image, Verdict
  <1> QED
    BY <1>1, NoImageAssumption DEF VerdictOf

\* The limits that whoever holds the mutex has met.
Met == IF mutex = Nobody THEN {} ELSE mutex.limits

LEMMA MetNow ==
    ASSUME IInv
    PROVE  /\ conf.limit \in Limit /\ Met \subseteq Limit
           /\ mutex = Nobody => Met = {}
           /\ mutex # Nobody => conf.limit \in Met /\ Met = mutex.limits /\ Met # {}
  BY DEF Met, IInv, LimitMet, TypeOK, FieldTypes, Config, Holding

\* Taking the mutex begins a listing or a recovery, giving it back without a write
\* abandons it, and UpdateConfig configures a limit.
LEMMA SectionRefines ==
    ASSUME IInv, IInv', SectionBegun \/ SectionLeft \/ Reconfigured
    PROVE  Lifecycle!Begin \/ Lifecycle!Abandon \/ Lifecycle!Configure
  <1>1. UNCHANGED Verdicts
    BY DEF Verdicts, SectionBegun, SectionLeft, Reconfigured, Kept
  <1>2. CASE SectionBegun
    <2>1. PICK p \in Slots : mutex' = Reading(p)
      BY <1>2 DEF SectionBegun
    <2>2. Met = {} /\ Met' = {conf.limit} /\ conf' = conf
      BY <1>2, <2>1, ReadingType DEF SectionBegun, Met, Reading
    <2>3. Lifecycle!Begin
      BY <1>1, <2>2 DEF Lifecycle!Begin, Met
    <2> QED
      BY <2>3
  <1>3. CASE SectionLeft
    <2>1. Lifecycle!Abandon
      BY <1>1, <1>3 DEF SectionLeft, Lifecycle!Abandon
    <2> QED
      BY <2>1
  <1>4. CASE Reconfigured
    <2>1. PICK new \in Config : UpdateConfig(new)
      BY <1>4 DEF Reconfigured
    <2>2. /\ conf' = new /\ new.limit \in Limit
          /\ mutex' = IF mutex = Nobody THEN Nobody
                      ELSE [mutex EXCEPT !.limits = mutex.limits \cup {new.limit}]
      BY <2>1 DEF UpdateConfig, Config
    <2>3. Met' = IF Met = {} THEN {} ELSE Met \cup {new.limit}
      <3>1. CASE mutex = Nobody
        BY <2>2, <3>1 DEF Met
      <3>2. CASE mutex # Nobody
        <4>1. mutex \in Holding
          BY <3>2 DEF IInv, TypeOK
        <4> DEFINE m == [mutex EXCEPT !.limits = mutex.limits \cup {new.limit}]
        <4>2. m \in Holding /\ m.limits = mutex.limits \cup {new.limit}
          BY <2>2, <4>1 DEF Holding
        <4>3. mutex' = m /\ m # Nobody
          BY <2>2, <3>2, <4>2, NobodyAssumption
        <4> HIDE DEF m
        <4> QED
          BY <3>2, <4>2, <4>3, MetNow DEF Met
      <3> QED
        BY <3>1, <3>2
    <2>4. Lifecycle!Configure
      BY <1>1, <2>2, <2>3, SameValues DEF Lifecycle!Configure, Met
    <2> QED
      BY <2>4
  <1> QED
    BY <1>2, <1>3, <1>4

\* A write of one image is a success, a failure or a redefinition.
LEMMA WriteRefines ==
    ASSUME IInv, WrittenFree
    PROVE  \E n \in Images : Lifecycle!WriteOne(n)
  <1>0. PICK n \in Images : \E img \in Rewritten(dsc.images[n]) :
           dsc'.images = [dsc.images EXCEPT ![n] = img]
    BY DEF WrittenFree, ImageWritten
  <1>10. ASSUME Lifecycle!Succeed(n) \/ Lifecycle!Fail(n) \/ Lifecycle!Redefine(n)
        PROVE  Lifecycle!WriteOne(n)
    BY <1>10 DEF WrittenFree, Lifecycle!WriteOne
  <1>1. PICK img \in Rewritten(dsc.images[n]) :
           dsc'.images = [dsc.images EXCEPT ![n] = img]
    BY <1>0
  <1> DEFINE old == dsc.images[n]
             v   == Verdicts[n]
  <1>2. old \in Image \cup {NoImage} /\ img \in Image
    BY ImagesNow, ImageTypes DEF Rewritten
  <1>3. img # NoImage
    BY <1>2, NoImageAssumption
  <1>4. Verdicts' = [Verdicts EXCEPT ![n] = [state |-> img.state, retries |-> img.retries]]
    BY <1>1, <1>3 DEF Verdicts, VerdictOf, IInv, TypeOK, EngineTypes, DscSet, ImageMap
  <1>5. OrZero(old).retries = Lifecycle!RetriesOf(Verdicts[n])
    <2>1. Verdicts[n] = VerdictOf(old)
      BY DEF Verdicts
    <2>2. CASE old = NoImage
      BY <2>1, <2>2 DEF OrZero, ZeroImage, VerdictOf, Lifecycle!RetriesOf
    <2>3. CASE old # NoImage
      BY <1>2, <2>1, <2>3, VerdictType DEF OrZero, Lifecycle!RetriesOf
    <2> QED
      BY <2>2, <2>3
  <1>6. \/ img.state \in {ACTIVE, IDLE} /\ img.retries = 0
        \/ img.state = ERROR /\ img.retries = OrZero(old).retries
        \/ img.state = UPDATE /\ img.retries \in {0, OrZero(old).retries}
    BY <1>2, RewrittenStates
  <1>7. CASE img.state \in {ACTIVE, IDLE} /\ img.retries = 0
    <2>1. Lifecycle!Succeed(n)
      BY <1>4, <1>7, SameValues DEF Lifecycle!Succeed, Lifecycle!Fresh
    <2> QED
      BY <2>1, <1>10
  <1>8. CASE img.state = ERROR /\ img.retries = OrZero(old).retries
    <2>1. Lifecycle!Fail(n)
      BY <1>4, <1>5, <1>8, SameValues DEF Lifecycle!Fail
    <2> QED
      BY <2>1, <1>10
  <1>9. CASE img.state = UPDATE /\ img.retries \in {0, OrZero(old).retries}
    <2>1. Lifecycle!Redefine(n)
      BY <1>4, <1>5, <1>9, SameValues DEF Lifecycle!Redefine, Lifecycle!Fresh
    <2> QED
      BY <2>1, <1>10
  <1> QED
    BY <1>6, <1>7, <1>8, <1>9

\* The write of a discovery is a listing, which decides nothing.
LEMMA ListRefines ==
    ASSUME IInv, IInv', SectionStore, ImagesListed
    PROVE  Lifecycle!ListingTaken
  <1>1. Verdicts' \in [Images -> Verdict \cup {NoImage}]
    BY VerdictType DEF Verdicts, IInv, TypeOK, EngineTypes, DscSet, ImageMap
  <1>2. ASSUME NEW n \in Images
        PROVE  \/ Verdicts'[n] = Verdicts[n]
               \/ Verdicts'[n] = NoImage
               \/ /\ Verdicts[n] = NoImage
                  /\ Verdicts'[n] \in {Lifecycle!Fresh(UNKNOWN), Lifecycle!Fresh(IDLE)}
    <2> DEFINE old == dsc.images[n]
               new == dsc'.images[n]
    <2>1. old \in Image \cup {NoImage} /\ new \in Image \cup {NoImage}
      BY DEF IInv, TypeOK, EngineTypes, DscSet, ImageMap
    <2>2. Verdicts[n] = VerdictOf(old) /\ Verdicts'[n] = VerdictOf(new)
      BY DEF Verdicts
    <2>3. \/ new = NoImage
          \/ \E c : new = [OrZero(old) EXCEPT !.ctn = c]
          \/ \E a : new = Unlisted(old, a)
      BY DEF ImagesListed, Discovered
    <2>4. CASE new = NoImage
      BY <2>2, <2>4 DEF VerdictOf
    <2>5. CASE new # NoImage /\ old # NoImage
      <3>1. new.state = old.state /\ new.retries = old.retries
        BY <2>1, <2>3, <2>5 DEF OrZero, Unlisted, OrStub, Image
      <3> QED
        BY <2>2, <2>5, <3>1 DEF VerdictOf
    <2>6. CASE new # NoImage /\ old = NoImage
      <3>1. new.state \in {UNKNOWN, IDLE} /\ new.retries = 0
        BY <2>3, <2>6 DEF OrZero, Unlisted, OrStub, ZeroImage
      <3> QED
        BY <2>2, <2>6, <3>1 DEF VerdictOf, Lifecycle!Fresh
    <2> QED
      BY <2>4, <2>5, <2>6
  <1> QED
    BY <1>1, <1>2, MetNow, SameValues DEF SectionStore, Met, Lifecycle!ListingTaken

\* The write of mRecoverError retries or gives up exactly the images in ERROR.
LEMMA RecoverRefines ==
    ASSUME IInv, SectionStore, ImagesRecovered
    PROVE  Lifecycle!Recover
  <1>1. PICK limit \in [InError(dsc.images) -> mutex.limits] :
           dsc'.images = RecoveredImages(dsc.images, limit)
    BY DEF ImagesRecovered
  <1> DEFINE l == [n \in Images |-> IF n \in InError(dsc.images) THEN limit[n] ELSE conf.limit]
  <1>2. l \in [Images -> Met] /\ Met \subseteq Limit
    BY MetNow DEF SectionStore, InError
  <1>3. ASSUME NEW n \in Images
        PROVE  Verdicts'[n] = IF Verdicts[n] # NoImage /\ Verdicts[n].state = ERROR
                              THEN Lifecycle!Retried(Verdicts[n], l[n]) ELSE Verdicts[n]
    <2> DEFINE old == dsc.images[n]
    <2>1. old \in Image \cup {NoImage}
      BY ImagesNow
    <2>2. /\ Verdicts[n] = VerdictOf(old) /\ Verdicts'[n] = VerdictOf(dsc'.images[n])
          /\ dsc'.images[n] = IF n \in InError(dsc.images) THEN Recovered(old, limit[n]) ELSE old
      BY <1>1 DEF Verdicts, RecoveredImages
    <2>3. CASE n \notin InError(dsc.images)
      <3>1. Verdicts[n] = NoImage \/ Verdicts[n].state # ERROR
        BY <2>1, <2>2, <2>3, VerdictType DEF VerdictOf, InError
      <3> QED
        BY <2>2, <2>3, <3>1
    <2>4. CASE n \in InError(dsc.images)
      <3> DEFINE new == Recovered(old, limit[n])
      <3>1. /\ old \in Image /\ old # NoImage /\ old.state = ERROR
            /\ old.retries \in 0 .. MaxRetries + 1 /\ limit[n] \in 0 .. MaxRetries
            /\ l[n] = limit[n]
        BY <1>2, <2>1, <2>4 DEF InError, Image, Limit
      <3>2. /\ new.state = IF old.retries >= limit[n] THEN FATAL ELSE UPDATE
            /\ new.retries = IF old.retries >= limit[n]
                             THEN Saturated(old.retries + 1) ELSE old.retries + 1
            /\ new \in Image
        <4>1. /\ Saturated(old.retries + 1) > limit[n] <=> old.retries >= limit[n]
              /\ old.retries < limit[n] => Saturated(old.retries + 1) = old.retries + 1
              /\ Saturated(old.retries + 1) \in 0 .. MaxRetries + 1
          BY <3>1, MaxRetriesAssumption DEF Saturated
        <4>2. FATAL \in ImageState /\ UPDATE \in ImageState /\ "RELOAD" \in Action
          BY DEF ImageState, FATAL, UPDATE, UNKNOWN, Action
        <4>3. new = IF Saturated(old.retries + 1) > limit[n]
                    THEN [old EXCEPT !.retries = Saturated(old.retries + 1), !.state = FATAL]
                    ELSE [old EXCEPT !.retries = Saturated(old.retries + 1), !.state = UPDATE,
                                     !.action = "RELOAD"]
          BY DEF Recovered, RecoveredAt
        <4> HIDE DEF l, new
        <4>4. CASE old.retries >= limit[n]
          BY <3>1, <4>1, <4>2, <4>3, <4>4 DEF Image
        <4>5. CASE old.retries < limit[n]
          BY <3>1, <4>1, <4>2, <4>3, <4>5 DEF Image
        <4> QED
          BY <3>1, <4>4, <4>5
      <3>3. new # NoImage
        BY <3>2, NoImageAssumption
      <3>4. VerdictOf(new) = Lifecycle!Retried(VerdictOf(old), limit[n])
        <4>1. VerdictOf(new) = [state |-> new.state, retries |-> new.retries]
          BY <3>3 DEF VerdictOf
        <4>2. VerdictOf(old) = [state |-> old.state, retries |-> old.retries]
          BY <3>1 DEF VerdictOf
        <4>3. Lifecycle!Saturated(old.retries + 1) = Saturated(old.retries + 1)
          BY DEF Lifecycle!Saturated, Saturated
        <4> HIDE DEF new
        <4> QED
          BY <3>2, <4>1, <4>2, <4>3, SameValues DEF Lifecycle!Retried
      <3>5. VerdictOf(old) # NoImage /\ VerdictOf(old).state = ERROR
        BY <2>1, <3>1, VerdictType
      <3> QED
        BY <2>2, <2>4, <3>1, <3>4, <3>5
    <2> QED
      BY <2>3, <2>4
  <1>4. Verdicts' = [n \in Images |-> Verdicts'[n]]
    BY DEF Verdicts
  <1>5. Verdicts' = [n \in Images |->
                       IF Verdicts[n] # NoImage /\ Verdicts[n].state = Lifecycle!ERROR
                       THEN Lifecycle!Retried(Verdicts[n], l[n]) ELSE Verdicts[n]]
    BY <1>3, <1>4, SameValues
  <1>6. Met # {} /\ Met' = {} /\ conf' = conf
    BY MetNow DEF SectionStore, Met
  <1> HIDE DEF l
  <1> QED
    BY <1>2, <1>5, <1>6 DEF Lifecycle!Recover, Met

\* A restart of the process forgets every verdict.
LEMMA EmptiedRefines ==
    ASSUME IInv, Emptied
    PROVE  Lifecycle!Forget
  BY DEF Emptied, NewConfig, Lifecycle!Forget, Verdicts, VerdictOf, NoImages

\* The detailed module implements the abstract life cycle: discovery decides nothing, an
\* image is retried or given up only out of ERROR, by a limit that was configured since
\* mRecoverError began, and no failure, success or redefinition of an image gets lost in
\* the back-off or in a listing.
THEOREM Refinement == Spec => FollowsLifecycle
  <1>1. Init => Lifecycle!VerdictInit
    BY DEF Init, NewConfig, Lifecycle!VerdictInit, Verdicts, VerdictOf, NoImages
  <1>2. IInv /\ IInv' /\ [Next]_vars => [Lifecycle!VerdictNext]_(Lifecycle!VerdictVars)
    <2> SUFFICES ASSUME IInv, IInv', [Next]_vars
                 PROVE  [Lifecycle!VerdictNext]_(Lifecycle!VerdictVars)
      OBVIOUS
    <2>1. ImageChange
      BY NextChanges
    <2>2. NothingDone => UNCHANGED Lifecycle!VerdictVars
      BY DEF NothingDone, Kept, Verdicts, Lifecycle!VerdictVars
    <2>3. SectionStore => ImagesListed \/ ImagesRecovered
      BY DEF SectionStore
    <2> QED
      BY <2>1, <2>2, <2>3, WriteRefines, ListRefines, RecoverRefines, SectionRefines,
         EmptiedRefines
      DEF ImageChange, Lifecycle!VerdictNext
  <1> QED
    BY <1>1, <1>2, Invariance, PTL DEF Spec, FollowsLifecycle, Lifecycle!VerdictSpec

=============================================================================
