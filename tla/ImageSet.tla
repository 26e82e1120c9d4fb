------------------------------- MODULE ImageSet -------------------------------
(***************************************************************************)
(* The discoverable image state of one compute node, as the imageapi       *)
(* module (src/modules/imageapi) keeps it in the state engine: the values  *)
(* of the ImageState extension, the derivation of the set's state from its *)
(* images, the merge a discovery performs, and the changes the engine      *)
(* reports when the set is written.  Pure data, no behaviour.              *)
(***************************************************************************)
EXTENDS Integers, FiniteSets, FiniteSetsExt

CONSTANTS
    Images,      \* names of images that may be configured on the node
    NoImage,     \* stands for "no entry in the discoverable image map"
    MaxRetries   \* the greatest value of Config.MaxRetries: recoveries before FATAL

-----------------------------------------------------------------------------
(* Values *)

\* ImageState: the numeric order is what updateSetState relies on.
UNKNOWN == 0
IDLE    == 1
ACTIVE  == 2
UPDATE  == 3
ERROR   == 4
FATAL   == 5
ImageState == UNKNOWN .. FATAL

\* Image_Action.
Action == {"NONE", "CREATE", "DELETE", "RELOAD"}

\* No entry: an image that is not configured, a container that is not there.
Absent == "absent"

\* States the container daemon reports, plus the module's own DELETED.
Observed == {"created", "running", "stopping", "exited", "dead"}
ContainerState == Observed \cup {"DELETED"}

\* An Image whose Container pointer is nil (created by writing one field of an
\* image that has no entry).
NilContainer == "nil"

Image == [ctn     : ContainerState \cup {NilContainer},
          state   : ImageState,
          action  : Action,
          retries : 0 .. MaxRetries + 1]

\* Config.MaxRetries.
Limit == 0 .. MaxRetries

\* What is decided about an image: its state and its count of retries.
Verdict == [state : ImageState, retries : 0 .. MaxRetries + 1]

\* The images of an ImageSet, and the whole set.
ImageMap == [Images -> Image \cup {NoImage}]
DscSet   == [state : ImageState, images : ImageMap]

\* The configured set: the container state each configured image asks for.
CfgMap == [Images -> Observed \cup {Absent}]

\* What a ListContainers call returns.
Listing == [Images -> Observed \cup {Absent}]

ASSUME NoImageAssumption    == NoImage \notin Image \cup Verdict
ASSUME ImagesAssumption     == IsFiniteSet(Images)
ASSUME MaxRetriesAssumption == MaxRetries \in Nat

-----------------------------------------------------------------------------
(* Reading *)

Known(images)   == {n \in Images : images[n] # NoImage}
Configured(cfg) == {n \in Images : cfg[n] # Absent}
NoImages        == [n \in Images |-> NoImage]

\* updateSetState: the state of the set is the highest state of its images, and
\* the module's target when nothing is configured and nothing is known.
HighestState(images) ==
    Max({UNKNOWN} \cup {images[n].state : n \in Known(images)})

DerivedState(cfg, images, target) ==
    IF Configured(cfg) = {} /\ Known(images) = {}
    THEN target
    ELSE HighestState(images)

-----------------------------------------------------------------------------
(* Writing fields of one image (setValues) *)

\* The zero value a field write leaves behind the other fields of a new entry.
ZeroImage == [ctn |-> NilContainer, state |-> UNKNOWN,
              action |-> "NONE", retries |-> 0]

OrZero(img) == IF img = NoImage THEN ZeroImage ELSE img

\* cfgChange: an image that is new, to be reloaded, or to be deleted.
NewImage == [ctn |-> "DELETED", state |-> UPDATE,
             action |-> "CREATE", retries |-> 0]

Marked(img, action) ==
    IF action = "CREATE"
    THEN NewImage
    ELSE [OrZero(img) EXCEPT !.action = action, !.state = UPDATE]

\* imageRaiseError, tSetACTIVE and tSetIDLE.
Raised(img)  == [OrZero(img) EXCEPT !.state = ERROR]
Activated(img) ==
    [OrZero(img) EXCEPT !.state = ACTIVE, !.action = "NONE", !.retries = 0]
Idled(img) ==
    [OrZero(img) EXCEPT !.state = IDLE, !.action = "CREATE", !.retries = 0]

-----------------------------------------------------------------------------
(* Writing the whole set *)

\* Only whether retries exceeds a limit is ever looked at: the count stops there.
Saturated(retries) == IF retries > MaxRetries THEN MaxRetries + 1 ELSE retries

\* mRecoverError, for one image: one more retry, or too many of them.
RecoveredAt(img, limit) ==
    LET retries == Saturated(img.retries + 1)
    IN  IF retries > limit
        THEN [img EXCEPT !.retries = retries, !.state = FATAL]
        ELSE [img EXCEPT !.retries = retries, !.state = UPDATE, !.action = "RELOAD"]

\* Off by one: the last retry is not granted.
RecoveredEarly(img, limit) == RecoveredAt(img, limit - 1)

Recovered(img, limit) == RecoveredAt(img, limit)

InError(images) ==
    {n \in Images : images[n] # NoImage /\ images[n].state = ERROR}

\* Each image in ERROR meets a limit of its own: the loop over the images lasts.
RecoveredImages(images, limit) ==
    [n \in Images |->
        IF n \in InError(images) THEN Recovered(images[n], limit[n]) ELSE images[n]]

\* "cleared": no image has used up its retries.
Recoverable(images, limit) ==
    \A n \in InError(images) : images[n].retries < limit[n]

\* discover: what to do about a configured image the daemon does not list.
MissingAction(wanted, current) ==
    IF wanted # "running" THEN "NONE"
    ELSE IF current = "RELOAD" THEN "RELOAD" ELSE "CREATE"

\* discover: the stub of a configured image that was not known.
OrStub(img) == IF img = NoImage THEN [ZeroImage EXCEPT !.state = IDLE] ELSE img

\* discover: a configured image that the daemon does not list; and one whose
\* container state is taken over from the missing container.
UnlistedRaw(img, action) == [OrStub(img) EXCEPT !.ctn = Absent, !.action = action]
Unlisted(img, action)    == [OrStub(img) EXCEPT !.ctn = "DELETED", !.action = action]

\* discover: the containers it takes over, all that are listed; and those of configured
\* images only.
TakenConfigured(isc, listing) == {n \in Images : listing[n] # Absent /\ isc[n] # Absent}
Taken(isc, listing)           == {n \in Images : listing[n] # Absent}

\* discover: the image set built from the configured set isc, the known set isd,
\* the daemon's listing and the actions in progress.
Discovered(isc, isd, listing, actions) ==
    [n \in Images |->
        IF n \in Taken(isc, listing)
        THEN [OrZero(isd[n]) EXCEPT !.ctn = listing[n]]
        ELSE IF isc[n] = Absent THEN NoImage
        ELSE Unlisted(isd[n], MissingAction(isc[n], actions[n]))]

-----------------------------------------------------------------------------
(* What the state engine reports when the images are written *)

Sub == {"", "/Action", "/State", "/Container/State"}

\* The sub-URLs of image n that changed; "" when the entry came or went.
ChangedSubs(old, new) ==
    IF old = new THEN {}
    ELSE IF old = NoImage \/ new = NoImage THEN {""}
    ELSE {s \in Sub : \/ s = "/Action" /\ old.action # new.action
                      \/ s = "/State" /\ old.state # new.state
                      \/ s = "/Container/State" /\ old.ctn # new.ctn}

=============================================================================
