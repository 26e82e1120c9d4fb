---------------------------- MODULE ImageLifecycle ----------------------------
(***************************************************************************)
(* What the imageapi module promises about the verdict on each image (its   *)
(* state and its count of retries), whatever its goroutines do at the same  *)
(* time: discovery decides nothing, only an image in ERROR is retried or    *)
(* given up, by a limit that was configured while it was being decided, and *)
(* nothing else is written while a listing or a recovery is at work.        *)
(***************************************************************************)
EXTENDS ImageSet

CONSTANT Gone       \* the verdict on an image that has no entry

VARIABLES
    verdict,    \* Images -> [state, retries], or Gone
    limit,      \* Config.MaxRetries
    met         \* the limits there were since a listing or a recovery began, if one did

Fresh(s) == [state |-> s, retries |-> 0]

\* An entry that a field write creates starts from the zero value.
RetriesOf(v) == IF v = Gone THEN 0 ELSE v.retries

VerdictInit ==
    /\ verdict = [n \in Images |-> Gone]
    /\ limit = MaxRetries
    /\ met = {}

\* Another limit is configured.
Configure ==
    /\ limit' \in Limit
    /\ met' = IF met = {} THEN {} ELSE met \cup {limit'}
    /\ UNCHANGED verdict

\* A listing or a recovery begins; it fails, or finds nothing to change.
Begin   == met = {} /\ met' = {limit} /\ UNCHANGED <<verdict, limit>>
Abandon == met' = {} /\ UNCHANGED <<verdict, limit>>

\* The daemon was listed: images appear and vanish, the others keep their verdict.
ListingTaken ==
    /\ met # {} /\ met' = {}
    /\ verdict' \in [Images -> Verdict \cup {Gone}]
    /\ \A n \in Images :
         \/ verdict'[n] = verdict[n]
         \/ verdict'[n] = Gone
         \/ verdict[n] = Gone /\ verdict'[n] \in {Fresh(UNKNOWN), Fresh(IDLE)}
    /\ UNCHANGED limit

\* All images in ERROR are retried, or given up once their retries are used up.
Retried(v, l) == IF v.retries >= l
                 THEN [state |-> FATAL, retries |-> Saturated(v.retries + 1)]
                 ELSE [state |-> UPDATE, retries |-> v.retries + 1]

Recover ==
    /\ met # {} /\ met' = {}
    /\ \E l \in [Images -> met] :
         verdict' = [n \in Images |->
                       IF verdict[n] # Gone /\ verdict[n].state = ERROR
                       THEN Retried(verdict[n], l[n]) ELSE verdict[n]]
    /\ UNCHANGED limit

\* The image has reached the state it was driven to: it has all retries again.
Succeed(n) ==
    \E s \in {ACTIVE, IDLE} : verdict' = [verdict EXCEPT ![n] = Fresh(s)]

\* The image failed, or its configuration changed.
Fail(n) ==
    verdict' = [verdict EXCEPT ![n] = [state |-> ERROR, retries |-> RetriesOf(@)]]

Redefine(n) ==
    \/ verdict' = [verdict EXCEPT ![n] = [state |-> UPDATE, retries |-> RetriesOf(@)]]
    \/ verdict' = [verdict EXCEPT ![n] = Fresh(UPDATE)]

\* One image is written, with no listing and no recovery at work.
WriteOne(n) ==
    /\ met = {}
    /\ Succeed(n) \/ Fail(n) \/ Redefine(n)
    /\ UNCHANGED <<limit, met>>

\* The process died, and starts from nothing, with the default limit.
Forget ==
    /\ met = {}
    /\ verdict' = [n \in Images |-> Gone]
    /\ limit' = MaxRetries
    /\ UNCHANGED met

VerdictNext ==
    \/ Configure \/ Begin \/ Abandon \/ ListingTaken \/ Recover \/ Forget
    \/ \E n \in Images : WriteOne(n)

VerdictVars == <<verdict, limit, met>>
VerdictSpec == VerdictInit /\ [][VerdictNext]_VerdictVars

=============================================================================
