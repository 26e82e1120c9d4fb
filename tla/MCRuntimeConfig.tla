--------------------------- MODULE MCRuntimeConfig ---------------------------
(***************************************************************************)
(* RuntimeConfig for TLC: two instances, the first with two mutations.  A   *)
(* file either has parameters or overrides, which do not interact.          *)
(***************************************************************************)
EXTENDS RuntimeConfig, TLC

CONSTANTS a, b, m1, m2

TwoInstances == a :> {m1, m2} @@ b :> {m2}

None == [n \in Names |-> NoEntry]

\* What a file says of the mutation m1: nothing, that it is disabled, a timeout or none.
OfM1 == {NoEntry} \cup [disable : {TRUE}, timeout : {"zero"}]
                 \cup [disable : {FALSE}, timeout : {"zero", "other"}]

Disabled    == [disable |-> TRUE, mutations |-> Gone]
Says(o)     == [disable |-> FALSE, mutations |-> [m \in AllMutations |-> IF m = m1 THEN o ELSE NoEntry]]
Overrides   == {NoEntry, Disabled} \cup {Says(o) : o \in OfM1}

ParameterFiles ==
    [params : [Params -> {"zero", "other", NoEntry}], instances : {None}]
OverrideFiles ==
    [params : {[p \in Params |-> NoEntry]},
     instances : {(a :> x @@ b :> y @@ sse :> z @@ Unknown :> u) :
                    x \in Overrides, y \in Overrides, z \in {NoEntry, Disabled},
                    u \in {NoEntry, Says(NoEntry)}}]

AllFiles == ParameterFiles \cup OverrideFiles

=============================================================================
