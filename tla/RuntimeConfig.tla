----------------------------- MODULE RuntimeConfig -----------------------------
(***************************************************************************)
(* The start of the program (src/cmd/kraken-layercake/main.go): a runtime    *)
(* configuration is built from defaults, a file and flags, and its overrides *)
(* are applied to the registry of service instances and their mutations,     *)
(* one instance at a time in the order of a Go map, which is any order.      *)
(*                                                                          *)
(* With -printrc the program prints what it built and exits; the output "can *)
(* be used as a basis for a new config": the program may then be started     *)
(* again with it.                                                            *)
(***************************************************************************)
EXTENDS Naturals, FiniteSets

CONSTANTS
    Instances,   \* registered service instances
    Unknown,     \* an instance a file may name and nobody registered
    MutationsOf, \* the mutations each instance has registered
    NoEntry,     \* what a file does not say
    Files        \* the configuration files there are

-----------------------------------------------------------------------------
(* Values *)

\* One parameter for each way they are treated: for the addresses and the log level the
\* flag's default stands in for a zero value, the others change by a flag that is set.
Params  == {"ipapi", "ip", "log", "freeze"}
StoodIn == Params \ {"freeze"}

\* A value of a parameter: its zero value, the built-in default, or another.
Value   == {"zero", "default", "other"}
Default == [p \in Params |-> IF p = "freeze" THEN "zero" ELSE "default"]

\* What is given for a flag; "bad" is no address.
Given(p) == CASE p \in {"ip", "ipapi"} -> {"unset", "bad", "default", "other"}
              [] p = "log"             -> {"unset", "zero", "default", "other"}
              [] p = "freeze"          -> {"unset", "zero", "other"}
Flags == {f \in [Params -> {"unset", "bad", "zero", "default", "other"}] :
            \A p \in Params : f[p] \in Given(p)}

\* main adds sse to the instances that are registered.
sse == "sse"

Names == Instances \cup {sse, Unknown}

\* The mutations anybody may name for an instance.
AllMutations == UNION {MutationsOf[n] : n \in Instances}

\* The override of one mutation, as the file has it or not.
MutationConfig == [disable : BOOLEAN, timeout : Value]
Override       == [disable : BOOLEAN, mutations : [AllMutations -> MutationConfig \cup {NoEntry}]]

Config == [params : [Params -> Value], instances : [Names -> Override \cup {NoEntry}]]

\* A file may leave a parameter out.
File == [params : [Params -> Value \cup {NoEntry}], instances : [Names -> Override \cup {NoEntry}]]

ASSUME InstancesAssumption ==
    /\ sse \notin Instances /\ Unknown \notin Instances \cup {sse}
    /\ DOMAIN MutationsOf = Instances
ASSUME FilesAssumption == Files \subseteq File
ASSUME NoEntryAssumption == NoEntry \notin Value \cup Override \cup Config

VARIABLES
    flags,      \* what is given on the command line
    file,       \* the configuration file, or NoEntry
    stage,      \* how far the program is
    rc,         \* the runtime configuration
    left,       \* instances whose overrides are still to be applied
    registered, \* core.Registry.ServiceInstances
    timeouts,   \* core.Registry.Mutations: the timeout of each mutation, or NoEntry
    printed     \* what an earlier start printed and had registered, or NoEntry

vars == <<flags, file, stage, rc, left, registered, timeouts, printed>>

\* newRuntimeConfig: the defaults, and an entry for each instance with its mutations.
NewRuntimeConfig ==
    [params |-> Default,
     instances |->
        [n \in Names |->
            IF n = Unknown THEN NoEntry
            ELSE [disable |-> FALSE,
                  mutations |->
                     [m \in AllMutations |->
                         IF n \in Instances /\ m \in MutationsOf[n]
                         THEN [disable |-> FALSE, timeout |-> "default"] ELSE NoEntry]]]]

\* The registry before main runs.
Registered == Instances
Timeouts   == [n \in Instances |->
                 [m \in AllMutations |-> IF m \in MutationsOf[n] THEN "default" ELSE NoEntry]]

-----------------------------------------------------------------------------
(* buildRuntimeConfig *)

\* The decoder replaces a map entry the file names by what the file says of it; what it
\* leaves out is zero, a timeout too.
Decoded(old, f) ==
    IF f = NoEntry THEN old
    ELSE [params    |-> [p \in Params |-> IF f.params[p] = NoEntry THEN old.params[p] ELSE f.params[p]],
          instances |-> [n \in Names |-> IF f.instances[n] = NoEntry THEN old.instances[n]
                                         ELSE f.instances[n]]]

\* The value of a flag as it is written, and as it is parsed, set or not.
FlagValueRaw(p) == IF flags[p] = "unset" THEN Default[p] ELSE flags[p]
FlagValue(p) == CASE flags[p] = "unset" -> Default[p]
                  [] flags[p] = "bad"   -> "zero"
                  [] OTHER              -> flags[p]

\* A flag overrides the file whether it was set or not; only if it was, or if the value
\* is zero and the flag's default stands in for it.
OverlaidAnyway(p, v) == FlagValue(p)
Overlaid(p, v) ==
    IF flags[p] # "unset" \/ (p \in StoodIn /\ v = "zero") THEN FlagValue(p) ELSE v

\* The address is refused if it is nil; the check of the API address looks at the other
\* one, which has passed.
BuildRuntimeConfig ==
    /\ stage = "start"
    /\ LET old == Decoded(NewRuntimeConfig, file)
           new == [p \in Params |-> Overlaid(p, old.params[p])]
       IN  IF new["ip"] = "zero"
           THEN stage' = "refused" /\ UNCHANGED <<rc, left>>
           ELSE /\ stage' = "overrides"
                /\ rc' = [old EXCEPT !.params = new]
                /\ left' = {n \in Names : old.instances[n] # NoEntry}
    /\ UNCHANGED <<flags, file, registered, timeouts, printed>>

-----------------------------------------------------------------------------
(* processSIOverrides *)

\* The timeouts of the instance after its overrides: a disabled mutation is deleted,
\* others get the timeout of the override.
Overridden(n) ==
    [m \in AllMutations |->
        LET was == timeouts[n][m]
            o   == rc.instances[n].mutations[m]
        IN  IF was = NoEntry \/ o = NoEntry THEN was
            ELSE IF o.disable THEN NoEntry ELSE o.timeout]

Gone == [m \in AllMutations |-> NoEntry]

\* A disabled instance goes with its mutations.
DisableInstance(n) ==
    /\ registered' = registered \ {n}
    /\ timeouts' = [timeouts EXCEPT ![n] = Gone]

OverrideInstance(n) ==
    /\ stage = "overrides" /\ n \in left
    /\ left' = left \ {n}
    /\ IF n \in Instances
       THEN IF rc.instances[n].disable THEN DisableInstance(n)
            ELSE timeouts' = [timeouts EXCEPT ![n] = Overridden(n)] /\ UNCHANGED registered
       ELSE UNCHANGED <<registered, timeouts>>
    \* sse is not among the registered instances: its Module() is asked of a nil one.
    /\ stage' = IF n = sse /\ rc.instances[n].disable THEN "panicked" ELSE stage
    /\ UNCHANGED <<flags, file, rc, printed>>

Ready == stage = "overrides" /\ left = {}

\* The program goes on with this configuration and this registry.
Run ==
    /\ Ready
    /\ stage' = "running"
    /\ UNCHANGED <<flags, file, rc, left, registered, timeouts, printed>>

\* -printrc: it prints the configuration and exits, and is started again with a file of
\* what it printed (but for the warnings that may come before), and without flags.
PrintRuntimeDefaults ==
    /\ Ready /\ printed = NoEntry
    /\ printed' = [rc |-> rc, registered |-> registered, timeouts |-> timeouts]
    /\ file' = rc
    /\ flags' = [p \in Params |-> "unset"]
    /\ stage' = "start"
    /\ rc' = NewRuntimeConfig
    /\ registered' = Registered /\ timeouts' = Timeouts
    /\ UNCHANGED left

Init ==
    /\ flags \in Flags
    /\ file \in Files \cup {NoEntry}
    /\ stage = "start"
    /\ rc = NewRuntimeConfig /\ left = {}
    /\ registered = Registered /\ timeouts = Timeouts
    /\ printed = NoEntry

Next == \/ BuildRuntimeConfig \/ Run \/ PrintRuntimeDefaults
        \/ \E n \in Names : OverrideInstance(n)

Spec == Init /\ [][Next]_vars

-----------------------------------------------------------------------------
(* Properties *)

TypeOK ==
    /\ flags \in Flags
    /\ stage \in {"start", "refused", "overrides", "running", "panicked"}
    /\ rc \in Config
    /\ left \subseteq Names
    /\ registered \subseteq Instances
    /\ timeouts \in [Instances -> [AllMutations -> Value \cup {NoEntry}]]

\* "Can be used as a basis for a new config": started with what it printed, the program
\* builds the same configuration and registry, if the API address was valid and the log
\* level, which "you can't set to zero in a config", not zero.
PrintedIsBasis ==
    stage = "running" /\ printed # NoEntry /\ "zero" \notin {printed.rc.params[p] : p \in StoodIn}
        => printed = [rc |-> rc, registered |-> registered, timeouts |-> timeouts]

=============================================================================
