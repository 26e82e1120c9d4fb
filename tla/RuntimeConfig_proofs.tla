------------------------- MODULE RuntimeConfig_proofs -------------------------
(***************************************************************************)
(* RuntimeConfig for every set of instances, mutations and files: the       *)
(* configuration stays well-formed through decoding, flags, overrides and   *)
(* printing, and what is printed leads to the same configuration again.     *)
(***************************************************************************)
EXTENDS RuntimeConfig, TLAPS

\* The file is a file, be it a printed one; overrides to be applied are there.
IInv ==
    /\ TypeOK
    /\ file \in File \cup {NoEntry}
    /\ \A n \in left : rc.instances[n] # NoEntry

-----------------------------------------------------------------------------
(* The operators *)

\* The built-in configuration has an entry for every instance, and is well-formed.
LEMMA DefaultEntry ==
    ASSUME NEW n \in Names, n # Unknown
    PROVE  NewRuntimeConfig.instances[n] \in Override
  <1> DEFINE Of(m) == IF n \in Instances /\ m \in MutationsOf[n]
                      THEN [disable |-> FALSE, timeout |-> "default"] ELSE NoEntry
  <1>1. \A m \in AllMutations : Of(m) \in MutationConfig \cup {NoEntry}
    BY DEF MutationConfig, Value
  <1>2. NewRuntimeConfig.instances[n] = [disable |-> FALSE, mutations |-> [m \in AllMutations |-> Of(m)]]
    BY DEF NewRuntimeConfig
  <1> QED
    BY <1>1, <1>2 DEF Override

LEMMA DefaultsTyped == NewRuntimeConfig \in Config
  <1>1. Default \in [Params -> Value]
    BY DEF Default, Params, Value
  <1>2. NewRuntimeConfig.instances[Unknown] = NoEntry
    BY DEF NewRuntimeConfig, Names
  <1>3. \A n \in Names : NewRuntimeConfig.instances[n] \in Override \cup {NoEntry}
    BY <1>2, DefaultEntry
  <1> QED
    BY <1>1, <1>3 DEF NewRuntimeConfig, Config

\* So is the registry.
LEMMA RegistryTyped == Timeouts \in [Instances -> [AllMutations -> Value \cup {NoEntry}]]
  BY DEF Timeouts, Value

\* Decoding a file leaves nothing out.
LEMMA DecodedTyped ==
    ASSUME NEW old \in Config, NEW f \in File \cup {NoEntry}
    PROVE  Decoded(old, f) \in Config
  BY DEF Decoded, Config, File

\* Overlaying flags gives each parameter a value.
LEMMA OverlaidTyped ==
    ASSUME TypeOK, NEW p \in Params, NEW v \in Value
    PROVE  Overlaid(p, v) \in Value
  <1>1. Default[p] \in Value
    BY DEF Default, Params, Value
  <1>2. flags[p] \in {"unset", "bad", "zero", "default", "other"}
    BY DEF TypeOK, Flags
  <1> QED
    BY <1>1, <1>2 DEF Overlaid, FlagValue, Value

\* A configuration may serve as a file.
LEMMA ConfigIsFile == Config \subseteq File
  BY DEF Config, File

\* The timeouts of an instance after its overrides.
LEMMA OverriddenTyped ==
    ASSUME TypeOK, NEW n \in Instances, rc.instances[n] \in Override
    PROVE  Overridden(n) \in [AllMutations -> Value \cup {NoEntry}]
  <1>1. timeouts[n] \in [AllMutations -> Value \cup {NoEntry}]
    BY DEF TypeOK
  <1>2. rc.instances[n].mutations \in [AllMutations -> MutationConfig \cup {NoEntry}]
    BY DEF Override
  <1>3. ASSUME NEW m \in AllMutations, rc.instances[n].mutations[m] # NoEntry
        PROVE  rc.instances[n].mutations[m].timeout \in Value
    BY <1>2, <1>3 DEF MutationConfig
  <1> QED
    BY <1>1, <1>2, <1>3 DEF Overridden

-----------------------------------------------------------------------------
(* The invariant *)

LEMMA InitIInv == Init => IInv
  <1> SUFFICES ASSUME Init PROVE IInv
    OBVIOUS
  <1>1. TypeOK
    BY DefaultsTyped, RegistryTyped DEF Init, TypeOK, Registered
  <1>2. file \in File \cup {NoEntry}
    BY FilesAssumption DEF Init
  <1> QED
    BY <1>1, <1>2 DEF Init, IInv, Registered

LEMMA BuildIInv == ASSUME IInv, BuildRuntimeConfig PROVE IInv'
  <1> DEFINE old == Decoded(NewRuntimeConfig, file)
             new == [p \in Params |-> Overlaid(p, old.params[p])]
  <1>1. old \in Config
    BY DefaultsTyped, DecodedTyped DEF IInv
  <1>2. new \in [Params -> Value]
    <2>1. \A p \in Params : old.params[p] \in Value
      BY <1>1 DEF Config
    <2> QED
      BY <2>1, OverlaidTyped DEF IInv
  <1>3. CASE new["ip"] = "zero"
    BY <1>3 DEF BuildRuntimeConfig, IInv, TypeOK, Gone
  <1>4. CASE new["ip"] # "zero"
    <2>1. rc' = [old EXCEPT !.params = new]
      BY <1>4 DEF BuildRuntimeConfig
    <2>2. rc' \in Config /\ rc'.instances = old.instances
      BY <1>1, <1>2, <2>1 DEF Config
    <2>3. left' = {n \in Names : old.instances[n] # NoEntry}
      BY <1>4 DEF BuildRuntimeConfig
    <2> QED
      BY <1>4, <2>2, <2>3 DEF BuildRuntimeConfig, IInv, TypeOK, Gone
  <1> QED
    BY <1>3, <1>4

LEMMA OverrideIInv == ASSUME IInv, NEW n \in Names, OverrideInstance(n) PROVE IInv'
  <1>1. rc.instances[n] \in Override
    BY DEF OverrideInstance, IInv, TypeOK, Config
  <1>2. UNCHANGED <<flags, file, rc>> /\ left' = left \ {n} /\ stage' \in {stage, "panicked"}
    BY DEF OverrideInstance
  <1>3. /\ registered' \subseteq Instances
        /\ timeouts' \in [Instances -> [AllMutations -> Value \cup {NoEntry}]]
    <2>1. CASE n \notin Instances
      BY <2>1 DEF OverrideInstance, IInv, TypeOK
    <2>2. CASE n \in Instances /\ rc.instances[n].disable
      <3>1. Gone \in [AllMutations -> Value \cup {NoEntry}]
        BY DEF Gone
      <3> QED
        BY <2>2, <3>1 DEF OverrideInstance, DisableInstance, IInv, TypeOK
    <2>3. CASE n \in Instances /\ ~ rc.instances[n].disable
      <3>1. Overridden(n) \in [AllMutations -> Value \cup {NoEntry}]
        BY <1>1, <2>3, OverriddenTyped DEF IInv
      <3>2. registered' = registered /\ timeouts' = [timeouts EXCEPT ![n] = Overridden(n)]
        BY <2>3 DEF OverrideInstance
      <3> QED
        BY <2>3, <3>1, <3>2 DEF IInv, TypeOK
    <2> QED
      BY <2>1, <2>2, <2>3
  <1> QED
    BY <1>2, <1>3 DEF IInv, TypeOK, Gone

LEMMA PrintIInv == ASSUME IInv, PrintRuntimeDefaults PROVE IInv'
  <1>1. flags' \in Flags
    BY DEF PrintRuntimeDefaults, Flags, Given, Params
  <1>2. file' \in File
    BY ConfigIsFile DEF PrintRuntimeDefaults, IInv, TypeOK
  <1> QED
    BY <1>1, <1>2, DefaultsTyped, RegistryTyped
    DEF PrintRuntimeDefaults, Ready, IInv, TypeOK, Registered, Gone

LEMMA StepIInv == IInv /\ [Next]_vars => IInv'
  <1> SUFFICES ASSUME IInv, [Next]_vars PROVE IInv'
    OBVIOUS
  <1>1. CASE BuildRuntimeConfig
    BY <1>1, BuildIInv
  <1>2. CASE Run
    BY <1>2 DEF Run, IInv, TypeOK, Gone
  <1>3. CASE PrintRuntimeDefaults
    BY <1>3, PrintIInv
  <1>4. ASSUME NEW n \in Names, OverrideInstance(n) PROVE IInv'
    BY <1>4, OverrideIInv
  <1>5. CASE UNCHANGED vars
    BY <1>5 DEF vars, IInv, TypeOK, Gone
  <1> QED
    BY <1>1, <1>2, <1>3, <1>4, <1>5 DEF Next

LEMMA Invariance == Spec => []IInv
  BY InitIInv, StepIInv, PTL DEF Spec

\* The configuration and the registry are well-formed at every moment, whatever the
\* files, the flags and the order of the overrides (main.go).
THEOREM Typing == Spec => []TypeOK
  <1>1. IInv => TypeOK
    BY DEF IInv
  <1> QED
    BY <1>1, Invariance, PTL

-----------------------------------------------------------------------------
(* What is printed is a basis for a configuration *)

\* What the overrides of a configuration come to, in whatever order they are applied.
Kept(c) == {n \in Instances : ~ c.instances[n].disable}

Outcome(c, n) ==
    IF c.instances[n].disable THEN Gone
    ELSE [m \in AllMutations |->
            LET was == Timeouts[n][m]
                o   == c.instances[n].mutations[m]
            IN  IF was = NoEntry \/ o = NoEntry THEN was
                ELSE IF o.disable THEN NoEntry ELSE o.timeout]

Outcomes(c) == [n \in Instances |-> Outcome(c, n)]

\* The instance is as it was registered, or its overrides are applied.
Applied(n) ==
    IF n \in left THEN n \in registered /\ timeouts[n] = Timeouts[n]
    ELSE (n \in registered <=> n \in Kept(rc)) /\ timeouts[n] = Outcome(rc, n)

\* A configuration that names every instance, and one without a value that the flag's
\* default would stand in for.
Full(c)  == \A n \in Names \ {Unknown} : c.instances[n] # NoEntry
Sound(c) == "zero" \notin {c.params[p] : p \in StoodIn}

Overriding == stage \in {"overrides", "running"}

Progress ==
    /\ Full(rc)
    /\ stage = "start" => registered = Registered /\ timeouts = Timeouts
    /\ Overriding => \A n \in Instances : Applied(n)
    /\ stage = "running" => left = {}

Second ==
    printed # NoEntry =>
        /\ printed = [rc |-> printed.rc, registered |-> Kept(printed.rc), timeouts |-> Outcomes(printed.rc)]
        /\ printed.rc \in Config /\ Full(printed.rc)
        /\ stage = "start" => file = printed.rc /\ \A p \in Params : flags[p] = "unset"
        /\ Overriding /\ Sound(printed.rc) => rc = printed.rc

BasisInv == IInv /\ Progress /\ Second

LEMMA DefaultsFull == Full(NewRuntimeConfig)
  BY DefaultEntry, NoEntryAssumption DEF Full

LEMMA DecodedFull ==
    ASSUME NEW f \in File \cup {NoEntry}
    PROVE  Full(Decoded(NewRuntimeConfig, f))
  BY DefaultsFull DEF Decoded, Full

\* A full configuration is decoded to itself.
LEMMA DecodedSame ==
    ASSUME NEW c \in Config, Full(c)
    PROVE  Decoded(NewRuntimeConfig, c) = c
  <1>1. \A p \in Params : c.params[p] # NoEntry
    BY NoEntryAssumption DEF Config
  <1>2. NewRuntimeConfig.instances[Unknown] = NoEntry
    BY DEF NewRuntimeConfig, Names
  <1>3. \A n \in Names : c.instances[n] = NoEntry => NewRuntimeConfig.instances[n] = c.instances[n]
    BY <1>2 DEF Full
  <1>4. c # NoEntry
    BY NoEntryAssumption
  <1> QED
    BY <1>1, <1>3, <1>4 DEF Decoded, Config

\* Without flags, a sound configuration is overlaid with itself.
LEMMA OverlaidSame ==
    ASSUME NEW c \in Config, Sound(c), NEW p \in Params, flags[p] = "unset"
    PROVE  Overlaid(p, c.params[p]) = c.params[p]
  BY DEF Overlaid, Sound

LEMMA InitBasis == Init => BasisInv
  BY InitIInv, DefaultsFull DEF Init, BasisInv, Progress, Second, Overriding

LEMMA BuildBasis == ASSUME BasisInv, BuildRuntimeConfig PROVE BasisInv'
  <1> DEFINE old == Decoded(NewRuntimeConfig, file)
             new == [p \in Params |-> Overlaid(p, old.params[p])]
  <1>1. IInv'
    BY BuildIInv DEF BasisInv
  <1>2. old \in Config /\ Full(old)
    BY DefaultsTyped, DecodedTyped, DecodedFull DEF BasisInv, IInv
  <1>3. CASE new["ip"] = "zero"
    <2>1. UNCHANGED <<rc, printed>> /\ stage' = "refused"
      BY <1>3 DEF BuildRuntimeConfig
    <2> QED
      BY <1>1, <2>1 DEF BasisInv, Progress, Second, Overriding, Full
  <1>4. CASE new["ip"] # "zero"
    <2>1. /\ stage = "start" /\ stage' = "overrides" /\ UNCHANGED <<flags, file, registered, timeouts, printed>>
          /\ rc' = [old EXCEPT !.params = new] /\ left' = {n \in Names : old.instances[n] # NoEntry}
      BY <1>4 DEF BuildRuntimeConfig
    <2>2. rc'.instances = old.instances
      BY <1>2, <2>1 DEF Config
    <2>3. Full(rc)'
      BY <1>2, <2>2 DEF Full
    <2>4. Instances \subseteq left'
      BY <1>2, <2>1, InstancesAssumption DEF Full, Names
    <2>5. \A n \in Instances : Applied(n)'
      BY <2>1, <2>4 DEF Applied, BasisInv, Progress, Registered
    <2>6. ASSUME printed # NoEntry, Sound(printed.rc)
          PROVE  rc' = printed.rc
      <3>1. file = printed.rc /\ printed.rc \in Config /\ Full(printed.rc) /\ \A p \in Params : flags[p] = "unset"
        BY <2>1, <2>6 DEF BasisInv, Second
      <3>2. old = printed.rc
        BY <3>1, DecodedSame
      <3>3. new = old.params
        <4>1. \A p \in Params : new[p] = old.params[p]
          BY <2>6, <3>1, <3>2, OverlaidSame
        <4> QED
          BY <1>2, <4>1 DEF Config
      <3> QED
        BY <1>2, <2>1, <3>2, <3>3 DEF Config
    <2> QED
      BY <1>1, <2>1, <2>3, <2>5, <2>6 DEF BasisInv, Progress, Second, Overriding
  <1> QED
    BY <1>3, <1>4

LEMMA OverrideBasis == ASSUME BasisInv, NEW n \in Names, OverrideInstance(n) PROVE BasisInv'
  <1>1. IInv'
    BY OverrideIInv DEF BasisInv
  <1>2. /\ stage = "overrides" /\ stage' \in {"overrides", "panicked"} /\ UNCHANGED <<flags, file, rc, printed>>
        /\ n \in left /\ left' = left \ {n}
    BY DEF OverrideInstance
  <1>3. ASSUME NEW i \in Instances, i # n
        PROVE  Applied(i)'
    <2>1. Applied(i)
      BY <1>2 DEF BasisInv, Progress, Overriding
    <2>2. timeouts'[i] = timeouts[i] /\ (i \in registered' <=> i \in registered)
      BY <1>3 DEF OverrideInstance, DisableInstance, BasisInv, IInv, TypeOK
    <2> QED
      BY <1>2, <1>3, <2>1, <2>2 DEF Applied, Kept, Outcome
  <1>4. ASSUME n \in Instances
        PROVE  Applied(n)'
    <2>1. n \in registered /\ timeouts[n] = Timeouts[n]
      BY <1>2, <1>4 DEF BasisInv, Progress, Overriding, Applied
    <2>2. CASE rc.instances[n].disable
      BY <1>2, <1>4, <2>1, <2>2 DEF OverrideInstance, DisableInstance, Applied, Kept, Outcome, BasisInv, IInv, TypeOK
    <2>3. CASE ~ rc.instances[n].disable
      <3>1. Overridden(n) = Outcome(rc, n)
        BY <2>1, <2>3 DEF Overridden, Outcome
      <3>2. timeouts'[n] = Overridden(n) /\ n \in registered'
        BY <1>4, <2>1, <2>3 DEF OverrideInstance, BasisInv, IInv, TypeOK
      <3> QED
        BY <1>2, <1>4, <2>3, <3>1, <3>2 DEF Applied, Kept, Outcome
    <2> QED
      BY <2>2, <2>3
  <1> QED
    BY <1>1, <1>2, <1>3, <1>4 DEF BasisInv, Progress, Second, Overriding, Full

LEMMA RunBasis == ASSUME BasisInv, Run PROVE BasisInv'
  <1>1. IInv'
    BY DEF BasisInv, Run, IInv, TypeOK, Gone
  <1>2. \A n \in Instances : Applied(n)'
    BY DEF BasisInv, Run, Ready, Progress, Overriding, Applied, Kept, Outcome
  <1> QED
    BY <1>1, <1>2 DEF BasisInv, Run, Ready, Progress, Second, Overriding, Full

LEMMA PrintBasis == ASSUME BasisInv, PrintRuntimeDefaults PROVE BasisInv'
  <1>1. IInv'
    BY PrintIInv DEF BasisInv
  <1>2. registered = Kept(rc) /\ timeouts = Outcomes(rc)
    <2>1. \A n \in Instances : (n \in registered <=> n \in Kept(rc)) /\ timeouts[n] = Outcome(rc, n)
      BY DEF PrintRuntimeDefaults, Ready, BasisInv, Progress, Overriding, Applied
    <2>2. registered \subseteq Instances /\ timeouts = [n \in Instances |-> timeouts[n]]
      BY DEF BasisInv, IInv, TypeOK
    <2> QED
      BY <2>1, <2>2 DEF Kept, Outcomes
  <1>3. /\ stage' = "start" /\ left' = {} /\ rc' = NewRuntimeConfig /\ registered' = Registered /\ timeouts' = Timeouts
        /\ file' = rc /\ flags' = [p \in Params |-> "unset"]
        /\ printed' = [rc |-> rc, registered |-> registered, timeouts |-> timeouts]
    BY DEF PrintRuntimeDefaults, Ready
  <1>4. rc \in Config /\ Full(rc)
    BY DEF BasisInv, IInv, TypeOK, Progress
  <1>5. Progress'
    BY <1>3, DefaultsFull DEF Progress, Overriding, Full
  <1>6. Second'
    BY <1>2, <1>3, <1>4 DEF Second, Overriding, Full, Kept, Outcomes, Outcome
  <1> QED
    BY <1>1, <1>5, <1>6 DEF BasisInv

LEMMA StepBasis == BasisInv /\ [Next]_vars => BasisInv'
  <1> SUFFICES ASSUME BasisInv, [Next]_vars PROVE BasisInv'
    OBVIOUS
  <1>1. CASE BuildRuntimeConfig
    BY <1>1, BuildBasis
  <1>2. CASE Run
    BY <1>2, RunBasis
  <1>3. CASE PrintRuntimeDefaults
    BY <1>3, PrintBasis
  <1>4. ASSUME NEW n \in Names, OverrideInstance(n) PROVE BasisInv'
    BY <1>4, OverrideBasis
  <1>5. CASE UNCHANGED vars
    <2>1. IInv'
      BY <1>5, StepIInv DEF BasisInv
    <2>2. \A n \in Instances : Applied(n) => Applied(n)'
      BY <1>5 DEF vars, Applied, Kept, Outcome
    <2> QED
      BY <1>5, <2>1, <2>2 DEF vars, BasisInv, Progress, Second, Overriding, Full
  <1> QED
    BY <1>1, <1>2, <1>3, <1>4, <1>5 DEF Next

\* What -printrc prints leads to the configuration and the registry it was printed from,
\* in whatever order the overrides are applied both times (main.go).
THEOREM PrintedRoundTrip == Spec => []PrintedIsBasis
  <1>1. BasisInv => PrintedIsBasis
    <2> SUFFICES ASSUME BasisInv, stage = "running", printed # NoEntry, Sound(printed.rc)
                 PROVE  printed = [rc |-> rc, registered |-> registered, timeouts |-> timeouts]
      BY DEF PrintedIsBasis, Sound
    <2>1. rc = printed.rc /\ left = {}
      BY DEF BasisInv, Second, Progress, Overriding
    <2>2. \A n \in Instances : (n \in registered <=> n \in Kept(rc)) /\ timeouts[n] = Outcome(rc, n)
      BY <2>1 DEF BasisInv, Progress, Overriding, Applied
    <2>3. registered \subseteq Instances /\ timeouts = [n \in Instances |-> timeouts[n]]
      BY DEF BasisInv, IInv, TypeOK
    <2>4. registered = Kept(rc) /\ timeouts = Outcomes(rc)
      BY <2>2, <2>3 DEF Kept, Outcomes
    <2> QED
      BY <2>1, <2>4 DEF BasisInv, Second
  <1> QED
    BY <1>1, InitBasis, StepBasis, PTL DEF Spec

=============================================================================
