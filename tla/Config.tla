------------------------------- MODULE Config -------------------------------
(***************************************************************************)
(* config/config.go: what Load accepts, and the thresholds that            *)
(* manager.New and Manager.Run derive from it.  A configuration is a       *)
(* record of                                                               *)
(*   address        orchard.address                                        *)
(*   maxVMAge, maxPendingAge, workerStaleAfter, workerPruneAfter           *)
(*                  durations: Unset, Bad, or a number                     *)
(*   github         [appID, installationID, key, token]; the key is the    *)
(*                  inline one or its path                                 *)
(*   scaleSets      a sequence of [name, url, image, cpu]                  *)
(* The environment is a record of the variables that override a field.     *)
(***************************************************************************)
EXTENDS Integers, Sequences

CONSTANTS Unset,   \* an empty string
          Bad,     \* a string that is no duration, or no number
          DefaultWorkerStaleAfter, DefaultWorkerPruneAfter,
          DefaultMaxPendingAge, DefaultMaxVMAge, DefaultCPU

ASSUME UnsetAssumption == Unset \notin Int /\ Bad \notin Int /\ Unset # Bad
ASSUME DefaultsAssumption ==
    /\ DefaultWorkerStaleAfter \in Nat \ {0} /\ DefaultWorkerPruneAfter \in Nat \ {0}
    /\ DefaultMaxPendingAge \in Nat \ {0} /\ DefaultMaxVMAge \in Nat \ {0}

Duration == Int \cup {Unset, Bad}

\* time.ParseDuration with its error dropped.
ParseDuration(d) == IF d \in Int THEN d ELSE 0

OrZero(d) == IF d = Unset THEN 0 ELSE ParseDuration(d)

MaxVMAgeDuration(c) == OrZero(c.maxVMAge)
WorkerStaleAfterDuration(c) == OrZero(c.workerStaleAfter)
MaxPendingAgeDuration(c) == OrZero(c.maxPendingAge)

effectiveWorkerStaleAfter(c) ==
    IF c.workerStaleAfter = Unset THEN DefaultWorkerStaleAfter ELSE ParseDuration(c.workerStaleAfter)

\* Plausible defect: the default stays on whatever workerStaleAfter is.
WorkerPruneDefaultSuppressed_Never(c) == FALSE

WorkerPruneDefaultSuppressed(c) ==
    c.workerPruneAfter = Unset /\ effectiveWorkerStaleAfter(c) >= DefaultWorkerPruneAfter

WorkerPruneAfterDuration(c) ==
    IF c.workerPruneAfter = Unset
    THEN IF WorkerPruneDefaultSuppressed(c) THEN 0 ELSE DefaultWorkerPruneAfter
    ELSE IF ParseDuration(c.workerPruneAfter) < 0 THEN 0 ELSE ParseDuration(c.workerPruneAfter)

----------------------------------------------------------------------------
\* Load: defaults, then the environment, then Validate.
ApplyDefaults(c) ==
    LET withCPU(ss) == [ss EXCEPT !.cpu = IF ss.cpu = 0 THEN DefaultCPU ELSE ss.cpu]
    IN [c EXCEPT !.scaleSets = [i \in DOMAIN c.scaleSets |-> withCPU(c.scaleSets[i])]]

\* A variable that should be a number and is not leaves the file's value.
ApplyEnvOverrides(c, env) ==
    LET text(v, x) == IF v = Unset THEN x ELSE v
        number(v, x) == IF v \in Int THEN v ELSE x
    IN [c EXCEPT !.github = [appID          |-> number(env.appID, c.github.appID),
                             installationID |-> number(env.installationID, c.github.installationID),
                             key            |-> text(env.key, c.github.key),
                             token          |-> text(env.token, c.github.token)]]

PositiveIfSet(d) == d # Unset => d \in Nat \ {0}

HasAuth(gh) ==
    \/ gh.appID # 0 /\ gh.installationID # 0 /\ gh.key # Unset
    \/ gh.token # Unset

\* An explicit prune threshold must lie beyond the staleness one, if both parse.
PruneBeyondStale(c) ==
    LET prune == WorkerPruneAfterDuration(c)
        stale == effectiveWorkerStaleAfter(c)
    IN ~(c.workerPruneAfter # Unset /\ prune > 0 /\ stale > 0 /\ prune <= stale)

\* Plausible defect: the threshold as configured is compared, the default too.
Validate_ChecksDefault(c) ==
    /\ c.address # Unset
    /\ PositiveIfSet(c.maxVMAge) /\ PositiveIfSet(c.workerStaleAfter) /\ PositiveIfSet(c.maxPendingAge)
    /\ c.workerPruneAfter \in Nat \cup {Unset}
    /\ \/ c.workerPruneAfter = 0
       \/ effectiveWorkerStaleAfter(c) < IF c.workerPruneAfter = Unset
                                         THEN DefaultWorkerPruneAfter ELSE c.workerPruneAfter
    /\ HasAuth(c.github)
    /\ c.scaleSets # <<>>
    /\ \A i \in DOMAIN c.scaleSets :
          /\ c.scaleSets[i].name # <<>>
          /\ c.scaleSets[i].url # Unset /\ c.scaleSets[i].image # Unset

Validate(c) ==
    /\ c.address # Unset
    /\ PositiveIfSet(c.maxVMAge) /\ PositiveIfSet(c.workerStaleAfter) /\ PositiveIfSet(c.maxPendingAge)
    /\ c.workerPruneAfter # Unset => c.workerPruneAfter \in Nat
    /\ PruneBeyondStale(c)
    /\ HasAuth(c.github)
    /\ c.scaleSets # <<>>
    /\ \A i \in DOMAIN c.scaleSets :
          /\ c.scaleSets[i].name # <<>>
          /\ c.scaleSets[i].url # Unset /\ c.scaleSets[i].image # Unset

Loaded(c, env) == ApplyEnvOverrides(ApplyDefaults(c), env)

----------------------------------------------------------------------------
\* What is in force once manager.New and Run have wired it: setters ignore what
\* is not positive, so that the default stays; zero turns pruning off.
Thresholds(c) ==
    LET orDefault(d, default) == IF d > 0 THEN d ELSE default
    IN [stale   |-> orDefault(WorkerStaleAfterDuration(c), DefaultWorkerStaleAfter),
        maxAge  |-> orDefault(MaxVMAgeDuration(c), DefaultMaxVMAge),
        pending |-> orDefault(MaxPendingAgeDuration(c), DefaultMaxPendingAge),
        prune   |-> orDefault(WorkerPruneAfterDuration(c), 0)]
============================================================================
