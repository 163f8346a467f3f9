---------------------------- MODULE ConfigProofs ----------------------------
(***************************************************************************)
(* What Validate guarantees of the thresholds in force, for every          *)
(* configuration file, every environment and every choice of the defaults. *)
(***************************************************************************)
EXTENDS Deployment, TLAPS

\* The thresholds in force are in order as soon as Validate accepts the file:
\* the comparison it makes covers explicit values, the suppressed default the
\* unset one.
LEMMA AcceptedIsOrdered ==
    ASSUME NEW c, Validate(c)
    PROVE  /\ Thresholds(c).prune = 0 \/ Thresholds(c).prune > Thresholds(c).stale
           /\ Thresholds(c).stale > 0 /\ Thresholds(c).maxAge > 0 /\ Thresholds(c).pending > 0
<1>1. /\ c.maxVMAge # Unset => c.maxVMAge \in Nat \ {0}
      /\ c.workerStaleAfter # Unset => c.workerStaleAfter \in Nat \ {0}
      /\ c.maxPendingAge # Unset => c.maxPendingAge \in Nat \ {0}
      /\ c.workerPruneAfter # Unset => c.workerPruneAfter \in Nat
  BY DEF Validate, PositiveIfSet
<1>2. /\ effectiveWorkerStaleAfter(c) \in Nat \ {0}
      /\ Thresholds(c).stale = effectiveWorkerStaleAfter(c)
  BY <1>1, DefaultsAssumption DEF Thresholds, effectiveWorkerStaleAfter,
     WorkerStaleAfterDuration, OrZero, ParseDuration
<1>3. Thresholds(c).maxAge > 0 /\ Thresholds(c).pending > 0
  BY <1>1, DefaultsAssumption DEF Thresholds, MaxVMAgeDuration, MaxPendingAgeDuration,
     OrZero, ParseDuration
<1>4. /\ WorkerPruneAfterDuration(c) \in Nat
      /\ Thresholds(c).prune = WorkerPruneAfterDuration(c)
  BY <1>1, DefaultsAssumption DEF Thresholds, WorkerPruneAfterDuration, ParseDuration
<1>5. CASE c.workerPruneAfter = Unset
  BY <1>2, <1>3, <1>4, <1>5, DefaultsAssumption DEF WorkerPruneAfterDuration,
     WorkerPruneDefaultSuppressed
<1>6. CASE c.workerPruneAfter # Unset
  BY <1>2, <1>3, <1>4, <1>6 DEF Validate, PruneBeyondStale
<1> QED
  BY <1>5, <1>6

\* Only a start, an exit or a crash changes the file in force.
LEMMA StepsOfTheProcess ==
    ASSUME [Next]_vars
    PROVE  \/ \E c \in RawConfigs : Start(c) \/ StartRejected(c)
           \/ Down
           \/ UNCHANGED procVars
<1>1. ASSUME NEW i \in DOMAIN active, BridgeStep(i)
      PROVE  Down \/ UNCHANGED procVars
  BY <1>1 DEF BridgeStep, Hydrate, HydrateFails, CreateVM, CreateFails, HandleJobCompleted,
     DeleteVM, DeleteVMFails
<1> QED
  BY <1>1 DEF Next, ReapVM, VMEnds, Refresh, RetainPendingDeletes, Crash, vars

\* A process that runs has its thresholds in order, whatever files it was
\* started with before (config.Validate, manager.New, Manager.Run).
THEOREM ThresholdsHold == Spec => []ThresholdsOrdered
<1>1. Init => ThresholdsOrdered
  BY DEF Init, ThresholdsOrdered
<1>2. ThresholdsOrdered /\ [Next]_vars => ThresholdsOrdered'
  <2> SUFFICES ASSUME ThresholdsOrdered, [Next]_vars
               PROVE  ThresholdsOrdered'
    OBVIOUS
  <2>1. CASE \E c \in RawConfigs : Start(c)
    <3>1. Validate(cfg') /\ limits' = Thresholds(cfg')
      BY <2>1 DEF Start
    <3> QED
      BY <3>1, AcceptedIsOrdered DEF ThresholdsOrdered
  <2>2. CASE (\E c \in RawConfigs : StartRejected(c)) \/ Down
    BY <2>2 DEF StartRejected, Down, ThresholdsOrdered
  <2>3. CASE UNCHANGED procVars
    BY <2>3 DEF ThresholdsOrdered, procVars
  <2> QED
    BY <2>1, <2>2, <2>3, StepsOfTheProcess
<1> QED
  BY <1>1, <1>2, PTL DEF Spec

\* A file from before workerPruneAfter existed is never turned down because of
\* it (config.Validate).
THEOREM OldFilesStillStart == Spec => []UnsetPruneNeverRejects
<1> DEFINE IInv == status = "rejected" => DOMAIN cfg = Fields /\ ~Validate(cfg)
<1>1. Init => IInv
  BY DEF Init
<1>2. IInv /\ [Next]_vars => IInv'
  <2> SUFFICES ASSUME IInv, [Next]_vars
               PROVE  IInv'
    OBVIOUS
  <2>1. ASSUME NEW c \in RawConfigs, StartRejected(c)
        PROVE  IInv'
    <3>1. DOMAIN Loaded(c, Env) = Fields
      BY FilesAssumption DEF Loaded, ApplyDefaults, ApplyEnvOverrides
    <3> QED
      BY <2>1, <3>1 DEF StartRejected
  <2>2. CASE (\E c \in RawConfigs : Start(c)) \/ Down
    BY <2>2 DEF Start, Down
  <2>3. CASE UNCHANGED procVars
    BY <2>3 DEF procVars
  <2> QED
    BY <2>1, <2>2, <2>3, StepsOfTheProcess
<1>3. IInv => UnsetPruneNeverRejects
  <2> SUFFICES ASSUME DOMAIN cfg = Fields, ~Validate(cfg), cfg.workerPruneAfter = Unset,
                      Validate([cfg EXCEPT !.workerPruneAfter = 0])
               PROVE  FALSE
    BY DEF UnsetPruneNeverRejects
  <2> DEFINE off == [cfg EXCEPT !.workerPruneAfter = 0]
  <2>1. /\ off.address = cfg.address /\ off.maxVMAge = cfg.maxVMAge
        /\ off.workerStaleAfter = cfg.workerStaleAfter /\ off.maxPendingAge = cfg.maxPendingAge
        /\ off.github = cfg.github /\ off.scaleSets = cfg.scaleSets
    BY DEF Fields
  <2>2. PruneBeyondStale(cfg)
    BY DEF PruneBeyondStale
  <2> HIDE DEF off
  <2>3. Validate(off)
    BY DEF off
  <2> QED
    BY <2>1, <2>2, <2>3 DEF Validate
<1> QED
  BY <1>1, <1>2, <1>3, PTL DEF Spec
============================================================================
