------------------------------- MODULE World -------------------------------
(***************************************************************************)
(* What the bridge talks to, as its code relies on it: Orchard schedules,  *)
(* loses and ages VMs and workers, GitHub assigns jobs up to maxRunners    *)
(* and runs one job per runner.                                            *)
(***************************************************************************)
EXTENDS BridgeState

Used(n) == Cardinality({v \in DOMAIN vms : vms[v].worker = n /\ NotTerminal(vms[v])})

\* Orchard places a pending VM on a live, unpaused worker with its labels and a
\* free slot.
Schedule(v, n) ==
    /\ v \in DOMAIN vms /\ vms[v].status = "creating"
    /\ n \in DOMAIN workers
    /\ WorkerLive(workers[n], StaleAfter) /\ ~workers[n].paused
    /\ CouldHost(workers[n], vms[v])
    /\ Used(n) < workers[n].slots
    /\ vms' = [vms EXCEPT ![v].worker = n, ![v].status = "running"]
    /\ UNCHANGED <<viewVars, memVars, runVars, worldVars, budget>>

VMFails(v) ==
    /\ v \in DOMAIN vms /\ NotTerminal(vms[v])
    /\ Fault("vmFails")
    /\ vms' = [vms EXCEPT ![v].status = "failed"]
    /\ UNCHANGED <<viewVars, memVars, runVars, worldVars>>

\* A VM passes maxPendingAge, then maxAge.
AgeVM(v) ==
    /\ v \in DOMAIN vms /\ age[v] < AgeLevels
    /\ age' = [age EXCEPT ![v] = @ + 1]
    /\ UNCHANGED <<vms, viewVars, memVars, runVars, workers, owner, job, queued, waiting, session, budget>>

\* A machine stops heartbeating for longer than StaleAfter, then PruneAfter; it
\* comes back; an operator pauses or resumes it.
WorkerGoes(n) ==
    /\ n \in DOMAIN workers /\ WorkerLive(workers[n], StaleAfter)
    /\ Fault("workerGoes")
    /\ workers' = [workers EXCEPT ![n].age = StaleAfter + 1]
    /\ UNCHANGED <<vms, viewVars, memVars, runVars, owner, age, job, queued, waiting, session>>

WorkerStaysAway(n) ==
    /\ n \in DOMAIN workers /\ workers[n].age = StaleAfter + 1 /\ PruneAfter > 0
    /\ workers' = [workers EXCEPT ![n].age = PruneAfter + 1]
    /\ UNCHANGED <<vms, viewVars, memVars, runVars, owner, age, job, queued, waiting, session, budget>>

WorkerReturns(n) ==
    /\ n \in DOMAIN workers => ~WorkerLive(workers[n], StaleAfter)
    /\ workers' = With(workers, n, WorkerSpec[n])
    /\ UNCHANGED <<vms, viewVars, memVars, runVars, owner, age, job, queued, waiting, session, budget>>

WorkerPauses(n) ==
    /\ n \in DOMAIN workers
    /\ Fault("workerPauses")
    /\ workers' = [workers EXCEPT ![n].paused = ~@]
    /\ UNCHANGED <<vms, viewVars, memVars, runVars, owner, age, job, queued, waiting, session>>

----------------------------------------------------------------------------
Unfinished(s) == waiting[s] + Cardinality({v \in VMIds : owner[v] = s /\ job[v] = "busy"})

\* The listener has polled GitHub.
Listening(s) == pc[s] \notin {"start", "session", "hydrate", "adopt", "firstShare", "gone", "dead"}

\* GitHub assigns a queued job to a scale set that has room for it.
AssignJob(s) ==
    /\ Listening(s)
    /\ queued[s] > 0
    /\ Unfinished(s) < maxRunners[s]
    /\ queued' = [queued EXCEPT ![s] = @ - 1]
    /\ waiting' = [waiting EXCEPT ![s] = @ + 1]
    /\ UNCHANGED <<vms, viewVars, memVars, runVars, workers, owner, age, job, session, budget>>

\* The runner inside a running VM picks up a job, and finishes it; the job of a
\* VM that is gone ends too.
PickUpJob(v) ==
    /\ v \in DOMAIN vms /\ vms[v].status = "running"
    /\ job[v] = "none" /\ waiting[owner[v]] > 0
    /\ job' = [job EXCEPT ![v] = "busy"]
    /\ waiting' = [waiting EXCEPT ![owner[v]] = @ - 1]
    /\ UNCHANGED <<vms, viewVars, memVars, runVars, workers, owner, age, queued, session, budget>>

JobEnds(v) ==
    /\ job[v] = "busy"
    /\ job' = [job EXCEPT ![v] = "done"]
    /\ UNCHANGED <<vms, viewVars, memVars, runVars, workers, owner, age, queued, waiting, session, budget>>

\* The session of an earlier process is dropped after its TTL.
SessionExpires(s) ==
    /\ session[s] = "kept"
    /\ session' = [session EXCEPT ![s] = "none"]
    /\ UNCHANGED <<vms, viewVars, memVars, runVars, workers, owner, age, job, queued, waiting, budget>>

OrchardStep ==
    \E v \in VMIds : AgeVM(v) \/ VMFails(v) \/ \E n \in WorkerNames : Schedule(v, n)

FleetStep == \E n \in WorkerNames : \/ WorkerGoes(n) \/ WorkerStaysAway(n)
                                    \/ WorkerReturns(n) \/ WorkerPauses(n)

GitHubStep ==
    \/ \E s \in ScaleSets : AssignJob(s) \/ SessionExpires(s)
    \/ \E v \in VMIds : PickUpJob(v) \/ JobEnds(v)
============================================================================
