------------------------------ MODULE Manager ------------------------------
(***************************************************************************)
(* manager/manager.go: the whole bridge process.  Manager.Run starts one   *)
(* listener per scale set and the cleanup goroutine over one StateView and *)
(* one Capacity; an error of any of them ends the process, which the       *)
(* platform restarts with empty memory.                                    *)
(***************************************************************************)
EXTENDS Bridge, Cleanup, World

\* New: the configured maximum, or what the live workers offer right now (paused
\* ones included), or zero when they cannot be listed.
StartMaxes ==
    IF StaticMaxVMs > 0 THEN {StaticMaxVMs}
    ELSE {DiscoveredSlots(LiveWorkers(workers, StaleAfter))}
         \cup (IF "discoverFails" \in Faults THEN {0} ELSE {})

AutoSizeSets == {s \in ScaleSets : Settings[s].autoSize}

\* The scale sets' jobs are queued, no VM exists, and the process has just
\* been started.
Init ==
    /\ workers = WorkerSpec
    /\ vms = <<>>
    /\ ViewInit
    /\ \E max \in StartMaxes : capacity = NewCapacity(max)
    /\ active = [s \in ScaleSets |-> {}]
    /\ handles = {}
    /\ maxRunners = [s \in ScaleSets |-> 0]
    /\ push = [p \in Procs |-> <<>>]
    /\ monitor = NewEligibilityMonitor(AutoSizeSets)
    /\ pendingDeletes = {}
    /\ pc = [p \in Procs |-> IF p = Cleaner THEN "idle" ELSE "start"]
    /\ req = [s \in ScaleSets |-> NoReq]
    /\ sw = NoSweep
    /\ owner = [v \in VMIds |-> None]
    /\ age = [v \in VMIds |-> 0]
    /\ job = [v \in VMIds |-> "none"]
    /\ queued = [s \in ScaleSets |-> MaxJobs[s]]
    /\ waiting = [s \in ScaleSets |-> 0]
    /\ session = [s \in ScaleSets |-> "none"]
    /\ budget = FaultBudget

\* The process ends, by the error of a listener or by a crash, and is started
\* again: everything in memory is gone.  The listener that failed has closed its
\* session; the others' Close gets a context that is already cancelled, so
\* GitHub may keep their sessions.
Restart ==
    /\ \/ \E s \in ScaleSets : pc[s] = "dead" /\ UNCHANGED budget
       \/ Fault("crash")
    /\ snap' = NoSnap /\ fresh' = FALSE /\ refreshing' = FALSE /\ lastErr' = FALSE
    /\ gpc' = [p \in Procs |-> "idle"]
    /\ lst' = [p \in Procs |-> NoLists]
    /\ got' = [p \in Procs |-> Nothing]
    /\ \E max \in StartMaxes : capacity' = NewCapacity(max)
    /\ active' = [s \in ScaleSets |-> {}]
    /\ handles' = {}
    /\ maxRunners' = [s \in ScaleSets |-> 0]
    /\ push' = [p \in Procs |-> <<>>]
    /\ monitor' = NewEligibilityMonitor(AutoSizeSets)
    /\ pendingDeletes' = {}
    /\ pc' = [p \in Procs |-> IF p = Cleaner THEN "idle" ELSE "start"]
    /\ req' = [s \in ScaleSets |-> NoReq]
    /\ sw' = NoSweep
    /\ \E kept \in SUBSET {s \in ScaleSets : pc[s] # "dead" /\ session[s] = "held"} :
          /\ kept # {} => "sessionKept" \in Faults
          /\ session' = [s \in ScaleSets |-> IF s \in kept \/ session[s] = "kept"
                                             THEN "kept" ELSE "none"]
    /\ UNCHANGED <<vms, workers, owner, age, job, queued, waiting>>

\* The StateView at work: steps of a Get, a failing list, the TTL.
outsideView == <<vms, memVars, runVars, worldVars>>

ViewStep(p) == GetStep(p) /\ UNCHANGED <<outsideView, budget>>
ListFails(p) == PublishFail(p) /\ Fault("listFails") /\ UNCHANGED outsideView
Expire == TTLExpires /\ UNCHANGED <<outsideView, budget>>

Next ==
    \/ \E s \in ScaleSets : \/ ListenerStep(s)
                            \/ CreateFails(s) \/ DeleteVMFails(s)
                            \/ SessionRefused(s) \/ GitHubFails(s)
                            \/ \E v \in VMIds : HandleJobCompleted(s, v)
    \/ Tick \/ SweepStep
    \/ \E v \in VMIds : ReapVM(v) \/ ReapFails(v)
    \/ \E p \in Procs : ViewStep(p) \/ ListFails(p)
    \/ Expire
    \/ Restart
    \/ OrchardStep \/ FleetStep \/ GitHubStep

Spec == Init /\ [][Next]_vars

\* What a goroutine does when nothing fails, inside of Get and outside of it.
ListenerGoroutine(s) ==
    ListenerStep(s) \/ ViewStep(s) \/ (UNCHANGED budget /\ SessionRefused(s))
CleanupGoroutine ==
    SweepStep \/ ViewStep(Cleaner) \/ (\E v \in VMIds : ReapVM(v)) \/ Tick

\* Goroutines that can run do run, the ticker ticks, an RPC that is repeated
\* often enough succeeds, the platform restarts a dead process, the cache's TTL,
\* the VMs' age limits and a session's TTL pass, Orchard schedules what fits,
\* GitHub assigns what there is room for and every job ends.  No failure is ever
\* required.
Fairness ==
    /\ \A s \in ScaleSets :
          /\ WF_vars(ListenerGoroutine(s)) /\ WF_vars(AssignJob(s)) /\ WF_vars(SessionExpires(s))
          /\ \A v \in VMIds : WF_vars(HandleJobCompleted(s, v))
    /\ WF_vars(CleanupGoroutine)
    /\ WF_vars(Expire)
    /\ WF_vars(UNCHANGED budget /\ Restart)
    /\ \A v \in VMIds : /\ WF_vars(AgeVM(v)) /\ WF_vars(PickUpJob(v)) /\ WF_vars(JobEnds(v))
                        /\ WF_vars(\E n \in WorkerNames : Schedule(v, n))

FairSpec == Spec /\ Fairness

----------------------------------------------------------------------------
\* Every variable ranges over what the code can store in it.
TypeOK ==
    /\ DOMAIN vms \subseteq VMIds /\ DOMAIN workers \subseteq WorkerNames
    /\ capacity.current \in Nat /\ capacity.max \in Nat
    /\ active \in [ScaleSets -> SUBSET VMIds]
    /\ handles \subseteq ScaleSets /\ pendingDeletes \subseteq VMIds
    /\ maxRunners \in [ScaleSets -> Nat]
    /\ \A s \in ScaleSets : req[s].left \in Nat /\ req[s].v \in VMIds \cup {None}
    /\ sw.todo \subseteq sw.seen /\ sw.seen \subseteq VMIds /\ sw.count \in Nat
    /\ owner \in [VMIds -> ScaleSets \cup {None}]
    /\ job \in [VMIds -> {"none", "busy", "done", "acked"}]
    /\ waiting \in [ScaleSets -> Nat] /\ budget \in 0..FaultBudget

\* Slots the semaphore should show as taken by s: its tracked VMs, once
\* AdoptExisting has counted those hydration found, and what its handler holds.
Held(s) ==
    IF pc[s] = "adopt" THEN 0
    ELSE Cardinality(active[s])
         + (IF pc[s] \in {"create", "track"} THEN req[s].left ELSE 0)
         + (IF pc[s] \in {"delete", "mark", "release"} THEN 1 ELSE 0)

\* Between sweeps the semaphore is exact: TryAcquire, Release, AdoptExisting
\* and a failed delete keep `current' equal to the slots somebody holds, with
\* any number of listeners at any point of their handlers; a VM whose delete
\* failed keeps its slot until the sweep.
SlotsAccounted ==
    capacity.current = SumOver(ScaleSets, [s \in ScaleSets |-> Held(s)]) + Cardinality(pendingDeletes)

\* Bridges and semaphore together implement a pool of slots, between sweeps:
\* whatever the interleaving, a slot handed out was free, goes back to the pool
\* once and from the scale set that held it, or waits in limbo while its VM may
\* still exist.
Pool == INSTANCE SlotPool WITH
    Clients <- ScaleSets,
    free    <- Available(capacity),
    joined  <- {s \in ScaleSets : pc[s] \notin {"start", "session", "hydrate", "adopt"}},
    held    <- [s \in ScaleSets |-> Held(s)],
    limbo   <- Cardinality(pendingDeletes)

ImplementsSlotPool == Pool!Spec

ManagedAlive == {v \in DOMAIN vms : NotTerminal(vms[v])}

\* "We provision VMs only up to the real free slots on label-matching Orchard
\* workers" (HandleDesiredRunnerCount): the fleet is never asked for more VMs
\* than it has slots.
NoOverProvision == Cardinality(ManagedAlive) <= TotalSlots(WorkerSpec)

\* A VM whose job is running is only ever deleted when the VM has failed or has
\* outlived maxPendingAge: whatever is stale, lost or retried, the job of a
\* young VM is not killed.
YoungJobsSurvive ==
    [][\A v \in DOMAIN vms :
          v \notin DOMAIN vms' /\ job[v] = "busy" => age[v] > 0 \/ ~NotTerminal(vms[v])]_vars

\* The age limits are a backstop for everything else: whatever was lost, failed
\* or forgotten, in the end no VM is left in Orchard and the semaphore shows no
\* slot in use.
EventuallyDrained == <>[](DOMAIN vms = {} /\ capacity.current = 0)

\* "Anything beyond that stays in GitHub's queue and gets picked up once a slot
\* frees" (HandleDesiredRunnerCount): every job gets a runner.
JobsServed == \A s \in ScaleSets : queued[s] + waiting[s] > 0 ~> queued[s] + waiting[s] = 0

\* "refreshed every 60 seconds by the cleanup goroutine, so capacity adjusts as
\* workers come and go" (README, of a bridge with maxVMs unset), down to no worker
\* at all: once the fleet stays as it is, the semaphore's maximum is what its live,
\* unpaused workers offer.
CapacityFollowsFleet ==
    <>[](capacity.max = TotalSlots(LiveWorkers(workers, StaleAfter)))

\* "It logs a WARN when a worker becomes excluded or its reason changes, an INFO
\* when it recovers" and "a condition that has cleared stops being reported
\* rather than lingering" (EligibilityMonitor, GaugeVec.Delete): over any history
\* of the fleet, what the log and the gauge's series say is what the last sweep
\* found, no more and no less.
ReportsAreCurrent ==
    \A s \in AutoSizeSets :
        LET last == monitor[s].last IN
        /\ monitor[s].announced = last
        /\ monitor[s].excluded = {Series(n, last[n]) : n \in DOMAIN last}

\* "reports, for every AutoSize scale set in config, which live label-matching
\* workers it cannot use and why" (observeAutoSizeEligibility): once the fleet
\* stays as it is, exactly the workers placement refuses are reported, with their
\* reasons, and the other gauge shows how many it accepts.
ExclusionsAreReported ==
    <>[](\A s \in AutoSizeSets :
            LET live == LiveWorkers(workers, StaleAfter) IN
            /\ monitor[s].announced = AutoSizeExclusions(live, Settings[s])
            /\ monitor[s].eligible = WorkerCapacity(live, Settings[s]))

\* "GitHub sessions have a TTL and may conflict briefly during redeployments"
\* (runScaleSet): a scale set whose workers are there to stay ends up with a
\* registered listener, through crashes, sessions that outlive their process and
\* exhausted retries.
EventuallyListening ==
    \A s \in ScaleSets :
        <>[](WorkerCapacity(LiveWorkers(workers, StaleAfter), Settings[s]) > 0)
            => <>[](s \in handles)

\* Claim of the README: "Static override: Set `maxVMs` in config to a fixed number
\* to override auto-detection" and "Global VM capacity cap (0 = auto-detect from
\* workers)": with maxVMs set, no more than that many VMs exist.
StaticCapHolds == StaticMaxVMs > 0 => Cardinality(ManagedAlive) <= StaticMaxVMs

\* "Wait for matching workers before creating the session so GitHub never sees
\* maxCapacity=0" (runScaleSet), although the recompute after hydration replaces
\* the maximum the listener was created with: on a fleet that stays, and with no
\* other scale set, a listener's first poll asks for at least one job, whatever
\* VMs an earlier process has left behind.
FirstPollHasCapacity ==
    [][\A s \in ScaleSets :
          pc[s] = "firstShare" /\ pc'[s] = "listen" => maxRunners'[s] > 0]_vars

\* Claim of config.AutoSizeConfig ("One managed VM per worker is enforced by the
\* bridge regardless of the worker's tart-vms slot count") and of
\* managedPinIdentities ("that stops concurrent scale-ups from both picking the
\* same worker before its freshly-created VM has been scheduled").
OneVMPerWorker ==
    \A u, v \in ManagedAlive : vms[u].pin # None /\ vms[u].pin = vms[v].pin => u = v
============================================================================
