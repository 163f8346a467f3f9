------------------------------ MODULE Cleanup ------------------------------
(***************************************************************************)
(* bridge/cleanup.go: the sweep of the cleanup goroutine, cut at its locks *)
(* and its calls to Orchard.  Manager.Run wires onVMCleaned to purge every *)
(* bridge and recompute the shares, and the capacity's OnWorkersChanged to *)
(* recompute the shares.                                                   *)
(***************************************************************************)
EXTENDS BridgeState

\* Plausible defect: a pending VM is reaped without regard to its age.
ShouldDeleteByStatus_AnyPending(vm, a) ==
    \/ ~NotTerminal(vm)
    \/ vm.status = "creating"
    \/ a >= 2

\* shouldDeleteByStatus, for a VM seen with this record at this age.
ShouldDeleteByStatus(vm, a) ==
    \/ ~NotTerminal(vm)
    \/ vm.status = "creating" /\ a >= 1
    \/ vm.status = "running" /\ a >= 2

\* Run's ticker fires: the sweep asks for the state of Orchard.
Tick ==
    /\ Sweeps
    /\ pc[Cleaner] = "idle"
    /\ CallGet(Cleaner, "sweep")
    /\ UNCHANGED <<vms, cacheVars, memVars, req, sw, worldVars, budget>>

\* listVMsAndWorkers: without any snapshot the sweep ends; an older snapshot
\* handed back with an error is swept, only pruning requires a fresh one.
SweepBegins ==
    /\ pc[Cleaner] = "sweep" /\ Returned(Cleaner)
    /\ IF SnapOf(Cleaner) = NoSnap
       THEN sw' = NoSweep /\ Goto(Cleaner, "idle")
       ELSE LET vs      == SnapOf(Cleaner).vms
                all     == SnapOf(Cleaner).workers
                live    == SnapWorkers(Cleaner)
                managed == {v \in DOMAIN vs : IsManagedVM(vs[v])}
            IN /\ sw' = [todo     |-> managed,
                         seen     |-> managed,
                         doomed   |-> {v \in managed : ShouldDeleteByStatus(vs[v], age[v])},
                         stranded |-> {v \in managed : vs[v].worker \notin DOMAIN live \cup {None}},
                         count    |-> 0,
                         deleted  |-> FALSE,
                         v        |-> None,
                         live     |-> live,
                         prune    |-> IF got[Cleaner].err THEN {}
                                      ELSE Prunable(all, vs, StaleAfter, PruneAfter)]
               /\ Goto(Cleaner, "loop")
    /\ TakeResult(Cleaner)
    /\ UNCHANGED <<vms, memVars, req, worldVars, budget>>

\* The VM stays; it counts as in use unless it is stranded on a dead worker.
Kept(v) == sw' = [sw EXCEPT !.todo = @ \ {v}, !.count = IF v \in sw.stranded THEN @ ELSE @ + 1]

Condemned(v) == v \in pendingDeletes \cup sw.doomed

KeepVM(v) ==
    /\ pc[Cleaner] = "loop" /\ v \in sw.todo
    /\ ~Condemned(v)
    /\ Kept(v)
    /\ UNCHANGED <<vms, viewVars, memVars, pc, req, worldVars, budget>>

\* processVM deletes the VM ...
ReapVM(v) ==
    /\ pc[Cleaner] = "loop" /\ v \in sw.todo
    /\ Condemned(v)
    /\ Delivered(v)
    /\ sw' = [sw EXCEPT !.todo = @ \ {v}, !.deleted = TRUE, !.v = v]
    /\ Goto(Cleaner, "cleaned")
    /\ UNCHANGED <<viewVars, memVars, req, worldVars, budget>>

\* ... or DeleteVM fails, or its reply is lost: the VM counts as kept.
ReapFails(v) ==
    /\ pc[Cleaner] = "loop" /\ v \in sw.todo
    /\ Condemned(v)
    /\ \/ Fault("deleteFails") /\ UNCHANGED vms
       \/ Fault("deleteLost") /\ Delivered(v)
    /\ Kept(v)
    /\ UNCHANGED <<viewVars, memVars, pc, req, worldVars>>

\* clearPendingDelete, then onVMCleaned: PurgeActiveVM on every handle, and the
\* share recompute.
Cleaned ==
    /\ pc[Cleaner] = "cleaned"
    /\ pendingDeletes' = pendingDeletes \ {sw.v}
    /\ active' = [s \in ScaleSets |-> IF s \in handles THEN active[s] \ {sw.v} ELSE active[s]]
    /\ CallGet(Cleaner, "cleanedShare")
    /\ UNCHANGED <<vms, cacheVars, capacity, handles, reported, req, sw, worldVars, budget>>

\* retainPendingDeletes, and Invalidate if something was deleted.
LoopEnds ==
    /\ pc[Cleaner] = "loop" /\ sw.todo = {}
    /\ pendingDeletes' = pendingDeletes \cap sw.seen
    /\ IF sw.deleted THEN Invalidated ELSE UNCHANGED cacheVars
    /\ Goto(Cleaner, "reconcile")
    /\ UNCHANGED <<vms, callVars, capacity, active, handles, reported, req, sw, worldVars, budget>>

ReconcileCapacity ==
    /\ pc[Cleaner] = "reconcile"
    /\ capacity' = Reconcile(capacity, sw.count)
    /\ Goto(Cleaner, "setmax")
    /\ UNCHANGED <<vms, viewVars, active, handles, reported, pendingDeletes, req, sw, worldVars, budget>>

\* Plausible defect: a fleet without any slot is taken for a bad reading.
PushMaxCapacity_KeepsLast ==
    /\ pc[Cleaner] = "setmax"
    /\ capacity' = IF TotalSlots(sw.live) = 0 THEN capacity ELSE SetMax(capacity, TotalSlots(sw.live))
    /\ Goto(Cleaner, "prune")
    /\ UNCHANGED <<vms, viewVars, active, handles, reported, pendingDeletes, req, sw, worldVars, budget>>

\* pushMaxCapacity; a changed total runs the OnWorkersChanged callback.
PushMaxCapacity ==
    /\ pc[Cleaner] = "setmax"
    /\ capacity' = SetMax(capacity, TotalSlots(sw.live))
    /\ IF MaxChanges(capacity, TotalSlots(sw.live))
       THEN CallGet(Cleaner, "maxShare")
       ELSE Goto(Cleaner, "prune") /\ UNCHANGED callVars
    /\ UNCHANGED <<vms, cacheVars, active, handles, reported, pendingDeletes, req, sw, worldVars, budget>>

\* Plausible defect: a scale set without any exclusion has nothing to report.
ObserveAll_ExcludedOnly(ws) ==
    [s \in DOMAIN monitor |-> IF AutoSizeExclusions(ws, Settings[s]) = <<>> THEN monitor[s]
                              ELSE Observe(monitor[s], ws, Settings[s])]

\* observeAutoSizeEligibility: each AutoSize scale set, with the sweep's list.
ObserveAll(ws) == [s \in DOMAIN monitor |-> Observe(monitor[s], ws, Settings[s])]

\* pruneOfflineWorkers: DeleteWorker for each record, some of which may fail;
\* Invalidate if any was deleted; then onSweep.
PruneOfflineWorkers ==
    /\ pc[Cleaner] = "prune"
    /\ \E failed \in SUBSET sw.prune :
          /\ IF failed = {} THEN UNCHANGED budget ELSE Fault("pruneFails")
          /\ workers' = Drop(workers, sw.prune \ failed)
          /\ IF sw.prune \ failed # {} THEN Invalidated ELSE UNCHANGED cacheVars
    /\ monitor' = ObserveAll(sw.live)
    /\ sw' = NoSweep
    /\ Goto(Cleaner, "idle")
    /\ UNCHANGED <<vms, callVars, capacity, active, handles, maxRunners, push, pendingDeletes,
                   req, owner, age, job, queued, waiting, session>>

SweepStep ==
    \/ SweepBegins \/ \E v \in VMIds : KeepVM(v)
    \/ Cleaned \/ LoopEnds \/ ReconcileCapacity \/ PushMaxCapacity
    \/ ComputeShares(Cleaner) \/ PushShare(Cleaner) \/ PruneOfflineWorkers
============================================================================
