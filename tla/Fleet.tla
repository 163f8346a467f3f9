------------------------------- MODULE Fleet -------------------------------
(***************************************************************************)
(* The capacity and placement arithmetic of bridge/worker.go,              *)
(* bridge/autosize.go, bridge/cleanup.go, bridge/stateview.go and          *)
(* manager/manager.go: pure operators on a worker list and a VM list.      *)
(*                                                                         *)
(* A worker list ws maps each worker Name to a record                      *)
(*   age     time since LastSeen when the list was read, None if LastSeen  *)
(*           is zero                                                       *)
(*   labels  the label pairs except the pin label, a set                   *)
(*   pin     the value of the pin label, None if absent                    *)
(*   paused  SchedulingPaused                                              *)
(*   slots, cores, mem  the three resources; cores, mem None if absent     *)
(* A VM list vs maps each VM name to a record                              *)
(*   owner   the scale set whose name prefix it carries, Unmanaged if none *)
(*   worker  the Name of its worker, None while unscheduled                *)
(*   labels, pin  its own labels, split as a worker's                      *)
(*   status  "creating", "running", "stopped" or "failed"                  *)
(* A map of label pairs that must be matched is a subset test on pairs.    *)
(***************************************************************************)
EXTENDS Integers, FiniteSets, FiniteSetsExt

CONSTANTS None,       \* an absent string, time or resource
          Unmanaged   \* owner of a VM whose name lacks the bridge's prefix

ASSUME NoneAssumption == None \notin Nat

\* A worker of the list; the resources an AutoSize scale set leaves to the host.
Worker  == [age : Nat \cup {None}, labels : SUBSET STRING, pin : STRING \cup {None},
            paused : BOOLEAN, slots : Nat, cores : Nat \cup {None}, mem : Nat \cup {None}]
Reserve == [cpu : Nat, mem : Nat]

\* Restriction of a list to the names in S.
Only(f, S) == [n \in S |-> f[n]]

MatchesLabels(w, labels) == labels \subseteq w.labels

\* A worker the scheduler could give the VM to, by labels alone.
CouldHost(w, vm) == MatchesLabels(w, vm.labels) /\ (vm.pin # None => w.pin = vm.pin)

NotTerminal(vm) == vm.status \notin {"stopped", "failed"}

IsManagedVM(vm) == vm.owner # Unmanaged

----------------------------------------------------------------------------
\* bridge/worker.go
WorkerLive(w, staleAfter) == staleAfter <= 0 \/ w.age = None \/ w.age <= staleAfter

LiveWorkers(ws, staleAfter) == Only(ws, {n \in DOMAIN ws : WorkerLive(ws[n], staleAfter)})

----------------------------------------------------------------------------
\* Slot capacity: pushMaxCapacity, discoverCapacity and CapacityForLabels.
\* The sum of f over S counts one pair for every unit.
SumOver(S, f) == Cardinality(UNION {{x} \X (1..f[x]) : x \in S})

SlotsOf(ws, S) == SumOver(S, [n \in S |-> ws[n].slots])

TotalSlots(ws) == SlotsOf(ws, {n \in DOMAIN ws : ~ws[n].paused})

DiscoveredSlots(ws) == SlotsOf(ws, DOMAIN ws)

CapacityForLabels(ws, labels) ==
    SlotsOf(ws, {n \in DOMAIN ws : ~ws[n].paused /\ MatchesLabels(ws[n], labels)})

\* Snapshot.ManagedVMsMatchingLabels: by the worker when it is known, else by
\* the VM's own labels; a VM on a worker that is not live matches nothing.
ManagedVMsMatchingLabels(vs, ws, labels) ==
    {v \in DOMAIN vs :
        /\ IsManagedVM(vs[v])
        /\ IF vs[v].worker # None
           THEN vs[v].worker \in DOMAIN ws /\ MatchesLabels(ws[vs[v].worker], labels)
           ELSE labels \subseteq vs[v].labels}

CountActiveVMs(vs, S) == Cardinality({v \in S : NotTerminal(vs[v])})

----------------------------------------------------------------------------
\* bridge/autosize.go
PinShared(ws, n) == \E m \in DOMAIN ws \ {n} : ws[m].pin = ws[n].pin

AutoSizeExclusionReason(ws, n, reserve) ==
    LET w == ws[n] IN
    IF w.paused THEN "scheduling_paused"
    ELSE IF w.pin = None THEN "missing_pin_label"
    ELSE IF PinShared(ws, n) THEN "duplicate_pin_label"
    ELSE IF w.cores = None \/ w.mem = None THEN "missing_resources"
    ELSE IF w.cores <= reserve.cpu \/ w.mem <= reserve.mem THEN "below_reserves"
    ELSE "eligible"

AutoSizeCandidates(ws, labels, reserve) ==
    {n \in DOMAIN ws :
        /\ MatchesLabels(ws[n], labels)
        /\ AutoSizeExclusionReason(ws, n, reserve) = "eligible"}

\* Plausible defect: a VM whose worker is not live no longer holds its pin.
ManagedPinIdentities_NoFallback(vs, ws) ==
    LET held(vm) == IF vm.worker # None
                    THEN IF vm.worker \in DOMAIN ws THEN ws[vm.worker].pin ELSE None
                    ELSE vm.pin
    IN {held(vs[v]) : v \in {u \in DOMAIN vs : IsManagedVM(vs[u]) /\ NotTerminal(vs[u])}} \ {None}

ManagedPinIdentities(vs, ws) ==
    LET held(vm) == IF vm.worker # None /\ vm.worker \in DOMAIN ws
                    THEN ws[vm.worker].pin ELSE vm.pin
    IN {held(vs[v]) : v \in {u \in DOMAIN vs : IsManagedVM(vs[u]) /\ NotTerminal(vs[u])}} \ {None}

FreeAutoSizeWorkers(ws, vs, labels, reserve) ==
    {n \in AutoSizeCandidates(ws, labels, reserve) : ws[n].pin \notin ManagedPinIdentities(vs, ws)}

\* AutoSizedVM: what the VM gets, or None when the worker cannot give anything.
AutoSizedVM(w, reserve) ==
    IF w.cores \in {0, None} \/ w.mem \in {0, None} THEN None
    ELSE IF w.cores <= reserve.cpu \/ w.mem <= reserve.mem THEN None
    ELSE [cpu |-> w.cores - reserve.cpu, mem |-> w.mem - reserve.mem]

----------------------------------------------------------------------------
\* pruneOfflineWorkers: the records a sweep deletes.
Prunable(all, vs, staleAfter, pruneAfter) ==
    {n \in DOMAIN all :
        /\ pruneAfter > 0
        /\ ~WorkerLive(all[n], staleAfter)
        /\ all[n].age # None /\ all[n].age > pruneAfter
        /\ ~all[n].paused
        /\ \A v \in DOMAIN vs : vs[v].worker # n}

----------------------------------------------------------------------------
\* Plausible defect: a VM that is not scheduled yet consumes nothing.
VMConsumesLabeledWorker_Scheduled(vm, ws, labels) ==
    vm.worker \in DOMAIN ws /\ MatchesLabels(ws[vm.worker], labels)

\* manager.go: does vm take up a worker that a scale set with labels could use?
VMConsumesLabeledWorker(vm, ws, labels) ==
    IF vm.worker # None /\ vm.worker \in DOMAIN ws
    THEN MatchesLabels(ws[vm.worker], labels)
    ELSE \E n \in DOMAIN ws : CouldHost(ws[n], vm) /\ MatchesLabels(ws[n], labels)

\* workerCapacityFn
WorkerCapacity(ws, ss) ==
    IF ss.autoSize THEN Cardinality(AutoSizeCandidates(ws, ss.labels, ss.reserve))
    ELSE CapacityForLabels(ws, ss.labels)

\* Plausible defect: the scale set's own VMs are subtracted as well.
OthersActive_CountsOwn(vs, ws, s, others, labels) ==
    Cardinality({v \in DOMAIN vs : /\ vs[v].owner \in others
                                   /\ NotTerminal(vs[v])
                                   /\ VMConsumesLabeledWorker(vs[v], ws, labels)})

OthersActive(vs, ws, s, others, labels) ==
    Cardinality({v \in DOMAIN vs : /\ vs[v].owner \in others \ {s}
                                   /\ NotTerminal(vs[v])
                                   /\ VMConsumesLabeledWorker(vs[v], ws, labels)})

\* recomputeScaleSetShares, for the scale set s (settings ss) among the
\* scale sets whose handles are registered.
Share(vs, ws, s, ss, handles) ==
    Max({0, WorkerCapacity(ws, ss) - OthersActive(vs, ws, s, handles, ss.labels)})

============================================================================
