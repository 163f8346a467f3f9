---------------------------- MODULE BridgeState ----------------------------
(***************************************************************************)
(* What the goroutines of the bridge process share, and what the world     *)
(* outside of it holds.  Bridge (one listener goroutine per scale set),    *)
(* Cleanup (one sweeping goroutine) and World (Orchard and GitHub) add the *)
(* actions, Manager puts them together.                                    *)
(***************************************************************************)
EXTENDS StateView, Eligibility, Capacity

CONSTANTS
    ScaleSets,     \* the configured scale sets, one listener goroutine each
    Cleaner,       \* the cleanup goroutine
    Settings,      \* per scale set [labels, autoSize, reserve, maxRunners]
    WorkerNames,   \* the machines of the fleet
    WorkerSpec,    \* per machine the worker record it registers
    StaleAfter, PruneAfter,
    StaticMaxVMs,  \* config maxVMs, 0 to detect the capacity
    VMIds,         \* 1..n, bound on the VMs ever created
    MaxJobs,       \* bound on the jobs ever queued, per scale set
    AgeLevels,     \* bound on VM age: 1 is past maxPendingAge, 2 past maxAge
    Faults,        \* the kinds of failure that may happen ...
    FaultBudget,   \* ... and bound on how many do
    Sweeps,        \* whether the cleanup goroutine's ticker fires
    MaxAttempts    \* attempts at a message session before runScaleSet gives up

ASSUME ProcsAssumption == Procs = ScaleSets \cup {Cleaner} /\ Cleaner \notin ScaleSets
ASSUME FleetAssumption == StaleAfter > 0 /\ (PruneAfter = 0 \/ PruneAfter > StaleAfter)
ASSUME AttemptsAssumption == MaxAttempts \in Nat \ {0}
ASSUME NamesAssumption ==
    /\ IsFiniteSet(ScaleSets) /\ IsFiniteSet(VMIds) /\ IsFiniteSet(WorkerNames)
    /\ None \notin ScaleSets \cup VMIds \cup WorkerNames /\ Unmanaged \notin ScaleSets
ASSUME SettingsAssumption ==
    Settings \in [ScaleSets -> [labels : SUBSET STRING, autoSize : BOOLEAN, reserve : Reserve,
                                maxRunners : Nat]]
ASSUME WorkersAssumption == WorkerSpec \in [WorkerNames -> Worker]
ASSUME NumbersAssumption ==
    /\ {StaleAfter, PruneAfter, StaticMaxVMs, AgeLevels, FaultBudget} \subseteq Nat
    /\ MaxJobs \in [ScaleSets -> Nat]

VARIABLES
    \* the process's memory, lost in a crash
    capacity,       \* Manager.capacity
    active,         \* Bridge.activeVMs of each scale set
    handles,        \* Manager.handles
    maxRunners,     \* what each listener last told GitHub
    push,           \* per goroutine: shares it has computed and not pushed yet
    monitor,        \* Manager.eligibility
    pendingDeletes, \* Cleanup.pendingDeletes
    pc,             \* where each goroutine is
    req,            \* the locals of a listener's handler
    sw,             \* the locals of a sweep
    \* the world
    owner,          \* per VM name: the scale set it was created for, None if unused
    age,            \* per VM: 0, 1 (past maxPendingAge) or 2 (past maxAge)
    job,            \* per runner: "none", "busy", "done" (unreported), "acked"
    queued,         \* jobs queued at GitHub, not yet assigned, per scale set
    waiting,        \* jobs assigned to the scale set that no runner has picked up
    session,        \* per scale set its message session: "none", "held" by this process,
                    \* or one of an earlier process that GitHub still "keeps"
    budget          \* failures left

reported  == <<maxRunners, push, monitor>>
memVars   == <<capacity, active, handles, reported, pendingDeletes>>
runVars   == <<pc, req, sw>>
worldVars == <<workers, owner, age, job, queued, waiting, session>>
vars      == <<vms, viewVars, memVars, runVars, worldVars, budget>>

NoReq   == [left |-> 0, v |-> None, pins |-> {}]
NoSweep == [todo |-> {}, seen |-> {}, doomed |-> {}, stranded |-> {}, count |-> 0,
            deleted |-> FALSE, v |-> None, live |-> <<>>, prune |-> {}]

With(f, k, x) == [n \in DOMAIN f \cup {k} |-> IF n = k THEN x ELSE f[n]]
Drop(f, S) == Only(f, DOMAIN f \ S)

\* A failure of kind f happens.
Fault(f) == f \in Faults /\ budget > 0 /\ budget' = budget - 1

\* Goroutine p moves on to the point l of its code.
Goto(p, l) == pc' = [pc EXCEPT ![p] = l]

\* p calls StateView.Get; it is at l when the call returns.
CallGet(p, l) == Goto(p, l) /\ gpc' = [gpc EXCEPT ![p] = "call"] /\ UNCHANGED <<lst, got>>

\* The Get that p called has returned, and p takes its result.
Returned(p) == gpc[p] = "ret"
TakeResult(p) == /\ gpc' = [gpc EXCEPT ![p] = "idle"]
                 /\ got' = [got EXCEPT ![p] = Nothing]
                 /\ UNCHANGED <<cacheVars, lst>>

SnapOf(p) == got[p].snap
SnapWorkers(p) == LiveWorkers(SnapOf(p).workers, StaleAfter)

----------------------------------------------------------------------------
\* recomputeScaleSetShares, by whoever calls it: where the caller goes on.
AfterRecompute ==
    [firstShare |-> "listen", share |-> "listen", failedShare |-> "dead",
     cleanedShare |-> "loop", maxShare |-> "prune"]

Recomputing(p) == pc[p] \in DOMAIN AfterRecompute

\* Its Get has returned: the shares of all handles registered by now, except
\* those with a static maximum.  Without a snapshot nothing is pushed.
ComputeShares(p) ==
    LET shares == IF SnapOf(p) = NoSnap THEN <<>>
                  ELSE [s \in {h \in handles : Settings[h].maxRunners = 0} |->
                           Share(SnapOf(p).vms, SnapWorkers(p), s, Settings[s], handles)]
    IN
    /\ Recomputing(p) /\ Returned(p)
    /\ push' = [push EXCEPT ![p] = shares]
    /\ TakeResult(p)
    /\ IF shares = <<>> THEN Goto(p, AfterRecompute[pc[p]]) ELSE UNCHANGED pc
    /\ UNCHANGED <<vms, capacity, active, handles, maxRunners, monitor, pendingDeletes,
                   req, sw, worldVars, budget>>

\* One SetMaxRunners; other recomputes may push in between.
PushShare(p) ==
    /\ Recomputing(p)
    /\ \E s \in DOMAIN push[p] :
          /\ maxRunners' = [maxRunners EXCEPT ![s] = push[p][s]]
          /\ push' = [push EXCEPT ![p] = Drop(@, {s})]
          /\ IF DOMAIN push[p] = {s} THEN Goto(p, AfterRecompute[pc[p]]) ELSE UNCHANGED pc
    /\ UNCHANGED <<vms, viewVars, capacity, active, handles, monitor, pendingDeletes,
                   req, sw, worldVars, budget>>

Delivered(v) == vms' = Drop(vms, {v})
============================================================================
