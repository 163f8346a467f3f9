------------------------------- MODULE Bridge -------------------------------
(***************************************************************************)
(* bridge/bridge.go and runScaleSet of manager/manager.go: what the        *)
(* listener goroutine of a scale set does.  The listener calls one handler *)
(* at a time; a handler is cut at every lock it takes and every call it    *)
(* makes to Orchard, with the cuts between adjacent steps that touch       *)
(* nothing shared left out.                                                *)
(***************************************************************************)
EXTENDS BridgeState

OwnActive(vs, s) == {v \in DOMAIN vs : vs[v].owner = s /\ NotTerminal(vs[v])}

----------------------------------------------------------------------------
\* runScaleSet: register the scale set, then wait until a live worker matches
\* (unless maxRunners is static).  A list that fails is tried again.
StartScaleSet(s) ==
    LET fleet == WorkerCapacity(LiveWorkers(workers, StaleAfter), Settings[s])
        first == IF Settings[s].maxRunners > 0 THEN Settings[s].maxRunners ELSE fleet
    IN
    /\ pc[s] = "start"
    /\ first > 0
    /\ maxRunners' = [maxRunners EXCEPT ![s] = first]
    /\ Goto(s, "session")
    /\ UNCHANGED <<vms, viewVars, capacity, active, handles, push, monitor, pendingDeletes,
                   req, sw, worldVars, budget>>

\* The message session is granted: the handle is registered, then hydrated.
OpenSession(s) ==
    /\ pc[s] = "session" /\ session[s] = "none"
    /\ session' = [session EXCEPT ![s] = "held"]
    /\ handles' = handles \cup {s}
    /\ req' = [req EXCEPT ![s] = NoReq]
    /\ CallGet(s, "hydrate")
    /\ UNCHANGED <<vms, cacheVars, capacity, active, reported, pendingDeletes, sw,
                   workers, owner, age, job, queued, waiting, budget>>

\* Plausible defect: giving up on the session ends the goroutine without an
\* error, so the process lives on without this scale set.
SessionRefused_Silent(s) ==
    /\ pc[s] = "session"
    /\ session[s] = "kept" /\ UNCHANGED budget
    /\ req' = [req EXCEPT ![s].left = @ + 1]
    /\ IF req[s].left + 1 >= MaxAttempts THEN Goto(s, "gone") ELSE UNCHANGED pc
    /\ UNCHANGED <<vms, viewVars, memVars, sw, worldVars>>

\* It is refused, because GitHub still keeps the one of an earlier process or
\* because the call fails: another attempt, or the error that ends the process.
SessionRefused(s) ==
    /\ pc[s] = "session"
    /\ \/ session[s] = "kept" /\ UNCHANGED budget
       \/ Fault("githubFails")
    /\ req' = [req EXCEPT ![s].left = @ + 1]
    /\ IF req[s].left + 1 >= MaxAttempts THEN Goto(s, "dead") ELSE UNCHANGED pc
    /\ UNCHANGED <<vms, viewVars, memVars, sw, worldVars>>

\* Registering the scale set fails, or the listener's poll does.
GitHubFails(s) ==
    /\ pc[s] \in {"start", "listen"}
    /\ Fault("githubFails")
    /\ Goto(s, "dead")
    /\ UNCHANGED <<vms, viewVars, memVars, req, sw, worldVars>>

\* HydrateFromOrchard under b.mu.
Hydrate(s) ==
    /\ pc[s] = "hydrate" /\ Returned(s)
    /\ LET own == IF SnapOf(s) = NoSnap THEN {} ELSE OwnActive(SnapOf(s).vms, s) IN
          /\ active' = [active EXCEPT ![s] = @ \cup own]
          /\ req' = [req EXCEPT ![s].left = Cardinality(own)]
    /\ TakeResult(s)
    /\ Goto(s, "adopt")
    /\ UNCHANGED <<vms, capacity, handles, reported, pendingDeletes, sw, worldVars, budget>>

\* AdoptExisting, then the recompute that precedes the listener.
Adopt(s) ==
    /\ pc[s] = "adopt"
    /\ capacity' = AdoptExisting(capacity, req[s].left)
    /\ req' = [req EXCEPT ![s] = NoReq]
    /\ CallGet(s, "firstShare")
    /\ UNCHANGED <<vms, cacheVars, active, handles, reported, pendingDeletes, sw, worldVars, budget>>

----------------------------------------------------------------------------
\* HandleDesiredRunnerCount: GitHub wants a runner for each job assigned to s
\* that is not over.  Nothing happens when enough VMs are tracked.
DesiredCount(s) == waiting[s] + Cardinality({v \in VMIds : owner[v] = s /\ job[v] = "busy"})

HandleDesiredRunnerCount(s) ==
    /\ pc[s] = "listen"
    /\ DesiredCount(s) > Cardinality(active[s])
    /\ req' = [req EXCEPT ![s].left = DesiredCount(s) - Cardinality(active[s])]
    /\ CallGet(s, "scale")
    /\ UNCHANGED <<vms, cacheVars, memVars, sw, worldVars, budget>>

\* What the snapshot leaves room for: free slots on matching workers, or the
\* free workers of an AutoSize scale set.
FreeSlots(s) ==
    LET vs == SnapOf(s).vms  ws == SnapWorkers(s)  labels == Settings[s].labels IN
    IF Settings[s].autoSize
    THEN Cardinality(FreeAutoSizeWorkers(ws, vs, labels, Settings[s].reserve))
    ELSE CapacityForLabels(ws, labels)
         - CountActiveVMs(vs, ManagedVMsMatchingLabels(vs, ws, labels))

\* How many slots TryAcquire would grant: none without a snapshot or a free slot.
Acquirable(s) ==
    IF SnapOf(s) = NoSnap THEN 0
    ELSE IF FreeSlots(s) <= 0 THEN 0
    ELSE Granted(capacity, Min({req[s].left, FreeSlots(s)}))

\* The scale-up is skipped; the jobs stay with GitHub.
ScaleUpSkipped(s) ==
    /\ pc[s] = "scale" /\ Returned(s)
    /\ Acquirable(s) = 0
    /\ TakeResult(s)
    /\ req' = [req EXCEPT ![s] = NoReq]
    /\ Goto(s, "listen")
    /\ UNCHANGED <<vms, memVars, sw, worldVars, budget>>

\* TryAcquire, and for AutoSize the batch of distinct candidates the placement
\* cursor walks over.
ScaleUpAcquires(s) ==
    /\ pc[s] = "scale" /\ Returned(s)
    /\ Acquirable(s) > 0
    /\ capacity' = TryAcquire(capacity, Min({req[s].left, FreeSlots(s)}))
    /\ LET ws   == SnapWorkers(s)
           free == FreeAutoSizeWorkers(ws, SnapOf(s).vms, Settings[s].labels, Settings[s].reserve)
       IN \E batch \in IF Settings[s].autoSize THEN kSubset(Acquirable(s), free) ELSE {{}} :
             req' = [req EXCEPT ![s] = [left |-> Acquirable(s), v |-> None,
                                        pins |-> {ws[n].pin : n \in batch}]]
    /\ TakeResult(s)
    /\ Goto(s, "create")
    /\ UNCHANGED <<vms, active, handles, reported, pendingDeletes, sw, worldVars, budget>>

\* createOneVM up to the reply of CreateVM: a VM with a new name appears.
NewVMs(s) ==
    LET v == CHOOSE u \in VMIds : owner[u] = None IN
    {[v |-> v, pin |-> p] : p \in IF Settings[s].autoSize THEN req[s].pins ELSE {None}}

Created(s, new) ==
    /\ vms' = With(vms, new.v, [owner |-> s, worker |-> None, status |-> "creating",
                                labels |-> Settings[s].labels, pin |-> new.pin])
    /\ owner' = [owner EXCEPT ![new.v] = s]

CreateVM(s) ==
    /\ pc[s] = "create" /\ \E v \in VMIds : owner[v] = None
    /\ \E new \in NewVMs(s) :
          /\ Created(s, new)
          /\ req' = [req EXCEPT ![s].v = new.v, ![s].pins = @ \ {new.pin}]
    /\ Goto(s, "track")
    /\ UNCHANGED <<viewVars, memVars, sw, workers, age, job, queued, waiting, session, budget>>

\* The JIT request or CreateVM fails, or its reply is lost after the VM was
\* created: the rest of the batch is released, the shares are recomputed from
\* the cache as it is, and the error ends the manager.
CreateFails(s) ==
    /\ pc[s] = "create" /\ \E v \in VMIds : owner[v] = None
    /\ \/ Fault("createFails") /\ UNCHANGED <<vms, owner>>
       \/ Fault("createLost") /\ \E new \in NewVMs(s) : Created(s, new)
    /\ capacity' = Release(capacity, req[s].left)
    /\ req' = [req EXCEPT ![s] = NoReq]
    /\ CallGet(s, "failedShare")
    /\ UNCHANGED <<cacheVars, active, handles, reported, pendingDeletes, sw,
                   workers, age, job, queued, waiting, session>>

\* activeVMs under b.mu; then the next VM of the batch, or Invalidate and the
\* recompute.
Track(s) ==
    /\ pc[s] = "track"
    /\ active' = [active EXCEPT ![s] = @ \cup {req[s].v}]
    /\ IF req[s].left > 1
       THEN /\ req' = [req EXCEPT ![s].left = @ - 1, ![s].v = None]
            /\ Goto(s, "create")
            /\ UNCHANGED viewVars
       ELSE /\ req' = [req EXCEPT ![s] = NoReq]
            /\ Invalidated
            /\ CallGet(s, "share")
    /\ UNCHANGED <<vms, capacity, handles, reported, pendingDeletes, sw, worldVars, budget>>

----------------------------------------------------------------------------
\* Plausible defect: the VM of a finished job stays in activeVMs.
HandleJobCompleted_KeepsTracked(s, v) ==
    /\ pc[s] = "listen"
    /\ owner[v] = s /\ job[v] = "done"
    /\ job' = [job EXCEPT ![v] = "acked"]
    /\ IF v \in active[s]
       THEN req' = [req EXCEPT ![s].v = v] /\ Goto(s, "delete")
       ELSE UNCHANGED <<req, pc>>
    /\ UNCHANGED <<vms, viewVars, memVars, sw, workers, owner, age, queued, waiting, session, budget>>

\* HandleJobCompleted: the runner's VM stops being tracked; a runner this
\* bridge does not know is ignored.
HandleJobCompleted(s, v) ==
    /\ pc[s] = "listen"
    /\ owner[v] = s /\ job[v] = "done"
    /\ job' = [job EXCEPT ![v] = "acked"]
    /\ active' = [active EXCEPT ![s] = @ \ {v}]
    /\ IF v \in active[s]
       THEN req' = [req EXCEPT ![s].v = v] /\ Goto(s, "delete")
       ELSE UNCHANGED <<req, pc>>
    /\ UNCHANGED <<vms, viewVars, capacity, handles, reported, pendingDeletes, sw,
                   workers, owner, age, queued, waiting, session, budget>>

\* DeleteVM succeeds (also when the VM is already gone) ...
DeleteVM(s) ==
    /\ pc[s] = "delete"
    /\ Delivered(req[s].v)
    /\ Goto(s, "release")
    /\ UNCHANGED <<viewVars, memVars, req, sw, worldVars, budget>>

\* ... or fails, or its reply is lost after it took effect.
DeleteVMFails(s) ==
    /\ pc[s] = "delete"
    /\ \/ Fault("deleteFails") /\ UNCHANGED vms
       \/ Fault("deleteLost") /\ Delivered(req[s].v)
    /\ Goto(s, "mark")
    /\ UNCHANGED <<viewVars, memVars, req, sw, worldVars>>

\* Plausible defect: the slot is released although the VM may still be there.
MarkForDeletion_Releases(s) ==
    /\ pc[s] = "mark"
    /\ pendingDeletes' = pendingDeletes \cup {req[s].v}
    /\ capacity' = Release(capacity, 1)
    /\ req' = [req EXCEPT ![s] = NoReq]
    /\ Goto(s, "listen")
    /\ UNCHANGED <<vms, viewVars, active, handles, reported, sw, worldVars, budget>>

\* onDeleteFailed = Cleanup.MarkForDeletion; the slot stays taken.
MarkForDeletion(s) ==
    /\ pc[s] = "mark"
    /\ pendingDeletes' = pendingDeletes \cup {req[s].v}
    /\ req' = [req EXCEPT ![s] = NoReq]
    /\ Goto(s, "listen")
    /\ UNCHANGED <<vms, viewVars, capacity, active, handles, reported, sw, worldVars, budget>>

\* Release(1), Invalidate, and the recompute.  RemoveRunner is best effort and
\* leaves nothing behind in the bridge.
ReleaseSlot(s) ==
    /\ pc[s] = "release"
    /\ capacity' = Release(capacity, 1)
    /\ req' = [req EXCEPT ![s] = NoReq]
    /\ Invalidated
    /\ CallGet(s, "share")
    /\ UNCHANGED <<vms, active, handles, reported, pendingDeletes, sw, worldVars, budget>>

ListenerStep(s) ==
    \/ StartScaleSet(s) \/ OpenSession(s) \/ Hydrate(s) \/ Adopt(s)
    \/ ComputeShares(s) \/ PushShare(s)
    \/ HandleDesiredRunnerCount(s) \/ ScaleUpSkipped(s) \/ ScaleUpAcquires(s)
    \/ CreateVM(s) \/ Track(s)
    \/ DeleteVM(s) \/ MarkForDeletion(s) \/ ReleaseSlot(s)
============================================================================
