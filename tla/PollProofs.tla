----------------------------- MODULE PollProofs -----------------------------
(***************************************************************************)
(* A listener's first poll, for any fleet that stays as it is: through any *)
(* number of restarts, sweeps and failures, and with any snapshot in the   *)
(* cache, a scale set that is alone asks GitHub for at least one job.      *)
(***************************************************************************)
EXTENDS ManagerProofs

USE DEF vars, viewVars, cacheVars, callVars, memVars, reported, runVars, worldVars, outsideView

\* No worker goes or is paused.
FleetStays == Faults \cap {"workerGoes", "workerPauses"} = {}

\* There is one scale set at most.
Alone == \A s, t \in ScaleSets : s = t

Live == LiveWorkers(WorkerSpec, StaleAfter)

\* Any list of workers the process holds shows the same live ones, and a sweep
\* is about to prune none of them.
Same(ws) == LiveWorkers(ws, StaleAfter) = Live

SameIn(x) == x # NoSnap => Same(x.workers)

Steady ==
    /\ Same(workers) /\ SameIn(snap)
    /\ \A p \in Procs : /\ SameIn(got[p].snap) /\ SameIn(lst[p].last)
                        /\ gpc[p] = "listed" => Same(lst[p].workers)
    /\ sw.prune \cap DOMAIN Live = {}

\* A list with the same live workers: they are in it, and all others are stale.
LEMMA SameMeans ==
    ASSUME NEW ws
    PROVE  Same(ws) <=> /\ {n \in DOMAIN ws : WorkerLive(ws[n], StaleAfter)} = DOMAIN Live
                        /\ \A n \in DOMAIN Live : ws[n] = WorkerSpec[n]
<1>1. /\ DOMAIN LiveWorkers(ws, StaleAfter) = {n \in DOMAIN ws : WorkerLive(ws[n], StaleAfter)}
      /\ \A n \in DOMAIN LiveWorkers(ws, StaleAfter) : LiveWorkers(ws, StaleAfter)[n] = ws[n]
      /\ \A n \in DOMAIN Live : Live[n] = WorkerSpec[n]
  BY DEF LiveWorkers, Only, Live
<1>2. Same(ws) => /\ {n \in DOMAIN ws : WorkerLive(ws[n], StaleAfter)} = DOMAIN Live
                  /\ \A n \in DOMAIN Live : ws[n] = WorkerSpec[n]
  BY <1>1 DEF Same
<1>3. ASSUME {n \in DOMAIN ws : WorkerLive(ws[n], StaleAfter)} = DOMAIN Live,
             \A n \in DOMAIN Live : ws[n] = WorkerSpec[n]
      PROVE  Same(ws)
  <2>1. LiveWorkers(ws, StaleAfter) = [n \in DOMAIN Live |-> ws[n]]
    BY <1>3 DEF LiveWorkers, Only
  <2>2. Live = [n \in DOMAIN Live |-> WorkerSpec[n]]
    BY DEF LiveWorkers, Only, Live
  <2> QED
    BY <1>3, <2>1, <2>2 DEF Same
<1> QED
  BY <1>2, <1>3

\* No step changes which workers are live.
LEMMA NextWorkersSame ==
    ASSUME FleetStays, Tables, Steady, [Next]_vars
    PROVE  Same(workers')
<1>0. /\ {n \in DOMAIN workers : WorkerLive(workers[n], StaleAfter)} = DOMAIN Live
      /\ \A n \in DOMAIN Live : workers[n] = WorkerSpec[n]
      /\ \A n \in DOMAIN workers : workers[n] \in Worker
  BY SameMeans DEF Steady, Tables, WorkerTable
<1>1. ASSUME NEW n \in WorkerNames, WorkerGoes(n) \/ WorkerPauses(n) PROVE FALSE
  BY <1>1 DEF FleetStays, WorkerGoes, WorkerPauses, Fault
<1>2. ASSUME NEW n \in WorkerNames, WorkerStaysAway(n) PROVE Same(workers')
  <2>1. /\ n \in DOMAIN workers /\ workers[n].age = StaleAfter + 1 /\ PruneAfter > 0
        /\ DOMAIN workers' = DOMAIN workers /\ workers'[n].age = PruneAfter + 1
        /\ \A m \in DOMAIN workers \ {n} : workers'[m] = workers[m]
    BY <1>0, <1>2 DEF WorkerStaysAway, Worker
  <2>2. ~WorkerLive(workers[n], StaleAfter) /\ ~WorkerLive(workers'[n], StaleAfter)
    BY <2>1, NumbersAssumption, FleetAssumption, NoneAssumption DEF WorkerLive
  <2> QED
    BY <1>0, <2>1, <2>2, SameMeans
<1>3. ASSUME NEW n \in WorkerNames, WorkerReturns(n) PROVE Same(workers')
  <2>1. /\ n \in DOMAIN workers => ~WorkerLive(workers[n], StaleAfter)
        /\ DOMAIN workers' = DOMAIN workers \cup {n} /\ workers'[n] = WorkerSpec[n]
        /\ \A m \in DOMAIN workers \ {n} : workers'[m] = workers[m]
    BY <1>3 DEF WorkerReturns, With
  <2>2. n \notin DOMAIN Live
    BY <1>0, <2>1
  <2>3. ~WorkerLive(WorkerSpec[n], StaleAfter)
    BY <2>2, WorkersAssumption DEF Live, LiveWorkers, Only
  <2> QED
    BY <1>0, <2>1, <2>2, <2>3, SameMeans
<1>4. CASE PruneOfflineWorkers
  <2>1. PICK P \in SUBSET sw.prune : workers' = Drop(workers, P)
    BY <1>4 DEF PruneOfflineWorkers
  <2>2. /\ DOMAIN workers' = DOMAIN workers \ P
        /\ \A m \in DOMAIN workers' : workers'[m] = workers[m]
    BY <2>1 DEF Drop, Only
  <2>3. P \cap DOMAIN Live = {}
    BY DEF Steady
  <2> QED
    BY <1>0, <2>2, <2>3, SameMeans
<1>5. CASE UNCHANGED workers
  BY <1>5 DEF Steady
<1>6. ASSUME NEW s \in ScaleSets, CreateVM(s) \/ CreateFails(s) \/ DeleteVM(s) \/ DeleteVMFails(s)
      PROVE  UNCHANGED workers
  BY <1>6 DEF CreateVM, CreateFails, DeleteVM, DeleteVMFails
<1>7. ASSUME NEW v \in VMIds,
             ReapVM(v) \/ ReapFails(v) \/ VMFails(v) \/ \E n \in WorkerNames : Schedule(v, n)
      PROVE  UNCHANGED workers
  BY <1>7 DEF ReapVM, ReapFails, VMFails, Schedule
<1> QED
  BY <1>1, <1>2, <1>3, <1>4, <1>5, <1>6, <1>7, StepKinds, QuietSteps

\* A Get hands out no other live workers either.
LEMMA GetSteady ==
    ASSUME Views, Steady, NEW p \in Procs, ViewStep(p) \/ ListFails(p)
    PROVE  Steady'
<1> USE DEF Views, Steady, Returns, Result
<1>1. UNCHANGED <<workers, sw>>
  BY DEF ViewStep, ListFails
<1>2. CASE GetHit(p) \/ GetJoin(p) \/ JoinReturn(p)
  BY <1>1, <1>2 DEF GetHit, GetJoin, JoinReturn
<1>3. CASE GetLead(p)
  BY <1>1, <1>3 DEF GetLead
<1>4. CASE ListVMs(p)
  BY <1>1, <1>4 DEF ListVMs
<1>5. CASE ListWorkers(p)
  BY <1>1, <1>5 DEF ListWorkers
<1>6. CASE PublishOk(p)
  <2>1. SameIn(Snapshot(lst[p].vms, lst[p].workers))
    BY <1>6 DEF PublishOk, SameIn, Snapshot
  <2> QED
    BY <1>1, <1>6, <2>1 DEF PublishOk, Woken, NoLists, SameIn
<1>7. CASE PublishFail(p)
  BY <1>1, <1>7 DEF PublishFail, Woken, NoLists, SameIn
<1> QED
  BY <1>2, <1>3, <1>4, <1>5, <1>6, <1>7 DEF ViewStep, ListFails, GetStep

\* A sweep never sets out to prune a worker that is live.
LEMMA NextPruned ==
    ASSUME IInv, Steady, [Next]_vars
    PROVE  sw'.prune \cap DOMAIN Live = {}
<1>1. CASE sw'.prune = sw.prune \/ sw'.prune = {}
  BY <1>1 DEF Steady
<1>2. CASE sw' = NoSweep
  BY <1>1, <1>2 DEF NoSweep
<1>3. CASE SweepBegins
  <2>1. CASE SnapOf(Cleaner) # NoSnap
    <3>1. DOMAIN LiveWorkers(SnapOf(Cleaner).workers, StaleAfter) = DOMAIN Live
      BY <2>1, ProcsAssumption DEF Steady, SameIn, Same, SnapOf
    <3>2. \/ sw'.prune = {}
          \/ sw'.prune = Prunable(SnapOf(Cleaner).workers, SnapOf(Cleaner).vms, StaleAfter, PruneAfter)
      BY <1>3, <2>1 DEF SweepBegins
    <3> QED
      BY <1>1, <3>1, <3>2 DEF Prunable, LiveWorkers, Only
  <2> QED
    BY <1>2, <1>3, <2>1 DEF SweepBegins
<1>4. ASSUME NEW v \in VMIds, KeepVM(v) \/ ReapVM(v) \/ ReapFails(v) PROVE sw'.prune = sw.prune
  <2>1. "prune" \in DOMAIN sw
    BY DEF IInv, Sweeping, NoSweep
  <2>2. CASE Kept(v)
    BY <2>1, <2>2 DEF Kept
  <2>3. CASE sw' = [sw EXCEPT !.todo = @ \ {v}, !.deleted = TRUE, !.v = v]
    BY <2>1, <2>3
  <2> QED
    BY <1>4, <2>2, <2>3 DEF KeepVM, ReapVM, ReapFails
<1>5. ASSUME NEW s \in ScaleSets,
             \/ QuietListener(s) \/ CreateVM(s) \/ CreateFails(s) \/ DeleteVM(s) \/ DeleteVMFails(s)
      PROVE  UNCHANGED sw
  BY <1>5 DEF QuietListener, StartScaleSet, OpenSession, SessionRefused, GitHubFails, Hydrate, Adopt,
     HandleDesiredRunnerCount, ScaleUpSkipped, ScaleUpAcquires, Track, MarkForDeletion, ReleaseSlot,
     HandleJobCompleted, CreateVM, CreateFails, DeleteVM, DeleteVMFails
<1>6. CASE QuietSweep
  BY <1>1, <1>3, <1>4, <1>6 DEF QuietSweep, Tick, Cleaned, LoopEnds, ReconcileCapacity, PushMaxCapacity
<1>7. CASE QuietWorld
  BY <1>1, <1>2, <1>7 DEF QuietWorld, Restart, Expire, ViewStep, ListFails, AgeVM, PickUpJob, JobEnds,
     AssignJob, SessionExpires
<1>8. ASSUME NEW p \in Procs, ComputeShares(p) \/ PushShare(p) PROVE UNCHANGED sw
  BY <1>8, RecomputeEnds
<1>9. ASSUME NEW v \in VMIds, VMFails(v) \/ \E n \in WorkerNames : Schedule(v, n) PROVE UNCHANGED sw
  BY <1>9 DEF VMFails, Schedule
<1>10. ASSUME NEW n \in WorkerNames, WorkerGoes(n) \/ WorkerStaysAway(n) \/ WorkerReturns(n) \/ WorkerPauses(n)
       PROVE  UNCHANGED sw
  BY <1>10 DEF WorkerGoes, WorkerStaysAway, WorkerReturns, WorkerPauses
<1>11. CASE PruneOfflineWorkers
  BY <1>2, <1>11 DEF PruneOfflineWorkers
<1> QED
  BY <1>1, <1>4, <1>5, <1>6, <1>7, <1>8, <1>9, <1>10, <1>11, StepKinds

\* So all that the process knows of the fleet stays true.
LEMMA NextSteady ==
    ASSUME FleetStays, IInv, Steady, [Next]_vars
    PROVE  Steady'
<1>1. Same(workers') /\ sw'.prune \cap DOMAIN Live = {}
  BY NextWorkersSame, NextPruned DEF IInv
<1>2. CASE Restart
  BY <1>1, <1>2 DEF Restart, Steady, SameIn, NoLists, Nothing
<1>3. CASE Forgets
  BY <1>1, <1>3 DEF Forgets, Steady, Nothing, SameIn
<1>4. ASSUME NEW p \in Procs, ViewStep(p) \/ ListFails(p) PROVE Steady'
  BY <1>4, GetSteady DEF IInv
<1> QED
  BY <1>2, <1>3, <1>4, OutsideGet DEF IInv

----------------------------------------------------------------------------
\* What the live workers offer s.
Cap(s) == WorkerCapacity(Live, Settings[s])

Fit(s) == Settings[s].maxRunners = 0 => Cap(s) > 0

\* A scale set that has got past the wait for workers has been told of at least
\* one job, and no share that is still to be pushed takes that back.
Fed ==
    /\ \A s \in ScaleSets : pc[s] \notin {"start", "dead"} => maxRunners[s] > 0 /\ Fit(s)
    /\ \A s \in handles : Fit(s)
    /\ \A p \in Procs : \A s \in DOMAIN push[p] : push[p][s] > 0

\* A step that tells nothing, and takes nobody past the wait.
LEMMA FedElsewhere ==
    ASSUME Fed, UNCHANGED <<maxRunners, push, handles>>,
           \A s \in ScaleSets : pc[s] \in {"start", "dead"} => pc'[s] \in {"start", "dead"}
    PROVE  Fed'
  BY DEF Fed, Fit

\* The share of a scale set that is alone is all that its workers offer, however
\* many VMs of its own the snapshot shows.
LEMMA ShareOfOne ==
    ASSUME Alone, IInv, Steady, NEW p \in Procs, SnapOf(p) # NoSnap, NEW s \in handles, Cap(s) > 0
    PROVE  Share(SnapOf(p).vms, SnapWorkers(p), s, Settings[s], handles) > 0
<1>1. SnapWorkers(p) = Live
  BY DEF Steady, SameIn, Same, SnapOf, SnapWorkers
<1>2. handles \ {s} = {}
  BY DEF Alone, IInv, Control
<1>3. OthersActive(SnapOf(p).vms, Live, s, handles, Settings[s].labels) = Cardinality({})
  BY <1>2 DEF OthersActive
<1>4. Cardinality({}) = 0
  BY FS_EmptySet
<1>5. Cap(s) \in Nat
  BY <1>1, ResultIsFinite, FleetNumbers DEF IInv, WorkerTable, Cap
<1>6. Share(SnapOf(p).vms, SnapWorkers(p), s, Settings[s], handles) = Max({0, Cap(s) - 0})
  BY <1>1, <1>3, <1>4 DEF Share, Cap
<1>7. 0 \in Int /\ Cap(s) - 0 \in Int /\ Cap(s) - 0 = Cap(s)
  BY <1>5
<1>8. Max({0, Cap(s) - 0}) \in {0, Cap(s) - 0} /\ Max({0, Cap(s) - 0}) >= Cap(s) - 0
  BY <1>7, MaxOfTwo, Zenon
<1> QED
  BY <1>5, <1>6, <1>7, <1>8

\* No step breaks that.
LEMMA NextFed ==
    ASSUME Alone, IInv, Steady, Fed, [Next]_vars
    PROVE  Fed'
<1> USE ProcsAssumption
<1>1. ASSUME NEW s \in ScaleSets, QuietListener(s) PROVE Fed'
  <2> USE DEF IInv, Control, Goto, CallGet
  <2>1. CASE StartScaleSet(s)
    <3>1. LiveWorkers(workers, StaleAfter) = Live
      BY DEF Steady, Same
    <3>2. /\ maxRunners'[s] > 0 /\ Fit(s) /\ \A t \in ScaleSets \ {s} : maxRunners'[t] = maxRunners[t]
          /\ pc'[s] = "session" /\ \A t \in ScaleSets \ {s} : pc'[t] = pc[t]
          /\ UNCHANGED <<push, handles>>
      BY <2>1, <3>1, SettingsAssumption DEF StartScaleSet, Cap, Fit, Counts
    <3> QED
      BY <3>2 DEF Fed, Fit
  <2>2. CASE OpenSession(s)
    BY <2>2 DEF OpenSession, Fed, Fit
  <2>3. CASE \/ SessionRefused(s) \/ GitHubFails(s) \/ Hydrate(s) \/ Adopt(s)
             \/ HandleDesiredRunnerCount(s) \/ ScaleUpSkipped(s)
    BY <2>3, FedElsewhere DEF SessionRefused, GitHubFails, Hydrate, Adopt, HandleDesiredRunnerCount,
       ScaleUpSkipped
  <2>4. CASE \/ ScaleUpAcquires(s) \/ Track(s) \/ MarkForDeletion(s) \/ ReleaseSlot(s)
             \/ \E v \in VMIds : HandleJobCompleted(s, v)
    BY <2>4, FedElsewhere DEF ScaleUpAcquires, Track, MarkForDeletion, ReleaseSlot, HandleJobCompleted
  <2> QED
    BY <1>1, <2>1, <2>2, <2>3, <2>4 DEF QuietListener
<1>2. ASSUME NEW s \in ScaleSets, CreateVM(s) \/ CreateFails(s) \/ DeleteVM(s) \/ DeleteVMFails(s) PROVE Fed'
  BY <1>2, FedElsewhere DEF CreateVM, CreateFails, DeleteVM, DeleteVMFails, IInv, Control, Goto, CallGet
<1>3. CASE QuietSweep
  BY <1>3, FedElsewhere DEF QuietSweep, Tick, SweepBegins, KeepVM, Cleaned, LoopEnds, ReconcileCapacity,
     PushMaxCapacity, IInv, Control, Goto, CallGet
<1>4. CASE QuietWorld
  <2>1. CASE Restart
    BY <2>1 DEF Restart, Fed
  <2>2. CASE ~Restart
    BY <1>4, <2>2, FedElsewhere DEF QuietWorld, Expire, ViewStep, ListFails, AgeVM, PickUpJob, JobEnds,
       AssignJob, SessionExpires
  <2> QED
    BY <2>1, <2>2
<1>5. ASSUME NEW p \in Procs, ComputeShares(p) \/ PushShare(p) PROVE Fed'
  <2>0. /\ UNCHANGED handles
        /\ \A s \in ScaleSets : pc'[s] \notin {"start", "dead"} => pc[s] \notin {"start", "dead"}
    BY <1>5, RecomputeEnds DEF IInv, Control
  <2>1. CASE ComputeShares(p)
    <3> DEFINE shares == IF SnapOf(p) = NoSnap THEN <<>>
                         ELSE [s \in {h \in handles : Settings[h].maxRunners = 0} |->
                                  Share(SnapOf(p).vms, SnapWorkers(p), s, Settings[s], handles)]
    <3>1. \A s \in DOMAIN shares : shares[s] > 0
      BY ShareOfOne DEF Fed, Fit
    <3>2. push' = [push EXCEPT ![p] = shares] /\ UNCHANGED maxRunners
      BY <2>1 DEF ComputeShares
    <3> HIDE DEF shares
    <3> QED
      BY <2>0, <3>1, <3>2 DEF Fed, Fit, IInv, Counts
  <2>2. CASE PushShare(p)
    <3>1. PICK s \in DOMAIN push[p] : /\ maxRunners' = [maxRunners EXCEPT ![s] = push[p][s]]
                                      /\ push' = [push EXCEPT ![p] = Drop(push[p], {s})]
      BY <2>2 DEF PushShare, IInv, Counts
    <3>2. \A t \in DOMAIN Drop(push[p], {s}) : t \in DOMAIN push[p] /\ Drop(push[p], {s})[t] = push[p][t]
      BY DEF Drop, Only
    <3> QED
      BY <2>0, <3>1, <3>2 DEF Fed, Fit, IInv, Counts
  <2> QED
    BY <1>5, <2>1, <2>2
<1>6. ASSUME NEW v \in VMIds,
             ReapVM(v) \/ ReapFails(v) \/ VMFails(v) \/ \E n \in WorkerNames : Schedule(v, n)
      PROVE  Fed'
  BY <1>6, FedElsewhere DEF ReapVM, ReapFails, VMFails, Schedule, IInv, Control, Goto
<1>7. ASSUME NEW n \in WorkerNames, WorkerGoes(n) \/ WorkerStaysAway(n) \/ WorkerReturns(n) \/ WorkerPauses(n)
      PROVE  Fed'
  BY <1>7, FedElsewhere DEF WorkerGoes, WorkerStaysAway, WorkerReturns, WorkerPauses
<1>8. CASE PruneOfflineWorkers
  BY <1>8, FedElsewhere DEF PruneOfflineWorkers, IInv, Control, Goto
<1> QED
  BY <1>1, <1>2, <1>3, <1>4, <1>5, <1>6, <1>7, <1>8, StepKinds

\* GitHub never sees a capacity of zero from a listener's first poll: on a fleet
\* that stays as it is, and with no other scale set, whatever an earlier process
\* has left behind and whatever the cache or a half-done recompute still hold.
\* With two scale sets the other one's VMs may have taken every worker, and with
\* a fleet that changes the matching workers may be gone: then zero is right.
THEOREM FirstPollsAreFed ==
    ASSUME FleetStays, Alone
    PROVE  Spec => FirstPollHasCapacity
<1> DEFINE Inv == IInv /\ Steady /\ Fed
<1>1. Init => Inv
  <2>1. Init => Steady
    BY DEF Init, ViewInit, Steady, Same, SameIn, Live, Nothing, NoLists, NoSweep
  <2>2. Init => Fed
    BY ProcsAssumption DEF Init, Fed
  <2> QED
    BY <2>1, <2>2, InitIInv
<1>2. Inv /\ [Next]_vars => Inv'
  BY NextIInv, NextSteady, NextFed
<1>3. Inv /\ Inv' =>
         [\A s \in ScaleSets : pc[s] = "firstShare" /\ pc'[s] = "listen" => maxRunners'[s] > 0]_vars
  BY DEF Fed
<1> QED
  BY <1>1, <1>2, <1>3, PTL DEF Spec, FirstPollHasCapacity
=============================================================================
