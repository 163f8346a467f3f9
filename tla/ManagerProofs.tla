--------------------------- MODULE ManagerProofs ---------------------------
(***************************************************************************)
(* The whole process, for any scale sets, fleet, faults, sweeps, crashes   *)
(* and restarts: every variable keeps its type, no job of a young VM is    *)
(* ever killed, and the eligibility reports are those of the last sweep.   *)
(*                                                                         *)
(* What makes this hold is that a list of VMs, however old the cache that  *)
(* it is read from, is about the past of the VMs of today: a VM's name is  *)
(* never used again, its owner is fixed, and one that had ended then has   *)
(* ended or is gone now.                                                   *)
(***************************************************************************)
EXTENDS Manager, FleetProofs

VM == [owner : ScaleSets, worker : WorkerNames \cup {None}, status : {"creating", "running", "failed"},
       labels : SUBSET STRING, pin : STRING \cup {None}]

WorkerTable(f) == DOMAIN f \subseteq WorkerNames /\ \A n \in DOMAIN f : f[n] \in Worker

\* f is a list of VMs read in the past of the table vs, whose names have owners ow.
Past(f, vs, ow) ==
    /\ DOMAIN f \subseteq VMIds
    /\ \A v \in DOMAIN f :
          /\ f[v] \in VM /\ ow[v] = f[v].owner
          /\ ~NotTerminal(f[v]) => v \notin DOMAIN vs \/ ~NotTerminal(vs[v])

PastSnap(x, vs, ow) == x # NoSnap => Past(x.vms, vs, ow) /\ WorkerTable(x.workers)

\* Orchard's tables.
Tables ==
    /\ Past(vms, vms, owner) /\ WorkerTable(workers)
    /\ owner \in [VMIds -> ScaleSets \cup {None}]

\* What the cache and the callers of Get hold is from the past.
Views ==
    /\ PastSnap(snap, vms, owner)
    /\ DOMAIN gpc = Procs /\ DOMAIN lst = Procs /\ DOMAIN got = Procs
    /\ \A p \in Procs :
          /\ DOMAIN got[p] = {"snap", "err"} /\ PastSnap(got[p].snap, vms, owner)
          /\ DOMAIN lst[p] = {"vms", "workers", "last"} /\ PastSnap(lst[p].last, vms, owner)
          /\ gpc[p] \in {"listing", "listed"} => Past(lst[p].vms, vms, owner)
          /\ gpc[p] = "listed" => WorkerTable(lst[p].workers)

\* The tuples of variables that UNCHANGED is about.
USE DEF vars, viewVars, cacheVars, callVars, memVars, reported, runVars, worldVars, outsideView

----------------------------------------------------------------------------
\* What a step may do to Orchard's VMs: names keep their owners, a VM that has
\* ended stays so, and only an unused name appears.
VMsGrowOld ==
    /\ \A v \in VMIds : owner[v] # None => owner'[v] = owner[v]
    /\ \A v \in DOMAIN vms' :
          IF v \in DOMAIN vms THEN ~NotTerminal(vms[v]) => ~NotTerminal(vms'[v]) ELSE owner[v] = None

\* So a list from the past stays one.
LEMMA PastStays ==
    ASSUME VMsGrowOld, NEW f, Past(f, vms, owner)
    PROVE  Past(f, vms', owner')
<1>1. \A v \in DOMAIN f : owner[v] # None
  BY NamesAssumption DEF Past, VM
<1> QED
  BY <1>1 DEF VMsGrowOld, Past

\* A snapshot from the past stays one too.
LEMMA PastSnapStays ==
    ASSUME VMsGrowOld, NEW x, PastSnap(x, vms, owner)
    PROVE  PastSnap(x, vms', owner')
  BY PastStays DEF PastSnap

\* A VM is deleted, ends, is scheduled or is created.
LEMMA DeliveredTables ==
    ASSUME Tables, NEW v, Delivered(v), UNCHANGED <<workers, owner>>
    PROVE  Tables' /\ VMsGrowOld
<1>1. DOMAIN vms' \subseteq DOMAIN vms /\ \A u \in DOMAIN vms' : vms'[u] = vms[u]
  BY DEF Delivered, Drop, Only
<1> QED
  BY <1>1 DEF Tables, Past, VMsGrowOld

\* A VM is created, under a name that was never used.
LEMMA CreatedTables ==
    ASSUME Tables, NEW s \in ScaleSets, \E v \in VMIds : owner[v] = None,
           req[s].pins \subseteq STRING \cup {None},
           NEW new \in NewVMs(s), Created(s, new), UNCHANGED workers
    PROVE  /\ Tables' /\ VMsGrowOld
           /\ new.v \in VMIds /\ owner[new.v] = None /\ owner'[new.v] = s
           /\ DOMAIN vms' = DOMAIN vms \cup {new.v} /\ NotTerminal(vms'[new.v])
<1>1. new.v \in VMIds /\ owner[new.v] = None /\ new.pin \in STRING \cup {None}
  BY DEF NewVMs
<1>2. new.v \notin DOMAIN vms
  BY <1>1, NamesAssumption DEF Tables, Past, VM
<1> DEFINE r == [owner |-> s, worker |-> None, status |-> "creating",
                 labels |-> Settings[s].labels, pin |-> new.pin]
<1>3. r \in VM /\ r.owner = s /\ NotTerminal(r)
  BY <1>1, SettingsAssumption DEF VM, NotTerminal
<1> HIDE DEF r
<1>4. /\ DOMAIN vms' = DOMAIN vms \cup {new.v} /\ vms'[new.v] = r
      /\ \A u \in DOMAIN vms : vms'[u] = vms[u]
  BY <1>2 DEF Created, With, r
<1>5. owner' = [owner EXCEPT ![new.v] = s]
  BY DEF Created
<1> QED
  BY <1>1, <1>2, <1>3, <1>4, <1>5 DEF Tables, Past, VMsGrowOld

\* A VM fails, or Orchard schedules it.
LEMMA StatusTables ==
    ASSUME Tables, NEW v \in VMIds,
           VMFails(v) \/ \E n \in WorkerNames : Schedule(v, n)
    PROVE  Tables' /\ VMsGrowOld
<1>1. /\ UNCHANGED <<workers, owner>> /\ v \in DOMAIN vms /\ NotTerminal(vms[v])
      /\ DOMAIN vms' = DOMAIN vms /\ \A u \in DOMAIN vms \ {v} : vms'[u] = vms[u]
  BY DEF VMFails, Schedule, NotTerminal
<1>2. vms'[v] \in VM /\ vms'[v].owner = vms[v].owner
  <2>1. CASE VMFails(v)
    BY <1>1, <2>1 DEF VMFails, Tables, Past, VM
  <2>2. ASSUME NEW n \in WorkerNames, Schedule(v, n) PROVE <1>2!1 /\ <1>2!2
    <3>1. vms[v] \in VM
      BY <1>1 DEF Tables, Past
    <3>2. vms'[v] = [vms[v] EXCEPT !.worker = n, !.status = "running"]
      BY <1>1, <2>2 DEF Schedule
    <3> QED
      BY <3>1, <3>2 DEF VM
  <2> QED
    BY <2>1, <2>2
<1> QED
  BY <1>1, <1>2 DEF Tables, Past, VMsGrowOld

\* A worker goes, stays away, returns or is paused, or its record is pruned.
LEMMA WorkerTables ==
    ASSUME Tables,
           \/ \E n \in WorkerNames :
                 WorkerGoes(n) \/ WorkerStaysAway(n) \/ WorkerReturns(n) \/ WorkerPauses(n)
           \/ PruneOfflineWorkers
    PROVE  Tables' /\ VMsGrowOld
<1>1. UNCHANGED <<vms, owner>>
  BY DEF WorkerGoes, WorkerStaysAway, WorkerReturns, WorkerPauses, PruneOfflineWorkers
<1>2. WorkerTable(workers')
  <2> USE DEF Tables, WorkerTable
  <2>1. CASE \E n \in WorkerNames : WorkerGoes(n) \/ WorkerStaysAway(n)
    BY <2>1, NumbersAssumption DEF WorkerGoes, WorkerStaysAway, Worker
  <2>2. CASE \E n \in WorkerNames : WorkerReturns(n)
    BY <2>2, WorkersAssumption DEF WorkerReturns, With
  <2>3. ASSUME NEW n \in WorkerNames, WorkerPauses(n) PROVE WorkerTable(workers')
    <3>1. (~workers[n].paused) \in BOOLEAN
      OBVIOUS
    <3>2. PICK b \in BOOLEAN : workers' = [workers EXCEPT ![n].paused = b]
      BY <2>3, <3>1, Zenon DEF WorkerPauses
    <3> QED
      BY <3>2 DEF Worker
  <2>4. CASE PruneOfflineWorkers
    BY <2>4 DEF PruneOfflineWorkers, Drop, Only
  <2> QED
    BY <2>1, <2>2, <2>3, <2>4
<1> QED
  BY <1>1, <1>2 DEF Tables, Past, VMsGrowOld

\* Nothing happens to the tables.
LEMMA SameTables ==
    ASSUME Tables, UNCHANGED <<vms, workers, owner>>
    PROVE  Tables' /\ VMsGrowOld
  BY DEF Tables, VMsGrowOld

\* The steps that only read Orchard's tables.
QuietListener(s) ==
    \/ StartScaleSet(s) \/ OpenSession(s) \/ SessionRefused(s) \/ GitHubFails(s)
    \/ Hydrate(s) \/ Adopt(s) \/ HandleDesiredRunnerCount(s) \/ ScaleUpSkipped(s)
    \/ ScaleUpAcquires(s) \/ Track(s) \/ MarkForDeletion(s) \/ ReleaseSlot(s)
    \/ \E v \in VMIds : HandleJobCompleted(s, v)

QuietSweep ==
    \/ Tick \/ SweepBegins \/ (\E v \in VMIds : KeepVM(v)) \/ Cleaned \/ LoopEnds
    \/ ReconcileCapacity \/ PushMaxCapacity

QuietWorld ==
    \/ Expire \/ Restart \/ (\E p \in Procs : ViewStep(p) \/ ListFails(p))
    \/ (\E v \in VMIds : AgeVM(v) \/ PickUpJob(v) \/ JobEnds(v))
    \/ (\E s \in ScaleSets : AssignJob(s) \/ SessionExpires(s))
    \/ UNCHANGED vars

\* They leave the tables as they are.
LEMMA QuietSteps ==
    ASSUME \/ \E s \in ScaleSets : QuietListener(s)
           \/ QuietSweep \/ QuietWorld
           \/ \E p \in Procs : ComputeShares(p) \/ PushShare(p)
    PROVE  UNCHANGED <<vms, workers, owner>>
<1>1. ASSUME NEW s \in ScaleSets, QuietListener(s) PROVE UNCHANGED <<vms, workers, owner>>
  BY <1>1 DEF QuietListener, StartScaleSet, OpenSession, SessionRefused, GitHubFails, Hydrate, Adopt,
     HandleDesiredRunnerCount, ScaleUpSkipped, ScaleUpAcquires, Track, MarkForDeletion, ReleaseSlot,
     HandleJobCompleted
<1>2. CASE QuietSweep
  BY <1>2 DEF QuietSweep, Tick, SweepBegins, KeepVM, Cleaned, LoopEnds, ReconcileCapacity, PushMaxCapacity
<1>3. CASE QuietWorld
  BY <1>3 DEF QuietWorld, Expire, Restart, ViewStep, ListFails, AgeVM, PickUpJob, JobEnds, AssignJob,
     SessionExpires
<1>4. CASE \E p \in Procs : ComputeShares(p) \/ PushShare(p)
  BY <1>4 DEF ComputeShares, PushShare
<1> QED
  BY <1>1, <1>2, <1>3, <1>4

\* The steps that change them.
LEMMA StepKinds ==
    ASSUME [Next]_vars
    PROVE  \/ \E s \in ScaleSets : \/ QuietListener(s)
                                   \/ CreateVM(s) \/ CreateFails(s) \/ DeleteVM(s) \/ DeleteVMFails(s)
           \/ QuietSweep \/ QuietWorld
           \/ \E p \in Procs : ComputeShares(p) \/ PushShare(p)
           \/ \E v \in VMIds : ReapVM(v) \/ ReapFails(v) \/ VMFails(v) \/ \E n \in WorkerNames : Schedule(v, n)
           \/ \E n \in WorkerNames : WorkerGoes(n) \/ WorkerStaysAway(n) \/ WorkerReturns(n) \/ WorkerPauses(n)
           \/ PruneOfflineWorkers
  BY ProcsAssumption DEF Next, ListenerStep, SweepStep, OrchardStep, FleetStep, GitHubStep,
     QuietListener, QuietSweep, QuietWorld

\* Pins of the batch a scale-up works on are what worker records carry.
PinsOK == \A s \in ScaleSets : req[s].pins \subseteq STRING \cup {None}

\* Every step keeps the tables well formed, and only ages the VMs.
LEMMA NextTables ==
    ASSUME Tables, PinsOK, [Next]_vars
    PROVE  Tables' /\ VMsGrowOld
<1>1. ASSUME NEW s \in ScaleSets, CreateVM(s) PROVE Tables' /\ VMsGrowOld
  BY <1>1, CreatedTables DEF CreateVM, PinsOK
<1>2. ASSUME NEW s \in ScaleSets, CreateFails(s) PROVE Tables' /\ VMsGrowOld
  BY <1>2, CreatedTables, SameTables DEF CreateFails, PinsOK
<1>3. ASSUME NEW s \in ScaleSets, DeleteVM(s) \/ DeleteVMFails(s) PROVE Tables' /\ VMsGrowOld
  BY <1>3, DeliveredTables, SameTables DEF DeleteVM, DeleteVMFails
<1>4. ASSUME NEW v \in VMIds, ReapVM(v) \/ ReapFails(v) PROVE Tables' /\ VMsGrowOld
  BY <1>4, DeliveredTables, SameTables DEF ReapVM, ReapFails
<1>5. ASSUME NEW v \in VMIds, VMFails(v) \/ \E n \in WorkerNames : Schedule(v, n)
      PROVE  Tables' /\ VMsGrowOld
  BY <1>5, StatusTables
<1>6. ASSUME \/ \E s \in ScaleSets : QuietListener(s)
             \/ QuietSweep \/ QuietWorld
             \/ \E p \in Procs : ComputeShares(p) \/ PushShare(p)
      PROVE  Tables' /\ VMsGrowOld
  BY <1>6, QuietSteps, SameTables
<1> QED
  BY <1>1, <1>2, <1>3, <1>4, <1>5, <1>6, StepKinds, WorkerTables

----------------------------------------------------------------------------
\* Outside of Get, a step forgets what is cached or returned, or begins a call.
Forgets ==
    /\ snap' \in {snap, NoSnap} /\ UNCHANGED lst
    /\ DOMAIN gpc' = DOMAIN gpc /\ \A p \in Procs : gpc'[p] \in {gpc[p], "call", "idle"}
    /\ DOMAIN got' = DOMAIN got /\ \A p \in Procs : got'[p] \in {got[p], Nothing}

\* A step is a restart, a step of a Get, or leaves the cache at most emptier.
LEMMA OutsideGet ==
    ASSUME Views, [Next]_vars
    PROVE  Restart \/ Forgets \/ \E p \in Procs : ViewStep(p) \/ ListFails(p)
<1> USE DEF Views, Forgets
<1>1. ASSUME NEW s \in ScaleSets, QuietListener(s) PROVE Forgets
  <2>1. CASE \/ StartScaleSet(s) \/ SessionRefused(s) \/ GitHubFails(s) \/ MarkForDeletion(s)
             \/ \E v \in VMIds : HandleJobCompleted(s, v)
    BY <2>1 DEF StartScaleSet, SessionRefused, GitHubFails, MarkForDeletion, HandleJobCompleted
  <2>2. CASE \/ OpenSession(s) \/ Adopt(s) \/ HandleDesiredRunnerCount(s)
             \/ Track(s) \/ ReleaseSlot(s)
    BY <2>2 DEF OpenSession, Adopt, HandleDesiredRunnerCount, Track, ReleaseSlot, CallGet, Invalidated
  <2>3. CASE Hydrate(s) \/ ScaleUpSkipped(s) \/ ScaleUpAcquires(s)
    BY <2>3 DEF Hydrate, ScaleUpSkipped, ScaleUpAcquires, TakeResult
  <2> QED
    BY <1>1, <2>1, <2>2, <2>3 DEF QuietListener
<1>2. ASSUME NEW s \in ScaleSets, CreateVM(s) \/ CreateFails(s) \/ DeleteVM(s) \/ DeleteVMFails(s) PROVE Forgets
  BY <1>2 DEF CreateVM, CreateFails, DeleteVM, DeleteVMFails, CallGet
<1>3. CASE QuietSweep
  BY <1>3 DEF QuietSweep, Tick, SweepBegins, KeepVM, Cleaned, LoopEnds, ReconcileCapacity, PushMaxCapacity,
     CallGet, TakeResult, Invalidated
<1>4. CASE QuietWorld
  BY <1>4 DEF QuietWorld, Expire, TTLExpires, AgeVM, PickUpJob, JobEnds, AssignJob, SessionExpires
<1>5. ASSUME NEW p \in Procs, ComputeShares(p) \/ PushShare(p) PROVE Forgets
  BY <1>5 DEF ComputeShares, PushShare, TakeResult
<1>6. ASSUME NEW v \in VMIds,
             ReapVM(v) \/ ReapFails(v) \/ VMFails(v) \/ \E n \in WorkerNames : Schedule(v, n)
      PROVE  Forgets
  BY <1>6 DEF ReapVM, ReapFails, VMFails, Schedule
<1>7. ASSUME NEW n \in WorkerNames, WorkerGoes(n) \/ WorkerStaysAway(n) \/ WorkerReturns(n) \/ WorkerPauses(n)
      PROVE  Forgets
  BY <1>7 DEF WorkerGoes, WorkerStaysAway, WorkerReturns, WorkerPauses
<1>8. CASE PruneOfflineWorkers
  BY <1>8 DEF PruneOfflineWorkers, Invalidated
<1> QED
  BY <1>1, <1>2, <1>3, <1>4, <1>5, <1>6, <1>7, <1>8, StepKinds

\* A Get hands on lists from the past, whether it hits, leads, joins or fails.
LEMMA GetViews ==
    ASSUME Tables, Views, NEW p \in Procs, ViewStep(p) \/ ListFails(p)
    PROVE  Views'
<1> USE DEF Views, Returns, Result
<1>1. UNCHANGED <<vms, workers, owner>>
  BY DEF ViewStep, ListFails
<1>2. CASE GetHit(p) \/ GetJoin(p) \/ JoinReturn(p)
  BY <1>1, <1>2 DEF GetHit, GetJoin, JoinReturn
<1>3. CASE GetLead(p)
  BY <1>1, <1>3 DEF GetLead
<1>4. CASE ListVMs(p)
  BY <1>1, <1>4 DEF ListVMs, Tables
<1>5. CASE ListWorkers(p)
  BY <1>1, <1>5 DEF ListWorkers, Tables
<1>6. CASE PublishOk(p)
  <2>1. PastSnap(Snapshot(lst[p].vms, lst[p].workers), vms, owner)
    BY <1>6 DEF PublishOk, PastSnap, Snapshot
  <2> QED
    BY <1>1, <1>6, <2>1 DEF PublishOk, Woken, NoLists, PastSnap
<1>7. CASE PublishFail(p)
  BY <1>1, <1>7 DEF PublishFail, Woken, NoLists, PastSnap
<1> QED
  BY <1>2, <1>3, <1>4, <1>5, <1>6, <1>7 DEF ViewStep, ListFails, GetStep

\* So what is cached, listed or returned stays from the past.
LEMMA NextViews ==
    ASSUME Tables, Views, PinsOK, [Next]_vars
    PROVE  Views'
<1>1. VMsGrowOld
  BY NextTables
<1>2. CASE Restart
  BY <1>2 DEF Restart, Views, PastSnap, NoLists, Nothing
<1>3. CASE Forgets
  BY <1>1, <1>3, PastStays, PastSnapStays DEF Forgets, Views, Nothing, PastSnap
<1>4. ASSUME NEW p \in Procs, ViewStep(p) \/ ListFails(p) PROVE Views'
  BY <1>4, GetViews
<1> QED
  BY <1>2, <1>3, <1>4, OutsideGet

----------------------------------------------------------------------------
Request == [left : Nat, v : VMIds \cup {None}, pins : SUBSET (STRING \cup {None})]

\* The numbers the process keeps and tells GitHub.
Counts ==
    /\ capacity \in [current : Nat, max : Nat]
    /\ maxRunners \in [ScaleSets -> Nat]
    /\ DOMAIN push = Procs
    /\ \A p \in Procs : DOMAIN push[p] \subseteq ScaleSets /\ \A s \in DOMAIN push[p] : push[p][s] \in Nat

\* What it tracks, and where its listeners are: from CreateVM to the end of a
\* handler there is a VM at hand.
Control ==
    /\ active \in [ScaleSets -> SUBSET VMIds]
    /\ handles \subseteq ScaleSets /\ pendingDeletes \subseteq VMIds
    /\ DOMAIN pc = Procs /\ req \in [ScaleSets -> Request]
    /\ \A s \in ScaleSets : pc[s] \in {"track", "delete", "mark", "release"} => req[s].v \in VMIds

\* The locals of a sweep.
Sweeping ==
    /\ DOMAIN sw = DOMAIN NoSweep
    /\ sw.todo \subseteq sw.seen /\ sw.seen \subseteq VMIds /\ sw.count \in Nat
    /\ WorkerTable(sw.live)

\* The runners' jobs and the VMs' ages.
Jobs ==
    /\ age \in [VMIds -> Nat]
    /\ job \in [VMIds -> {"none", "busy", "done", "acked"}]
    /\ waiting \in [ScaleSets -> Nat] /\ budget \in 0..FaultBudget

\* What a caller of Get reads off its result can be counted.
LEMMA ResultIsFinite ==
    ASSUME Views, NEW p \in Procs, SnapOf(p) # NoSnap
    PROVE  /\ WorkerTable(SnapWorkers(p)) /\ IsFiniteSet(DOMAIN SnapWorkers(p))
           /\ DOMAIN SnapOf(p).vms \subseteq VMIds /\ IsFiniteSet(DOMAIN SnapOf(p).vms)
<1>1. Past(SnapOf(p).vms, vms, owner) /\ WorkerTable(SnapOf(p).workers)
  BY DEF Views, PastSnap, SnapOf
<1>2. WorkerTable(SnapWorkers(p))
  BY <1>1 DEF SnapWorkers, WorkerTable, LiveWorkers, Only
<1> QED
  BY <1>1, <1>2, NamesAssumption, FS_Subset DEF WorkerTable, Past

\* A part of a finite set can be counted.
LEMMA SubsetNat ==
    ASSUME NEW S, IsFiniteSet(S), NEW T \in SUBSET S
    PROVE  IsFiniteSet(T) /\ Cardinality(T) \in Nat
  BY FS_Subset, FS_CardinalityType

\* The room a snapshot shows is a number, possibly negative.
LEMMA FreeSlotsInt ==
    ASSUME Views, NEW s \in ScaleSets, SnapOf(s) # NoSnap
    PROVE  FreeSlots(s) \in Int
<1> DEFINE vs == SnapOf(s).vms
           ws == SnapWorkers(s)
<1>1. s \in Procs
  BY ProcsAssumption
<1>2. /\ IsFiniteSet(DOMAIN ws) /\ IsFiniteSet(DOMAIN vs)
      /\ \A n \in DOMAIN ws : ws[n] \in Worker
  BY <1>1, ResultIsFinite DEF WorkerTable
<1>3. FreeAutoSizeWorkers(ws, vs, Settings[s].labels, Settings[s].reserve) \in SUBSET DOMAIN ws
  BY DEF FreeAutoSizeWorkers, AutoSizeCandidates
<1>4. {v \in ManagedVMsMatchingLabels(vs, ws, Settings[s].labels) : NotTerminal(vs[v])} \in SUBSET DOMAIN vs
  BY DEF ManagedVMsMatchingLabels
<1>5. CapacityForLabels(ws, Settings[s].labels) \in Nat
  BY <1>2, FleetNumbers
<1>6. CountActiveVMs(vs, ManagedVMsMatchingLabels(vs, ws, Settings[s].labels)) \in Nat
  BY <1>2, <1>4, SubsetNat DEF CountActiveVMs
<1>7. Cardinality(FreeAutoSizeWorkers(ws, vs, Settings[s].labels, Settings[s].reserve)) \in Nat
  BY <1>2, <1>3, SubsetNat
<1> QED
  BY <1>5, <1>6, <1>7 DEF FreeSlots

\* TryAcquire grants no more than was asked for, and than is free.
LEMMA AcquiredIsFree ==
    ASSUME Views, Counts, Control, NEW s \in ScaleSets, Acquirable(s) # 0
    PROVE  /\ SnapOf(s) # NoSnap
           /\ Acquirable(s) = Granted(capacity, Min({req[s].left, FreeSlots(s)}))
           /\ Acquirable(s) \in Nat
           /\ Acquirable(s) <= req[s].left
           /\ Acquirable(s) <= Available(capacity)
<1>1. SnapOf(s) # NoSnap /\ ~(FreeSlots(s) <= 0)
      /\ Acquirable(s) = Granted(capacity, Min({req[s].left, FreeSlots(s)}))
  BY DEF Acquirable
<1>2. FreeSlots(s) \in Int /\ req[s].left \in Int /\ req[s].left >= 0
  BY <1>1, FreeSlotsInt DEF Control, Request
<1> DEFINE n == Min({req[s].left, FreeSlots(s)})
<1>3. n \in {req[s].left, FreeSlots(s)} /\ n <= req[s].left
  BY <1>2, MinOfTwo, Zenon
<1> HIDE DEF n
<1>4. n \in Nat /\ n <= req[s].left
  BY <1>1, <1>2, <1>3
<1>5. Granted(capacity, n) \in Nat /\ Granted(capacity, n) <= n
      /\ (Granted(capacity, n) # 0 => Granted(capacity, n) <= Available(capacity))
  BY <1>4 DEF Granted, Available, Counts
<1>6. Acquirable(s) = Granted(capacity, n)
  BY <1>1 DEF n
<1>7. Available(capacity) \in Int
  BY DEF Available, Counts
<1> QED
  BY <1>1, <1>2, <1>4, <1>5, <1>6, <1>7

----------------------------------------------------------------------------
\* No step takes the semaphore below zero or computes a negative share.
LEMMA NextCounts ==
    ASSUME Tables, Views, Counts, Control, Sweeping, [Next]_vars
    PROVE  Counts'
<1> USE DEF Counts
<1>1. ASSUME NEW s \in ScaleSets, QuietListener(s) PROVE Counts'
  <2>1. CASE StartScaleSet(s)
    <3>1. WorkerCapacity(LiveWorkers(workers, StaleAfter), Settings[s]) \in Nat
      <4>1. WorkerTable(LiveWorkers(workers, StaleAfter))
        BY DEF Tables, WorkerTable, LiveWorkers, Only
      <4> QED
        BY <4>1, NamesAssumption, FS_Subset, FleetNumbers DEF WorkerTable
    <3>2. Settings[s].maxRunners \in Nat
      BY SettingsAssumption
    <3> QED
      BY <2>1, <3>1, <3>2 DEF StartScaleSet
  <2>2. CASE Adopt(s)
    BY <2>2 DEF Adopt, AdoptExisting, Control, Request
  <2>3. CASE ScaleUpAcquires(s)
    <3>1. capacity' = [capacity EXCEPT !.current = @ + Acquirable(s)] /\ Acquirable(s) \in Nat
      BY <2>3, AcquiredIsFree DEF ScaleUpAcquires, TryAcquire
    <3> QED
      BY <2>3, <3>1 DEF ScaleUpAcquires
  <2>4. CASE ReleaseSlot(s)
    BY <2>4 DEF ReleaseSlot, Release
  <2>5. CASE \/ OpenSession(s) \/ SessionRefused(s) \/ GitHubFails(s) \/ Hydrate(s) \/ Track(s)
             \/ HandleDesiredRunnerCount(s) \/ ScaleUpSkipped(s) \/ MarkForDeletion(s)
             \/ \E v \in VMIds : HandleJobCompleted(s, v)
    BY <2>5 DEF OpenSession, SessionRefused, GitHubFails, Hydrate, Track, HandleDesiredRunnerCount,
       ScaleUpSkipped, MarkForDeletion, HandleJobCompleted
  <2> QED
    BY <1>1, <2>1, <2>2, <2>3, <2>4, <2>5 DEF QuietListener
<1>2. ASSUME NEW s \in ScaleSets, CreateFails(s) PROVE Counts'
  BY <1>2 DEF CreateFails, Release, Control, Request
<1>3. ASSUME NEW s \in ScaleSets, CreateVM(s) \/ DeleteVM(s) \/ DeleteVMFails(s) PROVE Counts'
  BY <1>3 DEF CreateVM, DeleteVM, DeleteVMFails
<1>4. CASE QuietSweep
  <2>1. CASE ReconcileCapacity
    BY <2>1 DEF ReconcileCapacity, Reconcile, Sweeping
  <2>2. CASE PushMaxCapacity
    <3>1. TotalSlots(sw.live) \in Nat
      BY NamesAssumption, FS_Subset, FleetNumbers DEF Sweeping, WorkerTable
    <3> QED
      BY <2>2, <3>1 DEF PushMaxCapacity, SetMax
  <2>3. CASE Tick \/ SweepBegins \/ (\E v \in VMIds : KeepVM(v)) \/ Cleaned \/ LoopEnds
    BY <2>3 DEF Tick, SweepBegins, KeepVM, Cleaned, LoopEnds
  <2> QED
    BY <1>4, <2>1, <2>2, <2>3 DEF QuietSweep
<1>5. CASE QuietWorld
  <2>1. CASE Restart
    <3>1. StartMaxes \subseteq Nat
      <4>1. WorkerTable(LiveWorkers(workers, StaleAfter))
        BY DEF Tables, WorkerTable, LiveWorkers, Only
      <4>2. DiscoveredSlots(LiveWorkers(workers, StaleAfter)) \in Nat
        BY <4>1, NamesAssumption, FS_Subset, FleetNumbers DEF WorkerTable
      <4> QED
        BY <4>2, NumbersAssumption DEF StartMaxes
    <3> QED
      BY <2>1, <3>1 DEF Restart, NewCapacity
  <2>2. CASE ~Restart
    BY <1>5, <2>2 DEF QuietWorld, Expire, ViewStep, ListFails, AgeVM, PickUpJob, JobEnds, AssignJob,
       SessionExpires
  <2> QED
    BY <2>1, <2>2
<1>6. ASSUME NEW p \in Procs, ComputeShares(p) PROVE Counts'
  <2> DEFINE sized == {h \in handles : Settings[h].maxRunners = 0}
             shares == IF SnapOf(p) = NoSnap THEN <<>>
                       ELSE [s \in sized |->
                                Share(SnapOf(p).vms, SnapWorkers(p), s, Settings[s], handles)]
  <2>1. DOMAIN shares \subseteq ScaleSets /\ \A s \in DOMAIN shares : shares[s] \in Nat
    <3>1. CASE SnapOf(p) = NoSnap
      BY <3>1
    <3>2. CASE SnapOf(p) # NoSnap
      <4>1. \A s \in sized : Share(SnapOf(p).vms, SnapWorkers(p), s, Settings[s], handles) \in Nat
        BY <3>2, ResultIsFinite, ShareNat DEF WorkerTable
      <4> QED
        BY <3>2, <4>1 DEF Control
    <3> QED
      BY <3>1, <3>2
  <2>2. push' = [push EXCEPT ![p] = shares] /\ UNCHANGED <<capacity, maxRunners>>
    BY <1>6 DEF ComputeShares
  <2> HIDE DEF shares
  <2> QED
    BY <2>1, <2>2
<1>7. ASSUME NEW p \in Procs, PushShare(p) PROVE Counts'
  BY <1>7 DEF PushShare, Drop, Only
<1>8. ASSUME NEW v \in VMIds,
             ReapVM(v) \/ ReapFails(v) \/ VMFails(v) \/ \E n \in WorkerNames : Schedule(v, n)
      PROVE  Counts'
  BY <1>8 DEF ReapVM, ReapFails, VMFails, Schedule
<1>9. ASSUME NEW n \in WorkerNames, WorkerGoes(n) \/ WorkerStaysAway(n) \/ WorkerReturns(n) \/ WorkerPauses(n)
      PROVE  Counts'
  BY <1>9 DEF WorkerGoes, WorkerStaysAway, WorkerReturns, WorkerPauses
<1>10. CASE PruneOfflineWorkers
  BY <1>10 DEF PruneOfflineWorkers
<1> QED
  BY <1>1, <1>2, <1>3, <1>4, <1>5, <1>6, <1>7, <1>8, <1>9, <1>10, StepKinds

\* Elsewhere a listener's locals and the sets it tracks are left alone.
LEMMA ControlElsewhere ==
    ASSUME Control,
           UNCHANGED req, active' = active, handles' = handles, pendingDeletes' \subseteq pendingDeletes,
           DOMAIN pc' = Procs,
           \A s \in ScaleSets : pc'[s] \in {"track", "delete", "mark", "release"} =>
                                   pc[s] \in {"track", "delete", "mark", "release"}
    PROVE  Control'
  BY DEF Control

\* A recompute ends where its caller goes on.
LEMMA RecomputeEnds ==
    ASSUME NEW p \in Procs, ComputeShares(p) \/ PushShare(p)
    PROVE  /\ pc[p] \in {"firstShare", "share", "failedShare", "cleanedShare", "maxShare"}
           /\ \/ pc' = pc
              \/ pc' = [pc EXCEPT ![p] = AfterRecompute[pc[p]]]
           /\ AfterRecompute[pc[p]] \in {"listen", "dead", "loop", "prune"}
           /\ UNCHANGED <<vms, capacity, active, handles, monitor, pendingDeletes, req, sw, worldVars, budget>>
<1>1. pc[p] \in {"firstShare", "share", "failedShare", "cleanedShare", "maxShare"}
  BY DEF ComputeShares, PushShare, Recomputing, AfterRecompute
<1>2. AfterRecompute[pc[p]] \in {"listen", "dead", "loop", "prune"}
  BY <1>1 DEF AfterRecompute
<1>3. /\ pc' = pc \/ pc' = [pc EXCEPT ![p] = AfterRecompute[pc[p]]]
      /\ UNCHANGED <<vms, capacity, active, handles, monitor, pendingDeletes, req, sw, worldVars, budget>>
  BY DEF ComputeShares, PushShare, Goto
<1> QED
  BY <1>1, <1>2, <1>3

\* No step loses track of what a handler works on.
LEMMA NextControl ==
    ASSUME Tables, Views, Counts, Control, Jobs, [Next]_vars
    PROVE  Control'
<1> USE ProcsAssumption
<1>1. ASSUME NEW s \in ScaleSets, QuietListener(s) PROVE Control'
  <2> USE DEF Control, Request, NoReq, Goto, CallGet
  <2>1. CASE StartScaleSet(s) \/ GitHubFails(s)
    BY <2>1 DEF StartScaleSet, GitHubFails
  <2>2. CASE OpenSession(s) \/ SessionRefused(s) \/ Adopt(s)
    BY <2>2 DEF OpenSession, SessionRefused, Adopt
  <2>3. CASE Hydrate(s)
    <3> DEFINE own == IF SnapOf(s) = NoSnap THEN {} ELSE OwnActive(SnapOf(s).vms, s)
    <3>1. own \in SUBSET VMIds
      BY ResultIsFinite DEF OwnActive
    <3>2. Cardinality(own) \in Nat
      BY <3>1, NamesAssumption, SubsetNat
    <3>3. /\ active' = [active EXCEPT ![s] = @ \cup own]
          /\ req' = [req EXCEPT ![s].left = Cardinality(own)]
      BY <2>3 DEF Hydrate
    <3> HIDE DEF own
    <3> QED
      BY <2>3, <3>1, <3>2, <3>3 DEF Hydrate
  <2>4. CASE HandleDesiredRunnerCount(s)
    <3>1. DesiredCount(s) \in Nat /\ Cardinality(active[s]) \in Nat
      BY NamesAssumption, SubsetNat DEF DesiredCount, Jobs
    <3>2. DesiredCount(s) - Cardinality(active[s]) \in Nat
      BY <2>4, <3>1 DEF HandleDesiredRunnerCount
    <3> QED
      BY <2>4, <3>2 DEF HandleDesiredRunnerCount
  <2>5. CASE ScaleUpSkipped(s)
    BY <2>5 DEF ScaleUpSkipped
  <2>6. CASE ScaleUpAcquires(s)
    <3> DEFINE ws   == SnapWorkers(s)
               free == FreeAutoSizeWorkers(ws, SnapOf(s).vms, Settings[s].labels, Settings[s].reserve)
    <3>1. Acquirable(s) \in Nat /\ SnapOf(s) # NoSnap
      BY <2>6, AcquiredIsFree DEF ScaleUpAcquires
    <3>2. PICK batch \in IF Settings[s].autoSize THEN kSubset(Acquirable(s), free) ELSE {{}} :
             req' = [req EXCEPT ![s] = [left |-> Acquirable(s), v |-> None, pins |-> {ws[n].pin : n \in batch}]]
      BY <2>6 DEF ScaleUpAcquires
    <3>3. batch \subseteq DOMAIN ws
      BY DEF kSubset, FreeAutoSizeWorkers, AutoSizeCandidates
    <3>4. {ws[n].pin : n \in batch} \in SUBSET (STRING \cup {None})
      BY <3>1, <3>3, ResultIsFinite DEF WorkerTable, Worker
    <3> HIDE DEF ws, free
    <3> QED
      BY <2>6, <3>1, <3>2, <3>4 DEF ScaleUpAcquires
  <2>7. CASE Track(s)
    BY <2>7 DEF Track
  <2>8. CASE MarkForDeletion(s) \/ ReleaseSlot(s)
    BY <2>8 DEF MarkForDeletion, ReleaseSlot
  <2>9. CASE \E v \in VMIds : HandleJobCompleted(s, v)
    BY <2>9 DEF HandleJobCompleted
  <2> QED
    BY <1>1, <2>1, <2>2, <2>3, <2>4, <2>5, <2>6, <2>7, <2>8, <2>9 DEF QuietListener
<1>2. ASSUME NEW s \in ScaleSets, CreateVM(s) PROVE Control'
  <2>1. PICK new \in NewVMs(s) :
           Created(s, new) /\ req' = [req EXCEPT ![s].v = new.v, ![s].pins = @ \ {new.pin}]
    BY <1>2 DEF CreateVM
  <2>2. new.v \in VMIds
    BY <1>2, <2>1 DEF CreateVM, NewVMs
  <2>3. req' \in [ScaleSets -> Request] /\ req'[s].v = new.v /\ \A t \in ScaleSets \ {s} : req'[t] = req[t]
    <3>0. req[s] \in Request /\ req[s].pins \ {new.pin} \in SUBSET (STRING \cup {None})
      BY DEF Control, Request
    <3>1. \A P \in SUBSET (STRING \cup {None}) : [req[s] EXCEPT !.v = new.v, !.pins = P] \in Request
      BY <2>2, <3>0 DEF Request
    <3>2. req' = [req EXCEPT ![s] = [req[s] EXCEPT !.v = new.v, !.pins = @ \ {new.pin}]]
      BY <2>1 DEF Control, Request
    <3>3. [req[s] EXCEPT !.v = new.v, !.pins = @ \ {new.pin}] \in Request
      BY <3>0, <3>1
    <3> QED
      BY <3>2, <3>3 DEF Control, Request
  <2> QED
    BY <1>2, <2>2, <2>3 DEF CreateVM, Goto, Control
<1>3. ASSUME NEW s \in ScaleSets, CreateFails(s) \/ DeleteVM(s) \/ DeleteVMFails(s) PROVE Control'
  BY <1>3 DEF CreateFails, DeleteVM, DeleteVMFails, Goto, CallGet, Control, Request, NoReq
<1>4. CASE QuietSweep
  <2>1. CASE Cleaned
    BY <2>1 DEF Cleaned, CallGet, Goto, Control
  <2>2. CASE ~Cleaned
    BY <1>4, <2>2, ControlElsewhere DEF QuietSweep, Tick, SweepBegins, KeepVM, LoopEnds, ReconcileCapacity,
       PushMaxCapacity, Goto, CallGet, Control
  <2> QED
    BY <2>1, <2>2
<1>5. CASE QuietWorld
  <2>1. CASE Restart
    BY <2>1 DEF Restart, Control, NoReq, Request
  <2>2. CASE ~Restart
    BY <1>5, <2>2, ControlElsewhere DEF QuietWorld, Expire, ViewStep, ListFails, AgeVM, PickUpJob, JobEnds,
       AssignJob, SessionExpires, Control
  <2> QED
    BY <2>1, <2>2
<1>6. ASSUME NEW p \in Procs, ComputeShares(p) \/ PushShare(p) PROVE Control'
  BY <1>6, RecomputeEnds, ControlElsewhere DEF Control
<1>7. ASSUME NEW v \in VMIds,
             ReapVM(v) \/ ReapFails(v) \/ VMFails(v) \/ \E n \in WorkerNames : Schedule(v, n)
      PROVE  Control'
  BY <1>7, ControlElsewhere DEF ReapVM, ReapFails, VMFails, Schedule, Goto, Control
<1>8. ASSUME NEW n \in WorkerNames, WorkerGoes(n) \/ WorkerStaysAway(n) \/ WorkerReturns(n) \/ WorkerPauses(n)
      PROVE  Control'
  BY <1>8, ControlElsewhere DEF WorkerGoes, WorkerStaysAway, WorkerReturns, WorkerPauses, Control
<1>9. CASE PruneOfflineWorkers
  BY <1>9, ControlElsewhere DEF PruneOfflineWorkers, Goto, Control
<1> QED
  BY <1>1, <1>2, <1>3, <1>4, <1>5, <1>6, <1>7, <1>8, <1>9, StepKinds

\* A sweep works on what it has seen.
LEMMA NextSweeping ==
    ASSUME Tables, Views, Sweeping, [Next]_vars
    PROVE  Sweeping'
<1>1. CASE UNCHANGED sw
  BY <1>1 DEF Sweeping
<1>2. CASE sw' = NoSweep
  BY <1>2 DEF Sweeping, NoSweep, WorkerTable
<1>3. CASE SweepBegins
  <2>1. CASE SnapOf(Cleaner) # NoSnap
    <3>1. DOMAIN SnapOf(Cleaner).vms \subseteq VMIds /\ WorkerTable(SnapWorkers(Cleaner))
      BY <2>1, ResultIsFinite, ProcsAssumption
    <3> QED
      BY <1>3, <2>1, <3>1 DEF SweepBegins, Sweeping, NoSweep
  <2> QED
    BY <1>2, <1>3, <2>1 DEF SweepBegins
<1>4. ASSUME NEW v \in VMIds, KeepVM(v) \/ ReapVM(v) \/ ReapFails(v) PROVE Sweeping'
  <2>1. CASE Kept(v)
    <3>1. /\ sw'.todo = sw.todo \ {v} /\ sw'.seen = sw.seen /\ sw'.live = sw.live
          /\ sw'.count \in {sw.count, sw.count + 1} /\ DOMAIN sw' = DOMAIN sw
      BY <2>1 DEF Kept, Sweeping, NoSweep
    <3> QED
      BY <3>1 DEF Sweeping
  <2>2. CASE sw' = [sw EXCEPT !.todo = @ \ {v}, !.deleted = TRUE, !.v = v]
    BY <2>2 DEF Sweeping, NoSweep
  <2> QED
    BY <1>4, <2>1, <2>2 DEF KeepVM, ReapVM, ReapFails
<1>5. ASSUME NEW s \in ScaleSets,
             \/ QuietListener(s) \/ CreateVM(s) \/ CreateFails(s) \/ DeleteVM(s) \/ DeleteVMFails(s)
      PROVE  UNCHANGED sw
  BY <1>5 DEF QuietListener, StartScaleSet, OpenSession, SessionRefused, GitHubFails, Hydrate, Adopt,
     HandleDesiredRunnerCount, ScaleUpSkipped, ScaleUpAcquires, Track, MarkForDeletion, ReleaseSlot,
     HandleJobCompleted, CreateVM, CreateFails, DeleteVM, DeleteVMFails
<1>6. CASE QuietSweep
  BY <1>1, <1>3, <1>4, <1>6 DEF QuietSweep, Tick, Cleaned, LoopEnds, ReconcileCapacity, PushMaxCapacity
<1>7. CASE QuietWorld
  BY <1>1, <1>2, <1>7 DEF QuietWorld, Restart, Expire, ViewStep, ListFails, AgeVM, PickUpJob, JobEnds,
     AssignJob, SessionExpires
<1>8. ASSUME NEW p \in Procs, ComputeShares(p) \/ PushShare(p) PROVE UNCHANGED sw
  BY <1>8, RecomputeEnds
<1>9. ASSUME NEW v \in VMIds, VMFails(v) \/ \E n \in WorkerNames : Schedule(v, n) PROVE UNCHANGED sw
  BY <1>9 DEF VMFails, Schedule
<1>10. ASSUME NEW n \in WorkerNames, WorkerGoes(n) \/ WorkerStaysAway(n) \/ WorkerReturns(n) \/ WorkerPauses(n)
       PROVE  UNCHANGED sw
  BY <1>10 DEF WorkerGoes, WorkerStaysAway, WorkerReturns, WorkerPauses
<1>11. CASE PruneOfflineWorkers
  BY <1>2, <1>11 DEF PruneOfflineWorkers
<1> QED
  BY <1>1, <1>4, <1>5, <1>6, <1>7, <1>8, <1>9, <1>10, <1>11, StepKinds

\* A job is picked up, ends and is acknowledged, in this order; VMs get older.
JobsAdvance ==
    \A v \in VMIds :
        /\ age'[v] \in Nat /\ age'[v] >= age[v]
        /\ job[v] = "acked" => job'[v] = "acked"

\* Every step moves jobs and ages forward only.
LEMMA NextJobs ==
    ASSUME Tables, Jobs, [Next]_vars
    PROVE  Jobs' /\ JobsAdvance
<1> USE DEF Jobs, JobsAdvance, Fault
<1>1. ASSUME NEW s \in ScaleSets,
             \/ QuietListener(s) \/ CreateVM(s) \/ CreateFails(s) \/ DeleteVM(s) \/ DeleteVMFails(s)
      PROVE  Jobs' /\ JobsAdvance
  <2>1. CASE \E v \in VMIds : HandleJobCompleted(s, v)
    BY <2>1 DEF HandleJobCompleted
  <2>2. CASE ~(\E v \in VMIds : HandleJobCompleted(s, v))
    <3>1. UNCHANGED <<age, job, waiting>>
      BY <1>1, <2>2 DEF QuietListener, StartScaleSet, OpenSession, SessionRefused, GitHubFails, Hydrate, Adopt,
         HandleDesiredRunnerCount, ScaleUpSkipped, ScaleUpAcquires, Track, MarkForDeletion, ReleaseSlot,
         CreateVM, CreateFails, DeleteVM, DeleteVMFails
    <3>2. budget' \in 0..FaultBudget
      BY <1>1, <2>2, NumbersAssumption DEF QuietListener, StartScaleSet, OpenSession, SessionRefused, GitHubFails,
         Hydrate, Adopt, HandleDesiredRunnerCount, ScaleUpSkipped, ScaleUpAcquires, Track, MarkForDeletion,
         ReleaseSlot, CreateVM, CreateFails, DeleteVM, DeleteVMFails
    <3> QED
      BY <3>1, <3>2
  <2> QED
    BY <2>1, <2>2
<1>2. CASE QuietSweep
  BY <1>2 DEF QuietSweep, Tick, SweepBegins, KeepVM, Cleaned, LoopEnds, ReconcileCapacity, PushMaxCapacity
<1>3. CASE QuietWorld
  <2>1. ASSUME NEW v \in VMIds, AgeVM(v) \/ JobEnds(v) PROVE Jobs' /\ JobsAdvance
    BY <2>1 DEF AgeVM, JobEnds
  <2>2. ASSUME NEW v \in VMIds, PickUpJob(v) PROVE Jobs' /\ JobsAdvance
    <3>1. owner[v] \in ScaleSets
      BY <2>2 DEF PickUpJob, Tables, Past, VM
    <3> QED
      BY <2>2, <3>1 DEF PickUpJob
  <2>3. ASSUME NEW s \in ScaleSets, AssignJob(s) PROVE Jobs' /\ JobsAdvance
    BY <2>3 DEF AssignJob
  <2>4. CASE \/ Expire \/ Restart \/ (\E p \in Procs : ViewStep(p) \/ ListFails(p))
             \/ (\E s \in ScaleSets : SessionExpires(s)) \/ UNCHANGED vars
    BY <2>4, NumbersAssumption DEF Expire, Restart, ViewStep, ListFails, SessionExpires
  <2> QED
    BY <1>3, <2>1, <2>2, <2>3, <2>4 DEF QuietWorld
<1>4. ASSUME NEW p \in Procs, ComputeShares(p) \/ PushShare(p) PROVE Jobs' /\ JobsAdvance
  BY <1>4, RecomputeEnds
<1>5. ASSUME NEW v \in VMIds,
             ReapVM(v) \/ ReapFails(v) \/ VMFails(v) \/ \E n \in WorkerNames : Schedule(v, n)
      PROVE  Jobs' /\ JobsAdvance
  <2>1. UNCHANGED <<age, job, waiting>>
    BY <1>5 DEF ReapVM, ReapFails, VMFails, Schedule
  <2>2. budget' \in {budget, budget - 1} /\ (budget' = budget \/ budget > 0)
    BY <1>5 DEF ReapVM, ReapFails, VMFails, Schedule
  <2> QED
    BY <2>1, <2>2, NumbersAssumption
<1>6. ASSUME NEW n \in WorkerNames, WorkerGoes(n) \/ WorkerStaysAway(n) \/ WorkerReturns(n) \/ WorkerPauses(n)
      PROVE  Jobs' /\ JobsAdvance
  BY <1>6, NumbersAssumption DEF WorkerGoes, WorkerStaysAway, WorkerReturns, WorkerPauses
<1>7. CASE PruneOfflineWorkers
  BY <1>7, NumbersAssumption DEF PruneOfflineWorkers
<1> QED
  BY <1>1, <1>2, <1>3, <1>4, <1>5, <1>6, <1>7, StepKinds

----------------------------------------------------------------------------
\* The bookkeeping of the process, and the tables it reads.
IInv == Tables /\ Views /\ Counts /\ Control /\ Sweeping /\ Jobs

\* A process that has just started satisfies everything.
LEMMA InitIInv == Init => IInv
<1> SUFFICES ASSUME Init PROVE IInv
  OBVIOUS
<1> USE DEF Init, ViewInit
<1>1. Tables
  BY WorkersAssumption DEF Tables, Past, WorkerTable
<1>2. Views
  BY DEF Views, PastSnap, NoLists, Nothing
<1>3. Counts
  <2>1. StartMaxes \subseteq Nat
    <3>1. WorkerTable(LiveWorkers(workers, StaleAfter))
      BY <1>1 DEF Tables, WorkerTable, LiveWorkers, Only
    <3>2. DiscoveredSlots(LiveWorkers(workers, StaleAfter)) \in Nat
      BY <3>1, NamesAssumption, FS_Subset, FleetNumbers DEF WorkerTable
    <3> QED
      BY <3>2, NumbersAssumption DEF StartMaxes
  <2> QED
    BY <2>1 DEF Counts, NewCapacity
<1>4. Control
  BY ProcsAssumption DEF Control, NoReq, Request
<1>5. Sweeping
  BY DEF Sweeping, NoSweep, WorkerTable
<1>6. Jobs
  BY NumbersAssumption DEF Jobs
<1> QED
  BY <1>1, <1>2, <1>3, <1>4, <1>5, <1>6 DEF IInv

\* So every step keeps the invariant, and only ages VMs and jobs.
LEMMA NextIInv ==
    ASSUME IInv, [Next]_vars
    PROVE  IInv' /\ VMsGrowOld /\ JobsAdvance
<1>1. PinsOK
  BY DEF IInv, Control, Request, PinsOK
<1> QED
  BY <1>1, NextTables, NextViews, NextCounts, NextControl, NextSweeping, NextJobs DEF IInv

\* The process keeps its invariant, whatever fails and however often it is
\* restarted.
THEOREM ProcessInvariant == Spec => []IInv
<1>1. IInv /\ [Next]_vars => IInv'
  BY NextIInv
<1> QED
  BY InitIInv, <1>1, PTL DEF Spec

\* Types: the semaphore never goes below zero, no scale set is told a negative
\* maximum, and a handler never loses the VM it works on.
THEOREM TypeCorrect == Spec => []TypeOK
<1>1. IInv => TypeOK
  BY NumbersAssumption DEF IInv, Tables, Past, WorkerTable, Counts, Control, Request, Sweeping, Jobs, TypeOK
<1> QED
  BY ProcessInvariant, <1>1, PTL

----------------------------------------------------------------------------
\* Whoever is about to delete a VM has been told that its job is over.
AckedFirst ==
    /\ \A v \in pendingDeletes : job[v] = "acked"
    /\ \A s \in ScaleSets : pc[s] \in {"delete", "mark", "release"} => job[req[s].v] = "acked"

\* What a sweep has found to delete is old, has ended, or is gone by now.
DoomedIsOld ==
    \A v \in sw.doomed :
        /\ v \in VMIds /\ owner[v] # None
        /\ age[v] > 0 \/ v \notin DOMAIN vms \/ ~NotTerminal(vms[v])

\* A VM is queued for deletion only once its completion was acknowledged.
LEMMA NextAckedFirst ==
    ASSUME IInv, AckedFirst, [Next]_vars
    PROVE  AckedFirst'
<1> USE DEF AckedFirst, IInv, Control, Goto
<1>1. JobsAdvance
  BY NextIInv
<1>2. ASSUME UNCHANGED req, pendingDeletes' \subseteq pendingDeletes,
             \A s \in ScaleSets : pc'[s] \in {"delete", "mark", "release"} =>
                                     pc[s] \in {"delete", "mark", "release"}
      PROVE  AckedFirst'
  BY <1>1, <1>2 DEF JobsAdvance
<1>3. ASSUME NEW s \in ScaleSets, QuietListener(s) PROVE AckedFirst'
  <2>1. CASE MarkForDeletion(s)
    BY <1>1, <2>1, ProcsAssumption DEF MarkForDeletion, JobsAdvance, Request, NoReq
  <2>2. ASSUME NEW v \in VMIds, HandleJobCompleted(s, v) PROVE AckedFirst'
    <3>1. /\ job'[v] = "acked" /\ UNCHANGED pendingDeletes
          /\ \A t \in ScaleSets \ {s} : pc'[t] = pc[t] /\ req'[t] = req[t]
          /\ pc'[s] = "delete" => req'[s].v = v
          /\ pc'[s] \in {"listen", "delete"}
      BY <2>2, ProcsAssumption DEF HandleJobCompleted, Jobs, Request
    <3> QED
      BY <1>1, <3>1 DEF JobsAdvance
  <2>3. ASSUME pendingDeletes' = pendingDeletes,
               \A t \in ScaleSets \ {s} : pc'[t] = pc[t] /\ req'[t] = req[t],
               pc'[s] \notin {"delete", "mark", "release"}
        PROVE  AckedFirst'
    BY <1>1, <2>3 DEF JobsAdvance
  <2>4. CASE \/ StartScaleSet(s) \/ OpenSession(s) \/ SessionRefused(s) \/ GitHubFails(s)
             \/ Hydrate(s) \/ Adopt(s) \/ HandleDesiredRunnerCount(s) \/ ScaleUpSkipped(s)
    BY <2>3, <2>4, ProcsAssumption DEF StartScaleSet, OpenSession, SessionRefused, GitHubFails, Hydrate, Adopt,
       HandleDesiredRunnerCount, ScaleUpSkipped, CallGet
  <2>5. CASE ScaleUpAcquires(s) \/ Track(s) \/ ReleaseSlot(s)
    BY <2>3, <2>5, ProcsAssumption DEF ScaleUpAcquires, Track, ReleaseSlot, CallGet
  <2> QED
    BY <1>3, <2>1, <2>2, <2>4, <2>5 DEF QuietListener
<1>4. ASSUME NEW s \in ScaleSets, CreateVM(s) \/ CreateFails(s) PROVE AckedFirst'
  <2>1. /\ UNCHANGED <<pendingDeletes, job>>
        /\ \A t \in ScaleSets \ {s} : pc'[t] = pc[t] /\ req'[t] = req[t]
        /\ pc'[s] \notin {"delete", "mark", "release"}
    BY <1>4, ProcsAssumption DEF CreateVM, CreateFails, CallGet
  <2> QED
    BY <2>1
<1>5. ASSUME NEW s \in ScaleSets, DeleteVM(s) \/ DeleteVMFails(s) PROVE AckedFirst'
  BY <1>2, <1>5, ProcsAssumption DEF DeleteVM, DeleteVMFails
<1>6. CASE QuietSweep
  BY <1>2, <1>6, ProcsAssumption DEF QuietSweep, Tick, SweepBegins, KeepVM, Cleaned, LoopEnds,
     ReconcileCapacity, PushMaxCapacity, CallGet
<1>7. CASE QuietWorld
  <2>1. CASE Restart
    BY <2>1, ProcsAssumption DEF Restart
  <2>2. CASE ~Restart
    BY <1>2, <1>7, <2>2 DEF QuietWorld, Expire, ViewStep, ListFails, AgeVM, PickUpJob, JobEnds, AssignJob,
       SessionExpires
  <2> QED
    BY <2>1, <2>2
<1>8. ASSUME NEW p \in Procs, ComputeShares(p) \/ PushShare(p) PROVE AckedFirst'
  BY <1>2, <1>8, RecomputeEnds, ProcsAssumption
<1>9. ASSUME NEW v \in VMIds,
             ReapVM(v) \/ ReapFails(v) \/ VMFails(v) \/ \E n \in WorkerNames : Schedule(v, n)
      PROVE  AckedFirst'
  BY <1>2, <1>9, ProcsAssumption DEF ReapVM, ReapFails, VMFails, Schedule
<1>10. ASSUME NEW n \in WorkerNames, WorkerGoes(n) \/ WorkerStaysAway(n) \/ WorkerReturns(n) \/ WorkerPauses(n)
       PROVE  AckedFirst'
  BY <1>2, <1>10 DEF WorkerGoes, WorkerStaysAway, WorkerReturns, WorkerPauses
<1>11. CASE PruneOfflineWorkers
  BY <1>2, <1>11, ProcsAssumption DEF PruneOfflineWorkers
<1> QED
  BY <1>3, <1>4, <1>5, <1>6, <1>7, <1>8, <1>9, <1>10, <1>11, StepKinds

\* The verdict of a sweep stays right while the sweep works it off.
LEMMA NextDoomedIsOld ==
    ASSUME IInv, DoomedIsOld, [Next]_vars
    PROVE  DoomedIsOld'
<1>1. IInv' /\ JobsAdvance /\ VMsGrowOld
  BY NextIInv
<1>2. ASSUME sw'.doomed \subseteq sw.doomed PROVE DoomedIsOld'
  <2> SUFFICES ASSUME NEW v \in sw.doomed
               PROVE  /\ v \in VMIds /\ owner'[v] # None
                      /\ age'[v] > 0 \/ v \notin DOMAIN vms' \/ ~NotTerminal(vms'[v])
    BY <1>2 DEF DoomedIsOld
  <2>1. /\ v \in VMIds /\ owner[v] # None
        /\ age[v] > 0 \/ v \notin DOMAIN vms \/ ~NotTerminal(vms[v])
    BY DEF DoomedIsOld
  <2>2. age[v] > 0 => age'[v] > 0
    BY <1>1, <2>1 DEF JobsAdvance, IInv, Jobs
  <2> QED
    BY <1>1, <2>1, <2>2 DEF VMsGrowOld
<1>3. CASE SweepBegins
  <2>1. CASE SnapOf(Cleaner) = NoSnap
    BY <1>3, <2>1 DEF SweepBegins, NoSweep, DoomedIsOld
  <2>2. CASE SnapOf(Cleaner) # NoSnap
    <3> DEFINE vs == SnapOf(Cleaner).vms
    <3>1. /\ sw'.doomed = {v \in {u \in DOMAIN vs : IsManagedVM(vs[u])} : ShouldDeleteByStatus(vs[v], age[v])}
          /\ UNCHANGED <<vms, owner, age>>
      BY <1>3, <2>2 DEF SweepBegins
    <3>2. Past(vs, vms, owner)
      BY <2>2, ProcsAssumption DEF IInv, Views, PastSnap, SnapOf
    <3> HIDE DEF vs
    <3>3. ASSUME NEW v \in DOMAIN vs, ShouldDeleteByStatus(vs[v], age[v])
          PROVE  /\ v \in VMIds /\ owner[v] # None
                 /\ age[v] > 0 \/ v \notin DOMAIN vms \/ ~NotTerminal(vms[v])
      <4>1. v \in VMIds /\ owner[v] # None /\ age[v] \in Nat
        BY <3>2, NamesAssumption DEF Past, VM, IInv, Jobs
      <4> QED
        BY <3>2, <3>3, <4>1 DEF Past, ShouldDeleteByStatus
    <3> QED
      BY <3>1, <3>3 DEF DoomedIsOld
  <2> QED
    BY <2>1, <2>2
<1>4. sw' = NoSweep => sw'.doomed \subseteq sw.doomed
  BY DEF NoSweep
<1>5. ASSUME NEW v \in VMIds, KeepVM(v) \/ ReapVM(v) \/ ReapFails(v) PROVE sw'.doomed = sw.doomed
  <2>1. "doomed" \in DOMAIN sw /\ sw.doomed = sw["doomed"]
    BY DEF IInv, Sweeping, NoSweep
  <2>2. CASE Kept(v)
    BY <2>1, <2>2 DEF Kept
  <2>3. CASE sw' = [sw EXCEPT !.todo = @ \ {v}, !.deleted = TRUE, !.v = v]
    BY <2>1, <2>3
  <2> QED
    BY <1>5, <2>2, <2>3 DEF KeepVM, ReapVM, ReapFails
<1>6. ASSUME NEW s \in ScaleSets,
             \/ QuietListener(s) \/ CreateVM(s) \/ CreateFails(s) \/ DeleteVM(s) \/ DeleteVMFails(s)
      PROVE  UNCHANGED sw
  BY <1>6 DEF QuietListener, StartScaleSet, OpenSession, SessionRefused, GitHubFails, Hydrate, Adopt,
     HandleDesiredRunnerCount, ScaleUpSkipped, ScaleUpAcquires, Track, MarkForDeletion, ReleaseSlot,
     HandleJobCompleted, CreateVM, CreateFails, DeleteVM, DeleteVMFails
<1>7. CASE QuietSweep
  BY <1>2, <1>3, <1>5, <1>7 DEF QuietSweep, Tick, Cleaned, LoopEnds, ReconcileCapacity, PushMaxCapacity
<1>8. CASE QuietWorld
  BY <1>2, <1>4, <1>8 DEF QuietWorld, Restart, Expire, ViewStep, ListFails, AgeVM, PickUpJob, JobEnds,
     AssignJob, SessionExpires
<1>9. ASSUME NEW p \in Procs, ComputeShares(p) \/ PushShare(p) PROVE UNCHANGED sw
  BY <1>9, RecomputeEnds
<1>10. ASSUME NEW v \in VMIds, VMFails(v) \/ \E n \in WorkerNames : Schedule(v, n) PROVE UNCHANGED sw
  BY <1>10 DEF VMFails, Schedule
<1>11. ASSUME NEW n \in WorkerNames, WorkerGoes(n) \/ WorkerStaysAway(n) \/ WorkerReturns(n) \/ WorkerPauses(n)
       PROVE  UNCHANGED sw
  BY <1>11 DEF WorkerGoes, WorkerStaysAway, WorkerReturns, WorkerPauses
<1>12. CASE PruneOfflineWorkers
  BY <1>2, <1>4, <1>12 DEF PruneOfflineWorkers
<1> QED
  BY <1>2, <1>5, <1>6, <1>7, <1>8, <1>9, <1>10, <1>11, <1>12, StepKinds

\* The jobs of young VMs survive everything.  A VM leaves Orchard's table in a
\* delete of its listener, whose job was acknowledged, or of the sweep, which
\* acts on what it saw: what it saw is from the past, and old age and the end
\* of a VM are for ever.
THEOREM YoungJobsAreSafe == Spec => YoungJobsSurvive
<1> DEFINE Inv == IInv /\ AckedFirst /\ DoomedIsOld
<1>1. Init => Inv
  <2>1. Init => AckedFirst /\ DoomedIsOld
    BY ProcsAssumption DEF Init, AckedFirst, DoomedIsOld, NoSweep
  <2> QED
    BY <2>1, InitIInv
<1>2. Inv /\ [Next]_vars => Inv'
  BY NextIInv, NextAckedFirst, NextDoomedIsOld
<1>3. Inv /\ [Next]_vars =>
         [\A v \in DOMAIN vms :
             v \notin DOMAIN vms' /\ job[v] = "busy" => age[v] > 0 \/ ~NotTerminal(vms[v])]_vars
  <2> SUFFICES ASSUME Inv, [Next]_vars, NEW v \in DOMAIN vms, v \notin DOMAIN vms', job[v] = "busy"
               PROVE  age[v] > 0 \/ ~NotTerminal(vms[v])
    OBVIOUS
  <2>1. CASE UNCHANGED vms
    BY <2>1
  <2>2. ASSUME NEW u, Delivered(u) PROVE v = u
    BY <2>2 DEF Delivered, Drop, Only
  <2>3. ASSUME NEW s \in ScaleSets, CreateVM(s) \/ CreateFails(s) PROVE FALSE
    <3>1. PICK new : Created(s, new)
      BY <2>1, <2>3 DEF CreateVM, CreateFails
    <3> QED
      BY <3>1 DEF Created, With
  <2>4. ASSUME NEW s \in ScaleSets, DeleteVM(s) \/ DeleteVMFails(s) PROVE FALSE
    BY <2>2, <2>4 DEF DeleteVM, DeleteVMFails, AckedFirst
  <2>5. ASSUME NEW u \in VMIds, ReapVM(u) \/ ReapFails(u) PROVE age[v] > 0 \/ ~NotTerminal(vms[v])
    <3>1. Condemned(u) /\ Delivered(u)
      BY <2>1, <2>5 DEF ReapVM, ReapFails
    <3> QED
      BY <2>2, <3>1 DEF Condemned, AckedFirst, DoomedIsOld
  <2>6. ASSUME NEW u \in VMIds, VMFails(u) \/ \E n \in WorkerNames : Schedule(u, n) PROVE FALSE
    BY <2>6 DEF VMFails, Schedule
  <2>7. ASSUME \/ \E n \in WorkerNames :
                     WorkerGoes(n) \/ WorkerStaysAway(n) \/ WorkerReturns(n) \/ WorkerPauses(n)
               \/ PruneOfflineWorkers
        PROVE  UNCHANGED vms
    BY <2>7 DEF WorkerGoes, WorkerStaysAway, WorkerReturns, WorkerPauses, PruneOfflineWorkers
  <2> HIDE DEF Inv
  <2> QED
    BY <2>1, <2>3, <2>4, <2>5, <2>6, <2>7, StepKinds, QuietSteps
<1> QED
  BY <1>1, <1>2, <1>3, PTL DEF Spec, YoungJobsSurvive

----------------------------------------------------------------------------
\* What Observe remembers of a worker: a pin, a reason and the workers with the
\* same pin.
Remembered(x) == x = [pin |-> x.pin, reason |-> x.reason, sharedWith |-> x.sharedWith]

Reports ==
    /\ DOMAIN monitor = AutoSizeSets
    /\ \A s \in AutoSizeSets : \A n \in DOMAIN monitor[s].last : Remembered(monitor[s].last[n])

\* One observation: from a record whose log and series are those of `last', the
\* log and the series become those of the list that was observed.  Comparing an
\* exclusion by its three fields misses no change.
LEMMA ObserveIsExact ==
    ASSUME NEW m, NEW ws, NEW ss,
           \A n \in DOMAIN m.last : Remembered(m.last[n]),
           m.announced = m.last,
           m.excluded = {Series(n, m.last[n]) : n \in DOMAIN m.last}
    PROVE  LET o == Observe(m, ws, ss) IN
           /\ \A n \in DOMAIN o.last : Remembered(o.last[n])
           /\ o.announced = o.last
           /\ o.excluded = {Series(n, o.last[n]) : n \in DOMAIN o.last}
<1> DEFINE cur     == AutoSizeExclusions(ws, ss)
           prev    == m.last
           changed == {n \in DOMAIN cur : ~(n \in DOMAIN prev /\ SameExclusion(prev[n], cur[n]))}
           cleared == DOMAIN prev \ DOMAIN cur
           stale   == {Series(n, prev[n]) : n \in cleared \cup (changed \cap DOMAIN prev)}
           ex      == (m.excluded \ stale) \cup {Series(n, cur[n]) : n \in changed}
           ann     == [n \in (DOMAIN m.announced \ cleared) \cup changed |->
                          IF n \in changed THEN cur[n] ELSE m.announced[n]]
<1>1. /\ Observe(m, ws, ss).last = cur /\ Observe(m, ws, ss).announced = ann
      /\ Observe(m, ws, ss).excluded = ex
  BY DEF Observe
<1>2. \A n \in DOMAIN cur : Remembered(cur[n])
  BY DEF AutoSizeExclusions, Remembered
<1>3. cur = [n \in DOMAIN cur |-> cur[n]]
  BY DEF AutoSizeExclusions
<1> HIDE DEF cur
<1>4. \A n \in DOMAIN cur \ changed : n \in DOMAIN prev /\ prev[n] = cur[n]
  BY <1>2 DEF Remembered, SameExclusion
<1>5. ann = cur
  <2>1. (DOMAIN m.announced \ cleared) \cup changed = DOMAIN cur
    BY <1>4
  <2> QED
    BY <1>3, <1>4, <2>1
<1>6. ex = {Series(n, cur[n]) : n \in DOMAIN cur}
  <2>1. ASSUME NEW x \in ex PROVE x \in {Series(n, cur[n]) : n \in DOMAIN cur}
    <3>1. CASE x \in {Series(n, cur[n]) : n \in changed}
      BY <3>1
    <3>2. CASE x \in m.excluded /\ x \notin stale
      <4>1. PICK n \in DOMAIN prev : x = Series(n, prev[n])
        BY <3>2
      <4>2. n \in DOMAIN cur /\ n \notin changed
        BY <3>2, <4>1
      <4> QED
        BY <1>4, <4>1, <4>2
    <3> QED
      BY <3>1, <3>2
  <2>2. ASSUME NEW n \in DOMAIN cur PROVE Series(n, cur[n]) \in ex
    <3>1. CASE n \notin changed
      <4>1. Series(n, cur[n]) \in m.excluded
        BY <1>4, <3>1
      <4>2. \A k : Series(k, prev[k]) = Series(n, cur[n]) => k = n
        BY DEF Series
      <4>3. n \notin cleared
        OBVIOUS
      <4>4. Series(n, cur[n]) \notin stale
        BY <3>1, <4>2, <4>3, Zenon
      <4> QED
        BY <4>1, <4>4
    <3> QED
      BY <3>1
  <2> QED
    BY <2>1, <2>2
<1> QED
  BY <1>1, <1>2, <1>5, <1>6

\* The log and the gauges are those of the last sweep, for every fleet and over
\* any history of observations and restarts.
THEOREM ReportsStayCurrent == Spec => []ReportsAreCurrent
<1> DEFINE Inv == Reports /\ ReportsAreCurrent
<1>1. ASSUME monitor = NewEligibilityMonitor(AutoSizeSets) PROVE Inv
  BY <1>1 DEF NewEligibilityMonitor, Reports, ReportsAreCurrent
<1>2. ASSUME monitor' = NewEligibilityMonitor(AutoSizeSets) PROVE Inv'
  BY <1>2 DEF NewEligibilityMonitor, Reports, ReportsAreCurrent
<1>3. Inv /\ UNCHANGED monitor => Inv'
  BY DEF Reports, ReportsAreCurrent
<1>4. ASSUME Inv, PruneOfflineWorkers PROVE Inv'
  <2>1. DOMAIN monitor' = AutoSizeSets
        /\ \A s \in AutoSizeSets : monitor'[s] = Observe(monitor[s], sw.live, Settings[s])
    BY <1>4 DEF PruneOfflineWorkers, ObserveAll, Reports
  <2>2. ASSUME NEW s \in AutoSizeSets, NEW o, o = Observe(monitor[s], sw.live, Settings[s])
        PROVE  /\ \A n \in DOMAIN o.last : Remembered(o.last[n])
               /\ o.announced = o.last
               /\ o.excluded = {Series(n, o.last[n]) : n \in DOMAIN o.last}
    BY <1>4, <2>2, ObserveIsExact DEF Reports, ReportsAreCurrent
  <2>3. ASSUME NEW s \in AutoSizeSets
        PROVE  /\ \A n \in DOMAIN monitor'[s].last : Remembered(monitor'[s].last[n])
               /\ monitor'[s].announced = monitor'[s].last
               /\ monitor'[s].excluded = {Series(n, monitor'[s].last[n]) : n \in DOMAIN monitor'[s].last}
    BY <2>1, <2>2, Zenon
  <2>4. Reports'
    BY <2>1, <2>3 DEF Reports
  <2>5. ReportsAreCurrent'
    BY <2>3 DEF ReportsAreCurrent
  <2> QED
    BY <2>4, <2>5
<1>5. Inv /\ [Next]_vars => Inv'
  <2> SUFFICES ASSUME Inv, [Next]_vars PROVE Inv'
    OBVIOUS
  <2> HIDE DEF Inv
  <2>1. ASSUME NEW s \in ScaleSets,
               \/ QuietListener(s) \/ CreateVM(s) \/ CreateFails(s) \/ DeleteVM(s) \/ DeleteVMFails(s)
        PROVE  UNCHANGED monitor
    BY <2>1 DEF QuietListener, StartScaleSet, OpenSession, SessionRefused, GitHubFails, Hydrate, Adopt,
       HandleDesiredRunnerCount, ScaleUpSkipped, ScaleUpAcquires, Track, MarkForDeletion, ReleaseSlot,
       HandleJobCompleted, CreateVM, CreateFails, DeleteVM, DeleteVMFails
  <2>2. CASE QuietSweep
    BY <1>3, <2>2 DEF QuietSweep, Tick, SweepBegins, KeepVM, Cleaned, LoopEnds, ReconcileCapacity, PushMaxCapacity
  <2>3. CASE QuietWorld
    BY <1>2, <1>3, <2>3 DEF QuietWorld, Restart, Expire, ViewStep, ListFails, AgeVM, PickUpJob, JobEnds,
       AssignJob, SessionExpires
  <2>4. ASSUME NEW p \in Procs, ComputeShares(p) \/ PushShare(p) PROVE UNCHANGED monitor
    BY <2>4, RecomputeEnds
  <2>5. ASSUME NEW v \in VMIds,
               ReapVM(v) \/ ReapFails(v) \/ VMFails(v) \/ \E n \in WorkerNames : Schedule(v, n)
        PROVE  UNCHANGED monitor
    BY <2>5 DEF ReapVM, ReapFails, VMFails, Schedule
  <2>6. ASSUME NEW n \in WorkerNames, WorkerGoes(n) \/ WorkerStaysAway(n) \/ WorkerReturns(n) \/ WorkerPauses(n)
        PROVE  UNCHANGED monitor
    BY <2>6 DEF WorkerGoes, WorkerStaysAway, WorkerReturns, WorkerPauses
  <2> QED
    BY <1>3, <1>4, <2>1, <2>2, <2>3, <2>4, <2>5, <2>6, StepKinds
<1>6. Init => Inv
  BY <1>1 DEF Init
<1> QED
  BY <1>5, <1>6, PTL DEF Spec
============================================================================
