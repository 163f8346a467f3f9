----------------------------- MODULE SlotProofs -----------------------------
(***************************************************************************)
(* The slots of the semaphore between two sweeps, for any scale sets, any  *)
(* fleet, any number of VMs and jobs, and every failure and restart: the   *)
(* count is exact, bridges and semaphore implement a pool of slots, and    *)
(* while one process lives the fleet is not asked for more VMs than it has *)
(* slots.                                                                  *)
(***************************************************************************)
EXTENDS ManagerProofs

USE DEF vars, viewVars, cacheVars, callVars, memVars, reported, runVars, worldVars, outsideView

\* What s tracks is its own, is counted once, and is found by hydration before
\* anything else: a VM is tracked, at hand or pending, never two of these.
OwnedBy(s) ==
    /\ \A v \in active[s] : owner[v] = s /\ v \notin pendingDeletes
    /\ pc[s] \in {"track", "delete", "mark", "release"} =>
          owner[req[s].v] = s /\ req[s].v \notin active[s] \cup pendingDeletes
    /\ pc[s] \in {"create", "track"} => req[s].left > 0
    /\ pc[s] \in {"start", "session", "hydrate"} => active[s] = {}
    /\ pc[s] = "adopt" => req[s].left = Cardinality(active[s])
    /\ pc[s] \in {"start", "session", "hydrate", "adopt"} => \A v \in pendingDeletes : owner[v] # s

Owned ==
    /\ pc[Cleaner] = "idle"
    /\ \A v \in pendingDeletes : owner[v] # None
    /\ \A s \in ScaleSets : OwnedBy(s)

\* A step of a listener.
Listener(s) ==
    QuietListener(s) \/ CreateVM(s) \/ CreateFails(s) \/ DeleteVM(s) \/ DeleteVMFails(s)
    \/ ComputeShares(s) \/ PushShare(s)

\* A step that leaves alone all that slots depend on.
Elsewhere ==
    /\ UNCHANGED <<capacity, active, pendingDeletes, pc, req, owner>>
    /\ UNCHANGED session \/ \E s \in ScaleSets : session[s] = "kept"

\* Without the sweep, a step is a restart, one of a listener, or none of the pool's business.
LEMMA SlotSteps ==
    ASSUME Sweeps = FALSE, Owned, [Next]_vars
    PROVE  Restart \/ Elsewhere \/ \E s \in ScaleSets : Listener(s)
<1> USE DEF Elsewhere
<1>1. CASE QuietSweep
  BY <1>1 DEF Owned, QuietSweep, Tick, SweepBegins, KeepVM, Cleaned, LoopEnds, ReconcileCapacity, PushMaxCapacity
<1>2. CASE QuietWorld
  BY <1>2 DEF QuietWorld, Expire, ViewStep, ListFails, AgeVM, PickUpJob, JobEnds, AssignJob, SessionExpires
<1>3. ASSUME NEW p \in Procs, ComputeShares(p) \/ PushShare(p) PROVE \E s \in ScaleSets : Listener(s)
  <2>1. p # Cleaner
    BY <1>3, RecomputeEnds DEF Owned
  <2> QED
    BY <1>3, <2>1, ProcsAssumption DEF Listener
<1>4. ASSUME NEW v \in VMIds,
             ReapVM(v) \/ ReapFails(v) \/ VMFails(v) \/ \E n \in WorkerNames : Schedule(v, n)
      PROVE  Elsewhere
  BY <1>4 DEF Owned, ReapVM, ReapFails, VMFails, Schedule
<1>5. ASSUME NEW n \in WorkerNames, WorkerGoes(n) \/ WorkerStaysAway(n) \/ WorkerReturns(n) \/ WorkerPauses(n)
      PROVE  Elsewhere
  BY <1>5 DEF WorkerGoes, WorkerStaysAway, WorkerReturns, WorkerPauses
<1>6. ~PruneOfflineWorkers
  BY DEF Owned, PruneOfflineWorkers
<1> QED
  BY <1>1, <1>2, <1>3, <1>4, <1>5, <1>6, StepKinds DEF Listener

\* A listener touches the state of its own scale set, and hands over its VM.
LEMMA ListenerFrame ==
    ASSUME IInv, NEW s \in ScaleSets, Listener(s)
    PROVE  /\ \A t \in ScaleSets \ {s} : pc'[t] = pc[t] /\ req'[t] = req[t] /\ active'[t] = active[t]
           /\ pc'[Cleaner] = pc[Cleaner]
           /\ UNCHANGED pendingDeletes \/ MarkForDeletion(s)
           /\ capacity'.max = capacity.max
<1> USE ProcsAssumption DEF IInv, Control, Request, Counts, Goto, CallGet
<1>1. CASE \/ StartScaleSet(s) \/ OpenSession(s) \/ SessionRefused(s) \/ GitHubFails(s)
           \/ Hydrate(s) \/ Adopt(s) \/ HandleDesiredRunnerCount(s) \/ ScaleUpSkipped(s)
  BY <1>1 DEF StartScaleSet, OpenSession, SessionRefused, GitHubFails, Hydrate, Adopt,
     HandleDesiredRunnerCount, ScaleUpSkipped, AdoptExisting
<1>2. CASE \/ ScaleUpAcquires(s) \/ Track(s) \/ MarkForDeletion(s) \/ ReleaseSlot(s)
           \/ \E v \in VMIds : HandleJobCompleted(s, v)
  BY <1>2 DEF ScaleUpAcquires, Track, MarkForDeletion, ReleaseSlot, HandleJobCompleted, TryAcquire, Release
<1>3. CASE CreateVM(s) \/ CreateFails(s) \/ DeleteVM(s) \/ DeleteVMFails(s)
  BY <1>3 DEF CreateVM, CreateFails, DeleteVM, DeleteVMFails, Release
<1>4. CASE ComputeShares(s) \/ PushShare(s)
  BY <1>4, RecomputeEnds
<1> QED
  BY <1>1, <1>2, <1>3, <1>4 DEF Listener, QuietListener

\* So the others keep what they own.
LEMMA OthersOwn ==
    ASSUME IInv, Owned, VMsGrowOld, NEW s \in ScaleSets, Listener(s)
    PROVE  /\ \A t \in ScaleSets \ {s} : OwnedBy(t)'
           /\ pc'[Cleaner] = "idle"
           /\ \A v \in pendingDeletes' : owner'[v] # None
<1>1. /\ \A t \in ScaleSets \ {s} : pc'[t] = pc[t] /\ req'[t] = req[t] /\ active'[t] = active[t]
      /\ pc'[Cleaner] = pc[Cleaner]
      /\ UNCHANGED pendingDeletes \/ MarkForDeletion(s)
  BY ListenerFrame
<1>2. \A v \in VMIds : owner[v] # None => owner'[v] = owner[v]
  BY DEF VMsGrowOld
<1>3. /\ pendingDeletes \subseteq VMIds
      /\ \A t \in ScaleSets :
            /\ active[t] \subseteq VMIds /\ t # None
            /\ pc[t] \in {"track", "delete", "mark", "release"} => req[t].v \in VMIds
  BY NamesAssumption DEF IInv, Control
<1>4. MarkForDeletion(s) => /\ pendingDeletes' = pendingDeletes \cup {req[s].v}
                            /\ owner[req[s].v] = s /\ req[s].v \in VMIds
  BY <1>3 DEF MarkForDeletion, Owned, OwnedBy
<1>5. /\ \A v \in pendingDeletes' : v \in VMIds /\ owner[v] # None
      /\ \A v \in pendingDeletes' : v \in pendingDeletes \/ owner[v] = s
  BY <1>1, <1>3, <1>4 DEF Owned
<1>6. ASSUME NEW t \in ScaleSets \ {s} PROVE OwnedBy(t)'
  <2>1. OwnedBy(t)
    BY DEF Owned
  <2> QED
    BY <1>1, <1>2, <1>3, <1>5, <2>1 DEF OwnedBy
<1> QED
  BY <1>1, <1>2, <1>5, <1>6 DEF Owned

----------------------------------------------------------------------------
\* The listener of s has not adopted yet what hydration finds.
Before(s) == pc[s] \in {"start", "session", "hydrate", "adopt"}

\* What a step of the listener of s may do to the slots.
Keeps(s) ==
    /\ capacity' = capacity /\ UNCHANGED pendingDeletes
    /\ Held(s)' = Held(s) /\ (Before(s) <=> Before(s)')

Joins(s) ==
    /\ Before(s) /\ ~Before(s)' /\ Held(s) = 0 /\ UNCHANGED pendingDeletes
    /\ capacity'.current = capacity.current + Held(s)'

Takes(s) ==
    /\ ~Before(s) /\ ~Before(s)' /\ UNCHANGED pendingDeletes
    /\ \E k \in 1..Available(capacity) :
          capacity'.current = capacity.current + k /\ Held(s)' = Held(s) + k

Gives(s) ==
    /\ ~Before(s) /\ ~Before(s)' /\ UNCHANGED pendingDeletes
    /\ \E k \in 1..Held(s) : capacity' = Release(capacity, k) /\ Held(s)' = Held(s) - k

Abandons(s) ==
    /\ ~Before(s) /\ ~Before(s)' /\ capacity' = capacity
    /\ Held(s) > 0 /\ Held(s)' = Held(s) - 1
    /\ Cardinality(pendingDeletes') = Cardinality(pendingDeletes) + 1

Moves(s) == Keeps(s) \/ Joins(s) \/ Takes(s) \/ Gives(s) \/ Abandons(s)

\* What a scale set holds can be counted.
LEMMA HeldNat ==
    ASSUME IInv
    PROVE  /\ \A s \in ScaleSets : Held(s) \in Nat /\ IsFiniteSet(active[s]) /\ Cardinality(active[s]) \in Nat
           /\ IsFiniteSet(pendingDeletes) /\ Cardinality(pendingDeletes) \in Nat
<1>1. /\ pendingDeletes \in SUBSET VMIds
      /\ \A s \in ScaleSets : active[s] \in SUBSET VMIds /\ req[s].left \in Nat
  BY DEF IInv, Control, Request
<1>2. /\ IsFiniteSet(pendingDeletes) /\ Cardinality(pendingDeletes) \in Nat
      /\ \A s \in ScaleSets : IsFiniteSet(active[s]) /\ Cardinality(active[s]) \in Nat
  BY <1>1, NamesAssumption, SubsetNat
<1> QED
  BY <1>1, <1>2 DEF Held

\* Nothing is held before.
LEMMA HeldBefore ==
    ASSUME Owned, NEW s \in ScaleSets, Before(s)
    PROVE  Held(s) = 0
<1>1. Cardinality({}) = 0
  BY FS_EmptySet
<1>2. pc[s] # "adopt" => active[s] = {}
  BY DEF Owned, OwnedBy, Before
<1> QED
  BY <1>1, <1>2 DEF Held, Before

\* Before a listener has joined: its session, hydration and AdoptExisting.
LEMMA JoiningSlots ==
    ASSUME IInv, Owned, NEW s \in ScaleSets,
           \/ StartScaleSet(s) \/ OpenSession(s) \/ SessionRefused(s) \/ GitHubFails(s)
           \/ Hydrate(s) \/ Adopt(s)
    PROVE  OwnedBy(s)' /\ Moves(s)
<1> USE ProcsAssumption DEF IInv, Control, Request, NoReq, Goto, CallGet, OwnedBy, Before, Held, Moves
<1>0. OwnedBy(s)
  BY DEF Owned
<1>1. CASE StartScaleSet(s)
  BY <1>0, <1>1 DEF StartScaleSet, Keeps
<1>2. CASE OpenSession(s)
  BY <1>0, <1>2 DEF OpenSession, Keeps
<1>3. CASE SessionRefused(s) \/ GitHubFails(s)
  <2>1. /\ UNCHANGED <<capacity, active, pendingDeletes, owner>>
        /\ pc' = pc \/ pc' = [pc EXCEPT ![s] = "dead"]
        /\ pc[s] \in {"start", "session", "listen"}
    BY <1>3 DEF SessionRefused, GitHubFails
  <2>2. OwnedBy(s)'
    BY <1>0, <2>1
  <2>3. Held(s)' = Held(s) /\ (pc[s] # "listen" => Held(s) = 0)
    BY <2>1, HeldBefore
  <2>4. Keeps(s) \/ Joins(s)
    <3>1. capacity.current \in Nat
      BY DEF Counts
    <3> HIDE DEF Held
    <3> QED
      BY <2>1, <2>3, <3>1 DEF Keeps, Joins
  <2> QED
    BY <2>2, <2>4
<1>4. CASE Hydrate(s)
  <2> DEFINE own == IF SnapOf(s) = NoSnap THEN {} ELSE OwnActive(SnapOf(s).vms, s)
  <2>1. \A v \in own : v \in VMIds /\ owner[v] = s
    <3>1. CASE SnapOf(s) # NoSnap
      <4>1. Past(SnapOf(s).vms, vms, owner)
        BY <3>1 DEF Views, PastSnap, SnapOf
      <4> QED
        BY <3>1, <4>1 DEF OwnActive, Past
    <3> QED
      BY <3>1
  <2>2. /\ active' = [active EXCEPT ![s] = @ \cup own]
        /\ req' = [req EXCEPT ![s].left = Cardinality(own)]
        /\ pc' = [pc EXCEPT ![s] = "adopt"] /\ pc[s] = "hydrate"
        /\ UNCHANGED <<capacity, pendingDeletes, owner>>
    BY <1>4 DEF Hydrate
  <2> HIDE DEF own
  <2>3. active'[s] = own /\ req'[s].left = Cardinality(own) /\ pc'[s] = "adopt"
    BY <1>0, <2>2
  <2>4. OwnedBy(s)'
    BY <1>0, <2>1, <2>2, <2>3
  <2>5. Held(s) = 0
    BY <2>2, HeldBefore
  <2> QED
    BY <2>2, <2>3, <2>4, <2>5 DEF Keeps
<1>5. CASE Adopt(s)
  <2>1. /\ pc[s] = "adopt" /\ pc' = [pc EXCEPT ![s] = "firstShare"]
        /\ req[s].left = Cardinality(active[s])
        /\ capacity' = AdoptExisting(capacity, req[s].left)
        /\ UNCHANGED <<active, pendingDeletes, owner>>
    BY <1>0, <1>5 DEF Adopt
  <2>2. OwnedBy(s)'
    BY <1>0, <2>1
  <2>3. Held(s) = 0 /\ Held(s)' = Cardinality(active[s])
    BY <2>1, HeldNat
  <2> QED
    BY <2>1, <2>2, <2>3 DEF AdoptExisting, Joins, Counts
<1> QED
  BY <1>1, <1>2, <1>3, <1>4, <1>5

\* A VM is created under a name that nobody tracks.
LEMMA FreshName ==
    ASSUME IInv, Owned, NEW s \in ScaleSets, \E v \in VMIds : owner[v] = None,
           NEW new \in NewVMs(s), Created(s, new)
    PROVE  /\ new.v \in VMIds /\ owner'[new.v] = s
           /\ \A t \in ScaleSets : new.v \notin active[t] \cup pendingDeletes
           /\ \A v \in VMIds \ {new.v} : owner'[v] = owner[v]
<1>1. new.v \in VMIds /\ owner[new.v] = None
  BY DEF NewVMs
<1>2. owner' = [owner EXCEPT ![new.v] = s] /\ DOMAIN owner = VMIds
  BY DEF Created, IInv, Tables
<1>3. \A t \in ScaleSets : t # None
  BY NamesAssumption
<1> QED
  BY <1>1, <1>2, <1>3 DEF Owned, OwnedBy

\* One element more or less.
LEMMA OneMore ==
    ASSUME NEW S, IsFiniteSet(S), NEW x
    PROVE  /\ x \notin S => Cardinality(S \cup {x}) = Cardinality(S) + 1
           /\ x \in S => Cardinality(S \ {x}) = Cardinality(S) - 1
  BY FS_AddElement, FS_RemoveElement

\* TryAcquire takes at least one slot, and no more than are free.
LEMMA TakenSlots ==
    ASSUME IInv, NEW s \in ScaleSets, ScaleUpAcquires(s)
    PROVE  /\ Acquirable(s) \in Nat /\ Acquirable(s) \in 1..Available(capacity)
           /\ capacity'.current = capacity.current + Acquirable(s)
<1>1. Acquirable(s) > 0 /\ capacity' = TryAcquire(capacity, Min({req[s].left, FreeSlots(s)}))
  BY DEF ScaleUpAcquires
<1>2. Acquirable(s) # 0
  BY <1>1
<1>3. /\ Acquirable(s) = Granted(capacity, Min({req[s].left, FreeSlots(s)}))
      /\ Acquirable(s) \in Nat /\ Acquirable(s) <= Available(capacity)
  BY <1>2, AcquiredIsFree DEF IInv
<1>4. Available(capacity) \in Int
  BY DEF Available, Counts, IInv
<1>5. capacity'.current = capacity.current + Acquirable(s)
  BY <1>1, <1>3 DEF TryAcquire, Counts, IInv
<1> QED
  BY <1>1, <1>3, <1>4, <1>5

\* Scaling up: TryAcquire, then one VM after the other, or the release of the rest.
LEMMA ScaleUpSlots ==
    ASSUME IInv, Owned, NEW s \in ScaleSets,
           \/ HandleDesiredRunnerCount(s) \/ ScaleUpSkipped(s) \/ ScaleUpAcquires(s)
           \/ CreateVM(s) \/ CreateFails(s) \/ Track(s)
    PROVE  OwnedBy(s)' /\ Moves(s)
<1> USE ProcsAssumption DEF IInv, Control, Request, NoReq, Goto, CallGet, OwnedBy, Before, Held, Moves
<1>0. OwnedBy(s) /\ Cardinality(active[s]) \in Nat /\ IsFiniteSet(active[s]) /\ IsFiniteSet(pendingDeletes)
  BY HeldNat DEF Owned
<1>1. CASE HandleDesiredRunnerCount(s) \/ ScaleUpSkipped(s)
  BY <1>0, <1>1 DEF HandleDesiredRunnerCount, ScaleUpSkipped, Keeps
<1>2. CASE ScaleUpAcquires(s)
  <2>1. /\ Acquirable(s) \in Nat /\ Acquirable(s) \in 1..Available(capacity)
        /\ capacity'.current = capacity.current + Acquirable(s)
    BY <1>2, TakenSlots
  <2>2. /\ pc[s] = "scale" /\ pc'[s] = "create" /\ req'[s].left = Acquirable(s)
        /\ UNCHANGED <<active, pendingDeletes, owner>>
    BY <1>2 DEF ScaleUpAcquires
  <2>3. Held(s)' = Held(s) + Acquirable(s) /\ OwnedBy(s)'
    BY <1>0, <2>1, <2>2
  <2> HIDE DEF Held
  <2> QED
    BY <2>1, <2>2, <2>3 DEF Takes
<1>3. CASE CreateVM(s)
  <2>1. PICK new \in NewVMs(s) :
           Created(s, new) /\ req' = [req EXCEPT ![s].v = new.v, ![s].pins = @ \ {new.pin}]
    BY <1>3 DEF CreateVM
  <2>2. /\ owner'[new.v] = s /\ new.v \notin active[s] \cup pendingDeletes
        /\ \A v \in VMIds \ {new.v} : owner'[v] = owner[v]
    BY <1>3, <2>1, FreshName DEF CreateVM
  <2>3. req'[s].v = new.v /\ req'[s].left = req[s].left
    <3>1. req[s] \in Request /\ DOMAIN req = ScaleSets
      OBVIOUS
    <3>2. req'[s] = [[req[s] EXCEPT !.v = new.v] EXCEPT !.pins = @ \ {new.pin}]
      BY <2>1, <3>1
    <3> QED
      BY <3>1, <3>2
  <2>4. /\ pc[s] = "create" /\ pc'[s] = "track"
        /\ UNCHANGED <<active, pendingDeletes, capacity>>
    BY <1>3 DEF CreateVM
  <2>5. \A v \in active[s] : owner'[v] = owner[v]
    BY <2>2
  <2>6. OwnedBy(s)'
    BY <1>0, <2>2, <2>3, <2>4, <2>5
  <2>7. Held(s)' = Held(s)
    BY <2>3, <2>4
  <2> QED
    BY <2>4, <2>6, <2>7 DEF Keeps
<1>4. CASE CreateFails(s)
  <2>1. /\ pc[s] = "create" /\ pc'[s] = "failedShare" /\ capacity' = Release(capacity, req[s].left)
        /\ UNCHANGED <<active, pendingDeletes>>
    BY <1>4 DEF CreateFails
  <2>2. \A v \in active[s] : owner'[v] = owner[v]
    <3>1. CASE UNCHANGED owner
      BY <3>1
    <3>2. CASE \E new \in NewVMs(s) : Created(s, new)
      <4>1. PICK new \in NewVMs(s) : Created(s, new)
        BY <3>2
      <4>2. new.v \notin active[s] /\ \A v \in VMIds \ {new.v} : owner'[v] = owner[v]
        BY <1>4, <4>1, FreshName DEF CreateFails
      <4> QED
        BY <4>2
    <3> QED
      BY <1>4, <3>1, <3>2 DEF CreateFails
  <2>3. OwnedBy(s)'
    BY <1>0, <2>1, <2>2
  <2>4. /\ req[s].left \in Nat /\ req[s].left > 0
        /\ Held(s) = Cardinality(active[s]) + req[s].left /\ Held(s)' = Cardinality(active[s])
    BY <1>0, <2>1
  <2>5. req[s].left \in 1..Held(s) /\ Held(s)' = Held(s) - req[s].left
    BY <1>0, <2>4
  <2> HIDE DEF Held
  <2> QED
    BY <2>1, <2>3, <2>5 DEF Gives
<1>5. CASE Track(s)
  <2>1. /\ pc[s] = "track" /\ req[s].left \in Nat /\ req[s].left > 0
        /\ active'[s] = active[s] \cup {req[s].v} /\ req[s].v \notin active[s] \cup pendingDeletes
        /\ owner[req[s].v] = s
        /\ UNCHANGED <<pendingDeletes, capacity, owner>>
    BY <1>0, <1>5 DEF Track
  <2>2. \/ req[s].left > 1 /\ pc'[s] = "create" /\ req'[s].left = req[s].left - 1
        \/ req[s].left = 1 /\ pc'[s] = "share"
    BY <1>5, <2>1 DEF Track
  <2>3. Cardinality(active'[s]) = Cardinality(active[s]) + 1
    BY <1>0, <2>1, OneMore
  <2>4. Held(s)' = Held(s)
    BY <1>0, <2>1, <2>2, <2>3
  <2>5. OwnedBy(s)'
    BY <1>0, <2>1, <2>2
  <2> QED
    BY <2>1, <2>2, <2>4, <2>5 DEF Keeps
<1> QED
  BY <1>1, <1>2, <1>3, <1>4, <1>5

\* The end of a job: delete the VM, and release its slot or leave it pending.
LEMMA CompletionSlots ==
    ASSUME IInv, Owned, NEW s \in ScaleSets,
           \/ \E v \in VMIds : HandleJobCompleted(s, v)
           \/ DeleteVM(s) \/ DeleteVMFails(s) \/ MarkForDeletion(s) \/ ReleaseSlot(s)
    PROVE  OwnedBy(s)' /\ Moves(s)
<1> USE ProcsAssumption DEF IInv, Control, Request, NoReq, Goto, CallGet, OwnedBy, Before, Held, Moves
<1>0. OwnedBy(s) /\ Cardinality(active[s]) \in Nat /\ IsFiniteSet(active[s]) /\ IsFiniteSet(pendingDeletes)
  BY HeldNat DEF Owned
<1>1. ASSUME NEW v \in VMIds, HandleJobCompleted(s, v) PROVE OwnedBy(s)' /\ Moves(s)
  <2>1. /\ pc[s] = "listen" /\ owner[v] = s /\ active'[s] = active[s] \ {v}
        /\ UNCHANGED <<pendingDeletes, capacity, owner>>
    BY <1>1 DEF HandleJobCompleted
  <2>2. CASE v \in active[s]
    <3>1. pc'[s] = "delete" /\ req'[s].v = v
      BY <1>1, <2>2 DEF HandleJobCompleted
    <3>2. Cardinality(active'[s]) = Cardinality(active[s]) - 1
      BY <1>0, <2>1, <2>2, OneMore
    <3>3. OwnedBy(s)'
      BY <1>0, <2>1, <2>2, <3>1
    <3>4. Held(s)' = Held(s)
      BY <1>0, <2>1, <3>1, <3>2
    <3> QED
      BY <2>1, <3>1, <3>3, <3>4 DEF Keeps
  <2>3. CASE v \notin active[s]
    <3>1. UNCHANGED <<req, pc>> /\ active'[s] = active[s]
      BY <1>1, <2>1, <2>3 DEF HandleJobCompleted
    <3> QED
      BY <1>0, <2>1, <3>1 DEF Keeps
  <2> QED
    BY <2>2, <2>3
<1>2. CASE DeleteVM(s) \/ DeleteVMFails(s)
  BY <1>0, <1>2 DEF DeleteVM, DeleteVMFails, Keeps
<1>3. CASE MarkForDeletion(s)
  <2>1. /\ pc[s] = "mark" /\ pc'[s] = "listen" /\ pendingDeletes' = pendingDeletes \cup {req[s].v}
        /\ req[s].v \notin active[s] \cup pendingDeletes
        /\ UNCHANGED <<active, capacity, owner>>
    BY <1>0, <1>3 DEF MarkForDeletion
  <2>2. Cardinality(pendingDeletes') = Cardinality(pendingDeletes) + 1
    BY <1>0, <2>1, OneMore
  <2>3. OwnedBy(s)'
    BY <1>0, <2>1
  <2>4. Held(s) = Cardinality(active[s]) + 1 /\ Held(s)' = Cardinality(active[s])
    BY <1>0, <2>1
  <2> QED
    BY <1>0, <2>1, <2>2, <2>3, <2>4 DEF Abandons
<1>4. CASE ReleaseSlot(s)
  <2>1. /\ pc[s] = "release" /\ pc'[s] = "share" /\ capacity' = Release(capacity, 1)
        /\ UNCHANGED <<active, pendingDeletes, owner>>
    BY <1>4 DEF ReleaseSlot
  <2>2. OwnedBy(s)'
    BY <1>0, <2>1
  <2>3. Held(s) = Cardinality(active[s]) + 1 /\ Held(s)' = Cardinality(active[s])
    BY <1>0, <2>1
  <2>4. 1 \in 1..Held(s) /\ Held(s)' = Held(s) - 1
    BY <1>0, <2>3
  <2> HIDE DEF Held
  <2> QED
    BY <2>1, <2>2, <2>4 DEF Gives
<1> QED
  BY <1>1, <1>2, <1>3, <1>4

\* Any step of a listener.
LEMMA ListenerSlots ==
    ASSUME IInv, Owned, NEW s \in ScaleSets, Listener(s)
    PROVE  OwnedBy(s)' /\ Moves(s)
<1>1. CASE ComputeShares(s) \/ PushShare(s)
  <2>1. OwnedBy(s)
    BY DEF Owned
  <2>2. /\ pc[s] \in {"firstShare", "share", "failedShare", "cleanedShare", "maxShare"}
        /\ pc'[s] = pc[s] \/ pc'[s] \in {"listen", "dead", "loop", "prune"}
        /\ UNCHANGED <<capacity, active, pendingDeletes, req, owner>>
    BY <1>1, RecomputeEnds, ProcsAssumption DEF IInv, Control
  <2> QED
    BY <2>1, <2>2 DEF OwnedBy, Moves, Keeps, Held, Before
<1> QED
  BY <1>1, JoiningSlots, ScaleUpSlots, CompletionSlots DEF Listener, QuietListener

----------------------------------------------------------------------------
SlotInv == IInv /\ Owned /\ SlotsAccounted

\* The others hold what they held, so the sum follows s; and the semaphore
\* shows at least what s holds, so Release is never floored.
LEMMA SumOfHeld ==
    ASSUME SlotInv, IInv', NEW s \in ScaleSets, Listener(s)
    PROVE  /\ \A t \in ScaleSets \ {s} : Held(t)' = Held(t) /\ (Before(t)' <=> Before(t))
           /\ SumOver(ScaleSets, [t \in ScaleSets |-> Held(t)])'
                 = SumOver(ScaleSets, [t \in ScaleSets |-> Held(t)]) - Held(s) + Held(s)'
           /\ SumOver(ScaleSets, [t \in ScaleSets |-> Held(t)]) \in Nat
           /\ Held(s) <= capacity.current /\ Held(s)' \in Nat
<1> DEFINE f == [t \in ScaleSets |-> Held(t)]
           g == [t \in ScaleSets |-> Held(t)']
<1>1. \A t \in ScaleSets \ {s} : Held(t)' = Held(t) /\ (Before(t)' <=> Before(t))
  BY ListenerFrame DEF SlotInv, Held, Before
<1>2. \A t \in ScaleSets : f[t] \in Nat
  BY HeldNat DEF SlotInv
<1>3. \A t \in ScaleSets : g[t] \in Nat
  <2>1. \A t \in ScaleSets : active'[t] \in SUBSET VMIds /\ req'[t].left \in Nat
    BY DEF IInv, Control, Request
  <2>2. \A t \in ScaleSets : Cardinality(active'[t]) \in Nat
    BY <2>1, NamesAssumption, SubsetNat
  <2> QED
    BY <2>1, <2>2 DEF Held
<1>4. \A t \in ScaleSets \ {s} : g[t] = f[t]
  BY <1>1
<1>5. f[s] = Held(s) /\ g[s] = Held(s)'
  OBVIOUS
<1>6. SumOver(ScaleSets, g) = SumOver(ScaleSets, [t \in ScaleSets |-> Held(t)])'
  OBVIOUS
<1> HIDE DEF f, g
<1>7. /\ SumOver(ScaleSets, g) = SumOver(ScaleSets, f) - f[s] + g[s]
      /\ f[s] <= SumOver(ScaleSets, f) /\ SumOver(ScaleSets, f) \in Nat
  BY <1>2, <1>3, <1>4, NamesAssumption, SumUpdate
<1>8. capacity.current = SumOver(ScaleSets, f) + Cardinality(pendingDeletes)
  BY DEF SlotInv, SlotsAccounted, f
<1>9. Cardinality(pendingDeletes) \in Nat
  BY HeldNat DEF SlotInv
<1>10. Held(s) <= capacity.current
  BY <1>2, <1>5, <1>7, <1>8, <1>9
<1>11. Held(s)' \in Nat
  BY <1>3, <1>5
<1> QED
  BY <1>1, <1>5, <1>6, <1>7, <1>10, <1>11 DEF f

\* A listener's step keeps the count exact.
LEMMA ListenerCounts ==
    ASSUME SlotInv, IInv', NEW s \in ScaleSets, Listener(s), Moves(s)
    PROVE  SlotsAccounted'
<1> DEFINE total == SumOver(ScaleSets, [t \in ScaleSets |-> Held(t)])
<1>1. /\ total' = total - Held(s) + Held(s)' /\ total \in Nat
      /\ Held(s) <= capacity.current /\ Held(s)' \in Nat
  BY SumOfHeld
<1>2. capacity.current = total + Cardinality(pendingDeletes)
  BY DEF SlotInv, SlotsAccounted
<1>3. Held(s) \in Nat /\ Cardinality(pendingDeletes) \in Nat
  BY HeldNat DEF SlotInv
<1>4. capacity \in [current : Nat, max : Nat]
  BY DEF SlotInv, IInv, Counts
<1>5. SlotsAccounted' <=> capacity'.current = total' + Cardinality(pendingDeletes')
  BY DEF SlotsAccounted
<1> HIDE DEF total
<1>6. CASE Keeps(s)
  BY <1>1, <1>2, <1>3, <1>5, <1>6 DEF Keeps
<1>7. CASE Joins(s)
  BY <1>1, <1>2, <1>3, <1>5, <1>7 DEF Joins
<1>8. CASE Takes(s)
  BY <1>1, <1>2, <1>3, <1>4, <1>5, <1>8 DEF Takes, Available
<1>9. CASE Gives(s)
  <2>1. PICK k \in 1..Held(s) : capacity' = Release(capacity, k) /\ Held(s)' = Held(s) - k
    BY <1>9 DEF Gives
  <2>2. capacity'.current = capacity.current - k
    BY <1>1, <1>3, <1>4, <2>1 DEF Release
  <2> QED
    BY <1>1, <1>2, <1>3, <1>5, <1>9, <2>1, <2>2 DEF Gives
<1>10. CASE Abandons(s)
  BY <1>1, <1>2, <1>3, <1>5, <1>10 DEF Abandons
<1> QED
  BY <1>6, <1>7, <1>8, <1>9, <1>10 DEF Moves

----------------------------------------------------------------------------
\* A process starts with an exact count: nothing is held.
LEMMA InitSlotInv ==
    Init => Owned /\ SlotsAccounted
<1> SUFFICES ASSUME Init PROVE Owned /\ SlotsAccounted
  OBVIOUS
<1>1. /\ capacity.current = 0 /\ pendingDeletes = {}
      /\ \A s \in ScaleSets : active[s] = {} /\ pc[s] = "start"
      /\ pc[Cleaner] = "idle"
  BY ProcsAssumption DEF Init, NewCapacity
<1>2. Owned
  BY <1>1 DEF Owned, OwnedBy
<1>3. Cardinality({}) = 0
  BY FS_EmptySet
<1>4. \A s \in ScaleSets : Held(s) = 0
  BY <1>1, <1>3 DEF Held
<1>5. SumOver(ScaleSets, [s \in ScaleSets |-> Held(s)]) = 0
  BY <1>4, SumZero
<1> QED
  BY <1>1, <1>2, <1>3, <1>5 DEF SlotsAccounted

\* And so does the next one.
LEMMA RestartSlots ==
    ASSUME Restart
    PROVE  Owned' /\ SlotsAccounted'
<1>1. /\ capacity'.current = 0 /\ pendingDeletes' = {}
      /\ \A s \in ScaleSets : active'[s] = {} /\ pc'[s] = "start"
      /\ pc'[Cleaner] = "idle"
  BY ProcsAssumption DEF Restart, NewCapacity
<1>2. Owned'
  BY <1>1 DEF Owned, OwnedBy
<1>3. Cardinality({}) = 0
  BY FS_EmptySet
<1>4. \A s \in ScaleSets : Held(s)' = 0
  BY <1>1, <1>3 DEF Held
<1>5. SumOver(ScaleSets, [s \in ScaleSets |-> Held(s)'] ) = 0
  BY <1>4, SumZero
<1> QED
  BY <1>1, <1>2, <1>3, <1>5 DEF SlotsAccounted

\* Every step keeps the count exact.
LEMMA NextSlotInv ==
    ASSUME Sweeps = FALSE, SlotInv, [Next]_vars
    PROVE  SlotInv'
<1>1. IInv' /\ VMsGrowOld
  BY NextIInv DEF SlotInv
<1>2. Restart \/ Elsewhere \/ \E s \in ScaleSets : Listener(s)
  BY SlotSteps DEF SlotInv
<1>3. CASE Restart
  BY <1>1, <1>3, RestartSlots DEF SlotInv
<1>4. CASE Elsewhere
  BY <1>1, <1>4 DEF SlotInv, Elsewhere, Owned, OwnedBy, SlotsAccounted, Held
<1>5. ASSUME NEW s \in ScaleSets, Listener(s) PROVE SlotInv'
  <2>1. Owned'
    BY <1>1, <1>5, OthersOwn, ListenerSlots DEF SlotInv, Owned
  <2>2. SlotsAccounted'
    BY <1>1, <1>5, ListenerSlots, ListenerCounts DEF SlotInv
  <2> QED
    BY <1>1, <2>1, <2>2 DEF SlotInv
<1> QED
  BY <1>2, <1>3, <1>4, <1>5

\* Between two sweeps the semaphore is exact, for any number of scale sets,
\* VMs, failures and restarts: every slot it shows as taken is held by one scale
\* set or belongs to a VM whose delete failed.  (A sweep breaks it on purpose:
\* reconcileCapacity sets the count to what one snapshot shows.)
THEOREM SlotsStayAccounted ==
    ASSUME Sweeps = FALSE
    PROVE  Spec => []SlotsAccounted
<1>1. Init => SlotInv
  BY InitSlotInv, InitIInv DEF SlotInv
<1>2. SlotInv /\ [Next]_vars => SlotInv'
  BY NextSlotInv
<1>3. SlotInv => SlotsAccounted
  BY DEF SlotInv
<1> QED
  BY <1>1, <1>2, <1>3, PTL DEF Spec

----------------------------------------------------------------------------
\* A step of a listener is a step of the pool, or none.
LEMMA ListenerPools ==
    ASSUME SlotInv, IInv', NEW s \in ScaleSets, Listener(s), Moves(s)
    PROVE  [Pool!Next]_(Pool!pool)
<1> DEFINE free   == Available(capacity)
           joined == {t \in ScaleSets : pc[t] \notin {"start", "session", "hydrate", "adopt"}}
           held   == [t \in ScaleSets |-> Held(t)]
           limbo  == Cardinality(pendingDeletes)
<1>1. /\ \A t \in ScaleSets \ {s} : Held(t)' = Held(t) /\ (Before(t)' <=> Before(t))
      /\ Held(s)' \in Nat /\ Held(s) <= capacity.current
  BY SumOfHeld
<1>2. /\ capacity \in [current : Nat, max : Nat] /\ capacity'.current \in Nat
      /\ capacity'.max = capacity.max
      /\ Held(s) \in Nat /\ limbo \in Nat
  BY ListenerFrame, HeldNat DEF SlotInv, IInv, Counts
<1>3. held' = [held EXCEPT ![s] = Held(s)']
  BY <1>1
<1>4. held[s] = Held(s)
  OBVIOUS
<1>5. /\ (Before(s) <=> Before(s)') => joined' = joined
      /\ Before(s) /\ ~Before(s)' => s \notin joined /\ joined' = joined \cup {s}
      /\ ~Before(s) => s \in joined
  BY <1>1 DEF Before
<1>6. free' = free + capacity.current - capacity'.current
  BY <1>2 DEF Available
<1>7. CASE Keeps(s)
  <2>1. free' = free /\ joined' = joined /\ limbo' = limbo
    BY <1>5, <1>7 DEF Keeps
  <2>2. held' = held
    BY <1>3, <1>4, <1>7 DEF Keeps
  <2> QED
    BY <2>1, <2>2 DEF Pool!pool
<1>8. CASE Joins(s)
  <2>1. s \notin joined /\ joined' = joined \cup {s} /\ limbo' = limbo
    BY <1>5, <1>8 DEF Joins
  <2>2. held'[s] = Held(s)' /\ held' = [held EXCEPT ![s] = held'[s]] /\ held'[s] >= 0
    BY <1>1, <1>3
  <2>3. free' = free - held'[s]
    BY <1>1, <1>2, <1>6, <1>8, <2>2 DEF Joins, Available
  <2>4. Pool!Join(s)
    BY <2>1, <2>2, <2>3 DEF Pool!Join
  <2> QED
    BY <2>4 DEF Pool!Next
<1>9. CASE Takes(s)
  <2>1. PICK k \in 1..free : capacity'.current = capacity.current + k /\ Held(s)' = Held(s) + k
    BY <1>9 DEF Takes
  <2>2. free' = free - k
    BY <1>2, <1>6, <2>1 DEF Available
  <2>3. held' = [held EXCEPT ![s] = @ + k]
    BY <1>3, <1>4, <2>1
  <2>4. s \in joined /\ joined' = joined /\ limbo' = limbo
    BY <1>5, <1>9 DEF Takes
  <2>5. Pool!Acquire(s)
    BY <2>1, <2>2, <2>3, <2>4 DEF Pool!Acquire
  <2> QED
    BY <2>5 DEF Pool!Next
<1>10. CASE Gives(s)
  <2>1. PICK k \in 1..Held(s) : capacity' = Release(capacity, k) /\ Held(s)' = Held(s) - k
    BY <1>10 DEF Gives
  <2>2. capacity'.current = capacity.current - k
    BY <1>1, <1>2, <2>1 DEF Release
  <2>3. free' = free + k
    BY <1>2, <1>6, <2>1, <2>2 DEF Available
  <2>4. held' = [held EXCEPT ![s] = @ - k] /\ k \in 1..held[s]
    BY <1>3, <1>4, <2>1
  <2>5. joined' = joined /\ limbo' = limbo
    BY <1>5, <1>10 DEF Gives
  <2>6. Pool!Release(s)
    BY <2>3, <2>4, <2>5 DEF Pool!Release
  <2> QED
    BY <2>6 DEF Pool!Next
<1>11. CASE Abandons(s)
  BY <1>2, <1>3, <1>4, <1>5, <1>11 DEF Abandons, Pool!Next, Pool!Abandon
<1> QED
  BY <1>7, <1>8, <1>9, <1>10, <1>11 DEF Moves

\* A restart empties the pool.
LEMMA RestartPools ==
    ASSUME IInv', Restart
    PROVE  Pool!Reset
<1>1. /\ capacity'.current = 0 /\ pendingDeletes' = {} /\ capacity' \in [current : Nat, max : Nat]
      /\ \A s \in ScaleSets : active'[s] = {} /\ pc'[s] = "start"
  BY ProcsAssumption DEF Restart, NewCapacity, IInv, Counts
<1>2. Cardinality({}) = 0
  BY FS_EmptySet
<1>3. \A s \in ScaleSets : Held(s)' = 0
  BY <1>1, <1>2 DEF Held
<1> QED
  BY <1>1, <1>2, <1>3 DEF Pool!Reset, Available

\* The bridges, their listeners and the semaphore implement the pool of slots of
\* SlotPool: whatever the interleaving, and whatever fails, a slot handed out was
\* free, goes back once and from the scale set that held it, or waits with its VM.
THEOREM SlotsAreAPool ==
    ASSUME Sweeps = FALSE
    PROVE  Spec => ImplementsSlotPool
<1>1. Init => SlotInv /\ Pool!Init
  <2> SUFFICES ASSUME Init PROVE SlotInv /\ Pool!Init
    OBVIOUS
  <2>1. SlotInv
    BY InitSlotInv, InitIInv DEF SlotInv
  <2>2. /\ capacity.current = 0 /\ pendingDeletes = {} /\ capacity \in [current : Nat, max : Nat]
        /\ \A s \in ScaleSets : active[s] = {} /\ pc[s] = "start"
    BY <2>1, ProcsAssumption DEF Init, NewCapacity, SlotInv, IInv, Counts
  <2>3. Cardinality({}) = 0
    BY FS_EmptySet
  <2>4. \A s \in ScaleSets : Held(s) = 0
    BY <2>2, <2>3 DEF Held
  <2> QED
    BY <2>1, <2>2, <2>3, <2>4 DEF Pool!Init, Available
<1>2. SlotInv /\ [Next]_vars => SlotInv' /\ [Pool!Next]_(Pool!pool)
  <2> SUFFICES ASSUME SlotInv, [Next]_vars PROVE SlotInv' /\ [Pool!Next]_(Pool!pool)
    OBVIOUS
  <2>1. SlotInv' /\ IInv'
    BY NextSlotInv DEF SlotInv
  <2>2. Restart \/ Elsewhere \/ \E s \in ScaleSets : Listener(s)
    BY SlotSteps DEF SlotInv
  <2>3. CASE Restart
    BY <2>1, <2>3, RestartPools DEF Pool!Next
  <2>4. CASE Elsewhere
    BY <2>1, <2>4 DEF Elsewhere, Pool!pool, Held
  <2>5. CASE \E s \in ScaleSets : Listener(s)
    BY <2>1, <2>5, ListenerSlots, ListenerPools DEF SlotInv
  <2> QED
    BY <2>1, <2>2, <2>3, <2>4, <2>5
<1> QED
  BY <1>1, <1>2, PTL DEF Spec, ImplementsSlotPool, Pool!Spec

----------------------------------------------------------------------------
\* While one process lives: no crash, and no failure that ends the process.
OneLife == Faults \cap {"crash", "githubFails", "createFails", "createLost"} = {}

\* The configured maximum, or what New counted, paused workers included, is no
\* more than the fleet has.
MaxFits ==
    IF StaticMaxVMs > 0 THEN StaticMaxVMs <= TotalSlots(WorkerSpec)
    ELSE DiscoveredSlots(LiveWorkers(WorkerSpec, StaleAfter)) <= TotalSlots(WorkerSpec)

\* The VMs that s is responsible for: tracked, or in the hands of its handler.
Mine(s) == active[s] \cup (IF pc[s] \in {"track", "delete", "mark"} THEN {req[s].v} ELSE {})

\* Every VM of the fleet was created by this process, by a listener that has
\* hydrated before, and is accounted for.
Supplied ==
    /\ \A s \in ScaleSets :
          /\ pc[s] \notin {"failedShare", "dead"} /\ session[s] # "kept"
          /\ Before(s) => \A v \in VMIds : owner[v] # s
    /\ \A v \in DOMAIN vms : v \in Mine(owner[v]) \cup pendingDeletes
    /\ capacity.max <= TotalSlots(WorkerSpec) /\ capacity.current <= capacity.max

\* A process that lives on is not restarted.
LEMMA NoRestart ==
    ASSUME OneLife, Supplied
    PROVE  ~Restart
  BY DEF OneLife, Supplied, Restart, Fault

\* Nothing fails that ends it.
LEMMA NoFatalFailure ==
    ASSUME OneLife, Supplied, NEW s \in ScaleSets
    PROVE  ~GitHubFails(s) /\ ~SessionRefused(s) /\ ~CreateFails(s)
  BY DEF OneLife, Supplied, GitHubFails, SessionRefused, CreateFails, Fault

\* What a listener's step does to its VMs and to Orchard's: it loses none that
\* still exists, and creates none for another scale set.
Supplies(s) ==
    /\ pc'[s] \notin {"failedShare", "dead"}
    /\ session'[s] # "kept" /\ \A t \in ScaleSets \ {s} : session'[t] = session[t]
    /\ Before(s)' => Before(s)
    /\ \A v \in VMIds : owner'[v] = owner[v] \/ (owner'[v] = s /\ ~Before(s)')
    /\ \A v \in DOMAIN vms' :
          \/ /\ v \in DOMAIN vms /\ owner'[v] = owner[v]
             /\ v \in Mine(s) \cup pendingDeletes => v \in Mine(s)' \cup pendingDeletes'
          \/ owner'[v] = s /\ v \in Mine(s)'
    /\ capacity'.current <= capacity'.max

\* Starting, opening the session, hydrating and adopting.
LEMMA JoiningSupplies ==
    ASSUME IInv, Owned, Supplied, NEW s \in ScaleSets,
           StartScaleSet(s) \/ OpenSession(s) \/ Hydrate(s) \/ Adopt(s)
    PROVE  Supplies(s)
<1> USE ProcsAssumption DEF IInv, Control, Request, Goto, CallGet, Before, Mine, Supplies, Supplied
<1>1. CASE StartScaleSet(s)
  BY <1>1 DEF StartScaleSet
<1>2. CASE OpenSession(s)
  <2>1. session' = [session EXCEPT ![s] = "held"] /\ session[s] = "none"
    BY <1>2 DEF OpenSession
  <2>2. \A t \in ScaleSets : session'[t] # "kept" /\ \A u \in ScaleSets \ {s} : session'[u] = session[u]
    BY <2>1
  <2> QED
    BY <1>2, <2>2 DEF OpenSession
<1>3. CASE Hydrate(s)
  BY <1>3 DEF Hydrate
<1>4. CASE Adopt(s)
  <2>1. active[s] = {} /\ req[s].left = Cardinality(active[s])
    BY <1>4 DEF Adopt, Owned, OwnedBy
  <2>2. req[s].left = 0
    BY <2>1, FS_EmptySet
  <2>3. capacity'.current <= capacity'.max
    BY <1>4, <2>2 DEF Adopt, AdoptExisting, Counts
  <2> QED
    BY <1>4, <2>3 DEF Adopt
<1> QED
  BY <1>1, <1>2, <1>3, <1>4

\* A scale-up.
LEMMA ScaleUpSupplies ==
    ASSUME IInv, Owned, Supplied, NEW s \in ScaleSets,
           \/ HandleDesiredRunnerCount(s) \/ ScaleUpSkipped(s) \/ ScaleUpAcquires(s)
           \/ CreateVM(s) \/ Track(s)
    PROVE  Supplies(s)
<1> USE ProcsAssumption DEF IInv, Control, Request, Goto, CallGet, Before, Mine, Supplies, Supplied
<1>1. CASE HandleDesiredRunnerCount(s) \/ ScaleUpSkipped(s)
  BY <1>1 DEF HandleDesiredRunnerCount, ScaleUpSkipped
<1>2. CASE ScaleUpAcquires(s)
  <2>1. /\ Acquirable(s) \in 1..Available(capacity)
        /\ capacity'.current = capacity.current + Acquirable(s) /\ capacity'.max = capacity.max
    BY <1>2, TakenSlots, ListenerFrame DEF Listener, QuietListener
  <2>2. capacity'.current <= capacity'.max
    BY <2>1 DEF Available, Counts
  <2> QED
    BY <1>2, <2>2 DEF ScaleUpAcquires
<1>3. CASE CreateVM(s)
  <2>1. PICK new \in NewVMs(s) :
           Created(s, new) /\ req' = [req EXCEPT ![s].v = new.v, ![s].pins = @ \ {new.pin}]
    BY <1>3 DEF CreateVM
  <2>2. /\ owner'[new.v] = s /\ \A v \in VMIds \ {new.v} : owner'[v] = owner[v]
    BY <1>3, <2>1, FreshName DEF CreateVM
  <2>3. req'[s].v = new.v
    <3>1. req[s] \in Request /\ DOMAIN req = ScaleSets
      OBVIOUS
    <3>2. req'[s] = [[req[s] EXCEPT !.v = new.v] EXCEPT !.pins = @ \ {new.pin}]
      BY <2>1, <3>1
    <3> QED
      BY <3>1, <3>2
  <2>4. DOMAIN vms' = DOMAIN vms \cup {new.v} /\ DOMAIN vms \subseteq VMIds
    BY <2>1 DEF Created, With, Tables, Past
  <2>5. /\ pc[s] = "create" /\ pc'[s] = "track"
        /\ UNCHANGED <<active, pendingDeletes, capacity, session>>
    BY <1>3 DEF CreateVM
  <2> QED
    BY <2>2, <2>3, <2>4, <2>5
<1>4. CASE Track(s)
  BY <1>4 DEF Track
<1> QED
  BY <1>1, <1>2, <1>3, <1>4

\* The end of a job, and the recompute.
LEMMA CompletionSupplies ==
    ASSUME IInv, Owned, Supplied, NEW s \in ScaleSets,
           \/ \E v \in VMIds : HandleJobCompleted(s, v)
           \/ DeleteVM(s) \/ DeleteVMFails(s) \/ MarkForDeletion(s) \/ ReleaseSlot(s)
           \/ ComputeShares(s) \/ PushShare(s)
    PROVE  Supplies(s)
<1> USE ProcsAssumption DEF IInv, Control, Request, Goto, CallGet, Before, Mine, Supplies, Supplied
<1>1. ASSUME NEW v \in VMIds, HandleJobCompleted(s, v) PROVE Supplies(s)
  BY <1>1 DEF HandleJobCompleted
<1>2. CASE DeleteVM(s) \/ DeleteVMFails(s)
  BY <1>2 DEF DeleteVM, DeleteVMFails, Delivered, Drop, Only
<1>3. CASE MarkForDeletion(s)
  BY <1>3 DEF MarkForDeletion
<1>4. CASE ReleaseSlot(s)
  <2>1. capacity'.current <= capacity'.max
    BY <1>4 DEF ReleaseSlot, Release, Counts
  <2> QED
    BY <1>4, <2>1 DEF ReleaseSlot
<1>5. CASE ComputeShares(s) \/ PushShare(s)
  <2>1. /\ pc[s] \in {"firstShare", "share", "cleanedShare", "maxShare"}
        /\ pc'[s] = pc[s] \/ pc'[s] = AfterRecompute[pc[s]]
        /\ UNCHANGED <<vms, capacity, active, pendingDeletes, req, worldVars>>
    BY <1>5, RecomputeEnds
  <2>2. AfterRecompute[pc[s]] \in {"listen", "loop", "prune"}
    BY <2>1 DEF AfterRecompute
  <2> QED
    BY <2>1, <2>2
<1> QED
  BY <1>1, <1>2, <1>3, <1>4, <1>5

\* Any step keeps every VM accounted for.
LEMMA NextSupplied ==
    ASSUME Sweeps = FALSE, OneLife, SlotInv, Supplied, [Next]_vars
    PROVE  Supplied'
<1>1. IInv' /\ VMsGrowOld
  BY NextIInv DEF SlotInv
<1>2. Elsewhere \/ \E s \in ScaleSets : Listener(s)
  BY SlotSteps, NoRestart DEF SlotInv
<1>3. /\ DOMAIN vms \subseteq VMIds /\ DOMAIN vms' \subseteq VMIds
      /\ \A v \in DOMAIN vms : owner[v] \in ScaleSets
      /\ \A v \in DOMAIN vms' : owner'[v] \in ScaleSets
  BY <1>1 DEF SlotInv, IInv, Tables, Past, VM
<1>4. CASE Elsewhere
  <2>1. UNCHANGED <<capacity, active, pendingDeletes, pc, req, owner, session>>
    BY <1>4 DEF Elsewhere, Supplied
  <2>2. DOMAIN vms' \subseteq DOMAIN vms
    BY <1>1, <1>3, <2>1, NamesAssumption DEF VMsGrowOld
  <2> QED
    BY <1>3, <2>1, <2>2 DEF Supplied, Mine, Before
<1>5. ASSUME NEW s \in ScaleSets, Listener(s) PROVE Supplied'
  <2>1. Supplies(s)
    BY <1>5, NoFatalFailure, JoiningSupplies, ScaleUpSupplies, CompletionSupplies
       DEF Listener, QuietListener, SlotInv
  <2>2. /\ \A t \in ScaleSets \ {s} : pc'[t] = pc[t] /\ req'[t] = req[t] /\ active'[t] = active[t]
        /\ UNCHANGED pendingDeletes \/ MarkForDeletion(s)
        /\ capacity'.max = capacity.max
    BY <1>5, ListenerFrame DEF SlotInv
  <2>3. pendingDeletes \subseteq pendingDeletes'
    BY <2>2 DEF MarkForDeletion
  <2>4. \A t \in ScaleSets \ {s} : Mine(t)' = Mine(t) /\ (Before(t)' <=> Before(t))
    BY <2>2 DEF Mine, Before
  <2>5. ASSUME NEW v \in DOMAIN vms' PROVE (v \in Mine(owner[v]) \cup pendingDeletes)'
    <3>1. CASE owner'[v] = s /\ v \in Mine(s)'
      BY <3>1 DEF Mine
    <3>2. CASE /\ v \in DOMAIN vms /\ owner'[v] = owner[v]
               /\ v \in Mine(s) \cup pendingDeletes => v \in Mine(s)' \cup pendingDeletes'
      <4>1. PICK t \in ScaleSets : t = owner[v]
        BY <1>3, <3>2
      <4>2. v \in Mine(t) \cup pendingDeletes
        BY <3>2, <4>1 DEF Supplied
      <4>3. v \in Mine(t)' \cup pendingDeletes'
        BY <2>3, <2>4, <3>2, <4>2
      <4>4. t = owner'[v]
        BY <3>2, <4>1
      <4> QED
        BY <4>3, <4>4 DEF Mine
    <3> QED
      BY <2>1, <3>1, <3>2 DEF Supplies
  <2>6. ASSUME NEW t \in ScaleSets
        PROVE  /\ pc'[t] \notin {"failedShare", "dead"} /\ session'[t] # "kept"
               /\ Before(t)' => \A v \in VMIds : owner'[v] # t
    <3>1. /\ pc'[t] \notin {"failedShare", "dead"} /\ session'[t] # "kept"
          /\ Before(t)' => Before(t)
      BY <2>1, <2>2, <2>4 DEF Supplies, Supplied
    <3>2. Before(t)' => \A v \in VMIds : owner'[v] # t
      BY <2>1, <3>1 DEF Supplies, Supplied
    <3> QED
      BY <3>1, <3>2
  <2>7. capacity'.max <= TotalSlots(WorkerSpec) /\ capacity'.current <= capacity'.max
    BY <2>1, <2>2 DEF Supplies, Supplied
  <2> QED
    BY <2>5, <2>6, <2>7 DEF Supplied
<1> QED
  BY <1>2, <1>4, <1>5

\* At the start nothing exists.
LEMMA InitSupplied ==
    ASSUME Init, MaxFits
    PROVE  Supplied
<1>1. /\ vms = <<>> /\ capacity.current = 0 /\ workers = WorkerSpec
      /\ \A s \in ScaleSets : session[s] = "none" /\ pc[s] = "start"
      /\ \A v \in VMIds : owner[v] = None
  BY ProcsAssumption DEF Init, NewCapacity
<1>2. TotalSlots(WorkerSpec) \in Nat
  BY NamesAssumption, WorkersAssumption, FleetNumbers
<1>3. PICK max \in StartMaxes : capacity = NewCapacity(max)
  BY DEF Init
<1>4. max <= TotalSlots(WorkerSpec)
  BY <1>1, <1>2, <1>3 DEF StartMaxes, MaxFits
<1>5. max \in Nat
  BY <1>3, InitIInv DEF IInv, Counts, NewCapacity
<1>6. DOMAIN vms = {}
  BY <1>1
<1> QED
  BY <1>1, <1>3, <1>4, <1>5, <1>6, NamesAssumption DEF Supplied, NewCapacity

\* The VMs that nobody has finished with fit into the slots taken.
LEMMA VMsWithinSlots ==
    ASSUME SlotInv, Supplied
    PROVE  Cardinality(DOMAIN vms) <= capacity.current
<1> DEFINE A == DOMAIN vms \ pendingDeletes
           f == [s \in ScaleSets |-> Held(s)]
<1>1. /\ IsFiniteSet(pendingDeletes) /\ Cardinality(pendingDeletes) \in Nat
      /\ \A s \in ScaleSets : /\ Held(s) \in Nat /\ IsFiniteSet(active[s])
                             /\ Cardinality(active[s]) \in Nat
  BY HeldNat DEF SlotInv
<1>2. /\ DOMAIN vms \in SUBSET VMIds /\ A \in SUBSET VMIds
      /\ \A v \in DOMAIN vms : owner[v] \in ScaleSets
  BY DEF SlotInv, IInv, Tables, Past, VM
<1>3. IsFiniteSet(A) /\ Cardinality(A) \in Nat /\ IsFiniteSet(DOMAIN vms)
  BY <1>2, NamesAssumption, SubsetNat
<1>4. ASSUME NEW s \in ScaleSets PROVE Cardinality({v \in A : owner[v] = s}) <= Held(s)
  <2> DEFINE P == {v \in A : owner[v] = s}
  <2>1. P \subseteq Mine(s)
    BY <1>2 DEF Supplied
  <2>2. Before(s) => P = {}
    BY <1>2 DEF Supplied
  <2> HIDE DEF P
  <2>3. CASE Before(s)
    <3>1. Cardinality(P) = 0
      BY <2>2, <2>3, FS_EmptySet
    <3> QED
      BY <1>1, <3>1 DEF P
  <2>4. CASE ~Before(s) /\ pc[s] \in {"track", "delete", "mark"}
    <3>1. P \in SUBSET (active[s] \cup {req[s].v})
      BY <2>1, <2>4 DEF Mine
    <3>2. /\ IsFiniteSet(active[s] \cup {req[s].v})
          /\ Cardinality(active[s] \cup {req[s].v}) = Cardinality(active[s]) + 1
      <4>1. req[s].v \notin active[s]
        BY <2>4 DEF SlotInv, Owned, OwnedBy
      <4> QED
        BY <1>1, <4>1, FS_AddElement
    <3>3. Cardinality(P) <= Cardinality(active[s]) + 1
      BY <3>1, <3>2, FS_Subset
    <3>4. Held(s) >= Cardinality(active[s]) + 1
      <4>1. req[s].left \in Nat /\ (pc[s] = "track" => req[s].left > 0)
        BY <2>4 DEF SlotInv, IInv, Control, Request, Owned, OwnedBy
      <4> QED
        BY <1>1, <2>4, <4>1 DEF Held
    <3>5. Cardinality(P) \in Nat
      BY <3>1, <3>2, SubsetNat
    <3> QED
      BY <1>1, <3>3, <3>4, <3>5 DEF P
  <2>5. CASE ~Before(s) /\ pc[s] \notin {"track", "delete", "mark"}
    <3>1. P \in SUBSET active[s]
      BY <2>1, <2>5 DEF Mine
    <3>2. Cardinality(P) <= Cardinality(active[s]) /\ Cardinality(P) \in Nat
      BY <1>1, <3>1, FS_Subset, SubsetNat
    <3>3. Held(s) >= Cardinality(active[s])
      <4>1. req[s].left \in Nat
        BY DEF SlotInv, IInv, Control, Request
      <4> QED
        BY <1>1, <2>5, <4>1 DEF Held, Before
    <3> QED
      BY <1>1, <3>2, <3>3 DEF P
  <2> QED
    BY <2>3, <2>4, <2>5
<1>5. Cardinality(A) <= SumOver(ScaleSets, f)
  <2>1. /\ \A s \in ScaleSets : f[s] \in Nat /\ Cardinality({v \in A : owner[v] = s}) <= f[s]
        /\ \A v \in A : owner[v] \in ScaleSets
    BY <1>1, <1>2, <1>4
  <2> HIDE DEF A, f
  <2> QED
    BY <1>3, <2>1, NamesAssumption, SumCovers
<1>6. SumOver(ScaleSets, f) \in Nat
  BY <1>1, NamesAssumption, SumNat
<1>7. capacity.current = SumOver(ScaleSets, f) + Cardinality(pendingDeletes)
  BY DEF SlotInv, SlotsAccounted
<1>8. Cardinality(DOMAIN vms) <= Cardinality(A) + Cardinality(pendingDeletes)
  <2>1. DOMAIN vms \in SUBSET (A \cup pendingDeletes)
    OBVIOUS
  <2> HIDE DEF A
  <2>2. /\ IsFiniteSet(A \cup pendingDeletes)
        /\ Cardinality(A \cup pendingDeletes)
              = Cardinality(A) + Cardinality(pendingDeletes) - Cardinality(A \cap pendingDeletes)
    BY <1>1, <1>3, FS_Union
  <2>3. Cardinality(A \cap pendingDeletes) \in Nat
    BY <1>3, SubsetNat
  <2>4. Cardinality(DOMAIN vms) <= Cardinality(A \cup pendingDeletes)
    BY <2>1, <2>2, FS_Subset
  <2>5. Cardinality(DOMAIN vms) \in Nat
    BY <1>3, FS_CardinalityType
  <2> QED
    BY <1>1, <1>3, <2>2, <2>3, <2>4, <2>5
<1>9. Cardinality(DOMAIN vms) \in Nat
  BY <1>3, FS_CardinalityType
<1> HIDE DEF A, f
<1> QED
  BY <1>1, <1>3, <1>5, <1>6, <1>7, <1>8, <1>9

\* One process never asks the fleet for more VMs than it has slots, whatever its
\* listeners interleave, however stale the snapshots they decide on, and however
\* many deletes, lists and VMs fail.  Each hypothesis is needed: a sweep that
\* reconciles from an old snapshot, a restart whose listeners hydrate one after
\* the other, or a configured maximum above the fleet's slots break it.
THEOREM FleetIsNotOversold ==
    ASSUME Sweeps = FALSE, OneLife, MaxFits
    PROVE  Spec => []NoOverProvision
<1>1. Init => SlotInv /\ Supplied
  BY InitSlotInv, InitIInv, InitSupplied DEF SlotInv
<1>2. SlotInv /\ Supplied /\ [Next]_vars => (SlotInv /\ Supplied)'
  BY NextSlotInv, NextSupplied
<1>3. SlotInv /\ Supplied => NoOverProvision
  <2> SUFFICES ASSUME SlotInv, Supplied PROVE NoOverProvision
    OBVIOUS
  <2>1. DOMAIN vms \in SUBSET VMIds /\ ManagedAlive \in SUBSET DOMAIN vms
    BY DEF SlotInv, IInv, Tables, Past, ManagedAlive
  <2>2. IsFiniteSet(DOMAIN vms) /\ Cardinality(DOMAIN vms) \in Nat
    BY <2>1, NamesAssumption, SubsetNat
  <2>3. Cardinality(ManagedAlive) <= Cardinality(DOMAIN vms) /\ Cardinality(ManagedAlive) \in Nat
    BY <2>1, <2>2, FS_Subset, SubsetNat
  <2>4. Cardinality(DOMAIN vms) <= capacity.current
    BY VMsWithinSlots
  <2>5. capacity.current \in Nat /\ capacity.max \in Nat /\ TotalSlots(WorkerSpec) \in Nat
    BY NamesAssumption, WorkersAssumption, FleetNumbers DEF SlotInv, IInv, Counts
  <2> QED
    BY <2>2, <2>3, <2>4, <2>5 DEF Supplied, NoOverProvision
<1> QED
  BY <1>1, <1>2, <1>3, PTL DEF Spec
=============================================================================
