# orchard-gh-bridge: specification and proofs

`orchard-gh-bridge` connects GitHub Actions runner scale sets to a fleet of
Macs run by Orchard: it learns from GitHub how many runners a scale set wants,
creates one ephemeral VM per runner in Orchard, deletes it when the job ends,
and tells GitHub how many runners each scale set may have. This directory
models that process in TLA+, checks it with TLC and proves its safety with
TLAPS. Paths below are relative to the repository's root (`src/`).

## 1. Inventory

| Component | State | Operations | Talks to |
|---|---|---|---|
| StateView (`bridge/stateview.go`) | cached snapshot and its age, refresh in flight, last error | `Get` (hit, join, lead), `Invalidate` | Orchard's `ListVMs`, `ListWorkers`; called by every other component |
| Capacity (`bridge/capacity.go`) | `current`, `max`, callbacks | `TryAcquire`, `Release`, `Reconcile`, `AdoptExisting`, `SetMax` | called by bridges (acquire, release), the sweep (reconcile, max) and startup (adopt); its callback recomputes the shares |
| Bridge (`bridge/bridge.go`), one per scale set | `activeVMs` | `HydrateFromOrchard`, `HandleDesiredRunnerCount`, `HandleJobCompleted`, `PurgeActiveVM` | StateView, Capacity, Orchard `CreateVM`/`DeleteVM`, GitHub JIT configs; hands failed deletes to Cleanup |
| AutoSize and workers (`bridge/autosize.go`, `bridge/worker.go`) | none | which workers are live, eligible, free; what size a VM gets | pure functions over a snapshot |
| Cleanup (`bridge/cleanup.go`) | `pendingDeletes` | `MarkForDeletion`, the periodic `sweep`, `pruneOfflineWorkers` | StateView, Capacity, Orchard `DeleteVM`/`DeleteWorker`; `onVMCleaned` purges bridges and recomputes the shares |
| Manager (`manager/manager.go`) | registered handles, `maxRunners` of each listener | `New`, `Run`, `runScaleSet`, `recomputeScaleSetShares` | starts everything; its first error ends the process |
| Eligibility monitor (`bridge/eligibility.go`) | last reported exclusions, gauge series | `Observe` | called by each sweep; writes logs and gauges |
| Configuration (`config/config.go`) | the loaded file | `Load`, `Validate`, the duration accessors | read once by `main`; fixes the thresholds of StateView and Cleanup |
| VM names (`bridge/vm.go`) | none | `VMName`, the prefix match | the only link between a VM and its scale set across a restart |
| Process (`main.go`) | none | start, exit | loads the configuration, runs the manager; restarted by the platform |
| Startup script, runner removal, metrics, health, chart | - | - | see section 8 |

One goroutine per scale set (its listener calls one handler at a time) and the
cleanup goroutine share one StateView, one Capacity, `pendingDeletes` and the
handles. Each of these has a mutex of its own; no lock is held across two of
them or across an RPC. All decisions are therefore taken on values that may be
out of date when they are used. That, RPCs that fail or lose their reply, and
the process dying in the middle, is what is hard here. `PROJECT.json` lists the
hazards line by line. What should hold in spite of them:

* StateView: one refresh at a time, honest errors, no snapshot older than one
  already seen, every `Get` returns.
* Capacity and bridges: the semaphore counts exactly the slots somebody holds;
  the fleet is never asked for more VMs than it has slots.
* AutoSize: never two full-size VMs on one host; the share told to GitHub can
  be placed.
* Cleanup: no job of a healthy young VM is killed; everything leaked is removed
  in the end; the maximum follows the fleet.
* Eligibility: what log and gauges say is what the last sweep found, and in the
  end what is true of the fleet.
* Configuration: whatever `Load` accepts, a worker that counts as live is not
  prunable, and files from before a setting existed still start.
* Names: a VM found after a restart goes to the scale set it was made for.
* The whole: every queued job gets a runner; a scale set that can be served ends
  up with a registered listener.

## 2. Modules

```
StateView ----------- StateViewClients ---- StateViewProofs
    \
     \      Capacity                          SlotPool
      \    /                                     |
     BridgeState ---+-- Bridge  --+               |
      /             +-- Cleanup --+-- Manager ----+-- MCManager
Eligibility         +-- World   --+       \
  |                                        ManagerProofs --+-- SlotProofs
Fleet ---- FleetProofs -----------------/                  +-- PollProofs
  |             \
  +------- Placement ---- PlacementProofs
               +--------- MCPlacement

Config --+-- Deployment ---- MCDeployment
Names  --+       +---------- ConfigProofs
                 +---------- DeploymentProofs
```

* **StateView** - one action per critical section of `StateView.mu` or RPC of
  `refresh`. A caller's position in `Get` is `gpc`, its locals `lst`, its result
  `got`. Real time is one bit: `fresh` says that the snapshot is younger than
  the TTL, and `TTLExpires` clears it at any moment.
* **StateViewClients** - the StateView with arbitrary callers. Orchard's tables
  are version numbers, and the history variables `pub`, `gen`, `invAt`, `begin`
  record what was published and when each call began. They appear in no guard.
* **Fleet** - the pure functions of capacity, liveness, eligibility, pins,
  pruning and shares. Label maps are sets of pairs; the pin label is kept apart.
  A heartbeat's age is a number, or `None` for a zero `LastSeen`. A sum of slots
  is the cardinality of a set with one pair per slot: what a fold or a recursive
  sum returns cannot be proved without induction, what a cardinality is can.
* **Placement** - a fleet of physical hosts that connect under changing names,
  with AutoSize placement and pruning decided on the present state. It isolates
  the placement rules from the races that Manager is about. It assumes that the
  controller refuses a worker name whose record belongs to another machine.
* **Capacity** - `[current, max]` and one operator per method.
* **SlotPool** - the abstract counterpart of Capacity: slots that are free, held
  by a client, or in limbo. It knows no snapshots, handlers or VMs. `Reset` is
  the restart of the process that keeps the pool.
* **Eligibility** - `AutoSizeExclusions` and the monitor: per scale set, as all
  of its maps and series are keyed by it, a record of what the last sweep found,
  the gauge series that exist, and what the log still says.
* **BridgeState** - the variables that Bridge, Cleanup and World share, and
  `recomputeScaleSetShares`, which both the listeners and the sweep call: the
  `Get`, `ComputeShares`, then one `PushShare` per listener.
* **Bridge** - `runScaleSet` (registration, wait for workers, session with its
  retries, hydration) and the handlers. `pc[s]` is where listener `s` is,
  `req[s]` its locals (slots still to create, the VM at hand, the pins chosen).
* **Cleanup** - a sweep; `sw` holds its locals: the VMs left to process, those
  that the snapshot condemns, the running count, the live workers, the
  worker records to prune.
* **World** (external) - Orchard schedules, fails and ages VMs; machines leave,
  return and are paused; GitHub assigns jobs up to `maxRunners`, one job per
  runner, and may keep the session of a process that is gone until its TTL passes.
  Modelled from how the code uses them.
* **Manager** - startup, restart, next-state relation, fairness, properties, and
  the refinement mapping to SlotPool.
* **Config** - a configuration file is a record whose durations are `Unset`, `Bad`
  (does not parse) or a number; `Loaded`, `Validate` and the accessors follow the
  code, `Thresholds` is what the setters of Cleanup and `manager.New` make of it.
* **Names** - names are sequences of characters without the common prefix
  `gha-orchard-`; `NameLimit` stands for the 51 characters it leaves. `TrimRight`
  keeps as many characters as have one that is no hyphen at or after them, again a
  cardinality.
* **Deployment** - lifetimes of the process: started with any file, rejected or
  up, hydrating by name from a list of any age or from none, creating, deleting
  and reaping VMs with calls that fail or lose their reply, crashing. `active`,
  `ending` (the VM between `activeVMs` and the outcome of its delete) and `pending`
  (`pendingDeletes`) are who takes care of a VM; `adopters` and `inherited` are
  history: the bridges that were given a list, and the VMs of earlier processes.
* **MCManager, MCPlacement, MCDeployment** - fleets, scale sets, job counts and
  files for the runs.
* **StateViewProofs, FleetProofs, ConfigProofs, PlacementProofs, ManagerProofs,
  SlotProofs, DeploymentProofs, PollProofs** - theorems, see section 5.

### Where steps are cut

A handler is cut at each mutex and each RPC, except that some adjacent operations
are one step: the `activeVMs` entry of a batch's last VM, or a `Release`, with the
`Invalidate` that follows it (`Track`, `ReleaseSlot`); a failed create with the
`Release` of the rest of its batch; the return of a `Get` with the handler's use of
it (`TryAcquire`, the entries of a hydration); the session that is granted with the
registration of the handle; `retainPendingDeletes` with the sweep's `Invalidate`;
`clearPendingDelete` with the purge of every bridge; and the deletes of one prune
with the eligibility report that ends the sweep. Deployment merges two more: the
reply of `CreateVM` with the `activeVMs` entry, and a sweep's delete with its purge
(Bridge and Cleanup cut both). Interleavings inside these groups are not explored.
Each push of a share recompute is a step, so that two recomputes may mix. A sweep
visits VMs in any order. `createOneVM` is cut
between the reply of `CreateVM` and the entry in `activeVMs`. A create that fails
releases the rest of its batch, recomputes the shares and ends the process;
`createLost` is the same with the VM left behind. The wait for workers polls
Orchard directly and is one step, taken when a worker matches. A refused session is
retried `MaxAttempts` times (10 in the code, 2 in the runs: one refusal that is
retried and one that gives up). When one goroutine's error ends the process, the
others close their sessions with a context that is already cancelled, so `Restart`
may leave these sessions with GitHub (`sessionKept`).

### Abstractions

* In the manager a VM name is a number and its owner is known, which is what
  `TracksOnlyItsOwn` and `NoneForgotten` establish for names that leave room for
  the uuid; a runner has its VM's name, as in the code, where `activeVMs` maps a
  name to itself.
* Age has three levels: young, past `maxPendingAge`, past `maxAge`. A sweep
  judges age at its start, with the status of its snapshot. A worker that stays
  away reaches the age at which its record is prunable, which is a step of its own
  only when pruning is on. `maxPendingAge` is
  taken to be below `maxVMAge`, as by default; `Validate` does not demand it.
* The placement cursor is any choice of distinct free workers. Theorem
  `FreePinsAreDistinct` is why a set of pins stands for that batch, and
  `CandidatesAreSizable` why the branch that skips a worker is left out.
* `RemoveRunner`, counters and the text of the log change nothing the bridge reads.
* `SharedWith` of an exclusion is a set: Orchard's list is taken to keep its order.
* In Deployment the StateView is what `Get` may return: nothing, the VMs as they are
  now, or one list kept since any earlier moment of this process (`Lists`). A VM's
  status is whether it has ended, its age is left out: a sweep may reap any VM of
  its list. `HandleDesiredRunnerCount` is reduced to one create at a time.
* `JoinCancelled` (a context that ends while a `Get` waits) is part of
  StateViewClients only: in the manager it comes with the process's end.

## 3. Properties that hold

| Run | Properties | Bounds |
|---|---|---|
| `StateViewClients` | `TypeOK`, `SingleFlight`, `NilErrorMeansRefreshed`, `ServesLatest`, `SnapshotsAdvance`, `LeaderSeesPast`, `GetReturns` | 2 callers, 2 Gets each, one change of each table, any number of invalidations, expiries and failures. A joiner, a leader and an invalidation between them need no more; the safety properties are also proved for any number of callers and changes. |
| `ScaleUp` | `SlotsAccounted`, `NoOverProvision`, `ImplementsSlotPool` | an AutoSize set (1 job) and a slot set (2 jobs, static maximum) on one two-slot Mac, three VMs (one more than fits, and a batch of two), one failing list or delete, no sweep |
| `Drain` | `TypeOK`, `YoungJobsSurvive`, `EventuallyDrained`, `EventuallyListening`, `FirstPollHasCapacity` | one set, one VM, two failures among crash, failed and lost create and delete, failed VM, failing GitHub call; kept sessions |
| `Serve` | `JobsServed` | one set, one slot, two jobs, two VMs, two failed lists, failed discovery, sweeps |
| `Fleet` | `ReportsAreCurrent`, `CapacityFollowsFleet`, `ExclusionsAreReported` | two workers with one pin label and different slot counts, `maxVMs` unset; two events among going offline (staying away makes a record prunable), pausing, a failed prune; any number of returns. No VMs: the reports and the maximum do not depend on them |
| `Placement` | `TypeOK`, `OneVMPerHost`, `ShareIsPlaceable` | two hosts, three names, two renames, two VMs, two AutoSize sets with different labels; names and VMs are interchangeable |
| `Deployment` | `ThresholdsOrdered`, `UnsetPruneNeverRejects`, `TracksOnlyItsOwn`, `NoneForgotten` | every pair of workerStaleAfter and workerPruneAfter around the defaults, unset, unparsable, negative and zero included; the other durations, credentials and missing fields one at a time; files with names that sanitize alike, are prefixes of each other, or leave room for all, some or none of the uuid, alone and in pairs; one uuid, two VMs at a time, one list kept besides the present one, any number of restarts, failed calls and failed hydrations |

What they say:

* `SingleFlight`, `SnapshotsAdvance`, `ServesLatest`: what a caller receives is
  always the newest snapshot published, and no second leader can overtake a
  newer publication with older lists.
* `NilErrorMeansRefreshed`: a nil error after a cache miss means that a snapshot
  was published since the call began. `LeaderSeesPast`: only a leader may rely on
  seeing every change made before its call.
* `SlotsAccounted`: `current` is the sum of tracked VMs, slots handlers hold, and
  VMs whose delete failed, at every interleaving of two listeners.
  `NoOverProvision` follows from it, and not from the snapshot: without the
  semaphore two listeners with equal snapshots would overshoot. Both need that
  no sweep interferes, see `OverProvision` below.
* `YoungJobsSurvive`: a sweep that works on an old snapshot may see a VM as
  pending that has since started its job; the job is only killed when the VM is
  past `maxPendingAge` (or has failed). `EventuallyDrained`: whatever was lost,
  the age limits remove every VM and the semaphore returns to zero.
* `ImplementsSlotPool`: the two listeners with their semaphore behave like
  SlotPool. `held` is what a scale set tracks or its handler holds, `limbo` the
  VMs marked for deletion, `free` is `Available`. It adds to `SlotsAccounted` how
  slots may move: only free ones are handed out once a scale set has joined, and
  one goes back once, from the scale set that held it.
* `EventuallyListening`: a scale set with an eligible worker ends up with a
  registered handle, also when an old session refuses the new process until its
  attempts run out and it starts over. `FirstPollHasCapacity`: the recompute
  between hydration and the first poll does not undo the wait for workers, with
  VMs of an earlier process on the slots. It is stated for one scale set on a
  fleet that stays; see section 4 for several.
* `ReportsAreCurrent`, `ExclusionsAreReported`: no gauge series lingers and none
  is missing after any sequence of exclusions that begin, change their reason or
  their other holder, and end; and the reports catch up with the fleet.
* `CapacityFollowsFleet`: with `maxVMs` unset the maximum catches up with the fleet,
  down to zero and back. With it set see `StaticMax` in section 4.
* `ThresholdsOrdered` is the assumption `FleetAssumption` of the manager's model
  (a positive `StaleAfter`, and pruning off or beyond it), established by theorem
  `ThresholdsHold`. `TracksOnlyItsOwn` and `NoneForgotten` need `Room`: without it
  both fail (section 4).
* `NoneForgotten`: a VM of an earlier process that a bridge of its name could adopt
  is, until it has ended, in `activeVMs`, between `activeVMs` and the outcome of its
  delete, or in `pendingDeletes`. A failed delete must hand it over, hydration from
  an old list must still find it, and `retainPendingDeletes` with an old list must
  not unmark it. VMs this process created are not included: a sweep whose list is
  older than the VM unmarks it (section 4). Nor are VMs when no bridge of their name
  was given a list: nothing then adopts them.
* `OneVMPerHost`: the pin rules hold through renames, partitions and prunes when
  decisions do not overlap. `ShareIsPlaceable`: `vmConsumesLabeledWorker` never
  undercounts what `managedPinIdentities` excludes.

Every property has a mutant in `PROJECT.json`: a plausible defect of one
definition under which TLC finds the property violated.

### Fairness

`FairSpec` of Manager assumes weak fairness of: each goroutine as a whole
(`ListenerGoroutine`: a listener's next step, its `Get`, an attempt at a session
that a kept session refuses; `CleanupGoroutine`: the ticker, the sweep, its
`Get`), the outcomes without a failure only (failures are bounded by
`FaultBudget`), expiry of the TTL and the age limits (clocks), restart of a dead
process (the Helm chart deploys it under Kubernetes), and of Orchard and GitHub: what fits is
scheduled, what there is room for is assigned, a job ends, its completion is
delivered, a kept session expires after its TTL. The listener is assumed to report
the desired count again as long as jobs are unserved, as its polling does. No failure, crash, prune or return of a
worker is ever required to happen. StateViewClients assumes only that a goroutine
inside `Get` continues and that an RPC returns, with either outcome.

`CHECK_DEADLOCK FALSE` is set where sweeps are switched off: once all jobs are
done such a system has nothing left to do.

## 4. Where the code and its documentation disagree

Each of these is a run that must end in a violation.

* `Invalidate` (`stateview.go:127`): a `Get` that begins after `Invalidate` joins
  a refresh that is already in flight and returns lists read before the mutation,
  with a nil error; the old lists are then cached for a full TTL.
* `OverProvision` (`bridge.go:138`): the sweep counts VMs in its snapshot and
  writes that count to the semaphore at its end. A slot acquired in between is
  forgotten, and two scale sets put two VMs on a one-slot fleet. No failure is
  needed. The same happens after a restart when a listener hydrates late.
* `OneVMPerWorker` (`config.go:111`, `autosize.go:162`, `README.md:194`): two
  AutoSize sets that share a worker with two slots both choose it. With two Macs
  the violation also occurs with a single AutoSize set and a sweep, through the
  `Invalidate` race: the second scale-up is served a snapshot from before the
  first one's VM.
* `Starved` (`bridge.go:139`): shares are pushed by whichever goroutine finishes
  last, not by the one with the newest snapshot. A share of zero computed while
  another set's VM existed can outlive the VM, and the queued job is never
  assigned. The recompute inside the sweep (`manager.go:213`) is exposed too: it
  runs before the sweep invalidates the cache.
* `StaticMax` (`README.md:165`, "Static override", and `README.md:389`, "Global VM
  capacity cap"): `maxVMs` only seeds the semaphore. The first sweep replaces it by
  the detected total, and a two-slot Mac gets two VMs under `maxVMs: 1`.

These were met while modelling and have no run of their own:

* "It never deletes a worker that is still live, one with any VM assigned to it"
  (`README.md:222`): which records to prune is decided on the sweep's snapshot. A
  worker that reconnects before `DeleteWorker` (`cleanup.go:338`) is live, and may
  have been given a VM, when its record goes. The README's next sentence (it
  registers again) is why this loses little.
* A hydration without any snapshot (`bridge.go:116`) adopts nothing and is only
  warned of (`manager.go:368`): the VMs of the earlier process run on untracked, the
  ends of their jobs are those of unknown runners, and the age limits remove them.
* Shares are recomputed "whenever the shared worker pool changes"
  (`manager.go:162`), but the callback runs only when the total of slots changes
  between two sweeps. A worker that drops out while the shares are recomputed and
  is back before the next sweep leaves its scale set at zero.
* With two scale sets a listener's first poll may well carry a maximum of zero
  (`manager.go:262` says GitHub never sees it): the other set's VMs, adopted or
  new, can take up the whole fleet between the wait and the recompute.
* After a restart the sweep may delete an old VM and purge it before the listener
  hydrates from the snapshot that still has it (`bridge.go:119`). The VM stays in
  `activeVMs` for good and the set is one runner short.
* A sweep's delete that took effect but reported an error leaves the VM in
  `activeVMs` in the same way (`cleanup.go:423`).
* A VM created, finished and marked for deletion during one long sweep is unmarked
  by that sweep (`cleanup.go:240`) and stays until `maxAge`.
* A scale-up uses a snapshot returned with an error (`bridge.go:159`), where
  `stateview.go:72` says that scaling decisions skip.
* A scale set whose sanitized name has 50 characters or more leaves no room for the
  uuid: its VM names are all equal (`vm.go:20` says unique), do not start with the
  scale set's prefix (`vm_test.go:48` says that any name does), and a restarted
  bridge forgets the VM or attributes it to another set. `Validate` bounds no name.
* Two scale sets whose names sanitize alike, which `Validate` accepts, both adopt
  each other's VMs after a restart.

Three more limits came out of the proofs, as hypotheses that a theorem of section 5
could not do without; TLC finds a counterexample when the hypothesis is dropped:

* `SharesArePlaceable` needs hosts that carry the same pin label by mistake to have
  the same other labels. Otherwise a VM pinned for a host with more labels, once
  that host is silent, is not counted against the twin (`manager.go:526` matches by
  all labels) while placement refuses the twin (`autosize.go:146` matches by the pin).
* `EachTracksItsOwn` needs that no uuid makes a VM's name equal to one that was cut
  for lack of room. Otherwise a bridge that still tracks a VM deleted by another
  bridge takes over the next VM of that name.
* `FleetIsNotOversold` needs one life of the process: after a crash one listener may
  scale up before another has adopted what hydration will find. It also needs a
  maximum that fits the fleet: `New` counts paused workers, and takes `maxVMs` as is.

## 5. Proofs

**StateViewProofs** proves, for any set of callers and any bounds, the type
invariant (`TypeCorrect`), `SingleFlight` (`OneRefreshAtATime`) and the four
action properties (`JoinersLearnFailure`, `GetsServeTheLatest`,
`NoSnapshotGoesBack`, `LeadersSeeThePast`). Assumptions: the bounds are naturals
and `NoSnap` is no snapshot and no version.

The properties are not inductive by themselves. The invariant `IInv` adds:

* `CacheIsLatest` - `s.snap` is nil or the snapshot published last, and a
  leader's `lastSnap` likewise; with single flight nobody publishes while it
  leads, so `lastSnap` is still the latest when it fails.
* `PastBounds` - whatever was recorded (the published snapshot, the lists a
  leader holds, the moment a call began) is not newer than the tables.
* `ListsAdvance` - the lists a leader holds are at least as new as the snapshot
  published last, and as the table when its call began.
* `WokenKnows` - a joiner that has been woken finds either an error recorded or
  a generation newer than its call's; a woken joiner survives later refreshes
  because each of them either publishes or records its own error.

`InitIInv`, `NextTypeOK`, `NextSingleFlight` and `NextHistory` show that it holds
at first and is preserved, one step per action; each property then follows from
`IInv` and the action that makes a `Get` return.

**ConfigProofs** proves, for every set of files, every environment and all values
of the defaults, that a running process has its thresholds in order
(`ThresholdsHold`) and that a file without `workerPruneAfter` is never rejected on
its account (`OldFilesStillStart`). The first rests on the lemma
`AcceptedIsOrdered`: `Validate` makes each duration that is set a positive number,
so that the threshold in force is the one `Validate` has compared; for an explicit
prune threshold its comparison decides, for an unset one the suppression of the
default. The second needs the invariant that a rejected configuration is one
`Validate` refuses and has all its fields. Assumptions: the defaults are positive,
`Unset` and `Bad` are no numbers, a file has the fields of `Config`.

**FleetProofs** proves two facts for every fleet. `CandidatesAreSizable`: a worker
that passes `AutoSizeExclusionReason` always gives `AutoSizedVM` at least one core
and one MiB, so the two copies of the rule agree. `FreePinsAreDistinct`: the
workers a scale-up may use have distinct pins, and none of these is held by a VM
that is pending or whose worker is no longer live. It also has the lemmas on sums
(`SumSplit`, `SumUpdate`, `SumCovers`, ...) and on `Max` and `Min` that the other
modules cite. Assumption: `None` is no number.

**PlacementProofs** proves, for any hosts, names, labels, renames and VMs, the type
invariant, `OneVMPerHost` (`HostsAreNotShared`) and `ShareIsPlaceable`
(`SharesArePlaceable`, under `TwinsAlike`). The invariant says that a record
describes the host it belongs to (`RecordsDescribeHosts`), that a host is connected
under a record of its own, that a VM keeps the pin it was placed with and the record
of the host it runs on (`VMsKeepTheirPin`: a record with a VM is not pruned), that
some host with its pin has its labels (`VMsFitTheirPin`), and that no two living VMs
have the same pin (`PinsAreExclusive`). The last one is what the pin rules achieve;
it is preserved by `PlaceAutoSize` because `managedPinIdentities` holds exactly the
pins of living VMs (`AliveHoldsItsPin`, `HeldByAlive`). For the share, every
candidate that placement refuses is matched to one VM that the share leaves out
(`RefusedIsSubtracted`), and pins make that matching one to one.

**ManagerProofs** is about the whole process with every failure, sweep and restart,
for any scale sets and fleet. The invariant `IInv` has one part per kind of state.
Its heart is `Views`: any list of VMs in the cache, in a leader's hands or in a
caller's is from the *past* of Orchard's table: a name has the owner it had, names
are not used again, and what had ended then has ended or is gone. A step of the
system only lets VMs grow old (`VMsGrowOld`), so a past list stays one
(`PastStays`), however late it is used. `TypeCorrect` follows, the semaphore's
floor included. `YoungJobsAreSafe` adds two facts: whoever is about to delete a VM
after its job has acknowledged the job's end (`AckedFirst`), and what a sweep has
condemned is old, has ended or is gone (`DoomedIsOld`), which stays true while the
sweep works off its list. `ReportsStayCurrent` rests on `ObserveIsExact`: comparing
exclusions by three fields misses no change, and each series that is deleted is one
that exists.

**SlotProofs** is about the semaphore between two sweeps (`Sweeps = FALSE`: the
sweep's `Reconcile` is what breaks it, run `OverProvision`), with any number of
listeners. `Owned` says that a VM is tracked, in the hands of a handler, or pending,
never two of these, and only by its owner; that hydration finds nothing tracked; and
that what is about to be adopted is what hydration counted. Every step of a listener
then `Keeps`, `Joins`, `Takes`, `Gives` or `Abandons` slots (`Moves`), which gives
both `SlotsStayAccounted` (the sum over the scale sets changes by what one of them
changes) and, step by step, the refinement `SlotsAreAPool`: initial states map to
initial states, each step to one of SlotPool or to a stutter, a restart to `Reset`.
`FleetIsNotOversold` adds `Supplied`: every VM was created by this process and is
tracked, in a handler's hands or pending, so that the exact count bounds the fleet;
it assumes `OneLife` and `MaxFits` (section 4).

**DeploymentProofs** proves `NamesTellScaleSets` for names of any length: the
characters of a uuid contain no hyphen, so that a name with room for one is matched
by the scale sets of the same sanitized name and by no others, be they prefixes of
each other. `Named` says that each VM carries a name that some file
gives it and that the bridges are those of the file in force. `NoVMIsForgotten` adds
`Inherits`: every list that can have been read since the process started has the VMs
of earlier processes, as alive if they still are, so that neither an old list at
hydration nor one at `retainPendingDeletes` misses them; and a handler has one VM at
a time in its hands. A VM then leaves `active`, `ending` and `pending` together only
when it is gone from Orchard. `EachTracksItsOwn` needs that a bridge tracks what it
has matched or named (`Tracked`), under `ClashFree` (section 4). Assumptions: a uuid is a
non-empty sequence of lower-case characters, a hyphen is none.

**PollProofs** proves `FirstPollHasCapacity` (`FirstPollsAreFed`) for a fleet from
which no worker goes and none is paused and for one scale set at most, with crashes,
sweeps, prunes, failing lists and workers that were offline from the start. `Steady`:
every list of workers that the process holds, however old, shows the same live ones,
and no sweep is about to prune one of these. `Fed`: a scale set past the wait for
workers has been told of at least one job, and no share that is computed and not yet
pushed is zero. Both hypotheses are needed (section 4).

All safety properties of the passing runs are thereby proved; the runs show them on
instances with the mutants that break them. The hypotheses of the theorems hold in
the runs that check the same property (`ScaleUp`, `Placement`, `Deployment`,
`Drain`), and dropping any one of them lets TLC find a violation.

Assumptions on the constants are named in the modules that declare them
(`BridgeState`, `Placement`, `Names`, `Deployment`, ...) and evaluated by TLC: finite
sets of scale sets, VMs and machines, records of the right shape, `None` outside of
them, thresholds as `ThresholdsHold` establishes them.

Only model-checked: everything under fairness (`GetReturns`, `EventuallyDrained`,
`EventuallyListening`, `JobsServed`, `CapacityFollowsFleet`,
`ExclusionsAreReported`), since liveness is outside what TLAPS proves here.

## 6. Running

```
tlc -config MCScaleUp.cfg MCManager
tlc -config MCPlacement.cfg MCPlacement
tlc -config MCStateViewClients.cfg StateViewClients
tlc -config MCDeployment.cfg MCDeployment
tlapm StateViewProofs.tla
tlapm FleetProofs.tla
tlapm ConfigProofs.tla
tlapm PlacementProofs.tla
tlapm ManagerProofs.tla
tlapm SlotProofs.tla
tlapm DeploymentProofs.tla
tlapm PollProofs.tla
```

`PROJECT.json` names the module of every configuration.

## 7. Plan

Done: StateView with its proofs, the fleet arithmetic, placement, the composed
manager with sweep, crash, sessions and unreliable RPCs, the slot pool it
implements, the eligibility monitor, configuration, names and deployment; proofs of
every safety property of the passing runs.

Next, in this order:

1. Safety facts behind the liveness properties that can be proved without fairness:
   what one undisturbed sweep leaves behind (the semaphore's maximum is the total of
   the list it read, the reports are those of that list), and that a `Get` in flight
   always has a leader.
2. Weaker forms of the contradicted claims that do hold: a prune never hits a record
   that was live in the snapshot the sweep decided on; two VMs on one worker come
   from two scale sets or from a snapshot older than the first.
3. How far `FleetIsNotOversold` extends across a restart when all listeners adopt
   before the first one scales up.
4. Larger runs where the state space allows: VMs on workers that leave, and two
   scale sets with the sweep.

## 8. Not modelled

YAML parsing, GitHub credentials beyond their presence, ports and log levels;
labels and runner groups of a scale set's registration (only that it may fail);
the field-by-field conversions of the Orchard client; the startup script (text for
the guest); deregistration of runners (best effort, its result is only logged);
counters, the text format of metrics and health endpoints (nothing reads them
back); chart and image. None of them feeds back into the state above.
