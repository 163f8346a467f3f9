----------------------------- MODULE Deployment -----------------------------
(***************************************************************************)
(* main.go over its lifetimes: the process is started with whatever the    *)
(* configuration file says at that moment, exits if Load rejects it, and   *)
(* otherwise finds the VMs of earlier processes by their names alone.      *)
(***************************************************************************)
EXTENDS Config, Names, FiniteSets

CONSTANTS RawConfigs,  \* the configuration files an operator may write
          Env,         \* the process environment
          UUIDs,       \* the short uuids that VMName may draw
          MaxVMs       \* bound on the VMs that exist at a time

Fields == {"address", "maxVMAge", "maxPendingAge", "workerStaleAfter", "workerPruneAfter",
           "github", "scaleSets"}

ASSUME FilesAssumption ==
    \A c \in RawConfigs :
        /\ DOMAIN c = Fields
        /\ \A i \in DOMAIN c.scaleSets : /\ DOMAIN c.scaleSets[i] = {"name", "url", "image", "cpu"}
                                         /\ c.scaleSets[i].name \in Seq(STRING)

\* uuid.New().String()[:8]: hexadecimal digits, up to the first hyphen.
ASSUME UUIDsAssumption == UUIDs \subseteq Seq(LowerCase) \ {<<>>}

VARIABLES status,    \* "down", "up", or "rejected" by Load
          cfg,       \* the configuration last read
          limits,    \* the thresholds in force
          \* memory of the process; a bridge is known by its position in the file
          hydrated,  \* the bridges past HydrateFromOrchard
          active,    \* activeVMs of each bridge
          ending,    \* per bridge, the VM whose job's end it is handling, if any
          pending,   \* Cleanup.pendingDeletes
          snap,      \* a list of the VMs that was read since the start: none or one
          \* Orchard
          vms,       \* its VMs: name -> name of the scale set it was made for
          ended,     \* those that have stopped or failed
          \* history, read by no guard
          adopters,  \* the bridges that were given a list when they hydrated
          inherited  \* the VMs of earlier processes that are still there

procVars == <<status, cfg, limits>>
memVars  == <<hydrated, adopters, active, ending, pending, snap>>
orchard  == <<vms, ended, inherited>>
vars     == <<procVars, memVars, orchard>>

NoCfg == [scaleSets |-> <<>>]

Init ==
    /\ status = "down" /\ cfg = NoCfg /\ limits = <<>>
    /\ hydrated = {} /\ adopters = {} /\ active = <<>> /\ ending = <<>>
    /\ pending = {} /\ snap = {}
    /\ vms = <<>> /\ ended = {} /\ inherited = {}

NameOf(i) == cfg.scaleSets[i].name

\* A process has as many bridges as its file has scale sets, and nothing in memory.
Empty(bridges) ==
    /\ hydrated' = {} /\ adopters' = {}
    /\ active' = [i \in bridges |-> {}] /\ ending' = [i \in bridges |-> {}]
    /\ pending' = {} /\ snap' = {}

\* main: Load, New, Run.
Start(c) ==
    /\ status # "up"
    /\ cfg' = Loaded(c, Env)
    /\ Validate(cfg')
    /\ status' = "up" /\ limits' = Thresholds(cfg')
    /\ Empty(DOMAIN cfg'.scaleSets)
    /\ inherited' = DOMAIN vms
    /\ UNCHANGED <<vms, ended>>

StartRejected(c) ==
    /\ status # "up"
    /\ cfg' = Loaded(c, Env)
    /\ ~Validate(cfg')
    /\ status' = "rejected" /\ limits' = <<>>
    /\ Empty({}) /\ inherited' = {}
    /\ UNCHANGED <<vms, ended>>

Down ==
    /\ status = "up" /\ status' = "down" /\ cfg' = NoCfg /\ limits' = <<>>
    /\ Empty({}) /\ inherited' = {}

Crash == Down /\ UNCHANGED <<vms, ended>>

----------------------------------------------------------------------------
\* What StateView.Get hands out: nothing when no list can be had, or a list of
\* the VMs and their status, read now or at any moment since the start.
Now == [all |-> DOMAIN vms, alive |-> DOMAIN vms \ ended]
Lists == snap \cup {Now}
Listed == UNION {list.all : list \in Lists}

Refresh ==
    /\ status = "up"
    /\ snap' = {Now}
    /\ UNCHANGED <<procVars, hydrated, adopters, active, ending, pending, orchard>>

\* HydrateFromOrchard adopts the VMs of the list that match by name and have not
\* ended ...
Hydrate(i) ==
    /\ i \in DOMAIN active \ hydrated
    /\ hydrated' = hydrated \cup {i} /\ adopters' = adopters \cup {i}
    /\ \E list \in Lists :
          active' = [active EXCEPT ![i] = ManagedVMsForScaleSet(list.alive, NameOf(i))]
    /\ UNCHANGED <<procVars, ending, pending, snap, orchard>>

\* ... or is given none; runScaleSet warns and goes on.
HydrateFails(i) ==
    /\ i \in DOMAIN active \ hydrated
    /\ hydrated' = hydrated \cup {i}
    /\ UNCHANGED <<procVars, adopters, active, ending, pending, snap, orchard>>

\* Bridge i has hydrated and its listener is between two handlers.
Listening(i) == i \in hydrated /\ ending[i] = {}

Appears(i, uuid) ==
    LET name == VMName(NameOf(i), uuid) IN
    /\ name \notin DOMAIN vms /\ Cardinality(DOMAIN vms) < MaxVMs
    /\ vms' = [n \in DOMAIN vms \cup {name} |-> IF n = name THEN NameOf(i) ELSE vms[n]]
    /\ UNCHANGED ended

\* createOneVM.
CreateVM(i, uuid) ==
    /\ Listening(i)
    /\ Appears(i, uuid)
    /\ active' = [active EXCEPT ![i] = @ \cup {VMName(NameOf(i), uuid)}]
    /\ UNCHANGED <<procVars, hydrated, adopters, ending, pending, snap, inherited>>

\* Orchard refuses the name or the VM, or its reply is lost: the error ends the
\* process.
CreateFails(i, uuid) ==
    /\ Listening(i)
    /\ Down
    /\ Appears(i, uuid) \/ UNCHANGED <<vms, ended>>

----------------------------------------------------------------------------
\* VM n is gone from Orchard.
Gone(n) ==
    /\ vms' = [m \in DOMAIN vms \ {n} |-> vms[m]]
    /\ ended' = ended \ {n} /\ inherited' = inherited \ {n}

\* HandleJobCompleted, under b.mu: the VM is not tracked any more ...
HandleJobCompleted(i, n) ==
    /\ Listening(i) /\ n \in active[i]
    /\ active' = [active EXCEPT ![i] = @ \ {n}]
    /\ ending' = [ending EXCEPT ![i] = {n}]
    /\ UNCHANGED <<procVars, hydrated, adopters, pending, snap, orchard>>

\* ... then it is deleted ...
DeleteVM(i, n) ==
    /\ n \in ending[i]
    /\ Gone(n)
    /\ ending' = [ending EXCEPT ![i] = {}]
    /\ UNCHANGED <<procVars, hydrated, adopters, active, pending, snap>>

\* Plausible defect: a failed delete is only logged.
DeleteVMFails_OnlyLogged(i, n) ==
    /\ n \in ending[i]
    /\ ending' = [ending EXCEPT ![i] = {}]
    /\ UNCHANGED <<procVars, hydrated, adopters, active, pending, snap, orchard>>

\* ... or the call fails, with or without effect, and cleanup is to try again.
DeleteVMFails(i, n) ==
    /\ n \in ending[i]
    /\ Gone(n) \/ UNCHANGED orchard
    /\ pending' = pending \cup {n}
    /\ ending' = [ending EXCEPT ![i] = {}]
    /\ UNCHANGED <<procVars, hydrated, adopters, active, snap>>

\* The sweep deletes a VM of its list and purges it from every bridge; a delete
\* whose reply is lost purges nothing.
ReapVM(n) ==
    /\ status = "up" /\ n \in Listed
    /\ Gone(n)
    /\ \/ /\ active' = [i \in DOMAIN active |-> active[i] \ {n}]
          /\ pending' = pending \ {n}
       \/ UNCHANGED <<active, pending>>
    /\ UNCHANGED <<procVars, hydrated, adopters, ending, snap>>

\* retainPendingDeletes: a mark on a VM that the sweep's list does not have is dropped.
RetainPendingDeletes ==
    /\ status = "up"
    /\ \E list \in Lists : pending' = pending \cap list.all
    /\ UNCHANGED <<procVars, hydrated, adopters, active, ending, snap, orchard>>

VMEnds(n) ==
    /\ n \in DOMAIN vms \ ended
    /\ ended' = ended \cup {n}
    /\ UNCHANGED <<procVars, memVars, vms, inherited>>

BridgeStep(i) ==
    \/ Hydrate(i) \/ HydrateFails(i)
    \/ \E u \in UUIDs : CreateVM(i, u) \/ CreateFails(i, u)
    \/ \E n \in active[i] : HandleJobCompleted(i, n)
    \/ \E n \in ending[i] : DeleteVM(i, n) \/ DeleteVMFails(i, n)

Next ==
    \/ \E c \in RawConfigs : Start(c) \/ StartRejected(c)
    \/ \E i \in DOMAIN active : BridgeStep(i)
    \/ \E n \in Listed : ReapVM(n)
    \/ \E n \in DOMAIN vms : VMEnds(n)
    \/ Refresh \/ RetainPendingDeletes \/ Crash

Spec == Init /\ [][Next]_vars

----------------------------------------------------------------------------
\* "so a worker the bridge still counts as live is never pruned" and "the default
\* must never prune a worker the bridge still counts as live"
\* (SetWorkerPruneAfter, WorkerPruneAfterDuration): whatever file Load lets
\* through, pruning is off or starts beyond the staleness threshold in force,
\* and no default or override leaves an age limit without a value.
ThresholdsOrdered ==
    status = "up" =>
        /\ limits.prune = 0 \/ limits.prune > limits.stale
        /\ limits.stale > 0 /\ limits.maxAge > 0 /\ limits.pending > 0

\* "An unset one never fails validation ... so a config with a long
\* workerStaleAfter that was valid before workerPruneAfter existed still starts"
\* (Validate): a file without workerPruneAfter is rejected only if it would be
\* with pruning turned off too.
UnsetPruneNeverRejects ==
    status = "rejected" /\ cfg.workerPruneAfter = Unset
        => ~Validate([cfg EXCEPT !.workerPruneAfter = 0])

\* A name leaves room for at least one character of the uuid.
Room(name) == Len(VMNamePrefixForScaleSet(name)) < NameLimit

\* "otherwise a VM for scale set "foo-large" would also match scale set "foo""
\* (ManagedVMsForScaleSet): through any sequence of restarts with any files, a
\* bridge never tracks a VM that was made for a scale set with another sanitized
\* name, if that name left room for the uuid.
TracksOnlyItsOwn ==
    \A i \in hydrated : \A n \in active[i] \cap DOMAIN vms :
        Room(vms[n]) => Sanitized(vms[n]) = Sanitized(NameOf(i))

\* "Used to match existing Orchard VMs back to a scale set when hydrating state
\* after a bridge restart" (VMNamePrefixForScaleSet): a VM of an earlier process
\* whose scale set is still configured, once a bridge of that name was given a
\* list to hydrate from, is tracked, in the hands of the handler of its job's end,
\* or queued for deletion, until it has ended: however old the list was, however
\* its delete fails and whatever the sweep that retries it has seen.
NoneForgotten ==
    \A n \in inherited \ ended :
        LET mine == {i \in adopters : Sanitized(NameOf(i)) = Sanitized(vms[n])} IN
        Room(vms[n]) /\ mine # {} =>
            n \in pending \/ \E i \in mine : n \in active[i] \cup ending[i]
============================================================================
