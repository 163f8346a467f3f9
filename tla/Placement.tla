----------------------------- MODULE Placement -----------------------------
(***************************************************************************)
(* AutoSize placement on a fleet that is renamed, partitioned, paused and  *)
(* pruned, when placement decisions follow one another: each one is made   *)
(* from a snapshot of the present (StateView and Bridge are about what     *)
(* happens when it is not).                                                *)
(*                                                                         *)
(* A host is a physical Mac.  It carries one pin label for life and        *)
(* connects to Orchard under its current hostname, so a rename leaves an   *)
(* old worker record behind while the VM keeps running on the same host.   *)
(* Every VM records in `on' the host it really runs on, which nobody in    *)
(* the code can see.                                                       *)
(***************************************************************************)
EXTENDS Fleet

CONSTANTS
    Hosts,        \* physical machines
    Names,        \* worker names (hostnames)
    VMIds,        \* bound on the VMs in Orchard's table
    ScaleSets,    \* the AutoSize scale sets
    Settings,     \* per scale set [labels, autoSize, reserve]
    Spec0,        \* per host the [labels, pin, slots, cores, mem] it registers with
    Unreported,   \* hosts for which the controller reports a zero LastSeen
    Ages,         \* the ages of a heartbeat that are told apart
    StaleAfter, PruneAfter,
    Renames       \* bound on the changes of hostname

ASSUME PruneAssumption == PruneAfter = 0 \/ PruneAfter > StaleAfter
ASSUME TablesAssumption ==
    /\ IsFiniteSet(Names) /\ IsFiniteSet(VMIds)
    /\ None \notin Names \cup Hosts
    /\ Unmanaged \notin ScaleSets /\ \A s \in ScaleSets : Settings[s].autoSize
ASSUME BoundsAssumption == Ages \subseteq Nat /\ 0 \in Ages /\ Renames \in Nat

VARIABLES
    workers,   \* Orchard's worker table
    vms,       \* Orchard's VM table
    hostname,  \* per host: the name it is connected under, None while down
    renames    \* renames so far

vars == <<workers, vms, hostname, renames>>

Live == LiveWorkers(workers, StaleAfter)

\* No worker has connected yet and no VM exists.
Init ==
    /\ workers = <<>> /\ vms = <<>>
    /\ hostname = [h \in Hosts |-> None]
    /\ renames = 0

With(f, k, x) == [n \in DOMAIN f \cup {k} |-> IF n = k THEN x ELSE f[n]]
Drop(f, S) == Only(f, DOMAIN f \ S)

Owned(h) == {n \in DOMAIN workers : workers[n].host = h}

----------------------------------------------------------------------------
\* A host connects, for the first time or under a new hostname.  The controller
\* refuses a name whose record belongs to another machine.
Connect(h, n) ==
    /\ hostname[h] # n
    /\ n \notin DOMAIN workers \/ n \in Owned(h)
    /\ \A g \in Hosts : hostname[g] # n
    /\ Owned(h) \ {n} # {} => renames < Renames
    /\ renames' = IF Owned(h) \ {n} # {} THEN renames + 1 ELSE renames
    /\ hostname' = [hostname EXCEPT ![h] = n]
    /\ workers' = With(workers, n,
           [host |-> h, labels |-> Spec0[h].labels, pin |-> Spec0[h].pin,
            slots |-> Spec0[h].slots, cores |-> Spec0[h].cores, mem |-> Spec0[h].mem,
            paused |-> n \in DOMAIN workers /\ workers[n].paused,
            age |-> IF h \in Unreported THEN None ELSE 0])
    /\ UNCHANGED vms

Disconnect(h) ==
    /\ hostname[h] # None
    /\ hostname' = [hostname EXCEPT ![h] = None]
    /\ UNCHANGED <<workers, vms, renames>>

\* Time passes without a heartbeat: the host is down, renamed or partitioned.
Age(n) ==
    /\ n \in DOMAIN workers /\ workers[n].age # None
    /\ \E a \in Ages : /\ a > workers[n].age
                       /\ \A b \in Ages : b > workers[n].age => a <= b
                       /\ workers' = [workers EXCEPT ![n].age = a]
    /\ UNCHANGED <<vms, hostname, renames>>

Heartbeat(h) ==
    /\ hostname[h] \in DOMAIN workers /\ workers[hostname[h]].age # None
    /\ workers' = [workers EXCEPT ![hostname[h]].age = 0]
    /\ UNCHANGED <<vms, hostname, renames>>

\* An operator pauses or resumes scheduling on a worker.
TogglePaused(n) ==
    /\ n \in DOMAIN workers
    /\ workers' = [workers EXCEPT ![n].paused = ~@]
    /\ UNCHANGED <<vms, hostname, renames>>

----------------------------------------------------------------------------
\* Orchard schedules a pending VM on a connected worker that carries its labels.
Schedule(v, h) ==
    /\ v \in DOMAIN vms /\ vms[v].worker = None /\ vms[v].status = "creating"
    /\ hostname[h] \in DOMAIN workers
    /\ ~workers[hostname[h]].paused
    /\ CouldHost(workers[hostname[h]], vms[v])
    /\ vms' = [vms EXCEPT ![v].worker = hostname[h], ![v].on = h, ![v].status = "running"]
    /\ UNCHANGED <<workers, hostname, renames>>

\* A VM ends by itself, and a VM is deleted (job completed, cleanup).
Finish(v) ==
    /\ v \in DOMAIN vms /\ NotTerminal(vms[v])
    /\ vms' = [vms EXCEPT ![v].status = "stopped"]
    /\ UNCHANGED <<workers, hostname, renames>>

Delete(v) ==
    /\ v \in DOMAIN vms
    /\ vms' = Drop(vms, {v})
    /\ UNCHANGED <<workers, hostname, renames>>

\* Plausible defect: the worker's Name is merged as the pin.
PlaceAutoSize_PinsName(s, v) ==
    /\ v \notin DOMAIN vms
    /\ \E n \in FreeAutoSizeWorkers(Live, vms, Settings[s].labels, Settings[s].reserve) :
          vms' = With(vms, v,
                 [owner |-> s, worker |-> None, on |-> None, status |-> "creating",
                  labels |-> Settings[s].labels, pin |-> n])
    /\ UNCHANGED <<workers, hostname, renames>>

\* handleAutoSizeScaleUp, one VM of its batch: a free worker, its pin merged
\* into the scale set's labels, the size taken from it.
PlaceAutoSize(s, v) ==
    /\ v \notin DOMAIN vms
    /\ \E n \in FreeAutoSizeWorkers(Live, vms, Settings[s].labels, Settings[s].reserve) :
          /\ AutoSizedVM(Live[n], Settings[s].reserve) # None
          /\ vms' = With(vms, v,
                 [owner |-> s, worker |-> None, on |-> None, status |-> "creating",
                  labels |-> Settings[s].labels, pin |-> Live[n].pin])
    /\ UNCHANGED <<workers, hostname, renames>>

\* The prune step of a sweep.
Prune ==
    /\ Prunable(workers, vms, StaleAfter, PruneAfter) # {}
    /\ workers' = Drop(workers, Prunable(workers, vms, StaleAfter, PruneAfter))
    /\ hostname' = [h \in Hosts |-> IF hostname[h] \in DOMAIN workers' THEN hostname[h] ELSE None]
    /\ UNCHANGED <<vms, renames>>

Next ==
    \/ \E h \in Hosts : Disconnect(h) \/ Heartbeat(h) \/ \E n \in Names : Connect(h, n)
    \/ \E n \in Names : Age(n) \/ TogglePaused(n)
    \/ \E v \in VMIds : \/ Finish(v) \/ Delete(v)
                        \/ \E h \in Hosts : Schedule(v, h)
                        \/ \E s \in ScaleSets : PlaceAutoSize(s, v)
    \/ Prune

Spec == Init /\ [][Next]_vars

----------------------------------------------------------------------------
WorkerRecord ==
    [host : Hosts, age : Ages \cup {None}, paused : BOOLEAN,
     labels : {Spec0[h].labels : h \in Hosts}, pin : {Spec0[h].pin : h \in Hosts},
     slots : {Spec0[h].slots : h \in Hosts}, cores : {Spec0[h].cores : h \in Hosts},
     mem : {Spec0[h].mem : h \in Hosts}]
VMRecord ==
    [owner : ScaleSets, worker : Names \cup {None}, on : Hosts \cup {None},
     status : {"creating", "running", "stopped"},
     labels : {Settings[s].labels : s \in ScaleSets}, pin : {Spec0[h].pin : h \in Hosts}]

\* Both tables only hold records of known names, hosts, pins and scale sets.
TypeOK ==
    /\ DOMAIN workers \subseteq Names /\ DOMAIN vms \subseteq VMIds
    /\ \A n \in DOMAIN workers : workers[n] \in WorkerRecord
    /\ \A v \in DOMAIN vms : vms[v] \in VMRecord
    /\ hostname \in [Hosts -> Names \cup {None}]
    /\ renames \in 0..Renames

\* "One managed VM per worker is enforced by the bridge" (config.AutoSizeConfig)
\* as it matters: no physical host is ever given a second full-size VM while a
\* first one runs on it or is pinned to it, through renames, partitions,
\* hostname reuse, pauses and prunes.
ClaimsHost(v, h) ==
    /\ NotTerminal(vms[v])
    /\ IF vms[v].on # None THEN vms[v].on = h ELSE vms[v].pin = Spec0[h].pin

OneVMPerHost ==
    \A h \in Hosts : \A u, v \in DOMAIN vms : ClaimsHost(u, h) /\ ClaimsHost(v, h) => u = v

\* "keeping the reported share and actual placement in step"
\* (vmConsumesLabeledWorker): the share pushed to GitHub, less the VMs the
\* scale set already has, never exceeds the workers placement would hand out.
\* A job dispatched beyond that would sit acquired with no machine to run it.
ShareIsPlaceable ==
    \A s \in ScaleSets :
        LET own == {v \in DOMAIN vms : vms[v].owner = s /\ NotTerminal(vms[v])}
        IN Share(vms, Live, s, Settings[s], ScaleSets) - Cardinality(own)
             <= Cardinality(FreeAutoSizeWorkers(Live, vms, Settings[s].labels, Settings[s].reserve))

============================================================================
