-------------------------- MODULE PlacementProofs --------------------------
(***************************************************************************)
(* AutoSize placement on any fleet, with any number of hosts, hostnames,   *)
(* renames and VMs: no physical host is given a second VM, and no share    *)
(* promises more than placement hands out.                                 *)
(***************************************************************************)
EXTENDS Placement, FleetProofs

\* A worker record describes the host it belongs to.
RecordsDescribeHosts ==
    \A n \in DOMAIN workers :
        LET h == workers[n].host IN
        h \in Hosts /\ workers[n].pin = Spec0[h].pin /\ workers[n].labels = Spec0[h].labels

\* A host is connected under the name of a record of its own.
ConnectedUnderOwnRecord ==
    \A h \in Hosts : hostname[h] # None =>
        hostname[h] \in DOMAIN workers /\ workers[hostname[h]].host = h

\* A VM is placed with a pin, and stays with a record of the host it runs on:
\* that record is not pruned or taken over while the VM is in the table.
VMsKeepTheirPin ==
    \A v \in DOMAIN vms :
        /\ vms[v].pin # None
        /\ vms[v].on # None <=> vms[v].worker # None
        /\ vms[v].worker # None =>
              /\ vms[v].worker \in DOMAIN workers
              /\ workers[vms[v].worker].host = vms[v].on
              /\ workers[vms[v].worker].pin = vms[v].pin

\* A VM carries the labels of some host with its pin.
VMsFitTheirPin ==
    \A v \in DOMAIN vms :
        \E h \in Hosts : Spec0[h].pin = vms[v].pin /\ vms[v].labels \subseteq Spec0[h].labels

\* No two VMs that are alive have the same pin.
PinsAreExclusive ==
    \A u, v \in DOMAIN vms :
        NotTerminal(vms[u]) /\ NotTerminal(vms[v]) /\ vms[u].pin = vms[v].pin => u = v

IInv == /\ TypeOK /\ RecordsDescribeHosts /\ ConnectedUnderOwnRecord
        /\ VMsKeepTheirPin /\ VMsFitTheirPin /\ PinsAreExclusive

----------------------------------------------------------------------------
\* LiveWorkers is a part of the table.
LEMMA LivePart ==
    /\ DOMAIN Live \subseteq DOMAIN workers
    /\ \A n \in DOMAIN Live : Live[n] = workers[n]
  BY DEF Live, LiveWorkers, Only

\* managedPinIdentities holds the pin of every VM that is alive, whether its
\* worker is known, silent or not chosen yet.
LEMMA AliveHoldsItsPin ==
    ASSUME TypeOK, VMsKeepTheirPin, NEW v \in DOMAIN vms, NotTerminal(vms[v])
    PROVE  vms[v].pin \in ManagedPinIdentities(vms, Live)
<1>1. IsManagedVM(vms[v])
  BY TablesAssumption DEF TypeOK, VMRecord, IsManagedVM
<1>2. vms[v].worker # None /\ vms[v].worker \in DOMAIN Live => Live[vms[v].worker].pin = vms[v].pin
  BY LivePart DEF VMsKeepTheirPin
<1>3. vms[v].pin # None
  BY DEF VMsKeepTheirPin
<1> QED
  BY <1>1, <1>2, <1>3, Zenon DEF ManagedPinIdentities

\* ... and nothing else.
LEMMA HeldByAlive ==
    ASSUME VMsKeepTheirPin, NEW p \in ManagedPinIdentities(vms, Live)
    PROVE  \E v \in DOMAIN vms : NotTerminal(vms[v]) /\ vms[v].pin = p
<1>1. PICK v \in DOMAIN vms :
         /\ NotTerminal(vms[v])
         /\ p = IF vms[v].worker # None /\ vms[v].worker \in DOMAIN Live
                THEN Live[vms[v].worker].pin ELSE vms[v].pin
  BY Zenon DEF ManagedPinIdentities
<1>2. vms[v].worker # None /\ vms[v].worker \in DOMAIN Live => Live[vms[v].worker].pin = vms[v].pin
  BY LivePart DEF VMsKeepTheirPin
<1> QED
  BY <1>1, <1>2

\* The worker that placement picks is known, has a pin, and nothing alive has it.
LEMMA PlacedOnFreePin ==
    ASSUME IInv, NEW s \in ScaleSets,
           NEW n \in FreeAutoSizeWorkers(Live, vms, Settings[s].labels, Settings[s].reserve)
    PROVE  /\ n \in DOMAIN workers /\ Live[n] = workers[n]
           /\ workers[n].pin # None
           /\ Settings[s].labels \subseteq workers[n].labels
           /\ \A v \in DOMAIN vms : NotTerminal(vms[v]) => vms[v].pin # workers[n].pin
<1>1. /\ n \in DOMAIN Live /\ MatchesLabels(Live[n], Settings[s].labels)
      /\ AutoSizeExclusionReason(Live, n, Settings[s].reserve) = "eligible"
      /\ Live[n].pin \notin ManagedPinIdentities(vms, Live)
  BY DEF FreeAutoSizeWorkers, AutoSizeCandidates
<1>2. Live[n].pin # None
  BY <1>1 DEF AutoSizeExclusionReason
<1> QED
  BY <1>1, <1>2, LivePart, AliveHoldsItsPin DEF IInv, MatchesLabels

----------------------------------------------------------------------------
\* An empty fleet without VMs satisfies everything.
LEMMA InitIInv == Init => IInv
<1> SUFFICES ASSUME Init PROVE IInv
  OBVIOUS
<1>1. DOMAIN workers = {} /\ DOMAIN vms = {}
  BY DEF Init
<1> QED
  BY <1>1, BoundsAssumption DEF Init, IInv, TypeOK, RecordsDescribeHosts, ConnectedUnderOwnRecord, VMsKeepTheirPin,
     VMsFitTheirPin, PinsAreExclusive

\* A host registers under a hostname, new or its own.
LEMMA ConnectIInv ==
    ASSUME IInv, NEW h \in Hosts, NEW n \in Names, Connect(h, n)
    PROVE  IInv'
<1> DEFINE rec == [host |-> h, labels |-> Spec0[h].labels, pin |-> Spec0[h].pin,
                   slots |-> Spec0[h].slots, cores |-> Spec0[h].cores, mem |-> Spec0[h].mem,
                   paused |-> n \in DOMAIN workers /\ workers[n].paused,
                   age |-> IF h \in Unreported THEN None ELSE 0]
<1>1. workers' = With(workers, n, rec)
  BY DEF Connect
<1>2. /\ rec.host = h /\ rec.pin = Spec0[h].pin /\ rec.labels = Spec0[h].labels
      /\ rec \in WorkerRecord
  BY BoundsAssumption DEF WorkerRecord
<1> HIDE DEF rec
<1>3. /\ DOMAIN workers' = DOMAIN workers \cup {n} /\ workers'[n] = rec
      /\ \A m \in DOMAIN workers \ {n} : workers'[m] = workers[m]
  BY <1>1 DEF With
<1>4. n \notin DOMAIN workers \/ workers[n].host = h
  BY DEF Connect, Owned
<1>5. RecordsDescribeHosts'
  BY <1>2, <1>3 DEF IInv, RecordsDescribeHosts
<1>6. VMsKeepTheirPin'
  BY <1>2, <1>3, <1>4 DEF IInv, VMsKeepTheirPin, RecordsDescribeHosts, Connect
<1>7. TypeOK'
  BY <1>2, <1>3, BoundsAssumption DEF IInv, TypeOK, Connect
<1>8. ConnectedUnderOwnRecord'
  BY <1>2, <1>3 DEF IInv, TypeOK, ConnectedUnderOwnRecord, Connect
<1> QED
  BY <1>5, <1>6, <1>7, <1>8 DEF IInv, VMsFitTheirPin, PinsAreExclusive, Connect

\* Heartbeats come or stay away, an operator pauses a worker.
LEMMA WorkerChangesIInv ==
    ASSUME IInv, (\E n \in Names : Age(n) \/ TogglePaused(n)) \/ (\E h \in Hosts : Heartbeat(h))
    PROVE  IInv'
<1>1. UNCHANGED <<vms, hostname, renames>>
  BY DEF Age, TogglePaused, Heartbeat
<1>2. /\ DOMAIN workers' = DOMAIN workers
      /\ \A n \in DOMAIN workers :
            /\ workers'[n].host = workers[n].host /\ workers'[n].pin = workers[n].pin
            /\ workers'[n].labels = workers[n].labels
            /\ workers'[n] \in WorkerRecord
  <2>1. CASE \E m \in DOMAIN workers, a \in Ages : workers' = [workers EXCEPT ![m].age = a]
    BY <2>1 DEF IInv, TypeOK, WorkerRecord
  <2>2. ASSUME NEW m \in Names, TogglePaused(m)
        PROVE  <1>2!1 /\ <1>2!2
    <3>1. (~workers[m].paused) \in BOOLEAN
      OBVIOUS
    <3>2. PICK b \in BOOLEAN : workers' = [workers EXCEPT ![m].paused = b]
      BY <2>2, <3>1, Zenon DEF TogglePaused
    <3> QED
      BY <3>2 DEF IInv, TypeOK, WorkerRecord
  <2> QED
    BY <2>1, <2>2, BoundsAssumption DEF Age, Heartbeat
<1> QED
  BY <1>1, <1>2 DEF IInv, TypeOK, RecordsDescribeHosts, ConnectedUnderOwnRecord, VMsKeepTheirPin,
     VMsFitTheirPin, PinsAreExclusive

\* A host goes down.
LEMMA DisconnectIInv ==
    ASSUME IInv, NEW h \in Hosts, Disconnect(h)
    PROVE  IInv'
  BY DEF Disconnect, IInv, TypeOK, RecordsDescribeHosts, ConnectedUnderOwnRecord, VMsKeepTheirPin,
     VMsFitTheirPin, PinsAreExclusive

\* The sweep prunes records that no VM refers to.
LEMMA PruneIInv ==
    ASSUME IInv, Prune
    PROVE  IInv'
<1> DEFINE gone == Prunable(workers, vms, StaleAfter, PruneAfter)
<1>1. \A v \in DOMAIN vms : vms[v].worker \notin gone
  BY DEF Prunable
<1>2. /\ UNCHANGED <<vms, renames>> /\ hostname' \in [Hosts -> Names \cup {None}]
      /\ \A h \in Hosts : hostname'[h] # None =>
            hostname'[h] = hostname[h] /\ hostname'[h] \in DOMAIN workers'
  BY DEF Prune, IInv, TypeOK
<1>3. /\ DOMAIN workers' = DOMAIN workers \ gone
      /\ \A n \in DOMAIN workers' : workers'[n] = workers[n]
  BY DEF Prune, Drop, Only
<1> HIDE DEF gone
<1> QED
  BY <1>1, <1>2, <1>3 DEF IInv, TypeOK, RecordsDescribeHosts, ConnectedUnderOwnRecord, VMsKeepTheirPin,
     VMsFitTheirPin, PinsAreExclusive

\* Orchard gives a pending VM to a worker with its pin.
LEMMA ScheduleIInv ==
    ASSUME IInv, NEW v \in VMIds, NEW h \in Hosts, Schedule(v, h)
    PROVE  IInv'
<1> DEFINE n == hostname[h]
<1>1. /\ v \in DOMAIN vms /\ vms[v].worker = None /\ n \in DOMAIN workers
      /\ NotTerminal(vms[v]) /\ workers[n].pin = vms[v].pin
  BY DEF Schedule, CouldHost, IInv, VMsKeepTheirPin, NotTerminal
<1>2. /\ UNCHANGED <<workers, hostname, renames>> /\ DOMAIN vms' = DOMAIN vms
      /\ \A u \in DOMAIN vms :
            /\ vms'[u] \in VMRecord /\ vms'[u].labels = vms[u].labels /\ vms'[u].pin = vms[u].pin
            /\ u # v => vms'[u] = vms[u]
      /\ vms'[v].worker = n /\ vms'[v].on = h
  <2> DEFINE run == [vms[v] EXCEPT !.worker = n, !.on = h, !.status = "running"]
  <2>1. vms[v] \in VMRecord /\ n \in Names
    BY <1>1 DEF IInv, TypeOK
  <2>2. /\ run \in VMRecord /\ run.labels = vms[v].labels /\ run.pin = vms[v].pin
        /\ run.worker = n /\ run.on = h
    BY <2>1 DEF VMRecord
  <2>3. vms' = [vms EXCEPT ![v] = run]
    BY <1>1, <2>1 DEF Schedule, VMRecord
  <2> HIDE DEF run
  <2>4. UNCHANGED <<workers, hostname, renames>>
    BY DEF Schedule
  <2> QED
    BY <1>1, <2>2, <2>3, <2>4 DEF IInv, TypeOK
<1>3. workers[n].host = h
  BY <1>1, TablesAssumption DEF IInv, TypeOK, ConnectedUnderOwnRecord
<1> QED
  BY <1>1, <1>2, <1>3, TablesAssumption DEF IInv, TypeOK, RecordsDescribeHosts, ConnectedUnderOwnRecord,
     VMsKeepTheirPin, VMsFitTheirPin, PinsAreExclusive

\* A VM ends, or is deleted.
LEMMA EndIInv ==
    ASSUME IInv, NEW v \in VMIds, Finish(v) \/ Delete(v)
    PROVE  IInv'
<1>1. /\ UNCHANGED <<workers, hostname, renames>>
      /\ DOMAIN vms' \subseteq DOMAIN vms
  BY DEF Finish, Delete, Drop, Only
<1>2. \A u \in DOMAIN vms' :
         /\ vms'[u] \in VMRecord /\ vms'[u].labels = vms[u].labels
         /\ vms'[u].pin = vms[u].pin /\ vms'[u].worker = vms[u].worker /\ vms'[u].on = vms[u].on
         /\ NotTerminal(vms'[u]) => NotTerminal(vms[u])
  BY DEF Finish, Delete, Drop, Only, IInv, TypeOK, VMRecord, NotTerminal
<1> QED
  BY <1>1, <1>2 DEF IInv, TypeOK, RecordsDescribeHosts, ConnectedUnderOwnRecord, VMsKeepTheirPin,
     VMsFitTheirPin, PinsAreExclusive

\* A VM is created on a free pin.
LEMMA PlaceIInv ==
    ASSUME IInv, NEW v \in VMIds, NEW s \in ScaleSets, PlaceAutoSize(s, v)
    PROVE  IInv'
<1>1. PICK n \in FreeAutoSizeWorkers(Live, vms, Settings[s].labels, Settings[s].reserve) :
         vms' = With(vms, v, [owner |-> s, worker |-> None, on |-> None, status |-> "creating",
                              labels |-> Settings[s].labels, pin |-> Live[n].pin])
  BY DEF PlaceAutoSize
<1>2. /\ n \in DOMAIN workers /\ Live[n] = workers[n] /\ workers[n].pin # None
      /\ Settings[s].labels \subseteq workers[n].labels
      /\ \A u \in DOMAIN vms : NotTerminal(vms[u]) => vms[u].pin # workers[n].pin
  BY PlacedOnFreePin
<1> DEFINE new == [owner |-> s, worker |-> None, on |-> None, status |-> "creating",
                   labels |-> Settings[s].labels, pin |-> workers[n].pin]
<1>3. vms' = With(vms, v, new)
  BY <1>1, <1>2
<1>4. /\ new \in VMRecord /\ new.labels = Settings[s].labels
      /\ new.pin = workers[n].pin /\ new.worker = None /\ new.on = None
  BY <1>2 DEF VMRecord, IInv, TypeOK, WorkerRecord
<1> HIDE DEF new
<1>5. /\ DOMAIN vms' = DOMAIN vms \cup {v} /\ v \notin DOMAIN vms /\ vms'[v] = new
      /\ \A u \in DOMAIN vms : vms'[u] = vms[u]
  BY <1>3 DEF With, PlaceAutoSize
<1>6. UNCHANGED <<workers, hostname, renames>>
  BY DEF PlaceAutoSize
<1>7. TypeOK' /\ RecordsDescribeHosts' /\ ConnectedUnderOwnRecord'
  BY <1>4, <1>5, <1>6 DEF IInv, TypeOK, RecordsDescribeHosts, ConnectedUnderOwnRecord
<1>8. VMsKeepTheirPin'
  BY <1>2, <1>4, <1>5, <1>6 DEF IInv, VMsKeepTheirPin
<1>9. VMsFitTheirPin'
  BY <1>2, <1>4, <1>5, <1>6 DEF IInv, VMsFitTheirPin, RecordsDescribeHosts
<1>10. PinsAreExclusive'
  BY <1>2, <1>4, <1>5 DEF IInv, PinsAreExclusive
<1> QED
  BY <1>7, <1>8, <1>9, <1>10 DEF IInv

----------------------------------------------------------------------------
\* Placement keeps its inductive invariant on every fleet.
THEOREM PlacementInvariant == Spec => []IInv
<1>1. IInv /\ [Next]_vars => IInv'
  <2> SUFFICES ASSUME IInv, [Next]_vars PROVE IInv'
    OBVIOUS
  <2>1. CASE UNCHANGED vars
    BY <2>1 DEF vars, IInv, TypeOK, RecordsDescribeHosts, ConnectedUnderOwnRecord,
       VMsKeepTheirPin, VMsFitTheirPin, PinsAreExclusive
  <2>2. ASSUME NEW h \in Hosts, Disconnect(h) PROVE IInv'
    BY <2>2, DisconnectIInv
  <2>3. ASSUME NEW h \in Hosts, NEW n \in Names, Connect(h, n) PROVE IInv'
    BY <2>3, ConnectIInv
  <2>4. CASE (\E n \in Names : Age(n) \/ TogglePaused(n)) \/ (\E h \in Hosts : Heartbeat(h))
    BY <2>4, WorkerChangesIInv
  <2>5. ASSUME NEW v \in VMIds, Finish(v) \/ Delete(v) PROVE IInv'
    BY <2>5, EndIInv
  <2>6. ASSUME NEW v \in VMIds, NEW h \in Hosts, Schedule(v, h) PROVE IInv'
    BY <2>6, ScheduleIInv
  <2>7. ASSUME NEW v \in VMIds, NEW s \in ScaleSets, PlaceAutoSize(s, v) PROVE IInv'
    BY <2>7, PlaceIInv
  <2>8. CASE Prune
    BY <2>8, PruneIInv
  <2> QED
    BY <2>1, <2>2, <2>3, <2>4, <2>5, <2>6, <2>7, <2>8 DEF Next
<1> QED
  BY InitIInv, <1>1, PTL DEF Spec

\* Types, for every fleet.
THEOREM TypeCorrect == Spec => []TypeOK
<1>1. IInv => TypeOK
  BY DEF IInv
<1> QED
  BY PlacementInvariant, <1>1, PTL

\* No physical host is ever given a second VM: whoever claims a host has the
\* host's pin, and pins are exclusive.
THEOREM HostsAreNotShared == Spec => []OneVMPerHost
<1>1. IInv => OneVMPerHost
  <2> SUFFICES ASSUME IInv, NEW h \in Hosts, NEW u \in DOMAIN vms, NEW v \in DOMAIN vms,
                      ClaimsHost(u, h), ClaimsHost(v, h)
               PROVE  u = v
    BY DEF OneVMPerHost
  <2>1. \A w \in DOMAIN vms : ClaimsHost(w, h) => NotTerminal(vms[w]) /\ vms[w].pin = Spec0[h].pin
    BY DEF IInv, ClaimsHost, VMsKeepTheirPin, RecordsDescribeHosts
  <2> QED
    BY <2>1 DEF IInv, PinsAreExclusive
<1> QED
  BY PlacementInvariant, <1>1, PTL

\* Hosts that carry the same pin label by mistake are otherwise set up alike.
TwinsAlike ==
    \A g, h \in Hosts : Spec0[g].pin = Spec0[h].pin => Spec0[g].labels = Spec0[h].labels

\* A candidate that placement refuses is taken by a VM of the scale set itself
\* or by one that recomputeScaleSetShares subtracts from its share.
LEMMA RefusedIsSubtracted ==
    ASSUME IInv, TwinsAlike, NEW s \in ScaleSets,
           NEW n \in AutoSizeCandidates(Live, Settings[s].labels, Settings[s].reserve),
           Live[n].pin \in ManagedPinIdentities(vms, Live)
    PROVE  \E v \in DOMAIN vms :
              /\ NotTerminal(vms[v]) /\ vms[v].pin = Live[n].pin
              /\ \/ vms[v].owner = s
                 \/ /\ vms[v].owner \in ScaleSets \ {s}
                    /\ VMConsumesLabeledWorker(vms[v], Live, Settings[s].labels)
<1>1. PICK v \in DOMAIN vms : NotTerminal(vms[v]) /\ vms[v].pin = Live[n].pin
  BY HeldByAlive DEF IInv
<1>2. /\ n \in DOMAIN Live /\ MatchesLabels(Live[n], Settings[s].labels)
      /\ AutoSizeExclusionReason(Live, n, Settings[s].reserve) = "eligible"
  BY DEF AutoSizeCandidates
<1>3. ~PinShared(Live, n)
  BY <1>2 DEF AutoSizeExclusionReason
<1>4. vms[v].owner \in ScaleSets
  BY DEF IInv, TypeOK, VMRecord
<1>5. CASE vms[v].worker # None /\ vms[v].worker \in DOMAIN Live
  <2>1. Live[vms[v].worker].pin = Live[n].pin
    BY <1>1, <1>5, LivePart DEF IInv, VMsKeepTheirPin
  <2>2. vms[v].worker = n
    BY <1>2, <1>3, <1>5, <2>1 DEF PinShared
  <2> QED
    BY <1>1, <1>2, <1>4, <1>5, <2>2 DEF VMConsumesLabeledWorker
<1>6. CASE ~(vms[v].worker # None /\ vms[v].worker \in DOMAIN Live)
  <2>1. vms[v].labels \subseteq Live[n].labels
    BY <1>1, <1>2, LivePart DEF TwinsAlike, IInv, VMsFitTheirPin, RecordsDescribeHosts
  <2>2. CouldHost(Live[n], vms[v])
    BY <1>1, <2>1 DEF CouldHost, MatchesLabels
  <2>3. VMConsumesLabeledWorker(vms[v], Live, Settings[s].labels)
    BY <1>2, <1>6, <2>2 DEF VMConsumesLabeledWorker
  <2> QED
    BY <1>1, <1>4, <2>3
<1> QED
  BY <1>5, <1>6

\* The share pushed to GitHub, less the VMs the scale set has, never exceeds
\* what placement would hand out (recomputeScaleSetShares, freeAutoSizeWorkers):
\* refused candidates map one to one to VMs that the share leaves out.
THEOREM SharesArePlaceable ==
    ASSUME TwinsAlike
    PROVE  Spec => []ShareIsPlaceable
<1>1. IInv => ShareIsPlaceable
  <2> SUFFICES ASSUME IInv, NEW s \in ScaleSets
               PROVE  LET own == {v \in DOMAIN vms : vms[v].owner = s /\ NotTerminal(vms[v])}
                      IN Share(vms, Live, s, Settings[s], ScaleSets) - Cardinality(own)
                           <= Cardinality(FreeAutoSizeWorkers(Live, vms, Settings[s].labels, Settings[s].reserve))
    BY DEF ShareIsPlaceable
  <2> DEFINE own    == {v \in DOMAIN vms : vms[v].owner = s /\ NotTerminal(vms[v])}
             others == {v \in DOMAIN vms :
                           /\ vms[v].owner \in ScaleSets \ {s}
                           /\ NotTerminal(vms[v])
                           /\ VMConsumesLabeledWorker(vms[v], Live, Settings[s].labels)}
             cands  == AutoSizeCandidates(Live, Settings[s].labels, Settings[s].reserve)
             free   == FreeAutoSizeWorkers(Live, vms, Settings[s].labels, Settings[s].reserve)
             taken  == cands \ free
             by     == [n \in taken |-> CHOOSE v \in own \cup others : vms[v].pin = Live[n].pin]
  <2>1. /\ IsFiniteSet(own) /\ IsFiniteSet(others) /\ IsFiniteSet(cands)
    <3>1. own \in SUBSET VMIds /\ others \in SUBSET VMIds
      BY DEF IInv, TypeOK
    <3>2. cands \in SUBSET Names
      BY LivePart DEF AutoSizeCandidates, IInv, TypeOK
    <3> QED
      BY <3>1, <3>2, FS_Subset, TablesAssumption
  <2>2. \A n \in taken : \E v \in own \cup others : vms[v].pin = Live[n].pin
    <3> SUFFICES ASSUME NEW n \in taken
                 PROVE  \E v \in own \cup others : vms[v].pin = Live[n].pin
      OBVIOUS
    <3>1. n \in cands /\ Live[n].pin \in ManagedPinIdentities(vms, Live)
      BY DEF FreeAutoSizeWorkers
    <3> QED
      BY <3>1, RefusedIsSubtracted
  <2>3. \A m, n \in taken : Live[m].pin = Live[n].pin => m = n
    BY DEF AutoSizeCandidates, AutoSizeExclusionReason, PinShared
  <2> HIDE DEF own, others, cands, free
  <2>4. by \in Injection(taken, own \cup others)
    <3>1. \A n \in taken : by[n] \in own \cup others /\ vms[by[n]].pin = Live[n].pin
      BY <2>2
    <3> QED
      BY <3>1, <2>3 DEF Injection, IsInjective
  <2>5. Cardinality(taken) <= Cardinality(own) + Cardinality(others)
    <3>1. IsFiniteSet(own \cup others)
      BY <2>1, FS_Union
    <3>2. Cardinality(taken) <= Cardinality(own \cup others) /\ IsFiniteSet(taken)
      BY <3>1, <2>4, FS_Injection
    <3>3. /\ Cardinality(own \cup others)
               = Cardinality(own) + Cardinality(others) - Cardinality(own \cap others)
          /\ IsFiniteSet(own \cap others)
      BY <2>1, FS_Union, FS_Intersection
    <3>4. /\ Cardinality(own) \in Nat /\ Cardinality(others) \in Nat
          /\ Cardinality(own \cap others) \in Nat /\ Cardinality(taken) \in Nat
      BY <2>1, <3>2, <3>3, FS_CardinalityType
    <3> QED
      BY <3>2, <3>3, <3>4
  <2>6. Cardinality(taken) = Cardinality(cands) - Cardinality(free) /\ IsFiniteSet(free)
    <3>1. free \subseteq cands /\ cands \cap free = free
      BY DEF free, cands, FreeAutoSizeWorkers
    <3>2. IsFiniteSet(free)
      BY <3>1, <2>1, FS_Subset, Zenon
    <3>3. Cardinality(cands \ free) = Cardinality(cands) - Cardinality(cands \cap free)
      BY <2>1, <3>2, FS_Difference, Zenon
    <3>4. taken = cands \ free
      BY DEF taken, free, cands
    <3> QED
      BY <3>1, <3>2, <3>3, <3>4, Zenon
  <2>7. /\ Cardinality(own) \in Nat /\ Cardinality(others) \in Nat
        /\ Cardinality(cands) \in Nat /\ Cardinality(free) \in Nat
    BY <2>1, <2>6, FS_CardinalityType
  <2>8. Share(vms, Live, s, Settings[s], ScaleSets)
           \in {0, Cardinality(cands) - Cardinality(others)}
    <3>1. /\ WorkerCapacity(Live, Settings[s]) = Cardinality(cands)
          /\ OthersActive(vms, Live, s, ScaleSets, Settings[s].labels) = Cardinality(others)
      BY TablesAssumption DEF WorkerCapacity, OthersActive, cands, others
    <3>2. Share(vms, Live, s, Settings[s], ScaleSets) = Max({0, Cardinality(cands) - Cardinality(others)})
      BY <3>1 DEF Share
    <3>3. Cardinality(cands) - Cardinality(others) \in Int /\ 0 \in Int
      BY <2>7
    <3> QED
      BY <3>2, <3>3, MaxOfTwo, Zenon
  <2>9. Share(vms, Live, s, Settings[s], ScaleSets) - Cardinality(own) <= Cardinality(free)
    BY <2>5, <2>6, <2>7, <2>8
  <2> QED
    BY <2>9 DEF own, free
<1> QED
  BY PlacementInvariant, <1>1, PTL
============================================================================
