-------------------------- MODULE StateViewProofs --------------------------
(***************************************************************************)
(* What StateView guarantees to any set of callers, for every bound: the   *)
(* inductive invariant of StateViewClients and what follows from it.       *)
(***************************************************************************)
EXTENDS StateViewClients, TLAPS

\* The cache and the leader's saved copy hold the latest published snapshot or
\* nothing.
CacheIsLatest ==
    /\ snap \in {NoSnap, pub}
    /\ \A p \in Procs : lst[p].last # NoSnap => Leading(p) /\ lst[p].last = pub

\* What was published, and what a caller saw when it began, is in the past.
PastBounds ==
    /\ pub # NoSnap => pub.vms <= vms /\ pub.workers <= workers
    /\ \A p \in Procs : begin[p].gen <= gen /\ begin[p].vms <= vms

\* Lists read by the refresh in flight are at least as new as what is
\* published and as the start of the call that leads it.
ListsAdvance ==
    \A p \in Procs :
        /\ gpc[p] \in {"listing", "listed"} =>
              /\ lst[p].vms \in Nat
              /\ begin[p].vms <= lst[p].vms /\ lst[p].vms <= vms
              /\ pub # NoSnap => pub.vms <= lst[p].vms
        /\ gpc[p] = "listed" =>
              /\ lst[p].workers \in Nat
              /\ lst[p].workers <= workers
              /\ pub # NoSnap => pub.workers <= lst[p].workers

\* A woken joiner either finds the error of the latest refresh or a snapshot
\* published since it began.
WokenKnows ==
    \A p \in Procs : gpc[p] = "woken" => lastErr \/ begin[p].gen < gen

IInv == TypeOK /\ SingleFlight /\ CacheIsLatest /\ PastBounds /\ ListsAdvance /\ WokenKnows

----------------------------------------------------------------------------
\* NewStateView starts in the invariant.
LEMMA InitIInv == Init => IInv
<1> SUFFICES ASSUME Init PROVE IInv
    OBVIOUS
<1> USE DEF Init, ViewInit, NoLists, Nothing
<1>1. TypeOK
    BY DEF TypeOK, MaybeSnap
<1>2. SingleFlight
    BY DEF SingleFlight, Leading
<1>3. CacheIsLatest /\ PastBounds /\ ListsAdvance /\ WokenKnows
    BY DEF CacheIsLatest, PastBounds, ListsAdvance, WokenKnows
<1> QED BY <1>1, <1>2, <1>3 DEF IInv

\* Types are preserved: no step stores anything but versions and snapshots.
LEMMA NextTypeOK == TypeOK /\ SingleFlight /\ ListsAdvance /\ [Next]_vars => TypeOK'
<1> SUFFICES ASSUME TypeOK, SingleFlight, ListsAdvance, [Next]_vars PROVE TypeOK'
    OBVIOUS
<1> USE DEF TypeOK, MaybeSnap, Snapshots, cacheVars, callVars, viewVars, histVars
<1>1. ASSUME NEW p \in Procs, Begin(p) PROVE TypeOK'
    BY <1>1 DEF Begin
<1>2. ASSUME NEW p \in Procs, Consume(p) PROVE TypeOK'
    BY <1>2 DEF Consume, Nothing
<1>3. ASSUME NEW p \in Procs, Publish(p) PROVE TypeOK'
  <2> DEFINE new == Snapshot(lst[p].vms, lst[p].workers)
  <2>1. new \in Snapshots
    BY <1>3 DEF Publish, PublishOk, Snapshot, ListsAdvance
  <2>2. snap' = new /\ pub' = new /\ got' = [got EXCEPT ![p] = [snap |-> new, err |-> FALSE]]
    BY <1>3 DEF Publish, PublishOk, Returns, Result
  <2> HIDE DEF new
  <2>3. snap' \in MaybeSnap /\ pub' \in MaybeSnap
    BY <2>1, <2>2
  <2>4. got' \in [Procs -> [snap : MaybeSnap, err : BOOLEAN]]
    BY <2>1, <2>2
  <2>5. gpc' \in [Procs -> {"idle", "call", "joined", "woken", "lead", "listing", "listed", "ret"}]
    BY <1>3 DEF Publish, PublishOk, Woken
  <2>6. lst' \in [Procs -> [vms : Nat \cup {NoSnap}, workers : Nat \cup {NoSnap}, last : MaybeSnap]]
    BY <1>3 DEF Publish, PublishOk, NoLists
  <2>7. gen' \in Nat
    BY <1>3 DEF Publish
  <2>8. fresh' \in BOOLEAN /\ refreshing' \in BOOLEAN /\ lastErr' \in BOOLEAN
    BY <1>3, Zenon DEF Publish, PublishOk
  <2>0. UNCHANGED <<vms, workers, invAt, begin, calls>>
    BY <1>3 DEF Publish
  <2> QED BY <2>3, <2>4, <2>5, <2>6, <2>7, <2>8, <2>0
<1>4. ASSUME NEW p \in Procs, Read(p) PROVE TypeOK'
  <2>1. CASE GetHit(p)
    BY <1>4, <2>1 DEF Read, GetHit, Returns, Result
  <2>2. CASE GetJoin(p)
    BY <1>4, <2>2 DEF Read, GetJoin
  <2>3. CASE GetLead(p)
    <3>1. [lst[p] EXCEPT !.last = snap] \in
             [vms : Nat \cup {NoSnap}, workers : Nat \cup {NoSnap}, last : MaybeSnap]
      OBVIOUS
    <3>2. lst' = [lst EXCEPT ![p] = [lst[p] EXCEPT !.last = snap]]
      BY <2>3 DEF GetLead
    <3>3. lst' \in [Procs -> [vms : Nat \cup {NoSnap}, workers : Nat \cup {NoSnap}, last : MaybeSnap]]
      BY <3>1, <3>2
    <3>4. gpc' \in [Procs -> {"idle", "call", "joined", "woken", "lead", "listing", "listed", "ret"}]
      BY <2>3 DEF GetLead
    <3> QED BY <1>4, <2>3, <3>3, <3>4 DEF Read, GetLead
  <2>4. CASE ListVMs(p)
    <3>0. lst[p] \in [vms : Nat \cup {NoSnap}, workers : Nat \cup {NoSnap}, last : MaybeSnap]
          /\ vms \in Nat
      OBVIOUS
    <3> HIDE DEF TypeOK, MaybeSnap, Snapshots
    <3>1. [lst[p] EXCEPT !.vms = vms] \in
             [vms : Nat \cup {NoSnap}, workers : Nat \cup {NoSnap}, last : MaybeSnap]
      BY <3>0
    <3> USE DEF TypeOK, MaybeSnap, Snapshots
    <3>2. lst' = [lst EXCEPT ![p] = [lst[p] EXCEPT !.vms = vms]]
      BY <2>4 DEF ListVMs
    <3>3. lst' \in [Procs -> [vms : Nat \cup {NoSnap}, workers : Nat \cup {NoSnap}, last : MaybeSnap]]
      BY <3>1, <3>2
    <3>4. gpc' \in [Procs -> {"idle", "call", "joined", "woken", "lead", "listing", "listed", "ret"}]
      BY <2>4 DEF ListVMs
    <3> QED BY <1>4, <2>4, <3>3, <3>4 DEF Read, ListVMs
  <2>5. CASE ListWorkers(p)
    <3>0. lst[p] \in [vms : Nat \cup {NoSnap}, workers : Nat \cup {NoSnap}, last : MaybeSnap]
          /\ workers \in Nat
      OBVIOUS
    <3> HIDE DEF TypeOK, MaybeSnap, Snapshots
    <3>1. [lst[p] EXCEPT !.workers = workers] \in
             [vms : Nat \cup {NoSnap}, workers : Nat \cup {NoSnap}, last : MaybeSnap]
      BY <3>0
    <3> USE DEF TypeOK, MaybeSnap, Snapshots
    <3>2. lst' = [lst EXCEPT ![p] = [lst[p] EXCEPT !.workers = workers]]
      BY <2>5 DEF ListWorkers
    <3>3. lst' \in [Procs -> [vms : Nat \cup {NoSnap}, workers : Nat \cup {NoSnap}, last : MaybeSnap]]
      BY <3>1, <3>2
    <3>4. gpc' \in [Procs -> {"idle", "call", "joined", "woken", "lead", "listing", "listed", "ret"}]
      BY <2>5 DEF ListWorkers
    <3> QED BY <1>4, <2>5, <3>3, <3>4 DEF Read, ListWorkers
  <2>6. CASE PublishFail(p)
    BY <1>4, <2>6 DEF Read, PublishFail, Woken, Returns, Result, NoLists
  <2>7. CASE JoinReturn(p)
    BY <1>4, <2>7 DEF Read, JoinReturn, Returns, Result
  <2>8. CASE JoinCancelled(p)
    BY <1>4, <2>8 DEF Read, JoinCancelled, Returns, Result
  <2> QED BY <1>4, <2>1, <2>2, <2>3, <2>4, <2>5, <2>6, <2>7, <2>8 DEF Read
<1>5. CASE OrchardChanges
    BY <1>5 DEF OrchardChanges
<1>6. CASE CallInvalidate
    BY <1>6 DEF CallInvalidate, Invalidate, Invalidated
<1>7. CASE Expire
    BY <1>7 DEF Expire, TTLExpires
<1>8. CASE UNCHANGED vars
    BY <1>8 DEF vars
<1> QED BY <1>1, <1>2, <1>3, <1>4, <1>5, <1>6, <1>7, <1>8 DEF Next

\* Singleflight is preserved: only a Get that finds refreshing unset leads, and
\* both ends of a refresh unset it and wake every joiner.
LEMMA NextSingleFlight == TypeOK /\ SingleFlight /\ [Next]_vars => SingleFlight'
<1> SUFFICES ASSUME TypeOK, SingleFlight, [Next]_vars PROVE SingleFlight'
    OBVIOUS
<1> USE DEF TypeOK, SingleFlight, Leading, cacheVars, callVars, viewVars, histVars
<1>1. ASSUME NEW p \in Procs, Begin(p) PROVE SingleFlight'
    BY <1>1 DEF Begin
<1>2. ASSUME NEW p \in Procs, Consume(p) PROVE SingleFlight'
    BY <1>2 DEF Consume
<1>3. ASSUME NEW p \in Procs, Publish(p) PROVE SingleFlight'
    BY <1>3 DEF Publish, PublishOk, Woken
<1>4. ASSUME NEW p \in Procs, Read(p) PROVE SingleFlight'
  <2>1. CASE GetHit(p)
    BY <1>4, <2>1 DEF Read, GetHit
  <2>2. CASE GetJoin(p)
    BY <1>4, <2>2 DEF Read, GetJoin
  <2>3. CASE GetLead(p)
    BY <1>4, <2>3 DEF Read, GetLead
  <2>4. CASE ListVMs(p)
    BY <1>4, <2>4 DEF Read, ListVMs
  <2>5. CASE ListWorkers(p)
    BY <1>4, <2>5 DEF Read, ListWorkers
  <2>6. CASE PublishFail(p)
    BY <1>4, <2>6 DEF Read, PublishFail, Woken
  <2>7. CASE JoinReturn(p)
    BY <1>4, <2>7 DEF Read, JoinReturn
  <2>8. CASE JoinCancelled(p)
    BY <1>4, <2>8 DEF Read, JoinCancelled
  <2> QED BY <1>4, <2>1, <2>2, <2>3, <2>4, <2>5, <2>6, <2>7, <2>8 DEF Read
<1>5. CASE OrchardChanges
    BY <1>5 DEF OrchardChanges
<1>6. CASE CallInvalidate
    BY <1>6 DEF CallInvalidate, Invalidate, Invalidated
<1>7. CASE Expire
    BY <1>7 DEF Expire, TTLExpires
<1>8. CASE UNCHANGED vars
    BY <1>8 DEF vars
<1> QED BY <1>1, <1>2, <1>3, <1>4, <1>5, <1>6, <1>7, <1>8 DEF Next

\* The history facts.
History == CacheIsLatest /\ PastBounds /\ ListsAdvance /\ WokenKnows

\* Every step preserves them.
LEMMA NextHistory == IInv /\ [Next]_vars => History'
<1> SUFFICES ASSUME IInv, [Next]_vars PROVE History'
    OBVIOUS
<1>t. TypeOK'
    BY NextTypeOK DEF IInv
<1> USE DEF IInv, TypeOK, MaybeSnap, Snapshots, SingleFlight, Leading,
            History, CacheIsLatest, PastBounds, ListsAdvance, WokenKnows,
            cacheVars, callVars, viewVars, histVars
<1>1. ASSUME NEW p \in Procs, Begin(p) PROVE History'
    BY <1>1 DEF Begin
<1>2. ASSUME NEW p \in Procs, Consume(p) PROVE History'
    BY <1>2 DEF Consume
<1>3. ASSUME NEW p \in Procs, Publish(p) PROVE History'
  <2>1. pub' = [vms |-> lst[p].vms, workers |-> lst[p].workers] /\ snap' = pub'
    BY <1>3 DEF Publish, PublishOk, Snapshot
  <2>2. pub'.vms = lst[p].vms /\ pub'.workers = lst[p].workers
    BY <2>1
  <2>3. \A q \in Procs : gpc'[q] \notin {"lead", "listing", "listed"}
    BY <1>3 DEF Publish, PublishOk, Woken
  <2>4. \A q \in Procs : lst'[q].last = NoSnap
    <3> SUFFICES ASSUME NEW q \in Procs PROVE lst'[q].last = NoSnap
        OBVIOUS
    <3>1. CASE q = p
        BY <1>3, <3>1 DEF Publish, PublishOk, NoLists
    <3> QED BY <1>3, <3>1 DEF Publish, PublishOk
  <2>5. PastBounds'
    BY <1>3, <2>2 DEF Publish, PublishOk
  <2>6. WokenKnows'
    BY <1>3 DEF Publish, PublishOk, Woken
  <2> QED BY <2>1, <2>3, <2>4, <2>5, <2>6
<1>4. ASSUME NEW p \in Procs, Read(p) PROVE History'
  <2>1. CASE GetHit(p)
    BY <1>4, <2>1 DEF Read, GetHit
  <2>2. CASE GetJoin(p)
    BY <1>4, <2>2 DEF Read, GetJoin
  <2>3. CASE GetLead(p)
    BY <1>4, <2>3 DEF Read, GetLead
  <2>4. CASE ListVMs(p)
    BY <1>4, <2>4 DEF Read, ListVMs
  <2>5. CASE ListWorkers(p)
    BY <1>4, <2>5 DEF Read, ListWorkers
  <2>6. CASE PublishFail(p)
    BY <1>4, <2>6 DEF Read, PublishFail, Woken, NoLists
  <2>7. CASE JoinReturn(p)
    BY <1>4, <2>7 DEF Read, JoinReturn
  <2>8. CASE JoinCancelled(p)
    BY <1>4, <2>8 DEF Read, JoinCancelled
  <2> QED BY <1>4, <2>1, <2>2, <2>3, <2>4, <2>5, <2>6, <2>7, <2>8 DEF Read
<1>5. CASE OrchardChanges
    BY <1>5 DEF OrchardChanges
<1>6. CASE CallInvalidate
    BY <1>6 DEF CallInvalidate, Invalidate, Invalidated
<1>7. CASE Expire
    BY <1>7 DEF Expire, TTLExpires
<1>8. CASE UNCHANGED vars
    BY <1>8 DEF vars
<1> QED BY <1>1, <1>2, <1>3, <1>4, <1>5, <1>6, <1>7, <1>8 DEF Next

----------------------------------------------------------------------------
\* StateView keeps its inductive invariant under any callers.
THEOREM StateViewInvariant == Spec => []IInv
<1>1. IInv /\ [Next]_vars => IInv'
    BY NextTypeOK, NextSingleFlight, NextHistory DEF IInv, History
<1> QED BY InitIInv, <1>1, PTL DEF Spec

\* Types, for every set of callers and every bound.
THEOREM TypeCorrect == Spec => []TypeOK
<1>1. IInv => TypeOK
    BY DEF IInv
<1> QED BY StateViewInvariant, <1>1, PTL

\* Get coalesces refreshes: one leader at a time, no joiner without one.
THEOREM OneRefreshAtATime == Spec => []SingleFlight
<1>1. IInv => SingleFlight
    BY DEF IInv
<1> QED BY StateViewInvariant, <1>1, PTL

\* A joiner never mistakes a snapshot retained by a failed refresh for a new one.
THEOREM JoinersLearnFailure == Spec => NilErrorMeansRefreshed
<1> DEFINE A == \A p \in Procs :
                  gpc[p] \notin {"call", "ret"} /\ gpc'[p] = "ret" /\ ~got'[p].err
                     => gen' > begin[p].gen
<1>1. IInv /\ [Next]_vars => [A]_vars
  <2> SUFFICES ASSUME IInv, Next, NEW p \in Procs,
                      gpc[p] \notin {"call", "ret"}, gpc'[p] = "ret", ~got'[p].err
               PROVE gen' > begin[p].gen
      BY DEF vars
  <2> USE DEF IInv, TypeOK, PastBounds, WokenKnows, cacheVars, callVars, viewVars, histVars
  <2>1. PICK q \in Procs : Publish(q) \/ Read(q)
      BY DEF Next, Begin, Consume, OrchardChanges, CallInvalidate, Invalidate, Expire, TTLExpires
  <2>2. CASE Publish(q)
      BY <2>2 DEF Publish, PublishOk, Woken
  <2>3. CASE Read(q)
    <3>1. q = p
      BY <2>3 DEF Read, GetHit, GetJoin, GetLead, ListVMs, ListWorkers, PublishFail, Woken,
                  JoinReturn, JoinCancelled
    <3>2. CASE PublishFail(p)
      BY <2>3, <3>1, <3>2 DEF Read, PublishFail, Returns, Result
    <3>3. CASE JoinReturn(p)
      BY <2>3, <3>1, <3>3 DEF Read, JoinReturn, Returns, Result
    <3>4. CASE JoinCancelled(p)
      BY <2>3, <3>1, <3>4 DEF Read, JoinCancelled, Returns, Result
    <3> QED BY <2>3, <3>1, <3>2, <3>3, <3>4 DEF Read, GetHit, GetJoin, GetLead, ListVMs, ListWorkers
  <2> QED BY <2>1, <2>2, <2>3
<1> QED BY StateViewInvariant, <1>1, PTL DEF Spec, NilErrorMeansRefreshed

\* Snapshots never go back in time.
THEOREM NoSnapshotGoesBack == Spec => SnapshotsAdvance
<1>1. IInv /\ [Next]_vars
        => [pub # NoSnap /\ pub' # pub
               => pub'.vms >= pub.vms /\ pub'.workers >= pub.workers]_vars
  <2> SUFFICES ASSUME IInv, Next, pub # NoSnap, pub' # pub
               PROVE pub'.vms >= pub.vms /\ pub'.workers >= pub.workers
      BY DEF vars
  <2>1. PICK q \in Procs : Publish(q)
      BY DEF Next, Begin, Consume, Read, OrchardChanges, CallInvalidate, Expire, histVars
  <2> QED BY <2>1 DEF IInv, TypeOK, MaybeSnap, Snapshots, ListsAdvance, Publish, PublishOk, Snapshot
<1> QED BY StateViewInvariant, <1>1, PTL DEF Spec, SnapshotsAdvance

\* A Get that led its refresh sees everything that happened before the call.
THEOREM LeadersSeeThePast == Spec => LeaderSeesPast
<1>1. IInv /\ [Next]_vars
        => [\A p \in Procs : gpc[p] = "listed" /\ gpc'[p] = "ret"
                                => got'[p].snap.vms >= begin[p].vms]_vars
  <2> SUFFICES ASSUME IInv, Next, NEW p \in Procs, gpc[p] = "listed", gpc'[p] = "ret"
               PROVE got'[p].snap.vms >= begin[p].vms
      BY DEF vars
  <2> USE DEF IInv, TypeOK, cacheVars, callVars, viewVars, histVars
  <2>1. PICK q \in Procs : Publish(q) \/ Read(q)
      BY DEF Next, Begin, Consume, OrchardChanges, CallInvalidate, Invalidate, Expire, TTLExpires
  <2>2. Publish(p)
      BY <2>1 DEF Publish, PublishOk, Woken, Read, GetHit, GetJoin, GetLead, ListVMs, ListWorkers,
                  PublishFail, JoinReturn, JoinCancelled
  <2>3. got'[p].snap = [vms |-> lst[p].vms, workers |-> lst[p].workers]
      BY <2>2 DEF Publish, PublishOk, Returns, Result, Snapshot
  <2> QED BY <2>3 DEF ListsAdvance
<1> QED BY StateViewInvariant, <1>1, PTL DEF Spec, LeaderSeesPast

\* No caller is handed a snapshot that has already been replaced.
THEOREM GetsServeTheLatest == Spec => ServesLatest
<1>1. IInv /\ [Next]_vars
        => [\A p \in Procs : gpc[p] # "ret" /\ gpc'[p] = "ret"
              => IF got'[p].snap = NoSnap THEN got'[p].err ELSE got'[p].snap = pub']_vars
  <2> SUFFICES ASSUME IInv, Next, NEW p \in Procs, gpc[p] # "ret", gpc'[p] = "ret"
               PROVE IF got'[p].snap = NoSnap THEN got'[p].err ELSE got'[p].snap = pub'
      BY DEF vars
  <2> USE DEF IInv, TypeOK, CacheIsLatest, cacheVars, callVars, viewVars, histVars
  <2>1. PICK q \in Procs : Publish(q) \/ Read(q)
      BY DEF Next, Begin, Consume, OrchardChanges, CallInvalidate, Invalidate, Expire, TTLExpires
  <2>2. q = p
      BY <2>1 DEF Publish, PublishOk, Woken, Read, GetHit, GetJoin, GetLead, ListVMs, ListWorkers,
                  PublishFail, JoinReturn, JoinCancelled
  <2>3. CASE Publish(p)
    <3>1. Snapshot(lst[p].vms, lst[p].workers) \in [vms : Nat, workers : Nat]
      BY <2>3 DEF Publish, PublishOk, ListsAdvance, Snapshot
    <3> QED BY <2>3, <3>1, NoSnapAssumption DEF Publish, PublishOk, Returns, Result
  <2>4. CASE GetHit(p) /\ UNCHANGED histVars
    BY <2>4 DEF GetHit, CacheHit, Returns, Result
  <2>5. CASE PublishFail(p) /\ UNCHANGED histVars
    BY <2>5 DEF PublishFail, Returns, Result
  <2>6. CASE JoinReturn(p) /\ UNCHANGED histVars
    BY <2>6 DEF JoinReturn, Returns, Result
  <2>7. CASE JoinCancelled(p)
    BY <2>7 DEF JoinCancelled, Returns, Result
  <2> QED BY <2>1, <2>2, <2>3, <2>4, <2>5, <2>6, <2>7
          DEF Read, GetJoin, GetLead, ListVMs, ListWorkers
<1> QED BY StateViewInvariant, <1>1, PTL DEF Spec, ServesLatest
============================================================================
