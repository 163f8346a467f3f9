-------------------------- MODULE StateViewClients --------------------------
(***************************************************************************)
(* The StateView under any number of concurrent callers, an Orchard whose  *)
(* tables change at any moment, and callers that Invalidate after they     *)
(* changed something.  Orchard's two tables are version numbers: the       *)
(* properties only compare how old what a caller was given is.             *)
(***************************************************************************)
EXTENDS StateView

CONSTANTS MaxVersion,  \* bound on the changes of each of Orchard's tables
          MaxCalls     \* bound on the Gets of each caller

ASSUME BoundsAssumption == MaxVersion \in Nat /\ MaxCalls \in Nat
ASSUME NoSnapAssumption == NoSnap \notin Nat /\ NoSnap \notin [vms : Nat, workers : Nat]

VARIABLES
    pub,      \* history: the snapshot published last, which Invalidate does not erase
    gen,      \* history: how many snapshots were published
    invAt,    \* history: version of the VM table when Invalidate ran last
    begin,    \* history: gen, vms and invAt when each caller's Get began
    calls     \* Gets begun so far by each caller

histVars == <<pub, gen, invAt, begin, calls>>
vars     == <<vms, workers, viewVars, histVars>>

Init ==
    /\ vms = 0 /\ workers = 0
    /\ ViewInit
    /\ pub = NoSnap /\ gen = 0 /\ invAt = 0
    /\ begin = [p \in Procs |-> [gen |-> 0, vms |-> 0, inv |-> 0]]
    /\ calls = [p \in Procs |-> 0]

----------------------------------------------------------------------------
\* A caller enters Get ...
Begin(p) ==
    /\ gpc[p] = "idle"
    /\ calls[p] < MaxCalls
    /\ calls' = [calls EXCEPT ![p] = @ + 1]
    /\ gpc' = [gpc EXCEPT ![p] = "call"]
    /\ begin' = [begin EXCEPT ![p] = [gen |-> gen, vms |-> vms, inv |-> invAt]]
    /\ UNCHANGED <<vms, workers, cacheVars, lst, got, pub, gen, invAt>>

\* ... and uses what it returned.
Consume(p) ==
    /\ gpc[p] = "ret"
    /\ gpc' = [gpc EXCEPT ![p] = "idle"]
    /\ got' = [got EXCEPT ![p] = Nothing]
    /\ UNCHANGED <<vms, workers, cacheVars, lst, histVars>>

Publish(p) ==
    /\ PublishOk(p)
    /\ pub' = snap'
    /\ gen' = gen + 1
    /\ UNCHANGED <<vms, workers, invAt, begin, calls>>

Read(p) ==
    /\ \/ GetHit(p) \/ GetJoin(p) \/ GetLead(p)
       \/ ListVMs(p) \/ ListWorkers(p)
       \/ PublishFail(p) \/ JoinReturn(p) \/ JoinCancelled(p)
    /\ UNCHANGED <<vms, workers, histVars>>

\* CreateVM or DeleteVM took effect; a worker registered, left or was paused.
OrchardChanges ==
    /\ \/ vms < MaxVersion /\ vms' = vms + 1 /\ UNCHANGED workers
       \/ workers < MaxVersion /\ workers' = workers + 1 /\ UNCHANGED vms
    /\ UNCHANGED <<viewVars, histVars>>

CallInvalidate ==
    /\ Invalidate
    /\ invAt' = vms
    /\ UNCHANGED <<vms, workers, pub, gen, begin, calls>>

Expire == TTLExpires /\ UNCHANGED <<vms, workers, histVars>>

Next ==
    \/ \E p \in Procs : Begin(p) \/ Consume(p) \/ Publish(p) \/ Read(p)
    \/ OrchardChanges
    \/ CallInvalidate
    \/ Expire

Spec == Init /\ [][Next]_vars

\* A goroutine inside Get keeps running: both RPCs answer or fail (the client's
\* HTTP timeout), a closed channel wakes its readers, the mutex is granted.
\* Nothing here promises that an RPC succeeds or that a context is cancelled.
Progress(p) ==
    \/ Publish(p)
    \/ (GetStep(p) \/ PublishFail(p)) /\ UNCHANGED <<vms, workers, histVars>>

FairSpec == Spec /\ \A p \in Procs : WF_vars(Progress(p)) /\ WF_vars(Consume(p))

----------------------------------------------------------------------------
Snapshots == [vms : Nat, workers : Nat]
MaybeSnap == Snapshots \cup {NoSnap}

\* Every variable has its type.
TypeOK ==
    /\ vms \in Nat /\ workers \in Nat
    /\ snap \in MaybeSnap /\ pub \in MaybeSnap
    /\ fresh \in BOOLEAN /\ refreshing \in BOOLEAN /\ lastErr \in BOOLEAN
    /\ gpc \in [Procs -> {"idle", "call", "joined", "woken", "lead", "listing", "listed", "ret"}]
    /\ lst \in [Procs -> [vms : Nat \cup {NoSnap}, workers : Nat \cup {NoSnap}, last : MaybeSnap]]
    /\ got \in [Procs -> [snap : MaybeSnap, err : BOOLEAN]]
    /\ gen \in Nat /\ invAt \in Nat
    /\ begin \in [Procs -> [gen : Nat, vms : Nat, inv : Nat]]
    /\ calls \in [Procs -> Nat]

Leading(p) == gpc[p] \in {"lead", "listing", "listed"}

\* "Concurrent refreshes are coalesced via singleflight" (StateView): at most
\* one Get is between its two critical sections as leader, and s.refreshing is
\* set exactly while one is; nobody waits on a refresh that does not exist.
SingleFlight ==
    /\ \A p, q \in Procs : Leading(p) /\ Leading(q) => p = q
    /\ refreshing <=> \E p \in Procs : Leading(p)
    /\ \A p \in Procs : gpc[p] = "joined" => refreshing

\* "callers that joined an in-flight refresh learn it failed rather than
\* mistaking the retained older snapshot for a fresh one" (lastErr): a Get that
\* was not a cache hit and returns a nil error saw a snapshot published after
\* it began.
NilErrorMeansRefreshed ==
    [][\A p \in Procs :
         gpc[p] \notin {"call", "ret"} /\ gpc'[p] = "ret" /\ ~got'[p].err
            => gen' > begin[p].gen]_vars

\* Whatever a Get hands back, with or without an error, is the snapshot
\* published last at the moment it returns: no caller is given one that another
\* caller has already seen replaced.  A nil snapshot comes with an error.
ServesLatest ==
    [][\A p \in Procs :
         gpc[p] # "ret" /\ gpc'[p] = "ret"
            => IF got'[p].snap = NoSnap THEN got'[p].err ELSE got'[p].snap = pub']_vars

\* Published snapshots never go back in time, whatever Invalidate, the TTL and
\* failing refreshes do between two of them.
SnapshotsAdvance ==
    [][pub # NoSnap /\ pub' # pub
          => pub'.vms >= pub.vms /\ pub'.workers >= pub.workers]_vars

\* A Get that leads its own refresh and succeeds sees every change Orchard made
\* before the call: that is what a caller that is not coalesced can rely on.
LeaderSeesPast ==
    [][\A p \in Procs :
         gpc[p] = "listed" /\ gpc'[p] = "ret" => got'[p].snap.vms >= begin[p].vms]_vars

\* Every Get returns, whoever leads and however the refresh ends.
GetReturns == \A p \in Procs : gpc[p] = "call" ~> gpc[p] = "ret"

\* Claim of the comment on Invalidate: "Invalidate forces the next Get to
\* refresh.  Call after any CreateVM/DeleteVM so the next scaling decision sees
\* the mutation."  A Get that began after an Invalidate and returns without an
\* error must show the VM table at least as it was at that Invalidate.
InvalidateForcesRefresh ==
    \A p \in Procs :
        gpc[p] = "ret" /\ ~got[p].err => got[p].snap.vms >= begin[p].inv

============================================================================
