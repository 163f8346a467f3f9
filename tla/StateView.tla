----------------------------- MODULE StateView -----------------------------
(***************************************************************************)
(* bridge/stateview.go: the cache of Orchard's VM and worker lists that    *)
(* every bridge, the share recompute and the cleanup sweep read through.   *)
(*                                                                         *)
(* One action is one critical section of StateView.mu, or one RPC of       *)
(* refresh.  A caller p asks for a Get by moving gpc[p] from "idle" to     *)
(* "call"; the Get ends with gpc[p] = "ret" and its result in got[p].      *)
(* The tables behind ListVMs and ListWorkers are the variables vms and     *)
(* workers: other modules change them, the actions here only read them.    *)
(***************************************************************************)
EXTENDS Naturals

CONSTANTS Procs,   \* the goroutines that call Get
          NoSnap   \* a nil *Snapshot

VARIABLES
    vms,         \* Orchard's VM table (external), what ListVMs returns now
    workers,     \* Orchard's worker table (external), what ListWorkers returns now
    snap,        \* s.snap, a Snapshot or nil
    fresh,       \* time.Since(s.snap.FetchedAt) < s.ttl
    refreshing,  \* s.refreshing # nil
    lastErr,     \* s.lastErr # nil
    gpc,         \* where each caller is in Get
    lst,         \* the locals of a leading Get: the two lists and lastSnap
    got          \* what each caller's last Get returned

cacheVars == <<snap, fresh, refreshing, lastErr>>
callVars  == <<gpc, lst, got>>
viewVars  == <<snap, fresh, refreshing, lastErr, gpc, lst, got>>

NoLists    == [vms |-> NoSnap, workers |-> NoSnap, last |-> NoSnap]
Nothing    == [snap |-> NoSnap, err |-> FALSE]
Result(s, e) == [snap |-> s, err |-> e]

Snapshot(vs, ws) == [vms |-> vs, workers |-> ws]

\* NewStateView: nothing cached, nothing in flight.
ViewInit ==
    /\ snap = NoSnap
    /\ fresh = FALSE
    /\ refreshing = FALSE
    /\ lastErr = FALSE
    /\ gpc = [p \in Procs |-> "idle"]
    /\ lst = [p \in Procs |-> NoLists]
    /\ got = [p \in Procs |-> Nothing]

CacheHit == snap # NoSnap /\ fresh

Returns(p, s, e) == got' = [got EXCEPT ![p] = Result(s, e)]

----------------------------------------------------------------------------
\* The first critical section of Get: answer from the cache, join the refresh
\* in flight, or become its leader.
GetHit(p) ==
    /\ gpc[p] = "call"
    /\ CacheHit
    /\ gpc' = [gpc EXCEPT ![p] = "ret"]
    /\ Returns(p, snap, FALSE)
    /\ UNCHANGED <<cacheVars, lst>>

GetJoin(p) ==
    /\ gpc[p] = "call"
    /\ ~CacheHit
    /\ refreshing
    /\ gpc' = [gpc EXCEPT ![p] = "joined"]
    /\ UNCHANGED <<cacheVars, lst, got>>

\* Plausible defect: the singleflight test is lost.
GetLead_EveryoneLeads(p) ==
    /\ gpc[p] = "call"
    /\ ~CacheHit
    /\ refreshing' = TRUE
    /\ lst' = [lst EXCEPT ![p].last = snap]
    /\ gpc' = [gpc EXCEPT ![p] = "lead"]
    /\ UNCHANGED <<snap, fresh, lastErr, got>>

GetLead(p) ==
    /\ gpc[p] = "call"
    /\ ~CacheHit
    /\ ~refreshing
    /\ refreshing' = TRUE
    /\ lst' = [lst EXCEPT ![p].last = snap]
    /\ gpc' = [gpc EXCEPT ![p] = "lead"]
    /\ UNCHANGED <<snap, fresh, lastErr, got>>

\* Plausible defects of refresh: the worker list is skipped, the VMs of the
\* last snapshot are kept.
ListVMs_SkipsWorkers(p) ==
    /\ gpc[p] = "lead"
    /\ lst' = [lst EXCEPT ![p].vms = vms]
    /\ gpc' = [gpc EXCEPT ![p] = "listed"]
    /\ UNCHANGED <<cacheVars, got>>

ListVMs_KeepsLast(p) ==
    /\ gpc[p] = "lead"
    /\ lst' = [lst EXCEPT ![p].vms = IF lst[p].last # NoSnap THEN lst[p].last.vms ELSE vms]
    /\ gpc' = [gpc EXCEPT ![p] = "listing"]
    /\ UNCHANGED <<cacheVars, got>>

\* refresh: two RPCs, each reads one table at its own moment.
ListVMs(p) ==
    /\ gpc[p] = "lead"
    /\ lst' = [lst EXCEPT ![p].vms = vms]
    /\ gpc' = [gpc EXCEPT ![p] = "listing"]
    /\ UNCHANGED <<cacheVars, got>>

ListWorkers(p) ==
    /\ gpc[p] = "listing"
    /\ lst' = [lst EXCEPT ![p].workers = workers]
    /\ gpc' = [gpc EXCEPT ![p] = "listed"]
    /\ UNCHANGED <<cacheVars, got>>

\* close(done): everybody waiting on this refresh becomes runnable.
Woken(p) == [q \in Procs |-> IF q = p THEN "ret"
                             ELSE IF gpc[q] = "joined" THEN "woken" ELSE gpc[q]]

\* The leader's second critical section after both lists were read.
PublishOk(p) ==
    /\ gpc[p] = "listed"
    /\ snap' = Snapshot(lst[p].vms, lst[p].workers)
    /\ fresh' = TRUE
    /\ lastErr' = FALSE
    /\ refreshing' = FALSE
    /\ gpc' = Woken(p)
    /\ Returns(p, Snapshot(lst[p].vms, lst[p].workers), FALSE)
    /\ lst' = [lst EXCEPT ![p] = NoLists]

\* Plausible defects of the failure path: the error is not recorded, the
\* channel is not closed.
PublishFail_NoLastErr(p) ==
    /\ gpc[p] \in {"lead", "listing"}
    /\ refreshing' = FALSE
    /\ gpc' = Woken(p)
    /\ Returns(p, lst[p].last, TRUE)
    /\ lst' = [lst EXCEPT ![p] = NoLists]
    /\ UNCHANGED <<snap, fresh, lastErr>>

PublishFail_NoClose(p) ==
    /\ gpc[p] \in {"lead", "listing"}
    /\ lastErr' = TRUE
    /\ refreshing' = FALSE
    /\ gpc' = [gpc EXCEPT ![p] = "ret"]
    /\ Returns(p, lst[p].last, TRUE)
    /\ lst' = [lst EXCEPT ![p] = NoLists]
    /\ UNCHANGED <<snap, fresh>>

\* ... and after one of the two RPCs failed: the cache keeps what it had, the
\* leader returns the snapshot it found when it started.
PublishFail(p) ==
    /\ gpc[p] \in {"lead", "listing"}
    /\ lastErr' = TRUE
    /\ refreshing' = FALSE
    /\ gpc' = Woken(p)
    /\ Returns(p, lst[p].last, TRUE)
    /\ lst' = [lst EXCEPT ![p] = NoLists]
    /\ UNCHANGED <<snap, fresh>>

\* Plausible defect: a joiner trusts lastErr alone and hands out a nil snapshot.
JoinReturn_LastErrOnly(p) ==
    /\ gpc[p] = "woken"
    /\ gpc' = [gpc EXCEPT ![p] = "ret"]
    /\ Returns(p, snap, lastErr)
    /\ UNCHANGED <<cacheVars, lst>>

\* A joiner's second critical section: it reads the cache as it is now, which
\* need not be what the refresh it waited for left there.
JoinReturn(p) ==
    /\ gpc[p] = "woken"
    /\ gpc' = [gpc EXCEPT ![p] = "ret"]
    /\ Returns(p, snap, lastErr \/ snap = NoSnap)
    /\ UNCHANGED <<cacheVars, lst>>

\* ctx.Done() wins the joiner's select.
JoinCancelled(p) ==
    /\ gpc[p] \in {"joined", "woken"}
    /\ gpc' = [gpc EXCEPT ![p] = "ret"]
    /\ Returns(p, NoSnap, TRUE)
    /\ UNCHANGED <<cacheVars, lst>>

\* The steps of Get the caller itself takes (it does not choose to be cancelled).
GetStep(p) ==
    \/ GetHit(p) \/ GetJoin(p) \/ GetLead(p)
    \/ ListVMs(p) \/ ListWorkers(p) \/ PublishOk(p)
    \/ JoinReturn(p)

----------------------------------------------------------------------------
Invalidated == snap' = NoSnap /\ fresh' = FALSE /\ UNCHANGED <<refreshing, lastErr>>

Invalidate == Invalidated /\ UNCHANGED callVars

\* The snapshot in the cache becomes older than the TTL.
TTLExpires ==
    /\ CacheHit
    /\ fresh' = FALSE
    /\ UNCHANGED <<snap, refreshing, lastErr, callVars>>

============================================================================
