---------------------------- MODULE Eligibility ----------------------------
(***************************************************************************)
(* bridge/eligibility.go: which live workers an AutoSize scale set cannot  *)
(* use, and the monitor that reports them.  All it keeps is labelled with  *)
(* the scale set, so a monitor has a record per scale set                  *)
(*   last       the exclusions found by the last observation               *)
(*   excluded   the series of the gauge ..._autosize_worker_excluded       *)
(*   eligible   the value of ..._autosize_eligible_workers, None before    *)
(*              the first observation                                      *)
(*   announced  what the log says: the latest WARN about each worker that  *)
(*              no INFO has taken back                                     *)
(* Each operator is one critical section of EligibilityMonitor.mu.         *)
(***************************************************************************)
EXTENDS Fleet

\* AutoSizeExclusions, by worker.  SharedWith is a set: the order of Orchard's
\* list is taken to be stable.
AutoSizeExclusions(ws, ss) ==
    LET reason(n) == AutoSizeExclusionReason(ws, n, ss.reserve)
        shared(n) == IF reason(n) = "duplicate_pin_label"
                     THEN {m \in DOMAIN ws \ {n} : ws[m].pin = ws[n].pin} ELSE {}
    IN [n \in {m \in DOMAIN ws : MatchesLabels(ws[m], ss.labels) /\ reason(m) # "eligible"} |->
           [pin |-> ws[n].pin, reason |-> reason(n), sharedWith |-> shared(n)]]

NewEligibilityMonitor(sets) ==
    [s \in sets |-> [last |-> <<>>, excluded |-> {}, eligible |-> None, announced |-> <<>>]]

\* Plausible defect: only the pin is compared.
SameExclusion_PinOnly(a, b) == a.pin = b.pin

SameExclusion(a, b) ==
    a.reason = b.reason /\ a.pin = b.pin /\ a.sharedWith = b.sharedWith

Series(n, ex) == <<n, ex.pin, ex.reason>>

\* Observe, for the scale set with record m and settings ss: workers whose
\* exclusion is new or changed are warned about and get their series, the old
\* one is deleted; a worker that is excluded no longer (or no longer live) loses
\* its series and gets an INFO.
Observe(m, ws, ss) ==
    LET cur     == AutoSizeExclusions(ws, ss)
        prev    == m.last
        changed == {n \in DOMAIN cur : ~(n \in DOMAIN prev /\ SameExclusion(prev[n], cur[n]))}
        cleared == DOMAIN prev \ DOMAIN cur
        stale   == {Series(n, prev[n]) : n \in cleared \cup (changed \cap DOMAIN prev)}
        told    == m.announced
    IN [last      |-> cur,
        excluded  |-> (m.excluded \ stale) \cup {Series(n, cur[n]) : n \in changed},
        eligible  |-> Cardinality(AutoSizeCandidates(ws, ss.labels, ss.reserve)),
        announced |-> [n \in (DOMAIN told \ cleared) \cup changed |->
                          IF n \in changed THEN cur[n] ELSE told[n]]]
============================================================================
