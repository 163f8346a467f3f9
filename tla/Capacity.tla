------------------------------ MODULE Capacity ------------------------------
(***************************************************************************)
(* bridge/capacity.go: the global count of VM slots, a record              *)
(* [current, max].  Each operator is one critical section of Capacity.mu.  *)
(***************************************************************************)
EXTENDS Integers

NewCapacity(max) == [current |-> 0, max |-> max]

Available(c) == c.max - c.current

\* Plausible defect: slots are granted without looking at what is free.
Granted_Blind(c, n) == n

\* TryAcquire: how many of n slots are granted, and the record after it.
Granted(c, n) ==
    IF Available(c) <= 0 THEN 0 ELSE IF n < Available(c) THEN n ELSE Available(c)

\* Plausible defect: what was asked for is booked, not what was granted.
TryAcquire_Asked(c, n) == [c EXCEPT !.current = @ + n]

TryAcquire(c, n) == [c EXCEPT !.current = @ + Granted(c, n)]

\* Plausible defect: the count is not floored at zero.
Release_NoFloor(c, n) == [c EXCEPT !.current = @ - n]

Release(c, n) == [c EXCEPT !.current = IF @ < n THEN 0 ELSE @ - n]

\* Plausible defect: the count may be stale, so it only ever raises the slots in use.
Reconcile_OnlyRaises(c, actual) == [c EXCEPT !.current = IF @ < actual THEN actual ELSE @]

\* Reconcile does not clamp at max, AdoptExisting does not gate on it.
Reconcile(c, actual) == [c EXCEPT !.current = actual]

AdoptExisting(c, n) == [c EXCEPT !.current = @ + n]

\* SetMax; the callbacks registered with OnWorkersChanged run iff MaxChanges.
MaxChanges(c, max) == c.max # max

SetMax(c, max) == [c EXCEPT !.max = max]
============================================================================
