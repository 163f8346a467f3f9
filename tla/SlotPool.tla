------------------------------ MODULE SlotPool ------------------------------
(***************************************************************************)
(* What the shared semaphore promises the scale sets, without saying how:  *)
(* a pool of VM slots.  A slot that is not free is held by one scale set,  *)
(* or in limbo: it belonged to a VM whose delete failed.                   *)
(***************************************************************************)
EXTENDS Integers

CONSTANT Clients

VARIABLES free,   \* slots left; negative when more VMs were adopted than fit
          joined, \* the clients that have started
          held,   \* per client, the slots it holds
          limbo   \* slots of VMs that nobody tracks and that may still exist

pool == <<free, joined, held, limbo>>

Init ==
    /\ free \in Nat /\ limbo = 0
    /\ joined = {} /\ held = [c \in Clients |-> 0]

\* A client starts with the slots of the VMs it finds, whether free or not.
Join(c) ==
    /\ c \notin joined
    /\ joined' = joined \cup {c}
    /\ held' = [held EXCEPT ![c] = held'[c]] /\ held'[c] >= 0
    /\ free' = free - held'[c]
    /\ UNCHANGED limbo

\* Afterwards only slots that are free are handed out.
Acquire(c) ==
    /\ c \in joined
    /\ \E k \in 1..free :
          free' = free - k /\ held' = [held EXCEPT ![c] = @ + k]
    /\ UNCHANGED <<joined, limbo>>

\* A client gives back slots of its own, and no others.
Release(c) ==
    /\ \E k \in 1..held[c] :
          free' = free + k /\ held' = [held EXCEPT ![c] = @ - k]
    /\ UNCHANGED <<joined, limbo>>

\* A slot whose VM could not be deleted leaves its client and is not free.
Abandon(c) ==
    /\ held[c] > 0
    /\ held' = [held EXCEPT ![c] = @ - 1]
    /\ limbo' = limbo + 1
    /\ UNCHANGED <<free, joined>>

\* The process that keeps the pool is restarted.
Reset ==
    /\ free' \in Nat /\ limbo' = 0
    /\ joined' = {} /\ held' = [c \in Clients |-> 0]

Next == Reset \/ \E c \in Clients : Join(c) \/ Acquire(c) \/ Release(c) \/ Abandon(c)

Spec == Init /\ [][Next]_pool
============================================================================
