-------------------------------- MODULE Names --------------------------------
(***************************************************************************)
(* bridge/vm.go: the name of a VM, and how a restarted bridge tells from   *)
(* it whose VM it is.  A name is a sequence of characters without the      *)
(* prefix "gha-orchard-", which all names share; the limit is what that    *)
(* prefix leaves of the 63 characters.                                     *)
(***************************************************************************)
EXTENDS Integers, Sequences, FiniteSets, SequencesExt

CONSTANTS LowerCase,  \* characters kept by VMNamePrefixForScaleSet: [a-z0-9]
          Lower,      \* strings.ToLower, on the characters it changes
          NameLimit   \* 63 - Len("gha-orchard-")

ASSUME LimitAssumption == NameLimit \in Nat \ {0}
ASSUME HyphenAssumption == "-" \notin LowerCase \cup DOMAIN Lower

\* What is left has something other than a hyphen at its end or behind it.
TrimRight(n) == SubSeq(n, 1, Cardinality({i \in DOMAIN n : \E j \in i..Len(n) : n[j] # "-"}))

Trim(n) == Reverse(TrimRight(Reverse(TrimRight(n))))

\* Lower case, everything but letters, digits and hyphens replaced, hyphens trimmed.
Sanitized(name) ==
    LET lower(c)   == IF c \in DOMAIN Lower THEN Lower[c] ELSE c
        replace(c) == IF c \in LowerCase THEN c ELSE "-"
    IN Trim([i \in DOMAIN name |-> replace(lower(name[i]))])

VMNamePrefixForScaleSet(name) == Sanitized(name) \o <<"-">>

\* VMName, with the short uuid it drew.
VMName(name, uuid) ==
    LET full == VMNamePrefixForScaleSet(name) \o uuid
    IN IF Len(full) > NameLimit THEN TrimRight(SubSeq(full, 1, NameLimit)) ELSE full

\* Plausible defect: the remainder may contain hyphens.
Matches_AnyRemainder(vm, name) == IsPrefix(VMNamePrefixForScaleSet(name), vm)

\* ManagedVMsForScaleSet: the prefix, and a remainder without hyphens.
Matches(vm, name) ==
    LET prefix == VMNamePrefixForScaleSet(name)
    IN IsPrefix(prefix, vm) /\ \A i \in Len(prefix) + 1 .. Len(vm) : vm[i] # "-"

ManagedVMsForScaleSet(vms, name) == {vm \in vms : Matches(vm, name)}
============================================================================
