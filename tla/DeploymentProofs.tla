-------------------------- MODULE DeploymentProofs --------------------------
(***************************************************************************)
(* A restarted bridge and the VMs of earlier processes, for any files, any *)
(* scale set names, any length limit and any number of restarts: the name  *)
(* of a VM tells whose it is, so none is forgotten and none is mistaken.   *)
(***************************************************************************)
EXTENDS Deployment, FiniteSetTheorems, SequenceTheorems, TLAPS

Char == LowerCase \cup {"-"}

\* Trimming shortens a sequence, and leaves one alone that ends in something else.
LEMMA Trimmed ==
    ASSUME NEW S, NEW n \in Seq(S)
    PROVE  /\ TrimRight(n) \in Seq(S)
           /\ n # <<>> /\ n[Len(n)] # "-" => TrimRight(n) = n
<1> DEFINE kept == {i \in DOMAIN n : \E j \in i..Len(n) : n[j] # "-"}
<1>1. kept \in SUBSET (1..Len(n)) /\ Len(n) \in Nat
  OBVIOUS
<1>2. IsFiniteSet(1..Len(n)) /\ Cardinality(1..Len(n)) = Len(n)
  <2>1. 1 \in Int /\ Len(n) \in Int
    BY <1>1
  <2>2. /\ IsFiniteSet(1..Len(n))
        /\ Cardinality(1..Len(n)) = IF 1 > Len(n) THEN 0 ELSE Len(n) - 1 + 1
    BY <2>1, FS_Interval, Zenon
  <2> QED
    BY <1>1, <2>2
<1>3. Cardinality(kept) \in Nat /\ Cardinality(kept) <= Len(n)
  BY <1>1, <1>2, FS_Subset, FS_CardinalityType
<1>4. TrimRight(n) = SubSeq(n, 1, Cardinality(kept))
  BY DEF TrimRight
<1>5. n # <<>> /\ n[Len(n)] # "-" => kept = 1..Len(n)
  OBVIOUS
<1> HIDE DEF kept
<1>6. TrimRight(n) \in Seq(S)
  BY <1>1, <1>3, <1>4
<1>7. SubSeq(n, 1, Len(n)) = n
  OBVIOUS
<1> QED
  BY <1>2, <1>4, <1>5, <1>6, <1>7

\* What is left of a name is a sequence of letters, digits and hyphens.
LEMMA SanitizedSeq ==
    ASSUME NEW name \in Seq(STRING)
    PROVE  Sanitized(name) \in Seq(Char)
<1>1. ASSUME NEW n \in Seq(Char) PROVE Reverse(n) \in Seq(Char)
  BY DEF Reverse
<1>2. ASSUME NEW n \in Seq(Char) PROVE Trim(n) \in Seq(Char)
  BY <1>1, Trimmed DEF Trim
<1> DEFINE lower(c)   == IF c \in DOMAIN Lower THEN Lower[c] ELSE c
           replace(c) == IF c \in LowerCase THEN c ELSE "-"
           text       == [i \in DOMAIN name |-> replace(lower(name[i]))]
<1>3. text \in Seq(Char)
  <2>1. DOMAIN name = 1..Len(name) /\ Len(name) \in Nat
    OBVIOUS
  <2>2. \A i \in DOMAIN name : replace(lower(name[i])) \in Char
    BY DEF Char
  <2>3. text \in [1..Len(name) -> Char]
    BY <2>1, <2>2
  <2> HIDE DEF text
  <2> QED
    BY <2>1, <2>3, SeqDef
<1>4. Sanitized(name) = Trim(text)
  BY DEF Sanitized
<1> HIDE DEF text
<1> QED
  BY <1>2, <1>3, <1>4

\* A VM's name is the prefix of its scale set and one or more characters, none
\* of them a hyphen.
LEMMA NameShape ==
    ASSUME NEW name \in Seq(STRING), NEW uuid \in UUIDs, Room(name)
    PROVE  \E u \in Seq(LowerCase) :
              u # <<>> /\ VMName(name, uuid) = VMNamePrefixForScaleSet(name) \o u
<1> DEFINE prefix == VMNamePrefixForScaleSet(name)
           full   == prefix \o uuid
<1>1. prefix \in Seq(Char) /\ Len(prefix) \in Nat
  BY SanitizedSeq DEF VMNamePrefixForScaleSet, Char
<1>2. uuid \in Seq(LowerCase) /\ uuid # <<>> /\ uuid \in Seq(Char)
  BY UUIDsAssumption DEF Char
<1>3. Len(prefix) < NameLimit /\ NameLimit \in Nat
  BY LimitAssumption DEF Room
<1>4. VMName(name, uuid) = IF Len(full) > NameLimit THEN TrimRight(SubSeq(full, 1, NameLimit)) ELSE full
  BY DEF VMName
<1> HIDE DEF prefix
<1>5. CASE Len(full) <= NameLimit
  <2>1. VMName(name, uuid) = prefix \o uuid
    <3>1. Len(full) \in Nat
      BY <1>1, <1>2
    <3> QED
      BY <1>3, <1>4, <1>5, <3>1
  <2> QED
    BY <1>2, <2>1 DEF prefix
<1>6. CASE Len(full) > NameLimit
  <2> DEFINE k   == NameLimit - Len(prefix)
             u   == SubSeq(uuid, 1, k)
             cut == SubSeq(full, 1, NameLimit)
  <2>1. full \in Seq(Char) /\ Len(full) = Len(prefix) + Len(uuid) /\ k \in 1..Len(uuid)
    BY <1>1, <1>2, <1>3, <1>6
  <2>2. u \in Seq(LowerCase) /\ Len(u) = k /\ u # <<>> /\ \A i \in 1..k : u[i] = uuid[i]
    BY <1>2, <2>1
  <2>3. cut \in Seq(Char) /\ Len(cut) = NameLimit /\ \A i \in 1..NameLimit : cut[i] = full[i]
    BY <1>3, <1>6, <2>1
  <2>4. cut[NameLimit] = uuid[k]
    BY <1>1, <1>2, <1>3, <2>1, <2>3
  <2>5. uuid[k] # "-"
    BY <1>2, <2>1, HyphenAssumption
  <2>6. TrimRight(cut) = cut
    <3> HIDE DEF cut
    <3>1. cut # <<>> /\ cut[Len(cut)] # "-"
      BY <1>3, <2>1, <2>3, <2>4, <2>5
    <3> QED
      BY <2>3, <3>1, Trimmed
  <2>7. cut = prefix \o u
    <3>1. Len(prefix \o u) = NameLimit /\ prefix \o u \in Seq(Char)
      BY <1>1, <1>3, <2>2, <2>1 DEF Char
    <3>2. \A i \in 1..NameLimit : (prefix \o u)[i] = full[i]
      BY <1>1, <1>2, <1>3, <2>1, <2>2
    <3> HIDE DEF u, cut
    <3> QED
      BY <2>3, <3>1, <3>2, SeqEqual
  <2> QED
    BY <1>4, <1>6, <2>2, <2>6, <2>7 DEF prefix
<1>7. Len(full) <= NameLimit \/ Len(full) > NameLimit
  <2>1. Len(full) \in Nat
    BY <1>1, <1>2
  <2> QED
    BY <1>3, <2>1
<1> QED
  BY <1>5, <1>6, <1>7

\* So a name matches the scale sets with that sanitized name and no others: the
\* last hyphen of a name ends its prefix.
THEOREM NamesTellScaleSets ==
    ASSUME NEW a \in Seq(STRING), NEW b \in Seq(STRING), NEW uuid \in UUIDs, Room(a)
    PROVE  Matches(VMName(a, uuid), b) <=> Sanitized(a) = Sanitized(b)
<1> DEFINE p == VMNamePrefixForScaleSet(a)
           q == VMNamePrefixForScaleSet(b)
<1>1. /\ Sanitized(a) \in Seq(Char) /\ Sanitized(b) \in Seq(Char)
      /\ p = Sanitized(a) \o <<"-">> /\ q = Sanitized(b) \o <<"-">>
  BY SanitizedSeq DEF VMNamePrefixForScaleSet
<1> HIDE DEF p, q
<1>2. /\ p \in Seq(Char) /\ Len(p) = Len(Sanitized(a)) + 1 /\ p[Len(p)] = "-"
      /\ \A i \in 1..Len(Sanitized(a)) : p[i] = Sanitized(a)[i]
  BY <1>1 DEF Char
<1>3. /\ q \in Seq(Char) /\ Len(q) = Len(Sanitized(b)) + 1 /\ q[Len(q)] = "-"
      /\ \A i \in 1..Len(Sanitized(b)) : q[i] = Sanitized(b)[i]
  BY <1>1 DEF Char
<1>4. PICK u \in Seq(LowerCase) : u # <<>> /\ VMName(a, uuid) = p \o u
  BY NameShape DEF p
<1> DEFINE vm == p \o u
<1>5. /\ vm \in Seq(Char) /\ Len(vm) = Len(p) + Len(u) /\ Len(u) > 0 /\ Len(u) \in Nat
      /\ \A i \in 1..Len(p) : vm[i] = p[i]
      /\ \A i \in Len(p) + 1 .. Len(vm) : vm[i] \in LowerCase
  <2>1. u \in Seq(Char) /\ Len(u) > 0 /\ Len(u) \in Nat /\ \A i \in 1..Len(u) : u[i] \in LowerCase
    BY <1>4 DEF Char
  <2>2. Len(p) \in Nat
    BY <1>2
  <2>3. /\ vm \in Seq(Char) /\ Len(vm) = Len(p) + Len(u)
        /\ \A i \in 1 .. Len(p) + Len(u) : vm[i] = IF i <= Len(p) THEN p[i] ELSE u[i - Len(p)]
    BY <1>2, <2>1, ConcatProperties
  <2> HIDE DEF vm
  <2>4. \A i \in 1..Len(p) : vm[i] = p[i]
    BY <2>1, <2>2, <2>3
  <2>5. ASSUME NEW i \in Len(p) + 1 .. Len(vm) PROVE vm[i] \in LowerCase
    <3>1. i \in 1 .. Len(p) + Len(u) /\ ~(i <= Len(p)) /\ i - Len(p) \in 1..Len(u)
      BY <2>1, <2>2, <2>3
    <3>2. vm[i] = u[i - Len(p)]
      BY <2>3, <3>1
    <3> QED
      BY <2>1, <3>1, <3>2
  <2> QED
    BY <2>1, <2>3, <2>4, <2>5
<1>6. Matches(vm, b) <=> /\ Len(q) <= Len(vm) /\ SubSeq(q, 1, Len(q)) = SubSeq(vm, 1, Len(q))
                         /\ \A i \in Len(q) + 1 .. Len(vm) : vm[i] # "-"
  BY DEF Matches, IsPrefix, q
<1> HIDE DEF vm
<1>7. ASSUME Sanitized(a) = Sanitized(b) PROVE Matches(vm, b)
  <2>1. p = q
    BY <1>1, <1>7
  <2>2. SubSeq(p, 1, Len(p)) = p /\ SubSeq(vm, 1, Len(p)) = p
    BY <1>2, <1>5
  <2>3. \A i \in Len(p) + 1 .. Len(vm) : vm[i] # "-"
    BY <1>5, HyphenAssumption
  <2> QED
    BY <1>2, <1>5, <1>6, <2>1, <2>2, <2>3
<1>8. ASSUME Matches(vm, b) PROVE Sanitized(a) = Sanitized(b)
  <2>1. /\ Len(q) <= Len(vm) /\ \A i \in 1..Len(q) : vm[i] = q[i]
        /\ \A i \in Len(q) + 1 .. Len(vm) : vm[i] # "-"
    <3>1. /\ Len(q) <= Len(vm) /\ q = SubSeq(vm, 1, Len(q))
          /\ \A i \in Len(q) + 1 .. Len(vm) : vm[i] # "-"
      BY <1>3, <1>6, <1>8
    <3>2. \A i \in 1..Len(q) : SubSeq(vm, 1, Len(q))[i] = vm[i]
      BY <1>3, <1>5, <3>1
    <3> QED
      BY <3>1, <3>2
  <2>2. Len(q) \in 1..Len(vm) /\ vm[Len(q)] = "-"
    BY <1>1, <1>3, <1>5, <2>1
  <2>3. Len(p) \in 1..Len(vm) /\ vm[Len(p)] = "-"
    BY <1>1, <1>2, <1>5
  <2>4. Len(q) = Len(p)
    BY <1>2, <1>3, <1>5, <2>1, <2>2, <2>3, HyphenAssumption
  <2>5. Len(Sanitized(a)) = Len(Sanitized(b))
    BY <1>1, <1>2, <1>3, <2>4
  <2>6. \A i \in 1..Len(Sanitized(a)) : Sanitized(a)[i] = Sanitized(b)[i]
    BY <1>1, <1>2, <1>3, <1>5, <2>1, <2>4, <2>5
  <2> QED
    BY <1>1, <2>5, <2>6, SeqEqual
<1> QED
  BY <1>4, <1>7, <1>8 DEF vm

----------------------------------------------------------------------------
\* The scale set names of the files.
FileNames == UNION {{c.scaleSets[i].name : i \in DOMAIN c.scaleSets} : c \in RawConfigs}

\* Every VM carries a name that some scale set gave it, and the bridges of the
\* process are those of the file it was started with.
Named ==
    /\ \A n \in DOMAIN vms : vms[n] \in FileNames /\ \E u \in UUIDs : n = VMName(vms[n], u)
    /\ status = "up" => \A i \in DOMAIN active : NameOf(i) \in FileNames
    /\ status # "up" => DOMAIN active = {}
    /\ hydrated \subseteq DOMAIN active /\ DOMAIN ending = DOMAIN active

\* Load leaves the names alone.
LEMMA LoadedNames ==
    ASSUME NEW c \in RawConfigs
    PROVE  /\ DOMAIN Loaded(c, Env).scaleSets = DOMAIN c.scaleSets
           /\ \A i \in DOMAIN c.scaleSets : Loaded(c, Env).scaleSets[i].name \in FileNames
<1> DEFINE withCPU(ss) == [ss EXCEPT !.cpu = IF ss.cpu = 0 THEN DefaultCPU ELSE ss.cpu]
<1>1. Loaded(c, Env).scaleSets = [i \in DOMAIN c.scaleSets |-> withCPU(c.scaleSets[i])]
  BY FilesAssumption DEF Loaded, ApplyDefaults, ApplyEnvOverrides, Fields
<1>2. \A i \in DOMAIN c.scaleSets : withCPU(c.scaleSets[i]).name = c.scaleSets[i].name
  BY FilesAssumption
<1> HIDE DEF withCPU
<1> QED
  BY <1>1, <1>2 DEF FileNames

\* Names are sequences of characters.
LEMMA FileNamesAreSeqs == FileNames \subseteq Seq(STRING)
  BY FilesAssumption DEF FileNames

\* A name tells whose VM it is.
LEMMA NamedTells ==
    ASSUME Named, NEW n \in DOMAIN vms, Room(vms[n]), NEW b \in FileNames
    PROVE  Matches(n, b) <=> Sanitized(vms[n]) = Sanitized(b)
  BY FileNamesAreSeqs, NamesTellScaleSets DEF Named

\* What appears is named, and what goes takes nothing else with it.
LEMMA AppearsNamed ==
    ASSUME Named, status = "up", NEW i \in DOMAIN active, NEW u \in UUIDs, Appears(i, u)
    PROVE  /\ \A n \in DOMAIN vms' : vms'[n] \in FileNames /\ \E w \in UUIDs : n = VMName(vms'[n], w)
           /\ \A n \in DOMAIN vms : n \in DOMAIN vms' /\ vms'[n] = vms[n]
<1> DEFINE name == VMName(NameOf(i), u)
<1>1. /\ name \notin DOMAIN vms
      /\ vms' = [n \in DOMAIN vms \cup {name} |-> IF n = name THEN NameOf(i) ELSE vms[n]]
  BY DEF Appears
<1>2. NameOf(i) \in FileNames
  BY DEF Named
<1>3. vms'[name] = NameOf(i) /\ name = VMName(NameOf(i), u)
  BY <1>1
<1> HIDE DEF name
<1>4. \A n \in DOMAIN vms : n \in DOMAIN vms' /\ vms'[n] = vms[n]
  BY <1>1
<1>5. DOMAIN vms' = DOMAIN vms \cup {name}
  BY <1>1
<1> QED
  BY <1>2, <1>3, <1>4, <1>5 DEF Named

LEMMA GoneNamed ==
    ASSUME NEW n, Gone(n)
    PROVE  /\ DOMAIN vms' = DOMAIN vms \ {n}
           /\ \A m \in DOMAIN vms' : vms'[m] = vms[m]
  BY DEF Gone

\* No step breaks this.
LEMMA NextNamed ==
    ASSUME Named, [Next]_vars
    PROVE  Named'
<1> DEFINE VMsNamed == \A n \in DOMAIN vms : vms[n] \in FileNames /\ \E u \in UUIDs : n = VMName(vms[n], u)
<1>1. ASSUME NEW c \in RawConfigs, Start(c) PROVE Named'
  BY <1>1, LoadedNames DEF Start, Empty, Named, NameOf
<1>2. ASSUME Down, VMsNamed' PROVE Named'
  BY <1>2 DEF Down, Empty, Named
<1>3. ASSUME NEW c \in RawConfigs, StartRejected(c) PROVE Named'
  BY <1>3 DEF StartRejected, Empty, Named
<1>4. ASSUME UNCHANGED procVars, VMsNamed', hydrated' \subseteq DOMAIN active,
             DOMAIN active' = DOMAIN active, DOMAIN ending' = DOMAIN ending
      PROVE  Named'
  BY <1>4 DEF procVars, Named, NameOf
<1>5. VMsNamed /\ hydrated \subseteq DOMAIN active
  BY DEF Named
<1>6. UNCHANGED vms => VMsNamed'
  BY <1>5
<1>7. ASSUME NEW n, Gone(n) PROVE VMsNamed'
  BY <1>5, <1>7, GoneNamed
<1>8. ASSUME NEW i \in DOMAIN active, NEW u \in UUIDs, Appears(i, u) PROVE VMsNamed'
  BY <1>8, AppearsNamed DEF Named
<1> HIDE DEF VMsNamed
<1>9. ASSUME NEW i \in DOMAIN active, Hydrate(i) \/ HydrateFails(i) PROVE Named'
  <2>1. /\ UNCHANGED <<procVars, vms, ending>> /\ hydrated' = hydrated \cup {i}
        /\ DOMAIN active' = DOMAIN active
    BY <1>9 DEF Hydrate, HydrateFails, orchard
  <2> QED
    BY <1>4, <1>5, <1>6, <2>1
<1>10. ASSUME NEW i \in DOMAIN active, NEW u \in UUIDs, CreateVM(i, u) PROVE Named'
  <2>1. /\ UNCHANGED <<procVars, ending, hydrated>> /\ Appears(i, u)
        /\ DOMAIN active' = DOMAIN active
    BY <1>10 DEF CreateVM
  <2> QED
    BY <1>4, <1>5, <1>8, <2>1
<1>11. ASSUME NEW i \in DOMAIN active, NEW u \in UUIDs, CreateFails(i, u) PROVE Named'
  BY <1>2, <1>6, <1>8, <1>11 DEF CreateFails
<1>12. ASSUME NEW i \in DOMAIN active, NEW n,
              HandleJobCompleted(i, n) \/ DeleteVM(i, n) \/ DeleteVMFails(i, n)
       PROVE  Named'
  <2>1. /\ UNCHANGED <<procVars, hydrated>> /\ (Gone(n) \/ UNCHANGED vms)
        /\ DOMAIN active' = DOMAIN active /\ DOMAIN ending' = DOMAIN ending
    BY <1>12 DEF HandleJobCompleted, DeleteVM, DeleteVMFails, orchard
  <2> QED
    BY <1>4, <1>5, <1>6, <1>7, <2>1
<1>13. ASSUME NEW n, ReapVM(n) PROVE Named'
  <2>1. UNCHANGED <<procVars, hydrated, ending>> /\ Gone(n) /\ DOMAIN active' = DOMAIN active
    BY <1>13 DEF ReapVM
  <2> QED
    BY <1>4, <1>5, <1>7, <2>1
<1>14. ASSUME \/ UNCHANGED vars \/ Refresh \/ RetainPendingDeletes \/ \E n \in DOMAIN vms : VMEnds(n)
       PROVE  Named'
  <2>1. UNCHANGED <<procVars, hydrated, ending, active, vms>>
    BY <1>14 DEF vars, memVars, orchard, Refresh, RetainPendingDeletes, VMEnds
  <2> QED
    BY <1>4, <1>5, <1>6, <2>1
<1>15. Crash => Named'
  BY <1>2, <1>6 DEF Crash
<1> QED
  BY <1>1, <1>3, <1>9, <1>10, <1>11, <1>12, <1>13, <1>14, <1>15 DEF Next, BridgeStep

\* A VM of an earlier process is in every list that can have been read since this
\* one started, as alive if it still is; a listener handles the end of one job at
\* a time.
Inherits ==
    /\ inherited \subseteq DOMAIN vms
    /\ \A list \in snap : inherited \subseteq list.all /\ inherited \ ended \subseteq list.alive
    /\ adopters \subseteq hydrated
    /\ \A i \in DOMAIN ending : \A n, m \in ending[i] : n = m

\* No step breaks this either.
LEMMA NextInherits ==
    ASSUME Named, Inherits, [Next]_vars
    PROVE  Inherits'
<1> DEFINE OneEnding == \A i \in DOMAIN ending : \A n, m \in ending[i] : n = m
           Seen == \A list \in snap : inherited \subseteq list.all /\ inherited \ ended \subseteq list.alive
<1> USE DEF Inherits
<1>1. ASSUME NEW c \in RawConfigs, Start(c) PROVE Inherits'
  BY <1>1 DEF Start, Empty
<1>2. ASSUME Down PROVE Inherits'
  BY <1>2 DEF Down, Empty
<1>3. ASSUME NEW c \in RawConfigs, StartRejected(c) PROVE Inherits'
  BY <1>3 DEF StartRejected, Empty
<1>4. ASSUME NEW i \in DOMAIN active, Hydrate(i) \/ HydrateFails(i) PROVE Inherits'
  BY <1>4 DEF Hydrate, HydrateFails, orchard
<1>5. ASSUME NEW i \in DOMAIN active, NEW u \in UUIDs, CreateVM(i, u) PROVE Inherits'
  <2>1. UNCHANGED <<ending, hydrated, adopters, snap, inherited, ended>> /\ DOMAIN vms \subseteq DOMAIN vms'
    BY <1>5 DEF CreateVM, Appears
  <2> QED
    BY <2>1
<1>6. ASSUME NEW n, Gone(n), UNCHANGED <<adopters, hydrated, snap>>, OneEnding' PROVE Inherits'
  BY <1>6, GoneNamed DEF Gone
<1>7. ASSUME UNCHANGED <<adopters, hydrated, snap, orchard>>, OneEnding' PROVE Inherits'
  BY <1>7 DEF orchard
<1>8. ASSUME NEW i \in DOMAIN active, NEW n,
             HandleJobCompleted(i, n) \/ DeleteVM(i, n) \/ DeleteVMFails(i, n)
      PROVE  Inherits'
  <2>1. OneEnding'
    BY <1>8 DEF HandleJobCompleted, DeleteVM, DeleteVMFails
  <2> HIDE DEF OneEnding
  <2> QED
    BY <1>6, <1>7, <1>8, <2>1 DEF HandleJobCompleted, DeleteVM, DeleteVMFails
<1>9. ASSUME NEW n, ReapVM(n) PROVE Inherits'
  BY <1>6, <1>9 DEF ReapVM
<1>10. ASSUME NEW n, VMEnds(n) PROVE Inherits'
  BY <1>10 DEF VMEnds, memVars
<1>11. ASSUME Refresh PROVE Inherits'
  BY <1>11 DEF Refresh, Now, orchard
<1>12. ASSUME RetainPendingDeletes \/ UNCHANGED vars PROVE Inherits'
  BY <1>7, <1>12 DEF RetainPendingDeletes, vars, memVars
<1> HIDE DEF Inherits
<1> QED
  BY <1>1, <1>2, <1>3, <1>4, <1>5, <1>8, <1>9, <1>10, <1>11, <1>12
     DEF Next, BridgeStep, CreateFails, Crash

\* The lists a caller can be given have every VM of an earlier process.
LEMMA ListsInherit ==
    ASSUME Inherits, NEW list \in Lists
    PROVE  inherited \subseteq list.all /\ inherited \ ended \subseteq list.alive
  BY DEF Inherits, Lists, Now

\* A VM of an earlier process whose scale set is still configured is tracked
\* again by a bridge that is given a list (HydrateFromOrchard), and is not lost by
\* the bridge or by cleanup until it has ended or is gone, whichever deletes fail
\* (HandleJobCompleted, OnDeleteFailed, retainPendingDeletes), through any
\* sequence of restarts with any files.
THEOREM NoVMIsForgotten == Spec => []NoneForgotten
<1> DEFINE IInv == Named /\ Inherits /\ NoneForgotten
<1>1. Init => IInv
  BY DEF Init, Named, Inherits, NoneForgotten
<1>2. IInv /\ [Next]_vars => IInv'
  <2> SUFFICES ASSUME Named, Inherits, NoneForgotten, [Next]_vars PROVE NoneForgotten'
    BY NextNamed, NextInherits
  <2> DEFINE mine(n) == {i \in adopters : Sanitized(NameOf(i)) = Sanitized(vms[n])}
             Held(n) == n \in pending \/ \E i \in mine(n) : n \in active[i] \cup ending[i]
  \* It is enough to look at one VM that stays, in a step that leaves its name and
  \* the adopters alone.
  <2>0. ASSUME UNCHANGED <<cfg, adopters>>,
               \A n \in inherited' : n \in inherited /\ vms'[n] = vms[n],
               \A n \in inherited' \ ended' : n \in inherited \ ended /\ (Held(n) => Held(n)')
        PROVE  NoneForgotten'
    <3> SUFFICES ASSUME NEW n \in inherited' \ ended', Room(vms'[n]), mine(n)' # {} PROVE Held(n)'
      BY DEF NoneForgotten
    <3>1. vms'[n] = vms[n] /\ n \in inherited \ ended
      BY <2>0
    <3>2. mine(n)' = mine(n)
      BY <2>0, <3>1 DEF NameOf
    <3>3. Held(n)
      BY <3>1, <3>2 DEF NoneForgotten
    <3> QED
      BY <2>0, <3>3
  <2>1. ASSUME NEW c \in RawConfigs, Start(c) \/ StartRejected(c) PROVE NoneForgotten'
    BY <2>1 DEF Start, StartRejected, Empty, NoneForgotten
  <2>2. ASSUME Down PROVE NoneForgotten'
    BY <2>2 DEF Down, Empty, NoneForgotten
  <2>3. ASSUME NEW i \in DOMAIN active, Hydrate(i) PROVE NoneForgotten'
    <3>1. PICK list \in Lists :
              active' = [active EXCEPT ![i] = ManagedVMsForScaleSet(list.alive, NameOf(i))]
      BY <2>3 DEF Hydrate
    <3>2. /\ i \notin hydrated /\ adopters' = adopters \cup {i}
          /\ UNCHANGED <<cfg, vms, ended, inherited, pending, ending>>
      BY <2>3 DEF Hydrate, procVars, orchard
    <3>3. ASSUME NEW n \in inherited \ ended, Room(vms[n]), mine(n)' # {} PROVE Held(n)'
      <4>1. CASE i \in mine(n)'
        <5>1. NameOf(i) \in FileNames /\ n \in DOMAIN vms /\ Sanitized(NameOf(i)) = Sanitized(vms[n])
          BY <3>2, <3>3, <4>1 DEF Named, Inherits, NameOf
        <5>2. Matches(n, NameOf(i))
          BY <3>3, <5>1, NamedTells
        <5>3. n \in list.alive
          BY <3>3, ListsInherit
        <5>4. n \in active'[i]
          BY <3>1, <5>2, <5>3 DEF ManagedVMsForScaleSet
        <5> QED
          BY <4>1, <5>4
      <4>2. CASE i \notin mine(n)'
        <5>1. mine(n)' = mine(n)
          BY <3>2, <4>2 DEF NameOf
        <5>2. Held(n)
          BY <3>3, <5>1 DEF NoneForgotten
        <5>3. \A j \in mine(n) : active'[j] = active[j] /\ ending'[j] = ending[j]
          BY <3>1, <3>2 DEF Inherits, Named
        <5> QED
          BY <3>2, <5>1, <5>2, <5>3
      <4> QED
        BY <4>1, <4>2
    <3> QED
      BY <3>2, <3>3 DEF NoneForgotten
  <2>4. ASSUME NEW i \in DOMAIN active, NEW u \in UUIDs, CreateVM(i, u) PROVE NoneForgotten'
    <3>1. /\ UNCHANGED <<cfg, ended, inherited, pending, ending, adopters>> /\ Appears(i, u)
          /\ \A j \in DOMAIN active : active[j] \subseteq active'[j]
      BY <2>4 DEF CreateVM, Appears, procVars
    <3>2. \A n \in DOMAIN vms : vms'[n] = vms[n]
      BY <3>1 DEF Appears
    <3>3. adopters \subseteq DOMAIN active /\ inherited \subseteq DOMAIN vms
      BY DEF Named, Inherits
    <3>4. ASSUME NEW n \in inherited \ ended, Held(n) PROVE Held(n)'
      BY <3>1, <3>2, <3>3, <3>4 DEF NameOf
    <3> HIDE DEF Held
    <3> QED
      BY <2>0, <3>1, <3>2, <3>3, <3>4
  <2>5. ASSUME NEW i \in DOMAIN active, NEW n, HandleJobCompleted(i, n) PROVE NoneForgotten'
    <3>1. /\ UNCHANGED <<cfg, vms, ended, inherited, pending, adopters>>
          /\ \A j \in DOMAIN active : active[j] \cup ending[j] \subseteq active'[j] \cup ending'[j]
      BY <2>5 DEF HandleJobCompleted, Listening, procVars, orchard, Named
    <3>2. adopters \subseteq DOMAIN active
      BY DEF Named, Inherits
    <3>3. ASSUME NEW m \in inherited \ ended, Held(m) PROVE Held(m)'
      BY <3>1, <3>2, <3>3 DEF NameOf
    <3> HIDE DEF Held
    <3> QED
      BY <2>0, <3>1, <3>3
  \* A delete, whoever makes it, only takes the VM from the bridges' hands that it
  \* takes from Orchard or leaves marked.
  <2>6. ASSUME UNCHANGED <<cfg, adopters>>, NEW n, Gone(n) \/ (UNCHANGED orchard /\ n \in pending'),
               \A m \in pending \ {n} : m \in pending',
               \A j \in DOMAIN active : (active[j] \cup ending[j]) \ {n} \subseteq active'[j] \cup ending'[j]
        PROVE  NoneForgotten'
    <3>1. /\ \A m \in inherited' : m \in inherited /\ vms'[m] = vms[m]
          /\ \A m \in inherited' \ ended' : m \in inherited \ ended
          /\ n \in inherited' => n \in pending'
      BY <2>6 DEF Gone, orchard, Inherits
    <3>2. adopters \subseteq DOMAIN active
      BY DEF Named, Inherits
    <3>3. ASSUME NEW m \in inherited' \ ended', Held(m) PROVE Held(m)'
      <4>1. CASE m = n
        BY <3>1, <4>1
      <4>2. CASE m # n
        BY <2>6, <3>1, <3>2, <3>3, <4>2 DEF NameOf
      <4> QED
        BY <4>1, <4>2
    <3> HIDE DEF Held
    <3> QED
      BY <2>0, <2>6, <3>1, <3>3
  <2>7. ASSUME NEW i \in DOMAIN active, NEW n, DeleteVM(i, n) \/ DeleteVMFails(i, n) PROVE NoneForgotten'
    <3>1. /\ UNCHANGED <<cfg, adopters, active>> /\ n \in ending[i]
          /\ ending' = [ending EXCEPT ![i] = {}]
          /\ Gone(n) \/ (UNCHANGED orchard /\ n \in pending')
          /\ pending \subseteq pending'
      BY <2>7 DEF DeleteVM, DeleteVMFails, procVars
    <3>2. \A j \in DOMAIN active : ending[j] \ {n} \subseteq ending'[j]
      BY <3>1 DEF Inherits, Named
    <3> QED
      BY <2>6, <3>1, <3>2
  <2>8. ASSUME NEW n, ReapVM(n) PROVE NoneForgotten'
    BY <2>6, <2>8 DEF ReapVM, procVars
  <2>9. ASSUME RetainPendingDeletes PROVE NoneForgotten'
    <3>1. /\ UNCHANGED <<cfg, vms, ended, inherited, adopters, active, ending>>
          /\ \A n \in inherited : n \in pending => n \in pending'
      BY <2>9, ListsInherit DEF RetainPendingDeletes, procVars, orchard
    <3>2. ASSUME NEW n \in inherited \ ended, Held(n) PROVE Held(n)'
      BY <3>1, <3>2 DEF NameOf
    <3> HIDE DEF Held
    <3> QED
      BY <2>0, <3>1, <3>2
  <2>10. ASSUME \/ UNCHANGED vars \/ Refresh \/ \E n \in DOMAIN vms : VMEnds(n)
                \/ \E i \in DOMAIN active : HydrateFails(i)
         PROVE  NoneForgotten'
    <3>1. /\ UNCHANGED <<cfg, vms, inherited, pending, adopters, active, ending>>
          /\ ended \subseteq ended'
      BY <2>10 DEF vars, procVars, memVars, orchard, Refresh, VMEnds, HydrateFails
    <3>2. ASSUME NEW n \in inherited \ ended, Held(n) PROVE Held(n)'
      BY <3>1, <3>2 DEF NameOf
    <3> HIDE DEF Held
    <3> QED
      BY <2>0, <3>1, <3>2
  <2> QED
    BY <2>1, <2>2, <2>3, <2>4, <2>5, <2>7, <2>8, <2>9, <2>10 DEF Next, BridgeStep, CreateFails, Crash
<1> QED
  BY <1>1, <1>2, PTL DEF Spec

\* No draw of a uuid gives a VM the name that a scale set without room for
\* uuids gives its own.
ClashFree ==
    \A a, b \in FileNames, u, w \in UUIDs : Room(a) /\ ~Room(b) => VMName(a, u) # VMName(b, w)

\* What a bridge tracks it has matched or named.
Tracked ==
    \A i \in DOMAIN active : \A n \in active[i] :
        Matches(n, NameOf(i)) \/ \E u \in UUIDs : n = VMName(NameOf(i), u)

\* A bridge never tracks a VM that was made for a scale set with another
\* sanitized name, provided that names do not clash: without ClashFree, a bridge
\* that still tracks a VM which another bridge has deleted takes over the VM that
\* this one creates under the same name.
THEOREM EachTracksItsOwn ==
    ASSUME ClashFree
    PROVE  Spec => []TracksOnlyItsOwn
<1> DEFINE IInv == Named /\ Tracked
<1>1. Init => IInv
  BY DEF Init, Named, Tracked
<1>2. IInv /\ [Next]_vars => IInv'
  <2> SUFFICES ASSUME Named, Tracked, [Next]_vars PROVE Tracked'
    BY NextNamed
  <2> USE DEF Tracked, NameOf
  <2>1. ASSUME NEW c \in RawConfigs, Start(c) \/ StartRejected(c) PROVE Tracked'
    BY <2>1 DEF Start, StartRejected, Empty
  <2>2. ASSUME Down PROVE Tracked'
    BY <2>2 DEF Down, Empty
  <2>3. ASSUME NEW i \in DOMAIN active, Hydrate(i) PROVE Tracked'
    <3>1. PICK list \in Lists :
              active' = [active EXCEPT ![i] = ManagedVMsForScaleSet(list.alive, NameOf(i))]
      BY <2>3 DEF Hydrate
    <3>2. hydrated' = hydrated \cup {i} /\ UNCHANGED cfg
      BY <2>3 DEF Hydrate, procVars
    <3>3. \A n \in active'[i] : Matches(n, NameOf(i))
      BY <3>1 DEF ManagedVMsForScaleSet
    <3> QED
      BY <3>1, <3>2, <3>3 DEF Named
  <2>4. ASSUME NEW i \in DOMAIN active, HydrateFails(i) PROVE Tracked'
    BY <2>4 DEF HydrateFails, procVars
  <2>5. ASSUME NEW i \in DOMAIN active, NEW u \in UUIDs, CreateVM(i, u) PROVE Tracked'
    BY <2>5 DEF CreateVM, procVars, Named
  <2>6. ASSUME UNCHANGED cfg, DOMAIN active' = DOMAIN active,
               \A j \in DOMAIN active : active'[j] \subseteq active[j]
        PROVE  Tracked'
    BY <2>6
  <2>7. ASSUME NEW i \in DOMAIN active, NEW n,
               HandleJobCompleted(i, n) \/ DeleteVM(i, n) \/ DeleteVMFails(i, n)
        PROVE  Tracked'
    BY <2>6, <2>7 DEF HandleJobCompleted, DeleteVM, DeleteVMFails, procVars
  <2>8. ASSUME NEW n, ReapVM(n) PROVE Tracked'
    BY <2>6, <2>8 DEF ReapVM, procVars
  <2>9. ASSUME \/ UNCHANGED vars \/ Refresh \/ RetainPendingDeletes \/ \E n \in DOMAIN vms : VMEnds(n)
        PROVE  Tracked'
    BY <2>6, <2>9 DEF vars, procVars, memVars, Refresh, RetainPendingDeletes, VMEnds
  <2> QED
    BY <2>1, <2>2, <2>3, <2>4, <2>5, <2>7, <2>8, <2>9 DEF Next, BridgeStep, CreateFails, Crash
<1>3. IInv => TracksOnlyItsOwn
  <2> SUFFICES ASSUME Named, Tracked,
                      NEW i \in hydrated, NEW n \in active[i] \cap DOMAIN vms, Room(vms[n])
               PROVE  Sanitized(vms[n]) = Sanitized(NameOf(i))
    BY DEF TracksOnlyItsOwn
  <2>1. NameOf(i) \in FileNames /\ vms[n] \in FileNames
    BY DEF Named
  <2>2. Matches(n, NameOf(i))
    <3>1. ASSUME NEW u \in UUIDs, n = VMName(NameOf(i), u) PROVE Matches(n, NameOf(i))
      <4>1. Room(NameOf(i))
        BY <2>1, <3>1 DEF ClashFree, Named
      <4> QED
        BY <2>1, <3>1, <4>1, FileNamesAreSeqs, NamesTellScaleSets
    <3> QED
      BY <3>1 DEF Tracked, Named
  <2> QED
    BY <2>1, <2>2, NamedTells
<1> QED
  BY <1>1, <1>2, <1>3, PTL DEF Spec
=============================================================================
