---------------------------- MODULE FleetProofs ----------------------------
(***************************************************************************)
(* What AutoSize placement may rely on, for every fleet: a candidate can   *)
(* always be sized, and two candidates never stand for the same machine;   *)
(* and the facts about sums, capacities and shares that proofs about the   *)
(* whole process cite.                                                     *)
(***************************************************************************)
EXTENDS Fleet, FiniteSetTheorems, TLAPS

\* A worker that autoSizeCandidates lets through has more of both resources
\* than the reserves.
LEMMA EligibleResources ==
    ASSUME NEW ws, NEW n, NEW reserve \in Reserve, ws[n] \in Worker,
           AutoSizeExclusionReason(ws, n, reserve) = "eligible"
    PROVE  /\ ws[n].cores \in Nat /\ ws[n].cores > reserve.cpu
           /\ ws[n].mem \in Nat /\ ws[n].mem > reserve.mem
  <1>1. /\ ~(ws[n].cores = None \/ ws[n].mem = None)
        /\ ~(ws[n].cores <= reserve.cpu \/ ws[n].mem <= reserve.mem)
    BY DEF AutoSizeExclusionReason
  <1>2. ws[n].cores \in Nat /\ ws[n].mem \in Nat
    BY <1>1 DEF Worker
  <1>3. QED  BY <1>1, <1>2 DEF Reserve

\* The two copies of the sizing rule agree (AutoSizeExclusionReason, which picks
\* the candidates, and AutoSizedVM, which sizes the VM): a candidate always
\* yields a VM with at least one core and one MiB, so the branch of
\* handleAutoSizeScaleUp that skips a worker and releases its slot is dead.
THEOREM CandidatesAreSizable ==
    ASSUME NEW ws, NEW labels, NEW reserve \in Reserve,
           NEW n \in AutoSizeCandidates(ws, labels, reserve), ws[n] \in Worker
    PROVE  AutoSizedVM(ws[n], reserve) \in [cpu : Nat \ {0}, mem : Nat \ {0}]
  <1>1. AutoSizeExclusionReason(ws, n, reserve) = "eligible"
    BY DEF AutoSizeCandidates
  <1>2. /\ ws[n].cores \in Nat /\ ws[n].cores > reserve.cpu
        /\ ws[n].mem \in Nat /\ ws[n].mem > reserve.mem
    BY <1>1, EligibleResources
  <1>3. reserve.cpu \in Nat /\ reserve.mem \in Nat
    BY DEF Reserve
  <1>4. /\ ~(ws[n].cores \in {0, None} \/ ws[n].mem \in {0, None})
        /\ ~(ws[n].cores <= reserve.cpu \/ ws[n].mem <= reserve.mem)
    BY <1>2, <1>3, NoneAssumption
  <1>5. AutoSizedVM(ws[n], reserve) = [cpu |-> ws[n].cores - reserve.cpu, mem |-> ws[n].mem - reserve.mem]
    BY <1>4 DEF AutoSizedVM
  <1>6. ws[n].cores - reserve.cpu \in Nat \ {0} /\ ws[n].mem - reserve.mem \in Nat \ {0}
    BY <1>2, <1>3
  <1>7. QED  BY <1>5, <1>6

\* Two candidates of one fleet never share a pin, so the machines a scale-up
\* walks over are as many as the pins it hands out, and none of them is held by
\* a VM that is still alive: freeAutoSizeWorkers never offers an identity twice
\* and never one that managedPinIdentities reports.
THEOREM FreePinsAreDistinct ==
    ASSUME NEW ws, NEW vs, NEW labels, NEW reserve,
           NEW m \in FreeAutoSizeWorkers(ws, vs, labels, reserve),
           NEW n \in FreeAutoSizeWorkers(ws, vs, labels, reserve)
    PROVE  /\ m # n => ws[m].pin # ws[n].pin
           /\ ws[m].pin # None
           /\ \A v \in DOMAIN vs :
                 IsManagedVM(vs[v]) /\ NotTerminal(vs[v]) /\ vs[v].worker \notin DOMAIN ws
                    => vs[v].pin # ws[m].pin
  <1>1. /\ m \in DOMAIN ws /\ n \in DOMAIN ws
        /\ AutoSizeExclusionReason(ws, m, reserve) = "eligible"
        /\ ws[m].pin \notin ManagedPinIdentities(vs, ws)
    BY DEF FreeAutoSizeWorkers, AutoSizeCandidates
  <1>2. ~PinShared(ws, m) /\ ws[m].pin # None
    BY <1>1 DEF AutoSizeExclusionReason
  <1>3. m # n => ws[m].pin # ws[n].pin
    BY <1>1, <1>2 DEF PinShared
  <1>4. ASSUME NEW v \in DOMAIN vs, IsManagedVM(vs[v]), NotTerminal(vs[v]),
               vs[v].worker \notin DOMAIN ws
        PROVE  vs[v].pin # ws[m].pin
    BY <1>1, <1>2, <1>4, Zenon DEF ManagedPinIdentities
  <1>5. QED  BY <1>2, <1>3, <1>4

----------------------------------------------------------------------------
\* The larger of two numbers.
LEMMA MaxOfTwo ==
    ASSUME NEW a \in Int, NEW b \in Int
    PROVE  Max({a, b}) \in {a, b} /\ Max({a, b}) >= a /\ Max({a, b}) >= b
<1>1. \E x \in {a, b} : \A y \in {a, b} : x >= y
  OBVIOUS
<1> QED
  BY <1>1 DEF Max

\* Likewise the smaller.
LEMMA MinOfTwo ==
    ASSUME NEW a \in Int, NEW b \in Int
    PROVE  Min({a, b}) \in {a, b} /\ Min({a, b}) <= a /\ Min({a, b}) <= b
<1>1. \E x \in {a, b} : \A y \in {a, b} : x =< y
  OBVIOUS
<1> QED
  BY <1>1 DEF Min

\* The pairs that SumOver counts.
Units(S, f) == UNION {{x} \X (1..f[x]) : x \in S}

\* A finite sum of naturals counts finitely many units.
LEMMA SumNat ==
    ASSUME NEW S, IsFiniteSet(S), NEW f, \A x \in S : f[x] \in Nat
    PROVE  /\ IsFiniteSet(Units(S, f))
           /\ SumOver(S, f) = Cardinality(Units(S, f))
           /\ SumOver(S, f) \in Nat
<1> DEFINE part == [x \in S |-> {x} \X (1..f[x])]
           T    == {{x} \X (1..f[x]) : x \in S}
<1>1. part \in Surjection(S, T)
  BY DEF Surjection
<1>2. IsFiniteSet(T)
  BY <1>1, FS_Surjection
<1>3. ASSUME NEW x \in S PROVE IsFiniteSet({x} \X (1..f[x]))
  <2>1. IsFiniteSet({x})
    BY FS_Singleton
  <2>2. IsFiniteSet(1..f[x])
    <3>1. f[x] \in Int
      OBVIOUS
    <3> QED
      BY <3>1, FS_Interval
  <2> QED
    BY <2>1, <2>2, FS_Product
<1>4. IsFiniteSet(Units(S, f))
  BY <1>2, <1>3, FS_UNION DEF Units
<1> QED
  BY <1>4, FS_CardinalityType DEF Units, SumOver

\* One term taken out of a sum.
LEMMA SumSplit ==
    ASSUME NEW S, IsFiniteSet(S), NEW f, \A y \in S : f[y] \in Nat, NEW x \in S
    PROVE  SumOver(S, f) = SumOver(S \ {x}, f) + f[x]
<1> DEFINE A == Units(S \ {x}, f)
           B == {x} \X (1..f[x])
<1>1. IsFiniteSet(S \ {x})
  BY FS_RemoveElement
<1>2. IsFiniteSet(A) /\ SumOver(S \ {x}, f) = Cardinality(A) /\ Cardinality(A) \in Nat
  BY <1>1, SumNat
<1>3. IsFiniteSet(B) /\ Cardinality(B) = f[x]
  <2>1. IsFiniteSet({x}) /\ Cardinality({x}) = 1
    BY FS_Singleton
  <2>2. IsFiniteSet(1..f[x]) /\ Cardinality(1..f[x]) = f[x]
    BY FS_Interval
  <2> QED
    BY <2>1, <2>2, FS_Product
<1>4. Units(S, f) = A \cup B /\ A \cap B = {}
  BY DEF Units
<1> HIDE DEF A, B
<1>5. Cardinality(A \cup B) = Cardinality(A) + Cardinality(B) - Cardinality(A \cap B)
  BY <1>2, <1>3, FS_Union
<1>6. Cardinality(A \cap B) = 0
  BY <1>4, FS_EmptySet
<1>7. SumOver(S, f) = Cardinality(Units(S, f))
  BY SumNat
<1> QED
  BY <1>2, <1>3, <1>4, <1>5, <1>6, <1>7

\* Sums of functions that agree are equal.
LEMMA SumSame ==
    ASSUME NEW S, NEW f, NEW g, \A x \in S : f[x] = g[x]
    PROVE  SumOver(S, f) = SumOver(S, g)
<1>1. Units(S, f) = Units(S, g)
  BY DEF Units
<1> QED
  BY <1>1 DEF Units, SumOver

\* A sum follows the change of one term, and is no less than any term.
LEMMA SumUpdate ==
    ASSUME NEW S, IsFiniteSet(S), NEW x \in S,
           NEW f, \A y \in S : f[y] \in Nat,
           NEW g, \A y \in S : g[y] \in Nat,
           \A y \in S \ {x} : g[y] = f[y]
    PROVE  /\ SumOver(S, g) = SumOver(S, f) - f[x] + g[x]
           /\ f[x] <= SumOver(S, f)
           /\ SumOver(S, f) \in Nat
<1>1. SumOver(S \ {x}, f) = SumOver(S \ {x}, g)
  BY SumSame
<1>2. SumOver(S \ {x}, f) \in Nat
  <2>1. IsFiniteSet(S \ {x})
    BY FS_RemoveElement
  <2> QED
    BY <2>1, SumNat
<1>3. SumOver(S, f) = SumOver(S \ {x}, f) + f[x]
  BY SumSplit
<1>4. SumOver(S, g) = SumOver(S \ {x}, g) + g[x]
  BY SumSplit
<1> QED
  BY <1>1, <1>2, <1>3, <1>4

\* A sum of zeros.
LEMMA SumZero ==
    ASSUME NEW S, NEW f, \A x \in S : f[x] = 0
    PROVE  SumOver(S, f) = 0
<1>1. UNION {{x} \X (1..f[x]) : x \in S} = {}
  OBVIOUS
<1> QED
  BY <1>1, FS_EmptySet DEF SumOver

\* A finite set A, cut into parts by o, has no more members than the sum of
\* bounds on its parts.
LEMMA SumCovers ==
    ASSUME NEW S, IsFiniteSet(S), NEW f, \A x \in S : f[x] \in Nat,
           NEW A, IsFiniteSet(A), NEW o, \A v \in A : o[v] \in S,
           \A x \in S : Cardinality({v \in A : o[v] = x}) <= f[x]
    PROVE  Cardinality(A) <= SumOver(S, f)
<1> DEFINE P(x)   == {v \in A : o[v] = x}
           num(x) == CHOOSE b \in Bijection(1..Cardinality(P(x)), P(x)) : TRUE
           idx(v) == CHOOSE i \in 1..Cardinality(P(o[v])) : num(o[v])[i] = v
           g      == [v \in A |-> <<o[v], idx(v)>>]
<1>1. ASSUME NEW v \in A PROVE /\ idx(v) \in 1..Cardinality(P(o[v]))
                                /\ num(o[v])[idx(v)] = v
                                /\ Cardinality(P(o[v])) \in Nat
  <2> DEFINE Q == P(o[v])
  <2>1. v \in Q /\ Q \in SUBSET A
    OBVIOUS
  <2> HIDE DEF Q
  <2>2. Cardinality(Q) \in Nat /\ Bijection(1..Cardinality(Q), Q) # {}
    BY <2>1, FS_Subset, FS_CardinalityType DEF ExistsBijection
  <2> DEFINE b == CHOOSE h \in Bijection(1..Cardinality(Q), Q) : TRUE
  <2>3. b \in Bijection(1..Cardinality(Q), Q)
    BY <2>2
  <2>4. b = num(o[v])
    BY DEF Q
  <2> HIDE DEF b
  <2>5. \E i \in 1..Cardinality(Q) : b[i] = v
    BY <2>1, <2>3 DEF Bijection, Surjection
  <2>6. idx(v) = CHOOSE i \in 1..Cardinality(Q) : b[i] = v
    BY <2>4 DEF Q
  <2> HIDE DEF num, idx
  <2>7. idx(v) \in 1..Cardinality(Q) /\ b[idx(v)] = v
    BY <2>5, <2>6
  <2> QED
    BY <2>2, <2>4, <2>7 DEF Q
<1> HIDE DEF num, idx
<1>2. \A v \in A : Cardinality(P(o[v])) <= f[o[v]] /\ f[o[v]] \in Nat /\ o[v] \in S
  OBVIOUS
<1> HIDE DEF P
<1>3. \A v \in A : g[v] \in Units(S, f)
  <2> SUFFICES ASSUME NEW v \in A PROVE <<o[v], idx(v)>> \in Units(S, f)
    OBVIOUS
  <2>1. idx(v) \in 1..f[o[v]]
    BY <1>1, <1>2
  <2> QED
    BY <1>2, <2>1 DEF Units
<1>4. \A u, v \in A : g[u] = g[v] => u = v
  BY <1>1
<1>5. g \in Injection(A, Units(S, f))
  BY <1>3, <1>4 DEF Injection, IsInjective
<1> QED
  BY <1>5, SumNat, FS_Injection

----------------------------------------------------------------------------
\* The slots of a finite worker list are a natural number, however it is cut.
LEMMA SlotsNat ==
    ASSUME NEW ws, NEW S, IsFiniteSet(S), \A n \in S : ws[n].slots \in Nat
    PROVE  SlotsOf(ws, S) \in Nat
<1>1. \A n \in S : [m \in S |-> ws[m].slots][n] \in Nat
  OBVIOUS
<1> QED
  BY <1>1, SumNat DEF SlotsOf

\* What the process reads off a worker list: the fleet's slots, a scale set's
\* capacity and its share are natural numbers.
LEMMA FleetNumbers ==
    ASSUME NEW ws, IsFiniteSet(DOMAIN ws), \A n \in DOMAIN ws : ws[n] \in Worker
    PROVE  /\ TotalSlots(ws) \in Nat /\ DiscoveredSlots(ws) \in Nat
           /\ \A labels : CapacityForLabels(ws, labels) \in Nat
           /\ \A ss : WorkerCapacity(ws, ss) \in Nat
<1>1. ASSUME NEW S \in SUBSET DOMAIN ws PROVE IsFiniteSet(S) /\ Cardinality(S) \in Nat /\ SlotsOf(ws, S) \in Nat
  <2>1. IsFiniteSet(S)
    BY FS_Subset
  <2>2. \A n \in S : ws[n].slots \in Nat
    BY DEF Worker
  <2> QED
    BY <2>1, <2>2, SlotsNat, FS_CardinalityType
<1>2. \A labels : CapacityForLabels(ws, labels) \in Nat
  BY <1>1 DEF CapacityForLabels
<1>3. ASSUME NEW ss PROVE WorkerCapacity(ws, ss) \in Nat
  <2>1. AutoSizeCandidates(ws, ss.labels, ss.reserve) \in SUBSET DOMAIN ws
    BY DEF AutoSizeCandidates
  <2> QED
    BY <1>1, <1>2, <2>1 DEF WorkerCapacity
<1> QED
  BY <1>1, <1>2, <1>3 DEF TotalSlots, DiscoveredSlots

\* A share is a natural number, whatever the other scale sets run.
LEMMA ShareNat ==
    ASSUME NEW ws, IsFiniteSet(DOMAIN ws), \A n \in DOMAIN ws : ws[n] \in Worker,
           NEW vs, IsFiniteSet(DOMAIN vs), NEW s, NEW ss, NEW handles
    PROVE  Share(vs, ws, s, ss, handles) \in Nat
<1> DEFINE others == {v \in DOMAIN vs : /\ vs[v].owner \in handles \ {s}
                                        /\ NotTerminal(vs[v])
                                        /\ VMConsumesLabeledWorker(vs[v], ws, ss.labels)}
           cap  == WorkerCapacity(ws, ss)
<1>1. cap \in Nat
  BY FleetNumbers
<1>2. Cardinality(others) \in Nat
  <2>1. others \in SUBSET DOMAIN vs
    OBVIOUS
  <2> QED
    BY <2>1, FS_Subset, FS_CardinalityType
<1>3. Share(vs, ws, s, ss, handles) = Max({0, cap - Cardinality(others)})
  BY DEF Share, OthersActive
<1> HIDE DEF cap, others
<1>4. cap - Cardinality(others) \in Int /\ 0 \in Int
  BY <1>1, <1>2
<1>5. /\ Max({0, cap - Cardinality(others)}) \in {0, cap - Cardinality(others)}
      /\ Max({0, cap - Cardinality(others)}) >= 0
  BY <1>4, MaxOfTwo, Zenon
<1> QED
  BY <1>3, <1>4, <1>5
============================================================================
