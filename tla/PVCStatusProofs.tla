--------------------------- MODULE PVCStatusProofs ---------------------------
(***************************************************************************)
(* Proofs about the status cell of the PVC list (module PVCStatus), for    *)
(* every set of phases, status components and natural priorities and      *)
(* every number of extensions.                                             *)
(*                                                                         *)
(* The argument: the array the hook hands to PVCStatus is always a stable  *)
(* rearrangement of the registered extensions (every registered extension  *)
(* appears in it, and two of equal priority keep their registration       *)
(* order).  Sorting it in place by descending priority keeps that true,    *)
(* and the first match of a sorted stable rearrangement is the             *)
(* highest-priority, earliest-registered match.                           *)
(***************************************************************************)
EXTENDS PVCStatus, FiniteSetTheorems, WellFoundedInduction, TLAPS

-----------------------------------------------------------------------------
(* The domain of a sequence is the finite interval 1..Len(s).             *)
LEMMA SeqDomain ==
    ASSUME NEW S, NEW s \in Seq(S)
    PROVE  /\ Len(s) \in Nat
           /\ DOMAIN s = 1 .. Len(s)
           /\ \A i \in DOMAIN s : s[i] \in S
           /\ IsFiniteSet(DOMAIN s)
           /\ Cardinality(DOMAIN s) = Len(s)
<1>1. Len(s) \in Nat /\ DOMAIN s = 1 .. Len(s) /\ \A i \in DOMAIN s : s[i] \in S
    OBVIOUS
<1>2. IsFiniteSet(1 .. Len(s)) /\ Cardinality(1 .. Len(s)) = Len(s)
    <2>1. 1 \in Int /\ Len(s) \in Int
        BY <1>1
    <2>2. Cardinality(1 .. Len(s)) = IF 1 > Len(s) THEN 0 ELSE Len(s) - 1 + 1
        BY <2>1, FS_Interval
    <2>3. QED
        BY <1>1, <2>1, <2>2, FS_Interval
<1>3. QED
    BY <1>1, <1>2

(* The elements of an array of extensions carry natural priorities.        *)
LEMMA PriorityNat ==
    ASSUME NEW s \in Seq(Extension)
    PROVE  /\ DOMAIN s \subseteq Nat
           /\ \A i \in DOMAIN s : s[i] \in Extension
           /\ \A i \in DOMAIN s : s[i].priority \in Nat
<1>1. DOMAIN s \subseteq Nat /\ \A i \in DOMAIN s : s[i] \in Extension
    BY SeqDomain
<1>2. \A i \in DOMAIN s : s[i].priority \in Nat
    BY <1>1, PriorityAssumption DEF Extension
<1>3. QED
    BY <1>1, <1>2

(* The stable comparator orders the indices of an array of extensions      *)
(* strictly and totally.                                                   *)
LEMMA BeforeOrder ==
    ASSUME NEW s \in Seq(Extension)
    PROVE  /\ \A i \in DOMAIN s : ~Before(s, i, i)
           /\ \A i, j \in DOMAIN s : i # j => Before(s, i, j) \/ Before(s, j, i)
           /\ \A i, j \in DOMAIN s : Before(s, i, j) => ~Before(s, j, i)
           /\ \A i, j, k \in DOMAIN s :
                 Before(s, i, j) /\ Before(s, j, k) => Before(s, i, k)
<1>1. \A i \in DOMAIN s : s[i] \in Extension
    BY SeqDomain
<1>2. \A i \in DOMAIN s : s[i].priority \in Nat
    BY <1>1, PriorityAssumption DEF Extension
<1>3. DOMAIN s \subseteq Nat
    BY SeqDomain
<1>4. QED
    BY <1>2, <1>3 DEF Before

(* The elements placed before element i: all but i at most.                *)
LEMMA BeforeSetFinite ==
    ASSUME NEW s \in Seq(Extension), NEW i \in DOMAIN s
    PROVE  /\ IsFiniteSet({j \in DOMAIN s : Before(s, j, i)})
           /\ Cardinality({j \in DOMAIN s : Before(s, j, i)}) \in 0 .. Len(s) - 1
<1> DEFINE B == {j \in DOMAIN s : Before(s, j, i)}
<1>1. /\ Len(s) \in Nat
      /\ IsFiniteSet(DOMAIN s)
      /\ Cardinality(DOMAIN s) = Len(s)
    BY SeqDomain
<1>3. /\ IsFiniteSet((DOMAIN s) \ {i})
      /\ Cardinality((DOMAIN s) \ {i}) = Len(s) - 1
    BY <1>1, FS_RemoveElement
<1>4. B \subseteq (DOMAIN s) \ {i}
    BY BeforeOrder
<1>5. IsFiniteSet(B) /\ Cardinality(B) <= Len(s) - 1
    BY <1>3, <1>4, FS_Subset
<1>6. Cardinality(B) \in Nat
    BY <1>5, FS_CardinalityType
<1>7. QED
    BY <1>1, <1>5, <1>6

(* Ranks lie in 1..Len(s), and an element placed before another has a      *)
(* smaller rank.                                                           *)
LEMMA RankFacts ==
    ASSUME NEW s \in Seq(Extension)
    PROVE  /\ \A i \in DOMAIN s : Rank(s, i) \in 1 .. Len(s)
           /\ \A i, j \in DOMAIN s : Before(s, i, j) => Rank(s, i) < Rank(s, j)
<1>1. ASSUME NEW i \in DOMAIN s
      PROVE  Rank(s, i) \in 1 .. Len(s)
    <2>1. Cardinality({j \in DOMAIN s : Before(s, j, i)}) \in 0 .. Len(s) - 1
        BY BeforeSetFinite
    <2>2. QED
        BY <2>1, SeqDomain DEF Rank
<1>2. ASSUME NEW i \in DOMAIN s, NEW j \in DOMAIN s, Before(s, i, j)
      PROVE  Rank(s, i) < Rank(s, j)
    <2> DEFINE Bi == {k \in DOMAIN s : Before(s, k, i)}
               Bj == {k \in DOMAIN s : Before(s, k, j)}
    <2>1. Bi \cup {i} \subseteq Bj
        BY <1>2, BeforeOrder
    <2>2. i \notin Bi
        BY BeforeOrder
    <2>3. IsFiniteSet(Bi) /\ IsFiniteSet(Bj)
          /\ Cardinality(Bi) \in Nat /\ Cardinality(Bj) \in Nat
        <3>1. IsFiniteSet(Bi) /\ Cardinality(Bi) \in 0 .. Len(s) - 1
            BY BeforeSetFinite
        <3>2. IsFiniteSet(Bj) /\ Cardinality(Bj) \in 0 .. Len(s) - 1
            BY BeforeSetFinite
        <3>3. QED
            BY <3>1, <3>2, FS_CardinalityType
    <2>4. Cardinality(Bi \cup {i}) = Cardinality(Bi) + 1
        BY <2>2, <2>3, FS_AddElement
    <2>5. Cardinality(Bi \cup {i}) <= Cardinality(Bj)
        BY <2>1, <2>3, FS_Subset
    <2>6. QED
        BY <2>3, <2>4, <2>5 DEF Rank
<1>3. QED
    BY <1>1, <1>2

(* Distinct elements have distinct ranks.                                  *)
LEMMA RankInjective ==
    ASSUME NEW s \in Seq(Extension), NEW i \in DOMAIN s, NEW j \in DOMAIN s,
           Rank(s, i) = Rank(s, j)
    PROVE  i = j
<1>1. Rank(s, i) \in Nat /\ Rank(s, j) \in Nat
    BY RankFacts
<1>2. QED
    BY <1>1, BeforeOrder, RankFacts

(* Every position 1..Len(s) is the rank of some element: an injection of   *)
(* 1..n into itself is onto.                                               *)
LEMMA RankOnto ==
    ASSUME NEW s \in Seq(Extension), NEW k \in 1 .. Len(s)
    PROVE  \E i \in DOMAIN s : Rank(s, i) = k
<1> DEFINE g == [i \in 1 .. Len(s) |-> Rank(s, i)]
<1>1. DOMAIN s = 1 .. Len(s) /\ Len(s) \in Nat /\ IsFiniteSet(1 .. Len(s))
    BY SeqDomain
<1>2. g \in Injection(1 .. Len(s), 1 .. Len(s))
    <2>1. g \in [1 .. Len(s) -> 1 .. Len(s)]
        BY <1>1, RankFacts
    <2>2. \A a, b \in DOMAIN g : g[a] = g[b] => a = b
        BY <1>1, RankInjective
    <2>3. QED
        BY <2>1, <2>2 DEF Injection, IsInjective
<1>4. g \in Surjection(1 .. Len(s), 1 .. Len(s))
    BY <1>1, <1>2, FS_Injection
<1>5. QED
    BY <1>1, <1>4 DEF Surjection

(* The element SortByPriority places at position k.                       *)
Sigma(s) == [k \in DOMAIN s |-> CHOOSE i \in DOMAIN s : Rank(s, i) = k]

(* SortByPriority rearranges the array: every element lands at one        *)
(* position, and an element lands before another exactly when the stable   *)
(* comparator places it first.                                             *)
LEMMA SortFacts ==
    ASSUME NEW s \in Seq(Extension)
    PROVE  /\ Sigma(s) \in [DOMAIN s -> DOMAIN s]
           /\ \A i \in DOMAIN s : \E k \in DOMAIN s : Sigma(s)[k] = i
           /\ \A k, l \in DOMAIN s : k < l => Before(s, Sigma(s)[k], Sigma(s)[l])
           /\ SortByPriority(s) = [k \in DOMAIN s |-> s[Sigma(s)[k]]]
           /\ SortByPriority(s) \in Seq(Extension)
<1>0. Len(s) \in Nat /\ DOMAIN s = 1 .. Len(s) /\ \A i \in DOMAIN s : s[i] \in Extension
    BY SeqDomain
<1>1. \A k \in DOMAIN s : Sigma(s)[k] \in DOMAIN s /\ Rank(s, Sigma(s)[k]) = k
    <2> SUFFICES ASSUME NEW k \in DOMAIN s
                 PROVE  Sigma(s)[k] \in DOMAIN s /\ Rank(s, Sigma(s)[k]) = k
        OBVIOUS
    <2>1. \E i \in DOMAIN s : Rank(s, i) = k
        BY <1>0, RankOnto
    <2>2. QED
        BY <2>1 DEF Sigma
<1>2. Sigma(s) \in [DOMAIN s -> DOMAIN s]
    BY <1>1 DEF Sigma
<1>3. ASSUME NEW i \in DOMAIN s
      PROVE  \E k \in DOMAIN s : Sigma(s)[k] = i
    <2>1. Rank(s, i) \in DOMAIN s
        BY <1>0, RankFacts
    <2>2. Sigma(s)[Rank(s, i)] \in DOMAIN s
          /\ Rank(s, Sigma(s)[Rank(s, i)]) = Rank(s, i)
        BY <1>1, <2>1
    <2>3. Sigma(s)[Rank(s, i)] = i
        BY <2>2, RankInjective
    <2>4. QED
        BY <2>1, <2>3
<1>4. ASSUME NEW k \in DOMAIN s, NEW l \in DOMAIN s, k < l
      PROVE  Before(s, Sigma(s)[k], Sigma(s)[l])
    <2>1. Sigma(s)[k] # Sigma(s)[l]
        BY <1>1, <1>4
    <2>2. ~Before(s, Sigma(s)[l], Sigma(s)[k])
        BY <1>0, <1>1, <1>4, RankFacts
    <2>3. QED
        BY <1>1, <2>1, <2>2, BeforeOrder
<1>5. SortByPriority(s) = [k \in DOMAIN s |-> s[Sigma(s)[k]]]
    BY DEF SortByPriority, Sigma
<1>6. SortByPriority(s) \in Seq(Extension)
    <2>1. [k \in 1 .. Len(s) |-> s[Sigma(s)[k]]] \in [1 .. Len(s) -> Extension]
        BY <1>0, <1>1
    <2>2. QED
        BY <1>0, <1>5, <2>1
<1>7. QED
    BY <1>2, <1>3, <1>4, <1>5, <1>6

(* A non-empty set of naturals has a least element.                        *)
LEMMA NatMin ==
    ASSUME NEW T \in SUBSET Nat, T # {}
    PROVE  \E x \in T : \A y \in T : x <= y
<1>1. PICK x \in T : \A y \in T : ~(<<y, x>> \in OpToRel(<, Nat))
    BY NatLessThanWellFounded, WFMin
<1>2. \A y \in T : ~(y < x)
    <2> SUFFICES ASSUME NEW y \in T, y < x PROVE FALSE
        OBVIOUS
    <2>1. <<y, x>> \in OpToRel(<, Nat)
        BY DEF OpToRel
    <2>2. QED
        BY <1>1, <2>1
<1>3. QED
    BY <1>2

(* find returns the least matching index, or 0 when nothing matches.      *)
LEMMA FindIndexFacts ==
    ASSUME NEW s \in Seq(Extension), NEW p
    PROVE  /\ {i \in DOMAIN s : p \in s[i].predicate} = {} => FindIndex(s, p) = 0
           /\ {i \in DOMAIN s : p \in s[i].predicate} # {} =>
                 /\ FindIndex(s, p) \in {i \in DOMAIN s : p \in s[i].predicate}
                 /\ \A j \in {i \in DOMAIN s : p \in s[i].predicate} :
                       FindIndex(s, p) <= j
<1> DEFINE I == {i \in DOMAIN s : p \in s[i].predicate}
<1>1. I \subseteq Nat
    BY SeqDomain
<1>2. I # {} => \E x \in I : \A y \in I : x <= y
    BY <1>1, NatMin
<1>3. QED
    BY <1>2 DEF FindIndex

-----------------------------------------------------------------------------
(* f says where each element of the array h came from in the registration  *)
(* order r: h[k] is r[f[k]], every registered extension is somewhere in h, *)
(* and two of equal priority appear in h in registration order.            *)
StableFor(h, r, f) ==
    /\ f \in [DOMAIN h -> DOMAIN r]
    /\ \A k \in DOMAIN h : h[k] = r[f[k]]
    /\ \A j \in DOMAIN r : \E k \in DOMAIN h : f[k] = j
    /\ \A k, l \in DOMAIN h :
          k < l /\ h[k].priority = h[l].priority => f[k] < f[l]

StableRearrangement(h, r) == \E f \in [DOMAIN h -> DOMAIN r] : StableFor(h, r, f)

(* Non-increasing priorities: the order the comparator establishes.        *)
SortedByPriority(h) ==
    \A k, l \in DOMAIN h : k < l => h[k].priority >= h[l].priority

(* The inductive invariant: the hook's array is a stable rearrangement of  *)
(* the registered extensions, and the cell is correct once rendered.       *)
IInv ==
    /\ TypeOK
    /\ StableRearrangement(hookArray, registered)
    /\ StatusIsHighestPriority

(* Sorting a stable rearrangement in place gives a stable rearrangement    *)
(* with non-increasing priorities: the stable comparator keeps equal       *)
(* priorities in the order the array had.                                  *)
LEMMA SortKeepsStable ==
    ASSUME NEW h \in Seq(Extension), NEW r \in Seq(Extension), NEW f,
           StableFor(h, r, f)
    PROVE  /\ StableFor(SortByPriority(h), r, [k \in DOMAIN h |-> f[Sigma(h)[k]]])
           /\ SortedByPriority(SortByPriority(h))
<1> DEFINE S == SortByPriority(h)
           g == [k \in DOMAIN h |-> f[Sigma(h)[k]]]
<1>0. /\ Sigma(h) \in [DOMAIN h -> DOMAIN h]
      /\ \A i \in DOMAIN h : \E k \in DOMAIN h : Sigma(h)[k] = i
      /\ \A k, l \in DOMAIN h : k < l => Before(h, Sigma(h)[k], Sigma(h)[l])
      /\ S = [k \in DOMAIN h |-> h[Sigma(h)[k]]]
    BY SortFacts
<1>1. DOMAIN S = DOMAIN h
    BY <1>0
<1>2. g \in [DOMAIN S -> DOMAIN r]
    BY <1>0, <1>1 DEF StableFor
<1>3. \A k \in DOMAIN S : S[k] = r[g[k]]
    BY <1>0, <1>1 DEF StableFor
<1>4. \A j \in DOMAIN r : \E k \in DOMAIN S : g[k] = j
    <2> SUFFICES ASSUME NEW j \in DOMAIN r
                 PROVE  \E k \in DOMAIN S : g[k] = j
        OBVIOUS
    <2>1. PICK i \in DOMAIN h : f[i] = j
        BY DEF StableFor
    <2>2. PICK k \in DOMAIN h : Sigma(h)[k] = i
        BY <1>0
    <2>3. QED
        BY <1>1, <2>1, <2>2
<1>5. ASSUME NEW k \in DOMAIN S, NEW l \in DOMAIN S, k < l
      PROVE  /\ S[k].priority >= S[l].priority
             /\ S[k].priority = S[l].priority => g[k] < g[l]
    <2>1. Before(h, Sigma(h)[k], Sigma(h)[l])
        BY <1>0, <1>1, <1>5
    <2>2. Sigma(h)[k] \in DOMAIN h /\ Sigma(h)[l] \in DOMAIN h
        BY <1>0, <1>1
    <2>3. h[Sigma(h)[k]].priority \in Nat /\ h[Sigma(h)[l]].priority \in Nat
        BY <2>2, PriorityNat
    <2>4. S[k] = h[Sigma(h)[k]] /\ S[l] = h[Sigma(h)[l]]
        BY <1>0, <1>1
    <2>5. S[k].priority >= S[l].priority
        BY <2>1, <2>3, <2>4 DEF Before
    <2>6. S[k].priority = S[l].priority => Sigma(h)[k] < Sigma(h)[l]
        BY <2>1, <2>3, <2>4 DEF Before
    <2>7. S[k].priority = S[l].priority => g[k] < g[l]
        BY <1>0, <1>1, <2>2, <2>4, <2>6, PriorityNat DEF StableFor
    <2>8. QED
        BY <2>5, <2>7
<1>6. QED
    BY <1>2, <1>3, <1>4, <1>5 DEF StableFor, SortedByPriority

(* The first match of a sorted stable rearrangement of the registered      *)
(* extensions is the extension the mechanism promises: the matching one of *)
(* highest priority, the earliest registered among equals.                 *)
LEMMA FirstMatchIsBest ==
    ASSUME NEW S \in Seq(Extension), registered \in Seq(Extension), NEW f,
           StableFor(S, registered, f), SortedByPriority(S), resolved,
           NEW p
    PROVE  StatusOf(S, p) = Best(p)
<1> DEFINE I == {k \in DOMAIN S : p \in S[k].predicate}
           M == {i \in DOMAIN registered : p \in registered[i].predicate}
           Top(i) == \A j \in M : \/ registered[j].priority < registered[i].priority
                                  \/ registered[j].priority = registered[i].priority
                                     /\ i <= j
<1>0. /\ DOMAIN S \subseteq Nat /\ DOMAIN registered \subseteq Nat
      /\ \A k \in DOMAIN S : S[k].priority \in Nat
      /\ \A i \in DOMAIN registered : registered[i].priority \in Nat
    BY PriorityNat
<1>1. \A k \in I : f[k] \in M
    BY DEF StableFor
<1>2. \A i \in M : \E k \in I : f[k] = i
    BY DEF StableFor
<1>3. Best(p) = IF M # {} THEN registered[CHOOSE i \in M : Top(i)].status
                          ELSE Fallback(p)
    BY DEF Best
<1>4. CASE I = {}
    <2>1. M = {}
        BY <1>2, <1>4
    <2>2. FindIndex(S, p) = 0
        BY <1>4, FindIndexFacts
    <2>3. QED
        BY <1>3, <2>1, <2>2 DEF StatusOf
<1>5. CASE I # {}
    <2> DEFINE k0 == FindIndex(S, p)
               i0 == f[k0]
    <2>1. k0 \in I /\ \A l \in I : k0 <= l
        BY <1>5, FindIndexFacts
    <2>2. k0 # 0
        BY <2>1, SeqDomain
    <2>3. i0 \in M
        BY <1>1, <2>1
    <2>4. Top(i0)
        <3> SUFFICES ASSUME NEW j \in M
                     PROVE  \/ registered[j].priority < registered[i0].priority
                            \/ registered[j].priority = registered[i0].priority
                               /\ i0 <= j
            OBVIOUS
        <3>1. PICK l \in I : f[l] = j
            BY <1>2
        <3>2. S[k0] = registered[i0] /\ S[l] = registered[j]
            BY <2>1, <3>1 DEF StableFor
        <3>3. CASE l = k0
            BY <3>1, <3>3, <1>0, <2>3
        <3>4. CASE l # k0
            <4>1. k0 < l
                BY <1>0, <2>1, <3>4
            <4>2. S[k0].priority >= S[l].priority
                BY <2>1, <4>1 DEF SortedByPriority
            <4>3. S[k0].priority = S[l].priority => i0 < j
                BY <2>1, <3>1, <4>1 DEF StableFor
            <4>4. QED
                BY <1>0, <2>1, <2>3, <3>2, <4>2, <4>3
        <3>5. QED
            BY <3>3, <3>4
    <2>5. \A i \in M : Top(i) => i = i0
        BY <1>0, <2>3, <2>4
    <2>6. (CHOOSE i \in M : Top(i)) = i0
        BY <2>3, <2>4, <2>5
    <2>7. StatusOf(S, p) = S[k0].status
        BY <2>2 DEF StatusOf
    <2>8. S[k0] = registered[i0]
        BY <2>1 DEF StableFor
    <2>9. QED
        BY <1>3, <2>3, <2>6, <2>7, <2>8
<1>6. QED
    BY <1>4, <1>5

-----------------------------------------------------------------------------
(* The cell shows a status component, a phase or Terminating.             *)
LEMMA StatusOfType ==
    ASSUME NEW s \in Seq(Extension), NEW p \in PvcState
    PROVE  StatusOf(s, p) \in StatusComp \cup Phase \cup {"Terminating"}
<1> DEFINE I == {i \in DOMAIN s : p \in s[i].predicate}
<1>1. Fallback(p) \in Phase \cup {"Terminating"}
    BY DEF Fallback, PvcState
<1>2. CASE I = {}
    BY <1>1, <1>2, FindIndexFacts DEF StatusOf
<1>3. CASE I # {}
    <2>1. FindIndex(s, p) \in DOMAIN s /\ FindIndex(s, p) # 0
        BY <1>3, FindIndexFacts, SeqDomain
    <2>2. s[FindIndex(s, p)].status \in StatusComp
        BY <2>1, PriorityNat DEF Extension
    <2>3. QED
        BY <2>1, <2>2 DEF StatusOf
<1>4. QED
    BY <1>2, <1>3

(* Every step keeps the variables in their types.                          *)
LEMMA TypeOKStep ==
    ASSUME TypeOK, [Next]_vars
    PROVE  TypeOK'
<1>1. ASSUME NEW e \in Extension, PluginLoaded(e) PROVE TypeOK'
    <2>1. Append(registered, e) \in Seq(Extension)
          /\ Append(hookArray, e) \in Seq(Extension)
        BY DEF TypeOK
    <2>2. registered' \in Seq(Extension) /\ hookArray' \in Seq(Extension)
        BY <1>1, <2>1 DEF PluginLoaded
    <2>3. QED
        BY <1>1, <2>2 DEF PluginLoaded, TypeOK
<1>2. ASSUME ExtensionsResolved PROVE TypeOK'
    BY <1>2 DEF ExtensionsResolved, TypeOK
<1>3. ASSUME NEW p \in PvcState, PvcUpdated(p) PROVE TypeOK'
    BY <1>3 DEF PvcUpdated, TypeOK
<1>4. ASSUME Render PROVE TypeOK'
    <2>1. CASE resolved /\ Len(hookArray) > 0
        <3>1. SortByPriority(hookArray) \in Seq(Extension)
            BY SortFacts DEF TypeOK
        <3>2. StatusOf(SortByPriority(hookArray), pvc)
                \in StatusComp \cup Phase \cup {"Terminating"}
            BY <3>1, StatusOfType DEF TypeOK
        <3>3. QED
            BY <1>4, <2>1, <3>1, <3>2 DEF Render, TypeOK
    <2>2. CASE ~(resolved /\ Len(hookArray) > 0)
        <3>1. Fallback(pvc) \in Phase \cup {"Terminating"}
            BY DEF Fallback, PvcState, TypeOK
        <3>2. QED
            BY <1>4, <2>2, <3>1 DEF Render, TypeOK
    <2>3. QED
        BY <2>1, <2>2
<1>5. CASE UNCHANGED vars
    BY <1>5 DEF vars, TypeOK
<1>6. QED
    BY <1>1, <1>2, <1>3, <1>4, <1>5 DEF Next

(* The initial states are well typed.                                     *)
LEMMA InitTypeOK == Init => TypeOK
<1> SUFFICES ASSUME Init PROVE TypeOK
    OBVIOUS
<1>1. Fallback(pvc) \in Phase \cup {"Terminating"}
    BY DEF Init, Fallback, PvcState
<1>2. << >> \in Seq(Extension)
    OBVIOUS
<1>3. registered \in Seq(Extension) /\ hookArray \in Seq(Extension)
    BY <1>2 DEF Init
<1>4. QED
    BY <1>1, <1>3 DEF Init, TypeOK

(* The type invariant of the PVC status cell holds in every reachable      *)
(* state: the registered and hook arrays hold resolved extensions and the  *)
(* cell shows a status component, a phase or Terminating.                 *)
THEOREM TypeCorrect == Spec => []TypeOK
<1>1. Init => TypeOK
    BY InitTypeOK
<1>2. QED
    BY <1>1, TypeOKStep, PTL DEF Spec

-----------------------------------------------------------------------------
(* A fresh array in registration order is a stable rearrangement of the   *)
(* registered extensions (the identity says where each element came from). *)
LEMMA FreshStable ==
    ASSUME NEW r \in Seq(Extension)
    PROVE  StableFor(r, r, [k \in DOMAIN r |-> k])
BY DEF StableFor

(* Appending the new extension to a stable rearrangement of the earlier    *)
(* ones gives a stable rearrangement of all of them: the new element comes *)
(* last in both orders.                                                    *)
LEMMA AppendStable ==
    ASSUME NEW h \in Seq(Extension), NEW r \in Seq(Extension), NEW f,
           StableFor(h, r, f), NEW e \in Extension
    PROVE  StableFor(Append(h, e), Append(r, e),
                     [k \in 1 .. Len(h) + 1 |->
                        IF k <= Len(h) THEN f[k] ELSE Len(r) + 1])
<1> DEFINE g == [k \in 1 .. Len(h) + 1 |-> IF k <= Len(h) THEN f[k] ELSE Len(r) + 1]
           h2 == Append(h, e)
           r2 == Append(r, e)
<1>0. /\ Len(h) \in Nat /\ DOMAIN h = 1 .. Len(h)
      /\ Len(r) \in Nat /\ DOMAIN r = 1 .. Len(r)
      /\ DOMAIN h2 = 1 .. Len(h) + 1 /\ DOMAIN r2 = 1 .. Len(r) + 1
      /\ \A k \in DOMAIN h : h2[k] = h[k]
      /\ \A j \in DOMAIN r : r2[j] = r[j]
      /\ h2[Len(h) + 1] = e /\ r2[Len(r) + 1] = e
    BY SeqDomain
<1>1. \A k \in DOMAIN h : f[k] \in 1 .. Len(r)
    BY <1>0 DEF StableFor
<1>2. g \in [DOMAIN h2 -> DOMAIN r2]
    BY <1>0, <1>1
<1>3. \A k \in DOMAIN h2 : h2[k] = r2[g[k]]
    BY <1>0, <1>1 DEF StableFor
<1>4. \A j \in DOMAIN r2 : \E k \in DOMAIN h2 : g[k] = j
    <2> SUFFICES ASSUME NEW j \in DOMAIN r2 PROVE \E k \in DOMAIN h2 : g[k] = j
        OBVIOUS
    <2>1. CASE j \in DOMAIN r
        <3>1. PICK k \in DOMAIN h : f[k] = j
            BY <2>1 DEF StableFor
        <3>2. QED
            BY <1>0, <3>1
    <2>2. CASE j = Len(r) + 1
        BY <1>0, <2>2
    <2>3. QED
        BY <1>0, <2>1, <2>2
<1>5. \A k, l \in DOMAIN h2 :
         k < l /\ h2[k].priority = h2[l].priority => g[k] < g[l]
    BY <1>0, <1>1 DEF StableFor
<1>6. QED
    BY <1>2, <1>3, <1>4, <1>5 DEF StableFor

-----------------------------------------------------------------------------
(* Without resolved extensions, or with none registered, the promised      *)
(* status is the fallback.                                                 *)
LEMMA BestIsFallback ==
    ASSUME registered \in Seq(Extension),
           ~resolved \/ DOMAIN registered = {},
           NEW p
    PROVE  Best(p) = Fallback(p)
BY DEF Best

(* The inductive invariant is preserved by every step.                     *)
LEMMA IInvStep ==
    ASSUME IInv, [Next]_vars
    PROVE  IInv'
<1>0. TypeOK'
    BY TypeOKStep DEF IInv
<1>1. PICK f \in [DOMAIN hookArray -> DOMAIN registered] :
          StableFor(hookArray, registered, f)
    BY DEF IInv, StableRearrangement
<1>2. ASSUME NEW e \in Extension, PluginLoaded(e) PROVE IInv'
    <2>1. CASE hookArray' = Append(registered, e)
        <3>1. StableFor(hookArray', registered',
                        [k \in DOMAIN registered' |-> k])
            <4>1. registered' \in Seq(Extension)
                BY <1>0 DEF TypeOK
            <4>2. hookArray' = registered'
                BY <1>2, <2>1 DEF PluginLoaded
            <4>3. StableFor(registered', registered',
                            [k \in DOMAIN registered' |-> k])
                BY <4>1, FreshStable
            <4>4. QED
                BY <4>2, <4>3
        <3>2. QED
            BY <1>0, <1>2, <3>1, <2>1
               DEF IInv, StableRearrangement, StatusIsHighestPriority, PluginLoaded, StableFor
    <2>2. CASE hookArray' = Append(hookArray, e)
        <3> DEFINE g == [k \in 1 .. Len(hookArray) + 1 |->
                           IF k <= Len(hookArray) THEN f[k] ELSE Len(registered) + 1]
        <3>1. StableFor(hookArray', registered', g)
            BY <1>1, <1>2, <2>2, AppendStable DEF PluginLoaded, TypeOK, IInv
        <3>2. QED
            BY <1>0, <1>2, <3>1
               DEF IInv, StableRearrangement, StatusIsHighestPriority, PluginLoaded, StableFor
    <2>3. QED
        BY <1>2, <2>1, <2>2 DEF PluginLoaded
<1>3. ASSUME ExtensionsResolved PROVE IInv'
    BY <1>0, <1>1, <1>3
       DEF ExtensionsResolved, IInv, StableRearrangement, StatusIsHighestPriority
<1>4. ASSUME NEW p \in PvcState, PvcUpdated(p) PROVE IInv'
    BY <1>0, <1>1, <1>4
       DEF PvcUpdated, IInv, StableRearrangement, StatusIsHighestPriority
<1>5. ASSUME Render PROVE IInv'
    <2>0. Best(pvc)' = Best(pvc)
        BY <1>5 DEF Render, Best
    <2>1. CASE resolved /\ Len(hookArray) > 0
        <3> DEFINE S == SortByPriority(hookArray)
                   g == [k \in DOMAIN hookArray |-> f[Sigma(hookArray)[k]]]
        <3>1. StableFor(S, registered, g) /\ SortedByPriority(S)
            BY <1>1, SortKeepsStable DEF IInv, TypeOK
        <3>2. S \in Seq(Extension)
            BY SortFacts DEF IInv, TypeOK
        <3>3. StatusOf(S, pvc) = Best(pvc)
            BY <2>1, <3>1, <3>2, FirstMatchIsBest DEF IInv, TypeOK
        <3>4. StableRearrangement(hookArray, registered)'
            <4>1. hookArray' = S /\ registered' = registered
                BY <1>5, <2>1 DEF Render
            <4>2. g \in [DOMAIN S -> DOMAIN registered]
                BY <3>1 DEF StableFor
            <4>3. QED
                BY <3>1, <4>1, <4>2 DEF StableRearrangement
        <3>5. StatusIsHighestPriority'
            BY <1>5, <2>0, <2>1, <3>3 DEF Render, StatusIsHighestPriority
        <3>6. QED
            BY <1>0, <3>4, <3>5 DEF IInv
    <2>2. CASE ~(resolved /\ Len(hookArray) > 0)
        <3>1. ~resolved \/ DOMAIN registered = {}
            <4>1. CASE Len(hookArray) = 0
                <5>1. DOMAIN hookArray = {}
                    BY <4>1, SeqDomain DEF IInv, TypeOK
                <5>2. QED
                    BY <1>1, <5>1 DEF StableFor
            <4>2. QED
                BY <2>2, <4>1, SeqDomain DEF IInv, TypeOK
        <3>2. Best(pvc) = Fallback(pvc)
            BY <3>1, BestIsFallback DEF IInv, TypeOK
        <3>3. StableRearrangement(hookArray, registered)'
            BY <1>1, <1>5, <2>2 DEF Render, StableRearrangement
        <3>4. StatusIsHighestPriority'
            BY <1>5, <2>0, <2>2, <3>2 DEF Render, StatusIsHighestPriority
        <3>5. QED
            BY <1>0, <3>3, <3>4 DEF IInv
    <2>3. QED
        BY <2>1, <2>2
<1>6. CASE UNCHANGED vars
    BY <1>0, <1>1, <1>6 DEF vars, IInv, StableRearrangement, StatusIsHighestPriority, Best
<1>7. QED
    BY <1>2, <1>3, <1>4, <1>5, <1>6 DEF Next

(* Every render of the PVC list's status cell shows the status of the      *)
(* highest-priority matching console.pvc/status extension, ties going to  *)
(* the earliest registered, or the fallback when none matches: for every  *)
(* number of extensions and every sequence of plugin loads, resolutions,  *)
(* claim updates and in-place sorts of the hook's array.                  *)
THEOREM StatusIsHighestPriorityThm == Spec => []StatusIsHighestPriority
<1>1. Init => IInv
    <2> SUFFICES ASSUME Init PROVE IInv
        OBVIOUS
    <2>1. TypeOK
        BY InitTypeOK
    <2>2. DOMAIN hookArray = {} /\ DOMAIN registered = {}
        BY DEF Init
    <2>3. StableFor(hookArray, registered, [k \in DOMAIN hookArray |-> k])
        BY <2>2 DEF StableFor
    <2>4. [k \in DOMAIN hookArray |-> k] \in [DOMAIN hookArray -> DOMAIN registered]
        BY <2>2
    <2>5. StatusIsHighestPriority
        BY DEF Init, StatusIsHighestPriority
    <2>6. QED
        BY <2>1, <2>3, <2>4, <2>5 DEF IInv, StableRearrangement
<1>2. IInv => StatusIsHighestPriority
    BY DEF IInv
<1>3. QED
    BY <1>1, <1>2, IInvStep, PTL DEF Spec

=============================================================================
