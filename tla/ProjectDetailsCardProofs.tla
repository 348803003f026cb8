----------------------- MODULE ProjectDetailsCardProofs -----------------------
(***************************************************************************)
(* Proofs about the Labels item of the project Details card (module        *)
(* ProjectDetailsCard), for every finite set of label keys.                *)
(***************************************************************************)
EXTENDS ProjectDetailsCard, FiniteSetTheorems, TLAPS

(* A project with at most three labels has all of them among the first    *)
(* three: each has fewer than three keys before it.                        *)
LEMMA FewKeysAllFirst ==
    ASSUME NEW L \in SUBSET Nat, IsFiniteSet(L), Cardinality(L) <= Shown,
           NEW k \in L
    PROVE  k \in FirstLabels(L)
<1> DEFINE Before == {j \in L : j < k}
<1>1. Before \subseteq L \ {k}
    OBVIOUS
<1>2. /\ IsFiniteSet(L \ {k})
      /\ Cardinality(L \ {k}) = Cardinality(L) - 1
    BY FS_RemoveElement
<1>3. /\ IsFiniteSet(Before)
      /\ Cardinality(Before) <= Cardinality(L \ {k})
    BY <1>1, <1>2, FS_Subset
<1>4. /\ Cardinality(L) \in Nat
      /\ Cardinality(Before) \in Nat
    BY <1>3, FS_CardinalityType
<1>5. Cardinality(Before) < Shown
    BY <1>2, <1>3, <1>4 DEF Shown
<1>6. QED
    BY <1>5 DEF FirstLabels

(* A finite set of positive cardinality has an element.                   *)
LEMMA NonEmptyOfCard ==
    ASSUME NEW S, IsFiniteSet(S), Cardinality(S) > 0
    PROVE  S # {}
<1>1. Cardinality({}) = 0
    BY FS_EmptySet
<1>2. QED
    BY <1>1

(* Removing an element of a finite set leaves a finite set with one       *)
(* element fewer.                                                          *)
LEMMA RemoveOne ==
    ASSUME NEW S, IsFiniteSet(S), NEW x \in S
    PROVE  /\ IsFiniteSet(S \ {x})
           /\ Cardinality(S \ {x}) = Cardinality(S) - 1
           /\ Cardinality(S) \in Nat
BY FS_RemoveElement, FS_CardinalityType

(* Adding an element that is not yet in a finite set adds one to its size. *)
LEMMA AddNew ==
    ASSUME NEW S, IsFiniteSet(S), NEW x, x \notin S
    PROVE  IsFiniteSet(S \cup {x}) /\ Cardinality(S \cup {x}) = Cardinality(S) + 1
BY FS_AddElement

(* A set of more than three keys has one with three keys before it: take   *)
(* four distinct keys and the greatest of them.                            *)
LEMMA ManyKeysOneHidden ==
    ASSUME NEW L \in SUBSET Nat, IsFiniteSet(L), Cardinality(L) > Shown
    PROVE  \E m \in L : Cardinality({j \in L : j < m}) >= Shown
<1>0. Cardinality(L) \in Nat
    BY FS_CardinalityType
<1>1. PICK a \in L : TRUE
    <2>1. L # {}
        BY <1>0, NonEmptyOfCard DEF Shown
    <2>2. QED
        BY <2>1
<1>2. IsFiniteSet(L \ {a}) /\ Cardinality(L \ {a}) = Cardinality(L) - 1
    BY RemoveOne
<1>3. PICK b \in L \ {a} : TRUE
    <2>1. L \ {a} # {}
        BY <1>0, <1>2, NonEmptyOfCard DEF Shown
    <2>2. QED
        BY <2>1
<1>4. IsFiniteSet(L \ {a, b}) /\ Cardinality(L \ {a, b}) = Cardinality(L) - 2
    <2>1. L \ {a, b} = (L \ {a}) \ {b}
        OBVIOUS
    <2>2. QED
        BY <1>0, <1>2, <2>1, RemoveOne
<1>5. PICK c \in L \ {a, b} : TRUE
    <2>1. L \ {a, b} # {}
        BY <1>0, <1>4, NonEmptyOfCard DEF Shown
    <2>2. QED
        BY <2>1
<1>6. IsFiniteSet(L \ {a, b, c}) /\ Cardinality(L \ {a, b, c}) = Cardinality(L) - 3
    <2>1. L \ {a, b, c} = (L \ {a, b}) \ {c}
        OBVIOUS
    <2>2. QED
        BY <1>0, <1>4, <2>1, RemoveOne
<1>7. PICK d \in L \ {a, b, c} : TRUE
    <2>1. L \ {a, b, c} # {}
        BY <1>0, <1>6, NonEmptyOfCard DEF Shown
    <2>2. QED
        BY <2>1
<1>8. a # b /\ a # c /\ a # d /\ b # c /\ b # d /\ c # d
    OBVIOUS
<1>9. PICK m \in {a, b, c, d} : \A x \in {a, b, c, d} : x <= m
    BY <1>8
<1>10. {a, b, c, d} \ {m} \subseteq {j \in L : j < m}
    BY <1>9
<1>11. IsFiniteSet({a, b, c, d}) /\ Cardinality({a, b, c, d}) = 4
    <2>1. IsFiniteSet({d}) /\ Cardinality({d}) = 1
        BY FS_Singleton
    <2>2. IsFiniteSet({c, d}) /\ Cardinality({c, d}) = 2
        <3>1. {c, d} = {d} \cup {c} /\ c \notin {d}
            BY <1>8
        <3>2. QED
            <4>1. IsFiniteSet({d} \cup {c})
                  /\ Cardinality({d} \cup {c}) = Cardinality({d}) + 1
                BY <2>1, <3>1, AddNew
            <4>2. QED
                BY <2>1, <3>1, <4>1
    <2>3. IsFiniteSet({b, c, d}) /\ Cardinality({b, c, d}) = 3
        <3>1. {b, c, d} = {c, d} \cup {b} /\ b \notin {c, d}
            BY <1>8
        <3>2. QED
            <4>1. IsFiniteSet({c, d} \cup {b})
                  /\ Cardinality({c, d} \cup {b}) = Cardinality({c, d}) + 1
                BY <2>2, <3>1, AddNew
            <4>2. QED
                BY <2>2, <3>1, <4>1
    <2>4. QED
        <3>1. {a, b, c, d} = {b, c, d} \cup {a} /\ a \notin {b, c, d}
            BY <1>8
        <3>2. QED
            <4>1. IsFiniteSet({b, c, d} \cup {a})
                  /\ Cardinality({b, c, d} \cup {a}) = Cardinality({b, c, d}) + 1
                BY <2>3, <3>1, AddNew
            <4>2. QED
                BY <2>3, <3>1, <4>1
<1>12. Cardinality({a, b, c, d} \ {m}) = 3
    BY <1>11, RemoveOne
<1>13. IsFiniteSet({j \in L : j < m})
    BY FS_Subset
<1>14. Cardinality({a, b, c, d} \ {m}) <= Cardinality({j \in L : j < m})
    BY <1>10, <1>13, FS_Subset
<1>15. QED
    BY <1>12, <1>14 DEF Shown

(* Every well typed state has no label out of reach.                       *)
LEMMA ReachableOfType == TypeOK => LabelsReachable
<1> SUFFICES ASSUME TypeOK, NEW k \in labels
             PROVE  k \in FirstLabels(labels) \/ HasViewAll(labels)
    BY DEF LabelsReachable
<1>1. IsFiniteSet(labels) /\ labels \subseteq Nat
    BY KeyAssumption, FS_Subset DEF TypeOK
<1>2. CASE Cardinality(labels) <= Shown
    BY <1>1, <1>2, FewKeysAllFirst
<1>3. CASE ~(Cardinality(labels) <= Shown)
    BY <1>1, <1>3, FS_CardinalityType DEF HasViewAll, Shown
<1>4. QED
    BY <1>2, <1>3

(* The card's state is always a set of label keys.                         *)
THEOREM TypeCorrect == Spec => []TypeOK
<1>1. Init => TypeOK
    BY DEF Init, TypeOK
<1>2. TypeOK /\ [Next]_labels => TypeOK'
    BY DEF TypeOK, Next, LabelsUpdated
<1>3. QED
    BY <1>1, <1>2, PTL DEF Spec

(* Whatever labels the watch delivers, the Details card never hides a      *)
(* label without offering the View all button of its Labels item           *)
(* (`_.take(keys, 3)` against `keys.length > 3`).                          *)
THEOREM LabelsReachableThm == Spec => []LabelsReachable
BY TypeCorrect, ReachableOfType, PTL

(* Whatever labels the watch delivers, the Labels item offers its View all *)
(* button only when some label is not among the three the card shows: the  *)
(* `keys.length > 3` test never shows a button that leads to nothing new.   *)
THEOREM ViewAllOnlyWhenHiddenThm == Spec => []ViewAllOnlyWhenHidden
<1>1. TypeOK => ViewAllOnlyWhenHidden
    <2> SUFFICES ASSUME TypeOK, HasViewAll(labels)
                 PROVE  FirstLabels(labels) # labels
        BY DEF ViewAllOnlyWhenHidden
    <2>1. IsFiniteSet(labels) /\ labels \subseteq Nat
        BY KeyAssumption, FS_Subset DEF TypeOK
    <2>2. PICK m \in labels : Cardinality({j \in labels : j < m}) >= Shown
        BY <2>1, ManyKeysOneHidden DEF HasViewAll
    <2>3. IsFiniteSet({j \in labels : j < m})
        BY <2>1, FS_Subset
    <2>4. Cardinality({j \in labels : j < m}) \in Nat
        BY <2>3, FS_CardinalityType
    <2>5. m \notin FirstLabels(labels)
        BY <2>2, <2>4 DEF FirstLabels, Shown
    <2>6. QED
        BY <2>5
<1>2. QED
    BY TypeCorrect, <1>1, PTL

=============================================================================
