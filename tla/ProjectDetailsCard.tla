-------------------------- MODULE ProjectDetailsCard --------------------------
(***************************************************************************)
(* The Labels item of the project dashboard's Details card (DetailsCard in *)
(* src/frontend/public/components/dashboard/project-dashboard/             *)
(* details-card.tsx).  The card reads the project from                     *)
(* ProjectDashboardContext, shows the labels of the first three keys in    *)
(* sorted order and, when there are more keys, a View all button that     *)
(* leads to the project's details page.  The project is re-delivered by   *)
(* the dashboard's watch whenever its labels change.                       *)
(*                                                                         *)
(* Label keys are strings sorted by Array.prototype.sort; they are modelled *)
(* as naturals, whose order stands for the string order.                   *)
(***************************************************************************)
EXTENDS Naturals, FiniteSets

CONSTANT Key     \* label keys a project can carry

ASSUME KeyAssumption == IsFiniteSet(Key) /\ Key \subseteq Nat

VARIABLE labels  \* the keys of obj.metadata.labels

(* The number of labels the card shows, `_.take(keys, 3)`.                 *)
Shown == 3

(* A subset that counts the key itself among those before it, and so      *)
(* keeps one key fewer.                                                    *)
FirstLabelsCountingSelf(L) ==
    {k \in L : Cardinality({j \in L : j <= k}) < Shown}

(* labelsSubset: the first Shown keys of `_.keys(labels).sort()`, that is  *)
(* the keys with fewer than Shown keys before them.                        *)
FirstLabels(L) == {k \in L : Cardinality({j \in L : j < k}) < Shown}

(* A View all button shown once there are Shown keys or more.              *)
HasViewAllFromShown(L) == Cardinality(L) >= Shown

(* The View all button of the Labels item: `keys.length > 3`.              *)
HasViewAll(L) == Cardinality(L) > Shown

(* The dashboard mounts with the project as the watch first delivered it.  *)
Init == labels \in SUBSET Key

(* The watch delivers the project with other labels; the card renders     *)
(* again from the context.                                                 *)
LabelsUpdated(L) ==
    /\ L # labels
    /\ labels' = L

Next == \E L \in SUBSET Key : LabelsUpdated(L)

Spec == Init /\ [][Next]_labels

-----------------------------------------------------------------------------
(* Type invariant.                                                         *)
TypeOK == labels \in SUBSET Key

(* No label is out of reach: every label of the project is either among    *)
(* the three the card shows or the Labels item offers its View all button. *)
LabelsReachable ==
    \A k \in labels : k \in FirstLabels(labels) \/ HasViewAll(labels)

(* The View all button of the Labels item is offered only when it leads to *)
(* labels the card does not show.                                          *)
ViewAllOnlyWhenHidden ==
    HasViewAll(labels) => FirstLabels(labels) # labels

=============================================================================
