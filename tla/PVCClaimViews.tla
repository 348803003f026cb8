---------------------------- MODULE PVCClaimViews ----------------------------
(***************************************************************************)
(* What the PVC list row (PVCTableRow) and the PVC details page (Details_) *)
(* show of the same claim, in                                              *)
(* src/frontend/public/components/persistent-volume-claim.jsx: its         *)
(* PersistentVolume, its capacity and its storage class.  Both read the    *)
(* claim the watch delivers; the details page also reads the CAN_LIST_PV   *)
(* flag through connectToFlags, which is undefined until the access review *)
(* behind it answers.  Each view is an operator of the claim (and flag);   *)
(* the watch and the flag are the steps.                                   *)
(***************************************************************************)
EXTENDS Naturals

CONSTANTS
    Volume,        \* names spec.volumeName can hold
    StorageClass,  \* names spec.storageClassName can hold
    Capacity,      \* byte counts a storage quantity converts to
    NoValue        \* an undefined field or flag

(* The fields of a claim the two views read.                               *)
Claim == [volumeName : Volume \cup {NoValue},
          storageClassName : StorageClass \cup {NoValue},
          storage : Capacity \cup {NoValue},
          requested : Capacity]

VARIABLES
    pvc,        \* the claim as the watch last delivered it
    canListPV   \* flags[FLAGS.CAN_LIST_PV]: NoValue until known

vars == <<pvc, canListPV>>

(* List row, PersistentVolume cell: a link to spec.volumeName when it is   *)
(* set, "No PersistentVolume" otherwise.                                   *)
ListVolumeLink(c) == c.volumeName # NoValue

(* List row, Capacity cell: `totalCapacityMetric ? ... : '-'` with         *)
(* totalCapacityMetric = convertToBaseValue(obj?.status?.capacity?.storage).*)
ListCapacityShown(c) == c.storage # NoValue

(* List row, StorageClass cell: a link when storageClassName is set, '-'.  *)
ListStorageClass(c) == c.storageClassName

(* Details, PersistentVolumes row: `volumeName && canListPV`.              *)
DetailsVolumeLink(c, flag) == c.volumeName # NoValue /\ flag = TRUE

DetailsCapacityShown(c) == c.storage # NoValue

(* Details, StorageClasses row: a link when storageClassName is set, '-'.  *)
DetailsStorageClass(c) == c.storageClassName

(* The pages mount on a claim as the watch first delivers it, with the     *)
(* flag not yet known.                                                     *)
Init ==
    /\ pvc \in Claim
    /\ canListPV = NoValue

(* The watch delivers another version of the claim: bound, resized,        *)
(* marked for deletion; both views re-render from it.                      *)
ClaimUpdated(c) ==
    /\ c # pvc
    /\ pvc' = c
    /\ UNCHANGED canListPV

(* The access review behind CAN_LIST_PV answers.                           *)
FlagResolved(v) ==
    /\ canListPV = NoValue
    /\ canListPV' = v
    /\ UNCHANGED pvc

Next ==
    \/ \E c \in Claim : ClaimUpdated(c)
    \/ \E v \in BOOLEAN : FlagResolved(v)

Spec == Init /\ [][Next]_vars

-----------------------------------------------------------------------------
(* Type invariant.                                                         *)
TypeOK ==
    /\ pvc \in Claim
    /\ canListPV \in BOOLEAN \cup {NoValue}

PagesAgreeOnVolume ==
    ListVolumeLink(pvc) <=> DetailsVolumeLink(pvc, canListPV)

=============================================================================
