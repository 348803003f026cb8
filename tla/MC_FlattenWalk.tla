---------------------------- MODULE MC_FlattenWalk ----------------------------
(* The scenario of spec.md section 8 (a Deployment owned by the parent, a  *)
(* Pod owned by the Deployment, a Secret owned by nobody) with every       *)
(* single ownerReference among those three resources and the parent, so   *)
(* that chains, self-references and cycles of two and three resources     *)
(* occur; every bucket loaded or not, and a parent with and without a uid. *)
EXTENDS FlattenWalk, TLC

CONSTANTS a, b, c, P, none

MCKind == {"Deployment", "Pod", "Secret"}
MCUid == {a, b, c}
MCScan == << [kind |-> "Deployment", uid |-> a],
             [kind |-> "Pod", uid |-> b],
             [kind |-> "Secret", uid |-> c] >>
MCMaxOwners == 1

=============================================================================
