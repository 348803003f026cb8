------------------------------ MODULE MC_PVCPages ------------------------------
(* One namespace with two claims, the details page open on the first, and  *)
(* up to two series, so that a claim can be reported by two nodes; samples *)
(* of 0 and 2 bytes, or of 1 and 2 bytes only, to keep the zero case out.  *)
EXTENDS PVCPages, TLC

CONSTANTS n1, a, b, absent

MCNamespace == {n1}
MCName == {a, b}
MCUsage == {0, 2}
MCUsagePositive == {1, 2}
MCMaxSeries == 2
MCCapacity == {3}
MCClaim == <<n1, a>>

=============================================================================
