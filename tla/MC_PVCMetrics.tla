---------------------------- MODULE MC_PVCMetrics ----------------------------
(* One namespace with two claims, samples of 0 and 2 bytes, and result     *)
(* vectors of up to three series, so that a claim can be reported twice.   *)
EXTENDS PVCMetrics, TLC

CONSTANTS n1, a, b, absent

MCNamespace == {n1}
MCName == {a, b}
MCUsage == {0, 2}
MCMaxSeries == 3

=============================================================================
