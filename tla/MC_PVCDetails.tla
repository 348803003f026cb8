---------------------------- MODULE MC_PVCDetails ----------------------------
(* Capacities of 1 and 2 bytes, samples of 0 to 2 bytes, result vectors of *)
(* up to two samples.                                                      *)
EXTENDS PVCDetails, TLC

CONSTANTS undefined

MCCapacity == {1, 2}
MCUsage == 0 .. 2
MCMaxSeries == 2
=============================================================================
