--------------------------- MODULE MC_PVCClaimViews ---------------------------
(* Two volumes, one storage class and two sizes: a claim can be pending (no *)
(* volume, no capacity), bound, or bound with its capacity not yet         *)
(* reported, with or without a class, and requested below or above what   *)
(* it got.                                                                 *)
EXTENDS PVCClaimViews, TLC

CONSTANTS v1, v2, sc1, absent

MCVolume == {v1, v2}
MCStorageClass == {sc1}
MCCapacity == {1, 2}

=============================================================================
