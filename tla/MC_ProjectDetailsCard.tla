------------------------- MODULE MC_ProjectDetailsCard -------------------------
(* Seven label keys, so that a project carries none, exactly three, or     *)
(* more labels than the card shows.                                        *)
EXTENDS ProjectDetailsCard, TLC

MCKey == 1 .. 7

=============================================================================
