---------------------------- MODULE MC_PVCCreateMenu ----------------------------
(* One namespace or none, two labels and two paths, and up to two          *)
(* extensions, so that the dropdown holds the form and two items, possibly *)
(* with the same label.                                                    *)
EXTENDS PVCCreateMenu, TLC

CONSTANTS n1, l1, l2, p1, p2, absent

MCNamespace == {n1}
MCLabel == {l1, l2}
MCPath == {p1, p2}
MCMaxExt == 2

=============================================================================
