------------------------- MODULE MC_MultiTabCreateMenu -------------------------
(* One action key, one model and one namespace: the page has no menu or a  *)
(* single action of any shape, on a route with or without the namespace.   *)
EXTENDS MultiTabCreateMenu, TLC

CONSTANTS k1, m1, n1, absent

MCActionName == {k1}
MCModel == {m1}
MCNamespace == {n1}

=============================================================================
