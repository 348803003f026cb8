----------------------------- MODULE MC_PVCStatus -----------------------------
(* Two phases, two status components and three extensions: two of equal    *)
(* priority that both match a bound claim but render different components, *)
(* and one of higher priority for a claim being deleted.  Up to three      *)
(* registrations, so that an extension is appended to an array that an     *)
(* earlier render already sorted, and registered twice.                    *)
EXTENDS PVCStatus, TLC

CONSTANTS c1, c2

MCPhase == {"Pending", "Bound"}
MCStatusComp == {c1, c2}
MCPriority == {1, 2}
MCMaxExt == 3

MCExtension ==
    { [status |-> c1, priority |-> 1,
       predicate |-> {s \in PvcState : s.phase = "Bound"}],
      [status |-> c2, priority |-> 1, predicate |-> PvcState],
      [status |-> c2, priority |-> 2,
       predicate |-> {s \in PvcState : s.deleting}] }

=============================================================================
