------------------------------ MODULE PVCStatus ------------------------------
(***************************************************************************)
(* The status cell of the PersistentVolumeClaim list (PVCStatus in         *)
(* src/frontend/public/components/persistent-volume-claim.jsx).            *)
(*                                                                         *)
(* Plugins contribute console.pvc/status extensions, each with a priority, *)
(* a predicate on the claim and a status component.  On every render       *)
(* PVCStatus sorts the array useResolvedExtensions returned IN PLACE by    *)
(* descending priority and shows the first extension whose predicate      *)
(* holds; without one it shows Terminating or the claim's phase.  Because  *)
(* the sort mutates the hook's array, the order a render sees depends on   *)
(* what earlier renders did to it.                                         *)
(***************************************************************************)
EXTENDS Naturals, Sequences, FiniteSets

CONSTANTS
    Phase,       \* values of status.phase
    StatusComp,  \* status components the extensions render
    Priority,    \* priorities the extensions declare
    MaxExt       \* the most extensions the plugins register

ASSUME PriorityAssumption == Priority \subseteq Nat
ASSUME MaxExtAssumption == MaxExt \in Nat

(* What the predicates and the fallback read of a claim.                   *)
PvcState == [phase : Phase, deleting : BOOLEAN]

(* A console.pvc/status extension, once its code references are resolved. *)
Extension == [status : StatusComp, priority : Priority,
              predicate : SUBSET PvcState]

VARIABLES
    registered,  \* the extensions in the order the plugins registered them
    hookArray,   \* the array useResolvedExtensions hands to PVCStatus
    resolved,    \* the hook's `resolved` flag
    pvc,         \* the claim the row shows
    stale,       \* a prop or hook change has scheduled a render
    shown        \* the status the cell last rendered

vars == <<registered, hookArray, resolved, pvc, stale, shown>>

(* A fallback that shows the deletion timestamp itself,                    *)
(* `pvc.metadata.deletionTimestamp || pvc.status.phase`.                   *)
FallbackTimestamp(p) == IF p.deleting THEN "deletionTimestamp" ELSE p.phase

(* The status without an extension: Terminating while a deletion is        *)
(* pending, else the phase (also getResourceStatus of the details page).   *)
Fallback(p) == IF p.deleting THEN "Terminating" ELSE p.phase

(* A comparator that also orders equal priorities backwards, as an         *)
(* unstable sort may.                                                      *)
BeforeUnstable(s, i, j) ==
    \/ s[i].priority > s[j].priority
    \/ s[i].priority = s[j].priority /\ i > j

(* sort((a, b) => b.properties.priority - a.properties.priority): the sort *)
(* is stable, so element i goes before element j when its priority is      *)
(* higher, or equal and it comes first.                                    *)
Before(s, i, j) ==
    \/ s[i].priority > s[j].priority
    \/ s[i].priority = s[j].priority /\ i < j

(* The position element i takes in the sorted array.                       *)
Rank(s, i) == Cardinality({j \in DOMAIN s : Before(s, j, i)}) + 1

SortByPriority(s) ==
    [k \in DOMAIN s |-> s[CHOOSE i \in DOMAIN s : Rank(s, i) = k]]

(* sortedByPriority.find(status => status.properties.predicate(pvc)): the  *)
(* least index whose predicate holds, 0 when none does.                    *)
FindIndex(sorted, p) ==
    LET I == {i \in DOMAIN sorted : p \in sorted[i].predicate}
    IN  IF I = {} THEN 0 ELSE CHOOSE i \in I : \A j \in I : i <= j

(* The matching extension's status component, or the fallback.             *)
StatusOf(sorted, p) ==
    LET i == FindIndex(sorted, p)
    IN  IF i # 0 THEN sorted[i].status ELSE Fallback(p)

(* The Status row filter of the claims list page: items for the phases in  *)
(* allPhases, and a reducer that files a claim under its status.phase.     *)
AllPhases == {"Pending", "Bound", "Lost"}

StatusFilterReducer(p) == p.phase

(* The field the list sorts the Status column by: sortField 'status.phase'.*)
StatusSortField(p) == p.phase

(* The status the claim's details page shows in its header                 *)
(* (getResourceStatus of PersistentVolumeClaimsDetailsPage).               *)
HeaderStatus(p) == IF p.deleting THEN "Terminating" ELSE p.phase

Init ==
    /\ registered = << >>
    /\ hookArray = << >>
    /\ resolved = FALSE
    /\ pvc \in PvcState
    /\ stale = TRUE
    /\ shown = Fallback(pvc)

(* A plugin registers another extension.  The hook (outside src) hands     *)
(* either a fresh array in registration order or its previous array, which *)
(* earlier renders sorted in place, with the new extension appended.       *)
PluginLoaded(e) ==
    /\ Len(registered) < MaxExt
    /\ registered' = Append(registered, e)
    /\ hookArray' \in {Append(registered, e), Append(hookArray, e)}
    /\ stale' = TRUE
    /\ UNCHANGED <<resolved, pvc, shown>>

(* The extensions' code references are resolved.                           *)
ExtensionsResolved ==
    /\ ~resolved
    /\ resolved' = TRUE
    /\ stale' = TRUE
    /\ UNCHANGED <<registered, hookArray, pvc, shown>>

(* The watch delivers a new version of the claim.                          *)
PvcUpdated(p) ==
    /\ p # pvc
    /\ pvc' = p
    /\ stale' = TRUE
    /\ UNCHANGED <<registered, hookArray, resolved, shown>>

(* PVCStatus renders: with resolved extensions it sorts the hook's array   *)
(* in place and shows the first match, else the fallback.                  *)
Render ==
    /\ stale
    /\ IF resolved /\ Len(hookArray) > 0
       THEN /\ hookArray' = SortByPriority(hookArray)
            /\ shown' = StatusOf(SortByPriority(hookArray), pvc)
       ELSE /\ shown' = Fallback(pvc)
            /\ UNCHANGED hookArray
    /\ stale' = FALSE
    /\ UNCHANGED <<registered, resolved, pvc>>

Next ==
    \/ \E e \in Extension : PluginLoaded(e)
    \/ ExtensionsResolved
    \/ \E p \in PvcState : PvcUpdated(p)
    \/ Render

Spec == Init /\ [][Next]_vars

-----------------------------------------------------------------------------
(* Type invariant.                                                         *)
TypeOK ==
    /\ registered \in Seq(Extension)
    /\ hookArray \in Seq(Extension)
    /\ resolved \in BOOLEAN
    /\ pvc \in PvcState
    /\ stale \in BOOLEAN
    /\ shown \in StatusComp \cup Phase \cup {"Terminating"}

(* The status the extension mechanism promises: that of the matching       *)
(* extension of highest priority, the earliest registered among equals.    *)
Best(p) ==
    LET M == {i \in DOMAIN registered : p \in registered[i].predicate}
        Top(i) == \A j \in M : \/ registered[j].priority < registered[i].priority
                               \/ registered[j].priority = registered[i].priority
                                  /\ i <= j
    IN  IF resolved /\ M # {}
        THEN registered[CHOOSE i \in M : Top(i)].status
        ELSE Fallback(p)

(* Once PVCStatus has rendered, it shows the status of the highest-priority *)
(* matching extension, ties going to the earliest registered, however      *)
(* often earlier renders sorted the hook's array in place and whichever    *)
(* array the hook handed after a plugin loaded.                            *)
StatusIsHighestPriority == ~stale => shown = Best(pvc)


(* Every other place that names the claim's status names the one its       *)
(* PVCStatus shows, once that has rendered: the list page's Status filter  *)
(* files the claim under phase i (its reducer, pvc.status.phase) only if   *)
(* it shows i, the Status column sorts it by what it shows, and the        *)
(* details page's header (getResourceStatus) shows it too.                 *)
StatusReadersMatchShown ==
    ~stale => /\ \A i \in AllPhases : StatusFilterReducer(pvc) = i => shown = i
              /\ StatusSortField(pvc) = shown
              /\ HeaderStatus(pvc) = shown

=============================================================================
