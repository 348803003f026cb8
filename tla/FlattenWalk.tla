------------------------------ MODULE FlattenWalk ------------------------------
(***************************************************************************)
(* flatten(buckets, parent) as spec.md section 4.1 describes it, one step  *)
(* at a time: an undefined parent uid returns at once; otherwise the       *)
(* resources of the buckets are scanned in order, skipping those of        *)
(* unloaded buckets, and for each one its ownerReferences are walked:      *)
(* a reference to the parent makes it related, a reference to a known      *)
(* resource is walked further, any other reference is a dead end.  The     *)
(* walk keeps the set of uids it has visited (section 9), so that cyclic   *)
(* ownership data ends the walk instead of repeating it.                   *)
(***************************************************************************)
EXTENDS Naturals, Sequences, FiniteSets

CONSTANTS Kind, Uid, ParentUid, NoUid, Scan, MaxOwners

VARIABLES
    loaded, owners, parent,  \* the inputs, as in RelatedResources
    pc,       \* "start", "scan", "walk" or "done"
    i,        \* index in Scan of the resource being decided
    pending,  \* owner uids of the walk still to look at
    visited,  \* uids the walk has already expanded
    out       \* the resources found related so far

vars == <<loaded, owners, parent, pc, i, pending, visited, out>>

Node == Uid \cup {ParentUid}

Owners == {S \in SUBSET Node : Cardinality(S) <= MaxOwners}

Known == {Scan[j].uid : j \in {k \in DOMAIN Scan : loaded[Scan[k].kind]}}

Init ==
    /\ loaded \in [Kind -> BOOLEAN]
    /\ owners \in [Uid -> Owners]
    /\ parent \in {ParentUid, NoUid}
    /\ pc = "start"
    /\ i = 1
    /\ pending = {}
    /\ visited = {}
    /\ out = << >>

(* Without a parent uid flatten returns the empty sequence.                *)
Start ==
    /\ pc = "start"
    /\ pc' = IF parent = NoUid THEN "done" ELSE "scan"
    /\ UNCHANGED <<loaded, owners, parent, i, pending, visited, out>>

(* The next resource: skipped when its bucket is not loaded, else its walk *)
(* starts from its own ownerReferences.                                    *)
ScanNext ==
    /\ pc = "scan"
    /\ i <= Len(Scan)
    /\ IF loaded[Scan[i].kind]
       THEN /\ pc' = "walk"
            /\ pending' = owners[Scan[i].uid]
            /\ visited' = {Scan[i].uid}
            /\ UNCHANGED i
       ELSE /\ i' = i + 1
            /\ UNCHANGED <<pc, pending, visited>>
    /\ UNCHANGED <<loaded, owners, parent, out>>

(* A walk that expands owners of unloaded buckets as well.                 *)
WalkStepAnyOwner ==
    /\ pc = "walk"
    /\ parent \notin pending
    /\ \E u \in pending :
          /\ pending' = (pending \ {u}) \cup
                        (IF u \in Uid /\ u \notin visited THEN owners[u] ELSE {})
          /\ visited' = visited \cup {u}
    /\ UNCHANGED <<loaded, owners, parent, pc, i, out>>

(* One owner uid of the walk: a known resource not visited yet has its own *)
(* ownerReferences added; any other uid leads nowhere.                     *)
WalkStep ==
    /\ pc = "walk"
    /\ parent \notin pending
    /\ \E u \in pending :
          /\ pending' = (pending \ {u}) \cup
                        (IF u \in Known /\ u \notin visited THEN owners[u] ELSE {})
          /\ visited' = visited \cup {u}
    /\ UNCHANGED <<loaded, owners, parent, pc, i, out>>

(* The walk reached the parent: the resource is appended, in scan order.   *)
Related ==
    /\ pc = "walk"
    /\ parent \in pending
    /\ out' = Append(out, Scan[i].uid)
    /\ pc' = "scan"
    /\ i' = i + 1
    /\ pending' = {}
    /\ UNCHANGED <<loaded, owners, parent, visited>>

(* The walk ran out of owners: the resource is dropped.                    *)
Unrelated ==
    /\ pc = "walk"
    /\ pending = {}
    /\ pc' = "scan"
    /\ i' = i + 1
    /\ UNCHANGED <<loaded, owners, parent, pending, visited, out>>

(* Every resource is decided: flatten returns out.                         *)
Finish ==
    /\ pc = "scan"
    /\ i > Len(Scan)
    /\ pc' = "done"
    /\ UNCHANGED <<loaded, owners, parent, i, pending, visited, out>>

Next == Start \/ ScanNext \/ WalkStep \/ Related \/ Unrelated \/ Finish

(* flatten runs synchronously to its end once called (spec.md section 5). *)
Spec == Init /\ [][Next]_vars /\ WF_vars(Next)

-----------------------------------------------------------------------------
(* The caller sees flatten's result only once it has returned.             *)
Abstract == INSTANCE RelatedResources
                WITH out <- IF pc = "done" THEN out ELSE << >>,
                     done <- (pc = "done")

(* The walk implements the contract: every call returns, even on cyclic    *)
(* ownership data, and returns exactly the resources of loaded buckets     *)
(* that reach the parent through ownerReferences, in scan order; none      *)
(* without a parent uid.                                                   *)
ImplementsContract == Abstract!Spec

=============================================================================
