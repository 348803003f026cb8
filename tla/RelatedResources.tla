--------------------------- MODULE RelatedResources ---------------------------
(***************************************************************************)
(* The contract of flatten(buckets, parent), the related-resources         *)
(* aggregator of the operand Resources view (spec.md, section 4.1; its     *)
(* implementation is not in this repository, its tests are in             *)
(* operator-lifecycle-manager/src/components/operand/index.spec.tsx).      *)
(*                                                                         *)
(* One invocation is one step: from the buckets and the parent it yields   *)
(* the resources of the loaded buckets, in scan order, that reach the      *)
(* parent through a chain of ownerReferences of length one or more whose   *)
(* intermediate owners are resources of loaded buckets.                    *)
(***************************************************************************)
EXTENDS Naturals, Sequences, Relation

CONSTANTS
    Kind,       \* resource kinds, one bucket each
    Uid,        \* uids of the resources in the buckets
    ParentUid,  \* the uid of the viewed resource
    NoUid,      \* an undefined metadata.uid
    Scan,       \* the buckets' resources as [kind, uid], in kind order then bucket order
    MaxOwners   \* the most ownerReferences a resource carries

(* A uid an ownerReference can name.                                       *)
Node == Uid \cup {ParentUid}

VARIABLES
    loaded,   \* loaded /\ ~loadError of each bucket
    owners,   \* the uids each resource's ownerReferences name
    parent,   \* parent.metadata.uid
    out,      \* the sequence flatten returned
    done      \* flatten has returned

vars == <<loaded, owners, parent, out, done>>

(* The inputs flatten can be called with.                                  *)
Owners == {S \in SUBSET Node : Cardinality(S) <= MaxOwners}

InputsInit ==
    /\ loaded \in [Kind -> BOOLEAN]
    /\ owners \in [Uid -> Owners]
    /\ parent \in {ParentUid, NoUid}

(* Uids of the resources of loaded buckets.                                *)
Known == {Scan[i].uid : i \in {j \in DOMAIN Scan : loaded[Scan[j].kind]}}

(* x is owned by y: a resource of a loaded bucket names y, which is such a *)
(* resource or the parent.                                                 *)
OwnedBy == [e \in Node \X Node |->
               /\ e[1] \in Known
               /\ e[2] \in owners[e[1]]
               /\ e[2] \in Known \cup {parent}]

(* u reaches the parent through one or more ownerReferences.               *)
IsRelated(u) ==
    parent # NoUid /\ TransitiveClosure(OwnedBy, Node)[u, parent]

(* The uids of the related resources of loaded buckets, in scan order.     *)
Flatten ==
    LET kept == SelectSeq(Scan, LAMBDA r : loaded[r.kind] /\ IsRelated(r.uid))
    IN  [i \in DOMAIN kept |-> kept[i].uid]

Init ==
    /\ InputsInit
    /\ out = << >>
    /\ done = FALSE

Return ==
    /\ ~done
    /\ out' = Flatten
    /\ done' = TRUE
    /\ UNCHANGED <<loaded, owners, parent>>

(* The caller gets its answer: flatten returns.                            *)
Spec == Init /\ [][Return]_vars /\ WF_vars(Return)

=============================================================================
