------------------------------- MODULE PVCPages -------------------------------
(***************************************************************************)
(* The PVC list page and the details page of one claim, polling the same   *)
(* kubelet_volume_stats_used_bytes samples (persistent-volume-claim.jsx).  *)
(* The list queries every sample and keeps, per claim, the value of the    *)
(* last series (PVCMetrics); the details page queries the samples of its   *)
(* claim and shows the first (PVCDetails).  The two are composed over one  *)
(* variable, the samples the cluster currently reports.  Only successful   *)
(* polls are composed: the comparison is about what both pages show from   *)
(* the same data.                                                          *)
(***************************************************************************)
EXTENDS Naturals, Sequences

CONSTANTS Namespace, Name, Usage, NoMetric, MaxSeries, Capacity,
          Claim     \* the claim whose details page is open

VARIABLES
    series,                              \* the samples the cluster reports
    poll, pageStale, store, rowMetrics,  \* the list page, as in PVCMetrics
    dpoll, capacity                      \* the details page, as in PVCDetails

vars == <<series, poll, pageStale, store, rowMetrics, dpoll, capacity>>

List == INSTANCE PVCMetrics

Details == INSTANCE PVCDetails WITH poll <- dpoll, NoValue <- NoMetric

(* The details page's query                                                *)
(* kubelet_volume_stats_used_bytes{persistentvolumeclaim=name,namespace=ns}*)
(* yields the values of the claim's series, in result order.               *)
ClaimSamples(r, c) ==
    LET sel == SelectSeq(r, LAMBDA s : s.pvc = c)
    IN  [i \in DOMAIN sel |-> sel[i].value]

Init ==
    /\ series \in List!Response
    /\ List!Init
    /\ Details!Init

(* The kubelets report other samples (usage changed, a node remounted).   *)
ClusterReported(r) ==
    /\ r # series
    /\ series' = r
    /\ UNCHANGED <<poll, pageStale, store, rowMetrics, dpoll, capacity>>

ListPolled ==
    /\ List!PollSucceeded(series)
    /\ UNCHANGED <<series, dpoll, capacity>>

DetailsPolled ==
    /\ Details!PollSucceeded(ClaimSamples(series, Claim))
    /\ UNCHANGED <<series, poll, pageStale, store, rowMetrics>>

ListRendered ==
    /\ List!RenderPage
    /\ UNCHANGED <<series, dpoll, capacity>>

RowRendered(p) ==
    /\ List!RenderRow(p)
    /\ UNCHANGED <<series, dpoll, capacity>>

ClaimUpdated(c) ==
    /\ Details!ClaimUpdated(c)
    /\ UNCHANGED <<series, poll, pageStale, store, rowMetrics>>

Next ==
    \/ \E r \in List!Response : ClusterReported(r)
    \/ ListPolled
    \/ DetailsPolled
    \/ ListRendered
    \/ \E p \in List!PVC : RowRendered(p)
    \/ \E c \in Capacity : ClaimUpdated(c)

Spec == Init /\ [][Next]_vars

-----------------------------------------------------------------------------
(* Both pages are up to date with the samples the cluster reports: both    *)
(* polls returned them, the page dispatched them and the claim's row       *)
(* rendered the store.                                                     *)
Synced ==
    /\ poll = [response |-> series, loadError |-> "none", loading |-> FALSE]
    /\ ~pageStale
    /\ rowMetrics[Claim] = store[Claim]
    /\ dpoll = [response |-> ClaimSamples(series, Claim),
                loadError |-> "none", loading |-> FALSE]

(* From the same samples the two pages tell the user the same usage for    *)
(* the claim: the list's Used cell shows a value exactly when the details  *)
(* page shows its Used row, and then the same value.                       *)
PagesAgreeOnUsage ==
    Synced =>
        /\ List!UsedCellShown(rowMetrics[Claim]) <=> Details!UsedRowShown
        /\ Details!UsedRowShown =>
               rowMetrics[Claim] = Details!UsedMetrics

=============================================================================
