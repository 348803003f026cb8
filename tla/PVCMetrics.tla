----------------------------- MODULE PVCMetrics -----------------------------
(***************************************************************************)
(* The "Used" column of the PersistentVolumeClaim list page               *)
(* (src/frontend/public/components/persistent-volume-claim.jsx).           *)
(*                                                                         *)
(* PersistentVolumeClaimsPage polls Prometheus for                         *)
(* kubelet_volume_stats_used_bytes, reduces the result into                *)
(* usedCapacity[namespace][claim] and, during every render, dispatches it  *)
(* with setPVCMetrics into the Redux UI state.  Every PVCTableRow is       *)
(* connected to that state and reads its own entry through                 *)
(* mapStateToProps.  Three actors therefore take part: the poll hook       *)
(* (environment), the page render (writer of the store) and each row      *)
(* render (reader of the store).                                           *)
(***************************************************************************)
EXTENDS Naturals, Sequences

CONSTANTS
    Namespace,   \* namespaces of the listed claims
    Name,        \* names of the listed claims
    Usage,       \* byte counts a kubelet_volume_stats_used_bytes sample holds
    NoMetric,    \* what an optional-chained lookup of an unset entry yields
    MaxSeries    \* the longest Prometheus result vector a poll returns

ASSUME UsageAssumption == Usage \subseteq Nat
ASSUME NoMetricAssumption == NoMetric \notin Usage
ASSUME MaxSeriesAssumption == MaxSeries \in Nat

(* A claim is identified by its namespace and name, as in the store path. *)
PVC == Namespace \X Name

VARIABLES
    poll,        \* [response, loadError, loading] returned by usePrometheusPoll
    pageStale,   \* a poll state change has scheduled a render of the page
    store,       \* UI.metrics.pvc.usedCapacity, as last dispatched
    rowMetrics   \* the `metrics` prop each PVCTableRow last rendered with

vars == <<poll, pageStale, store, rowMetrics>>

(* One sample of the result vector: its claim labels and its value.        *)
Series == [pvc : PVC, value : Usage]

(* The result vector; the empty one also stands for an undefined response, *)
(* since both reduce to no entry at all.                                   *)
Response == UNION {[1 .. n -> Series] : n \in 0 .. MaxSeries}

(* The error returned by the hook: none, an Error with no enumerable own   *)
(* property (a failed fetch), or an HttpError carrying status and body.    *)
LoadError == {"none", "plain", "http"}

PollState == [response : Response, loadError : LoadError, loading : BOOLEAN]

Metrics == [PVC -> Usage \cup {NoMetric}]

NoMetrics == [p \in PVC |-> NoMetric]

(* lodash _.isEmpty: true of undefined and of an object with no own        *)
(* enumerable key, which is what a plain Error is.                         *)
IsEmptyError(e) == e \in {"none", "plain"}

(* _.set(acc, ['usedCapacity', ns, claim], Number(value)) in the reduce    *)
(* overwrites: the entry of a claim is the value of its last series.       *)
IsLastSeries(r, p, i) ==
    /\ r[i].pvc = p
    /\ \A j \in DOMAIN r : r[j].pvc = p => j <= i

(* A reduce that adds up the series of a claim,                           *)
(* `_.set(acc, path, (_.get(acc, path) ?? 0) + Number(value))`.            *)
LastSampleSummed(r, p) ==
    LET sum[i \in 0 .. Len(r)] ==
            IF i = 0 THEN 0
            ELSE sum[i - 1] + (IF r[i].pvc = p THEN r[i].value ELSE 0)
    IN  IF \E i \in DOMAIN r : r[i].pvc = p THEN sum[Len(r)] ELSE NoMetric

LastSample(r, p) ==
    IF \E i \in DOMAIN r : IsLastSeries(r, p, i)
    THEN r[CHOOSE i \in DOMAIN r : IsLastSeries(r, p, i)].value
    ELSE NoMetric

(* pvcMetrics: the reduced result when the error is empty and the poll is  *)
(* not loading, {} otherwise.                                              *)
PvcMetrics(ps) ==
    IF IsEmptyError(ps.loadError) /\ ~ps.loading
    THEN [p \in PVC |-> LastSample(ps.response, p)]
    ELSE NoMetrics

(* A mapStateToProps that looks the claim up as [name][namespace].        *)
RowMetricSwapped(s, ns, nm) ==
    IF <<nm, ns>> \in DOMAIN s THEN s[<<nm, ns>>] ELSE NoMetric

(* mapStateToProps: usedCapacity?.[getNamespace(obj)]?.[getName(obj)].     *)
RowMetric(s, ns, nm) ==
    IF <<ns, nm>> \in DOMAIN s THEN s[<<ns, nm>>] ELSE NoMetric

(* The Used cell, `metrics ? usedCapacity.string : '-'`, shows the value   *)
(* (humanized) when metrics is truthy, '-' otherwise; 0 is falsy.          *)
UsedCellShown(m) == m \notin {NoMetric, 0}

(* The Redux state may hold the metrics of an earlier visit to the page;   *)
(* the page has not rendered yet, nor has any row.                         *)
Init ==
    /\ poll = [response |-> << >>, loadError |-> "none", loading |-> TRUE]
    /\ pageStale = TRUE
    /\ store \in Metrics
    /\ rowMetrics = NoMetrics

(* The hook delivers a result vector.                                      *)
PollSucceeded(r) ==
    /\ poll' = [response |-> r, loadError |-> "none", loading |-> FALSE]
    /\ pageStale' = TRUE
    /\ UNCHANGED <<store, rowMetrics>>

(* The hook (outside src) reports an error and drops its response.        *)
PollFailed(e) ==
    /\ poll' = [response |-> << >>,
                loadError |-> e, loading |-> FALSE]
    /\ pageStale' = TRUE
    /\ UNCHANGED <<store, rowMetrics>>

(* PersistentVolumeClaimsPage renders: computes pvcMetrics from the poll   *)
(* and dispatches setPVCMetrics(pvcMetrics).                               *)
RenderPage ==
    /\ pageStale
    /\ store' = PvcMetrics(poll)
    /\ pageStale' = FALSE
    /\ UNCHANGED <<poll, rowMetrics>>

(* A connected PVCTableRow re-renders when its selected prop changed.      *)
RenderRow(p) ==
    /\ rowMetrics[p] # RowMetric(store, p[1], p[2])
    /\ rowMetrics' = [rowMetrics EXCEPT ![p] = RowMetric(store, p[1], p[2])]
    /\ UNCHANGED <<poll, pageStale, store>>

Next ==
    \/ \E r \in Response : PollSucceeded(r)
    \/ \E e \in LoadError \ {"none"} : PollFailed(e)
    \/ RenderPage
    \/ \E p \in PVC : RenderRow(p)

(* React performs a scheduled render, and react-redux notifies every       *)
(* subscribed row of a dispatch; polling itself is the environment's.      *)
Fairness ==
    /\ WF_vars(RenderPage)
    /\ \A p \in PVC : WF_vars(RenderRow(p))

Spec == Init /\ [][Next]_vars /\ Fairness

-----------------------------------------------------------------------------
(* Type invariant.                                                         *)
TypeOK ==
    /\ poll \in PollState
    /\ pageStale \in BOOLEAN
    /\ store \in Metrics
    /\ rowMetrics \in Metrics

(* Every row shows the entry the page computes from the current poll      *)
(* state for its own claim.                                                *)
RowsShowPoll == \A p \in PVC : rowMetrics[p] = PvcMetrics(poll)[p]

(* Whenever the poll stops changing, every row eventually shows, and keeps *)
(* showing, the usage that poll reports for its own claim (page render,    *)
(* dispatch and row subscription together).                                *)
EventuallyRowsShowPoll ==
    <>[][UNCHANGED poll]_vars => <>[]RowsShowPoll

=============================================================================
