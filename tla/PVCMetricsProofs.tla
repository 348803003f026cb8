-------------------------- MODULE PVCMetricsProofs --------------------------
(***************************************************************************)
(* Proofs about the PVC list page's usage pipeline (module PVCMetrics),    *)
(* for every set of claims, every set of sample values and every bound on *)
(* the result vector.                                                      *)
(***************************************************************************)
EXTENDS PVCMetrics, TLAPS

(* The value a reduce leaves for a claim is a sample value or nothing.     *)
LEMMA LastSampleType ==
    ASSUME NEW r \in Response, NEW p \in PVC
    PROVE  LastSample(r, p) \in Usage \cup {NoMetric}
<1>1. PICK n \in 0 .. MaxSeries : r \in [1 .. n -> Series]
    BY DEF Response
<1>2. CASE \E i \in DOMAIN r : IsLastSeries(r, p, i)
    <2>1. (CHOOSE i \in DOMAIN r : IsLastSeries(r, p, i)) \in 1 .. n
        BY <1>1, <1>2
    <2>2. QED
        BY <1>1, <1>2, <2>1 DEF LastSample, Series
<1>3. CASE ~\E i \in DOMAIN r : IsLastSeries(r, p, i)
    BY <1>3 DEF LastSample
<1>4. QED
    BY <1>2, <1>3

(* The metrics the page dispatches are well typed.                         *)
LEMMA PvcMetricsType ==
    ASSUME NEW ps \in PollState
    PROVE  PvcMetrics(ps) \in Metrics
BY LastSampleType DEF PvcMetrics, PollState, Metrics, NoMetrics

(* A row reads a sample value or nothing from a well typed store.          *)
LEMMA RowMetricType ==
    ASSUME NEW s \in Metrics, NEW p \in PVC
    PROVE  RowMetric(s, p[1], p[2]) \in Usage \cup {NoMetric}
BY DEF RowMetric, Metrics, PVC

(* The empty result vector is a result vector.                             *)
LEMMA EmptyResponse == << >> \in Response
<1>1. \A X : << >> \in [1 .. 0 -> X]
    OBVIOUS
<1>2. 0 \in 0 .. MaxSeries
    BY MaxSeriesAssumption
<1>3. QED
    BY <1>1, <1>2 DEF Response

(* Every state of the list page pipeline is well typed.                    *)
THEOREM TypeCorrect == Spec => []TypeOK
<1>1. Init => TypeOK
    BY EmptyResponse DEF Init, TypeOK, PollState, LoadError, NoMetrics, Metrics
<1>2. TypeOK /\ [Next]_vars => TypeOK'
    <2> SUFFICES ASSUME TypeOK, [Next]_vars PROVE TypeOK'
        OBVIOUS
    <2>1. ASSUME NEW r \in Response, PollSucceeded(r) PROVE TypeOK'
        BY <2>1 DEF PollSucceeded, TypeOK, PollState, LoadError
    <2>2. ASSUME NEW e \in LoadError \ {"none"}, PollFailed(e)
          PROVE  TypeOK'
        BY <2>2, EmptyResponse DEF PollFailed, TypeOK, PollState, LoadError
    <2>3. CASE RenderPage
        BY <2>3, PvcMetricsType DEF RenderPage, TypeOK
    <2>4. ASSUME NEW p \in PVC, RenderRow(p) PROVE TypeOK'
        BY <2>4, RowMetricType DEF RenderRow, TypeOK, Metrics
    <2>5. CASE UNCHANGED vars
        BY <2>5 DEF vars, TypeOK
    <2>6. QED
        BY <2>1, <2>2, <2>3, <2>4, <2>5 DEF Next
<1>3. QED
    BY <1>1, <1>2, PTL DEF Spec

=============================================================================
