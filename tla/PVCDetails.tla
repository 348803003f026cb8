----------------------------- MODULE PVCDetails -----------------------------
(***************************************************************************)
(* The PersistentVolumeClaim details page (Details_ in                     *)
(* src/frontend/public/components/persistent-volume-claim.jsx): the usage  *)
(* donut and the "Used" row, for the one claim the page shows.             *)
(*                                                                         *)
(* The page polls kubelet_volume_stats_used_bytes filtered to this claim,  *)
(* takes the first sample of the result as usedMetrics (the raw string),   *)
(* and watches the claim, whose status.capacity.storage gives the total.   *)
(* The view is a function of those two inputs and is written as operators. *)
(***************************************************************************)
EXTENDS Naturals, Sequences

CONSTANTS
    Capacity,    \* byte counts status.capacity.storage can convert to
    Usage,       \* byte counts a sample holds
    NoValue,     \* an undefined capacity or sample
    MaxSeries    \* the longest result vector a poll returns

(* Intended values: Capacity a set of positive naturals, Usage a set of   *)
(* naturals, NoValue a model value, MaxSeries a natural.                   *)

VARIABLES
    poll,        \* [response, loadError, loading] of the details page's poll
    capacity     \* convertToBaseValue(status.capacity.storage) of the claim

vars == <<poll, capacity>>

(* The samples of the filtered query, in result order.                     *)
Response == UNION {[1 .. n -> Usage] : n \in 0 .. MaxSeries}

LoadError == {"none", "plain", "http"}

IsEmptyError(e) == e \in {"none", "plain"}

(* usedMetrics: response?.data?.result?.[0]?.value?.[1], a string, so a    *)
(* sample of "0" is present (truthy).                                      *)
UsedMetrics == IF Len(poll.response) > 0 THEN poll.response[1] ELSE NoValue

(* availableMetrics: usedMetrics ? totalCapacityMetric - usedMetrics :     *)
(* null; the difference is a number, falsy when it is 0.                   *)
AvailableMetrics ==
    IF UsedMetrics = NoValue \/ capacity = NoValue
    THEN NoValue
    ELSE capacity - UsedMetrics

(* The donut is drawn when `totalCapacityMetric && !loading`.              *)
DonutShown == capacity # NoValue /\ ~poll.loading

(* donutData: Used and Available slices when usedMetrics is truthy, a      *)
(* single Total slice otherwise.                                           *)
DonutData ==
    IF UsedMetrics # NoValue
    THEN <<"Used", "Available">>
    ELSE <<"Total">>

(* ariaTitle, ariaDesc, subTitle and title all test availableMetrics.      *)
DonutTitle ==
    IF AvailableMetrics \notin {NoValue, 0}
    THEN "Available versus used capacity"
    ELSE "Total capacity"

(* The Used row: `usedMetrics && _.isEmpty(loadError) && !loading`.        *)
UsedRowShown ==
    UsedMetrics # NoValue /\ IsEmptyError(poll.loadError) /\ ~poll.loading

(* The page mounts with the poll loading; a claim may not be bound yet.    *)
Init ==
    /\ poll = [response |-> << >>, loadError |-> "none", loading |-> TRUE]
    /\ capacity \in Capacity \cup {NoValue}

PollSucceeded(r) ==
    /\ poll' = [response |-> r, loadError |-> "none", loading |-> FALSE]
    /\ UNCHANGED capacity

PollFailed(e) ==
    /\ poll' = [response |-> << >>,
                loadError |-> e, loading |-> FALSE]
    /\ UNCHANGED capacity

(* The watch delivers the claim again: it got bound, or was expanded;      *)
(* capacity never shrinks.                                                 *)
ClaimUpdated(c) ==
    /\ capacity \in {NoValue} \cup {x \in Capacity : x < c}
    /\ capacity' = c
    /\ UNCHANGED poll

Next ==
    \/ \E r \in Response : PollSucceeded(r)
    \/ \E e \in LoadError \ {"none"} : PollFailed(e)
    \/ \E c \in Capacity : ClaimUpdated(c)

Spec == Init /\ [][Next]_vars

-----------------------------------------------------------------------------
(* The chart's title, subtitle and accessible description name the same    *)
(* chart its data draws: "Available versus used capacity" exactly when it  *)
(* draws Used and Available slices (Details_ donut).                       *)
DonutTitleMatchesData ==
    DonutShown =>
        (DonutTitle = "Available versus used capacity"
            <=> DonutData = <<"Used", "Available">>)

=============================================================================
