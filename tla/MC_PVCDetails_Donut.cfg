CONSTANTS
    undefined = undefined
    Capacity <- MCCapacity
    Usage <- MCUsage
    NoValue = undefined
    MaxSeries <- MCMaxSeries

SPECIFICATION Spec

INVARIANTS
    DonutTitleMatchesData
