CONSTANTS
    n1 = n1
    a = a
    b = b
    absent = absent
    Namespace <- MCNamespace
    Name <- MCName
    Usage <- MCUsagePositive
    NoMetric = absent
    MaxSeries <- MCMaxSeries
    Capacity <- MCCapacity
    Claim <- MCClaim

SPECIFICATION Spec

INVARIANTS
    PagesAgreeOnUsage
