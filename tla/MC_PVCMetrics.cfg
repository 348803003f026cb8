CONSTANTS
    n1 = n1
    a = a
    b = b
    absent = absent
    Namespace <- MCNamespace
    Name <- MCName
    Usage <- MCUsage
    NoMetric = absent
    MaxSeries <- MCMaxSeries

SPECIFICATION Spec

INVARIANTS
    TypeOK

PROPERTIES
    EventuallyRowsShowPoll
