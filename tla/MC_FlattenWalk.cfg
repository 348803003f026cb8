CONSTANTS
    a = a
    b = b
    c = c
    P = P
    none = none
    Kind <- MCKind
    Uid <- MCUid
    ParentUid = P
    NoUid = none
    Scan <- MCScan
    MaxOwners <- MCMaxOwners

SPECIFICATION Spec

PROPERTIES
    ImplementsContract

CHECK_DEADLOCK FALSE
