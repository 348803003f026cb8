CONSTANTS
    v1 = v1
    v2 = v2
    sc1 = sc1
    absent = absent
    NoValue = absent
    Volume <- MCVolume
    StorageClass <- MCStorageClass
    Capacity <- MCCapacity

SPECIFICATION Spec

INVARIANTS
    PagesAgreeOnVolume
