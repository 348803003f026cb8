CONSTANTS
    n1 = n1
    l1 = l1
    l2 = l2
    p1 = p1
    p2 = p2
    absent = absent
    NoValue = absent
    Namespace <- MCNamespace
    Label <- MCLabel
    Path <- MCPath
    MaxExt <- MCMaxExt

SPECIFICATION Spec

INVARIANTS
    TypeOK
    OpensChosenItem
