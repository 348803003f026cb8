CONSTANTS
    Key <- MCKey

SPECIFICATION Spec

INVARIANTS
    LabelsReachable
    ViewAllOnlyWhenHidden
