CONSTANTS
    c1 = c1
    c2 = c2
    Phase <- MCPhase
    StatusComp <- MCStatusComp
    Priority <- MCPriority
    MaxExt <- MCMaxExt
    Extension <- MCExtension

SPECIFICATION Spec

INVARIANTS
    StatusReadersMatchShown
