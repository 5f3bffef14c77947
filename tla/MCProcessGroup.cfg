CONSTANTS
    Procs <- MCProcs
    Groups <- MCGroups
SPECIFICATION Spec
INVARIANT TypeOK
INVARIANT SubIsGroupDiff
