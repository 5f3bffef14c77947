\* A transport failure must not come back as a nil error.
CONSTANTS
    URLs <- MCURLs
    Procs <- MCProcs
    Names <- MCNames
    Changes <- MCChanges
    Signals <- MCSignals
SPECIFICATION Spec
INVARIANT NoErrorMeansAnswered
