\* Two attempts are enough for every order of events around one retry.
SPECIFICATION Spec
CONSTANTS
    kvmA = kvmA
    kvmB = kvmB
    vfA = vfA
    NoNic = NoNic
    Nics <- MCNics
    MacOf <- MCMacOf
    ServiceOf <- MCServiceOf
    SavedLists <- MCSavedLists
    MaxRetries = 2
INVARIANTS
    TypeOK
    RightNic
    SeenIsServed
    FileOrder
    ReportTruthful
PROPERTIES
    RestoredOnce
    UsesCursor
    Terminates
    ImplementsPromise
