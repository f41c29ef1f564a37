SPECIFICATION Spec
CONSTANTS
    viorng = viorng
    vioser = vioser
    netkvm = netkvm
    Packages <- MCPackages
    Tables <- MCTables
INVARIANTS
    TypeOK
    SequenceOrder
    UndoComplete
    RebootFlagExact
    RebootOnlyIfWanted
    CommittedScanned
