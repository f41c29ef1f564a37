SPECIFICATION Spec
CONSTANTS
    viorng = viorng
    vioser = vioser
    netkvm = netkvm
    Packages <- MCPackages
    Tables <- MCTables
INVARIANT
    RebootFlagHonoured
