SPECIFICATION Spec
CONSTANTS
    first = first
    second = second
    theirs = theirs
    dev = dev
    alt = alt
    None = None
    Devices <- MCDevices
    HwidOf <- MCHwidOf
    Versions <- MCVersions
    InfHwids <- MCInfHwids
    ReleaseOf <- MCReleaseOf
    Shipped <- TwoProducts
    Slots <- MCSlots
    HasDiUninstall = TRUE
    Meddling = TRUE
INVARIANTS
    TypeOK
    NoDanglingDriver
    KeyNamesOwn
    KeyResolves
PROPERTY
    RemovalDeletesOwn
