SPECIFICATION Spec
CONSTANTS
    first = first
    second = second
    theirs = theirs
    dev = dev
    alt = alt
    None = None
    Devices <- MCDevices
    HwidOf <- MCHwidOf
    Versions <- TwoVersions
    InfHwids <- MCInfHwids
    ReleaseOf <- MCReleaseOf
    Shipped <- OneProduct
    Slots <- MCSlots
    HasDiUninstall = FALSE
    Meddling = FALSE
PROPERTY
    RemovalDeletesOwn
