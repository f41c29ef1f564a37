SPECIFICATION Spec
CONSTANTS
    Networks <- MCNetworks
    Backups <- MCBackups
    IPv4 <- MCIPv4
    Buffer = 6
    MaxFaults = 2
CHECK_DEADLOCK FALSE
INVARIANTS
    TypeOK
    NoMixing
    OneSave
    RoundTrip
    PairsKept
    OnlyCutFilesThrow
