SPECIFICATION Spec
CONSTANTS
    Networks <- MCNetworks
    Backups <- MCBackups
    IPv4 <- MCIPv4
    Buffer = 6
    MaxFaults = 0
CHECK_DEADLOCK FALSE
INVARIANTS
    AllAddressesKept
