SPECIFICATION Spec
CONSTANTS
    nicA = nicA
    nicB = nicB
    ipX = ipX
    ipY = ipY
    dirP = dirP
    dirQ = dirQ
    Dhcp = Dhcp
    Leased = Leased
    NoDir = NoDir
    NoFile = NoFile
    Nics <- OneNic
    Statics <- TwoStatics
    Dirs <- TwoDirs
INVARIANTS
    TypeOK
    UpgradeNeverWrong
    RestoredStays
    
