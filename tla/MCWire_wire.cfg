SPECIFICATION FairSpec
CONSTANTS
    Devices <- MCDevices
    LongBits = {32, 64}
INVARIANTS TypeOK InStep MadeAsDescribed
PROPERTY WholeArrives
CHECK_DEADLOCK FALSE
