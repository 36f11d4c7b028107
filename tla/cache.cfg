SPECIFICATION Spec
CONSTANTS
    http = http
    regexp = regexp
    default = default
    other = other
    small = small
    big = big
    p1 = p1
    p2 = p2
    None = None
    Keys <- TwoKeys
    Ids <- TwoIds
    Slots <- UsedSlots
    Estimates <- Ones
    Bodies <- TwoBodies
    Size <- Sizes
    Procs <- TwoProcs
    BootConfigs <- Boot
    Registered <- FromRegistry
    Reconfigs <- Tightened
    Default = default
    RegexpKey = regexp
    RecordIds <- ThreeRecords
    Faults <- AllFaults
    MaxStripped = 1
SYMMETRY Symmetry
INVARIANTS TypeOK DiskIsSound CountersExact
PROPERTY LimitsHold
CHECK_DEADLOCK FALSE
