\* One drive number and two disks one after the other, each with one or two
\* partitions.
CONSTANTS
    NDisks = 1
    PartNumbers = {1, 2}
    Offsets = {1, 2}
    Layouts <- MCLayouts
    MaxArrivals = 2
    NLetters = 2
    MaxGrabs = 1
    MaxFaults = 1
SPECIFICATION HistorySpec
INVARIANTS TypeOK KnownIsMounted AutoMount AutoUnmount SenderAliveInLoop CleanExit
PROPERTIES ListedIsMounted OnlyGoneUnmounted ImplementsLife
