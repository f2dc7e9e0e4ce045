\* One drive number, two partitions, three disks one after the other, two letters
\* of which another program may hold one or both.
CONSTANTS
    NDisks = 1
    PartNumbers = {1, 2}
    Offsets = {1, 2}
    Layouts <- MCLayouts
    MaxArrivals = 3
    NLetters = 2
    MaxGrabs = 1
    MaxFaults = 1
SPECIFICATION Spec
INVARIANTS HandlesAgree
