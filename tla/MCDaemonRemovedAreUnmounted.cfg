\* One drive number, no I/O errors: what main.rs:237 says, and a daemon that does otherwise.
CONSTANTS
    NDisks = 1
    PartNumbers = {1}
    Offsets = {1}
    Layouts <- MCOneVolume
    MaxArrivals = 2
    NLetters = 1
    MaxGrabs = 0
    MaxFaults = 0
SPECIFICATION HistorySpec
INVARIANT RemovedAreUnmounted
