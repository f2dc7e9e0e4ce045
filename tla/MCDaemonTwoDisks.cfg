\* Two drive numbers and two disks with one partition each, and the temporal
\* properties.
CONSTANTS
    NDisks = 2
    PartNumbers = {1}
    Offsets = {1}
    Layouts <- MCOneVolume
    MaxArrivals = 2
    NLetters = 2
    MaxGrabs = 0
    MaxFaults = 1
SPECIFICATION HistorySpec
INVARIANT CleanScanMountsAll
PROPERTIES StopIsHonoured Settles
