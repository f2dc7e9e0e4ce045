\* Two threads and a cache that holds less than the volume has.
CONSTANTS
    Threads = {t1, t2}
    NoThread = NoThread
    Dirs = {"root"}
    Root = "root"
    FilePaths = {"a", "b"}
    AbsentPaths = {"x"}
    Listing <- MCListing
    Inodes <- MCInodes
    BufferSizes = {3, 4, 5}
    Half = 128
    Epoch = 40
    Interval = 5
    Cluster = 4
    Capacity = 2
    MaxCalls = 5
    MaxFaults = 1
SPECIFICATION Spec
INVARIANTS TypeOK OpenFilesAreReadable AnswersAreRight ListingIsWhole
PROPERTIES ResolvedStays CallbacksReturn
