\* Sectors of 2 bytes, blocks of 4, two threads.  The partition begins at an odd
\* place, so that its reads are not aligned either.
CONSTANTS
    Threads = {t1, t2}
    None = None
    Handles = {"volume", "raw"}
    DiskSize = 14
    SectorSize = 2
    BlockSize = 4
    PartitionOffset = 1
    StartOf <- MCStartOf
    Files <- MCFiles
    Records <- MCRecords
    FileSize <- MCFileSize
    Ranges <- MCRanges
    BlockLists <- MCBlockLists
SPECIFICATION Spec
INVARIANTS TypeOK OneCallPerHandle ReadIsExact ReadIsWhole
PROPERTIES LocksAreReleased IsByteStream
