\* A snapshot of the first transaction.
CONSTANTS
    Names = {1, 2}
    FileIds = {16, 17, 18}
    FirstContent <- MCFirstContent
    MaxPieces = 1
    MaxXid = 2
    Fan = 2
    MaxHeight = 4
    MaxDepth = 2
SPECIFICATION Spec
INVARIANTS
    NewestMapping
