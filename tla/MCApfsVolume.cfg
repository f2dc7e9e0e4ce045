\* Eight records in the first catalog; two transactions more.
CONSTANTS
    Names = {1, 2}
    FileIds = {16, 17, 18}
    FirstContent <- MCFirstContent
    MaxPieces = 1
    MaxXid = 3
    Fan = 2
    MaxHeight = 4
    MaxDepth = 2
SPECIFICATION Spec
INVARIANTS
    TypeOK
    OpensTheLastCommit
    AnswersAreTrue
    WalkIsComplete
    NoLieOverABadBlock
