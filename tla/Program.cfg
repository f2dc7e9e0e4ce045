\* Four rounds of the wait.
CONSTANT Timeout = 4
SPECIFICATION Spec
INVARIANTS
    ProgramTypeOK
    RunningMeansServed
PROPERTIES
    StopIsReported
    StartIsAnswered
    CtrlCEndsIt
    UninstallEndsIt
