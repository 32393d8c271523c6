CONSTANTS
    Pid = {p1, p2}
    Pipe = {q1, q2}
    Shell = shell
    NoChild = none
    Lines <- InterruptLines
    PipeCap = 1
    Items = 1
    MaxLeft = 2
    MaxInterrupts = 1
    MallocFails = TRUE
SPECIFICATION Spec
INVARIANTS
    SigchldWindow
    PipesClosed
    OneLeftBehind
PROPERTIES
    DoesJobsWithoutPipes
SYMMETRY PidSymmetry
CHECK_DEADLOCK FALSE
