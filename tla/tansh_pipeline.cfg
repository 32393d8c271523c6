CONSTANTS
    Pid = {p1, p2, p3}
    Pipe = {q1, q2, q3, q4, q5, q6}
    Shell = shell
    NoChild = none
    Lines <- PipeLines
    PipeCap = 1
    Items = 2
    MaxLeft = 0
    MaxInterrupts = 0
    MallocFails = FALSE
SPECIFICATION FairSpec
INVARIANTS
    PipeHandedOver
    NoForeignHolders
    NoSecondShell
PROPERTIES
    ProgramsEnd
