CONSTANTS
    Pid = {p1, p2}
    Pipe = {q1, q2, q3, q4}
    Shell = shell
    NoChild = none
    Lines <- JobLines
    PipeCap = 1
    Items = 2
    MaxLeft = 2
    MaxInterrupts = 0
    MallocFails = FALSE
SPECIFICATION FairSpec
INVARIANTS
    TypeOK
    ForegroundDone
PROPERTIES
    PromptReturns
    DoesJobs
