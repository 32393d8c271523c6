CONSTANTS
    Pid = {p1, p2}
    Pipe = {q1}
    Shell = shell
    NoChild = none
    Lines <- ZombieLines
    PipeCap = 1
    Items = 0
    MaxLeft = 2
    MaxInterrupts = 0
    MallocFails = FALSE
SPECIFICATION Spec
INVARIANTS
    ZombiesReaped
