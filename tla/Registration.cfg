\* Two plans, two processes: an edit, a drift of the config, a crash, a reused pid.
SPECIFICATION Spec
CONSTANTS
    Procs = {p1, p2}
    Products = {a, b}
    Free = Free
    Dead = Dead
    Reused = Reused
    NoPlan = NoPlan
    MaxAttempts = 3
    MaxPlans = 2
    MaxEdits = 1
    MaxDrifts = 1
    MaxCrashes = 1
    MaxReuses = 1
CHECK_DEADLOCK FALSE
INVARIANTS
    LockIsHeld
    EvidenceFirst
    AppliedUnlessRival
PROPERTIES
    AppliedIsTerminal
    OthersKept
    InterruptedIsCompleted
