\* One command at a time, two that die, one write by another command.
SPECIFICATION Spec
CONSTANTS
    p1 = p1
    item = item
    reader = reader
    Procs <- OneProc
    Moved = {item}
    Mentions = {reader}
    MaxApplies = 3
    MaxEdits = 1
    MaxCrashes = 2
INVARIANTS
    NothingLost
    OldIdResolves
    StatusTellsFiles
PROPERTIES
    RecoverySettles
CHECK_DEADLOCK FALSE
