\* One apply, one rollback, one of which dies.
SPECIFICATION Spec
CONSTANTS
    p1 = p1
    item = item
    reader = reader
    Procs <- OneProc
    Moved = {item}
    Mentions = {reader}
    MaxApplies = 1
    MaxEdits = 0
    MaxCrashes = 1
INVARIANT
    InterruptionShows
CHECK_DEADLOCK FALSE
