\* One server beside one item command; one of them dies.
SPECIFICATION Spec
CONSTANTS
    s1 = s1
    c1 = c1
    Servers <- OneServer
    Commands <- OneCommand
    Decisions = {"mark_done", "reopen_work", "request_evidence"}
    MaxRequests = 2
    MaxEdits = 1
    MaxTime = 1
    MaxCrashes = 1
INVARIANTS
    LineHasRecord
    RecordsAreTrue
    OwnDecisionIsShown
PROPERTIES
    PolicySawTheFile
CHECK_DEADLOCK FALSE
