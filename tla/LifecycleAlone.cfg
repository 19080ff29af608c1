\* One process at a time, which may die: the order of the writes of a command.
SPECIFICATION Spec
CONSTANTS
    Items = {feature, task}
    epic = epic
    feature = feature
    task = task
    Workers = {w1}
    None = None
    Nobody = Nobody
    TypeOf <- Kinds
    FirstParent <- Chain
    Commands = {"update", "note", "trash"}
    Aims = {"Ready", "InProgress", "Review", "Done", "Blocked", "Dropped", "Duplicate"}
    Syncs = {TRUE}
    MaxLog = 3
    MaxCrashes = 1
INVARIANT ActiveChildHasStartedParent
CHECK_DEADLOCK FALSE
