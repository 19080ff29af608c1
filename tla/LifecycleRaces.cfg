\* Two processes whose reads and writes of a child and its parent interleave, and
\* one of which may die.
SPECIFICATION Spec
CONSTANTS
    Items = {feature, task}
    epic = epic
    feature = feature
    task = task
    Workers = {w1, w2}
    None = None
    Nobody = Nobody
    TypeOf <- Kinds
    FirstParent <- Chain
    Commands = {"update", "transition", "note", "remap"}
    Aims = {"Ready", "InProgress"}
    Syncs = {TRUE}
    MaxLog = 2
    MaxCrashes = 1
SYMMETRY Symmetry
INVARIANTS LogExplainsState GatesHold ParentsAcyclic
PROPERTY WorklogAppendOnly
CHECK_DEADLOCK FALSE
