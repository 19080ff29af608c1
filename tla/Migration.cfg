\* One command at a time, two that die, two edits by other commands.
SPECIFICATION Spec
CONSTANTS
    p1 = p1
    p2 = p2
    Anna = Anna
    Otto = Otto
    ref = ref
    source = source
    target = target
    Procs <- OneProc
    Agents = {Anna, Otto}
    AgentOf <- ByEach
    InPlace = {ref}
    Sources = {source}
    TargetOf <- OneRename
    Config = Config
    Receipt = Receipt
    MaxApplies = 2
    MaxEdits = 2
    MaxCrashes = 2
INVARIANTS
    BytesRecoverable
    StatusTellsFiles
PROPERTIES
    EditsKept
    RecoverySettles
CHECK_DEADLOCK FALSE
