\* One apply and one rollback, edits of the source, a changed config, two crashes.
SPECIFICATION Spec
CONSTANTS
    a1 = a1
    r1 = r1
    Appliers <- OneApplier
    Recoverers <- OneRecoverer
    Free = Free
    Bare = Bare
    Stale = Stale
    NoJournal = NoJournal
    EditedRoots = {"source"}
    MaxCrashes = 2
    MaxDrifts = 1
INVARIANTS
    SourceKept
    ResolvedRootComplete
PROPERTIES
    RecoverySettles
CHECK_DEADLOCK FALSE
