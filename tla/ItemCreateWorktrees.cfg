\* Two worktrees of one repository, a creator in each, one key.
SPECIFICATION Spec
CONSTANTS
    r1 = r1
    r2 = r2
    c1 = c1
    c2 = c2
    Roots = {r1, r2}
    Clients = {c1, c2}
    Keys = {k1}
    Payloads = {p1}
    NoKey = NoKey
    NoPayload = NoPayload
    Nobody = Nobody
    Common = Common
    Shared = TRUE
    RootOf <- OneRootEach
    MaxNumber = 2
    MaxCrashes = 1
    MaxArrivals = 0
    Environment = {"merge", "trash", "discard"}
CHECK_DEADLOCK FALSE
INVARIANTS
    UniqueIds
    OneItemPerKey
    RetriesAgree
    OneWriterPerNumber
PROPERTIES
    CommittedNeverRewritten
