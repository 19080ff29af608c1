\* One checkout outside Git: two creators, an item from another clone, remaps.
SPECIFICATION Spec
CONSTANTS
    r1 = r1
    r2 = r2
    c1 = c1
    c2 = c2
    Roots = {r1}
    Clients = {c1, c2}
    Keys = {k1}
    Payloads = {p1}
    NoKey = NoKey
    NoPayload = NoPayload
    Nobody = Nobody
    Common = Common
    Shared = FALSE
    RootOf <- AllInOne
    MaxNumber = 2
    MaxCrashes = 1
    MaxArrivals = 1
    Environment = {"arrive", "remap"}
CHECK_DEADLOCK FALSE
INVARIANT
    IInv
PROPERTY
    ImplementsCreateOnce
