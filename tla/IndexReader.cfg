\* One mutating process, one reader, and an outside edit or a crash.
SPECIFICATION Spec
CONSTANTS
    w1 = w1
    w2 = w2
    Workers = {w1, w2}
    Sources = {s1, s2}
    Nobody = Nobody
    May <- MutatorAndReader
    MaxVersions = 2
    MaxGenerations = 2
    MaxMishaps = 1
SYMMETRY Symmetry
CHECK_DEADLOCK FALSE
INVARIANTS
    TypeOK
    CacheNeverOverrides
PROPERTIES
    ValidatedWasCanonical
    HealthyNotDemoted
