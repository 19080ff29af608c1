\* A process that removes, rebuilds and so diagnoses beside one that writes.
SPECIFICATION Spec
CONSTANTS
    w1 = w1
    w2 = w2
    Workers = {w1, w2}
    Sources = {s1, s2}
    Nobody = Nobody
    May <- RemoverAndWriter
    MaxVersions = 2
    MaxGenerations = 2
    MaxMishaps = 0
SYMMETRY Symmetry
CHECK_DEADLOCK FALSE
INVARIANTS
    ReadyIsCanonical
    RevisionNamesOneContent
PROPERTIES
    PublishedWasCanonical
