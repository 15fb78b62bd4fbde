SPECIFICATION FairSpec
CONSTANTS
    p1 = p1
    p2 = p2
    Migrators = {p1, p2}
    Versions = {1, 2, 3, 4}
    HasUp = {1, 2, 3, 4}
    HasDown = {1, 3, 4}
    Jobs = {"up", "upTo", "down", "downTo", "refresh"}
INVARIANTS
    PrefixApplied
    SchemaMatches
PROPERTIES
    AllApplied
