SPECIFICATION Spec
INVARIANTS
    EveryRequestAnswered
CONSTANTS
    Bundled = {b}
    Loose = {l}
    Packs = {p}
    Members <- MCMembers
    Printed <- MCPrinted
    Rank <- MCRank
    Contents <- MCContents
    Manifests <- MCManifests
    Disks <- MCDisks
    Ids = {i1, i2}
    None = None
    b = b
    l = l
    p = p
    f1 = f1
    f2 = f2
    i1 = i1
    i2 = i2
    Threads = {t1}
    MaxWrites = 1
    MaxRequests = 1
CHECK_DEADLOCK FALSE
