SPECIFICATION Spec
INVARIANTS
    TypeOK
    Fresh
    NoSilentOverride
SYMMETRY ThreadSymmetry
CONSTANTS
    Bundled = {b}
    Loose = {l}
    Packs = {p}
    Members <- MCMembers
    Printed <- MCPrinted
    Rank <- MCRank
    Contents <- MCContents
    Manifests <- MCManifests
    Disks <- MCDisks
    Ids = {i1, i2}
    None = None
    b = b
    l = l
    p = p
    f1 = f1
    f2 = f2
    i1 = i1
    i2 = i2
    Threads = {t1, t2}
    MaxWrites = 2
    MaxRequests = 3
CHECK_DEADLOCK FALSE
