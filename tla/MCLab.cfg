SPECIFICATION LabSpec
CONSTANTS
    LabOf <- MCLabs
    Octet = 8
    Abbrevs <- MCAbbrevs
    PortPrefixes <- MCPrefixes
    PageLength = 24
    NoRules = norules
    NoSession = nosession
    TypedLines <- MCLines
    MaxResets = 1
    SessionIds = {"s1"}
    Threads = {t1}
    Configs <- MCConfigs
    MaxCalls = 4
INVARIANTS
    LinkProtocol
    LeaseUnique
    CtxOnlyInMode
    L2Symmetric
    ResultIsCurrent
    GradedInOrder
PROPERTIES
    ReplayRebuilds
    LeaseIsFree
CHECK_DEADLOCK FALSE
