SPECIFICATION LabSpec
CONSTANTS
    LabOf <- PoolLabs
    Octet = 8
    Abbrevs <- MCAbbrevs
    PortPrefixes <- MCPrefixes
    PageLength = 24
    NoRules = norules
    NoSession = nosession
    TypedLines <- PoolTyping
    MaxResets = 0
    SessionIds = {"s1"}
    Threads = {t1}
    Configs <- MCConfigs
    MaxCalls = 0
PROPERTY ExcludedNeverLeased
CHECK_DEADLOCK FALSE
