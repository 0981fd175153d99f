SPECIFICATION TokensSpec
CONSTANTS
    KeyIDs = {a, b}
    ServiceKeys = {K1, K2, K3}
    ForeignKeys = {X}
    Verifiers = {v1, v2}
    ResourceIDs = {mcp, rag}
    TicksPerSecond = 2
    AccessTTL = 3
    MaxClock = 7
    MaxTokens = 2
INVARIANTS
    TokensTypeOK
    NoTokenStranded
    AcceptedIsGenuine
SYMMETRY TokenSymmetry
