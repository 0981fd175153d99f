SPECIFICATION ConformanceSpec
CONSTANTS
    ClientIDs = {c1, c2}
    RedirectURIs = {u1}
    States = {st1}
    Challenges = {ch1}
    Resources = {res1}
    Scopes = {}
    Subjects = {alice}
    Transactions = {t1}
    ConsentTokens = {k1}
    Codes = {code1, code2}
    RefreshTokens = {g1, g2}
    Families = {f1}
    TicksPerSecond = 1
    UnverifiedClientTTL = 1
    MaxClients = 1
    MaxAuthorizations = 2
    MaxConsents = 1
    MaxCodes = 2
    MaxRefreshGrants = 1
    MaxRefreshGenerations = 2
    ShortTTL = 1
    LongTTL = 2
    MaxClock = 3
INVARIANTS
    AnswersAgree
    ReadsAgree
