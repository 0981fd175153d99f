SPECIFICATION Spec
CONSTANTS
    r1 = r1
    r2 = r2
    ClientIDs = {c1, c2}
    RedirectURIs = {u1}
    States = {st1}
    Challenges = {ch1}
    Resources = {res1}
    Scopes = {s1}
    Subjects = {alice}
    Transactions = {t1}
    ConsentTokens = {k1, k2}
    Codes = {code1, code2}
    RefreshTokens = {g1, g2}
    Families = {f1, f2}
    TicksPerSecond = 1
    UnverifiedClientTTL = 1
    MaxClients = 1
    MaxAuthorizations = 1
    MaxConsents = 2
    MaxCodes = 2
    MaxRefreshGrants = 2
    MaxRefreshGenerations = 2
    Requests = {r1, r2}
    Serves <- ServeFlowRace
    ResourceScopes <- AllScopes
    TransactionTTL = 1
    ConsentTTL = 1
    CodeTTL = 1
    RefreshTTL = 3
    MaxClock = 3
INVARIANTS
    OneTimeUse
    ClientsProtected
    AuthorizationOutlivesCode
PROPERTIES
    ImplementsLedger
SYMMETRY CredentialSymmetry
