SPECIFICATION Spec
CONSTANTS
    r1 = r1
    r2 = r2
    ClientIDs = {c1, c2}
    RedirectURIs = {u1}
    States = {st1}
    Challenges = {ch1}
    Resources = {res1}
    Scopes = {s1}
    Subjects = {alice}
    Transactions = {t1}
    ConsentTokens = {k1}
    Codes = {code1}
    RefreshTokens = {g1, g2, g3}
    Families = {f1}
    TicksPerSecond = 1
    UnverifiedClientTTL = 1
    MaxClients = 1
    MaxAuthorizations = 1
    MaxConsents = 1
    MaxCodes = 1
    MaxRefreshGrants = 1
    MaxRefreshGenerations = 3
    Requests = {r1, r2}
    Serves <- ServeAll
    ResourceScopes <- AllScopes
    TransactionTTL = 1
    ConsentTTL = 1
    CodeTTL = 1
    RefreshTTL = 3
    MaxClock = 4
INVARIANTS
    AuthorizationsProtected
SYMMETRY CredentialSymmetry
