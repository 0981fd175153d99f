SPECIFICATION HTTPSpec
CONSTANTS
    r1 = r1
    r2 = r2
    ClientIDs = {c1, c2}
    RedirectURIs = {u1, u2}
    States = {st1}
    Challenges = {ch1}
    Resources = {res1}
    Scopes = {}
    Subjects = {alice}
    Transactions = {t1}
    ConsentTokens = {k1}
    Codes = {code1}
    RefreshTokens = {g1, g2}
    Families = {f1}
    TicksPerSecond = 1
    UnverifiedClientTTL = 1
    MaxClients = 1
    MaxAuthorizations = 1
    MaxConsents = 1
    MaxCodes = 1
    MaxRefreshGrants = 1
    MaxRefreshGenerations = 2
    Requests = {r1, r2}
    Serves <- ServeHTTP
    ResourceScopes <- AllScopes
    TransactionTTL = 1
    ConsentTTL = 1
    CodeTTL = 1
    RefreshTTL = 3
    MaxClock = 3
INVARIANTS
    HTTPTypeOK
    RevocationIsFinal
    HeldIsUsable
    RedirectsAreRegistered
PROPERTIES
    InvalidGrantMeansDead
SYMMETRY CredentialSymmetry
