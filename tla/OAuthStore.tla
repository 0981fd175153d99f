----------------------------- MODULE OAuthStore -----------------------------
(***************************************************************************)
(* The durable OAuth state of pkg/sqlitestore and its transactions, with   *)
(* the predecessor/successor checks of pkg/oauthserver/transitions.go.     *)
(*                                                                         *)
(* The store runs on one connection (SetMaxOpenConns(1)), so a transaction *)
(* is one atomic step.  Every operator below that primes variables is one  *)
(* transaction that COMMITS; a transaction that returns an error before    *)
(* its commit is rolled back, its prune included, and is a step that       *)
(* leaves the tables alone.  A table is a function from the digests (or    *)
(* ids) of its rows to the rows.                                           *)
(***************************************************************************)
EXTENDS Integers, FiniteSets, Functions

CONSTANTS
    ClientIDs, RedirectURIs, States, Challenges, Resources, Scopes, Subjects,
    Transactions, ConsentTokens, Codes, RefreshTokens,  \* credential digests
    Families,                                           \* refresh family ids
    TicksPerSecond,          \* resolution of the clock
    UnverifiedClientTTL, MaxClients, MaxAuthorizations, MaxConsents, MaxCodes,
    MaxRefreshGrants, MaxRefreshGenerations

\* Config.Validate, config.go: every limit of the state policy is positive.
ValidStatePolicy ==
    {UnverifiedClientTTL, MaxClients, MaxAuthorizations, MaxConsents, MaxCodes,
     MaxRefreshGrants, MaxRefreshGenerations} \subseteq Nat \ {0}

\* A second of Go's time.Time.
Nanoseconds == 1000000000

\* A tick is a whole number of nanoseconds, from one to a second.
ASSUME StatePolicyAssumption ==
    /\ ValidStatePolicy
    /\ TicksPerSecond \in Nat \ {0}
    /\ Nanoseconds % TicksPerSecond = 0

VARIABLES
    clock,           \* the injected Clock, in ticks
    clients,         \* oauth_clients
    authorizations,  \* oauth_authorizations
    consents,        \* oauth_consents
    codes,           \* oauth_codes
    grants           \* oauth_refresh_grants

storeVars == <<clients, authorizations, consents, codes, grants>>

-----------------------------------------------------------------------------
(* Rows.  consumed_at and revoked_at are only ever tested for NULL, so     *)
(* they are Booleans.  A principal is its subject.                         *)

Time == Int

\* What one authorization request fixes for everything derived from it.
Binding == [client : ClientIDs, redirect : RedirectURIs, state : States,
            challenge : Challenges, resource : Resources]

Client == [redirects : SUBSET RedirectURIs, scopes : SUBSET Scopes,
           lastUsed : Time]

Authorization == [binding : Binding, scopes : SUBSET Scopes,
                  expires : Time, consumed : BOOLEAN]

Consent == [binding : Binding, subject : Subjects, scopes : SUBSET Scopes,
            ends : Time, expires : Time, consumed : BOOLEAN]

Code == Consent

Grant == [family : Families, generation : Nat, client : ClientIDs,
          subject : Subjects, resource : Resources, scopes : SUBSET Scopes,
          expires : Time, consumed : BOOLEAN, revoked : BOOLEAN]

IsTable(f, keys, Row) == DOMAIN f \subseteq keys /\ f \in [DOMAIN f -> Row]

StoreTypeOK ==
    /\ clock \in Nat
    /\ IsTable(clients, ClientIDs, Client)
    /\ IsTable(authorizations, Transactions, Authorization)
    /\ IsTable(consents, ConsentTokens, Consent)
    /\ IsTable(codes, Codes, Code)
    /\ IsTable(grants, RefreshTokens, Grant)

EmptyTable == [key \in {} |-> key]

StoreInit ==
    /\ clock = 0
    /\ clients = EmptyTable
    /\ authorizations = EmptyTable
    /\ consents = EmptyTable
    /\ codes = EmptyTable
    /\ grants = EmptyTable

Insert(table, key, row) ==
    [k \in DOMAIN table \cup {key} |-> IF k = key THEN row ELSE table[k]]

Consume(table, key) == [table EXCEPT ![key].consumed = TRUE]

-----------------------------------------------------------------------------
(* Time.  Go compares instants (After).  SQL compares their RFC3339Nano    *)
(* texts, in which a fraction of a second has up to nine digits, none of   *)
(* them a trailing zero, and is left out with its point when it is zero.   *)
(* The texts of one second end in 'Z', which sorts after '.' and after     *)
(* every digit: a fraction whose digits continue those of another one is   *)
(* later in time and sorts first ("00.51Z", "00.5Z", "00Z").               *)

Second(t) == t \div TicksPerSecond

Fraction(t) == (t % TicksPerSecond) * (Nanoseconds \div TicksPerSecond)

PowersOfTen == {10^k : k \in 0 .. 9}

\* The digits of g continue those of f: f ends at the place of digit.
Continues(g, f) ==
    f < g /\ \E digit \in PowersOfTen : f % digit = 0 /\ g < f + digit

FractionAfter(f, g) == Continues(g, f) \/ (f > g /\ ~Continues(f, g))

TextAfter(t, u) ==
    \/ Second(t) > Second(u)
    \/ Second(t) = Second(u) /\ FractionAfter(Fraction(t), Fraction(u))

\* Mutant: the cutoff is one tick late, rows go before they expire.
PruneRowsEarly(table) ==
    Restrict(table, {d \in DOMAIN table : TextAfter(table[d].expires, clock + 1)})

\* pruneTx on the tables whose rows expire one by one.
PruneRows(table) ==
    Restrict(table, {d \in DOMAIN table : TextAfter(table[d].expires, clock)})

\* Mutant: spent grants are deleted with the expired families.
PruneFamiliesAndSpent(table) ==
    Restrict(table, {d \in DOMAIN table :
                       /\ ~table[d].consumed
                       /\ \E e \in DOMAIN table :
                            /\ table[e].family = table[d].family
                            /\ TextAfter(table[e].expires, clock)})

\* Mutant: the cutoff of the families is one second late.
PruneFamiliesEarly(table) ==
    Restrict(table, {d \in DOMAIN table :
                       \E e \in DOMAIN table :
                         /\ table[e].family = table[d].family
                         /\ TextAfter(table[e].expires, clock + TicksPerSecond)})

\* pruneTx on refresh grants: a family goes when its latest expiry has passed.
PruneFamilies(table) ==
    Restrict(table, {d \in DOMAIN table :
                       \E e \in DOMAIN table :
                         /\ table[e].family = table[d].family
                         /\ TextAfter(table[e].expires, clock)})

\* Mutant: the subquery on codes is missing.
ReferencedWithoutCodes(auths, cons, cods, grs) ==
    {auths[d].binding.client : d \in
        {d \in DOMAIN auths : ~auths[d].consumed /\ TextAfter(auths[d].expires, clock)}}
    \cup
    {cons[d].binding.client : d \in
        {d \in DOMAIN cons : ~cons[d].consumed /\ TextAfter(cons[d].expires, clock)}}
    \cup
    {grs[d].client : d \in
        {d \in DOMAIN grs : ~grs[d].revoked /\ TextAfter(grs[d].expires, clock)}}

\* The clients that the subquery of pruneClientsTx protects from eviction.
Referenced(auths, cons, cods, grs) ==
    {auths[d].binding.client : d \in
        {d \in DOMAIN auths : ~auths[d].consumed /\ TextAfter(auths[d].expires, clock)}}
    \cup
    {cons[d].binding.client : d \in
        {d \in DOMAIN cons : ~cons[d].consumed /\ TextAfter(cons[d].expires, clock)}}
    \cup
    {cods[d].binding.client : d \in
        {d \in DOMAIN cods : ~cods[d].consumed /\ TextAfter(cods[d].expires, clock)}}
    \cup
    {grs[d].client : d \in
        {d \in DOMAIN grs : ~grs[d].revoked /\ TextAfter(grs[d].expires, clock)}}

\* pruneClientsTx: idle clients that nothing references are evicted.  Every
\* registered client has Trust = unverified.
RetainedClients(auths, cons, cods, grs) ==
    Restrict(clients, {c \in DOMAIN clients :
        \/ TextAfter(clients[c].lastUsed, clock - UnverifiedClientTTL)
        \/ c \in Referenced(auths, cons, cods, grs)})

\* Mutant: spent grants of the family are skipped.
RevokeUnspentRows(table, family) ==
    [d \in DOMAIN table |->
        IF table[d].family = family /\ ~table[d].consumed
        THEN [table[d] EXCEPT !.revoked = TRUE]
        ELSE table[d]]

RevokeRows(table, family) ==
    [d \in DOMAIN table |->
        IF table[d].family = family THEN [table[d] EXCEPT !.revoked = TRUE]
                                    ELSE table[d]]

-----------------------------------------------------------------------------
(* transitions.go: when a successor may replace the stored predecessor.    *)

ValidateLoginCommit(auth, consent) ==
    /\ ~auth.consumed
    /\ auth.expires > clock
    /\ consent.binding = auth.binding
    /\ consent.scopes \subseteq auth.scopes
    /\ consent.ends > clock
    /\ consent.expires > clock

ValidateConsentCommit(consent) ==
    /\ ~consent.consumed
    /\ consent.expires > clock

ValidateApprovedCode(consent, code) ==
    /\ code.binding = consent.binding
    /\ code.subject = consent.subject
    /\ code.scopes \subseteq consent.scopes
    /\ code.ends = consent.ends
    /\ code.expires > clock

\* Mutant: consumed_at is not looked at.
ValidateSpentCodeExchange(code, refresh) ==
    /\ code.expires > clock
    /\ refresh.generation = 0
    /\ refresh.client = code.binding.client
    /\ refresh.subject = code.subject
    /\ refresh.resource = code.binding.resource
    /\ refresh.scopes = code.scopes
    /\ refresh.expires = code.ends
    /\ refresh.expires > clock
    /\ ~refresh.consumed /\ ~refresh.revoked

ValidateCodeExchangeCommit(code, refresh) ==
    /\ ~code.consumed
    /\ code.expires > clock
    /\ refresh.generation = 0
    /\ refresh.client = code.binding.client
    /\ refresh.subject = code.subject
    /\ refresh.resource = code.binding.resource
    /\ refresh.scopes = code.scopes
    /\ refresh.expires = code.ends
    /\ refresh.expires > clock
    /\ ~refresh.consumed /\ ~refresh.revoked

ValidateRefreshRotation(current, next) ==
    /\ ~current.revoked
    /\ ~current.consumed
    /\ current.expires > clock
    /\ next.family = current.family
    /\ next.generation = current.generation + 1
    /\ next.client = current.client
    /\ next.subject = current.subject
    /\ next.resource = current.resource
    /\ next.scopes \subseteq current.scopes
    /\ next.expires = current.expires
    /\ ~next.consumed /\ ~next.revoked

-----------------------------------------------------------------------------
(* The reads.  Each is one query outside any transaction; its answer is    *)
(* the set of the rows found, and a missing row is ErrNotFound.            *)

Found(table, key) == {table[k] : k \in DOMAIN table \cap {key}}

GetClient(id) == Found(clients, id)

GetAuthorization(d) == Found(authorizations, d)

GetConsent(d) == Found(consents, d)

GetCodeForExchange(d, client, redirect) ==
    {code \in Found(codes, d) :
        code.binding.client = client /\ code.binding.redirect = redirect}

GetRefreshGrant(d) == Found(grants, d)

-----------------------------------------------------------------------------
(* The transactions.                                                       *)

\* Mutant: clients are evicted without the prune that precedes it.
RegisterClientUnpruned(id, client) ==
    LET kept == RetainedClients(authorizations, consents, codes, grants)
    IN  /\ Cardinality(DOMAIN kept) < MaxClients
        /\ clients' = Insert(kept, id, client)
        /\ UNCHANGED <<authorizations, consents, codes, grants>>

RegisterClient(id, client) ==
    LET auths == PruneRows(authorizations)
        cons  == PruneRows(consents)
        cods  == PruneRows(codes)
        grs   == PruneFamilies(grants)
        kept  == RetainedClients(auths, cons, cods, grs)
    IN  /\ Cardinality(DOMAIN kept) < MaxClients
        /\ clients' = Insert(kept, id, client)
        /\ authorizations' = auths
        /\ consents' = cons
        /\ codes' = cods
        /\ grants' = grs

TouchClient(id, at) ==
    /\ id \in DOMAIN clients
    /\ clients' = [clients EXCEPT ![id].lastUsed = at]
    /\ UNCHANGED <<authorizations, consents, codes, grants>>

CreateAuthorization(d, authorization) ==
    LET auths == PruneRows(authorizations)
    IN  /\ Cardinality(DOMAIN auths) < MaxAuthorizations
        /\ authorizations' = Insert(auths, d, authorization)
        /\ consents' = PruneRows(consents)
        /\ codes' = PruneRows(codes)
        /\ grants' = PruneFamilies(grants)
        /\ UNCHANGED clients

\* Mutant: the consent is stored under the digest of the transaction.
CommitLoginUnderTransaction(d, t, consent) ==
    LET auths == PruneRows(authorizations)
        cons  == PruneRows(consents)
    IN  /\ d \in DOMAIN auths
        /\ ValidateLoginCommit(auths[d], consent)
        /\ Cardinality(DOMAIN cons) < MaxConsents
        /\ consents' = Insert(cons, d, consent)
        /\ authorizations' = Consume(auths, d)
        /\ codes' = PruneRows(codes)
        /\ grants' = PruneFamilies(grants)
        /\ UNCHANGED clients

CommitLogin(d, t, consent) ==
    LET auths == PruneRows(authorizations)
        cons  == PruneRows(consents)
    IN  /\ d \in DOMAIN auths
        /\ ValidateLoginCommit(auths[d], consent)
        /\ Cardinality(DOMAIN cons) < MaxConsents
        /\ consents' = Insert(cons, t, consent)
        /\ authorizations' = Consume(auths, d)
        /\ codes' = PruneRows(codes)
        /\ grants' = PruneFamilies(grants)
        /\ UNCHANGED clients

\* CommitConsent with ConsentDecisionApprove.
CommitApproval(d, t, code) ==
    LET cons == PruneRows(consents)
        cods == PruneRows(codes)
    IN  /\ d \in DOMAIN cons
        /\ ValidateConsentCommit(cons[d])
        /\ ValidateApprovedCode(cons[d], code)
        /\ Cardinality(DOMAIN cods) < MaxCodes
        /\ codes' = Insert(cods, t, code)
        /\ consents' = Consume(cons, d)
        /\ authorizations' = PruneRows(authorizations)
        /\ grants' = PruneFamilies(grants)
        /\ UNCHANGED clients

\* CommitConsent with ConsentDecisionDeny.
CommitDenial(d) ==
    LET cons == PruneRows(consents)
    IN  /\ d \in DOMAIN cons
        /\ ValidateConsentCommit(cons[d])
        /\ consents' = Consume(cons, d)
        /\ authorizations' = PruneRows(authorizations)
        /\ codes' = PruneRows(codes)
        /\ grants' = PruneFamilies(grants)
        /\ UNCHANGED clients

Active(table) == {d \in DOMAIN table : ~table[d].consumed /\ ~table[d].revoked}

\* Mutant: admission compares with =< instead of <.
CommitCodeExchangeOffByOne(d, t, refresh) ==
    LET cods == PruneRows(codes)
        grs  == PruneFamilies(grants)
    IN  /\ d \in DOMAIN cods
        /\ ValidateCodeExchangeCommit(cods[d], refresh)
        /\ Cardinality(Active(grs)) =< MaxRefreshGrants
        /\ grants' = Insert(grs, t, refresh)
        /\ codes' = Consume(cods, d)
        /\ authorizations' = PruneRows(authorizations)
        /\ consents' = PruneRows(consents)
        /\ UNCHANGED clients

CommitCodeExchange(d, t, refresh) ==
    LET cods == PruneRows(codes)
        grs  == PruneFamilies(grants)
    IN  /\ d \in DOMAIN cods
        /\ ValidateCodeExchangeCommit(cods[d], refresh)
        /\ Cardinality(Active(grs)) < MaxRefreshGrants
        /\ grants' = Insert(grs, t, refresh)
        /\ codes' = Consume(cods, d)
        /\ authorizations' = PruneRows(authorizations)
        /\ consents' = PruneRows(consents)
        /\ UNCHANGED clients

\* A grant decoded from its payload: consumed_at and revoked_at are columns
\* that decodeRefresh does not read.
decodeRefresh(row) == [row EXCEPT !.consumed = FALSE, !.revoked = FALSE]

\* CommitRefreshRotation for a current grant that is spent or revoked: the
\* family is revoked, and that revocation is committed.
RotationOfSpentGrant(d, family, generation) ==
    LET grs == PruneFamilies(grants)
    IN  /\ d \in DOMAIN grs
        /\ grs[d].family = family /\ grs[d].generation = generation
        /\ grs[d].consumed \/ grs[d].revoked
        /\ grants' = RevokeRows(grs, family)

\* CommitRefreshRotation of a family at its generation limit: it is revoked.
RotationPastLimit(d, family, generation, next) ==
    LET grs == PruneFamilies(grants)
    IN  /\ d \in DOMAIN grs
        /\ grs[d].family = family /\ grs[d].generation = generation
        /\ ~grs[d].consumed /\ ~grs[d].revoked
        /\ ValidateRefreshRotation(decodeRefresh(grs[d]), next)
        /\ next.generation >= MaxRefreshGenerations
        /\ grants' = RevokeRows(grs, family)

\* Mutant: the lifetime of the family slides with every rotation.
RotationExtendsLifetime(d, family, generation, t, next) ==
    LET grs == PruneFamilies(grants)
    IN  /\ d \in DOMAIN grs
        /\ grs[d].family = family /\ grs[d].generation = generation
        /\ ~grs[d].consumed /\ ~grs[d].revoked
        /\ ValidateRefreshRotation(decodeRefresh(grs[d]), next)
        /\ next.generation < MaxRefreshGenerations
        /\ grants' = Insert(Consume(grs, d), t, [next EXCEPT !.expires = @ + 1])

\* Mutant: the current grant is not marked spent.
RotationWithoutConsume(d, family, generation, t, next) ==
    LET grs == PruneFamilies(grants)
    IN  /\ d \in DOMAIN grs
        /\ grs[d].family = family /\ grs[d].generation = generation
        /\ ~grs[d].consumed /\ ~grs[d].revoked
        /\ ValidateRefreshRotation(decodeRefresh(grs[d]), next)
        /\ next.generation < MaxRefreshGenerations
        /\ grants' = Insert(grs, t, next)

\* Mutant: the generation limit is compared with > instead of >=.
RotationBeyondLimit(d, family, generation, t, next) ==
    LET grs == PruneFamilies(grants)
    IN  /\ d \in DOMAIN grs
        /\ grs[d].family = family /\ grs[d].generation = generation
        /\ ~grs[d].consumed /\ ~grs[d].revoked
        /\ ValidateRefreshRotation(decodeRefresh(grs[d]), next)
        /\ ~(next.generation > MaxRefreshGenerations)
        /\ grants' = Insert(Consume(grs, d), t, next)

\* Mutant: revoked_at of the current grant is not looked at.
RotationOfRevokedGrant(d, family, generation, t, next) ==
    LET grs == PruneFamilies(grants)
    IN  /\ d \in DOMAIN grs
        /\ grs[d].family = family /\ grs[d].generation = generation
        /\ ~grs[d].consumed
        /\ ValidateRefreshRotation(decodeRefresh(grs[d]), next)
        /\ next.generation < MaxRefreshGenerations
        /\ grants' = Insert(Consume(grs, d), t, next)

\* CommitRefreshRotation that replaces grant d by its successor t.  There is
\* no admission check: the number of active grants does not change.
RotationToSuccessor(d, family, generation, t, next) ==
    LET grs == PruneFamilies(grants)
    IN  /\ d \in DOMAIN grs
        /\ grs[d].family = family /\ grs[d].generation = generation
        /\ ~grs[d].consumed /\ ~grs[d].revoked
        /\ ValidateRefreshRotation(decodeRefresh(grs[d]), next)
        /\ next.generation < MaxRefreshGenerations
        /\ grants' = Insert(Consume(grs, d), t, next)

\* The rest of the prune that every branch of CommitRefreshRotation commits.
PruneBesidesGrants ==
    /\ authorizations' = PruneRows(authorizations)
    /\ consents' = PruneRows(consents)
    /\ codes' = PruneRows(codes)
    /\ UNCHANGED clients

RevokeRefreshFamily(family) ==
    /\ grants' = RevokeRows(grants, family)
    /\ UNCHANGED <<clients, authorizations, consents, codes>>

Prune ==
    /\ grants' = PruneFamilies(grants)
    /\ PruneBesidesGrants
=============================================================================
