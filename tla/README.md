# oh-auth: a TLA+ verification project

This directory models the OAuth authorization server of `pkg/oauthserver` on its
SQLite store `pkg/sqlitestore`, behind the HTTP handlers of `pkg/httptransport`, with
the access tokens of `pkg/jwttokens` and the in-memory store of `pkg/memorytest`. TLC
checks the models on small instances; TLAPS proves every safety property that the passing
runs check, for every value of the constants.

## 1. The system

oh-auth is a Go library. A host process builds an `Engine`, gives it a store, an
identity revalidator, a scope policy, a token signer, a source of secrets and a
clock, and mounts the HTTP transport. Requests run concurrently, one goroutine
each; the engine holds no lock and keeps no state. All shared state is in the
store, whose single connection (`SetMaxOpenConns(1)`) makes each transaction
atomic. An engine operation is a sequence of store calls with nothing held
between them.

| Component | State | Operations | Talks to |
|---|---|---|---|
| engine (`oauthserver/engine.go`) | none | RegisterClient, BeginAuthorization, CompleteLogin, ConsentView, DecideConsent, ExchangeCode, Refresh, Revoke | store, secrets, clock, revalidator, scope policy, signer, audit |
| validators (`oauthserver/transitions.go`) | none | ValidateLoginCommit, ValidateConsentCommit, ValidateCodeExchangeCommit, ValidateRefreshRotation | called inside the store's transactions |
| store (`sqlitestore/store.go`) | tables of clients, authorizations, consents, codes, refresh grants; schema version | one transaction per `Store` method; `Prune`; `migrate` at open; `Diagnostics` | SQLite |
| memory store (`memorytest`) | the same, in maps | the same | tests only |
| HTTP transport (`httptransport`) | none | one handler per endpoint | engine |
| JWT tokens (`jwttokens`) | keys | IssueAccessToken, VerifyAccessToken, JWKS | engine, resource servers |
| resource helpers (`oauthresource`), correlation ids | none | formatting, header parsing | hosts |
| configuration, scopes, identifiers, registry, secrets, errors (`oauthserver`) | none | validation and set operations | engine |

An authorization passes through four one-time credentials:

    client --BeginAuthorization--> transaction --CompleteLogin--> consent
           --DecideConsent--> code --ExchangeCode--> refresh grant (generation 0)
           --Refresh--> refresh grant (generation 1) --Refresh--> ...

**What is hard here.** Reads and commits of an operation are separate store calls,
so what was read may be stale; a credential may be presented by several requests at
once; a rotation may race a revocation of its family; registration of one client
evicts idle clients while others are in use; every commit first prunes; a transaction
may commit a revocation and *then* report an error; timestamps are compared as
instants in Go and as text in SQL; the process may die between any two store calls; an
answer may be lost after the commit it reports; what a client does next depends on which
of the errors it is told; the processes that sign and verify tokens learn of a new key at
different times.
`hazards` in `PROJECT.json` lists these at their lines.

**What makes it correct.** The design document lists the rules: every one-time
credential advances the flow at most once, authority only narrows, state is bounded
and is deleted only when its life is over, replay of a refresh token is detected and
ends the family, and clients in use are not evicted. Towards the caller, a failure that
is the server's is not reported as the caller's.

## 2. The modules

| Module | Contents |
|---|---|
| `OAuthStore` | the five tables, the clock, the SQL text order of timestamps, pruning, the validators, the reads, and one operator per committing transaction |
| `StoreAnswers` | the error that each transaction returns, in the order of its checks |
| `OAuthEngine` | the engine operations as interleaved requests, one action per store call; failures, crash and restart, the host's `Prune`, the clock; `Spec` |
| `OAuthRequirements` | the safety properties of the engine |
| `OAuthInvariant` | the inductive invariant behind them |
| `OAuthLiveness` | `FairSpec`, and that full tables drain and admit again |
| `AuthorizationLedger` | the abstract specification: authority held by one credential at a time |
| `OAuthRefinement` | the mapping under which `OAuthEngine` implements the ledger |
| `MCOAuth` + `MC*.cfg` | instances of the engine for TLC |
| `HTTPTransport` | the handlers, their answers, and the clients and browsers in front of them; `HTTPSpec` and its properties |
| `MCHTTP` + `HTTP*.cfg` | instances of the HTTP layer for TLC |
| `MemoryStore` | the in-memory store |
| `StoreConformance` + `Conformance.cfg` | both stores driven by the same calls |
| `SchemaMigration` + `SchemaRace.cfg` | opening the database: `configure` and `migrate`, its properties |
| `JwtTokens`, `MCTokens` + `JwtRotation.cfg` | signing, verification and key rotation |
| `ScopeSets` + `Scopes.cfg` | scope sets as sorted slices, every iteration of a loop a step, against sets |
| `OAuthProofs` | type correctness, one-time use, refresh families (chains, narrowing, replay, revocation) |
| `ProtectionProofs` | what is deleted and what is kept: the inductive invariant, clients, authorizations, capacities, lifetimes, shortages |
| `LedgerProofs` | the engine implements the ledger |
| `HTTPProofs` | the HTTP layer implements the engine and the ledger; its types, redirects, revocation, what holders can rely on, and what invalid_grant is said of |
| `TokenProofs`, `SchemaProofs` | the properties of `JwtTokens` and `SchemaMigration` |
| `ConformanceProofs` | the two stores are one |
| `ScopeProofs` | the loops of scope sets compute what sets do, and end |

`OAuthEngine`, `OAuthRequirements` and `OAuthInvariant` extend one another on top of
`OAuthStore`; `OAuthRefinement` extends `OAuthInvariant`, `HTTPTransport` extends
`OAuthRequirements` and `StoreAnswers`. `OAuthProofs` extends `OAuthInvariant`,
`ProtectionProofs` extends it and `OAuthLiveness`, `LedgerProofs` extends that one and
`OAuthRefinement`, and `HTTPProofs` extends `HTTPTransport` and `LedgerProofs`; the other
proof modules extend only the module they are about. `StoreConformance`
instantiates `MemoryStore` on tables of its own next to those of `OAuthStore`.
`SchemaMigration`, `JwtTokens`, `ScopeSets` and `AuthorizationLedger` stand alone.
Definitions whose comment begins with "Mutant:" are the faulty variants used to show that a
property can fail; no specification uses them.

### State

* A table is a function from digests (or client ids) to rows. Credentials are
  represented by their digests, which is all the store has; a principal by its subject.
* `consumed_at` and `revoked_at` are only ever tested for NULL, so they are Booleans.
* `req[r]` is what the request in slot `r` carries between two store calls: the row it
  has read (`read`), the instant of its last step (`at`).
* `minted` and `lineage` are history variables: every identifier ever stored, and
  every pair of a credential and the successor it was spent on. No guard reads
  `lineage`; `minted` is read only by `Fresh`.

### Actions and code

| Engine operation | Actions |
|---|---|
| RegisterClient | `RegisterStart`, `RegisterCommit` |
| BeginAuthorization | `BeginGetClient`, `BeginTouchClient`, `BeginCreateAuthorization` |
| CompleteLogin | `LoginGetAuthorization`, `LoginGetClient`, `LoginCommit` |
| DecideConsent | `ConsentGet`, then `ConsentApprove` or `ConsentDeny` |
| ExchangeCode | `ExchangeGetCode`, `ExchangeCommit` |
| Refresh | `RefreshGetGrant`, then `RefreshRotate`, `RefreshLosesRace` or `RefreshReachesLimit` (the three committing branches of CommitRefreshRotation) or `RefreshRevokeFamily` (replay, or the subject is ineligible) |
| Revoke | `RevokeGetGrant`, `RevokeCommit` |
| any error return | `Fail` |
| restart on the same database | `Crash` |
| `Store.Prune` | `HostPrune` |

Each committing action is the whole transaction: the prune it starts with, its
checks, its admission test, its insert and its update. A transaction that returns
an error before `Commit` rolls back, the prune included, so it is `Fail`. The two
branches of CommitRefreshRotation that commit a revocation and then return
`ErrRevoked` are actions that change the tables.

### Opening the database

`SchemaMigration` models `Open` of processes that share a file. `line` is the statement
of configure's script that a process runs next; `pc` says whether it runs the script,
reads the version, or is in the migration. Each statement of the script
(`CreateTable`, `SeedVersion`, `DropIndex`, `CreateIndex`) commits on its own;
`IndexExists` is a `CREATE INDEX` that fails. `RefuseVersion`, `AcceptVersion` and
`requireColumn` read; `BeginMigration` begins the transaction and inspects the columns;
`CommitMigration` is everything it writes, which takes effect at once. A deferred SQLite
transaction that has read may write only while nobody else has committed a change since:
`snapshots` holds the processes for which this is so, and `LoseSnapshot` is the refusal.
`Stop` is a death, a shutdown or a failing statement, at any point; `UseClient` is a
process that already serves. `Init` is any of the databases a process may find: none,
version 1 as older releases left it, version 2, a later version, a damaged version
table, and version 2 without its column. The family index of the refresh
grants (created `IF NOT EXISTS`, never dropped) is left out, and so are processes of an
older release still writing to the file.

### The HTTP layer

`HTTPTransport` puts the handlers on top of the engine: every action of a handler is an
action of the engine in the same slot together with the answer it writes, or an answer
alone. `call[r]` is the HTTP request in slot `r`. `held` is what clients and browsers
hold, `lost` the part of it about which an answer never arrived, `told` the refresh
tokens whose holder was told that they are revoked, `registered` every pair of a client
and a redirect URI that was ever registered.

| Handler | Actions |
|---|---|
| `POST /oauth/register` | `Register`, `RegisterAnswer`, `RegisterError` |
| `GET /oauth/authorize` | `Authorize`, `AuthorizeTouch`, `AuthorizeAnswer`, `AuthorizeFails`, `AuthorizeError` (ValidateRedirect, a second read of the client), `Redirect` |
| identity callback | `Callback`, `CallbackClient`, `CallbackAnswer`, `CallbackRefused`, `CallbackError` |
| `GET /oauth/consent` | `ConsentPage`, `ConsentRefused` |
| `POST /oauth/consent` | `ConsentPost`, `ConsentAnswer`, `Redirect`, `ConsentRefused`, `ConsentError` |
| `POST /oauth/token`, code | `TokenExchange`, `ExchangeAnswer`, `ExchangeRefused`, `ExchangeError` |
| `POST /oauth/token`, refresh | `TokenRefresh`, `RefreshAnswer`, `RefreshRevokes`, `RefreshRefused`, `RefreshError` |
| `POST /oauth/revoke` | `TokenRevoke`, `RevokeAnswer`, `RevokeIgnored`, `RevokeError` |
| a parser, or an input check of the engine, refuses | `RejectForm` |
| a read of the store, or a lookup of the resource, fails | `ReadFails`, `LookupFails`, `DependencyError` |

`...Refused` is a refusal at the read, answered with invalid_grant; `DependencyError` is the
same answer to a failed read of the store or a failed `LookupResource` of the injected
registry, in the handlers where the engine gives it. `...Error` is a failing or refused
commit: the error of `StoreAnswers`, or an I/O error, through `mapStoreError`.
The parties behave as OAuth clients do: a credential is kept on a temporary answer (503)
and on an answer about the form of the request, given up on invalid_grant, replaced on
success, and presented again when no answer arrived. A client does not refresh twice with
one token at the same time, but it may revoke while it refreshes. Any answer to a request
with a credential may be lost; `HTTPCrash` ends the requests in flight without an answer.
A credential that is presented without its binding (another client id, redirect URI or
verifier) is refused at the read without an effect, so such requests are left out.

### The ledger

`AuthorizationLedger` has no tables, requests, reads or prunes: authority lies with one
credential, moves to one that never existed before (`Move`), narrows on the way, may be
given up (`Drop`) and lapses (`Pass`). `OAuthRefinement` reads it off the tables: the live
credentials are the rows that are neither consumed nor revoked nor expired, and `issued` is
`minted`. Prunes, reads and requests in flight are stutters. `ImplementsLedger` therefore
says in one formula that no interleaving duplicates, widens, prolongs or revives authority.

### The in-memory store

`MemoryStore` gives for every call its answer and its effect, and for every read what it
returns; `StoreConformance` makes the same call on both stores. Arguments are valid and
invalid, fresh and used. `AnswersAgree` compares success or the error returned, `ReadsAgree`
what the reads return while it has not expired. The two stores differ in these respects:

* *Token.* `AuthorizationTransaction.Token` and `ConsentSession.Token` are `json:"-"`
  (`model.go:58`, `70`): memorytest returns them as they were stored, sqlitestore returns
  them empty. Reads carry the field, and `ReadsAgree` compares them with it blanked. The
  engine looks rows up by digest and never reads it from a row.
* *Redirect URI of a consent.* `CommitConsent` of memorytest answers with the redirect URI
  of the consent (`memorytest/store.go:151`), that of sqlitestore with an empty one
  (`sqlitestore/store.go:500`). Results other than the error are not compared, so this is
  outside of `AnswersAgree`; the engine discards the result (`engine.go:343`).
* *Values next to an error.* sqlitestore may return a decoded record together with an error
  (`GetCodeForExchange` with `ErrBinding`). A read is compared as the row or nothing;
  callers look at the error first.
* *Refused calls.* A refused call keeps its prune in memory and loses it in SQLite. This is
  modelled, and the properties say that it is not visible in answers and live rows.
* *Evictions of a refused registration.* The in-memory `RegisterClient` keeps the evictions
  it made before it reports a client id as taken. Such calls are left out: ids are 32
  random bytes and never drawn twice.
* *Fractions of a second.* SQLite deletes rows early on instants with fractions
  (`early_prune`), memory does not, so the clock of this model counts whole seconds.
* *Encoding.* `consumed_at` and `revoked_at` are compared as set or not set, and JSON and
  the host's `PrincipalCodec` are taken to lose nothing but `Token`. A commit of memorytest
  that reads the clock twice is modelled at one instant.

### Access tokens

`JwtTokens` models a service and independent resource servers whose keys are fixed at
construction; a rotation is a sequence of restarts. The operator follows two rules: a key
is kept until every token it signed has expired (the design document's rotation procedure
says "Remove an old key only after every token signed by it has expired."), and a new key
becomes active when every resource server has it. The operator may still try to give a new
key an id in use, which `New` refuses. A signature is the key that made it. iat and exp are
truncated to seconds on a finer clock, as go-jose does, and compared with zero leeway; all
processes read the same clock.

### Scope sets

`ScopeSets` follows the slices of `scopes.go` through any sequence of calls on two sets: the
deduplicating loop and sort of `NewScopeSet` (`Collect`, `Refuse`, `Sort`), the merge of
`Intersect` (`Merge`), the length comparison of `IsSubsetOf`, the binary search of
`Contains` (`Search`, as in `sort.Find`), and the round trip through JSON (`Reload`). Every
iteration of a loop is a step, so that loop invariants are invariants of the specification.
`leftMeaning` and `rightMeaning` are the sets that the slices stand for; `laps`, which no
guard reads, counts the iterations of the loop in progress. A scope is an integer ordered
like its text, 0 the empty text; `sort.Slice` yields any ordered permutation.

### What is abstracted

* **Secrets** are drawn between an operation's last read and its commit; nobody can
  present one before the commit. They are chosen at the commit from the values never
  stored before: 32 random bytes do not repeat. `ErrConflict` is therefore `Fail`.
* **Instants.** `now` read between two store calls is any instant between those two
  steps (`now \in req[r].at .. clock`). The expiry check right after a read is made at
  the instant of the read; a later instant only rejects more, and then the operation
  fails without effect. The clock is monotone.
* **Timestamps as text.** RFC 3339 with nanoseconds drops the trailing zeros of the
  fraction, and the point with them when nothing is left. A second has `TicksPerSecond`
  ticks, a tick being any whole number of nanoseconds that divides a second, down to one.
  `TextAfter` is the order of the texts: seconds first; within a second `FractionAfter`, by
  which a fraction whose digits continue those of another one sorts before it
  (`00.51Z < 00.5Z < 00.6Z < 00Z`) and others sort by size. `MCOAuth` assumes, and TLC
  evaluates, that `FractionAfter` orders a sample of fractions of up to nine digits as a
  comparison of their texts character by character does. With `TicksPerSecond` = 1 the two
  orders agree.
* **Dependencies.** Revalidation, scope policy and signer answer anything: any subset
  of scopes, eligible or not, or an error (`Fail`). The subject they return equals the
  one asked for, as the engine checks.
* **Clients** are always unverified: RegisterClient knows no other trust.
* **Requests.** Syntax checks (URL forms, lengths, identifier grammar) only refuse
  requests, so they are left out of the engine and are `RejectForm` of the HTTP layer; a
  PKCE verifier is represented by its S256 image.
* **The resource registry** is an injected interface whose lookups may fail. A lookup for
  a stored row may fail at any call, which also stands for a registry that no longer knows
  the resource after a restart (`Fail` of the engine, `LookupFails` of the HTTP layer).
  The scopes of a resource are part of what the scope policy answers.
* Audit records and response bodies are left out.

## 3. What TLC checks

The runs of the engine use `MCOAuth`, those of the HTTP layer `MCHTTP`. Symmetry over
credentials, families and clients is used where no liveness is checked: these identifiers
are compared for equality only. Deadlock is checked. No run has a state constraint; the
spaces are finite because `MaxClock` bounds the clock and `Fresh` the number of credentials.

| Run | Shows | Instance |
|---|---|---|
| `refresh_race` | `TypeOK`, `FamiliesAreChains`, `AuthorityOnlyNarrows`, `ReplayDetectable`, `RevokedFamiliesStayRevoked`, `ClientsProtected`, `CapacityRespected`, `IndInv`, `DeletedAtMostASecondEarly` | two request slots, one serving every operation, one family, four refresh tokens, generation limit 3 (so that one more rotation would exceed it), two ticks per second, clock to 4: two rotations in a row, a lost race, a replay after either, a revocation between read and commit, the expiry of the family, texts that sort unlike instants |
| `flow_race` | `OneTimeUse`, `ClientsProtected`, `AuthorizationOutlivesCode`, `ImplementsLedger` | two slots, one serving every operation, one transaction, two consent tokens, codes and refresh tokens (so that a double use would have two values to yield), generation limit 2 (a second rotation reaches it), one client place and two clients (so that a registration must evict), clock to 3 |
| `capacity` | `CapacityRespected`, `LifetimesBounded`, `OnlyExpiredStateIsDeleted`, `FullTablesDrain`, `AdmissionRecovers` | one slot, every capacity 1, two credentials of each kind, clock to 3: every table fills, refuses, expires and fills again |
| `http_flow` | `HTTPTypeOK`, `InvalidGrantMeansDead`, `RevocationIsFinal`, `HeldIsUsable`, `RedirectsAreRegistered` | two slots, one for the flow, one for registrations and revocations; two clients for one place, two redirect URIs, one credential of each kind and two refresh tokens, generation limit 2, clock to 3 |
| `conformance` | `AnswersAgree`, `ReadsAgree` | one transaction and consent token, two codes and refresh tokens, one client place and two clients, clock to 3 |
| `schema_race` | `SchemaTypeOK`, `OpenMeansMigrated`, `ActivityKept`, `RefusedDatabaseUntouched`, `EventuallyOpen` | two processes, two clients, three stops; either process may overtake the other at every statement, or serve while the other opens |
| `jwt_rotation` | `TokensTypeOK`, `NoTokenStranded`, `AcceptedIsGenuine` | two key ids, three keys and a foreign one, two resource servers, two resources, two tokens, two ticks per second, clock to 7: two rotations and the expiry of a token of each |
| `scopes` | `ScopesActAsSets`, `LoopsEnd` | any sequence of calls on two sets, with every list of up to three out of four scopes and the empty text: duplicates, empty sets, sets that overlap in part and sets that are equal |

Four runs state what a document, comment or test of the repository says and show
the code doing otherwise (`findings` in `PROJECT.json`):

* `early_prune`: with half-second ticks, a row is deleted up to a second before it
  expires (`OnlyExpiredStateIsDeleted`), because the cutoff `...00Z` sorts after the
  expiry `...00.5Z`. On a finer clock it also happens between fractions of different
  lengths. A credential then fails early and its capacity is released early.
  `DeletedAtMostASecondEarly` bounds the damage, and is proved for every tick down to a
  nanosecond.
  `refresh_race`, on the same clock, shows that this does not reach client protection
  (the prune that precedes an eviction deletes by the same order that the eviction
  protects by) nor the refresh families (a family is deleted as a whole).
* `refresh_rows`: rows of revoked families are not counted at admission and stay until
  expiry, so the number of rows is not bounded by MaxRefreshGrants times
  MaxRefreshGenerations.
* `dangling`: `BeginAuthorization` touches the client and stores the authorization in two
  transactions; a request delayed between them for the whole idle lease stores an
  authorization of an evicted client. Login then fails with invalid_grant; that
  no consent, code or grant ever names an evicted client is `ClientsProtected`.
* `http_read_fault`: a store read that fails with an I/O error in `CompleteLogin`,
  `ConsentView`, `DecideConsent`, `ExchangeCode` or `Refresh` is answered with
  invalid_grant, and so is any error of `LookupResource` in `CompleteLogin`, `ConsentView` or
  `Refresh`; the holder gives up a credential that is still good
  (`TemporaryFailureKeepsAuthority`). The commits of the same operations answer an I/O error
  with a retryable 503.

`InvalidGrantMeansDead` excepts these two reasons and a third one, and says that there is no
fourth way for a holder who presents a good credential with its binding to be told
invalid_grant about it. The third is a decision whose commit is delayed for as long as a
code lives: it proposes a code that has expired, and the store answers this like a wrong
binding (`Overdue`). In `http_flow` such a consent has expired too; an instance with
ConsentTTL = 2 and RefreshTTL = 4 meets the case, and the proof covers both.

`PROJECT.json` gives for every property a mutant of the code's definitions that
violates it under the same configuration.

**Why the bounds are enough.** Races need two requests on one credential and a third
step in between: two slots plus `HostPrune`, `Tick` and `Crash`. A family needs two
rotations before a replay of its oldest token differs from one of its latest.
Capacities of 1 make every insertion a boundary case. Lifetimes of one tick, with
RefreshTTL = 3 just above ConsentTTL + CodeTTL, put every expiry between any two
steps. Half-second ticks are the coarsest on which texts sort unlike instants; the proofs
cover every finer one. One scope has two scope sets, which is enough to narrow; the proofs cover
every set of scopes, subjects, clients and resources. In `http_flow` a single flow runs,
so no table of credentials is full when a second one arrives; two flows with single-row
tables are beyond what fits in a few minutes together with revocations, and an instance
with two transactions and two consents for one place (one client, one redirect URI, the
other constants as in `HTTPFlow.cfg`; 1.9 million states) was run by itself: a full table is
never answered with invalid_grant.

**Fairness.** `Spec` and `HTTPSpec` assume none and state safety only. `FairSpec` adds weak
fairness of `Tick`: time passes. No request has to make progress and the host need not call
`Prune`, so `AdmissionRecovers` rests on the code's own pruning; it speaks of the tables
that fill up early enough for their lifetime to end before `MaxClock`.

`SchemaMigration` assumes weak fairness of `Open`: it is straight-line code that waits
for nothing but SQLite, and the host starts a process again whose `Open` failed. Stops
are bounded by `MaxFailures` and need no fairness. `EventuallyOpen` excepts processes that
keep opening at the same time for ever: each one's `DROP INDEX` and `CREATE INDEX` can make
the other's `CREATE INDEX` or migration fail, and if both are restarted in step this can
go on. Nothing in the repository promises otherwise; hosts that start several instances on
one file at once should know it.

## 4. What is proved

The theorems hold for every set of clients, credentials, scopes, subjects, resources
and request slots, all lifetimes and capacities, and every `MaxClock`; for any number of
processes that open a database, of keys, resource servers and tokens. They assume only the
named assumptions of the modules: the conditions that `Config.Validate` enforces
(`ValidStatePolicy`, `ValidConfig`) and the shape of the model's own parameters.

The theorems marked (s) also assume `TicksPerSecond = 1`. On a finer clock the SQL text
order is not the order of instants, rows go before they expire, and these properties do
not hold (`early_prune`); what remains true is `DeletedAtMostASecondEarly`. All other
theorems hold at every resolution: for every tick that is a whole number of nanoseconds and
divides a second, so also for the nanoseconds of Go's clock.

| Theorem | Statement | Invariant |
|---|---|---|
| `TypeCorrect` | `Spec => []TypeOK` | itself |
| `OneTimeUseCorrect` | `Spec => []OneTimeUse` | `TypeOK /\ StoredIsMinted /\ LineageIsMinted /\ OneTimeInv` |
| `FamiliesAreChainsCorrect`, `AuthorityOnlyNarrowsCorrect`, `ReplayDetectableCorrect` | `Spec => []...` | the same, with `FamilyInv(grants, lineage)` |
| `RevokedFamiliesStayRevokedCorrect` | `Spec => RevokedFamiliesStayRevoked` | the same |
| `IndInvCorrect`, `ClientsProtectedCorrect`, `AuthorizationOutlivesCodeCorrect` | `Spec => []...` | `IndInv`: the same, with `LoginsProtected` |
| `DeletedAtMostASecondEarlyCorrect`, `OnlyExpiredStateIsDeletedCorrect` (s) | `Spec => ...` | `IndInv` |
| `CapacityRespectedCorrect` | `Spec => []CapacityRespected` | `CapacityInv`: with finite tables |
| `LifetimesBoundedCorrect` | `Spec => []LifetimesBounded` | `TypeOK` and itself |
| `FullTablesDrainCorrect` | `Spec => FullTablesDrain` | `CapacityInv` |
| `ShortagesEnd` | for every instant `T`: a table that is full, with its lifetime ending by `T`, and full ever after is so only while `clock < T + TicksPerSecond` | `CapacityInv /\ LifetimesBounded` |
| `ImplementsLedgerCorrect` (s) | `Spec => ImplementsLedger` | `IndInv` |
| `HTTPImplementsEngine`, `HTTPOneTimeUse` | `HTTPSpec => Spec`, `HTTPSpec => []OneTimeUse` | none: step by step |
| `HTTPImplementsLedger` (s) | `HTTPSpec => ImplementsLedger` | through `HTTPImplementsEngine` |
| `HTTPKeepsState` | `HTTPSpec => [](...)` of the families, clients, capacities and lifetimes | through `HTTPImplementsEngine` |
| `HTTPTypeCorrect` | `HTTPSpec => []HTTPTypeOK` | `HTTPInv` |
| `RedirectsAreRegisteredCorrect` | `HTTPSpec => []RedirectsAreRegistered` | `HTTPInv /\ RegisteredInv` |
| `RevocationIsFinalCorrect`, `HeldIsUsableCorrect` | `HTTPSpec => []...` | `HTTPInv /\ ReliableInv` |
| `InvalidGrantMeansDeadCorrect` (s) | `HTTPSpec => InvalidGrantMeansDead` | `RefusalInv` |
| `AnswersAgreeCorrect`, `ReadsAgreeCorrect` (s) | `ConformanceSpec => []...` | `ConformInv` |
| `TokensTypeCorrect`, `NoTokenStrandedCorrect`, `AcceptedIsGenuineCorrect` | `TokensSpec => []...` | `TokensTypeOK /\ Rotation` |
| `SchemaTypeCorrect`, `OpenMeansMigratedCorrect` | `Spec => []...` of `SchemaMigration` | `SchemaTypeOK /\ Opening` |
| `ActivityKeptCorrect`, `RefusedDatabaseUntouchedCorrect` | `Spec => ...` of `SchemaMigration` | the same |
| `ScopesActAsSetsCorrect` | `ScopesSpec => []ScopesActAsSets` | `ScopesInv`: canonical slices and an invariant for each loop |
| `LoopsEndCorrect` | `ScopesSpec => []LoopsEnd` | `ScopesInv /\ LapsCounted` |

*One-time use* is not inductive: it speaks of history, the guards of stored rows.
`OneTimeInv` connects them: a credential in `lineage` has a row marked consumed *for as
long as the row is stored*. When the row has been pruned, nothing can bring it back,
because a new row needs a fresh value and everything in `lineage` has been minted
(`StoredIsMinted`, `LineageIsMinted`).

*Refresh families* need three facts at once. A rotation consumes the grant it
replaces, and only an unconsumed grant is rotated; by the chain property that grant is
the newest of its family, so the successor's generation is new. All grants of a family
expire together, so pruning removes a family as a whole and never only its spent
members (this is what keeps replay detectable). All grants of a family are revoked
together, so an unrevoked current grant shows that the family is not revoked at the
instant of the commit, whatever was read before. `FamilyInv` is stated about a table and
a set of links, so that each table operation (prune, revoke, start, rotate) has its own
lemma.

*Protection of clients.* An eviction spares the clients that unconsumed, unexpired rows
name, by text order. The prune before it has deleted, by the same order, every row that
would not count; so what remains unspent after the eviction has its client, at any
resolution of the clock. The difficult case is a login: the authorization it completes may
name a client that is gone (`dangling`). `LoginsProtected` says that once CompleteLogin has
read the client, the authorization it will commit is spent, gone, or has its client still.
Two lemmas carry all of this and the deletion bounds: where each row of the next state
comes from, and why each row that is missing from it is missing.

*Capacities* count: the rows after an insertion are one more than those the prune left,
and those were fewer than the limit when admission was decided. Of the refresh grants only
the active ones are counted; a rotation trades one for another.

*Lifetimes and shortages.* Every row's expiry was computed from an instant that has passed,
and a rotation hands on the end of its family, so no expiry is further away than the
lifetime of its table (`LifetimesBounded`). While a table is full no action inserts a row
that brings a new expiry: an insertion is refused, and a rotation, which is not counted at
admission, keeps the expiry of the row it replaces (`FullTablesDrain`). Hence a table that
is full at instant c and stays full has only rows that expire by c + TTL, and a second after
the last of them the text order no longer keeps any: the prune that precedes every admission
then empties the table. `ShortagesEnd` is this argument, which leaves to `AdmissionRecovers`
only that time passes.

*The ledger.* For each engine action there is a step of the ledger or none: a commit moves
authority from the row it consumes to the row it inserts; a revocation drops the
authority of a family, which is at most one credential since families are chains; prunes
take only rows whose authority has lapsed already, which is where whole seconds are
needed.

*HTTP.* `HTTPInv` ties each slot's engine request to the handler that started it and says
that what parties hold, have lost or were told of was drawn. `RegisteredInv` follows a
redirect URI from the client to the authorization, the request and the consent, so that it
is a registered one even after the client is gone. `ReliableInv` is the argument for the
holders of refresh tokens: a family that no holder was told is revoked has one token that
is held (`OneHolder`), one request at a time spends it (`OnePresenter`), a token that is
being refreshed is held (`RefreshedIsHeld`), and the family that a request is about to
revoke is that of the token it presents (`FamiliesAnchored`); so a family is only revoked
by its holder, or after an answer to the holder was lost. A held credential whose row is gone is
excused by `HeldIsUsable`; that rows go only at their end is the subject of the deletion
theorems.

*Refusals.* A commit validates its proposal against the row it finds, and the proposal was
built from the row that was read. `ReadInv` says that these agree in every field the
validators compare, `CurrentInv` that a registered client has the redirect URIs it
registered. Hence a proposal can fail only for what the row has become (spent, revoked,
expired, gone) or for being late (`Overdue`).

*Texts* of instants are ordered by their seconds first, whatever the digits of the
fractions, so a row goes at most a second early; that, and that both sides of a comparison
use the same order, is all the proofs use of it on a finer clock.

*The two stores* agree on the clients and on everything live: `ConformInv` equates the
unexpired rows of each table and the live families of the grants, and nothing else, since
what a refused call has pruned is deleted in one store and restored in the other. Every
call starts by reducing both to the same tables, so its answer is the same and so is what
it writes. The two ways to build what a read returns differ in the Token alone
(`TokenReads`). Evictions are not restored in memory; a registration that is refused for
capacity has evicted nobody, because there were never more clients than the limit.

*Tokens.* `Rotation` says that every process that verifies holds the key that signs now
and the keys of all unexpired tokens, and that what the service did not grant bears a key
it never held.

*Opening.* `Opening` says how much of the schema exists at each position of `Open`. It is
about the database alone, so other processes can only confirm it; a migration commits only
on the database it has inspected.

*Scope sets.* A canonical slice increases strictly (`SlicesCanonical`). Two such slices with
the same values are equal: at the first index where they differ, the smaller of the two values
cannot occur in the other slice. `Collecting`, `Merging` and `Searching` are the loop
invariants: what is built so far holds each value read once; the merge has found what the
parts already passed have in common, and nothing ahead is below what it has passed; all
values before the search's interval are below the scope and none after it is. Sorting a
slice without duplicates yields an increasing one because a permutation repeats none.
`IsSubsetOf` may compare lengths: what the merge has built is as long as what it has passed on
the left exactly when all of that is on the right too. Each iteration leaves less to read, so
iterations made and values left never exceed together what there was (`LapsCounted`).

Beyond the prover, and only model-checked: the liveness properties `AdmissionRecovers`,
whose safety half is `ShortagesEnd`, and `EventuallyOpen`. Both rest on fairness, hence on
ENABLED, which the prover does not support.

## 5. What is not modelled

* `Diagnostics` and `Counts`: they only read (the write probe is rolled back).
* The metadata, JWKS and style sheet endpoints: they render constant state.
* What the request parsers, identifier, URL and PKCE syntax checks accept, and which
  resources a registry knows: checks of single values without state. That a check may refuse
  and that a lookup may fail is modelled.
* RSA and JOSE: a signature is the key that made it. Clock differences between processes:
  no code handles them and no document speaks of them.
* Audit records, correlation ids, the metadata and header helpers of `oauthresource`, test
  fixtures.
* Several server processes on one database while they serve: `SchemaMigration` has several
  processes for opening; the engine's model has one, whose requests interleave at every
  store call, which is also how requests of several processes would.

`components` in `PROJECT.json` gives the reasons one by one.

## 6. State of the project

Modelled, checked and proved: the store, the engine and its properties, the error answers
and the HTTP layer, the abstract ledger and its refinement by the engine and by the HTTP
layer, schema migration, the memory store, access tokens and scope sets. Every safety
property that a passing run checks is proved; the liveness properties are model-checked. What
could follow:

1. A specification of what a holder sees of one refresh family, abstract from tables and
   slots, which `HTTPTransport` implements.
2. Agreement of the two stores on a clock with fractions. It is false as it stands
   (`early_prune`), and becomes true when timestamps are stored with a fixed number of digits.
