------------------------------ MODULE JwtTokens -----------------------------
(***************************************************************************)
(* pkg/jwttokens: the service that signs access tokens, the resource       *)
(* servers that verify them (pkg/oauthresource), and the rotation of the   *)
(* signing key.  The keys of a Service and of a Verifier are fixed when it *)
(* is constructed, so a rotation is a sequence of restarts of processes    *)
(* that see each other's keys late.                                        *)
(*                                                                         *)
(* A signature is the key that made it: only its owner can sign.  The      *)
(* clocks of the processes agree (tokens are validated with no leeway).    *)
(***************************************************************************)
EXTENDS Integers, FiniteSets, Functions

CONSTANTS
    KeyIDs,          \* kid values
    ServiceKeys,     \* RSA keys that the operator generates
    ForeignKeys,     \* keys that the service never held
    Verifiers,       \* resource servers
    ResourceIDs,
    TicksPerSecond,  \* resolution of the clock
    AccessTTL,
    MaxClock,        \* bound: the clock stops here
    MaxTokens        \* bound: tokens in circulation

ASSUME TokenAssumption ==
    /\ {TicksPerSecond, AccessTTL, MaxClock, MaxTokens} \subseteq Nat \ {0}
    /\ ServiceKeys \cap ForeignKeys = {}
    /\ ServiceKeys # {} /\ KeyIDs # {}

VARIABLES
    clock,       \* in ticks
    service,     \* the Service that is running: activeKeyID, activeKey, verification
    verifiers,   \* the verification keys of each Verifier
    tokens       \* every token that is in circulation

tokenVars == <<clock, service, verifiers, tokens>>

\* A key set is a map from key ids to keys.
KeySet == UNION {[kids -> ServiceKeys] : kids \in SUBSET KeyIDs}

Token == [kid : KeyIDs, key : ServiceKeys \cup ForeignKeys, embedded : BOOLEAN,
          aud : ResourceIDs, iat : Nat, exp : Nat, issued : {-1} \cup Nat]

TokensTypeOK ==
    /\ clock \in 0 .. MaxClock
    /\ service \in [activeKeyID : KeyIDs, activeKey : ServiceKeys, verification : KeySet]
    /\ verifiers \in [Verifiers -> KeySet]
    /\ tokens \subseteq Token

-----------------------------------------------------------------------------
\* The service of a configuration: the active key verifies too.
Service(kid, key, verification) ==
    [activeKeyID |-> kid, activeKey |-> key,
     verification |-> [k \in DOMAIN verification \cup {kid} |->
                          IF k = kid THEN key ELSE verification[k]]]

\* Mutant: an id that already names another key is taken over.
NewWithoutConflictCheck(kid, key, verification) == {Service(kid, key, verification)}

\* New: the service that a configuration yields, none if the id of the active
\* key names a different verification key.
New(kid, key, verification) ==
    {s \in {Service(kid, key, verification)} :
        kid \in DOMAIN verification => verification[kid] = key}

\* NewVerifier: at least one key.
NewVerifier(keys) == {k \in {keys} : DOMAIN k # {}}

\* The public keys that /jwks.json lists.
JWKS == service.verification

\* jwt.NewNumericDate: whole seconds.
NumericDate(t) == t - (t % TicksPerSecond)

\* Mutant: iat and nbf are backdated by a second.
IssuedBackdated(resource) ==
    [kid |-> service.activeKeyID, key |-> service.activeKey, embedded |-> FALSE,
     aud |-> resource, iat |-> NumericDate(clock) - TicksPerSecond,
     exp |-> NumericDate(clock + AccessTTL), issued |-> clock]

\* IssueAccessToken for a grant of the engine (IssuedAt = now, ExpiresAt =
\* now + AccessTTL).  issued is a history: the instant of the grant.
Issued(resource) ==
    [kid |-> service.activeKeyID, key |-> service.activeKey, embedded |-> FALSE,
     aud |-> resource, iat |-> NumericDate(clock),
     exp |-> NumericDate(clock + AccessTTL), issued |-> clock]

\* Mutant: a key that the token brings along is used.
verifyWithEmbeddedKey(keys, token, resource) ==
    /\ \/ token.embedded
       \/ token.kid \in DOMAIN keys /\ keys[token.kid] = token.key
    /\ token.aud = resource
    /\ ~(clock < token.iat) /\ ~(clock > token.exp)

\* verifyAccessToken: no key or key reference in the header, a known key id,
\* a signature of that key, the audience, nbf = iat and exp.
verifyAccessToken(keys, token, resource) ==
    /\ ~token.embedded
    /\ token.kid \in DOMAIN keys
    /\ keys[token.kid] = token.key
    /\ token.aud = resource
    /\ ~(clock < token.iat) /\ ~(clock > token.exp)

-----------------------------------------------------------------------------
TokensInit ==
    \E kid \in KeyIDs, key \in ServiceKeys :
        /\ clock = 0
        /\ service \in New(kid, key, [k \in {} |-> k])
        /\ verifiers = [v \in Verifiers |-> service.verification]
        /\ tokens = {}

IssueAccessToken ==
    /\ Cardinality(tokens) < MaxTokens
    /\ \E resource \in ResourceIDs : tokens' = tokens \cup {Issued(resource)}
    /\ UNCHANGED <<clock, service, verifiers>>

\* Somebody else signs a token, under any key id, with the key in the header
\* or not.
ForeignToken ==
    /\ Cardinality(tokens) < MaxTokens
    /\ \E kid \in KeyIDs, key \in ForeignKeys, embedded \in BOOLEAN, resource \in ResourceIDs :
         tokens' = tokens \cup {[Issued(resource) EXCEPT !.kid = kid, !.key = key,
                                    !.embedded = embedded, !.issued = -1]}
    /\ UNCHANGED <<clock, service, verifiers>>

\* The key ids that a configuration has to keep: "Remove an old key only
\* after every token signed by it has expired."
InUse == {token.kid : token \in {u \in tokens : u.issued >= 0 /\ ~(clock > u.exp)}}

\* A key set that the operator may configure next: current keys, and keys in
\* use among them, with at most one new one.
Configurable ==
    {keys \in KeySet :
        /\ \A kid \in InUse : kid \in DOMAIN keys /\ keys[kid] = JWKS[kid]
        /\ Cardinality({kid \in DOMAIN keys :
                          ~(kid \in DOMAIN JWKS /\ keys[kid] = JWKS[kid])}) =< 1}

\* Every resource server has the key, so it may become the active one.
Distributed(kid, key) ==
    \A v \in Verifiers : kid \in DOMAIN verifiers[v] /\ verifiers[v][kid] = key

\* The operator restarts the service with another configuration.  That an id
\* of a new key is not taken is left to New.
RestartService ==
    /\ \E keys \in Configurable, kid \in KeyIDs, key \in ServiceKeys :
         /\ \/ kid = service.activeKeyID /\ key = service.activeKey
            \/ Distributed(kid, key)
            \/ kid \in DOMAIN keys /\ keys[kid] # key
         /\ service' \in New(kid, key, keys)
    /\ UNCHANGED <<clock, verifiers, tokens>>

\* A resource server is restarted with the keys that are published now.
RestartVerifier ==
    /\ \E v \in Verifiers : \E keys \in NewVerifier(JWKS) :
         verifiers' = [verifiers EXCEPT ![v] = keys]
    /\ UNCHANGED <<clock, service, tokens>>

Elapse ==
    /\ clock < MaxClock
    /\ clock' = clock + 1
    /\ UNCHANGED <<service, verifiers, tokens>>

TokensNext ==
    IssueAccessToken \/ ForeignToken \/ RestartService \/ RestartVerifier \/ Elapse

TokensSpec == TokensInit /\ [][TokensNext]_tokenVars

-----------------------------------------------------------------------------
KeySets == {JWKS} \cup {verifiers[v] : v \in Verifiers}

\* Rotation strands nobody: in every order of restarts of the service and of
\* the resource servers that keeps the keys of unexpired tokens, a token that
\* has not expired is accepted by the service and by every resource server
\* (New keeps the active key among the verification keys and refuses an id
\* that names another key; verifyAccessToken accepts up to exp itself).
NoTokenStranded ==
    \A token \in tokens : token.issued >= 0 /\ ~(clock > token.exp) =>
        \A keys \in KeySets : verifyAccessToken(keys, token, token.aud)

\* What any resource server accepts, with keys as old as they may be, is a
\* token that this service granted for that resource, no longer ago than
\* AccessTTL (truncation to seconds never prolongs it).
AcceptedIsGenuine ==
    \A token \in tokens, resource \in ResourceIDs, keys \in KeySets :
        verifyAccessToken(keys, token, resource) =>
            /\ token.issued >= 0
            /\ token.aud = resource
            /\ token.issued =< clock /\ clock =< token.issued + AccessTTL
=============================================================================
