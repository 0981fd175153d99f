----------------------------- MODULE TokenProofs ----------------------------
(***************************************************************************)
(* Key rotation of pkg/jwttokens, for any number of keys, resource servers *)
(* and tokens: no unexpired token is stranded and nothing else is accepted.*)
(***************************************************************************)
EXTENDS JwtTokens, TLAPS

\* A key set maps some key ids to keys of the service.
LEMMA KeySetIs ==
    ASSUME NEW keys
    PROVE  keys \in KeySet <=> /\ DOMAIN keys \subseteq KeyIDs
                               /\ keys \in [DOMAIN keys -> ServiceKeys]
<1>1. ASSUME keys \in KeySet
      PROVE  DOMAIN keys \subseteq KeyIDs /\ keys \in [DOMAIN keys -> ServiceKeys]
  <2>1. PICK kids \in SUBSET KeyIDs : keys \in [kids -> ServiceKeys]
    BY <1>1 DEF KeySet
  <2> QED BY <2>1
<1>2. ASSUME DOMAIN keys \subseteq KeyIDs, keys \in [DOMAIN keys -> ServiceKeys]
      PROVE  keys \in KeySet
  BY <1>2 DEF KeySet
<1> QED BY <1>1, <1>2

\* jwt.NewNumericDate drops the fraction of the second and no more.
LEMMA NumericDateBounds ==
    ASSUME NEW t \in Nat
    PROVE  /\ NumericDate(t) \in Nat
           /\ NumericDate(t) =< t
           /\ t < NumericDate(t) + TicksPerSecond
<1>1. TicksPerSecond \in Nat \ {0}
  BY TokenAssumption
<1>2. t % TicksPerSecond \in 0 .. TicksPerSecond - 1
  BY <1>1
<1>3. t % TicksPerSecond =< t
  <2>1. CASE t >= TicksPerSecond
    BY <1>1, <1>2, <2>1
  <2>2. CASE t < TicksPerSecond
    BY <1>1, <2>2, SMTT(30)
  <2> QED BY <1>1, <2>1, <2>2
<1> QED BY <1>1, <1>2, <1>3 DEF NumericDate

-----------------------------------------------------------------------------
\* keys verifies every token that was signed under kid with key.
Holds(keys, kid, key) == kid \in DOMAIN keys /\ keys[kid] = key

\* What New guarantees: a key set that holds the active key and, besides it,
\* the configured verification keys.
LEMMA NewService ==
    ASSUME NEW kid \in KeyIDs, NEW key \in ServiceKeys, NEW keys \in KeySet,
           NEW s \in New(kid, key, keys)
    PROVE  /\ s \in [activeKeyID : KeyIDs, activeKey : ServiceKeys, verification : KeySet]
           /\ Holds(s.verification, kid, key)
           /\ s.activeKeyID = kid /\ s.activeKey = key
           /\ \A k \in DOMAIN keys : Holds(s.verification, k, keys[k])
<1> DEFINE ids == DOMAIN keys \cup {kid}
           ver == [k \in ids |-> IF k = kid THEN key ELSE keys[k]]
<1>1. s = [activeKeyID |-> kid, activeKey |-> key, verification |-> ver]
      /\ (kid \in DOMAIN keys => keys[kid] = key)
  BY DEF New, Service
<1>2. DOMAIN keys \subseteq KeyIDs /\ keys \in [DOMAIN keys -> ServiceKeys]
  BY KeySetIs
<1>3. DOMAIN ver = ids /\ ver \in [ids -> ServiceKeys] /\ ids \subseteq KeyIDs
  BY <1>2
<1>4. ver \in KeySet
  BY <1>3, KeySetIs
<1>5. Holds(ver, kid, key) /\ \A k \in DOMAIN keys : Holds(ver, k, keys[k])
  BY <1>1 DEF Holds
<1> HIDE DEF ver
<1> QED BY <1>1, <1>4, <1>5

\* A token that IssueAccessToken makes.
LEMMA IssuedToken ==
    ASSUME TokensTypeOK, NEW resource \in ResourceIDs
    PROVE  /\ Issued(resource) \in Token
           /\ Issued(resource).iat =< clock
           /\ Issued(resource).exp =< clock + AccessTTL
<1>1. clock \in Nat /\ clock + AccessTTL \in Nat
  BY TokenAssumption DEF TokensTypeOK
<1>2. /\ NumericDate(clock) \in Nat /\ NumericDate(clock) =< clock
      /\ NumericDate(clock + AccessTTL) \in Nat
      /\ NumericDate(clock + AccessTTL) =< clock + AccessTTL
  BY <1>1, NumericDateBounds
<1>3. service.activeKeyID \in KeyIDs /\ service.activeKey \in ServiceKeys
  BY DEF TokensTypeOK
<1> QED BY <1>1, <1>2, <1>3 DEF Issued, Token

-----------------------------------------------------------------------------
\* An unexpired token of the service.
Live(token) == token.issued >= 0 /\ ~(clock > token.exp)

\* The invariant of a rotation.  Every resource server already holds the key
\* that signs; a live token can be verified everywhere; what the service did
\* not grant bears a key it never held.
Rotation ==
    /\ \A keys \in KeySets : Holds(keys, service.activeKeyID, service.activeKey)
    /\ \A token \in tokens : Live(token) =>
          \A keys \in KeySets : Holds(keys, token.kid, token.key)
    /\ \A token \in tokens :
          \/ /\ token.issued >= 0 /\ ~token.embedded
             /\ token.iat =< token.issued /\ token.issued =< clock
             /\ token.exp =< token.issued + AccessTTL
          \/ token.issued = -1 /\ token.key \in ForeignKeys

LEMMA TokensInitial == TokensInit => TokensTypeOK /\ Rotation
<1> SUFFICES ASSUME TokensInit PROVE TokensTypeOK /\ Rotation
  OBVIOUS
<1> DEFINE none == [k \in {} |-> k]
<1>1. PICK kid \in KeyIDs, key \in ServiceKeys :
        /\ clock = 0 /\ tokens = {}
        /\ service \in New(kid, key, none)
        /\ verifiers = [v \in Verifiers |-> service.verification]
  BY DEF TokensInit
<1>2. none \in KeySet
  BY KeySetIs
<1> HIDE DEF none
<1>3. /\ service \in [activeKeyID : KeyIDs, activeKey : ServiceKeys, verification : KeySet]
      /\ Holds(service.verification, service.activeKeyID, service.activeKey)
  BY <1>1, <1>2, NewService
<1>4. TokensTypeOK
  BY <1>1, <1>3, TokenAssumption DEF TokensTypeOK
<1>5. Rotation
  BY <1>1, <1>3 DEF Rotation, KeySets, JWKS
<1> QED BY <1>4, <1>5

LEMMA TokensStep ==
    ASSUME TokensTypeOK, Rotation, [TokensNext]_tokenVars
    PROVE  TokensTypeOK' /\ Rotation'
<1> USE DEF KeySets, JWKS
<1>1. CASE IssueAccessToken
  <2>1. PICK resource \in ResourceIDs : tokens' = tokens \cup {Issued(resource)}
    BY <1>1 DEF IssueAccessToken
  <2>2. UNCHANGED <<clock, service, verifiers>>
    BY <1>1 DEF IssueAccessToken
  <2>3. TokensTypeOK'
    BY <2>1, <2>2, IssuedToken DEF TokensTypeOK
  <2>4. /\ Issued(resource).kid = service.activeKeyID
        /\ Issued(resource).key = service.activeKey
        /\ Issued(resource).issued = clock /\ ~Issued(resource).embedded
    BY DEF Issued
  <2>5. clock >= 0
    BY DEF TokensTypeOK
  <2> DEFINE fresh == Issued(resource)
  <2>6. /\ fresh.kid = service.activeKeyID /\ fresh.key = service.activeKey
        /\ fresh.issued >= 0 /\ ~fresh.embedded
        /\ fresh.iat =< fresh.issued /\ fresh.issued =< clock
        /\ fresh.exp =< fresh.issued + AccessTTL
    <3>1. Issued(resource).iat =< clock /\ Issued(resource).exp =< clock + AccessTTL
      BY IssuedToken
    <3>2. clock \in Int
      BY DEF TokensTypeOK
    <3> QED BY <2>4, <2>5, <3>1, <3>2
  <2>7. tokens' = tokens \cup {fresh}
    BY <2>1
  <2> HIDE DEF fresh
  <2>8. Rotation'
    BY <2>2, <2>6, <2>7 DEF Rotation, Live
  <2> QED BY <2>3, <2>8
<1>2. CASE ForeignToken
  <2>1. PICK kid \in KeyIDs, key \in ForeignKeys, embedded \in BOOLEAN,
             resource \in ResourceIDs :
          tokens' = tokens \cup {[Issued(resource) EXCEPT !.kid = kid, !.key = key,
                                     !.embedded = embedded, !.issued = -1]}
    BY <1>2 DEF ForeignToken
  <2> DEFINE foreign == [Issued(resource) EXCEPT !.kid = kid, !.key = key,
                            !.embedded = embedded, !.issued = -1]
  <2>2. UNCHANGED <<clock, service, verifiers>>
    BY <1>2 DEF ForeignToken
  <2>3. foreign \in Token /\ foreign.issued = -1 /\ foreign.key \in ForeignKeys
    <3> DEFINE fresh == Issued(resource)
    <3>1. fresh \in Token
      BY IssuedToken
    <3>2. foreign = [fresh EXCEPT !.kid = kid, !.key = key, !.embedded = embedded,
                                  !.issued = -1]
      OBVIOUS
    <3> HIDE DEF foreign, fresh
    <3>3. foreign.issued = -1 /\ foreign.key = key /\ foreign.kid = kid
          /\ foreign.embedded = embedded
      BY <3>1, <3>2 DEF Token
    <3>4. foreign \in Token
      BY <3>1, <3>2 DEF Token
    <3> QED BY <3>3, <3>4
  <2>4. tokens' = tokens \cup {foreign}
    BY <2>1
  <2> HIDE DEF foreign
  <2>5. TokensTypeOK'
    BY <2>2, <2>3, <2>4 DEF TokensTypeOK
  <2>6. Rotation'
    BY <2>2, <2>3, <2>4 DEF Rotation, Live
  <2> QED BY <2>5, <2>6
<1>3. CASE RestartService
  <2>1. PICK keys \in Configurable, kid \in KeyIDs, key \in ServiceKeys :
          /\ \/ kid = service.activeKeyID /\ key = service.activeKey
             \/ Distributed(kid, key)
             \/ kid \in DOMAIN keys /\ keys[kid] # key
          /\ service' \in New(kid, key, keys)
    BY <1>3 DEF RestartService
  <2>2. UNCHANGED <<clock, verifiers, tokens>>
    BY <1>3 DEF RestartService
  <2>3. keys \in KeySet /\ \A k \in InUse : Holds(keys, k, service.verification[k])
    BY DEF Configurable, Holds
  <2>4. /\ service' \in [activeKeyID : KeyIDs, activeKey : ServiceKeys,
                         verification : KeySet]
        /\ Holds(service.verification', kid, key)
        /\ service'.activeKeyID = kid /\ service'.activeKey = key
        /\ \A k \in DOMAIN keys : Holds(service.verification', k, keys[k])
    BY <2>1, <2>3, NewService
  <2>5. TokensTypeOK'
    BY <2>2, <2>4 DEF TokensTypeOK
  <2>6. ~(kid \in DOMAIN keys /\ keys[kid] # key)
    BY <2>1 DEF New
  <2>7. \A v \in Verifiers : Holds(verifiers[v], kid, key)
    BY <2>1, <2>6 DEF Rotation, Distributed, Holds
  <2>8. \A token \in tokens : Live(token) => Holds(service.verification', token.kid, token.key)
    <3> SUFFICES ASSUME NEW token \in tokens, Live(token)
                 PROVE  Holds(service.verification', token.kid, token.key)
      OBVIOUS
    <3>1. token.kid \in InUse
      BY DEF InUse, Live
    <3>2. Holds(service.verification, token.kid, token.key)
      BY DEF Rotation
    <3> QED BY <2>3, <2>4, <3>1, <3>2 DEF Holds
  <2>9. Rotation'
    BY <2>2, <2>4, <2>7, <2>8 DEF Rotation, Live
  <2> QED BY <2>5, <2>9
<1>4. CASE RestartVerifier
  <2>1. PICK v \in Verifiers : verifiers' = [verifiers EXCEPT ![v] = service.verification]
    BY <1>4 DEF RestartVerifier, NewVerifier
  <2>2. UNCHANGED <<clock, service, tokens>>
    BY <1>4 DEF RestartVerifier
  <2>3. TokensTypeOK'
    BY <2>1, <2>2 DEF TokensTypeOK
  <2>4. \A w \in Verifiers : verifiers'[w] \in {verifiers[w], service.verification}
    BY <2>1 DEF TokensTypeOK
  <2>5. Rotation'
    BY <2>2, <2>4 DEF Rotation, Live
  <2> QED BY <2>3, <2>5
<1>5. CASE Elapse
  <2>1. clock' = clock + 1 /\ clock < MaxClock /\ UNCHANGED <<service, verifiers, tokens>>
    BY <1>5 DEF Elapse
  <2>2. TokensTypeOK'
    BY <2>1, TokenAssumption DEF TokensTypeOK
  <2>3. clock \in Nat /\ \A token \in tokens : token.exp \in Nat /\ token.issued \in Int
    BY DEF TokensTypeOK, Token
  <2>4. Rotation'
    BY <2>1, <2>3 DEF Rotation, Live
  <2> QED BY <2>2, <2>4
<1>6. CASE UNCHANGED tokenVars
  BY <1>6 DEF tokenVars, TokensTypeOK, Rotation, Live
<1> QED BY <1>1, <1>2, <1>3, <1>4, <1>5, <1>6 DEF TokensNext

LEMMA RotationCorrect == TokensSpec => [](TokensTypeOK /\ Rotation)
<1>1. TokensTypeOK /\ Rotation /\ [TokensNext]_tokenVars => (TokensTypeOK /\ Rotation)'
  BY TokensStep
<1> QED BY <1>1, TokensInitial, PTL DEF TokensSpec

\* The service, the resource servers and the tokens stay well formed: every
\* key set that New and NewVerifier leave behind is a map of the service's keys.
THEOREM TokensTypeCorrect == TokensSpec => []TokensTypeOK
BY RotationCorrect, PTL

\* However the restarts of the service and of the resource servers interleave,
\* an unexpired token is accepted everywhere (New, verifyAccessToken).
THEOREM NoTokenStrandedCorrect == TokensSpec => []NoTokenStranded
<1>1. TokensTypeOK /\ Rotation => NoTokenStranded
  <2> SUFFICES ASSUME TokensTypeOK, Rotation, NEW token \in tokens, Live(token),
                      NEW keys \in KeySets
               PROVE  verifyAccessToken(keys, token, token.aud)
    BY DEF NoTokenStranded, Live
  <2>1. Holds(keys, token.kid, token.key)
    BY DEF Rotation
  <2>2. ~token.embedded /\ token.iat =< token.issued /\ token.issued =< clock
    BY DEF Rotation, Live
  <2>3. token.iat \in Int /\ token.issued \in Int /\ clock \in Int
    BY DEF TokensTypeOK, Token
  <2> QED BY <2>1, <2>2, <2>3 DEF verifyAccessToken, Holds, Live
<1> QED BY <1>1, RotationCorrect, PTL

\* Whatever key set a resource server was started with, it accepts only tokens
\* that the service granted for that resource no longer ago than AccessTTL.
THEOREM AcceptedIsGenuineCorrect == TokensSpec => []AcceptedIsGenuine
<1>1. TokensTypeOK /\ Rotation => AcceptedIsGenuine
  <2> SUFFICES ASSUME TokensTypeOK, Rotation, NEW token \in tokens,
                      NEW resource \in ResourceIDs, NEW keys \in KeySets,
                      verifyAccessToken(keys, token, resource)
               PROVE  /\ token.issued >= 0
                      /\ token.aud = resource
                      /\ token.issued =< clock /\ clock =< token.issued + AccessTTL
    BY DEF AcceptedIsGenuine
  <2>1. keys \in KeySet
    BY DEF KeySets, JWKS, TokensTypeOK
  <2>2. token.key \in ServiceKeys
    BY <2>1, KeySetIs DEF verifyAccessToken
  <2>3. /\ token.issued >= 0 /\ token.issued =< clock
        /\ token.exp =< token.issued + AccessTTL
    BY <2>2, TokenAssumption DEF Rotation
  <2>4. /\ token.exp \in Int /\ token.issued \in Int /\ clock \in Int
        /\ AccessTTL \in Int
    BY TokenAssumption DEF TokensTypeOK, Token
  <2> QED BY <2>3, <2>4 DEF verifyAccessToken
<1> QED BY <1>1, RotationCorrect, PTL
=============================================================================
