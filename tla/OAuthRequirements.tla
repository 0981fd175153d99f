-------------------------- MODULE OAuthRequirements -------------------------
(***************************************************************************)
(* What the authorization server promises, stated over the state of        *)
(* OAuthEngine.                                                            *)
(***************************************************************************)
EXTENDS OAuthEngine

\* Every one-time credential advances the flow at most once, however many
\* requests present it at the same time and whatever expires or fails in
\* between: a transaction yields one consent, a consent one decision, a code
\* one refresh family, a refresh token one successor (CommitLogin,
\* CommitConsent, CommitCodeExchange, CommitRefreshRotation).
OneTimeUse ==
    \A a, b \in lineage : a[1] = b[1] /\ a[2] = b[2] => a[3] = b[3]

\* A client is never evicted from under an authorization that a user is
\* completing or has granted: an open consent, an unused code and an
\* unrevoked refresh grant always name a registered client (pruneClientsTx,
\* and CommitLogin acting on a client read earlier).
ClientsProtected ==
    /\ \A d \in DOMAIN consents :
         ~consents[d].consumed => consents[d].binding.client \in DOMAIN clients
    /\ \A d \in DOMAIN codes :
         ~codes[d].consumed => codes[d].binding.client \in DOMAIN clients
    /\ \A d \in DOMAIN grants :
         ~grants[d].revoked => grants[d].client \in DOMAIN clients

SameFamily(d, e) == grants[d].family = grants[e].family

\* A refresh family is a chain: no two grants share a generation, and every
\* grant but the newest has been spent, so at most one of them can be
\* rotated (CommitRefreshRotation under concurrent Refresh calls).
FamiliesAreChains ==
    \A d, e \in DOMAIN grants :
        SameFamily(d, e) =>
            /\ grants[d].generation = grants[e].generation => d = e
            /\ grants[d].generation < grants[e].generation => grants[d].consumed

\* Rotation keeps a family with one client, subject, resource and end of
\* authorization, and its scopes only ever narrow (Refresh proposes the
\* successor from a read that may be stale).
AuthorityOnlyNarrows ==
    \A d, e \in DOMAIN grants :
        SameFamily(d, e) =>
            /\ grants[d].client = grants[e].client
            /\ grants[d].subject = grants[e].subject
            /\ grants[d].resource = grants[e].resource
            /\ grants[d].expires = grants[e].expires
            /\ grants[d].generation =< grants[e].generation
                 => grants[e].scopes \subseteq grants[d].scopes

\* While any descendant of a rotated refresh token is stored, the token is
\* stored too, spent and in the same family: a replay of any old token of a
\* family is recognised as long as the family lives (pruneTx deletes whole
\* families only).
ReplayDetectable ==
    \A link \in lineage :
        (link[1] = "rotation" /\ link[3] \in DOMAIN grants) =>
            /\ link[2] \in DOMAIN grants
            /\ grants[link[2]].consumed
            /\ SameFamily(link[2], link[3])

\* An authorization ends strictly after any code it leads to, so a code that
\* is still exchangeable always yields a refresh grant with time left
\* (AuthorizationEnds is fixed at login, ExpiresAt of the code at consent).
AuthorizationOutlivesCode ==
    /\ \A d \in DOMAIN consents : consents[d].expires + CodeTTL < consents[d].ends
    /\ \A d \in DOMAIN codes : codes[d].expires < codes[d].ends

\* Nothing outlives its configured lifetime: however long a request waits
\* between the instant it reads and its commit, whatever row it has read and
\* however often a family is rotated, a transaction ends within
\* TransactionTTL, a consent within ConsentTTL, a code within CodeTTL, and
\* all authority that follows from a login within RefreshTTL.
LifetimesBounded ==
    /\ \A d \in DOMAIN authorizations : authorizations[d].expires =< clock + TransactionTTL
    /\ \A d \in DOMAIN consents :
         consents[d].expires =< clock + ConsentTTL /\ consents[d].ends =< clock + RefreshTTL
    /\ \A d \in DOMAIN codes :
         codes[d].expires =< clock + CodeTTL /\ codes[d].ends =< clock + RefreshTTL
    /\ \A d \in DOMAIN grants : grants[d].expires =< clock + RefreshTTL

\* Durable state stays within the configured capacities: rows of the four
\* short-lived tables, active refresh families (a rotation is not counted
\* at admission), and the generations of one family.
CapacityRespected ==
    /\ Cardinality(DOMAIN clients) =< MaxClients
    /\ Cardinality(DOMAIN authorizations) =< MaxAuthorizations
    /\ Cardinality(DOMAIN consents) =< MaxConsents
    /\ Cardinality(DOMAIN codes) =< MaxCodes
    /\ Cardinality(Active(grants)) =< MaxRefreshGrants
    /\ \A d \in DOMAIN grants : grants[d].generation < MaxRefreshGenerations

\* Once one grant of a family is revoked, no later state holds an unrevoked
\* grant of that family: a rotation in flight while the family is revoked
\* (by replay, by ineligibility, by the client) adds nothing to it.
RevokedFamiliesStayRevoked ==
    [][\A d \in DOMAIN grants : grants[d].revoked =>
         \A e \in DOMAIN grants' :
            grants'[e].family = grants[d].family => grants'[e].revoked]_vars

\* A step deletes only rows that have expired, so no client, user or replay
\* check loses state that is still valid (pruneTx).
OnlyExpiredStateIsDeleted ==
    [][/\ \A d \in DOMAIN authorizations :
            d \in DOMAIN authorizations' \/ authorizations[d].expires =< clock
       /\ \A d \in DOMAIN consents :
            d \in DOMAIN consents' \/ consents[d].expires =< clock
       /\ \A d \in DOMAIN codes :
            d \in DOMAIN codes' \/ codes[d].expires =< clock
       /\ \A d \in DOMAIN grants :
            d \in DOMAIN grants' \/ grants[d].expires =< clock]_vars

\* Whatever the clock's resolution, a row goes less than one second before
\* its expiry: that is how far the text order of pruneTx and the time order
\* of the engine differ.
DeletedAtMostASecondEarly ==
    [][/\ \A d \in DOMAIN authorizations :
            d \in DOMAIN authorizations' \/ authorizations[d].expires < clock + TicksPerSecond
       /\ \A d \in DOMAIN consents :
            d \in DOMAIN consents' \/ consents[d].expires < clock + TicksPerSecond
       /\ \A d \in DOMAIN codes :
            d \in DOMAIN codes' \/ codes[d].expires < clock + TicksPerSecond
       /\ \A d \in DOMAIN grants :
            d \in DOMAIN grants' \/ grants[d].expires < clock + TicksPerSecond]_vars

\* The rows kept for refresh families are bounded by the configured
\* capacities: at most MaxRefreshGrants families of MaxRefreshGenerations
\* rows (CommitCodeExchange counts only active grants).
RefreshRowsBounded ==
    Cardinality(DOMAIN grants) =< MaxRefreshGrants * MaxRefreshGenerations

\* An authorization in progress names a registered client
\* (BeginAuthorization touches the client before it stores the row).
AuthorizationsProtected ==
    \A d \in DOMAIN authorizations :
        ~authorizations[d].consumed /\ authorizations[d].expires > clock
            => authorizations[d].binding.client \in DOMAIN clients
=============================================================================
