----------------------------- MODULE MemoryStore ----------------------------
(***************************************************************************)
(* pkg/memorytest/store.go: the other implementation of the Store port,    *)
(* on maps behind one mutex.  It shares transitions.go with sqlitestore,   *)
(* and differs from it in four ways: it compares instants, RegisterClient  *)
(* does not prune, there is nothing to roll back to, so the prune and the  *)
(* evictions of a call that is then refused stay, and what it returns is   *)
(* the struct it was given, which sqlitestore encodes and decodes.         *)
(*                                                                         *)
(* Every operation is its answer and its effect, whatever the answer.      *)
(***************************************************************************)
EXTENDS StoreAnswers

\* pruneExpiredLocked.
pruneExpired(table) ==
    Restrict(table, {d \in DOMAIN table : table[d].expires > clock})

pruneExpiredFamilies(table) ==
    Restrict(table, {d \in DOMAIN table :
                       \E e \in DOMAIN table : /\ table[e].family = table[d].family
                                               /\ table[e].expires > clock})

Auths == pruneExpired(authorizations)
Cons == pruneExpired(consents)
Cods == pruneExpired(codes)
Grs == pruneExpiredFamilies(grants)

\* Mutant: codes are forgotten.
clientHasLiveStateWithoutCodes(id) ==
    \/ \E d \in DOMAIN authorizations : /\ authorizations[d].binding.client = id
                                        /\ ~authorizations[d].consumed
                                        /\ authorizations[d].expires > clock
    \/ \E d \in DOMAIN consents : /\ consents[d].binding.client = id
                                  /\ ~consents[d].consumed
                                  /\ consents[d].expires > clock
    \/ \E d \in DOMAIN grants : /\ grants[d].client = id
                                /\ ~grants[d].revoked
                                /\ grants[d].expires > clock

clientHasLiveState(id) ==
    \/ \E d \in DOMAIN authorizations : /\ authorizations[d].binding.client = id
                                        /\ ~authorizations[d].consumed
                                        /\ authorizations[d].expires > clock
    \/ \E d \in DOMAIN consents : /\ consents[d].binding.client = id
                                  /\ ~consents[d].consumed
                                  /\ consents[d].expires > clock
    \/ \E d \in DOMAIN codes : /\ codes[d].binding.client = id
                               /\ ~codes[d].consumed
                               /\ codes[d].expires > clock
    \/ \E d \in DOMAIN grants : /\ grants[d].client = id
                                /\ ~grants[d].revoked
                                /\ grants[d].expires > clock

\* The clients that RegisterClient leaves before it counts them.
UsedClients ==
    Restrict(clients, {c \in DOMAIN clients :
                         \/ clients[c].lastUsed > clock - UnverifiedClientTTL
                         \/ clientHasLiveState(c)})

\* An insertion behind its admission check.
Admission(table, count, limit, key) ==
    IF count >= limit THEN "capacity" ELSE IF key \in DOMAIN table THEN "conflict" ELSE "ok"

\* Mutant: spent grants of the family are skipped.
revokeUnspent(table, family) ==
    [d \in DOMAIN table |->
        IF table[d].family = family /\ ~table[d].consumed
        THEN [table[d] EXCEPT !.revoked = TRUE] ELSE table[d]]

revokeFamilyLocked(table, family) ==
    [d \in DOMAIN table |->
        IF table[d].family = family THEN [table[d] EXCEPT !.revoked = TRUE] ELSE table[d]]

\* activeRefreshGrantCountLocked, after the prune of its caller.
activeRefreshGrantCount ==
    Cardinality({d \in DOMAIN Grs : ~Grs[d].consumed /\ ~Grs[d].revoked})

-----------------------------------------------------------------------------
\* A read: the row, or none behind ErrNotFound and ErrBinding.
Lookup(table, key) == IF key \in DOMAIN table THEN {table[key]} ELSE {}

MemGetClient(id) == Lookup(clients, id)
\* The stored struct still holds the Token it was created with, of which the
\* key is the digest.
WithToken(rows, token) == {[row |-> row, token |-> token] : row \in rows}

MemGetAuthorization(d) == WithToken(Lookup(authorizations, d), d)
MemGetConsent(d) == WithToken(Lookup(consents, d), d)

MemGetRefreshGrant(d) == Lookup(grants, d)

MemGetCodeForExchange(d, id, redirect) ==
    IF /\ d \in DOMAIN codes
       /\ codes[d].binding.client = id
       /\ codes[d].binding.redirect = redirect
    THEN {codes[d]} ELSE {}

-----------------------------------------------------------------------------
MemRegisterClientAnswer(id) ==
    Admission(UsedClients, Cardinality(DOMAIN UsedClients), MaxClients, id)

MemRegisterClient(id, client) ==
    /\ clients' = IF MemRegisterClientAnswer(id) = "ok"
                  THEN Insert(UsedClients, id, client) ELSE UsedClients
    /\ UNCHANGED <<authorizations, consents, codes, grants>>

MemTouchClientAnswer(id) == IF id \in DOMAIN clients THEN "ok" ELSE "not_found"

MemTouchClient(id, at) ==
    /\ clients' = IF id \in DOMAIN clients
                  THEN [clients EXCEPT ![id].lastUsed = at] ELSE clients
    /\ UNCHANGED <<authorizations, consents, codes, grants>>

MemCreateAuthorizationAnswer(d) ==
    Admission(Auths, Cardinality(DOMAIN Auths), MaxAuthorizations, d)

MemCreateAuthorization(d, authorization) ==
    /\ authorizations' = IF MemCreateAuthorizationAnswer(d) = "ok"
                         THEN Insert(Auths, d, authorization) ELSE Auths
    /\ consents' = Cons /\ codes' = Cods /\ grants' = Grs
    /\ UNCHANGED clients

MemCommitLoginAnswer(d, t, consent) ==
    IF d \notin DOMAIN Auths THEN "not_found"
    ELSE IF LoginCommitError(Auths[d], consent) # "ok" THEN LoginCommitError(Auths[d], consent)
    ELSE Admission(Cons, Cardinality(DOMAIN Cons), MaxConsents, t)

MemCommitLogin(d, t, consent) ==
    LET ok == MemCommitLoginAnswer(d, t, consent) = "ok"
    IN  /\ authorizations' = IF ok THEN Consume(Auths, d) ELSE Auths
        /\ consents' = IF ok THEN Insert(Cons, t, consent) ELSE Cons
        /\ codes' = Cods /\ grants' = Grs
        /\ UNCHANGED clients

MemCommitApprovalAnswer(d, t, code) ==
    IF d \notin DOMAIN Cons THEN "not_found"
    ELSE IF ApprovalError(Cons[d], code) # "ok" THEN ApprovalError(Cons[d], code)
    ELSE Admission(Cods, Cardinality(DOMAIN Cods), MaxCodes, t)

\* The RedirectURI of its result, which sqlitestore leaves empty, is dropped:
\* DecideConsent discards the result of CommitConsent.
MemCommitApproval(d, t, code) ==
    LET ok == MemCommitApprovalAnswer(d, t, code) = "ok"
    IN  /\ consents' = IF ok THEN Consume(Cons, d) ELSE Cons
        /\ codes' = IF ok THEN Insert(Cods, t, code) ELSE Cods
        /\ authorizations' = Auths /\ grants' = Grs
        /\ UNCHANGED clients

MemCommitDenialAnswer(d) ==
    IF d \notin DOMAIN Cons THEN "not_found" ELSE ConsentCommitError(Cons[d])

MemCommitDenial(d) ==
    /\ consents' = IF MemCommitDenialAnswer(d) = "ok" THEN Consume(Cons, d) ELSE Cons
    /\ authorizations' = Auths /\ codes' = Cods /\ grants' = Grs
    /\ UNCHANGED clients

MemCommitCodeExchangeAnswer(d, t, refresh) ==
    IF d \notin DOMAIN Cods THEN "not_found"
    ELSE IF CodeExchangeError(Cods[d], refresh) # "ok" THEN CodeExchangeError(Cods[d], refresh)
    ELSE Admission(Grs, activeRefreshGrantCount, MaxRefreshGrants, t)

MemCommitCodeExchange(d, t, refresh) ==
    LET ok == MemCommitCodeExchangeAnswer(d, t, refresh) = "ok"
    IN  /\ codes' = IF ok THEN Consume(Cods, d) ELSE Cods
        /\ grants' = IF ok THEN Insert(Grs, t, refresh) ELSE Grs
        /\ authorizations' = Auths /\ consents' = Cons
        /\ UNCHANGED clients

MemCommitRefreshRotationAnswer(d, family, generation, t, next) ==
    IF d \notin DOMAIN Grs THEN "not_found"
    ELSE IF Grs[d].family # family \/ Grs[d].generation # generation THEN "binding"
    ELSE IF Grs[d].consumed \/ Grs[d].revoked THEN "revoked"
    ELSE IF RefreshRotationError(Grs[d], next) # "ok" THEN RefreshRotationError(Grs[d], next)
    ELSE IF next.generation >= MaxRefreshGenerations THEN "revoked"
    ELSE IF t \in DOMAIN Grs THEN "conflict"
    ELSE "ok"

MemCommitRefreshRotation(d, family, generation, t, next) ==
    LET answer == MemCommitRefreshRotationAnswer(d, family, generation, t, next)
    IN  /\ grants' = CASE answer = "ok"      -> Insert(Consume(Grs, d), t, next)
                       [] answer = "revoked" -> revokeFamilyLocked(Grs, family)
                       [] OTHER              -> Grs
        /\ authorizations' = Auths /\ consents' = Cons /\ codes' = Cods
        /\ UNCHANGED clients

MemRevokeRefreshFamily(family) ==
    /\ grants' = revokeFamilyLocked(grants, family)
    /\ UNCHANGED <<clients, authorizations, consents, codes>>

MemPrune ==
    /\ authorizations' = Auths /\ consents' = Cons /\ codes' = Cods /\ grants' = Grs
    /\ UNCHANGED clients
=============================================================================
