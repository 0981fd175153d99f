---------------------------- MODULE StoreAnswers ----------------------------
(***************************************************************************)
(* What each transaction of pkg/sqlitestore answers: "ok" exactly when the *)
(* transaction of OAuthStore commits, otherwise the error of errors.go     *)
(* that its first failing check returns.  "io" is any error that is none   *)
(* of those (a failed statement, a failed commit, a cancelled context).    *)
(***************************************************************************)
EXTENDS OAuthStore

\* The errors that say that the presented state cannot be used.
Refusals == {"not_found", "consumed", "expired", "revoked", "conflict", "binding"}

StoreErrors == Refusals \cup {"capacity", "invalid", "io"}

-----------------------------------------------------------------------------
(* transitions.go: the error of each validator.                            *)

LoginCommitError(auth, consent) ==
    IF auth.consumed THEN "consumed"
    ELSE IF ~(auth.expires > clock) THEN "expired"
    ELSE IF consent.binding # auth.binding THEN "binding"
    ELSE IF ~ValidateLoginCommit(auth, consent) THEN "invalid"
    ELSE "ok"

ConsentCommitError(consent) ==
    IF consent.consumed THEN "consumed"
    ELSE IF ~(consent.expires > clock) THEN "expired"
    ELSE "ok"

ApprovalError(consent, code) ==
    IF ConsentCommitError(consent) # "ok" THEN ConsentCommitError(consent)
    ELSE IF ~ValidateApprovedCode(consent, code) THEN "binding"
    ELSE "ok"

CodeExchangeError(code, refresh) ==
    IF code.consumed THEN "consumed"
    ELSE IF ~(code.expires > clock) THEN "expired"
    ELSE IF ~ValidateCodeExchangeCommit(code, refresh) THEN "binding"
    ELSE "ok"

RefreshRotationError(current, next) ==
    IF current.revoked THEN "revoked"
    ELSE IF current.consumed THEN "consumed"
    ELSE IF ~(current.expires > clock) THEN "expired"
    ELSE IF ~ValidateRefreshRotation(current, next) THEN "binding"
    ELSE "ok"

-----------------------------------------------------------------------------
(* The transactions.  Each prunes first and inserts after the admission    *)
(* check; a primary key that is taken is a conflict.                       *)

RegisterClientAnswer(id) ==
    LET kept == RetainedClients(PruneRows(authorizations), PruneRows(consents),
                                PruneRows(codes), PruneFamilies(grants))
    IN  IF Cardinality(DOMAIN kept) >= MaxClients THEN "capacity"
        ELSE IF id \in DOMAIN kept THEN "conflict"
        ELSE "ok"

TouchClientAnswer(id) == IF id \in DOMAIN clients THEN "ok" ELSE "not_found"

CreateAuthorizationAnswer(d) ==
    LET auths == PruneRows(authorizations)
    IN  IF Cardinality(DOMAIN auths) >= MaxAuthorizations THEN "capacity"
        ELSE IF d \in DOMAIN auths THEN "conflict"
        ELSE "ok"

CommitLoginAnswer(d, t, consent) ==
    LET auths == PruneRows(authorizations)
        cons  == PruneRows(consents)
    IN  IF d \notin DOMAIN auths THEN "not_found"
        ELSE IF LoginCommitError(auths[d], consent) # "ok"
             THEN LoginCommitError(auths[d], consent)
        ELSE IF Cardinality(DOMAIN cons) >= MaxConsents THEN "capacity"
        ELSE IF t \in DOMAIN cons THEN "conflict"
        ELSE "ok"

CommitApprovalAnswer(d, t, code) ==
    LET cons == PruneRows(consents)
        cods == PruneRows(codes)
    IN  IF d \notin DOMAIN cons THEN "not_found"
        ELSE IF ApprovalError(cons[d], code) # "ok" THEN ApprovalError(cons[d], code)
        ELSE IF Cardinality(DOMAIN cods) >= MaxCodes THEN "capacity"
        ELSE IF t \in DOMAIN cods THEN "conflict"
        ELSE "ok"

CommitDenialAnswer(d) ==
    LET cons == PruneRows(consents)
    IN  IF d \notin DOMAIN cons THEN "not_found" ELSE ConsentCommitError(cons[d])

CommitCodeExchangeAnswer(d, t, refresh) ==
    LET cods == PruneRows(codes)
        grs  == PruneFamilies(grants)
    IN  IF d \notin DOMAIN cods THEN "not_found"
        ELSE IF CodeExchangeError(cods[d], refresh) # "ok"
             THEN CodeExchangeError(cods[d], refresh)
        ELSE IF Cardinality(Active(grs)) >= MaxRefreshGrants THEN "capacity"
        ELSE IF t \in DOMAIN grs THEN "conflict"
        ELSE "ok"

\* "revoked" is the one error whose transaction commits: the family is
\* revoked (RotationOfSpentGrant, RotationPastLimit).
CommitRefreshRotationAnswer(d, family, generation, t, next) ==
    LET grs == PruneFamilies(grants)
    IN  IF d \notin DOMAIN grs THEN "not_found"
        ELSE IF grs[d].family # family \/ grs[d].generation # generation THEN "binding"
        ELSE IF grs[d].consumed \/ grs[d].revoked THEN "revoked"
        ELSE IF RefreshRotationError(decodeRefresh(grs[d]), next) # "ok"
             THEN RefreshRotationError(decodeRefresh(grs[d]), next)
        ELSE IF next.generation >= MaxRefreshGenerations THEN "revoked"
        ELSE IF t \in DOMAIN grs THEN "conflict"
        ELSE "ok"
=============================================================================
