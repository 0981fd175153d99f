-------------------------- MODULE ProtectionProofs --------------------------
(***************************************************************************)
(* What the store deletes and keeps: a client outlives every authorization *)
(* that names it, an authorization outlives its code, capacities and       *)
(* lifetimes hold, and only rows at their end are deleted.                 *)
(***************************************************************************)
EXTENDS OAuthProofs, OAuthLiveness, FiniteSetTheorems

-----------------------------------------------------------------------------
(* Where the rows of the next state come from                              *)

\* Row d of T is still there, under the same binding and expiry, and a spent
\* row stays spent.
Kept(T, T2, d) ==
    /\ d \in DOMAIN T
    /\ T2[d].binding = T[d].binding
    /\ T2[d].expires = T[d].expires
    /\ T[d].consumed => T2[d].consumed

\* The same of a consent or a code, which also keep what the user granted.
KeptConsent(T, T2, d) ==
    /\ Kept(T, T2, d)
    /\ T2[d].subject = T[d].subject
    /\ T2[d].scopes = T[d].scopes
    /\ T2[d].ends = T[d].ends

\* An authorization that BeginAuthorization stores for a checked client.
FromBegin(row) ==
    /\ ~row.consumed
    /\ row.expires =< clock + TransactionTTL
    /\ Cardinality(DOMAIN PruneRows(authorizations)) < MaxAuthorizations
    /\ \E r \in Requests : req[r].op = "begin_create" /\ row.binding = req[r].binding

\* A consent that CompleteLogin derives from an unspent transaction.
FromLogin(row) ==
    /\ ~row.consumed
    /\ Cardinality(DOMAIN PruneRows(consents)) < MaxConsents
    /\ \E r \in Requests, now \in Nat :
        /\ now =< clock
        /\ req[r].op = "login_commit"
        /\ req[r].d \in DOMAIN authorizations /\ ~authorizations[req[r].d].consumed
        /\ row.binding = req[r].binding
        /\ row.expires = now + ConsentTTL /\ row.ends = now + RefreshTTL

\* A code that DecideConsent derives from an open consent.
FromConsent(row) ==
    /\ ~row.consumed
    /\ row.expires =< clock + CodeTTL
    /\ Cardinality(DOMAIN PruneRows(codes)) < MaxCodes
    /\ \E d \in DOMAIN consents :
        /\ ~consents[d].consumed
        /\ row.binding = consents[d].binding
        /\ row.ends = consents[d].ends
        /\ row.expires < consents[d].expires + CodeTTL

\* A grant that ExchangeCode derives from an unspent code, or Refresh from an
\* unrevoked grant.
FromCodeOrGrant(row) ==
    \/ \E d \in DOMAIN codes : ~codes[d].consumed /\ row.client = codes[d].binding.client
    \/ \E d \in DOMAIN grants : ~grants[d].revoked /\ row.client = grants[d].client

AuthorizationRows ==
    \A d \in DOMAIN authorizations' :
        \/ Kept(authorizations, authorizations', d)
        \/ Fresh("transaction", d) /\ FromBegin(authorizations'[d])

ConsentRows ==
    \A d \in DOMAIN consents' :
        \/ KeptConsent(consents, consents', d)
        \/ Fresh("consent", d) /\ FromLogin(consents'[d])

CodeRows ==
    \A d \in DOMAIN codes' :
        \/ KeptConsent(codes, codes', d)
        \/ Fresh("code", d) /\ FromConsent(codes'[d])

GrantRows ==
    \A d \in DOMAIN grants' :
        \/ /\ d \in DOMAIN grants
           /\ grants'[d].client = grants[d].client
           /\ grants[d].revoked => grants'[d].revoked
        \/ FromCodeOrGrant(grants'[d])

\* Rows that are only deleted are kept.
LEMMA ShrinksKept ==
    ASSUME NEW T, NEW T2, Shrinks(T, T2)
    PROVE  \A d \in DOMAIN T2 : Kept(T, T2, d) /\ KeptConsent(T, T2, d)
BY DEF Shrinks, Kept, KeptConsent

\* Marking a row of the pruned table spent keeps the rows.
LEMMA ConsumeKeepsAuthorizations ==
    ASSUME NEW T, NEW P, NEW keys, NEW d \in DOMAIN P, Shrinks(T, P),
           IsTable(P, keys, Authorization)
    PROVE  \A e \in DOMAIN Consume(P, d) : Kept(T, Consume(P, d), e)
BY ConsumeAuthorization DEF Shrinks, Kept

LEMMA ConsumeKeepsConsents ==
    ASSUME NEW T, NEW P, NEW keys, NEW d \in DOMAIN P, Shrinks(T, P),
           IsTable(P, keys, Consent)
    PROVE  \A e \in DOMAIN Consume(P, d) : KeptConsent(T, Consume(P, d), e)
BY ConsumeConsent DEF Shrinks, Kept, KeptConsent

\* The rows after an insertion into the pruned table.
LEMMA InsertRows ==
    ASSUME NEW T, NEW P, NEW k, NEW row, Shrinks(T, P)
    PROVE  \A d \in DOMAIN Insert(P, k, row) :
             \/ Kept(T, Insert(P, k, row), d) /\ KeptConsent(T, Insert(P, k, row), d)
             \/ d = k /\ Insert(P, k, row)[d] = row
BY DEF Insert, Kept, KeptConsent, Shrinks

\* The tables of transactions, consents and codes, step by step.
LEMMA CredentialRows ==
    ASSUME TypeOK, [Next]_vars PROVE AuthorizationRows /\ ConsentRows /\ CodeRows
<1>p. /\ Shrinks(authorizations, PruneRows(authorizations))
      /\ Shrinks(consents, PruneRows(consents)) /\ Shrinks(codes, PruneRows(codes))
  BY PruneShrinks
<1>t. /\ IsTable(PruneRows(authorizations), Transactions, Authorization)
      /\ IsTable(PruneRows(consents), ConsentTokens, Consent)
      /\ IsTable(PruneRows(codes), Codes, Consent)
  BY PruneTable DEF TypeOK, StoreTypeOK, Code
<1>a. ASSUME Shrinks(authorizations, authorizations') PROVE AuthorizationRows
  BY <1>a, ShrinksKept DEF AuthorizationRows
<1>c. ASSUME Shrinks(consents, consents') PROVE ConsentRows
  BY <1>c, ShrinksKept DEF ConsentRows
<1>o. ASSUME Shrinks(codes, codes') PROVE CodeRows
  BY <1>o, ShrinksKept DEF CodeRows
<1>1. CASE QuietStep
  BY <1>1, <1>a, <1>c, <1>o DEF QuietStep
<1>2. ASSUME NEW r \in Requests, BeginCreateAuthorization(r)
      PROVE  AuthorizationRows /\ ConsentRows /\ CodeRows
  <2>0. req[r] \in BeginRequest /\ clock \in Nat
    BY <1>2, RequestShape DEF BeginCreateAuthorization, TypeOK, StoreTypeOK
  <2> DEFINE new(now) == [binding |-> req[r].binding, scopes |-> req[r].scopes,
                          expires |-> now + TransactionTTL, consumed |-> FALSE]
  <2>a. PICK t \in Transactions, now \in req[r].at .. clock :
          Fresh("transaction", t) /\ CreateAuthorization(t, new(now))
    BY <1>2 DEF BeginCreateAuthorization
  <2> DEFINE row == new(now)
  <2>1. /\ row.binding = req[r].binding /\ ~row.consumed
        /\ row.expires = now + TransactionTTL
        /\ Cardinality(DOMAIN PruneRows(authorizations)) < MaxAuthorizations
        /\ authorizations' = Insert(PruneRows(authorizations), t, row)
        /\ consents' = PruneRows(consents) /\ codes' = PruneRows(codes)
    BY <2>a DEF CreateAuthorization
  <2> HIDE DEF row
  <2>4. row.expires =< clock + TransactionTTL
    BY <2>0, <2>a, <2>1, Lifetimes DEF BeginRequest
  <2>3. FromBegin(row)
    BY <1>2, <2>1, <2>4 DEF FromBegin, BeginCreateAuthorization
  <2>2. AuthorizationRows
    BY <1>p, <2>a, <2>1, <2>3, InsertRows DEF AuthorizationRows
  <2> QED BY <1>p, <1>c, <1>o, <2>1, <2>2
<1>3. ASSUME NEW r \in Requests, LoginCommit(r)
      PROVE  AuthorizationRows /\ ConsentRows /\ CodeRows
  <2> DEFINE d == req[r].d
  <2>0. req[r] \in LoginRequest
    BY <1>3, RequestShape DEF LoginCommit, TypeOK
  <2>1. PICK t \in ConsentTokens, available \in SUBSET Scopes, now \in req[r].at .. clock :
          /\ Fresh("consent", t)
          /\ consents' = Insert(PruneRows(consents), t,
                [binding |-> req[r].binding, subject |-> req[r].subject,
                 scopes |-> req[r].scopes \cap available,
                 ends |-> now + RefreshTTL, expires |-> now + ConsentTTL,
                 consumed |-> FALSE])
    BY <1>3 DEF LoginCommit, CommitLogin
  <2> DEFINE row == [binding |-> req[r].binding, subject |-> req[r].subject,
                     scopes |-> req[r].scopes \cap available,
                     ends |-> now + RefreshTTL, expires |-> now + ConsentTTL,
                     consumed |-> FALSE]
  <2>2. /\ d \in DOMAIN PruneRows(authorizations)
        /\ ~PruneRows(authorizations)[d].consumed
        /\ authorizations' = Consume(PruneRows(authorizations), d)
        /\ codes' = PruneRows(codes) /\ req[r].op = "login_commit"
        /\ Cardinality(DOMAIN PruneRows(consents)) < MaxConsents
    BY <1>3 DEF LoginCommit, CommitLogin, ValidateLoginCommit
  <2>3. now \in Nat /\ now =< clock
    BY <2>0, <2>1 DEF LoginRequest, TypeOK, StoreTypeOK
  <2>4. FromLogin(row)
    BY <1>p, <2>1, <2>2, <2>3 DEF FromLogin, Shrinks
  <2>5. ConsentRows
    BY <1>p, <2>1, <2>4, InsertRows DEF ConsentRows
  <2>6. AuthorizationRows
    BY <1>p, <1>t, <2>2, ConsumeKeepsAuthorizations DEF AuthorizationRows
  <2> QED BY <1>p, <1>o, <2>2, <2>5, <2>6
<1>4. ASSUME NEW r \in Requests, ConsentApprove(r)
      PROVE  AuthorizationRows /\ ConsentRows /\ CodeRows
  <2> DEFINE d == req[r].d
             cons == PruneRows(consents)
  <2>0. req[r] \in ConsentRequest
    BY <1>4, RequestShape DEF ConsentApprove, TypeOK
  <2> DEFINE code(selected, now) ==
               [binding |-> req[r].read.binding, subject |-> req[r].read.subject,
                scopes |-> selected, ends |-> req[r].read.ends,
                expires |-> now + CodeTTL, consumed |-> FALSE]
  <2>a. PICK t \in Codes, selected \in SUBSET req[r].read.scopes, now \in req[r].at .. clock :
          Fresh("code", t) /\ CommitApproval(d, t, code(selected, now))
    BY <1>4 DEF ConsentApprove
  <2> DEFINE row == code(selected, now)
  <2>1. /\ codes' = Insert(PruneRows(codes), t, row)
        /\ row.binding = cons[d].binding /\ row.ends = cons[d].ends
        /\ row.expires = now + CodeTTL /\ ~row.consumed
    BY <2>a DEF CommitApproval, ValidateApprovedCode
  <2>2. /\ d \in DOMAIN cons /\ ~cons[d].consumed /\ cons[d].expires > clock
        /\ consents' = Consume(cons, d)
        /\ authorizations' = PruneRows(authorizations)
        /\ Cardinality(DOMAIN PruneRows(codes)) < MaxCodes
    BY <1>4 DEF ConsentApprove, CommitApproval, ValidateConsentCommit
  <2>3. d \in DOMAIN consents /\ cons[d] = consents[d] /\ consents[d].expires \in Int
    BY <1>p, <2>2 DEF Shrinks, TypeOK, StoreTypeOK, IsTable, Consent, Time
  <2>4. now =< clock /\ now \in Int /\ clock \in Int /\ CodeTTL \in Int
    BY <2>0, <2>a, Lifetimes DEF ConsentRequest, TypeOK, StoreTypeOK
  <2>5. row.expires < consents[d].expires + CodeTTL
    <3>1. row.expires = now + CodeTTL /\ consents[d].expires > clock
      BY <2>1, <2>2, <2>3
    <3> QED BY <2>3, <2>4, <3>1
  <2>9. row.expires =< clock + CodeTTL
    BY <2>1, <2>4
  <2>6. FromConsent(row)
    BY <2>1, <2>2, <2>3, <2>5, <2>9 DEF FromConsent
  <2>7. CodeRows
    BY <1>p, <2>a, <2>1, <2>6, InsertRows DEF CodeRows
  <2>8. ConsentRows
    BY <1>p, <1>t, <2>2, ConsumeKeepsConsents DEF ConsentRows
  <2> QED BY <1>p, <1>a, <2>2, <2>7, <2>8
<1>5. ASSUME NEW r \in Requests, ConsentDeny(r)
      PROVE  AuthorizationRows /\ ConsentRows /\ CodeRows
  <2>1. /\ req[r].d \in DOMAIN PruneRows(consents)
        /\ consents' = Consume(PruneRows(consents), req[r].d)
        /\ authorizations' = PruneRows(authorizations) /\ codes' = PruneRows(codes)
    BY <1>5 DEF ConsentDeny, CommitDenial
  <2>2. ConsentRows
    BY <1>p, <1>t, <2>1, ConsumeKeepsConsents DEF ConsentRows
  <2> QED BY <1>p, <1>a, <1>o, <2>1, <2>2
<1>6. ASSUME NEW r \in Requests, ExchangeCommit(r)
      PROVE  AuthorizationRows /\ ConsentRows /\ CodeRows
  <2>1. /\ req[r].d \in DOMAIN PruneRows(codes)
        /\ codes' = Consume(PruneRows(codes), req[r].d)
        /\ authorizations' = PruneRows(authorizations) /\ consents' = PruneRows(consents)
    BY <1>6 DEF ExchangeCommit, CommitCodeExchange
  <2>2. CodeRows
    BY <1>p, <1>t, <2>1, ConsumeKeepsConsents DEF CodeRows
  <2> QED BY <1>p, <1>a, <1>c, <2>1, <2>2
<1>7. ASSUME NEW r \in Requests, RefreshRotate(r)
      PROVE  AuthorizationRows /\ ConsentRows /\ CodeRows
  BY <1>7, <1>p, <1>a, <1>c, <1>o DEF RefreshRotate, PruneBesidesGrants
<1> QED BY <1>1, <1>2, <1>3, <1>4, <1>5, <1>6, <1>7, Quiet DEF Next, Step, QuietAction

\* The grants table, step by step.
LEMMA RefreshRows ==
    ASSUME TypeOK, [Next]_vars PROVE GrantRows
<1> DEFINE grs == PruneFamilies(grants)
<1>t. IsTable(grants, RefreshTokens, Grant) /\ IsTable(grs, RefreshTokens, Grant)
  BY PruneTable DEF TypeOK, StoreTypeOK
<1>s. \A d \in DOMAIN grs : d \in DOMAIN grants /\ grs[d] = grants[d]
  BY PruneShrinks DEF Shrinks
<1> HIDE DEF grs
<1>1. CASE GrantsPruned
  BY <1>1, <1>s DEF GrantsPruned, GrantRows, grs
<1>2. ASSUME NEW family, GrantsRevoked(family) PROVE GrantRows
  <2>1. CASE grants' = RevokeRows(grants, family)
    BY <1>t, <2>1, RevokeFacts DEF GrantRows
  <2>2. CASE grants' = RevokeRows(grs, family)
    BY <1>t, <1>s, <2>2, RevokeFacts DEF GrantRows
  <2> QED BY <1>2, <2>1, <2>2 DEF GrantsRevoked, grs
<1>3. ASSUME NEW t, NEW row, FamilyStarts(t, row) PROVE GrantRows
  <2>1. /\ DOMAIN grants' = DOMAIN grs \cup {t} /\ grants'[t] = row
        /\ \A a \in DOMAIN grs : a # t => grants'[a] = grs[a]
    BY <1>3 DEF FamilyStarts, Insert, grs
  <2>2. FromCodeOrGrant(row)
    BY <1>3 DEF FamilyStarts, FromCodeOrGrant
  <2> QED BY <1>s, <2>1, <2>2 DEF GrantRows
<1>4. ASSUME NEW d, NEW t, NEW row, GrantRotates(d, t, row) PROVE GrantRows
  <2>1. /\ d \in DOMAIN grs /\ ~grs[d].revoked /\ row.client = grs[d].client
        /\ grants' = Insert(Consume(grs, d), t, row)
    BY <1>4 DEF GrantRotates, grs
  <2>2. /\ DOMAIN Consume(grs, d) = DOMAIN grs
        /\ \A a \in DOMAIN grs : /\ Consume(grs, d)[a].client = grs[a].client
                                 /\ Consume(grs, d)[a].revoked = grs[a].revoked
    BY <1>t, <2>1, ConsumeGrant
  <2>3. /\ DOMAIN grants' = DOMAIN grs \cup {t} /\ grants'[t] = row
        /\ \A a \in DOMAIN grs : a # t => grants'[a] = Consume(grs, d)[a]
    BY <2>1, <2>2 DEF Insert
  <2>4. FromCodeOrGrant(row)
    BY <1>s, <2>1 DEF FromCodeOrGrant
  <2> QED BY <1>s, <2>2, <2>3, <2>4 DEF GrantRows
<1> QED BY <1>1, <1>2, <1>3, <1>4, GrantSteps

-----------------------------------------------------------------------------
(* Clients outlive what names them                                         *)

\* Only a registration evicts clients (pruneClientsTx runs in RegisterClient).
LEMMA ClientsStay ==
    ASSUME TypeOK, [Next]_vars, \A r \in Requests : ~RegisterCommit(r)
    PROVE  DOMAIN clients' = DOMAIN clients
<1>1. ASSUME NEW r \in Requests, BeginTouchClient(r) PROVE DOMAIN clients' = DOMAIN clients
  BY <1>1 DEF BeginTouchClient, TouchClient
<1>2. ASSUME NEW r \in Requests, Step(r), ~BeginTouchClient(r), ~RegisterCommit(r)
      PROVE  clients' = clients
  <2>1. CASE RegisterStart(r) \/ BeginGetClient(r) \/ LoginGetAuthorization(r)
             \/ LoginGetClient(r) \/ ConsentGet(r) \/ ExchangeGetCode(r)
             \/ RefreshGetGrant(r) \/ RevokeGetGrant(r) \/ Fail(r)
    <3>1. ReadOnly
      BY <2>1 DEF RegisterStart, BeginGetClient, LoginGetAuthorization, LoginGetClient,
                  ConsentGet, ExchangeGetCode, RefreshGetGrant, RevokeGetGrant, Fail
    <3> QED BY <3>1 DEF ReadOnly, storeVars
  <2>2. CASE BeginCreateAuthorization(r) \/ LoginCommit(r) \/ ConsentApprove(r)
             \/ ConsentDeny(r) \/ ExchangeCommit(r)
    BY <2>2 DEF BeginCreateAuthorization, CreateAuthorization, LoginCommit, CommitLogin,
                ConsentApprove, CommitApproval, ConsentDeny, CommitDenial,
                ExchangeCommit, CommitCodeExchange
  <2>3. CASE RefreshRevokeFamily(r) \/ RevokeCommit(r) \/ RefreshRotate(r)
             \/ RefreshLosesRace(r) \/ RefreshReachesLimit(r)
    BY <2>3 DEF RefreshRevokeFamily, RevokeCommit, RevokeRefreshFamily, RefreshRotate,
                RefreshLosesRace, RefreshReachesLimit, PruneBesidesGrants
  <2> QED BY <1>2, <2>1, <2>2, <2>3 DEF Step
<1>3. CASE Crash \/ HostPrune \/ Tick \/ UNCHANGED vars
  BY <1>3 DEF Crash, HostPrune, Prune, PruneBesidesGrants, Tick, vars, ReadOnly, storeVars
<1> QED BY <1>1, <1>2, <1>3 DEF Next

\* What a registration keeps: every client named by an unspent row that the
\* prune before it has left, or by an unrevoked grant.
LEMMA RegistrationKeeps ==
    ASSUME GrantInv, NEW r \in Requests, RegisterCommit(r)
    PROVE  /\ authorizations' = PruneRows(authorizations)
           /\ \A d \in DOMAIN authorizations' : ~authorizations'[d].consumed /\
                authorizations'[d].binding.client \in DOMAIN clients =>
                authorizations'[d].binding.client \in DOMAIN clients'
           /\ \A d \in DOMAIN consents' : ~consents'[d].consumed /\
                consents'[d].binding.client \in DOMAIN clients =>
                consents'[d].binding.client \in DOMAIN clients'
           /\ \A d \in DOMAIN codes' : ~codes'[d].consumed /\
                codes'[d].binding.client \in DOMAIN clients =>
                codes'[d].binding.client \in DOMAIN clients'
           /\ \A d \in DOMAIN grants' : ~grants'[d].revoked /\
                grants'[d].client \in DOMAIN clients =>
                grants'[d].client \in DOMAIN clients'
<1> DEFINE auths == PruneRows(authorizations)
           cons == PruneRows(consents)
           cods == PruneRows(codes)
           grs == PruneFamilies(grants)
<1>1. PICK id, row :
        /\ clients' = Insert(RetainedClients(auths, cons, cods, grs), id, row)
        /\ authorizations' = auths /\ consents' = cons /\ codes' = cods /\ grants' = grs
  BY DEF RegisterCommit, RegisterClient
<1>2. \A c \in DOMAIN clients : c \in Referenced(auths, cons, cods, grs) => c \in DOMAIN clients'
  BY <1>1 DEF Insert, RetainedClients, Restrict
<1>3. /\ \A d \in DOMAIN auths : TextAfter(auths[d].expires, clock)
      /\ \A d \in DOMAIN cons : TextAfter(cons[d].expires, clock)
      /\ \A d \in DOMAIN cods : TextAfter(cods[d].expires, clock)
  BY PruneFacts
<1>4. \A d \in DOMAIN grs : TextAfter(grs[d].expires, clock)
  <2> SUFFICES ASSUME NEW d \in DOMAIN grs PROVE TextAfter(grs[d].expires, clock)
    OBVIOUS
  <2>1. d \in DOMAIN grants /\ grs[d] = grants[d]
    BY PruneFacts
  <2>2. PICK e \in DOMAIN grants : /\ grants[e].family = grants[d].family
                                   /\ TextAfter(grants[e].expires, clock)
    BY PruneFacts
  <2>3. grants[e].expires = grants[d].expires
    BY <2>1, <2>2 DEF GrantInv, FamilyInv
  <2> QED BY <2>1, <2>2, <2>3
<1> HIDE DEF auths, cons, cods, grs
<1>5. /\ \A d \in DOMAIN auths : ~auths[d].consumed =>
           auths[d].binding.client \in Referenced(auths, cons, cods, grs)
      /\ \A d \in DOMAIN cons : ~cons[d].consumed =>
           cons[d].binding.client \in Referenced(auths, cons, cods, grs)
      /\ \A d \in DOMAIN cods : ~cods[d].consumed =>
           cods[d].binding.client \in Referenced(auths, cons, cods, grs)
      /\ \A d \in DOMAIN grs : ~grs[d].revoked =>
           grs[d].client \in Referenced(auths, cons, cods, grs)
  BY <1>3, <1>4 DEF Referenced
<1> QED BY <1>1, <1>2, <1>5 DEF auths

\* No step takes the client from an open consent, an unused code or an
\* unrevoked grant.
LEMMA NextClients ==
    ASSUME IndInv, [Next]_vars PROVE ClientsProtected'
<1>0. TypeOK /\ GrantInv
  BY DEF IndInv, GrantInv, CredentialInv
<1>1. ASSUME NEW row, FromLogin(row) PROVE row.binding.client \in DOMAIN clients
  BY <1>1 DEF FromLogin, IndInv, LoginsProtected
<1>2. ASSUME NEW row, FromConsent(row) PROVE row.binding.client \in DOMAIN clients
  BY <1>2 DEF FromConsent, IndInv, ClientsProtected
<1>3. ASSUME NEW row, FromCodeOrGrant(row) PROVE row.client \in DOMAIN clients
  BY <1>3 DEF FromCodeOrGrant, IndInv, ClientsProtected
<1>4. /\ \A d \in DOMAIN consents' :
           ~consents'[d].consumed => consents'[d].binding.client \in DOMAIN clients
      /\ \A d \in DOMAIN codes' :
           ~codes'[d].consumed => codes'[d].binding.client \in DOMAIN clients
  BY <1>0, <1>1, <1>2, CredentialRows
     DEF ConsentRows, CodeRows, KeptConsent, Kept, IndInv, ClientsProtected
<1>5. \A d \in DOMAIN grants' : ~grants'[d].revoked => grants'[d].client \in DOMAIN clients
  BY <1>0, <1>3, RefreshRows DEF GrantRows, IndInv, ClientsProtected
<1>6. CASE \E r \in Requests : RegisterCommit(r)
  BY <1>0, <1>4, <1>5, <1>6, RegistrationKeeps DEF ClientsProtected
<1>7. CASE \A r \in Requests : ~RegisterCommit(r)
  BY <1>0, <1>4, <1>5, <1>7, ClientsStay DEF ClientsProtected
<1> QED BY <1>6, <1>7

\* A slot after a step: only CompleteLogin puts a login into it, with the
\* binding of the transaction it read or was already carrying.
LoginRead(q) ==
    /\ req'[q].op = "login_client"
    /\ req'[q].d \in DOMAIN authorizations
    /\ req'[q].binding = authorizations[req'[q].d].binding
    /\ ReadOnly

LoginChecked(q) ==
    /\ req[q].op = "login_client"
    /\ req'[q].d = req[q].d /\ req'[q].binding = req[q].binding
    /\ req'[q].binding.client \in DOMAIN clients
    /\ ReadOnly

LEMMA LoginSlots ==
    ASSUME TypeOK, [Next]_vars, NEW q \in Requests,
           req'[q].op \in {"login_client", "login_commit"}
    PROVE  req'[q] = req[q] \/ LoginRead(q) \/ LoginChecked(q)
<1>q. req \in [Requests -> Request]
  BY DEF TypeOK
<1>1. ASSUME NEW r \in Requests, NEW x, Proceed(r, x),
             x.op \notin {"login_client", "login_commit"}
      PROVE  req'[q] = req[q]
  BY <1>q, <1>1 DEF Proceed
<1>2. ASSUME NEW r \in Requests, Finish(r) PROVE req'[q] = req[q]
  BY <1>1, <1>2 DEF Finish, Idle
<1>3. ASSUME NEW r \in Requests, RegisterStart(r) \/ BeginGetClient(r) \/ ConsentGet(r)
                                 \/ ExchangeGetCode(r) \/ RefreshGetGrant(r)
                                 \/ RevokeGetGrant(r)
      PROVE  req'[q] = req[q]
  <2>1. CASE RegisterStart(r)
    BY <1>1, <2>1 DEF RegisterStart
  <2>2. CASE BeginGetClient(r)
    BY <1>1, <2>2 DEF BeginGetClient
  <2>3. CASE ConsentGet(r)
    BY <1>1, <2>3 DEF ConsentGet
  <2>4. CASE ExchangeGetCode(r)
    BY <1>1, <2>4 DEF ExchangeGetCode
  <2>5. CASE RefreshGetGrant(r)
    BY <1>1, <2>5 DEF RefreshGetGrant
  <2>6. CASE RevokeGetGrant(r)
    BY <1>1, <2>6 DEF RevokeGetGrant
  <2> QED BY <1>3, <2>1, <2>2, <2>3, <2>4, <2>5, <2>6
<1>4. ASSUME NEW r \in Requests, BeginTouchClient(r) PROVE req'[q] = req[q]
  <2>1. req[r] \in BeginRequest
    BY <1>4, <1>q, RequestShape DEF BeginTouchClient
  <2>2. [req[r] EXCEPT !.op = "begin_create", !.at = clock].op = "begin_create"
    BY <2>1 DEF BeginRequest
  <2> QED BY <1>1, <1>4, <2>2 DEF BeginTouchClient
<1>5. ASSUME NEW r \in Requests,
             \/ RegisterCommit(r) \/ BeginCreateAuthorization(r) \/ LoginCommit(r)
             \/ ConsentApprove(r) \/ ConsentDeny(r) \/ ExchangeCommit(r)
             \/ RefreshRevokeFamily(r) \/ RefreshRotate(r) \/ RefreshLosesRace(r)
             \/ RefreshReachesLimit(r) \/ RevokeCommit(r) \/ Fail(r)
      PROVE  req'[q] = req[q]
  <2>1. Finish(r)
    BY <1>5 DEF RegisterCommit, BeginCreateAuthorization, LoginCommit, ConsentApprove,
                ConsentDeny, ExchangeCommit, RefreshRevokeFamily, RefreshRotate,
                RefreshLosesRace, RefreshReachesLimit, RevokeCommit, Fail
  <2> QED BY <1>2, <2>1
<1>6. ASSUME NEW r \in Requests, LoginGetAuthorization(r)
      PROVE  req'[q] = req[q] \/ LoginRead(q)
  <2>1. PICK d \in Transactions, subject \in Subjects :
          \E auth \in GetAuthorization(d) :
            Proceed(r, [op |-> "login_client", d |-> d, binding |-> auth.binding,
                        subject |-> subject, scopes |-> auth.scopes, at |-> clock])
    BY <1>6 DEF LoginGetAuthorization
  <2>2. \A auth \in GetAuthorization(d) : d \in DOMAIN authorizations /\ auth = authorizations[d]
    BY DEF GetAuthorization, Found
  <2>3. ReadOnly
    BY <1>6 DEF LoginGetAuthorization
  <2> QED BY <1>q, <2>1, <2>2, <2>3 DEF Proceed, LoginRead
<1>7. ASSUME NEW r \in Requests, LoginGetClient(r)
      PROVE  req'[q] = req[q] \/ LoginChecked(q)
  <2>1. req[r] \in LoginRequest /\ req[r].op = "login_client" /\ ReadOnly
    BY <1>7, <1>q, RequestShape DEF LoginGetClient
  <2> DEFINE x(scopes) == [req[r] EXCEPT !.op = "login_commit", !.at = clock,
                             !.scopes = @ \cap scopes
                                          \cap ResourceScopes[req[r].binding.resource]]
  <2>2. PICK scopes : Proceed(r, x(scopes)) /\ req[r].binding.client \in DOMAIN clients
    BY <1>7 DEF LoginGetClient, GetClient, Found
  <2>3. x(scopes).d = req[r].d /\ x(scopes).binding = req[r].binding
    BY <2>1 DEF LoginRequest
  <2> HIDE DEF x
  <2> QED BY <1>q, <2>1, <2>2, <2>3 DEF Proceed, LoginChecked
<1>8. CASE Crash
  BY <1>8 DEF Crash, Idle
<1>9. CASE HostPrune \/ Tick \/ UNCHANGED vars
  BY <1>9 DEF HostPrune, Tick, vars
<1> QED BY <1>3, <1>4, <1>5, <1>6, <1>7, <1>8, <1>9 DEF Next, Step

\* No step takes the client from a login that can still commit.
LEMMA NextLogins ==
    ASSUME IndInv, [Next]_vars PROVE LoginsProtected'
<1>0. TypeOK /\ GrantInv /\ StoredIsMinted /\ LoginsProtected
  BY DEF IndInv, GrantInv, CredentialInv
<1>m. minted \subseteq minted'
  <2>1. ASSUME NEW r \in Requests, Step(r) PROVE minted \subseteq minted'
    <3>1. CASE QuietAction(r)
      BY <1>0, <3>1, Quiet DEF QuietStep
    <3>2. CASE ~QuietAction(r)
      BY <2>1, <3>2 DEF Step, QuietAction, BeginCreateAuthorization, LoginCommit,
              ConsentApprove, ConsentDeny, ExchangeCommit, RefreshRotate
    <3> QED BY <3>1, <3>2
  <2> QED BY <1>0, <2>1, Quiet DEF Next, QuietStep
<1> SUFFICES ASSUME NEW q \in Requests, req'[q].op \in {"login_client", "login_commit"}
             PROVE  /\ req'[q].d \in DOMAIN authorizations' =>
                         authorizations'[req'[q].d].binding = req'[q].binding
                    /\ req'[q].op = "login_commit" =>
                         (req'[q].d \in DOMAIN authorizations'
                            /\ ~authorizations'[req'[q].d].consumed =>
                              req'[q].binding.client \in DOMAIN clients')
                    /\ <<"transaction", req'[q].d>> \in minted'
  BY DEF LoginsProtected
<1>1. CASE req'[q] = req[q]
  <2> DEFINE d == req[q].d
  <2>1. /\ d \in DOMAIN authorizations => authorizations[d].binding = req[q].binding
        /\ req[q].op = "login_commit" =>
             (d \in DOMAIN authorizations /\ ~authorizations[d].consumed =>
                req[q].binding.client \in DOMAIN clients)
        /\ <<"transaction", d>> \in minted
    BY <1>0, <1>1 DEF LoginsProtected
  <2>2. d \in DOMAIN authorizations' => Kept(authorizations, authorizations', d)
    BY <1>0, <2>1, CredentialRows DEF AuthorizationRows, Fresh
  <2>3. d \in DOMAIN authorizations' => authorizations'[d].binding = req[q].binding
    BY <2>1, <2>2 DEF Kept
  <2>4. ASSUME req[q].op = "login_commit", d \in DOMAIN authorizations',
               ~authorizations'[d].consumed
        PROVE  req[q].binding.client \in DOMAIN clients'
    <3>1. req[q].binding.client \in DOMAIN clients
      BY <2>1, <2>2, <2>4 DEF Kept
    <3>2. CASE \E r \in Requests : RegisterCommit(r)
      BY <1>0, <2>3, <2>4, <3>1, <3>2, RegistrationKeeps
    <3>3. CASE \A r \in Requests : ~RegisterCommit(r)
      BY <1>0, <3>1, <3>3, ClientsStay
    <3> QED BY <3>2, <3>3
  <2> QED BY <1>1, <1>m, <2>1, <2>3, <2>4
<1>2. CASE LoginRead(q)
  BY <1>0, <1>2, <1>m DEF LoginRead, ReadOnly, storeVars, StoredIsMinted
<1>3. CASE LoginChecked(q)
  BY <1>0, <1>3, <1>m DEF LoginChecked, ReadOnly, storeVars, LoginsProtected
<1> QED BY <1>0, <1>1, <1>2, <1>3, LoginSlots

-----------------------------------------------------------------------------
(* Lifetimes                                                               *)

\* The end fixed at login lies after every consent and code derived from it.
LEMMA NextLifetimes ==
    ASSUME IndInv, [Next]_vars PROVE AuthorizationOutlivesCode'
<1>0. TypeOK /\ TypeOK' /\ AuthorizationOutlivesCode
  BY NextType DEF IndInv
<1>t. /\ CodeTTL \in Int /\ ConsentTTL \in Int /\ RefreshTTL \in Int
      /\ RefreshTTL > ConsentTTL + CodeTTL
  BY Lifetimes
<1>1. ASSUME NEW row, FromLogin(row) PROVE row.expires + CodeTTL < row.ends
  <2>1. PICK now \in Nat : row.expires = now + ConsentTTL /\ row.ends = now + RefreshTTL
    BY <1>1 DEF FromLogin
  <2> QED BY <1>t, <2>1
<1>2. ASSUME NEW row \in Consent, FromConsent(row) PROVE row.expires < row.ends
  <2>1. PICK d \in DOMAIN consents : /\ row.ends = consents[d].ends
                                     /\ row.expires < consents[d].expires + CodeTTL
    BY <1>2 DEF FromConsent
  <2>2. consents[d].expires + CodeTTL < consents[d].ends
    BY <1>0 DEF AuthorizationOutlivesCode
  <2>3. row.expires \in Int /\ consents[d].expires \in Int /\ consents[d].ends \in Int
    BY <1>0 DEF TypeOK, StoreTypeOK, IsTable, Consent, Time
  <2> QED BY <1>t, <2>1, <2>2, <2>3
<1>3. \A d \in DOMAIN consents' : consents'[d].expires + CodeTTL < consents'[d].ends
  BY <1>0, <1>1, CredentialRows DEF ConsentRows, KeptConsent, Kept, AuthorizationOutlivesCode
<1>4. \A d \in DOMAIN codes' : codes'[d].expires < codes'[d].ends
  <2>1. \A d \in DOMAIN codes' : codes'[d] \in Consent
    BY <1>0 DEF TypeOK, StoreTypeOK, IsTable, Code
  <2> QED BY <1>0, <1>2, <2>1, CredentialRows
             DEF CodeRows, KeptConsent, Kept, AuthorizationOutlivesCode
<1> QED BY <1>3, <1>4 DEF AuthorizationOutlivesCode

LEMMA InitInd == Init => IndInv
<1> SUFFICES ASSUME Init PROVE IndInv
  OBVIOUS
<1>1. GrantInv
  BY InitGrant
<1>2. ClientsProtected /\ AuthorizationOutlivesCode
  BY DEF Init, StoreInit, EmptyTable, ClientsProtected, AuthorizationOutlivesCode
<1>3. LoginsProtected
  BY DEF Init, Idle, LoginsProtected
<1> QED BY <1>1, <1>2, <1>3 DEF GrantInv, CredentialInv, IndInv

LEMMA NextInd == IndInv /\ [Next]_vars => IndInv'
<1> SUFFICES ASSUME IndInv, [Next]_vars PROVE IndInv'
  OBVIOUS
<1>1. GrantInv'
  BY NextGrant DEF IndInv, GrantInv, CredentialInv
<1> QED BY <1>1, NextClients, NextLogins, NextLifetimes DEF GrantInv, CredentialInv, IndInv

\* The conjunction that TLC checks to be inductive on small instances is
\* inductive for every configuration, number of requests and credentials.
THEOREM IndInvCorrect == Spec => []IndInv
BY InitInd, NextInd, PTL DEF Spec

\* Whatever is registered, pruned or evicted while a user is in the middle of
\* a login or a consent, the client that it is for stays registered.
THEOREM ClientsProtectedCorrect == Spec => []ClientsProtected
<1>1. IndInv => ClientsProtected
  BY DEF IndInv
<1> QED BY <1>1, IndInvCorrect, PTL

\* A code that CommitCodeExchange accepts always leads to a refresh grant
\* with time left, for all lifetimes that Config.Validate accepts.
THEOREM AuthorizationOutlivesCodeCorrect == Spec => []AuthorizationOutlivesCode
<1>1. IndInv => AuthorizationOutlivesCode
  BY DEF IndInv
<1> QED BY <1>1, IndInvCorrect, PTL

-----------------------------------------------------------------------------
(* What is deleted                                                         *)

\* A row of T that is gone from T2 is one that the text order of SQL puts at
\* or before the cutoff.
Survives(T, T2) ==
    \A d \in DOMAIN T : d \in DOMAIN T2 \/ ~TextAfter(T[d].expires, clock)

\* That is so after a prune, and after whatever adds or rewrites rows of the
\* pruned table.
LEMMA PruneSurvives ==
    ASSUME NEW T, NEW T2,
           \/ DOMAIN T \subseteq DOMAIN T2
           \/ DOMAIN PruneRows(T) \subseteq DOMAIN T2
           \/ DOMAIN PruneFamilies(T) \subseteq DOMAIN T2
    PROVE  Survives(T, T2)
BY DEF Survives, PruneRows, PruneFamilies, Restrict

\* Insertion and marking rows spent or revoked keep the keys of a table.
LEMMA InsertKeys ==
    ASSUME NEW T, NEW k, NEW row PROVE DOMAIN T \subseteq DOMAIN Insert(T, k, row)
BY DEF Insert

LEMMA ConsumeKeys ==
    ASSUME NEW T, NEW k PROVE DOMAIN Consume(T, k) = DOMAIN T
BY DEF Consume

LEMMA RevokeKeys ==
    ASSUME NEW T, NEW family PROVE DOMAIN RevokeRows(T, family) = DOMAIN T
BY DEF RevokeRows

LEMMA NextSurvives ==
    ASSUME TypeOK, [Next]_vars
    PROVE  /\ Survives(authorizations, authorizations') /\ Survives(consents, consents')
           /\ Survives(codes, codes') /\ Survives(grants, grants')
<1> DEFINE Goal == /\ Survives(authorizations, authorizations')
                   /\ Survives(consents, consents')
                   /\ Survives(codes, codes')
<1>0. ASSUME UNCHANGED storeVars PROVE Goal
  BY <1>0, PruneSurvives DEF storeVars
<1>1. ASSUME NEW r \in Requests,
             \/ RegisterStart(r) \/ BeginGetClient(r) \/ LoginGetAuthorization(r)
             \/ LoginGetClient(r) \/ ConsentGet(r) \/ ExchangeGetCode(r)
             \/ RefreshGetGrant(r) \/ RevokeGetGrant(r) \/ Fail(r)
      PROVE  Goal
  <2>1. ReadOnly
    BY <1>1 DEF RegisterStart, BeginGetClient, LoginGetAuthorization, LoginGetClient,
                ConsentGet, ExchangeGetCode, RefreshGetGrant, RevokeGetGrant, Fail
  <2> QED BY <1>0, <2>1 DEF ReadOnly
<1>2. ASSUME NEW r \in Requests, BeginTouchClient(r) \/ RefreshRevokeFamily(r) \/ RevokeCommit(r)
      PROVE  Goal
  BY <1>2, PruneSurvives DEF BeginTouchClient, TouchClient, RefreshRevokeFamily,
     RevokeCommit, RevokeRefreshFamily
<1>3. ASSUME NEW r \in Requests,
             \/ RegisterCommit(r) \/ BeginCreateAuthorization(r) \/ LoginCommit(r)
             \/ ConsentApprove(r) \/ ConsentDeny(r) \/ ExchangeCommit(r) \/ RefreshRotate(r)
             \/ RefreshLosesRace(r) \/ RefreshReachesLimit(r)
      PROVE  Goal
  <2>1. /\ DOMAIN PruneRows(authorizations) \subseteq DOMAIN authorizations'
        /\ DOMAIN PruneRows(consents) \subseteq DOMAIN consents'
        /\ DOMAIN PruneRows(codes) \subseteq DOMAIN codes'
    <3>1. CASE RegisterCommit(r)
      BY <3>1 DEF RegisterCommit, RegisterClient
    <3>2. CASE BeginCreateAuthorization(r)
      BY <3>2, InsertKeys DEF BeginCreateAuthorization, CreateAuthorization
    <3>3. CASE LoginCommit(r)
      BY <3>3, InsertKeys, ConsumeKeys DEF LoginCommit, CommitLogin
    <3>4. CASE ConsentApprove(r)
      BY <3>4, InsertKeys, ConsumeKeys DEF ConsentApprove, CommitApproval
    <3>5. CASE ConsentDeny(r)
      BY <3>5, InsertKeys, ConsumeKeys DEF ConsentDeny, CommitDenial
    <3>6. CASE ExchangeCommit(r)
      BY <3>6, InsertKeys, ConsumeKeys DEF ExchangeCommit, CommitCodeExchange
    <3>7. CASE RefreshRotate(r) \/ RefreshLosesRace(r) \/ RefreshReachesLimit(r)
      BY <3>7 DEF RefreshRotate, RefreshLosesRace, RefreshReachesLimit, PruneBesidesGrants
    <3> QED BY <1>3, <3>1, <3>2, <3>3, <3>4, <3>5, <3>6, <3>7
  <2> QED BY <2>1, PruneSurvives
<1>4. ASSUME Crash \/ Tick \/ UNCHANGED vars PROVE Goal
  <2>1. UNCHANGED storeVars
    BY <1>4 DEF Crash, ReadOnly, Tick, vars, storeVars
  <2> QED BY <1>0, <2>1
<1>5. ASSUME HostPrune PROVE Goal
  <2>1. /\ authorizations' = PruneRows(authorizations) /\ consents' = PruneRows(consents)
        /\ codes' = PruneRows(codes)
    BY <1>5 DEF HostPrune, Prune, PruneBesidesGrants
  <2> QED BY <2>1, PruneSurvives
<1>6. Goal
  BY <1>1, <1>2, <1>3, <1>4, <1>5 DEF Next, Step
<1>7. Survives(grants, grants')
  <2>1. CASE GrantsPruned
    BY <2>1, PruneSurvives DEF GrantsPruned
  <2>2. ASSUME NEW family, GrantsRevoked(family) PROVE Survives(grants, grants')
    BY <2>2, PruneSurvives, RevokeKeys DEF GrantsRevoked
  <2>3. ASSUME NEW t, NEW row, FamilyStarts(t, row) PROVE Survives(grants, grants')
    BY <2>3, PruneSurvives, InsertKeys DEF FamilyStarts
  <2>4. ASSUME NEW d, NEW t, NEW row, GrantRotates(d, t, row)
        PROVE  Survives(grants, grants')
    <3>1. DOMAIN PruneFamilies(grants) \subseteq DOMAIN grants'
      BY <2>4, InsertKeys, ConsumeKeys DEF GrantRotates
    <3> QED BY <3>1, PruneSurvives
  <2> QED BY <2>1, <2>2, <2>3, <2>4, GrantSteps
<1> QED BY <1>6, <1>7

\* A later second begins later, and an instant is in its second.
LEMMA Seconds ==
    ASSUME NEW t \in Int, NEW u \in Int, Second(t) =< Second(u)
    PROVE  t < u + TicksPerSecond
<1> DEFINE n == TicksPerSecond
<1>1. n \in Nat \ {0}
  BY StatePolicyAssumption
<1>2. ASSUME NEW x \in Int
      PROVE  /\ Second(x) \in Int /\ x % n \in 0 .. n - 1
             /\ x = n * Second(x) + (x % n)
  BY <1>1, <1>2 DEF Second
<1> DEFINE p == Second(t)
           q == Second(u)
<1>3. p \in Int /\ q \in Int /\ p =< q
  BY <1>2
<1>4. n * p =< n * q
  <2> HIDE DEF n, p, q
  <2>1. n * (q - p) >= 0
    BY <1>1, <1>3
  <2> QED BY <2>1, <1>1, <1>3
<1>5. n * p \in Int /\ n * q \in Int
  BY <1>1, <1>3
<1>6. t = n * p + (t % n) /\ u = n * q + (u % n)
  BY <1>2
<1>7. t % n \in 0 .. n - 1 /\ u % n \in 0 .. n - 1
  BY <1>2
<1> DEFINE np == n * p
           nq == n * q
<1> HIDE DEF np, nq
<1>8. np =< nq /\ np \in Int /\ nq \in Int /\ t = np + (t % n) /\ u = nq + (u % n)
  BY <1>4, <1>5, <1>6 DEF np, nq
<1> QED BY <1>1, <1>7, <1>8

\* On whole seconds no text has a fraction, and the texts sort like the instants.
LEMMA WholeSeconds ==
    ASSUME TicksPerSecond = 1, NEW t \in Int, NEW u \in Int
    PROVE  TextAfter(t, u) <=> t > u
<1>1. ASSUME NEW x \in Int PROVE Second(x) = x /\ Fraction(x) = 0
  <2>1. Second(x) = x /\ x % 1 = 0
    BY DEF Second
  <2>2. Fraction(x) = 0 * (Nanoseconds \div 1)
    BY <2>1 DEF Fraction
  <2> QED BY <2>1, <2>2 DEF Nanoseconds
<1>2. ~FractionAfter(0, 0)
  BY DEF FractionAfter, Continues
<1> QED BY <1>1, <1>2 DEF TextAfter

\* How far the order of the texts and the order of the instants differ.
LEMMA TextOrder ==
    ASSUME NEW t \in Int, NEW u \in Int, ~TextAfter(t, u)
    PROVE  /\ t < u + TicksPerSecond
           /\ TicksPerSecond = 1 => t =< u
<1>1. Second(t) \in Int /\ Second(u) \in Int
  BY StatePolicyAssumption DEF Second
<1>2. Second(t) =< Second(u)
  BY <1>1 DEF TextAfter
<1>3. TicksPerSecond = 1 => t =< u
  BY WholeSeconds
<1> QED BY <1>2, <1>3, Seconds

\* The expiries and the clock are instants.
LEMMA Instants ==
    ASSUME TypeOK
    PROVE  /\ clock \in Int
           /\ \A d \in DOMAIN authorizations : authorizations[d].expires \in Int
           /\ \A d \in DOMAIN consents : consents[d].expires \in Int
           /\ \A d \in DOMAIN codes : codes[d].expires \in Int
           /\ \A d \in DOMAIN grants : grants[d].expires \in Int
BY DEF TypeOK, StoreTypeOK, IsTable, Authorization, Consent, Code, Grant, Time

\* Pruning never takes a row that has a second or more to live.
THEOREM DeletedAtMostASecondEarlyCorrect == Spec => DeletedAtMostASecondEarly
<1> DEFINE Late == /\ \A d \in DOMAIN authorizations : d \in DOMAIN authorizations'
                        \/ authorizations[d].expires < clock + TicksPerSecond
                   /\ \A d \in DOMAIN consents :
                        d \in DOMAIN consents' \/ consents[d].expires < clock + TicksPerSecond
                   /\ \A d \in DOMAIN codes :
                        d \in DOMAIN codes' \/ codes[d].expires < clock + TicksPerSecond
                   /\ \A d \in DOMAIN grants :
                        d \in DOMAIN grants' \/ grants[d].expires < clock + TicksPerSecond
<1>1. ASSUME TypeOK, [Next]_vars PROVE Late
  BY <1>1, NextSurvives, TextOrder, Instants DEF Survives
<1>2. TypeOK /\ [Next]_vars => [Late]_vars
  BY <1>1
<1> QED BY <1>2, TypeCorrect, PTL DEF Spec, DeletedAtMostASecondEarly

\* With a clock of whole seconds, pruning takes expired rows only: the early
\* deletions all come from the fraction of a second in the texts.
THEOREM OnlyExpiredStateIsDeletedCorrect ==
    ASSUME TicksPerSecond = 1
    PROVE  Spec => OnlyExpiredStateIsDeleted
<1> DEFINE Late == /\ \A d \in DOMAIN authorizations :
                        d \in DOMAIN authorizations' \/ authorizations[d].expires =< clock
                   /\ \A d \in DOMAIN consents :
                        d \in DOMAIN consents' \/ consents[d].expires =< clock
                   /\ \A d \in DOMAIN codes :
                        d \in DOMAIN codes' \/ codes[d].expires =< clock
                   /\ \A d \in DOMAIN grants :
                        d \in DOMAIN grants' \/ grants[d].expires =< clock
<1>1. ASSUME TypeOK, [Next]_vars PROVE Late
  BY <1>1, NextSurvives, TextOrder, Instants DEF Survives
<1>2. TypeOK /\ [Next]_vars => [Late]_vars
  BY <1>1
<1> QED BY <1>2, TypeCorrect, PTL DEF Spec, OnlyExpiredStateIsDeleted

-----------------------------------------------------------------------------
(* Capacities                                                              *)

\* S2 gains at most one element, and only when what is left of S has room.
Room(S, S2, limit) ==
    \/ S2 \subseteq S
    \/ \E P, k : P \subseteq S /\ S2 \subseteq P \cup {k} /\ Cardinality(P) < limit

\* Admission by counting keeps a set within its limit.
LEMMA RoomKept ==
    ASSUME NEW S, NEW S2, NEW limit \in Nat, IsFiniteSet(S), Cardinality(S) =< limit,
           Room(S, S2, limit)
    PROVE  IsFiniteSet(S2) /\ Cardinality(S2) =< limit
<1>1. CASE S2 \subseteq S
  BY <1>1, FS_Subset, FS_CardinalityType
<1>2. ASSUME NEW P, NEW k, P \subseteq S, S2 \subseteq P \cup {k}, Cardinality(P) < limit
      PROVE  IsFiniteSet(S2) /\ Cardinality(S2) =< limit
  <2>1. IsFiniteSet(P) /\ Cardinality(P) \in Nat
    BY <1>2, FS_Subset, FS_CardinalityType
  <2>2. /\ IsFiniteSet(P \cup {k})
        /\ Cardinality(P \cup {k}) \in Nat
        /\ Cardinality(P \cup {k}) =< Cardinality(P) + 1
    <3>1. CASE k \in P
      <4>1. P \cup {k} = P
        BY <3>1
      <4> QED BY <2>1, <4>1
    <3>2. CASE k \notin P
      <4>1. IsFiniteSet(P \cup {k}) /\ Cardinality(P \cup {k}) = Cardinality(P) + 1
        BY <2>1, <3>2, FS_AddElement
      <4> QED BY <2>1, <4>1
    <3> QED BY <3>1, <3>2
  <2>3. IsFiniteSet(S2) /\ Cardinality(S2) \in Nat /\ Cardinality(S2) =< Cardinality(P \cup {k})
    BY <1>2, <2>2, FS_Subset, FS_CardinalityType
  <2> QED BY <1>2, <2>1, <2>2, <2>3
<1> QED BY <1>1, <1>2 DEF Room

\* A step adds a row to a table only below its limit.
LEMMA NextRoom ==
    ASSUME TypeOK, [Next]_vars
    PROVE  /\ Room(DOMAIN clients, DOMAIN clients', MaxClients)
           /\ Room(DOMAIN authorizations, DOMAIN authorizations', MaxAuthorizations)
           /\ Room(DOMAIN consents, DOMAIN consents', MaxConsents)
           /\ Room(DOMAIN codes, DOMAIN codes', MaxCodes)
<1> DEFINE Goal == /\ Room(DOMAIN authorizations, DOMAIN authorizations', MaxAuthorizations)
                   /\ Room(DOMAIN consents, DOMAIN consents', MaxConsents)
                   /\ Room(DOMAIN codes, DOMAIN codes', MaxCodes)
<1>p. /\ DOMAIN PruneRows(authorizations) \subseteq DOMAIN authorizations
      /\ DOMAIN PruneRows(consents) \subseteq DOMAIN consents
      /\ DOMAIN PruneRows(codes) \subseteq DOMAIN codes
  BY PruneFacts
<1>i. ASSUME NEW T, NEW P, NEW k, NEW row, NEW limit,
             DOMAIN P \subseteq DOMAIN T, Cardinality(DOMAIN P) < limit
      PROVE  Room(DOMAIN T, DOMAIN Insert(P, k, row), limit)
  <2>1. DOMAIN Insert(P, k, row) = DOMAIN P \cup {k}
    BY DEF Insert
  <2> QED BY <1>i, <2>1 DEF Room
<1>1. Room(DOMAIN clients, DOMAIN clients', MaxClients)
  <2>1. ASSUME NEW r \in Requests, RegisterCommit(r)
        PROVE  Room(DOMAIN clients, DOMAIN clients', MaxClients)
    <3>1. PICK kept, id, row : /\ DOMAIN kept \subseteq DOMAIN clients
                               /\ Cardinality(DOMAIN kept) < MaxClients
                               /\ clients' = Insert(kept, id, row)
      <4>1. \A a, b, c, e : DOMAIN RetainedClients(a, b, c, e) \subseteq DOMAIN clients
        BY DEF RetainedClients, Restrict
      <4> QED BY <2>1, <4>1 DEF RegisterCommit, RegisterClient
    <3> QED BY <1>i, <3>1
  <2>2. CASE \A r \in Requests : ~RegisterCommit(r)
    BY <2>2, ClientsStay DEF Room
  <2> QED BY <2>1, <2>2
<1>2. ASSUME QuietStep PROVE Goal
  BY <1>2 DEF QuietStep, Shrinks, Room
<1>3. ASSUME NEW r \in Requests, BeginCreateAuthorization(r) PROVE Goal
  <2>1. PICK t, row : /\ authorizations' = Insert(PruneRows(authorizations), t, row)
                      /\ Cardinality(DOMAIN PruneRows(authorizations)) < MaxAuthorizations
                      /\ consents' = PruneRows(consents) /\ codes' = PruneRows(codes)
    BY <1>3 DEF BeginCreateAuthorization, CreateAuthorization
  <2>2. Room(DOMAIN authorizations, DOMAIN authorizations', MaxAuthorizations)
    BY <1>i, <1>p, <2>1
  <2> QED BY <1>p, <2>1, <2>2 DEF Room
<1>4. ASSUME NEW r \in Requests, LoginCommit(r) PROVE Goal
  <2>1. PICK t, row : /\ consents' = Insert(PruneRows(consents), t, row)
                      /\ Cardinality(DOMAIN PruneRows(consents)) < MaxConsents
                      /\ authorizations' = Consume(PruneRows(authorizations), req[r].d)
                      /\ codes' = PruneRows(codes)
    BY <1>4 DEF LoginCommit, CommitLogin
  <2>2. Room(DOMAIN consents, DOMAIN consents', MaxConsents)
    BY <1>i, <1>p, <2>1
  <2>3. DOMAIN authorizations' \subseteq DOMAIN authorizations
    BY <1>p, <2>1, ConsumeKeys
  <2> QED BY <1>p, <2>1, <2>2, <2>3 DEF Room
<1>5. ASSUME NEW r \in Requests, ConsentApprove(r) PROVE Goal
  <2>1. PICK t, row : /\ codes' = Insert(PruneRows(codes), t, row)
                      /\ Cardinality(DOMAIN PruneRows(codes)) < MaxCodes
                      /\ consents' = Consume(PruneRows(consents), req[r].d)
                      /\ authorizations' = PruneRows(authorizations)
    BY <1>5 DEF ConsentApprove, CommitApproval
  <2>2. Room(DOMAIN codes, DOMAIN codes', MaxCodes)
    BY <1>i, <1>p, <2>1
  <2>3. DOMAIN consents' \subseteq DOMAIN consents
    BY <1>p, <2>1, ConsumeKeys
  <2> QED BY <1>p, <2>1, <2>2, <2>3 DEF Room
<1>6. ASSUME NEW r \in Requests, ConsentDeny(r) \/ ExchangeCommit(r) \/ RefreshRotate(r)
      PROVE  Goal
  <2>1. /\ DOMAIN authorizations' \subseteq DOMAIN authorizations
        /\ DOMAIN consents' \subseteq DOMAIN consents
        /\ DOMAIN codes' \subseteq DOMAIN codes
    <3>1. CASE ConsentDeny(r)
      BY <3>1, <1>p, ConsumeKeys DEF ConsentDeny, CommitDenial
    <3>2. CASE ExchangeCommit(r)
      BY <3>2, <1>p, ConsumeKeys DEF ExchangeCommit, CommitCodeExchange
    <3>3. CASE RefreshRotate(r)
      BY <3>3, <1>p DEF RefreshRotate, PruneBesidesGrants
    <3> QED BY <1>6, <3>1, <3>2, <3>3
  <2> QED BY <2>1 DEF Room
<1>7. Goal
  BY <1>2, <1>3, <1>4, <1>5, <1>6, Quiet DEF Next, Step, QuietAction
<1> QED BY <1>1, <1>7

\* The tables are finite, so that their rows can be counted.
FiniteTables ==
    /\ IsFiniteSet(DOMAIN clients) /\ IsFiniteSet(DOMAIN authorizations)
    /\ IsFiniteSet(DOMAIN consents) /\ IsFiniteSet(DOMAIN codes)
    /\ IsFiniteSet(DOMAIN grants)

CapacityInv == GrantInv /\ FiniteTables /\ CapacityRespected

\* The active grants of a step: revocation and pruning remove some, a new
\* family is admitted below the limit, and a rotation trades one for another.
LEMMA ActiveRoom ==
    ASSUME CapacityInv, [Next]_vars
    PROVE  /\ Room(Active(grants), Active(grants'), MaxRefreshGrants)
           /\ IsFiniteSet(DOMAIN grants')
           /\ \A d \in DOMAIN grants' : grants'[d].generation < MaxRefreshGenerations
<1> DEFINE grs == PruneFamilies(grants)
           Goal == /\ Room(Active(grants), Active(grants'), MaxRefreshGrants)
                   /\ IsFiniteSet(DOMAIN grants')
                   /\ \A d \in DOMAIN grants' : grants'[d].generation < MaxRefreshGenerations
<1>0. /\ GrantInv /\ TypeOK /\ IsFiniteSet(DOMAIN grants)
      /\ \A d \in DOMAIN grants : grants[d].generation < MaxRefreshGenerations
  BY DEF CapacityInv, GrantInv, CredentialInv, FiniteTables, CapacityRespected
<1>n. MaxRefreshGrants \in Nat /\ MaxRefreshGenerations \in Nat \ {0}
  BY StatePolicyAssumption DEF ValidStatePolicy
<1>t. IsTable(grants, RefreshTokens, Grant) /\ IsTable(grs, RefreshTokens, Grant)
  BY <1>0, PruneTable DEF TypeOK, StoreTypeOK
<1>s. \A d \in DOMAIN grs : d \in DOMAIN grants /\ grs[d] = grants[d]
  BY PruneShrinks DEF Shrinks
<1> HIDE DEF grs
<1>a. Active(grs) \subseteq Active(grants) /\ Active(grants) \subseteq DOMAIN grants
  BY <1>s DEF Active
<1>g. IsFiniteSet(DOMAIN grs)
  BY <1>0, <1>s, FS_Subset
<1>1. ASSUME GrantsPruned PROVE Goal
  <2>1. grants' = grants \/ grants' = grs
    BY <1>1 DEF GrantsPruned, grs
  <2> QED BY <1>0, <1>s, <1>a, <1>g, <2>1 DEF Room
<1>2. ASSUME NEW family, GrantsRevoked(family) PROVE Goal
  <2>1. ASSUME NEW T, T = grants \/ T = grs, grants' = RevokeRows(T, family) PROVE Goal
    <3>1. /\ DOMAIN grants' = DOMAIN T
          /\ \A e \in DOMAIN T : /\ grants'[e].generation = T[e].generation
                                 /\ grants'[e].consumed = T[e].consumed
                                 /\ T[e].revoked => grants'[e].revoked
      BY <1>t, <2>1, RevokeFacts
    <3>2. Active(grants') \subseteq Active(T)
      BY <3>1 DEF Active
    <3> QED BY <1>0, <1>s, <1>a, <1>g, <2>1, <3>1, <3>2 DEF Room
  <2> QED BY <1>2, <2>1 DEF GrantsRevoked, grs
<1>3. ASSUME NEW t, NEW row, FamilyStarts(t, row) PROVE Goal
  <2>1. /\ DOMAIN grants' = DOMAIN grs \cup {t} /\ grants'[t] = row
        /\ \A e \in DOMAIN grs : e # t => grants'[e] = grs[e]
    BY <1>3 DEF FamilyStarts, Insert, grs
  <2>2. Cardinality(Active(grs)) < MaxRefreshGrants /\ row.generation = 0
    BY <1>3 DEF FamilyStarts, grs
  <2>3. Active(grants') \subseteq Active(grs) \cup {t}
    BY <2>1 DEF Active
  <2>4. IsFiniteSet(DOMAIN grants')
    BY <1>g, <2>1, FS_AddElement
  <2>5. \A d \in DOMAIN grants' : grants'[d].generation < MaxRefreshGenerations
    BY <1>0, <1>n, <1>s, <2>1, <2>2
  <2> QED BY <1>a, <2>2, <2>3, <2>4, <2>5 DEF Room
<1>4. ASSUME NEW d, NEW t, NEW row, GrantRotates(d, t, row) PROVE Goal
  <2>1. /\ d \in DOMAIN grs /\ ~grs[d].consumed /\ ~grs[d].revoked
        /\ row.generation < MaxRefreshGenerations /\ Fresh("refresh", t)
        /\ grants' = Insert(Consume(grs, d), t, row)
    BY <1>4 DEF GrantRotates, grs
  <2>2. /\ DOMAIN Consume(grs, d) = DOMAIN grs
        /\ Consume(grs, d)[d].consumed
        /\ \A e \in DOMAIN grs : /\ e # d => Consume(grs, d)[e] = grs[e]
                                 /\ Consume(grs, d)[e].generation = grs[e].generation
    BY <1>t, <2>1, ConsumeGrant
  <2>3. /\ DOMAIN grants' = DOMAIN grs \cup {t} /\ grants'[t] = row
        /\ \A e \in DOMAIN grs : e # t => grants'[e] = Consume(grs, d)[e]
    BY <2>1, <2>2 DEF Insert
  <2>4. t # d
    BY <1>0, <1>s, <2>1, FreshIsNew DEF GrantInv
  <2>5. Active(grants') \subseteq (Active(grs) \ {d}) \cup {t}
    BY <2>2, <2>3, <2>4 DEF Active
  <2>6. Cardinality(Active(grs) \ {d}) < MaxRefreshGrants
    <3>1. /\ IsFiniteSet(Active(grants)) /\ Cardinality(Active(grants)) \in Nat
          /\ Cardinality(Active(grants)) =< MaxRefreshGrants
      BY <1>0, <1>a, FS_Subset, FS_CardinalityType DEF CapacityInv, CapacityRespected
    <3>2. /\ IsFiniteSet(Active(grs)) /\ Cardinality(Active(grs)) \in Nat
          /\ Cardinality(Active(grs)) =< Cardinality(Active(grants))
      BY <1>a, <3>1, FS_Subset, FS_CardinalityType
    <3>3. d \in Active(grs)
      BY <2>1 DEF Active
    <3>4. Cardinality(Active(grs) \ {d}) = Cardinality(Active(grs)) - 1
      BY <3>2, <3>3, FS_RemoveElement
    <3> QED BY <1>n, <3>1, <3>2, <3>4
  <2>7. Room(Active(grants), Active(grants'), MaxRefreshGrants)
    <3>1. Active(grs) \ {d} \subseteq Active(grants)
      BY <1>a
    <3> QED BY <2>5, <2>6, <3>1 DEF Room
  <2>8. IsFiniteSet(DOMAIN grants')
    BY <1>g, <2>3, FS_AddElement
  <2>9. \A e \in DOMAIN grants' : grants'[e].generation < MaxRefreshGenerations
    BY <1>0, <1>s, <2>1, <2>2, <2>3
  <2> QED BY <2>7, <2>8, <2>9
<1> QED BY <1>0, <1>1, <1>2, <1>3, <1>4, GrantSteps

LEMMA InitCapacity == Init => CapacityInv
<1> SUFFICES ASSUME Init PROVE FiniteTables /\ CapacityRespected
  BY InitGrant DEF CapacityInv
<1>1. /\ DOMAIN clients = {} /\ DOMAIN authorizations = {} /\ DOMAIN consents = {}
      /\ DOMAIN codes = {} /\ DOMAIN grants = {} /\ Active(grants) = {}
  BY DEF Init, StoreInit, EmptyTable, Active
<1>2. IsFiniteSet({}) /\ Cardinality({}) = 0
  BY FS_EmptySet
<1>3. /\ MaxClients \in Nat /\ MaxAuthorizations \in Nat /\ MaxConsents \in Nat
      /\ MaxCodes \in Nat /\ MaxRefreshGrants \in Nat
  BY StatePolicyAssumption DEF ValidStatePolicy
<1> QED BY <1>1, <1>2, <1>3 DEF FiniteTables, CapacityRespected

LEMMA NextCapacity == CapacityInv /\ [Next]_vars => CapacityInv'
<1> SUFFICES ASSUME CapacityInv, [Next]_vars PROVE CapacityInv'
  OBVIOUS
<1>0. GrantInv /\ GrantInv' /\ TypeOK
  BY NextGrant DEF CapacityInv, GrantInv, CredentialInv
<1>1. /\ MaxClients \in Nat /\ MaxAuthorizations \in Nat /\ MaxConsents \in Nat
      /\ MaxCodes \in Nat /\ MaxRefreshGrants \in Nat
  BY StatePolicyAssumption DEF ValidStatePolicy
<1>2. IsFiniteSet(DOMAIN clients') /\ Cardinality(DOMAIN clients') =< MaxClients
  BY <1>0, <1>1, NextRoom, RoomKept DEF CapacityInv, FiniteTables, CapacityRespected
<1>3. /\ IsFiniteSet(DOMAIN authorizations')
      /\ Cardinality(DOMAIN authorizations') =< MaxAuthorizations
  BY <1>0, <1>1, NextRoom, RoomKept DEF CapacityInv, FiniteTables, CapacityRespected
<1>4. IsFiniteSet(DOMAIN consents') /\ Cardinality(DOMAIN consents') =< MaxConsents
  BY <1>0, <1>1, NextRoom, RoomKept DEF CapacityInv, FiniteTables, CapacityRespected
<1>5. IsFiniteSet(DOMAIN codes') /\ Cardinality(DOMAIN codes') =< MaxCodes
  BY <1>0, <1>1, NextRoom, RoomKept DEF CapacityInv, FiniteTables, CapacityRespected
<1>6. /\ IsFiniteSet(DOMAIN grants')
      /\ Cardinality(Active(grants')) =< MaxRefreshGrants
      /\ \A d \in DOMAIN grants' : grants'[d].generation < MaxRefreshGenerations
  <2>1. /\ Room(Active(grants), Active(grants'), MaxRefreshGrants)
        /\ IsFiniteSet(DOMAIN grants')
        /\ \A d \in DOMAIN grants' : grants'[d].generation < MaxRefreshGenerations
    BY ActiveRoom
  <2>2. IsFiniteSet(Active(grants)) /\ Cardinality(Active(grants)) =< MaxRefreshGrants
    <3>1. Active(grants) \subseteq DOMAIN grants
      BY DEF Active
    <3> QED BY <3>1, FS_Subset DEF CapacityInv, FiniteTables, CapacityRespected
  <2> QED BY <1>1, <2>1, <2>2, RoomKept
<1> QED BY <1>0, <1>2, <1>3, <1>4, <1>5, <1>6 DEF CapacityInv, FiniteTables, CapacityRespected

\* The store stays within every configured capacity, although a rotation is
\* not counted at admission: it spends one active grant for the one it adds.
THEOREM CapacityRespectedCorrect == Spec => []CapacityRespected
<1>1. Spec => []CapacityInv
  BY InitCapacity, NextCapacity, PTL DEF Spec
<1>2. CapacityInv => CapacityRespected
  BY DEF CapacityInv
<1> QED BY <1>1, <1>2, PTL

-----------------------------------------------------------------------------
(* How long things last                                                    *)

\* The expiry of a grant: as before, that of the code's authorization when a
\* family starts below the limit, that of the family when it is rotated.
LEMMA GrantExpiries ==
    ASSUME TypeOK, [Next]_vars, NEW d \in DOMAIN grants'
    PROVE  \/ grants'[d].expires \in Expiries(grants)
           \/ /\ Cardinality(Active(PruneFamilies(grants))) < MaxRefreshGrants
              /\ \E c \in DOMAIN codes : grants'[d].expires = codes[c].ends
<1> DEFINE grs == PruneFamilies(grants)
<1>t. IsTable(grants, RefreshTokens, Grant) /\ IsTable(grs, RefreshTokens, Grant)
  BY PruneTable DEF TypeOK, StoreTypeOK
<1>s. \A e \in DOMAIN grs : e \in DOMAIN grants /\ grs[e] = grants[e]
  BY PruneShrinks DEF Shrinks
<1> HIDE DEF grs
<1>e. /\ \A e \in DOMAIN grants : grants[e].expires \in Expiries(grants)
      /\ \A e \in DOMAIN grs : grs[e].expires \in Expiries(grants)
  BY <1>s DEF Expiries
<1>1. CASE GrantsPruned
  BY <1>1, <1>e DEF GrantsPruned, grs
<1>2. ASSUME NEW family, GrantsRevoked(family) PROVE grants'[d].expires \in Expiries(grants)
  <2>1. CASE grants' = RevokeRows(grants, family)
    BY <1>t, <1>e, <2>1, RevokeFacts
  <2>2. CASE grants' = RevokeRows(grs, family)
    BY <1>t, <1>e, <2>2, RevokeFacts
  <2> QED BY <1>2, <2>1, <2>2 DEF GrantsRevoked, grs
<1>3. ASSUME NEW t, NEW row, FamilyStarts(t, row)
      PROVE  \/ grants'[d].expires \in Expiries(grants)
             \/ /\ Cardinality(Active(grs)) < MaxRefreshGrants
                /\ \E c \in DOMAIN codes : grants'[d].expires = codes[c].ends
  <2>1. /\ DOMAIN grants' = DOMAIN grs \cup {t} /\ grants'[t] = row
        /\ \A a \in DOMAIN grs : a # t => grants'[a] = grs[a]
    BY <1>3 DEF FamilyStarts, Insert, grs
  <2>2. /\ Cardinality(Active(grs)) < MaxRefreshGrants
        /\ \E c \in DOMAIN codes : row.expires = codes[c].ends
    BY <1>3 DEF FamilyStarts, grs
  <2> QED BY <1>e, <2>1, <2>2
<1>4. ASSUME NEW c, NEW t, NEW row, GrantRotates(c, t, row)
      PROVE  grants'[d].expires \in Expiries(grants)
  <2>1. /\ c \in DOMAIN grs /\ row.expires = grs[c].expires
        /\ grants' = Insert(Consume(grs, c), t, row)
    BY <1>4 DEF GrantRotates, grs
  <2>2. /\ DOMAIN Consume(grs, c) = DOMAIN grs
        /\ \A a \in DOMAIN grs : Consume(grs, c)[a].expires = grs[a].expires
    BY <1>t, <2>1, ConsumeGrant
  <2>3. /\ DOMAIN grants' = DOMAIN grs \cup {t} /\ grants'[t] = row
        /\ \A a \in DOMAIN grs : a # t => grants'[a] = Consume(grs, c)[a]
    BY <2>1, <2>2 DEF Insert
  <2> QED BY <1>e, <2>1, <2>2, <2>3
<1> QED BY <1>1, <1>2, <1>3, <1>4, GrantSteps DEF grs

\* Time does not go back.
LEMMA ClockAdvances ==
    ASSUME TypeOK, [Next]_vars PROVE clock \in Nat /\ clock' \in Nat /\ clock =< clock'
<1>0. clock \in Nat
  BY DEF TypeOK, StoreTypeOK
<1>1. CASE Tick
  BY <1>0, <1>1 DEF Tick
<1>2. ASSUME NEW r \in Requests, Step(r) PROVE clock' = clock
  <2>1. CASE RegisterStart(r) \/ BeginGetClient(r) \/ LoginGetAuthorization(r)
             \/ LoginGetClient(r) \/ ConsentGet(r) \/ ExchangeGetCode(r)
             \/ RefreshGetGrant(r) \/ RevokeGetGrant(r) \/ Fail(r)
    BY <2>1 DEF RegisterStart, BeginGetClient, LoginGetAuthorization, LoginGetClient,
                ConsentGet, ExchangeGetCode, RefreshGetGrant, RevokeGetGrant, Fail, ReadOnly
  <2>2. CASE RegisterCommit(r) \/ BeginTouchClient(r) \/ BeginCreateAuthorization(r)
             \/ LoginCommit(r) \/ ConsentApprove(r) \/ ConsentDeny(r) \/ ExchangeCommit(r)
    BY <2>2 DEF RegisterCommit, BeginTouchClient, BeginCreateAuthorization, LoginCommit,
                ConsentApprove, ConsentDeny, ExchangeCommit
  <2>3. CASE RefreshRevokeFamily(r) \/ RevokeCommit(r) \/ RefreshRotate(r)
             \/ RefreshLosesRace(r) \/ RefreshReachesLimit(r)
    BY <2>3 DEF RefreshRevokeFamily, RevokeCommit, RefreshRotate, RefreshLosesRace,
                RefreshReachesLimit
  <2> QED BY <1>2, <2>1, <2>2, <2>3 DEF Step
<1>3. CASE Crash
  BY <1>0, <1>3 DEF Crash, ReadOnly
<1>4. CASE HostPrune
  BY <1>0, <1>4 DEF HostPrune
<1>5. CASE UNCHANGED vars
  BY <1>0, <1>5 DEF vars
<1> QED BY <1>0, <1>1, <1>2, <1>3, <1>4, <1>5 DEF Next

\* No credential outlives its lifetime.  A new row expires one lifetime after
\* an instant that has passed; a code and a grant end when their login said.
LEMMA NextBounded ==
    ASSUME TypeOK, LifetimesBounded, [Next]_vars PROVE LifetimesBounded'
<1>y. TypeOK'
  BY NextType
<1>0. clock \in Nat /\ clock' \in Nat /\ clock =< clock'
  BY ClockAdvances
<1>1. \A time, ttl \in Int : time =< clock + ttl => time =< clock' + ttl
  <2>1. \A before, after \in Nat : before =< after =>
          \A time, ttl \in Int : time =< before + ttl => time =< after + ttl
    OBVIOUS
  <2> QED BY <1>0, <2>1, Zenon
<1>t. /\ TransactionTTL \in Int /\ ConsentTTL \in Int /\ CodeTTL \in Int /\ RefreshTTL \in Int
      /\ \A d \in DOMAIN authorizations' : authorizations'[d].expires \in Int
      /\ \A d \in DOMAIN consents' : consents'[d].expires \in Int /\ consents'[d].ends \in Int
      /\ \A d \in DOMAIN codes' : codes'[d].expires \in Int /\ codes'[d].ends \in Int
      /\ \A d \in DOMAIN grants' : grants'[d].expires \in Int
  BY <1>y, Lifetimes DEF TypeOK, StoreTypeOK, IsTable, Authorization, Consent, Code, Grant, Time
<1>2. \A d \in DOMAIN authorizations' : authorizations'[d].expires =< clock + TransactionTTL
  BY CredentialRows DEF AuthorizationRows, Kept, FromBegin, LifetimesBounded
<1>3. ASSUME NEW row, FromLogin(row)
      PROVE  row.expires =< clock + ConsentTTL /\ row.ends =< clock + RefreshTTL
  <2>1. PICK now \in Nat : /\ now =< clock
                           /\ row.expires = now + ConsentTTL /\ row.ends = now + RefreshTTL
    BY <1>3 DEF FromLogin
  <2> QED BY <1>0, <2>1, Lifetimes
<1>4. \A d \in DOMAIN consents' : /\ consents'[d].expires =< clock + ConsentTTL
                                  /\ consents'[d].ends =< clock + RefreshTTL
  BY <1>3, CredentialRows DEF ConsentRows, KeptConsent, Kept, LifetimesBounded
<1>5. \A d \in DOMAIN codes' : /\ codes'[d].expires =< clock + CodeTTL
                               /\ codes'[d].ends =< clock + RefreshTTL
  BY CredentialRows DEF CodeRows, KeptConsent, Kept, FromConsent, LifetimesBounded
<1>6. \A d \in DOMAIN grants' : grants'[d].expires =< clock + RefreshTTL
  BY GrantExpiries DEF Expiries, LifetimesBounded
<1> QED BY <1>1, <1>t, <1>2, <1>4, <1>5, <1>6 DEF LifetimesBounded

\* Nothing outlives its configured lifetime at any resolution of the clock,
\* whatever a request has read, however late it commits, and however often a
\* refresh family is rotated.
THEOREM LifetimesBoundedCorrect == Spec => []LifetimesBounded
<1>1. Init => LifetimesBounded
  BY DEF Init, StoreInit, EmptyTable, LifetimesBounded
<1>2. TypeOK /\ LifetimesBounded /\ [Next]_vars => LifetimesBounded'
  BY NextBounded
<1> QED BY <1>1, <1>2, TypeCorrect, PTL DEF Spec

\* A step on a table that refuses new rows adds no expiry to it.
LEMMA NextDrains ==
    ASSUME CapacityInv, [Next]_vars
    PROVE  /\ AuthorizationsFull => Expiries(authorizations') \subseteq Expiries(authorizations)
           /\ ConsentsFull => Expiries(consents') \subseteq Expiries(consents)
           /\ CodesFull => Expiries(codes') \subseteq Expiries(codes)
           /\ GrantsFull => Expiries(grants') \subseteq Expiries(grants)
<1>0. TypeOK
  BY DEF CapacityInv, GrantInv, CredentialInv
<1>1. /\ Cardinality(DOMAIN PruneRows(authorizations)) \in Nat
      /\ Cardinality(DOMAIN PruneRows(consents)) \in Nat
      /\ Cardinality(DOMAIN PruneRows(codes)) \in Nat
      /\ Cardinality(Active(PruneFamilies(grants))) \in Nat
  <2>1. /\ IsFiniteSet(DOMAIN authorizations) /\ IsFiniteSet(DOMAIN consents)
        /\ IsFiniteSet(DOMAIN codes) /\ IsFiniteSet(DOMAIN grants)
    BY DEF CapacityInv, FiniteTables
  <2>2. /\ DOMAIN PruneRows(authorizations) \subseteq DOMAIN authorizations
        /\ DOMAIN PruneRows(consents) \subseteq DOMAIN consents
        /\ DOMAIN PruneRows(codes) \subseteq DOMAIN codes
        /\ Active(PruneFamilies(grants)) \subseteq DOMAIN grants
    BY PruneFacts DEF Active
  <2> QED BY <2>1, <2>2, FS_Subset, FS_CardinalityType
<1>2. /\ MaxAuthorizations \in Nat /\ MaxConsents \in Nat
      /\ MaxCodes \in Nat /\ MaxRefreshGrants \in Nat
  BY StatePolicyAssumption DEF ValidStatePolicy
<1>3. /\ AuthorizationsFull => ~ (Cardinality(DOMAIN PruneRows(authorizations)) < MaxAuthorizations)
      /\ ConsentsFull => ~ (Cardinality(DOMAIN PruneRows(consents)) < MaxConsents)
      /\ CodesFull => ~ (Cardinality(DOMAIN PruneRows(codes)) < MaxCodes)
      /\ GrantsFull => ~ (Cardinality(Active(PruneFamilies(grants))) < MaxRefreshGrants)
  BY <1>1, <1>2 DEF AuthorizationsFull, ConsentsFull, CodesFull, GrantsFull
<1>4. AuthorizationsFull => Expiries(authorizations') \subseteq Expiries(authorizations)
  BY <1>0, <1>3, CredentialRows DEF AuthorizationRows, Kept, FromBegin, Expiries
<1>5. ConsentsFull => Expiries(consents') \subseteq Expiries(consents)
  BY <1>0, <1>3, CredentialRows DEF ConsentRows, KeptConsent, Kept, FromLogin, Expiries
<1>6. CodesFull => Expiries(codes') \subseteq Expiries(codes)
  BY <1>0, <1>3, CredentialRows DEF CodeRows, KeptConsent, Kept, FromConsent, Expiries
<1>7. GrantsFull => Expiries(grants') \subseteq Expiries(grants)
  <2> SUFFICES ASSUME GrantsFull, NEW d \in DOMAIN grants'
               PROVE  grants'[d].expires \in Expiries(grants)
    BY DEF Expiries
  <2> QED BY <1>0, <1>3, GrantExpiries
<1> QED BY <1>4, <1>5, <1>6, <1>7

\* While a table refuses new rows the instants at which its rows expire only
\* become fewer, so that the time by which it admits again does not move: no
\* request in flight and no rotation prolongs a shortage.
THEOREM FullTablesDrainCorrect == Spec => FullTablesDrain
<1> DEFINE Drain ==
      /\ AuthorizationsFull => Expiries(authorizations') \subseteq Expiries(authorizations)
      /\ ConsentsFull => Expiries(consents') \subseteq Expiries(consents)
      /\ CodesFull => Expiries(codes') \subseteq Expiries(codes)
      /\ GrantsFull => Expiries(grants') \subseteq Expiries(grants)
<1>1. ASSUME CapacityInv, [Next]_vars PROVE Drain
  BY <1>1, NextDrains
<1>2. CapacityInv /\ [Next]_vars => [Drain]_vars
  BY <1>1
<1>3. Spec => []CapacityInv
  BY InitCapacity, NextCapacity, PTL DEF Spec
<1> QED BY <1>2, <1>3, PTL DEF Spec, FullTablesDrain

\* A table whose rows all ended a second ago is empty once it is pruned, in
\* the order of the texts too, and an empty table has room.
LEMMA LapsedTablesAdmit ==
    ASSUME TypeOK
    PROVE  /\ AuthorizationsFull =>
                \E time \in Expiries(authorizations) : clock < time + TicksPerSecond
           /\ ConsentsFull => \E time \in Expiries(consents) : clock < time + TicksPerSecond
           /\ CodesFull => \E time \in Expiries(codes) : clock < time + TicksPerSecond
           /\ GrantsFull => \E time \in Expiries(grants) : clock < time + TicksPerSecond
<1>1. ASSUME NEW time \in Int, TextAfter(time, clock) PROVE clock < time + TicksPerSecond
  <2>1. clock \in Int
    BY Instants
  <2>2. Second(time) \in Int /\ Second(clock) \in Int
    BY <2>1, StatePolicyAssumption DEF Second
  <2>3. Second(clock) =< Second(time)
    BY <1>1, <2>2 DEF TextAfter
  <2> QED BY <2>1, <2>3, Seconds
<1>2. ASSUME NEW n \in Nat \ {0} PROVE ~ (Cardinality({}) >= n)
  BY FS_EmptySet
<1>3. /\ MaxAuthorizations \in Nat \ {0} /\ MaxConsents \in Nat \ {0}
      /\ MaxCodes \in Nat \ {0} /\ MaxRefreshGrants \in Nat \ {0}
  BY StatePolicyAssumption DEF ValidStatePolicy
<1>4. ASSUME NEW T, \A d \in DOMAIN T : T[d].expires \in Int, DOMAIN PruneRows(T) # {}
      PROVE  \E time \in Expiries(T) : clock < time + TicksPerSecond
  <2>1. PICK d \in DOMAIN T : TextAfter(T[d].expires, clock)
    BY <1>4, PruneFacts
  <2> QED BY <1>1, <1>4, <2>1 DEF Expiries
<1>5. AuthorizationsFull =>
        \E time \in Expiries(authorizations) : clock < time + TicksPerSecond
  <2>1. AuthorizationsFull => DOMAIN PruneRows(authorizations) # {}
    BY <1>2, <1>3 DEF AuthorizationsFull
  <2> QED BY <1>4, <2>1, Instants
<1>6. ConsentsFull => \E time \in Expiries(consents) : clock < time + TicksPerSecond
  <2>1. ConsentsFull => DOMAIN PruneRows(consents) # {}
    BY <1>2, <1>3 DEF ConsentsFull
  <2> QED BY <1>4, <2>1, Instants
<1>7. CodesFull => \E time \in Expiries(codes) : clock < time + TicksPerSecond
  <2>1. CodesFull => DOMAIN PruneRows(codes) # {}
    BY <1>2, <1>3 DEF CodesFull
  <2> QED BY <1>4, <2>1, Instants
<1>8. GrantsFull => \E time \in Expiries(grants) : clock < time + TicksPerSecond
  <2> SUFFICES ASSUME GrantsFull
               PROVE  \E time \in Expiries(grants) : clock < time + TicksPerSecond
    OBVIOUS
  <2>1. Active(PruneFamilies(grants)) # {}
    BY <1>2, <1>3 DEF GrantsFull
  <2>2. PICK d : d \in DOMAIN PruneFamilies(grants)
    BY <2>1 DEF Active
  <2>3. PICK e \in DOMAIN grants : TextAfter(grants[e].expires, clock)
    BY <2>2, PruneFacts
  <2> QED BY <1>1, <2>3, Instants DEF Expiries
<1> QED BY <1>5, <1>6, <1>7, <1>8

\* A table is full of rows that expire by T at the latest.
Short(full, table, T) == full /\ \A time \in Expiries(table) : time =< T

\* No shortage outlasts one lifetime, but for the second by which the order of
\* the texts may keep a row: a table that is full, and is full ever after, is
\* full only in a behaviour whose clock stops before then.  Requests and
\* rotations in flight cannot prolong it and no call of Prune is needed.
THEOREM ShortagesEnd ==
    ASSUME NEW T \in Int
    PROVE  Spec =>
        /\ [](AuthorizationsFull /\ clock + TransactionTTL =< T =>
                ([]AuthorizationsFull => [](clock < T + TicksPerSecond)))
        /\ [](ConsentsFull /\ clock + ConsentTTL =< T =>
                ([]ConsentsFull => [](clock < T + TicksPerSecond)))
        /\ [](CodesFull /\ clock + CodeTTL =< T =>
                ([]CodesFull => [](clock < T + TicksPerSecond)))
        /\ [](GrantsFull /\ clock + RefreshTTL =< T =>
                ([]GrantsFull => [](clock < T + TicksPerSecond)))
<1> DEFINE Inv == CapacityInv /\ LifetimesBounded
           ShortA == Short(AuthorizationsFull, authorizations, T)
           ShortB == Short(ConsentsFull, consents, T)
           ShortC == Short(CodesFull, codes, T)
           ShortD == Short(GrantsFull, grants, T)
<1>i. Spec => []Inv
  BY InitCapacity, NextCapacity, LifetimesBoundedCorrect, PTL DEF Spec
<1>t. ASSUME Inv PROVE TypeOK
  BY <1>t DEF CapacityInv, GrantInv, CredentialInv
<1>n. /\ TransactionTTL \in Int /\ ConsentTTL \in Int /\ CodeTTL \in Int /\ RefreshTTL \in Int
      /\ TicksPerSecond \in Int
  BY Lifetimes, StatePolicyAssumption
<1>1. Inv => /\ AuthorizationsFull /\ clock + TransactionTTL =< T => ShortA
             /\ ConsentsFull /\ clock + ConsentTTL =< T => ShortB
             /\ CodesFull /\ clock + CodeTTL =< T => ShortC
             /\ GrantsFull /\ clock + RefreshTTL =< T => ShortD
  <2> SUFFICES ASSUME Inv
               PROVE  /\ clock + TransactionTTL =< T =>
                           \A time \in Expiries(authorizations) : time =< T
                      /\ clock + ConsentTTL =< T => \A time \in Expiries(consents) : time =< T
                      /\ clock + CodeTTL =< T => \A time \in Expiries(codes) : time =< T
                      /\ clock + RefreshTTL =< T => \A time \in Expiries(grants) : time =< T
    BY DEF Short
  <2>1. TypeOK
    BY <1>t
  <2>2. \A time, ttl \in Int : time =< clock + ttl /\ clock + ttl =< T => time =< T
    BY <2>1, Instants
  <2> QED BY <1>n, <2>1, <2>2, Instants DEF Expiries, LifetimesBounded
<1>2. Inv /\ [Next]_vars => /\ ShortA /\ AuthorizationsFull' => ShortA'
                            /\ ShortB /\ ConsentsFull' => ShortB'
                            /\ ShortC /\ CodesFull' => ShortC'
                            /\ ShortD /\ GrantsFull' => ShortD'
  <2> SUFFICES ASSUME Inv, [Next]_vars
               PROVE  /\ ShortA /\ AuthorizationsFull' => ShortA'
                      /\ ShortB /\ ConsentsFull' => ShortB'
                      /\ ShortC /\ CodesFull' => ShortC'
                      /\ ShortD /\ GrantsFull' => ShortD'
    OBVIOUS
  <2>1. /\ AuthorizationsFull => Expiries(authorizations') \subseteq Expiries(authorizations)
        /\ ConsentsFull => Expiries(consents') \subseteq Expiries(consents)
        /\ CodesFull => Expiries(codes') \subseteq Expiries(codes)
        /\ GrantsFull => Expiries(grants') \subseteq Expiries(grants)
    BY NextDrains
  <2> QED BY <2>1 DEF Short, Expiries
<1>3. Inv => (ShortA \/ ShortB \/ ShortC \/ ShortD => clock < T + TicksPerSecond)
  <2> SUFFICES ASSUME Inv, ShortA \/ ShortB \/ ShortC \/ ShortD
               PROVE  clock < T + TicksPerSecond
    OBVIOUS
  <2>1. TypeOK
    BY <1>t
  <2>2. PICK time \in Int : clock < time + TicksPerSecond /\ time =< T
    BY <2>1, Instants, LapsedTablesAdmit DEF Short, Expiries
  <2> QED BY <1>n, <2>1, <2>2, Instants
<1> HIDE DEF Inv, ShortA, ShortB, ShortC, ShortD
<1> QED BY <1>i, <1>1, <1>2, <1>3, PTL DEF Spec
=============================================================================
