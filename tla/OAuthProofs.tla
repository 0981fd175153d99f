---------------------------- MODULE OAuthProofs -----------------------------
(***************************************************************************)
(* Proofs for every value of the constants: every state is well-typed,     *)
(* every one-time credential advances the flow at most once, and refresh   *)
(* families are chains whose authority only narrows, in which a replay     *)
(* stays detectable and which stay revoked once they are.                  *)
(***************************************************************************)
EXTENDS OAuthInvariant, TLAPS

-----------------------------------------------------------------------------
(* Tables                                                                  *)

\* Deleting rows (pruneTx, pruneClientsTx) leaves a table of the same type.
LEMMA RestrictTable ==
    ASSUME NEW f, NEW keys, NEW Row, NEW S, IsTable(f, keys, Row), S \subseteq DOMAIN f
    PROVE  IsTable(Restrict(f, S), keys, Row)
BY DEF IsTable, Restrict

\* Inserting a row of the right type leaves a table of the same type.
LEMMA InsertTable ==
    ASSUME NEW f, NEW keys, NEW Row, NEW k \in keys, NEW row \in Row,
           IsTable(f, keys, Row)
    PROVE  IsTable(Insert(f, k, row), keys, Row)
BY DEF IsTable, Insert

\* Setting consumed_at on a row preserves the type of each of the tables.
LEMMA ConsumeTable ==
    ASSUME NEW f, NEW keys, NEW d
    PROVE  /\ IsTable(f, keys, Authorization) => IsTable(Consume(f, d), keys, Authorization)
           /\ IsTable(f, keys, Consent) => IsTable(Consume(f, d), keys, Consent)
           /\ IsTable(f, keys, Grant) => IsTable(Consume(f, d), keys, Grant)
<1>1. IsTable(f, keys, Authorization) => IsTable(Consume(f, d), keys, Authorization)
  BY DEF IsTable, Consume, Authorization
<1>2. IsTable(f, keys, Consent) => IsTable(Consume(f, d), keys, Consent)
  BY DEF IsTable, Consume, Consent
<1>3. IsTable(f, keys, Grant) => IsTable(Consume(f, d), keys, Grant)
  BY DEF IsTable, Consume, Grant
<1> QED BY <1>1, <1>2, <1>3

\* revokeFamilyTx preserves the type of the grants table.
LEMMA RevokeTable ==
    ASSUME NEW f, NEW keys, NEW family, IsTable(f, keys, Grant)
    PROVE  IsTable(RevokeRows(f, family), keys, Grant)
BY DEF IsTable, RevokeRows, Grant

\* Pruning preserves the type of every table.
LEMMA PruneTable ==
    ASSUME NEW f, NEW keys, NEW Row, IsTable(f, keys, Row)
    PROVE  /\ IsTable(PruneRows(f), keys, Row)
           /\ IsTable(PruneFamilies(f), keys, Row)
BY RestrictTable DEF PruneRows, PruneFamilies

\* What a pruned table holds: rows of the original, unchanged.  A family is
\* kept or deleted as a whole.
LEMMA PruneFacts ==
    ASSUME NEW f
    PROVE  /\ DOMAIN PruneRows(f) \subseteq DOMAIN f
           /\ \A d \in DOMAIN PruneRows(f) :
                PruneRows(f)[d] = f[d] /\ TextAfter(f[d].expires, clock)
           /\ DOMAIN PruneFamilies(f) \subseteq DOMAIN f
           /\ \A d \in DOMAIN PruneFamilies(f) : PruneFamilies(f)[d] = f[d]
           /\ \A d \in DOMAIN PruneFamilies(f), e \in DOMAIN f :
                f[e].family = f[d].family => e \in DOMAIN PruneFamilies(f)
           /\ \A d \in DOMAIN PruneFamilies(f) : \E e \in DOMAIN f :
                f[e].family = f[d].family /\ TextAfter(f[e].expires, clock)
BY DEF PruneRows, PruneFamilies, Restrict

\* What a table holds after a row has been consumed.
LEMMA ConsumeAuthorization ==
    ASSUME NEW f, NEW keys, IsTable(f, keys, Authorization), NEW d \in DOMAIN f
    PROVE  /\ DOMAIN Consume(f, d) = DOMAIN f
           /\ \A e \in DOMAIN f : e # d => Consume(f, d)[e] = f[e]
           /\ Consume(f, d)[d].consumed
           /\ \A e \in DOMAIN f : /\ Consume(f, d)[e].binding = f[e].binding
                                  /\ Consume(f, d)[e].scopes = f[e].scopes
                                  /\ Consume(f, d)[e].expires = f[e].expires
BY DEF IsTable, Consume, Authorization

LEMMA ConsumeConsent ==
    ASSUME NEW f, NEW keys, IsTable(f, keys, Consent), NEW d \in DOMAIN f
    PROVE  /\ DOMAIN Consume(f, d) = DOMAIN f
           /\ \A e \in DOMAIN f : e # d => Consume(f, d)[e] = f[e]
           /\ Consume(f, d)[d].consumed
           /\ \A e \in DOMAIN f : /\ Consume(f, d)[e].binding = f[e].binding
                                  /\ Consume(f, d)[e].subject = f[e].subject
                                  /\ Consume(f, d)[e].scopes = f[e].scopes
                                  /\ Consume(f, d)[e].ends = f[e].ends
                                  /\ Consume(f, d)[e].expires = f[e].expires
BY DEF IsTable, Consume, Consent

LEMMA ConsumeGrant ==
    ASSUME NEW f, NEW keys, IsTable(f, keys, Grant), NEW d \in DOMAIN f
    PROVE  /\ DOMAIN Consume(f, d) = DOMAIN f
           /\ \A e \in DOMAIN f : e # d => Consume(f, d)[e] = f[e]
           /\ Consume(f, d)[d].consumed
           /\ \A e \in DOMAIN f : /\ Consume(f, d)[e].family = f[e].family
                                  /\ Consume(f, d)[e].generation = f[e].generation
                                  /\ Consume(f, d)[e].client = f[e].client
                                  /\ Consume(f, d)[e].subject = f[e].subject
                                  /\ Consume(f, d)[e].resource = f[e].resource
                                  /\ Consume(f, d)[e].scopes = f[e].scopes
                                  /\ Consume(f, d)[e].expires = f[e].expires
                                  /\ Consume(f, d)[e].revoked = f[e].revoked
BY DEF IsTable, Consume, Grant

\* What the grants table holds after a family has been revoked.
LEMMA RevokeFacts ==
    ASSUME NEW f, NEW keys, NEW family, IsTable(f, keys, Grant)
    PROVE  LET g == RevokeRows(f, family)
           IN  /\ DOMAIN g = DOMAIN f
               /\ \A e \in DOMAIN f : /\ g[e].family = f[e].family
                                      /\ g[e].generation = f[e].generation
                                      /\ g[e].client = f[e].client
                                      /\ g[e].subject = f[e].subject
                                      /\ g[e].resource = f[e].resource
                                      /\ g[e].scopes = f[e].scopes
                                      /\ g[e].expires = f[e].expires
                                      /\ g[e].consumed = f[e].consumed
                                      /\ g[e].revoked <=> (f[e].revoked \/ f[e].family = family)
BY DEF IsTable, RevokeRows, Grant

\* A row that a read finds is a row of the table.
LEMMA FoundRow ==
    ASSUME NEW f, NEW keys, NEW Row, NEW key, IsTable(f, keys, Row),
           NEW row \in Found(f, key)
    PROVE  key \in DOMAIN f /\ row = f[key] /\ row \in Row
BY DEF Found, IsTable

-----------------------------------------------------------------------------
(* Type correctness                                                        *)

\* The op of a request tells what the request carries.
LEMMA RequestShape ==
    ASSUME NEW q \in Request
    PROVE  /\ q.op = "register" => q \in RegisterRequest
           /\ q.op \in {"begin_touch", "begin_create"} => q \in BeginRequest
           /\ q.op \in {"login_client", "login_commit"} => q \in LoginRequest
           /\ q.op = "consent" => q \in ConsentRequest
           /\ q.op = "exchange" => q \in ExchangeRequest
           /\ q.op = "refresh" => q \in RefreshRequest
           /\ q.op = "revoke" => q \in RevokeRequest
BY DEF Request, Idle, RegisterRequest, BeginRequest, LoginRequest, ConsentRequest,
       ExchangeRequest, RefreshRequest, RevokeRequest

\* A slot moves from one request to another of the right type.
LEMMA ProceedType ==
    ASSUME req \in [Requests -> Request], NEW r \in Requests, NEW q \in Request,
           Proceed(r, q)
    PROVE  req' \in [Requests -> Request]
BY DEF Proceed

LEMMA FinishType ==
    ASSUME req \in [Requests -> Request], NEW r \in Requests, Finish(r)
    PROVE  req' \in [Requests -> Request]
BY ProceedType DEF Finish, Request

\* Every initial state is well typed.
LEMMA InitType == Init => TypeOK
BY DEF Init, StoreInit, TypeOK, StoreTypeOK, IsTable, EmptyTable, Request

\* The read steps: they change the slot of the request only.
LEMMA ReadType ==
    ASSUME TypeOK, NEW r \in Requests, ReadOnly, req' \in [Requests -> Request]
    PROVE  TypeOK'
BY DEF TypeOK, StoreTypeOK, ReadOnly, storeVars, ghostVars, IsTable

\* Positive lifetimes, in the form the arithmetic below uses.
LEMMA Lifetimes ==
    /\ TransactionTTL \in Nat /\ ConsentTTL \in Nat /\ CodeTTL \in Nat /\ RefreshTTL \in Nat
    /\ RefreshTTL > ConsentTTL + CodeTTL
BY ConfigAssumption DEF ValidConfig

\* The successor a refresh proposes, field by field.
LEMMA SuccessorFields ==
    ASSUME NEW g \in Grant, NEW available
    PROVE  LET s == Successor(g, available)
           IN  /\ s \in Grant
               /\ s.family = g.family /\ s.generation = g.generation + 1
               /\ s.client = g.client /\ s.subject = g.subject
               /\ s.resource = g.resource /\ s.scopes = g.scopes \cap available
               /\ s.expires = g.expires
               /\ s.consumed = g.consumed /\ s.revoked = g.revoked
<1>1. g.generation + 1 \in Nat /\ g.scopes \cap available \in SUBSET Scopes
  BY DEF Grant
<1> QED BY <1>1 DEF Successor, Grant

\* Every step leads from a well-typed state to a well-typed state.
LEMMA NextType == TypeOK /\ [Next]_vars => TypeOK'
<1> SUFFICES ASSUME TypeOK, [Next]_vars PROVE TypeOK'
  OBVIOUS
<1> USE DEF TypeOK
<1>p. /\ IsTable(PruneRows(authorizations), Transactions, Authorization)
      /\ IsTable(PruneRows(consents), ConsentTokens, Consent)
      /\ IsTable(PruneRows(codes), Codes, Code)
      /\ IsTable(PruneFamilies(grants), RefreshTokens, Grant)
  BY PruneTable DEF StoreTypeOK
<1>r. ASSUME NEW r \in Requests, Step(r) PROVE TypeOK'
  <2> USE <1>r
  <2>q. req[r] \in Request
    OBVIOUS
  <2>f. ASSUME Finish(r) PROVE req' \in [Requests -> Request]
    BY <2>f, FinishType
  <2>1. CASE RegisterStart(r)
    <3>1. [op |-> "register", at |-> clock] \in Request
      BY DEF Request, RegisterRequest, StoreTypeOK
    <3> QED BY <2>1, <3>1, ProceedType, ReadType DEF RegisterStart
  <2>2. CASE RegisterCommit(r)
    <3>1. PICK id \in ClientIDs, redirects \in SUBSET RedirectURIs \ {{}},
               scopes \in (SUBSET Scopes \ {{}}) \cup {Scopes}, now \in req[r].at .. clock :
            /\ RegisterClient(id, [redirects |-> redirects, scopes |-> scopes,
                                   lastUsed |-> now])
            /\ minted' = minted \cup {<<"client", id>>}
      BY <2>2 DEF RegisterCommit
    <3>2. [redirects |-> redirects, scopes |-> scopes, lastUsed |-> now] \in Client
      BY <3>1 DEF Client, Time
    <3>3. IsTable(clients', ClientIDs, Client)
      BY <3>1, <3>2, RestrictTable, InsertTable
         DEF RegisterClient, RetainedClients, StoreTypeOK
    <3>4. minted' \subseteq Minted
      BY <3>1 DEF Minted
    <3> QED BY <1>p, <2>2, <2>f, <3>1, <3>3, <3>4
            DEF RegisterCommit, RegisterClient, StoreTypeOK
  <2>3. CASE BeginGetClient(r)
    <3>1. PICK b \in Binding, scopes \in SUBSET Scopes :
            Proceed(r, [op |-> "begin_touch", binding |-> b, scopes |-> scopes,
                        at |-> clock])
      BY <2>3 DEF BeginGetClient
    <3>3. [op |-> "begin_touch", binding |-> b, scopes |-> scopes, at |-> clock] \in Request
      BY <3>1 DEF Request, BeginRequest, StoreTypeOK
    <3> QED BY <2>3, <3>1, <3>3, ProceedType, ReadType DEF BeginGetClient
  <2>4. CASE BeginTouchClient(r)
    <3>1. req[r] \in BeginRequest
      BY <2>4, <2>q, RequestShape DEF BeginTouchClient
    <3>2. PICK now \in req[r].at .. clock : TouchClient(req[r].binding.client, now)
      BY <2>4 DEF BeginTouchClient
    <3>3. IsTable(clients', ClientIDs, Client)
      BY <3>1, <3>2 DEF TouchClient, StoreTypeOK, IsTable, Client, Time, BeginRequest
    <3>4. [req[r] EXCEPT !.op = "begin_create", !.at = clock] \in Request
      BY <3>1 DEF Request, BeginRequest, StoreTypeOK
    <3> QED BY <2>4, <3>2, <3>3, <3>4, ProceedType
            DEF BeginTouchClient, TouchClient, StoreTypeOK, ghostVars
  <2>5. CASE BeginCreateAuthorization(r)
    <3>1. req[r] \in BeginRequest
      BY <2>5, <2>q, RequestShape DEF BeginCreateAuthorization
    <3>2. PICK t \in Transactions, now \in req[r].at .. clock :
            /\ CreateAuthorization(t, [binding |-> req[r].binding, scopes |-> req[r].scopes,
                                       expires |-> now + TransactionTTL, consumed |-> FALSE])
            /\ minted' = minted \cup {<<"transaction", t>>}
      BY <2>5 DEF BeginCreateAuthorization
    <3>3. [binding |-> req[r].binding, scopes |-> req[r].scopes,
           expires |-> now + TransactionTTL, consumed |-> FALSE] \in Authorization
      BY <3>1, <3>2, Lifetimes DEF BeginRequest, Authorization, Time
    <3>4. IsTable(authorizations', Transactions, Authorization)
      BY <1>p, <3>2, <3>3, InsertTable DEF CreateAuthorization
    <3>5. minted' \subseteq Minted
      BY <3>2 DEF Minted
    <3> QED BY <1>p, <2>5, <2>f, <3>2, <3>4, <3>5
            DEF BeginCreateAuthorization, CreateAuthorization, StoreTypeOK
  <2>6. CASE LoginGetAuthorization(r)
    <3>1. PICK d \in Transactions, subject \in Subjects :
            \E auth \in GetAuthorization(d) :
              Proceed(r, [op |-> "login_client", d |-> d, binding |-> auth.binding,
                          subject |-> subject, scopes |-> auth.scopes, at |-> clock])
      BY <2>6 DEF LoginGetAuthorization
    <3>a. \A auth \in GetAuthorization(d) : auth \in Authorization
      BY FoundRow DEF GetAuthorization, StoreTypeOK
    <3>2. \A auth \in GetAuthorization(d) :
            [op |-> "login_client", d |-> d, binding |-> auth.binding,
             subject |-> subject, scopes |-> auth.scopes, at |-> clock] \in Request
      BY <3>a DEF Request, LoginRequest, StoreTypeOK, Authorization
    <3> QED BY <2>6, <3>1, <3>2, ProceedType, ReadType DEF LoginGetAuthorization
  <2>7. CASE LoginGetClient(r)
    <3>1. req[r] \in LoginRequest
      BY <2>7, <2>q, RequestShape DEF LoginGetClient
    <3>2. \A scopes : [req[r] EXCEPT !.op = "login_commit", !.at = clock,
                         !.scopes = @ \cap scopes
                                      \cap ResourceScopes[req[r].binding.resource]] \in Request
      BY <3>1 DEF Request, LoginRequest, StoreTypeOK
    <3> QED BY <2>7, <3>2, ProceedType, ReadType DEF LoginGetClient
  <2>8. CASE LoginCommit(r)
    <3>1. req[r] \in LoginRequest
      BY <2>8, <2>q, RequestShape DEF LoginCommit
    <3>2. PICK t \in ConsentTokens, available \in SUBSET Scopes, now \in req[r].at .. clock :
            /\ CommitLogin(req[r].d, t,
                 [binding |-> req[r].binding, subject |-> req[r].subject,
                  scopes |-> req[r].scopes \cap available,
                  ends |-> now + RefreshTTL, expires |-> now + ConsentTTL,
                  consumed |-> FALSE])
            /\ minted' = minted \cup {<<"consent", t>>}
            /\ lineage' = lineage \cup {<<"login", req[r].d, t>>}
      BY <2>8 DEF LoginCommit
    <3>3. [binding |-> req[r].binding, subject |-> req[r].subject,
           scopes |-> req[r].scopes \cap available,
           ends |-> now + RefreshTTL, expires |-> now + ConsentTTL,
           consumed |-> FALSE] \in Consent
      BY <3>1, <3>2, Lifetimes DEF LoginRequest, Consent, Time
    <3>4. /\ IsTable(consents', ConsentTokens, Consent)
          /\ IsTable(authorizations', Transactions, Authorization)
      BY <1>p, <3>2, <3>3, InsertTable, ConsumeTable DEF CommitLogin
    <3>5. minted' \subseteq Minted /\ lineage' \subseteq Lineage
      BY <3>1, <3>2 DEF Minted, Lineage, LoginRequest
    <3> QED BY <1>p, <2>8, <2>f, <3>2, <3>4, <3>5 DEF LoginCommit, CommitLogin, StoreTypeOK
  <2>9. CASE ConsentGet(r)
    <3>1. PICK d \in ConsentTokens : \E consent \in GetConsent(d) :
            Proceed(r, [op |-> "consent", d |-> d, read |-> consent, at |-> clock])
      BY <2>9 DEF ConsentGet
    <3>2. \A consent \in GetConsent(d) :
            [op |-> "consent", d |-> d, read |-> consent, at |-> clock] \in Request
      BY FoundRow DEF GetConsent, Request, ConsentRequest, StoreTypeOK
    <3> QED BY <2>9, <3>1, <3>2, ProceedType, ReadType DEF ConsentGet
  <2>10. CASE ConsentApprove(r)
    <3>1. req[r] \in ConsentRequest
      BY <2>10, <2>q, RequestShape DEF ConsentApprove
    <3>2. PICK t \in Codes, selected \in SUBSET req[r].read.scopes, now \in req[r].at .. clock :
            /\ CommitApproval(req[r].d, t,
                 [binding |-> req[r].read.binding, subject |-> req[r].read.subject,
                  scopes |-> selected, ends |-> req[r].read.ends,
                  expires |-> now + CodeTTL, consumed |-> FALSE])
            /\ minted' = minted \cup {<<"code", t>>}
            /\ lineage' = lineage \cup {<<"decision", req[r].d, t>>}
      BY <2>10 DEF ConsentApprove
    <3>3. [binding |-> req[r].read.binding, subject |-> req[r].read.subject,
           scopes |-> selected, ends |-> req[r].read.ends,
           expires |-> now + CodeTTL, consumed |-> FALSE] \in Code
      BY <3>1, <3>2, Lifetimes DEF ConsentRequest, Code, Consent, Time
    <3>4. /\ IsTable(codes', Codes, Code)
          /\ IsTable(consents', ConsentTokens, Consent)
      BY <1>p, <3>2, <3>3, InsertTable, ConsumeTable DEF CommitApproval
    <3>5. minted' \subseteq Minted /\ lineage' \subseteq Lineage
      BY <3>1, <3>2 DEF Minted, Lineage, ConsentRequest
    <3> QED BY <1>p, <2>10, <2>f, <3>2, <3>4, <3>5
            DEF ConsentApprove, CommitApproval, StoreTypeOK
  <2>11. CASE ConsentDeny(r)
    <3>1. req[r] \in ConsentRequest
      BY <2>11, <2>q, RequestShape DEF ConsentDeny
    <3>2. IsTable(consents', ConsentTokens, Consent)
      BY <1>p, <2>11, ConsumeTable DEF ConsentDeny, CommitDenial
    <3>3. lineage' \subseteq Lineage
      BY <2>11, <3>1 DEF ConsentDeny, Lineage, ConsentRequest
    <3> QED BY <1>p, <2>11, <2>f, <3>2, <3>3 DEF ConsentDeny, CommitDenial, StoreTypeOK
  <2>12. CASE ExchangeGetCode(r)
    <3>1. PICK d \in Codes : \E code \in Found(codes, d) :
            Proceed(r, [op |-> "exchange", d |-> d, read |-> code])
      BY <2>12 DEF ExchangeGetCode, GetCodeForExchange
    <3>2. \A code \in Found(codes, d) :
            [op |-> "exchange", d |-> d, read |-> code] \in Request
      BY FoundRow DEF Request, ExchangeRequest, StoreTypeOK
    <3> QED BY <2>12, <3>1, <3>2, ProceedType, ReadType DEF ExchangeGetCode
  <2>13. CASE ExchangeCommit(r)
    <3>1. req[r] \in ExchangeRequest
      BY <2>13, <2>q, RequestShape DEF ExchangeCommit
    <3> DEFINE g(f) == [family |-> f, generation |-> 0,
                        client |-> req[r].read.binding.client,
                        subject |-> req[r].read.subject,
                        resource |-> req[r].read.binding.resource,
                        scopes |-> req[r].read.scopes, expires |-> req[r].read.ends,
                        consumed |-> FALSE, revoked |-> FALSE]
    <3>2. PICK t \in RefreshTokens, family \in Families :
            /\ CommitCodeExchange(req[r].d, t, g(family))
            /\ minted' = minted \cup {<<"refresh", t>>, <<"family", family>>}
            /\ lineage' = lineage \cup {<<"exchange", req[r].d, t>>}
      BY <2>13 DEF ExchangeCommit
    <3>3. g(family) \in Grant
      BY <3>1, <3>2 DEF ExchangeRequest, Code, Consent, Grant, Binding
    <3>4. /\ IsTable(grants', RefreshTokens, Grant)
          /\ IsTable(codes', Codes, Code)
      BY <1>p, <3>2, <3>3, InsertTable, ConsumeTable DEF CommitCodeExchange, Code
    <3>5. minted' \subseteq Minted /\ lineage' \subseteq Lineage
      BY <3>1, <3>2 DEF Minted, Lineage, ExchangeRequest
    <3> QED BY <1>p, <2>13, <2>f, <3>2, <3>4, <3>5
            DEF ExchangeCommit, CommitCodeExchange, StoreTypeOK
  <2>14. CASE RefreshGetGrant(r)
    <3>1. PICK d \in RefreshTokens : \E grant \in GetRefreshGrant(d) :
            Proceed(r, [op |-> "refresh", d |-> d, read |-> grant])
      BY <2>14 DEF RefreshGetGrant
    <3>2. \A grant \in GetRefreshGrant(d) :
            [op |-> "refresh", d |-> d, read |-> grant] \in Request
      BY FoundRow DEF GetRefreshGrant, Request, RefreshRequest, StoreTypeOK
    <3> QED BY <2>14, <3>1, <3>2, ProceedType, ReadType DEF RefreshGetGrant
  <2>15. CASE RefreshRevokeFamily(r)
    BY <2>15, <2>f, RevokeTable
       DEF RefreshRevokeFamily, RevokeRefreshFamily, StoreTypeOK, ghostVars
  <2>16. CASE RefreshRotate(r)
    <3>1. req[r] \in RefreshRequest
      BY <2>16, <2>q, RequestShape DEF RefreshRotate
    <3>2. PICK t \in RefreshTokens, available \in SUBSET Scopes :
            /\ RotationToSuccessor(req[r].d, req[r].read.family, req[r].read.generation,
                                   t, Successor(req[r].read, available))
            /\ minted' = minted \cup {<<"refresh", t>>}
            /\ lineage' = lineage \cup {<<"rotation", req[r].d, t>>}
      BY <2>16 DEF RefreshRotate
    <3>3. Successor(req[r].read, available) \in Grant
      BY <3>1, SuccessorFields DEF RefreshRequest
    <3>4. IsTable(grants', RefreshTokens, Grant)
      BY <1>p, <3>2, <3>3, InsertTable, ConsumeTable DEF RotationToSuccessor
    <3>5. minted' \subseteq Minted /\ lineage' \subseteq Lineage
      BY <3>1, <3>2 DEF Minted, Lineage, RefreshRequest
    <3> QED BY <1>p, <2>16, <2>f, <3>4, <3>5
            DEF RefreshRotate, PruneBesidesGrants, StoreTypeOK
  <2>17. CASE RefreshLosesRace(r)
    BY <1>p, <2>17, <2>f, RevokeTable
       DEF RefreshLosesRace, RotationOfSpentGrant, PruneBesidesGrants, StoreTypeOK, ghostVars
  <2>18. CASE RefreshReachesLimit(r)
    BY <1>p, <2>18, <2>f, RevokeTable
       DEF RefreshReachesLimit, RotationPastLimit, PruneBesidesGrants, StoreTypeOK, ghostVars
  <2>19. CASE RevokeGetGrant(r)
    <3>1. PICK d \in RefreshTokens : \E grant \in GetRefreshGrant(d) :
            Proceed(r, [op |-> "revoke", family |-> grant.family])
      BY <2>19 DEF RevokeGetGrant
    <3>2. \A grant \in GetRefreshGrant(d) : grant \in Grant
      BY FoundRow DEF GetRefreshGrant, StoreTypeOK
    <3>3. \A grant \in GetRefreshGrant(d) :
            [op |-> "revoke", family |-> grant.family] \in Request
      BY <3>2 DEF Request, RevokeRequest, Grant
    <3> QED BY <2>19, <3>1, <3>3, ProceedType, ReadType DEF RevokeGetGrant
  <2>20. CASE RevokeCommit(r)
    BY <2>20, <2>f, RevokeTable
       DEF RevokeCommit, RevokeRefreshFamily, StoreTypeOK, ghostVars
  <2>21. CASE Fail(r)
    BY <2>21, <2>f, ReadType DEF Fail
  <2> QED BY <2>1, <2>2, <2>3, <2>4, <2>5, <2>6, <2>7, <2>8, <2>9, <2>10, <2>11, <2>12,
             <2>13, <2>14, <2>15, <2>16, <2>17, <2>18, <2>19, <2>20, <2>21, <1>r DEF Step
<1>1. CASE Crash
  BY <1>1 DEF Crash, ReadOnly, Request, StoreTypeOK, IsTable, storeVars, ghostVars
<1>2. CASE HostPrune
  BY <1>2, <1>p DEF HostPrune, Prune, PruneBesidesGrants, StoreTypeOK, ghostVars
<1>3. CASE Tick
  BY <1>3 DEF Tick, StoreTypeOK, IsTable, storeVars, ghostVars
<1>4. CASE UNCHANGED vars
  BY <1>4 DEF vars, StoreTypeOK, IsTable
<1> QED BY <1>r, <1>1, <1>2, <1>3, <1>4 DEF Next

\* The server's state keeps its type: in particular a request always carries
\* what its next store call needs, and every row is complete.
THEOREM TypeCorrect == Spec => []TypeOK
BY InitType, NextType, PTL DEF Spec

-----------------------------------------------------------------------------
(* How one table and the lineage of its credentials may change.            *)

\* No row is added or modified; rows may be deleted.
Shrinks(T, T2) == \A d \in DOMAIN T2 : d \in DOMAIN T /\ T2[d] = T[d]

\* Rows may be deleted and new ones added under fresh keys, and a row that is
\* consumed stays consumed.
Keeps(T, T2, kind) ==
    \A d \in DOMAIN T2 :
        \/ d \in DOMAIN T /\ (T[d].consumed => T2[d].consumed)
        \/ <<kind, d>> \notin minted

\* Pruning, by row or by family, only shrinks a table.
LEMMA PruneShrinks ==
    ASSUME NEW T PROVE Shrinks(T, PruneRows(T)) /\ Shrinks(T, PruneFamilies(T))
BY DEF Shrinks, PruneRows, PruneFamilies, Restrict

\* Without a new advance, OneTime survives whatever keeps consumed rows so.
LEMMA OneTimeQuiet ==
    ASSUME NEW T, NEW T2, NEW kind, NEW mint, NEW L, NEW L2,
           OneTime(T, kind, L), Keeps(T, T2, mint),
           \A l \in L : l[1] = kind => <<mint, l[2]>> \in minted,
           \A l \in L2 : l[1] = kind => l \in L
    PROVE  OneTime(T2, kind, L2)
BY DEF OneTime, Keeps

\* An advance of an unconsumed row that the same transaction consumes.
LEMMA OneTimeAdvance ==
    ASSUME NEW T, NEW T2, NEW kind, NEW mint, NEW L, NEW L2, NEW d, NEW s,
           OneTime(T, kind, L), Keeps(T, T2, mint),
           \A l \in L : l[1] = kind => <<mint, l[2]>> \in minted,
           L2 = L \cup {<<kind, d, s>>},
           d \in DOMAIN T, ~T[d].consumed,
           d \in DOMAIN T2 => T2[d].consumed
    PROVE  OneTime(T2, kind, L2)
<1>1. \A l \in L2 : l[1] = kind => l \in L \/ (l[2] = d /\ l[3] = s)
  OBVIOUS
<1>2. \A l \in L : ~(l[1] = kind /\ l[2] = d)
  BY DEF OneTime
<1>3. \A l \in L2 : l[1] = kind /\ l[2] \in DOMAIN T2 => T2[l[2]].consumed
  BY <1>1 DEF OneTime, Keeps
<1>4. \A a, b \in L2 : a[1] = kind /\ b[1] = kind /\ a[2] = b[2] => a[3] = b[3]
  BY <1>1, <1>2 DEF OneTime
<1> QED BY <1>3, <1>4 DEF OneTime

-----------------------------------------------------------------------------
(* Steps that advance no credential                                        *)

\* The three tables of one-time credentials only shrink, refresh grants keep
\* their family and their consumed mark, and nothing enters the lineage.
QuietStep ==
    /\ Shrinks(authorizations, authorizations')
    /\ Shrinks(consents, consents')
    /\ Shrinks(codes, codes')
    /\ \A d \in DOMAIN grants' : /\ d \in DOMAIN grants
                                 /\ grants'[d].family = grants[d].family
                                 /\ grants'[d].consumed = grants[d].consumed
    /\ lineage' = lineage
    /\ minted \subseteq minted'

QuietAction(r) ==
    \/ RegisterStart(r) \/ RegisterCommit(r) \/ BeginGetClient(r) \/ BeginTouchClient(r)
    \/ LoginGetAuthorization(r) \/ LoginGetClient(r) \/ ConsentGet(r) \/ ExchangeGetCode(r)
    \/ RefreshGetGrant(r) \/ RefreshRevokeFamily(r) \/ RefreshLosesRace(r)
    \/ RefreshReachesLimit(r) \/ RevokeGetGrant(r) \/ RevokeCommit(r) \/ Fail(r)

\* Reads, registrations, revocations, failures, crashes, pruning and the
\* clock advance no credential.
LEMMA Quiet ==
    ASSUME TypeOK,
           \/ \E r \in Requests : QuietAction(r)
           \/ Crash \/ HostPrune \/ Tick \/ UNCHANGED vars
    PROVE  QuietStep
<1>s. /\ Shrinks(authorizations, authorizations) /\ Shrinks(consents, consents)
      /\ Shrinks(codes, codes) /\ Shrinks(grants, grants)
  BY DEF Shrinks
<1>p. /\ Shrinks(authorizations, PruneRows(authorizations))
      /\ Shrinks(consents, PruneRows(consents)) /\ Shrinks(codes, PruneRows(codes))
      /\ Shrinks(grants, PruneFamilies(grants))
  BY PruneShrinks
<1>t. /\ IsTable(grants, RefreshTokens, Grant)
      /\ IsTable(PruneFamilies(grants), RefreshTokens, Grant)
  BY PruneTable DEF TypeOK, StoreTypeOK
<1>0. ASSUME UNCHANGED <<storeVars, ghostVars>> PROVE QuietStep
  BY <1>0, <1>s DEF QuietStep, storeVars, ghostVars
<1>1. ASSUME NEW r \in Requests, QuietAction(r) PROVE QuietStep
  <2>1. CASE RegisterStart(r) \/ BeginGetClient(r) \/ LoginGetAuthorization(r)
             \/ LoginGetClient(r) \/ ConsentGet(r) \/ ExchangeGetCode(r)
             \/ RefreshGetGrant(r) \/ RevokeGetGrant(r) \/ Fail(r)
    <3>1. ReadOnly
      BY <2>1 DEF RegisterStart, BeginGetClient, LoginGetAuthorization, LoginGetClient,
                  ConsentGet, ExchangeGetCode, RefreshGetGrant, RevokeGetGrant, Fail
    <3> QED BY <1>0, <3>1 DEF ReadOnly
  <2>2. CASE RegisterCommit(r)
    <3>1. /\ authorizations' = PruneRows(authorizations) /\ consents' = PruneRows(consents)
          /\ codes' = PruneRows(codes) /\ grants' = PruneFamilies(grants)
          /\ lineage' = lineage /\ minted \subseteq minted'
      BY <2>2 DEF RegisterCommit, RegisterClient
    <3> QED BY <1>p, <3>1 DEF QuietStep, Shrinks
  <2>3. CASE BeginTouchClient(r)
    BY <1>s, <2>3 DEF BeginTouchClient, TouchClient, QuietStep, Shrinks, ghostVars
  <2>4. CASE RefreshRevokeFamily(r) \/ RevokeCommit(r)
    <3>1. PICK family : RevokeRefreshFamily(family) /\ UNCHANGED ghostVars
      BY <2>4 DEF RefreshRevokeFamily, RevokeCommit
    <3>2. \A d \in DOMAIN grants' : /\ d \in DOMAIN grants
                                    /\ grants'[d].family = grants[d].family
                                    /\ grants'[d].consumed = grants[d].consumed
      BY <1>t, <3>1, RevokeFacts DEF RevokeRefreshFamily
    <3> QED BY <1>s, <3>1, <3>2 DEF RevokeRefreshFamily, QuietStep, ghostVars
  <2>5. CASE RefreshLosesRace(r) \/ RefreshReachesLimit(r)
    <3>1. PICK family : /\ grants' = RevokeRows(PruneFamilies(grants), family)
                        /\ PruneBesidesGrants /\ UNCHANGED ghostVars
      BY <2>5 DEF RefreshLosesRace, RefreshReachesLimit, RotationOfSpentGrant,
                  RotationPastLimit
    <3>2. \A d \in DOMAIN grants' : /\ d \in DOMAIN grants
                                    /\ grants'[d].family = grants[d].family
                                    /\ grants'[d].consumed = grants[d].consumed
      BY <1>t, <1>p, <3>1, RevokeFacts DEF Shrinks
    <3> QED BY <1>p, <3>1, <3>2 DEF PruneBesidesGrants, QuietStep, ghostVars
  <2> QED BY <1>1, <2>1, <2>2, <2>3, <2>4, <2>5 DEF QuietAction
<1>2. CASE Crash
  BY <1>0, <1>2 DEF Crash, ReadOnly
<1>3. CASE HostPrune
  BY <1>p, <1>3 DEF HostPrune, Prune, PruneBesidesGrants, QuietStep, Shrinks, ghostVars
<1>4. CASE Tick
  BY <1>0, <1>4 DEF Tick
<1>5. CASE UNCHANGED vars
  BY <1>0, <1>5 DEF vars, storeVars, ghostVars
<1> QED BY <1>1, <1>2, <1>3, <1>4, <1>5

\* What the argument needs to know of a state.
CredentialInv == TypeOK /\ StoredIsMinted /\ LineageIsMinted /\ OneTimeInv

\* A quiet step preserves it.
LEMMA QuietPreserves ==
    ASSUME CredentialInv, QuietStep
    PROVE  StoredIsMinted' /\ LineageIsMinted' /\ OneTimeInv'
<1>1. StoredIsMinted'
  BY DEF CredentialInv, StoredIsMinted, QuietStep, Shrinks
<1>2. LineageIsMinted'
  BY DEF CredentialInv, LineageIsMinted, QuietStep
<1>3. OneTimeInv'
  BY DEF CredentialInv, OneTimeInv, OneTime, QuietStep, Shrinks
<1> QED BY <1>1, <1>2, <1>3

-----------------------------------------------------------------------------
(* Steps that advance a credential                                         *)

\* A shrinking table, and one that gains a row under a fresh key, keep what
\* is consumed.
LEMMA ShrinkKeeps ==
    ASSUME NEW T, NEW T2, NEW kind, Shrinks(T, T2) PROVE Keeps(T, T2, kind)
BY DEF Shrinks, Keeps

LEMMA InsertKeeps ==
    ASSUME NEW T, NEW T2, NEW kind, NEW k, NEW row, Shrinks(T, T2), Fresh(kind, k)
    PROVE  Keeps(T, Insert(T2, k, row), kind)
<1>1. /\ DOMAIN Insert(T2, k, row) = DOMAIN T2 \cup {k}
      /\ \A d \in DOMAIN T2 : d # k => Insert(T2, k, row)[d] = T2[d]
  BY DEF Insert
<1> SUFFICES ASSUME NEW d \in DOMAIN Insert(T2, k, row)
             PROVE  \/ d \in DOMAIN T /\ (T[d].consumed => Insert(T2, k, row)[d].consumed)
                    \/ <<kind, d>> \notin minted
  BY DEF Keeps
<1>2. CASE d = k
  BY <1>2 DEF Fresh
<1>3. CASE d # k
  BY <1>1, <1>3 DEF Shrinks
<1> QED BY <1>2, <1>3

\* A link between credentials that have been minted may join the lineage.
LEMMA LineageGrows ==
    ASSUME LineageIsMinted, minted \subseteq minted', NEW kind, NEW d, NEW s,
           lineage' = lineage \cup {<<kind, d, s>>},
           kind = "login" => <<"transaction", d>> \in minted',
           kind = "decision" => <<"consent", d>> \in minted',
           kind = "exchange" => <<"code", d>> \in minted' /\ <<"refresh", s>> \in minted',
           kind = "rotation" => <<"refresh", d>> \in minted' /\ <<"refresh", s>> \in minted'
    PROVE  LineageIsMinted'
<1> DEFINE Linked(l) ==
             /\ l[1] = "login" => <<"transaction", l[2]>> \in minted'
             /\ l[1] = "decision" => <<"consent", l[2]>> \in minted'
             /\ l[1] = "exchange" => <<"code", l[2]>> \in minted'
             /\ l[1] = "rotation" => /\ <<"refresh", l[2]>> \in minted'
                                     /\ <<"refresh", l[3]>> \in minted'
             /\ l[1] = "exchange" => <<"refresh", l[3]>> \in minted'
<1>1. \A l \in lineage : Linked(l)
  BY DEF LineageIsMinted
<1>2. Linked(<<kind, d, s>>)
  OBVIOUS
<1>3. \A l \in lineage' : l \in lineage \/ l = <<kind, d, s>>
  OBVIOUS
<1> HIDE DEF Linked
<1>4. \A l \in lineage' : Linked(l)
  BY <1>1, <1>2, <1>3
<1> QED BY <1>4 DEF LineageIsMinted, Linked

\* Initially nothing is stored and nothing has advanced.
LEMMA InitCredential == Init => CredentialInv
<1> SUFFICES ASSUME Init PROVE CredentialInv
  OBVIOUS
<1>1. TypeOK
  BY InitType
<1> QED BY <1>1 DEF Init, StoreInit, EmptyTable, CredentialInv, StoredIsMinted,
                   LineageIsMinted, OneTimeInv, OneTime

\* Every step preserves the invariant.
LEMMA NextCredential == CredentialInv /\ [Next]_vars => CredentialInv'
<1> SUFFICES ASSUME CredentialInv, [Next]_vars PROVE CredentialInv'
  OBVIOUS
<1>t. TypeOK /\ TypeOK'
  BY NextType DEF CredentialInv
<1>ty. /\ IsTable(PruneRows(authorizations), Transactions, Authorization)
       /\ IsTable(PruneRows(consents), ConsentTokens, Consent)
       /\ IsTable(PruneRows(codes), Codes, Consent)
       /\ IsTable(PruneFamilies(grants), RefreshTokens, Grant)
  BY <1>t, PruneTable DEF TypeOK, StoreTypeOK, Code
<1>p. /\ Shrinks(authorizations, PruneRows(authorizations))
      /\ Shrinks(consents, PruneRows(consents)) /\ Shrinks(codes, PruneRows(codes))
      /\ Shrinks(grants, PruneFamilies(grants))
  BY PruneShrinks
<1>k. /\ Keeps(authorizations, PruneRows(authorizations), "transaction")
      /\ Keeps(consents, PruneRows(consents), "consent")
      /\ Keeps(codes, PruneRows(codes), "code")
      /\ Keeps(grants, PruneFamilies(grants), "refresh")
  BY <1>p, ShrinkKeeps
<1>m. \A l \in lineage :
        /\ l[1] = "login" => <<"transaction", l[2]>> \in minted
        /\ l[1] = "decision" => <<"consent", l[2]>> \in minted
        /\ l[1] = "exchange" => <<"code", l[2]>> \in minted
        /\ l[1] = "rotation" => <<"refresh", l[2]>> \in minted
  BY DEF CredentialInv, LineageIsMinted
<1>o. /\ OneTime(authorizations, "login", lineage) /\ OneTime(consents, "decision", lineage)
      /\ OneTime(codes, "exchange", lineage) /\ OneTime(grants, "rotation", lineage)
  BY DEF CredentialInv, OneTimeInv
<1>q. ASSUME QuietStep PROVE CredentialInv'
  BY <1>q, <1>t, QuietPreserves DEF CredentialInv
<1>1. ASSUME NEW r \in Requests, BeginCreateAuthorization(r) PROVE CredentialInv'
  <2>1. PICK t, row :
          /\ t \in Transactions
          /\ Fresh("transaction", t)
          /\ authorizations' = Insert(PruneRows(authorizations), t, row)
          /\ minted' = minted \cup {<<"transaction", t>>}
    BY <1>1 DEF BeginCreateAuthorization, CreateAuthorization
  <2>2. /\ consents' = PruneRows(consents) /\ codes' = PruneRows(codes)
        /\ grants' = PruneFamilies(grants) /\ lineage' = lineage
    BY <1>1 DEF BeginCreateAuthorization, CreateAuthorization
  <2>3. StoredIsMinted'
    BY <1>p, <2>1, <2>2 DEF CredentialInv, StoredIsMinted, Shrinks, Insert
  <2>4. LineageIsMinted'
    BY <2>1, <2>2 DEF CredentialInv, LineageIsMinted
  <2>5. OneTime(authorizations', "login", lineage')
    BY <1>p, <1>m, <1>o, <2>1, <2>2, InsertKeeps, OneTimeQuiet
  <2>6. /\ OneTime(consents', "decision", lineage') /\ OneTime(codes', "exchange", lineage')
        /\ OneTime(grants', "rotation", lineage')
    BY <1>k, <1>m, <1>o, <2>2, OneTimeQuiet
  <2> QED BY <1>t, <2>3, <2>4, <2>5, <2>6 DEF CredentialInv, OneTimeInv
<1>2. ASSUME NEW r \in Requests, LoginCommit(r) PROVE CredentialInv'
  <2> DEFINE d == req[r].d
  <2>1. PICK t, row :
          /\ t \in ConsentTokens
          /\ Fresh("consent", t)
          /\ consents' = Insert(PruneRows(consents), t, row)
          /\ minted' = minted \cup {<<"consent", t>>}
          /\ lineage' = lineage \cup {<<"login", d, t>>}
    BY <1>2 DEF LoginCommit, CommitLogin
  <2>2. /\ d \in DOMAIN PruneRows(authorizations)
        /\ ~PruneRows(authorizations)[d].consumed
        /\ authorizations' = Consume(PruneRows(authorizations), d)
        /\ codes' = PruneRows(codes) /\ grants' = PruneFamilies(grants)
    BY <1>2 DEF LoginCommit, CommitLogin, ValidateLoginCommit
  <2>3. /\ DOMAIN authorizations' = DOMAIN PruneRows(authorizations)
        /\ authorizations'[d].consumed
        /\ \A e \in DOMAIN authorizations' : e # d =>
             authorizations'[e] = PruneRows(authorizations)[e]
    BY <1>ty, <2>2, ConsumeAuthorization
  <2>4. Keeps(authorizations, authorizations', "transaction")
    BY <1>p, <2>2, <2>3 DEF Keeps, Shrinks
  <2>5. d \in DOMAIN authorizations /\ ~authorizations[d].consumed
    BY <1>p, <2>2 DEF Shrinks
  <2>6. StoredIsMinted'
    BY <1>p, <2>1, <2>2, <2>3 DEF CredentialInv, StoredIsMinted, Shrinks, Insert
  <2>7. LineageIsMinted'
    <3>1. <<"transaction", d>> \in minted
      BY <2>5 DEF CredentialInv, StoredIsMinted
    <3> QED BY <2>1, <3>1, LineageGrows DEF CredentialInv
  <2>8. OneTime(authorizations', "login", lineage')
    BY <1>m, <1>o, <2>1, <2>3, <2>4, <2>5, OneTimeAdvance
  <2>9. OneTime(consents', "decision", lineage')
    <3>1. Keeps(consents, consents', "consent")
      BY <1>p, <2>1, InsertKeeps
    <3>2. \A l \in lineage' : l[1] = "decision" => l \in lineage
      BY <2>1
    <3> QED BY <1>m, <1>o, <3>1, <3>2, OneTimeQuiet
  <2>10. OneTime(codes', "exchange", lineage') /\ OneTime(grants', "rotation", lineage')
    <3>1. \A l \in lineage' : (l[1] = "exchange" => l \in lineage) /\ (l[1] = "rotation" => l \in lineage)
      BY <2>1
    <3> QED BY <1>k, <1>m, <1>o, <2>2, <3>1, OneTimeQuiet
  <2> QED BY <1>t, <2>6, <2>7, <2>8, <2>9, <2>10 DEF CredentialInv, OneTimeInv
<1>3. ASSUME NEW r \in Requests, ConsentApprove(r) \/ ConsentDeny(r) PROVE CredentialInv'
  <2> DEFINE d == req[r].d
  <2>1. PICK s : lineage' = lineage \cup {<<"decision", d, s>>}
    BY <1>3 DEF ConsentApprove, ConsentDeny
  <2>2. /\ d \in DOMAIN PruneRows(consents)
        /\ ~PruneRows(consents)[d].consumed
        /\ consents' = Consume(PruneRows(consents), d)
        /\ authorizations' = PruneRows(authorizations) /\ grants' = PruneFamilies(grants)
    BY <1>3 DEF ConsentApprove, ConsentDeny, CommitApproval, CommitDenial,
                ValidateConsentCommit
  <2>3. /\ DOMAIN consents' = DOMAIN PruneRows(consents)
        /\ consents'[d].consumed
        /\ \A e \in DOMAIN consents' : e # d => consents'[e] = PruneRows(consents)[e]
    BY <1>ty, <2>2, ConsumeConsent
  <2>4. Keeps(consents, consents', "consent")
    BY <1>p, <2>2, <2>3 DEF Keeps, Shrinks
  <2>5. d \in DOMAIN consents /\ ~consents[d].consumed
    BY <1>p, <2>2 DEF Shrinks
  <2>c. /\ Keeps(codes, codes', "code")
        /\ minted \subseteq minted'
        /\ \A e \in DOMAIN codes' : e \in DOMAIN codes \/ <<"code", e>> \in minted'
    <3>1. CASE ConsentDeny(r)
      BY <1>k, <1>p, <3>1 DEF ConsentDeny, CommitDenial, Shrinks
    <3>2. CASE ConsentApprove(r)
      <4>1. PICK t, row :
              /\ t \in Codes
              /\ Fresh("code", t)
              /\ codes' = Insert(PruneRows(codes), t, row)
              /\ minted' = minted \cup {<<"code", t>>}
        BY <3>2 DEF ConsentApprove, CommitApproval
      <4>2. Keeps(codes, codes', "code")
        BY <1>p, <4>1, InsertKeeps
      <4> QED BY <1>p, <4>1, <4>2 DEF Shrinks, Insert
    <3> QED BY <1>3, <3>1, <3>2
  <2>6. StoredIsMinted'
    BY <1>p, <2>2, <2>3, <2>c DEF CredentialInv, StoredIsMinted, Shrinks
  <2>7. LineageIsMinted'
    <3>1. <<"consent", d>> \in minted
      BY <2>5 DEF CredentialInv, StoredIsMinted
    <3> QED BY <2>1, <2>c, <3>1, LineageGrows DEF CredentialInv
  <2>8. OneTime(consents', "decision", lineage')
    BY <1>m, <1>o, <2>1, <2>3, <2>4, <2>5, OneTimeAdvance
  <2>9. \A l \in lineage' : /\ l[1] = "login" => l \in lineage
                            /\ l[1] = "exchange" => l \in lineage
                            /\ l[1] = "rotation" => l \in lineage
    BY <2>1
  <2>10. /\ OneTime(authorizations', "login", lineage')
         /\ OneTime(codes', "exchange", lineage')
         /\ OneTime(grants', "rotation", lineage')
    BY <1>k, <1>m, <1>o, <2>2, <2>c, <2>9, OneTimeQuiet
  <2> QED BY <1>t, <2>6, <2>7, <2>8, <2>10 DEF CredentialInv, OneTimeInv
<1>4. ASSUME NEW r \in Requests, ExchangeCommit(r) PROVE CredentialInv'
  <2> DEFINE d == req[r].d
  <2>1. PICK t, family, row :
          /\ t \in RefreshTokens
          /\ family \in Families
          /\ Fresh("refresh", t)
          /\ row.family = family
          /\ grants' = Insert(PruneFamilies(grants), t, row)
          /\ minted' = minted \cup {<<"refresh", t>>, <<"family", family>>}
          /\ lineage' = lineage \cup {<<"exchange", d, t>>}
    BY <1>4 DEF ExchangeCommit, CommitCodeExchange
  <2>2. /\ d \in DOMAIN PruneRows(codes)
        /\ ~PruneRows(codes)[d].consumed
        /\ codes' = Consume(PruneRows(codes), d)
        /\ authorizations' = PruneRows(authorizations) /\ consents' = PruneRows(consents)
    BY <1>4 DEF ExchangeCommit, CommitCodeExchange, ValidateCodeExchangeCommit
  <2>3. /\ DOMAIN codes' = DOMAIN PruneRows(codes)
        /\ codes'[d].consumed
        /\ \A e \in DOMAIN codes' : e # d => codes'[e] = PruneRows(codes)[e]
    BY <1>ty, <2>2, ConsumeConsent
  <2>4. Keeps(codes, codes', "code")
    BY <1>p, <2>2, <2>3 DEF Keeps, Shrinks
  <2>5. d \in DOMAIN codes /\ ~codes[d].consumed
    BY <1>p, <2>2 DEF Shrinks
  <2>6. StoredIsMinted'
    BY <1>p, <2>1, <2>2, <2>3 DEF CredentialInv, StoredIsMinted, Shrinks, Insert
  <2>7. LineageIsMinted'
    <3>1. <<"code", d>> \in minted
      BY <2>5 DEF CredentialInv, StoredIsMinted
    <3> QED BY <2>1, <3>1, LineageGrows DEF CredentialInv
  <2>8. OneTime(codes', "exchange", lineage')
    BY <1>m, <1>o, <2>1, <2>3, <2>4, <2>5, OneTimeAdvance
  <2>9. \A l \in lineage' : /\ l[1] = "login" => l \in lineage
                            /\ l[1] = "decision" => l \in lineage
                            /\ l[1] = "rotation" => l \in lineage
    BY <2>1
  <2>10. Keeps(grants, grants', "refresh")
    BY <1>p, <2>1, InsertKeeps
  <2>11. /\ OneTime(authorizations', "login", lineage')
         /\ OneTime(consents', "decision", lineage')
         /\ OneTime(grants', "rotation", lineage')
    BY <1>k, <1>m, <1>o, <2>2, <2>9, <2>10, OneTimeQuiet
  <2> QED BY <1>t, <2>6, <2>7, <2>8, <2>11 DEF CredentialInv, OneTimeInv
<1>5. ASSUME NEW r \in Requests, RefreshRotate(r) PROVE CredentialInv'
  <2> DEFINE d == req[r].d
             grs == PruneFamilies(grants)
  <2>1. PICK t, row :
          /\ t \in RefreshTokens
          /\ Fresh("refresh", t)
          /\ d \in DOMAIN grs /\ ~grs[d].consumed
          /\ row.family = grs[d].family
          /\ grants' = Insert(Consume(grs, d), t, row)
          /\ minted' = minted \cup {<<"refresh", t>>}
          /\ lineage' = lineage \cup {<<"rotation", d, t>>}
    <3>1. PICK t \in RefreshTokens, available \in SUBSET Scopes :
            /\ Fresh("refresh", t)
            /\ RotationToSuccessor(d, req[r].read.family, req[r].read.generation,
                                   t, Successor(req[r].read, available))
            /\ minted' = minted \cup {<<"refresh", t>>}
            /\ lineage' = lineage \cup {<<"rotation", d, t>>}
      BY <1>5 DEF RefreshRotate
    <3>2. req[r] \in RefreshRequest
      BY <1>5, <1>t, RequestShape DEF RefreshRotate, TypeOK
    <3>3. Successor(req[r].read, available).family = req[r].read.family
      BY <3>2, SuccessorFields DEF RefreshRequest
    <3> QED BY <3>1, <3>3 DEF RotationToSuccessor
  <2>2. /\ authorizations' = PruneRows(authorizations) /\ consents' = PruneRows(consents)
        /\ codes' = PruneRows(codes)
    BY <1>5 DEF RefreshRotate, PruneBesidesGrants
  <2>3. /\ DOMAIN Consume(grs, d) = DOMAIN grs
        /\ Consume(grs, d)[d].consumed
        /\ \A e \in DOMAIN grs : /\ e # d => Consume(grs, d)[e] = grs[e]
                                 /\ Consume(grs, d)[e].family = grs[e].family
    BY <1>ty, <2>1, ConsumeGrant
  <2>4. /\ DOMAIN grants' = DOMAIN grs \cup {t}
        /\ grants'[t] = row
        /\ \A e \in DOMAIN grs : e # t => grants'[e] = Consume(grs, d)[e]
    BY <2>1, <2>3 DEF Insert
  <2>5. d \in DOMAIN grants /\ ~grants[d].consumed /\ grants[d].family = row.family
    BY <1>p, <2>1 DEF Shrinks
  <2>6. <<"refresh", d>> \in minted /\ <<"family", grants[d].family>> \in minted /\ t # d
    BY <2>1, <2>5 DEF CredentialInv, StoredIsMinted, Fresh
  <2>7. Keeps(grants, grants', "refresh")
    BY <1>p, <2>1, <2>3, <2>4 DEF Keeps, Shrinks, Fresh
  <2>8. grants'[d].consumed
    BY <2>1, <2>3, <2>4, <2>6
  <2>9. StoredIsMinted'
    <3>1. /\ \A e \in DOMAIN authorizations' : <<"transaction", e>> \in minted'
          /\ \A e \in DOMAIN consents' : <<"consent", e>> \in minted'
          /\ \A e \in DOMAIN codes' : <<"code", e>> \in minted'
      BY <1>p, <2>1, <2>2 DEF CredentialInv, StoredIsMinted, Shrinks
    <3>2. \A e \in DOMAIN grants' : /\ <<"refresh", e>> \in minted'
                                    /\ <<"family", grants'[e].family>> \in minted'
      <4> SUFFICES ASSUME NEW e \in DOMAIN grants'
                   PROVE  /\ <<"refresh", e>> \in minted'
                          /\ <<"family", grants'[e].family>> \in minted'
        OBVIOUS
      <4>1. CASE e = t
        BY <2>1, <2>4, <2>5, <2>6, <4>1
      <4>2. CASE e # t
        <5>1. e \in DOMAIN grants /\ grants'[e].family = grants[e].family
          BY <1>p, <2>3, <2>4, <4>2 DEF Shrinks
        <5> QED BY <2>1, <5>1 DEF CredentialInv, StoredIsMinted
      <4> QED BY <4>1, <4>2
    <3> QED BY <3>1, <3>2 DEF StoredIsMinted
  <2>10. LineageIsMinted'
    BY <2>1, <2>6, LineageGrows DEF CredentialInv
  <2>11. OneTime(grants', "rotation", lineage')
    <3>1. lineage' = lineage \cup {<<"rotation", d, t>>}
      BY <2>1
    <3>2. \A l \in lineage : l[1] = "rotation" => <<"refresh", l[2]>> \in minted
      BY <1>m
    <3> HIDE DEF d
    <3> QED BY <1>o, <2>5, <2>7, <2>8, <3>1, <3>2, OneTimeAdvance
  <2>12. \A l \in lineage' : /\ l[1] = "login" => l \in lineage
                             /\ l[1] = "decision" => l \in lineage
                             /\ l[1] = "exchange" => l \in lineage
    BY <2>1
  <2>13. /\ OneTime(authorizations', "login", lineage')
         /\ OneTime(consents', "decision", lineage')
         /\ OneTime(codes', "exchange", lineage')
    BY <1>k, <1>m, <1>o, <2>2, <2>12, OneTimeQuiet
  <2> QED BY <1>t, <2>9, <2>10, <2>11, <2>13 DEF CredentialInv, OneTimeInv
<1> QED
  BY <1>q, <1>t, <1>1, <1>2, <1>3, <1>4, <1>5, Quiet DEF Next, Step, QuietAction

\* The kinds of links partition the lineage, so one successor per kind is one
\* successor.
LEMMA CredentialImpliesOneTimeUse == CredentialInv => OneTimeUse
<1> SUFFICES ASSUME CredentialInv, NEW a \in lineage, NEW b \in lineage,
                    a[1] = b[1], a[2] = b[2]
             PROVE  a[3] = b[3]
  BY DEF OneTimeUse
<1>1. a[1] \in {"login", "decision", "exchange", "rotation"}
  BY DEF CredentialInv, TypeOK, Lineage
<1> QED BY <1>1 DEF CredentialInv, OneTimeInv, OneTime

\* Every one-time credential advances the flow at most once, for any number
\* of concurrent requests, clients and credentials.
THEOREM OneTimeUseCorrect == Spec => []OneTimeUse
<1>1. Spec => []CredentialInv
  BY InitCredential, NextCredential, PTL DEF Spec
<1> QED BY <1>1, CredentialImpliesOneTimeUse, PTL

-----------------------------------------------------------------------------
(* How each change of the grants table affects FamilyInv                   *)

\* What FamilyInv says of two rows of one family; same: they are one row.
Kin(x, y, same) ==
    /\ x.generation = y.generation => same
    /\ x.generation < y.generation => x.consumed
    /\ x.client = y.client
    /\ x.subject = y.subject
    /\ x.resource = y.resource
    /\ x.expires = y.expires
    /\ x.generation =< y.generation => y.scopes \subseteq x.scopes
    /\ x.revoked => y.revoked

\* What FamilyInv says of one link of the lineage.
Traceable(table, l) ==
    (l[1] = "rotation" /\ l[3] \in DOMAIN table) =>
        /\ l[2] \in DOMAIN table
        /\ table[l[2]].consumed
        /\ table[l[2]].family = table[l[3]].family

\* FamilyInv, by pairs of rows and by links.
LEMMA FamilyInvParts ==
    ASSUME NEW T, NEW L
    PROVE  FamilyInv(T, L) <=>
             /\ \A d, e \in DOMAIN T : T[d].family = T[e].family => Kin(T[d], T[e], d = e)
             /\ \A l \in L : Traceable(T, l)
BY DEF FamilyInv, Kin, Traceable

\* Pruning deletes whole families, and links that are not rotations do not
\* matter.
LEMMA FamilyPrune ==
    ASSUME NEW T, NEW L, NEW L2, FamilyInv(T, L),
           \A l \in L2 : l[1] = "rotation" => l \in L
    PROVE  FamilyInv(T, L2) /\ FamilyInv(PruneFamilies(T), L2)
<1> DEFINE P == PruneFamilies(T)
<1>1. /\ DOMAIN P \subseteq DOMAIN T
      /\ \A d \in DOMAIN P : P[d] = T[d]
      /\ \A d \in DOMAIN P, e \in DOMAIN T : T[e].family = T[d].family => e \in DOMAIN P
  BY PruneFacts
<1> HIDE DEF P
<1>2. /\ \A d, e \in DOMAIN T : T[d].family = T[e].family => Kin(T[d], T[e], d = e)
      /\ \A l \in L : Traceable(T, l)
  BY FamilyInvParts
<1>3. \A l \in L2 : Traceable(T, l)
  BY <1>2 DEF Traceable
<1>4. \A d, e \in DOMAIN P : P[d].family = P[e].family => Kin(P[d], P[e], d = e)
  BY <1>1, <1>2
<1>5. \A l \in L2 : Traceable(P, l)
  BY <1>1, <1>3 DEF Traceable
<1>6. FamilyInv(T, L2)
  BY <1>2, <1>3, FamilyInvParts
<1>7. FamilyInv(P, L2)
  BY <1>4, <1>5, FamilyInvParts
<1> QED BY <1>6, <1>7 DEF P

\* Revoking a family marks all of its rows and changes nothing else.
LEMMA FamilyRevoke ==
    ASSUME NEW T, NEW L, NEW keys, NEW family, IsTable(T, keys, Grant), FamilyInv(T, L)
    PROVE  FamilyInv(RevokeRows(T, family), L)
<1> DEFINE R == RevokeRows(T, family)
<1>1. /\ DOMAIN R = DOMAIN T
      /\ \A e \in DOMAIN T : /\ R[e].family = T[e].family
                             /\ R[e].generation = T[e].generation
                             /\ R[e].client = T[e].client
                             /\ R[e].subject = T[e].subject
                             /\ R[e].resource = T[e].resource
                             /\ R[e].scopes = T[e].scopes
                             /\ R[e].expires = T[e].expires
                             /\ R[e].consumed = T[e].consumed
                             /\ R[e].revoked <=> (T[e].revoked \/ T[e].family = family)
  BY RevokeFacts
<1> HIDE DEF R
<1>2. /\ \A d, e \in DOMAIN T : T[d].family = T[e].family => Kin(T[d], T[e], d = e)
      /\ \A l \in L : Traceable(T, l)
  BY FamilyInvParts
<1>3. \A d, e \in DOMAIN R : R[d].family = R[e].family => Kin(R[d], R[e], d = e)
  BY <1>1, <1>2 DEF Kin
<1>4. \A l \in L : Traceable(R, l)
  BY <1>1, <1>2 DEF Traceable
<1>5. FamilyInv(R, L)
  BY <1>3, <1>4, FamilyInvParts
<1> QED BY <1>5 DEF R

\* A row of a new family, under a key that no rotation has produced.
LEMMA FamilyStart ==
    ASSUME NEW T, NEW L, NEW t, NEW row \in Grant, FamilyInv(T, L), t \notin DOMAIN T,
           \A d \in DOMAIN T : T[d].family # row.family,
           \A l \in L : l[1] = "rotation" => l[3] # t
    PROVE  FamilyInv(Insert(T, t, row), L)
<1> DEFINE I == Insert(T, t, row)
<1>1. /\ DOMAIN I = DOMAIN T \cup {t}
      /\ I[t] = row
      /\ \A d \in DOMAIN T : I[d] = T[d]
  BY DEF Insert
<1> HIDE DEF I
<1>2. /\ \A d, e \in DOMAIN T : T[d].family = T[e].family => Kin(T[d], T[e], d = e)
      /\ \A l \in L : Traceable(T, l)
  BY FamilyInvParts
<1>3. Kin(row, row, TRUE)
  BY DEF Kin, Grant
<1>4. ASSUME NEW d \in DOMAIN I, NEW e \in DOMAIN I, I[d].family = I[e].family
      PROVE  Kin(I[d], I[e], d = e)
  <2>1. CASE d = t /\ e = t
    BY <1>1, <1>3, <2>1
  <2>2. CASE d # t /\ e # t
    BY <1>1, <1>2, <1>4, <2>2
  <2>3. CASE (d = t /\ e # t) \/ (d # t /\ e = t)
    BY <1>1, <1>4, <2>3
  <2> QED BY <2>1, <2>2, <2>3
<1>5. \A l \in L : Traceable(I, l)
  BY <1>1, <1>2 DEF Traceable
<1>6. FamilyInv(I, L)
  BY <1>4, <1>5, FamilyInvParts
<1> QED BY <1>6 DEF I

\* Rotation of an unspent, unrevoked row d to its successor under a key that
\* no rotation has produced.
LEMMA FamilyRotate ==
    ASSUME NEW T, NEW L, NEW keys, IsTable(T, keys, Grant), FamilyInv(T, L),
           NEW d \in DOMAIN T, ~T[d].consumed, ~T[d].revoked,
           NEW t, t \notin DOMAIN T, \A l \in L : l[1] = "rotation" => l[3] # t,
           NEW row \in Grant, ~row.consumed, ~row.revoked,
           row.family = T[d].family, row.generation = T[d].generation + 1,
           row.client = T[d].client, row.subject = T[d].subject,
           row.resource = T[d].resource, row.scopes \subseteq T[d].scopes,
           row.expires = T[d].expires
    PROVE  FamilyInv(Insert(Consume(T, d), t, row), L \cup {<<"rotation", d, t>>})
<1> DEFINE C == Consume(T, d)
           I == Insert(Consume(T, d), t, row)
<1>1. /\ DOMAIN C = DOMAIN T
      /\ \A e \in DOMAIN T : e # d => C[e] = T[e]
      /\ C[d].consumed
      /\ \A e \in DOMAIN T : /\ C[e].family = T[e].family
                             /\ C[e].generation = T[e].generation
                             /\ C[e].client = T[e].client
                             /\ C[e].subject = T[e].subject
                             /\ C[e].resource = T[e].resource
                             /\ C[e].scopes = T[e].scopes
                             /\ C[e].expires = T[e].expires
                             /\ C[e].revoked = T[e].revoked
  BY ConsumeGrant
<1> HIDE DEF C
<1>2. /\ DOMAIN I = DOMAIN T \cup {t}
      /\ I[t] = row
      /\ \A e \in DOMAIN T : I[e] = C[e]
  BY <1>1 DEF Insert, C
<1> HIDE DEF I
<1>3. /\ \A a, b \in DOMAIN T : T[a].family = T[b].family => Kin(T[a], T[b], a = b)
      /\ \A l \in L : Traceable(T, l)
  BY FamilyInvParts
<1>4. /\ \A e \in DOMAIN T : T[e].generation \in Nat
      /\ row.generation \in Nat
  BY DEF IsTable, Grant
<1>5. \A a, b \in DOMAIN T : T[a].family = T[b].family => Kin(C[a], C[b], a = b)
  BY <1>1, <1>3 DEF Kin
\* d is the newest row of its family, and no row of the family is revoked.
<1>6. ASSUME NEW e \in DOMAIN T, T[e].family = T[d].family
      PROVE  /\ T[e].generation =< T[d].generation
             /\ C[e].consumed
             /\ ~C[e].revoked
             /\ row.scopes \subseteq C[e].scopes
  <2>1. Kin(T[e], T[d], e = d) /\ Kin(T[d], T[e], d = e)
    BY <1>3, <1>6
  <2>2. T[e].generation =< T[d].generation
    BY <1>4, <2>1 DEF Kin
  <2>3. C[e].consumed
    BY <1>1, <1>4, <2>1, <2>2 DEF Kin
  <2>4. ~C[e].revoked /\ row.scopes \subseteq C[e].scopes
    BY <1>1, <2>1, <2>2 DEF Kin
  <2> QED BY <2>2, <2>3, <2>4
<1>7. Kin(row, row, TRUE)
  BY <1>4 DEF Kin
<1>8. ASSUME NEW e \in DOMAIN T, T[e].family = T[d].family
      PROVE  Kin(C[e], row, FALSE) /\ Kin(row, C[e], FALSE)
  <2>1. Kin(T[e], T[d], e = d)
    BY <1>3, <1>8
  <2>2. /\ C[e].generation < row.generation
        /\ ~(row.generation =< C[e].generation)
        /\ C[e].generation # row.generation
    BY <1>1, <1>4, <1>6, <1>8
  <2>3. /\ C[e].client = row.client /\ C[e].subject = row.subject
        /\ C[e].resource = row.resource /\ C[e].expires = row.expires
    BY <1>1, <2>1 DEF Kin
  <2> QED BY <1>4, <1>1, <1>6, <1>8, <2>2, <2>3 DEF Kin
<1>9. ASSUME NEW a \in DOMAIN I, NEW b \in DOMAIN I, I[a].family = I[b].family
      PROVE  Kin(I[a], I[b], a = b)
  <2>1. CASE a = t /\ b = t
    BY <1>2, <1>7, <2>1
  <2>2. CASE a # t /\ b # t
    BY <1>1, <1>2, <1>5, <1>9, <2>2
  <2>3. CASE a = t /\ b # t
    <3>1. b \in DOMAIN T /\ T[b].family = T[d].family
      BY <1>1, <1>2, <1>9, <2>3
    <3>2. Kin(row, C[b], FALSE)
      BY <1>8, <3>1
    <3>3. I[a] = row /\ I[b] = C[b] /\ a # b
      BY <1>2, <2>3, <3>1
    <3> QED BY <3>2, <3>3 DEF Kin
  <2>4. CASE a # t /\ b = t
    <3>1. a \in DOMAIN T /\ T[a].family = T[d].family
      BY <1>1, <1>2, <1>9, <2>4
    <3>2. Kin(C[a], row, FALSE)
      BY <1>8, <3>1
    <3>3. I[b] = row /\ I[a] = C[a] /\ a # b
      BY <1>2, <2>4, <3>1
    <3> QED BY <3>2, <3>3 DEF Kin
  <2> QED BY <2>1, <2>2, <2>3, <2>4
<1>10. \A l \in L : Traceable(I, l)
  BY <1>1, <1>2, <1>3 DEF Traceable
<1>11. Traceable(I, <<"rotation", d, t>>)
  BY <1>1, <1>2 DEF Traceable
<1>12. \A l \in L \cup {<<"rotation", d, t>>} : Traceable(I, l)
  BY <1>10, <1>11
<1>13. FamilyInv(I, L \cup {<<"rotation", d, t>>})
  BY <1>9, <1>12, FamilyInvParts
<1> QED BY <1>13 DEF I

-----------------------------------------------------------------------------
(* What a step does to the grants table                                    *)

\* No family gains a row; rows of expired families may go.
GrantsPruned ==
    /\ grants' = grants \/ grants' = PruneFamilies(grants)
    /\ \A l \in lineage' : l[1] = "rotation" => l \in lineage

\* A family is revoked.
GrantsRevoked(family) ==
    /\ \/ grants' = RevokeRows(grants, family)
       \/ grants' = RevokeRows(PruneFamilies(grants), family)
    /\ lineage' = lineage

\* A family starts, from an unspent code and below the limit of active grants.
FamilyStarts(t, row) ==
    /\ Fresh("refresh", t) /\ Fresh("family", row.family)
    /\ row \in Grant /\ row.generation = 0 /\ ~row.consumed /\ ~row.revoked
    /\ \E d \in DOMAIN codes : /\ ~codes[d].consumed
                              /\ row.client = codes[d].binding.client
                              /\ row.expires = codes[d].ends
    /\ Cardinality(Active(PruneFamilies(grants))) < MaxRefreshGrants
    /\ grants' = Insert(PruneFamilies(grants), t, row)
    /\ \A l \in lineage' : l[1] = "rotation" => l \in lineage

\* Grant d of the pruned table is rotated to t.
GrantRotates(d, t, row) ==
    LET grs == PruneFamilies(grants)
    IN  /\ Fresh("refresh", t)
        /\ d \in DOMAIN grs /\ ~grs[d].consumed /\ ~grs[d].revoked
        /\ row \in Grant /\ ~row.consumed /\ ~row.revoked
        /\ row.family = grs[d].family /\ row.generation = grs[d].generation + 1
        /\ row.generation < MaxRefreshGenerations
        /\ row.client = grs[d].client /\ row.subject = grs[d].subject
        /\ row.resource = grs[d].resource /\ row.scopes \subseteq grs[d].scopes
        /\ row.expires = grs[d].expires /\ row.expires > clock
        /\ grants' = Insert(Consume(grs, d), t, row)
        /\ t \in RefreshTokens /\ minted' = minted \cup {<<"refresh", t>>}
        /\ lineage' = lineage \cup {<<"rotation", d, t>>}

\* The rotation of Refresh, as the store has validated it.
LEMMA RotateGrants ==
    ASSUME TypeOK, NEW r \in Requests, RefreshRotate(r)
    PROVE  \E t, row : GrantRotates(req[r].d, t, row)
<1> DEFINE grs == PruneFamilies(grants)
           d == req[r].d
<1>1. req[r] \in RefreshRequest
  BY RequestShape DEF RefreshRotate, TypeOK
<1>2. PICK t \in RefreshTokens, available \in SUBSET Scopes :
        /\ Fresh("refresh", t)
        /\ RotationToSuccessor(d, req[r].read.family, req[r].read.generation,
                               t, Successor(req[r].read, available))
        /\ minted' = minted \cup {<<"refresh", t>>}
        /\ lineage' = lineage \cup {<<"rotation", d, t>>}
  BY DEF RefreshRotate
<1> DEFINE row == Successor(req[r].read, available)
<1>3. row \in Grant
  BY <1>1, SuccessorFields DEF RefreshRequest
<1>4. /\ d \in DOMAIN grs /\ ~grs[d].consumed /\ ~grs[d].revoked
      /\ ValidateRefreshRotation(decodeRefresh(grs[d]), row)
      /\ row.generation < MaxRefreshGenerations
      /\ grants' = Insert(Consume(grs, d), t, row)
  BY <1>2 DEF RotationToSuccessor
<1>5. grs[d] \in Grant
  <2>1. IsTable(grs, RefreshTokens, Grant)
    BY PruneTable DEF TypeOK, StoreTypeOK
  <2> QED BY <1>4, <2>1 DEF IsTable
<1> HIDE DEF row, grs, d
<1>6. LET c == decodeRefresh(grs[d])
      IN  /\ c.family = grs[d].family /\ c.generation = grs[d].generation
          /\ c.client = grs[d].client /\ c.subject = grs[d].subject
          /\ c.resource = grs[d].resource /\ c.scopes = grs[d].scopes
          /\ c.expires = grs[d].expires
  BY <1>5 DEF decodeRefresh, Grant
<1>7. /\ row.family = grs[d].family /\ row.generation = grs[d].generation + 1
      /\ row.client = grs[d].client /\ row.subject = grs[d].subject
      /\ row.resource = grs[d].resource /\ row.scopes \subseteq grs[d].scopes
      /\ row.expires = grs[d].expires /\ row.expires > clock
      /\ ~row.consumed /\ ~row.revoked
  BY <1>4, <1>6 DEF ValidateRefreshRotation
<1>8. GrantRotates(d, t, row)
  BY <1>2, <1>3, <1>4, <1>7 DEF GrantRotates, grs
<1> QED BY <1>8 DEF d

\* The exchange of a code starts a family.
LEMMA ExchangeGrants ==
    ASSUME TypeOK, NEW r \in Requests, ExchangeCommit(r)
    PROVE  \E t, row : FamilyStarts(t, row)
<1>1. req[r] \in ExchangeRequest
  BY RequestShape DEF ExchangeCommit, TypeOK
<1> DEFINE g(f) == [family |-> f, generation |-> 0,
                    client |-> req[r].read.binding.client,
                    subject |-> req[r].read.subject,
                    resource |-> req[r].read.binding.resource,
                    scopes |-> req[r].read.scopes, expires |-> req[r].read.ends,
                    consumed |-> FALSE, revoked |-> FALSE]
<1>2. PICK t \in RefreshTokens, family \in Families :
        /\ Fresh("refresh", t) /\ Fresh("family", family)
        /\ CommitCodeExchange(req[r].d, t, g(family))
        /\ lineage' = lineage \cup {<<"exchange", req[r].d, t>>}
  BY DEF ExchangeCommit
<1>3. /\ g(family) \in Grant /\ g(family).family = family /\ g(family).generation = 0
      /\ ~g(family).consumed /\ ~g(family).revoked
  BY <1>1 DEF ExchangeRequest, Code, Consent, Grant, Binding
<1> HIDE DEF g
<1>4. /\ grants' = Insert(PruneFamilies(grants), t, g(family))
      /\ Cardinality(Active(PruneFamilies(grants))) < MaxRefreshGrants
      /\ req[r].d \in DOMAIN PruneRows(codes)
      /\ ~PruneRows(codes)[req[r].d].consumed
      /\ g(family).client = PruneRows(codes)[req[r].d].binding.client
      /\ g(family).expires = PruneRows(codes)[req[r].d].ends
  BY <1>2 DEF CommitCodeExchange, ValidateCodeExchangeCommit
<1>5. \E d \in DOMAIN codes : /\ ~codes[d].consumed
                             /\ g(family).client = codes[d].binding.client
                             /\ g(family).expires = codes[d].ends
  BY <1>4, PruneShrinks DEF Shrinks
<1>6. FamilyStarts(t, g(family))
  BY <1>2, <1>3, <1>4, <1>5 DEF FamilyStarts
<1> QED BY <1>6

\* Every step is one of the four.
LEMMA GrantSteps ==
    ASSUME TypeOK, [Next]_vars
    PROVE  \/ GrantsPruned
           \/ \E family : GrantsRevoked(family)
           \/ \E t, row : FamilyStarts(t, row)
           \/ \E d, t, row : GrantRotates(d, t, row)
<1>1. ASSUME NEW r \in Requests,
             \/ RegisterStart(r) \/ BeginGetClient(r) \/ LoginGetAuthorization(r)
             \/ LoginGetClient(r) \/ ConsentGet(r) \/ ExchangeGetCode(r)
             \/ RefreshGetGrant(r) \/ RevokeGetGrant(r) \/ Fail(r)
      PROVE  GrantsPruned
  <2>1. ReadOnly
    BY <1>1 DEF RegisterStart, BeginGetClient, LoginGetAuthorization, LoginGetClient,
                ConsentGet, ExchangeGetCode, RefreshGetGrant, RevokeGetGrant, Fail
  <2> QED BY <2>1 DEF ReadOnly, GrantsPruned, storeVars, ghostVars
<1>2. ASSUME NEW r \in Requests,
             RegisterCommit(r) \/ BeginTouchClient(r) \/ BeginCreateAuthorization(r)
      PROVE  GrantsPruned
  BY <1>2 DEF RegisterCommit, RegisterClient, BeginTouchClient, TouchClient,
              BeginCreateAuthorization, CreateAuthorization, GrantsPruned, ghostVars
<1>3. ASSUME NEW r \in Requests, LoginCommit(r) \/ ConsentApprove(r) \/ ConsentDeny(r)
      PROVE  GrantsPruned
  <2>1. /\ grants' = PruneFamilies(grants)
        /\ \E k \in {"login", "decision"} : \E d, t : lineage' = lineage \cup {<<k, d, t>>}
    BY <1>3 DEF LoginCommit, CommitLogin, ConsentApprove, CommitApproval, ConsentDeny,
                CommitDenial
  <2> QED BY <2>1 DEF GrantsPruned
<1>4. ASSUME NEW r \in Requests, ExchangeCommit(r)
      PROVE  \E t, row : FamilyStarts(t, row)
  BY <1>4, ExchangeGrants
<1>5. ASSUME NEW r \in Requests, RefreshRevokeFamily(r) \/ RevokeCommit(r)
             \/ RefreshLosesRace(r) \/ RefreshReachesLimit(r)
      PROVE  \E family : GrantsRevoked(family)
  <2>1. CASE RefreshRevokeFamily(r) \/ RevokeCommit(r)
    BY <2>1 DEF RefreshRevokeFamily, RevokeCommit, RevokeRefreshFamily, GrantsRevoked,
                ghostVars
  <2>2. CASE RefreshLosesRace(r) \/ RefreshReachesLimit(r)
    BY <2>2 DEF RefreshLosesRace, RefreshReachesLimit, RotationOfSpentGrant,
                RotationPastLimit, GrantsRevoked, ghostVars
  <2> QED BY <1>5, <2>1, <2>2
<1>6. CASE Crash \/ HostPrune \/ Tick \/ UNCHANGED vars
  BY <1>6 DEF Crash, ReadOnly, HostPrune, Prune, Tick, vars, GrantsPruned, storeVars,
              ghostVars
<1> QED BY <1>1, <1>2, <1>3, <1>4, <1>5, <1>6, RotateGrants DEF Next, Step

-----------------------------------------------------------------------------
(* The invariant and what follows from it                                  *)

GrantInv == CredentialInv /\ FamilyInv(grants, lineage)

\* A value that was never minted names no stored grant or family and is the
\* successor in no rotation.
LEMMA FreshIsNew ==
    ASSUME CredentialInv
    PROVE  /\ \A t : Fresh("refresh", t) =>
                /\ t \notin DOMAIN grants
                /\ \A l \in lineage : l[1] = "rotation" => l[3] # t
           /\ \A f : Fresh("family", f) => \A d \in DOMAIN grants : grants[d].family # f
BY DEF CredentialInv, StoredIsMinted, LineageIsMinted, Fresh

LEMMA InitGrant == Init => GrantInv
<1>1. Init => FamilyInv(grants, lineage)
  BY DEF Init, StoreInit, EmptyTable, FamilyInv
<1> QED BY <1>1, InitCredential DEF GrantInv

LEMMA NextGrant == GrantInv /\ [Next]_vars => GrantInv'
<1> SUFFICES ASSUME GrantInv, [Next]_vars PROVE FamilyInv(grants', lineage')
  BY NextCredential DEF GrantInv, CredentialInv
<1> DEFINE grs == PruneFamilies(grants)
<1>t. IsTable(grants, RefreshTokens, Grant) /\ IsTable(grs, RefreshTokens, Grant)
  BY PruneTable DEF GrantInv, CredentialInv, TypeOK, StoreTypeOK
<1>i. FamilyInv(grants, lineage) /\ FamilyInv(grs, lineage)
  BY FamilyPrune DEF GrantInv
<1>s. \A d \in DOMAIN grs : d \in DOMAIN grants /\ grs[d] = grants[d]
  BY PruneShrinks DEF Shrinks
<1>1. CASE GrantsPruned
  BY <1>1, <1>i, FamilyPrune DEF GrantsPruned
<1>2. ASSUME NEW family, GrantsRevoked(family) PROVE FamilyInv(grants', lineage')
  BY <1>2, <1>t, <1>i, FamilyRevoke DEF GrantsRevoked
<1>3. ASSUME NEW t, NEW row, FamilyStarts(t, row) PROVE FamilyInv(grants', lineage')
  <2>1. /\ t \notin DOMAIN grs
        /\ \A l \in lineage : l[1] = "rotation" => l[3] # t
        /\ \A d \in DOMAIN grs : grs[d].family # row.family
    BY <1>3, <1>s, FreshIsNew DEF GrantInv, FamilyStarts
  <2>2. FamilyInv(Insert(grs, t, row), lineage)
    BY <1>3, <1>i, <2>1, FamilyStart DEF FamilyStarts
  <2> QED BY <1>3, <2>2, FamilyPrune DEF FamilyStarts
<1>4. ASSUME NEW d, NEW t, NEW row, GrantRotates(d, t, row)
      PROVE  FamilyInv(grants', lineage')
  <2>1. /\ t \notin DOMAIN grs
        /\ \A l \in lineage : l[1] = "rotation" => l[3] # t
    BY <1>4, <1>s, FreshIsNew DEF GrantInv, GrantRotates
  <2> QED BY <1>4, <1>t, <1>i, <2>1, FamilyRotate DEF GrantRotates
<1> QED BY <1>1, <1>2, <1>3, <1>4, GrantSteps DEF GrantInv, CredentialInv

\* The invariant holds in every reachable state.
LEMMA GrantInvariant == Spec => []GrantInv
BY InitGrant, NextGrant, PTL DEF Spec

\* However Refresh and Revoke calls interleave, a family is a chain of
\* generations in which every grant but the newest is spent.
THEOREM FamiliesAreChainsCorrect == Spec => []FamiliesAreChains
<1>1. GrantInv => FamiliesAreChains
  BY DEF GrantInv, FamilyInv, FamiliesAreChains, SameFamily
<1> QED BY <1>1, GrantInvariant, PTL

\* A rotation, even one proposed from a stale read, never widens what the
\* family was granted nor extends its lifetime.
THEOREM AuthorityOnlyNarrowsCorrect == Spec => []AuthorityOnlyNarrows
<1>1. GrantInv => AuthorityOnlyNarrows
  BY DEF GrantInv, FamilyInv, AuthorityOnlyNarrows, SameFamily
<1> QED BY <1>1, GrantInvariant, PTL

\* A spent refresh token is recognisable for as long as any descendant of it
\* is stored, whatever pruning runs in between.
THEOREM ReplayDetectableCorrect == Spec => []ReplayDetectable
<1>1. GrantInv => ReplayDetectable
  BY DEF GrantInv, FamilyInv, ReplayDetectable, SameFamily
<1> QED BY <1>1, GrantInvariant, PTL

\* No step, whatever was in flight when a family was revoked, leaves an
\* unrevoked grant in it.
THEOREM RevokedFamiliesStayRevokedCorrect == Spec => RevokedFamiliesStayRevoked
<1> DEFINE Stays == \A d \in DOMAIN grants : grants[d].revoked =>
                      \A e \in DOMAIN grants' :
                        grants'[e].family = grants[d].family => grants'[e].revoked
           grs == PruneFamilies(grants)
<1>1. ASSUME GrantInv, [Next]_vars PROVE Stays
  <2> SUFFICES ASSUME NEW d \in DOMAIN grants, grants[d].revoked, NEW e \in DOMAIN grants',
                      grants'[e].family = grants[d].family
               PROVE  grants'[e].revoked
    OBVIOUS
  <2>t. IsTable(grants, RefreshTokens, Grant) /\ IsTable(grs, RefreshTokens, Grant)
    BY <1>1, PruneTable DEF GrantInv, CredentialInv, TypeOK, StoreTypeOK
  <2>s. \A a \in DOMAIN grs : a \in DOMAIN grants /\ grs[a] = grants[a]
    BY PruneShrinks DEF Shrinks
  <2>k. \A a \in DOMAIN grants : grants[a].family = grants[d].family => grants[a].revoked
    BY <1>1 DEF GrantInv, FamilyInv
  <2>1. CASE GrantsPruned
    BY <2>1, <2>s, <2>k DEF GrantsPruned
  <2>2. CASE \E family : GrantsRevoked(family)
    <3>1. PICK family : GrantsRevoked(family)
      BY <2>2
    <3>2. CASE grants' = RevokeRows(grants, family)
      BY <3>2, <2>t, <2>k, RevokeFacts
    <3>3. CASE grants' = RevokeRows(grs, family)
      BY <3>3, <2>t, <2>s, <2>k, RevokeFacts
    <3> QED BY <3>1, <3>2, <3>3 DEF GrantsRevoked
  <2>3. CASE \E t, row : FamilyStarts(t, row)
    <3>1. PICK t, row : FamilyStarts(t, row)
      BY <2>3
    <3>2. /\ DOMAIN grants' = DOMAIN grs \cup {t} /\ grants'[t] = row
          /\ \A a \in DOMAIN grs : a # t => grants'[a] = grs[a]
      BY <3>1 DEF FamilyStarts, Insert
    <3>3. grants[d].family # row.family
      BY <1>1, <3>1, FreshIsNew DEF GrantInv, FamilyStarts
    <3> QED BY <2>s, <2>k, <3>2, <3>3
  <2>4. CASE \E c, t, row : GrantRotates(c, t, row)
    <3>1. PICK c, t, row : GrantRotates(c, t, row)
      BY <2>4
    <3>2. /\ DOMAIN Consume(grs, c) = DOMAIN grs
          /\ \A a \in DOMAIN grs : /\ Consume(grs, c)[a].family = grs[a].family
                                   /\ Consume(grs, c)[a].revoked = grs[a].revoked
      BY <2>t, <3>1, ConsumeGrant DEF GrantRotates
    <3>3. /\ DOMAIN grants' = DOMAIN grs \cup {t} /\ grants'[t] = row
          /\ \A a \in DOMAIN grs : a # t => grants'[a] = Consume(grs, c)[a]
      BY <3>1, <3>2 DEF GrantRotates, Insert
    <3>4. grants[d].family # row.family
      BY <2>s, <2>k, <3>1 DEF GrantRotates
    <3> QED BY <2>s, <2>k, <3>2, <3>3, <3>4
  <2> QED BY <1>1, <2>1, <2>2, <2>3, <2>4, GrantSteps DEF GrantInv, CredentialInv
<1>2. GrantInv /\ [Next]_vars => [Stays]_vars
  BY <1>1
<1> QED BY <1>2, GrantInvariant, PTL DEF Spec, RevokedFamiliesStayRevoked
=============================================================================
