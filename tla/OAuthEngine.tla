---------------------------- MODULE OAuthEngine -----------------------------
(***************************************************************************)
(* The transitions of pkg/oauthserver/engine.go running as concurrent      *)
(* requests over the store.  A request is a sequence of store calls with   *)
(* no lock held between them: what it read may be stale when it commits,   *)
(* the clock may have moved, and another request may have committed first. *)
(* Every step below is one store call together with the computation that   *)
(* leads to the next one.                                                  *)
(*                                                                         *)
(* Secrets are drawn between the last read and the commit and are unknown  *)
(* to anyone before the commit, so they are chosen at the commit, from the *)
(* values never used before (256-bit random values do not repeat).  An     *)
(* instant read between two steps is any instant between them.             *)
(***************************************************************************)
EXTENDS OAuthStore

CONSTANTS
    Requests,        \* slots for concurrent requests
    Serves,          \* the operations each slot may be given
    ResourceScopes,  \* Resource.SupportedScopes of each configured resource
    TransactionTTL, ConsentTTL, CodeTTL, RefreshTTL,
    MaxClock         \* bound: the clock stops here

Operations == {"register", "begin", "login", "consent", "exchange", "refresh",
               "revoke"}

\* Config.Validate, config.go: lifetimes are positive, an authorization
\* outlives the longest consent plus the longest code, and a resource
\* supports only scopes of the server.
ValidConfig ==
    /\ {TransactionTTL, ConsentTTL, CodeTTL, RefreshTTL} \subseteq Nat \ {0}
    /\ RefreshTTL > ConsentTTL + CodeTTL
    /\ ResourceScopes \in [Resources -> SUBSET Scopes]

ASSUME ConfigAssumption ==
    /\ ValidConfig
    /\ Serves \in [Requests -> SUBSET Operations]
    /\ MaxClock \in Nat \ {0}

VARIABLES
    req,      \* the request in each slot
    minted,   \* history: <<kind, value>> of every identifier stored so far
    lineage   \* history: <<kind, credential, successor>> of every advance

ghostVars == <<minted, lineage>>
vars == <<clock, clients, authorizations, consents, codes, grants, req, minted, lineage>>

-----------------------------------------------------------------------------
Idle == [op |-> "idle"]

\* What each operation carries from one store call to the next; at is the
\* time of its last step, read the row it has read.
RegisterRequest == [op : {"register"}, at : Nat]
BeginRequest    == [op : {"begin_touch", "begin_create"}, binding : Binding,
                    scopes : SUBSET Scopes, at : Nat]
LoginRequest    == [op : {"login_client", "login_commit"}, d : Transactions,
                    binding : Binding, subject : Subjects, scopes : SUBSET Scopes,
                    at : Nat]
ConsentRequest  == [op : {"consent"}, d : ConsentTokens, read : Consent, at : Nat]
ExchangeRequest == [op : {"exchange"}, d : Codes, read : Code]
RefreshRequest  == [op : {"refresh"}, d : RefreshTokens, read : Grant]
RevokeRequest   == [op : {"revoke"}, family : Families]

Request == {Idle} \cup RegisterRequest \cup BeginRequest \cup LoginRequest
           \cup ConsentRequest \cup ExchangeRequest \cup RefreshRequest
           \cup RevokeRequest

Minted == ({"client"} \X ClientIDs) \cup ({"transaction"} \X Transactions)
          \cup ({"consent"} \X ConsentTokens) \cup ({"code"} \X Codes)
          \cup ({"refresh"} \X RefreshTokens) \cup ({"family"} \X Families)

Denied == "denied"   \* a consent spent on a refusal has no successor

Lineage == ({"login"} \X Transactions \X ConsentTokens)
           \cup ({"decision"} \X ConsentTokens \X (Codes \cup {Denied}))
           \cup ({"exchange"} \X Codes \X RefreshTokens)
           \cup ({"rotation"} \X RefreshTokens \X RefreshTokens)

TypeOK ==
    /\ StoreTypeOK
    /\ req \in [Requests -> Request]
    /\ minted \subseteq Minted
    /\ lineage \subseteq Lineage

Init ==
    /\ StoreInit
    /\ req = [r \in Requests |-> Idle]
    /\ minted = {}
    /\ lineage = {}

-----------------------------------------------------------------------------
Fresh(kind, value) == <<kind, value>> \notin minted

Accept(r, operation) == operation \in Serves[r] /\ req[r] = Idle

Proceed(r, next) == req' = [req EXCEPT ![r] = next]

Finish(r) == Proceed(r, Idle)

ReadOnly == UNCHANGED <<clock, storeVars, ghostVars>>

-----------------------------------------------------------------------------
(* RegisterClient                                                          *)

RegisterStart(r) ==
    /\ Accept(r, "register")
    /\ Proceed(r, [op |-> "register", at |-> clock])
    /\ ReadOnly

RegisterCommit(r) ==
    /\ req[r].op = "register"
    /\ \E id \in ClientIDs, redirects \in SUBSET RedirectURIs \ {{}},
          scopes \in (SUBSET Scopes \ {{}}) \cup {Scopes}, now \in req[r].at .. clock :
         /\ Fresh("client", id)
         /\ RegisterClient(id, [redirects |-> redirects, scopes |-> scopes,
                                lastUsed |-> now])
         /\ minted' = minted \cup {<<"client", id>>}
    /\ Finish(r)
    /\ UNCHANGED <<clock, lineage>>

-----------------------------------------------------------------------------
(* BeginAuthorization: GetClient, TouchClient, CreateAuthorization          *)

BeginGetClient(r) ==
    /\ Accept(r, "begin")
    /\ \E b \in Binding, scopes \in SUBSET Scopes : \E client \in GetClient(b.client) :
         /\ b.redirect \in client.redirects
         /\ scopes \subseteq client.scopes
         /\ scopes \subseteq ResourceScopes[b.resource]
         /\ Proceed(r, [op |-> "begin_touch", binding |-> b, scopes |-> scopes,
                        at |-> clock])
    /\ ReadOnly

BeginTouchClient(r) ==
    /\ req[r].op = "begin_touch"
    /\ \E now \in req[r].at .. clock : TouchClient(req[r].binding.client, now)
    /\ Proceed(r, [req[r] EXCEPT !.op = "begin_create", !.at = clock])
    /\ UNCHANGED <<clock, ghostVars>>

BeginCreateAuthorization(r) ==
    /\ req[r].op = "begin_create"
    /\ \E t \in Transactions, now \in req[r].at .. clock :
         /\ Fresh("transaction", t)
         /\ CreateAuthorization(t, [binding |-> req[r].binding, scopes |-> req[r].scopes,
                                    expires |-> now + TransactionTTL, consumed |-> FALSE])
         /\ minted' = minted \cup {<<"transaction", t>>}
    /\ Finish(r)
    /\ UNCHANGED <<clock, lineage>>

-----------------------------------------------------------------------------
(* CompleteLogin: GetAuthorization, GetClient, CommitLogin                  *)

LoginGetAuthorization(r) ==
    /\ Accept(r, "login")
    /\ \E d \in Transactions, subject \in Subjects : \E auth \in GetAuthorization(d) :
         /\ ~(clock > auth.expires)
         /\ Proceed(r, [op |-> "login_client", d |-> d, binding |-> auth.binding,
                        subject |-> subject, scopes |-> auth.scopes, at |-> clock])
    /\ ReadOnly

\* GetClient answers the registered client, and LookupResource of the injected
\* registry the resource.  When either one fails the login ends in Fail.
LoginGetClient(r) ==
    /\ req[r].op = "login_client"
    /\ LET b == req[r].binding
       IN  \E client \in GetClient(b.client) :
             /\ b.redirect \in client.redirects
             /\ Proceed(r, [req[r] EXCEPT !.op = "login_commit", !.at = clock,
                              !.scopes = @ \cap client.scopes
                                           \cap ResourceScopes[b.resource]])
    /\ ReadOnly

\* Mutant: the authorization is given the lifetime of the consent.
LoginCommitShortLived(r) ==
    /\ req[r].op = "login_commit"
    /\ \E t \in ConsentTokens, available \in SUBSET Scopes, now \in req[r].at .. clock :
         /\ Fresh("consent", t)
         /\ CommitLogin(req[r].d, t,
                [binding |-> req[r].binding, subject |-> req[r].subject,
                 scopes |-> req[r].scopes \cap available,
                 ends |-> now + ConsentTTL, expires |-> now + ConsentTTL,
                 consumed |-> FALSE])
         /\ minted' = minted \cup {<<"consent", t>>}
         /\ lineage' = lineage \cup {<<"login", req[r].d, t>>}
    /\ Finish(r)
    /\ UNCHANGED clock

LoginCommit(r) ==
    /\ req[r].op = "login_commit"
    /\ \E t \in ConsentTokens, available \in SUBSET Scopes, now \in req[r].at .. clock :
         /\ Fresh("consent", t)
         /\ CommitLogin(req[r].d, t,
                [binding |-> req[r].binding, subject |-> req[r].subject,
                 scopes |-> req[r].scopes \cap available,
                 ends |-> now + RefreshTTL, expires |-> now + ConsentTTL,
                 consumed |-> FALSE])
         /\ minted' = minted \cup {<<"consent", t>>}
         /\ lineage' = lineage \cup {<<"login", req[r].d, t>>}
    /\ Finish(r)
    /\ UNCHANGED clock

-----------------------------------------------------------------------------
(* DecideConsent: GetConsent, CommitConsent                                 *)

ConsentGet(r) ==
    /\ Accept(r, "consent")
    /\ \E d \in ConsentTokens : \E consent \in GetConsent(d) :
         /\ ~(clock > consent.expires)
         /\ Proceed(r, [op |-> "consent", d |-> d, read |-> consent, at |-> clock])
    /\ ReadOnly

ConsentApprove(r) ==
    /\ req[r].op = "consent"
    /\ \E t \in Codes, selected \in SUBSET req[r].read.scopes, now \in req[r].at .. clock :
         /\ Fresh("code", t)
         /\ CommitApproval(req[r].d, t,
                [binding |-> req[r].read.binding, subject |-> req[r].read.subject,
                 scopes |-> selected, ends |-> req[r].read.ends,
                 expires |-> now + CodeTTL, consumed |-> FALSE])
         /\ minted' = minted \cup {<<"code", t>>}
         /\ lineage' = lineage \cup {<<"decision", req[r].d, t>>}
    /\ Finish(r)
    /\ UNCHANGED clock

ConsentDeny(r) ==
    /\ req[r].op = "consent"
    /\ CommitDenial(req[r].d)
    /\ lineage' = lineage \cup {<<"decision", req[r].d, Denied>>}
    /\ Finish(r)
    /\ UNCHANGED <<clock, minted>>

-----------------------------------------------------------------------------
(* ExchangeCode: GetCodeForExchange, CommitCodeExchange.  presented is the  *)
(* S256 image of the verifier in the request.                               *)

ExchangeGetCode(r) ==
    /\ Accept(r, "exchange")
    /\ \E d \in Codes, client \in ClientIDs, redirect \in RedirectURIs,
          presented \in Challenges :
         \E code \in GetCodeForExchange(d, client, redirect) :
            /\ ~(clock > code.expires)
            /\ code.binding.challenge = presented
            /\ Proceed(r, [op |-> "exchange", d |-> d, read |-> code])
    /\ ReadOnly

ExchangeCommit(r) ==
    /\ req[r].op = "exchange"
    /\ \E t \in RefreshTokens, family \in Families :
         /\ Fresh("refresh", t) /\ Fresh("family", family)
         /\ CommitCodeExchange(req[r].d, t,
                [family |-> family, generation |-> 0,
                 client |-> req[r].read.binding.client,
                 subject |-> req[r].read.subject,
                 resource |-> req[r].read.binding.resource,
                 scopes |-> req[r].read.scopes, expires |-> req[r].read.ends,
                 consumed |-> FALSE, revoked |-> FALSE])
         /\ minted' = minted \cup {<<"refresh", t>>, <<"family", family>>}
         /\ lineage' = lineage \cup {<<"exchange", req[r].d, t>>}
    /\ Finish(r)
    /\ UNCHANGED clock

-----------------------------------------------------------------------------
(* Refresh: GetRefreshGrant, then CommitRefreshRotation or                  *)
(* RevokeRefreshFamily.  The identity revalidation, the resource registry,  *)
(* the scope policy and the token signer answer between the two calls.      *)

RefreshGetGrant(r) ==
    /\ Accept(r, "refresh")
    /\ \E d \in RefreshTokens, client \in ClientIDs : \E grant \in GetRefreshGrant(d) :
         /\ ~grant.revoked
         /\ ~(clock > grant.expires)
         /\ grant.client = client
         /\ Proceed(r, [op |-> "refresh", d |-> d, read |-> grant])
    /\ ReadOnly

\* The grant was read as spent (a replay), or it was not and the subject is
\* no longer eligible: the family is revoked.
RefreshRevokeFamily(r) ==
    /\ req[r].op = "refresh"
    /\ RevokeRefreshFamily(req[r].read.family)
    /\ Finish(r)
    /\ UNCHANGED <<clock, ghostVars>>

\* The successor Refresh proposes once the subject is found eligible.
Successor(grant, available) ==
    [grant EXCEPT !.generation = @ + 1, !.scopes = @ \cap available]

RefreshRotate(r) ==
    /\ req[r].op = "refresh"
    /\ ~req[r].read.consumed
    /\ \E t \in RefreshTokens, available \in SUBSET Scopes :
         /\ Fresh("refresh", t)
         /\ RotationToSuccessor(req[r].d, req[r].read.family, req[r].read.generation,
                                t, Successor(req[r].read, available))
         /\ minted' = minted \cup {<<"refresh", t>>}
         /\ lineage' = lineage \cup {<<"rotation", req[r].d, t>>}
    /\ PruneBesidesGrants
    /\ Finish(r)
    /\ UNCHANGED clock

\* The rotation lost a race: the grant was spent or revoked after the read.
RefreshLosesRace(r) ==
    /\ req[r].op = "refresh"
    /\ ~req[r].read.consumed
    /\ RotationOfSpentGrant(req[r].d, req[r].read.family, req[r].read.generation)
    /\ PruneBesidesGrants
    /\ Finish(r)
    /\ UNCHANGED <<clock, ghostVars>>

\* The family has reached its generation limit.
RefreshReachesLimit(r) ==
    /\ req[r].op = "refresh"
    /\ ~req[r].read.consumed
    /\ \E available \in SUBSET Scopes :
         RotationPastLimit(req[r].d, req[r].read.family, req[r].read.generation,
                           Successor(req[r].read, available))
    /\ PruneBesidesGrants
    /\ Finish(r)
    /\ UNCHANGED <<clock, ghostVars>>

-----------------------------------------------------------------------------
(* Revoke: GetRefreshGrant, RevokeRefreshFamily                             *)

RevokeGetGrant(r) ==
    /\ Accept(r, "revoke")
    /\ \E d \in RefreshTokens, client \in ClientIDs : \E grant \in GetRefreshGrant(d) :
         /\ grant.client = client
         /\ Proceed(r, [op |-> "revoke", family |-> grant.family])
    /\ ReadOnly

RevokeCommit(r) ==
    /\ req[r].op = "revoke"
    /\ RevokeRefreshFamily(req[r].family)
    /\ Finish(r)
    /\ UNCHANGED <<clock, ghostVars>>

-----------------------------------------------------------------------------
\* Every error return of an operation in flight: a failed check, a rolled
\* back transaction, a resource registry, another dependency or a secret
\* source that failed, a cancelled context.  Nothing the operation has not
\* committed survives.
Fail(r) ==
    /\ req[r] # Idle
    /\ Finish(r)
    /\ ReadOnly

\* The process dies and is restarted on the same database.
Crash ==
    /\ \E r \in Requests : req[r] # Idle
    /\ req' = [r \in Requests |-> Idle]
    /\ ReadOnly

\* The host calls Store.Prune.
HostPrune ==
    /\ Prune
    /\ UNCHANGED <<clock, req, ghostVars>>

Tick ==
    /\ clock < MaxClock
    /\ clock' = clock + 1
    /\ UNCHANGED <<storeVars, req, ghostVars>>

Step(r) ==
    \/ RegisterStart(r) \/ RegisterCommit(r)
    \/ BeginGetClient(r) \/ BeginTouchClient(r) \/ BeginCreateAuthorization(r)
    \/ LoginGetAuthorization(r) \/ LoginGetClient(r) \/ LoginCommit(r)
    \/ ConsentGet(r) \/ ConsentApprove(r) \/ ConsentDeny(r)
    \/ ExchangeGetCode(r) \/ ExchangeCommit(r)
    \/ RefreshGetGrant(r) \/ RefreshRevokeFamily(r)
    \/ RefreshRotate(r) \/ RefreshLosesRace(r) \/ RefreshReachesLimit(r)
    \/ RevokeGetGrant(r) \/ RevokeCommit(r)
    \/ Fail(r)

Next == (\E r \in Requests : Step(r)) \/ Crash \/ HostPrune \/ Tick

Spec == Init /\ [][Next]_vars
=============================================================================
