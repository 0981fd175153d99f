------------------------------ MODULE HTTPProofs ----------------------------
(***************************************************************************)
(* The handlers of HTTPTransport only ever drive the engine: whatever they *)
(* and the parties do, the engine below behaves as OAuthEngine says, so    *)
(* its theorems hold behind the HTTP interface too.  On top of it: each    *)
(* slot's engine request is the one its handler started, parties hold only *)
(* credentials that were drawn, browsers go to registered URIs, an         *)
(* acknowledged revocation is final and a held credential can be used.     *)
(* And a holder that is told invalid_grant has lost nothing: the rows that *)
(* a commit checks are the rows that its request has read, so that the     *)
(* only refusals left are those of credentials that are spent, revoked,    *)
(* expired or gone.                                                        *)
(***************************************************************************)
EXTENDS HTTPTransport, LedgerProofs

\* Every step of a handler is a step of the engine in the same slot, or
\* leaves the engine alone.
LEMMA ServeDrivesEngine ==
    ASSUME NEW r \in Requests, Serve(r) PROVE Step(r) \/ UNCHANGED vars
<1>1. CASE Receive(r) \/ RejectForm(r) \/ DependencyError(r) \/ Redirect(r)
           \/ AuthorizeError(r) \/ ConsentPage(r) \/ ConsentRefused(r)
           \/ ExchangeRefused(r) \/ RefreshRefused(r) \/ RevokeIgnored(r)
  BY <1>1 DEF Receive, RejectForm, DependencyError, Redirect, AuthorizeError, ConsentPage,
              ConsentRefused, ExchangeRefused, RefreshRefused, RevokeIgnored
<1>2. CASE Register(r) \/ RegisterAnswer(r) \/ RegisterError(r)
  BY <1>2 DEF Register, RegisterAnswer, RegisterError, Step
<1>3. CASE Authorize(r) \/ AuthorizeTouch(r) \/ AuthorizeAnswer(r) \/ AuthorizeFails(r)
  BY <1>3 DEF Authorize, AuthorizeTouch, AuthorizeAnswer, AuthorizeFails, Step
<1>4. CASE Callback(r) \/ CallbackClient(r) \/ CallbackAnswer(r) \/ CallbackRefused(r)
           \/ CallbackError(r)
  BY <1>4 DEF Callback, CallbackClient, CallbackAnswer, CallbackRefused, CallbackError,
              Step
<1>5. CASE ConsentPost(r) \/ ConsentAnswer(r) \/ ConsentError(r)
  BY <1>5 DEF ConsentPost, ConsentAnswer, ConsentError, Step
<1>6. CASE TokenExchange(r) \/ ExchangeAnswer(r) \/ ExchangeError(r)
  BY <1>6 DEF TokenExchange, ExchangeAnswer, ExchangeError, Step
<1>7. CASE TokenRefresh(r) \/ RefreshAnswer(r) \/ RefreshRevokes(r) \/ RefreshError(r)
  BY <1>7 DEF TokenRefresh, RefreshAnswer, RefreshRevokes, RefreshError, Step
<1>8. CASE TokenRevoke(r) \/ RevokeAnswer(r) \/ RevokeError(r) \/ ReadFails(r) \/ LookupFails(r)
  BY <1>8 DEF TokenRevoke, RevokeAnswer, RevokeError, ReadFails, LookupFails, Step
<1> QED BY <1>1, <1>2, <1>3, <1>4, <1>5, <1>6, <1>7, <1>8 DEF Serve

LEMMA HTTPDrivesEngine == [HTTPNext]_httpVars => [Next]_vars
<1> SUFFICES ASSUME [HTTPNext]_httpVars PROVE Next \/ UNCHANGED vars
  OBVIOUS
<1>1. CASE UNCHANGED httpVars
  BY <1>1 DEF httpVars
<1>2. CASE \E r \in Requests : Serve(r)
  BY <1>2, ServeDrivesEngine DEF Next
<1>3. CASE HTTPCrash \/ Environment
  BY <1>3 DEF HTTPCrash, Environment, Next
<1> QED BY <1>1, <1>2, <1>3 DEF HTTPNext

\* Behind the HTTP handlers, with retries, lost answers, failing reads and
\* restarts, the engine and its store make no step that engine.go does not.
THEOREM HTTPImplementsEngine == HTTPSpec => Spec
<1>1. HTTPInit => Init
  BY DEF HTTPInit
<1> QED BY <1>1, HTTPDrivesEngine, PTL DEF HTTPSpec, Spec

\* No credential that is presented over HTTP, however often and to however
\* many handlers at once, advances the flow twice.
THEOREM HTTPOneTimeUse == HTTPSpec => []OneTimeUse
BY HTTPImplementsEngine, OneTimeUseCorrect, PTL

\* Behind the HTTP handlers, with retries of answers that were lost, failing
\* reads and restarts, authority still lies with one credential at a time,
\* only narrows and stays within the capacities: authority that a party has
\* delegated over HTTP never comes to lie with two credentials.
THEOREM HTTPImplementsLedger ==
    ASSUME TicksPerSecond = 1
    PROVE  HTTPSpec => ImplementsLedger
BY HTTPImplementsEngine, ImplementsLedgerCorrect, PTL

\* Behind the handlers, with retries, lost answers and restarts, families are
\* narrowing chains whose replay is detected, clients in use stay, and neither
\* capacities nor lifetimes are exceeded.
THEOREM HTTPKeepsState ==
    HTTPSpec => [](/\ FamiliesAreChains /\ AuthorityOnlyNarrows /\ ReplayDetectable
                   /\ ClientsProtected /\ CapacityRespected /\ LifetimesBounded)
BY HTTPImplementsEngine, FamiliesAreChainsCorrect, AuthorityOnlyNarrowsCorrect,
   ReplayDetectableCorrect, ClientsProtectedCorrect, CapacityRespectedCorrect,
   LifetimesBoundedCorrect, PTL

-----------------------------------------------------------------------------
(* What a handler does to its slot                                         *)

\* The handler that runs each step of an engine operation.
Handler == [register |-> "register", begin_touch |-> "begin", begin_create |-> "begin",
            login_client |-> "login", login_commit |-> "login", consent |-> "consent",
            exchange |-> "exchange", refresh |-> "refresh", revoke |-> "revoke"]

Browsing == [op : {"begin", "begin_error", "redirect"}, client : ClientIDs,
             redirect : RedirectURIs]

Presenting == [op : DOMAIN Kind \cup {"dependency_error"}, credential : Credential]

\* A received request presents a credential that its sender holds; a refresh
\* token is in one refresh request at a time.
Received(k) ==
    \E op \in DOMAIN Kind, c \in held :
        /\ c[1] = Kind[op]
        /\ op = "refresh" => \A q \in Requests : ~Presents(q, c)
        /\ k = [op |-> op, credential |-> c]

\* What the slot of r is answering next.
NextCall(r, k) ==
    \/ k = call[r]
    \/ k = NoCall
    \/ k = [op |-> "register"]
    \/ k \in Browsing /\ k.op \in {"begin", "begin_error"}
    \/ /\ k \in Browsing /\ k.op = "redirect"
       /\ \/ ValidateRedirect(k.client, k.redirect)
          \/ /\ req[r].op = "consent"
             /\ k.client = req[r].read.binding.client
             /\ k.redirect = req[r].read.binding.redirect
    \/ /\ call[r].op \in {"login", "consent", "exchange", "refresh"}
       /\ k = [op |-> "dependency_error", credential |-> call[r].credential]
    \/ Received(k)

LEMMA CallShape ==
    ASSUME NEW k \in Call
    PROVE  /\ k.op \in {"begin", "begin_error", "redirect"} => k \in Browsing
           /\ k.op \in DOMAIN Kind \cup {"dependency_error"} => k \in Presenting
           /\ k.op = "none" => k = NoCall
           /\ k.op \in {"none", "register", "begin", "begin_error", "redirect", "dependency_error",
                        "login", "consent", "exchange", "refresh", "revoke"}
BY DEF Call, NoCall, Browsing, Presenting, Kind

LEMMA CallStep ==
    ASSUME HTTPTypeOK, NEW r \in Requests, Serve(r)
    PROVE  \E k : NextCall(r, k) /\ call' = [call EXCEPT ![r] = k]
<1>0. call \in [Requests -> Call] /\ call[r] \in Call /\ req[r] \in Request
  BY DEF HTTPTypeOK, TypeOK
<1>u. ASSUME call' = call PROVE \E k : NextCall(r, k) /\ call' = [call EXCEPT ![r] = k]
  <2>1. call' = [call EXCEPT ![r] = call[r]]
    BY <1>0, <1>u
  <2> QED BY <2>1 DEF NextCall
<1>d. ASSUME Done(r) PROVE \E k : NextCall(r, k) /\ call' = [call EXCEPT ![r] = k]
  BY <1>d DEF Done, NextCall
<1>1. CASE Register(r) \/ Authorize(r) \/ AuthorizeTouch(r) \/ Callback(r) \/ CallbackClient(r)
           \/ ConsentPost(r) \/ TokenExchange(r) \/ TokenRefresh(r) \/ TokenRevoke(r)
  BY <1>1, <1>u DEF Register, Authorize, AuthorizeTouch, Callback, CallbackClient,
                    ConsentPost, TokenExchange, TokenRefresh, TokenRevoke, Unanswered
<1>2. CASE RejectForm(r) \/ Redirect(r) \/ DependencyError(r) \/ RegisterAnswer(r)
           \/ RegisterError(r) \/ CallbackAnswer(r) \/ CallbackRefused(r) \/ ConsentPage(r)
           \/ ConsentRefused(r) \/ ExchangeAnswer(r) \/ ExchangeRefused(r)
           \/ RefreshAnswer(r) \/ RefreshRevokes(r) \/ RefreshRefused(r)
           \/ RevokeAnswer(r) \/ RevokeIgnored(r) \/ RevokeError(r)
  BY <1>2, <1>d DEF RejectForm, Redirect, DependencyError, RegisterAnswer, RegisterError,
                    CallbackAnswer, CallbackRefused, ConsentPage, ConsentRefused,
                    ExchangeAnswer, ExchangeRefused, RefreshAnswer, RefreshRevokes,
                    RefreshRefused, RevokeAnswer, RevokeIgnored, RevokeError,
                    AnswerNothing, AnswerSuccess, AnswerInvalidGrant, AnswerRevoked
<1>3. CASE CallbackError(r) \/ ConsentError(r) \/ ExchangeError(r) \/ RefreshError(r)
  <2>1. \E answer : AnswerError(r, answer)
    BY <1>3 DEF CallbackError, ConsentError, ExchangeError, RefreshError
  <2> QED BY <1>d, <2>1 DEF AnswerError, AnswerNothing, AnswerInvalidGrant
<1>4. CASE Receive(r)
  <2>1. CASE call' = [call EXCEPT ![r] = [op |-> "register"]]
    BY <2>1 DEF NextCall
  <2>2. ASSUME NEW client \in ClientIDs, NEW redirect \in RedirectURIs,
               call' = [call EXCEPT ![r] = [op |-> "begin", client |-> client,
                                            redirect |-> redirect]]
        PROVE  \E k : NextCall(r, k) /\ call' = [call EXCEPT ![r] = k]
    <3> DEFINE k == [op |-> "begin", client |-> client, redirect |-> redirect]
    <3>1. k \in Browsing /\ k.op = "begin"
      BY DEF Browsing
    <3> QED BY <2>2, <3>1 DEF NextCall
  <2>3. ASSUME NEW op \in DOMAIN Kind, ReceiveCredential(r, op)
        PROVE  \E k : NextCall(r, k) /\ call' = [call EXCEPT ![r] = k]
    BY <2>3 DEF ReceiveCredential, NextCall, Received
  <2> QED BY <1>4, <2>1, <2>2, <2>3 DEF Receive
<1>5. CASE ReadFails(r) \/ LookupFails(r)
  <2> DEFINE k == [op |-> "dependency_error", credential |-> call[r].credential]
  <2>1. call[r].op \in {"login", "consent", "exchange", "refresh"}
    BY <1>5 DEF ReadFails, LookupFails, Serving
  <2>2. [call[r] EXCEPT !.op = "dependency_error"] = k
    BY <1>0, <2>1, CallShape DEF Presenting, Kind
  <2>3. call' = [call EXCEPT ![r] = k]
    BY <1>0, <1>5, <2>2 DEF ReadFails, LookupFails
  <2> QED BY <2>1, <2>3 DEF NextCall
<1>6. CASE AuthorizeAnswer(r) \/ AuthorizeFails(r)
  <2> DEFINE k == [call[r] EXCEPT !.op = "begin_error"]
  <2>1. k \in Browsing /\ k.op = "begin_error"
    BY <1>0, <1>6, CallShape DEF AuthorizeAnswer, AuthorizeFails, Browsing
  <2>2. Done(r) \/ call' = [call EXCEPT ![r] = k]
    BY <1>0, <1>6 DEF AuthorizeAnswer, AuthorizeFails
  <2> QED BY <1>d, <2>1, <2>2 DEF NextCall
<1>7. CASE AuthorizeError(r)
  <2>1. call[r] \in Browsing
    BY <1>0, <1>7, CallShape DEF AuthorizeError
  <2> DEFINE k == [op |-> "redirect", client |-> call[r].client, redirect |-> call[r].redirect]
  <2>2. k \in Browsing /\ k.op = "redirect"
        /\ k.client = call[r].client /\ k.redirect = call[r].redirect
    BY <2>1 DEF Browsing
  <2>3. CASE ValidateRedirect(call[r].client, call[r].redirect) /\ call' = [call EXCEPT ![r] = k]
    BY <2>2, <2>3 DEF NextCall
  <2> QED BY <1>7, <1>d, <2>3 DEF AuthorizeError, SendRedirect
<1>8. CASE ConsentAnswer(r)
  <2>1. req[r].op = "consent" /\ req[r] \in ConsentRequest
    BY <1>0, <1>8, RequestShape DEF ConsentAnswer, ConsentApprove, ConsentDeny
  <2> DEFINE b == req[r].read.binding
             k == [op |-> "redirect", client |-> b.client, redirect |-> b.redirect]
  <2>2. k \in Browsing /\ k.op = "redirect" /\ k.client = b.client /\ k.redirect = b.redirect
    BY <2>1 DEF Browsing, ConsentRequest, Consent, Binding
  <2>3. call' = [call EXCEPT ![r] = k]
    BY <1>8 DEF ConsentAnswer, SendRedirect
  <2> QED BY <2>1, <2>2, <2>3 DEF NextCall
<1> QED BY <1>1, <1>2, <1>3, <1>4, <1>5, <1>6, <1>7, <1>8 DEF Serve

-----------------------------------------------------------------------------
(* The engine request of a slot is the one its handler has started          *)

\* The operations that present a credential, and those that carry its digest.
Presented(k) == k.op \in DOMAIN Kind \cup {"dependency_error"}

Keyed == {"login_client", "login_commit", "consent", "exchange", "refresh"}

Matched(r) ==
    /\ req[r] # Idle => call[r].op = Handler[req[r].op]
    /\ req[r].op \in Keyed => call[r].credential[2] = req[r].d
    /\ call[r].op \in DOMAIN Kind => call[r].credential[1] = Kind[call[r].op]
    /\ Presented(call[r]) => call[r].credential \in minted

SlotInv == \A r \in Requests : Matched(r)

\* A slot that is not in the middle of an engine operation.
LEMMA IdleSlot ==
    ASSUME HTTPTypeOK, NEW r \in Requests, Matched(r),
           call[r].op \in {"none", "redirect", "begin_error", "dependency_error"}
    PROVE  req[r] = Idle
<1>1. req[r] \in Request
  BY DEF HTTPTypeOK, TypeOK
<1>2. req[r] # Idle => req[r].op \in DOMAIN Handler
  BY <1>1 DEF Request, RegisterRequest, BeginRequest, LoginRequest, ConsentRequest,
              ExchangeRequest, RefreshRequest, RevokeRequest, Handler
<1> QED BY <1>2 DEF Matched, Handler

\* A step of a request touches no other slot.
LEMMA OtherSlots ==
    ASSUME TypeOK, NEW r \in Requests, Step(r) \/ UNCHANGED vars
    PROVE  \A q \in Requests : q # r => req'[q] = req[q]
<1>1. ASSUME \E next : Proceed(r, next) PROVE \A q \in Requests : q # r => req'[q] = req[q]
  BY <1>1 DEF Proceed, TypeOK
<1>2. CASE UNCHANGED vars
  BY <1>2 DEF vars
<1>3. CASE RegisterStart(r) \/ RegisterCommit(r) \/ BeginGetClient(r) \/ BeginTouchClient(r)
           \/ BeginCreateAuthorization(r) \/ LoginGetAuthorization(r) \/ LoginGetClient(r)
           \/ LoginCommit(r)
  BY <1>1, <1>3 DEF RegisterStart, RegisterCommit, BeginGetClient, BeginTouchClient,
                    BeginCreateAuthorization, LoginGetAuthorization, LoginGetClient,
                    LoginCommit, Finish
<1>4. CASE ConsentGet(r) \/ ConsentApprove(r) \/ ConsentDeny(r) \/ ExchangeGetCode(r)
           \/ ExchangeCommit(r) \/ RefreshGetGrant(r) \/ RefreshRevokeFamily(r)
  BY <1>1, <1>4 DEF ConsentGet, ConsentApprove, ConsentDeny, ExchangeGetCode,
                    ExchangeCommit, RefreshGetGrant, RefreshRevokeFamily, Finish
<1>5. CASE RefreshRotate(r) \/ RefreshLosesRace(r) \/ RefreshReachesLimit(r)
           \/ RevokeGetGrant(r) \/ RevokeCommit(r) \/ Fail(r)
  BY <1>1, <1>5 DEF RefreshRotate, RefreshLosesRace, RefreshReachesLimit, RevokeGetGrant,
                    RevokeCommit, Fail, Finish
<1> QED BY <1>2, <1>3, <1>4, <1>5 DEF Step

\* A handler either goes on with its request or leaves the engine idle.
GoesOn(r) ==
    \/ Register(r) \/ Authorize(r) \/ AuthorizeTouch(r) \/ Callback(r) \/ CallbackClient(r)
    \/ ConsentPost(r) \/ TokenExchange(r) \/ TokenRefresh(r) \/ TokenRevoke(r)

LEMMA HandlerEnds ==
    ASSUME HTTPTypeOK, NEW r \in Requests, Matched(r), Serve(r), ~GoesOn(r)
    PROVE  req'[r] = Idle
<1>0. req \in [Requests -> Request]
  BY DEF HTTPTypeOK, TypeOK
<1>f. Finish(r) => req'[r] = Idle
  BY <1>0 DEF Finish, Proceed
<1>i. req[r] = Idle /\ UNCHANGED vars => req'[r] = Idle
  BY DEF vars
<1>1. CASE Receive(r) \/ Redirect(r) \/ DependencyError(r) \/ AuthorizeError(r)
  <2>1. call[r].op \in {"none", "redirect", "begin_error", "dependency_error"}
    BY <1>1 DEF Receive, Redirect, DependencyError, AuthorizeError, NoCall
  <2>2. UNCHANGED vars
    BY <1>1 DEF Receive, Redirect, DependencyError, AuthorizeError
  <2> QED BY <1>i, <2>1, <2>2, IdleSlot
<1>2. CASE RejectForm(r) \/ ConsentPage(r) \/ ConsentRefused(r) \/ ExchangeRefused(r)
           \/ RefreshRefused(r) \/ RevokeIgnored(r)
  BY <1>2, <1>i DEF RejectForm, ConsentPage, ConsentRefused, ExchangeRefused,
                    RefreshRefused, RevokeIgnored, Serving
<1>3. CASE RegisterError(r) \/ ReadFails(r) \/ LookupFails(r) \/ AuthorizeFails(r)
           \/ CallbackRefused(r)
           \/ CallbackError(r) \/ ConsentError(r) \/ ExchangeError(r) \/ RefreshError(r)
           \/ RevokeError(r)
  <2>1. Fail(r) \/ (req[r] = Idle /\ UNCHANGED vars)
    BY <1>3 DEF RegisterError, ReadFails, LookupFails, Serving, AuthorizeFails,
                CallbackRefused, CallbackError, ConsentError, ExchangeError, RefreshError,
                RevokeError
  <2> QED BY <1>f, <1>i, <2>1 DEF Fail
<1>4. CASE RegisterAnswer(r) \/ AuthorizeAnswer(r) \/ CallbackAnswer(r) \/ ConsentAnswer(r)
  BY <1>4, <1>f DEF RegisterAnswer, RegisterCommit, AuthorizeAnswer,
                    BeginCreateAuthorization, CallbackAnswer, LoginCommit, ConsentAnswer,
                    ConsentApprove, ConsentDeny
<1>5. CASE ExchangeAnswer(r) \/ RefreshAnswer(r) \/ RefreshRevokes(r) \/ RevokeAnswer(r)
  BY <1>5, <1>f DEF ExchangeAnswer, ExchangeCommit, RefreshAnswer, RefreshRotate,
                    RefreshRevokes, RefreshRevokeFamily, RefreshLosesRace,
                    RefreshReachesLimit, RevokeAnswer, RevokeCommit
<1> QED BY <1>1, <1>2, <1>3, <1>4, <1>5 DEF Serve, GoesOn

\* A handler that goes on keeps its call and runs its own operation.
LEMMA HandlerGoesOn ==
    ASSUME HTTPTypeOK, NEW r \in Requests, Matched(r), GoesOn(r)
    PROVE  /\ call' = call /\ UNCHANGED partyVars /\ minted' = minted
           /\ UNCHANGED <<clock, authorizations, consents, codes, grants, lineage>>
           /\ call[r].op = Handler[req'[r].op]
           /\ req'[r].op \in Keyed => call[r].credential[2] = req'[r].d
<1>0. req \in [Requests -> Request] /\ req[r] \in Request
  BY DEF HTTPTypeOK, TypeOK
<1>p. \A next : Proceed(r, next) => req'[r] = next
  BY <1>0 DEF Proceed
<1>1. /\ call' = call /\ UNCHANGED partyVars
      /\ UNCHANGED <<clock, authorizations, consents, codes, grants, minted, lineage>>
  <2>1. CASE AuthorizeTouch(r)
    BY <2>1 DEF AuthorizeTouch, BeginTouchClient, TouchClient, Unanswered, ghostVars
  <2>2. CASE Register(r) \/ Authorize(r) \/ Callback(r) \/ CallbackClient(r)
    BY <2>2 DEF Register, RegisterStart, Authorize, BeginGetClient, Callback,
                LoginGetAuthorization, CallbackClient, LoginGetClient, Unanswered,
                ReadOnly, storeVars, ghostVars
  <2>3. CASE ConsentPost(r) \/ TokenExchange(r) \/ TokenRefresh(r) \/ TokenRevoke(r)
    BY <2>3 DEF ConsentPost, ConsentGet, TokenExchange, ExchangeGetCode, TokenRefresh,
                RefreshGetGrant, TokenRevoke, RevokeGetGrant, Unanswered, ReadOnly,
                storeVars, ghostVars
  <2> QED BY <2>1, <2>2, <2>3 DEF GoesOn
<1>2. /\ call[r].op = Handler[req'[r].op]
      /\ req'[r].op \in Keyed => call[r].credential[2] = req'[r].d
  <2>1. CASE Register(r) \/ Authorize(r)
    <3>1. CASE Register(r)
      BY <3>1, <1>p DEF Register, RegisterStart, Serving, Handler, Keyed
    <3>2. CASE Authorize(r)
      <4>1. req'[r].op = "begin_touch"
        BY <3>2, <1>p DEF Authorize, BeginGetClient
      <4> QED BY <3>2, <4>1 DEF Authorize, Serving, Handler, Keyed
    <3> QED BY <2>1, <3>1, <3>2
  <2>2. CASE AuthorizeTouch(r)
    <3>1. req[r] \in BeginRequest
      BY <1>0, <2>2, RequestShape DEF AuthorizeTouch, BeginTouchClient
    <3>2. req'[r] = [req[r] EXCEPT !.op = "begin_create", !.at = clock]
      BY <2>2, <1>p DEF AuthorizeTouch, BeginTouchClient
    <3>3. req'[r].op = "begin_create"
      BY <3>1, <3>2 DEF BeginRequest
    <3> QED BY <2>2, <3>3 DEF AuthorizeTouch, Handler, Keyed
  <2>3. CASE Callback(r)
    BY <2>3, <1>p DEF Callback, LoginGetAuthorization, Serving, Handler, Keyed
  <2>4. CASE CallbackClient(r)
    <3>1. req[r] \in LoginRequest /\ req[r].op = "login_client"
      BY <1>0, <2>4, RequestShape DEF CallbackClient, LoginGetClient
    <3>2. PICK s : req'[r] = [req[r] EXCEPT !.op = "login_commit", !.at = clock, !.scopes = s]
      BY <2>4, <1>p DEF CallbackClient, LoginGetClient
    <3>3. req'[r].op = "login_commit" /\ req'[r].d = req[r].d
      BY <3>1, <3>2 DEF LoginRequest
    <3> QED BY <2>4, <3>1, <3>3 DEF CallbackClient, Handler, Keyed, Matched
  <2>5. CASE ConsentPost(r)
    <3>1. \E next : Proceed(r, next) /\ next.op = "consent"
      BY <2>5 DEF ConsentPost, ConsentGet
    <3>2. req'[r].op = "consent"
      BY <1>p, <3>1
    <3> QED BY <2>5, <3>2 DEF ConsentPost, Serving, Handler, Keyed
  <2>6. CASE TokenExchange(r)
    <3>1. \E next : Proceed(r, next) /\ next.op = "exchange"
      BY <2>6 DEF TokenExchange, ExchangeGetCode
    <3>2. req'[r].op = "exchange"
      BY <1>p, <3>1
    <3> QED BY <2>6, <3>2 DEF TokenExchange, Serving, Handler, Keyed
  <2>7. CASE TokenRefresh(r)
    <3>1. \E next : Proceed(r, next) /\ next.op = "refresh"
      BY <2>7 DEF TokenRefresh, RefreshGetGrant
    <3>2. req'[r].op = "refresh"
      BY <1>p, <3>1
    <3> QED BY <2>7, <3>2 DEF TokenRefresh, Serving, Handler, Keyed
  <2>8. CASE TokenRevoke(r)
    <3>1. \E next : Proceed(r, next) /\ next.op = "revoke"
      BY <2>8 DEF TokenRevoke, RevokeGetGrant
    <3>2. req'[r].op = "revoke"
      BY <1>p, <3>1
    <3> QED BY <2>8, <3>2 DEF TokenRevoke, Serving, Handler, Keyed
  <2> QED BY <2>1, <2>2, <2>3, <2>4, <2>5, <2>6, <2>7, <2>8 DEF GoesOn
<1> QED BY <1>1, <1>2

\* Identifiers are only ever added to those that were drawn.
LEMMA MintedGrows == ASSUME [Next]_vars PROVE minted \subseteq minted'
<1>1. ASSUME NEW r \in Requests, Step(r) PROVE minted \subseteq minted'
  <2>1. CASE RegisterStart(r) \/ BeginGetClient(r) \/ BeginTouchClient(r)
             \/ LoginGetAuthorization(r) \/ LoginGetClient(r) \/ ConsentGet(r)
             \/ ConsentDeny(r) \/ ExchangeGetCode(r) \/ RefreshGetGrant(r)
             \/ RefreshRevokeFamily(r) \/ RefreshLosesRace(r) \/ RefreshReachesLimit(r)
             \/ RevokeGetGrant(r) \/ RevokeCommit(r) \/ Fail(r)
    BY <2>1 DEF RegisterStart, BeginGetClient, BeginTouchClient, LoginGetAuthorization,
                LoginGetClient, ConsentGet, ConsentDeny, ExchangeGetCode, RefreshGetGrant,
                RefreshRevokeFamily, RefreshLosesRace, RefreshReachesLimit, RevokeGetGrant,
                RevokeCommit, Fail, ReadOnly, ghostVars
  <2>2. CASE RegisterCommit(r) \/ BeginCreateAuthorization(r) \/ LoginCommit(r)
             \/ ConsentApprove(r) \/ ExchangeCommit(r) \/ RefreshRotate(r)
    BY <2>2 DEF RegisterCommit, BeginCreateAuthorization, LoginCommit, ConsentApprove,
                ExchangeCommit, RefreshRotate
  <2> QED BY <1>1, <2>1, <2>2 DEF Step
<1>2. CASE Crash \/ HostPrune \/ Tick \/ UNCHANGED vars
  BY <1>2 DEF Crash, HostPrune, Tick, ReadOnly, vars, ghostVars
<1> QED BY <1>1, <1>2 DEF Next

LEMMA NextSlots ==
    ASSUME HTTPTypeOK, SlotInv, held \subseteq minted, [HTTPNext]_httpVars
    PROVE  SlotInv'
<1>m. minted \subseteq minted'
  BY HTTPDrivesEngine, MintedGrows
<1>1. ASSUME NEW r \in Requests, Serve(r) PROVE SlotInv'
  <2>1. PICK k : NextCall(r, k) /\ call' = [call EXCEPT ![r] = k]
    BY <1>1, CallStep
  <2>2. call'[r] = k /\ \A q \in Requests : q # r => call'[q] = call[q]
    BY <2>1 DEF HTTPTypeOK
  <2>3. \A q \in Requests : q # r => req'[q] = req[q]
    BY <1>1, ServeDrivesEngine, OtherSlots DEF HTTPTypeOK
  <2>4. \A q \in Requests : q # r => Matched(q)'
    BY <1>m, <2>2, <2>3 DEF SlotInv, Matched
  <2>5. Matched(r)
    BY DEF SlotInv
  <2>6. /\ k.op \in DOMAIN Kind => k.credential[1] = Kind[k.op]
        /\ Presented(k) => k.credential \in minted
    <3>1. CASE k = call[r]
      BY <2>5, <3>1 DEF Matched
    <3>2. CASE k = NoCall \/ k = [op |-> "register"] \/ k \in Browsing
      BY <3>2 DEF NoCall, Browsing, Presented, Kind
    <3>3. CASE /\ call[r].op \in {"login", "consent", "exchange", "refresh"}
               /\ k = [op |-> "dependency_error", credential |-> call[r].credential]
      BY <2>5, <3>3 DEF Matched, Presented, Kind
    <3>4. CASE Received(k)
      BY <3>4 DEF Received, Kind
    <3> QED BY <2>1, <3>1, <3>2, <3>3, <3>4 DEF NextCall
  <2>7. /\ req'[r] # Idle => k.op = Handler[req'[r].op]
        /\ req'[r].op \in Keyed => k.credential[2] = req'[r].d
    <3>1. CASE GoesOn(r)
      BY <2>2, <2>5, <3>1, HandlerGoesOn
    <3>2. CASE ~GoesOn(r)
      BY <1>1, <2>5, <3>2, HandlerEnds DEF Idle, Keyed
    <3> QED BY <3>1, <3>2
  <2>8. Matched(r)'
    BY <1>m, <2>2, <2>6, <2>7 DEF Matched
  <2> QED BY <2>4, <2>8 DEF SlotInv
<1>2. CASE HTTPCrash
  BY <1>2 DEF HTTPCrash, Crash, SlotInv, Matched, Idle, NoCall, Keyed, Presented, Kind
<1>3. CASE Environment \/ UNCHANGED httpVars
  <2>1. req' = req /\ call' = call
    BY <1>3 DEF Environment, HostPrune, Tick, Unanswered, httpVars, vars
  <2> QED BY <1>m, <2>1 DEF SlotInv, Matched
<1> QED BY <1>1, <1>2, <1>3 DEF HTTPNext

-----------------------------------------------------------------------------
(* What the parties hold                                                    *)

TokenKinds == {"transaction", "consent", "code", "refresh"}

\* Whatever a party holds was drawn by the server, and what it was told about
\* is a refresh token.
PartyInv ==
    /\ lost \subseteq held
    /\ held \subseteq minted /\ \A c \in held : c[1] \in TokenKinds
    /\ told \subseteq minted /\ \A c \in told : c[1] = "refresh"

\* Credentials that a step has drawn.
Drawn(G) == G \subseteq minted' \ minted /\ \A c \in G : c[1] \in TokenKinds

\* The holder of the presented credential is answered, which ends the call,
\* and may learn the credentials of G.
Answered(r, G) ==
    LET c == call[r].credential
    IN  /\ call'[r].op \in {"none", "redirect"}
        /\ Drawn(G)
        /\ held' \subseteq held \cup G
        /\ lost' \subseteq held'
        /\ held' \ lost' \subseteq ((held \ lost) \ {c}) \cup G
        /\ \A e \in held : e # c => e \in held'
        /\ c \in held \cap held' => held' = held
        /\ \/ told' = told /\ call[r].op \in Spending
           \/ /\ told' = told \cup {c} /\ G = {}
              /\ RevokeAnswer(r) \/ RevokeIgnored(r)

\* A transaction goes to the login page.
SentToLogin(G) ==
    /\ Drawn(G) /\ \A c \in G : c[1] = "transaction"
    /\ held' = held \cup G /\ lost' = lost /\ told' = told

LEMMA ExchangedAnswers ==
    ASSUME PartyInv, NEW r, NEW G, call'[r].op \in {"none", "redirect"}, Drawn(G),
           Exchanged(r, G),
           \/ told' = told /\ call[r].op \in Spending
           \/ /\ told' = told \cup {call[r].credential} /\ G = {}
              /\ RevokeAnswer(r) \/ RevokeIgnored(r)
    PROVE  Answered(r, G)
<1> DEFINE c == call[r].credential
<1>1. G \cap held = {}
  BY DEF PartyInv, Drawn
<1>2. CASE held' = (held \ {c}) \cup G /\ lost' = lost \ {c}
  BY <1>1, <1>2 DEF Answered, PartyInv
<1>3. CASE lost' = lost \cup ({c} \cap held) /\ held' = held
  BY <1>3 DEF Answered, PartyInv
<1> QED BY <1>2, <1>3 DEF Exchanged

\* The successor of the lineage is the credential that the step has drawn.
LEMMA GainIsDrawn ==
    ASSUME NEW kind \in TokenKinds, NEW l, Fresh(kind, l[3]), <<kind, l[3]>> \in minted',
           lineage' = lineage \cup {l}
    PROVE  Drawn(Gained(kind)) /\ Gained(kind) \subseteq {<<kind, l[3]>>}
<1>1. Gained(kind) \subseteq {<<kind, l[3]>>}
  BY DEF Gained
<1> QED BY <1>1 DEF Drawn, Fresh

\* Every commit of an operation that was given a credential is answered.
Commits(r) ==
    \/ CallbackAnswer(r) \/ ConsentAnswer(r) \/ ExchangeAnswer(r) \/ RefreshAnswer(r)
    \/ RefreshRevokes(r) \/ RevokeAnswer(r)

LEMMA EndedCall ==
    ASSUME HTTPTypeOK, NEW r \in Requests
    PROVE  /\ Done(r) => call'[r].op = "none"
           /\ \A client, redirect : SendRedirect(r, client, redirect) => call'[r].op = "redirect"
BY DEF HTTPTypeOK, Done, SendRedirect, NoCall

LEMMA RefusalAnswers ==
    ASSUME HTTPTypeOK, PartyInv, NEW r \in Requests, AnswerInvalidGrant(r),
           call[r].op \in Spending
    PROVE  Answered(r, {})
<1>1. Drawn({})
  BY DEF Drawn
<1>2. call'[r].op = "none"
  BY EndedCall DEF AnswerInvalidGrant
<1> QED BY <1>1, <1>2, ExchangedAnswers DEF AnswerInvalidGrant

LEMMA CommitAnswers ==
    ASSUME HTTPTypeOK, PartyInv, NEW r \in Requests, Commits(r)
    PROVE  \E G : Answered(r, G)
<1>1. CASE CallbackAnswer(r)
  <2>1. PICK t : /\ Fresh("consent", t) /\ minted' = minted \cup {<<"consent", t>>}
                 /\ lineage' = lineage \cup {<<"login", req[r].d, t>>}
    BY <1>1 DEF CallbackAnswer, LoginCommit
  <2> DEFINE l == <<"login", req[r].d, t>>
  <2>2. l[3] = t /\ lineage' = lineage \cup {l}
    BY <2>1
  <2> HIDE DEF l
  <2>3. Drawn(Gained("consent"))
    BY <2>1, <2>2, GainIsDrawn DEF TokenKinds
  <2>4. call'[r].op = "none"
    BY <1>1, EndedCall DEF CallbackAnswer, AnswerSuccess
  <2>5. Answered(r, Gained("consent"))
    BY <1>1, <2>3, <2>4, ExchangedAnswers DEF CallbackAnswer, AnswerSuccess, Spending
  <2> QED BY <2>5
<1>2. CASE ConsentAnswer(r)
  <2> DEFINE G == {c \in minted' \ minted : c[1] = "code"}
  <2>1. Drawn(G)
    BY DEF Drawn, TokenKinds
  <2>2. call'[r].op = "redirect"
    BY <1>2, EndedCall DEF ConsentAnswer
  <2>3. Answered(r, G)
    BY <1>2, <2>1, <2>2, ExchangedAnswers DEF ConsentAnswer, Spending
  <2> QED BY <2>3
<1>3. CASE ExchangeAnswer(r)
  <2>1. PICK t, f : /\ Fresh("refresh", t)
                    /\ minted' = minted \cup {<<"refresh", t>>, <<"family", f>>}
                    /\ lineage' = lineage \cup {<<"exchange", req[r].d, t>>}
    BY <1>3 DEF ExchangeAnswer, ExchangeCommit
  <2> DEFINE l == <<"exchange", req[r].d, t>>
  <2>2. l[3] = t /\ lineage' = lineage \cup {l}
    BY <2>1
  <2> HIDE DEF l
  <2>3. Drawn(Gained("refresh"))
    BY <2>1, <2>2, GainIsDrawn DEF TokenKinds
  <2>4. call'[r].op = "none"
    BY <1>3, EndedCall DEF ExchangeAnswer, AnswerSuccess
  <2>5. Answered(r, Gained("refresh"))
    BY <1>3, <2>3, <2>4, ExchangedAnswers DEF ExchangeAnswer, AnswerSuccess, Spending
  <2> QED BY <2>5
<1>4. CASE RefreshAnswer(r)
  <2>1. PICK t : /\ Fresh("refresh", t) /\ minted' = minted \cup {<<"refresh", t>>}
                 /\ lineage' = lineage \cup {<<"rotation", req[r].d, t>>}
    BY <1>4 DEF RefreshAnswer, RefreshRotate
  <2> DEFINE l == <<"rotation", req[r].d, t>>
  <2>2. l[3] = t /\ lineage' = lineage \cup {l}
    BY <2>1
  <2> HIDE DEF l
  <2>3. Drawn(Gained("refresh"))
    BY <2>1, <2>2, GainIsDrawn DEF TokenKinds
  <2>4. call'[r].op = "none"
    BY <1>4, EndedCall DEF RefreshAnswer, AnswerSuccess
  <2>5. Answered(r, Gained("refresh"))
    BY <1>4, <2>3, <2>4, ExchangedAnswers DEF RefreshAnswer, AnswerSuccess, Spending
  <2> QED BY <2>5
<1>5. CASE RefreshRevokes(r)
  BY <1>5, RefusalAnswers DEF RefreshRevokes, Spending
<1>6. CASE RevokeAnswer(r)
  <2>1. call'[r].op = "none" /\ Drawn({})
    BY <1>6, EndedCall DEF RevokeAnswer, AnswerRevoked, Drawn
  <2>2. Answered(r, {})
    BY <1>6, <2>1, ExchangedAnswers DEF RevokeAnswer, AnswerRevoked
  <2> QED BY <2>2
<1> QED BY <1>1, <1>2, <1>3, <1>4, <1>5, <1>6 DEF Commits

\* What a handler's step does to what the parties hold and have been told.
LEMMA PartyStep ==
    ASSUME HTTPTypeOK, PartyInv, NEW r \in Requests, Serve(r)
    PROVE  \/ UNCHANGED <<held, lost, told>>
           \/ \E G : Answered(r, G)
           \/ \E G : SentToLogin(G)
<1>1. CASE GoesOn(r) \/ Receive(r) \/ RejectForm(r) \/ ReadFails(r) \/ LookupFails(r)
           \/ Redirect(r)
           \/ RegisterAnswer(r) \/ RegisterError(r) \/ AuthorizeFails(r) \/ AuthorizeError(r)
           \/ ConsentPage(r) \/ RevokeError(r)
  BY <1>1 DEF GoesOn, Register, Authorize, AuthorizeTouch, Callback, CallbackClient,
              ConsentPost, TokenExchange, TokenRefresh, TokenRevoke, Receive, RejectForm,
              ReadFails, LookupFails, Redirect, RegisterAnswer, RegisterError, AuthorizeFails,
              AuthorizeError, ConsentPage, RevokeError, AnswerNothing, Unanswered, partyVars
<1>2. CASE DependencyError(r) \/ CallbackRefused(r) \/ ConsentRefused(r) \/ ExchangeRefused(r)
           \/ RefreshRefused(r)
  <2>1. AnswerInvalidGrant(r) /\ call[r].op \in Spending
    BY <1>2 DEF DependencyError, CallbackRefused, ConsentRefused, ExchangeRefused, RefreshRefused,
                Serving, Spending
  <2> QED BY <2>1, RefusalAnswers
<1>3. CASE CallbackError(r) \/ ConsentError(r) \/ ExchangeError(r) \/ RefreshError(r)
  <2>1. call[r].op \in Spending /\ \E answer : AnswerError(r, answer)
    BY <1>3 DEF CallbackError, ConsentError, ExchangeError, RefreshError, Spending
  <2>2. CASE AnswerNothing(r)
    BY <2>2 DEF AnswerNothing, partyVars
  <2> QED BY <2>1, <2>2, RefusalAnswers DEF AnswerError
<1>4. CASE AuthorizeAnswer(r)
  <2> DEFINE G == {c \in minted' \ minted : c[1] = "transaction"}
  <2>1. Drawn(G)
    BY DEF Drawn, TokenKinds
  <2>2. UNCHANGED <<held, lost, told>> \/ SentToLogin(G)
    BY <1>4, <2>1 DEF AuthorizeAnswer, SentToLogin
  <2> QED BY <2>2
<1>5. CASE RevokeIgnored(r)
  <2>1. call'[r].op = "none" /\ Drawn({})
    BY <1>5, EndedCall DEF RevokeIgnored, AnswerRevoked, Drawn
  <2>2. Answered(r, {})
    BY <1>5, <2>1, ExchangedAnswers DEF RevokeIgnored, AnswerRevoked
  <2> QED BY <2>2
<1>6. CASE Commits(r)
  BY <1>6, CommitAnswers
<1> QED BY <1>1, <1>2, <1>3, <1>4, <1>5, <1>6 DEF Serve, GoesOn, Commits

LEMMA NextParty ==
    ASSUME HTTPTypeOK, SlotInv, PartyInv, [HTTPNext]_httpVars PROVE PartyInv'
<1>m. minted \subseteq minted'
  BY HTTPDrivesEngine, MintedGrows
<1>u. ASSUME UNCHANGED <<held, lost, told>> PROVE PartyInv'
  BY <1>m, <1>u DEF PartyInv
<1>1. ASSUME NEW r \in Requests, Serve(r) PROVE PartyInv'
  <2>1. ASSUME NEW G, Answered(r, G) PROVE PartyInv'
    <3>1. /\ lost' \subseteq held' /\ held' \subseteq minted'
          /\ \A c \in held' : c[1] \in TokenKinds
      BY <1>m, <2>1 DEF PartyInv, Answered, Drawn
    <3>2. told' \subseteq minted' /\ \A c \in told' : c[1] = "refresh"
      <4>1. Matched(r)
        BY DEF SlotInv
      <4>2. RevokeAnswer(r) \/ RevokeIgnored(r) =>
              call[r].credential \in minted /\ call[r].credential[1] = "refresh"
        BY <4>1 DEF Matched, Presented, Kind, RevokeAnswer, RevokeIgnored, Serving
      <4> QED BY <1>m, <2>1, <4>2 DEF PartyInv, Answered
    <3> QED BY <3>1, <3>2 DEF PartyInv
  <2>2. ASSUME NEW G, SentToLogin(G) PROVE PartyInv'
    BY <1>m, <2>2 DEF PartyInv, SentToLogin, Drawn
  <2> QED BY <1>1, <1>u, <2>1, <2>2, PartyStep
<1>2. CASE HTTPCrash \/ Environment \/ UNCHANGED httpVars
  BY <1>2, <1>u DEF HTTPCrash, Environment, Unanswered, partyVars, httpVars
<1> QED BY <1>1, <1>2 DEF HTTPNext

\* Only the answer to a registration records one.
LEMMA RegisteredStays ==
    ASSUME [HTTPNext]_httpVars, \A r \in Requests : ~RegisterAnswer(r)
    PROVE  registered' = registered
<1>1. ASSUME NEW r \in Requests, Serve(r) PROVE registered' = registered
  <2>1. CASE GoesOn(r) \/ Receive(r) \/ RejectForm(r) \/ ReadFails(r) \/ LookupFails(r)
           \/ Redirect(r)
             \/ RegisterError(r) \/ AuthorizeFails(r) \/ AuthorizeError(r)
             \/ ConsentPage(r) \/ RevokeError(r)
    BY <2>1 DEF GoesOn, Register, Authorize, AuthorizeTouch, Callback, CallbackClient,
          ConsentPost, TokenExchange, TokenRefresh, TokenRevoke, Receive, RejectForm,
          ReadFails, LookupFails, Redirect, RegisterError, AuthorizeFails, AuthorizeError,
          ConsentPage, RevokeError, AnswerNothing, Unanswered, partyVars
  <2>2. CASE DependencyError(r) \/ CallbackRefused(r) \/ ConsentRefused(r)
             \/ ExchangeRefused(r) \/ RefreshRefused(r) \/ RefreshRevokes(r)
    BY <2>2 DEF DependencyError, CallbackRefused, ConsentRefused, ExchangeRefused,
                RefreshRefused, RefreshRevokes, AnswerInvalidGrant
  <2>3. CASE CallbackError(r) \/ ConsentError(r) \/ ExchangeError(r) \/ RefreshError(r)
    <3>1. \E answer : AnswerError(r, answer)
      BY <2>3 DEF CallbackError, ConsentError, ExchangeError, RefreshError
    <3> QED BY <3>1 DEF AnswerError, AnswerNothing, AnswerInvalidGrant, partyVars
  <2>4. CASE AuthorizeAnswer(r) \/ CallbackAnswer(r) \/ ConsentAnswer(r)
             \/ ExchangeAnswer(r) \/ RefreshAnswer(r) \/ RevokeAnswer(r)
             \/ RevokeIgnored(r)
    BY <2>4 DEF AuthorizeAnswer, CallbackAnswer, ConsentAnswer, ExchangeAnswer,
                RefreshAnswer, RevokeAnswer, RevokeIgnored, AnswerSuccess, AnswerRevoked
  <2> QED BY <1>1, <2>1, <2>2, <2>3, <2>4 DEF Serve, GoesOn
<1>2. CASE HTTPCrash \/ Environment \/ UNCHANGED httpVars
  BY <1>2 DEF HTTPCrash, Environment, Unanswered, partyVars, httpVars
<1> QED BY <1>1, <1>2 DEF HTTPNext

LEMMA NextHTTPType ==
    ASSUME HTTPTypeOK, SlotInv, PartyInv, [HTTPNext]_httpVars PROVE HTTPTypeOK'
<1>1. TypeOK'
  BY HTTPDrivesEngine, NextType DEF HTTPTypeOK
<1>2. PartyInv'
  BY NextParty
<1>3. held' \subseteq Credential /\ lost' \subseteq held' /\ told' \subseteq Credential
  BY <1>1, <1>2 DEF PartyInv, TypeOK, Credential
<1>4. call' \in [Requests -> Call]
  <2>1. ASSUME NEW r \in Requests, Serve(r) PROVE call' \in [Requests -> Call]
    <3>1. PICK k : NextCall(r, k) /\ call' = [call EXCEPT ![r] = k]
      BY <2>1, CallStep
    <3>2. call[r] \in Call
      BY DEF HTTPTypeOK
    <3>3. k \in Call
      <4>1. CASE k = call[r] \/ k = NoCall \/ k = [op |-> "register"] \/ k \in Browsing
        BY <3>2, <4>1 DEF Call, Browsing
      <4>2. CASE /\ call[r].op \in {"login", "consent", "exchange", "refresh"}
                 /\ k = [op |-> "dependency_error", credential |-> call[r].credential]
        <5>1. call[r].credential \in Credential
          BY <3>2, <4>2, CallShape DEF Presenting, Kind
        <5> QED BY <4>2, <5>1 DEF Call
      <4>3. CASE Received(k)
        BY <4>3 DEF Received, HTTPTypeOK, Call
      <4> QED BY <3>1, <4>1, <4>2, <4>3 DEF NextCall
    <3> QED BY <3>1, <3>3 DEF HTTPTypeOK
  <2>2. CASE HTTPCrash
    BY <2>2 DEF HTTPCrash, Call
  <2>3. CASE Environment \/ UNCHANGED httpVars
    BY <2>3 DEF Environment, Unanswered, httpVars, HTTPTypeOK
  <2> QED BY <2>1, <2>2, <2>3 DEF HTTPNext
<1>5. registered' \subseteq ClientIDs \X RedirectURIs
  <2>1. registered' = registered \/ \E r \in Requests : RegisterAnswer(r)
    BY RegisteredStays
  <2>2. \A id \in DOMAIN clients' : id \in ClientIDs /\ clients'[id].redirects \subseteq RedirectURIs
    BY <1>1 DEF TypeOK, StoreTypeOK, IsTable, Client
  <2> QED BY <2>1, <2>2 DEF HTTPTypeOK, RegisterAnswer
<1> QED BY <1>1, <1>3, <1>4, <1>5 DEF HTTPTypeOK

\* What is known of the handlers, their slots and the parties at any time.
HTTPInv == HTTPTypeOK /\ SlotInv /\ PartyInv /\ IndInv

LEMMA InitHTTP == HTTPInit => HTTPInv
<1> SUFFICES ASSUME HTTPInit PROVE HTTPInv
  OBVIOUS
<1>1. Init /\ IndInv /\ TypeOK
  BY InitInd DEF HTTPInit, IndInv
<1>2. /\ call = [r \in Requests |-> NoCall] /\ req = [r \in Requests |-> Idle]
      /\ held = {} /\ lost = {} /\ told = {} /\ registered = {}
  BY <1>1 DEF HTTPInit, Init
<1>3. HTTPTypeOK
  BY <1>1, <1>2 DEF HTTPTypeOK, Call
<1>4. SlotInv
  BY <1>2 DEF SlotInv, Matched, Idle, NoCall, Keyed, Presented, Kind
<1>5. PartyInv
  BY <1>2 DEF PartyInv
<1> QED BY <1>1, <1>3, <1>4, <1>5 DEF HTTPInv

LEMMA NextHTTP == HTTPInv /\ [HTTPNext]_httpVars => HTTPInv'
<1> SUFFICES ASSUME HTTPInv, [HTTPNext]_httpVars PROVE HTTPInv'
  OBVIOUS
<1>0. HTTPTypeOK /\ SlotInv /\ PartyInv /\ IndInv /\ held \subseteq minted
  BY DEF HTTPInv, PartyInv
<1>1. IndInv'
  BY <1>0, HTTPDrivesEngine, NextInd
<1> QED BY <1>0, <1>1, NextHTTPType, NextSlots, NextParty DEF HTTPInv

LEMMA HTTPInvHolds == HTTPSpec => []HTTPInv
BY InitHTTP, NextHTTP, PTL DEF HTTPSpec

\* Handlers, parties and engine never leave the states they are meant for; in
\* particular a party only ever holds credentials that the server has issued
\* (the answers of the handlers, whichever arrive).
THEOREM HTTPTypeCorrect == HTTPSpec => []HTTPTypeOK
<1>1. HTTPInv => HTTPTypeOK
  BY DEF HTTPInv
<1> QED BY <1>1, HTTPInvHolds, PTL

-----------------------------------------------------------------------------
(* Where browsers are sent                                                  *)

\* A client, with one of its redirect URIs.
Known(b) == <<b.client, b.redirect>> \in registered

SlotKnown(r) ==
    /\ req[r].op \in {"begin_touch", "begin_create", "login_client", "login_commit"}
         => Known(req[r].binding)
    /\ req[r].op = "consent" => Known(req[r].read.binding)

\* Whatever the store and the requests carry names a registered redirect URI,
\* also after the client that registered it is gone.
RegisteredInv ==
    /\ \A id \in DOMAIN clients : <<"client", id>> \in minted
    /\ \A id \in DOMAIN clients : \A u \in clients[id].redirects : <<id, u>> \in registered
    /\ \A d \in DOMAIN authorizations : Known(authorizations[d].binding)
    /\ \A d \in DOMAIN consents : Known(consents[d].binding)
    /\ \A r \in Requests : SlotKnown(r)
    /\ RedirectsAreRegistered

\* The clients table changes only with a registration, apart from lastUsed.
LEMMA ServeClients ==
    ASSUME HTTPTypeOK, NEW r \in Requests, Serve(r), ~RegisterAnswer(r)
    PROVE  /\ DOMAIN clients' = DOMAIN clients
           /\ \A id \in DOMAIN clients : clients'[id].redirects = clients[id].redirects
<1>0. \A id \in DOMAIN clients : clients[id] \in Client
  BY DEF HTTPTypeOK, TypeOK, StoreTypeOK, IsTable
<1>1. CASE AuthorizeTouch(r)
  <2>1. PICK now : /\ req[r].binding.client \in DOMAIN clients
                   /\ clients' = [clients EXCEPT ![req[r].binding.client].lastUsed = now]
    BY <1>1 DEF AuthorizeTouch, BeginTouchClient, TouchClient
  <2> QED BY <1>0, <2>1 DEF Client
<1>2. CASE GoesOn(r) /\ ~AuthorizeTouch(r)
  BY <1>2 DEF GoesOn, Register, RegisterStart, Authorize, BeginGetClient, Callback,
              LoginGetAuthorization, CallbackClient, LoginGetClient, ConsentPost, ConsentGet,
              TokenExchange, ExchangeGetCode, TokenRefresh, RefreshGetGrant, TokenRevoke,
              RevokeGetGrant, ReadOnly, storeVars
<1>3. CASE Receive(r) \/ Redirect(r) \/ DependencyError(r) \/ AuthorizeError(r) \/ RejectForm(r)
           \/ ConsentPage(r) \/ ConsentRefused(r) \/ ExchangeRefused(r)
           \/ RefreshRefused(r) \/ RevokeIgnored(r)
  BY <1>3 DEF Receive, Redirect, DependencyError, AuthorizeError, RejectForm, ConsentPage,
              ConsentRefused, ExchangeRefused, RefreshRefused, RevokeIgnored, vars
<1>4. CASE RegisterError(r) \/ ReadFails(r) \/ LookupFails(r) \/ AuthorizeFails(r)
           \/ CallbackRefused(r)
           \/ CallbackError(r) \/ ConsentError(r) \/ ExchangeError(r) \/ RefreshError(r)
           \/ RevokeError(r)
  BY <1>4 DEF RegisterError, ReadFails, LookupFails, AuthorizeFails, CallbackRefused,
              CallbackError,
              ConsentError, ExchangeError, RefreshError, RevokeError, Fail, ReadOnly,
              storeVars, vars
<1>5. CASE AuthorizeAnswer(r) \/ CallbackAnswer(r) \/ ConsentAnswer(r) \/ ExchangeAnswer(r)
  BY <1>5 DEF AuthorizeAnswer, BeginCreateAuthorization, CreateAuthorization,
              CallbackAnswer, LoginCommit, CommitLogin, ConsentAnswer, ConsentApprove,
              CommitApproval, ConsentDeny, CommitDenial, ExchangeAnswer, ExchangeCommit,
              CommitCodeExchange
<1>6. CASE RefreshAnswer(r) \/ RefreshRevokes(r) \/ RevokeAnswer(r)
  BY <1>6 DEF RefreshAnswer, RefreshRotate, RefreshRevokes, RefreshRevokeFamily,
              RefreshLosesRace, RefreshReachesLimit, RevokeAnswer, RevokeCommit,
              RevokeRefreshFamily, PruneBesidesGrants
<1> QED BY <1>1, <1>2, <1>3, <1>4, <1>5, <1>6 DEF Serve, GoesOn

\* What a handler carries on comes from the client it has checked or from the
\* row it has read.
LEMMA CarriedIsKnown ==
    ASSUME HTTPTypeOK, RegisteredInv, NEW r \in Requests, Matched(r), GoesOn(r)
    PROVE  SlotKnown(r)'
<1>0. req \in [Requests -> Request] /\ req[r] \in Request
  BY DEF HTTPTypeOK, TypeOK
<1>p. \A next : Proceed(r, next) => req'[r] = next
  BY <1>0 DEF Proceed
<1>r. registered' = registered
  BY HandlerGoesOn DEF partyVars
<1>1. CASE Authorize(r)
  <2>1. PICK b \in Binding, scopes \in SUBSET Scopes : \E client \in GetClient(b.client) :
          /\ b.redirect \in client.redirects
          /\ Proceed(r, [op |-> "begin_touch", binding |-> b, scopes |-> scopes,
                         at |-> clock])
    BY <1>1 DEF Authorize, BeginGetClient
  <2>2. b.client \in DOMAIN clients /\ b.redirect \in clients[b.client].redirects
    BY <2>1 DEF GetClient, Found
  <2>3. req'[r].op = "begin_touch" /\ req'[r].binding = b
    BY <1>p, <2>1
  <2> QED BY <1>r, <2>2, <2>3 DEF SlotKnown, Known, RegisteredInv
<1>2. CASE AuthorizeTouch(r)
  <2>1. req[r] \in BeginRequest /\ req[r].op = "begin_touch"
    BY <1>0, <1>2, RequestShape DEF AuthorizeTouch, BeginTouchClient
  <2>2. req'[r] = [req[r] EXCEPT !.op = "begin_create", !.at = clock]
    BY <1>p, <1>2 DEF AuthorizeTouch, BeginTouchClient
  <2>3. req'[r].op = "begin_create" /\ req'[r].binding = req[r].binding
    BY <2>1, <2>2 DEF BeginRequest
  <2> QED BY <1>r, <2>1, <2>3 DEF SlotKnown, Known, RegisteredInv
<1>3. CASE Callback(r)
  <2>1. PICK d \in Transactions, subject \in Subjects :
          \E auth \in GetAuthorization(d) :
            Proceed(r, [op |-> "login_client", d |-> d, binding |-> auth.binding,
                        subject |-> subject, scopes |-> auth.scopes, at |-> clock])
    BY <1>3 DEF Callback, LoginGetAuthorization
  <2>2. \A auth \in GetAuthorization(d) : d \in DOMAIN authorizations /\ auth = authorizations[d]
    BY DEF GetAuthorization, Found
  <2>3. /\ d \in DOMAIN authorizations
        /\ req'[r].op = "login_client" /\ req'[r].binding = authorizations[d].binding
    BY <1>p, <2>1, <2>2
  <2> QED BY <1>r, <2>3 DEF SlotKnown, Known, RegisteredInv
<1>4. CASE CallbackClient(r)
  <2>1. req[r] \in LoginRequest /\ req[r].op = "login_client"
    BY <1>0, <1>4, RequestShape DEF CallbackClient, LoginGetClient
  <2>2. PICK s : req'[r] = [req[r] EXCEPT !.op = "login_commit", !.at = clock, !.scopes = s]
    BY <1>4, <1>p DEF CallbackClient, LoginGetClient
  <2>3. req'[r].op = "login_commit" /\ req'[r].binding = req[r].binding
    BY <2>1, <2>2 DEF LoginRequest
  <2> QED BY <1>r, <2>1, <2>3 DEF SlotKnown, Known, RegisteredInv
<1>5. CASE ConsentPost(r)
  <2>1. PICK d \in ConsentTokens : \E consent \in GetConsent(d) :
          Proceed(r, [op |-> "consent", d |-> d, read |-> consent, at |-> clock])
    BY <1>5 DEF ConsentPost, ConsentGet
  <2>2. \A consent \in GetConsent(d) : d \in DOMAIN consents /\ consent = consents[d]
    BY DEF GetConsent, Found
  <2>3. /\ d \in DOMAIN consents
        /\ req'[r].op = "consent" /\ req'[r].read = consents[d]
    BY <1>p, <2>1, <2>2
  <2> QED BY <1>r, <2>3 DEF SlotKnown, Known, RegisteredInv
<1>6. CASE Register(r)
  BY <1>6, <1>p DEF Register, RegisterStart, SlotKnown
<1>7. CASE TokenExchange(r) \/ TokenRefresh(r) \/ TokenRevoke(r)
  <2>1. \E next : Proceed(r, next) /\ next.op \in {"exchange", "refresh", "revoke"}
    <3>1. CASE TokenExchange(r)
      BY <3>1 DEF TokenExchange, ExchangeGetCode
    <3>2. CASE TokenRefresh(r)
      BY <3>2 DEF TokenRefresh, RefreshGetGrant
    <3>3. CASE TokenRevoke(r)
      BY <3>3 DEF TokenRevoke, RevokeGetGrant
    <3> QED BY <1>7, <3>1, <3>2, <3>3
  <2>2. req'[r].op \in {"exchange", "refresh", "revoke"}
    BY <1>p, <2>1
  <2> QED BY <2>2 DEF SlotKnown
<1> QED BY <1>1, <1>2, <1>3, <1>4, <1>5, <1>6, <1>7 DEF GoesOn

LEMMA NextRegistered ==
    ASSUME HTTPInv, RegisteredInv, [HTTPNext]_httpVars PROVE RegisteredInv'
<1>0. HTTPTypeOK /\ TypeOK /\ SlotInv
  BY DEF HTTPInv, HTTPTypeOK
<1>e. [Next]_vars /\ minted \subseteq minted'
  BY HTTPDrivesEngine, MintedGrows
<1>r. registered \subseteq registered'
  <2>1. CASE \E r \in Requests : RegisterAnswer(r)
    BY <2>1 DEF RegisterAnswer
  <2> QED BY <2>1, RegisteredStays
<1>1. /\ \A id \in DOMAIN clients' : <<"client", id>> \in minted'
      /\ \A id \in DOMAIN clients' : \A u \in clients'[id].redirects : <<id, u>> \in registered'
  <2> DEFINE Goal == /\ \A id \in DOMAIN clients' : <<"client", id>> \in minted'
                     /\ \A id \in DOMAIN clients' : \A u \in clients'[id].redirects :
                          <<id, u>> \in registered'
  <2>1. ASSUME NEW r \in Requests, RegisterAnswer(r) PROVE Goal
    <3>1. PICK id, row : /\ Fresh("client", id)
                         /\ RegisterClient(id, row)
                         /\ minted' = minted \cup {<<"client", id>>}
      BY <2>1 DEF RegisterAnswer, RegisterCommit
    <3>2. PICK kept : /\ clients' = Insert(kept, id, row)
                      /\ DOMAIN kept \subseteq DOMAIN clients
                      /\ \A k \in DOMAIN kept : kept[k] = clients[k]
      BY <3>1 DEF RegisterClient, RetainedClients, Restrict
    <3>3. id \notin DOMAIN clients
      BY <3>1 DEF RegisteredInv, Fresh
    <3>4. /\ DOMAIN clients' = DOMAIN kept \cup {id}
          /\ \A k \in DOMAIN kept : clients'[k] = clients[k]
      BY <3>2, <3>3 DEF Insert
    <3>5. \A u \in clients'[id].redirects : <<id, u>> \in registered'
      BY <2>1, <3>3, <3>4 DEF RegisterAnswer
    <3> QED BY <1>e, <1>r, <3>1, <3>2, <3>4, <3>5 DEF RegisteredInv
  <2>2. ASSUME NEW r \in Requests, Serve(r), ~RegisterAnswer(r) PROVE Goal
    BY <1>0, <1>e, <1>r, <2>2, ServeClients DEF RegisteredInv
  <2>3. CASE HTTPCrash \/ Environment \/ UNCHANGED httpVars
    <3>1. clients' = clients
      BY <2>3 DEF HTTPCrash, Crash, Environment, HostPrune, Prune, PruneBesidesGrants, Tick,
                  ReadOnly, storeVars, httpVars, vars
    <3> QED BY <1>e, <1>r, <3>1 DEF RegisteredInv
  <2> QED BY <2>1, <2>2, <2>3 DEF HTTPNext
<1>k. \A b : Known(b) => <<b.client, b.redirect>> \in registered'
  BY <1>r DEF Known
<1>2. (\A d \in DOMAIN authorizations : Known(authorizations[d].binding))'
  <2> SUFFICES ASSUME NEW d \in DOMAIN authorizations'
               PROVE  <<authorizations'[d].binding.client,
                        authorizations'[d].binding.redirect>> \in registered'
    BY DEF Known
  <2>1. Kept(authorizations, authorizations', d) \/ FromBegin(authorizations'[d])
    BY <1>0, <1>e, CredentialRows DEF AuthorizationRows
  <2>2. Known(authorizations'[d].binding)
    BY <2>1 DEF Kept, FromBegin, RegisteredInv, SlotKnown
  <2> QED BY <1>k, <2>2
<1>3. (\A d \in DOMAIN consents : Known(consents[d].binding))'
  <2> SUFFICES ASSUME NEW d \in DOMAIN consents'
               PROVE  <<consents'[d].binding.client,
                        consents'[d].binding.redirect>> \in registered'
    BY DEF Known
  <2>1. Kept(consents, consents', d) \/ FromLogin(consents'[d])
    BY <1>0, <1>e, CredentialRows DEF ConsentRows, KeptConsent
  <2>2. Known(consents'[d].binding)
    BY <2>1 DEF Kept, FromLogin, RegisteredInv, SlotKnown
  <2> QED BY <1>k, <2>2
<1>4. ASSUME NEW r \in Requests, Serve(r)
      PROVE  (\A q \in Requests : SlotKnown(q))' /\ RedirectsAreRegistered'
  <2>1. \A q \in Requests : q # r => req'[q] = req[q]
    BY <1>0, <1>4, ServeDrivesEngine, OtherSlots
  <2>2. \A q \in Requests : q # r => SlotKnown(q)'
    BY <1>r, <2>1 DEF SlotKnown, Known, RegisteredInv
  <2>3. SlotKnown(r)'
    <3>1. Matched(r)
      BY <1>0 DEF SlotInv
    <3>2. CASE GoesOn(r)
      BY <1>0, <3>1, <3>2, CarriedIsKnown
    <3>3. CASE ~GoesOn(r)
      BY <1>0, <1>4, <3>1, <3>3, HandlerEnds DEF SlotKnown, Idle
    <3> QED BY <3>2, <3>3
  <2>4. PICK k : NextCall(r, k) /\ call' = [call EXCEPT ![r] = k]
    BY <1>0, <1>4, CallStep
  <2>5. call'[r] = k /\ \A q \in Requests : q # r => call'[q] = call[q]
    BY <1>0, <2>4 DEF HTTPTypeOK
  <2>6. k.op = "redirect" => <<k.client, k.redirect>> \in registered
    <3>1. CASE k = call[r]
      BY <3>1 DEF RegisteredInv, RedirectsAreRegistered
    <3>2. CASE ValidateRedirect(k.client, k.redirect)
      BY <3>2 DEF ValidateRedirect, GetClient, Found, RegisteredInv
    <3>3. CASE /\ req[r].op = "consent"
               /\ k.client = req[r].read.binding.client
               /\ k.redirect = req[r].read.binding.redirect
      BY <3>3 DEF RegisteredInv, SlotKnown, Known
    <3>4. CASE Received(k)
      BY <3>4 DEF Received, Kind
    <3> QED BY <2>4, <3>1, <3>2, <3>3, <3>4 DEF NextCall, NoCall
  <2>7. RedirectsAreRegistered'
    BY <1>r, <2>5, <2>6 DEF RegisteredInv, RedirectsAreRegistered
  <2> QED BY <2>2, <2>3, <2>7
<1>5. CASE HTTPCrash
  <2>1. (\A q \in Requests : SlotKnown(q))' /\ RedirectsAreRegistered'
    BY <1>5 DEF HTTPCrash, Crash, SlotKnown, Idle, NoCall, RedirectsAreRegistered
  <2> QED BY <1>1, <1>2, <1>3, <2>1 DEF RegisteredInv
<1>6. CASE Environment \/ UNCHANGED httpVars
  <2>1. req' = req /\ call' = call
    BY <1>6 DEF Environment, HostPrune, Tick, Unanswered, httpVars, vars
  <2>2. (\A q \in Requests : SlotKnown(q))' /\ RedirectsAreRegistered'
    BY <1>r, <2>1 DEF RegisteredInv, SlotKnown, Known, RedirectsAreRegistered
  <2> QED BY <1>1, <1>2, <1>3, <2>2 DEF RegisteredInv
<1>7. CASE \E r \in Requests : Serve(r)
  BY <1>1, <1>2, <1>3, <1>4, <1>7 DEF RegisteredInv
<1> QED BY <1>5, <1>6, <1>7 DEF HTTPNext

\* Browsers are only redirected to URIs that their client has registered,
\* whatever is evicted between the check and the redirect: what
\* ValidateRedirect, BeginAuthorization and CompleteLogin check is carried
\* unchanged through authorization and consent to redirectResult.
THEOREM RedirectsAreRegisteredCorrect == HTTPSpec => []RedirectsAreRegistered
<1>1. HTTPInit => RegisteredInv
  BY DEF HTTPInit, Init, StoreInit, EmptyTable, RegisteredInv, SlotKnown, Idle, NoCall,
         RedirectsAreRegistered
<1>2. HTTPInv /\ RegisteredInv /\ [HTTPNext]_httpVars => RegisteredInv'
  BY NextRegistered
<1>3. RegisteredInv => RedirectsAreRegistered
  BY DEF RegisteredInv
<1> QED BY <1>1, <1>2, <1>3, HTTPInvHolds, PTL DEF HTTPSpec

-----------------------------------------------------------------------------
(* What a handler's step does to the rows of the credentials                *)

\* Two rows of a refresh grant that differ at most in how it was used.
SameGrant(g, h) ==
    /\ g.family = h.family /\ g.generation = h.generation
    /\ g.client = h.client /\ g.subject = h.subject
    /\ g.resource = h.resource /\ g.scopes = h.scopes
    /\ g.expires = h.expires

\* A refresh grant of the next state: a grant of this one, of the same
\* family and no less revoked, or a new one of a new or a stored family.
GrantOrigin ==
    \A d \in DOMAIN grants' :
        \/ /\ d \in DOMAIN grants
           /\ SameGrant(grants'[d], grants[d])
           /\ grants[d].revoked => grants'[d].revoked
        \/ /\ Fresh("refresh", d)
           /\ ~grants'[d].consumed /\ ~grants'[d].revoked
           /\ \/ Fresh("family", grants'[d].family)
              \/ \E e \in DOMAIN grants : e \in DOMAIN grants'
                                         /\ grants[e].family = grants'[d].family

\* Families are deleted as a whole.
WholeFamilies ==
    \A d, e \in DOMAIN grants :
        grants[d].family = grants[e].family /\ d \in DOMAIN grants' => e \in DOMAIN grants'

LEMMA GrantLife ==
    ASSUME GrantInv, [Next]_vars PROVE GrantOrigin /\ WholeFamilies
<1> DEFINE grs == PruneFamilies(grants)
<1>0. CredentialInv /\ TypeOK
  BY DEF GrantInv, CredentialInv
<1>t. IsTable(grants, RefreshTokens, Grant) /\ IsTable(grs, RefreshTokens, Grant)
  BY <1>0, PruneTable DEF TypeOK, StoreTypeOK
<1>s. /\ \A d \in DOMAIN grs : d \in DOMAIN grants /\ grs[d] = grants[d]
      /\ \A d \in DOMAIN grs, e \in DOMAIN grants :
           grants[e].family = grants[d].family => e \in DOMAIN grs
  BY PruneFacts
<1> HIDE DEF grs
<1>1. CASE GrantsPruned
  <2>1. grants' = grants \/ grants' = grs
    BY <1>1 DEF GrantsPruned, grs
  <2> QED BY <1>s, <2>1 DEF GrantOrigin, SameGrant, WholeFamilies
<1>2. ASSUME NEW family, GrantsRevoked(family) PROVE GrantOrigin /\ WholeFamilies
  <2>1. CASE grants' = RevokeRows(grants, family)
    BY <1>t, <2>1, RevokeFacts DEF GrantOrigin, SameGrant, WholeFamilies
  <2>2. CASE grants' = RevokeRows(grs, family)
    BY <1>t, <1>s, <2>2, RevokeFacts DEF GrantOrigin, SameGrant, WholeFamilies
  <2> QED BY <1>2, <2>1, <2>2 DEF GrantsRevoked, grs
<1>3. ASSUME NEW t, NEW row, FamilyStarts(t, row) PROVE GrantOrigin /\ WholeFamilies
  <2>1. t \notin DOMAIN grants /\ t \notin DOMAIN grs
    BY <1>0, <1>3, <1>s, FreshIsNew DEF FamilyStarts
  <2>2. /\ DOMAIN grants' = DOMAIN grs \cup {t} /\ grants'[t] = row
        /\ \A d \in DOMAIN grs : grants'[d] = grants[d]
    BY <1>3, <1>s, <2>1 DEF FamilyStarts, Insert, grs
  <2>3. /\ Fresh("refresh", t) /\ Fresh("family", row.family)
        /\ ~row.consumed /\ ~row.revoked
    BY <1>3 DEF FamilyStarts
  <2> QED BY <1>s, <2>1, <2>2, <2>3 DEF GrantOrigin, SameGrant, WholeFamilies
<1>4. ASSUME NEW d, NEW t, NEW row, GrantRotates(d, t, row)
      PROVE  GrantOrigin /\ WholeFamilies
  <2>0. d \in DOMAIN grs
    BY <1>4 DEF GrantRotates, grs
  <2>1. t \notin DOMAIN grants /\ t \notin DOMAIN grs
    BY <1>0, <1>4, <1>s, FreshIsNew DEF GrantRotates
  <2>2. /\ DOMAIN Consume(grs, d) = DOMAIN grs
        /\ \A e \in DOMAIN grs : /\ SameGrant(Consume(grs, d)[e], grs[e])
                                  /\ Consume(grs, d)[e].revoked = grs[e].revoked
    BY <1>t, <2>0, ConsumeGrant DEF SameGrant
  <2>3. /\ DOMAIN grants' = DOMAIN grs \cup {t} /\ grants'[t] = row
        /\ \A e \in DOMAIN grs : grants'[e] = Consume(grs, d)[e]
    BY <1>4, <2>1, <2>2 DEF GrantRotates, Insert, grs
  <2>4. /\ Fresh("refresh", t) /\ row.family = grants[d].family
        /\ ~row.consumed /\ ~row.revoked
    BY <1>4, <1>s, <2>0 DEF GrantRotates, grs
  <2> QED BY <1>s, <2>0, <2>1, <2>2, <2>3, <2>4 DEF GrantOrigin, SameGrant, WholeFamilies
<1> QED BY <1>0, <1>1, <1>2, <1>3, <1>4, GrantSteps

\* What is stored of a credential that was drawn before was stored before,
\* and it is newly marked spent only if it is one of S.
SpentIn(T, T2, kind, S) ==
    \A d \in DOMAIN T2 : <<kind, d>> \in minted =>
        d \in DOMAIN T /\ (T2[d].consumed => T[d].consumed \/ <<kind, d>> \in S)

SpentOnly(S) ==
    /\ SpentIn(authorizations, authorizations', "transaction", S)
    /\ SpentIn(consents, consents', "consent", S)
    /\ SpentIn(codes, codes', "code", S)
    /\ SpentIn(grants, grants', "refresh", S)

LEMMA SpentShrinks ==
    ASSUME NEW T, NEW T2, NEW kind, NEW S, Shrinks(T, T2) PROVE SpentIn(T, T2, kind, S)
BY DEF Shrinks, SpentIn

LEMMA SpentInsert ==
    ASSUME NEW T, NEW P, NEW kind, NEW k, NEW row, NEW S, Shrinks(T, P), Fresh(kind, k)
    PROVE  SpentIn(T, Insert(P, k, row), kind, S)
BY DEF Shrinks, SpentIn, Insert, Fresh

LEMMA SpentConsume ==
    ASSUME NEW T, NEW P, NEW kind, NEW d, NEW S, Shrinks(T, P), <<kind, d>> \in S
    PROVE  SpentIn(T, Consume(P, d), kind, S)
BY DEF Shrinks, SpentIn, Consume

LEMMA SpentRotate ==
    ASSUME NEW T, NEW P, NEW kind, NEW d, NEW k, NEW row, NEW S, Shrinks(T, P),
           <<kind, d>> \in S, Fresh(kind, k)
    PROVE  SpentIn(T, Insert(Consume(P, d), k, row), kind, S)
<1> DEFINE C == Consume(P, d)
<1>1. SpentIn(T, C, kind, S)
  BY SpentConsume
<1> HIDE DEF C
<1>2. SpentIn(T, Insert(C, k, row), kind, S)
  BY <1>1 DEF SpentIn, Insert, Fresh
<1> QED BY <1>2 DEF C

LEMMA QuietSpends == ASSUME QuietStep PROVE SpentOnly({})
<1>1. SpentIn(grants, grants', "refresh", {})
  BY DEF QuietStep, SpentIn
<1> QED BY <1>1, SpentShrinks DEF QuietStep, SpentOnly

\* A credential is its kind and its digest.
LEMMA CredentialPair ==
    ASSUME NEW c \in Minted PROVE c = <<c[1], c[2]>>
BY DEF Minted

\* The credential that a handler presents, by kind and digest.
LEMMA PresentedPair ==
    ASSUME HTTPInv, NEW r \in Requests
    PROVE  /\ req[r].op = "login_commit" => call[r].credential = <<"transaction", req[r].d>>
           /\ req[r].op = "consent" => call[r].credential = <<"consent", req[r].d>>
           /\ req[r].op = "exchange" => call[r].credential = <<"code", req[r].d>>
           /\ req[r].op = "refresh" => call[r].credential = <<"refresh", req[r].d>>
           /\ call[r].op \in {"refresh", "revoke"} =>
                /\ call[r].credential = <<"refresh", call[r].credential[2]>>
                /\ call[r].credential \in minted
<1>1. Matched(r) /\ minted \subseteq Minted
  BY DEF HTTPInv, SlotInv, HTTPTypeOK, TypeOK
<1>2. req[r].op \in Keyed => call[r].op = Handler[req[r].op] /\ call[r].credential[2] = req[r].d
  BY <1>1 DEF Matched, Keyed, Idle
<1>3. call[r].op \in DOMAIN Kind => /\ call[r].credential[1] = Kind[call[r].op]
                                    /\ call[r].credential \in minted
  BY <1>1 DEF Matched, Presented
<1>4. call[r].op \in DOMAIN Kind =>
        call[r].credential = <<Kind[call[r].op], call[r].credential[2]>>
  BY <1>1, <1>3, CredentialPair
<1> QED BY <1>2, <1>3, <1>4 DEF Keyed, Handler, Kind

\* The handlers whose commit stores a new credential; the others are quiet.
Advances(r) ==
    \/ AuthorizeAnswer(r) \/ CallbackAnswer(r) \/ ConsentAnswer(r) \/ ExchangeAnswer(r)
    \/ RefreshAnswer(r)

LEMMA ServeQuiet ==
    ASSUME NEW r \in Requests, Serve(r), ~Advances(r) PROVE QuietAction(r) \/ UNCHANGED vars
<1>1. CASE Receive(r) \/ RejectForm(r) \/ DependencyError(r) \/ Redirect(r)
           \/ AuthorizeError(r) \/ ConsentPage(r) \/ ConsentRefused(r)
           \/ ExchangeRefused(r) \/ RefreshRefused(r) \/ RevokeIgnored(r)
  BY <1>1 DEF Receive, RejectForm, DependencyError, Redirect, AuthorizeError, ConsentPage,
              ConsentRefused, ExchangeRefused, RefreshRefused, RevokeIgnored
<1>2. CASE RegisterAnswer(r) \/ RegisterError(r) \/ AuthorizeFails(r) \/ CallbackRefused(r)
           \/ CallbackError(r) \/ ConsentError(r) \/ ExchangeError(r) \/ RefreshError(r)
           \/ RevokeError(r) \/ ReadFails(r) \/ LookupFails(r)
  BY <1>2 DEF RegisterAnswer, RegisterError, AuthorizeFails, CallbackRefused, CallbackError,
              ConsentError, ExchangeError, RefreshError, RevokeError, ReadFails, LookupFails,
              QuietAction
<1>3. CASE GoesOn(r)
  BY <1>3 DEF GoesOn, Register, Authorize, AuthorizeTouch, Callback, CallbackClient,
              ConsentPost, TokenExchange, TokenRefresh, TokenRevoke, QuietAction
<1>4. CASE RefreshRevokes(r) \/ RevokeAnswer(r)
  BY <1>4 DEF RefreshRevokes, RevokeAnswer, QuietAction
<1> QED BY <1>1, <1>2, <1>3, <1>4 DEF Serve, GoesOn, Advances

\* A step spends at most the credential that its handler was given, and then
\* it answers.
LEMMA ServeSpends ==
    ASSUME HTTPInv, NEW r \in Requests, Serve(r)
    PROVE  SpentOnly({}) \/ (Commits(r) /\ SpentOnly({call[r].credential}))
<1>0. TypeOK
  BY DEF HTTPInv, HTTPTypeOK
<1>p. /\ Shrinks(authorizations, PruneRows(authorizations))
      /\ Shrinks(consents, PruneRows(consents)) /\ Shrinks(codes, PruneRows(codes))
      /\ Shrinks(grants, PruneFamilies(grants))
  BY PruneShrinks
<1> DEFINE c == call[r].credential
<1>1. CASE ~Advances(r)
  BY <1>0, <1>1, ServeQuiet, Quiet, QuietSpends
<1>2. CASE AuthorizeAnswer(r)
  <2>1. PICK t, row : /\ Fresh("transaction", t)
                      /\ authorizations' = Insert(PruneRows(authorizations), t, row)
                      /\ consents' = PruneRows(consents) /\ codes' = PruneRows(codes)
                      /\ grants' = PruneFamilies(grants)
    BY <1>2 DEF AuthorizeAnswer, BeginCreateAuthorization, CreateAuthorization
  <2>2. SpentIn(authorizations, authorizations', "transaction", {})
    BY <1>p, <2>1, SpentInsert
  <2> QED BY <1>p, <2>1, <2>2, SpentShrinks DEF SpentOnly
<1>3. CASE CallbackAnswer(r)
  <2>1. PICK t, row : /\ Fresh("consent", t) /\ req[r].op = "login_commit"
                      /\ authorizations' = Consume(PruneRows(authorizations), req[r].d)
                      /\ consents' = Insert(PruneRows(consents), t, row)
                      /\ codes' = PruneRows(codes) /\ grants' = PruneFamilies(grants)
    BY <1>3 DEF CallbackAnswer, LoginCommit, CommitLogin
  <2>2. c = <<"transaction", req[r].d>>
    BY <2>1, PresentedPair
  <2> HIDE DEF c
  <2>3. SpentIn(authorizations, authorizations', "transaction", {c})
    BY <1>p, <2>1, <2>2, SpentConsume
  <2>4. SpentIn(consents, consents', "consent", {c})
    BY <1>p, <2>1, SpentInsert
  <2>5. SpentOnly({c})
    BY <1>p, <2>1, <2>3, <2>4, SpentShrinks DEF SpentOnly
  <2> QED BY <1>3, <2>5 DEF Commits, c
<1>4. CASE ConsentAnswer(r)
  <2>1. /\ req[r].op = "consent"
        /\ consents' = Consume(PruneRows(consents), req[r].d)
        /\ authorizations' = PruneRows(authorizations) /\ grants' = PruneFamilies(grants)
        /\ \/ codes' = PruneRows(codes)
           \/ \E t, row : Fresh("code", t) /\ codes' = Insert(PruneRows(codes), t, row)
    <3>1. CASE ConsentApprove(r)
      BY <3>1 DEF ConsentApprove, CommitApproval
    <3>2. CASE ConsentDeny(r)
      BY <3>2 DEF ConsentDeny, CommitDenial
    <3> QED BY <1>4, <3>1, <3>2 DEF ConsentAnswer
  <2>2. c = <<"consent", req[r].d>>
    BY <2>1, PresentedPair
  <2> HIDE DEF c
  <2>3. SpentIn(consents, consents', "consent", {c})
    BY <1>p, <2>1, <2>2, SpentConsume
  <2>4. SpentIn(codes, codes', "code", {c})
    BY <1>p, <2>1, SpentInsert, SpentShrinks
  <2>5. SpentOnly({c})
    BY <1>p, <2>1, <2>3, <2>4, SpentShrinks DEF SpentOnly
  <2> QED BY <1>4, <2>5 DEF Commits, c
<1>5. CASE ExchangeAnswer(r)
  <2>1. PICK t, row : /\ Fresh("refresh", t) /\ req[r].op = "exchange"
                      /\ codes' = Consume(PruneRows(codes), req[r].d)
                      /\ grants' = Insert(PruneFamilies(grants), t, row)
                      /\ authorizations' = PruneRows(authorizations)
                      /\ consents' = PruneRows(consents)
    BY <1>5 DEF ExchangeAnswer, ExchangeCommit, CommitCodeExchange
  <2>2. c = <<"code", req[r].d>>
    BY <2>1, PresentedPair
  <2> HIDE DEF c
  <2>3. SpentIn(codes, codes', "code", {c})
    BY <1>p, <2>1, <2>2, SpentConsume
  <2>4. SpentIn(grants, grants', "refresh", {c})
    BY <1>p, <2>1, SpentInsert
  <2>5. SpentOnly({c})
    BY <1>p, <2>1, <2>3, <2>4, SpentShrinks DEF SpentOnly
  <2> QED BY <1>5, <2>5 DEF Commits, c
<1>6. CASE RefreshAnswer(r)
  <2>1. PICK t, row : /\ Fresh("refresh", t) /\ req[r].op = "refresh"
                      /\ grants' = Insert(Consume(PruneFamilies(grants), req[r].d), t, row)
                      /\ authorizations' = PruneRows(authorizations)
                      /\ consents' = PruneRows(consents) /\ codes' = PruneRows(codes)
    BY <1>6 DEF RefreshAnswer, RefreshRotate, RotationToSuccessor, PruneBesidesGrants
  <2>2. c = <<"refresh", req[r].d>>
    BY <2>1, PresentedPair
  <2> HIDE DEF c
  <2>3. SpentIn(grants, grants', "refresh", {c})
    BY <1>p, <2>1, <2>2, SpentRotate
  <2>4. SpentOnly({c})
    BY <1>p, <2>1, <2>3, SpentShrinks DEF SpentOnly
  <2> QED BY <1>6, <2>4 DEF Commits, c
<1> QED BY <1>1, <1>2, <1>3, <1>4, <1>5, <1>6 DEF Advances

\* What a handler's step does to the refresh grants.
LEMMA ServeGrants ==
    ASSUME HTTPInv, NEW r \in Requests, Serve(r)
    PROVE  \/ Shrinks(grants, grants')
           \/ ExchangeAnswer(r) /\ \E t, row : FamilyStarts(t, row)
           \/ RefreshAnswer(r) /\ \E t, row : GrantRotates(req[r].d, t, row)
           \/ /\ RefreshRevokes(r) /\ req[r].op = "refresh"
              /\ GrantsRevoked(req[r].read.family)
           \/ /\ RevokeAnswer(r) /\ req[r].op = "revoke"
              /\ GrantsRevoked(req[r].family)
<1>0. TypeOK
  BY DEF HTTPInv, HTTPTypeOK
<1>p. ASSUME grants' = grants \/ grants' = PruneFamilies(grants) PROVE Shrinks(grants, grants')
  BY <1>p, PruneShrinks DEF Shrinks
<1>1. CASE ExchangeAnswer(r)
  BY <1>0, <1>1, ExchangeGrants DEF ExchangeAnswer
<1>2. CASE RefreshAnswer(r)
  BY <1>0, <1>2, RotateGrants DEF RefreshAnswer
<1>3. CASE RefreshRevokes(r)
  <2>1. CASE RefreshRevokeFamily(r)
    BY <1>3, <2>1 DEF RefreshRevokeFamily, RevokeRefreshFamily, GrantsRevoked, ghostVars
  <2>2. CASE RefreshLosesRace(r) \/ RefreshReachesLimit(r)
    BY <1>3, <2>2 DEF RefreshLosesRace, RefreshReachesLimit, RotationOfSpentGrant,
                      RotationPastLimit, GrantsRevoked, ghostVars
  <2> QED BY <1>3, <2>1, <2>2 DEF RefreshRevokes
<1>4. CASE RevokeAnswer(r)
  BY <1>4 DEF RevokeAnswer, RevokeCommit, RevokeRefreshFamily, GrantsRevoked, ghostVars
<1>5. CASE AuthorizeAnswer(r) \/ CallbackAnswer(r) \/ ConsentAnswer(r) \/ RegisterAnswer(r)
  BY <1>5, <1>p DEF AuthorizeAnswer, BeginCreateAuthorization, CreateAuthorization,
              CallbackAnswer, LoginCommit, CommitLogin, ConsentAnswer, ConsentApprove,
              CommitApproval, ConsentDeny, CommitDenial, RegisterAnswer, RegisterCommit,
              RegisterClient
<1>6. CASE GoesOn(r)
  <2>1. Matched(r)
    BY DEF HTTPInv, SlotInv
  <2> QED BY <1>6, <1>p, <2>1, HandlerGoesOn DEF HTTPInv
<1>7. CASE Receive(r) \/ Redirect(r) \/ DependencyError(r) \/ AuthorizeError(r) \/ RejectForm(r)
           \/ ConsentPage(r) \/ ConsentRefused(r) \/ ExchangeRefused(r)
           \/ RefreshRefused(r) \/ RevokeIgnored(r)
  BY <1>7, <1>p DEF Receive, Redirect, DependencyError, AuthorizeError, RejectForm, ConsentPage,
              ConsentRefused, ExchangeRefused, RefreshRefused, RevokeIgnored, vars
<1>8. CASE RegisterError(r) \/ ReadFails(r) \/ LookupFails(r) \/ AuthorizeFails(r)
           \/ CallbackRefused(r)
           \/ CallbackError(r) \/ ConsentError(r) \/ ExchangeError(r) \/ RefreshError(r)
           \/ RevokeError(r)
  <2>1. grants' = grants
    BY <1>8 DEF RegisterError, ReadFails, LookupFails, AuthorizeFails, CallbackRefused,
              CallbackError,
                ConsentError, ExchangeError, RefreshError, RevokeError, Fail, ReadOnly,
                storeVars, vars
  <2> QED BY <1>p, <2>1
<1> QED BY <1>1, <1>2, <1>3, <1>4, <1>5, <1>6, <1>7, <1>8 DEF Serve, GoesOn

\* A credential that a step has drawn is unspent after it.
LEMMA DrawnIsUnspent ==
    ASSUME IndInv, [Next]_vars, NEW d
    PROVE  /\ Fresh("transaction", d) /\ d \in DOMAIN authorizations' => ~authorizations'[d].consumed
           /\ Fresh("consent", d) /\ d \in DOMAIN consents' => ~consents'[d].consumed
           /\ Fresh("code", d) /\ d \in DOMAIN codes' => ~codes'[d].consumed
           /\ Fresh("refresh", d) /\ d \in DOMAIN grants' => ~grants'[d].consumed /\ ~grants'[d].revoked
<1>0. TypeOK /\ GrantInv /\ StoredIsMinted
  BY DEF IndInv, GrantInv, CredentialInv
<1>1. /\ AuthorizationRows /\ ConsentRows /\ CodeRows /\ GrantOrigin
  BY <1>0, CredentialRows, GrantLife
<1>2. /\ Fresh("transaction", d) => d \notin DOMAIN authorizations
      /\ Fresh("consent", d) => d \notin DOMAIN consents
      /\ Fresh("code", d) => d \notin DOMAIN codes
      /\ Fresh("refresh", d) => d \notin DOMAIN grants
  BY <1>0 DEF StoredIsMinted, Fresh
<1>3. Fresh("transaction", d) /\ d \in DOMAIN authorizations' => ~authorizations'[d].consumed
  BY <1>1, <1>2 DEF AuthorizationRows, Kept, FromBegin
<1>4. Fresh("consent", d) /\ d \in DOMAIN consents' => ~consents'[d].consumed
  BY <1>1, <1>2 DEF ConsentRows, KeptConsent, Kept, FromLogin
<1>5. Fresh("code", d) /\ d \in DOMAIN codes' => ~codes'[d].consumed
  BY <1>1, <1>2 DEF CodeRows, KeptConsent, Kept, FromConsent
<1>6. Fresh("refresh", d) /\ d \in DOMAIN grants' => ~grants'[d].consumed /\ ~grants'[d].revoked
  BY <1>1, <1>2 DEF GrantOrigin
<1> QED BY <1>3, <1>4, <1>5, <1>6

-----------------------------------------------------------------------------
(* What the holders of refresh tokens can rely on                           *)

\* f is the family of token d, and no grant of it is stored without d's.
Anchored(T, M, d, f) ==
    /\ <<"family", f>> \in M
    /\ d \in DOMAIN T => T[d].family = f
    /\ \A e \in DOMAIN T : T[e].family = f => d \in DOMAIN T

\* A token of the family of d was reported as revoked to its holder.
Disowned(T, R, d) == \E c \in R : c[2] \in DOMAIN T /\ T[d].family = T[c[2]].family

\* Nothing more can be had from token d.
Gone(T, R, d) == d \in DOMAIN T => Disowned(T, R, d)

\* Token d can be used as far as the store is concerned, or its holder knows
\* that it cannot.
Sound(T, R, d) == d \in DOMAIN T => Disowned(T, R, d) \/ (~T[d].consumed /\ ~T[d].revoked)

\* The same of the credentials that have no family.
Unspent(T, d) == d \in DOMAIN T => ~T[d].consumed

ToldIsRevoked == \A c \in told : c[2] \in DOMAIN grants => grants[c[2]].revoked

\* A family that a request is about to revoke is that of its credential.
FamiliesAnchored ==
    \A r \in Requests :
        /\ req[r].op = "revoke" => Anchored(grants, minted, call[r].credential[2], req[r].family)
        /\ req[r].op = "refresh" => Anchored(grants, minted, req[r].d, req[r].read.family)

\* A family has one holder of one token.
OneHolder ==
    \A c, e \in held :
        /\ c[1] = "refresh" /\ e[1] = "refresh"
        /\ c[2] \in DOMAIN grants /\ e[2] \in DOMAIN grants
        /\ grants[c[2]].family = grants[e[2]].family
        => c = e \/ Disowned(grants, told, c[2])

\* A token that is being refreshed is held, unless it was revoked meanwhile.
RefreshedIsHeld ==
    \A r \in Requests : call[r].op = "refresh" =>
        call[r].credential \in held \/ Gone(grants, told, call[r].credential[2])

\* A refresh token is presented in one request at a time.
OnePresenter ==
    \A r, q \in Requests :
        /\ r # q /\ call[r].op \in Spending /\ call[q].op \in Spending
        /\ call[r].credential[1] = "refresh"
        => call[r].credential # call[q].credential

HeldIsSound ==
    \A c \in held \ lost :
        /\ c[1] = "transaction" => Unspent(authorizations, c[2])
        /\ c[1] = "consent" => Unspent(consents, c[2])
        /\ c[1] = "code" => Unspent(codes, c[2])
        /\ c[1] = "refresh" => Sound(grants, told, c[2])

ReliableInv ==
    /\ ToldIsRevoked /\ FamiliesAnchored /\ OneHolder
    /\ RefreshedIsHeld /\ OnePresenter /\ HeldIsSound

\* What is known of the tokens drawn before a step.
LEMMA DrawnBefore ==
    ASSUME GrantInv, [Next]_vars, NEW d, <<"refresh", d>> \in minted, d \in DOMAIN grants'
    PROVE  /\ d \in DOMAIN grants /\ grants'[d].family = grants[d].family
           /\ grants[d].revoked => grants'[d].revoked
BY GrantLife DEF GrantOrigin, SameGrant, Fresh

LEMMA AnchoredStays ==
    ASSUME GrantInv, [Next]_vars, NEW d, NEW f, <<"refresh", d>> \in minted,
           Anchored(grants, minted, d, f)
    PROVE  Anchored(grants', minted', d, f)
<1>1. GrantOrigin /\ WholeFamilies /\ minted \subseteq minted'
  BY GrantLife, MintedGrows
<1>2. d \in DOMAIN grants' => grants'[d].family = f
  BY DrawnBefore DEF Anchored
<1>3. ASSUME NEW e \in DOMAIN grants', grants'[e].family = f PROVE d \in DOMAIN grants'
  <2>1. PICK a \in DOMAIN grants : a \in DOMAIN grants' /\ grants[a].family = f
    BY <1>1, <1>3 DEF GrantOrigin, SameGrant, Anchored, Fresh
  <2>2. d \in DOMAIN grants /\ grants[d].family = f
    BY <2>1 DEF Anchored
  <2> QED BY <1>1, <2>1, <2>2 DEF WholeFamilies
<1> QED BY <1>1, <1>2, <1>3 DEF Anchored

LEMMA DisownedStays ==
    ASSUME GrantInv, PartyInv, minted \subseteq Minted, [Next]_vars, told \subseteq told',
           NEW d, <<"refresh", d>> \in minted, d \in DOMAIN grants',
           Disowned(grants, told, d)
    PROVE  Disowned(grants', told', d)
<1>1. PICK c \in told : c[2] \in DOMAIN grants /\ grants[d].family = grants[c[2]].family
  BY DEF Disowned
<1>2. c \in minted /\ c[1] = "refresh" /\ c \in Minted
  BY <1>1 DEF PartyInv
<1>3. <<"refresh", c[2]>> \in minted
  BY <1>2, CredentialPair
<1>4. d \in DOMAIN grants /\ grants'[d].family = grants[d].family
  BY DrawnBefore
<1>5. c[2] \in DOMAIN grants'
  BY <1>1, <1>4, GrantLife DEF WholeFamilies
<1>6. grants'[c[2]].family = grants[c[2]].family
  BY <1>3, <1>5, DrawnBefore
<1> QED BY <1>1, <1>4, <1>5, <1>6 DEF Disowned

LEMMA GoneStays ==
    ASSUME GrantInv, PartyInv, minted \subseteq Minted, [Next]_vars, told \subseteq told',
           NEW d, <<"refresh", d>> \in minted, Gone(grants, told, d)
    PROVE  Gone(grants', told', d)
BY DrawnBefore, DisownedStays DEF Gone

\* Steps that serve no request: a crash, pruning by the host, the clock.
Background == HTTPCrash \/ Environment \/ UNCHANGED httpVars

LEMMA BackgroundStep ==
    ASSUME HTTPInv, Background
    PROVE  /\ UNCHANGED <<held, lost, told>>
           /\ Shrinks(grants, grants') /\ SpentOnly({})
           /\ \A q \in Requests : \/ req'[q] = req[q] /\ call'[q] = call[q]
                                  \/ req'[q] = Idle /\ call'[q] = NoCall
<1>0. TypeOK
  BY DEF HTTPInv, HTTPTypeOK
<1>1. UNCHANGED <<held, lost, told>>
  BY DEF Background, HTTPCrash, Environment, Unanswered, partyVars, httpVars
<1>2. Crash \/ HostPrune \/ Tick \/ UNCHANGED vars
  BY DEF Background, HTTPCrash, Environment, httpVars
<1>3. SpentOnly({})
  BY <1>0, <1>2, Quiet, QuietSpends
<1>4. grants' = grants \/ grants' = PruneFamilies(grants)
  BY <1>2 DEF Crash, HostPrune, Prune, Tick, ReadOnly, storeVars, vars
<1>5. Shrinks(grants, grants')
  BY <1>4, PruneShrinks DEF Shrinks
<1>6. CASE HTTPCrash
  BY <1>1, <1>3, <1>5, <1>6 DEF HTTPCrash, Crash
<1>7. CASE Environment \/ UNCHANGED httpVars
  <2>1. req' = req /\ call' = call
    BY <1>7 DEF Environment, HostPrune, Tick, Unanswered, httpVars, vars
  <2> QED BY <1>1, <1>3, <1>5, <2>1
<1> QED BY <1>6, <1>7 DEF Background

\* The facts of an inductive step that the lemmas below share.
Context ==
    /\ HTTPInv /\ ReliableInv /\ HTTPInv'
    /\ HTTPTypeOK /\ SlotInv /\ PartyInv /\ GrantInv /\ StoredIsMinted
    /\ minted \subseteq Minted /\ minted \subseteq minted' /\ [Next]_vars
    /\ told \subseteq told'

LEMMA ContextHolds ==
    ASSUME HTTPInv, ReliableInv, [HTTPNext]_httpVars PROVE Context
<1>1. HTTPInv'
  BY NextHTTP
<1>2. /\ HTTPTypeOK /\ SlotInv /\ PartyInv /\ GrantInv /\ StoredIsMinted
      /\ minted \subseteq Minted
  BY DEF HTTPInv, IndInv, GrantInv, CredentialInv, TypeOK
<1>3. [Next]_vars /\ minted \subseteq minted'
  BY HTTPDrivesEngine, MintedGrows
<1>4. told \subseteq told'
  <2>1. ASSUME NEW r \in Requests, Serve(r) PROVE told \subseteq told'
    BY <1>2, <2>1, PartyStep DEF Answered, SentToLogin
  <2>2. CASE Background
    BY <2>2, BackgroundStep
  <2> QED BY <2>1, <2>2 DEF HTTPNext, Background
<1> QED BY <1>1, <1>2, <1>3, <1>4 DEF Context

\* Refresh tokens that a party holds or was told about have been drawn.
LEMMA KnownIsDrawn ==
    ASSUME PartyInv, minted \subseteq Minted
    PROVE  /\ \A c \in held : c[1] = "refresh" => <<"refresh", c[2]>> \in minted
           /\ \A c \in told : <<"refresh", c[2]>> \in minted
           /\ \A c \in held : c = <<c[1], c[2]>> /\ c \in minted
BY CredentialPair DEF PartyInv

LEMMA NextTold ==
    ASSUME Context, [HTTPNext]_httpVars PROVE ToldIsRevoked'
<1>0. HTTPInv /\ ReliableInv /\ PartyInv /\ GrantInv /\ minted \subseteq Minted /\ [Next]_vars
  BY DEF Context
<1>1. ASSUME NEW c \in told, c[2] \in DOMAIN grants' PROVE grants'[c[2]].revoked
  BY <1>0, <1>1, KnownIsDrawn, DrawnBefore DEF ReliableInv, ToldIsRevoked
<1>2. ASSUME NEW r \in Requests, RevokeAnswer(r), call[r].credential[2] \in DOMAIN grants'
      PROVE  grants'[call[r].credential[2]].revoked
  <2>1. req[r].op = "revoke" /\ grants' = RevokeRows(grants, req[r].family)
    BY <1>2 DEF RevokeAnswer, RevokeCommit, RevokeRefreshFamily
  <2>2. IsTable(grants, RefreshTokens, Grant)
    BY <1>0 DEF GrantInv, CredentialInv, TypeOK, StoreTypeOK
  <2>3. Anchored(grants, minted, call[r].credential[2], req[r].family)
    BY <1>0, <2>1 DEF ReliableInv, FamiliesAnchored
  <2> QED BY <1>2, <2>1, <2>2, <2>3, RevokeFacts DEF Anchored
<1>3. ASSUME NEW r \in Requests, RevokeIgnored(r)
      PROVE  call[r].credential[2] \notin DOMAIN grants'
  BY <1>3 DEF RevokeIgnored, GetRefreshGrant, Found, vars
<1>4. ASSUME NEW r \in Requests, Serve(r) PROVE ToldIsRevoked'
  <2>1. \/ told' = told
        \/ told' = told \cup {call[r].credential} /\ (RevokeAnswer(r) \/ RevokeIgnored(r))
    BY <1>4, PartyStep DEF Context, Answered, SentToLogin
  <2> QED BY <1>1, <1>2, <1>3, <2>1 DEF ToldIsRevoked
<1>5. CASE Background
  BY <1>0, <1>1, <1>5, BackgroundStep DEF ToldIsRevoked
<1> QED BY <1>4, <1>5 DEF HTTPNext, Background

LEMMA NextAnchored ==
    ASSUME Context, [HTTPNext]_httpVars PROVE FamiliesAnchored'
<1>0. /\ HTTPInv /\ ReliableInv /\ GrantInv /\ [Next]_vars /\ HTTPTypeOK /\ SlotInv
      /\ StoredIsMinted
  BY DEF Context
<1>1. ASSUME NEW q \in Requests, req'[q] = req[q], call'[q] = call[q]
      PROVE  /\ req'[q].op = "revoke" =>
                  Anchored(grants', minted', call'[q].credential[2], req'[q].family)
             /\ req'[q].op = "refresh" =>
                  Anchored(grants', minted', req'[q].d, req'[q].read.family)
  <2>1. CASE req[q].op = "revoke"
    <3>1. call[q].op = "revoke"
      BY <1>0, <2>1 DEF SlotInv, Matched, Handler, Idle
    <3>2. <<"refresh", call[q].credential[2]>> \in minted
      BY <1>0, <3>1, PresentedPair
    <3> QED BY <1>0, <1>1, <2>1, <3>2, AnchoredStays DEF ReliableInv, FamiliesAnchored
  <2>2. CASE req[q].op = "refresh"
    <3>1. call[q].op = "refresh" /\ call[q].credential = <<"refresh", req[q].d>>
      BY <1>0, <2>2, PresentedPair DEF SlotInv, Matched, Handler, Idle
    <3>2. <<"refresh", req[q].d>> \in minted
      BY <1>0, <3>1, PresentedPair
    <3> QED BY <1>0, <1>1, <2>2, <3>2, AnchoredStays DEF ReliableInv, FamiliesAnchored
  <2> QED BY <1>1, <2>1, <2>2
<1>2. ASSUME NEW r \in Requests, Serve(r) PROVE FamiliesAnchored'
  <2>1. PICK k : NextCall(r, k) /\ call' = [call EXCEPT ![r] = k]
    BY <1>0, <1>2, CallStep
  <2>2. \A q \in Requests : q # r => call'[q] = call[q] /\ req'[q] = req[q]
    BY <1>0, <1>2, <2>1, ServeDrivesEngine, OtherSlots DEF HTTPTypeOK
  <2>3. Matched(r)
    BY <1>0 DEF SlotInv
  <2>4. /\ req'[r].op = "revoke" =>
             Anchored(grants', minted', call'[r].credential[2], req'[r].family)
        /\ req'[r].op = "refresh" =>
             Anchored(grants', minted', req'[r].d, req'[r].read.family)
    <3>1. CASE ~GoesOn(r)
      BY <1>0, <1>2, <2>3, <3>1, HandlerEnds DEF Idle
    <3>p. \A next : Proceed(r, next) => req'[r] = next
      BY <1>0 DEF Proceed, HTTPTypeOK, TypeOK
    <3>2. CASE TokenRefresh(r)
      <4>1. PICK d : \E grant \in GetRefreshGrant(d) :
                       Proceed(r, [op |-> "refresh", d |-> d, read |-> grant])
        BY <3>2 DEF TokenRefresh, RefreshGetGrant
      <4>2. /\ d \in DOMAIN grants
            /\ req'[r].op = "refresh" /\ req'[r].d = d /\ req'[r].read = grants[d]
        BY <3>p, <4>1 DEF GetRefreshGrant, Found
      <4>3. grants' = grants /\ minted' = minted
        BY <1>0, <2>3, <3>2, HandlerGoesOn DEF GoesOn
      <4> QED BY <1>0, <4>2, <4>3 DEF Anchored, StoredIsMinted
    <3>3. CASE TokenRevoke(r)
      <4>1. \E next : Proceed(r, next) /\ next.op = "revoke"
        BY <3>3 DEF TokenRevoke, RevokeGetGrant
      <4>2. req'[r].op = "revoke"
        BY <3>p, <4>1
      <4>3. /\ call[r].credential[2] \in DOMAIN grants
            /\ req'[r].family = grants[call[r].credential[2]].family
        BY <3>3 DEF TokenRevoke, GetRefreshGrant, Found
      <4>4. grants' = grants /\ minted' = minted /\ call' = call
        BY <1>0, <2>3, <3>3, HandlerGoesOn DEF GoesOn
      <4> QED BY <1>0, <4>2, <4>3, <4>4 DEF Anchored, StoredIsMinted
    <3>4. CASE GoesOn(r) /\ ~TokenRefresh(r) /\ ~TokenRevoke(r)
      <4>1. call[r].op = Handler[req'[r].op] /\ call[r].op \notin {"refresh", "revoke"}
        <5>1. call[r].op \in {"register", "begin", "login", "consent", "exchange"}
          BY <3>4 DEF GoesOn, Register, Authorize, AuthorizeTouch, Callback, CallbackClient,
                      ConsentPost, TokenExchange, Serving
        <5> QED BY <1>0, <2>3, <3>4, <5>1, HandlerGoesOn
      <4> QED BY <4>1 DEF Handler
    <3> QED BY <3>1, <3>2, <3>3, <3>4
  <2> QED BY <1>1, <2>2, <2>4 DEF FamiliesAnchored
<1>3. CASE Background
  <2>1. \A q \in Requests : \/ req'[q] = req[q] /\ call'[q] = call[q]
                            \/ req'[q] = Idle
    BY <1>0, <1>3, BackgroundStep
  <2> QED BY <1>1, <2>1 DEF FamiliesAnchored, Idle
<1> QED BY <1>2, <1>3 DEF HTTPNext, Background

LEMMA NextPresenter ==
    ASSUME Context, [HTTPNext]_httpVars PROVE OnePresenter'
<1>0. HTTPInv /\ HTTPTypeOK /\ OnePresenter
  BY DEF Context, ReliableInv
<1>1. ASSUME NEW r \in Requests, Serve(r) PROVE OnePresenter'
  <2>1. PICK k : NextCall(r, k) /\ call' = [call EXCEPT ![r] = k]
    BY <1>0, <1>1, CallStep
  <2>2. /\ call'[r] = k
        /\ \A q \in Requests : q # r => call'[q] = call[q]
    BY <1>0, <2>1 DEF HTTPTypeOK
  <2>3. ASSUME NEW q \in Requests, q # r, k.op \in Spending, call[q].op \in Spending,
               k.credential[1] = "refresh"
        PROVE  k.credential # call[q].credential
    <3>1. CASE k = call[r]
      BY <1>0, <2>3, <3>1 DEF OnePresenter
    <3>2. CASE /\ call[r].op \in {"login", "consent", "exchange", "refresh"}
               /\ k = [op |-> "dependency_error", credential |-> call[r].credential]
      <4>1. call[r].op \in Spending /\ k.credential = call[r].credential
        BY <3>2 DEF Spending
      <4> QED BY <1>0, <2>3, <4>1 DEF OnePresenter
    <3>3. CASE Received(k)
      <4>1. PICK op \in DOMAIN Kind, c \in held :
                   /\ c[1] = Kind[op]
                   /\ op = "refresh" => \A p \in Requests : ~Presents(p, c)
                   /\ k = [op |-> op, credential |-> c]
        BY <3>3 DEF Received
      <4>2. op = "refresh"
        BY <2>3, <4>1 DEF Kind, Spending
      <4> QED BY <2>3, <4>1, <4>2 DEF Presents
    <3>4. k.op \notin {"none", "register", "begin", "begin_error", "redirect"}
      BY <2>3 DEF Spending
    <3> QED BY <2>1, <3>1, <3>2, <3>3, <3>4 DEF NextCall, NoCall
  <2> QED BY <1>0, <2>2, <2>3 DEF OnePresenter
<1>2. CASE Background
  <2>1. \A q \in Requests : call'[q] = call[q] \/ call'[q] = NoCall
    BY <1>0, <1>2, BackgroundStep
  <2> QED BY <1>0, <2>1 DEF OnePresenter, NoCall, Spending
<1> QED BY <1>1, <1>2 DEF HTTPNext, Background

\* A credential leaves its holder only by the answer to a request that
\* presented it.
LEMMA LeavesByAnswer ==
    ASSUME HTTPTypeOK, PartyInv, NEW r \in Requests, Serve(r), NEW c \in held, c \notin held'
    PROVE  /\ c = call[r].credential
           /\ call'[r].op \in {"none", "redirect"}
           /\ call[r].op \in Spending \/ c \in told'
BY PartyStep DEF Answered, SentToLogin

LEMMA NextRefreshed ==
    ASSUME Context, [HTTPNext]_httpVars PROVE RefreshedIsHeld'
<1>0. /\ HTTPInv /\ HTTPTypeOK /\ OnePresenter /\ RefreshedIsHeld /\ PartyInv /\ GrantInv
      /\ minted \subseteq Minted /\ [Next]_vars /\ told \subseteq told' /\ SlotInv
  BY DEF Context, ReliableInv
<1>1. ASSUME NEW q \in Requests, call[q].op = "refresh",
             call[q].credential \in held => call[q].credential \in held' \cup told'
      PROVE  call[q].credential \in held' \/ Gone(grants', told', call[q].credential[2])
  <2>1. <<"refresh", call[q].credential[2]>> \in minted
    BY <1>0, <1>1, PresentedPair
  <2>2. CASE Gone(grants, told, call[q].credential[2])
    BY <1>0, <2>1, <2>2, GoneStays
  <2>3. CASE call[q].credential \in told'
    BY <2>3 DEF Gone, Disowned
  <2> QED BY <1>0, <1>1, <2>2, <2>3 DEF RefreshedIsHeld
<1>2. ASSUME NEW r \in Requests, Serve(r) PROVE RefreshedIsHeld'
  <2>1. PICK k : NextCall(r, k) /\ call' = [call EXCEPT ![r] = k]
    BY <1>0, <1>2, CallStep
  <2>2. /\ call'[r] = k
        /\ \A q \in Requests : q # r => call'[q] = call[q]
    BY <1>0, <2>1 DEF HTTPTypeOK
  <2>3. ASSUME NEW q \in Requests, q # r, call[q].op = "refresh", call[q].credential \in held
        PROVE  call[q].credential \in held' \cup told'
    <3>1. SUFFICES ASSUME call[q].credential \notin held', call[q].credential \notin told'
                   PROVE  FALSE
      OBVIOUS
    <3>2. call[q].credential = call[r].credential /\ call[r].op \in Spending
      BY <1>0, <1>2, <2>3, <3>1, LeavesByAnswer
    <3>3. call[q].credential[1] = "refresh"
      BY <1>0, <2>3 DEF SlotInv, Matched, Kind
    <3> QED BY <1>0, <2>3, <3>2, <3>3 DEF OnePresenter, Spending
  <2>4. ASSUME k.op = "refresh"
        PROVE  k.credential \in held' \/ Gone(grants', told', k.credential[2])
    <3>1. held \subseteq held'
      BY <1>0, <1>2, <2>2, <2>4, LeavesByAnswer
    <3>2. CASE k = call[r]
      BY <1>1, <2>4, <3>1, <3>2
    <3>3. CASE Received(k)
      BY <3>1, <3>3 DEF Received
    <3> QED BY <2>1, <2>4, <3>2, <3>3 DEF NextCall, NoCall
  <2> QED BY <1>1, <2>2, <2>3, <2>4 DEF RefreshedIsHeld
<1>3. CASE Background
  <2>1. held' = held /\ \A q \in Requests : call'[q] = call[q] \/ call'[q] = NoCall
    BY <1>0, <1>3, BackgroundStep
  <2> QED BY <1>1, <2>1 DEF RefreshedIsHeld, NoCall
<1> QED BY <1>2, <1>3 DEF HTTPNext, Background

\* A step stores at most one new grant: that of a code, in a family of its
\* own, or the successor of the token that it rotates.
LEMMA NewGrant ==
    ASSUME HTTPInv, NEW r \in Requests, Serve(r), NEW d \in DOMAIN grants',
           Fresh("refresh", d)
    PROVE  /\ \A e \in DOMAIN grants' : e = d \/ e \in DOMAIN grants
           /\ \/ Fresh("family", grants'[d].family)
              \/ /\ RefreshAnswer(r) /\ req[r].op = "refresh" /\ req[r].d \in DOMAIN grants
                 /\ grants'[d].family = grants[req[r].d].family
<1> DEFINE grs == PruneFamilies(grants)
<1>0. CredentialInv /\ TypeOK
  BY DEF HTTPInv, IndInv, GrantInv, CredentialInv
<1>t. IsTable(grants, RefreshTokens, Grant) /\ IsTable(grs, RefreshTokens, Grant)
  BY <1>0, PruneTable DEF TypeOK, StoreTypeOK
<1>s. \A e \in DOMAIN grs : e \in DOMAIN grants /\ grs[e] = grants[e]
  BY PruneFacts
<1>d. d \notin DOMAIN grants
  BY <1>0, FreshIsNew
<1> HIDE DEF grs
<1>1. ~Shrinks(grants, grants')
  BY <1>d DEF Shrinks
<1>2. ASSUME NEW family PROVE ~GrantsRevoked(family)
  <2>1. DOMAIN RevokeRows(grants, family) = DOMAIN grants
    BY <1>t, RevokeFacts
  <2>2. DOMAIN RevokeRows(grs, family) = DOMAIN grs
    BY <1>t, RevokeFacts
  <2> QED BY <1>d, <1>s, <2>1, <2>2 DEF GrantsRevoked, grs
<1>3. ASSUME NEW t, NEW row, FamilyStarts(t, row)
      PROVE  /\ \A e \in DOMAIN grants' : e = d \/ e \in DOMAIN grants
             /\ Fresh("family", grants'[d].family)
  <2>1. t \notin DOMAIN grs
    BY <1>0, <1>3, <1>s, FreshIsNew DEF FamilyStarts
  <2>2. DOMAIN grants' = DOMAIN grs \cup {t} /\ grants'[t] = row
    BY <1>3, <2>1 DEF FamilyStarts, Insert, grs
  <2> QED BY <1>3, <1>d, <1>s, <2>2 DEF FamilyStarts
<1>4. ASSUME NEW a, NEW t, NEW row, GrantRotates(a, t, row)
      PROVE  /\ \A e \in DOMAIN grants' : e = d \/ e \in DOMAIN grants
             /\ a \in DOMAIN grants /\ grants'[d].family = grants[a].family
  <2>0. a \in DOMAIN grs
    BY <1>4 DEF GrantRotates, grs
  <2>1. t \notin DOMAIN grs
    BY <1>0, <1>4, <1>s, FreshIsNew DEF GrantRotates
  <2>2. DOMAIN Consume(grs, a) = DOMAIN grs
    BY <1>t, <2>0, ConsumeGrant
  <2>3. DOMAIN grants' = DOMAIN grs \cup {t} /\ grants'[t] = row
    BY <1>4, <2>1, <2>2 DEF GrantRotates, Insert, grs
  <2>4. row.family = grants[a].family
    BY <1>4, <1>s, <2>0 DEF GrantRotates, grs
  <2> QED BY <1>d, <1>s, <2>0, <2>3, <2>4
<1>5. RefreshAnswer(r) => req[r].op = "refresh"
  BY DEF RefreshAnswer, RefreshRotate
<1> QED BY <1>1, <1>2, <1>3, <1>4, <1>5, ServeGrants

LEMMA NextHolder ==
    ASSUME Context, [HTTPNext]_httpVars PROVE OneHolder'
<1>0. /\ HTTPInv /\ HTTPTypeOK /\ OneHolder /\ RefreshedIsHeld /\ PartyInv /\ GrantInv
      /\ StoredIsMinted
      /\ minted \subseteq Minted /\ [Next]_vars /\ told \subseteq told' /\ SlotInv
  BY DEF Context, ReliableInv
<1> DEFINE Related(c, e) == /\ c[1] = "refresh" /\ e[1] = "refresh"
                            /\ c[2] \in DOMAIN grants' /\ e[2] \in DOMAIN grants'
                            /\ grants'[c[2]].family = grants'[e[2]].family
           Fine(c, e) == c = e \/ Disowned(grants', told', c[2])
<1>1. ASSUME NEW c \in held, NEW e \in held, Related(c, e) PROVE Fine(c, e)
  <2>1. <<"refresh", c[2]>> \in minted /\ <<"refresh", e[2]>> \in minted
    BY <1>0, <1>1, KnownIsDrawn
  <2>2. /\ c[2] \in DOMAIN grants /\ e[2] \in DOMAIN grants
        /\ grants[c[2]].family = grants[e[2]].family
    BY <1>0, <1>1, <2>1, DrawnBefore
  <2>3. c = e \/ Disowned(grants, told, c[2])
    BY <1>0, <1>1, <2>2 DEF OneHolder
  <2> QED BY <1>0, <1>1, <2>1, <2>3, DisownedStays
<1>2. ASSUME NEW r \in Requests, Serve(r), NEW c \in held', c \notin held, NEW e \in held',
             Related(c, e)
      PROVE  Fine(c, e)
  <2>1. PICK G : Answered(r, G) \/ SentToLogin(G)
    BY <1>0, <1>2, PartyStep
  <2>2. Drawn(G) /\ held' \subseteq held \cup G
    BY <1>2, <2>1 DEF Answered, SentToLogin
  <2>3. c \in minted' /\ c \notin minted /\ e \in minted' /\ minted' \subseteq Minted
    BY <1>2, <2>2 DEF Drawn, Context, HTTPInv, PartyInv, HTTPTypeOK, TypeOK
  <2>4. c = <<"refresh", c[2]>> /\ e = <<"refresh", e[2]>>
    BY <1>2, <2>3, CredentialPair
  <2>5. Fresh("refresh", c[2]) /\ c[2] \in DOMAIN grants'
    BY <1>2, <2>3, <2>4 DEF Fresh
  <2>6. SUFFICES ASSUME c # e PROVE Disowned(grants', told', c[2])
    OBVIOUS
  <2>7. e[2] \in DOMAIN grants
    BY <1>0, <1>2, <2>4, <2>5, <2>6, NewGrant
  <2>8. e \in minted /\ grants'[e[2]].family = grants[e[2]].family
    BY <1>0, <1>2, <2>4, <2>7, DrawnBefore DEF StoredIsMinted
  <2>9. e \in held
    BY <1>2, <2>2, <2>8 DEF Drawn
  <2>10. ~Fresh("family", grants'[c[2]].family)
    BY <1>0, <1>2, <2>7, <2>8 DEF StoredIsMinted, Fresh
  <2>11. /\ RefreshAnswer(r) /\ req[r].op = "refresh" /\ req[r].d \in DOMAIN grants
         /\ grants'[c[2]].family = grants[req[r].d].family
    BY <1>0, <1>2, <2>5, <2>10, NewGrant
  <2>12. call[r].op = "refresh" /\ call[r].credential = <<"refresh", req[r].d>>
    BY <1>0, <2>11, PresentedPair DEF RefreshAnswer
  <2>13. grants[e[2]].family = grants[req[r].d].family
    BY <1>2, <2>8, <2>11
  <2>14. call[r].credential # e
    <3>1. SUFFICES ASSUME call[r].credential = e PROVE FALSE
      OBVIOUS
    <3>2. ~SentToLogin(G)
      BY <1>2, <2>4 DEF SentToLogin
    <3> QED BY <1>2, <2>1, <2>9, <3>1, <3>2 DEF Answered
  <2>15. Disowned(grants, told, e[2])
    <3>1. CASE call[r].credential \in held
      BY <1>0, <2>4, <2>7, <2>9, <2>11, <2>12, <2>13, <2>14, <3>1 DEF OneHolder
    <3>2. CASE Gone(grants, told, req[r].d)
      BY <2>11, <2>13, <3>2 DEF Gone, Disowned
    <3> QED BY <1>0, <2>12, <3>1, <3>2 DEF RefreshedIsHeld
  <2>16. Disowned(grants', told', e[2])
    BY <1>0, <1>2, <2>4, <2>8, <2>15, DisownedStays
  <2> QED BY <1>2, <2>16 DEF Disowned
<1>3. ASSUME NEW r \in Requests, Serve(r), NEW c \in held', NEW e \in held', Related(c, e)
      PROVE  Fine(c, e)
  <2>1. CASE c \in held /\ e \in held
    BY <1>1, <1>3, <2>1
  <2>2. CASE c \notin held
    BY <1>2, <1>3, <2>2
  <2>3. CASE e \notin held
    <3>1. Fine(e, c)
      BY <1>2, <1>3, <2>3
    <3> QED BY <1>3, <3>1 DEF Disowned
  <2> QED BY <2>1, <2>2, <2>3
<1>4. CASE Background
  <2>1. held' = held
    BY <1>0, <1>4, BackgroundStep
  <2> QED BY <1>1, <2>1 DEF OneHolder
<1> QED BY <1>3, <1>4 DEF HTTPNext, Background, OneHolder

\* A grant is revoked by a request of its own family only.
LEMMA RevokedBy ==
    ASSUME HTTPInv, NEW r \in Requests, Serve(r), NEW d \in DOMAIN grants,
           d \in DOMAIN grants', ~grants[d].revoked, grants'[d].revoked
    PROVE  \/ /\ RefreshRevokes(r) /\ req[r].op = "refresh"
              /\ grants[d].family = req[r].read.family
           \/ /\ RevokeAnswer(r) /\ req[r].op = "revoke"
              /\ grants[d].family = req[r].family
<1> DEFINE grs == PruneFamilies(grants)
<1>0. CredentialInv /\ TypeOK
  BY DEF HTTPInv, IndInv, GrantInv, CredentialInv
<1>t. IsTable(grants, RefreshTokens, Grant) /\ IsTable(grs, RefreshTokens, Grant)
  BY <1>0, PruneTable DEF TypeOK, StoreTypeOK
<1>s. \A e \in DOMAIN grs : e \in DOMAIN grants /\ grs[e] = grants[e]
  BY PruneFacts
<1> HIDE DEF grs
<1>1. ~Shrinks(grants, grants')
  BY DEF Shrinks
<1>2. ASSUME NEW family, GrantsRevoked(family) PROVE grants[d].family = family
  <2>1. CASE grants' = RevokeRows(grants, family)
    BY <1>t, <2>1, RevokeFacts
  <2>2. CASE grants' = RevokeRows(grs, family)
    BY <1>t, <1>s, <2>2, RevokeFacts
  <2> QED BY <1>2, <2>1, <2>2 DEF GrantsRevoked, grs
<1>3. ASSUME NEW t, NEW row, FamilyStarts(t, row) PROVE FALSE
  <2>1. t \notin DOMAIN grants
    BY <1>0, <1>3, FreshIsNew DEF FamilyStarts
  <2>2. DOMAIN grants' = DOMAIN grs \cup {t} /\ \A e \in DOMAIN grs : grants'[e] = grs[e]
    BY <1>3, <1>s, <2>1 DEF FamilyStarts, Insert, grs
  <2> QED BY <1>s, <2>1, <2>2
<1>4. ASSUME NEW a, NEW t, NEW row, GrantRotates(a, t, row) PROVE FALSE
  <2>0. a \in DOMAIN grs
    BY <1>4 DEF GrantRotates, grs
  <2>1. t \notin DOMAIN grants
    BY <1>0, <1>4, FreshIsNew DEF GrantRotates
  <2>2. /\ DOMAIN Consume(grs, a) = DOMAIN grs
        /\ \A e \in DOMAIN grs : Consume(grs, a)[e].revoked = grs[e].revoked
    BY <1>t, <2>0, ConsumeGrant
  <2>3. /\ DOMAIN grants' = DOMAIN grs \cup {t}
        /\ \A e \in DOMAIN grs : grants'[e] = Consume(grs, a)[e]
    BY <1>4, <1>s, <2>1, <2>2 DEF GrantRotates, Insert, grs
  <2> QED BY <1>s, <2>1, <2>2, <2>3
<1> QED BY <1>1, <1>2, <1>3, <1>4, ServeGrants

\* A revocation of a family leaves its other holders with a token that they
\* know to be revoked.
LEMMA RevokedIsDisowned ==
    ASSUME Context, NEW r \in Requests, Serve(r), NEW c \in held, c[1] = "refresh",
           c # call[r].credential \/ RevokeAnswer(r),
           c[2] \in DOMAIN grants', ~grants[c[2]].revoked, grants'[c[2]].revoked
    PROVE  Disowned(grants', told', c[2])
<1>0. /\ HTTPInv /\ HTTPTypeOK /\ OneHolder /\ RefreshedIsHeld /\ FamiliesAnchored /\ PartyInv
      /\ GrantInv /\ minted \subseteq Minted /\ [Next]_vars /\ told \subseteq told' /\ SlotInv
  BY DEF Context, ReliableInv
<1>1. c = <<"refresh", c[2]>> /\ c \in minted /\ <<"refresh", c[2]>> \in minted
  BY <1>0, KnownIsDrawn
<1>2. c[2] \in DOMAIN grants /\ grants'[c[2]].family = grants[c[2]].family
  BY <1>0, <1>1, DrawnBefore
<1>3. CASE /\ RefreshRevokes(r) /\ req[r].op = "refresh"
           /\ grants[c[2]].family = req[r].read.family
  <2>1. call[r].op = "refresh" /\ call[r].credential = <<"refresh", req[r].d>>
    BY <1>0, <1>3, PresentedPair DEF RefreshRevokes
  <2>2. req[r].d \in DOMAIN grants /\ grants[req[r].d].family = grants[c[2]].family
    BY <1>0, <1>2, <1>3 DEF FamiliesAnchored, Anchored
  <2>3. c # call[r].credential
    BY <2>1 DEF RevokeAnswer
  <2>4. Disowned(grants, told, c[2])
    <3>1. CASE call[r].credential \in held
      BY <1>0, <1>1, <1>2, <2>1, <2>2, <2>3, <3>1 DEF OneHolder
    <3>2. CASE Gone(grants, told, req[r].d)
      BY <2>2, <3>2 DEF Gone, Disowned
    <3> QED BY <1>0, <2>1, <3>1, <3>2 DEF RefreshedIsHeld
  <2> QED BY <1>0, <1>1, <2>4, DisownedStays
<1>4. CASE /\ RevokeAnswer(r) /\ req[r].op = "revoke"
           /\ grants[c[2]].family = req[r].family
  <2> DEFINE e == call[r].credential
  <2>1. e[2] \in DOMAIN grants /\ grants[e[2]].family = grants[c[2]].family
    BY <1>0, <1>2, <1>4 DEF FamiliesAnchored, Anchored
  <2>2. e[2] \in DOMAIN grants'
    BY <1>0, <1>2, <2>1, GrantLife DEF WholeFamilies
  <2>3. <<"refresh", e[2]>> \in minted
    BY <1>0, <1>4, PresentedPair DEF RevokeAnswer
  <2>4. grants'[e[2]].family = grants[e[2]].family
    BY <1>0, <2>2, <2>3, DrawnBefore
  <2>5. e \in told'
    BY <1>4 DEF RevokeAnswer, AnswerRevoked
  <2> QED BY <1>2, <2>1, <2>2, <2>4, <2>5 DEF Disowned
<1> QED BY <1>0, <1>2, <1>3, <1>4, RevokedBy

LEMMA NextSound ==
    ASSUME Context, [HTTPNext]_httpVars PROVE HeldIsSound'
<1>0. /\ HTTPInv /\ HTTPTypeOK /\ HeldIsSound /\ PartyInv /\ GrantInv /\ IndInv
      /\ minted \subseteq Minted /\ [Next]_vars /\ told \subseteq told'
  BY DEF Context, ReliableInv, HTTPInv
<1> DEFINE Good(c) == /\ c[1] = "transaction" => Unspent(authorizations', c[2])
                      /\ c[1] = "consent" => Unspent(consents', c[2])
                      /\ c[1] = "code" => Unspent(codes', c[2])
                      /\ c[1] = "refresh" => Sound(grants', told', c[2])
\* What nobody has spent is as it was.
<1>1. ASSUME NEW c \in held, c \notin lost, NEW S, SpentOnly(S), c \notin S,
             c[1] = "refresh" /\ c[2] \in DOMAIN grants' =>
               \/ Disowned(grants', told', c[2])
               \/ ~grants[c[2]].revoked => ~grants'[c[2]].revoked
      PROVE  Good(c)
  <2>1. c = <<c[1], c[2]>> /\ c \in minted
    BY <1>0, KnownIsDrawn
  <2>2. c[1] = "transaction" => Unspent(authorizations', c[2])
    BY <1>0, <1>1, <2>1 DEF SpentOnly, SpentIn, Unspent, HeldIsSound
  <2>3. c[1] = "consent" => Unspent(consents', c[2])
    BY <1>0, <1>1, <2>1 DEF SpentOnly, SpentIn, Unspent, HeldIsSound
  <2>4. c[1] = "code" => Unspent(codes', c[2])
    BY <1>0, <1>1, <2>1 DEF SpentOnly, SpentIn, Unspent, HeldIsSound
  <2>5. ASSUME c[1] = "refresh", c[2] \in DOMAIN grants',
               ~Disowned(grants', told', c[2])
        PROVE  ~grants'[c[2]].consumed /\ ~grants'[c[2]].revoked
    <3>1. <<"refresh", c[2]>> \in minted /\ <<"refresh", c[2]>> \notin S
      BY <1>1, <2>1, <2>5
    <3>2. /\ c[2] \in DOMAIN grants
          /\ grants'[c[2]].consumed => grants[c[2]].consumed
      BY <1>1, <2>5, <3>1 DEF SpentOnly, SpentIn
    <3>3. ~Disowned(grants, told, c[2])
      BY <1>0, <2>5, <3>1, DisownedStays
    <3>4. ~grants[c[2]].consumed /\ ~grants[c[2]].revoked
      BY <1>0, <1>1, <2>5, <3>2, <3>3 DEF HeldIsSound, Sound
    <3> QED BY <1>1, <2>5, <3>2, <3>4
  <2> QED BY <2>2, <2>3, <2>4, <2>5 DEF Sound
\* What the step has drawn is unspent.
<1>2. ASSUME NEW G, Drawn(G), NEW c \in G PROVE Good(c)
  <2>1. c \in minted' /\ c \notin minted /\ minted' \subseteq Minted
    BY <1>2 DEF Drawn, Context, HTTPInv, HTTPTypeOK, TypeOK
  <2>2. c = <<c[1], c[2]>>
    BY <2>1, CredentialPair
  <2>3. Fresh(c[1], c[2])
    BY <2>1, <2>2 DEF Fresh
  <2> QED BY <1>0, <2>3, DrawnIsUnspent DEF Unspent, Sound
<1>3. ASSUME NEW r \in Requests, Serve(r), NEW c \in held', c \notin lost' PROVE Good(c)
  <2>1. CASE c \notin held \/ c \in lost
    <3>1. PICK G : Drawn(G) /\ c \in G
      BY <1>0, <1>3, <2>1, PartyStep DEF Answered, SentToLogin
    <3> QED BY <1>2, <3>1
  <2>2. CASE c \in held /\ c \notin lost
    <3>1. c \in minted
      BY <1>0, <2>2, KnownIsDrawn
    <3>2. Commits(r) => c # call[r].credential
      <4>1. SUFFICES ASSUME Commits(r) PROVE c # call[r].credential
        OBVIOUS
      <4>2. PICK G : Answered(r, G)
        BY <1>0, <4>1, CommitAnswers
      <4> QED BY <1>3, <3>1, <4>2 DEF Answered, Drawn
    <3>3. ASSUME c[1] = "refresh", c[2] \in DOMAIN grants', ~grants[c[2]].revoked,
                 grants'[c[2]].revoked
          PROVE  Disowned(grants', told', c[2])
      <4>1. c[2] \in DOMAIN grants
        BY <1>0, <2>2, <3>3, KnownIsDrawn, DrawnBefore
      <4>2. Commits(r)
        BY <1>0, <1>3, <3>3, <4>1, RevokedBy DEF Commits
      <4> QED BY <1>3, <2>2, <3>2, <3>3, <4>2, RevokedIsDisowned
    <3>4. CASE SpentOnly({})
      BY <1>1, <2>2, <3>3, <3>4
    <3>5. CASE Commits(r) /\ SpentOnly({call[r].credential})
      <4>1. c \notin {call[r].credential}
        BY <3>2, <3>5
      <4> QED BY <1>1, <2>2, <3>3, <3>5, <4>1
    <3> QED BY <1>0, <1>3, <3>4, <3>5, ServeSpends
  <2> QED BY <2>1, <2>2
<1>4. ASSUME Background, NEW c \in held', c \notin lost' PROVE Good(c)
  <2>1. c \in held /\ c \notin lost /\ SpentOnly({}) /\ Shrinks(grants, grants')
    BY <1>0, <1>4, BackgroundStep
  <2> QED BY <1>1, <2>1 DEF Shrinks
<1> QED BY <1>3, <1>4 DEF HTTPNext, Background, HeldIsSound

LEMMA InitReliable == HTTPInit => ReliableInv
<1> SUFFICES ASSUME HTTPInit PROVE ReliableInv
  OBVIOUS
<1>1. /\ held = {} /\ told = {}
      /\ \A r \in Requests : req[r] = Idle /\ call[r] = NoCall
  BY DEF HTTPInit, Init
<1>2. ToldIsRevoked /\ OneHolder /\ HeldIsSound
  BY <1>1 DEF ToldIsRevoked, OneHolder, HeldIsSound
<1>3. FamiliesAnchored /\ RefreshedIsHeld /\ OnePresenter
  BY <1>1 DEF FamiliesAnchored, RefreshedIsHeld, OnePresenter, Idle, NoCall, Spending
<1> QED BY <1>2, <1>3 DEF ReliableInv

LEMMA NextReliable == HTTPInv /\ ReliableInv /\ [HTTPNext]_httpVars => ReliableInv'
<1> SUFFICES ASSUME HTTPInv, ReliableInv, [HTTPNext]_httpVars PROVE ReliableInv'
  OBVIOUS
<1>1. Context
  BY ContextHolds
<1> QED BY <1>1, NextTold, NextAnchored, NextHolder, NextRefreshed, NextPresenter, NextSound
        DEF ReliableInv

LEMMA ReliableInvHolds == HTTPSpec => [](HTTPInv /\ ReliableInv)
BY InitReliable, NextReliable, HTTPInvHolds, PTL DEF HTTPSpec

\* POST /oauth/revoke answers 200 only when no grant of the token's family is
\* usable any more, and a refresh in flight at that moment cannot bring one
\* back (Revoke, Refresh, CommitRefreshRotation).
THEOREM RevocationIsFinalCorrect == HTTPSpec => []RevocationIsFinal
<1>1. HTTPInv /\ ReliableInv => RevocationIsFinal
  <2> SUFFICES ASSUME HTTPInv, ReliableInv, NEW c \in told, c[2] \in DOMAIN grants,
                      NEW e \in DOMAIN grants, SameFamily(c[2], e)
               PROVE  grants[e].revoked
    BY DEF RevocationIsFinal
  <2>1. grants[c[2]].revoked
    BY DEF ReliableInv, ToldIsRevoked
  <2> QED BY <2>1 DEF HTTPInv, IndInv, GrantInv, FamilyInv, SameFamily
<1> QED BY <1>1, ReliableInvHolds, PTL

\* The credential of a party to whom every answer has arrived can be used
\* until it expires, or its holder had the family revoked, whatever failed,
\* crashed or raced meanwhile: handlers answer after their commit, and a
\* request that commits nothing spends nothing.
THEOREM HeldIsUsableCorrect == HTTPSpec => []HeldIsUsable
<1>1. HTTPInv /\ ReliableInv => HeldIsUsable
  <2> SUFFICES ASSUME HTTPInv, ReliableInv, NEW c \in held, c \notin lost,
                      c[2] \in DOMAIN Table[c[1]], ~(Table[c[1]][c[2]].expires =< clock),
                      ~(c[1] = "refresh" /\ \E d \in told : /\ d[2] \in DOMAIN grants
                                                            /\ SameFamily(c[2], d[2]))
               PROVE  Usable(c)
    BY DEF HeldIsUsable
  <2>1. c[1] \in TokenKinds
    BY DEF HTTPInv, PartyInv
  <2>2. /\ StoreTypeOK
        /\ c[1] = "transaction" => Unspent(authorizations, c[2])
        /\ c[1] = "consent" => Unspent(consents, c[2])
        /\ c[1] = "code" => Unspent(codes, c[2])
        /\ c[1] = "refresh" => Sound(grants, told, c[2])
    BY DEF HTTPInv, HTTPTypeOK, TypeOK, ReliableInv, HeldIsSound
  <2>3. CASE c[1] = "transaction"
    <3>1. Table[c[1]] = authorizations
      BY <2>3 DEF Table
    <3>2. authorizations[c[2]].expires \in Int /\ clock \in Int
      BY <2>2, <3>1 DEF StoreTypeOK, IsTable, Authorization, Time
    <3> QED BY <2>2, <2>3, <3>1, <3>2 DEF Usable, Unspent
  <2>4. CASE c[1] = "consent"
    <3>1. Table[c[1]] = consents
      BY <2>4 DEF Table
    <3>2. consents[c[2]].expires \in Int /\ clock \in Int
      BY <2>2, <3>1 DEF StoreTypeOK, IsTable, Consent, Time
    <3> QED BY <2>2, <2>4, <3>1, <3>2 DEF Usable, Unspent
  <2>5. CASE c[1] = "code"
    <3>1. Table[c[1]] = codes
      BY <2>5 DEF Table
    <3>2. codes[c[2]].expires \in Int /\ clock \in Int
      BY <2>2, <3>1 DEF StoreTypeOK, IsTable, Code, Consent, Time
    <3> QED BY <2>2, <2>5, <3>1, <3>2 DEF Usable, Unspent
  <2>6. CASE c[1] = "refresh"
    <3>1. Table[c[1]] = grants
      BY <2>6 DEF Table
    <3>2. grants[c[2]].expires \in Int /\ clock \in Int
      BY <2>2, <3>1 DEF StoreTypeOK, IsTable, Grant, Time
    <3>3. ~Disowned(grants, told, c[2])
      BY <2>6 DEF Disowned, SameFamily
    <3> QED BY <2>2, <2>6, <3>1, <3>2, <3>3 DEF Usable, Sound
  <2> QED BY <2>1, <2>3, <2>4, <2>5, <2>6 DEF TokenKinds
<1> QED BY <1>1, ReliableInvHolds, PTL

-----------------------------------------------------------------------------
(* What a request has read is what its commit finds                         *)

\* The consent or code that was read is the stored one, if there is one.
AsRead(T, d, row) ==
    d \in DOMAIN T =>
        /\ T[d].binding = row.binding /\ T[d].subject = row.subject
        /\ T[d].scopes = row.scopes /\ T[d].ends = row.ends

GrantAsRead(T, d, row) == d \in DOMAIN T => SameGrant(T[d], row)

SlotAsRead(r) ==
    /\ req[r].op = "consent" => AsRead(consents, req[r].d, req[r].read)
    /\ req[r].op = "exchange" => AsRead(codes, req[r].d, req[r].read)
    /\ req[r].op = "refresh" => ~req[r].read.revoked
    /\ req[r].op = "refresh" => GrantAsRead(grants, req[r].d, req[r].read)

ReadInv == \A r \in Requests : SlotAsRead(r)

\* A registered client keeps the redirect URIs it was registered with.
CurrentInv ==
    \A p \in registered :
        /\ <<"client", p[1]>> \in minted
        /\ p[1] \in DOMAIN clients => p[2] \in clients[p[1]].redirects

RefusalInv == HTTPInv /\ ReliableInv /\ RegisteredInv /\ ReadInv /\ CurrentInv

\* The credential of a request in its last step was drawn before.
LEMMA CarriedIsDrawn ==
    ASSUME HTTPInv, NEW r \in Requests
    PROVE  /\ req[r].op = "consent" => <<"consent", req[r].d>> \in minted
           /\ req[r].op = "exchange" => <<"code", req[r].d>> \in minted
           /\ req[r].op = "refresh" => <<"refresh", req[r].d>> \in minted
<1>1. Matched(r)
  BY DEF HTTPInv, SlotInv
<1>2. req[r].op \in {"consent", "exchange", "refresh"} => call[r].credential \in minted
  <2>1. req[r].op \in {"consent", "exchange", "refresh"} => call[r].op = req[r].op
    BY <1>1 DEF Matched, Idle, Handler
  <2> QED BY <1>1, <2>1 DEF Matched, Presented, Kind
<1> QED BY <1>2, PresentedPair

\* What was read stays as it was read: rows change only in how they were used.
LEMMA ReadStays ==
    ASSUME HTTPInv, [Next]_vars, NEW q \in Requests, SlotAsRead(q), req'[q] = req[q]
    PROVE  SlotAsRead(q)'
<1>0. TypeOK /\ GrantInv
  BY DEF HTTPInv, IndInv, GrantInv, CredentialInv
<1>1. ConsentRows /\ CodeRows /\ GrantOrigin
  BY <1>0, CredentialRows, GrantLife
<1>2. ASSUME req[q].op = "consent" PROVE AsRead(consents', req[q].d, req[q].read)
  BY <1>1, <1>2, CarriedIsDrawn DEF ConsentRows, KeptConsent, Kept, Fresh, SlotAsRead, AsRead
<1>3. ASSUME req[q].op = "exchange" PROVE AsRead(codes', req[q].d, req[q].read)
  BY <1>1, <1>3, CarriedIsDrawn DEF CodeRows, KeptConsent, Kept, Fresh, SlotAsRead, AsRead
<1>4. ASSUME req[q].op = "refresh" PROVE GrantAsRead(grants', req[q].d, req[q].read)
  BY <1>1, <1>4, CarriedIsDrawn
     DEF GrantOrigin, SameGrant, Fresh, SlotAsRead, GrantAsRead
<1> QED BY <1>2, <1>3, <1>4 DEF SlotAsRead

\* A request that goes on carries the row that it has just read.
LEMMA ReadNow ==
    ASSUME HTTPInv, NEW r \in Requests, GoesOn(r) PROVE SlotAsRead(r)'
<1>0. HTTPTypeOK /\ Matched(r) /\ req \in [Requests -> Request] /\ req[r] \in Request
  BY DEF HTTPInv, SlotInv, HTTPTypeOK, TypeOK
<1>p. \A next : Proceed(r, next) => req'[r] = next
  BY <1>0 DEF Proceed
<1>u. consents' = consents /\ codes' = codes /\ grants' = grants
  BY <1>0, HandlerGoesOn
<1>1. CASE ConsentPost(r)
  <2>1. PICK d \in ConsentTokens : \E consent \in GetConsent(d) :
          Proceed(r, [op |-> "consent", d |-> d, read |-> consent, at |-> clock])
    BY <1>1 DEF ConsentPost, ConsentGet
  <2>2. \A consent \in GetConsent(d) : d \in DOMAIN consents /\ consent = consents[d]
    BY DEF GetConsent, Found
  <2>3. req'[r].op = "consent" /\ req'[r].d = d /\ req'[r].read = consents[d]
    BY <1>p, <2>1, <2>2
  <2> QED BY <1>u, <2>3 DEF SlotAsRead, AsRead
<1>2. CASE TokenExchange(r)
  <2>1. PICK d \in Codes, client \in ClientIDs, redirect \in RedirectURIs :
          \E code \in GetCodeForExchange(d, client, redirect) :
            Proceed(r, [op |-> "exchange", d |-> d, read |-> code])
    BY <1>2 DEF TokenExchange, ExchangeGetCode
  <2>2. \A code \in GetCodeForExchange(d, client, redirect) :
          d \in DOMAIN codes /\ code = codes[d]
    BY DEF GetCodeForExchange, Found
  <2>3. req'[r].op = "exchange" /\ req'[r].d = d /\ req'[r].read = codes[d]
    BY <1>p, <2>1, <2>2
  <2> QED BY <1>u, <2>3 DEF SlotAsRead, AsRead
<1>3. CASE TokenRefresh(r)
  <2>1. PICK d \in RefreshTokens : \E grant \in GetRefreshGrant(d) :
          ~grant.revoked /\ Proceed(r, [op |-> "refresh", d |-> d, read |-> grant])
    BY <1>3 DEF TokenRefresh, RefreshGetGrant
  <2>2. \A grant \in GetRefreshGrant(d) : d \in DOMAIN grants /\ grant = grants[d]
    BY DEF GetRefreshGrant, Found
  <2>3. /\ req'[r].op = "refresh" /\ req'[r].d = d /\ req'[r].read = grants[d]
        /\ ~req'[r].read.revoked
    BY <1>p, <2>1, <2>2
  <2> QED BY <1>u, <2>3 DEF SlotAsRead, GrantAsRead, SameGrant
<1>4. CASE ~ConsentPost(r) /\ ~TokenExchange(r) /\ ~TokenRefresh(r)
  <2>1. call[r].op = Handler[req'[r].op]
    BY <1>0, HandlerGoesOn
  <2>2. call[r].op \in {"register", "begin", "login", "revoke"}
    BY <1>4 DEF GoesOn, Register, Authorize, AuthorizeTouch, Callback, CallbackClient,
                TokenRevoke, Serving
  <2> QED BY <2>1, <2>2 DEF Handler, SlotAsRead
<1> QED BY <1>1, <1>2, <1>3, <1>4

LEMMA NextRead ==
    ASSUME HTTPInv, ReadInv, [HTTPNext]_httpVars PROVE ReadInv'
<1>0. HTTPTypeOK /\ SlotInv /\ [Next]_vars
  BY HTTPDrivesEngine DEF HTTPInv
<1>i. ASSUME NEW q \in Requests, req'[q] = Idle PROVE SlotAsRead(q)'
  BY <1>i DEF SlotAsRead, Idle
<1>s. ASSUME NEW q \in Requests, req'[q] = req[q] PROVE SlotAsRead(q)'
  BY <1>0, <1>s, ReadStays DEF ReadInv
<1>1. ASSUME NEW r \in Requests, Serve(r) PROVE ReadInv'
  <2>1. \A q \in Requests : q # r => req'[q] = req[q]
    BY <1>0, <1>1, ServeDrivesEngine, OtherSlots DEF HTTPTypeOK
  <2>2. SlotAsRead(r)'
    <3>1. CASE GoesOn(r)
      BY <3>1, ReadNow
    <3>2. CASE ~GoesOn(r)
      BY <1>0, <1>1, <1>i, <3>2, HandlerEnds DEF SlotInv
    <3> QED BY <3>1, <3>2
  <2> QED BY <1>s, <2>1, <2>2 DEF ReadInv
<1>2. CASE Background
  BY <1>2, <1>i, <1>s, BackgroundStep DEF ReadInv
<1> QED BY <1>1, <1>2 DEF HTTPNext, Background

LEMMA NextCurrent ==
    ASSUME HTTPInv, RegisteredInv, CurrentInv, [HTTPNext]_httpVars PROVE CurrentInv'
<1>0. HTTPTypeOK /\ minted \subseteq minted'
  BY HTTPDrivesEngine, MintedGrows DEF HTTPInv
<1>r. RegisteredInv'
  BY NextRegistered
<1>1. ASSUME NEW r \in Requests, RegisterAnswer(r) PROVE CurrentInv'
  <2> DEFINE kept == RetainedClients(PruneRows(authorizations), PruneRows(consents),
                                     PruneRows(codes), PruneFamilies(grants))
  <2>1. PICK id, row : Fresh("client", id) /\ clients' = Insert(kept, id, row)
    BY <1>1 DEF RegisterAnswer, RegisterCommit, RegisterClient
  <2>2. /\ DOMAIN kept \subseteq DOMAIN clients
        /\ \A e \in DOMAIN kept : kept[e] = clients[e]
    BY DEF RetainedClients, Restrict
  <2> HIDE DEF kept
  <2>3. \A e \in DOMAIN clients' : e # id => e \in DOMAIN clients /\ clients'[e] = clients[e]
    BY <2>1, <2>2 DEF Insert
  <2>4. registered' = registered \cup UNION {{e} \X clients'[e].redirects :
                                             e \in DOMAIN clients' \ DOMAIN clients}
    BY <1>1 DEF RegisterAnswer
  <2>5. ASSUME NEW p \in registered
        PROVE  /\ <<"client", p[1]>> \in minted'
               /\ p[1] \in DOMAIN clients' => p[2] \in clients'[p[1]].redirects
    <3>1. <<"client", p[1]>> \in minted /\ p[1] # id
      BY <2>1 DEF CurrentInv, Fresh
    <3> QED BY <1>0, <2>3, <3>1 DEF CurrentInv
  <2>6. ASSUME NEW e \in DOMAIN clients' \ DOMAIN clients,
               NEW p \in {e} \X clients'[e].redirects
        PROVE  /\ <<"client", p[1]>> \in minted'
               /\ p[1] \in DOMAIN clients' => p[2] \in clients'[p[1]].redirects
    BY <1>r DEF RegisteredInv
  <2> QED BY <2>4, <2>5, <2>6 DEF CurrentInv
<1>2. CASE \A r \in Requests : ~RegisterAnswer(r)
  <2>1. registered' = registered
    BY <1>2, RegisteredStays
  <2>2. /\ DOMAIN clients' = DOMAIN clients
        /\ \A id \in DOMAIN clients : clients'[id].redirects = clients[id].redirects
    <3>1. ASSUME NEW r \in Requests, Serve(r)
          PROVE  /\ DOMAIN clients' = DOMAIN clients
                 /\ \A id \in DOMAIN clients : clients'[id].redirects = clients[id].redirects
      BY <1>0, <1>2, <3>1, ServeClients
    <3>2. CASE HTTPCrash \/ Environment \/ UNCHANGED httpVars
      BY <3>2 DEF HTTPCrash, Crash, Environment, HostPrune, Prune, PruneBesidesGrants, Tick,
                  ReadOnly, storeVars, httpVars, vars
    <3> QED BY <3>1, <3>2 DEF HTTPNext
  <2> QED BY <1>0, <2>1, <2>2 DEF CurrentInv
<1> QED BY <1>1, <1>2
-----------------------------------------------------------------------------
(* Which refusals are left                                                  *)

\* The row of a credential that can still be used.
Live(T, now, d) == d \in DOMAIN T /\ T[d].expires > now /\ ~T[d].consumed

\* Whole seconds, in which text order is time order, prune no live row.
LEMMA LiveIsKept ==
    ASSUME TypeOK, TicksPerSecond = 1, NEW d
    PROVE  /\ Live(authorizations, clock, d) => d \in DOMAIN PruneRows(authorizations)
           /\ Live(consents, clock, d) => d \in DOMAIN PruneRows(consents)
           /\ Live(codes, clock, d) => d \in DOMAIN PruneRows(codes)
           /\ Live(grants, clock, d) => d \in DOMAIN PruneFamilies(grants)
<1>1. /\ Survives(authorizations, PruneRows(authorizations))
      /\ Survives(consents, PruneRows(consents))
      /\ Survives(codes, PruneRows(codes))
      /\ Survives(grants, PruneFamilies(grants))
  BY PruneSurvives
<1>2. clock \in Int
  BY Instants
<1>3. Live(authorizations, clock, d) => d \in DOMAIN PruneRows(authorizations)
  BY <1>1, <1>2, Instants, TextOrder DEF Survives, Live
<1>4. Live(consents, clock, d) => d \in DOMAIN PruneRows(consents)
  BY <1>1, <1>2, Instants, TextOrder DEF Survives, Live
<1>5. Live(codes, clock, d) => d \in DOMAIN PruneRows(codes)
  BY <1>1, <1>2, Instants, TextOrder DEF Survives, Live
<1>6. Live(grants, clock, d) => d \in DOMAIN PruneFamilies(grants)
  BY <1>1, <1>2, Instants, TextOrder DEF Survives, Live
<1> QED BY <1>3, <1>4, <1>5, <1>6

\* CommitLogin refuses no transaction that is live.
LEMMA LoginRefused ==
    ASSUME HTTPInv, TicksPerSecond = 1, NEW r \in Requests, req[r].op = "login_commit",
           NEW t, NEW now, Fresh("consent", t),
           CommitLoginAnswer(req[r].d, t, ProposedConsent(r, now)) \in Refusals
    PROVE  ~Live(authorizations, clock, req[r].d)
<1> DEFINE d == req[r].d
           auths == PruneRows(authorizations)
           cons == PruneRows(consents)
           consent == ProposedConsent(r, now)
<1>0. TypeOK /\ StoredIsMinted /\ LoginsProtected
  BY DEF HTTPInv, IndInv
<1> SUFFICES ASSUME Live(authorizations, clock, d) PROVE FALSE
  OBVIOUS
<1>1. d \in DOMAIN auths /\ auths[d] = authorizations[d]
  BY <1>0, LiveIsKept, PruneFacts
<1>2. consent.binding = authorizations[d].binding
  BY <1>0 DEF ProposedConsent, LoginsProtected, Live
<1>3. t \notin DOMAIN cons
  BY <1>0, PruneFacts DEF StoredIsMinted, Fresh
<1>4. ~authorizations[d].consumed /\ authorizations[d].expires > clock
  BY DEF Live
<1>5. CommitLoginAnswer(d, t, consent) =
        IF LoginCommitError(auths[d], consent) # "ok" THEN LoginCommitError(auths[d], consent)
        ELSE IF Cardinality(DOMAIN cons) >= MaxConsents THEN "capacity" ELSE "ok"
  BY <1>1, <1>3 DEF CommitLoginAnswer
<1> HIDE DEF auths, cons, consent, d
<1>6. LoginCommitError(auths[d], consent) \in {"invalid", "ok"}
  BY <1>1, <1>2, <1>4 DEF LoginCommitError
<1>7. CommitLoginAnswer(d, t, consent) \in {"invalid", "ok", "capacity"}
  BY <1>5, <1>6
<1> QED BY <1>7 DEF Refusals, consent, d

\* CommitConsent refuses no consent that is live, unless the code it is given
\* has expired on the way.
LEMMA DecisionRefused ==
    ASSUME HTTPInv, ReadInv, TicksPerSecond = 1, NEW r \in Requests,
           req[r].op = "consent", ~Overdue(r),
           NEW t, NEW now \in req[r].at .. clock, Fresh("code", t),
           \/ CommitApprovalAnswer(req[r].d, t, ProposedCode(r, now)) \in Refusals
           \/ CommitDenialAnswer(req[r].d) \in Refusals
    PROVE  ~Live(consents, clock, req[r].d)
<1> DEFINE d == req[r].d
           cons == PruneRows(consents)
           cods == PruneRows(codes)
           code == ProposedCode(r, now)
<1>0. TypeOK /\ StoredIsMinted
  BY DEF HTTPInv, IndInv
<1>q. req[r] \in ConsentRequest
  BY <1>0, RequestShape DEF TypeOK
<1> SUFFICES ASSUME Live(consents, clock, d) PROVE FALSE
  OBVIOUS
<1>1. d \in DOMAIN cons /\ cons[d] = consents[d]
  BY <1>0, LiveIsKept, PruneFacts
<1>2. AsRead(consents, d, req[r].read)
  BY DEF ReadInv, SlotAsRead
<1>3. t \notin DOMAIN cods
  BY <1>0, PruneFacts DEF StoredIsMinted, Fresh
<1>4. ~consents[d].consumed /\ consents[d].expires > clock
  BY DEF Live
<1>5. now + CodeTTL > clock
  <2>1. req[r].at \in Nat /\ clock \in Nat /\ CodeTTL \in Int
    BY <1>0, <1>q, Lifetimes DEF ConsentRequest, TypeOK, StoreTypeOK
  <2>2. req[r].at + CodeTTL > clock
    BY <2>1 DEF Overdue
  <2> QED BY <2>1, <2>2
<1>6. /\ code.binding = consents[d].binding /\ code.subject = consents[d].subject
      /\ code.scopes = consents[d].scopes /\ code.ends = consents[d].ends
      /\ code.expires = now + CodeTTL
  BY <1>1, <1>2, <1>q, PruneFacts DEF ProposedCode, AsRead, ConsentRequest, Consent
<1>7. CommitDenialAnswer(d) = ConsentCommitError(cons[d])
  BY <1>1 DEF CommitDenialAnswer
<1>8. CommitApprovalAnswer(d, t, code) =
        IF ApprovalError(cons[d], code) # "ok" THEN ApprovalError(cons[d], code)
        ELSE IF Cardinality(DOMAIN cods) >= MaxCodes THEN "capacity" ELSE "ok"
  BY <1>1, <1>3 DEF CommitApprovalAnswer
<1> HIDE DEF cons, cods, code, d
<1>9. ConsentCommitError(cons[d]) = "ok"
  BY <1>1, <1>4 DEF ConsentCommitError
<1>10. ApprovalError(cons[d], code) = "ok"
  BY <1>1, <1>5, <1>6, <1>9 DEF ApprovalError, ValidateApprovedCode
<1>11. CommitApprovalAnswer(d, t, code) \in {"ok", "capacity"} /\ CommitDenialAnswer(d) = "ok"
  BY <1>7, <1>8, <1>9, <1>10
<1> QED BY <1>11 DEF Refusals, code, d

\* CommitCodeExchange refuses no code that is live.
LEMMA ExchangeRefusedIsDead ==
    ASSUME HTTPInv, ReadInv, TicksPerSecond = 1, NEW r \in Requests,
           req[r].op = "exchange", NEW t, NEW family, Fresh("refresh", t),
           CommitCodeExchangeAnswer(req[r].d, t, FirstGrant(req[r].read, family)) \in Refusals
    PROVE  ~Live(codes, clock, req[r].d)
<1> DEFINE d == req[r].d
           cods == PruneRows(codes)
           grs == PruneFamilies(grants)
           refresh == FirstGrant(req[r].read, family)
<1>0. TypeOK /\ StoredIsMinted /\ AuthorizationOutlivesCode
  BY DEF HTTPInv, IndInv
<1> SUFFICES ASSUME Live(codes, clock, d) PROVE FALSE
  OBVIOUS
<1>1. d \in DOMAIN cods /\ cods[d] = codes[d] /\ d \in DOMAIN codes
  BY <1>0, LiveIsKept, PruneFacts
<1>2. AsRead(codes, d, req[r].read)
  BY DEF ReadInv, SlotAsRead
<1>3. t \notin DOMAIN grs
  BY <1>0, PruneFacts DEF StoredIsMinted, Fresh
<1>4. ~codes[d].consumed /\ codes[d].expires > clock
  BY DEF Live
<1>5. codes[d].ends > clock
  <2>1. codes[d].expires < codes[d].ends
    BY <1>0, <1>1 DEF AuthorizationOutlivesCode
  <2>2. codes[d].expires \in Int /\ codes[d].ends \in Int /\ clock \in Int
    BY <1>0, <1>1 DEF TypeOK, StoreTypeOK, IsTable, Code, Consent, Time
  <2> QED BY <1>4, <2>1, <2>2
<1>6. /\ refresh.generation = 0 /\ refresh.client = codes[d].binding.client
      /\ refresh.subject = codes[d].subject /\ refresh.resource = codes[d].binding.resource
      /\ refresh.scopes = codes[d].scopes /\ refresh.expires = codes[d].ends
      /\ ~refresh.consumed /\ ~refresh.revoked
  BY <1>1, <1>2 DEF FirstGrant, AsRead
<1>7. CommitCodeExchangeAnswer(d, t, refresh) =
        IF CodeExchangeError(cods[d], refresh) # "ok" THEN CodeExchangeError(cods[d], refresh)
        ELSE IF Cardinality(Active(grs)) >= MaxRefreshGrants THEN "capacity" ELSE "ok"
  BY <1>1, <1>3 DEF CommitCodeExchangeAnswer
<1> HIDE DEF cods, grs, refresh, d
<1>8. ValidateCodeExchangeCommit(cods[d], refresh)
  BY <1>1, <1>4, <1>5, <1>6 DEF ValidateCodeExchangeCommit
<1>9. CodeExchangeError(cods[d], refresh) = "ok"
  BY <1>1, <1>4, <1>8 DEF CodeExchangeError
<1>10. CommitCodeExchangeAnswer(d, t, refresh) \in {"ok", "capacity"}
  BY <1>7, <1>9
<1> QED BY <1>10 DEF Refusals, refresh, d

\* CommitRefreshRotation refuses no grant that is live without revoking its
\* family.
LEMMA RotationRefused ==
    ASSUME HTTPInv, ReadInv, TicksPerSecond = 1, NEW r \in Requests,
           req[r].op = "refresh", ~req[r].read.consumed, NEW t, Fresh("refresh", t),
           CommitRefreshRotationAnswer(req[r].d, req[r].read.family,
               req[r].read.generation, t, Successor(req[r].read, Scopes))
             \in Refusals \ {"revoked"}
    PROVE  ~Live(grants, clock, req[r].d)
<1> DEFINE d == req[r].d
           grs == PruneFamilies(grants)
           read == req[r].read
           next == Successor(read, Scopes)
           current == decodeRefresh(grs[d])
           answer == CommitRefreshRotationAnswer(d, read.family, read.generation, t, next)
<1>0. TypeOK /\ StoredIsMinted
  BY DEF HTTPInv, IndInv
<1>q. req[r] \in RefreshRequest /\ read \in Grant
  BY <1>0, RequestShape DEF TypeOK, RefreshRequest
<1> SUFFICES ASSUME Live(grants, clock, d) PROVE FALSE
  OBVIOUS
<1>1. d \in DOMAIN grs /\ grs[d] = grants[d] /\ d \in DOMAIN grants /\ grants[d] \in Grant
  BY <1>0, LiveIsKept, PruneFacts DEF TypeOK, StoreTypeOK, IsTable
<1>2. SameGrant(grants[d], read) /\ ~read.revoked
  BY <1>1 DEF ReadInv, SlotAsRead, GrantAsRead
<1>3. t \notin DOMAIN grs
  BY <1>0, PruneFacts DEF StoredIsMinted, Fresh
<1>4. grants[d].expires > clock
  BY DEF Live
<1>5. /\ ~current.revoked /\ ~current.consumed /\ current.expires > clock
      /\ current.family = read.family /\ current.generation = read.generation
      /\ current.client = read.client /\ current.subject = read.subject
      /\ current.resource = read.resource /\ current.scopes = read.scopes
      /\ current.expires = read.expires
  BY <1>1, <1>2, <1>4 DEF decodeRefresh, SameGrant, Grant
<1>6. /\ next.family = read.family /\ next.generation = read.generation + 1
      /\ next.client = read.client /\ next.subject = read.subject
      /\ next.resource = read.resource /\ next.scopes \subseteq read.scopes
      /\ next.expires = read.expires /\ ~next.consumed /\ ~next.revoked
  BY <1>2, <1>q DEF Successor, Grant
<1>7. grs[d].family = read.family /\ grs[d].generation = read.generation
  BY <1>1, <1>2 DEF SameGrant
<1> HIDE DEF current, next
<1>8. ValidateRefreshRotation(current, next)
  BY <1>5, <1>6 DEF ValidateRefreshRotation
<1>9. RefreshRotationError(current, next) = "ok"
  BY <1>5, <1>8 DEF RefreshRotationError
<1>10. answer \in {"revoked", "ok"}
  <2>1. CASE grs[d].consumed \/ grs[d].revoked
    BY <1>1, <1>7, <2>1 DEF CommitRefreshRotationAnswer
  <2>2. CASE ~(grs[d].consumed \/ grs[d].revoked)
    <3>1. answer = IF RefreshRotationError(current, next) # "ok"
                   THEN RefreshRotationError(current, next)
                   ELSE IF next.generation >= MaxRefreshGenerations THEN "revoked" ELSE "ok"
      BY <1>1, <1>3, <1>7, <2>2 DEF CommitRefreshRotationAnswer, current
    <3> QED BY <1>9, <3>1
  <2> QED BY <2>1, <2>2
<1> QED BY <1>10 DEF Refusals, next
-----------------------------------------------------------------------------
(* What a party gives up                                                    *)

\* A credential that is worth keeping has a live row; a refresh token also
\* has an unrevoked one, and a transaction has its client.
LEMMA WorthwhileIsLive ==
    ASSUME NEW c, Worthwhile(c)'
    PROVE  /\ c[1] = "transaction" => /\ Live(authorizations', clock', c[2])
                                      /\ authorizations'[c[2]].binding.client \in DOMAIN clients'
           /\ c[1] = "consent" => Live(consents', clock', c[2])
           /\ c[1] = "code" => Live(codes', clock', c[2])
           /\ c[1] = "refresh" => Live(grants', clock', c[2]) /\ ~grants'[c[2]].revoked
BY DEF Worthwhile, Usable, Table, Live

\* The answers that make a holder give up its credential.
LEMMA GivenUpBy ==
    ASSUME HTTPTypeOK, PartyInv, NEW r \in Requests, Serve(r), NEW c \in held, c \notin held'
    PROVE  \/ Commits(r) \/ DependencyError(r) \/ RevokeIgnored(r)
           \/ CallbackRefused(r) \/ ConsentRefused(r) \/ ExchangeRefused(r) \/ RefreshRefused(r)
           \/ CallbackError(r) \/ ConsentError(r) \/ ExchangeError(r) \/ RefreshError(r)
<1>1. CASE GoesOn(r) \/ Receive(r) \/ RejectForm(r) \/ ReadFails(r) \/ LookupFails(r)
           \/ Redirect(r)
           \/ RegisterAnswer(r) \/ RegisterError(r) \/ AuthorizeFails(r) \/ AuthorizeError(r)
           \/ ConsentPage(r) \/ RevokeError(r) \/ AuthorizeAnswer(r)
  <2>1. held \subseteq held'
    BY <1>1 DEF GoesOn, Register, Authorize, AuthorizeTouch, Callback, CallbackClient,
                ConsentPost, TokenExchange, TokenRefresh, TokenRevoke, Receive, RejectForm,
                ReadFails, LookupFails, Redirect, RegisterAnswer, RegisterError, AuthorizeFails,
                AuthorizeError, ConsentPage, RevokeError, AuthorizeAnswer, AnswerNothing,
                Unanswered, partyVars
  <2> QED BY <2>1
<1> QED BY <1>1 DEF Serve, GoesOn, Commits

\* A commit spends or revokes the credential it was given.
LEMMA CommitKills ==
    ASSUME Context, ReliableInv', NEW r \in Requests, Commits(r),
           NEW c, c = call[r].credential
    PROVE  ~Worthwhile(c)'
<1>0. HTTPInv /\ TypeOK /\ GrantInv /\ ReliableInv /\ StoredIsMinted
  BY DEF Context, HTTPTypeOK
<1>t. /\ IsTable(PruneRows(authorizations), Transactions, Authorization)
      /\ IsTable(PruneRows(consents), ConsentTokens, Consent)
      /\ IsTable(PruneRows(codes), Codes, Consent)
      /\ IsTable(grants, RefreshTokens, Grant)
      /\ IsTable(PruneFamilies(grants), RefreshTokens, Grant)
  BY <1>0, PruneTable DEF TypeOK, StoreTypeOK, Code
<1>1. CASE CallbackAnswer(r)
  <2>1. /\ req[r].op = "login_commit" /\ req[r].d \in DOMAIN PruneRows(authorizations)
        /\ authorizations' = Consume(PruneRows(authorizations), req[r].d)
    BY <1>1 DEF CallbackAnswer, LoginCommit, CommitLogin
  <2>2. c = <<"transaction", req[r].d>>
    BY <1>0, <2>1, PresentedPair
  <2>3. authorizations'[req[r].d].consumed
    BY <1>t, <2>1, ConsumeAuthorization
  <2> QED BY <2>2, <2>3, WorthwhileIsLive DEF Live
<1>2. CASE ConsentAnswer(r)
  <2>1. /\ req[r].op = "consent" /\ req[r].d \in DOMAIN PruneRows(consents)
        /\ consents' = Consume(PruneRows(consents), req[r].d)
    BY <1>2 DEF ConsentAnswer, ConsentApprove, CommitApproval, ConsentDeny, CommitDenial
  <2>2. c = <<"consent", req[r].d>>
    BY <1>0, <2>1, PresentedPair
  <2>3. consents'[req[r].d].consumed
    BY <1>t, <2>1, ConsumeConsent
  <2> QED BY <2>2, <2>3, WorthwhileIsLive DEF Live
<1>3. CASE ExchangeAnswer(r)
  <2>1. /\ req[r].op = "exchange" /\ req[r].d \in DOMAIN PruneRows(codes)
        /\ codes' = Consume(PruneRows(codes), req[r].d)
    BY <1>3 DEF ExchangeAnswer, ExchangeCommit, CommitCodeExchange
  <2>2. c = <<"code", req[r].d>>
    BY <1>0, <2>1, PresentedPair
  <2>3. codes'[req[r].d].consumed
    BY <1>t, <2>1, ConsumeConsent
  <2> QED BY <2>2, <2>3, WorthwhileIsLive DEF Live
<1>4. CASE RefreshAnswer(r)
  <2> DEFINE grs == PruneFamilies(grants)
             d == req[r].d
  <2>1. PICK t, row : /\ Fresh("refresh", t) /\ req[r].op = "refresh" /\ d \in DOMAIN grs
                      /\ grants' = Insert(Consume(grs, d), t, row)
    BY <1>4 DEF RefreshAnswer, RefreshRotate, RotationToSuccessor
  <2>2. c = <<"refresh", d>>
    BY <1>0, <2>1, PresentedPair
  <2>3. d # t
    BY <1>0, <2>1, PruneFacts DEF StoredIsMinted, Fresh
  <2>4. Consume(grs, d)[d].consumed /\ DOMAIN Consume(grs, d) = DOMAIN grs
    BY <1>t, <2>1, ConsumeGrant
  <2>5. grants'[d].consumed
    BY <2>1, <2>3, <2>4 DEF Insert
  <2> QED BY <2>2, <2>5, WorthwhileIsLive DEF Live
<1>5. CASE RefreshRevokes(r)
  <2>1. req[r].op = "refresh" /\ GrantsRevoked(req[r].read.family)
    <3>1. CASE RefreshRevokeFamily(r)
      BY <3>1 DEF RefreshRevokeFamily, RevokeRefreshFamily, GrantsRevoked, ghostVars
    <3>2. CASE RefreshLosesRace(r) \/ RefreshReachesLimit(r)
      BY <3>2 DEF RefreshLosesRace, RefreshReachesLimit, RotationOfSpentGrant,
                  RotationPastLimit, GrantsRevoked, ghostVars
    <3> QED BY <1>5, <3>1, <3>2 DEF RefreshRevokes
  <2>2. c = <<"refresh", req[r].d>>
    BY <1>0, <2>1, PresentedPair
  <2>3. Anchored(grants, minted, req[r].d, req[r].read.family)
    BY <1>0, <2>1 DEF ReliableInv, FamiliesAnchored
  <2>4. ASSUME req[r].d \in DOMAIN grants' PROVE grants'[req[r].d].revoked
    <3>1. CASE grants' = RevokeRows(grants, req[r].read.family)
      BY <1>t, <2>3, <2>4, <3>1, RevokeFacts DEF Anchored
    <3>2. CASE grants' = RevokeRows(PruneFamilies(grants), req[r].read.family)
      BY <1>t, <2>3, <2>4, <3>2, RevokeFacts, PruneFacts DEF Anchored
    <3> QED BY <2>1, <3>1, <3>2 DEF GrantsRevoked
  <2> QED BY <2>2, <2>4, WorthwhileIsLive DEF Live
<1>6. CASE RevokeAnswer(r)
  <2>1. c \in told' /\ call[r].op = "revoke"
    BY <1>6 DEF RevokeAnswer, AnswerRevoked
  <2>2. c = <<"refresh", c[2]>>
    BY <1>0, <2>1, PresentedPair
  <2>3. c[2] \in DOMAIN grants' => grants'[c[2]].revoked
    BY <2>1 DEF ReliableInv, ToldIsRevoked
  <2> QED BY <2>2, <2>3, WorthwhileIsLive DEF Live
<1> QED BY <1>1, <1>2, <1>3, <1>4, <1>5, <1>6 DEF Commits

\* A read refuses only a credential that is gone, expired or revoked, or a
\* transaction whose client is gone.
LEMMA ReadRefuses ==
    ASSUME RefusalInv, NEW r \in Requests,
           \/ CallbackRefused(r) \/ ConsentRefused(r) \/ ExchangeRefused(r)
           \/ RefreshRefused(r) \/ RevokeIgnored(r),
           NEW c, c = call[r].credential
    PROVE  ~Worthwhile(c)'
<1> DEFINE d == c[2]
<1>0. HTTPInv /\ TypeOK /\ Matched(r) /\ LoginsProtected
  BY DEF RefusalInv, HTTPInv, HTTPTypeOK, SlotInv, IndInv
<1>u. UNCHANGED <<clock, storeVars>>
  BY DEF CallbackRefused, ConsentRefused, ExchangeRefused, RefreshRefused, RevokeIgnored,
         Fail, ReadOnly, vars, storeVars
<1>i. clock \in Int
  BY <1>0, Instants
<1>k. call[r].op \in DOMAIN Kind => c[1] = Kind[call[r].op]
  BY <1>0 DEF Matched
<1>1. CASE CallbackRefused(r)
  <2>1. c[1] = "transaction"
    BY <1>1, <1>k DEF CallbackRefused, Kind
  <2>2. CASE \A auth \in GetAuthorization(d) : clock > auth.expires
    <3>1. ~Live(authorizations, clock, d)
      BY <1>0, <1>i, <2>2, Instants DEF GetAuthorization, Found, Live
    <3> QED BY <1>u, <2>1, <3>1, WorthwhileIsLive DEF storeVars
  <2>3. CASE /\ req[r].op = "login_client"
             /\ ~ValidateRedirect(req[r].binding.client, req[r].binding.redirect)
    <3> DEFINE b == req[r].binding
    <3>1. <<b.client, b.redirect>> \in registered
      BY <2>3 DEF RefusalInv, RegisteredInv, SlotKnown, Known
    <3>2. b.client \in DOMAIN clients => b.redirect \in clients[b.client].redirects
      BY <3>1 DEF RefusalInv, CurrentInv
    <3>3. b.client \notin DOMAIN clients
      BY <2>3, <3>2 DEF ValidateRedirect, GetClient, Found
    <3>4. d = req[r].d
      BY <1>0, <2>3 DEF Matched, Keyed
    <3>5. d \in DOMAIN authorizations => authorizations[d].binding = b
      BY <1>0, <2>3, <3>4 DEF LoginsProtected
    <3> QED BY <1>u, <2>1, <3>3, <3>5, WorthwhileIsLive DEF storeVars, Live
  <2> QED BY <1>1, <2>2, <2>3 DEF CallbackRefused
<1>2. CASE ConsentRefused(r)
  <2>1. c[1] = "consent" /\ \A consent \in GetConsent(d) : clock > consent.expires
    BY <1>2, <1>k DEF ConsentRefused, Serving, Kind
  <2>2. ~Live(consents, clock, d)
    BY <1>0, <1>i, <2>1, Instants DEF GetConsent, Found, Live
  <2> QED BY <1>u, <2>1, <2>2, WorthwhileIsLive DEF storeVars
<1>3. CASE ExchangeRefused(r)
  <2>1. c[1] = "code" /\ \A code \in Found(codes, d) : clock > code.expires
    BY <1>3, <1>k DEF ExchangeRefused, Serving, Kind
  <2>2. ~Live(codes, clock, d)
    BY <1>0, <1>i, <2>1, Instants DEF Found, Live
  <2> QED BY <1>u, <2>1, <2>2, WorthwhileIsLive DEF storeVars
<1>4. CASE RefreshRefused(r)
  <2>1. /\ c[1] = "refresh"
        /\ \A grant \in GetRefreshGrant(d) : grant.revoked \/ clock > grant.expires
    BY <1>4, <1>k DEF RefreshRefused, Serving, Kind
  <2>2. ~(Live(grants, clock, d) /\ ~grants[d].revoked)
    BY <1>0, <1>i, <2>1, Instants DEF GetRefreshGrant, Found, Live
  <2> QED BY <1>u, <2>1, <2>2, WorthwhileIsLive DEF storeVars
<1>5. CASE RevokeIgnored(r)
  <2>1. c[1] = "refresh" /\ GetRefreshGrant(d) = {}
    BY <1>5, <1>k DEF RevokeIgnored, Serving, Kind
  <2>2. ~Live(grants, clock, d)
    BY <2>1 DEF GetRefreshGrant, Found, Live
  <2> QED BY <1>u, <2>1, <2>2, WorthwhileIsLive DEF storeVars
<1> QED BY <1>1, <1>2, <1>3, <1>4, <1>5
\* An error of the store that takes the credential from its holder is a
\* refusal: a temporary answer leaves everyone with what they had.
LEMMA ErrorIsRefusal ==
    ASSUME NEW r, NEW error, AnswerError(r, mapStoreError(error)), held' # held
    PROVE  error \in Refusals
BY DEF AnswerError, mapStoreError, AnswerNothing, partyVars

\* The commit of a request is refused only for a credential that is dead,
\* unless a decision was overdue.
LEMMA CommitRefuses ==
    ASSUME RefusalInv, TicksPerSecond = 1, NEW r \in Requests, ~Overdue(r), held' # held,
           CallbackError(r) \/ ConsentError(r) \/ ExchangeError(r) \/ RefreshError(r),
           NEW c, c = call[r].credential
    PROVE  ~Worthwhile(c)'
<1>0. HTTPInv /\ ReadInv
  BY DEF RefusalInv
<1>u. UNCHANGED <<clock, storeVars>>
  BY DEF CallbackError, ConsentError, ExchangeError, RefreshError, Fail, ReadOnly, storeVars
<1>i. ~AnswerError(r, mapStoreError("io"))
  BY ErrorIsRefusal DEF Refusals
<1>1. CASE CallbackError(r)
  <2>1. PICK t \in ConsentTokens, now \in req[r].at .. clock :
          /\ Fresh("consent", t)
          /\ AnswerError(r, mapStoreError(CommitLoginAnswer(req[r].d, t,
                                                            ProposedConsent(r, now))))
    BY <1>1, <1>i DEF CallbackError
  <2>2. CommitLoginAnswer(req[r].d, t, ProposedConsent(r, now)) \in Refusals
    BY <2>1, ErrorIsRefusal
  <2>3. req[r].op = "login_commit"
    BY <1>1 DEF CallbackError
  <2>4. ~Live(authorizations, clock, req[r].d)
    BY <1>0, <2>1, <2>2, <2>3, LoginRefused
  <2>5. c = <<"transaction", req[r].d>>
    BY <1>0, <2>3, PresentedPair
  <2> QED BY <1>u, <2>4, <2>5, WorthwhileIsLive DEF storeVars
<1>2. CASE ConsentError(r)
  <2>1. PICK t \in Codes, now \in req[r].at .. clock :
          \E error \in {CommitApprovalAnswer(req[r].d, t, ProposedCode(r, now)),
                        CommitDenialAnswer(req[r].d)} :
            Fresh("code", t) /\ AnswerError(r, mapStoreError(error))
    BY <1>2, <1>i DEF ConsentError
  <2>2. \/ CommitApprovalAnswer(req[r].d, t, ProposedCode(r, now)) \in Refusals
        \/ CommitDenialAnswer(req[r].d) \in Refusals
    BY <2>1, ErrorIsRefusal
  <2>3. req[r].op = "consent" /\ Fresh("code", t)
    BY <1>2, <2>1 DEF ConsentError
  <2>4. ~Live(consents, clock, req[r].d)
    BY <1>0, <2>1, <2>2, <2>3, DecisionRefused
  <2>5. c = <<"consent", req[r].d>>
    BY <1>0, <2>3, PresentedPair
  <2> QED BY <1>u, <2>4, <2>5, WorthwhileIsLive DEF storeVars
<1>3. CASE ExchangeError(r)
  <2>1. PICK t \in RefreshTokens, family \in Families :
          /\ Fresh("refresh", t)
          /\ AnswerError(r, mapStoreError(CommitCodeExchangeAnswer(req[r].d, t,
                                            FirstGrant(req[r].read, family))))
    BY <1>3, <1>i DEF ExchangeError
  <2>2. CommitCodeExchangeAnswer(req[r].d, t, FirstGrant(req[r].read, family)) \in Refusals
    BY <2>1, ErrorIsRefusal
  <2>3. req[r].op = "exchange"
    BY <1>3 DEF ExchangeError
  <2>4. ~Live(codes, clock, req[r].d)
    BY <1>0, <2>1, <2>2, <2>3, ExchangeRefusedIsDead
  <2>5. c = <<"code", req[r].d>>
    BY <1>0, <2>3, PresentedPair
  <2> QED BY <1>u, <2>4, <2>5, WorthwhileIsLive DEF storeVars
<1>4. CASE RefreshError(r)
  <2> DEFINE answer(t) == CommitRefreshRotationAnswer(req[r].d, req[r].read.family,
                             req[r].read.generation, t, Successor(req[r].read, Scopes))
  <2>1. PICK t \in RefreshTokens :
          /\ ~req[r].read.consumed /\ Fresh("refresh", t)
          /\ answer(t) \notin {"ok", "revoked"} /\ AnswerError(r, mapStoreError(answer(t)))
    BY <1>4, <1>i DEF RefreshError
  <2> HIDE DEF answer
  <2>2. answer(t) \in Refusals \ {"revoked"}
    BY <2>1, ErrorIsRefusal
  <2>3. req[r].op = "refresh"
    BY <1>4 DEF RefreshError
  <2>4. ~Live(grants, clock, req[r].d)
    BY <1>0, <2>1, <2>2, <2>3, RotationRefused DEF answer
  <2>5. c = <<"refresh", req[r].d>>
    BY <1>0, <2>3, PresentedPair
  <2> QED BY <1>u, <2>4, <2>5, WorthwhileIsLive DEF storeVars
<1> QED BY <1>1, <1>2, <1>3, <1>4

-----------------------------------------------------------------------------
LEMMA RefusalInvHolds == HTTPSpec => []RefusalInv
<1>1. HTTPInit => RegisteredInv /\ ReadInv /\ CurrentInv
  BY DEF HTTPInit, Init, StoreInit, EmptyTable, RegisteredInv, SlotKnown, Idle, NoCall,
         RedirectsAreRegistered, ReadInv, SlotAsRead, CurrentInv
<1>2. HTTPInv /\ RegisteredInv /\ [HTTPNext]_httpVars => RegisteredInv'
  BY NextRegistered
<1>3. HTTPInv /\ ReadInv /\ [HTTPNext]_httpVars => ReadInv'
  BY NextRead
<1>4. HTTPInv /\ RegisteredInv /\ CurrentInv /\ [HTTPNext]_httpVars => CurrentInv'
  BY NextCurrent
<1>5. HTTPInv /\ ReliableInv /\ RegisteredInv /\ ReadInv /\ CurrentInv => RefusalInv
  BY DEF RefusalInv
<1> QED BY <1>1, <1>2, <1>3, <1>4, <1>5, ReliableInvHolds, PTL DEF HTTPSpec

\* A client or a browser that presents a credential with its binding and is
\* answered invalid_grant, by any handler, gives up nothing that it could
\* still have used, whatever other requests, crashes, evictions and prunings
\* happened in between, for every configuration and number of requests and
\* credentials.  The reasons for which the code does answer invalid_grant
\* about a good credential are excepted: a failing read, a failing lookup of
\* the resource, a decision that was overdue; and the clock has whole seconds.
THEOREM InvalidGrantMeansDeadCorrect ==
    ASSUME TicksPerSecond = 1 PROVE HTTPSpec => InvalidGrantMeansDead
<1> DEFINE Good == \A r \in Requests : call[r].op # "dependency_error" /\ ~Overdue(r) =>
                     \A c \in GivenUp(r) : ~Worthwhile(c)'
<1>1. ASSUME RefusalInv, RefusalInv', [HTTPNext]_httpVars PROVE [Good]_httpVars
  <2>0. /\ Context /\ ReliableInv' /\ HTTPInv /\ ReliableInv /\ HTTPTypeOK /\ PartyInv
    BY <1>1, ContextHolds DEF RefusalInv, HTTPInv
  <2> SUFFICES ASSUME NEW r \in Requests, call[r].op # "dependency_error", ~Overdue(r),
                      NEW c \in held, c \notin held', call'[r] # call[r]
               PROVE  ~Worthwhile(c)'
    BY DEF GivenUp
  <2>1. Serve(r)
    <3>1. ASSUME NEW q \in Requests, Serve(q), q # r PROVE FALSE
      <4>1. PICK k : call' = [call EXCEPT ![q] = k]
        BY <2>0, <3>1, CallStep
      <4> QED BY <2>0, <3>1, <4>1 DEF HTTPTypeOK
    <3>2. CASE Background
      BY <2>0, <3>2, BackgroundStep
    <3> QED BY <1>1, <3>1, <3>2 DEF HTTPNext, Background
  <2>2. c = call[r].credential
    BY <2>0, <2>1, LeavesByAnswer
  <2>3. CASE Commits(r)
    BY <2>0, <2>2, <2>3, CommitKills
  <2>4. CASE \/ CallbackRefused(r) \/ ConsentRefused(r) \/ ExchangeRefused(r)
             \/ RefreshRefused(r) \/ RevokeIgnored(r)
    BY <1>1, <2>2, <2>4, ReadRefuses
  <2>5. CASE CallbackError(r) \/ ConsentError(r) \/ ExchangeError(r) \/ RefreshError(r)
    <3>1. held' # held
      OBVIOUS
    <3> QED BY <1>1, <2>2, <2>5, <3>1, CommitRefuses
  <2>6. ~DependencyError(r)
    BY DEF DependencyError
  <2> QED BY <2>0, <2>1, <2>3, <2>4, <2>5, <2>6, GivenUpBy
<1> QED BY <1>1, RefusalInvHolds, PTL DEF HTTPSpec, InvalidGrantMeansDead
=============================================================================
