---------------------------- MODULE HTTPTransport ---------------------------
(***************************************************************************)
(* pkg/httptransport in front of the engine, and the clients and browsers  *)
(* in front of it: which answer every path of a handler writes, and what   *)
(* the party that sent the request then believes about its credential.     *)
(*                                                                         *)
(* A client refreshes with a token in one request at a time, and may send  *)
(* its revocation meanwhile.  It keeps the token on a temporary answer     *)
(* (503), drops it on invalid_grant (400), replaces it on success, and     *)
(* presents it again when no answer arrives.  An answer may be lost; a     *)
(* crash before the commit loses the whole request.  A credential that is  *)
(* presented without its binding (another client id, redirect URI or PKCE  *)
(* verifier) is refused at the read, before any effect, and left out.      *)
(***************************************************************************)
EXTENDS OAuthRequirements, StoreAnswers

VARIABLES
    call,        \* the HTTP request each slot is answering
    held,        \* the credentials that clients and browsers hold
    lost,        \* those of them with an answer that never arrived
    told,        \* history: refresh tokens reported as revoked to their holder
    registered   \* history: <<client, redirect URI>> of every registration

partyVars == <<held, lost, told, registered>>
httpVars == <<vars, call, partyVars>>

-----------------------------------------------------------------------------
(* Requests.  A credential is <<kind, digest>>.                            *)

Kind == [login |-> "transaction", consent |-> "consent", exchange |-> "code",
         refresh |-> "refresh", revoke |-> "refresh"]

Credential == Minted

NoCall == [op |-> "none"]

Call == {NoCall} \cup [op : {"register"}]
        \cup [op : {"begin", "begin_error", "redirect"}, client : ClientIDs,
              redirect : RedirectURIs]
        \cup [op : DOMAIN Kind \cup {"dependency_error"}, credential : Credential]

HTTPTypeOK ==
    /\ TypeOK
    /\ call \in [Requests -> Call]
    /\ held \subseteq Credential
    /\ lost \subseteq held
    /\ told \subseteq Credential
    /\ registered \subseteq ClientIDs \X RedirectURIs

HTTPInit ==
    /\ Init
    /\ call = [r \in Requests |-> NoCall]
    /\ held = {}
    /\ lost = {}
    /\ told = {}
    /\ registered = {}

\* The operations that spend the credential they are given.
Spending == {"login", "consent", "exchange", "refresh", "dependency_error"}

Presents(r, credential) == call[r].op \in Spending /\ call[r].credential = credential

ReceiveCredential(r, op) ==
    \E c \in held :
        /\ c[1] = Kind[op]
        /\ op = "refresh" => \A q \in Requests : ~Presents(q, c)
        /\ call' = [call EXCEPT ![r] = [op |-> op, credential |-> c]]

\* The mux hands a request to a handler, and the handler's parser accepts it.
Receive(r) ==
    /\ call[r] = NoCall
    /\ \/ /\ "register" \in Serves[r]
          /\ call' = [call EXCEPT ![r] = [op |-> "register"]]
       \/ /\ "begin" \in Serves[r]
          /\ \E client \in ClientIDs, redirect \in RedirectURIs :
               call' = [call EXCEPT ![r] = [op |-> "begin", client |-> client,
                                            redirect |-> redirect]]
       \/ \E op \in Serves[r] \cap DOMAIN Kind : ReceiveCredential(r, op)
    /\ UNCHANGED <<vars, partyVars>>

-----------------------------------------------------------------------------
(* Answers.                                                                *)

Done(r) == call' = [call EXCEPT ![r] = NoCall]

\* The caller is left with what it had: a temporary answer (503), an answer
\* about the form of the request, a page.
AnswerNothing(r) ==
    /\ Done(r)
    /\ UNCHANGED partyVars

\* The caller gets the gained credentials for the one it presented, if the
\* answer arrives.
Exchanged(r, gained) ==
    LET c == call[r].credential
    IN  \/ /\ held' = (held \ {c}) \cup gained
           /\ lost' = lost \ {c}
        \/ /\ lost' = lost \cup ({c} \cap held)
           /\ UNCHANGED held

AnswerSuccess(r, gained) ==
    /\ Done(r)
    /\ Exchanged(r, gained)
    /\ UNCHANGED <<told, registered>>

\* invalid_grant: the caller, if it hears it, gives the credential up.
AnswerInvalidGrant(r) ==
    /\ Done(r)
    /\ Exchanged(r, {})
    /\ UNCHANGED <<told, registered>>

\* Mutant: every error of the store is the caller's.
mapEveryStoreError(error) == "invalid_grant"

\* writeOAuthError of mapStoreError: refusals are the caller's, everything
\* else is the server's.
mapStoreError(error) ==
    IF error \in Refusals THEN "invalid_grant" ELSE "temporary"

AnswerError(r, answer) ==
    \/ answer = "invalid_grant" /\ AnswerInvalidGrant(r)
    \/ answer = "temporary" /\ AnswerNothing(r)

Serving(r, op) == call[r].op = op /\ req[r] = Idle

Unanswered == UNCHANGED <<call, partyVars>>

\* The credential gained by a step is the successor its lineage names.
Gained(kind) == {<<kind, link[3]>> : link \in lineage' \ lineage}

\* A handler refuses the form of a request before it calls the engine: the
\* method, the media type, the size, a repeated parameter, the decision, the
\* grant type; or BeginAuthorization, RegisterClient or the identity callback
\* refuse an input.
RejectForm(r) ==
    /\ call[r].op \notin {"none", "begin_error", "dependency_error", "redirect"}
    /\ req[r] = Idle
    /\ AnswerNothing(r)
    /\ UNCHANGED vars

\* The answer is a redirect of the browser, which then leaves.
SendRedirect(r, client, redirect) ==
    call' = [call EXCEPT ![r] = [op |-> "redirect", client |-> client, redirect |-> redirect]]

Redirect(r) ==
    /\ call[r].op = "redirect"
    /\ AnswerNothing(r)
    /\ UNCHANGED vars

\* A read of the store fails with an I/O error in CompleteLogin, ConsentView,
\* DecideConsent, ExchangeCode or Refresh.
ReadFails(r) ==
    /\ call[r].op \in {"login", "consent", "exchange", "refresh"}
    /\ \/ req[r] = Idle /\ UNCHANGED vars
       \/ req[r].op = "login_client" /\ Fail(r)
    /\ call' = [call EXCEPT ![r].op = "dependency_error"]
    /\ UNCHANGED partyVars

\* Mutant: the error goes to the requested redirect URI unchecked.
ValidateAnyRedirect(client, redirect) == TRUE

\* ValidateRedirect, a read of the client of its own.
ValidateRedirect(client, redirect) ==
    \E row \in GetClient(client) : redirect \in row.redirects

\* LookupResource of the injected registry fails in CompleteLogin, ConsentView
\* or Refresh, for a row that has passed every check.
LookupFails(r) ==
    /\ \/ /\ call[r].op = "login"
          /\ req[r].op = "login_client"
          /\ ValidateRedirect(req[r].binding.client, req[r].binding.redirect)
          /\ Fail(r)
       \/ /\ Serving(r, "consent")
          /\ \E consent \in GetConsent(call[r].credential[2]) : ~(clock > consent.expires)
          /\ UNCHANGED vars
       \/ /\ call[r].op = "refresh"
          /\ req[r].op = "refresh"
          /\ ~req[r].read.consumed
          /\ Fail(r)
    /\ call' = [call EXCEPT ![r].op = "dependency_error"]
    /\ UNCHANGED partyVars

\* Either error is answered like a credential that does not exist.
DependencyError(r) ==
    /\ call[r].op = "dependency_error"
    /\ AnswerInvalidGrant(r)
    /\ UNCHANGED vars

-----------------------------------------------------------------------------
(* POST /oauth/register                                                    *)

Register(r) ==
    /\ Serving(r, "register")
    /\ RegisterStart(r)
    /\ Unanswered

RegisterAnswer(r) ==
    /\ call[r].op = "register"
    /\ RegisterCommit(r)
    /\ registered' = registered \cup UNION {{id} \X clients'[id].redirects :
                                            id \in DOMAIN clients' \ DOMAIN clients}
    /\ Done(r)
    /\ UNCHANGED <<held, lost, told>>

RegisterError(r) ==
    /\ call[r].op = "register"
    /\ Fail(r)
    /\ AnswerNothing(r)

-----------------------------------------------------------------------------
(* GET /oauth/authorize                                                    *)

Authorize(r) ==
    /\ Serving(r, "begin")
    /\ BeginGetClient(r)
    /\ req'[r].binding.client = call[r].client
    /\ req'[r].binding.redirect = call[r].redirect
    /\ Unanswered

AuthorizeTouch(r) ==
    /\ call[r].op = "begin"
    /\ BeginTouchClient(r)
    /\ Unanswered

\* The authorization is stored and its transaction goes to the login page,
\* or the login is unavailable: the row stays and nobody holds its token.
AuthorizeAnswer(r) ==
    /\ call[r].op = "begin"
    /\ BeginCreateAuthorization(r)
    /\ \/ /\ held' = held \cup {c \in minted' \ minted : c[1] = "transaction"}
          /\ Done(r)
       \/ /\ call' = [call EXCEPT ![r].op = "begin_error"]
          /\ UNCHANGED held
    /\ UNCHANGED <<lost, told, registered>>

\* BeginAuthorization fails, on its input or on a store call.
AuthorizeFails(r) ==
    /\ call[r].op = "begin"
    /\ Fail(r) \/ (req[r] = Idle /\ UNCHANGED vars)
    /\ call' = [call EXCEPT ![r].op = "begin_error"]
    /\ UNCHANGED partyVars

\* The error goes back to the client by redirect if the redirect URI is
\* registered now; else, or if the read fails, it is written to the browser.
AuthorizeError(r) ==
    /\ call[r].op = "begin_error"
    /\ \/ /\ ValidateRedirect(call[r].client, call[r].redirect)
          /\ SendRedirect(r, call[r].client, call[r].redirect)
       \/ Done(r)
    /\ UNCHANGED <<vars, partyVars>>

-----------------------------------------------------------------------------
(* The identity callback: CompleteLogin                                    *)

Callback(r) ==
    /\ Serving(r, "login")
    /\ LoginGetAuthorization(r)
    /\ req'[r].d = call[r].credential[2]
    /\ Unanswered

CallbackClient(r) ==
    /\ call[r].op = "login"
    /\ LoginGetClient(r)
    /\ Unanswered

CallbackAnswer(r) ==
    /\ call[r].op = "login"
    /\ LoginCommit(r)
    /\ AnswerSuccess(r, Gained("consent"))

\* GetAuthorization or GetClient refuse.
CallbackRefused(r) ==
    /\ call[r].op = "login"
    /\ \/ /\ req[r] = Idle
          /\ \A auth \in GetAuthorization(call[r].credential[2]) : clock > auth.expires
          /\ UNCHANGED vars
       \/ /\ req[r].op = "login_client"
          /\ ~ValidateRedirect(req[r].binding.client, req[r].binding.redirect)
          /\ Fail(r)
    /\ AnswerInvalidGrant(r)

ProposedConsent(r, now) ==
    [binding |-> req[r].binding, subject |-> req[r].subject, scopes |-> req[r].scopes,
     ends |-> now + RefreshTTL, expires |-> now + ConsentTTL, consumed |-> FALSE]

CallbackError(r) ==
    /\ call[r].op = "login"
    /\ req[r].op = "login_commit"
    /\ \/ \E t \in ConsentTokens, now \in req[r].at .. clock :
            LET error == CommitLoginAnswer(req[r].d, t, ProposedConsent(r, now))
            IN  /\ Fresh("consent", t)
                /\ error # "ok"
                /\ AnswerError(r, mapStoreError(error))
       \/ AnswerError(r, mapStoreError("io"))
    /\ Fail(r)

-----------------------------------------------------------------------------
(* GET and POST /oauth/consent: ConsentView, DecideConsent                 *)

\* The page is shown for any stored consent that has not expired.
ConsentPage(r) ==
    /\ Serving(r, "consent")
    /\ \E consent \in GetConsent(call[r].credential[2]) : ~(clock > consent.expires)
    /\ AnswerNothing(r)
    /\ UNCHANGED vars

ConsentPost(r) ==
    /\ Serving(r, "consent")
    /\ ConsentGet(r)
    /\ req'[r].d = call[r].credential[2]
    /\ Unanswered

\* Mutant: the redirect of a denial carries a code parameter too.
ConsentAnswerDenialWithCode(r) ==
    /\ call[r].op = "consent"
    /\ ConsentApprove(r) \/ ConsentDeny(r)
    /\ SendRedirect(r, req[r].read.binding.client, req[r].read.binding.redirect)
    /\ Exchanged(r, Gained("code"))
    /\ UNCHANGED <<told, registered>>

\* The decision redirects the browser to the redirect URI of the consent, with
\* the code or with access_denied.
ConsentAnswer(r) ==
    /\ call[r].op = "consent"
    /\ ConsentApprove(r) \/ ConsentDeny(r)
    /\ SendRedirect(r, req[r].read.binding.client, req[r].read.binding.redirect)
    /\ Exchanged(r, {c \in minted' \ minted : c[1] = "code"})
    /\ UNCHANGED <<told, registered>>

\* GetConsent refuses.
ConsentRefused(r) ==
    /\ Serving(r, "consent")
    /\ \A consent \in GetConsent(call[r].credential[2]) : clock > consent.expires
    /\ UNCHANGED vars
    /\ AnswerInvalidGrant(r)

ProposedCode(r, now) ==
    [req[r].read EXCEPT !.expires = now + CodeTTL, !.consumed = FALSE]

ConsentError(r) ==
    /\ call[r].op = "consent"
    /\ req[r].op = "consent"
    /\ \/ \E t \in Codes, now \in req[r].at .. clock :
          \E error \in {CommitApprovalAnswer(req[r].d, t, ProposedCode(r, now)),
                        CommitDenialAnswer(req[r].d)} :
            /\ Fresh("code", t)
            /\ error # "ok"
            /\ AnswerError(r, mapStoreError(error))
       \/ AnswerError(r, mapStoreError("io"))
    /\ Fail(r)

-----------------------------------------------------------------------------
(* POST /oauth/token with grant_type authorization_code: ExchangeCode      *)

TokenExchange(r) ==
    /\ Serving(r, "exchange")
    /\ ExchangeGetCode(r)
    /\ req'[r].d = call[r].credential[2]
    /\ Unanswered

ExchangeAnswer(r) ==
    /\ call[r].op = "exchange"
    /\ ExchangeCommit(r)
    /\ AnswerSuccess(r, Gained("refresh"))

\* GetCodeForExchange finds no row, or the code has expired.
ExchangeRefused(r) ==
    /\ Serving(r, "exchange")
    /\ \A code \in Found(codes, call[r].credential[2]) : clock > code.expires
    /\ UNCHANGED vars
    /\ AnswerInvalidGrant(r)

FirstGrant(code, family) ==
    [family |-> family, generation |-> 0, client |-> code.binding.client,
     subject |-> code.subject, resource |-> code.binding.resource,
     scopes |-> code.scopes, expires |-> code.ends,
     consumed |-> FALSE, revoked |-> FALSE]

ExchangeError(r) ==
    /\ call[r].op = "exchange"
    /\ req[r].op = "exchange"
    /\ \/ \E t \in RefreshTokens, family \in Families :
            LET error == CommitCodeExchangeAnswer(req[r].d, t, FirstGrant(req[r].read, family))
            IN  /\ Fresh("refresh", t) /\ Fresh("family", family)
                /\ error # "ok"
                /\ AnswerError(r, mapStoreError(error))
       \/ AnswerError(r, mapStoreError("io"))
    /\ Fail(r)

-----------------------------------------------------------------------------
(* POST /oauth/token with grant_type refresh_token: Refresh                *)

TokenRefresh(r) ==
    /\ Serving(r, "refresh")
    /\ RefreshGetGrant(r)
    /\ req'[r].d = call[r].credential[2]
    /\ Unanswered

\* Mutant: the rotation is committed before the access token is signed, and
\* the signer may still fail.
RefreshAnswerSignedLate(r) ==
    /\ call[r].op = "refresh"
    /\ RefreshRotate(r)
    /\ \/ AnswerSuccess(r, Gained("refresh"))
       \/ AnswerNothing(r)

RefreshAnswer(r) ==
    /\ call[r].op = "refresh"
    /\ RefreshRotate(r)
    /\ AnswerSuccess(r, Gained("refresh"))

\* A replay, an ineligible subject, a lost race or the generation limit: the
\* family is revoked and the caller is told invalid_grant.
RefreshRevokes(r) ==
    /\ call[r].op = "refresh"
    /\ RefreshRevokeFamily(r) \/ RefreshLosesRace(r) \/ RefreshReachesLimit(r)
    /\ AnswerInvalidGrant(r)

\* GetRefreshGrant finds no row, or the grant is revoked or expired.
RefreshRefused(r) ==
    /\ Serving(r, "refresh")
    /\ \A grant \in GetRefreshGrant(call[r].credential[2]) :
          grant.revoked \/ clock > grant.expires
    /\ UNCHANGED vars
    /\ AnswerInvalidGrant(r)

\* The revocation of the family, the revalidation, the scope policy, the
\* signer or the secret source fails, or the rotation is refused.
RefreshError(r) ==
    /\ call[r].op = "refresh"
    /\ req[r].op = "refresh"
    /\ \/ \E t \in RefreshTokens :
            LET error == CommitRefreshRotationAnswer(req[r].d, req[r].read.family,
                            req[r].read.generation, t, Successor(req[r].read, Scopes))
            IN  /\ ~req[r].read.consumed
                /\ Fresh("refresh", t)
                /\ error \notin {"ok", "revoked"}
                /\ AnswerError(r, mapStoreError(error))
       \/ AnswerError(r, mapStoreError("io"))
    /\ Fail(r)

-----------------------------------------------------------------------------
(* POST /oauth/revoke: Revoke                                              *)

AnswerRevoked(r) ==
    /\ told' = told \cup {call[r].credential}
    /\ Done(r)
    /\ Exchanged(r, {})
    /\ UNCHANGED registered

TokenRevoke(r) ==
    /\ Serving(r, "revoke")
    /\ RevokeGetGrant(r)
    /\ \E grant \in GetRefreshGrant(call[r].credential[2]) : req'[r].family = grant.family
    /\ Unanswered

RevokeAnswer(r) ==
    /\ call[r].op = "revoke"
    /\ RevokeCommit(r)
    /\ AnswerRevoked(r)

\* An unknown token is answered with success.
RevokeIgnored(r) ==
    /\ Serving(r, "revoke")
    /\ GetRefreshGrant(call[r].credential[2]) = {}
    /\ UNCHANGED vars
    /\ AnswerRevoked(r)

\* Mutant: the error of the store is dropped.
RevokeErrorIgnored(r) ==
    /\ call[r].op = "revoke"
    /\ Fail(r) \/ (req[r] = Idle /\ UNCHANGED vars)
    /\ AnswerRevoked(r)

\* The read or the revocation fails: 503.
RevokeError(r) ==
    /\ call[r].op = "revoke"
    /\ Fail(r) \/ (req[r] = Idle /\ UNCHANGED vars)
    /\ AnswerNothing(r)

-----------------------------------------------------------------------------
\* The process dies: the requests in flight are never answered.
HTTPCrash ==
    /\ Crash
    /\ call' = [r \in Requests |-> NoCall]
    /\ UNCHANGED partyVars

Environment ==
    /\ HostPrune \/ Tick
    /\ Unanswered

Serve(r) ==
    \/ Receive(r) \/ RejectForm(r) \/ Redirect(r)
    \/ ReadFails(r) \/ LookupFails(r) \/ DependencyError(r)
    \/ Register(r) \/ RegisterAnswer(r) \/ RegisterError(r)
    \/ Authorize(r) \/ AuthorizeTouch(r) \/ AuthorizeAnswer(r) \/ AuthorizeFails(r)
    \/ AuthorizeError(r)
    \/ Callback(r) \/ CallbackClient(r) \/ CallbackAnswer(r) \/ CallbackRefused(r)
    \/ CallbackError(r)
    \/ ConsentPage(r) \/ ConsentPost(r) \/ ConsentAnswer(r) \/ ConsentRefused(r)
    \/ ConsentError(r)
    \/ TokenExchange(r) \/ ExchangeAnswer(r) \/ ExchangeRefused(r) \/ ExchangeError(r)
    \/ TokenRefresh(r) \/ RefreshAnswer(r) \/ RefreshRevokes(r) \/ RefreshRefused(r)
    \/ RefreshError(r)
    \/ TokenRevoke(r) \/ RevokeAnswer(r) \/ RevokeIgnored(r) \/ RevokeError(r)

HTTPNext == (\E r \in Requests : Serve(r)) \/ HTTPCrash \/ Environment

HTTPSpec == HTTPInit /\ [][HTTPNext]_httpVars

-----------------------------------------------------------------------------
(* What the parties can rely on.                                           *)

Table == [transaction |-> authorizations, consent |-> consents, code |-> codes,
          refresh |-> grants]

Usable(c) ==
    /\ c[2] \in DOMAIN Table[c[1]]
    /\ Table[c[1]][c[2]].expires > clock
    /\ ~Table[c[1]][c[2]].consumed
    /\ c[1] = "refresh" => ~grants[c[2]].revoked

\* The credentials that a step of slot r makes its holder give up.
GivenUp(r) == {c \in held \ held' : call'[r] # call[r]}

\* An authorization can be completed while its client is registered.
Worthwhile(c) ==
    /\ Usable(c)
    /\ c[1] = "transaction" => authorizations[c[2]].binding.client \in DOMAIN clients

\* A decision that has waited for its commit as long as a code lives.  The
\* code it proposes may be expired by then, which CommitConsent answers like
\* a wrong binding although the consent is good.
Overdue(r) == req[r].op = "consent" /\ req[r].at + CodeTTL =< clock

\* A holder that presents a credential with its binding and is refused
\* with invalid_grant loses nothing by giving the credential up: it is spent,
\* revoked, expired or gone, whatever raced it and whatever was committed,
\* evicted, pruned or restarted on the way (mapStoreError, the checks of
\* CompleteLogin, ConsentView, DecideConsent, ExchangeCode and Refresh).
\* The code has three other reasons for the answer, and they are excepted
\* here: a read of the store failed, a lookup of the resource failed
\* (both in TemporaryFailureKeepsAuthority), or a decision was overdue.
InvalidGrantMeansDead ==
    [][\A r \in Requests : call[r].op # "dependency_error" /\ ~Overdue(r) =>
         \A c \in GivenUp(r) : ~Worthwhile(c)']_httpVars

\* "a temporary dependency failure issues no authority and destroys no
\* retryable authority": nobody gives up a usable credential because a read
\* of the store or a lookup of the resource registry failed in CompleteLogin,
\* ConsentView, DecideConsent, ExchangeCode or Refresh.
TemporaryFailureKeepsAuthority ==
    [][\A r \in Requests : call[r].op = "dependency_error" =>
         \A c \in GivenUp(r) : ~Worthwhile(c)']_httpVars

\* A client that was told that its refresh token is revoked can rely on it:
\* no grant of that family is usable, then or later, whatever rotation was in
\* flight (POST /oauth/revoke answers 200 only after the store has committed).
RevocationIsFinal ==
    \A c \in told : c[2] \in DOMAIN grants =>
        \A e \in DOMAIN grants : SameFamily(c[2], e) => grants[e].revoked

\* No failure takes a credential from its holder: as long as every answer
\* about it has arrived, the credential that a client or a browser holds can
\* be used until it expires, whatever requests about it are in flight and
\* whatever temporary errors, crashes and refusals happened in between (the
\* commit is the last step of every operation).
HeldIsUsable ==
    \A c \in held \ lost :
        \/ c[2] \notin DOMAIN Table[c[1]]
        \/ Table[c[1]][c[2]].expires =< clock
        \/ c[1] = "refresh" /\ \E d \in told : d[2] \in DOMAIN grants /\ SameFamily(c[2], d[2])
        \/ Usable(c)

\* Browsers are only ever redirected to a URI that the client registered,
\* also when the request named another one, when the client is evicted
\* between the failure and the lookup, and when it is gone at the decision
\* (ValidateRedirect, redirectResult).
RedirectsAreRegistered ==
    \A r \in Requests : call[r].op = "redirect" =>
        <<call[r].client, call[r].redirect>> \in registered
=============================================================================
