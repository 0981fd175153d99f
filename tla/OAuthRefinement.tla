--------------------------- MODULE OAuthRefinement --------------------------
(***************************************************************************)
(* OAuthEngine implements AuthorizationLedger: the authority is read off   *)
(* the rows that are neither spent nor revoked nor expired, wherever the   *)
(* requests in flight stand and whatever the prunes have left behind.      *)
(***************************************************************************)
EXTENDS OAuthInvariant

\* The rows of a table that still carry authority.
LiveRows(table) ==
    {d \in DOMAIN table : ~table[d].consumed /\ table[d].expires > clock}

LiveCredentials ==
    ({"transaction"} \X LiveRows(authorizations))
      \cup ({"consent"} \X LiveRows(consents))
      \cup ({"code"} \X LiveRows(codes))
      \cup ({"refresh"} \X {d \in LiveRows(grants) : ~grants[d].revoked})

BoundTo(b) == {<<b.redirect, b.state, b.challenge>>}

AuthorityOfTransaction(row) ==
    [client |-> row.binding.client, resource |-> row.binding.resource,
     scopes |-> row.scopes, subject |-> {}, bound |-> BoundTo(row.binding),
     ends |-> {}, expires |-> row.expires]

AuthorityOfConsent(row) ==
    [client |-> row.binding.client, resource |-> row.binding.resource,
     scopes |-> row.scopes, subject |-> {row.subject}, bound |-> BoundTo(row.binding),
     ends |-> {row.ends}, expires |-> row.expires]

AuthorityOfGrant(row) ==
    [client |-> row.client, resource |-> row.resource, scopes |-> row.scopes,
     subject |-> {row.subject}, bound |-> {}, ends |-> {row.expires},
     expires |-> row.expires]

AuthorityOf(c) ==
    CASE c[1] = "transaction" -> AuthorityOfTransaction(authorizations[c[2]])
      [] c[1] = "consent"     -> AuthorityOfConsent(consents[c[2]])
      [] c[1] = "code"        -> AuthorityOfConsent(codes[c[2]])
      [] c[1] = "refresh"     -> AuthorityOfGrant(grants[c[2]])

CredentialKinds == {"transaction", "consent", "code", "refresh"}

\* The credentials that exist or have existed, and what the live ones carry.
Issued == {c \in minted : c[1] \in CredentialKinds}

Authority == [c \in LiveCredentials |-> AuthorityOf(c)]

Capacities == [transaction |-> MaxAuthorizations, consent |-> MaxConsents,
               code |-> MaxCodes, refresh |-> MaxRefreshGrants]

Ledger == INSTANCE AuthorizationLedger WITH
    Credentials <- {c \in Minted : c[1] \in CredentialKinds},
    Capacity <- Capacities,
    now <- clock,
    issued <- Issued,
    live <- Authority

\* Authority moves like a token through the credentials of a flow: no
\* interleaving of requests, stale read, prune, eviction, failed commit,
\* crash or expiry lets two credentials carry it, widens it, prolongs it,
\* revives it or exceeds a capacity (the whole of engine.go and the commits
\* of sqlitestore/store.go implement AuthorizationLedger).
ImplementsLedger == Ledger!LedgerSpec
=============================================================================
