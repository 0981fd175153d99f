------------------------- MODULE AuthorizationLedger ------------------------
(***************************************************************************)
(* What the authorization server promises about authority, without tables, *)
(* requests, reads or prunes.  Authority lies with exactly one credential  *)
(* at a time: with the transaction of an authorization request, then with  *)
(* the consent page, the code, and one refresh token after the other.  It  *)
(* moves to a credential that never existed before, it only ever narrows,  *)
(* it ends when its credential lapses, and nothing brings it back.         *)
(***************************************************************************)
EXTENDS Integers, FiniteSets, Functions

CONSTANTS
    Credentials,   \* <<kind, token>>
    Capacity       \* how many credentials of a kind may carry authority

VARIABLES
    now,      \* the time
    issued,   \* the credentials that exist or have existed
    live      \* the authority that each live credential carries

ledgerVars == <<now, issued, live>>

\* An authority names a client, a resource and scopes, the subject that has
\* logged in ({} before), the redirect, state and challenge that a code is
\* still bound to ({} after its exchange), the end of the authorization
\* ({} before the login), and the instant at which its credential lapses.
Follows == [transaction |-> {"consent"}, consent |-> {"code"}, code |-> {"refresh"},
            refresh |-> {"refresh"}]

OfKind(kind) == {c \in DOMAIN live : c[1] = kind}

\* b is what is left of a when its credential is replaced by one of a kind.
Narrows(a, b, kind) ==
    /\ b.client = a.client
    /\ b.resource = a.resource
    /\ b.scopes \subseteq a.scopes
    /\ b.subject # {} /\ a.subject \in {{}, b.subject}
    /\ b.ends # {} /\ a.ends \in {{}, b.ends}
    /\ b.bound = IF kind = "refresh" THEN {} ELSE a.bound

LedgerInit ==
    /\ now = 0
    /\ issued = {}
    /\ live = [c \in {} |-> c]

\* A client asks for authority.  The credential may have lapsed by the time
\* it is stored.
Request(c) ==
    /\ c[1] = "transaction"
    /\ c \notin issued
    /\ issued' = issued \cup {c}
    /\ \/ UNCHANGED live
       \/ /\ Cardinality(OfKind(c[1])) < Capacity[c[1]]
          /\ DOMAIN live' = DOMAIN live \cup {c}
          /\ Restrict(live', DOMAIN live) = live
          /\ live'[c].expires > now
          /\ live'[c].subject = {} /\ live'[c].ends = {}
    /\ UNCHANGED now

\* The authority of c moves to the new credential d.
Move(c, d) ==
    /\ c \in DOMAIN live
    /\ d[1] \in Follows[c[1]]
    /\ d \notin issued
    /\ issued' = issued \cup {d}
    /\ Cardinality(OfKind(d[1]) \ {c}) < Capacity[d[1]]
    /\ DOMAIN live' = (DOMAIN live \ {c}) \cup {d}
    /\ Restrict(live', DOMAIN live \ {c}) = Restrict(live, DOMAIN live \ {c})
    /\ Narrows(live[c], live'[d], d[1])
    /\ live'[d].expires > now
    /\ UNCHANGED now

\* A user denies, or a refresh token is revoked.
Drop(c) ==
    /\ c \in DOMAIN live
    /\ c[1] \in {"consent", "refresh"}
    /\ live' = Restrict(live, DOMAIN live \ {c})
    /\ UNCHANGED <<now, issued>>

\* Time passes, and credentials lapse.
Pass ==
    /\ now' = now + 1
    /\ live' = Restrict(live, {c \in DOMAIN live : live[c].expires > now'})
    /\ UNCHANGED issued

LedgerNext ==
    \/ \E c \in Credentials : Request(c) \/ Drop(c)
    \/ \E c, d \in Credentials : Move(c, d)
    \/ Pass

LedgerSpec == LedgerInit /\ [][LedgerNext]_ledgerVars
=============================================================================
