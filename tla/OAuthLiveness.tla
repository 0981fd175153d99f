---------------------------- MODULE OAuthLiveness ---------------------------
(***************************************************************************)
(* What must eventually happen.  The only fairness is that time passes: no *)
(* request has to make progress, and the host need never call Prune.       *)
(***************************************************************************)
EXTENDS OAuthEngine

FairSpec == Spec /\ WF_vars(Tick)

\* A table refuses new rows: admission counts what the prune in front of it
\* leaves.
AuthorizationsFull == Cardinality(DOMAIN PruneRows(authorizations)) >= MaxAuthorizations
ConsentsFull == Cardinality(DOMAIN PruneRows(consents)) >= MaxConsents
CodesFull == Cardinality(DOMAIN PruneRows(codes)) >= MaxCodes
GrantsFull == Cardinality(Active(PruneFamilies(grants))) >= MaxRefreshGrants

Expiries(table) == {table[d].expires : d \in DOMAIN table}

\* While a table refuses new rows, the instants at which its rows expire only
\* become fewer: no request in flight slips in, a rotation, which is not
\* counted at admission, ends with its family, and the time by which the
\* table admits again does not move (CreateAuthorization, CommitLogin,
\* CommitConsent, CommitCodeExchange, CommitRefreshRotation).
FullTablesDrain ==
    [][/\ AuthorizationsFull => Expiries(authorizations') \subseteq Expiries(authorizations)
       /\ ConsentsFull => Expiries(consents') \subseteq Expiries(consents)
       /\ CodesFull => Expiries(codes') \subseteq Expiries(codes)
       /\ GrantsFull => Expiries(grants') \subseteq Expiries(grants)]_vars

\* A full table admits again as time passes, although nobody calls Prune and
\* every request may fail: no row, no family that its client keeps rotating
\* and no request in flight holds its place for longer than the lifetime of
\* the table (the prunes in CreateAuthorization, CommitLogin, CommitConsent
\* and CommitCodeExchange, and the fixed end of a family).
AdmissionRecovers ==
    /\ (AuthorizationsFull /\ clock + TransactionTTL =< MaxClock) ~> ~AuthorizationsFull
    /\ (ConsentsFull /\ clock + ConsentTTL =< MaxClock) ~> ~ConsentsFull
    /\ (CodesFull /\ clock + CodeTTL =< MaxClock) ~> ~CodesFull
    /\ (GrantsFull /\ clock + RefreshTTL =< MaxClock) ~> ~GrantsFull
=============================================================================
