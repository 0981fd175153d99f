------------------------------- MODULE MCHTTP -------------------------------
(***************************************************************************)
(* Instances of HTTPTransport for TLC.                                     *)
(***************************************************************************)
EXTENDS HTTPTransport, TLC

CONSTANTS r1, r2

\* Every resource supports every scope.
AllScopes == [resource \in Resources |-> Scopes]

\* One slot drives the flow up to the refreshes; the other one registers
\* clients, which evicts idle ones, and handles revocations.
ServeHTTP ==
    [r \in Requests |-> IF r = r1 THEN Operations \ {"register", "revoke"}
                                  ELSE {"register", "revoke"}]

\* Credentials, clients and redirect URIs are interchangeable.
CredentialSymmetry ==
    Permutations(Transactions) \cup Permutations(ConsentTokens)
      \cup Permutations(Codes) \cup Permutations(RefreshTokens)
      \cup Permutations(Families) \cup Permutations(ClientIDs)
      \cup Permutations(RedirectURIs)
=============================================================================
