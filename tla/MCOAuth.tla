------------------------------- MODULE MCOAuth ------------------------------
(***************************************************************************)
(* Instances of OAuthEngine for TLC.                                       *)
(***************************************************************************)
EXTENDS OAuthRefinement, OAuthLiveness, Sequences, TLC

CONSTANTS r1, r2

\* Every resource supports every scope.
AllScopes == [resource \in Resources |-> Scopes]

\* Both slots serve everything.
ServeAll == [r \in Requests |-> Operations]

\* Two slots race over refresh grants; one of them also drives the flow
\* that leads to them.
ServeRefreshRace ==
    [r \in Requests |-> IF r = r1 THEN Operations
                                  ELSE {"refresh", "revoke", "register"}]

\* Two slots race over logins, consents and codes.
ServeFlowRace ==
    [r \in Requests |-> IF r = r1 THEN Operations
                                  ELSE {"register", "login", "consent", "exchange"}]

\* Credentials are interchangeable.
CredentialSymmetry ==
    Permutations(Transactions) \cup Permutations(ConsentTokens)
      \cup Permutations(Codes) \cup Permutations(RefreshTokens)
      \cup Permutations(Families) \cup Permutations(ClientIDs)

-----------------------------------------------------------------------------
(* The order of the fractions against the order of their texts, character  *)
(* by character: '.' is -1, a digit its value, 'Z' ten.                    *)

Digit(f, i) == (f \div 10^(9 - i)) % 10

FractionText(f) ==
    LET last == {i \in 1 .. 9 : Digit(f, i) # 0 /\ \A j \in i + 1 .. 9 : Digit(f, j) = 0}
    IN  IF f = 0 THEN <<10>>
        ELSE <<-1>> \o [i \in 1 .. (CHOOSE n \in last : TRUE) |-> Digit(f, i)] \o <<10>>

SortsAfter(a, b) ==
    \E i \in DOMAIN a \cap DOMAIN b :
        a[i] > b[i] /\ \A j \in 1 .. i - 1 : a[j] = b[j]

\* Every fraction of two digits, and some of nine.
SampleFractions ==
    {10000000 * k : k \in 0 .. 99} \cup {1, 99999999, 500000001, 510000007, 999999999}

ASSUME FractionsSortLikeTexts ==
    \A f, g \in SampleFractions :
        FractionAfter(f, g) <=> SortsAfter(FractionText(f), FractionText(g))
=============================================================================
