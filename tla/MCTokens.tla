------------------------------ MODULE MCTokens ------------------------------
(***************************************************************************)
(* An instance of JwtTokens for TLC.                                       *)
(***************************************************************************)
EXTENDS JwtTokens, TLC

\* Ids, keys, resource servers and resources are interchangeable.
TokenSymmetry ==
    Permutations(KeyIDs) \cup Permutations(ServiceKeys) \cup Permutations(Verifiers)
      \cup Permutations(ResourceIDs)
=============================================================================
