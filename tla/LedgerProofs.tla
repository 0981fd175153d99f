---------------------------- MODULE LedgerProofs ----------------------------
(***************************************************************************)
(* OAuthEngine implements AuthorizationLedger on a clock of whole seconds: *)
(* every step of the engine moves, ends or leaves the authority as the     *)
(* ledger allows, for any number of requests, clients and credentials.     *)
(***************************************************************************)
EXTENDS OAuthRefinement, ProtectionProofs

-----------------------------------------------------------------------------
(* What carries authority                                                  *)

UsableRows(T) == {d \in LiveRows(T) : ~T[d].revoked}

\* The credentials that carry authority, by kind.
LEMMA LiveAre ==
    /\ LiveCredentials = {c \in LiveCredentials : c[1] \in CredentialKinds}
    /\ \A c \in LiveCredentials : c = <<c[1], c[2]>>
    /\ \A d : /\ <<"transaction", d>> \in LiveCredentials <=> d \in LiveRows(authorizations)
              /\ <<"consent", d>> \in LiveCredentials <=> d \in LiveRows(consents)
              /\ <<"code", d>> \in LiveCredentials <=> d \in LiveRows(codes)
              /\ <<"refresh", d>> \in LiveCredentials <=> d \in UsableRows(grants)
BY DEF LiveCredentials, CredentialKinds, UsableRows

\* Pruning takes no row that carries authority.
LEMMA PruneKeepsLive ==
    ASSUME TicksPerSecond = 1, clock \in Int, NEW T, \A d \in DOMAIN T : T[d].expires \in Int
    PROVE  /\ LiveRows(PruneRows(T)) = LiveRows(T)
           /\ \A d \in LiveRows(T) : d \in DOMAIN PruneRows(T) /\ PruneRows(T)[d] = T[d]
<1>1. \A d \in DOMAIN T : TextAfter(T[d].expires, clock) <=> T[d].expires > clock
  BY WholeSeconds
<1>2. /\ DOMAIN PruneRows(T) = {d \in DOMAIN T : T[d].expires > clock}
      /\ \A d \in DOMAIN PruneRows(T) : PruneRows(T)[d] = T[d]
  BY <1>1 DEF PruneRows, Restrict
<1> QED BY <1>2 DEF LiveRows

LEMMA PruneKeepsUsable ==
    ASSUME TicksPerSecond = 1, clock \in Int, NEW T, \A d \in DOMAIN T : T[d].expires \in Int
    PROVE  /\ UsableRows(PruneFamilies(T)) = UsableRows(T)
           /\ \A d \in UsableRows(T) : d \in DOMAIN PruneFamilies(T) /\ PruneFamilies(T)[d] = T[d]
<1>1. \A d \in DOMAIN T : TextAfter(T[d].expires, clock) <=> T[d].expires > clock
  BY WholeSeconds
<1>2. /\ DOMAIN PruneFamilies(T) \subseteq DOMAIN T
      /\ \A d \in DOMAIN T : T[d].expires > clock => d \in DOMAIN PruneFamilies(T)
      /\ \A d \in DOMAIN PruneFamilies(T) : PruneFamilies(T)[d] = T[d]
  BY <1>1 DEF PruneFamilies, Restrict
<1> QED BY <1>2 DEF LiveRows, UsableRows

LEMMA LedgerStarts == Init => Ledger!LedgerInit
<1> SUFFICES ASSUME Init PROVE Ledger!LedgerInit
  OBVIOUS
<1>1. LiveCredentials = {}
  BY DEF Init, StoreInit, EmptyTable, LiveCredentials, LiveRows
<1>2. clock = 0 /\ minted = {}
  BY DEF Init, StoreInit
<1>3. Authority = [c \in {} |-> c] /\ Issued = {}
  BY <1>1, <1>2 DEF Authority, Issued
<1> QED BY <1>2, <1>3 DEF Ledger!LedgerInit

-----------------------------------------------------------------------------
(* Steps of the ledger, from what happens to the rows                      *)

\* A row that carries authority before and after a step is not changed by it.
SameRows ==
    /\ \A d \in LiveRows(authorizations) :
         d \in LiveRows(authorizations)' => authorizations'[d] = authorizations[d]
    /\ \A d \in LiveRows(consents) :
         d \in LiveRows(consents)' => consents'[d] = consents[d]
    /\ \A d \in LiveRows(codes) : d \in LiveRows(codes)' => codes'[d] = codes[d]
    /\ \A d \in UsableRows(grants) : d \in UsableRows(grants)' => grants'[d] = grants[d]

LEMMA SameAuthority ==
    ASSUME SameRows, NEW c \in LiveCredentials, c \in LiveCredentials'
    PROVE  AuthorityOf(c)' = AuthorityOf(c)
<1> DEFINE d == c[2]
<1>k. c[1] \in CredentialKinds /\ c = <<c[1], d>>
  BY LiveAre
<1>1. CASE c[1] = "transaction"
  <2>1. d \in LiveRows(authorizations) /\ d \in LiveRows(authorizations)'
    BY <1>k, <1>1 DEF LiveCredentials
  <2> QED BY <1>1, <2>1 DEF SameRows, AuthorityOf
<1>2. CASE c[1] = "consent"
  <2>1. d \in LiveRows(consents) /\ d \in LiveRows(consents)'
    BY <1>k, <1>2 DEF LiveCredentials
  <2> QED BY <1>2, <2>1 DEF SameRows, AuthorityOf
<1>3. CASE c[1] = "code"
  <2>1. d \in LiveRows(codes) /\ d \in LiveRows(codes)'
    BY <1>k, <1>3 DEF LiveCredentials
  <2> QED BY <1>3, <2>1 DEF SameRows, AuthorityOf
<1>4. CASE c[1] = "refresh"
  <2>1. d \in UsableRows(grants) /\ d \in UsableRows(grants)'
    BY <1>k, <1>4 DEF LiveCredentials, UsableRows
  <2> QED BY <1>4, <2>1 DEF SameRows, AuthorityOf
<1> QED BY <1>k, <1>1, <1>2, <1>3, <1>4 DEF CredentialKinds

\* Nothing happens to the authority.
LEMMA Stutters ==
    ASSUME SameRows, LiveCredentials' = LiveCredentials, clock' = clock, Issued' = Issued
    PROVE  UNCHANGED Ledger!ledgerVars
<1>1. \A c \in LiveCredentials : AuthorityOf(c)' = AuthorityOf(c)
  BY SameAuthority
<1>2. Authority' = Authority
  BY <1>1 DEF Authority
<1> QED BY <1>2 DEF Ledger!ledgerVars

\* A transaction is stored that has lapsed meanwhile.
LEMMA RequestsLapsed ==
    ASSUME SameRows, clock' = clock, NEW t \in Transactions, <<"transaction", t>> \notin minted,
           Issued' = Issued \cup {<<"transaction", t>>},
           LiveCredentials' = LiveCredentials
    PROVE  Ledger!LedgerNext
<1> DEFINE c == <<"transaction", t>>
<1>1. UNCHANGED Authority
  <2>1. \A x \in LiveCredentials : AuthorityOf(x)' = AuthorityOf(x)
    BY SameAuthority
  <2> QED BY <2>1 DEF Authority
<1>2. c[1] = "transaction" /\ c \in {x \in Minted : x[1] \in CredentialKinds}
  BY DEF Minted, CredentialKinds
<1>3. c \notin Issued
  BY DEF Issued
<1>4. Ledger!Request(c)
  BY <1>1, <1>2, <1>3 DEF Ledger!Request
<1> QED BY <1>2, <1>4 DEF Ledger!LedgerNext

\* The credentials of a kind are counted by their rows.
LEMMA KindCount ==
    ASSUME NEW kind, NEW K, NEW S, NEW n \in Nat, IsFiniteSet(S), Cardinality(S) < n,
           K \subseteq {kind} \X S
    PROVE  Cardinality(K) < n
<1>1. IsFiniteSet({kind}) /\ Cardinality({kind}) = 1
  BY FS_Singleton
<1>2. Cardinality(S) \in Nat
  BY FS_CardinalityType
<1>3. IsFiniteSet({kind} \X S) /\ Cardinality({kind} \X S) = Cardinality({kind}) * Cardinality(S)
  BY <1>1, FS_Product
<1>4. Cardinality({kind} \X S) = Cardinality(S)
  BY <1>1, <1>2, <1>3
<1>5. IsFiniteSet(K) /\ Cardinality(K) =< Cardinality({kind} \X S)
  BY <1>3, FS_Subset
<1>6. Cardinality(K) \in Nat
  BY <1>5, FS_CardinalityType
<1> QED BY <1>2, <1>4, <1>5, <1>6

\* The ledger restricts functions like the model does.
LEMMA SameRestrict == ASSUME NEW f, NEW S PROVE Ledger!Restrict(f, S) = Restrict(f, S)
BY DEF Ledger!Restrict, Restrict

LEMMA SameCardinality == ASSUME NEW S PROVE Ledger!Cardinality(S) = Cardinality(S)
BY DEF Ledger!Cardinality, Cardinality

\* A transaction is stored that carries authority.
LEMMA RequestsLive ==
    ASSUME SameRows, clock' = clock, NEW t \in Transactions, <<"transaction", t>> \notin minted,
           Issued' = Issued \cup {<<"transaction", t>>},
           <<"transaction", t>> \notin LiveCredentials,
           LiveCredentials' = LiveCredentials \cup {<<"transaction", t>>},
           Cardinality({c \in LiveCredentials : c[1] = "transaction"}) < MaxAuthorizations,
           authorizations'[t].expires > clock
    PROVE  Ledger!LedgerNext
<1> DEFINE c == <<"transaction", t>>
<1>1. \A x \in LiveCredentials : AuthorityOf(x)' = AuthorityOf(x)
  BY SameAuthority
<1>2. /\ DOMAIN Authority' = DOMAIN Authority \cup {c}
      /\ Restrict(Authority', DOMAIN Authority) = Authority
  BY <1>1 DEF Authority, Restrict
<1>3. AuthorityOf(c)' = AuthorityOfTransaction(authorizations'[t])
  BY DEF AuthorityOf
<1>4. /\ Authority'[c].expires > clock /\ Authority'[c].subject = {}
      /\ Authority'[c].ends = {}
  BY <1>3 DEF Authority, AuthorityOfTransaction
<1>5. c[1] = "transaction" /\ c \in {x \in Minted : x[1] \in CredentialKinds}
  BY DEF Minted, CredentialKinds
<1>6. c \notin Issued
  BY DEF Issued
<1>7. Cardinality({x \in DOMAIN Authority : x[1] = c[1]}) < Capacities[c[1]]
  BY <1>5 DEF Authority, Capacities
<1>8. Ledger!Request(c)
  BY <1>2, <1>4, <1>5, <1>6, <1>7, SameRestrict, SameCardinality
     DEF Ledger!Request, Ledger!OfKind
<1> QED BY <1>5, <1>8 DEF Ledger!LedgerNext

\* What an authority says that was read off a row.
LEMMA AuthorityFields ==
    ASSUME NEW row
    PROVE  /\ LET a == AuthorityOfTransaction(row)
              IN  /\ a.client = row.binding.client /\ a.resource = row.binding.resource
                  /\ a.scopes = row.scopes /\ a.subject = {} /\ a.ends = {}
                  /\ a.bound = BoundTo(row.binding)
           /\ LET a == AuthorityOfConsent(row)
              IN  /\ a.client = row.binding.client /\ a.resource = row.binding.resource
                  /\ a.scopes = row.scopes /\ a.subject = {row.subject} /\ a.ends = {row.ends}
                  /\ a.bound = BoundTo(row.binding)
           /\ LET a == AuthorityOfGrant(row)
              IN  /\ a.client = row.client /\ a.resource = row.resource
                  /\ a.scopes = row.scopes /\ a.subject = {row.subject}
                  /\ a.ends = {row.expires} /\ a.bound = {}
BY DEF AuthorityOfTransaction, AuthorityOfConsent, AuthorityOfGrant

\* Authority moves from c to the new credential d.
LEMMA Moves ==
    ASSUME SameRows, clock' = clock, NEW c \in LiveCredentials, c \in Minted, NEW d \in Minted,
           d \notin minted, d \notin LiveCredentials,
           \/ c[1] = "transaction" /\ d[1] = "consent"
           \/ c[1] = "consent" /\ d[1] = "code"
           \/ c[1] = "code" /\ d[1] = "refresh"
           \/ c[1] = "refresh" /\ d[1] = "refresh",
           Issued' = Issued \cup {d},
           LiveCredentials' = (LiveCredentials \ {c}) \cup {d},
           Cardinality({x \in LiveCredentials : x[1] = d[1]} \ {c}) < Capacities[d[1]],
           Ledger!Narrows(AuthorityOf(c), AuthorityOf(d)', d[1]),
           AuthorityOf(d)'.expires > clock
    PROVE  Ledger!LedgerNext
<1>1. \A x \in LiveCredentials \ {c} : AuthorityOf(x)' = AuthorityOf(x)
  BY SameAuthority
<1>2. /\ DOMAIN Authority' = (DOMAIN Authority \ {c}) \cup {d}
      /\ Restrict(Authority', DOMAIN Authority \ {c})
           = Restrict(Authority, DOMAIN Authority \ {c})
  BY <1>1 DEF Authority, Restrict
<1>3. Authority[c] = AuthorityOf(c) /\ Authority'[d] = AuthorityOf(d)'
  BY DEF Authority
<1>4. /\ c \in {x \in Minted : x[1] \in CredentialKinds}
      /\ d \in {x \in Minted : x[1] \in CredentialKinds}
  BY DEF CredentialKinds
<1>5. d \notin Issued
  BY DEF Issued
<1>6. d[1] \in Ledger!Follows[c[1]]
  BY DEF Ledger!Follows
<1>7. Cardinality({x \in DOMAIN Authority : x[1] = d[1]} \ {c}) < Capacities[d[1]]
  BY DEF Authority
<1>8. c \in DOMAIN Authority
  BY DEF Authority
<1>9. Ledger!Move(c, d)
  BY <1>2, <1>3, <1>5, <1>6, <1>7, <1>8, SameRestrict, SameCardinality
     DEF Ledger!Move, Ledger!OfKind
<1> QED BY <1>4, <1>9 DEF Ledger!LedgerNext

\* Authority ends with the consent or the refresh token c.
LEMMA Drops ==
    ASSUME SameRows, clock' = clock, NEW c \in LiveCredentials, c \in Minted,
           c[1] \in {"consent", "refresh"}, Issued' = Issued,
           LiveCredentials' = LiveCredentials \ {c}
    PROVE  Ledger!LedgerNext
<1>1. \A x \in LiveCredentials \ {c} : AuthorityOf(x)' = AuthorityOf(x)
  BY SameAuthority
<1>2. Authority' = Restrict(Authority, DOMAIN Authority \ {c}) /\ c \in DOMAIN Authority
  BY <1>1 DEF Authority, Restrict
<1>3. c \in {x \in Minted : x[1] \in CredentialKinds}
  BY DEF CredentialKinds
<1>4. Ledger!Drop(c)
  BY <1>2, SameRestrict DEF Ledger!Drop
<1> QED BY <1>3, <1>4 DEF Ledger!LedgerNext

\* A tick.  Authority of a row that expires at the new time lapses.
LEMMA Passes ==
    ASSUME Tick, clock \in Int,
           \A d \in DOMAIN authorizations : authorizations[d].expires \in Int,
           \A d \in DOMAIN consents : consents[d].expires \in Int,
           \A d \in DOMAIN codes : codes[d].expires \in Int,
           \A d \in DOMAIN grants : grants[d].expires \in Int
    PROVE  Ledger!LedgerNext
<1>1. /\ clock' = clock + 1
      /\ UNCHANGED <<authorizations, consents, codes, grants, minted>>
  BY DEF Tick, storeVars, ghostVars
<1>2. \A c : AuthorityOf(c)' = AuthorityOf(c)
  BY <1>1 DEF AuthorityOf
<1>3. /\ LiveRows(authorizations)' =
           {d \in LiveRows(authorizations) : authorizations[d].expires > clock'}
      /\ LiveRows(consents)' = {d \in LiveRows(consents) : consents[d].expires > clock'}
      /\ LiveRows(codes)' = {d \in LiveRows(codes) : codes[d].expires > clock'}
      /\ UsableRows(grants)' = {d \in UsableRows(grants) : grants[d].expires > clock'}
  BY <1>1 DEF LiveRows, UsableRows
<1>4. ASSUME NEW c PROVE c \in LiveCredentials' <=>
                           c \in LiveCredentials /\ AuthorityOf(c).expires > clock'
  <2>1. /\ c \in LiveCredentials => c[1] \in CredentialKinds /\ c = <<c[1], c[2]>>
        /\ c \in LiveCredentials' => c[1] \in CredentialKinds /\ c = <<c[1], c[2]>>
    BY DEF LiveCredentials, CredentialKinds
  <2>2. ASSUME c[1] \in CredentialKinds, c = <<c[1], c[2]>>
        PROVE  c \in LiveCredentials' <=> c \in LiveCredentials /\ AuthorityOf(c).expires > clock'
    <3>1. CASE c[1] = "transaction"
      BY <1>3, <2>2, <3>1
         DEF LiveCredentials, AuthorityOf, AuthorityOfTransaction
    <3>2. CASE c[1] = "consent"
      BY <1>3, <2>2, <3>2 DEF LiveCredentials, AuthorityOf, AuthorityOfConsent
    <3>3. CASE c[1] = "code"
      BY <1>3, <2>2, <3>3 DEF LiveCredentials, AuthorityOf, AuthorityOfConsent
    <3>4. CASE c[1] = "refresh"
      BY <1>3, <2>2, <3>4 DEF LiveCredentials, AuthorityOf, AuthorityOfGrant, UsableRows
    <3> QED BY <2>2, <3>1, <3>2, <3>3, <3>4 DEF CredentialKinds
  <2> QED BY <2>1, <2>2
<1>5. LiveCredentials' = {c \in DOMAIN Authority : Authority[c].expires > clock'}
  BY <1>4 DEF Authority
<1>6. Authority' = Restrict(Authority, {c \in DOMAIN Authority : Authority[c].expires > clock'})
  BY <1>2, <1>5 DEF Authority, Restrict
<1>7. Ledger!Pass
  BY <1>1, <1>6, SameRestrict DEF Ledger!Pass, Issued
<1> QED BY <1>7 DEF Ledger!LedgerNext

-----------------------------------------------------------------------------
(* What the transactions of the store do to the rows that carry authority  *)

\* Of the live rows of T, T2 has exactly those in S, as they were.
Leaves(T, T2, S) == LiveRows(T2) = S /\ \A d \in S : T2[d] = T[d]

LeavesUsable(T, T2, S) == UsableRows(T2) = S /\ \A d \in S : T2[d] = T[d]

LEMMA PrunesLeave ==
    ASSUME TicksPerSecond = 1, TypeOK
    PROVE  /\ Leaves(authorizations, PruneRows(authorizations), LiveRows(authorizations))
           /\ Leaves(consents, PruneRows(consents), LiveRows(consents))
           /\ Leaves(codes, PruneRows(codes), LiveRows(codes))
           /\ LeavesUsable(grants, PruneFamilies(grants), UsableRows(grants))
<1>1. Leaves(authorizations, PruneRows(authorizations), LiveRows(authorizations))
  BY Instants, PruneKeepsLive DEF Leaves
<1>2. Leaves(consents, PruneRows(consents), LiveRows(consents))
  BY Instants, PruneKeepsLive DEF Leaves
<1>3. Leaves(codes, PruneRows(codes), LiveRows(codes))
  BY Instants, PruneKeepsLive DEF Leaves
<1>4. LeavesUsable(grants, PruneFamilies(grants), UsableRows(grants))
  BY Instants, PruneKeepsUsable DEF LeavesUsable
<1> QED BY <1>1, <1>2, <1>3, <1>4

LEMMA NothingLeaves ==
    ASSUME NEW T PROVE Leaves(T, T, LiveRows(T)) /\ LeavesUsable(T, T, UsableRows(T))
BY DEF Leaves, LeavesUsable

\* Consuming row d of a pruned table.
LEMMA ConsumeLeaves ==
    ASSUME NEW T, NEW P, NEW C, NEW d, Leaves(T, P, LiveRows(T)), DOMAIN C = DOMAIN P,
           C[d].consumed, \A e \in DOMAIN P : e # d => C[e] = P[e]
    PROVE  Leaves(T, C, LiveRows(T) \ {d})
BY DEF Leaves, LiveRows

\* Inserting row t, and the row itself if it is live.
LEMMA InsertLeaves ==
    ASSUME NEW T, NEW P, NEW t, NEW row, Leaves(T, P, LiveRows(T)), t \notin DOMAIN T,
           DOMAIN P \subseteq DOMAIN T
    PROVE  /\ LiveRows(Insert(P, t, row)) =
                LiveRows(T) \cup {k \in {t} : ~row.consumed /\ row.expires > clock}
           /\ \A d \in LiveRows(T) : Insert(P, t, row)[d] = T[d]
           /\ Insert(P, t, row)[t] = row
<1>1. /\ DOMAIN Insert(P, t, row) = DOMAIN P \cup {t} /\ Insert(P, t, row)[t] = row
      /\ \A d \in DOMAIN P : d # t => Insert(P, t, row)[d] = P[d]
  BY DEF Insert
<1> QED BY <1>1 DEF Leaves, LiveRows

\* Credentials, by the rows of the four kinds.
ByKind(A, C, O, G) == ({"transaction"} \X A) \cup ({"consent"} \X C)
                      \cup ({"code"} \X O) \cup ({"refresh"} \X G)

\* The state in which the clock has not moved.
LEMMA LiveNext ==
    ASSUME clock' = clock
    PROVE  /\ LiveRows(authorizations)' = LiveRows(authorizations')
           /\ LiveRows(consents)' = LiveRows(consents')
           /\ LiveRows(codes)' = LiveRows(codes')
           /\ UsableRows(grants)' = UsableRows(grants')
           /\ LiveCredentials = ByKind(LiveRows(authorizations), LiveRows(consents),
                                       LiveRows(codes), UsableRows(grants))
           /\ LiveCredentials' = ByKind(LiveRows(authorizations'), LiveRows(consents'),
                                        LiveRows(codes'), UsableRows(grants'))
BY DEF LiveRows, UsableRows, LiveCredentials, ByKind

\* The live credentials after each kind of step: a request,
LEMMA LiveAfterRequest ==
    ASSUME clock' = clock, NEW t,
           LiveRows(authorizations') = LiveRows(authorizations) \cup {t},
           LiveRows(consents') = LiveRows(consents),
           LiveRows(codes') = LiveRows(codes),
           UsableRows(grants') = UsableRows(grants)
    PROVE  LiveCredentials' = LiveCredentials \cup {<<"transaction", t>>}
<1> DEFINE A == LiveRows(authorizations)
           C == LiveRows(consents)
           O == LiveRows(codes)
           G == UsableRows(grants)
           A2 == LiveRows(authorizations')
<1>1. LiveCredentials = ByKind(A, C, O, G) /\ LiveCredentials' = ByKind(A2, C, O, G)
  BY LiveNext
<1>2. \A x : x \in A2 <=> x \in A \/ x = t
  OBVIOUS
<1> HIDE DEF A, C, O, G, A2
<1>3. \A c : c \in ByKind(A2, C, O, G) <=>
        c \in ByKind(A, C, O, G) \/ c = <<"transaction", t>>
  BY <1>2 DEF ByKind
<1> QED BY <1>1, <1>3

\* a login,
LEMMA LiveAfterLogin ==
    ASSUME clock' = clock, NEW d, NEW t,
           LiveRows(authorizations') = LiveRows(authorizations) \ {d},
           LiveRows(consents') = LiveRows(consents) \cup {t},
           LiveRows(codes') = LiveRows(codes),
           UsableRows(grants') = UsableRows(grants)
    PROVE  LiveCredentials' = (LiveCredentials \ {<<"transaction", d>>}) \cup {<<"consent", t>>}
<1> DEFINE A == LiveRows(authorizations)
           C == LiveRows(consents)
           O == LiveRows(codes)
           G == UsableRows(grants)
           A2 == LiveRows(authorizations')
           C2 == LiveRows(consents')
<1>1. LiveCredentials = ByKind(A, C, O, G) /\ LiveCredentials' = ByKind(A2, C2, O, G)
  BY LiveNext
<1>2. /\ \A x : x \in A2 <=> x \in A /\ x # d
      /\ \A x : x \in C2 <=> x \in C \/ x = t
  OBVIOUS
<1> HIDE DEF A, C, O, G, A2, C2
<1>3. \A c : c \in ByKind(A2, C2, O, G) <=>
        (c \in ByKind(A, C, O, G) /\ c # <<"transaction", d>>) \/ c = <<"consent", t>>
  BY <1>2 DEF ByKind
<1> QED BY <1>1, <1>3

\* an approval,
LEMMA LiveAfterApproval ==
    ASSUME clock' = clock, NEW d, NEW t,
           LiveRows(authorizations') = LiveRows(authorizations),
           LiveRows(consents') = LiveRows(consents) \ {d},
           LiveRows(codes') = LiveRows(codes) \cup {t},
           UsableRows(grants') = UsableRows(grants)
    PROVE  LiveCredentials' = (LiveCredentials \ {<<"consent", d>>}) \cup {<<"code", t>>}
<1> DEFINE A == LiveRows(authorizations)
           C == LiveRows(consents)
           O == LiveRows(codes)
           G == UsableRows(grants)
           C2 == LiveRows(consents')
           O2 == LiveRows(codes')
<1>1. LiveCredentials = ByKind(A, C, O, G) /\ LiveCredentials' = ByKind(A, C2, O2, G)
  BY LiveNext
<1>2. /\ \A x : x \in C2 <=> x \in C /\ x # d
      /\ \A x : x \in O2 <=> x \in O \/ x = t
  OBVIOUS
<1> HIDE DEF A, C, O, G, C2, O2
<1>3. \A c : c \in ByKind(A, C2, O2, G) <=>
        (c \in ByKind(A, C, O, G) /\ c # <<"consent", d>>) \/ c = <<"code", t>>
  BY <1>2 DEF ByKind
<1> QED BY <1>1, <1>3

\* a denial,
LEMMA LiveAfterDenial ==
    ASSUME clock' = clock, NEW d,
           LiveRows(authorizations') = LiveRows(authorizations),
           LiveRows(consents') = LiveRows(consents) \ {d},
           LiveRows(codes') = LiveRows(codes),
           UsableRows(grants') = UsableRows(grants)
    PROVE  LiveCredentials' = LiveCredentials \ {<<"consent", d>>}
<1> DEFINE A == LiveRows(authorizations)
           C == LiveRows(consents)
           O == LiveRows(codes)
           G == UsableRows(grants)
           C2 == LiveRows(consents')
<1>1. LiveCredentials = ByKind(A, C, O, G) /\ LiveCredentials' = ByKind(A, C2, O, G)
  BY LiveNext
<1>2. \A x : x \in C2 <=> x \in C /\ x # d
  OBVIOUS
<1> HIDE DEF A, C, O, G, C2
<1>3. \A c : c \in ByKind(A, C2, O, G) <=>
        c \in ByKind(A, C, O, G) /\ c # <<"consent", d>>
  BY <1>2 DEF ByKind
<1> QED BY <1>1, <1>3

\* an exchange,
LEMMA LiveAfterExchange ==
    ASSUME clock' = clock, NEW d, NEW t,
           LiveRows(authorizations') = LiveRows(authorizations),
           LiveRows(consents') = LiveRows(consents),
           LiveRows(codes') = LiveRows(codes) \ {d},
           UsableRows(grants') = UsableRows(grants) \cup {t}
    PROVE  LiveCredentials' = (LiveCredentials \ {<<"code", d>>}) \cup {<<"refresh", t>>}
<1> DEFINE A == LiveRows(authorizations)
           C == LiveRows(consents)
           O == LiveRows(codes)
           G == UsableRows(grants)
           O2 == LiveRows(codes')
           G2 == UsableRows(grants')
<1>1. LiveCredentials = ByKind(A, C, O, G) /\ LiveCredentials' = ByKind(A, C, O2, G2)
  BY LiveNext
<1>2. /\ \A x : x \in O2 <=> x \in O /\ x # d
      /\ \A x : x \in G2 <=> x \in G \/ x = t
  OBVIOUS
<1> HIDE DEF A, C, O, G, O2, G2
<1>3. \A c : c \in ByKind(A, C, O2, G2) <=>
        (c \in ByKind(A, C, O, G) /\ c # <<"code", d>>) \/ c = <<"refresh", t>>
  BY <1>2 DEF ByKind
<1> QED BY <1>1, <1>3

\* a rotation,
LEMMA LiveAfterRotation ==
    ASSUME clock' = clock, NEW d, NEW t,
           LiveRows(authorizations') = LiveRows(authorizations),
           LiveRows(consents') = LiveRows(consents),
           LiveRows(codes') = LiveRows(codes),
           UsableRows(grants') = (UsableRows(grants) \ {d}) \cup {t}
    PROVE  LiveCredentials' = (LiveCredentials \ {<<"refresh", d>>}) \cup {<<"refresh", t>>}
<1> DEFINE A == LiveRows(authorizations)
           C == LiveRows(consents)
           O == LiveRows(codes)
           G == UsableRows(grants)
           G2 == UsableRows(grants')
<1>1. LiveCredentials = ByKind(A, C, O, G) /\ LiveCredentials' = ByKind(A, C, O, G2)
  BY LiveNext
<1>2. \A x : x \in G2 <=> (x \in G /\ x # d) \/ x = t
  OBVIOUS
<1> HIDE DEF A, C, O, G, G2
<1>3. \A c : c \in ByKind(A, C, O, G2) <=>
        (c \in ByKind(A, C, O, G) /\ c # <<"refresh", d>>) \/ c = <<"refresh", t>>
  BY <1>2 DEF ByKind
<1> QED BY <1>1, <1>3

\* and the revocation of the family of d.
LEMMA LiveAfterRevocation ==
    ASSUME clock' = clock, NEW d,
           LiveRows(authorizations') = LiveRows(authorizations),
           LiveRows(consents') = LiveRows(consents),
           LiveRows(codes') = LiveRows(codes),
           UsableRows(grants') = UsableRows(grants) \ {d}
    PROVE  LiveCredentials' = LiveCredentials \ {<<"refresh", d>>}
<1> DEFINE A == LiveRows(authorizations)
           C == LiveRows(consents)
           O == LiveRows(codes)
           G == UsableRows(grants)
           G2 == UsableRows(grants')
<1>1. LiveCredentials = ByKind(A, C, O, G) /\ LiveCredentials' = ByKind(A, C, O, G2)
  BY LiveNext
<1>2. \A x : x \in G2 <=> x \in G /\ x # d
  OBVIOUS
<1> HIDE DEF A, C, O, G, G2
<1>3. \A c : c \in ByKind(A, C, O, G2) <=>
        c \in ByKind(A, C, O, G) /\ c # <<"refresh", d>>
  BY <1>2 DEF ByKind
<1> QED BY <1>1, <1>3

\* Nothing is created, spent or revoked.
LEMMA QuietLedger ==
    ASSUME clock' = clock, Issued' = Issued,
           Leaves(authorizations, authorizations', LiveRows(authorizations)),
           Leaves(consents, consents', LiveRows(consents)),
           Leaves(codes, codes', LiveRows(codes)),
           LeavesUsable(grants, grants', UsableRows(grants))
    PROVE  UNCHANGED Ledger!ledgerVars
<1>1. SameRows
  BY LiveNext DEF SameRows, Leaves, LeavesUsable
<1>2. LiveCredentials' = LiveCredentials
  BY LiveNext DEF Leaves, LeavesUsable
<1> QED BY <1>1, <1>2, Stutters

LEMMA BeginLedger ==
    ASSUME TicksPerSecond = 1, CapacityInv, NEW r \in Requests, BeginCreateAuthorization(r)
    PROVE  Ledger!LedgerNext
<1> DEFINE auths == PruneRows(authorizations)
           row(now) == [binding |-> req[r].binding, scopes |-> req[r].scopes,
                        expires |-> now + TransactionTTL, consumed |-> FALSE]
<1>0. TypeOK /\ StoredIsMinted /\ IsFiniteSet(DOMAIN authorizations)
  BY DEF CapacityInv, GrantInv, CredentialInv, FiniteTables
<1>1. PICK t \in Transactions, now \in req[r].at .. clock :
        /\ Fresh("transaction", t)
        /\ Cardinality(DOMAIN auths) < MaxAuthorizations
        /\ authorizations' = Insert(auths, t, row(now))
        /\ consents' = PruneRows(consents) /\ codes' = PruneRows(codes)
        /\ grants' = PruneFamilies(grants)
        /\ minted' = minted \cup {<<"transaction", t>>}
        /\ clock' = clock
  BY DEF BeginCreateAuthorization, CreateAuthorization
<1> DEFINE c == <<"transaction", t>>
           auth == row(now)
<1>2. c \notin minted /\ t \notin DOMAIN authorizations
  BY <1>0, <1>1 DEF Fresh, StoredIsMinted
<1>3. c[1] = "transaction" /\ Issued' = Issued \cup {c}
  BY <1>1 DEF Issued, CredentialKinds
<1>4. /\ Leaves(authorizations, auths, LiveRows(authorizations))
      /\ Leaves(consents, consents', LiveRows(consents))
      /\ Leaves(codes, codes', LiveRows(codes))
      /\ LeavesUsable(grants, grants', UsableRows(grants))
  BY <1>0, <1>1, PrunesLeave
<1>5. DOMAIN auths \subseteq DOMAIN authorizations
  BY PruneFacts
<1>6. ~auth.consumed /\ authorizations' = Insert(auths, t, auth)
  BY <1>1
<1> HIDE DEF auth, auths
<1>7. /\ LiveRows(authorizations') =
           LiveRows(authorizations) \cup {k \in {t} : ~auth.consumed /\ auth.expires > clock}
      /\ \A d \in LiveRows(authorizations) : authorizations'[d] = authorizations[d]
      /\ authorizations'[t] = auth
  BY <1>2, <1>4, <1>5, <1>6, InsertLeaves
<1>8. SameRows
  BY <1>1, <1>4, <1>7, LiveNext DEF SameRows, Leaves, LeavesUsable
<1>9. CASE auth.expires > clock
  <2>1. /\ LiveRows(authorizations') = LiveRows(authorizations) \cup {t}
        /\ LiveRows(consents') = LiveRows(consents) /\ LiveRows(codes') = LiveRows(codes)
        /\ UsableRows(grants') = UsableRows(grants)
    BY <1>4, <1>6, <1>7, <1>9 DEF Leaves, LeavesUsable
  <2>2. LiveCredentials' = LiveCredentials \cup {c}
    BY <1>1, <2>1, LiveAfterRequest
  <2>3. c \notin LiveCredentials
    BY <1>2, LiveAre DEF LiveRows
  <2>4. LiveRows(authorizations) \subseteq DOMAIN auths
    BY <1>4 DEF Leaves, LiveRows
  <2>5. {x \in LiveCredentials : x[1] = "transaction"} \subseteq {"transaction"} \X DOMAIN auths
    BY <2>4 DEF LiveCredentials
  <2>6. IsFiniteSet(DOMAIN auths) /\ MaxAuthorizations \in Nat
    BY <1>0, <1>5, FS_Subset, StatePolicyAssumption DEF ValidStatePolicy
  <2>7. Cardinality({x \in LiveCredentials : x[1] = "transaction"}) < MaxAuthorizations
    BY <1>1, <2>5, <2>6, KindCount DEF auths
  <2>8. authorizations'[t].expires > clock
    BY <1>7, <1>9
  <2> QED BY <1>1, <1>2, <1>3, <1>8, <2>2, <2>3, <2>7, <2>8, RequestsLive
<1>10. CASE ~(auth.expires > clock)
  <2>1. LiveRows(authorizations') = LiveRows(authorizations)
    BY <1>7, <1>10
  <2>2. LiveCredentials' = LiveCredentials
    BY <1>1, <1>4, <2>1, LiveNext DEF Leaves, LeavesUsable
  <2> QED BY <1>1, <1>2, <1>3, <1>8, <2>2, RequestsLapsed
<1> QED BY <1>9, <1>10

\* CompleteLogin moves the authority of a transaction to a consent page.
LEMMA LoginLedger ==
    ASSUME TicksPerSecond = 1, CapacityInv, NEW r \in Requests, LoginCommit(r)
    PROVE  Ledger!LedgerNext
<1> DEFINE auths == PruneRows(authorizations)
           cons == PruneRows(consents)
           d == req[r].d
           new(available, now) ==
             [binding |-> req[r].binding, subject |-> req[r].subject,
              scopes |-> req[r].scopes \cap available,
              ends |-> now + RefreshTTL, expires |-> now + ConsentTTL, consumed |-> FALSE]
<1>0. /\ TypeOK /\ StoredIsMinted /\ IsFiniteSet(DOMAIN consents)
      /\ IsTable(authorizations, Transactions, Authorization)
      /\ IsTable(auths, Transactions, Authorization)
  BY PruneTable DEF CapacityInv, GrantInv, CredentialInv, FiniteTables, TypeOK, StoreTypeOK
<1>1. PICK t \in ConsentTokens, available \in SUBSET Scopes, now \in req[r].at .. clock :
        /\ Fresh("consent", t)
        /\ d \in DOMAIN auths /\ ValidateLoginCommit(auths[d], new(available, now))
        /\ Cardinality(DOMAIN cons) < MaxConsents
        /\ consents' = Insert(cons, t, new(available, now))
        /\ authorizations' = Consume(auths, d)
        /\ codes' = PruneRows(codes) /\ grants' = PruneFamilies(grants)
        /\ minted' = minted \cup {<<"consent", t>>}
        /\ clock' = clock
  BY DEF LoginCommit, CommitLogin
<1> DEFINE row == new(available, now)
           old == authorizations[d]
           c == <<"transaction", d>>
           e == <<"consent", t>>
<1>2. e \notin minted /\ t \notin DOMAIN consents
  BY <1>0, <1>1 DEF Fresh, StoredIsMinted
<1>3. e[1] = "consent" /\ c[1] = "transaction" /\ Issued' = Issued \cup {e}
  BY <1>1 DEF Issued, CredentialKinds
<1>4. /\ Leaves(authorizations, auths, LiveRows(authorizations))
      /\ Leaves(consents, cons, LiveRows(consents))
      /\ Leaves(codes, codes', LiveRows(codes))
      /\ LeavesUsable(grants, grants', UsableRows(grants))
  BY <1>0, <1>1, PrunesLeave
<1>5. /\ DOMAIN cons \subseteq DOMAIN consents
      /\ d \in DOMAIN authorizations /\ auths[d] = old
  BY <1>1, PruneFacts
<1>6. /\ ~row.consumed /\ row.expires > clock /\ row.binding = old.binding
      /\ row.scopes \subseteq old.scopes /\ ~old.consumed /\ old.expires > clock
      /\ consents' = Insert(cons, t, row)
  BY <1>1, <1>5 DEF ValidateLoginCommit
<1>7. Leaves(authorizations, authorizations', LiveRows(authorizations) \ {d})
  <2>1. /\ DOMAIN authorizations' = DOMAIN auths /\ authorizations'[d].consumed
        /\ \A k \in DOMAIN auths : k # d => authorizations'[k] = auths[k]
    BY <1>0, <1>1, ConsumeAuthorization
  <2> HIDE DEF auths
  <2> QED BY <1>4, <2>1, ConsumeLeaves
<1> HIDE DEF row, auths, cons, old, d
<1>8. /\ LiveRows(consents') =
           LiveRows(consents) \cup {k \in {t} : ~row.consumed /\ row.expires > clock}
      /\ \A k \in LiveRows(consents) : consents'[k] = consents[k]
      /\ consents'[t] = row
  BY <1>2, <1>4, <1>5, <1>6, InsertLeaves
<1>9. SameRows
  BY <1>1, <1>4, <1>7, <1>8, LiveNext DEF SameRows, Leaves, LeavesUsable
<1>10. /\ LiveRows(authorizations') = LiveRows(authorizations) \ {d}
       /\ LiveRows(consents') = LiveRows(consents) \cup {t}
       /\ LiveRows(codes') = LiveRows(codes) /\ UsableRows(grants') = UsableRows(grants)
  BY <1>4, <1>6, <1>7, <1>8 DEF Leaves, LeavesUsable
<1>11. LiveCredentials' = (LiveCredentials \ {c}) \cup {e}
  BY <1>1, <1>10, LiveAfterLogin
<1>12. c \in LiveCredentials /\ c \in Minted /\ e \in Minted
  <2>1. d \in LiveRows(authorizations) /\ d \in Transactions
    BY <1>0, <1>5, <1>6 DEF LiveRows, IsTable, old
  <2> QED BY <2>1, LiveAre DEF Minted
<1>13. e \notin LiveCredentials
  BY <1>2, LiveAre DEF LiveRows
<1>14. Cardinality({x \in LiveCredentials : x[1] = e[1]} \ {c}) < Capacities[e[1]]
  <2>1. LiveRows(consents) \subseteq DOMAIN cons
    BY <1>4 DEF Leaves, LiveRows
  <2>2. {x \in LiveCredentials : x[1] = e[1]} \ {c} \subseteq {"consent"} \X DOMAIN cons
    BY <1>3, <2>1 DEF LiveCredentials
  <2>3. IsFiniteSet(DOMAIN cons) /\ MaxConsents \in Nat
    BY <1>0, <1>5, FS_Subset, StatePolicyAssumption DEF ValidStatePolicy
  <2>4. Cardinality({x \in LiveCredentials : x[1] = e[1]} \ {c}) < MaxConsents
    BY <1>1, <2>2, <2>3, KindCount DEF cons
  <2> QED BY <1>3, <2>4 DEF Capacities
<1>15. /\ AuthorityOf(c) = AuthorityOfTransaction(old)
       /\ AuthorityOf(e)' = AuthorityOfConsent(row)
  BY <1>8 DEF AuthorityOf, old
<1>16. Ledger!Narrows(AuthorityOf(c), AuthorityOf(e)', e[1])
  <2> DEFINE a == AuthorityOfTransaction(old)
             b == AuthorityOfConsent(row)
  <2>1. /\ a.client = old.binding.client /\ a.resource = old.binding.resource
        /\ a.scopes = old.scopes /\ a.subject = {} /\ a.ends = {}
        /\ a.bound = BoundTo(old.binding)
    BY AuthorityFields
  <2>2. /\ b.client = row.binding.client /\ b.resource = row.binding.resource
        /\ b.scopes = row.scopes /\ b.subject = {row.subject} /\ b.ends = {row.ends}
        /\ b.bound = BoundTo(row.binding)
    BY AuthorityFields
  <2> HIDE DEF a, b
  <2>3. Ledger!Narrows(a, b, e[1])
    BY <1>3, <1>6, <2>1, <2>2 DEF Ledger!Narrows
  <2> QED BY <1>15, <2>3 DEF a, b
<1>17. AuthorityOf(e)'.expires > clock
  BY <1>6, <1>15 DEF AuthorityOfConsent
<1> HIDE DEF c, e
<1> QED BY <1>1, <1>2, <1>3, <1>9, <1>11, <1>12, <1>13, <1>14, <1>16, <1>17, Moves

\* DecideConsent moves it to a code when the user approves.
LEMMA ApprovalLedger ==
    ASSUME TicksPerSecond = 1, CapacityInv, NEW r \in Requests, ConsentApprove(r)
    PROVE  Ledger!LedgerNext
<1> DEFINE cons == PruneRows(consents)
           cods == PruneRows(codes)
           d == req[r].d
           new(selected, now) ==
             [binding |-> req[r].read.binding, subject |-> req[r].read.subject,
              scopes |-> selected, ends |-> req[r].read.ends,
              expires |-> now + CodeTTL, consumed |-> FALSE]
<1>0. /\ TypeOK /\ StoredIsMinted /\ IsFiniteSet(DOMAIN codes)
      /\ IsTable(consents, ConsentTokens, Consent) /\ IsTable(cons, ConsentTokens, Consent)
  BY PruneTable DEF CapacityInv, GrantInv, CredentialInv, FiniteTables, TypeOK, StoreTypeOK
<1>1. PICK t \in Codes, selected \in SUBSET req[r].read.scopes, now \in req[r].at .. clock :
        /\ Fresh("code", t)
        /\ d \in DOMAIN cons /\ ValidateConsentCommit(cons[d])
        /\ ValidateApprovedCode(cons[d], new(selected, now))
        /\ Cardinality(DOMAIN cods) < MaxCodes
        /\ codes' = Insert(cods, t, new(selected, now))
        /\ consents' = Consume(cons, d)
        /\ authorizations' = PruneRows(authorizations) /\ grants' = PruneFamilies(grants)
        /\ minted' = minted \cup {<<"code", t>>}
        /\ clock' = clock
  BY DEF ConsentApprove, CommitApproval
<1> DEFINE row == new(selected, now)
           old == consents[d]
           c == <<"consent", d>>
           e == <<"code", t>>
<1>2. e \notin minted /\ t \notin DOMAIN codes
  BY <1>0, <1>1 DEF Fresh, StoredIsMinted
<1>3. e[1] = "code" /\ c[1] = "consent" /\ Issued' = Issued \cup {e}
  BY <1>1 DEF Issued, CredentialKinds
<1>4. /\ Leaves(authorizations, authorizations', LiveRows(authorizations))
      /\ Leaves(consents, cons, LiveRows(consents))
      /\ Leaves(codes, cods, LiveRows(codes))
      /\ LeavesUsable(grants, grants', UsableRows(grants))
  BY <1>0, <1>1, PrunesLeave
<1>5. DOMAIN cods \subseteq DOMAIN codes /\ d \in DOMAIN consents /\ cons[d] = old
  BY <1>1, PruneFacts
<1>6. /\ ~row.consumed /\ row.expires > clock /\ row.binding = old.binding
      /\ row.subject = old.subject /\ row.ends = old.ends
      /\ row.scopes \subseteq old.scopes /\ ~old.consumed /\ old.expires > clock
      /\ codes' = Insert(cods, t, row)
  BY <1>1, <1>5 DEF ValidateConsentCommit, ValidateApprovedCode
<1>7. Leaves(consents, consents', LiveRows(consents) \ {d})
  <2>1. /\ DOMAIN consents' = DOMAIN cons /\ consents'[d].consumed
        /\ \A k \in DOMAIN cons : k # d => consents'[k] = cons[k]
    BY <1>0, <1>1, ConsumeConsent
  <2> HIDE DEF cons
  <2> QED BY <1>4, <2>1, ConsumeLeaves
<1> HIDE DEF row, cons, cods, old, d
<1>8. /\ LiveRows(codes') =
           LiveRows(codes) \cup {k \in {t} : ~row.consumed /\ row.expires > clock}
      /\ \A k \in LiveRows(codes) : codes'[k] = codes[k]
      /\ codes'[t] = row
  BY <1>2, <1>4, <1>5, <1>6, InsertLeaves
<1>9. SameRows
  BY <1>1, <1>4, <1>7, <1>8, LiveNext DEF SameRows, Leaves, LeavesUsable
<1>10. /\ LiveRows(consents') = LiveRows(consents) \ {d}
       /\ LiveRows(codes') = LiveRows(codes) \cup {t}
       /\ LiveRows(authorizations') = LiveRows(authorizations)
       /\ UsableRows(grants') = UsableRows(grants)
  BY <1>4, <1>6, <1>7, <1>8 DEF Leaves, LeavesUsable
<1>11. LiveCredentials' = (LiveCredentials \ {c}) \cup {e}
  BY <1>1, <1>10, LiveAfterApproval
<1>12. c \in LiveCredentials /\ c \in Minted /\ e \in Minted
  <2>1. d \in LiveRows(consents) /\ d \in ConsentTokens
    BY <1>0, <1>5, <1>6 DEF LiveRows, IsTable, old
  <2> QED BY <2>1, LiveAre DEF Minted
<1>13. e \notin LiveCredentials
  BY <1>2, LiveAre DEF LiveRows
<1>14. Cardinality({x \in LiveCredentials : x[1] = e[1]} \ {c}) < Capacities[e[1]]
  <2>1. LiveRows(codes) \subseteq DOMAIN cods
    BY <1>4 DEF Leaves, LiveRows
  <2>2. {x \in LiveCredentials : x[1] = e[1]} \ {c} \subseteq {"code"} \X DOMAIN cods
    BY <1>3, <2>1 DEF LiveCredentials
  <2>3. IsFiniteSet(DOMAIN cods) /\ MaxCodes \in Nat
    BY <1>0, <1>5, FS_Subset, StatePolicyAssumption DEF ValidStatePolicy
  <2>4. Cardinality({x \in LiveCredentials : x[1] = e[1]} \ {c}) < MaxCodes
    BY <1>1, <2>2, <2>3, KindCount DEF cods
  <2> QED BY <1>3, <2>4 DEF Capacities
<1>15. /\ AuthorityOf(c) = AuthorityOfConsent(old)
       /\ AuthorityOf(e)' = AuthorityOfConsent(row)
  BY <1>8 DEF AuthorityOf, old
<1>16. Ledger!Narrows(AuthorityOf(c), AuthorityOf(e)', e[1])
  <2> DEFINE a == AuthorityOfConsent(old)
             b == AuthorityOfConsent(row)
  <2>1. /\ a.client = old.binding.client /\ a.resource = old.binding.resource
        /\ a.scopes = old.scopes /\ a.subject = {old.subject} /\ a.ends = {old.ends}
        /\ a.bound = BoundTo(old.binding)
    BY AuthorityFields
  <2>2. /\ b.client = row.binding.client /\ b.resource = row.binding.resource
        /\ b.scopes = row.scopes /\ b.subject = {row.subject} /\ b.ends = {row.ends}
        /\ b.bound = BoundTo(row.binding)
    BY AuthorityFields
  <2> HIDE DEF a, b
  <2>3. Ledger!Narrows(a, b, e[1])
    BY <1>3, <1>6, <2>1, <2>2 DEF Ledger!Narrows
  <2> QED BY <1>15, <2>3 DEF a, b
<1>17. AuthorityOf(e)'.expires > clock
  BY <1>6, <1>15 DEF AuthorityOfConsent
<1> HIDE DEF c, e
<1> QED BY <1>1, <1>2, <1>3, <1>9, <1>11, <1>12, <1>13, <1>14, <1>16, <1>17, Moves

\* A denial ends it.
LEMMA DenialLedger ==
    ASSUME TicksPerSecond = 1, CapacityInv, NEW r \in Requests, ConsentDeny(r)
    PROVE  Ledger!LedgerNext
<1> DEFINE cons == PruneRows(consents)
           d == req[r].d
           c == <<"consent", d>>
<1>0. /\ TypeOK
      /\ IsTable(consents, ConsentTokens, Consent) /\ IsTable(cons, ConsentTokens, Consent)
  BY PruneTable DEF CapacityInv, GrantInv, CredentialInv, TypeOK, StoreTypeOK
<1>1. /\ d \in DOMAIN cons /\ ValidateConsentCommit(cons[d])
      /\ consents' = Consume(cons, d)
      /\ authorizations' = PruneRows(authorizations)
      /\ codes' = PruneRows(codes) /\ grants' = PruneFamilies(grants)
      /\ minted' = minted /\ clock' = clock
  BY DEF ConsentDeny, CommitDenial
<1>2. /\ Leaves(authorizations, authorizations', LiveRows(authorizations))
      /\ Leaves(consents, cons, LiveRows(consents))
      /\ Leaves(codes, codes', LiveRows(codes))
      /\ LeavesUsable(grants, grants', UsableRows(grants))
  BY <1>0, <1>1, PrunesLeave
<1>3. d \in DOMAIN consents /\ cons[d] = consents[d]
  BY <1>1, PruneFacts
<1>4. d \in LiveRows(consents) /\ d \in ConsentTokens
  BY <1>0, <1>1, <1>3 DEF ValidateConsentCommit, LiveRows, IsTable
<1>5. Leaves(consents, consents', LiveRows(consents) \ {d})
  <2>1. /\ DOMAIN consents' = DOMAIN cons /\ consents'[d].consumed
        /\ \A k \in DOMAIN cons : k # d => consents'[k] = cons[k]
    BY <1>0, <1>1, ConsumeConsent
  <2> HIDE DEF cons
  <2> QED BY <1>2, <2>1, ConsumeLeaves
<1> HIDE DEF cons, d
<1>6. SameRows
  BY <1>1, <1>2, <1>5, LiveNext DEF SameRows, Leaves, LeavesUsable
<1>7. LiveCredentials' = LiveCredentials \ {c}
  BY <1>1, <1>2, <1>5, LiveAfterDenial DEF Leaves, LeavesUsable
<1>8. c \in LiveCredentials /\ c \in Minted /\ c[1] \in {"consent", "refresh"}
  BY <1>4, LiveAre DEF Minted
<1>9. Issued' = Issued
  BY <1>1 DEF Issued
<1> HIDE DEF c
<1> QED BY <1>1, <1>6, <1>7, <1>8, <1>9, Drops

\* Spending grant d of a table, and storing one that can be used.
LEMMA SpendUsable ==
    ASSUME NEW T, NEW P, NEW C, NEW d, LeavesUsable(T, P, UsableRows(T)), DOMAIN C = DOMAIN P,
           C[d].consumed, \A e \in DOMAIN P : e # d => C[e] = P[e]
    PROVE  LeavesUsable(T, C, UsableRows(T) \ {d})
BY DEF LeavesUsable, UsableRows, LiveRows

LEMMA InsertUsable ==
    ASSUME NEW T, NEW P, NEW S, NEW t, NEW row, LeavesUsable(T, P, S), t \notin DOMAIN P,
           ~row.consumed, ~row.revoked, row.expires > clock
    PROVE  /\ UsableRows(Insert(P, t, row)) = S \cup {t}
           /\ \A d \in S : Insert(P, t, row)[d] = T[d]
           /\ Insert(P, t, row)[t] = row
<1>1. /\ DOMAIN Insert(P, t, row) = DOMAIN P \cup {t} /\ Insert(P, t, row)[t] = row
      /\ \A d \in DOMAIN P : d # t => Insert(P, t, row)[d] = P[d]
  BY DEF Insert
<1>2. \A d \in S : d \in DOMAIN P
  BY DEF LeavesUsable, UsableRows, LiveRows
<1> QED BY <1>1, <1>2 DEF LeavesUsable, UsableRows, LiveRows

\* ExchangeCode moves it to the first refresh token of a family.
LEMMA ExchangeLedger ==
    ASSUME TicksPerSecond = 1, CapacityInv, NEW r \in Requests, ExchangeCommit(r)
    PROVE  Ledger!LedgerNext
<1> DEFINE cods == PruneRows(codes)
           grs == PruneFamilies(grants)
           d == req[r].d
           new(f) == [family |-> f, generation |-> 0,
                      client |-> req[r].read.binding.client,
                      subject |-> req[r].read.subject,
                      resource |-> req[r].read.binding.resource,
                      scopes |-> req[r].read.scopes, expires |-> req[r].read.ends,
                      consumed |-> FALSE, revoked |-> FALSE]
<1>0. /\ TypeOK /\ StoredIsMinted /\ IsFiniteSet(DOMAIN grants)
      /\ IsTable(codes, Codes, Consent) /\ IsTable(cods, Codes, Consent)
  BY PruneTable DEF CapacityInv, GrantInv, CredentialInv, FiniteTables, TypeOK, StoreTypeOK,
                    Code
<1>1. PICK t \in RefreshTokens, f \in Families :
        /\ Fresh("refresh", t)
        /\ d \in DOMAIN cods /\ ValidateCodeExchangeCommit(cods[d], new(f))
        /\ Cardinality(Active(grs)) < MaxRefreshGrants
        /\ grants' = Insert(grs, t, new(f))
        /\ codes' = Consume(cods, d)
        /\ authorizations' = PruneRows(authorizations) /\ consents' = PruneRows(consents)
        /\ minted' = minted \cup {<<"refresh", t>>, <<"family", f>>}
        /\ clock' = clock
  BY DEF ExchangeCommit, CommitCodeExchange
<1> DEFINE row == new(f)
           old == codes[d]
           c == <<"code", d>>
           e == <<"refresh", t>>
<1>2. e \notin minted /\ t \notin DOMAIN grants
  BY <1>0, <1>1 DEF Fresh, StoredIsMinted
<1>3. e[1] = "refresh" /\ c[1] = "code" /\ Issued' = Issued \cup {e}
  BY <1>1 DEF Issued, CredentialKinds
<1>4. /\ Leaves(authorizations, authorizations', LiveRows(authorizations))
      /\ Leaves(consents, consents', LiveRows(consents))
      /\ Leaves(codes, cods, LiveRows(codes))
      /\ LeavesUsable(grants, grs, UsableRows(grants))
  BY <1>0, <1>1, PrunesLeave
<1>5. DOMAIN grs \subseteq DOMAIN grants /\ d \in DOMAIN codes /\ cods[d] = old
  BY <1>1, PruneFacts
<1>6. /\ ~row.consumed /\ ~row.revoked /\ row.expires > clock
      /\ row.client = old.binding.client /\ row.resource = old.binding.resource
      /\ row.subject = old.subject /\ row.expires = old.ends
      /\ row.scopes = old.scopes /\ ~old.consumed /\ old.expires > clock
      /\ grants' = Insert(grs, t, row)
  BY <1>1, <1>5 DEF ValidateCodeExchangeCommit
<1>7. Leaves(codes, codes', LiveRows(codes) \ {d})
  <2>1. /\ DOMAIN codes' = DOMAIN cods /\ codes'[d].consumed
        /\ \A k \in DOMAIN cods : k # d => codes'[k] = cods[k]
    BY <1>0, <1>1, ConsumeConsent
  <2> HIDE DEF cods
  <2> QED BY <1>4, <2>1, ConsumeLeaves
<1> HIDE DEF row, cods, grs, old, d
<1>8. /\ UsableRows(grants') = UsableRows(grants) \cup {t}
      /\ \A k \in UsableRows(grants) : grants'[k] = grants[k]
      /\ grants'[t] = row
  BY <1>2, <1>4, <1>5, <1>6, InsertUsable
<1>9. SameRows
  BY <1>1, <1>4, <1>7, <1>8, LiveNext DEF SameRows, Leaves
<1>10. /\ LiveRows(codes') = LiveRows(codes) \ {d}
       /\ LiveRows(authorizations') = LiveRows(authorizations)
       /\ LiveRows(consents') = LiveRows(consents)
  BY <1>4, <1>7 DEF Leaves
<1>11. LiveCredentials' = (LiveCredentials \ {c}) \cup {e}
  BY <1>1, <1>8, <1>10, LiveAfterExchange
<1>12. c \in LiveCredentials /\ c \in Minted /\ e \in Minted
  <2>1. d \in LiveRows(codes) /\ d \in Codes
    BY <1>0, <1>5, <1>6 DEF LiveRows, IsTable, old
  <2> QED BY <2>1, LiveAre DEF Minted
<1>13. e \notin LiveCredentials
  BY <1>2, LiveAre DEF LiveRows, UsableRows
<1>14. Cardinality({x \in LiveCredentials : x[1] = e[1]} \ {c}) < Capacities[e[1]]
  <2>1. UsableRows(grants) \subseteq Active(grs) /\ Active(grs) \subseteq DOMAIN grants
    BY <1>4, <1>5 DEF LeavesUsable, UsableRows, LiveRows, Active
  <2>2. {x \in LiveCredentials : x[1] = e[1]} \ {c} \subseteq {"refresh"} \X Active(grs)
    BY <1>3, <2>1 DEF LiveCredentials, UsableRows
  <2>3. IsFiniteSet(Active(grs)) /\ MaxRefreshGrants \in Nat
    BY <1>0, <2>1, FS_Subset, StatePolicyAssumption DEF ValidStatePolicy
  <2>4. Cardinality({x \in LiveCredentials : x[1] = e[1]} \ {c}) < MaxRefreshGrants
    BY <1>1, <2>2, <2>3, KindCount DEF grs
  <2> QED BY <1>3, <2>4 DEF Capacities
<1>15. /\ AuthorityOf(c) = AuthorityOfConsent(old)
       /\ AuthorityOf(e)' = AuthorityOfGrant(row)
  BY <1>8 DEF AuthorityOf, old
<1>16. Ledger!Narrows(AuthorityOf(c), AuthorityOf(e)', e[1])
  <2> DEFINE a == AuthorityOfConsent(old)
             b == AuthorityOfGrant(row)
  <2>1. /\ a.client = old.binding.client /\ a.resource = old.binding.resource
        /\ a.scopes = old.scopes /\ a.subject = {old.subject} /\ a.ends = {old.ends}
        /\ a.bound = BoundTo(old.binding)
    BY AuthorityFields
  <2>2. /\ b.client = row.client /\ b.resource = row.resource
        /\ b.scopes = row.scopes /\ b.subject = {row.subject} /\ b.ends = {row.expires}
        /\ b.bound = {}
    BY AuthorityFields
  <2> HIDE DEF a, b
  <2>3. Ledger!Narrows(a, b, e[1])
    BY <1>3, <1>6, <2>1, <2>2 DEF Ledger!Narrows
  <2> QED BY <1>15, <2>3 DEF a, b
<1>17. AuthorityOf(e)'.expires > clock
  BY <1>6, <1>15 DEF AuthorityOfGrant
<1> HIDE DEF c, e
<1> QED BY <1>1, <1>2, <1>3, <1>9, <1>11, <1>12, <1>13, <1>14, <1>16, <1>17, Moves

\* Refresh moves it to the next token of the family, by the same token.
LEMMA RotationLedger ==
    ASSUME TicksPerSecond = 1, CapacityInv, NEW r \in Requests, RefreshRotate(r)
    PROVE  Ledger!LedgerNext
<1> DEFINE grs == PruneFamilies(grants)
<1>0. /\ TypeOK /\ StoredIsMinted /\ IsFiniteSet(DOMAIN grants)
      /\ Cardinality(Active(grants)) =< MaxRefreshGrants
      /\ IsTable(grants, RefreshTokens, Grant) /\ IsTable(grs, RefreshTokens, Grant)
  BY PruneTable DEF CapacityInv, GrantInv, CredentialInv, FiniteTables, CapacityRespected,
                    TypeOK, StoreTypeOK
<1>1. PICK d, t, row : GrantRotates(d, t, row)
  BY <1>0, RotateGrants
<1>2. /\ authorizations' = PruneRows(authorizations) /\ consents' = PruneRows(consents)
      /\ codes' = PruneRows(codes) /\ clock' = clock
  BY DEF RefreshRotate, PruneBesidesGrants
<1> DEFINE old == grants[d]
           con == Consume(grs, d)
           c == <<"refresh", d>>
           e == <<"refresh", t>>
<1>3. /\ d \in DOMAIN grs /\ t \in RefreshTokens /\ Fresh("refresh", t)
      /\ minted' = minted \cup {e}
      /\ grants' = Insert(con, t, row)
  BY <1>1 DEF GrantRotates
<1>4. DOMAIN grs \subseteq DOMAIN grants /\ d \in DOMAIN grants /\ grs[d] = old
  BY <1>3, PruneFacts
<1>5. /\ ~row.consumed /\ ~row.revoked /\ row.expires > clock
      /\ row.client = old.client /\ row.resource = old.resource
      /\ row.subject = old.subject /\ row.expires = old.expires
      /\ row.scopes \subseteq old.scopes /\ ~old.consumed /\ ~old.revoked
  BY <1>1, <1>4 DEF GrantRotates
<1>6. e \notin minted /\ t \notin DOMAIN grants
  BY <1>0, <1>3 DEF Fresh, StoredIsMinted
<1>7. e[1] = "refresh" /\ c[1] = "refresh" /\ Issued' = Issued \cup {e}
  BY <1>3 DEF Issued, CredentialKinds
<1>8. /\ Leaves(authorizations, authorizations', LiveRows(authorizations))
      /\ Leaves(consents, consents', LiveRows(consents))
      /\ Leaves(codes, codes', LiveRows(codes))
      /\ LeavesUsable(grants, grs, UsableRows(grants))
  BY <1>0, <1>2, PrunesLeave
<1>9. /\ DOMAIN con = DOMAIN grs /\ con[d].consumed
      /\ \A k \in DOMAIN grs : k # d => con[k] = grs[k]
  BY <1>0, <1>3, ConsumeGrant
<1> HIDE DEF con, grs, old
<1>10. LeavesUsable(grants, con, UsableRows(grants) \ {d})
  BY <1>8, <1>9, SpendUsable
<1>11. t \notin DOMAIN con
  BY <1>4, <1>6, <1>9
<1> DEFINE S == UsableRows(grants) \ {d}
<1>12. /\ UsableRows(grants') = S \cup {t}
       /\ \A k \in S : grants'[k] = grants[k]
       /\ grants'[t] = row
  <2>1. LeavesUsable(grants, con, S)
    BY <1>10
  <2> HIDE DEF S
  <2> QED BY <1>3, <1>5, <1>11, <2>1, InsertUsable
<1>13. t # d /\ \A k \in UsableRows(grants) : k \in UsableRows(grants') => grants'[k] = grants[k]
  BY <1>4, <1>6, <1>12 DEF UsableRows, LiveRows
<1>14. SameRows
  BY <1>2, <1>8, <1>13, LiveNext DEF SameRows, Leaves
<1>15. LiveCredentials' = (LiveCredentials \ {c}) \cup {e}
  BY <1>2, <1>8, <1>12, LiveAfterRotation DEF Leaves
<1>16. c \in LiveCredentials /\ c \in Minted /\ e \in Minted
  <2>1. d \in UsableRows(grants) /\ d \in RefreshTokens
    BY <1>0, <1>4, <1>5 DEF UsableRows, LiveRows, IsTable, old
  <2> QED BY <1>3, <2>1, LiveAre DEF Minted
<1>17. e \notin LiveCredentials
  BY <1>6, LiveAre DEF LiveRows, UsableRows
<1>18. Cardinality({x \in LiveCredentials : x[1] = e[1]} \ {c}) < Capacities[e[1]]
  <2> DEFINE A == Active(grants)
  <2>1. UsableRows(grants) \subseteq A /\ A \subseteq DOMAIN grants /\ d \in A
    BY <1>4, <1>5 DEF UsableRows, LiveRows, Active, old
  <2>2. {x \in LiveCredentials : x[1] = e[1]} \ {c} \subseteq {"refresh"} \X (A \ {d})
    BY <1>7, <2>1 DEF LiveCredentials, UsableRows
  <2>3. IsFiniteSet(A) /\ Cardinality(A) \in Nat /\ MaxRefreshGrants \in Nat
    BY <1>0, <2>1, FS_Subset, FS_CardinalityType, StatePolicyAssumption
       DEF ValidStatePolicy
  <2> HIDE DEF A
  <2>4. IsFiniteSet(A \ {d}) /\ Cardinality(A \ {d}) = Cardinality(A) - 1
    BY <2>1, <2>3, FS_RemoveElement
  <2>5. Cardinality(A \ {d}) < MaxRefreshGrants
    <3>1. Cardinality(A) =< MaxRefreshGrants
      BY <1>0 DEF A
    <3> QED BY <2>3, <2>4, <3>1
  <2>6. Cardinality({x \in LiveCredentials : x[1] = e[1]} \ {c}) < MaxRefreshGrants
    <3> DEFINE B == A \ {d}
               K == {x \in LiveCredentials : x[1] = e[1]} \ {c}
    <3>1. K \subseteq {"refresh"} \X B /\ IsFiniteSet(B) /\ Cardinality(B) < MaxRefreshGrants
      BY <2>2, <2>4, <2>5
    <3> HIDE DEF B, K
    <3>2. Cardinality(K) < MaxRefreshGrants
      BY <2>3, <3>1, KindCount
    <3> QED BY <3>2 DEF K
  <2> QED BY <1>7, <2>6 DEF Capacities
<1>19. /\ AuthorityOf(c) = AuthorityOfGrant(old)
       /\ AuthorityOf(e)' = AuthorityOfGrant(row)
  BY <1>12 DEF AuthorityOf, old
<1>20. Ledger!Narrows(AuthorityOf(c), AuthorityOf(e)', e[1])
  <2> DEFINE a == AuthorityOfGrant(old)
             b == AuthorityOfGrant(row)
  <2>1. /\ a.client = old.client /\ a.resource = old.resource
        /\ a.scopes = old.scopes /\ a.subject = {old.subject} /\ a.ends = {old.expires}
        /\ a.bound = {}
    BY AuthorityFields
  <2>2. /\ b.client = row.client /\ b.resource = row.resource
        /\ b.scopes = row.scopes /\ b.subject = {row.subject} /\ b.ends = {row.expires}
        /\ b.bound = {}
    BY AuthorityFields
  <2> HIDE DEF a, b
  <2>3. Ledger!Narrows(a, b, e[1])
    BY <1>7, <1>5, <2>1, <2>2 DEF Ledger!Narrows
  <2> QED BY <1>19, <2>3 DEF a, b
<1>21. AuthorityOf(e)'.expires > clock
  BY <1>5, <1>19 DEF AuthorityOfGrant
<1> HIDE DEF c, e
<1> QED BY <1>2, <1>6, <1>7, <1>14, <1>15, <1>16, <1>17, <1>18, <1>20, <1>21, Moves

\* A family has at most one token that can be used.
LEMMA OneUsable ==
    ASSUME GrantInv, NEW d \in UsableRows(grants), NEW e \in UsableRows(grants),
           grants[d].family = grants[e].family
    PROVE  d = e
<1>1. /\ d \in DOMAIN grants /\ e \in DOMAIN grants
      /\ ~grants[d].consumed /\ ~grants[e].consumed
  BY DEF UsableRows, LiveRows
<1>2. /\ grants[d].generation = grants[e].generation => d = e
      /\ ~(grants[d].generation < grants[e].generation)
      /\ ~(grants[e].generation < grants[d].generation)
  BY <1>1 DEF GrantInv, FamilyInv
<1>3. grants[d].generation \in Nat /\ grants[e].generation \in Nat
  BY <1>1 DEF GrantInv, CredentialInv, TypeOK, StoreTypeOK, IsTable, Grant
<1> QED BY <1>2, <1>3

\* A replay, a lost race, the generation limit, an ineligible subject or a
\* revocation request ends the authority of a family, if any is left.
LEMMA RevocationLedger ==
    ASSUME TicksPerSecond = 1, CapacityInv, NEW T, NEW f,
           T = grants \/ T = PruneFamilies(grants),
           grants' = RevokeRows(T, f), minted' = minted, clock' = clock,
           Leaves(authorizations, authorizations', LiveRows(authorizations)),
           Leaves(consents, consents', LiveRows(consents)),
           Leaves(codes, codes', LiveRows(codes))
    PROVE  Ledger!LedgerNext \/ UNCHANGED Ledger!ledgerVars
<1>0. /\ TypeOK /\ GrantInv /\ IsTable(grants, RefreshTokens, Grant)
      /\ IsTable(T, RefreshTokens, Grant)
  BY PruneTable DEF CapacityInv, GrantInv, CredentialInv, TypeOK, StoreTypeOK
<1>1. LeavesUsable(grants, T, UsableRows(grants))
  BY <1>0, PrunesLeave, NothingLeaves
<1>2. /\ DOMAIN grants' = DOMAIN T
      /\ \A d \in DOMAIN T : /\ grants'[d].consumed = T[d].consumed
                             /\ grants'[d].expires = T[d].expires
                             /\ grants'[d].revoked <=> (T[d].revoked \/ T[d].family = f)
  BY <1>0, RevokeFacts
<1>3. \A d \in DOMAIN T : T[d].family # f => grants'[d] = T[d]
  BY DEF RevokeRows
<1>4. /\ UsableRows(T) = UsableRows(grants) /\ \A d \in UsableRows(T) : d \in DOMAIN T /\ T[d] = grants[d]
  BY <1>1 DEF LeavesUsable, UsableRows, LiveRows
<1>5. LeavesUsable(grants, grants', {d \in UsableRows(grants) : grants[d].family # f})
  <2>1. ASSUME NEW d PROVE d \in UsableRows(grants') <=> d \in UsableRows(T) /\ T[d].family # f
    BY <1>2 DEF UsableRows, LiveRows
  <2> QED BY <1>3, <1>4, <2>1 DEF LeavesUsable
<1>6. Issued' = Issued
  BY DEF Issued
<1>7. CASE \E d \in UsableRows(grants) : grants[d].family = f
  <2>1. PICK d \in UsableRows(grants) : grants[d].family = f
    BY <1>7
  <2> DEFINE c == <<"refresh", d>>
  <2>2. {k \in UsableRows(grants) : grants[k].family # f} = UsableRows(grants) \ {d}
    BY <1>0, <2>1, OneUsable
  <2>3. LeavesUsable(grants, grants', UsableRows(grants) \ {d})
    BY <1>5, <2>2
  <2>4. SameRows
    BY <2>3, LiveNext DEF SameRows, Leaves, LeavesUsable
  <2>5. LiveCredentials' = LiveCredentials \ {c}
    BY <2>3, LiveAfterRevocation DEF Leaves, LeavesUsable
  <2>6. c \in LiveCredentials /\ c \in Minted /\ c[1] \in {"consent", "refresh"}
    <3>1. d \in RefreshTokens
      BY <1>0, <2>1 DEF UsableRows, LiveRows, IsTable
    <3> QED BY <2>1, <3>1, LiveAre DEF Minted
  <2> HIDE DEF c
  <2>7. Ledger!LedgerNext
    BY <1>6, <2>4, <2>5, <2>6, Drops
  <2> QED BY <2>7
<1>8. CASE ~\E d \in UsableRows(grants) : grants[d].family = f
  <2>1. {k \in UsableRows(grants) : grants[k].family # f} = UsableRows(grants)
    BY <1>8
  <2>2. LeavesUsable(grants, grants', UsableRows(grants))
    BY <1>5, <2>1
  <2> QED BY <1>6, <2>2, QuietLedger
<1> QED BY <1>7, <1>8

-----------------------------------------------------------------------------
(* Every step is a step of the ledger or leaves it alone                   *)

LEMMA StepLedger ==
    ASSUME TicksPerSecond = 1, CapacityInv, [Next]_vars
    PROVE  [Ledger!LedgerNext]_(Ledger!ledgerVars)
<1> DEFINE Goal == Ledger!LedgerNext \/ UNCHANGED Ledger!ledgerVars
<1> SUFFICES Goal
  OBVIOUS
<1>0. TypeOK
  BY DEF CapacityInv, GrantInv, CredentialInv
<1>p. /\ Leaves(authorizations, PruneRows(authorizations), LiveRows(authorizations))
      /\ Leaves(consents, PruneRows(consents), LiveRows(consents))
      /\ Leaves(codes, PruneRows(codes), LiveRows(codes))
      /\ LeavesUsable(grants, PruneFamilies(grants), UsableRows(grants))
  BY <1>0, PrunesLeave
<1>s. /\ Leaves(authorizations, authorizations, LiveRows(authorizations))
      /\ Leaves(consents, consents, LiveRows(consents))
      /\ Leaves(codes, codes, LiveRows(codes))
      /\ LeavesUsable(grants, grants, UsableRows(grants))
  BY NothingLeaves
<1>u. ASSUME UNCHANGED <<clock, authorizations, consents, codes, grants, minted>> PROVE Goal
  <2>1. Issued' = Issued
    BY <1>u DEF Issued
  <2> QED BY <1>s, <1>u, <2>1, QuietLedger
<1>1. ASSUME NEW r \in Requests,
             \/ RegisterStart(r) \/ BeginGetClient(r) \/ LoginGetAuthorization(r)
             \/ LoginGetClient(r) \/ ConsentGet(r) \/ ExchangeGetCode(r)
             \/ RefreshGetGrant(r) \/ RevokeGetGrant(r) \/ Fail(r)
      PROVE  Goal
  <2>1. ReadOnly
    BY <1>1 DEF RegisterStart, BeginGetClient, LoginGetAuthorization, LoginGetClient,
                ConsentGet, ExchangeGetCode, RefreshGetGrant, RevokeGetGrant, Fail
  <2> QED BY <1>u, <2>1 DEF ReadOnly, storeVars, ghostVars
<1>2. ASSUME NEW r \in Requests, RegisterCommit(r) PROVE Goal
  <2>1. PICK id : minted' = minted \cup {<<"client", id>>}
    BY <1>2 DEF RegisterCommit
  <2>2. Issued' = Issued
    BY <2>1 DEF Issued, CredentialKinds
  <2>3. /\ authorizations' = PruneRows(authorizations) /\ consents' = PruneRows(consents)
        /\ codes' = PruneRows(codes) /\ grants' = PruneFamilies(grants) /\ clock' = clock
    BY <1>2 DEF RegisterCommit, RegisterClient
  <2> QED BY <1>p, <2>2, <2>3, QuietLedger
<1>3. ASSUME NEW r \in Requests, BeginTouchClient(r) PROVE Goal
  BY <1>3, <1>u DEF BeginTouchClient, TouchClient, ghostVars
<1>4. ASSUME NEW r \in Requests, RefreshRevokeFamily(r) \/ RevokeCommit(r) PROVE Goal
  <2>1. PICK f : /\ grants' = RevokeRows(grants, f)
                 /\ UNCHANGED <<authorizations, consents, codes, clock, minted>>
    BY <1>4 DEF RefreshRevokeFamily, RevokeCommit, RevokeRefreshFamily, ghostVars
  <2> QED BY <1>s, <2>1, RevocationLedger
<1>5. ASSUME NEW r \in Requests, RefreshLosesRace(r) \/ RefreshReachesLimit(r) PROVE Goal
  <2>1. PICK f : grants' = RevokeRows(PruneFamilies(grants), f)
    BY <1>5 DEF RefreshLosesRace, RotationOfSpentGrant, RefreshReachesLimit, RotationPastLimit
  <2>2. /\ authorizations' = PruneRows(authorizations) /\ consents' = PruneRows(consents)
        /\ codes' = PruneRows(codes) /\ UNCHANGED <<clock, minted>>
    BY <1>5 DEF RefreshLosesRace, RefreshReachesLimit, PruneBesidesGrants, ghostVars
  <2> DEFINE T == PruneFamilies(grants)
  <2>3. T = PruneFamilies(grants) /\ grants' = RevokeRows(T, f)
    BY <2>1
  <2> HIDE DEF T
  <2> QED BY <1>p, <2>2, <2>3, RevocationLedger
<1>6. CASE Crash
  BY <1>6, <1>u DEF Crash, ReadOnly, storeVars, ghostVars
<1>7. CASE HostPrune
  <2>1. /\ authorizations' = PruneRows(authorizations) /\ consents' = PruneRows(consents)
        /\ codes' = PruneRows(codes) /\ grants' = PruneFamilies(grants)
        /\ UNCHANGED <<clock, minted>>
    BY <1>7 DEF HostPrune, Prune, PruneBesidesGrants, ghostVars
  <2>2. Issued' = Issued
    BY <2>1 DEF Issued
  <2> QED BY <1>p, <2>1, <2>2, QuietLedger
<1>8. CASE Tick
  BY <1>0, <1>8, Instants, Passes
<1>9. CASE UNCHANGED vars
  BY <1>9, <1>u DEF vars
<1> HIDE DEF Goal
<1>10. Ledger!LedgerNext => Goal
  BY DEF Goal
<1> QED BY <1>1, <1>2, <1>3, <1>4, <1>5, <1>6, <1>7, <1>8, <1>9, <1>10, BeginLedger,
           LoginLedger, ApprovalLedger, DenialLedger, ExchangeLedger, RotationLedger
        DEF Next, Step

\* However requests interleave, read stale rows, are pruned under, fail or
\* crash, authority lies with one credential at a time, moves to a new one,
\* only narrows, and stays within the capacities.  The clock counts whole
\* seconds: with fractions a prune deletes credentials before they expire,
\* which no step of the ledger does.
THEOREM ImplementsLedgerCorrect ==
    ASSUME TicksPerSecond = 1
    PROVE  Spec => ImplementsLedger
<1>1. Spec => []CapacityInv
  BY InitCapacity, NextCapacity, PTL DEF Spec
<1>2. CapacityInv /\ [Next]_vars => [Ledger!LedgerNext]_(Ledger!ledgerVars)
  BY StepLedger
<1>3. Init => Ledger!LedgerInit
  BY LedgerStarts
<1> QED BY <1>1, <1>2, <1>3, PTL DEF Spec, ImplementsLedger, Ledger!LedgerSpec
=============================================================================
