-------------------------- MODULE ConformanceProofs -------------------------
(***************************************************************************)
(* memorytest and sqlitestore are one store: driven by the same calls they *)
(* hold the same clients and the same unexpired rows, and therefore give   *)
(* every call the same answer.  Whole seconds are assumed: with a finer    *)
(* clock sqlitestore prunes by text order and memorytest by time order.    *)
(***************************************************************************)
EXTENDS StoreConformance, FiniteSetTheorems, TLAPS

-----------------------------------------------------------------------------
(* The rows that have not expired                                          *)

LiveRows(T, now) == Restrict(T, {d \in DOMAIN T : T[d].expires > now})

\* A family is kept as a whole, for as long as one of its grants is live.
LiveFamilies(T, now) ==
    Restrict(T, {d \in DOMAIN T : \E e \in DOMAIN T : /\ T[e].family = T[d].family
                                                      /\ T[e].expires > now})

Dated(T) == \A d \in DOMAIN T : T[d].expires \in Int

\* In whole seconds no text has a fraction, and the texts sort like the instants.
LEMMA TextOrder ==
    ASSUME TicksPerSecond = 1, NEW t \in Int, NEW u \in Int
    PROVE  TextAfter(t, u) <=> t > u
<1>1. ASSUME NEW x \in Int PROVE Second(x) = x /\ Fraction(x) = 0
  <2>1. Second(x) = x /\ x % 1 = 0
    BY DEF Second
  <2>2. Fraction(x) = 0 * (Nanoseconds \div 1)
    BY <2>1 DEF Fraction
  <2> QED BY <2>1, <2>2 DEF Nanoseconds
<1>2. ~FractionAfter(0, 0)
  BY DEF FractionAfter, Continues
<1> QED BY <1>1, <1>2 DEF TextAfter

\* pruneTx and pruneExpiredLocked leave the same rows of a table.
LEMMA PrunedIsLive ==
    ASSUME TicksPerSecond = 1, clock \in Int, NEW T, Dated(T)
    PROVE  /\ PruneRows(T) = LiveRows(T, clock)
           /\ PruneFamilies(T) = LiveFamilies(T, clock)
           /\ Memory!pruneExpired(T) = LiveRows(T, clock)
           /\ Memory!pruneExpiredFamilies(T) = LiveFamilies(T, clock)
<1>1. \A d \in DOMAIN T : TextAfter(T[d].expires, clock) <=> T[d].expires > clock
  BY TextOrder DEF Dated
<1>2. {d \in DOMAIN T : TextAfter(T[d].expires, clock)} = {d \in DOMAIN T : T[d].expires > clock}
  BY <1>1
<1>3. {d \in DOMAIN T : \E e \in DOMAIN T : /\ T[e].family = T[d].family
                                            /\ TextAfter(T[e].expires, clock)}
      = {d \in DOMAIN T : \E e \in DOMAIN T : /\ T[e].family = T[d].family
                                              /\ T[e].expires > clock}
  BY <1>1
<1>4. PruneRows(T) = LiveRows(T, clock)
  BY <1>2 DEF PruneRows, LiveRows
<1>5. PruneFamilies(T) = LiveFamilies(T, clock)
  BY <1>3 DEF PruneFamilies, LiveFamilies
<1>6. Memory!pruneExpired(T) = LiveRows(T, clock)
  BY DEF Memory!pruneExpired, LiveRows, Memory!Restrict, Restrict
<1>7. Memory!pruneExpiredFamilies(T) = LiveFamilies(T, clock)
  BY DEF Memory!pruneExpiredFamilies, LiveFamilies, Memory!Restrict, Restrict
<1> QED BY <1>4, <1>5, <1>6, <1>7

\* What is live later is what is live later of what is live now.
LEMMA LiveLater ==
    ASSUME NEW T, Dated(T), NEW n \in Int, NEW m \in Int, n =< m
    PROVE  /\ LiveRows(LiveRows(T, n), m) = LiveRows(T, m)
           /\ LiveFamilies(LiveFamilies(T, n), m) = LiveFamilies(T, m)
<1>1. \A d \in DOMAIN T : T[d].expires > m => T[d].expires > n
  BY DEF Dated
<1>2. LiveRows(LiveRows(T, n), m) = LiveRows(T, m)
  <2>1. DOMAIN LiveRows(LiveRows(T, n), m) = DOMAIN LiveRows(T, m)
    BY <1>1 DEF LiveRows, Restrict
  <2>2. \A d \in DOMAIN LiveRows(T, m) : LiveRows(LiveRows(T, n), m)[d] = LiveRows(T, m)[d]
    BY <1>1 DEF LiveRows, Restrict
  <2> QED BY <2>1, <2>2 DEF LiveRows, Restrict
<1>3. LiveFamilies(LiveFamilies(T, n), m) = LiveFamilies(T, m)
  <2> DEFINE L == LiveFamilies(T, n)
  <2>1. DOMAIN L \subseteq DOMAIN T
    BY DEF LiveFamilies, Restrict
  <2>5. \A d \in DOMAIN L : L[d] = T[d]
    BY DEF LiveFamilies, Restrict
  <2>6. ASSUME NEW d \in DOMAIN T, NEW e \in DOMAIN T,
               T[e].family = T[d].family, T[e].expires > m
        PROVE  d \in DOMAIN L
    <3>1. T[e].expires > n
      BY <2>6, <1>1
    <3> QED BY <2>6, <3>1 DEF LiveFamilies, Restrict
  <2> HIDE DEF L
  <2>2. {d \in DOMAIN L : \E e \in DOMAIN L : L[e].family = L[d].family /\ L[e].expires > m}
        = {d \in DOMAIN T : \E e \in DOMAIN T : T[e].family = T[d].family /\ T[e].expires > m}
    BY <2>1, <2>5, <2>6
  <2>3. \A S \in SUBSET DOMAIN L : Restrict(L, S) = Restrict(T, S)
    BY <2>1, <2>5 DEF Restrict
  <2>4. LiveFamilies(L, m) = LiveFamilies(T, m)
    BY <2>2, <2>3 DEF LiveFamilies
  <2> QED BY <2>4 DEF L
<1> QED BY <1>2, <1>3

-----------------------------------------------------------------------------
(* A table of sqlitestore and its counterpart in memorytest at time n      *)

DatedRows(Row) == \A row \in Row : row.expires \in Int

RowPair(S, M, keys, Row, n) ==
    /\ IsTable(S, keys, Row)
    /\ IsTable(M, keys, Row)
    /\ LiveRows(S, n) = LiveRows(M, n)

FamilyPair(S, M, n) ==
    /\ IsTable(S, RefreshTokens, Grant)
    /\ IsTable(M, RefreshTokens, Grant)
    /\ LiveFamilies(S, n) = LiveFamilies(M, n)

\* Every row has an expiry.
LEMMA RowsAreDated ==
    /\ DatedRows(Authorization) /\ DatedRows(Consent) /\ DatedRows(Grant)
BY DEF DatedRows, Authorization, Consent, Grant, Time

LEMMA TableIsDated ==
    ASSUME NEW T, NEW keys, NEW Row, IsTable(T, keys, Row), DatedRows(Row)
    PROVE  Dated(T)
BY DEF IsTable, DatedRows, Dated

LEMMA LiveTable ==
    ASSUME NEW T, NEW keys, NEW Row, IsTable(T, keys, Row), NEW n
    PROVE  /\ IsTable(LiveRows(T, n), keys, Row)
           /\ IsTable(LiveFamilies(T, n), keys, Row)
BY DEF IsTable, LiveRows, LiveFamilies, Restrict

LEMMA InsertTable ==
    ASSUME NEW f, NEW keys, NEW Row, NEW k \in keys, NEW row \in Row, IsTable(f, keys, Row)
    PROVE  IsTable(Insert(f, k, row), keys, Row)
BY DEF IsTable, Insert

LEMMA ConsumeAuthorizations ==
    ASSUME NEW f, NEW keys, NEW d, IsTable(f, keys, Authorization)
    PROVE  IsTable(Consume(f, d), keys, Authorization)
BY DEF IsTable, Consume, Authorization

LEMMA ConsumeConsents ==
    ASSUME NEW f, NEW keys, NEW d, IsTable(f, keys, Consent)
    PROVE  IsTable(Consume(f, d), keys, Consent)
BY DEF IsTable, Consume, Consent

LEMMA ConsumeGrants ==
    ASSUME NEW f, NEW keys, NEW d, IsTable(f, keys, Grant)
    PROVE  IsTable(Consume(f, d), keys, Grant)
BY DEF IsTable, Consume, Grant

LEMMA RevokeGrants ==
    ASSUME NEW f, NEW keys, NEW family, IsTable(f, keys, Grant)
    PROVE  IsTable(RevokeRows(f, family), keys, Grant)
BY DEF IsTable, RevokeRows, Grant

\* A store that keeps its table and one that keeps only what is live of it
\* go on agreeing (a refused call is rolled back by one and not by the other).
LEMMA RowKept ==
    ASSUME NEW S, NEW M, NEW keys, NEW Row, NEW n \in Int, NEW s, NEW m, DatedRows(Row),
           RowPair(S, M, keys, Row, n),
           s = S \/ s = LiveRows(S, n), m = M \/ m = LiveRows(S, n)
    PROVE  RowPair(s, m, keys, Row, n)
<1>1. Dated(S)
  BY TableIsDated DEF RowPair
<1>2. LiveRows(LiveRows(S, n), n) = LiveRows(S, n)
  BY <1>1, LiveLater
<1>3. IsTable(LiveRows(S, n), keys, Row)
  BY LiveTable DEF RowPair
<1> QED BY <1>2, <1>3 DEF RowPair

LEMMA FamilyKept ==
    ASSUME NEW S, NEW M, NEW n \in Int, NEW s, NEW m,
           FamilyPair(S, M, n),
           s = S \/ s = LiveFamilies(S, n), m = M \/ m = LiveFamilies(S, n)
    PROVE  FamilyPair(s, m, n)
<1>1. Dated(S)
  BY TableIsDated, RowsAreDated DEF FamilyPair
<1>2. LiveFamilies(LiveFamilies(S, n), n) = LiveFamilies(S, n)
  BY <1>1, LiveLater
<1>3. IsTable(LiveFamilies(S, n), RefreshTokens, Grant)
  BY LiveTable DEF FamilyPair
<1> QED BY <1>2, <1>3 DEF FamilyPair

LEMMA RowLater ==
    ASSUME NEW S, NEW M, NEW keys, NEW Row, DatedRows(Row), NEW n \in Int, NEW m \in Int, n =< m,
           RowPair(S, M, keys, Row, n)
    PROVE  RowPair(S, M, keys, Row, m)
<1>1. Dated(S) /\ Dated(M)
  BY TableIsDated DEF RowPair
<1>2. LiveRows(S, m) = LiveRows(LiveRows(S, n), m)
  BY <1>1, LiveLater
<1>3. LiveRows(M, m) = LiveRows(LiveRows(M, n), m)
  BY <1>1, LiveLater
<1> QED BY <1>2, <1>3 DEF RowPair

LEMMA FamilyLater ==
    ASSUME NEW S, NEW M, NEW n \in Int, NEW m \in Int, n =< m, FamilyPair(S, M, n)
    PROVE  FamilyPair(S, M, m)
<1>1. Dated(S) /\ Dated(M)
  BY TableIsDated, RowsAreDated DEF FamilyPair
<1>2. LiveFamilies(S, m) = LiveFamilies(LiveFamilies(S, n), m)
  BY <1>1, LiveLater
<1>3. LiveFamilies(M, m) = LiveFamilies(LiveFamilies(M, n), m)
  BY <1>1, LiveLater
<1> QED BY <1>2, <1>3 DEF FamilyPair

\* A revocation does not change which families are live.
LEMMA RevokeLive ==
    ASSUME NEW T, IsTable(T, RefreshTokens, Grant), NEW n, NEW family
    PROVE  LiveFamilies(RevokeRows(T, family), n) = RevokeRows(LiveFamilies(T, n), family)
<1> DEFINE R == RevokeRows(T, family)
           L == {d \in DOMAIN T : \E e \in DOMAIN T : T[e].family = T[d].family /\ T[e].expires > n}
<1>1. DOMAIN R = DOMAIN T
  BY DEF RevokeRows
<1>2. \A d \in DOMAIN T : R[d].family = T[d].family /\ R[d].expires = T[d].expires
  BY DEF RevokeRows, IsTable, Grant
<1>3. {d \in DOMAIN R : \E e \in DOMAIN R : R[e].family = R[d].family /\ R[e].expires > n} = L
  <2> HIDE DEF R
  <2> QED BY <1>1, <1>2
<1>4. LiveFamilies(R, n) = Restrict(R, L)
  BY <1>3 DEF LiveFamilies
<1>5. LiveFamilies(T, n) = Restrict(T, L)
  BY DEF LiveFamilies
<1>6. L \subseteq DOMAIN T
  OBVIOUS
<1>7. Restrict(R, L) = RevokeRows(Restrict(T, L), family)
  <2> HIDE DEF L
  <2> QED BY <1>6 DEF Restrict, RevokeRows
<1> QED BY <1>4, <1>5, <1>7

-----------------------------------------------------------------------------
(* The invariant                                                           *)

\* The clients are the same, and never more than the limit: so a capacity
\* refusal, which memorytest does not undo, has evicted nobody.
ClientsAgree ==
    /\ IsTable(clients, ClientIDs, Client)
    /\ memClients = clients
    /\ IsFiniteSet(DOMAIN clients)
    /\ Cardinality(DOMAIN clients) =< MaxClients

TablesAgree ==
    /\ RowPair(authorizations, memAuthorizations, Transactions, Authorization, clock)
    /\ RowPair(consents, memConsents, ConsentTokens, Consent, clock)
    /\ RowPair(codes, memCodes, Codes, Consent, clock)
    /\ FamilyPair(grants, memGrants, clock)

ConformInv == clock \in Nat /\ ClientsAgree /\ TablesAgree

\* What each call prunes its tables to, in either store.
LiveAuthorizations == LiveRows(authorizations, clock)
LiveConsents == LiveRows(consents, clock)
LiveCodes == LiveRows(codes, clock)
LiveGrants == LiveFamilies(grants, clock)

LEMMA InitConform == ConformanceInit => ConformInv
<1> SUFFICES ASSUME ConformanceInit PROVE ConformInv
  OBVIOUS
<1>1. \A keys, Row : IsTable(EmptyTable, keys, Row)
  BY DEF IsTable, EmptyTable
<1>2. DOMAIN EmptyTable = {}
  BY DEF EmptyTable
<1>3. IsFiniteSet({}) /\ Cardinality({}) = 0
  BY FS_EmptySet
<1>4. 0 =< MaxClients
  BY StatePolicyAssumption DEF ValidStatePolicy
<1>5. ClientsAgree
  BY <1>1, <1>2, <1>3, <1>4 DEF ConformanceInit, StoreInit, ClientsAgree
<1>6. TablesAgree
  BY <1>1 DEF ConformanceInit, StoreInit, TablesAgree, RowPair, FamilyPair
<1> QED BY <1>5, <1>6 DEF ConformInv, ConformanceInit, StoreInit

\* In both stores a call starts from the same pruned tables.
LEMMA Views ==
    ASSUME TicksPerSecond = 1, ConformInv
    PROVE  /\ PruneRows(authorizations) = LiveAuthorizations
           /\ PruneRows(consents) = LiveConsents
           /\ PruneRows(codes) = LiveCodes
           /\ PruneFamilies(grants) = LiveGrants
           /\ Memory!Auths = LiveAuthorizations
           /\ Memory!Cons = LiveConsents
           /\ Memory!Cods = LiveCodes
           /\ Memory!Grs = LiveGrants
<1>1. clock \in Int
  BY DEF ConformInv
<1>2. Dated(authorizations) /\ Dated(consents) /\ Dated(codes) /\ Dated(grants)
  BY TableIsDated, RowsAreDated DEF ConformInv, TablesAgree, RowPair, FamilyPair
<1>3. Dated(memAuthorizations) /\ Dated(memConsents) /\ Dated(memCodes) /\ Dated(memGrants)
  BY TableIsDated, RowsAreDated DEF ConformInv, TablesAgree, RowPair, FamilyPair
<1>4. /\ PruneRows(authorizations) = LiveAuthorizations
      /\ PruneRows(consents) = LiveConsents
      /\ PruneRows(codes) = LiveCodes
      /\ PruneFamilies(grants) = LiveGrants
  BY <1>1, <1>2, PrunedIsLive DEF LiveAuthorizations, LiveConsents, LiveCodes, LiveGrants
<1>5. /\ Memory!pruneExpired(memAuthorizations) = LiveRows(memAuthorizations, clock)
      /\ Memory!pruneExpired(memConsents) = LiveRows(memConsents, clock)
      /\ Memory!pruneExpired(memCodes) = LiveRows(memCodes, clock)
      /\ Memory!pruneExpiredFamilies(memGrants) = LiveFamilies(memGrants, clock)
  BY <1>1, <1>3, PrunedIsLive
<1>6. /\ LiveRows(memAuthorizations, clock) = LiveAuthorizations
      /\ LiveRows(memConsents, clock) = LiveConsents
      /\ LiveRows(memCodes, clock) = LiveCodes
      /\ LiveFamilies(memGrants, clock) = LiveGrants
  BY DEF ConformInv, TablesAgree, RowPair, FamilyPair, LiveAuthorizations, LiveConsents,
         LiveCodes, LiveGrants
<1>7. /\ Memory!Auths = LiveAuthorizations
      /\ Memory!Cons = LiveConsents
      /\ Memory!Cods = LiveCodes
      /\ Memory!Grs = LiveGrants
  BY <1>5, <1>6 DEF Memory!Auths, Memory!Cons, Memory!Cods, Memory!Grs
<1> QED BY <1>4, <1>7

\* An unexpired grant is in a live family, so the live grants are the same.
LEMMA LiveGrantKept ==
    ASSUME NEW T, NEW n
    PROVE  /\ DOMAIN LiveFamilies(T, n) \subseteq DOMAIN T
           /\ \A d \in DOMAIN LiveFamilies(T, n) : LiveFamilies(T, n)[d] = T[d]
           /\ \A d \in DOMAIN T : T[d].expires > n => d \in DOMAIN LiveFamilies(T, n)
<1>1. DOMAIN LiveFamilies(T, n) = {d \in DOMAIN T : \E e \in DOMAIN T :
                                     T[e].family = T[d].family /\ T[e].expires > n}
  BY DEF LiveFamilies, Restrict
<1>2. \A d \in DOMAIN LiveFamilies(T, n) : LiveFamilies(T, n)[d] = T[d]
  BY DEF LiveFamilies, Restrict
<1>3. \A d \in DOMAIN T : T[d].expires > n => d \in DOMAIN LiveFamilies(T, n)
  BY <1>1
<1> QED BY <1>1, <1>2, <1>3

LEMMA LiveRowKept ==
    ASSUME NEW T, NEW n
    PROVE  /\ DOMAIN LiveRows(T, n) = {d \in DOMAIN T : T[d].expires > n}
           /\ \A d \in DOMAIN LiveRows(T, n) : LiveRows(T, n)[d] = T[d]
BY DEF LiveRows, Restrict

\* pruneClientsTx and the eviction of memorytest keep the same clients.
KeptClients ==
    RetainedClients(LiveAuthorizations, LiveConsents, LiveCodes, LiveGrants)

HasLiveRow(T, id, n) ==
    \E d \in DOMAIN T : T[d].binding.client = id /\ ~T[d].consumed /\ T[d].expires > n

HasLiveGrant(T, id, n) ==
    \E d \in DOMAIN T : T[d].client = id /\ ~T[d].revoked /\ T[d].expires > n

LEMMA LiveRowOwner ==
    ASSUME NEW T, NEW id, NEW n
    PROVE  HasLiveRow(LiveRows(T, n), id, n) <=> HasLiveRow(T, id, n)
<1> DEFINE L == LiveRows(T, n)
<1>1. DOMAIN L = {d \in DOMAIN T : T[d].expires > n} /\ \A d \in DOMAIN L : L[d] = T[d]
  BY LiveRowKept
<1> HIDE DEF L
<1>2. HasLiveRow(L, id, n) <=> HasLiveRow(T, id, n)
  BY <1>1 DEF HasLiveRow
<1> QED BY <1>2 DEF L

LEMMA LiveGrantOwner ==
    ASSUME NEW T, NEW id, NEW n
    PROVE  HasLiveGrant(LiveFamilies(T, n), id, n) <=> HasLiveGrant(T, id, n)
<1> DEFINE L == LiveFamilies(T, n)
<1>1. DOMAIN L \subseteq DOMAIN T
  BY LiveGrantKept
<1>2. \A d \in DOMAIN L : L[d] = T[d]
  BY LiveGrantKept
<1>3. \A d \in DOMAIN T : T[d].expires > n => d \in DOMAIN L
  BY LiveGrantKept
<1> HIDE DEF L
<1>4. HasLiveGrant(L, id, n) <=> HasLiveGrant(T, id, n)
  BY <1>1, <1>2, <1>3 DEF HasLiveGrant
<1> QED BY <1>4 DEF L

LEMMA KeptTogether ==
    ASSUME TicksPerSecond = 1, ConformInv
    PROVE  /\ Memory!UsedClients = KeptClients
           /\ DOMAIN KeptClients \subseteq DOMAIN clients
           /\ IsTable(KeptClients, ClientIDs, Client)
<1>1. clock \in Int
  BY DEF ConformInv
<1>2. /\ LiveRows(memAuthorizations, clock) = LiveAuthorizations
      /\ LiveRows(memConsents, clock) = LiveConsents
      /\ LiveRows(memCodes, clock) = LiveCodes
      /\ LiveFamilies(memGrants, clock) = LiveGrants
  BY DEF ConformInv, TablesAgree, RowPair, FamilyPair, LiveAuthorizations, LiveConsents,
         LiveCodes, LiveGrants
<1>3. ASSUME NEW id
      PROVE  Memory!clientHasLiveState(id)
             <=> \/ HasLiveRow(LiveAuthorizations, id, clock)
                 \/ HasLiveRow(LiveConsents, id, clock)
                 \/ HasLiveRow(LiveCodes, id, clock)
                 \/ HasLiveGrant(LiveGrants, id, clock)
  <2>1. Memory!clientHasLiveState(id)
        <=> \/ HasLiveRow(memAuthorizations, id, clock)
            \/ HasLiveRow(memConsents, id, clock)
            \/ HasLiveRow(memCodes, id, clock)
            \/ HasLiveGrant(memGrants, id, clock)
    BY DEF Memory!clientHasLiveState, HasLiveRow, HasLiveGrant
  <2>2. HasLiveRow(memAuthorizations, id, clock) <=> HasLiveRow(LiveAuthorizations, id, clock)
    BY <1>2, LiveRowOwner
  <2>3. HasLiveRow(memConsents, id, clock) <=> HasLiveRow(LiveConsents, id, clock)
    BY <1>2, LiveRowOwner
  <2>4. HasLiveRow(memCodes, id, clock) <=> HasLiveRow(LiveCodes, id, clock)
    BY <1>2, LiveRowOwner
  <2>5. HasLiveGrant(memGrants, id, clock) <=> HasLiveGrant(LiveGrants, id, clock)
    BY <1>2, LiveGrantOwner
  <2> QED BY <2>1, <2>2, <2>3, <2>4, <2>5
<1>4. /\ Dated(LiveAuthorizations) /\ Dated(LiveConsents)
      /\ Dated(LiveCodes) /\ Dated(LiveGrants)
  <2>1. /\ IsTable(LiveAuthorizations, Transactions, Authorization)
        /\ IsTable(LiveConsents, ConsentTokens, Consent)
        /\ IsTable(LiveCodes, Codes, Consent)
        /\ IsTable(LiveGrants, RefreshTokens, Grant)
    BY LiveTable DEF ConformInv, TablesAgree, RowPair, FamilyPair, LiveAuthorizations,
                     LiveConsents, LiveCodes, LiveGrants
  <2> QED BY <2>1, TableIsDated, RowsAreDated
<1>5. ASSUME NEW id
      PROVE  id \in Referenced(LiveAuthorizations, LiveConsents, LiveCodes, LiveGrants)
             <=> \/ HasLiveRow(LiveAuthorizations, id, clock)
                 \/ HasLiveRow(LiveConsents, id, clock)
                 \/ HasLiveRow(LiveCodes, id, clock)
                 \/ HasLiveGrant(LiveGrants, id, clock)
  <2>1. \A T : Dated(T) => \A d \in DOMAIN T : TextAfter(T[d].expires, clock)
                                               <=> T[d].expires > clock
    BY <1>1, TextOrder DEF Dated
  <2>2. \A T : Dated(T) =>
          (id \in {T[d].binding.client : d \in
                     {d \in DOMAIN T : ~T[d].consumed /\ TextAfter(T[d].expires, clock)}}
           <=> HasLiveRow(T, id, clock))
    BY <2>1 DEF HasLiveRow
  <2>3. \A T : Dated(T) =>
          (id \in {T[d].client : d \in
                     {d \in DOMAIN T : ~T[d].revoked /\ TextAfter(T[d].expires, clock)}}
           <=> HasLiveGrant(T, id, clock))
    BY <2>1 DEF HasLiveGrant
  <2> QED BY <1>4, <2>2, <2>3 DEF Referenced
<1>6. \A c \in DOMAIN clients : TextAfter(clients[c].lastUsed, clock - UnverifiedClientTTL)
                                <=> clients[c].lastUsed > clock - UnverifiedClientTTL
  <2>1. \A c \in DOMAIN clients : clients[c].lastUsed \in Int
    BY DEF ConformInv, ClientsAgree, IsTable, Client, Time
  <2>2. clock - UnverifiedClientTTL \in Int
    BY <1>1, StatePolicyAssumption DEF ValidStatePolicy
  <2> QED BY <2>1, <2>2, TextOrder
<1> DEFINE K == {c \in DOMAIN clients :
                   \/ clients[c].lastUsed > clock - UnverifiedClientTTL
                   \/ Memory!clientHasLiveState(c)}
<1>7. {c \in DOMAIN clients :
         \/ TextAfter(clients[c].lastUsed, clock - UnverifiedClientTTL)
         \/ c \in Referenced(LiveAuthorizations, LiveConsents, LiveCodes, LiveGrants)} = K
  BY <1>3, <1>5, <1>6
<1>8. KeptClients = Restrict(clients, K)
  BY <1>7 DEF KeptClients, RetainedClients
<1>9. Memory!UsedClients = Restrict(clients, K)
  BY DEF Memory!UsedClients, Memory!Restrict, Restrict, ConformInv, ClientsAgree
<1>10. K \subseteq DOMAIN clients
  OBVIOUS
<1> HIDE DEF K
<1>11. DOMAIN Restrict(clients, K) \subseteq DOMAIN clients
  BY <1>10 DEF Restrict
<1>12. IsTable(Restrict(clients, K), ClientIDs, Client)
  BY <1>10 DEF Restrict, IsTable, ConformInv, ClientsAgree
<1> QED BY <1>8, <1>9, <1>11, <1>12

-----------------------------------------------------------------------------
(* The answers                                                             *)

\* decodeRefresh loses nothing of a grant that is neither spent nor revoked.
LEMMA DecodeUnspent ==
    ASSUME NEW row \in Grant, ~row.consumed, ~row.revoked
    PROVE  decodeRefresh(row) = row
BY DEF decodeRefresh, Grant

\* Both stores count alike.
LEMMA CountsAlike ==
    ASSUME NEW S
    PROVE  Memory!Cardinality(S) = Cardinality(S)
BY DEF Memory!Cardinality, Cardinality

LEMMA RegisterAnswers ==
    ASSUME TicksPerSecond = 1, ConformInv, NEW id
    PROVE  RegisterClientAnswer(id) = Memory!MemRegisterClientAnswer(id)
BY Views, KeptTogether, CountsAlike
   DEF RegisterClientAnswer, Memory!MemRegisterClientAnswer, Memory!Admission, KeptClients

LEMMA TouchAnswers ==
    ASSUME TicksPerSecond = 1, ConformInv, NEW id
    PROVE  TouchClientAnswer(id) = Memory!MemTouchClientAnswer(id)
BY DEF TouchClientAnswer, Memory!MemTouchClientAnswer, ConformInv, ClientsAgree

LEMMA CreateAnswers ==
    ASSUME TicksPerSecond = 1, ConformInv, NEW d
    PROVE  CreateAuthorizationAnswer(d) = Memory!MemCreateAuthorizationAnswer(d)
BY Views, CountsAlike DEF CreateAuthorizationAnswer, Memory!MemCreateAuthorizationAnswer, Memory!Admission

LEMMA LoginAnswers ==
    ASSUME TicksPerSecond = 1, ConformInv, NEW d, NEW t, NEW consent
    PROVE  CommitLoginAnswer(d, t, consent) = Memory!MemCommitLoginAnswer(d, t, consent)
<1>1. \A auth : Memory!LoginCommitError(auth, consent) = LoginCommitError(auth, consent)
  BY DEF LoginCommitError, Memory!LoginCommitError, ValidateLoginCommit,
         Memory!ValidateLoginCommit
<1> QED BY <1>1, Views, CountsAlike
        DEF CommitLoginAnswer, Memory!MemCommitLoginAnswer, Memory!Admission

LEMMA DenialAnswers ==
    ASSUME TicksPerSecond = 1, ConformInv, NEW d
    PROVE  CommitDenialAnswer(d) = Memory!MemCommitDenialAnswer(d)
<1>1. \A consent : Memory!ConsentCommitError(consent) = ConsentCommitError(consent)
  BY DEF ConsentCommitError, Memory!ConsentCommitError
<1> QED BY <1>1, Views DEF CommitDenialAnswer, Memory!MemCommitDenialAnswer

LEMMA ApprovalAnswers ==
    ASSUME TicksPerSecond = 1, ConformInv, NEW d, NEW t, NEW code
    PROVE  CommitApprovalAnswer(d, t, code) = Memory!MemCommitApprovalAnswer(d, t, code)
<1>1. \A consent : Memory!ApprovalError(consent, code) = ApprovalError(consent, code)
  BY DEF ApprovalError, Memory!ApprovalError, ConsentCommitError, Memory!ConsentCommitError,
         ValidateApprovedCode, Memory!ValidateApprovedCode
<1> QED BY <1>1, Views, CountsAlike
        DEF CommitApprovalAnswer, Memory!MemCommitApprovalAnswer, Memory!Admission

LEMMA ExchangeAnswers ==
    ASSUME TicksPerSecond = 1, ConformInv, NEW d, NEW t, NEW refresh
    PROVE  CommitCodeExchangeAnswer(d, t, refresh)
             = Memory!MemCommitCodeExchangeAnswer(d, t, refresh)
<1>1. \A code : Memory!CodeExchangeError(code, refresh) = CodeExchangeError(code, refresh)
  BY DEF CodeExchangeError, Memory!CodeExchangeError, ValidateCodeExchangeCommit,
         Memory!ValidateCodeExchangeCommit
<1>2. Memory!activeRefreshGrantCount = Cardinality(Active(LiveGrants))
  BY Views, CountsAlike DEF Active, Memory!activeRefreshGrantCount
<1> QED BY <1>1, <1>2, Views, CountsAlike
        DEF CommitCodeExchangeAnswer, Memory!MemCommitCodeExchangeAnswer, Memory!Admission

LEMMA RotationAnswers ==
    ASSUME TicksPerSecond = 1, ConformInv,
           NEW d, NEW family, NEW generation, NEW t, NEW next
    PROVE  CommitRefreshRotationAnswer(d, family, generation, t, next)
             = Memory!MemCommitRefreshRotationAnswer(d, family, generation, t, next)
<1>1. \A row : Memory!RefreshRotationError(row, next) = RefreshRotationError(row, next)
  BY DEF RefreshRotationError, Memory!RefreshRotationError, ValidateRefreshRotation,
         Memory!ValidateRefreshRotation
<1>2. \A e \in DOMAIN LiveGrants : LiveGrants[e] \in Grant
  BY LiveTable DEF LiveGrants, ConformInv, TablesAgree, FamilyPair, IsTable
<1>3. \A e \in DOMAIN LiveGrants :
        ~LiveGrants[e].consumed /\ ~LiveGrants[e].revoked
          => decodeRefresh(LiveGrants[e]) = LiveGrants[e]
  BY <1>2, DecodeUnspent
<1> HIDE DEF LiveGrants
<1>4. PruneFamilies(grants) = LiveGrants /\ Memory!Grs = LiveGrants
  BY Views
<1>5. CASE d \notin DOMAIN LiveGrants
  BY <1>4, <1>5 DEF CommitRefreshRotationAnswer, Memory!MemCommitRefreshRotationAnswer
<1>6. CASE d \in DOMAIN LiveGrants /\ (LiveGrants[d].consumed \/ LiveGrants[d].revoked)
  BY <1>4, <1>6 DEF CommitRefreshRotationAnswer, Memory!MemCommitRefreshRotationAnswer
<1>7. CASE d \in DOMAIN LiveGrants /\ ~LiveGrants[d].consumed /\ ~LiveGrants[d].revoked
  BY <1>1, <1>3, <1>4, <1>7
     DEF CommitRefreshRotationAnswer, Memory!MemCommitRefreshRotationAnswer
<1> QED BY <1>5, <1>6, <1>7

LEMMA ConformAnswers ==
    ASSUME TicksPerSecond = 1, ConformInv
    PROVE  AnswersAgree
BY RegisterAnswers, TouchAnswers, CreateAnswers, LoginAnswers, DenialAnswers, ApprovalAnswers,
   ExchangeAnswers, RotationAnswers
   DEF AnswersAgree

-----------------------------------------------------------------------------
(* The reads                                                               *)

LEMMA RowReads ==
    ASSUME NEW S, NEW M, NEW keys, NEW Row, RowPair(S, M, keys, Row, clock), NEW d
    PROVE  Unexpired(Found(S, d)) = Unexpired(Found(M, d))
<1>1. \A T : Unexpired(Found(T, d)) = {LiveRows(T, clock)[k] : k \in DOMAIN LiveRows(T, clock) \cap {d}}
  <2> TAKE T
  <2> DEFINE L == LiveRows(T, clock)
  <2>1. DOMAIN L = {e \in DOMAIN T : T[e].expires > clock} /\ \A e \in DOMAIN L : L[e] = T[e]
    BY LiveRowKept
  <2> HIDE DEF L
  <2>2. Unexpired(Found(T, d)) = {L[k] : k \in DOMAIN L \cap {d}}
    BY <2>1 DEF Unexpired, Found
  <2> QED BY <2>2 DEF L
<1> QED BY <1>1 DEF RowPair

LEMMA GrantReads ==
    ASSUME NEW S, NEW M, FamilyPair(S, M, clock), NEW d
    PROVE  Unexpired(Found(S, d)) = Unexpired(Found(M, d))
<1>1. \A T : Unexpired(Found(T, d)) = Unexpired(Found(LiveFamilies(T, clock), d))
  <2> TAKE T
  <2> DEFINE L == LiveFamilies(T, clock)
  <2>1. DOMAIN L \subseteq DOMAIN T
    BY LiveGrantKept
  <2>2. \A e \in DOMAIN L : L[e] = T[e]
    BY LiveGrantKept
  <2>3. \A e \in DOMAIN T : T[e].expires > clock => e \in DOMAIN L
    BY LiveGrantKept
  <2> HIDE DEF L
  <2>4. Unexpired(Found(T, d)) = Unexpired(Found(L, d))
    BY <2>1, <2>2, <2>3 DEF Unexpired, Found
  <2> QED BY <2>4 DEF L
<1> QED BY <1>1 DEF FamilyPair

\* Without its Token, a row is read back from a struct as from a payload.
LEMMA TokenReads ==
    ASSUME NEW S, NEW M, NEW token, Unexpired(S) = Unexpired(M)
    PROVE  UnexpiredReads(DecodedWithoutToken(S))
             = Blanked(UnexpiredReads(Memory!WithToken(M, token)))
<1>1. UnexpiredReads(DecodedWithoutToken(S)) = DecodedWithoutToken(Unexpired(S))
  BY DEF UnexpiredReads, DecodedWithoutToken, Unexpired
<1>2. UnexpiredReads(Memory!WithToken(M, token)) = Memory!WithToken(Unexpired(M), token)
  BY DEF UnexpiredReads, Memory!WithToken, Unexpired
<1>3. Blanked(Memory!WithToken(Unexpired(M), token)) = DecodedWithoutToken(Unexpired(M))
  <2> DEFINE R == Unexpired(M)
             W == Memory!WithToken(R, token)
  <2>1. ASSUME NEW read \in W PROVE [row |-> read.row, token |-> NoToken] \in DecodedWithoutToken(R)
    <3>1. PICK row \in R : read = [row |-> row, token |-> token]
      BY DEF Memory!WithToken
    <3>2. read.row = row
      BY <3>1
    <3> QED BY <3>2 DEF DecodedWithoutToken
  <2>2. ASSUME NEW row \in R PROVE [row |-> row, token |-> NoToken] \in Blanked(W)
    <3> DEFINE read == [row |-> row, token |-> token]
    <3>1. read \in W /\ read.row = row
      BY DEF Memory!WithToken
    <3>2. [row |-> read.row, token |-> NoToken] \in Blanked(W)
      BY <3>1 DEF Blanked
    <3> QED BY <3>1, <3>2
  <2> HIDE DEF R, W
  <2>3. Blanked(W) \subseteq DecodedWithoutToken(R)
    BY <2>1 DEF Blanked
  <2>4. DecodedWithoutToken(R) \subseteq Blanked(W)
    BY <2>2 DEF DecodedWithoutToken
  <2>5. Blanked(W) = DecodedWithoutToken(R)
    BY <2>3, <2>4
  <2> QED BY <2>5 DEF R, W
<1> QED BY <1>1, <1>2, <1>3

LEMMA ConformReads ==
    ASSUME ConformInv
    PROVE  ReadsAgree
<1>1. \A T, d : Memory!Lookup(T, d) = Found(T, d)
  BY DEF Found, Memory!Lookup
<1>2. \A id : GetClient(id) = Memory!MemGetClient(id)
  BY <1>1 DEF GetClient, Memory!MemGetClient, ConformInv, ClientsAgree
<1>3. ASSUME NEW d PROVE UnexpiredReads(ReadAuthorization(d))
                            = Blanked(UnexpiredReads(Memory!MemGetAuthorization(d)))
  <2>1. Unexpired(Found(authorizations, d)) = Unexpired(Found(memAuthorizations, d))
    BY RowReads DEF ConformInv, TablesAgree
  <2> QED BY <1>1, <2>1, TokenReads
      DEF ReadAuthorization, GetAuthorization, Memory!MemGetAuthorization
<1>4. ASSUME NEW d PROVE UnexpiredReads(ReadConsent(d))
                            = Blanked(UnexpiredReads(Memory!MemGetConsent(d)))
  <2>1. Unexpired(Found(consents, d)) = Unexpired(Found(memConsents, d))
    BY RowReads DEF ConformInv, TablesAgree
  <2> QED BY <1>1, <2>1, TokenReads DEF ReadConsent, GetConsent, Memory!MemGetConsent
<1>5. ASSUME NEW d, NEW id, NEW redirect
      PROVE  Unexpired(GetCodeForExchange(d, id, redirect))
               = Unexpired(Memory!MemGetCodeForExchange(d, id, redirect))
  <2>1. Unexpired(Found(codes, d)) = Unexpired(Found(memCodes, d))
    BY RowReads DEF ConformInv, TablesAgree
  <2>2. Memory!MemGetCodeForExchange(d, id, redirect)
          = {code \in Found(memCodes, d) :
               code.binding.client = id /\ code.binding.redirect = redirect}
    BY DEF Memory!MemGetCodeForExchange, Found
  <2> QED BY <2>1, <2>2 DEF GetCodeForExchange, Unexpired
<1>6. \A d : Unexpired(GetRefreshGrant(d)) = Unexpired(Memory!MemGetRefreshGrant(d))
  BY <1>1, GrantReads DEF GetRefreshGrant, Memory!MemGetRefreshGrant, ConformInv, TablesAgree
<1> QED BY <1>2, <1>3, <1>4, <1>5, <1>6 DEF ReadsAgree

-----------------------------------------------------------------------------
(* The calls.  In each one a table is left alone or pruned, by either      *)
(* store, or both stores write the same table.                             *)

LEMMA LiveTyped ==
    ASSUME ConformInv
    PROVE  /\ IsTable(LiveAuthorizations, Transactions, Authorization)
           /\ IsTable(LiveConsents, ConsentTokens, Consent)
           /\ IsTable(LiveCodes, Codes, Consent)
           /\ IsTable(LiveGrants, RefreshTokens, Grant)
BY LiveTable DEF ConformInv, TablesAgree, RowPair, FamilyPair, LiveAuthorizations,
                 LiveConsents, LiveCodes, LiveGrants

LEMMA AuthorizationsKept ==
    ASSUME ConformInv, clock' = clock,
           authorizations' = authorizations \/ authorizations' = LiveAuthorizations,
           memAuthorizations' = memAuthorizations \/ memAuthorizations' = LiveAuthorizations
    PROVE  RowPair(authorizations', memAuthorizations', Transactions, Authorization, clock')
<1>1. clock \in Int
  BY DEF ConformInv
<1> QED BY <1>1, RowKept, RowsAreDated DEF LiveAuthorizations, ConformInv, TablesAgree

LEMMA ConsentsKept ==
    ASSUME ConformInv, clock' = clock,
           consents' = consents \/ consents' = LiveConsents,
           memConsents' = memConsents \/ memConsents' = LiveConsents
    PROVE  RowPair(consents', memConsents', ConsentTokens, Consent, clock')
<1>1. clock \in Int
  BY DEF ConformInv
<1> QED BY <1>1, RowKept, RowsAreDated DEF LiveConsents, ConformInv, TablesAgree

LEMMA CodesKept ==
    ASSUME ConformInv, clock' = clock,
           codes' = codes \/ codes' = LiveCodes,
           memCodes' = memCodes \/ memCodes' = LiveCodes
    PROVE  RowPair(codes', memCodes', Codes, Consent, clock')
<1>1. clock \in Int
  BY DEF ConformInv
<1> QED BY <1>1, RowKept, RowsAreDated DEF LiveCodes, ConformInv, TablesAgree

LEMMA GrantsKept ==
    ASSUME ConformInv, clock' = clock,
           grants' = grants \/ grants' = LiveGrants,
           memGrants' = memGrants \/ memGrants' = LiveGrants
    PROVE  FamilyPair(grants', memGrants', clock')
<1>1. clock \in Int
  BY DEF ConformInv
<1> QED BY <1>1, FamilyKept DEF LiveGrants, ConformInv, TablesAgree

LEMMA ClientsKept ==
    ASSUME ConformInv, clients' = clients, memClients' = memClients
    PROVE  ClientsAgree'
BY DEF ConformInv, ClientsAgree

\* A call that sqlitestore rolls back and that memorytest leaves pruned.
LEMMA Refused ==
    ASSUME TicksPerSecond = 1, ConformInv, clock' = clock, UNCHANGED storeVars,
           memClients' = memClients,
           memAuthorizations' = Memory!Auths, memConsents' = Memory!Cons,
           memCodes' = Memory!Cods, memGrants' = Memory!Grs
    PROVE  ConformInv'
<1>1. ClientsAgree'
  BY ClientsKept DEF storeVars
<1>2. TablesAgree'
  BY Views, AuthorizationsKept, ConsentsKept, CodesKept, GrantsKept DEF storeVars, TablesAgree
<1> QED BY <1>1, <1>2 DEF ConformInv

\* Both stores insert, consume and revoke alike.
LEMMA WritesAlike ==
    /\ \A T, k, row : Memory!Insert(T, k, row) = Insert(T, k, row)
    /\ \A T, k : Memory!Consume(T, k) = Consume(T, k)
    /\ \A T, family : Memory!revokeFamilyLocked(T, family) = RevokeRows(T, family)
<1>1. \A T, k, row : Memory!Insert(T, k, row) = Insert(T, k, row)
  BY DEF Memory!Insert, Insert
<1>2. \A T, k : Memory!Consume(T, k) = Consume(T, k)
  BY DEF Memory!Consume, Consume
<1>3. \A T, family : Memory!revokeFamilyLocked(T, family) = RevokeRows(T, family)
  BY DEF Memory!revokeFamilyLocked, RevokeRows
<1> QED BY <1>1, <1>2, <1>3

LEMMA RegisterClientConforms ==
    ASSUME TicksPerSecond = 1, ConformInv, clock' = clock, BothRegisterClient
    PROVE  ConformInv'
<1> PICK id \in ClientIDs \ DOMAIN clients :
        /\ Atomically(RegisterClientAnswer(id), RegisterClient(id, NewClient))
        /\ Memory!MemRegisterClient(id, NewClient)
  BY DEF BothRegisterClient
<1>1. RegisterClientAnswer(id) = Memory!MemRegisterClientAnswer(id)
  BY RegisterAnswers
<1>2. Memory!UsedClients = KeptClients
  BY KeptTogether
<1>3. DOMAIN KeptClients \subseteq DOMAIN clients
  BY KeptTogether
<1>4. IsFiniteSet(DOMAIN clients) /\ IsFiniteSet(DOMAIN KeptClients)
  BY <1>3, FS_Subset DEF ConformInv, ClientsAgree
<1>5. /\ Cardinality(DOMAIN clients) \in Nat
      /\ Cardinality(DOMAIN KeptClients) \in Nat
      /\ Cardinality(DOMAIN clients) =< MaxClients
      /\ MaxClients \in Nat
  BY <1>4, FS_CardinalityType, StatePolicyAssumption
     DEF ConformInv, ClientsAgree, ValidStatePolicy
<1>6. RegisterClientAnswer(id) =
        IF Cardinality(DOMAIN KeptClients) >= MaxClients THEN "capacity"
        ELSE IF id \in DOMAIN KeptClients THEN "conflict" ELSE "ok"
  BY Views DEF RegisterClientAnswer, KeptClients
<1>7. NewClient \in Client
  BY DEF NewClient, Client, Time, ConformInv
<1>8. CASE RegisterClientAnswer(id) = "ok"
  <2>1. /\ clients' = Insert(KeptClients, id, NewClient)
        /\ authorizations' = LiveAuthorizations /\ consents' = LiveConsents
        /\ codes' = LiveCodes /\ grants' = LiveGrants
    BY <1>8, Views DEF Atomically, RegisterClient, KeptClients
  <2>2. /\ memClients' = Insert(KeptClients, id, NewClient)
        /\ memAuthorizations' = memAuthorizations /\ memConsents' = memConsents
        /\ memCodes' = memCodes /\ memGrants' = memGrants
    BY <1>8, <1>1, <1>2, WritesAlike DEF Memory!MemRegisterClient
  <2>3. Cardinality(DOMAIN KeptClients) < MaxClients
    BY <1>5, <1>6, <1>8
  <2>4. DOMAIN Insert(KeptClients, id, NewClient) = DOMAIN KeptClients \cup {id}
    BY DEF Insert
  <2>5. /\ IsFiniteSet(DOMAIN KeptClients \cup {id})
        /\ Cardinality(DOMAIN KeptClients \cup {id}) = Cardinality(DOMAIN KeptClients) + 1
    BY <1>3, <1>4, FS_AddElement
  <2>6. IsTable(Insert(KeptClients, id, NewClient), ClientIDs, Client)
    BY <1>7, KeptTogether, InsertTable
  <2>7. ClientsAgree'
    BY <1>5, <2>1, <2>2, <2>3, <2>4, <2>5, <2>6 DEF ClientsAgree
  <2>8. TablesAgree'
    BY <2>1, <2>2, AuthorizationsKept, ConsentsKept, CodesKept, GrantsKept DEF TablesAgree
  <2> QED BY <2>7, <2>8 DEF ConformInv
<1>9. CASE RegisterClientAnswer(id) # "ok"
  <2>1. Cardinality(DOMAIN KeptClients) >= MaxClients
    BY <1>3, <1>6, <1>9
  <2>2. DOMAIN KeptClients = DOMAIN clients
    BY <1>3, <1>4, <1>5, <2>1, FS_Subset
  <2>3. KeptClients = clients
    BY <2>2 DEF KeptClients, RetainedClients, Restrict, ConformInv, ClientsAgree, IsTable
  <2>4. /\ memClients' = clients
        /\ memAuthorizations' = memAuthorizations /\ memConsents' = memConsents
        /\ memCodes' = memCodes /\ memGrants' = memGrants
    BY <1>9, <1>1, <1>2, <2>3 DEF Memory!MemRegisterClient
  <2>5. /\ clients' = clients
        /\ authorizations' = authorizations /\ consents' = consents
        /\ codes' = codes /\ grants' = grants
    BY <1>9 DEF Atomically, storeVars
  <2>6. ClientsAgree'
    BY <2>4, <2>5 DEF ConformInv, ClientsAgree
  <2>7. TablesAgree'
    BY <2>4, <2>5 DEF ConformInv, TablesAgree
  <2> QED BY <2>6, <2>7 DEF ConformInv
<1> QED BY <1>8, <1>9

LEMMA TouchClientConforms ==
    ASSUME TicksPerSecond = 1, ConformInv, clock' = clock, BothTouchClient
    PROVE  ConformInv'
<1> PICK id \in ClientIDs :
        /\ Atomically(TouchClientAnswer(id), TouchClient(id, clock))
        /\ Memory!MemTouchClient(id, clock)
  BY DEF BothTouchClient
<1>1. memClients = clients
  BY DEF ConformInv, ClientsAgree
<1>2. memClients' = clients'
  BY <1>1 DEF Atomically, TouchClientAnswer, TouchClient, Memory!MemTouchClient, storeVars
<1>3. /\ authorizations' = authorizations /\ consents' = consents
      /\ codes' = codes /\ grants' = grants
  BY DEF Atomically, TouchClient, storeVars
<1>4. /\ memAuthorizations' = memAuthorizations /\ memConsents' = memConsents
      /\ memCodes' = memCodes /\ memGrants' = memGrants
  BY DEF Memory!MemTouchClient
<1>5. clients' = clients \/ clients' = [clients EXCEPT ![id].lastUsed = clock]
  BY DEF Atomically, TouchClient, storeVars
<1>6. DOMAIN clients' = DOMAIN clients
  BY <1>5
<1>7. IsTable(clients', ClientIDs, Client)
  BY <1>5 DEF ConformInv, ClientsAgree, IsTable, Client, Time
<1>8. ClientsAgree'
  BY <1>2, <1>6, <1>7 DEF ConformInv, ClientsAgree
<1>9. TablesAgree'
  BY <1>3, <1>4 DEF ConformInv, TablesAgree
<1> QED BY <1>8, <1>9 DEF ConformInv

LEMMA Proposals ==
    ASSUME clock \in Nat, NEW b \in Binding, NEW subject \in Subjects, NEW ends \in Int
    PROVE  NewConsent(b, subject, ends) \in Consent
<1>1. clock + ShortTTL \in Int
  BY ConformanceAssumption
<1> QED BY <1>1 DEF NewConsent, Consent, Time

\* The ends that are tried, and the end that a login fixes, are times.
LEMMA EndsAreTimes ==
    ASSUME clock \in Nat
    PROVE  Ends \subseteq Int /\ clock + LongTTL \in Int
BY ConformanceAssumption DEF Ends

LEMMA CreateAuthorizationConforms ==
    ASSUME TicksPerSecond = 1, ConformInv, clock' = clock, BothCreateAuthorization
    PROVE  ConformInv'
<1> PICK d \in Transactions, b \in Binding :
        /\ Atomically(CreateAuthorizationAnswer(d), CreateAuthorization(d, NewAuthorization(b)))
        /\ Memory!MemCreateAuthorization(d, NewAuthorization(b))
  BY DEF BothCreateAuthorization
<1>1. CreateAuthorizationAnswer(d) = Memory!MemCreateAuthorizationAnswer(d)
  BY CreateAnswers
<1>2. CASE CreateAuthorizationAnswer(d) = "ok"
  <2> DEFINE A == Insert(LiveAuthorizations, d, NewAuthorization(b))
  <2>1. /\ clients' = clients /\ authorizations' = A /\ consents' = LiveConsents
        /\ codes' = LiveCodes /\ grants' = LiveGrants
    BY <1>2, Views DEF Atomically, CreateAuthorization
  <2>2. /\ memClients' = memClients /\ memAuthorizations' = A /\ memConsents' = LiveConsents
        /\ memCodes' = LiveCodes /\ memGrants' = LiveGrants
    BY <1>1, <1>2, Views, WritesAlike DEF Memory!MemCreateAuthorization
  <2>4. NewAuthorization(b) \in Authorization
    <3>1. clock + ShortTTL \in Int
      BY ConformanceAssumption DEF ConformInv
    <3> QED BY <3>1 DEF NewAuthorization, Authorization, Time
  <2>5. IsTable(A, Transactions, Authorization)
    BY <2>4, LiveTyped, InsertTable
  <2> HIDE DEF A
  <2>6. RowPair(authorizations', memAuthorizations', Transactions, Authorization, clock')
    BY <2>1, <2>2, <2>5 DEF RowPair
  <2>7. TablesAgree'
    BY <2>1, <2>2, <2>6, ConsentsKept, CodesKept, GrantsKept DEF TablesAgree
  <2> QED BY <2>1, <2>2, <2>7, ClientsKept DEF ConformInv
<1>3. CASE CreateAuthorizationAnswer(d) # "ok"
  <2>1. UNCHANGED storeVars
    BY <1>3 DEF Atomically
  <2>2. /\ memClients' = memClients /\ memAuthorizations' = Memory!Auths
        /\ memConsents' = Memory!Cons /\ memCodes' = Memory!Cods /\ memGrants' = Memory!Grs
    BY <1>1, <1>3 DEF Memory!MemCreateAuthorization
  <2> QED BY <2>1, <2>2, Refused
<1> QED BY <1>2, <1>3

LEMMA CommitLoginConforms ==
    ASSUME TicksPerSecond = 1, ConformInv, clock' = clock, BothCommitLogin
    PROVE  ConformInv'
<1> PICK d \in Transactions, t \in ConsentTokens, b \in Binding, subject \in Subjects :
        LET consent == NewConsent(b, subject, clock + LongTTL)
        IN  /\ Atomically(CommitLoginAnswer(d, t, consent), CommitLogin(d, t, consent))
            /\ Memory!MemCommitLogin(d, t, consent)
  BY DEF BothCommitLogin
<1> DEFINE consent == NewConsent(b, subject, clock + LongTTL)
<1>1. Atomically(CommitLoginAnswer(d, t, consent), CommitLogin(d, t, consent))
  OBVIOUS
<1>2. Memory!MemCommitLogin(d, t, consent)
  OBVIOUS
<1>3. CommitLoginAnswer(d, t, consent) = Memory!MemCommitLoginAnswer(d, t, consent)
  BY LoginAnswers
<1>4. consent \in Consent
  BY Proposals, EndsAreTimes DEF ConformInv
<1> HIDE DEF consent
<1>5. CASE CommitLoginAnswer(d, t, consent) = "ok"
  <2> DEFINE A == Consume(LiveAuthorizations, d)
             C == Insert(LiveConsents, t, consent)
  <2>1. /\ clients' = clients /\ authorizations' = A /\ consents' = C
        /\ codes' = LiveCodes /\ grants' = LiveGrants
    BY <1>1, <1>5, Views DEF Atomically, CommitLogin
  <2>2. /\ memClients' = memClients /\ memAuthorizations' = A /\ memConsents' = C
        /\ memCodes' = LiveCodes /\ memGrants' = LiveGrants
    BY <1>2, <1>3, <1>5, Views, WritesAlike DEF Memory!MemCommitLogin
  <2>3. IsTable(A, Transactions, Authorization)
    BY LiveTyped, ConsumeAuthorizations
  <2>4. IsTable(C, ConsentTokens, Consent)
    BY <1>4, LiveTyped, InsertTable
  <2> HIDE DEF A, C
  <2>5. RowPair(authorizations', memAuthorizations', Transactions, Authorization, clock')
    BY <2>1, <2>2, <2>3 DEF RowPair
  <2>6. RowPair(consents', memConsents', ConsentTokens, Consent, clock')
    BY <2>1, <2>2, <2>4 DEF RowPair
  <2>7. TablesAgree'
    BY <2>1, <2>2, <2>5, <2>6, CodesKept, GrantsKept DEF TablesAgree
  <2> QED BY <2>1, <2>2, <2>7, ClientsKept DEF ConformInv
<1>6. CASE CommitLoginAnswer(d, t, consent) # "ok"
  <2>1. UNCHANGED storeVars
    BY <1>1, <1>6 DEF Atomically
  <2>2. /\ memClients' = memClients /\ memAuthorizations' = Memory!Auths
        /\ memConsents' = Memory!Cons /\ memCodes' = Memory!Cods /\ memGrants' = Memory!Grs
    BY <1>2, <1>3, <1>6 DEF Memory!MemCommitLogin
  <2> QED BY <2>1, <2>2, Refused
<1> QED BY <1>5, <1>6

LEMMA CommitApprovalConforms ==
    ASSUME TicksPerSecond = 1, ConformInv, clock' = clock, BothCommitApproval
    PROVE  ConformInv'
<1> PICK d \in ConsentTokens, t \in Codes, b \in Binding, subject \in Subjects, ends \in Ends :
        LET code == NewConsent(b, subject, ends)
        IN  /\ Atomically(CommitApprovalAnswer(d, t, code), CommitApproval(d, t, code))
            /\ Memory!MemCommitApproval(d, t, code)
  BY DEF BothCommitApproval
<1> DEFINE code == NewConsent(b, subject, ends)
<1>1. Atomically(CommitApprovalAnswer(d, t, code), CommitApproval(d, t, code))
  OBVIOUS
<1>2. Memory!MemCommitApproval(d, t, code)
  OBVIOUS
<1>3. CommitApprovalAnswer(d, t, code) = Memory!MemCommitApprovalAnswer(d, t, code)
  BY ApprovalAnswers
<1>4. code \in Consent
  <2>1. ends \in Int
    BY EndsAreTimes DEF ConformInv
  <2> QED BY <2>1, Proposals DEF ConformInv
<1> HIDE DEF code
<1>5. CASE CommitApprovalAnswer(d, t, code) = "ok"
  <2> DEFINE C == Consume(LiveConsents, d)
             D == Insert(LiveCodes, t, code)
  <2>1. /\ clients' = clients /\ authorizations' = LiveAuthorizations /\ consents' = C
        /\ codes' = D /\ grants' = LiveGrants
    BY <1>1, <1>5, Views DEF Atomically, CommitApproval
  <2>2. /\ memClients' = memClients /\ memAuthorizations' = LiveAuthorizations
        /\ memConsents' = C /\ memCodes' = D /\ memGrants' = LiveGrants
    BY <1>2, <1>3, <1>5, Views, WritesAlike DEF Memory!MemCommitApproval
  <2>3. IsTable(C, ConsentTokens, Consent)
    BY LiveTyped, ConsumeConsents
  <2>4. IsTable(D, Codes, Consent)
    BY <1>4, LiveTyped, InsertTable
  <2> HIDE DEF C, D
  <2>5. RowPair(consents', memConsents', ConsentTokens, Consent, clock')
    BY <2>1, <2>2, <2>3 DEF RowPair
  <2>6. RowPair(codes', memCodes', Codes, Consent, clock')
    BY <2>1, <2>2, <2>4 DEF RowPair
  <2>7. TablesAgree'
    BY <2>1, <2>2, <2>5, <2>6, AuthorizationsKept, GrantsKept DEF TablesAgree
  <2> QED BY <2>1, <2>2, <2>7, ClientsKept DEF ConformInv
<1>6. CASE CommitApprovalAnswer(d, t, code) # "ok"
  <2>1. UNCHANGED storeVars
    BY <1>1, <1>6 DEF Atomically
  <2>2. /\ memClients' = memClients /\ memAuthorizations' = Memory!Auths
        /\ memConsents' = Memory!Cons /\ memCodes' = Memory!Cods /\ memGrants' = Memory!Grs
    BY <1>2, <1>3, <1>6 DEF Memory!MemCommitApproval
  <2> QED BY <2>1, <2>2, Refused
<1> QED BY <1>5, <1>6

LEMMA CommitDenialConforms ==
    ASSUME TicksPerSecond = 1, ConformInv, clock' = clock, BothCommitDenial
    PROVE  ConformInv'
<1> PICK d \in ConsentTokens :
        /\ Atomically(CommitDenialAnswer(d), CommitDenial(d))
        /\ Memory!MemCommitDenial(d)
  BY DEF BothCommitDenial
<1>1. CommitDenialAnswer(d) = Memory!MemCommitDenialAnswer(d)
  BY DenialAnswers
<1>2. CASE CommitDenialAnswer(d) = "ok"
  <2> DEFINE C == Consume(LiveConsents, d)
  <2>1. /\ clients' = clients /\ authorizations' = LiveAuthorizations /\ consents' = C
        /\ codes' = LiveCodes /\ grants' = LiveGrants
    BY <1>2, Views DEF Atomically, CommitDenial
  <2>2. /\ memClients' = memClients /\ memAuthorizations' = LiveAuthorizations
        /\ memConsents' = C /\ memCodes' = LiveCodes /\ memGrants' = LiveGrants
    BY <1>1, <1>2, Views, WritesAlike DEF Memory!MemCommitDenial
  <2>3. IsTable(C, ConsentTokens, Consent)
    BY LiveTyped, ConsumeConsents
  <2> HIDE DEF C
  <2>4. RowPair(consents', memConsents', ConsentTokens, Consent, clock')
    BY <2>1, <2>2, <2>3 DEF RowPair
  <2>5. TablesAgree'
    BY <2>1, <2>2, <2>4, AuthorizationsKept, CodesKept, GrantsKept DEF TablesAgree
  <2> QED BY <2>1, <2>2, <2>5, ClientsKept DEF ConformInv
<1>3. CASE CommitDenialAnswer(d) # "ok"
  <2>1. UNCHANGED storeVars
    BY <1>3 DEF Atomically
  <2>2. /\ memClients' = memClients /\ memAuthorizations' = Memory!Auths
        /\ memConsents' = Memory!Cons /\ memCodes' = Memory!Cods /\ memGrants' = Memory!Grs
    BY <1>1, <1>3 DEF Memory!MemCommitDenial
  <2> QED BY <2>1, <2>2, Refused
<1> QED BY <1>2, <1>3

\* A proposed grant for an owner that the stored row names is a grant.
LEMMA ProposedGrant ==
    ASSUME NEW family \in Families, NEW generation \in Nat, NEW id \in ClientIDs, NEW ends \in Int,
           NewGrant(family, generation, id, ends).subject \in Subjects,
           NewGrant(family, generation, id, ends).resource \in Resources
    PROVE  NewGrant(family, generation, id, ends) \in Grant
BY DEF NewGrant, Grant, Time

LEMMA CommitCodeExchangeConforms ==
    ASSUME TicksPerSecond = 1, ConformInv, clock' = clock, BothCommitCodeExchange
    PROVE  ConformInv'
<1> PICK d \in Codes, t \in RefreshTokens, family \in Families, id \in ClientIDs, ends \in Ends :
        LET refresh == NewGrant(family, 0, id, ends)
        IN  /\ Atomically(CommitCodeExchangeAnswer(d, t, refresh),
                          CommitCodeExchange(d, t, refresh))
            /\ Memory!MemCommitCodeExchange(d, t, refresh)
  BY DEF BothCommitCodeExchange
<1> DEFINE refresh == NewGrant(family, 0, id, ends)
<1>1. Atomically(CommitCodeExchangeAnswer(d, t, refresh), CommitCodeExchange(d, t, refresh))
  OBVIOUS
<1>2. Memory!MemCommitCodeExchange(d, t, refresh)
  OBVIOUS
<1>3. CommitCodeExchangeAnswer(d, t, refresh) = Memory!MemCommitCodeExchangeAnswer(d, t, refresh)
  BY ExchangeAnswers
<1>4. ends \in Int
  BY EndsAreTimes DEF ConformInv
<1>5. refresh.subject \in Subjects /\ refresh.resource \in Resources => refresh \in Grant
  BY <1>4, ProposedGrant
<1> HIDE DEF refresh
<1>6. CASE CommitCodeExchangeAnswer(d, t, refresh) = "ok"
  <2> DEFINE D == Consume(LiveCodes, d)
             G == Insert(LiveGrants, t, refresh)
  <2>1. CommitCodeExchange(d, t, refresh)
    BY <1>1, <1>6 DEF Atomically
  <2>2. /\ clients' = clients /\ authorizations' = LiveAuthorizations
        /\ consents' = LiveConsents /\ codes' = D /\ grants' = G
    BY <2>1, Views DEF CommitCodeExchange
  <2>3. /\ memClients' = memClients /\ memAuthorizations' = LiveAuthorizations
        /\ memConsents' = LiveConsents /\ memCodes' = D /\ memGrants' = G
    BY <1>2, <1>3, <1>6, Views, WritesAlike DEF Memory!MemCommitCodeExchange
  <2>4. d \in DOMAIN LiveCodes /\ ValidateCodeExchangeCommit(LiveCodes[d], refresh)
    BY <2>1, Views DEF CommitCodeExchange
  <2>5. LiveCodes[d] \in Consent
    BY <2>4, LiveTyped DEF IsTable
  <2>6. refresh \in Grant
    BY <1>5, <2>4, <2>5 DEF ValidateCodeExchangeCommit, Consent, Binding
  <2>7. IsTable(D, Codes, Consent)
    BY LiveTyped, ConsumeConsents
  <2>8. IsTable(G, RefreshTokens, Grant)
    BY <2>6, LiveTyped, InsertTable
  <2> HIDE DEF D, G
  <2>9. RowPair(codes', memCodes', Codes, Consent, clock')
    BY <2>2, <2>3, <2>7 DEF RowPair
  <2>10. FamilyPair(grants', memGrants', clock')
    BY <2>2, <2>3, <2>8 DEF FamilyPair
  <2>11. TablesAgree'
    BY <2>2, <2>3, <2>9, <2>10, AuthorizationsKept, ConsentsKept DEF TablesAgree
  <2> QED BY <2>2, <2>3, <2>11, ClientsKept DEF ConformInv
<1>7. CASE CommitCodeExchangeAnswer(d, t, refresh) # "ok"
  <2>1. UNCHANGED storeVars
    BY <1>1, <1>7 DEF Atomically
  <2>2. /\ memClients' = memClients /\ memAuthorizations' = Memory!Auths
        /\ memConsents' = Memory!Cons /\ memCodes' = Memory!Cods /\ memGrants' = Memory!Grs
    BY <1>2, <1>3, <1>7 DEF Memory!MemCommitCodeExchange
  <2> QED BY <2>1, <2>2, Refused
<1> QED BY <1>6, <1>7

LEMMA CommitRefreshRotationConforms ==
    ASSUME TicksPerSecond = 1, ConformInv, clock' = clock, BothCommitRefreshRotation
    PROVE  ConformInv'
<1> PICK d \in RefreshTokens, t \in RefreshTokens, family \in Families, id \in ClientIDs,
         ends \in Ends, generation \in 0 .. MaxRefreshGenerations :
        LET next == NewGrant(family, generation + 1, id, ends)
            answer == CommitRefreshRotationAnswer(d, family, generation, t, next)
        IN  /\ \/ /\ answer = "ok"
                  /\ RotationToSuccessor(d, family, generation, t, next)
                  /\ PruneBesidesGrants
               \/ /\ answer = "revoked"
                  /\ \/ RotationOfSpentGrant(d, family, generation)
                     \/ RotationPastLimit(d, family, generation, next)
                  /\ PruneBesidesGrants
               \/ /\ answer \notin {"ok", "revoked"}
                  /\ UNCHANGED storeVars
            /\ Memory!MemCommitRefreshRotation(d, family, generation, t, next)
  BY DEF BothCommitRefreshRotation
<1> DEFINE next == NewGrant(family, generation + 1, id, ends)
           answer == CommitRefreshRotationAnswer(d, family, generation, t, next)
<1>1. \/ /\ answer = "ok"
         /\ RotationToSuccessor(d, family, generation, t, next)
         /\ PruneBesidesGrants
      \/ /\ answer = "revoked"
         /\ \/ RotationOfSpentGrant(d, family, generation)
            \/ RotationPastLimit(d, family, generation, next)
         /\ PruneBesidesGrants
      \/ /\ answer \notin {"ok", "revoked"}
         /\ UNCHANGED storeVars
  OBVIOUS
<1>2. Memory!MemCommitRefreshRotation(d, family, generation, t, next)
  OBVIOUS
<1>3. Memory!MemCommitRefreshRotationAnswer(d, family, generation, t, next) = answer
  BY RotationAnswers
<1>4. generation + 1 \in Nat /\ ends \in Int
  BY EndsAreTimes, StatePolicyAssumption DEF ConformInv, ValidStatePolicy
<1>5. next.subject \in Subjects /\ next.resource \in Resources => next \in Grant
  BY <1>4, ProposedGrant
<1> HIDE DEF next, answer
<1>6. /\ memClients' = memClients /\ memAuthorizations' = Memory!Auths
      /\ memConsents' = Memory!Cons /\ memCodes' = Memory!Cods
  BY <1>2 DEF Memory!MemCommitRefreshRotation
<1>7. /\ answer = "ok" => memGrants' = Insert(Consume(LiveGrants, d), t, next)
      /\ answer = "revoked" => memGrants' = RevokeRows(LiveGrants, family)
      /\ answer \notin {"ok", "revoked"} => memGrants' = LiveGrants
  BY <1>2, <1>3, Views, WritesAlike DEF Memory!MemCommitRefreshRotation
<1>8. ASSUME NEW G, grants' = G, memGrants' = G, IsTable(G, RefreshTokens, Grant),
             PruneBesidesGrants
      PROVE  ConformInv'
  <2>1. /\ clients' = clients /\ authorizations' = LiveAuthorizations
        /\ consents' = LiveConsents /\ codes' = LiveCodes
    BY <1>8, Views DEF PruneBesidesGrants
  <2>2. FamilyPair(grants', memGrants', clock')
    BY <1>8 DEF FamilyPair
  <2>3. TablesAgree'
    BY <1>6, <2>1, <2>2, Views, AuthorizationsKept, ConsentsKept, CodesKept DEF TablesAgree
  <2> QED BY <1>6, <2>1, <2>3, ClientsKept DEF ConformInv
<1>9. CASE /\ answer = "ok"
           /\ RotationToSuccessor(d, family, generation, t, next)
           /\ PruneBesidesGrants
  <2> DEFINE G == Insert(Consume(LiveGrants, d), t, next)
  <2>1. grants' = G
    BY <1>9, Views DEF RotationToSuccessor
  <2>2. /\ d \in DOMAIN LiveGrants /\ ~LiveGrants[d].consumed /\ ~LiveGrants[d].revoked
        /\ ValidateRefreshRotation(decodeRefresh(LiveGrants[d]), next)
    BY <1>9, Views DEF RotationToSuccessor
  <2>3. LiveGrants[d] \in Grant
    BY <2>2, LiveTyped DEF IsTable
  <2>4. ValidateRefreshRotation(LiveGrants[d], next)
    BY <2>2, <2>3, DecodeUnspent
  <2>5. next \in Grant
    BY <1>5, <2>3, <2>4 DEF ValidateRefreshRotation, Grant
  <2>6. IsTable(G, RefreshTokens, Grant)
    BY <2>5, LiveTyped, ConsumeGrants, InsertTable
  <2>7. memGrants' = G
    BY <1>7, <1>9
  <2> HIDE DEF G
  <2> QED BY <1>8, <1>9, <2>1, <2>6, <2>7
<1>10. CASE /\ answer = "revoked"
            /\ \/ RotationOfSpentGrant(d, family, generation)
               \/ RotationPastLimit(d, family, generation, next)
            /\ PruneBesidesGrants
  <2> DEFINE G == RevokeRows(LiveGrants, family)
  <2>1. grants' = G
    BY <1>10, Views DEF RotationOfSpentGrant, RotationPastLimit
  <2>2. memGrants' = G
    BY <1>7, <1>10
  <2>3. IsTable(G, RefreshTokens, Grant)
    BY LiveTyped, RevokeGrants
  <2> HIDE DEF G
  <2> QED BY <1>8, <1>10, <2>1, <2>2, <2>3
<1>11. CASE answer \notin {"ok", "revoked"} /\ UNCHANGED storeVars
  <2>1. memGrants' = Memory!Grs
    BY <1>7, <1>11, Views
  <2> QED BY <1>6, <1>11, <2>1, Refused
<1> QED BY <1>1, <1>9, <1>10, <1>11

LEMMA RevokeRefreshFamilyConforms ==
    ASSUME TicksPerSecond = 1, ConformInv, clock' = clock, BothRevokeRefreshFamily
    PROVE  ConformInv'
<1> PICK family \in Families :
        RevokeRefreshFamily(family) /\ Memory!MemRevokeRefreshFamily(family)
  BY DEF BothRevokeRefreshFamily
<1>1. /\ clients' = clients /\ authorizations' = authorizations
      /\ consents' = consents /\ codes' = codes /\ grants' = RevokeRows(grants, family)
  BY DEF RevokeRefreshFamily
<1>2. /\ memClients' = memClients /\ memAuthorizations' = memAuthorizations
      /\ memConsents' = memConsents /\ memCodes' = memCodes
      /\ memGrants' = RevokeRows(memGrants, family)
  BY WritesAlike DEF Memory!MemRevokeRefreshFamily
<1>3. FamilyPair(grants, memGrants, clock)
  BY DEF ConformInv, TablesAgree
<1>4. LiveFamilies(RevokeRows(grants, family), clock)
        = LiveFamilies(RevokeRows(memGrants, family), clock)
  BY <1>3, RevokeLive DEF FamilyPair
<1>5. FamilyPair(grants', memGrants', clock')
  BY <1>1, <1>2, <1>3, <1>4, RevokeGrants DEF FamilyPair
<1>6. TablesAgree'
  BY <1>1, <1>2, <1>5 DEF ConformInv, TablesAgree
<1> QED BY <1>1, <1>2, <1>6, ClientsKept DEF ConformInv

LEMMA PruneConforms ==
    ASSUME TicksPerSecond = 1, ConformInv, clock' = clock, BothPrune
    PROVE  ConformInv'
<1>1. /\ clients' = clients /\ authorizations' = LiveAuthorizations
      /\ consents' = LiveConsents /\ codes' = LiveCodes /\ grants' = LiveGrants
  BY Views DEF BothPrune, Prune, PruneBesidesGrants
<1>2. /\ memClients' = memClients /\ memAuthorizations' = LiveAuthorizations
      /\ memConsents' = LiveConsents /\ memCodes' = LiveCodes /\ memGrants' = LiveGrants
  BY Views DEF BothPrune, Memory!MemPrune
<1>3. TablesAgree'
  BY <1>1, <1>2, AuthorizationsKept, ConsentsKept, CodesKept, GrantsKept DEF TablesAgree
<1> QED BY <1>1, <1>2, <1>3, ClientsKept DEF ConformInv

LEMMA TickConforms ==
    ASSUME ConformInv, ClockTick
    PROVE  ConformInv'
<1>1. /\ clock \in Int /\ clock' \in Int /\ clock =< clock' /\ clock' \in Nat
  BY DEF ConformInv, ClockTick
<1>2. UNCHANGED <<storeVars, memVars>>
  BY DEF ClockTick
<1>3. RowPair(authorizations, memAuthorizations, Transactions, Authorization, clock')
  BY <1>1, RowLater, RowsAreDated DEF ConformInv, TablesAgree
<1>4. RowPair(consents, memConsents, ConsentTokens, Consent, clock')
  BY <1>1, RowLater, RowsAreDated DEF ConformInv, TablesAgree
<1>5. RowPair(codes, memCodes, Codes, Consent, clock')
  BY <1>1, RowLater, RowsAreDated DEF ConformInv, TablesAgree
<1>6. FamilyPair(grants, memGrants, clock')
  BY <1>1, FamilyLater DEF ConformInv, TablesAgree
<1>7. TablesAgree'
  BY <1>2, <1>3, <1>4, <1>5, <1>6 DEF TablesAgree, storeVars, memVars
<1>8. ClientsAgree'
  BY <1>2, ClientsKept DEF storeVars, memVars
<1> QED BY <1>1, <1>7, <1>8 DEF ConformInv

-----------------------------------------------------------------------------
(* The theorems                                                            *)

LEMMA NextConform ==
    ASSUME TicksPerSecond = 1, ConformInv, [ConformanceNext]_bothVars
    PROVE  ConformInv'
<1>1. CASE Called /\ UNCHANGED clock
  BY <1>1, RegisterClientConforms, TouchClientConforms, CreateAuthorizationConforms,
     CommitLoginConforms, CommitApprovalConforms, CommitDenialConforms,
     CommitCodeExchangeConforms, CommitRefreshRotationConforms, RevokeRefreshFamilyConforms,
     PruneConforms
     DEF Called
<1>2. CASE ClockTick
  BY <1>2, TickConforms
<1>3. CASE UNCHANGED bothVars
  BY <1>3 DEF bothVars, storeVars, memVars, ConformInv, ClientsAgree, TablesAgree
<1> QED BY <1>1, <1>2, <1>3 DEF ConformanceNext

\* The two stores agree on the clients and on everything that is live, after
\* any sequence of calls.
LEMMA ConformInvariant ==
    ASSUME TicksPerSecond = 1
    PROVE  ConformanceSpec => []ConformInv
<1>1. ConformInv /\ [ConformanceNext]_bothVars => ConformInv'
  BY NextConform
<1> QED BY <1>1, InitConform, PTL DEF ConformanceSpec

\* memorytest answers every transition of the Store port as sqlitestore does,
\* with the same success or the same error, after any sequence of calls, for
\* any number of clients, digests and families and any limits.
THEOREM AnswersAgreeCorrect ==
    ASSUME TicksPerSecond = 1
    PROVE  ConformanceSpec => []AnswersAgree
<1>1. ConformInv => AnswersAgree
  BY ConformAnswers
<1> QED BY <1>1, ConformInvariant, PTL

\* memorytest reads back the clients and the unexpired rows that sqlitestore
\* reads back (GetClient, GetAuthorization, GetConsent, GetCodeForExchange,
\* GetRefreshGrant), and the one field in which they differ is the Token of an
\* authorization or a consent, which sqlitestore returns empty.
THEOREM ReadsAgreeCorrect ==
    ASSUME TicksPerSecond = 1
    PROVE  ConformanceSpec => []ReadsAgree
<1>1. ConformInv => ReadsAgree
  BY ConformReads
<1> QED BY <1>1, ConformInvariant, PTL
=============================================================================
