-------------------------- MODULE StoreConformance --------------------------
(***************************************************************************)
(* The two stores behind the Store port, driven by the same calls, as      *)
(* pkg/oauthserver/store_conformance_test.go drives them on a few paths:   *)
(* every call of the port in every reachable state, valid or not, with     *)
(* digests that may be in use.  A client id is never registered twice.     *)
(***************************************************************************)
EXTENDS StoreAnswers

CONSTANTS
    ShortTTL, LongTTL,   \* lifetime of short-lived rows, of an authorization
    MaxClock             \* bound: the clock stops here

ASSUME ConformanceAssumption == {ShortTTL, LongTTL, MaxClock} \subseteq Nat \ {0}

VARIABLES memClients, memAuthorizations, memConsents, memCodes, memGrants

memVars == <<memClients, memAuthorizations, memConsents, memCodes, memGrants>>
bothVars == <<clock, storeVars, memVars>>

Memory == INSTANCE MemoryStore WITH
    clients <- memClients, authorizations <- memAuthorizations,
    consents <- memConsents, codes <- memCodes, grants <- memGrants

ConformanceInit ==
    /\ StoreInit
    /\ memClients = EmptyTable
    /\ memAuthorizations = EmptyTable
    /\ memConsents = EmptyTable
    /\ memCodes = EmptyTable
    /\ memGrants = EmptyTable

-----------------------------------------------------------------------------
(* The arguments of the calls.                                             *)

\* The end of an authorization that some login fixed at or before now.
Ends == clock .. clock + LongTTL

NewClient == [redirects |-> RedirectURIs, scopes |-> Scopes, lastUsed |-> clock]

NewAuthorization(b) ==
    [binding |-> b, scopes |-> Scopes, expires |-> clock + ShortTTL, consumed |-> FALSE]

NewConsent(b, subject, ends) ==
    [binding |-> b, subject |-> subject, scopes |-> Scopes, ends |-> ends,
     expires |-> clock + ShortTTL, consumed |-> FALSE]

NewGrant(family, generation, client, ends) ==
    [family |-> family, generation |-> generation, client |-> client,
     subject |-> CHOOSE subject \in Subjects : TRUE,
     resource |-> CHOOSE resource \in Resources : TRUE, scopes |-> Scopes,
     expires |-> ends, consumed |-> FALSE, revoked |-> FALSE]

-----------------------------------------------------------------------------
(* One call on both stores.  sqlitestore rolls back what it refuses.       *)

Atomically(answer, commit) ==
    \/ answer = "ok" /\ commit
    \/ answer # "ok" /\ UNCHANGED storeVars

BothRegisterClient ==
    \E id \in ClientIDs \ DOMAIN clients :
        /\ Atomically(RegisterClientAnswer(id), RegisterClient(id, NewClient))
        /\ Memory!MemRegisterClient(id, NewClient)

BothTouchClient ==
    \E id \in ClientIDs :
        /\ Atomically(TouchClientAnswer(id), TouchClient(id, clock))
        /\ Memory!MemTouchClient(id, clock)

BothCreateAuthorization ==
    \E d \in Transactions, b \in Binding :
        /\ Atomically(CreateAuthorizationAnswer(d),
                      CreateAuthorization(d, NewAuthorization(b)))
        /\ Memory!MemCreateAuthorization(d, NewAuthorization(b))

BothCommitLogin ==
    \E d \in Transactions, t \in ConsentTokens, b \in Binding, subject \in Subjects :
        LET consent == NewConsent(b, subject, clock + LongTTL)
        IN  /\ Atomically(CommitLoginAnswer(d, t, consent), CommitLogin(d, t, consent))
            /\ Memory!MemCommitLogin(d, t, consent)

BothCommitApproval ==
    \E d \in ConsentTokens, t \in Codes, b \in Binding, subject \in Subjects, ends \in Ends :
        LET code == NewConsent(b, subject, ends)
        IN  /\ Atomically(CommitApprovalAnswer(d, t, code), CommitApproval(d, t, code))
            /\ Memory!MemCommitApproval(d, t, code)

BothCommitDenial ==
    \E d \in ConsentTokens :
        /\ Atomically(CommitDenialAnswer(d), CommitDenial(d))
        /\ Memory!MemCommitDenial(d)

BothCommitCodeExchange ==
    \E d \in Codes, t \in RefreshTokens, family \in Families, id \in ClientIDs, ends \in Ends :
        LET refresh == NewGrant(family, 0, id, ends)
        IN  /\ family \notin {grants[e].family : e \in DOMAIN grants}
            /\ Atomically(CommitCodeExchangeAnswer(d, t, refresh),
                          CommitCodeExchange(d, t, refresh))
            /\ Memory!MemCommitCodeExchange(d, t, refresh)

\* The successor proposed for a grant read earlier.
BothCommitRefreshRotation ==
    \E d, t \in RefreshTokens, family \in Families, id \in ClientIDs, ends \in Ends,
       generation \in 0 .. MaxRefreshGenerations :
        LET next == NewGrant(family, generation + 1, id, ends)
            answer == CommitRefreshRotationAnswer(d, family, generation, t, next)
        IN  /\ \/ /\ answer = "ok"
                  /\ RotationToSuccessor(d, family, generation, t, next)
                  /\ PruneBesidesGrants
               \/ /\ answer = "revoked"
                  /\ \/ RotationOfSpentGrant(d, family, generation)
                     \/ RotationPastLimit(d, family, generation, next)
                  /\ PruneBesidesGrants
               \/ /\ answer \notin {"ok", "revoked"}
                  /\ UNCHANGED storeVars
            /\ Memory!MemCommitRefreshRotation(d, family, generation, t, next)

BothRevokeRefreshFamily ==
    \E family \in Families :
        /\ RevokeRefreshFamily(family)
        /\ Memory!MemRevokeRefreshFamily(family)

BothPrune == Prune /\ Memory!MemPrune

ClockTick ==
    /\ clock < MaxClock
    /\ clock' = clock + 1
    /\ UNCHANGED <<storeVars, memVars>>

Called ==
    \/ BothRegisterClient \/ BothTouchClient \/ BothCreateAuthorization
    \/ BothCommitLogin \/ BothCommitApproval \/ BothCommitDenial
    \/ BothCommitCodeExchange \/ BothCommitRefreshRotation
    \/ BothRevokeRefreshFamily \/ BothPrune

ConformanceNext == (Called /\ UNCHANGED clock) \/ ClockTick

ConformanceSpec == ConformanceInit /\ [][ConformanceNext]_bothVars

-----------------------------------------------------------------------------
\* Whatever has been called before, both stores give every transition the
\* same answer: success or the same error (the Store port; memorytest is
\* what the engine and the transport are tested with, sqlitestore is what
\* runs in production).  The redirect URI in the result of CommitConsent is
\* not compared: memorytest fills it, sqlitestore does not, the engine drops it.
AnswersAgree ==
    /\ \A id \in ClientIDs \ DOMAIN clients :
         RegisterClientAnswer(id) = Memory!MemRegisterClientAnswer(id)
    /\ \A id \in ClientIDs : TouchClientAnswer(id) = Memory!MemTouchClientAnswer(id)
    /\ \A d \in Transactions :
         CreateAuthorizationAnswer(d) = Memory!MemCreateAuthorizationAnswer(d)
    /\ \A d \in Transactions, t \in ConsentTokens, b \in Binding, subject \in Subjects :
         LET consent == NewConsent(b, subject, clock + LongTTL)
         IN  CommitLoginAnswer(d, t, consent) = Memory!MemCommitLoginAnswer(d, t, consent)
    /\ \A d \in ConsentTokens : CommitDenialAnswer(d) = Memory!MemCommitDenialAnswer(d)
    /\ \A d \in ConsentTokens, t \in Codes, b \in Binding, subject \in Subjects, ends \in Ends :
         LET code == NewConsent(b, subject, ends)
         IN  CommitApprovalAnswer(d, t, code) = Memory!MemCommitApprovalAnswer(d, t, code)
    /\ \A d \in Codes, t \in RefreshTokens, family \in Families, id \in ClientIDs, ends \in Ends :
         LET refresh == NewGrant(family, 0, id, ends)
         IN  CommitCodeExchangeAnswer(d, t, refresh)
               = Memory!MemCommitCodeExchangeAnswer(d, t, refresh)
    /\ \A d, t \in RefreshTokens, family \in Families, id \in ClientIDs, ends \in Ends,
          generation \in 0 .. MaxRefreshGenerations :
         LET next == NewGrant(family, generation + 1, id, ends)
         IN  CommitRefreshRotationAnswer(d, family, generation, t, next)
               = Memory!MemCommitRefreshRotationAnswer(d, family, generation, t, next)

-----------------------------------------------------------------------------
(* What the reads return.                                                  *)

\* An empty Token.
NoToken == "none"

\* sqlitestore decodes the row from its payload, from which json:"-" leaves
\* the Token out; the table holds its digest only.
DecodedWithoutToken(rows) == {[row |-> row, token |-> NoToken] : row \in rows}

ReadAuthorization(d) == DecodedWithoutToken(GetAuthorization(d))
ReadConsent(d) == DecodedWithoutToken(GetConsent(d))

Blanked(reads) == {[row |-> read.row, token |-> NoToken] : read \in reads}

Unexpired(rows) == {row \in rows : row.expires > clock}
UnexpiredReads(reads) == {read \in reads : read.row.expires > clock}

\* Both stores read back the same clients and the same rows that have not
\* expired, although one of them keeps what a refused call has pruned and the
\* other one restores it (GetClient, GetAuthorization, GetConsent,
\* GetCodeForExchange, GetRefreshGrant), up to one field: sqlitestore returns
\* authorizations and consents with an empty Token, memorytest with the Token
\* they were created with.  The engine reads no Token back.
ReadsAgree ==
    /\ \A id \in ClientIDs : GetClient(id) = Memory!MemGetClient(id)
    /\ \A d \in Transactions :
         UnexpiredReads(ReadAuthorization(d))
           = Blanked(UnexpiredReads(Memory!MemGetAuthorization(d)))
    /\ \A d \in ConsentTokens :
         UnexpiredReads(ReadConsent(d)) = Blanked(UnexpiredReads(Memory!MemGetConsent(d)))
    /\ \A d \in Codes, id \in ClientIDs, redirect \in RedirectURIs :
         Unexpired(GetCodeForExchange(d, id, redirect))
           = Unexpired(Memory!MemGetCodeForExchange(d, id, redirect))
    /\ \A d \in RefreshTokens :
         Unexpired(GetRefreshGrant(d)) = Unexpired(Memory!MemGetRefreshGrant(d))
=============================================================================
