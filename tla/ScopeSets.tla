------------------------------ MODULE ScopeSets -----------------------------
(***************************************************************************)
(* pkg/oauthserver/scopes.go: a set of scopes is a slice that every        *)
(* operation assumes to be sorted and free of duplicates, and that nothing *)
(* but the operations themselves keeps so.  Two sets go through any        *)
(* sequence of calls, next to the sets they stand for; every iteration of  *)
(* a loop is a step.                                                       *)
(***************************************************************************)
EXTENDS Integers, Sequences, Functions

CONSTANTS
    ScopeNames,   \* valid scopes, ordered like integers; 0 is the empty text
    MaxInput      \* bound: scopes in one list

ASSUME ScopesAssumption == ScopeNames \subseteq Nat \ {0} /\ MaxInput \in Nat

VARIABLES
    left, right,                \* two ScopeSets: their values
    leftMeaning, rightMeaning,  \* the sets that they stand for
    call, done,                 \* the call in progress, or the last one if done
    values,                     \* the list that the call was given
    scope,                      \* the scope that Contains was given
    built, i, j,                \* the slice and the indices of the call's loop
    laps,                       \* history: the iterations of that loop so far
    expected,                   \* the set that the call has to return
    answer                      \* what IsSubsetOf or Contains returned

sets == <<left, right, leftMeaning, rightMeaning>>
arguments == <<call, values, scope, expected>>
scopeVars == <<sets, arguments, done, built, i, j, laps, answer>>

Inputs == UNION {[1 .. n -> ScopeNames \cup {0}] : n \in 0 .. MaxInput}

ScopesInit ==
    /\ left = <<>> /\ right = <<>>
    /\ leftMeaning = {} /\ rightMeaning = {}
    /\ call = "none" /\ done = TRUE
    /\ values = <<>> /\ scope = 0 /\ expected = {}
    /\ built = <<>> /\ i = 0 /\ j = 0 /\ laps = 0
    /\ answer = FALSE

-----------------------------------------------------------------------------
Call(name, list, wanted, meant) ==
    /\ done
    /\ call' = name /\ done' = FALSE
    /\ values' = list /\ scope' = wanted /\ expected' = meant
    /\ built' = <<>> /\ i' = 0 /\ laps' = 0
    /\ j' = IF name = "Contains" THEN Len(left) ELSE 0
    /\ UNCHANGED <<sets, answer>>

Running(names) == ~done /\ call \in names

\* The receiver of the result is the left set.
ReturnSet(set) ==
    /\ done' = TRUE
    /\ left' = set /\ leftMeaning' = expected
    /\ UNCHANGED <<right, rightMeaning, arguments, built, i, j, laps, answer>>

ReturnAnswer(truth) ==
    /\ done' = TRUE
    /\ answer' = truth
    /\ UNCHANGED <<sets, arguments, built, i, j, laps>>

-----------------------------------------------------------------------------
\* A list from a configuration or a registration; a text from a request, as
\* the list of what its blanks separate; a stored row that MarshalJSON wrote
\* and UnmarshalJSON joins to a text and parses again.
NewScopeSet == \E list \in Inputs : Call("NewScopeSet", list, 0, Range(list))
ParseScopes == \E list \in Inputs : Call("ParseScopes", list, 0, Range(list) \ {0})
Reload == Call("ParseScopes", left, 0, leftMeaning)

Intersect == Call("Intersect", <<>>, 0, leftMeaning \cap rightMeaning)
IsSubsetOf == Call("IsSubsetOf", <<>>, 0, leftMeaning \cap rightMeaning)
Contains == \E wanted \in ScopeNames : Call("Contains", <<>>, wanted, {})

\* Mutant: a value that was seen is not skipped.
KeepAll(list, value) == IF value = 0 THEN list ELSE Append(list, value)

\* An empty value is no field of a text; a value that was seen is skipped.
Keep(list, value) == IF value \in Range(list) \cup {0} THEN list ELSE Append(list, value)

\* The loop of NewScopeSet.
Collect ==
    /\ Running({"NewScopeSet", "ParseScopes"})
    /\ i < Len(values)
    /\ values[i + 1] = 0 => call = "ParseScopes"
    /\ built' = Keep(built, values[i + 1])
    /\ i' = i + 1 /\ laps' = laps + 1
    /\ UNCHANGED <<sets, arguments, done, j, answer>>

\* An empty value in a list: an error and no set.
Refuse ==
    /\ Running({"NewScopeSet"})
    /\ i < Len(values) /\ values[i + 1] = 0
    /\ done' = TRUE
    /\ UNCHANGED <<sets, arguments, built, i, j, laps, answer>>

\* sort.Slice: a permutation in which no value is below an earlier one.
SortedOf(list) ==
    {[n \in 1 .. Len(list) |-> list[p[n]]] :
        p \in {q \in Bijection(1 .. Len(list), 1 .. Len(list)) :
                 \A m, n \in 1 .. Len(list) : m < n => list[q[m]] <= list[q[n]]}}

Sort ==
    /\ Running({"NewScopeSet", "ParseScopes"})
    /\ i = Len(values)
    /\ \E sorted \in SortedOf(built) : ReturnSet(sorted)

\* The loop of Intersect: one pass over both slices.
Merge ==
    /\ Running({"Intersect", "IsSubsetOf"})
    /\ i < Len(left) /\ j < Len(right)
    /\ \/ /\ left[i + 1] < right[j + 1]
          /\ i' = i + 1 /\ UNCHANGED <<built, j>>
       \/ /\ left[i + 1] > right[j + 1]
          /\ j' = j + 1 /\ UNCHANGED <<built, i>>
       \/ /\ left[i + 1] = right[j + 1]
          /\ built' = Append(built, left[i + 1])
          /\ i' = i + 1 /\ j' = j + 1
    /\ laps' = laps + 1
    /\ UNCHANGED <<sets, arguments, done, answer>>

Merged(name) == Running({name}) /\ ~ (i < Len(left) /\ j < Len(right))

Intersected == Merged("Intersect") /\ ReturnSet(built)

Compared == Merged("IsSubsetOf") /\ ReturnAnswer(Len(built) = Len(left))

\* Mutant: the search goes on with the middle itself.
AtMiddle(h) == h

\* Where the search goes on when the middle is below the scope.
AfterMiddle(h) == h + 1

\* sort.Find: the least index whose value is not below the scope.
Search ==
    /\ Running({"Contains"})
    /\ i < j
    /\ LET h == (i + j) \div 2
       IN  \/ scope > left[h + 1] /\ i' = AfterMiddle(h) /\ UNCHANGED j
           \/ scope <= left[h + 1] /\ j' = h /\ UNCHANGED i
    /\ laps' = laps + 1
    /\ UNCHANGED <<sets, arguments, done, built, answer>>

Found ==
    /\ Running({"Contains"})
    /\ i >= j
    /\ ReturnAnswer(i < Len(left) /\ left[i + 1] = scope)

\* The other set takes its turn.
Swap ==
    /\ done
    /\ left' = right /\ right' = left
    /\ leftMeaning' = rightMeaning /\ rightMeaning' = leftMeaning
    /\ call' = "none"
    /\ UNCHANGED <<done, values, scope, expected, built, i, j, laps, answer>>

ScopesNext ==
    \/ NewScopeSet \/ ParseScopes \/ Reload \/ Intersect \/ IsSubsetOf \/ Contains
    \/ Collect \/ Refuse \/ Sort \/ Merge \/ Intersected \/ Compared
    \/ Search \/ Found \/ Swap

ScopesSpec == ScopesInit /\ [][ScopesNext]_scopeVars

-----------------------------------------------------------------------------
\* After any sequence of calls a slice holds the set it stands for, two slices
\* are equal, and with them the texts that ValidateCodeExchangeCommit
\* compares, exactly when their sets are, and IsSubsetOf and Contains have
\* answered as those sets do.  The merge of Intersect, the length comparison
\* of IsSubsetOf and the binary search of Contains are only right on canonical
\* slices.
ScopesActAsSets ==
    /\ Range(left) = leftMeaning
    /\ left = right <=> leftMeaning = rightMeaning
    /\ done /\ call = "IsSubsetOf" => (answer <=> leftMeaning \subseteq rightMeaning)
    /\ done /\ call = "Contains" => (answer <=> scope \in leftMeaning)

\* The values that the loop of the call in progress can meet.
Reach ==
    CASE call = "Contains" -> Len(left)
      [] call \in {"Intersect", "IsSubsetOf"} -> Len(left) + Len(right)
      [] OTHER -> Len(values)

\* No loop of scopes.go, the search of sort.Find among them, makes more
\* iterations than there are values in its slices: every call returns.
LoopsEnd == ~ done => laps <= Reach
=============================================================================
