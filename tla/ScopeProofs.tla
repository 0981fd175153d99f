----------------------------- MODULE ScopeProofs ----------------------------
(***************************************************************************)
(* What the loops of scopes.go compute, for every list of scopes.          *)
(***************************************************************************)
EXTENDS ScopeSets, SequenceTheorems, WellFoundedInduction, TLAPS

-----------------------------------------------------------------------------
(* Increasing slices. *)

Increasing(s) == \A m, n \in DOMAIN s : m < n => s[m] < s[n]

\* Every non-empty set of naturals has a least member.
LEMMA LeastNatural ==
    ASSUME NEW T, T \subseteq Nat, T # {}
    PROVE  \E x \in T : \A y \in T : x <= y
<1>1. PICK x \in T : \A y \in T : ~ (<<y, x>> \in OpToRel(<, Nat))
  BY NatLessThanWellFounded, WFMin
<1>2. ASSUME NEW y \in T PROVE x <= y
  <2>1. ~ (y < x)
    BY <1>1 DEF OpToRel
  <2>2. QED
    BY <2>1, x \in Nat, y \in Nat
<1>3. QED
  BY <1>2

\* Of two increasing slices with the same scopes, the one has a value at the
\* first index where they may differ if the other has, and none above it.
LEMMA FirstDifference ==
    ASSUME NEW a \in Seq(Nat), NEW b \in Seq(Nat),
           Increasing(a), Increasing(b), Range(a) \subseteq Range(b),
           NEW n \in 1 .. Len(a),
           \A m \in 1 .. n - 1 : m \in 1 .. Len(b) /\ b[m] = a[m]
    PROVE  n \in 1 .. Len(b) /\ b[n] <= a[n]
<1>1. PICK m \in 1 .. Len(b) : b[m] = a[n]
  <2>1. DOMAIN a = 1 .. Len(a) /\ DOMAIN b = 1 .. Len(b)
    BY LenProperties
  <2>2. a[n] \in Range(a)
    BY <2>1 DEF Range
  <2>3. a[n] \in Range(b)
    BY <2>2
  <2>4. QED
    BY <2>1, <2>3 DEF Range
<1>2. m >= n
  <2>1. ASSUME m < n PROVE FALSE
    <3>1. b[m] = a[m] /\ m \in 1 .. Len(a)
      BY <2>1
    <3>2. a[m] < a[n]
      BY <2>1, <3>1 DEF Increasing
    <3>3. QED
      BY <1>1, <3>1, <3>2
  <2>2. QED
    BY <2>1
<1>3. n \in 1 .. Len(b)
  BY <1>2
<1>4. n = m \/ b[n] < b[m]
  BY <1>2, <1>3 DEF Increasing
<1>5. QED
  BY <1>1, <1>3, <1>4, b[n] \in Nat, b[m] \in Nat

\* An increasing slice is determined by its scopes.
LEMMA SameSlice ==
    ASSUME NEW a \in Seq(Nat), NEW b \in Seq(Nat),
           Increasing(a), Increasing(b), Range(a) = Range(b)
    PROVE  a = b
<1> DEFINE T == {n \in 1 .. Len(a) \cup 1 .. Len(b) :
                    ~ (n \in 1 .. Len(a) /\ n \in 1 .. Len(b) /\ a[n] = b[n])}
<1>1. CASE T = {}
  <2>1. \A n \in 1 .. Len(a) : n \in 1 .. Len(b) /\ a[n] = b[n]
    BY <1>1
  <2>2. \A n \in 1 .. Len(b) : n \in 1 .. Len(a)
    BY <1>1
  <2>3. Len(a) = Len(b)
    BY <2>1, <2>2
  <2>4. QED
    BY <2>1, <2>3
<1>2. CASE T # {}
  <2>1. T \subseteq Nat
    OBVIOUS
  <2>2. PICK n \in T : \A m \in T : n <= m
    BY <1>2, <2>1, LeastNatural
  <2>3. \A m \in 1 .. n - 1 : m \in 1 .. Len(a) /\ m \in 1 .. Len(b) /\ a[m] = b[m]
    <3>1. TAKE m \in 1 .. n - 1
    <3>2. m \notin T
      BY <2>2, n \in Nat
    <3>3. m \in 1 .. Len(a) \cup 1 .. Len(b)
      BY n \in 1 .. Len(a) \cup 1 .. Len(b)
    <3>4. QED
      BY <3>2, <3>3
  <2>4. n \in 1 .. Len(a) => n \in 1 .. Len(b) /\ b[n] <= a[n]
    BY <2>3, FirstDifference
  <2>5. n \in 1 .. Len(b) => n \in 1 .. Len(a) /\ a[n] <= b[n]
    BY <2>3, FirstDifference
  <2>6. n \in 1 .. Len(a) /\ n \in 1 .. Len(b) /\ a[n] = b[n]
    BY <2>4, <2>5, a \in Seq(Nat), b \in Seq(Nat)
  <2>7. QED
    BY <2>6
<1>3. QED
  BY <1>1, <1>2

\* An appended value joins the scopes of the slice.
LEMMA RangeOfAppend ==
    ASSUME NEW S, NEW s \in Seq(S), NEW x \in S
    PROVE  /\ Range(Append(s, x)) = Range(s) \cup {x}
           /\ Append(s, x) \in Seq(S)
           /\ Len(Append(s, x)) = Len(s) + 1
<1> DEFINE t == Append(s, x)
<1>1. /\ t \in Seq(S) /\ Len(t) = Len(s) + 1
      /\ \A n \in 1 .. Len(s) : t[n] = s[n]
      /\ t[Len(s) + 1] = x
  BY AppendProperties
<1>2. DOMAIN s = 1 .. Len(s) /\ DOMAIN t = 1 .. Len(s) + 1 /\ Len(s) \in Nat
  BY <1>1, LenProperties
<1> HIDE DEF t
<1>3. Range(t) \subseteq Range(s) \cup {x}
  BY <1>1, <1>2 DEF Range
<1>4. Range(s) \subseteq Range(t)
  BY <1>1, <1>2 DEF Range
<1>5. x \in Range(t)
  BY <1>1, <1>2 DEF Range
<1>6. QED
  BY <1>1, <1>3, <1>4, <1>5 DEF t

\* A value above all of the slice can be appended.
LEMMA IncreasingAppend ==
    ASSUME NEW s \in Seq(Nat), Increasing(s), NEW x \in Nat,
           \A y \in Range(s) : y < x
    PROVE  Increasing(Append(s, x))
  BY DEF Increasing, Range

\* A value that the slice does not hold leaves it free of duplicates.
LEMMA InjectiveAppend ==
    ASSUME NEW s \in Seq(Nat), IsInjective(s), NEW x \in Nat \ Range(s)
    PROVE  IsInjective(Append(s, x))
  BY DEF IsInjective, Range

\* sort.Slice on a slice without duplicates gives the increasing slice of the
\* same scopes.
LEMMA SortIncreases ==
    ASSUME NEW s \in Seq(ScopeNames), IsInjective(s), NEW t \in SortedOf(s)
    PROVE  t \in Seq(ScopeNames) /\ Increasing(t) /\ Range(t) = Range(s)
<1> DEFINE D == 1 .. Len(s)
<1>1. DOMAIN s = D /\ Len(s) \in Nat /\ \A n \in D : s[n] \in ScopeNames
  BY LenProperties, ElementOfSeq
<1>2. PICK p \in Bijection(D, D) :
         /\ t = [n \in D |-> s[p[n]]]
         /\ \A m, n \in D : m < n => s[p[m]] <= s[p[n]]
  BY DEF SortedOf
<1>3. p \in [D -> D] /\ IsInjective(p) /\ \A k \in D : \E n \in D : p[n] = k
  BY DEF Bijection, Injection, Surjection
<1>4. t \in [D -> ScopeNames]
  BY <1>1, <1>2, <1>3
<1>5. t \in Seq(ScopeNames) /\ DOMAIN t = D
  BY <1>1, <1>4, IsASeq
<1> HIDE DEF D
<1>6. Increasing(t)
  <2>1. SUFFICES ASSUME NEW m \in D, NEW n \in D, m < n PROVE t[m] < t[n]
    BY <1>5 DEF Increasing
  <2>2. t[m] <= t[n] /\ t[m] = s[p[m]] /\ t[n] = s[p[n]]
    BY <1>2, <2>1
  <2>3. m # n
    BY <1>1, <2>1 DEF D
  <2>4. p[m] # p[n] /\ p[m] \in D /\ p[n] \in D
    BY <1>3, <2>3 DEF IsInjective
  <2>5. s[p[m]] # s[p[n]]
    BY <1>1, <2>4 DEF IsInjective
  <2>6. t[m] \in Nat /\ t[n] \in Nat
    BY <1>4, ScopesAssumption
  <2>7. QED
    BY <2>2, <2>5, <2>6
<1>7. Range(t) = Range(s)
  <2>1. Range(t) \subseteq Range(s)
    BY <1>1, <1>2, <1>3, <1>5 DEF Range
  <2>2. ASSUME NEW k \in D PROVE s[k] \in Range(t)
    <3>1. PICK n \in D : p[n] = k
      BY <1>3
    <3>2. t[n] = s[k]
      BY <1>2, <3>1
    <3>3. QED
      BY <1>5, <3>2 DEF Range
  <2>3. QED
    BY <1>1, <2>1, <2>2 DEF Range
<1>8. QED
  BY <1>5, <1>6, <1>7

-----------------------------------------------------------------------------
(* The inductive invariant: what the loop of every call has done so far. *)

ScopesTypeOK ==
    /\ left \in Seq(ScopeNames) /\ right \in Seq(ScopeNames)
    /\ values \in Seq(ScopeNames \cup {0}) /\ built \in Seq(ScopeNames)
    /\ scope \in Nat /\ i \in Nat /\ j \in Nat
    /\ done \in BOOLEAN /\ answer \in BOOLEAN
    /\ call \in {"none", "NewScopeSet", "ParseScopes", "Intersect", "IsSubsetOf", "Contains"}

SlicesCanonical ==
    /\ Increasing(left) /\ Range(left) = leftMeaning
    /\ Increasing(right) /\ Range(right) = rightMeaning

\* NewScopeSet: the values so far, each once, and none of them refused.
Collecting ==
    Running({"NewScopeSet", "ParseScopes"}) =>
        /\ i <= Len(values)
        /\ IsInjective(built)
        /\ Range(built) = {values[n] : n \in 1 .. i} \ {0}
        /\ call = "NewScopeSet" => \A n \in 1 .. i : values[n] # 0
        /\ expected = IF call = "NewScopeSet" THEN Range(values) ELSE Range(values) \ {0}

\* Intersect: the common scopes of the part of the left slice that was read,
\* as many as were read only if all were common; what is unread of one slice
\* is above what was read of the other.
Merging ==
    Running({"Intersect", "IsSubsetOf"}) =>
        /\ i <= Len(left) /\ j <= Len(right)
        /\ expected = leftMeaning \cap rightMeaning
        /\ Increasing(built)
        /\ Range(built) = {left[n] : n \in 1 .. i} \cap Range(right)
        /\ \A m \in 1 .. j : \A n \in i + 1 .. Len(left) : right[m] < left[n]
        /\ \A m \in 1 .. i : \A n \in j + 1 .. Len(right) : left[m] < right[n]
        /\ Len(built) <= i
        /\ Len(built) = i <=> \A n \in 1 .. i : left[n] \in Range(right)

\* sort.Find: the scope can only be between the two ends.
Searching ==
    Running({"Contains"}) =>
        /\ i <= j /\ j <= Len(left)
        /\ \A n \in 1 .. i : left[n] < scope
        /\ \A n \in j + 1 .. Len(left) : scope <= left[n]

AnswersRight ==
    /\ done /\ call = "IsSubsetOf" => (answer <=> leftMeaning \subseteq rightMeaning)
    /\ done /\ call = "Contains" => (answer <=> scope \in leftMeaning)

ScopesInv ==
    ScopesTypeOK /\ SlicesCanonical /\ Collecting /\ Merging /\ Searching /\ AnswersRight

-----------------------------------------------------------------------------
(* Calls. *)

\* The loop of a call that begins has read nothing.
LEMMA CallBegins ==
    ASSUME ScopesInv, NEW name, NEW list, NEW wanted, NEW meant,
           Call(name, list, wanted, meant),
           name \in {"NewScopeSet", "ParseScopes", "Intersect", "IsSubsetOf", "Contains"},
           list \in Seq(ScopeNames \cup {0}), wanted \in Nat,
           name = "NewScopeSet" => meant = Range(list),
           name = "ParseScopes" => meant = Range(list) \ {0},
           name \in {"Intersect", "IsSubsetOf"} => meant = leftMeaning \cap rightMeaning
    PROVE  ScopesInv'
<1> USE DEF ScopesInv
<1>1. /\ call' = name /\ done' = FALSE /\ values' = list /\ scope' = wanted
      /\ expected' = meant /\ built' = << >> /\ i' = 0
      /\ j' = (IF name = "Contains" THEN Len(left) ELSE 0)
      /\ left' = left /\ right' = right /\ leftMeaning' = leftMeaning
      /\ rightMeaning' = rightMeaning /\ answer' = answer
  BY DEF Call, sets
<1>2. Len(left) \in Nat /\ Len(right) \in Nat /\ Len(list) \in Nat
  BY DEF ScopesTypeOK
<1>3. ScopesTypeOK'
  <2>1. j' \in Nat
    BY <1>1, <1>2
  <2>2. built' \in Seq(ScopeNames) /\ i' \in Nat
    BY <1>1
  <2>3. done' \in BOOLEAN /\ answer' \in BOOLEAN
    BY <1>1 DEF ScopesTypeOK
  <2>4. QED
    BY <1>1, <2>1, <2>2, <2>3 DEF ScopesTypeOK
<1>4. SlicesCanonical'
  BY <1>1 DEF SlicesCanonical
<1>5. Range(<< >>) = {} /\ IsInjective(<< >>) /\ Increasing(<< >>)
  BY DEF Range, IsInjective, Increasing
<1>6. Collecting'
  <2>1. {list[n] : n \in 1 .. 0} = {}
    OBVIOUS
  <2>2. QED
    BY <1>1, <1>2, <1>5, <2>1 DEF Collecting, Running
<1>7. Merging'
  <2>1. {left[n] : n \in 1 .. 0} = {}
    OBVIOUS
  <2>2. Running({"Intersect", "IsSubsetOf"})' => name \in {"Intersect", "IsSubsetOf"}
    BY <1>1 DEF Running
  <2>3. ASSUME name \in {"Intersect", "IsSubsetOf"} PROVE j' = 0
    BY <1>1, <2>3
  <2>4. QED
    BY <1>1, <1>2, <1>5, <2>1, <2>2, <2>3 DEF Merging
<1>8. Searching'
  BY <1>1, <1>2 DEF Searching, Running
<1>9. AnswersRight'
  BY <1>1 DEF AnswersRight
<1>10. QED
  BY <1>3, <1>4, <1>6, <1>7, <1>8, <1>9

\* A list of inputs is a slice of scopes and empty texts.
LEMMA InputsAreLists ==
    ASSUME NEW list \in Inputs
    PROVE  list \in Seq(ScopeNames \cup {0})
  BY ScopesAssumption, IsASeq DEF Inputs

\* Every public call of scopes.go begins on canonical slices.
LEMMA CallsBegin ==
    ASSUME ScopesInv,
           NewScopeSet \/ ParseScopes \/ Reload \/ Intersect \/ IsSubsetOf \/ Contains
    PROVE  ScopesInv'
<1>0. << >> \in Seq(ScopeNames \cup {0}) /\ 0 \in Nat
  OBVIOUS
<1>1. CASE NewScopeSet
  BY <1>1, <1>0, CallBegins, InputsAreLists DEF NewScopeSet
<1>2. CASE ParseScopes
  BY <1>2, <1>0, CallBegins, InputsAreLists DEF ParseScopes
<1>3. CASE Reload
  <2>1. left \in Seq(ScopeNames) /\ Range(left) = leftMeaning
    BY DEF ScopesInv, ScopesTypeOK, SlicesCanonical
  <2>2. left \in Seq(ScopeNames \cup {0})
    BY <2>1
  <2>3. 0 \notin Range(left)
    BY <2>1, ScopesAssumption DEF Range
  <2>4. leftMeaning = Range(left) \ {0}
    BY <2>1, <2>3
  <2>5. QED
    BY <1>3, <1>0, <2>2, <2>4, CallBegins DEF Reload
<1>4. CASE Intersect
  BY <1>4, <1>0, CallBegins DEF Intersect
<1>5. CASE IsSubsetOf
  BY <1>5, <1>0, CallBegins DEF IsSubsetOf
<1>6. CASE Contains
  <2>1. PICK wanted \in ScopeNames : Call("Contains", << >>, wanted, {})
    BY <1>6 DEF Contains
  <2>2. wanted \in Nat
    BY ScopesAssumption
  <2>3. QED
    BY <1>0, <2>1, <2>2, CallBegins
<1>7. QED
  BY <1>1, <1>2, <1>3, <1>4, <1>5, <1>6

\* A call that returns a set returns the increasing slice of the set that it
\* has to return.
LEMMA SetReturned ==
    ASSUME ScopesInv, NEW set, ReturnSet(set),
           set \in Seq(ScopeNames), Increasing(set), Range(set) = expected,
           call \in {"NewScopeSet", "ParseScopes", "Intersect"}
    PROVE  ScopesInv'
<1>1. /\ done' = TRUE /\ left' = set /\ leftMeaning' = expected
      /\ right' = right /\ rightMeaning' = rightMeaning /\ call' = call
      /\ values' = values /\ scope' = scope /\ built' = built /\ i' = i /\ j' = j
      /\ answer' = answer
  BY DEF ReturnSet, arguments
<1>2. QED
  BY <1>1 DEF ScopesInv, ScopesTypeOK, SlicesCanonical, Collecting, Merging, Searching,
     AnswersRight, Running

\* A call that returns an answer leaves the slices alone.
LEMMA AnswerReturned ==
    ASSUME ScopesInv, NEW truth \in BOOLEAN, ReturnAnswer(truth),
           \/ /\ call = "IsSubsetOf"
              /\ truth <=> leftMeaning \subseteq rightMeaning
           \/ /\ call = "Contains"
              /\ truth <=> scope \in leftMeaning
    PROVE  ScopesInv'
<1>1. /\ done' = TRUE /\ left' = left /\ leftMeaning' = leftMeaning
      /\ right' = right /\ rightMeaning' = rightMeaning /\ call' = call
      /\ values' = values /\ scope' = scope /\ built' = built /\ i' = i /\ j' = j
      /\ answer' = truth
  BY DEF ReturnAnswer, arguments, sets
<1>2. QED
  BY <1>1 DEF ScopesInv, ScopesTypeOK, SlicesCanonical, Collecting, Merging, Searching,
     AnswersRight, Running

-----------------------------------------------------------------------------
(* NewScopeSet and ParseScopes. *)

\* What Keep makes of a slice without duplicates.
LEMMA KeepOnce ==
    ASSUME NEW s \in Seq(ScopeNames), IsInjective(s), NEW value \in ScopeNames \cup {0}
    PROVE  /\ Keep(s, value) \in Seq(ScopeNames)
           /\ IsInjective(Keep(s, value))
           /\ Range(Keep(s, value)) = (Range(s) \cup {value}) \ {0}
<1>0. 0 \notin Range(s) /\ ScopeNames \subseteq Nat
  BY ScopesAssumption DEF Range
<1>1. CASE value \in Range(s) \cup {0}
  BY <1>0, <1>1 DEF Keep
<1>2. CASE value \notin Range(s) \cup {0}
  <2>1. value \in ScopeNames /\ Keep(s, value) = Append(s, value)
    BY <1>2 DEF Keep
  <2>2. s \in Seq(Nat) /\ value \in Nat \ Range(s)
    <3>1. s \in Seq(Nat)
      BY <1>0, SeqMonotonic
    <3>2. value \in Nat \ Range(s)
      BY <1>0, <1>2, <2>1
    <3>3. QED
      BY <3>1, <3>2
  <2>3. IsInjective(Append(s, value))
    BY <2>2, InjectiveAppend
  <2>4. Range(Append(s, value)) = Range(s) \cup {value} /\ Append(s, value) \in Seq(ScopeNames)
    BY <2>1, RangeOfAppend
  <2>5. QED
    BY <1>0, <1>2, <2>1, <2>3, <2>4
<1>3. QED
  BY <1>1, <1>2

\* One more element of a list.
LEMMA OneMore ==
    ASSUME NEW list, NEW k \in Nat
    PROVE  {list[n] : n \in 1 .. k + 1} = {list[n] : n \in 1 .. k} \cup {list[k + 1]}
<1>1. 1 .. k + 1 = (1 .. k) \cup {k + 1}
  OBVIOUS
<1>2. QED
  BY <1>1, Zenon

LEMMA CollectStep ==
    ASSUME ScopesInv, Collect
    PROVE  ScopesInv'
<1> USE DEF ScopesInv
<1>1. /\ ~ done /\ call \in {"NewScopeSet", "ParseScopes"}
      /\ i < Len(values)
      /\ values[i + 1] = 0 => call = "ParseScopes"
      /\ built' = Keep(built, values[i + 1]) /\ i' = i + 1
      /\ left' = left /\ right' = right /\ leftMeaning' = leftMeaning
      /\ rightMeaning' = rightMeaning /\ answer' = answer /\ done' = done
      /\ call' = call /\ values' = values /\ scope' = scope /\ expected' = expected /\ j' = j
  BY DEF Collect, Running, sets, arguments
<1>2. /\ i \in Nat /\ values \in Seq(ScopeNames \cup {0}) /\ built \in Seq(ScopeNames)
  BY DEF ScopesTypeOK
<1>3. values[i + 1] \in ScopeNames \cup {0} /\ Len(values) \in Nat
  BY <1>1, <1>2
<1>4. /\ i <= Len(values)
      /\ IsInjective(built)
      /\ Range(built) = {values[n] : n \in 1 .. i} \ {0}
      /\ call = "NewScopeSet" => \A n \in 1 .. i : values[n] # 0
      /\ expected = IF call = "NewScopeSet" THEN Range(values) ELSE Range(values) \ {0}
  BY <1>1 DEF Collecting, Running
<1>5. /\ built' \in Seq(ScopeNames) /\ IsInjective(built')
      /\ Range(built') = (Range(built) \cup {values[i + 1]}) \ {0}
  BY <1>1, <1>2, <1>3, <1>4, KeepOnce
<1>6. {values[n] : n \in 1 .. i + 1} = {values[n] : n \in 1 .. i} \cup {values[i + 1]}
  BY <1>2, OneMore
<1>7. Range(built') = {values[n] : n \in 1 .. i + 1} \ {0}
  BY <1>4, <1>5, <1>6
<1>8. ScopesTypeOK'
  BY <1>1, <1>2, <1>5 DEF ScopesTypeOK
<1>9. Collecting'
  <2>1. i + 1 <= Len(values)
    BY <1>1, <1>2, <1>3
  <2>2. call = "NewScopeSet" => \A n \in 1 .. i + 1 : values[n] # 0
    BY <1>1, <1>2, <1>4
  <2>3. QED
    BY <1>1, <1>4, <1>5, <1>7, <2>1, <2>2 DEF Collecting
<1>10. SlicesCanonical' /\ Merging' /\ Searching' /\ AnswersRight'
  BY <1>1 DEF SlicesCanonical, Merging, Searching, AnswersRight, Running
<1>11. QED
  BY <1>8, <1>9, <1>10

LEMMA RefuseStep ==
    ASSUME ScopesInv, Refuse
    PROVE  ScopesInv'
<1>1. /\ call = "NewScopeSet" /\ done' = TRUE
      /\ left' = left /\ right' = right /\ leftMeaning' = leftMeaning
      /\ rightMeaning' = rightMeaning /\ answer' = answer
      /\ call' = call /\ values' = values /\ scope' = scope /\ expected' = expected
      /\ built' = built /\ i' = i /\ j' = j
  BY DEF Refuse, Running, sets, arguments
<1>2. QED
  BY <1>1 DEF ScopesInv, ScopesTypeOK, SlicesCanonical, Collecting, Merging, Searching,
     AnswersRight, Running

LEMMA SortStep ==
    ASSUME ScopesInv, Sort
    PROVE  ScopesInv'
<1>1. PICK sorted \in SortedOf(built) : ReturnSet(sorted)
  BY DEF Sort
<1>2. call \in {"NewScopeSet", "ParseScopes"} /\ ~ done /\ i = Len(values)
  BY DEF Sort, Running
<1>3. /\ IsInjective(built)
      /\ Range(built) = {values[n] : n \in 1 .. i} \ {0}
      /\ call = "NewScopeSet" => \A n \in 1 .. i : values[n] # 0
      /\ expected = IF call = "NewScopeSet" THEN Range(values) ELSE Range(values) \ {0}
  BY <1>2 DEF ScopesInv, Collecting, Running
<1>4. built \in Seq(ScopeNames) /\ values \in Seq(ScopeNames \cup {0})
  BY DEF ScopesInv, ScopesTypeOK
<1>5. Range(values) = {values[n] : n \in 1 .. i}
  BY <1>2, <1>4, LenProperties DEF Range
<1>6. Range(built) = expected
  <2>1. CASE call = "NewScopeSet"
    <3>1. 0 \notin {values[n] : n \in 1 .. i}
      BY <1>3, <2>1
    <3>2. QED
      BY <1>3, <1>5, <2>1, <3>1
  <2>2. CASE call # "NewScopeSet"
    BY <1>3, <1>5, <2>2
  <2>3. QED
    BY <2>1, <2>2
<1>7. sorted \in Seq(ScopeNames) /\ Increasing(sorted) /\ Range(sorted) = Range(built)
  BY <1>3, <1>4, SortIncreases
<1>8. QED
  BY <1>1, <1>2, <1>6, <1>7, SetReturned

-----------------------------------------------------------------------------
(* Intersect and IsSubsetOf. *)

\* The parts of the merge's invariant, for a running merge.
LEMMA MergeFacts ==
    ASSUME ScopesInv, ~ done, call \in {"Intersect", "IsSubsetOf"}
    PROVE  /\ i \in Nat /\ j \in Nat /\ i <= Len(left) /\ j <= Len(right)
           /\ left \in Seq(ScopeNames) /\ right \in Seq(ScopeNames)
           /\ built \in Seq(ScopeNames) /\ ScopeNames \subseteq Nat
           /\ DOMAIN left = 1 .. Len(left) /\ DOMAIN right = 1 .. Len(right)
           /\ Len(left) \in Nat /\ Len(right) \in Nat /\ Len(built) \in Nat
           /\ Increasing(left) /\ Increasing(right) /\ Increasing(built)
           /\ \A n \in 1 .. Len(left) : left[n] \in Nat
           /\ \A n \in 1 .. Len(right) : right[n] \in Nat
           /\ expected = leftMeaning \cap rightMeaning
           /\ Range(left) = leftMeaning /\ Range(right) = rightMeaning
           /\ Range(built) = {left[n] : n \in 1 .. i} \cap Range(right)
           /\ \A m \in 1 .. j : \A n \in i + 1 .. Len(left) : right[m] < left[n]
           /\ \A m \in 1 .. i : \A n \in j + 1 .. Len(right) : left[m] < right[n]
           /\ Len(built) <= i
           /\ Len(built) = i <=> \A n \in 1 .. i : left[n] \in Range(right)
<1>1. /\ i \in Nat /\ j \in Nat /\ left \in Seq(ScopeNames) /\ right \in Seq(ScopeNames)
      /\ built \in Seq(ScopeNames)
  BY DEF ScopesInv, ScopesTypeOK
<1>2. ScopeNames \subseteq Nat
  BY ScopesAssumption
<1>3. /\ DOMAIN left = 1 .. Len(left) /\ DOMAIN right = 1 .. Len(right)
      /\ Len(left) \in Nat /\ Len(right) \in Nat /\ Len(built) \in Nat
  BY <1>1, LenProperties
<1>4. /\ \A n \in 1 .. Len(left) : left[n] \in Nat
      /\ \A n \in 1 .. Len(right) : right[n] \in Nat
  BY <1>1, <1>2, ElementOfSeq
<1>5. /\ Increasing(left) /\ Increasing(right)
      /\ Range(left) = leftMeaning /\ Range(right) = rightMeaning
  BY DEF ScopesInv, SlicesCanonical
<1>6. QED
  BY <1>1, <1>2, <1>3, <1>4, <1>5 DEF ScopesInv, Merging, Running

\* What a step of the merge leaves to prove.
LEMMA MergeFrame ==
    ASSUME ScopesInv, Merge,
           built' \in Seq(ScopeNames), i' \in Nat, j' \in Nat, Merging'
    PROVE  ScopesInv'
<1>1. /\ ~ done /\ call \in {"Intersect", "IsSubsetOf"}
      /\ left' = left /\ right' = right /\ leftMeaning' = leftMeaning
      /\ rightMeaning' = rightMeaning /\ answer' = answer /\ done' = done
      /\ call' = call /\ values' = values /\ scope' = scope /\ expected' = expected
  BY DEF Merge, Running, sets, arguments
<1>2. QED
  BY <1>1 DEF ScopesInv, ScopesTypeOK, SlicesCanonical, Collecting, Searching,
     AnswersRight, Running

\* The left slice is behind: its next scope is not in the right one.
LEMMA MergeLeft ==
    ASSUME ScopesInv, Merge, left[i + 1] < right[j + 1], i' = i + 1, built' = built, j' = j
    PROVE  ScopesInv'
<1>1. /\ ~ done /\ call \in {"Intersect", "IsSubsetOf"}
      /\ i < Len(left) /\ j < Len(right)
      /\ left' = left /\ right' = right /\ leftMeaning' = leftMeaning
      /\ rightMeaning' = rightMeaning /\ expected' = expected
  BY DEF Merge, Running, sets, arguments
<1>t. /\ i \in Nat /\ j \in Nat /\ Len(left) \in Nat /\ Len(right) \in Nat
      /\ Len(built) \in Nat /\ Len(built) <= i
  BY <1>1, MergeFacts
<1>n. /\ \A n \in 1 .. Len(left) : left[n] \in Nat
      /\ \A n \in 1 .. Len(right) : right[n] \in Nat
  BY <1>1, MergeFacts
<1>o. /\ \A m, n \in 1 .. Len(left) : m < n => left[m] < left[n]
      /\ \A m, n \in 1 .. Len(right) : m < n => right[m] < right[n]
  BY <1>1, MergeFacts DEF Increasing
<1>b. \A m \in 1 .. j : \A n \in i + 1 .. Len(left) : right[m] < left[n]
  BY <1>1, MergeFacts
<1>a. \A m \in 1 .. i : \A n \in j + 1 .. Len(right) : left[m] < right[n]
  BY <1>1, MergeFacts
<1> DEFINE x == left[i + 1]
<1>2. i + 1 \in 1 .. Len(left) /\ j + 1 \in 1 .. Len(right) /\ x \in Nat
  BY <1>1, <1>t, <1>n
<1>3. \A n \in j + 1 .. Len(right) : x < right[n]
  <2>1. TAKE n \in j + 1 .. Len(right)
  <2>2. n = j + 1 \/ right[j + 1] < right[n]
    BY <1>1, <1>2, <1>t, <1>o
  <2>3. right[n] \in Nat /\ right[j + 1] \in Nat
    BY <1>1, <1>2, <1>t, <1>n
  <2>4. QED
    BY <1>2, <2>2, <2>3
<1>4. \A m \in 1 .. j : right[m] < x
  BY <1>1, <1>2, <1>t, <1>b
<1>5. x \notin Range(right)
  <2>1. ASSUME NEW m \in 1 .. Len(right), right[m] = x PROVE FALSE
    <3>1. m \in 1 .. j \/ m \in j + 1 .. Len(right)
      BY <1>1, <1>t
    <3>2. QED
      BY <1>2, <1>3, <1>4, <2>1, <3>1
  <2>2. QED
    BY <1>1, <2>1, MergeFacts DEF Range
<1>6. {left[n] : n \in 1 .. i + 1} = {left[n] : n \in 1 .. i} \cup {x}
  BY <1>1, MergeFacts, OneMore
<1> HIDE DEF x
<1>7. Range(built) = {left[n] : n \in 1 .. i + 1} \cap Range(right)
  BY <1>1, <1>5, <1>6, MergeFacts
<1>8. \A m \in 1 .. j : \A n \in i + 2 .. Len(left) : right[m] < left[n]
  BY <1>1, <1>t, <1>b
<1>9. \A m \in 1 .. i + 1 : \A n \in j + 1 .. Len(right) : left[m] < right[n]
  <2>1. TAKE m \in 1 .. i + 1
  <2>2. m \in 1 .. i \/ m = i + 1
    BY <1>t
  <2>3. QED
    BY <1>3, <2>2, <1>a DEF x
<1>10. Len(built) <= i + 1 /\ Len(built) # i + 1
  BY <1>t
<1>11. ~ \A n \in 1 .. i + 1 : left[n] \in Range(right)
  BY <1>2, <1>5, <1>t DEF x
<1>12. Merging'
  <2>1. i + 1 <= Len(left) /\ i + 1 \in Nat /\ (i + 1) + 1 = i + 2
    BY <1>1, <1>2, <1>t
  <2>2. j <= Len(right) /\ Increasing(built) /\ expected = leftMeaning \cap rightMeaning
    BY <1>1, MergeFacts
  <2>3. QED
    BY <1>1, <1>7, <1>8, <1>9, <1>10, <1>11, <2>1, <2>2 DEF Merging
<1>13. built \in Seq(ScopeNames) /\ i + 1 \in Nat /\ j \in Nat
  BY <1>1, MergeFacts
<1>14. QED
  BY <1>12, <1>13, MergeFrame

\* The right slice is behind.
LEMMA MergeRight ==
    ASSUME ScopesInv, Merge, left[i + 1] > right[j + 1], j' = j + 1, built' = built, i' = i
    PROVE  ScopesInv'
<1>1. /\ ~ done /\ call \in {"Intersect", "IsSubsetOf"}
      /\ i < Len(left) /\ j < Len(right)
      /\ left' = left /\ right' = right /\ leftMeaning' = leftMeaning
      /\ rightMeaning' = rightMeaning /\ expected' = expected
  BY DEF Merge, Running, sets, arguments
<1>t. /\ i \in Nat /\ j \in Nat /\ Len(left) \in Nat /\ Len(right) \in Nat
      /\ Len(built) \in Nat /\ Len(built) <= i
  BY <1>1, MergeFacts
<1>n. /\ \A n \in 1 .. Len(left) : left[n] \in Nat
      /\ \A n \in 1 .. Len(right) : right[n] \in Nat
  BY <1>1, MergeFacts
<1>o. /\ \A m, n \in 1 .. Len(left) : m < n => left[m] < left[n]
      /\ \A m, n \in 1 .. Len(right) : m < n => right[m] < right[n]
  BY <1>1, MergeFacts DEF Increasing
<1>b. \A m \in 1 .. j : \A n \in i + 1 .. Len(left) : right[m] < left[n]
  BY <1>1, MergeFacts
<1>a. \A m \in 1 .. i : \A n \in j + 1 .. Len(right) : left[m] < right[n]
  BY <1>1, MergeFacts
<1> DEFINE y == right[j + 1]
<1>2. i + 1 \in 1 .. Len(left) /\ j + 1 \in 1 .. Len(right) /\ y \in Nat
  BY <1>1, <1>t, <1>n
<1>3. \A n \in i + 1 .. Len(left) : y < left[n]
  <2>1. TAKE n \in i + 1 .. Len(left)
  <2>2. n = i + 1 \/ left[i + 1] < left[n]
    BY <1>1, <1>2, <1>t, <1>o
  <2>3. left[n] \in Nat /\ left[i + 1] \in Nat
    BY <1>1, <1>2, <1>t, <1>n
  <2>4. QED
    BY <1>2, <2>2, <2>3
<1>8. \A m \in 1 .. j + 1 : \A n \in i + 1 .. Len(left) : right[m] < left[n]
  <2>1. TAKE m \in 1 .. j + 1
  <2>2. m \in 1 .. j \/ m = j + 1
    BY <1>t
  <2>3. QED
    BY <1>3, <2>2, <1>b
<1>9. \A m \in 1 .. i : \A n \in j + 2 .. Len(right) : left[m] < right[n]
  BY <1>1, <1>t, <1>a
<1>12. Merging'
  <2>1. j + 1 <= Len(right) /\ (j + 1) + 1 = j + 2
    BY <1>1, <1>2, <1>t
  <2>2. /\ i <= Len(left) /\ Increasing(built) /\ expected = leftMeaning \cap rightMeaning
        /\ Range(built) = {left[n] : n \in 1 .. i} \cap Range(right) /\ Len(built) <= i
        /\ Len(built) = i <=> \A n \in 1 .. i : left[n] \in Range(right)
    BY <1>1, MergeFacts
  <2>3. QED
    BY <1>1, <1>8, <1>9, <2>1, <2>2 DEF Merging
<1>13. built \in Seq(ScopeNames) /\ i \in Nat /\ j + 1 \in Nat
  BY <1>1, MergeFacts
<1>14. QED
  BY <1>12, <1>13, MergeFrame

\* A common scope: above all that was built, as it is above all of the left
\* slice that was read.
LEMMA MergeBoth ==
    ASSUME ScopesInv, Merge, left[i + 1] = right[j + 1],
           built' = Append(built, left[i + 1]), i' = i + 1, j' = j + 1
    PROVE  ScopesInv'
<1>1. /\ ~ done /\ call \in {"Intersect", "IsSubsetOf"}
      /\ i < Len(left) /\ j < Len(right)
      /\ left' = left /\ right' = right /\ leftMeaning' = leftMeaning
      /\ rightMeaning' = rightMeaning /\ expected' = expected
  BY DEF Merge, Running, sets, arguments
<1>t. /\ i \in Nat /\ j \in Nat /\ Len(left) \in Nat /\ Len(right) \in Nat
      /\ Len(built) \in Nat /\ Len(built) <= i
  BY <1>1, MergeFacts
<1>n. /\ \A n \in 1 .. Len(left) : left[n] \in Nat
      /\ \A n \in 1 .. Len(right) : right[n] \in Nat
  BY <1>1, MergeFacts
<1>o. /\ \A m, n \in 1 .. Len(left) : m < n => left[m] < left[n]
      /\ \A m, n \in 1 .. Len(right) : m < n => right[m] < right[n]
  BY <1>1, MergeFacts DEF Increasing
<1>b. \A m \in 1 .. j : \A n \in i + 1 .. Len(left) : right[m] < left[n]
  BY <1>1, MergeFacts
<1>a. \A m \in 1 .. i : \A n \in j + 1 .. Len(right) : left[m] < right[n]
  BY <1>1, MergeFacts
<1> DEFINE x == left[i + 1]
<1>2. i + 1 \in 1 .. Len(left) /\ j + 1 \in 1 .. Len(right) /\ x \in Nat
  BY <1>1, <1>t, <1>n
<1>3. built \in Seq(ScopeNames) /\ left \in Seq(ScopeNames) /\ ScopeNames \subseteq Nat
  BY <1>1, MergeFacts
<1>4. x \in ScopeNames /\ built \in Seq(Nat)
  <2>1. x \in ScopeNames
    BY <1>2, <1>3, ElementOfSeq
  <2>2. built \in Seq(Nat)
    BY <1>3, SeqMonotonic
  <2>3. QED
    BY <2>1, <2>2
<1>5. x \in Range(right)
  BY <1>1, <1>2, MergeFacts DEF Range
<1>6. {left[n] : n \in 1 .. i + 1} = {left[n] : n \in 1 .. i} \cup {x}
  BY <1>t, OneMore
<1>7. Range(built) = {left[n] : n \in 1 .. i} \cap Range(right) /\ Increasing(built)
  BY <1>1, MergeFacts
<1>8. \A y \in Range(built) : y < x
  <2>1. TAKE y \in Range(built)
  <2>2. PICK n \in 1 .. i : y = left[n]
    BY <1>7
  <2>3. n \in 1 .. Len(left) /\ n < i + 1
    BY <1>1, <1>t
  <2>4. QED
    BY <1>2, <1>o, <2>2, <2>3
<1>9. \A n \in j + 2 .. Len(right) : x < right[n]
  <2>1. TAKE n \in j + 2 .. Len(right)
  <2>2. n \in 1 .. Len(right) /\ j + 1 < n
    BY <1>t
  <2>3. right[j + 1] < right[n]
    BY <1>2, <1>o, <2>2
  <2>4. QED
    BY <2>3
<1>10. \A n \in i + 2 .. Len(left) : x < left[n]
  <2>1. TAKE n \in i + 2 .. Len(left)
  <2>2. n \in 1 .. Len(left) /\ i + 1 < n
    BY <1>t
  <2>3. QED
    BY <1>2, <1>o, <2>2
<1>11. /\ Range(Append(built, x)) = Range(built) \cup {x}
       /\ Append(built, x) \in Seq(ScopeNames)
       /\ Len(Append(built, x)) = Len(built) + 1
  BY <1>3, <1>4, RangeOfAppend
<1>12. Increasing(Append(built, x))
  BY <1>2, <1>4, <1>7, <1>8, IncreasingAppend
<1> HIDE DEF x
<1>13. Range(Append(built, x)) = {left[n] : n \in 1 .. i + 1} \cap Range(right)
  BY <1>5, <1>6, <1>7, <1>11
<1>14. \A m \in 1 .. j + 1 : \A n \in i + 2 .. Len(left) : right[m] < left[n]
  <2>1. TAKE m \in 1 .. j + 1
  <2>2. TAKE n \in i + 2 .. Len(left)
  <2>3. m \in 1 .. j \/ m = j + 1
    BY <1>t
  <2>4. n \in i + 1 .. Len(left)
    BY <1>t
  <2>5. right[j + 1] = x
    BY DEF x
  <2>6. QED
    BY <1>b, <1>10, <2>3, <2>4, <2>5
<1>15. \A m \in 1 .. i + 1 : \A n \in j + 2 .. Len(right) : left[m] < right[n]
  <2>1. TAKE m \in 1 .. i + 1
  <2>2. TAKE n \in j + 2 .. Len(right)
  <2>3. m \in 1 .. i \/ m = i + 1
    BY <1>t
  <2>4. n \in j + 1 .. Len(right)
    BY <1>t
  <2>5. left[i + 1] = x
    BY DEF x
  <2>6. QED
    BY <1>a, <1>9, <2>3, <2>4, <2>5
<1>16. Len(Append(built, x)) = i + 1 <=> \A n \in 1 .. i + 1 : left[n] \in Range(right)
  <2>1. Len(built) = i <=> \A n \in 1 .. i : left[n] \in Range(right)
    BY <1>1, MergeFacts
  <2>2. (\A n \in 1 .. i + 1 : left[n] \in Range(right))
          <=> \A n \in 1 .. i : left[n] \in Range(right)
    BY <1>t, <1>5 DEF x
  <2>3. Len(Append(built, x)) = i + 1 <=> Len(built) = i
    BY <1>t, <1>11
  <2>4. QED
    BY <2>1, <2>2, <2>3
<1>17. Len(Append(built, x)) <= i + 1
  BY <1>t, <1>11
<1>18. built' = Append(built, x)
  BY DEF x
<1>19. Merging'
  <2>1. i + 1 <= Len(left) /\ j + 1 <= Len(right)
    BY <1>1, <1>t
  <2>2. (i + 1) + 1 = i + 2 /\ (j + 1) + 1 = j + 2
    BY <1>t
  <2>3. expected = leftMeaning \cap rightMeaning
    BY <1>1, MergeFacts
  <2>4. QED
    BY <1>1, <1>12, <1>13, <1>14, <1>15, <1>16, <1>17, <1>18, <2>1, <2>2, <2>3 DEF Merging
<1>20. built' \in Seq(ScopeNames) /\ i' \in Nat /\ j' \in Nat
  BY <1>t, <1>11, <1>18
<1>21. QED
  BY <1>19, <1>20, MergeFrame

LEMMA MergeStep ==
    ASSUME ScopesInv, Merge
    PROVE  ScopesInv'
<1>1. \/ left[i + 1] < right[j + 1] /\ i' = i + 1 /\ built' = built /\ j' = j
      \/ left[i + 1] > right[j + 1] /\ j' = j + 1 /\ built' = built /\ i' = i
      \/ /\ left[i + 1] = right[j + 1] /\ built' = Append(built, left[i + 1])
         /\ i' = i + 1 /\ j' = j + 1
  BY DEF Merge
<1>2. QED
  BY <1>1, MergeLeft, MergeRight, MergeBoth

\* A merge that has ended: the common scopes of both slices, as many as the
\* left one has only if it is a part of the right one.
LEMMA MergeEnds ==
    ASSUME ScopesInv, ~ done, call \in {"Intersect", "IsSubsetOf"},
           ~ (i < Len(left) /\ j < Len(right))
    PROVE  /\ Range(built) = leftMeaning \cap rightMeaning
           /\ Len(built) = Len(left) <=> leftMeaning \subseteq rightMeaning
<1>t. /\ i \in Nat /\ j \in Nat /\ Len(left) \in Nat /\ Len(right) \in Nat
      /\ Len(built) \in Nat /\ Len(built) <= i /\ i <= Len(left) /\ j <= Len(right)
  BY MergeFacts
<1>n. /\ \A n \in 1 .. Len(left) : left[n] \in Nat
      /\ \A n \in 1 .. Len(right) : right[n] \in Nat
  BY MergeFacts
<1>r. /\ leftMeaning = {left[n] : n \in 1 .. Len(left)}
      /\ rightMeaning = {right[n] : n \in 1 .. Len(right)}
      /\ Range(right) = rightMeaning
  BY MergeFacts DEF Range
<1>m. Range(built) = {left[n] : n \in 1 .. i} \cap rightMeaning
  BY <1>r, MergeFacts
<1>s. Len(built) = i <=> \A n \in 1 .. i : left[n] \in rightMeaning
  BY <1>r, MergeFacts
<1>1. CASE i = Len(left)
  BY <1>1, <1>r, <1>m, <1>s
<1>2. CASE i # Len(left)
  <2>1. i < Len(left) /\ j = Len(right)
    BY <1>2, <1>t
  <2>2. \A m \in 1 .. Len(right) : \A n \in i + 1 .. Len(left) : right[m] < left[n]
    BY <2>1, MergeFacts
  <2>3. \A n \in i + 1 .. Len(left) : left[n] \notin rightMeaning
    <3>1. SUFFICES ASSUME NEW n \in i + 1 .. Len(left), NEW m \in 1 .. Len(right),
                          left[n] = right[m]
                   PROVE  FALSE
      BY <1>r
    <3>2. right[m] < left[n] /\ right[m] \in Nat
      BY <1>n, <2>2
    <3>3. QED
      BY <3>1, <3>2
  <2>4. i + 1 \in i + 1 .. Len(left) /\ i + 1 \in 1 .. Len(left)
    BY <1>t, <2>1
  <2>5. Len(built) # Len(left)
    BY <1>t, <2>1
  <2>6. ~ (leftMeaning \subseteq rightMeaning)
    BY <1>r, <2>3, <2>4
  <2>7. leftMeaning \cap rightMeaning \subseteq {left[n] : n \in 1 .. i}
    <3>1. SUFFICES ASSUME NEW n \in 1 .. Len(left), left[n] \in rightMeaning
                   PROVE  left[n] \in {left[k] : k \in 1 .. i}
      BY <1>r
    <3>2. n \notin i + 1 .. Len(left)
      BY <2>3, <3>1
    <3>3. n \in 1 .. i
      BY <1>t, <3>2
    <3>4. QED
      BY <3>3
  <2>8. {left[n] : n \in 1 .. i} \subseteq leftMeaning
    BY <1>t, <1>r
  <2>9. QED
    BY <1>m, <2>5, <2>6, <2>7, <2>8
<1>3. QED
  BY <1>1, <1>2

LEMMA IntersectedStep ==
    ASSUME ScopesInv, Intersected
    PROVE  ScopesInv'
<1>1. /\ ~ done /\ call = "Intersect" /\ ~ (i < Len(left) /\ j < Len(right))
      /\ ReturnSet(built)
  BY DEF Intersected, Merged, Running
<1>2. Range(built) = leftMeaning \cap rightMeaning
  BY <1>1, MergeEnds
<1>3. /\ built \in Seq(ScopeNames) /\ Increasing(built)
      /\ expected = leftMeaning \cap rightMeaning
  BY <1>1, MergeFacts
<1>4. QED
  BY <1>1, <1>2, <1>3, SetReturned

LEMMA ComparedStep ==
    ASSUME ScopesInv, Compared
    PROVE  ScopesInv'
<1>1. /\ ~ done /\ call = "IsSubsetOf" /\ ~ (i < Len(left) /\ j < Len(right))
      /\ ReturnAnswer(Len(built) = Len(left))
  BY DEF Compared, Merged, Running
<1>2. Len(built) = Len(left) <=> leftMeaning \subseteq rightMeaning
  BY <1>1, MergeEnds
<1>3. (Len(built) = Len(left)) \in BOOLEAN
  OBVIOUS
<1>4. QED
  BY <1>1, <1>2, <1>3, AnswerReturned

-----------------------------------------------------------------------------
(* Contains. *)

\* The parts of the search's invariant, for a running search.
LEMMA SearchFacts ==
    ASSUME ScopesInv, ~ done, call = "Contains"
    PROVE  /\ i \in Nat /\ j \in Nat /\ Len(left) \in Nat /\ scope \in Nat
           /\ i <= j /\ j <= Len(left)
           /\ \A n \in 1 .. Len(left) : left[n] \in Nat
           /\ \A m, n \in 1 .. Len(left) : m < n => left[m] < left[n]
           /\ leftMeaning = {left[n] : n \in 1 .. Len(left)}
           /\ \A n \in 1 .. i : left[n] < scope
           /\ \A n \in j + 1 .. Len(left) : scope <= left[n]
<1>1. left \in Seq(ScopeNames) /\ i \in Nat /\ j \in Nat /\ scope \in Nat
  BY DEF ScopesInv, ScopesTypeOK
<1>2. DOMAIN left = 1 .. Len(left) /\ Len(left) \in Nat
  BY <1>1, LenProperties
<1>3. \A n \in 1 .. Len(left) : left[n] \in Nat
  BY <1>1, ElementOfSeq, ScopesAssumption
<1>4. /\ \A m, n \in 1 .. Len(left) : m < n => left[m] < left[n]
      /\ leftMeaning = {left[n] : n \in 1 .. Len(left)}
  BY <1>2 DEF ScopesInv, SlicesCanonical, Increasing, Range
<1>5. QED
  BY <1>1, <1>2, <1>3, <1>4 DEF ScopesInv, Searching, Running

LEMMA SearchStep ==
    ASSUME ScopesInv, Search
    PROVE  ScopesInv' /\ i' <= j' /\ j' - i' < j - i
<1> DEFINE h == (i + j) \div 2
<1>1. /\ ~ done /\ call = "Contains" /\ i < j
      /\ \/ scope > left[h + 1] /\ i' = h + 1 /\ j' = j
         \/ scope <= left[h + 1] /\ j' = h /\ i' = i
      /\ left' = left /\ right' = right /\ leftMeaning' = leftMeaning
      /\ rightMeaning' = rightMeaning /\ answer' = answer /\ done' = done
      /\ call' = call /\ values' = values /\ scope' = scope /\ expected' = expected
      /\ built' = built
  BY DEF Search, AfterMiddle, Running, sets, arguments
<1>2. /\ i \in Nat /\ j \in Nat /\ Len(left) \in Nat /\ scope \in Nat
      /\ j <= Len(left)
  BY <1>1, SearchFacts
<1>3. h \in Nat /\ i <= h /\ h < j
  BY <1>1, <1>2
<1> HIDE DEF h
<1>4. h + 1 \in 1 .. Len(left)
  BY <1>2, <1>3
<1>5. \A n \in 1 .. Len(left) : left[n] \in Nat
  BY <1>1, SearchFacts
<1>6. \A m, n \in 1 .. Len(left) : m < n => left[m] < left[n]
  BY <1>1, SearchFacts
<1>7. /\ \A n \in 1 .. i : left[n] < scope
      /\ \A n \in j + 1 .. Len(left) : scope <= left[n]
  BY <1>1, SearchFacts
<1>8. i' \in Nat /\ j' \in Nat /\ i' <= j' /\ j' <= Len(left) /\ j' - i' < j - i
  BY <1>1, <1>2, <1>3
<1>9. Searching'
  <2>1. CASE scope > left[h + 1] /\ i' = h + 1 /\ j' = j
    <3>1. \A n \in 1 .. h + 1 : left[n] < scope
      <4>1. TAKE n \in 1 .. h + 1
      <4>2. n \in 1 .. Len(left) /\ (n = h + 1 \/ n < h + 1)
        BY <1>2, <1>3, <1>4
      <4>3. n = h + 1 \/ left[n] < left[h + 1]
        BY <1>4, <1>6, <4>2
      <4>4. left[n] \in Nat /\ left[h + 1] \in Nat
        BY <1>4, <1>5, <4>2
      <4>5. QED
        BY <1>2, <2>1, <4>3, <4>4
    <3>2. QED
      BY <1>1, <1>7, <1>8, <2>1, <3>1 DEF Searching
  <2>2. CASE scope <= left[h + 1] /\ j' = h /\ i' = i
    <3>1. \A n \in h + 1 .. Len(left) : scope <= left[n]
      <4>1. TAKE n \in h + 1 .. Len(left)
      <4>2. n \in 1 .. Len(left) /\ (n = h + 1 \/ h + 1 < n)
        BY <1>2, <1>3, <1>4
      <4>3. n = h + 1 \/ left[h + 1] < left[n]
        BY <1>4, <1>6, <4>2
      <4>4. left[n] \in Nat /\ left[h + 1] \in Nat
        BY <1>4, <1>5, <4>2
      <4>5. QED
        BY <1>2, <2>2, <4>3, <4>4
    <3>2. QED
      BY <1>1, <1>7, <1>8, <2>2, <3>1 DEF Searching
  <2>3. QED
    BY <1>1, <2>1, <2>2
<1>10. ScopesTypeOK'
  BY <1>1, <1>8 DEF ScopesInv, ScopesTypeOK
<1>11. SlicesCanonical' /\ Collecting' /\ Merging' /\ AnswersRight'
  BY <1>1 DEF ScopesInv, SlicesCanonical, Collecting, Merging, AnswersRight, Running
<1>12. QED
  BY <1>8, <1>9, <1>10, <1>11 DEF ScopesInv

LEMMA FoundStep ==
    ASSUME ScopesInv, Found
    PROVE  ScopesInv'
<1>1. /\ ~ done /\ call = "Contains" /\ i >= j
      /\ ReturnAnswer(i < Len(left) /\ left[i + 1] = scope)
  BY DEF Found, Running
<1>2. /\ i \in Nat /\ j \in Nat /\ Len(left) \in Nat /\ scope \in Nat
      /\ i = j /\ j <= Len(left)
  BY <1>1, SearchFacts
<1>3. \A n \in 1 .. Len(left) : left[n] \in Nat
  BY <1>1, SearchFacts
<1>4. \A m, n \in 1 .. Len(left) : m < n => left[m] < left[n]
  BY <1>1, SearchFacts
<1>5. /\ \A n \in 1 .. i : left[n] < scope
      /\ \A n \in i + 1 .. Len(left) : scope <= left[n]
  BY <1>1, <1>2, SearchFacts
<1>6. leftMeaning = {left[n] : n \in 1 .. Len(left)}
  BY <1>1, SearchFacts
<1>7. ASSUME i < Len(left), left[i + 1] = scope PROVE scope \in leftMeaning
  BY <1>2, <1>6, <1>7
<1>8. ASSUME scope \in leftMeaning PROVE i < Len(left) /\ left[i + 1] = scope
  <2>1. PICK n \in 1 .. Len(left) : left[n] = scope
    BY <1>6, <1>8
  <2>2. n \notin 1 .. i
    BY <1>2, <1>5, <2>1
  <2>3. i < Len(left) /\ n >= i + 1 /\ i + 1 \in 1 .. Len(left)
    BY <1>2, <2>2
  <2>4. scope <= left[i + 1]
    BY <1>2, <1>5, <2>3
  <2>5. n = i + 1 \/ left[i + 1] < left[n]
    BY <1>2, <1>4, <2>3
  <2>6. left[i + 1] \in Nat
    BY <1>3, <2>3
  <2>7. QED
    BY <1>2, <2>1, <2>3, <2>4, <2>5, <2>6
<1>9. (i < Len(left) /\ left[i + 1] = scope) <=> scope \in leftMeaning
  BY <1>7, <1>8
<1>10. (i < Len(left) /\ left[i + 1] = scope) \in BOOLEAN
  OBVIOUS
<1>11. QED
  BY <1>1, <1>9, <1>10, AnswerReturned

-----------------------------------------------------------------------------
(* The specification. *)

LEMMA SwapStep ==
    ASSUME ScopesInv, Swap
    PROVE  ScopesInv'
  BY DEF Swap, ScopesInv, ScopesTypeOK, SlicesCanonical, Collecting, Merging, Searching,
     AnswersRight, Running

LEMMA ScopesInitially ==
    ASSUME ScopesInit
    PROVE  ScopesInv
<1>1. << >> \in Seq(ScopeNames) /\ << >> \in Seq(ScopeNames \cup {0})
  OBVIOUS
<1>2. Range(<< >>) = {} /\ Increasing(<< >>)
  BY DEF Range, Increasing
<1>3. ScopesTypeOK
  BY <1>1 DEF ScopesInit, ScopesTypeOK
<1>4. SlicesCanonical
  BY <1>2 DEF ScopesInit, SlicesCanonical
<1>5. Collecting /\ Merging /\ Searching /\ AnswersRight
  BY DEF ScopesInit, Collecting, Merging, Searching, AnswersRight, Running
<1>6. QED
  BY <1>3, <1>4, <1>5 DEF ScopesInv

LEMMA ScopesInvariant == ScopesSpec => []ScopesInv
<1>1. ASSUME ScopesInv, [ScopesNext]_scopeVars PROVE ScopesInv'
  <2>1. CASE UNCHANGED scopeVars
    BY <1>1, <2>1 DEF scopeVars, sets, arguments, ScopesInv, ScopesTypeOK, SlicesCanonical,
       Collecting, Merging, Searching, AnswersRight, Running
  <2>2. CASE ScopesNext
    BY <1>1, <2>2, CallsBegin, CollectStep, RefuseStep, SortStep, MergeStep,
       IntersectedStep, ComparedStep, SearchStep, FoundStep, SwapStep DEF ScopesNext
  <2>3. QED
    BY <1>1, <2>1, <2>2
<1>2. QED
  BY <1>1, ScopesInitially, PTL DEF ScopesSpec

\* After any sequence of calls of scopes.go, on lists of any length and any
\* set of scopes, the slices hold the sets they stand for, are equal exactly
\* when these are, and IsSubsetOf and Contains have answered as these do: the
\* deduplicating loop and the sort of NewScopeSet keep every slice canonical,
\* which the merge, the length comparison and the binary search need.
THEOREM ScopesActAsSetsCorrect == ScopesSpec => []ScopesActAsSets
<1>1. ASSUME ScopesInv PROVE ScopesActAsSets
  <2>1. left \in Seq(ScopeNames) /\ right \in Seq(ScopeNames) /\ ScopeNames \subseteq Nat
    BY <1>1, ScopesAssumption DEF ScopesInv, ScopesTypeOK
  <2>2. left \in Seq(Nat) /\ right \in Seq(Nat)
    BY <2>1, SeqMonotonic
  <2>3. /\ Increasing(left) /\ Range(left) = leftMeaning
        /\ Increasing(right) /\ Range(right) = rightMeaning
    BY <1>1 DEF ScopesInv, SlicesCanonical
  <2>4. leftMeaning = rightMeaning => left = right
    BY <2>2, <2>3, SameSlice
  <2>5. left = right => leftMeaning = rightMeaning
    BY <2>3
  <2>6. QED
    BY <1>1, <2>3, <2>4, <2>5 DEF ScopesInv, AnswersRight, ScopesActAsSets
<1>2. QED
  BY <1>1, ScopesInvariant, PTL

\* What is left to the loop of the call in progress.
Remaining ==
    CASE call = "Contains" -> j - i
      [] call \in {"Intersect", "IsSubsetOf"} -> (Len(left) - i) + (Len(right) - j)
      [] OTHER -> Len(values) - i

\* Iterations made and iterations left are within reach together.
LapsCounted ==
    /\ laps \in Nat
    /\ ~ done => Remaining \in Nat /\ Reach \in Nat /\ laps + Remaining <= Reach

\* An iteration of a loop of scopes.go, sort.Find's halving among them, leaves
\* less to read or to search, and never less than nothing.
LEMMA LoopAdvances ==
  ASSUME ScopesInv, Collect \/ Merge \/ Search
  PROVE  /\ Remaining \in Int /\ Remaining' \in Int
         /\ Remaining' < Remaining /\ Remaining' >= 0
<1>1. /\ i \in Nat /\ j \in Nat /\ Len(left) \in Nat /\ Len(right) \in Nat
      /\ Len(values) \in Nat
  BY LenProperties DEF ScopesInv, ScopesTypeOK
<1>2. CASE Collect
  <2>1. /\ call \in {"NewScopeSet", "ParseScopes"} /\ call' = call
        /\ i < Len(values) /\ i' = i + 1 /\ values' = values
    BY <1>2 DEF Collect, Running, arguments
  <2>2. Remaining = Len(values) - i /\ Remaining' = Len(values) - (i + 1)
    BY <2>1 DEF Remaining
  <2>3. QED
    BY <1>1, <2>1, <2>2
<1>3. CASE Merge
  <2>1. /\ call \in {"Intersect", "IsSubsetOf"} /\ call' = call
        /\ i < Len(left) /\ j < Len(right) /\ left' = left /\ right' = right
        /\ \/ i' = i + 1 /\ j' = j
           \/ i' = i /\ j' = j + 1
           \/ i' = i + 1 /\ j' = j + 1
    BY <1>3 DEF Merge, Running, arguments, sets
  <2>2. /\ Remaining = (Len(left) - i) + (Len(right) - j)
        /\ Remaining' = (Len(left) - i') + (Len(right) - j')
    BY <2>1 DEF Remaining
  <2>3. QED
    BY <1>1, <2>1, <2>2
<1>4. CASE Search
  <2>1. call = "Contains" /\ call' = call
    BY <1>4 DEF Search, Running, arguments
  <2>2. Remaining = j - i /\ Remaining' = j' - i'
    BY <2>1 DEF Remaining
  <2>3. i' <= j' /\ j' - i' < j - i
    BY <1>4, SearchStep
  <2>4. i' \in Nat /\ j' \in Nat
    <3>1. ScopesInv'
      BY <1>4, SearchStep
    <3>2. QED
      BY <3>1 DEF ScopesInv, ScopesTypeOK
  <2>5. \A low, high \in Nat : high - low \in Int /\ (low <= high => high - low >= 0)
    OBVIOUS
  <2>6. i' <= j'
    BY <2>3
  <2>7. j' - i' \in Int /\ j' - i' >= 0
    BY <2>4, <2>5, <2>6, Zenon
  <2>8. j - i \in Int
    BY <1>1
  <2>9. QED
    BY <2>2, <2>3, <2>7, <2>8
<1>5. QED
  BY <1>2, <1>3, <1>4

\* A call begins with as much left to do as is within reach of its loop.
LEMMA CallWithinReach ==
  ASSUME ScopesInv, ~ done', NEW name, NEW list, NEW wanted, NEW meant,
         list \in Seq(ScopeNames \cup {0}), Call(name, list, wanted, meant)
  PROVE  LapsCounted'
<1>1. /\ laps' = 0 /\ i' = 0 /\ call' = name /\ values' = list
      /\ left' = left /\ right' = right
      /\ j' = IF name = "Contains" THEN Len(left) ELSE 0
  BY DEF Call, sets
<1>2. Len(left) \in Nat /\ Len(right) \in Nat /\ Len(list) \in Nat
  BY LenProperties DEF ScopesInv, ScopesTypeOK
<1>3. Reach' = IF name = "Contains" THEN Len(left)
               ELSE IF name \in {"Intersect", "IsSubsetOf"} THEN Len(left) + Len(right)
               ELSE Len(list)
  BY <1>1 DEF Reach
<1>4. Remaining' = IF name = "Contains" THEN Len(left) - 0
                   ELSE IF name \in {"Intersect", "IsSubsetOf"}
                     THEN (Len(left) - 0) + (Len(right) - 0)
                   ELSE Len(list) - 0
  BY <1>1 DEF Remaining
<1>5. Remaining' = Reach' /\ Reach' \in Nat
  BY <1>2, <1>3, <1>4
<1>6. laps' \in Nat /\ laps' + Remaining' <= Reach'
  <2>1. \A n \in Nat : 0 + n <= n
    OBVIOUS
  <2>2. QED
    BY <1>1, <1>5, <2>1, Zenon
<1>7. QED
  BY <1>5, <1>6 DEF LapsCounted

\* No loop of scopes.go makes more iterations than there are values in its
\* slices, so that every call returns, sort.Find's search among them.
THEOREM LoopsEndCorrect == ScopesSpec => []LoopsEnd
<1>1. ScopesInit => LapsCounted
  BY DEF ScopesInit, LapsCounted
<1>2. ASSUME ScopesInv, LapsCounted, [ScopesNext]_scopeVars PROVE LapsCounted'
  <2>1. CASE UNCHANGED scopeVars
    BY <1>2, <2>1 DEF scopeVars, sets, arguments, LapsCounted, Remaining, Reach
  <2>2. CASE done'
    <3>1. laps' = laps
      BY <1>2, <2>2 DEF scopeVars, ScopesNext, NewScopeSet, ParseScopes, Reload, Intersect,
         IsSubsetOf, Contains, Call, Collect, Refuse, Sort, Merge, Intersected, Compared, Search,
         Found, Running, ReturnSet, ReturnAnswer, Swap
    <3>2. QED
      BY <1>2, <2>2, <3>1 DEF LapsCounted
  <2>3. CASE Collect \/ Merge \/ Search
    <3>1. /\ Remaining' \in Int /\ Remaining' >= 0
          /\ Remaining' < Remaining
      BY <1>2, <2>3, LoopAdvances
    <3>2. /\ laps' = laps + 1 /\ ~ done
          /\ call' = call /\ values' = values /\ left' = left /\ right' = right
      BY <2>3 DEF Collect, Merge, Search, Running, sets, arguments
    <3>3. Reach' = Reach
      BY <3>2 DEF Reach
    <3>4. /\ laps \in Nat /\ Remaining \in Nat /\ Reach \in Nat
          /\ laps + Remaining <= Reach
      BY <1>2, <3>2 DEF LapsCounted
    <3>5. \A n, before, reach \in Nat : \A after \in Int :
            n + before <= reach /\ after >= 0 /\ after < before
              => n + 1 \in Nat /\ after \in Nat /\ (n + 1) + after <= reach
      OBVIOUS
    <3>6. laps + 1 \in Nat /\ Remaining' \in Nat /\ (laps + 1) + Remaining' <= Reach
      BY <3>1, <3>4, <3>5, Zenon
    <3>7. laps' \in Nat /\ Remaining' \in Nat /\ Reach' \in Nat /\ laps' + Remaining' <= Reach'
      BY <3>2, <3>3, <3>4, <3>6, Zenon
    <3>8. QED
      BY <3>7 DEF LapsCounted
  <2>4. CASE ~ done' /\ ~ (Collect \/ Merge \/ Search) /\ ScopesNext
    <3>1. NewScopeSet \/ ParseScopes \/ Reload \/ Intersect \/ IsSubsetOf \/ Contains
      BY <2>4 DEF ScopesNext, Refuse, Sort, Intersected, Compared, Found, ReturnSet,
         ReturnAnswer, Swap
    <3>2. /\ << >> \in Seq(ScopeNames \cup {0}) /\ left \in Seq(ScopeNames \cup {0})
          /\ \A list \in Inputs : list \in Seq(ScopeNames \cup {0})
      BY <1>2, InputsAreLists DEF ScopesInv, ScopesTypeOK
    <3>3. PICK list \in Seq(ScopeNames \cup {0}) :
            \E name, wanted, meant : Call(name, list, wanted, meant)
      <4>1. CASE NewScopeSet
        BY <3>2, <4>1 DEF NewScopeSet
      <4>2. CASE ParseScopes
        BY <3>2, <4>2 DEF ParseScopes
      <4>3. CASE Reload
        BY <3>2, <4>3 DEF Reload
      <4>4. CASE Intersect
        BY <3>2, <4>4 DEF Intersect
      <4>5. CASE IsSubsetOf
        BY <3>2, <4>5 DEF IsSubsetOf
      <4>6. CASE Contains
        BY <3>2, <4>6 DEF Contains
      <4>7. QED
        BY <3>1, <4>1, <4>2, <4>3, <4>4, <4>5, <4>6
    <3>4. PICK name, wanted, meant : Call(name, list, wanted, meant)
      BY <3>3
    <3>5. QED
      BY <1>2, <2>4, <3>4, CallWithinReach
  <2>5. QED
    BY <1>2, <2>1, <2>2, <2>3, <2>4
<1>3. ASSUME LapsCounted PROVE LoopsEnd
  <2>1. SUFFICES ASSUME ~ done PROVE laps <= Reach
    BY DEF LoopsEnd
  <2>2. laps \in Nat /\ Remaining \in Nat /\ Reach \in Nat /\ laps + Remaining <= Reach
    BY <1>3, <2>1 DEF LapsCounted
  <2>3. QED
    BY <2>2
<1>4. QED
  BY <1>1, <1>2, <1>3, ScopesInvariant, PTL DEF ScopesSpec
=============================================================================
