------------------------------ MODULE ListingProofs ------------------------------
(***************************************************************************)
(* What TLAPS proves of module SubscriptionListing for any collection, any *)
(* number of writes beside a walk, any query and any page size.            *)
(***************************************************************************)
EXTENDS SubscriptionListing, SubscriptionProofs, FiniteSetTheorems

-----------------------------------------------------------------------------
(* The inductive invariant.                                                 *)

Ids == {id \in Requests : Stored(id)}

\* Documents are finitely many, and born tells them apart.
Numbered ==
  /\ IsFiniteSet(Ids)
  /\ born \in [Requests -> Nat]
  /\ \A id \in Ids : born[id] \in 1..Cardinality(Ids)
  /\ \A i, j \in Ids : born[i] = born[j] => i = j

Collection == Invariant /\ TargetsUnique /\ Numbered /\ order \in Plans

\* What the walk is about, as it is now.
Matched == Matching(query)
Position == [id \in Requests |-> Rank(query, id)]
Size == PageSize(query)

\* A query that got past the checks.
Sound(q) == q \in Queries /\ q.tenant \in Tenants /\ PageSize(q) \in Nat \ {0}

Walked ==
  /\ stage \in {"idle"} \cup Walking \cup Over
  /\ page \in Nat \ {0} /\ order \in Orders
  /\ stage \in Walking \cup {"done"} => Sound(query)
  /\ stage = "idle" => page = 1 /\ items = Absent /\ total = Absent /\ seen = {} /\ again = {}
  /\ stage \in Walking => steady \subseteq Matched
  /\ OtherTenantsInvisible

\* The length of page p of n documents.
PageLength(n, p, size) ==
  LET left == n - (p - 1) * size IN IF left < 0 THEN 0 ELSE Min({left, size})

\* Each read is of the collection as it is until the other one has returned, or their
\* page is torn.
Fitting ==
  "torn" \notin events =>
    /\ stage = "reading" /\ items # Absent /\ total = Absent =>
         Cardinality(DOMAIN items) = PageLength(Cardinality(Matched), page, Size)
    /\ stage = "reading" /\ items = Absent /\ total # Absent =>
         total = Cardinality(Matched)
    /\ BothRead \/ stage \in {"200", "done"} =>
         Cardinality(DOMAIN items) = PageLength(total, page, Size)

\* How many documents the pages answered so far hold.
Reached == IF stage = "200" THEN page * Size ELSE (page - 1) * Size

Hidden == events \cap {"departed", "moved", "replanned"} # {}
Doubled == events \cap {"arrived", "moved", "replanned"} # {}

\* Arrivals push the others back: what would be on a page answered before was on one.
NoneMissed ==
  /\ stage \in Walking => \A id \in steady : Position[id] < Reached => id \in seen
  /\ stage = "reading" /\ items # Absent =>
       \A id \in steady : Position[id] < page * Size => id \in seen \cup DOMAIN items
  /\ BothRead /\ "torn" \notin events /\ page * Size >= total =>
       steady \subseteq seen \cup DOMAIN items
  /\ stage = "done" /\ "torn" \notin events => steady \subseteq seen

\* Departures draw the others forward: what was on a page answered before would still
\* be on one.
NoneRepeated ==
  /\ stage \in Walking => \A id \in steady \cap seen : Position[id] < Reached
  /\ stage = "reading" /\ items # Absent =>
       \A id \in steady \cap DOMAIN items : id \notin seen /\ Position[id] < page * Size
  /\ stage \in Walking \cup {"done"} => steady \cap again = {}

Quiet ==
  /\ stage \in Walking => steady = Matched
  /\ stage \in Walking \cup {"done"} => seen \subseteq steady /\ again \subseteq seen
  /\ stage = "reading" /\ items # Absent => DOMAIN items \subseteq steady

Walk == /\ Walked /\ Fitting
        /\ Hidden \/ NoneMissed
        /\ Doubled \/ NoneRepeated
        /\ events # {} \/ Quiet

-----------------------------------------------------------------------------
(* Ranks under a strict total order R of a finite set M.                    *)

Sorts(R, M) ==
  /\ \A x \in M : <<x, x>> \notin R
  /\ \A x, y \in M : x = y \/ <<x, y>> \in R \/ <<y, x>> \in R
  /\ \A x, y, z \in M : <<x, y>> \in R /\ <<y, z>> \in R => <<x, z>> \in R

Below(R, M, x) == {j \in M : <<j, x>> \in R}

LEMMA BelowFinite ==
  ASSUME NEW R, NEW M, IsFiniteSet(M), NEW x \in M, <<x, x>> \notin R
  PROVE  /\ IsFiniteSet(Below(R, M, x)) /\ Cardinality(Below(R, M, x)) \in Nat
         /\ Cardinality(M) \in Nat /\ Cardinality(Below(R, M, x)) < Cardinality(M)
<1> DEFINE B == Below(R, M, x)
<1>1. B \in SUBSET M /\ x \notin B
  BY DEF Below
<1> HIDE DEF B
<1>2. IsFiniteSet(B) /\ Cardinality(B) <= Cardinality(M) /\ Cardinality(B) # Cardinality(M)
  BY <1>1, FS_Subset
<1>3. Cardinality(B) \in Nat /\ Cardinality(M) \in Nat
  BY <1>2, FS_CardinalityType
<1>4. QED
  BY <1>2, <1>3 DEF B

LEMMA RanksAscend ==
  ASSUME NEW R, NEW M, IsFiniteSet(M), Sorts(R, M), NEW x \in M, NEW y \in M, <<x, y>> \in R
  PROVE  Cardinality(Below(R, M, x)) # Cardinality(Below(R, M, y))
<1>1. Below(R, M, x) \in SUBSET Below(R, M, y)
  BY DEF Sorts, Below
<1>2. x \in Below(R, M, y) /\ x \notin Below(R, M, x)
  BY DEF Sorts, Below
<1>3. IsFiniteSet(Below(R, M, y))
  BY BelowFinite DEF Sorts
<1>4. QED
  BY <1>1, <1>2, <1>3, FS_Subset

\* Every rank from 0 on is that of one element.
LEMMA RanksFill ==
  ASSUME NEW R, NEW M, IsFiniteSet(M), Sorts(R, M)
  PROVE  LET rank == [x \in M |-> Cardinality(Below(R, M, x))]
         IN  rank \in Bijection(M, 0..(Cardinality(M) - 1))
<1> DEFINE rank == [x \in M |-> Cardinality(Below(R, M, x))]
           n == Cardinality(M)
           N == 0..(n - 1)
<1>1. n \in Nat
  BY FS_CardinalityType
<1>2. rank \in [M -> N]
  <2>1. \A x \in M : Cardinality(Below(R, M, x)) \in N
    <3> SUFFICES ASSUME NEW x \in M
                 PROVE  Cardinality(Below(R, M, x)) \in 0..(n - 1)
      OBVIOUS
    <3>1. <<x, x>> \notin R
      BY DEF Sorts
    <3>2. Cardinality(Below(R, M, x)) \in Nat /\ Cardinality(Below(R, M, x)) < n
      BY <3>1, BelowFinite
    <3> HIDE DEF n
    <3>3. QED
      BY <1>1, <3>2
  <2>2. QED
    BY <2>1
<1>3. \A x, y \in M : rank[x] = rank[y] => x = y
  BY RanksAscend DEF Sorts
<1>4. rank \in Injection(M, N)
  BY <1>2, <1>3 DEF Injection, IsInjective
<1>5. IsFiniteSet(N) /\ Cardinality(N) = n
  BY <1>1, FS_Interval
<1> HIDE DEF rank, N
<1>6. rank \in Surjection(M, N)
  BY <1>4, <1>5, FS_Injection
<1>7. QED
  BY <1>4, <1>6 DEF Bijection, rank, N

LEMMA MinOfTwo ==
  ASSUME NEW a \in Nat, NEW b \in Nat
  PROVE  Min({a, b}) = IF a <= b THEN a ELSE b
<1>1. {a, b} \in SUBSET Nat /\ {a, b} # {}
  OBVIOUS
<1>2. PICK m \in {a, b} : \A k \in {a, b} : m =< k
  BY <1>1, NatHasLeast
<1>3. Min({a, b}) \in {a, b} /\ \A k \in {a, b} : Min({a, b}) =< k
  BY <1>2 DEF Min
<1> HIDE DEF Min
<1>4. QED
  BY <1>3

\* How many ranks are in the slice of `size` of them from `low` on.
LEMMA SliceLength ==
  ASSUME NEW R, NEW M, IsFiniteSet(M), Sorts(R, M), NEW low \in Nat, NEW size \in Nat
  PROVE  LET left == Cardinality(M) - low
             slice == {x \in M : /\ low <= Cardinality(Below(R, M, x))
                                 /\ Cardinality(Below(R, M, x)) < low + size}
         IN  Cardinality(slice) = IF left < 0 THEN 0 ELSE Min({left, size})
<1> DEFINE n == Cardinality(M)
           left == n - low
           rank == [x \in M |-> Cardinality(Below(R, M, x))]
           high == IF left <= size THEN n ELSE low + size
           slice == {x \in M : /\ low <= Cardinality(Below(R, M, x))
                               /\ Cardinality(Below(R, M, x)) < low + size}
           part == [x \in slice |-> rank[x]]
<1>1. n \in Nat
  BY FS_CardinalityType
<1>2. rank \in Bijection(M, 0..(n - 1))
  BY RanksFill
<1>3. /\ \A x \in M : rank[x] = Cardinality(Below(R, M, x)) /\ rank[x] \in 0..(n - 1)
      /\ \A x, y \in M : rank[x] = rank[y] => x = y
      /\ \A k \in 0..(n - 1) : \E x \in M : rank[x] = k
  <2> HIDE DEF rank, n
  <2>1. /\ rank \in [M -> 0..(n - 1)]
        /\ \A x, y \in M : rank[x] = rank[y] => x = y
        /\ \A k \in 0..(n - 1) : \E x \in M : rank[x] = k
    BY <1>2 DEF Bijection, Injection, Surjection, IsInjective
  <2>2. \A x \in M : rank[x] \in 0..(n - 1)
    BY <2>1
  <2>3. QED
    BY <2>1, <2>2 DEF rank
<1>4. slice = {x \in M : low <= rank[x] /\ rank[x] < low + size}
  BY <1>3
<1> HIDE DEF rank, n, slice
<1>5. CASE left < 0
  <2>1. slice = {}
    BY <1>1, <1>3, <1>4, <1>5
  <2>2. QED
    BY <1>5, <2>1, FS_EmptySet DEF slice, n
<1>6. CASE ~(left < 0)
  <2>1. \A x \in M : x \in slice <=> rank[x] \in low..(high - 1)
    BY <1>1, <1>3, <1>4
  <2>2. \A k \in low..(high - 1) : \E x \in slice : rank[x] = k
    BY <1>1, <1>3, <1>6, <2>1
  <2>3. slice \subseteq M
    BY <1>4
  <2> DEFINE T == low..(high - 1)
  <2>4. part \in [slice -> T]
    BY <2>1, <2>3
  <2>5. part \in Injection(slice, T) /\ part \in Surjection(slice, T)
    <3>1. \A x, y \in slice : part[x] = part[y] => x = y
      BY <1>3, <2>3
    <3>2. \A k \in T : \E x \in slice : part[x] = k
      BY <2>2
    <3> HIDE DEF part, T
    <3>3. QED
      BY <2>4, <3>1, <3>2 DEF Injection, Surjection, IsInjective
  <2>6. high \in Nat
    BY <1>1, <1>6
  <2>7. IsFiniteSet(T) /\ Cardinality(T) = high - low
    <3>1. /\ IsFiniteSet(T)
          /\ Cardinality(T) = IF low > high - 1 THEN 0 ELSE (high - 1) - low + 1
      <4>1. high - 1 \in Int /\ low \in Int
        BY <2>6
      <4> HIDE DEF high
      <4>2. QED
        BY <4>1, FS_Interval
    <3>2. low <= high
      BY <1>1, <1>6
    <3> HIDE DEF high, T
    <3>3. QED
      BY <2>6, <3>1, <3>2
  <2> HIDE DEF T, part
  <2>8. Cardinality(slice) = Cardinality(T)
    BY <2>5, <2>7, FS_Injection
  <2>9. Min({left, size}) = high - low
    BY <1>1, <1>6, MinOfTwo
  <2>10. Cardinality(slice) = Min({left, size})
    BY <1>1, <1>6, <2>6, <2>7, <2>8, <2>9
  <2>11. QED
    BY <1>6, <2>10 DEF slice, n
<1>7. QED
  BY <1>5, <1>6

-----------------------------------------------------------------------------
(* The collection, which the walk reads and never writes.                   *)

LEMMA WritesAreRequests ==
  ASSUME [ListNext]_listVars
  PROVE  /\ [Next]_vars
         /\ Elsewhen \/ UNCHANGED <<vars, born>>
BY DEF ListNext, listVars, Ask, AskNext, FindPage, CountAll, PageUnreadable, PageAnswered,
       ListFails, Elsewhen, Elsewhere, Replan

LEMMA ListSpecIsSpec == ListSpec => Spec
<1>1. ListInit => Init
  BY DEF ListInit
<1>2. [ListNext]_listVars => [Next]_vars
  BY WritesAreRequests
<1>3. QED
  BY <1>1, <1>2, PTL DEF ListSpec, Spec

\* A write is of one document; the one it inserts is counted last.
LEMMA NextNumbered ==
  ASSUME Invariant, Numbered, [ListNext]_listVars
  PROVE  Numbered'
<1>1. CASE UNCHANGED <<vars, born>>
  BY <1>1 DEF Numbered, Ids, Stored, vars
<1>2. CASE Elsewhen
  <2>1. \A id \in Requests : born'[id] =
          IF subs[id] = Absent /\ subs'[id] # Absent THEN Cardinality(Ids) + 1 ELSE born[id]
    BY <1>2 DEF Elsewhen, Ids, Stored
  <2>2. Cardinality(Ids) \in Nat
    BY FS_CardinalityType DEF Numbered
  <2>3. born' \in [Requests -> Nat]
    BY <1>2, <2>2 DEF Elsewhen, Ids, Stored, Numbered
  <2>4. CASE subs' = subs
    <3>1. Ids' = Ids
      BY <2>4 DEF Ids, Stored
    <3>2. \A id \in Requests : born'[id] = born[id]
      BY <2>1, <2>4
    <3>3. QED
      BY <2>3, <3>1, <3>2 DEF Numbered, Ids
  <2>5. ASSUME NEW r \in Requests, SaveApplies(r)
        PROVE  Numbered'
    <3> DEFINE new == aggregate[r].id
    <3>1. /\ new \in Requests
          /\ \A id \in Requests : subs'[id] = IF id = new THEN aggregate[r].doc ELSE subs[id]
      BY <2>5 DEF SaveApplies, Invariant, Typed, TypeOK, Loading
    <3>2. aggregate[r].doc # Absent
      BY <2>5, AbsentAssumption DEF SaveApplies, Invariant, Typed, Loading
    <3> HIDE DEF new
    <3>3. Ids' = Ids \cup {new}
      BY <3>1, <3>2 DEF Ids, Stored
    <3>4. /\ IsFiniteSet(Ids')
          /\ Cardinality(Ids') = IF new \in Ids THEN Cardinality(Ids) ELSE Cardinality(Ids) + 1
      BY <3>3, FS_AddElement DEF Numbered
    <3>5. \A id \in Ids' :
            born'[id] = IF id \in Ids THEN born[id] ELSE Cardinality(Ids) + 1
      BY <2>1 DEF Ids, Stored
    <3>6. \A id \in Ids : born[id] \in 1..Cardinality(Ids)
      BY DEF Numbered
    <3>7. \A id \in Ids' : born'[id] \in 1..Cardinality(Ids')
      BY <2>2, <3>3, <3>4, <3>5, <3>6
    <3>8. \A i, j \in Ids' : born'[i] = born'[j] => i = j
      BY <2>2, <3>3, <3>5, <3>6 DEF Numbered
    <3>9. QED
      BY <2>3, <3>4, <3>7, <3>8 DEF Numbered
  <2>6. QED
    BY <1>2, <2>4, <2>5, OnlySavesWrite DEF Elsewhen
<1>3. QED
  BY <1>1, <1>2, WritesAreRequests

\* The index an order needs is never dropped.
LEMMA NextPlanned ==
  ASSUME Invariant, order \in Plans, [ListNext]_listVars
  PROVE  (order \in Plans)'
<1>1. indexed => indexed'
  <2>1. [Next]_vars
    BY WritesAreRequests
  <2>2. QED
    BY <2>1, OnlySavesWrite DEF BuildIndex
<1>2. CASE Replan
  BY <1>2 DEF Replan, Plans, vars
<1>3. CASE ~Replan
  <2>1. order' = order
    BY <1>3 DEF ListNext, listVars, Ask, AskNext, FindPage, CountAll, PageUnreadable,
                PageAnswered, ListFails, Elsewhen, Elsewhere
  <2>2. QED
    BY <1>1, <2>1 DEF Plans
<1>4. QED
  BY <1>2, <1>3

LEMMA CollectionHolds == ListSpec => []Collection
<1>1. ListInit => Numbered
  <2> SUFFICES ASSUME ListInit
               PROVE  Numbered
    OBVIOUS
  <2>1. Ids = {}
    BY DEF ListInit, Init, Ids, Stored
  <2>2. QED
    BY <2>1, FS_EmptySet DEF ListInit, Numbered
<1>2. Invariant /\ Numbered /\ [ListNext]_listVars => Numbered'
  BY NextNumbered
<1>3. ListInit => order \in Plans
  BY DEF ListInit
<1>4. Invariant /\ order \in Plans /\ [ListNext]_listVars => (order \in Plans)'
  BY NextPlanned
<1>5. QED
  BY <1>1, <1>2, <1>3, <1>4, ListSpecIsSpec, InvariantHolds, TargetsStayUnique, PTL
  DEF ListSpec, Collection

-----------------------------------------------------------------------------
(* The order of a page.                                                     *)

\* What sorts the documents a query matches.
Sequence(q) == {p \in Matching(q) \X Matching(q) : Before(p[1], p[2])}

LEMMA MatchingFinite ==
  ASSUME Collection, NEW q
  PROVE  /\ IsFiniteSet(Matching(q)) /\ Cardinality(Matching(q)) \in Nat
         /\ \A id \in Matching(q) : /\ id \in Ids /\ subs[id] \in Document
                                    /\ born[id] \in Nat /\ subs[id].tenant = q.tenant
<1>1. Matching(q) \in SUBSET Ids
  BY DEF Matching, Ids, Stored
<1>2. IsFiniteSet(Matching(q))
  BY <1>1, FS_Subset DEF Collection, Numbered
<1>3. QED
  BY <1>1, <1>2, FS_CardinalityType
  DEF Collection, Numbered, Invariant, Typed, TypeOK, Matching, Matches, Ids, Stored

LEMMA StatusesRanked ==
  /\ \A s \in Statuses : StatusRank[s] \in Nat
  /\ \A s, t \in Statuses : StatusRank[s] = StatusRank[t] => s = t
BY DEF Statuses, StatusRank

LEMMA MatchingSorted ==
  ASSUME Collection, order \in Orders, NEW q
  PROVE  Sorts(Sequence(q), Matching(q))
<1> DEFINE M == Matching(q)
<1>1. /\ \A id \in M : subs[id].url \in Urls /\ subs[id].status \in Statuses /\ born[id] \in Nat
      /\ \A i, j \in M : born[i] = born[j] => i = j
  BY MatchingFinite DEF Document, Collection, Numbered
<1>2. /\ \A u \in Urls : UrlRank[u] \in Nat
      /\ \A u, v \in Urls : UrlRank[u] = UrlRank[v] => u = v
  BY QueriesAssumption
<1>3. indexed => \A i, j \in M : subs[i].url = subs[j].url => i = j
  BY MatchingFinite DEF Collection, TargetsUnique, OnePerTarget, Ids
<1>4. \A i, j \in M : <<i, j>> \in Sequence(q) <=> Before(i, j)
  BY DEF Sequence
<1> HIDE DEF M
<1>5. CASE order = "insertion"
  BY <1>1, <1>4, <1>5 DEF Before, Sorts, M
<1>6. CASE order = "url"
  <2>1. \A i, j \in M : Before(i, j) <=> UrlRank[subs[i].url] < UrlRank[subs[j].url]
    BY <1>6 DEF Before
  <2>2. \A id \in M : UrlRank[subs[id].url] \in Nat
    BY <1>1, <1>2
  <2>3. \A i, j \in M : UrlRank[subs[i].url] = UrlRank[subs[j].url] => i = j
    BY <1>1, <1>2, <1>3, <1>6 DEF Collection, Plans
  <2>4. QED
    BY <1>4, <2>1, <2>2, <2>3 DEF Sorts, M
<1>7. CASE order = "status"
  <2>1. \A i, j \in M : Before(i, j) <=>
          \/ StatusRank[subs[i].status] < StatusRank[subs[j].status]
          \/ StatusRank[subs[i].status] = StatusRank[subs[j].status] /\ born[i] < born[j]
    BY <1>1, <1>7, StatusesRanked DEF Before
  <2>2. \A id \in M : StatusRank[subs[id].status] \in Nat
    BY <1>1, StatusesRanked
  <2>3. QED
    BY <1>1, <1>4, <2>1, <2>2 DEF Sorts, M
<1>8. QED
  BY <1>5, <1>6, <1>7 DEF Orders

LEMMA RankIsCount ==
  ASSUME Collection, order \in Orders, NEW q, NEW id \in Matching(q)
  PROVE  /\ Rank(q, id) = Cardinality(Below(Sequence(q), Matching(q), id))
         /\ Rank(q, id) \in Nat /\ Rank(q, id) < Cardinality(Matching(q))
<1>1. Below(Sequence(q), Matching(q), id) = {j \in Matching(q) : Before(j, id)}
  BY DEF Below, Sequence
<1>2. <<id, id>> \notin Sequence(q)
  BY MatchingSorted DEF Sorts
<1>3. QED
  BY <1>1, <1>2, MatchingFinite, BelowFinite DEF Rank

\* Where pages begin.
LEMMA PagesBegin ==
  ASSUME NEW size \in Nat \ {0}, NEW p \in Nat \ {0}
  PROVE  /\ (p - 1) * size \in Nat /\ p * size \in Nat
         /\ p * size = (p - 1) * size + size
         /\ ((p + 1) - 1) * size = p * size
<1>1. \A k \in Nat : k * size \in Nat /\ (k + 1) * size = k * size + size
  OBVIOUS
<1>2. p - 1 \in Nat /\ (p - 1) + 1 = p /\ (p + 1) - 1 = p
  OBVIOUS
<1>3. QED
  BY <1>1, <1>2

LEMMA PageIsFull ==
  ASSUME Collection, order \in Orders, Sound(query), page \in Nat \ {0}
  PROVE  Cardinality(PageOf(query, page)) = PageLength(Cardinality(Matched), page, Size)
<1> DEFINE low == (page - 1) * PageSize(query)
           M == Matching(query)
           R == Sequence(query)
<1>1. low \in Nat /\ PageSize(query) \in Nat
  BY PagesBegin DEF Sound
<1>2. IsFiniteSet(M) /\ Sorts(R, M)
  BY MatchingFinite, MatchingSorted
<1>3. PageOf(query, page) = {x \in M : /\ low <= Cardinality(Below(R, M, x))
                                       /\ Cardinality(Below(R, M, x)) < low + PageSize(query)}
  BY RankIsCount DEF PageOf, Skipped
<1> HIDE DEF low, M, R
<1>4. Cardinality(PageOf(query, page)) =
        IF Cardinality(M) - low < 0 THEN 0 ELSE Min({Cardinality(M) - low, PageSize(query)})
  BY <1>1, <1>2, <1>3, SliceLength
<1>5. QED
  BY <1>4 DEF PageLength, low, M, Matched, Size

\* What the walk may rely on while it goes on.
LEMMA WalkTyped ==
  ASSUME Collection, order \in Orders, Sound(query), page \in Nat \ {0}
  PROVE  /\ page * Size \in Nat /\ (page - 1) * Size \in Nat
         /\ page * Size = (page - 1) * Size + Size /\ Size \in Nat
         /\ Cardinality(Matched) \in Nat /\ Matched \subseteq Requests
         /\ \A id \in Matched : Position[id] \in Nat /\ Position[id] < Cardinality(Matched)
         /\ PageOf(query, page) = {id \in Matched : /\ (page - 1) * Size <= Position[id]
                                                   /\ Position[id] < page * Size}
<1>1. Matched \subseteq Requests
  BY DEF Matched, Matching
<1>2. \A id \in Matched : Position[id] = Rank(query, id)
  BY <1>1 DEF Position
<1>3. /\ page * Size \in Nat /\ (page - 1) * Size \in Nat
      /\ page * Size = (page - 1) * Size + Size /\ Size \in Nat
  BY PagesBegin DEF Sound, Size
<1>4. \A id \in Matched : Position[id] \in Nat /\ Position[id] < Cardinality(Matched)
  BY <1>2, RankIsCount DEF Matched
<1>5. PageOf(query, page) = {id \in Matched : /\ (page - 1) * Size <= Position[id]
                                             /\ Position[id] < page * Size}
  BY <1>2, <1>3 DEF PageOf, Skipped, Matched, Size
<1>6. QED
  BY <1>1, <1>3, <1>4, <1>5, MatchingFinite DEF Matched

-----------------------------------------------------------------------------
(* What a step leaves as it was.                                            *)

LEMMA ListCodes ==
  ASSUME NEW q \in Queries
  PROVE  /\ ListOnArrival(q) \in {"reading", "400", "401"}
         /\ ListOnArrival(q) = "reading" => Sound(q)
<1> DEFINE checks == << Fails(Anonymous(q), "Unauthorized"),
                        Fails(q.pageSize \in {Malformed, 0}, "BadRequest"),
                        Fails(Malformed \in {q.status, q.types}, "BadRequest"),
                        Fails(NotEventTypes(q), "InvalidEventType") >>
<1>1. ListOnArrival(q) \in {"reading", "400", "401"}
  BY FirstFailureIsOne DEF ListOnArrival, Fails, StatusOf
<1>2. ASSUME ListOnArrival(q) = "reading"
      PROVE  Sound(q)
  <2>1. /\ DOMAIN checks = 1..4
        /\ \A i \in 1..4 : checks[i].code # "reading"
    BY DEF Fails, StatusOf
  <2>2. \A i \in 1..4 : ~checks[i].fails
    <3>1. FirstFailure(checks, "reading") = "reading"
      BY <1>2 DEF ListOnArrival
    <3> HIDE DEF checks
    <3>2. QED
      BY <2>1, <3>1, PassesAll
  <2>3. /\ ~Fails(Anonymous(q), "Unauthorized").fails
        /\ ~Fails(q.pageSize \in {Malformed, 0}, "BadRequest").fails
    BY <2>2
  <2>4. ~Anonymous(q) /\ q.pageSize \notin {Malformed, 0}
    BY <2>3, Zenon DEF Fails
  <2>5. q \in Wanted /\ DefaultPageSize \in Nat \ {0}
    BY QueriesAssumption
  <2>6. q.tenant \in Tenants /\ PageSize(q) \in Nat \ {0}
    BY <2>4, <2>5 DEF Wanted, Anonymous, PageSize
  <2>7. QED
    BY <2>6 DEF Sound
<1>3. QED
  BY <1>1, <1>2

\* The client's steps read the collection, and Replan sorts it differently.
LEMMA ReadingKeeps ==
  ASSUME UNCHANGED <<vars, born, query>>
  PROVE  /\ Matched' = Matched /\ Size' = Size
         /\ order' = order => Position' = Position
<1>1. UNCHANGED <<subs, born, query>>
  BY DEF vars
<1>2. Matched' = Matched /\ Size' = Size
  BY <1>1 DEF Matched, Matching, Matches, MatchesFilters, Size, PageSize
<1>3. ASSUME order' = order
      PROVE  Position' = Position
  BY <1>1, <1>3 DEF Position, Rank, Matching, Matches, MatchesFilters, Before
<1>4. QED
  BY <1>2, <1>3

\* What a write under the walk does, as far as the history tells.
LEMMA WritesUnderWalk ==
  ASSUME Elsewhen, stage \in Walking
  PROVE  /\ events \subseteq events' /\ steady' \subseteq steady
         /\ steady' = {id \in steady \cap Matched' : InPlace(id)}
         /\ "arrived" \notin events' => Matched' \subseteq Matched
         /\ "departed" \notin events' => Matched \subseteq Matched'
         /\ "moved" \notin events' => \A id \in Matched \cap Matched' : InPlace(id)
         /\ "torn" \notin events' =>
              Matched' = Matched \/ stage # "reading" \/ (items = Absent <=> total = Absent)
<1> DEFINE happened == [arrived  |-> Matched' \ Matched # {},
                        departed |-> Matched \ Matched' # {},
                        moved    |-> \E id \in Matched \cap Matched' : ~InPlace(id),
                        torn     |-> Matched # Matched' /\ stage = "reading"
                                       /\ (items = Absent) # (total = Absent)]
<1>1. /\ steady' = {id \in steady \cap Matched' : InPlace(id)}
      /\ events' = events \cup {e \in DOMAIN happened : happened[e]}
  BY DEF Elsewhen, Matched
<1>2. DOMAIN happened = {"arrived", "departed", "moved", "torn"}
  OBVIOUS
<1>3. \A e \in {"arrived", "departed", "moved", "torn"} : e \notin events' => ~happened[e]
  BY <1>1, <1>2
<1>4. /\ "arrived" \notin events' => Matched' \ Matched = {}
      /\ "departed" \notin events' => Matched \ Matched' = {}
      /\ "moved" \notin events' => ~ \E id \in Matched \cap Matched' : ~InPlace(id)
      /\ "torn" \notin events' => ~ (/\ Matched # Matched' /\ stage = "reading"
                                     /\ (items = Absent) # (total = Absent))
  BY <1>3
<1>5. QED
  BY <1>1, <1>4

LEMMA MatchedFinite == Collection => IsFiniteSet(Matched)
BY MatchingFinite DEF Matched

\* Where nothing moved, arrivals only push documents back and departures only draw them
\* forward.
LEMMA PositionsShift ==
  ASSUME Collection, Collection', Walked, Elsewhen, stage \in Walking, "moved" \notin events',
         NEW id \in Matched \cap Matched'
  PROVE  /\ "departed" \notin events' => Position[id] <= Position'[id]
         /\ "arrived" \notin events' => Position'[id] <= Position[id]
<1> DEFINE before == {j \in Matching(query) : Before(j, id)}
           after == before'
<1>1. UNCHANGED <<query, order>> /\ id \in Requests
  BY DEF Elsewhen, Matched, Matching
<1>2. \A j \in Matched \cap Matched' :
        InPlace(j) /\ born'[j] = born[j] /\ j \in Requests /\ subs[j] # Absent
  BY WritesUnderWalk DEF Elsewhen, Matched, Matching
<1>3. \A j \in Matched \cap Matched' : Before(j, id) <=> Before(j, id)'
  BY <1>1, <1>2 DEF Before, InPlace
<1>4. /\ before = {j \in Matched : Before(j, id)}
      /\ after = {j \in Matched' : Before(j, id)'}
  BY <1>1 DEF Matched
<1>5. /\ IsFiniteSet(before) /\ IsFiniteSet(after)
      /\ Cardinality(before) \in Nat /\ Cardinality(after) \in Nat
  <2>1. IsFiniteSet(Matched) /\ IsFiniteSet(Matched')
    <3>1. (Collection => IsFiniteSet(Matched))'
      BY MatchedFinite, PTL
    <3>2. QED
      BY <3>1, MatchedFinite
  <2>2. before \in SUBSET Matched /\ after \in SUBSET Matched'
    BY <1>4
  <2> HIDE DEF before, after
  <2>3. QED
    BY <2>1, <2>2, FS_Subset, FS_CardinalityType
<1>6. /\ Position[id] = Cardinality(before)
      /\ Position'[id] = Cardinality(after)
  BY <1>1 DEF Position, Rank
<1>7. ASSUME "departed" \notin events'
      PROVE  before \in SUBSET after
  BY <1>3, <1>4, <1>7, WritesUnderWalk
<1>8. ASSUME "arrived" \notin events'
      PROVE  after \in SUBSET before
  BY <1>3, <1>4, <1>8, WritesUnderWalk
<1> HIDE DEF before, after
<1>9. QED
  BY <1>5, <1>6, <1>7, <1>8, FS_Subset

-----------------------------------------------------------------------------
(* Where the walk is, and other tenants' subscriptions.                      *)

LEMMA PositionsNatural ==
  Collection /\ Walked /\ stage \in Walking => \A id \in Matched : Position[id] \in Nat
BY WalkTyped DEF Walked

\* Steps of the client that answer a page, or fail to.
LEMMA AnswerCases ==
  ASSUME PageUnreadable \/ PageAnswered \/ ListFails
  PROVE  /\ stage = "reading" /\ stage' \in {"200"} \cup Over
         /\ UNCHANGED <<query, page, items, total, steady, events, order, vars, born>>
         /\ stage' \in {"200", "done"} => PageAnswered
         /\ stage' = "400" => PageUnreadable
<1>1. ASSUME PageUnreadable
      PROVE  /\ stage = "reading" /\ stage' = "400"
             /\ UNCHANGED <<query, page, items, total, steady, events, order, vars, born>>
  BY <1>1 DEF PageUnreadable, BothRead, Elsewhere, StatusOf
<1>2. ASSUME PageAnswered
      PROVE  /\ stage = "reading" /\ stage' \in {"200", "done"}
             /\ UNCHANGED <<query, page, items, total, steady, events, order, vars, born>>
  BY <1>2 DEF PageAnswered, BothRead, Elsewhere
<1>3. ASSUME ListFails
      PROVE  /\ stage = "reading" /\ stage' \in {"500", "dropped"}
             /\ UNCHANGED <<query, page, items, total, steady, events, order, vars, born>>
  BY <1>3 DEF ListFails, Elsewhere
<1>4. QED
  BY <1>1, <1>2, <1>3 DEF Over

LEMMA NextWalked ==
  ASSUME Collection, Walked, [ListNext]_listVars
  PROVE  Walked'
<1> USE DEF Walking, Over
<1>1. ASSUME NEW q \in Queries, Ask(q)
      PROVE  Walked'
  <2>1. /\ stage = "idle" /\ query' = q /\ stage' = ListOnArrival(q)
        /\ UNCHANGED <<page, items, total, seen, again, subs, order>>
        /\ stage' = "reading" => steady' = Matching(q)
    BY <1>1 DEF Ask, Elsewhere, vars
  <2>2. Matched' = Matching(q)
    BY <2>1 DEF Matched, Matching, Matches, MatchesFilters
  <2>3. Sound(q) => Sound(query)'
    BY <2>1 DEF Sound, PageSize
  <2>4. QED
    BY <2>1, <2>2, <2>3, ListCodes DEF Walked, OtherTenantsInvisible
<1>2. CASE AskNext
  <2>1. /\ stage = "200" /\ stage' = "reading" /\ page' = page + 1 /\ items' = Absent
        /\ UNCHANGED <<query, steady, order, vars, born>>
    BY <1>2 DEF AskNext, Elsewhere
  <2>2. QED
    BY <2>1, ReadingKeeps DEF Walked, OtherTenantsInvisible, Sound, PageSize
<1>3. CASE FindPage
  <2>1. /\ stage = "reading" /\ items' = [id \in PageOf(query, page) |-> subs[id]]
        /\ UNCHANGED <<stage, query, page, steady, order, vars, born>>
    BY <1>3 DEF FindPage, Elsewhere
  <2>2. \A id \in DOMAIN items' : items'[id].tenant = query.tenant
    BY <2>1 DEF PageOf, Matching, Matches
  <2>3. OtherTenantsInvisible'
    BY <2>1, <2>2 DEF OtherTenantsInvisible
  <2>4. QED
    BY <2>1, <2>3, ReadingKeeps DEF Walked, Sound, PageSize
<1>4. CASE CountAll
  <2>1. /\ stage = "reading"
        /\ UNCHANGED <<stage, query, page, items, steady, order, vars, born>>
    BY <1>4 DEF CountAll, Elsewhere
  <2>2. QED
    BY <2>1, ReadingKeeps DEF Walked, OtherTenantsInvisible, Sound, PageSize
<1>5. CASE PageUnreadable \/ PageAnswered \/ ListFails
  <2>1. stage' = "400" => \E id \in DOMAIN items : ~Readable(items[id].url)
    BY <1>5, AnswerCases DEF PageUnreadable, Restorable
  <2>2. OtherTenantsInvisible'
    BY <1>5, <2>1, AnswerCases DEF Walked, OtherTenantsInvisible
  <2>3. QED
    BY <1>5, <2>2, AnswerCases, ReadingKeeps DEF Walked, Sound, PageSize
<1>6. CASE Elsewhen
  <2>1. UNCHANGED <<query, page, stage, items, total, seen, again, order>>
    BY <1>6 DEF Elsewhen
  <2>2. stage \in Walking => steady' \subseteq Matched'
    BY <1>6, WritesUnderWalk
  <2>3. QED
    BY <2>1, <2>2 DEF Walked, OtherTenantsInvisible, Sound, PageSize
<1>7. CASE Replan
  <2>1. /\ UNCHANGED <<query, page, stage, items, total, seen, again, steady, vars, born>>
        /\ order' \in Orders
    BY <1>7 DEF Replan, Plans
  <2>2. QED
    BY <2>1, ReadingKeeps DEF Walked, OtherTenantsInvisible, Sound, PageSize
<1>8. CASE UNCHANGED listVars
  BY <1>8, ReadingKeeps
  DEF listVars, walkVars, Walked, OtherTenantsInvisible, Sound, PageSize
<1>9. QED
  BY <1>1, <1>2, <1>3, <1>4, <1>5, <1>6, <1>7, <1>8 DEF ListNext

-----------------------------------------------------------------------------
(* A page and its total.                                                    *)

LEMMA NextFitting ==
  ASSUME Collection, Walked, Fitting, [ListNext]_listVars
  PROVE  Fitting'
<1> SUFFICES ASSUME "torn" \notin events'
             PROVE  Fitting'
  BY DEF Fitting
<1> USE DEF Walking, Over, BothRead
<1>1. ASSUME NEW q \in Queries, Ask(q)
      PROVE  Fitting'
  <2>1. items' = Absent /\ total' = Absent /\ stage' \in {"reading", "400", "401"}
    BY <1>1, ListCodes DEF Ask, Walked
  <2>2. QED
    BY <2>1 DEF Fitting
<1>2. CASE AskNext
  BY <1>2 DEF AskNext, Fitting
<1>3. CASE FindPage
  <2>1. /\ stage = "reading" /\ items = Absent /\ DOMAIN items' = PageOf(query, page)
        /\ UNCHANGED <<stage, query, page, total, order, events, vars, born>>
    BY <1>3 DEF FindPage, Elsewhere
  <2>2. Cardinality(DOMAIN items') = PageLength(Cardinality(Matched), page, Size)
    BY <2>1, PageIsFull DEF Walked
  <2>3. QED
    BY <2>1, <2>2, ReadingKeeps DEF Fitting
<1>4. CASE CountAll
  <2>1. /\ stage = "reading" /\ total = Absent /\ total' = Cardinality(Matched)
        /\ UNCHANGED <<stage, query, page, items, order, events, vars, born>>
    BY <1>4 DEF CountAll, Elsewhere, Counted, Matched
  <2>2. QED
    BY <2>1, ReadingKeeps DEF Fitting
<1>5. CASE PageUnreadable \/ PageAnswered \/ ListFails
  <2>1. CASE stage' \in {"200", "done"}
    <3>1. BothRead
      BY <1>5, <2>1, AnswerCases DEF PageAnswered
    <3>2. QED
      BY <1>5, <2>1, <3>1, AnswerCases, ReadingKeeps DEF Fitting
  <2>2. CASE stage' \notin {"200", "done"}
    BY <1>5, <2>2, AnswerCases DEF Fitting
  <2>3. QED
    BY <2>1, <2>2
<1>6. CASE Elsewhen
  <2>1. UNCHANGED <<query, page, stage, items, total>> /\ Size' = Size /\ stage \notin Over
    BY <1>6 DEF Elsewhen, Size, PageSize
  <2>2. CASE stage \in Walking
    BY <1>6, <2>1, <2>2, WritesUnderWalk DEF Fitting
  <2>3. CASE stage \notin Walking
    BY <2>1, <2>3 DEF Fitting
  <2>4. QED
    BY <2>2, <2>3
<1>7. CASE Replan
  <2>1. /\ UNCHANGED <<query, page, stage, items, total, vars, born>>
        /\ "torn" \notin events
    BY <1>7 DEF Replan
  <2>2. QED
    BY <2>1, ReadingKeeps DEF Fitting
<1>8. CASE UNCHANGED listVars
  BY <1>8, ReadingKeeps DEF listVars, walkVars, Fitting
<1>9. QED
  BY <1>1, <1>2, <1>3, <1>4, <1>5, <1>6, <1>7, <1>8 DEF ListNext

-----------------------------------------------------------------------------
(* What a walk misses.                                                      *)

\* Nothing that happened is forgotten.
LEMMA EventsGrow ==
  ASSUME [ListNext]_listVars
  PROVE  events \subseteq events'
<1>1. CASE Elsewhen
  <2>1. CASE stage \in Walking
    BY <1>1, <2>1, WritesUnderWalk
  <2>2. CASE stage \notin Walking
    BY <1>1, <2>2 DEF Elsewhen
  <2>3. QED
    BY <2>1, <2>2
<1>2. CASE ~Elsewhen
  BY <1>2 DEF ListNext, listVars, walkVars, Ask, AskNext, FindPage, CountAll, PageUnreadable,
              PageAnswered, ListFails, Replan
<1>3. QED
  BY <1>1, <1>2

\* The first page begins where nothing is before.
LEMMA FirstPage ==
  ASSUME Collection', Walked, Walked', NEW q \in Queries, Ask(q), stage' = "reading"
  PROVE  /\ items' = Absent /\ total' = Absent /\ seen' = {} /\ again' = {}
         /\ Reached' = 0 /\ steady' = Matched'
         /\ \A id \in steady' : Position'[id] \in Nat
<1>1. /\ items' = Absent /\ total' = Absent /\ seen' = {} /\ again' = {} /\ page' = 1
      /\ query' = q /\ UNCHANGED subs /\ steady' = Matching(q)
  BY DEF Ask, Walked, Elsewhere, vars
<1>2. Matched' = Matching(q)
  BY <1>1 DEF Matched, Matching, Matches, MatchesFilters
<1>3. Size' \in Nat
  BY DEF Walked, Walking, Sound, Size
<1>4. Reached' = 0
  <2>1. Reached' = (page' - 1) * Size'
    BY DEF Reached
  <2>2. \A n \in Nat : (1 - 1) * n = 0
    OBVIOUS
  <2>3. QED
    BY <1>1, <1>3, <2>1, <2>2
<1>5. (Collection /\ Walked /\ stage \in Walking => \A id \in Matched : Position[id] \in Nat)'
  BY PositionsNatural, PTL
<1>6. \A id \in Matched' : Position'[id] \in Nat
  BY <1>5 DEF Walking
<1>7. QED
  BY <1>1, <1>2, <1>4, <1>6

LEMMA NextNoneMissed ==
  ASSUME Collection, Collection', Walked, Walked', Fitting, NoneMissed, ~Hidden',
         [ListNext]_listVars
  PROVE  NoneMissed'
<1> USE DEF Walking, Over, BothRead
<1>1. ASSUME NEW q \in Queries, Ask(q)
      PROVE  NoneMissed'
  <2>1. stage' \in {"reading", "400", "401"}
    BY <1>1, ListCodes DEF Ask
  <2>2. CASE stage' = "reading"
    BY <1>1, <2>2, FirstPage DEF NoneMissed
  <2>3. QED
    BY <2>1, <2>2 DEF NoneMissed
<1>2. CASE AskNext
  <2>1. /\ stage = "200" /\ stage' = "reading" /\ page' = page + 1 /\ items' = Absent
        /\ UNCHANGED <<query, seen, steady, order, vars, born>>
    BY <1>2 DEF AskNext, Elsewhere
  <2>2. Reached' = Reached
    <3>1. page' * Size - Size = page * Size /\ (page' - 1) * Size = page * Size
      BY <2>1, WalkTyped, PagesBegin DEF Walked, Sound, Size
    <3>2. QED
      BY <2>1, <3>1, ReadingKeeps DEF Reached
  <2>3. QED
    BY <2>1, <2>2, ReadingKeeps DEF NoneMissed
<1>3. ASSUME stage = "reading"
      PROVE  /\ steady \subseteq Matched /\ Reached = (page - 1) * Size
             /\ Cardinality(Matched) \in Nat /\ page * Size \in Nat
             /\ \A id \in Matched : /\ Position[id] \in Nat
                                    /\ Position[id] < Cardinality(Matched)
             /\ \A id \in Matched : Position[id] < page * Size =>
                  id \in PageOf(query, page) \/ Position[id] < Reached
  BY <1>3, WalkTyped DEF Walked, Reached
<1>4. CASE FindPage
  <2>1. /\ stage = "reading" /\ items = Absent /\ DOMAIN items' = PageOf(query, page)
        /\ UNCHANGED <<stage, query, page, total, seen, steady, order, events, vars, born>>
    BY <1>4 DEF FindPage, Elsewhere
  <2>2. Matched' = Matched /\ Size' = Size /\ Position' = Position /\ Reached' = Reached
    BY <2>1, ReadingKeeps DEF Reached
  <2>3. \A id \in steady : Position[id] < page * Size => id \in seen \cup DOMAIN items'
    BY <1>3, <2>1 DEF NoneMissed
  <2>4. total # Absent /\ "torn" \notin events => total = Cardinality(Matched)
    BY <2>1 DEF Fitting
  <2>5. total # Absent /\ "torn" \notin events /\ page * Size >= total =>
          \A id \in steady : Position[id] < page * Size
    BY <1>3, <2>1, <2>4
  <2>6. QED
    BY <2>1, <2>2, <2>3, <2>5 DEF NoneMissed
<1>5. CASE CountAll
  <2>1. /\ stage = "reading" /\ total = Absent /\ total' = Cardinality(Matched)
        /\ UNCHANGED <<stage, query, page, items, seen, steady, order, events, vars, born>>
    BY <1>5 DEF CountAll, Elsewhere, Counted, Matched
  <2>2. Matched' = Matched /\ Size' = Size /\ Position' = Position /\ Reached' = Reached
    BY <2>1, ReadingKeeps DEF Reached
  <2>3. page * Size >= total' => \A id \in steady : Position[id] < page * Size
    BY <1>3, <2>1
  <2>4. QED
    BY <2>1, <2>2, <2>3 DEF NoneMissed
<1>6. CASE PageUnreadable \/ PageAnswered \/ ListFails
  <2>1. CASE stage' \in {"200", "done"}
    <3>1. /\ BothRead /\ seen' = seen \cup DOMAIN items
          /\ stage' = IF page * Size >= total THEN "done" ELSE "200"
          /\ UNCHANGED <<query, page, items, total, steady, events, order, vars, born>>
      BY <1>6, <2>1, AnswerCases DEF PageAnswered, Size
    <3>2. Matched' = Matched /\ Size' = Size /\ Position' = Position
      BY <3>1, ReadingKeeps
    <3>3. CASE stage' = "200"
      BY <3>1, <3>2, <3>3 DEF NoneMissed, Reached
    <3>4. CASE stage' = "done"
      BY <3>1, <3>2, <3>4 DEF NoneMissed
    <3>5. QED
      BY <2>1, <3>3, <3>4
  <2>2. CASE stage' \notin {"200", "done"}
    BY <1>6, <2>2, AnswerCases DEF NoneMissed
  <2>3. QED
    BY <2>1, <2>2
<1>7. CASE Elsewhen
  <2>1. /\ UNCHANGED <<query, page, stage, items, total, seen>> /\ Size' = Size
        /\ stage \notin Over
    BY <1>7 DEF Elsewhen, Size, PageSize
  <2>2. CASE stage \in {"reading", "200"}
    <3>1. "moved" \notin events' /\ "departed" \notin events'
      BY DEF Hidden
    <3>2. /\ steady' \subseteq steady \cap Matched' /\ steady \subseteq Matched
          /\ "torn" \notin events' => "torn" \notin events
      BY <1>7, <2>2, WritesUnderWalk DEF Walked
    <3>3. \A id \in steady' : Position[id] \in Nat /\ Position'[id] \in Nat
      <4>1. (Collection /\ Walked /\ stage \in Walking =>
               \A id \in Matched : Position[id] \in Nat)'
        BY PositionsNatural, PTL
      <4>2. QED
        BY <2>1, <2>2, <3>2, <4>1, PositionsNatural
    <3>4. \A id \in steady' : Position[id] <= Position'[id]
      BY <1>7, <2>2, <3>1, <3>2, PositionsShift
    <3>5. Reached' = Reached /\ Reached \in Int /\ page * Size \in Int
      BY <2>1, <2>2, WalkTyped DEF Reached, Walked
    <3>6. \A id \in steady' : /\ Position'[id] < Reached => Position[id] < Reached
                              /\ Position'[id] < page * Size => Position[id] < page * Size
      BY <3>3, <3>4, <3>5
    <3>7. QED
      BY <2>1, <2>2, <3>2, <3>5, <3>6 DEF NoneMissed
  <2>3. CASE stage \notin {"reading", "200"}
    BY <2>1, <2>3 DEF NoneMissed
  <2>4. QED
    BY <2>2, <2>3
<1>8. CASE Replan
  BY <1>8 DEF Replan, Hidden
<1>9. CASE UNCHANGED listVars
  BY <1>9, ReadingKeeps DEF listVars, walkVars, NoneMissed, Reached
<1>10. QED
  BY <1>1, <1>2, <1>4, <1>5, <1>6, <1>7, <1>8, <1>9 DEF ListNext

-----------------------------------------------------------------------------
(* What a walk repeats.                                                     *)

LEMMA NextNoneRepeated ==
  ASSUME Collection, Collection', Walked, Walked', NoneRepeated, ~Doubled',
         [ListNext]_listVars
  PROVE  NoneRepeated'
<1> USE DEF Walking, Over, BothRead
<1>1. ASSUME NEW q \in Queries, Ask(q)
      PROVE  NoneRepeated'
  <2>1. stage' \in {"reading", "400", "401"}
    BY <1>1, ListCodes DEF Ask
  <2>2. CASE stage' = "reading"
    BY <1>1, <2>2, FirstPage DEF NoneRepeated
  <2>3. QED
    BY <2>1, <2>2 DEF NoneRepeated
<1>2. CASE AskNext
  <2>1. /\ stage = "200" /\ stage' = "reading" /\ page' = page + 1 /\ items' = Absent
        /\ UNCHANGED <<query, seen, again, steady, order, vars, born>>
    BY <1>2 DEF AskNext, Elsewhere
  <2>2. Reached' = Reached
    <3>1. (page' - 1) * Size = page * Size
      BY <2>1, PagesBegin DEF Walked, Sound, Size
    <3>2. QED
      BY <2>1, <3>1, ReadingKeeps DEF Reached
  <2>3. QED
    BY <2>1, <2>2, ReadingKeeps DEF NoneRepeated
<1>3. ASSUME stage = "reading"
      PROVE  /\ steady \subseteq Matched /\ Reached = (page - 1) * Size
             /\ Reached \in Nat /\ page * Size \in Nat /\ Reached <= page * Size
             /\ \A id \in Matched : Position[id] \in Nat
             /\ \A id \in PageOf(query, page) :
                  Position[id] < page * Size /\ ~(Position[id] < Reached)
  BY <1>3, WalkTyped DEF Walked, Reached
<1>4. CASE FindPage
  <2>1. /\ stage = "reading" /\ items = Absent /\ DOMAIN items' = PageOf(query, page)
        /\ UNCHANGED <<stage, query, page, seen, again, steady, order, vars, born>>
    BY <1>4 DEF FindPage, Elsewhere
  <2>2. Size' = Size /\ Position' = Position /\ Reached' = Reached
    BY <2>1, ReadingKeeps DEF Reached
  <2>3. \A id \in steady \cap DOMAIN items' : id \notin seen /\ Position[id] < page * Size
    BY <1>3, <2>1 DEF NoneRepeated
  <2>4. QED
    BY <2>1, <2>2, <2>3 DEF NoneRepeated
<1>5. CASE CountAll
  BY <1>5, ReadingKeeps DEF CountAll, Elsewhere, NoneRepeated, Reached
<1>6. CASE PageUnreadable \/ PageAnswered \/ ListFails
  <2>1. CASE stage' \in {"200", "done"}
    <3>1. /\ BothRead /\ seen' = seen \cup DOMAIN items
          /\ again' = again \cup (seen \cap DOMAIN items)
          /\ UNCHANGED <<query, page, items, steady, order, vars, born>>
      BY <1>6, <2>1, AnswerCases DEF PageAnswered
    <3>2. Size' = Size /\ Position' = Position
      BY <3>1, ReadingKeeps
    <3>3. steady' \cap again' = {}
      BY <3>1 DEF NoneRepeated
    <3>4. \A id \in steady \cap seen' : Position[id] < page * Size
      BY <1>3, <3>1 DEF NoneRepeated
    <3>5. QED
      BY <2>1, <3>1, <3>2, <3>3, <3>4 DEF NoneRepeated, Reached
  <2>2. CASE stage' \notin {"200", "done"}
    BY <1>6, <2>2, AnswerCases DEF NoneRepeated
  <2>3. QED
    BY <2>1, <2>2
<1>7. CASE Elsewhen
  <2>1. /\ UNCHANGED <<query, page, stage, items, seen, again>> /\ Size' = Size
        /\ stage \notin Over
    BY <1>7 DEF Elsewhen, Size, PageSize
  <2>2. CASE stage \in {"reading", "200"}
    <3>1. "moved" \notin events' /\ "arrived" \notin events'
      BY DEF Doubled
    <3>2. steady' \subseteq steady \cap Matched' /\ steady \subseteq Matched
      BY <1>7, <2>2, WritesUnderWalk DEF Walked
    <3>3. \A id \in steady' : Position[id] \in Nat /\ Position'[id] \in Nat
      <4>1. (Collection /\ Walked /\ stage \in Walking =>
               \A id \in Matched : Position[id] \in Nat)'
        BY PositionsNatural, PTL
      <4>2. QED
        BY <2>1, <2>2, <3>2, <4>1, PositionsNatural
    <3>4. \A id \in steady' : Position'[id] <= Position[id]
      BY <1>7, <2>2, <3>1, <3>2, PositionsShift
    <3>5. Reached' = Reached /\ Reached \in Int /\ page * Size \in Int
      BY <2>1, <2>2, WalkTyped DEF Reached, Walked
    <3>6. \A id \in steady' : /\ Position[id] < Reached => Position'[id] < Reached
                              /\ Position[id] < page * Size => Position'[id] < page * Size
      BY <3>3, <3>4, <3>5
    <3>7. QED
      BY <2>1, <2>2, <3>2, <3>5, <3>6 DEF NoneRepeated
  <2>3. CASE stage \notin {"reading", "200"}
    BY <2>1, <2>3 DEF NoneRepeated, Walked
  <2>4. QED
    BY <2>2, <2>3
<1>8. CASE Replan
  BY <1>8 DEF Replan, Doubled
<1>9. CASE UNCHANGED listVars
  BY <1>9, ReadingKeeps DEF listVars, walkVars, NoneRepeated, Reached
<1>10. QED
  BY <1>1, <1>2, <1>4, <1>5, <1>6, <1>7, <1>8, <1>9 DEF ListNext

LEMMA NextQuiet ==
  ASSUME Collection, Collection', Walked, Walked', Quiet, events' = {},
         [ListNext]_listVars
  PROVE  Quiet'
<1> USE DEF Walking, Over, BothRead
<1>1. ASSUME NEW q \in Queries, Ask(q)
      PROVE  Quiet'
  <2>1. stage' \in {"reading", "400", "401"}
    BY <1>1, ListCodes DEF Ask
  <2>2. CASE stage' = "reading"
    BY <1>1, <2>2, FirstPage DEF Quiet
  <2>3. QED
    BY <2>1, <2>2 DEF Quiet
<1>2. CASE AskNext \/ CountAll
  BY <1>2, ReadingKeeps DEF AskNext, CountAll, Elsewhere, Quiet
<1>3. CASE FindPage
  <2>1. /\ stage = "reading" /\ DOMAIN items' = PageOf(query, page)
        /\ UNCHANGED <<stage, query, page, seen, again, steady, order, vars, born>>
    BY <1>3 DEF FindPage, Elsewhere
  <2>2. PageOf(query, page) \subseteq Matched
    BY DEF PageOf, Matched
  <2>3. QED
    BY <2>1, <2>2, ReadingKeeps DEF Quiet
<1>4. CASE PageUnreadable \/ PageAnswered \/ ListFails
  <2>1. CASE stage' \in {"200", "done"}
    <3>1. /\ BothRead /\ seen' = seen \cup DOMAIN items
          /\ again' = again \cup (seen \cap DOMAIN items)
          /\ UNCHANGED <<query, items, steady, order, vars, born>>
      BY <1>4, <2>1, AnswerCases DEF PageAnswered
    <3>2. QED
      BY <2>1, <3>1, ReadingKeeps DEF Quiet
  <2>2. CASE stage' \notin {"200", "done"}
    BY <1>4, <2>2, AnswerCases DEF Quiet
  <2>3. QED
    BY <2>1, <2>2
<1>5. CASE Elsewhen
  <2>1. /\ UNCHANGED <<query, page, stage, items, seen, again>> /\ stage \notin Over
    BY <1>5 DEF Elsewhen
  <2>2. CASE stage \in {"reading", "200"}
    BY <1>5, <2>1, <2>2, WritesUnderWalk DEF Quiet
  <2>3. CASE stage \notin {"reading", "200"}
    BY <2>1, <2>3 DEF Quiet, Walked
  <2>4. QED
    BY <2>2, <2>3
<1>6. CASE Replan
  BY <1>6 DEF Replan
<1>7. CASE UNCHANGED listVars
  BY <1>7, ReadingKeeps DEF listVars, walkVars, Quiet
<1>8. QED
  BY <1>1, <1>2, <1>3, <1>4, <1>5, <1>6, <1>7 DEF ListNext

-----------------------------------------------------------------------------
(* The theorems.                                                            *)

LEMMA WalkHolds == ListSpec => []Walk
<1>1. ListInit => Walk
  <2> SUFFICES ASSUME ListInit
               PROVE  Walk
    OBVIOUS
  <2>1. stage = "idle" /\ items = Absent /\ total = Absent /\ events = {}
    BY DEF ListInit
  <2>2. Walked
    BY DEF ListInit, Plans, Walked, Walking, Over, OtherTenantsInvisible
  <2>3. Fitting
    BY <2>1 DEF Fitting, BothRead
  <2>4. NoneMissed /\ NoneRepeated /\ Quiet
    BY <2>1 DEF NoneMissed, NoneRepeated, Quiet, BothRead, Walking
  <2>5. QED
    BY <2>2, <2>3, <2>4 DEF Walk
<1>2. Collection /\ Collection' /\ Walk /\ [ListNext]_listVars => Walk'
  <2> SUFFICES ASSUME Collection, Collection', Walk, [ListNext]_listVars
               PROVE  Walk'
    OBVIOUS
  <2>1. events \subseteq events'
    BY EventsGrow
  <2>2. Walked' /\ Fitting'
    BY NextWalked, NextFitting DEF Walk
  <2>3. (Hidden \/ NoneMissed)'
    BY <2>1, <2>2, NextNoneMissed DEF Walk, Hidden
  <2>4. (Doubled \/ NoneRepeated)'
    BY <2>1, <2>2, NextNoneRepeated DEF Walk, Doubled
  <2>5. (events # {} \/ Quiet)'
    BY <2>1, <2>2, NextQuiet DEF Walk
  <2>6. QED
    BY <2>2, <2>3, <2>4, <2>5 DEF Walk
<1>3. QED
  BY <1>1, <1>2, CollectionHolds, PTL DEF ListSpec

(* A tenant sees nothing of another one's in a list, not even by the refusal  *)
(* of a page.                                                               *)
THEOREM ListsAreIsolated == ListSpec => []OtherTenantsInvisible
<1>1. Walk => OtherTenantsInvisible
  BY DEF Walk, Walked
<1>2. QED
  BY <1>1, WalkHolds, PTL

(* A page and its total are of one moment, unless a write came between the    *)
(* find and the count, for every page size and every order.                  *)
THEOREM PagesFitTotals == ListSpec => []PageFitsTotal
<1>1. Walk => PageFitsTotal
  BY DEF Walk, Fitting, PageFitsTotal, PageLength, Size
<1>2. QED
  BY <1>1, WalkHolds, PTL

(* A walk that nothing disturbed lists what matches, each document once.      *)
THEOREM QuietWalksAreExact == ListSpec => []QuietWalkIsExact
<1>1. Walk => QuietWalkIsExact
  BY DEF Walk, Hidden, Doubled, NoneMissed, NoneRepeated, Quiet, QuietWalkIsExact, Walking
<1>2. QED
  BY <1>1, WalkHolds, PTL

(* What a document that stays where it is can be missed and repeated for,    *)
(* however many writes and page requests interleave.                         *)
THEOREM OnlyTheseMissAndRepeat == ListSpec => []MissesAndRepeats
<1>1. Walk => MissesAndRepeats
  BY DEF Walk, Hidden, Doubled, NoneMissed, NoneRepeated, MissesAndRepeats, Walking
<1>2. QED
  BY <1>1, WalkHolds, PTL
=============================================================================
