--------------------------- MODULE Listings_proofs ---------------------------
(***************************************************************************)
(* Proofs about the lists of items that users are served: the pages of a   *)
(* search, for any items, limits and hits, and the feeds, for any stock,   *)
(* scores, topics, likenesses and promotion rules.  They rest on lemmas    *)
(* about what sorting and picking from a list give.  A list is sorted by a *)
(* relation, a set of pairs, since no lemma can speak of any operator.     *)
(***************************************************************************)
EXTENDS SearchQueries, FeedRanking, FiniteSetTheorems, FunctionTheorems, SequenceTheorems, WellFoundedInduction, TLAPS

-----------------------------------------------------------------------------
(* Lists                                                                   *)

\* A strict order of all elements of S, as a set of pairs
StrictlyOrders(R, S) ==
    /\ \A i \in S : <<i, i>> \notin R
    /\ \A i, j \in S : i # j => <<i, j>> \in R \/ <<j, i>> \in R
    /\ \A i, j, k \in S : <<i, j>> \in R /\ <<j, k>> \in R => <<i, k>> \in R

Sorted(S, R) ==
    [n \in 1 .. Cardinality(S) |-> CHOOSE i \in S : Cardinality({j \in S : <<j, i>> \in R}) = n - 1]

Distinct(list) == \A m, n \in DOMAIN list : m # n => list[m] # list[n]

\* The n-th element of a sorted list has n - 1 before it, and every element is one of them.
LEMMA SortedStands ==
    ASSUME NEW S, IsFiniteSet(S), NEW R, StrictlyOrders(R, S)
    PROVE  /\ Cardinality(S) \in Nat
           /\ Sorted(S, R) \in [1 .. Cardinality(S) -> S]
           /\ \A i \in S : \E n \in 1 .. Cardinality(S) : Sorted(S, R)[n] = i
           /\ \A m, n \in 1 .. Cardinality(S) : m < n => <<Sorted(S, R)[m], Sorted(S, R)[n]>> \in R
           /\ \A n \in 1 .. Cardinality(S) : Cardinality({j \in S : <<j, Sorted(S, R)[n]>> \in R}) = n - 1
           /\ Distinct(Sorted(S, R))
  <1> DEFINE Lower(i) == {j \in S : <<j, i>> \in R}
             size == Cardinality(S)
             sorted == Sorted(S, R)
  <1>1. size \in Nat
    BY FS_CardinalityType
  <1>2. ASSUME NEW i \in S PROVE IsFiniteSet(Lower(i)) /\ Cardinality(Lower(i)) \in 0 .. size - 1
    <2>1. Lower(i) \subseteq S \ {i}
      BY DEF StrictlyOrders
    <2>2. IsFiniteSet(S \ {i}) /\ Cardinality(S \ {i}) = size - 1
      BY FS_RemoveElement
    <2> HIDE DEF Lower
    <2>3. IsFiniteSet(Lower(i)) /\ Cardinality(Lower(i)) <= size - 1
      BY <2>1, <2>2, FS_Subset
    <2>4. Cardinality(Lower(i)) \in Nat
      BY <2>3, FS_CardinalityType
    <2> QED
      BY <1>1, <2>3, <2>4
  <1>3. ASSUME NEW i \in S, NEW j \in S, <<i, j>> \in R PROVE Cardinality(Lower(i)) < Cardinality(Lower(j))
    <2>1. Lower(i) \cup {i} \subseteq Lower(j) /\ i \notin Lower(i)
      BY <1>3 DEF StrictlyOrders
    <2>2. IsFiniteSet(Lower(i)) /\ IsFiniteSet(Lower(j)) /\ Cardinality(Lower(i)) \in Nat /\ Cardinality(Lower(j)) \in Nat
      BY <1>1, <1>2
    <2> HIDE DEF Lower
    <2>3. Cardinality(Lower(i) \cup {i}) = Cardinality(Lower(i)) + 1
      BY <2>1, <2>2, FS_AddElement
    <2>4. Cardinality(Lower(i) \cup {i}) <= Cardinality(Lower(j))
      BY <2>1, <2>2, FS_Subset
    <2> QED
      BY <2>2, <2>3, <2>4
  <1>4. \A i, j \in S : i # j => Cardinality(Lower(i)) # Cardinality(Lower(j))
    <2> SUFFICES ASSUME NEW i \in S, NEW j \in S, i # j PROVE Cardinality(Lower(i)) # Cardinality(Lower(j))
      OBVIOUS
    <2>1. Cardinality(Lower(i)) \in Int /\ Cardinality(Lower(j)) \in Int
      <3>1. Cardinality(Lower(i)) \in 0 .. size - 1 /\ Cardinality(Lower(j)) \in 0 .. size - 1
        BY <1>2
      <3> HIDE DEF Lower
      <3> QED
        BY <1>1, <3>1
    <2>2. CASE <<i, j>> \in R
      <3>1. Cardinality(Lower(i)) < Cardinality(Lower(j))
        BY <1>3, <2>2
      <3> HIDE DEF Lower
      <3> QED
        BY <2>1, <3>1
    <2>3. CASE <<j, i>> \in R
      <3>1. Cardinality(Lower(j)) < Cardinality(Lower(i))
        BY <1>3, <2>3
      <3> HIDE DEF Lower
      <3> QED
        BY <2>1, <3>1
    <2> QED
      BY <2>2, <2>3 DEF StrictlyOrders
  <1>5. \A n \in 1 .. size : \E i \in S : Cardinality(Lower(i)) = n - 1
    <2> DEFINE place == [i \in S |-> Cardinality(Lower(i)) + 1]
    <2>1. \A i \in S : Cardinality(Lower(i)) \in 0 .. size - 1
      BY <1>2
    <2>2. place \in [S -> 1 .. size]
      <3> HIDE DEF Lower
      <3> QED
        BY <1>1, <2>1
    <2>3. \A i, j \in S : i # j => place[i] # place[j]
      <3> HIDE DEF Lower
      <3> QED
        BY <1>4, <2>1
    <2> HIDE DEF place
    <2>4. place \in Injection(S, 1 .. size)
      BY <2>2, <2>3 DEF Injection, IsInjective
    <2>5. IsFiniteSet(1 .. size) /\ Cardinality(1 .. size) = size
      <3>1. 1 \in Int /\ size \in Int /\ size >= 0
        BY <1>1
      <3> QED
        BY <3>1, FS_Interval
    <2>6. place \in Surjection(S, 1 .. size)
      BY <2>4, <2>5, FS_Injection
    <2> TAKE n \in 1 .. size
    <2>7. PICK i \in S : place[i] = n
      BY <2>6 DEF Surjection
    <2>8. Cardinality(Lower(i)) + 1 = n
      BY <2>7 DEF place
    <2> HIDE DEF Lower
    <2>9. Cardinality(Lower(i)) = n - 1
      BY <2>1, <2>8
    <2> QED
      BY <2>9
  <1>6. \A n \in 1 .. size : sorted[n] \in S /\ Cardinality(Lower(sorted[n])) = n - 1
    BY <1>5 DEF Sorted
  <1>7. sorted \in [1 .. size -> S]
    BY <1>6 DEF Sorted
  <1> HIDE DEF sorted
  <1>8. \A i \in S : \E n \in 1 .. size : sorted[n] = i
    <2> TAKE i \in S
    <2> DEFINE n == Cardinality(Lower(i)) + 1
    <2>1. n \in 1 .. size /\ n - 1 = Cardinality(Lower(i))
      <3>1. Cardinality(Lower(i)) \in 0 .. size - 1
        BY <1>2
      <3> HIDE DEF Lower
      <3> QED
        BY <1>1, <3>1
    <2> HIDE DEF n, Lower
    <2> QED
      BY <1>4, <1>6, <2>1
  <1>9. \A m, n \in 1 .. size : m < n => <<sorted[m], sorted[n]>> \in R
    <2> SUFFICES ASSUME NEW m \in 1 .. size, NEW n \in 1 .. size, m < n PROVE <<sorted[m], sorted[n]>> \in R
      OBVIOUS
    <2>1. Cardinality(Lower(sorted[m])) = m - 1 /\ Cardinality(Lower(sorted[n])) = n - 1
      BY <1>6
    <2>2. ASSUME <<sorted[n], sorted[m]>> \in R PROVE FALSE
      <3>1. Cardinality(Lower(sorted[n])) < Cardinality(Lower(sorted[m]))
        BY <1>3, <1>6, <2>2
      <3> HIDE DEF Lower
      <3> QED
        BY <2>1, <3>1
    <2>3. sorted[m] # sorted[n]
      <3> HIDE DEF Lower
      <3> QED
        BY <2>1
    <2> QED
      BY <1>6, <2>2, <2>3 DEF StrictlyOrders
  <1>10. Distinct(sorted)
    <2> HIDE DEF Lower
    <2>1. \A m, n \in 1 .. size : m # n => m < n \/ n < m
      OBVIOUS
    <2>2. \A m, n \in 1 .. size : m < n => sorted[m] # sorted[n]
      BY <1>7, <1>9 DEF StrictlyOrders
    <2> QED
      BY <1>7, <2>1, <2>2 DEF Distinct
  <1> QED
    BY <1>1, <1>6, <1>7, <1>8, <1>9, <1>10 DEF sorted

LEMMA AscendingStands ==
    ASSUME NEW numbers \in SUBSET Nat, IsFiniteSet(numbers)
    PROVE  /\ Cardinality(numbers) \in Nat
           /\ Ascending(numbers) \in [1 .. Cardinality(numbers) -> numbers]
           /\ \A i \in numbers : \E n \in 1 .. Cardinality(numbers) : Ascending(numbers)[n] = i
           /\ \A m, n \in 1 .. Cardinality(numbers) : m < n => Ascending(numbers)[m] < Ascending(numbers)[n]
           /\ \A n \in 1 .. Cardinality(numbers) : Cardinality({j \in numbers : j < Ascending(numbers)[n]}) = n - 1
           /\ Distinct(Ascending(numbers))
  <1> DEFINE R == {p \in numbers \X numbers : p[1] < p[2]}
  <1>1. \A i, j \in numbers : <<i, j>> \in R <=> i < j
    OBVIOUS
  <1>2. \A i \in numbers : {j \in numbers : <<j, i>> \in R} = {j \in numbers : j < i}
    BY <1>1
  <1> HIDE DEF R
  <1>3. StrictlyOrders(R, numbers)
    BY <1>1 DEF StrictlyOrders
  <1>4. Ascending(numbers) = Sorted(numbers, R)
    <2>1. ASSUME NEW n \in 1 .. Cardinality(numbers)
          PROVE  (CHOOSE i \in numbers : Cardinality({j \in numbers : j < i}) = n - 1)
                   = (CHOOSE i \in numbers : Cardinality({j \in numbers : <<j, i>> \in R}) = n - 1)
      BY <1>2
    <2>2. Ascending(numbers) =
             [n \in 1 .. Cardinality(numbers) |-> CHOOSE i \in numbers : Cardinality({j \in numbers : j < i}) = n - 1]
      BY DEF Ascending, InOrder
    <2> QED
      BY <2>1, <2>2 DEF Sorted
  <1>5. \A m, n \in 1 .. Cardinality(numbers) : m < n => Ascending(numbers)[m] < Ascending(numbers)[n]
    BY <1>1, <1>3, <1>4, SortedStands, ZenonT(30)
  <1>6. \A n \in 1 .. Cardinality(numbers) :
           Ascending(numbers)[n] \in numbers
           /\ Cardinality({j \in numbers : <<j, Ascending(numbers)[n]>> \in R}) = n - 1
    BY <1>3, <1>4, SortedStands
  <1>7. \A n \in 1 .. Cardinality(numbers) : Cardinality({j \in numbers : j < Ascending(numbers)[n]}) = n - 1
    BY <1>2, <1>6
  <1> QED
    BY <1>3, <1>4, <1>5, <1>7, SortedStands

\* Entries of a list at some of its positions
LEMMA AtStands ==
    ASSUME NEW X, NEW list \in Seq(X), NEW positions \in SUBSET DOMAIN list
    PROVE  /\ Cardinality(positions) \in Nat /\ Cardinality(positions) <= Len(list)
           /\ At(list, positions) \in Seq(X)
           /\ Len(At(list, positions)) = Cardinality(positions)
           /\ Values(At(list, positions)) = {list[p] : p \in positions}
           /\ (\A m, n \in positions : m # n => list[m] # list[n]) => Distinct(At(list, positions))
           /\ positions = DOMAIN list => At(list, positions) = list
           /\ Cardinality(positions) = Len(list) => positions = DOMAIN list
  <1> DEFINE a == Ascending(positions)
             size == Cardinality(positions)
             picked == At(list, positions)
  <1>1. Len(list) \in Nat /\ DOMAIN list = 1 .. Len(list) /\ list \in [1 .. Len(list) -> X]
    OBVIOUS
  <1>2. IsFiniteSet(DOMAIN list) /\ Cardinality(DOMAIN list) = Len(list)
    <2>1. 1 \in Int /\ Len(list) \in Int /\ Len(list) >= 0
      BY <1>1
    <2>2. IsFiniteSet(1 .. Len(list)) /\ Cardinality(1 .. Len(list)) = Len(list)
      BY <2>1, FS_Interval
    <2> QED
      BY <1>1, <2>2
  <1>3. /\ IsFiniteSet(positions) /\ size <= Len(list)
        /\ size = Len(list) => positions = DOMAIN list
    BY <1>2, FS_Subset
  <1>4. positions \in SUBSET Nat
    BY <1>1
  <1>5. /\ size \in Nat
        /\ a \in [1 .. size -> positions]
        /\ \A p \in positions : \E n \in 1 .. size : a[n] = p
        /\ \A m, n \in 1 .. size : m < n => a[m] < a[n]
        /\ \A n \in 1 .. size : Cardinality({j \in positions : j < a[n]}) = n - 1
        /\ \A m, n \in 1 .. size : m # n => a[m] # a[n]
    BY <1>3, <1>4, AscendingStands DEF Distinct
  <1> HIDE DEF a, size
  <1>6. picked = [n \in 1 .. size |-> list[a[n]]]
    BY DEF At, a, size
  <1> HIDE DEF picked
  <1>7. \A n \in 1 .. size : a[n] \in DOMAIN list /\ picked[n] \in X
    BY <1>1, <1>5, <1>6
  <1>8. picked \in [1 .. size -> X]
    BY <1>6, <1>7
  <1>9. picked \in Seq(X) /\ Len(picked) = size /\ DOMAIN picked = 1 .. size
    <2>1. picked \in Seq(X)
      BY <1>5, <1>8
    <2>2. DOMAIN picked = 1 .. size /\ DOMAIN picked = 1 .. Len(picked) /\ Len(picked) \in Nat
      BY <1>8, <2>1
    <2> QED
      BY <1>5, <2>1, <2>2
  <1>10. Values(picked) = {list[p] : p \in positions}
    <2>1. Values(picked) = {picked[n] : n \in 1 .. size}
      BY <1>9 DEF Values
    <2>2. \A n \in 1 .. size : picked[n] = list[a[n]] /\ a[n] \in positions
      BY <1>5, <1>6
    <2> QED
      BY <1>5, <2>1, <2>2
  <1>11. (\A m, n \in positions : m # n => list[m] # list[n]) => Distinct(picked)
    BY <1>5, <1>6, <1>9 DEF Distinct
  <1>12. ASSUME positions = DOMAIN list PROVE picked = list
    <2>1. size = Len(list) /\ positions = 1 .. size
      BY <1>1, <1>2, <1>12 DEF size
    <2>2. \A n \in 1 .. size : a[n] = n
      <3> TAKE n \in 1 .. size
      <3>1. a[n] \in 1 .. size /\ Cardinality({j \in 1 .. size : j < a[n]}) = n - 1
        BY <1>5, <2>1
      <3>2. {j \in 1 .. size : j < a[n]} = 1 .. a[n] - 1
        BY <1>5, <3>1
      <3>3. 1 \in Int /\ a[n] - 1 \in Int /\ a[n] - 1 >= 0
        BY <1>5, <3>1
      <3>4. Cardinality(1 .. a[n] - 1) = a[n] - 1
        BY <3>3, FS_Interval
      <3>5. a[n] - 1 = n - 1
        BY ONLY <3>1, <3>2, <3>4
      <3>6. size \in Nat /\ a[n] \in 1 .. size /\ n \in 1 .. size
        BY <1>5, <3>1
      <3> QED
        BY ONLY <3>5, <3>6
    <2> QED
      BY <1>1, <1>6, <2>1, <2>2
  <1> QED
    BY <1>3, <1>5, <1>9, <1>10, <1>11, <1>12 DEF size, picked

LEMMA AmongStands ==
    ASSUME NEW X, NEW list \in Seq(X), NEW S
    PROVE  /\ Among(list, S) \in Seq(X)
           /\ Len(Among(list, S)) <= Len(list)
           /\ Values(Among(list, S)) = Values(list) \cap S
           /\ Distinct(list) => Distinct(Among(list, S))
           /\ Len(Among(list, S)) = Len(list) => Among(list, S) = list
           /\ Values(list) \subseteq S => Among(list, S) = list
  <1> DEFINE positions == {n \in DOMAIN list : list[n] \in S}
  <1>1. positions \subseteq DOMAIN list /\ Among(list, S) = At(list, positions)
    BY DEF Among
  <1>2. {list[p] : p \in positions} = Values(list) \cap S
    BY DEF Values
  <1>3. Distinct(list) => \A m, n \in positions : m # n => list[m] # list[n]
    BY DEF Distinct
  <1>4. Values(list) \subseteq S => positions = DOMAIN list
    BY DEF Values
  <1> HIDE DEF positions
  <1> QED
    BY <1>1, <1>2, <1>3, <1>4, AtStands

LEMMA UniqueStands ==
    ASSUME NEW X, NEW list \in Seq(X)
    PROVE  Unique(list) \in Seq(X) /\ Distinct(Unique(list))
  <1> DEFINE positions == {n \in DOMAIN list : \A m \in 1 .. n - 1 : list[m] # list[n]}
  <1>1. positions \subseteq DOMAIN list /\ Unique(list) = At(list, positions)
    BY DEF Unique
  <1>2. \A m, n \in positions : m # n => list[m] # list[n]
    <2>1. \A m, n \in positions : m < n => list[m] # list[n]
      <3>1. \A m, n \in DOMAIN list : m < n => m \in 1 .. n - 1
        OBVIOUS
      <3> QED
        BY <3>1
    <2>2. \A m, n \in positions : m # n => m < n \/ n < m
      OBVIOUS
    <2> HIDE DEF positions
    <2> QED
      BY <2>1, <2>2
  <1> HIDE DEF positions
  <1> QED
    BY <1>1, <1>2, AtStands

\* The beginning of a list
LEMMA FirstOfStands ==
    ASSUME NEW X, NEW list \in Seq(X), NEW limit \in Nat
    PROVE  /\ FirstOf(list, limit) \in Seq(X)
           /\ Len(FirstOf(list, limit)) = IF Len(list) < limit THEN Len(list) ELSE limit
           /\ \A n \in 1 .. Len(FirstOf(list, limit)) : n \in DOMAIN list /\ FirstOf(list, limit)[n] = list[n]
           /\ Len(list) <= limit => FirstOf(list, limit) = list
           /\ Distinct(list) => Distinct(FirstOf(list, limit))
           /\ Values(FirstOf(list, limit)) \subseteq Values(list)
  <1> DEFINE size == IF Len(list) < limit THEN Len(list) ELSE limit
             first == FirstOf(list, limit)
  <1>1. Len(list) \in Nat /\ DOMAIN list = 1 .. Len(list) /\ size \in Nat /\ size <= Len(list)
    OBVIOUS
  <1>2. first = SubSeq(list, 1, size)
    BY DEF FirstOf
  <1> HIDE DEF first
  <1>3. first \in Seq(X) /\ Len(first) = size /\ \A n \in 1 .. size : first[n] = list[n]
    <2> HIDE DEF size
    <2> QED
      BY <1>1, <1>2
  <1>4. DOMAIN first = 1 .. size
    BY <1>1, <1>3
  <1>5. Len(list) <= limit => first = list
    BY <1>1, <1>3
  <1>6. Distinct(list) => Distinct(first)
    <2> HIDE DEF size
    <2> QED
      BY <1>1, <1>3, <1>4 DEF Distinct
  <1>7. Values(first) \subseteq Values(list)
    <2> HIDE DEF size
    <2> QED
      BY <1>1, <1>3, <1>4 DEF Values
  <1> QED
    BY <1>1, <1>3, <1>5, <1>6, <1>7 DEF first

\* A list without repetitions has as many values as entries.
LEMMA DistinctCount ==
    ASSUME NEW X, NEW list \in Seq(X), Distinct(list)
    PROVE  IsFiniteSet(Values(list)) /\ Cardinality(Values(list)) = Len(list)
  <1>1. Len(list) \in Nat /\ DOMAIN list = 1 .. Len(list)
    OBVIOUS
  <1>2. list \in [1 .. Len(list) -> Values(list)]
    BY DEF Values
  <1>3. list \in Bijection(1 .. Len(list), Values(list))
    BY <1>1, <1>2 DEF Bijection, Injection, Surjection, IsInjective, Distinct, Values
  <1>4. ExistsBijection(1 .. Len(list), Values(list))
    BY <1>3 DEF ExistsBijection
  <1> QED
    BY <1>1, <1>4, FS_CountingElements, FS_NatBijection

\* A function on 1 .. n is a list of n.
LEMMA ListOf ==
    ASSUME NEW X, NEW n \in Nat, NEW list \in [1 .. n -> X]
    PROVE  list \in Seq(X) /\ Len(list) = n /\ DOMAIN list = 1 .. n
  <1>1. list \in Seq(X)
    OBVIOUS
  <1>2. DOMAIN list = 1 .. n /\ DOMAIN list = 1 .. Len(list) /\ Len(list) \in Nat
    BY <1>1
  <1> QED
    BY <1>1, <1>2

\* Two lists, one behind the other
LEMMA JoinStands ==
    ASSUME NEW X, NEW a \in Seq(X), NEW b \in Seq(X)
    PROVE  /\ a \o b \in Seq(X) /\ Len(a \o b) = Len(a) + Len(b)
           /\ \A n \in 1 .. Len(a) : (a \o b)[n] = a[n]
           /\ \A n \in 1 .. Len(b) : (a \o b)[Len(a) + n] = b[n]
           /\ Values(a \o b) = Values(a) \cup Values(b)
           /\ Distinct(a) /\ Distinct(b) /\ Values(a) \cap Values(b) = {} => Distinct(a \o b)
  <1> DEFINE k == Len(a)
             l == Len(b)
             both == a \o b
  <1>1. /\ both \in Seq(X) /\ Len(both) = k + l /\ DOMAIN both = 1 .. k + l
        /\ k \in Nat /\ l \in Nat /\ DOMAIN a = 1 .. k /\ DOMAIN b = 1 .. l
        /\ \A n \in 1 .. k : both[n] = a[n]
        /\ \A n \in 1 .. l : both[k + n] = b[n]
    OBVIOUS
  <1> HIDE DEF both, k, l
  <1>2. \A n \in 1 .. k + l : n \in 1 .. k \/ (n - k \in 1 .. l /\ n = k + (n - k))
    BY <1>1
  <1>3. \A n \in 1 .. k + l : n \in 1 .. k => both[n] \in Values(a)
    BY <1>1 DEF Values
  <1>4. \A n \in 1 .. k + l : n \notin 1 .. k => both[n] \in Values(b) /\ both[n] = b[n - k]
    <2> TAKE n \in 1 .. k + l
    <2> HAVE n \notin 1 .. k
    <2> DEFINE m == n - k
    <2>1. m \in 1 .. l /\ n = k + m
      BY <1>2
    <2> HIDE DEF m
    <2>2. both[n] = b[m] /\ b[m] \in Values(b)
      BY <1>1, <2>1 DEF Values
    <2> QED
      BY <2>2 DEF m
  <1>5. Values(both) = Values(a) \cup Values(b)
    <2>1. Values(both) \subseteq Values(a) \cup Values(b)
      <3>1. \A n \in 1 .. k + l : both[n] \in Values(a) \cup Values(b)
        BY <1>3, <1>4
      <3> QED
        BY <1>1, <3>1 DEF Values
    <2>2. \A n \in 1 .. k : n \in DOMAIN both
      BY <1>1
    <2>3. \A n \in 1 .. l : k + n \in DOMAIN both
      BY <1>1
    <2>4. Values(a) \subseteq Values(both)
      BY <1>1, <2>2 DEF Values
    <2>5. Values(b) \subseteq Values(both)
      <3>1. \A n \in 1 .. l : both[k + n] \in Values(both)
        BY <2>3 DEF Values
      <3> QED
        BY <1>1, <3>1, ZenonT(30) DEF Values
    <2> QED
      BY <2>1, <2>4, <2>5
  <1>6. ASSUME Distinct(a), Distinct(b), Values(a) \cap Values(b) = {},
               NEW m \in 1 .. k + l, NEW n \in 1 .. k + l, m < n
        PROVE  both[m] # both[n]
    <2>1. CASE n \in 1 .. k
      <3>1. m \in 1 .. k /\ m # n
        BY <1>1, <1>6, <2>1
      <3> QED
        BY <1>1, <1>6, <2>1, <3>1 DEF Distinct
    <2>2. CASE m \notin 1 .. k
      <3>1. n \notin 1 .. k /\ m - k \in 1 .. l /\ n - k \in 1 .. l /\ m - k # n - k
        BY <1>1, <1>6, <2>2
      <3>2. both[m] = b[m - k] /\ both[n] = b[n - k]
        BY <1>4, <2>2, <3>1
      <3>3. b[m - k] # b[n - k]
        BY <1>1, <1>6, <3>1 DEF Distinct
      <3> QED
        BY <3>2, <3>3
    <2>3. CASE m \in 1 .. k /\ n \notin 1 .. k
      BY <1>3, <1>4, <1>6, <2>3
    <2> QED
      BY <2>1, <2>2, <2>3
  <1>7. Distinct(a) /\ Distinct(b) /\ Values(a) \cap Values(b) = {} => Distinct(both)
    <2>1. \A m, n \in 1 .. k + l : m # n => m < n \/ n < m
      BY <1>1
    <2> QED
      BY <1>1, <1>6, <2>1 DEF Distinct
  <1> QED
    BY <1>1, <1>5, <1>7 DEF both, k, l

-----------------------------------------------------------------------------
(* Searches: between its two sessions a query knows what stood in the      *)
(* first, and the page it has is never more than what was on line by then. *)

\* Of a page: its items were on line, each is there once, and there are not too many.
PageIsSound ==
    /\ query.page \in Seq(Matching) /\ Len(query.page) <= PageLimit
    /\ Distinct(query.page)
    /\ Values(query.page) \subseteq query.ever

QueryInv ==
    /\ QueryTypeOK
    /\ query.at \in {"idle", "hits", "unavailable"} => query.page = <<>>
    /\ query.at \in {"idle", "hits"} => ~ query.degraded
    /\ query.at # "idle" => query.always \subseteq listed /\ listed \subseteq query.ever
    /\ PageIsSound
    /\ query.at = "authorized" /\ ~ query.degraded => query.page = FirstOf(Unique(query.hits), PageLimit)
    /\ query.at = "answered" =>
          /\ query.always \subseteq Values(query.page) \/ Len(query.page) = PageLimit
          /\ query.degraded \/ query.page = FirstOf(Unique(query.hits), PageLimit)

Rows == [at : {"idle", "hits", "authorized", "unavailable", "answered", "denied", "failed"},
         hits : HitLists, page : ListsUpTo(PageLimit), always : SUBSET Matching, ever : SUBSET Matching,
         degraded : BOOLEAN]

LEMMA QueryRow == QueryTypeOK <=> listed \subseteq Matching /\ account \in BOOLEAN /\ query \in Rows
  BY DEF QueryTypeOK, Rows

\* Lists of at most so many matching items
LEMMA ShortLists ==
    ASSUME NEW limit \in Nat, NEW list
    PROVE  list \in ListsUpTo(limit) <=> list \in Seq(Matching) /\ Len(list) <= limit
  <1>1. ASSUME list \in ListsUpTo(limit) PROVE list \in Seq(Matching) /\ Len(list) <= limit
    <2>1. PICK n \in 0 .. limit : list \in [1 .. n -> Matching]
      BY <1>1 DEF ListsUpTo
    <2>2. list \in Seq(Matching)
      BY <2>1
    <2>3. DOMAIN list = 1 .. n /\ DOMAIN list = 1 .. Len(list) /\ Len(list) \in Nat
      BY <2>1, <2>2
    <2> QED
      BY <2>1, <2>2, <2>3
  <1>2. ASSUME list \in Seq(Matching), Len(list) <= limit PROVE list \in ListsUpTo(limit)
    <2>1. Len(list) \in 0 .. limit /\ list \in [1 .. Len(list) -> Matching]
      BY <1>2
    <2> QED
      BY <2>1 DEF ListsUpTo
  <1> QED
    BY <1>1, <1>2

LEMMA QueryInvInit == QueryInit => QueryInv
  <1> SUFFICES ASSUME QueryInit PROVE QueryInv
    OBVIOUS
  <1>1. <<>> \in Seq(Matching) /\ Len(<<>>) = 0 /\ DOMAIN <<>> = {}
    OBVIOUS
  <1>2. PageLimit \in Nat /\ CandidateLimit \in Nat /\ 0 <= PageLimit /\ 0 <= CandidateLimit
    BY QueryConstants
  <1>3. <<>> \in HitLists /\ <<>> \in ListsUpTo(PageLimit)
    BY <1>1, <1>2, ShortLists DEF HitLists
  <1>4. query \in Rows /\ query.at = "idle" /\ query.page = <<>> /\ query.ever = {} /\ ~ query.degraded
    BY <1>3 DEF QueryInit, NoQuery, Rows
  <1>5. Distinct(query.page) /\ Values(query.page) = {}
    BY <1>1, <1>4 DEF Distinct, Values
  <1>6. PageIsSound
    BY <1>1, <1>2, <1>4, <1>5 DEF PageIsSound
  <1>7. QueryTypeOK
    BY <1>4, QueryRow DEF QueryInit
  <1> QED
    BY <1>4, <1>6, <1>7 DEF QueryInv

\* A query that asks for nothing, or just asks
LEMMA NoPageKeeps ==
    ASSUME QueryInv, listed' = listed, account' = account, query' \in Rows,
           query'.at \in {"idle", "hits", "unavailable"}, query'.page = <<>>, ~ query'.degraded,
           query'.at # "idle" => query'.always = listed /\ query'.ever = listed
    PROVE  QueryInv'
  <1>1. <<>> \in Seq(Matching) /\ Len(<<>>) = 0 /\ DOMAIN <<>> = {} /\ 0 <= PageLimit
    BY QueryConstants
  <1>2. Distinct(query'.page) /\ Values(query'.page) = {}
    BY <1>1 DEF Distinct, Values
  <1>3. PageIsSound'
    BY <1>1, <1>2 DEF PageIsSound
  <1>4. QueryTypeOK'
    BY QueryRow DEF QueryInv, QueryTypeOK, Rows
  <1> QED
    BY <1>3, <1>4 DEF QueryInv

\* A query that ends without an answer
LEMMA EndsWithout ==
    ASSUME QueryInv, UNCHANGED <<listed, account>>, query.at # "idle", query' = [query EXCEPT !.at = "denied"] \/ query' = [query EXCEPT !.at = "failed"]
    PROVE  QueryInv'
  <1>1. /\ query' \in Rows /\ query'.at \in {"denied", "failed"}
        /\ query'.page = query.page /\ query'.always = query.always /\ query'.ever = query.ever
    BY QueryRow DEF QueryInv, Rows
  <1>2. QueryTypeOK'
    BY <1>1, QueryRow DEF QueryInv, QueryTypeOK, Rows
  <1> QED
    BY <1>1, <1>2 DEF QueryInv, PageIsSound

LEMMA ToggleKeeps == ASSUME QueryInv, NEW i \in Matching, Toggle(i) PROVE QueryInv'
  <1>1. listed' \subseteq Matching /\ account' = account
    BY DEF Toggle, QueryInv, QueryTypeOK
  <1>2. query \in Rows
    BY QueryRow DEF QueryInv
  <1>3. CASE query.at = "idle"
    <2>1. query' = query
      BY <1>3 DEF Toggle
    <2> QED
      BY <1>1, <1>3, <2>1 DEF QueryInv, QueryTypeOK, PageIsSound
  <1>4. CASE query.at # "idle"
    <2>1. query' = [query EXCEPT !.always = query.always \cap listed', !.ever = query.ever \cup listed']
      BY <1>4 DEF Toggle
    <2>2. /\ query' \in Rows /\ query'.at = query.at /\ query'.hits = query.hits /\ query'.page = query.page
          /\ query'.degraded = query.degraded
          /\ query'.always = query.always \cap listed' /\ query'.ever = query.ever \cup listed'
      BY <1>1, <1>2, <2>1 DEF Rows
    <2>3. QueryTypeOK'
      BY <1>1, <2>2 DEF QueryInv, QueryTypeOK, Rows
    <2> QED
      BY <1>4, <2>2, <2>3 DEF QueryInv, PageIsSound
  <1> QED
    BY <1>3, <1>4

LEMMA AuthorizesKeeps == ASSUME QueryInv, Authorizes, account PROVE QueryInv'
  <1> DEFINE unique == Unique(query.hits)
             stand == Among(unique, listed)
             page == FirstOf(stand, PageLimit)
  <1>1. query \in Rows /\ query.at = "hits" /\ UNCHANGED <<listed, account>>
    BY QueryRow DEF QueryInv, Authorizes
  <1>2. query.hits \in Seq(Matching) /\ PageLimit \in Nat
    BY <1>1, ShortLists, QueryConstants DEF Rows, HitLists
  <1>3. unique \in Seq(Matching) /\ Distinct(unique) /\ Len(unique) \in Nat
    <2>1. unique \in Seq(Matching) /\ Distinct(unique)
      BY <1>2, UniqueStands
    <2> HIDE DEF unique
    <2> QED
      BY <2>1
  <1>4. /\ stand \in Seq(Matching) /\ Distinct(stand) /\ Values(stand) \subseteq listed /\ Len(stand) \in Nat
        /\ Len(stand) <= Len(unique) /\ (Len(stand) = Len(unique) => stand = unique)
    <2> HIDE DEF unique
    <2>1. /\ stand \in Seq(Matching) /\ Distinct(stand) /\ Values(stand) \subseteq listed
          /\ Len(stand) <= Len(unique) /\ (Len(stand) = Len(unique) => stand = unique)
      BY <1>3, AmongStands
    <2> HIDE DEF stand
    <2> QED
      BY <2>1
  <1> HIDE DEF stand
  <1>5. /\ page \in Seq(Matching) /\ Distinct(page) /\ Values(page) \subseteq listed
        /\ Len(page) = IF Len(stand) < PageLimit THEN Len(stand) ELSE PageLimit
    BY <1>2, <1>4, FirstOfStands
  <1> HIDE DEF page
  <1>6. query' = [query EXCEPT !.at = IF Len(stand) < PageLimit THEN "authorized" ELSE "answered",
                               !.page = page, !.degraded = Len(stand) < Len(unique)]
    BY DEF Authorizes, stand, page
  <1> HIDE DEF unique
  <1>7. page \in ListsUpTo(PageLimit) /\ Len(page) <= PageLimit
    BY <1>2, <1>4, <1>5, ShortLists
  <1>8. /\ query' \in Rows /\ query'.page = page /\ query'.hits = query.hits
        /\ query'.always = query.always /\ query'.ever = query.ever
    <2>1. (Len(stand) < Len(unique)) \in BOOLEAN
      OBVIOUS
    <2> QED
      BY <1>1, <1>6, <1>7, <2>1 DEF Rows
  <1>d. query'.degraded = (Len(stand) < Len(unique))
    BY <1>1, <1>6 DEF Rows
  <1>9. query'.at = IF Len(stand) < PageLimit THEN "authorized" ELSE "answered"
    BY <1>1, <1>6 DEF Rows
  <1>10. ~ query'.degraded => query'.page = FirstOf(Unique(query'.hits), PageLimit)
    <2>1. ~ query'.degraded => stand = unique
      <3>1. ~ (Len(stand) < Len(unique)) => Len(stand) = Len(unique)
        BY <1>3, <1>4
      <3>2. ~ (Len(stand) < Len(unique)) => stand = unique
        BY <1>4, <3>1
      <3> QED
        BY <1>d, <3>2
    <2>2. page = FirstOf(stand, PageLimit) /\ unique = Unique(query.hits)
      BY DEF page, unique
    <2> QED
      BY <1>8, <2>1, <2>2
  <1>11. query'.at = "answered" => Len(query'.page) = PageLimit
    BY <1>5, <1>8, <1>9
  <1>12. PageIsSound'
    BY <1>1, <1>5, <1>7, <1>8 DEF PageIsSound, QueryInv
  <1>13. QueryTypeOK'
    BY <1>1, <1>8 DEF QueryInv, QueryTypeOK, Rows
  <1> QED
    BY <1>1, <1>8, <1>9, <1>10, <1>11, <1>12, <1>13 DEF QueryInv

LEMMA FillsKeeps == ASSUME QueryInv, Fills, account PROVE QueryInv'
  <1> DEFINE rest == Ascending(listed \ Values(query.page))
             whole == query.page \o rest
             page == FirstOf(whole, PageLimit)
  <1>1. query \in Rows /\ query.at \in {"authorized", "unavailable"} /\ UNCHANGED <<listed, account>>
    BY QueryRow DEF QueryInv, Fills
  <1>2. query.page \in Seq(Matching) /\ Distinct(query.page) /\ Len(query.page) <= PageLimit /\ PageLimit \in Nat
    BY QueryConstants DEF QueryInv, PageIsSound
  <1>3. /\ rest \in Seq(Matching) /\ Distinct(rest)
        /\ Values(rest) = listed \ Values(query.page)
    <2> DEFINE others == listed \ Values(query.page)
    <2>1. others \in SUBSET Nat /\ IsFiniteSet(others) /\ others \subseteq Matching
      BY QueryConstants, FS_Subset DEF QueryInv, QueryTypeOK
    <2> HIDE DEF others
    <2>2. /\ Cardinality(others) \in Nat
          /\ Ascending(others) \in [1 .. Cardinality(others) -> others]
          /\ \A i \in others : \E n \in 1 .. Cardinality(others) : Ascending(others)[n] = i
          /\ Distinct(Ascending(others))
      BY <2>1, AscendingStands
    <2>3. Ascending(others) \in Seq(Matching)
      <3>1. Ascending(others) \in [1 .. Cardinality(others) -> Matching]
        BY <2>1, <2>2
      <3> QED
        BY <2>2, <3>1, ListOf
    <2>4. Values(Ascending(others)) = others
      BY <2>2 DEF Values
    <2> QED
      BY <2>2, <2>3, <2>4 DEF others
  <1> HIDE DEF rest
  <1>4. /\ whole \in Seq(Matching) /\ Values(whole) = Values(query.page) \cup Values(rest)
        /\ Distinct(whole)
    BY <1>2, <1>3, JoinStands
  <1> HIDE DEF whole
  <1>5. Len(whole) \in Nat
    BY <1>4
  <1>7. /\ page \in Seq(Matching) /\ Distinct(page) /\ Values(page) \subseteq Values(whole)
        /\ Len(page) = IF Len(whole) < PageLimit THEN Len(whole) ELSE PageLimit
        /\ Len(whole) <= PageLimit => page = whole
    BY <1>2, <1>4, FirstOfStands
  <1> HIDE DEF page
  <1>8. page \in ListsUpTo(PageLimit) /\ Len(page) <= PageLimit
    BY <1>2, <1>5, <1>7, ShortLists
  <1>9. query' = [query EXCEPT !.at = "answered", !.page = page,
                               !.degraded = query.degraded \/ query.at = "unavailable" \/ rest # <<>>]
    BY DEF Fills, Rest, page, whole, rest
  <1>10. /\ query' \in Rows /\ query'.page = page /\ query'.hits = query.hits /\ query'.at = "answered"
         /\ query'.always = query.always /\ query'.ever = query.ever
    BY <1>1, <1>8, <1>9 DEF Rows
  <1>11. query'.degraded = (query.degraded \/ query.at = "unavailable" \/ rest # <<>>)
    BY <1>1, <1>9 DEF Rows
  <1>12. query'.degraded \/ query'.page = FirstOf(Unique(query'.hits), PageLimit)
    <2> SUFFICES ASSUME ~ query'.degraded PROVE page = FirstOf(Unique(query.hits), PageLimit)
      BY <1>10
    <2>1. rest = <<>> /\ query.page = FirstOf(Unique(query.hits), PageLimit)
      BY <1>1, <1>11 DEF QueryInv
    <2>2. whole = query.page
      BY <1>2, <2>1 DEF whole
    <2> QED
      BY <1>2, <1>7, <2>1, <2>2
  <1>13. query'.always \subseteq Values(query'.page) \/ Len(query'.page) = PageLimit
    <2>1. query.always \subseteq listed
      BY <1>1 DEF QueryInv
    <2>2. CASE Len(whole) <= PageLimit
      <3>1. listed \subseteq Values(page)
        BY <1>3, <1>4, <1>7, <2>2
      <3> QED
        BY <1>10, <2>1, <3>1
    <2>3. CASE ~ (Len(whole) <= PageLimit)
      BY <1>2, <1>5, <1>7, <1>10, <2>3
    <2> QED
      BY <2>2, <2>3
  <1>14. PageIsSound'
    <2>1. Values(page) \subseteq query.ever
      BY <1>1, <1>3, <1>4, <1>7 DEF QueryInv, PageIsSound
    <2> QED
      BY <1>7, <1>8, <1>10, <2>1 DEF PageIsSound
  <1>15. QueryTypeOK'
    BY <1>1, <1>10 DEF QueryInv, QueryTypeOK, Rows
  <1> QED
    BY <1>1, <1>10, <1>12, <1>13, <1>14, <1>15 DEF QueryInv

LEMMA QueryInvNext == QueryInv /\ [QueryNext]_queryVars => QueryInv'
  <1> SUFFICES ASSUME QueryInv, [QueryNext]_queryVars PROVE QueryInv'
    OBVIOUS
  <1>0. query \in Rows /\ <<>> \in HitLists /\ <<>> \in ListsUpTo(PageLimit)
    <2>1. <<>> \in Seq(Matching) /\ Len(<<>>) = 0 /\ 0 <= PageLimit /\ 0 <= CandidateLimit
      BY QueryConstants
    <2> QED
      BY <2>1, QueryRow, ShortLists, QueryConstants DEF QueryInv, HitLists
  <1>1. ASSUME NEW i \in Matching, Toggle(i) PROVE QueryInv'
    BY <1>1, ToggleKeeps
  <1>2. CASE AccountChanges
    BY <1>2 DEF AccountChanges, QueryInv, QueryTypeOK, PageIsSound
  <1>3. CASE Proposes
    <2>1. listed \subseteq Matching
      BY DEF QueryInv, QueryTypeOK
    <2>2. /\ query' \in Rows /\ query'.at \in {"hits", "unavailable"} /\ query'.page = <<>> /\ ~ query'.degraded
          /\ query'.always = listed /\ query'.ever = listed /\ UNCHANGED <<listed, account>>
      BY <1>0, <1>3, <2>1 DEF Proposes, NoQuery, Rows
    <2> QED
      BY <2>2, NoPageKeeps
  <1>4. CASE Authorizes
    <2>1. CASE account
      BY <1>4, <2>1, AuthorizesKeeps
    <2>2. CASE ~ account
      BY <1>4, <2>2, EndsWithout DEF Authorizes
    <2> QED
      BY <2>1, <2>2
  <1>5. CASE Fills
    <2>1. CASE account
      BY <1>5, <2>1, FillsKeeps
    <2>2. CASE ~ account
      BY <1>5, <2>2, EndsWithout DEF Fills
    <2> QED
      BY <2>1, <2>2
  <1>6. CASE Fails
    BY <1>6, EndsWithout DEF Fails
  <1>7. CASE Answered
    <2>1. query' \in Rows /\ query'.at = "idle" /\ query'.page = <<>> /\ ~ query'.degraded /\ UNCHANGED <<listed, account>>
      BY <1>0, <1>7 DEF Answered, NoQuery, Rows
    <2> QED
      BY <2>1, NoPageKeeps
  <1>8. CASE UNCHANGED queryVars
    BY <1>8 DEF queryVars, QueryInv, QueryTypeOK, PageIsSound
  <1> QED
    BY <1>1, <1>2, <1>3, <1>4, <1>5, <1>6, <1>7, <1>8 DEF QueryNext

\* For any items, limits and hits, and whatever changes between the sessions: every page has
\* each item once, only such as were on line, and all that were on line throughout or as many
\* as fit; one that is not called degraded is what was proposed.
THEOREM PagesStand == QuerySpec => []PageStands
  <1>1. ASSUME QueryInv PROVE PageStands
    <2>1. query.page \in Seq(Matching) /\ Distinct(query.page) /\ Values(query.page) \subseteq query.ever
      BY <1>1 DEF QueryInv, PageIsSound
    <2>2. Cardinality(Values(query.page)) = Len(query.page)
      BY <2>1, DistinctCount
    <2> QED
      BY <1>1, <2>1, <2>2 DEF QueryInv, PageStands
  <1> QED
    BY <1>1, QueryInvInit, QueryInvNext, PTL DEF QuerySpec

-----------------------------------------------------------------------------
(* Functions defined step by step                                          *)

\* Induction over a set: that of the numbers for which a thing holds
LEMMA ByInduction ==
    ASSUME NEW S, 0 \in S, \A n \in Nat : n \in S => n + 1 \in S
    PROVE  \A n \in Nat : n \in S
  <1> DEFINE Others == {n \in Nat : n \notin S}
  <1>1. Others = {}
    <2> SUFFICES ASSUME Others # {} PROVE FALSE
      OBVIOUS
    <2>1. Others \subseteq Nat
      OBVIOUS
    <2> HIDE DEF Others
    <2>2. PICK n \in Others : \A m \in Others : ~ (<<m, n>> \in OpToRel(<, Nat))
      BY <2>1, NatLessThanWellFounded, WFMin
    <2>3. \A m \in Others : ~ (m < n)
      BY <2>1, <2>2 DEF OpToRel
    <2>4. n \in Nat /\ n \notin S
      BY DEF Others
    <2>5. n # 0
      BY <2>4
    <2>6. n - 1 \in Nat /\ (n - 1) + 1 = n /\ n - 1 < n
      BY <2>4, <2>5
    <2>7. n - 1 \in S
      BY <2>3, <2>6 DEF Others
    <2> QED
      BY <2>4, <2>6, <2>7
  <1> QED
    BY <1>1

\* The same, up to N
LEMMA ByInductionUpTo ==
    ASSUME NEW N \in Nat, NEW S, 0 \in S, \A n \in 1 .. N : n - 1 \in S => n \in S
    PROVE  \A n \in 0 .. N : n \in S
  <1> DEFINE T == {n \in Nat : n <= N => n \in S}
  <1>1. 0 \in T
    OBVIOUS
  <1>2. ASSUME NEW n \in Nat, n \in T, n + 1 <= N PROVE n + 1 \in S
    <2>1. n <= N /\ n + 1 \in 1 .. N /\ (n + 1) - 1 = n
      BY <1>2
    <2>2. n \in S
      BY <1>2, <2>1
    <2> QED
      BY <2>1, <2>2
  <1>3. \A n \in Nat : n \in T => n + 1 \in T
    BY <1>2
  <1>4. \A n \in Nat : n \in T
    <2> HIDE DEF T
    <2> QED
      BY <1>1, <1>3, ByInduction
  <1> QED
    BY <1>4

\* A function whose value at n is made from the one at n - 1
IsStepwise(f, N, a, step) == f = [n \in 0 .. N |-> IF n = 0 THEN a ELSE step[<<n, f[n - 1]>>]]

\* There is one, with values in the sets that the steps lead to.
LEMMA StepByStep ==
    ASSUME NEW N \in Nat, NEW A, NEW a \in A[0], NEW step, \A n \in 1 .. N : \A x \in A[n - 1] : step[<<n, x>>] \in A[n]
    PROVE  \E f : IsStepwise(f, N, a, step) /\ \A n \in 0 .. N : f[n] \in A[n]
  <1> DEFINE Value(f, n) == IF n = 0 THEN a ELSE step[<<n, f[n - 1]>>]
             Is(f, n) == f = [k \in 0 .. n |-> f[k]] /\ \A k \in 0 .. n : f[k] = Value(f, k) /\ f[k] \in A[k]
             S == {n \in 0 .. N : \E f : Is(f, n)}
  <1>1. 0 \in S
    <2> DEFINE f == [k \in 0 .. 0 |-> a]
    <2>1. Is(f, 0)
      OBVIOUS
    <2> HIDE DEF f, Is
    <2>2. \E g : Is(g, 0)
      BY <2>1
    <2> QED
      BY <2>2
  <1>2. ASSUME NEW n \in 1 .. N, n - 1 \in S PROVE n \in S
    <2>1. PICK g : Is(g, n - 1)
      BY <1>2
    <2> DEFINE f == [k \in 0 .. n |-> IF k = n THEN step[<<n, g[n - 1]>>] ELSE g[k]]
    <2>2. step[<<n, g[n - 1]>>] \in A[n]
      <3>1. n - 1 \in 0 .. n - 1
        OBVIOUS
      <3>2. g[n - 1] \in A[n - 1]
        BY <2>1, <3>1
      <3> QED
        BY <3>2
    <2>3. \A k \in 0 .. n - 1 : f[k] = g[k]
      OBVIOUS
    <2>4. f = [k \in 0 .. n |-> f[k]]
      OBVIOUS
    <2>5. ASSUME NEW k \in 0 .. n PROVE f[k] = Value(f, k) /\ f[k] \in A[k]
      <3>1. CASE k = n
        <4>1. k # 0 /\ n - 1 \in 0 .. n - 1
          BY <3>1
        <4>2. f[k] = step[<<n, g[n - 1]>>] /\ f[n - 1] = g[n - 1]
          BY <2>3, <3>1, <4>1
        <4> HIDE DEF f
        <4> QED
          BY <2>2, <3>1, <4>1, <4>2
      <3>2. CASE k # n
        <4>1. k \in 0 .. n - 1 /\ (k # 0 => k - 1 \in 0 .. n - 1)
          BY <3>2
        <4>2. f[k] = g[k] /\ (k # 0 => f[k - 1] = g[k - 1])
          BY <2>3, <4>1
        <4>3. g[k] = Value(g, k) /\ g[k] \in A[k]
          BY <2>1, <4>1
        <4> HIDE DEF f
        <4> QED
          BY <4>2, <4>3
      <3> QED
        BY <3>1, <3>2
    <2> HIDE DEF f, Value
    <2>6. Is(f, n)
      BY <2>4, <2>5
    <2> HIDE DEF Is
    <2> QED
      BY <2>6
  <1>3. N \in S
    <2> HIDE DEF S
    <2> QED
      BY <1>1, <1>2, ByInductionUpTo
  <1>4. PICK f : Is(f, N)
    BY <1>3
  <1>5. f = [n \in 0 .. N |-> Value(f, n)]
    BY <1>4
  <1> QED
    BY <1>4, <1>5 DEF IsStepwise

\* The first in a strict order of a finite set
LEMMA FirstInOrder ==
    ASSUME NEW S, IsFiniteSet(S), S # {}, NEW R, StrictlyOrders(R, S)
    PROVE  \E i \in S : \A j \in S \ {i} : <<i, j>> \in R
  <1> DEFINE n == Cardinality(S)
             s == Sorted(S, R)
  <1>1. /\ n \in Nat
        /\ s \in [1 .. n -> S]
        /\ \A i \in S : \E k \in 1 .. n : s[k] = i
        /\ \A k, l \in 1 .. n : k < l => <<s[k], s[l]>> \in R
    BY SortedStands
  <1> HIDE DEF n, s
  <1>2. 1 \in 1 .. n
    BY <1>1
  <1>3. ASSUME NEW j \in S, j # s[1] PROVE <<s[1], j>> \in R
    <2>1. PICK k \in 1 .. n : s[k] = j
      BY <1>1
    <2>2. 1 < k
      BY <1>3, <2>1
    <2> QED
      BY <1>1, <1>2, <2>1, <2>2
  <1>4. s[1] \in S
    BY <1>1, <1>2
  <1> QED
    BY <1>3, <1>4

\* Highest and Lowest of finitely many numbers
LEMMA Extremes ==
    ASSUME NEW S \in SUBSET Int, IsFiniteSet(S), S # {}
    PROVE  /\ Highest(S) \in S /\ \A n \in S : Highest(S) >= n
           /\ Lowest(S) \in S /\ \A n \in S : Lowest(S) <= n
  <1>1. \E i \in S : \A j \in S : i >= j
    <2> DEFINE R == {p \in S \X S : p[1] > p[2]}
    <2>1. \A i, j \in S : <<i, j>> \in R <=> i > j
      OBVIOUS
    <2> HIDE DEF R
    <2>2. StrictlyOrders(R, S)
      BY <2>1 DEF StrictlyOrders
    <2>3. PICK i \in S : \A j \in S \ {i} : <<i, j>> \in R
      BY <2>2, FirstInOrder
    <2>4. ASSUME NEW j \in S PROVE i >= j
      <3>1. i \in Int /\ j \in Int
        OBVIOUS
      <3>2. i # j => i > j
        BY <2>1, <2>3
      <3> QED
        BY <3>1, <3>2
    <2> QED
      BY <2>4
  <1>2. \E i \in S : \A j \in S : i <= j
    <2> DEFINE R == {p \in S \X S : p[1] < p[2]}
    <2>1. \A i, j \in S : <<i, j>> \in R <=> i < j
      OBVIOUS
    <2> HIDE DEF R
    <2>2. StrictlyOrders(R, S)
      BY <2>1 DEF StrictlyOrders
    <2>3. PICK i \in S : \A j \in S \ {i} : <<i, j>> \in R
      BY <2>2, FirstInOrder
    <2>4. ASSUME NEW j \in S PROVE i <= j
      <3>1. i \in Int /\ j \in Int
        OBVIOUS
      <3>2. i # j => i < j
        BY <2>1, <2>3
      <3> QED
        BY <3>1, <3>2
    <2> QED
      BY <2>4
  <1> QED
    BY <1>1, <1>2 DEF Highest, Lowest

\* The rank of a value is the one position where it stands.
LEMMA RankStands ==
    ASSUME NEW X, NEW list \in Seq(X), Distinct(list)
    PROVE  /\ \A n \in DOMAIN list : Rank(list, list[n]) = n
           /\ \A i \in Values(list) : Rank(list, i) \in DOMAIN list /\ list[Rank(list, i)] = i
  <1>1. ASSUME NEW i \in Values(list) PROVE Rank(list, i) \in DOMAIN list /\ list[Rank(list, i)] = i
    <2>1. \E n \in DOMAIN list : list[n] = i
      BY DEF Values
    <2> QED
      BY <2>1 DEF Rank
  <1>2. ASSUME NEW n \in DOMAIN list PROVE Rank(list, list[n]) = n
    <2>1. list[n] \in Values(list)
      BY DEF Values
    <2> QED
      BY <1>1, <2>1 DEF Distinct
  <1> QED
    BY <1>1, <1>2

\* A set in a strict order of it, as a list
LEMMA OrderedList ==
    ASSUME NEW S, IsFiniteSet(S), NEW R, StrictlyOrders(R, S)
    PROVE  /\ Sorted(S, R) \in Seq(S) /\ Distinct(Sorted(S, R))
           /\ DOMAIN Sorted(S, R) = 1 .. Cardinality(S)
           /\ Len(Sorted(S, R)) = Cardinality(S) /\ Cardinality(S) \in Nat
           /\ Values(Sorted(S, R)) = S
           /\ \A m, n \in DOMAIN Sorted(S, R) : m < n => <<Sorted(S, R)[m], Sorted(S, R)[n]>> \in R
  <1> DEFINE n == Cardinality(S)
             s == Sorted(S, R)
  <1>1. /\ n \in Nat
        /\ s \in [1 .. n -> S]
        /\ \A i \in S : \E k \in 1 .. n : s[k] = i
        /\ \A k, l \in 1 .. n : k < l => <<s[k], s[l]>> \in R
        /\ Distinct(s)
    BY SortedStands
  <1> HIDE DEF n, s
  <1>2. s \in Seq(S) /\ Len(s) = n /\ DOMAIN s = 1 .. n
    BY <1>1, ListOf
  <1>3. Values(s) = S
    BY <1>1, <1>2 DEF Values
  <1> QED
    BY <1>1, <1>2, <1>3 DEF n, s

\* What comes before in the order comes before in the list.
LEMMA RankInOrder ==
    ASSUME NEW S, IsFiniteSet(S), NEW R, StrictlyOrders(R, S), NEW i \in S, NEW j \in S, <<i, j>> \in R
    PROVE  Rank(Sorted(S, R), i) < Rank(Sorted(S, R), j)
  <1> DEFINE list == Sorted(S, R)
             m == Rank(list, i)
             n == Rank(list, j)
  <1>1. /\ list \in Seq(S) /\ Distinct(list) /\ Values(list) = S
        /\ \A k, l \in DOMAIN list : k < l => <<list[k], list[l]>> \in R
    BY OrderedList
  <1> HIDE DEF list
  <1>2. m \in DOMAIN list /\ list[m] = i /\ n \in DOMAIN list /\ list[n] = j
    BY <1>1, RankStands
  <1>3. m \in Nat /\ n \in Nat
    BY <1>1, <1>2
  <1> HIDE DEF m, n
  <1>4. ~ (n < m) /\ m # n
    BY <1>1, <1>2 DEF StrictlyOrders
  <1> QED
    BY <1>3, <1>4 DEF list, m, n

\* Scores of some items
IsScore(score) == DOMAIN score \subseteq Stock /\ score \in [DOMAIN score -> Int]

\* What is left of a score when it is scaled by the highest
LEMMA Divided ==
    ASSUME NEW a \in Nat, NEW h \in Nat \ {0}, a <= h
    PROVE  /\ (Unit * a) \div h \in Int /\ (Unit * a) \div h >= 0 /\ (Unit * a) \div h <= Unit
           /\ (Unit * a) \div h = Unit <=> a = h
  <1> DEFINE q == (40 * a) \div h
  <1>1. q \in Int /\ h * q <= 40 * a /\ 40 * a < h * q + h
    OBVIOUS
  <1> HIDE DEF q
  <1>2. q >= 0
    <2>1. q + 1 > 0
      <3> SUFFICES ASSUME q + 1 <= 0 PROVE FALSE
        BY <1>1
      <3>1. h * (q + 1) <= 0
        BY <1>1
      <3>2. h * (q + 1) = h * q + h
        BY <1>1
      <3> QED
        BY <1>1, <3>1, <3>2
    <2> QED
      BY <1>1, <2>1
  <1>3. q <= 40
    <2> SUFFICES ASSUME q >= 41 PROVE FALSE
      BY <1>1
    <2>1. h * q >= h * 41
      BY <1>1
    <2> QED
      BY <1>1, <2>1
  <1>4. a = h => q = 40
    <2> SUFFICES ASSUME a = h, q <= 39 PROVE FALSE
      BY <1>1, <1>3
    <2>1. h * q <= h * 39
      BY <1>1
    <2> QED
      BY <1>1, <2>1
  <1>5. q = 40 => a = h
    BY <1>1
  <1> QED
    BY <1>1, <1>2, <1>3, <1>4, <1>5 DEF q, Unit

\* A normalized score is between 0 and Unit, which is that of the best.
LEMMA NormalizedStands ==
    ASSUME NEW score, IsScore(score), NEW i \in DOMAIN score
    PROVE  /\ DOMAIN Normalized(score) = DOMAIN score
           /\ Normalized(score)[i] \in Int /\ Normalized(score)[i] <= Unit
           /\ Normalized(score)[i] = Unit <=> \A j \in DOMAIN score : score[i] >= score[j]
  <1> DEFINE values == {score[j] : j \in DOMAIN score}
             low == Lowest(values)
             high == Highest(values)
  <1>1. values \in SUBSET Int /\ values # {}
    BY DEF IsScore
  <1>2. IsFiniteSet(values)
    <2>1. IsFiniteSet(DOMAIN score)
      BY RankingConstants, FS_Subset DEF IsScore
    <2>2. score \in Surjection(DOMAIN score, values)
      BY DEF Surjection, IsScore
    <2> HIDE DEF values
    <2> QED
      BY <2>1, <2>2, FS_Surjection
  <1>3. /\ low \in values /\ \A n \in values : low <= n
        /\ high \in values /\ \A n \in values : high >= n
    <2> HIDE DEF values
    <2> QED
      BY <1>1, <1>2, Extremes
  <1>4. /\ DOMAIN Normalized(score) = DOMAIN score
        /\ Normalized(score)[i] = IF high = low THEN Unit ELSE (Unit * (score[i] - low)) \div (high - low)
    BY DEF Normalized
  <1> HIDE DEF low, high
  <1>5. low \in Int /\ high \in Int /\ score[i] \in Int /\ low <= score[i] /\ score[i] <= high
    BY <1>1, <1>3 DEF IsScore
  <1>6. (\A j \in DOMAIN score : score[i] >= score[j]) <=> score[i] = high
    <2>1. (\A j \in DOMAIN score : score[i] >= score[j]) => score[i] >= high
      BY <1>3
    <2>2. score[i] = high => \A j \in DOMAIN score : score[i] >= score[j]
      BY <1>3
    <2> QED
      BY <1>5, <2>1, <2>2
  <1>7. CASE high = low
    <2>1. score[i] = high
      BY <1>5, <1>7
    <2>2. Normalized(score)[i] = Unit
      BY <1>4, <1>7
    <2>3. Unit \in Int /\ Unit <= Unit
      BY DEF Unit
    <2> QED
      BY <1>4, <1>6, <2>1, <2>2, <2>3
  <1>8. CASE high # low
    <2> DEFINE a == score[i] - low
               h == high - low
    <2>1. a \in Nat /\ h \in Nat \ {0} /\ a <= h /\ (a = h <=> score[i] = high)
      BY <1>5, <1>8
    <2>2. Normalized(score)[i] = (Unit * a) \div h
      BY <1>4, <1>8
    <2> HIDE DEF a, h
    <2>3. /\ (Unit * a) \div h \in Int /\ (Unit * a) \div h <= Unit
          /\ (Unit * a) \div h = Unit <=> a = h
      BY <2>1, Divided
    <2> QED
      BY <1>4, <1>6, <2>1, <2>2, <2>3
  <1> QED
    BY <1>7, <1>8

-----------------------------------------------------------------------------
(* The merged recall *)

IsRecall(recall) == DOMAIN recall \subseteq RecallSources /\ \A s \in DOMAIN recall : IsScore(recall[s])

FoundIn(recall) == UNION {DOMAIN recall[s] : s \in DOMAIN recall}
SourcesOf(recall, i) == {s \in DOMAIN recall : i \in DOMAIN recall[s]}
Norms(recall) == [s \in DOMAIN recall |-> Normalized(recall[s])]
Leads(recall, i) ==
    \E s \in DOMAIN recall : i \in DOMAIN recall[s] /\ \A j \in DOMAIN recall[s] : recall[s][i] >= recall[s][j]

Better(recall, i, s, t) ==
    \/ Norms(recall)[s][i] > Norms(recall)[t][i]
    \/ Norms(recall)[s][i] = Norms(recall)[t][i] /\ recall[s][i] > recall[t][i]
    \/ Norms(recall)[s][i] = Norms(recall)[t][i] /\ recall[s][i] = recall[t][i] /\ SourceRank(s) < SourceRank(t)

MainOf(recall, i) ==
    CHOOSE s \in SourcesOf(recall, i) : \A t \in SourcesOf(recall, i) \ {s} : Better(recall, i, s, t)

MergedScore(recall) ==
    [i \in FoundIn(recall) |->
        Lowest({Unit, Norms(recall)[MainOf(recall, i)][i] + (Unit \div 20) * (Cardinality(SourcesOf(recall, i)) - 1)})]

Over(recall, i, j) ==
    \/ MergedScore(recall)[i] > MergedScore(recall)[j]
    \/ MergedScore(recall)[i] = MergedScore(recall)[j]
          /\ recall[MainOf(recall, i)][i] > recall[MainOf(recall, j)][j]
    \/ MergedScore(recall)[i] = MergedScore(recall)[j]
          /\ recall[MainOf(recall, i)][i] = recall[MainOf(recall, j)][j] /\ i < j

MergedBy(recall) == {p \in FoundIn(recall) \X FoundIn(recall) : Over(recall, p[1], p[2])}

\* Merge, by the names above
LEMMA MergeIs ==
    ASSUME NEW recall
    PROVE  /\ Merge(recall).score = MergedScore(recall)
           /\ Merge(recall).order = Sorted(FoundIn(recall), MergedBy(recall))
  <1> DEFINE F == FoundIn(recall)
             R == MergedBy(recall)
  <1>1. /\ Merge(recall).score = MergedScore(recall)
        /\ Merge(recall).order =
              [n \in 1 .. Cardinality(F) |-> CHOOSE i \in F : Cardinality({j \in F : Over(recall, j, i)}) = n - 1]
    BY DEF Merge, MergedScore, FoundIn, SourcesOf, Norms, Better, MainOf, Over, InOrder
  <1>2. \A i \in F : {j \in F : Over(recall, j, i)} = {j \in F : <<j, i>> \in R}
    BY DEF MergedBy
  <1>3. ASSUME NEW n \in 1 .. Cardinality(F)
        PROVE  (CHOOSE i \in F : Cardinality({j \in F : Over(recall, j, i)}) = n - 1)
                  = (CHOOSE i \in F : Cardinality({j \in F : <<j, i>> \in R}) = n - 1)
    BY <1>2
  <1> QED
    BY <1>1, <1>3 DEF Sorted

LEMMA SourcesAreFinite == IsFiniteSet(RecallSources)
  <1>1. IsFiniteSet({"dssm", "explore", "item_item_cf", "popular", "profile_title"})
    <2>1. IsFiniteSet({"dssm"})
      BY FS_Singleton
    <2>2. IsFiniteSet({"dssm"} \cup {"explore"})
      BY <2>1, FS_AddElement
    <2>3. IsFiniteSet({"dssm"} \cup {"explore"} \cup {"item_item_cf"})
      BY <2>2, FS_AddElement
    <2>4. IsFiniteSet({"dssm"} \cup {"explore"} \cup {"item_item_cf"} \cup {"popular"})
      BY <2>3, FS_AddElement
    <2>5. IsFiniteSet({"dssm"} \cup {"explore"} \cup {"item_item_cf"} \cup {"popular"} \cup {"profile_title"})
      BY <2>4, FS_AddElement
    <2>6. {"dssm"} \cup {"explore"} \cup {"item_item_cf"} \cup {"popular"} \cup {"profile_title"}
            = {"dssm", "explore", "item_item_cf", "popular", "profile_title"}
      OBVIOUS
    <2> QED
      BY <2>5, <2>6
  <1> QED
    BY <1>1 DEF RecallSources

\* Of the sources of an item one gives it its score, and no other gives it more.
LEMMA MainStands ==
    ASSUME NEW recall, IsRecall(recall), NEW i \in FoundIn(recall)
    PROVE  /\ Cardinality(SourcesOf(recall, i)) \in Nat \ {0}
           /\ MainOf(recall, i) \in SourcesOf(recall, i)
           /\ \A t \in SourcesOf(recall, i) :
                 /\ Norms(recall)[t][i] \in Int /\ Norms(recall)[t][i] <= Unit
                 /\ Norms(recall)[t][i] = Unit <=> \A j \in DOMAIN recall[t] : recall[t][i] >= recall[t][j]
                 /\ Norms(recall)[MainOf(recall, i)][i] >= Norms(recall)[t][i]
                 /\ recall[t][i] \in Int
  <1> DEFINE of == SourcesOf(recall, i)
             R == {p \in of \X of : Better(recall, i, p[1], p[2])}
  <1>1. of # {}
    BY DEF SourcesOf, FoundIn
  <1>2. IsFiniteSet(of)
    BY SourcesAreFinite, FS_Subset DEF SourcesOf, IsRecall
  <1>3. ASSUME NEW t \in of
        PROVE  /\ Norms(recall)[t][i] \in Int /\ Norms(recall)[t][i] <= Unit
               /\ Norms(recall)[t][i] = Unit <=> \A j \in DOMAIN recall[t] : recall[t][i] >= recall[t][j]
               /\ recall[t][i] \in Int /\ t \in RecallSources
    <2>1. t \in DOMAIN recall /\ i \in DOMAIN recall[t] /\ IsScore(recall[t]) /\ t \in RecallSources
      BY DEF SourcesOf, IsRecall
    <2>2. Norms(recall)[t] = Normalized(recall[t])
      BY <2>1 DEF Norms
    <2>3. recall[t][i] \in Int
      BY <2>1 DEF IsScore
    <2> QED
      BY <2>1, <2>2, <2>3, NormalizedStands
  <1>4. \A s \in RecallSources : SourceRank(s) \in Int
    BY DEF RecallSources, SourceRank
  <1>5. \A s, t \in RecallSources : s # t => SourceRank(s) # SourceRank(t)
    BY DEF RecallSources, SourceRank
  <1>6. \A s, t \in of : <<s, t>> \in R <=> Better(recall, i, s, t)
    OBVIOUS
  <1> HIDE DEF of, R
  <1>7. StrictlyOrders(R, of)
    <2>1. \A s \in of : ~ Better(recall, i, s, s)
      BY <1>3, <1>4 DEF Better
    <2>2. \A s, t \in of : s # t => Better(recall, i, s, t) \/ Better(recall, i, t, s)
      BY <1>3, <1>4, <1>5 DEF Better
    <2>3. \A s, t, u \in of : Better(recall, i, s, t) /\ Better(recall, i, t, u) => Better(recall, i, s, u)
      BY <1>3, <1>4 DEF Better
    <2> QED
      BY <1>6, <2>1, <2>2, <2>3 DEF StrictlyOrders
  <1>8. \E s \in of : \A t \in of \ {s} : Better(recall, i, s, t)
    <2>1. \E s \in of : \A t \in of \ {s} : <<s, t>> \in R
      BY <1>1, <1>2, <1>7, FirstInOrder
    <2> QED
      BY <1>6, <2>1
  <1>9. MainOf(recall, i) \in of /\ \A t \in of \ {MainOf(recall, i)} : Better(recall, i, MainOf(recall, i), t)
    BY <1>8 DEF MainOf, of
  <1>10. \A t \in of : Norms(recall)[MainOf(recall, i)][i] >= Norms(recall)[t][i]
    <2> TAKE t \in of
    <2>1. Norms(recall)[MainOf(recall, i)][i] \in Int /\ Norms(recall)[t][i] \in Int
      BY <1>3, <1>9
    <2>2. t # MainOf(recall, i) => Better(recall, i, MainOf(recall, i), t)
      BY <1>9
    <2> QED
      BY <2>1, <2>2 DEF Better
  <1>11. Cardinality(of) \in Nat \ {0}
    BY <1>1, <1>2, FS_CardinalityType, FS_EmptySet
  <1> QED
    BY <1>3, <1>9, <1>10, <1>11 DEF of

\* The score of what leads a source is the highest there is, and only a second source lifts
\* others to it.
LEMMA MergedScores ==
    ASSUME NEW recall, IsRecall(recall), NEW i \in FoundIn(recall)
    PROVE  /\ MergedScore(recall)[i] \in Int /\ MergedScore(recall)[i] <= Unit
           /\ Leads(recall, i) => MergedScore(recall)[i] = Unit
           /\ ~ Leads(recall, i) /\ Cardinality(SourcesOf(recall, i)) = 1 => MergedScore(recall)[i] < Unit
  <1> DEFINE of == SourcesOf(recall, i)
             norm == Norms(recall)[MainOf(recall, i)][i]
             extra == (Unit \div 20) * (Cardinality(of) - 1)
             S == {Unit, norm + extra}
  <1>1. Cardinality(of) \in Nat \ {0} /\ MainOf(recall, i) \in of /\ norm \in Int /\ norm <= Unit
    BY MainStands
  <1>2. extra \in Int /\ extra >= 0 /\ (Cardinality(of) = 1 => extra = 0)
    <2> HIDE DEF of
    <2> QED
      BY <1>1 DEF Unit
  <1>3. MergedScore(recall)[i] = Lowest(S)
    BY DEF MergedScore
  <1> HIDE DEF norm, extra
  <1>4. Lowest(S) \in S /\ \A n \in S : Lowest(S) <= n
    <2>1. S \in SUBSET Int /\ S # {}
      BY <1>1, <1>2 DEF Unit
    <2>2. IsFiniteSet(S)
      <3>1. IsFiniteSet({Unit} \cup {norm + extra})
        BY FS_Singleton, FS_AddElement
      <3> QED
        BY <3>1
    <2> HIDE DEF S
    <2> QED
      BY <2>1, <2>2, Extremes
  <1>5. Leads(recall, i) => norm = Unit
    <2> SUFFICES ASSUME Leads(recall, i) PROVE norm = Unit
      OBVIOUS
    <2>1. PICK s \in DOMAIN recall : i \in DOMAIN recall[s] /\ \A j \in DOMAIN recall[s] : recall[s][i] >= recall[s][j]
      BY DEF Leads
    <2>2. s \in SourcesOf(recall, i)
      BY <2>1 DEF SourcesOf
    <2>3. Norms(recall)[s][i] = Unit /\ norm >= Norms(recall)[s][i]
      BY <2>1, <2>2, MainStands DEF norm
    <2> QED
      BY <1>1, <2>3 DEF Unit
  <1>6. ~ Leads(recall, i) => norm # Unit
    <2> SUFFICES ASSUME norm = Unit PROVE Leads(recall, i)
      OBVIOUS
    <2>1. MainOf(recall, i) \in DOMAIN recall /\ i \in DOMAIN recall[MainOf(recall, i)]
      BY <1>1 DEF SourcesOf
    <2>2. \A j \in DOMAIN recall[MainOf(recall, i)] : recall[MainOf(recall, i)][i] >= recall[MainOf(recall, i)][j]
      BY <1>1, MainStands DEF norm
    <2> QED
      BY <2>1, <2>2 DEF Leads
  <1> HIDE DEF of
  <1> QED
    BY <1>1, <1>2, <1>3, <1>4, <1>5, <1>6 DEF Unit, of

\* Merged items are never tied, the id decides at last.
LEMMA MergeOrders ==
    ASSUME NEW recall, IsRecall(recall)
    PROVE  IsFiniteSet(FoundIn(recall)) /\ FoundIn(recall) \subseteq Stock
           /\ StrictlyOrders(MergedBy(recall), FoundIn(recall))
  <1> DEFINE F == FoundIn(recall)
             R == MergedBy(recall)
             raw(i) == recall[MainOf(recall, i)][i]
             score(i) == MergedScore(recall)[i]
  <1>1. F \subseteq Stock /\ IsFiniteSet(F) /\ F \subseteq Nat
    <2>1. F \subseteq Stock
      BY DEF FoundIn, IsRecall, IsScore
    <2> QED
      BY <2>1, RankingConstants, FS_Subset
  <1>2. \A i \in F : score(i) \in Int /\ raw(i) \in Int
    BY MergedScores, MainStands
  <1>3. \A i, j \in F : <<i, j>> \in R <=>
           \/ score(i) > score(j)
           \/ score(i) = score(j) /\ raw(i) > raw(j)
           \/ score(i) = score(j) /\ raw(i) = raw(j) /\ i < j
    BY DEF MergedBy, Over
  <1> HIDE DEF F, R, raw, score
  <1>4. \A i \in F : <<i, i>> \notin R
    BY <1>1, <1>2, <1>3
  <1>5. \A i, j \in F : i # j => <<i, j>> \in R \/ <<j, i>> \in R
    BY <1>1, <1>2, <1>3
  <1>6. \A i, j, k \in F : <<i, j>> \in R /\ <<j, k>> \in R => <<i, k>> \in R
    BY <1>1, <1>2, <1>3
  <1> QED
    BY <1>1, <1>4, <1>5, <1>6 DEF StrictlyOrders, F, R

-----------------------------------------------------------------------------
(* The natural order *)

\* A list of items that have scores
IsRanking(list, score) ==
    list \in Seq(Stock) /\ Distinct(list) /\ Values(list) \subseteq DOMAIN score /\ score \in [DOMAIN score -> Int]

\* In a list without doubles no two items have the same rank.
LEMMA RankingFacts ==
    ASSUME NEW list, NEW score, IsRanking(list, score)
    PROVE  /\ Values(list) \subseteq Stock /\ IsFiniteSet(Values(list)) /\ Cardinality(Values(list)) = Len(list)
           /\ \A i \in Values(list) : score[i] \in Int /\ Rank(list, i) \in Nat
           /\ \A i, j \in Values(list) : i # j => Rank(list, i) # Rank(list, j)
  <1>1. list \in Seq(Stock) /\ Distinct(list)
    BY DEF IsRanking
  <1>2. Values(list) \subseteq Stock
    BY <1>1 DEF Values
  <1>3. IsFiniteSet(Values(list))
    BY <1>2, RankingConstants, FS_Subset
  <1>4. \A i \in Values(list) : Rank(list, i) \in DOMAIN list /\ list[Rank(list, i)] = i
    BY <1>1, RankStands
  <1>5. DOMAIN list \subseteq Nat
    BY <1>1
  <1> QED
    BY <1>1, <1>2, <1>3, <1>4, <1>5, DistinctCount DEF IsRanking

Descends(list, score) == \A m, n \in DOMAIN list : m < n => score[list[m]] >= score[list[n]]

\* Sorting by score neither loses nor doubles, and the scores descend.
LEMMA ByScoreStands ==
    ASSUME NEW list, NEW score, IsRanking(list, score)
    PROVE  /\ IsRanking(ByScore(list, score), score)
           /\ Values(ByScore(list, score)) = Values(list)
           /\ Descends(ByScore(list, score), score)
  <1> DEFINE V == Values(list)
             Above(i, j) == score[i] > score[j] \/ (score[i] = score[j] /\ Rank(list, i) < Rank(list, j))
             R == {p \in V \X V : Above(p[1], p[2])}
  <1>1. /\ V \subseteq Stock /\ IsFiniteSet(V)
        /\ \A i \in V : score[i] \in Int /\ Rank(list, i) \in Nat
        /\ \A i, j \in V : i # j => Rank(list, i) # Rank(list, j)
    BY RankingFacts
  <1>2. ByScore(list, score) = [n \in 1 .. Cardinality(V) |-> CHOOSE i \in V : Cardinality({j \in V : Above(j, i)}) = n - 1]
    BY DEF ByScore, InOrder
  <1>3. \A i \in V : {j \in V : Above(j, i)} = {j \in V : <<j, i>> \in R}
    OBVIOUS
  <1>4. ASSUME NEW n \in 1 .. Cardinality(V)
        PROVE  (CHOOSE i \in V : Cardinality({j \in V : Above(j, i)}) = n - 1)
                  = (CHOOSE i \in V : Cardinality({j \in V : <<j, i>> \in R}) = n - 1)
    BY <1>3
  <1>5. ByScore(list, score) = Sorted(V, R)
    BY <1>2, <1>4 DEF Sorted
  <1>6. \A i, j \in V : <<i, j>> \in R <=> Above(i, j)
    OBVIOUS
  <1> HIDE DEF R
  <1>7. StrictlyOrders(R, V)
    <2>1. \A i \in V : <<i, i>> \notin R
      BY <1>1, <1>6
    <2>2. \A i, j \in V : i # j => <<i, j>> \in R \/ <<j, i>> \in R
      BY <1>1, <1>6
    <2>3. \A i, j, k \in V : <<i, j>> \in R /\ <<j, k>> \in R => <<i, k>> \in R
      BY <1>1, <1>6
    <2> QED
      BY <2>1, <2>2, <2>3 DEF StrictlyOrders
  <1> DEFINE s == Sorted(V, R)
  <1>8. /\ s \in Seq(V) /\ Distinct(s) /\ Values(s) = V
        /\ \A m, n \in DOMAIN s : m < n => <<s[m], s[n]>> \in R
    BY <1>1, <1>7, OrderedList
  <1> HIDE DEF s, V
  <1>9. s \in Seq(Stock) /\ \A n \in DOMAIN s : s[n] \in V
    BY <1>1, <1>8
  <1>10. ASSUME NEW m \in DOMAIN s, NEW n \in DOMAIN s, m < n PROVE score[s[m]] >= score[s[n]]
    <2>1. s[m] \in V /\ s[n] \in V /\ <<s[m], s[n]>> \in R
      BY <1>8, <1>9, <1>10
    <2>2. Above(s[m], s[n]) /\ score[s[m]] \in Int /\ score[s[n]] \in Int
      BY <1>1, <1>6, <2>1
    <2> QED
      BY <2>2
  <1>11. V \subseteq DOMAIN score /\ score \in [DOMAIN score -> Int]
    BY DEF IsRanking, V
  <1> QED
    BY <1>5, <1>8, <1>9, <1>10, <1>11 DEF s, V, IsRanking, Descends

Peers(list, i) == {j \in Values(list) : Topic[j] = Topic[i]}
NoLower(list, score, i) == {j \in Peers(list, i) : score[j] >= score[i]}

\* Of a list by descending score, the first MaxPerTopic of each topic are kept.
LEMMA DeduplicateStands ==
    ASSUME NEW list, NEW score, IsRanking(list, score), Descends(list, score)
    PROVE  LET kept == TopicDeduplicate(list)
           IN /\ IsRanking(kept, score) /\ Values(kept) \subseteq Values(list)
              /\ \A i \in Values(list) : Cardinality(Peers(kept, i)) <= MaxPerTopic
              /\ \A i \in Values(list) \ Values(kept) :
                    Cardinality(NoLower(kept, score, i)) = MaxPerTopic
  <1> DEFINE counts(n) == Cardinality({m \in 1 .. n - 1 : Topic[list[m]] = Topic[list[n]]})
             K == {n \in DOMAIN list : counts(n) < MaxPerTopic}
             kept == TopicDeduplicate(list)
             peers(i) == Peers(kept, i)
  <1>1. /\ list \in Seq(Stock) /\ Distinct(list) /\ Values(list) \subseteq DOMAIN score
        /\ DOMAIN list = 1 .. Len(list) /\ Len(list) \in Nat /\ IsFiniteSet(DOMAIN list) /\ score \in [DOMAIN score -> Int]
    <2>1. list \in Seq(Stock) /\ Distinct(list) /\ Values(list) \subseteq DOMAIN score /\ score \in [DOMAIN score -> Int]
      BY DEF IsRanking
    <2>2. DOMAIN list = 1 .. Len(list) /\ Len(list) \in Nat
      BY <2>1
    <2>3. IsFiniteSet(1 .. Len(list))
      <3>1. 1 \in Int /\ Len(list) \in Int
        BY <2>2
      <3> QED
        BY <3>1, FS_Interval
    <2> QED
      BY <2>1, <2>2, <2>3
  <1>2. K \in SUBSET DOMAIN list /\ kept = At(list, K)
    BY DEF TopicDeduplicate
  <1>3. kept \in Seq(Stock) /\ Distinct(kept) /\ Values(kept) = {list[n] : n \in K}
    <2> HIDE DEF K
    <2>1. \A m, n \in K : m # n => list[m] # list[n]
      BY <1>1, <1>2 DEF Distinct
    <2> QED
      BY <1>1, <1>2, <2>1, AtStands
  <1>4. Values(kept) \subseteq Values(list)
    BY <1>2, <1>3 DEF Values
  <1>5. IsRanking(kept, score)
    BY <1>1, <1>3, <1>4 DEF IsRanking
  <1>6. ASSUME NEW n \in DOMAIN list
        PROVE  LET i == list[n] IN
               /\ Cardinality(peers(i)) \in Nat /\ Cardinality(peers(i)) <= MaxPerTopic
               /\ i \notin Values(kept) => Cardinality({j \in peers(i) : score[j] >= score[i]}) = MaxPerTopic
    <2> DEFINE Q == {m \in DOMAIN list : Topic[list[m]] = Topic[list[n]]}
               size == Cardinality(Q)
               a == Ascending(Q)
               most == IF size < MaxPerTopic THEN size ELSE MaxPerTopic
    <2>1. Q \in SUBSET Nat /\ IsFiniteSet(Q) /\ n \in Q /\ MaxPerTopic \in Nat \ {0}
      BY <1>1, FS_Subset, RankingConstants
    <2>2. /\ size \in Nat /\ a \in [1 .. size -> Q]
          /\ \A m \in Q : \E k \in 1 .. size : a[k] = m
          /\ \A k, l \in 1 .. size : k < l => a[k] < a[l]
          /\ \A k \in 1 .. size : Cardinality({m \in Q : m < a[k]}) = k - 1
      <3> HIDE DEF Q
      <3> QED
        BY <2>1, AscendingStands
    <2>3. \A m \in Q : counts(m) = Cardinality({l \in Q : l < m})
      <3> TAKE m \in Q
      <3>1. {l \in 1 .. m - 1 : Topic[list[l]] = Topic[list[m]]} = {l \in Q : l < m}
        <4>1. \A l \in Nat : l \in 1 .. m - 1 <=> l \in DOMAIN list /\ l < m
          BY <1>1
        <4>2. \A l : l \in 1 .. m - 1 => l \in Nat
          BY <1>1
        <4> QED
          BY <2>1, <4>1, <4>2
      <3> QED
        BY <3>1
    <2>4. \A k \in 1 .. size : a[k] \in Q /\ counts(a[k]) = k - 1
      BY <2>2, <2>3
    <2>5. \A k \in 1 .. size : a[k] \in K <=> k <= most
      <3> TAKE k \in 1 .. size
      <3>1. a[k] \in DOMAIN list /\ counts(a[k]) = k - 1
        BY <2>4
      <3>2. a[k] \in K <=> k - 1 < MaxPerTopic
        <4> HIDE DEF counts
        <4> QED
          BY <3>1
      <3> HIDE DEF K, Q, a, size
      <3> QED
        BY <2>1, <2>2, <3>2
    <2> HIDE DEF K, a
    <2> DEFINE P == peers(list[n])
               f == [k \in 1 .. most |-> list[a[k]]]
    <2>6. most \in Nat /\ most <= size /\ most <= MaxPerTopic
      <3> HIDE DEF size
      <3> QED
        BY <2>1, <2>2
    <2> HIDE DEF most
    <2>7. \A k \in 1 .. most : k \in 1 .. size /\ a[k] \in Q /\ a[k] \in K
      <3> HIDE DEF size, Q
      <3> QED
        BY <2>2, <2>5, <2>6
    <2>p. P = {j \in Values(kept) : Topic[j] = Topic[list[n]]}
      BY DEF Peers
    <2>8. \A k \in 1 .. most : f[k] \in P
      <3> TAKE k \in 1 .. most
      <3>1. f[k] = list[a[k]] /\ a[k] \in Q /\ a[k] \in K
        BY <2>7
      <3>2. list[a[k]] \in Values(kept) /\ Topic[list[a[k]]] = Topic[list[n]]
        BY <1>3, <3>1
      <3> QED
        BY <2>p, <3>1, <3>2
    <2>9. \A j \in P : \E k \in 1 .. most : f[k] = j
      <3> TAKE j \in P
      <3>0. j \in Values(kept) /\ Topic[j] = Topic[list[n]]
        BY <2>p
      <3>1. PICK m \in K : list[m] = j
        BY <1>3, <3>0
      <3>2. m \in Q
        BY <1>2, <3>0, <3>1
      <3>3. PICK k \in 1 .. size : a[k] = m
        BY <2>2, <3>2
      <3>4. k \in 1 .. most
        <4> HIDE DEF size
        <4> QED
          BY <2>2, <2>5, <2>6, <3>1, <3>3
      <3> QED
        BY <3>1, <3>3, <3>4
    <2>10. f \in Bijection(1 .. most, P)
      <3>1. f \in [1 .. most -> P]
        BY <2>8
      <3>2. \A k, l \in 1 .. most : k # l => f[k] # f[l]
        <4>1. \A k, l \in 1 .. most : k # l => a[k] # a[l]
          <5>1. \A k, l \in 1 .. most : k < l => a[k] # a[l]
            <6> HIDE DEF size
            <6>1. \A k \in 1 .. most : a[k] \in Nat
              BY <2>1, <2>7
            <6> HIDE DEF Q
            <6> QED
              BY <2>2, <2>7, <6>1
          <5>2. \A k, l \in 1 .. most : k # l => k < l \/ l < k
            BY <2>6
          <5> QED
            BY <5>1, <5>2
        <4>2. \A k \in 1 .. most : a[k] \in DOMAIN list
          BY <2>7
        <4> QED
          BY <1>1, <4>1, <4>2 DEF Distinct
      <3> HIDE DEF f, P
      <3> QED
        BY <2>9, <3>1, <3>2 DEF Bijection, Injection, IsInjective, Surjection
    <2>11. Cardinality(P) = most
      <3>1. IsFiniteSet(1 .. most) /\ Cardinality(1 .. most) = most
        <4>1. 1 \in Int /\ most \in Int /\ most >= 0
          BY <2>6
        <4> QED
          BY <4>1, FS_Interval
      <3> HIDE DEF f, P
      <3>2. IsFiniteSet(P) /\ Cardinality(P) = Cardinality(1 .. most)
        BY <2>10, <3>1, FS_Bijection DEF ExistsBijection
      <3> QED
        BY <3>1, <3>2
    <2>12. ASSUME list[n] \notin Values(kept)
           PROVE  most = MaxPerTopic /\ \A j \in P : score[j] >= score[list[n]]
      <3>1. n \notin K
        BY <1>3, <2>12
      <3>2. PICK l \in 1 .. size : a[l] = n
        BY <2>1, <2>2
      <3>3. ~ (l <= most)
        BY <2>5, <3>1, <3>2
      <3>4. most = MaxPerTopic
        <4> HIDE DEF size
        <4> QED
          BY <2>1, <2>2, <3>3 DEF most
      <3>5. ASSUME NEW j \in P PROVE score[j] >= score[list[n]]
        <4>1. PICK k \in 1 .. most : f[k] = j
          BY <2>9
        <4>2. k < l /\ k \in 1 .. size
          <5> HIDE DEF size, P, f
          <5> QED
            BY <2>2, <2>6, <3>3
        <4>3. a[k] < n /\ a[k] \in DOMAIN list
          BY <2>2, <2>7, <3>2, <4>2
        <4>4. score[list[a[k]]] >= score[list[n]]
          BY <4>3 DEF Descends
        <4> QED
          BY <4>1, <4>4
      <3> QED
        BY <3>4, <3>5
    <2>13. list[n] \notin Values(kept) => {j \in P : score[j] >= score[list[n]]} = P
      BY <2>12
    <2> HIDE DEF P, f, Q, kept
    <2>14. Cardinality(P) \in Nat /\ Cardinality(P) <= MaxPerTopic
      BY <2>6, <2>11
    <2>15. list[n] \notin Values(kept) => Cardinality({j \in P : score[j] >= score[list[n]]}) = MaxPerTopic
      BY <2>11, <2>12, <2>13
    <2> QED
      BY <2>14, <2>15 DEF P
  <1>7. \A i \in Values(list) : \E n \in DOMAIN list : list[n] = i
    BY DEF Values
  <1>8. ASSUME NEW i \in Values(list)
        PROVE  /\ Cardinality(peers(i)) \in Nat /\ Cardinality(peers(i)) <= MaxPerTopic
               /\ i \notin Values(kept) => Cardinality({j \in peers(i) : score[j] >= score[i]}) = MaxPerTopic
    BY <1>6, <1>7
  <1> HIDE DEF K
  <1> QED
    BY <1>4, <1>5, <1>8 DEF NoLower

NormIn(order, score) == Normalized([i \in Values(order) |-> score[i]])
Worth(order, score, i, chosen) ==
    IF <<i, i>> \in DOMAIN Likeness THEN 3 * NormIn(order, score)[i] - Alike(i, chosen) ELSE 4 * score[i]

ComesNext(order, score, chosen) ==
    CHOOSE i \in Values(order) \ chosen : \A j \in Values(order) \ (chosen \cup {i}) :
        \/ Worth(order, score, i, chosen) > Worth(order, score, j, chosen)
        \/ Worth(order, score, i, chosen) = Worth(order, score, j, chosen) /\ Rank(order, i) < Rank(order, j)

Chosen(order, score) ==
    LET chosen[n \in 0 .. Len(order)] ==
          IF n = 0 THEN <<>> ELSE Append(chosen[n - 1], ComesNext(order, score, Values(chosen[n - 1])))
    IN chosen

LEMMA DiversifyIs == ASSUME NEW order, NEW score PROVE Diversify(order, score) = Chosen(order, score)[Len(order)]
  BY DEF Diversify, Chosen, ComesNext, Worth, NormIn

\* What is compared by diversify are numbers.
LEMMA WorthStands ==
    ASSUME NEW order, NEW score, IsRanking(order, score), NEW i \in Values(order), NEW chosen \in SUBSET Values(order)
    PROVE  Worth(order, score, i, chosen) \in Int
  <1> DEFINE of == [j \in Values(order) |-> score[j]]
             near == {k \in chosen : <<i, k>> \in DOMAIN Likeness}
             likeness == {Likeness[<<i, j>>] : j \in near}
  <1>1. IsFiniteSet(Values(order)) /\ Values(order) \subseteq Stock /\ \A j \in Values(order) : score[j] \in Int
    BY RankingFacts
  <1>2. NormIn(order, score)[i] \in Int
    <2>1. DOMAIN of = Values(order) /\ IsScore(of)
      BY <1>1 DEF IsScore
    <2> HIDE DEF of
    <2>2. Normalized(of)[i] \in Int
      BY <2>1, NormalizedStands
    <2> QED
      BY <2>2 DEF NormIn, of
  <1>3. Alike(i, chosen) \in Int
    <2>1. likeness \in SUBSET Int
      BY RankingConstants
    <2>2. IsFiniteSet(near)
      <3>1. near \subseteq Values(order)
        OBVIOUS
      <3> QED
        BY <1>1, <3>1, FS_Subset
    <2>3. IsFiniteSet(likeness)
      <3> DEFINE f == [j \in near |-> Likeness[<<i, j>>]]
      <3>1. f \in Surjection(near, likeness)
        BY DEF Surjection
      <3> HIDE DEF f, near, likeness
      <3> QED
        BY <2>2, <3>1, FS_Surjection
    <2>4. Alike(i, chosen) = IF likeness = {} THEN 0 ELSE Highest(likeness)
      BY DEF Alike
    <2> HIDE DEF likeness
    <2>5. likeness # {} => Highest(likeness) \in Int
      BY <2>1, <2>3, Extremes
    <2> QED
      BY <2>4, <2>5
  <1> QED
    BY <1>1, <1>2, <1>3 DEF Worth

\* There is a next item as long as not all are chosen.
LEMMA ComesNextStands ==
    ASSUME NEW order, NEW score, IsRanking(order, score), NEW chosen \in SUBSET Values(order), chosen # Values(order)
    PROVE  ComesNext(order, score, chosen) \in Values(order) \ chosen
  <1> DEFINE S == Values(order) \ chosen
             Before(i, j) ==
                \/ Worth(order, score, i, chosen) > Worth(order, score, j, chosen)
                \/ Worth(order, score, i, chosen) = Worth(order, score, j, chosen) /\ Rank(order, i) < Rank(order, j)
             R == {p \in S \X S : Before(p[1], p[2])}
  <1>1. /\ IsFiniteSet(S) /\ S # {}
        /\ \A i \in S : Rank(order, i) \in Nat
        /\ \A i, j \in S : i # j => Rank(order, i) # Rank(order, j)
    BY RankingFacts, FS_Subset
  <1>2. \A i \in S : Worth(order, score, i, chosen) \in Int
    BY WorthStands
  <1>3. \A i, j \in S : <<i, j>> \in R <=> Before(i, j)
    OBVIOUS
  <1>4. \A i \in S : S \ {i} = Values(order) \ (chosen \cup {i})
    OBVIOUS
  <1> HIDE DEF S, R
  <1>5. StrictlyOrders(R, S)
    <2>1. \A i \in S : <<i, i>> \notin R
      BY <1>1, <1>2, <1>3
    <2>2. \A i, j \in S : i # j => <<i, j>> \in R \/ <<j, i>> \in R
      BY <1>1, <1>2, <1>3
    <2>3. \A i, j, k \in S : <<i, j>> \in R /\ <<j, k>> \in R => <<i, k>> \in R
      BY <1>1, <1>2, <1>3
    <2> QED
      BY <2>1, <2>2, <2>3 DEF StrictlyOrders
  <1>6. PICK i \in S : \A j \in S \ {i} : <<i, j>> \in R
    BY <1>1, <1>5, FirstInOrder
  <1>7. \A j \in Values(order) \ (chosen \cup {i}) : Before(i, j)
    BY <1>3, <1>4, <1>6
  <1>8. \E k \in Values(order) \ chosen : \A j \in Values(order) \ (chosen \cup {k}) : Before(k, j)
    BY <1>7 DEF S
  <1> QED
    BY <1>8 DEF ComesNext

\* Nothing is lost and nothing doubled by diversifying.
LEMMA DiversifyStands ==
    ASSUME NEW order, NEW score, IsRanking(order, score)
    PROVE  /\ IsRanking(Diversify(order, score), score)
           /\ Values(Diversify(order, score)) = Values(order)
  <1> DEFINE V == Values(order)
             N == Len(order)
             A == [n \in 0 .. N |-> {s \in Seq(V) : Distinct(s) /\ Len(s) = n}]
             step == [p \in (1 .. N) \X Seq(V) |-> Append(p[2], ComesNext(order, score, Values(p[2])))]
             c == Chosen(order, score)
             Value(f, n) == IF n = 0 THEN <<>> ELSE Append(f[n - 1], ComesNext(order, score, Values(f[n - 1])))
  <1>1. N \in Nat /\ IsFiniteSet(V) /\ Cardinality(V) = N /\ V \subseteq Stock
    BY RankingFacts DEF IsRanking
  <1>2. <<>> \in A[0]
    <2>1. 0 \in 0 .. N
      BY <1>1
    <2>2. <<>> \in Seq(V) /\ Len(<<>>) = 0 /\ Distinct(<<>>)
      BY DEF Distinct
    <2> QED
      BY <2>1, <2>2
  <1>3. ASSUME NEW n \in 1 .. N, NEW s \in A[n - 1]
        PROVE  s \in Seq(V) /\ Append(s, ComesNext(order, score, Values(s))) \in A[n]
    <2> DEFINE x == ComesNext(order, score, Values(s))
    <2>1. n \in 0 .. N /\ n - 1 \in 0 .. N
      BY <1>1
    <2>2. s \in Seq(V) /\ Distinct(s) /\ Len(s) = n - 1
      BY <2>1
    <2>3. Values(s) \subseteq V /\ Values(s) # V
      <3>1. Values(s) \subseteq V
        BY <2>2 DEF Values
      <3>2. Cardinality(Values(s)) = n - 1
        BY <2>2, DistinctCount
      <3>3. n - 1 # N
        BY <1>1
      <3> QED
        BY <1>1, <3>1, <3>2, <3>3
    <2>4. x \in V \ Values(s)
      BY <2>3, ComesNextStands
    <2> HIDE DEF x, V, N
    <2>5. Append(s, x) \in Seq(V) /\ Len(Append(s, x)) = n
      BY <2>2, <2>4
    <2>6. Distinct(Append(s, x))
      <3>1. DOMAIN Append(s, x) = 1 .. n /\ DOMAIN s = 1 .. n - 1
        BY <2>2, <2>5
      <3>2. \A k \in 1 .. n - 1 : Append(s, x)[k] = s[k]
        BY <2>2
      <3>3. Append(s, x)[n] = x
        BY <2>2
      <3>4. \A k \in 1 .. n : k # n => k \in 1 .. n - 1
        BY <2>1
      <3>5. \A k \in 1 .. n - 1 : s[k] # x
        BY <2>4, <3>1 DEF Values
      <3> QED
        BY <2>2, <3>1, <3>2, <3>3, <3>4, <3>5 DEF Distinct
    <2> QED
      BY <2>1, <2>2, <2>5, <2>6 DEF x
  <1>4. \A n \in 1 .. N : \A s \in A[n - 1] : step[<<n, s>>] \in A[n]
    BY <1>3
  <1>5. PICK f : IsStepwise(f, N, <<>>, step) /\ \A n \in 0 .. N : f[n] \in A[n]
    <2> HIDE DEF A, step, N
    <2> QED
      BY <1>1, <1>2, <1>4, StepByStep
  <1>6. f = [n \in 0 .. N |-> IF n = 0 THEN <<>> ELSE step[<<n, f[n - 1]>>]]
    BY <1>5 DEF IsStepwise
  <1>7. f = [n \in 0 .. N |-> Value(f, n)]
    <2>1. ASSUME NEW n \in 1 .. N PROVE step[<<n, f[n - 1]>>] = Append(f[n - 1], ComesNext(order, score, Values(f[n - 1])))
      <3>1. n - 1 \in 0 .. N
        BY <1>1
      <3>2. f[n - 1] \in A[n - 1]
        BY <1>5, <3>1
      <3>3. f[n - 1] \in Seq(V)
        BY <1>3, <3>2
      <3> QED
        BY <3>3
    <2>2. \A n \in 0 .. N : n # 0 => n \in 1 .. N
      BY <1>1
    <2> HIDE DEF step, A, N
    <2> QED
      BY <1>6, <2>1, <2>2
  <1> HIDE DEF A
  <1>8. c = [n \in 0 .. N |-> Value(c, n)]
    <2>1. \E g : g = [n \in 0 .. N |-> Value(g, n)]
      BY <1>7
    <2> QED
      BY <2>1 DEF Chosen
  <1> HIDE DEF c, N, V
  <1> DEFINE S == {n \in 0 .. N : c[n] \in A[n]}
  <1>9. 0 \in S
    BY <1>1, <1>2, <1>8
  <1>10. ASSUME NEW n \in 1 .. N, n - 1 \in S PROVE n \in S
    <2>1. n \in 0 .. N /\ n # 0
      BY <1>1
    <2>2. c[n] = Append(c[n - 1], ComesNext(order, score, Values(c[n - 1])))
      BY <1>8, <2>1
    <2> QED
      BY <1>3, <1>10, <2>1, <2>2
  <1>11. N \in S
    <2> HIDE DEF S
    <2>1. \A n \in 0 .. N : n \in S
      BY <1>1, <1>9, <1>10, ByInductionUpTo
    <2> QED
      BY <1>1, <2>1
  <1> DEFINE d == Diversify(order, score)
  <1>12. d \in Seq(V) /\ Distinct(d) /\ Len(d) = N
    <2>1. d \in A[N] /\ N \in 0 .. N
      BY <1>1, <1>11, DiversifyIs DEF c, N
    <2> HIDE DEF d
    <2> QED
      BY <2>1 DEF A
  <1> HIDE DEF d
  <1>13. Values(d) = V
    <2>1. Values(d) \subseteq V /\ Cardinality(Values(d)) = N
      <3>1. Values(d) \subseteq V
        BY <1>12 DEF Values
      <3> QED
        BY <1>12, <3>1, DistinctCount
    <2> QED
      BY <1>1, <2>1, FS_Subset
  <1>14. d \in Seq(Stock)
    BY <1>1, <1>12
  <1> QED
    BY <1>12, <1>13, <1>14 DEF IsRanking, d, V

\* There is but one increasing list of some numbers.
LEMMA IncreasingIsAscending ==
    ASSUME NEW k \in Nat, NEW g \in [1 .. k -> Nat], \A m, n \in 1 .. k : m < n => g[m] < g[n],
           NEW P, P = {g[n] : n \in 1 .. k}
    PROVE  Cardinality(P) = k /\ Ascending(P) = g
  <1> DEFINE a == Ascending(P)
             Upto(n) == {g[m] : m \in 1 .. n}
  <1>1. \A m, n \in 1 .. k : m # n => g[m] # g[n]
    <2>1. \A m, n \in 1 .. k : m # n => m < n \/ n < m
      OBVIOUS
    <2> QED
      BY <2>1
  <1>2. ASSUME NEW n \in 0 .. k PROVE IsFiniteSet(Upto(n)) /\ Cardinality(Upto(n)) = n
    <2> DEFINE f == [m \in 1 .. n |-> g[m]]
    <2>1. 1 .. n \subseteq 1 .. k
      OBVIOUS
    <2>2. f \in Bijection(1 .. n, Upto(n))
      BY <1>1, <2>1 DEF Bijection, Injection, IsInjective, Surjection
    <2>3. IsFiniteSet(1 .. n) /\ Cardinality(1 .. n) = n
      <3>1. 1 \in Int /\ n \in Int /\ n >= 0
        OBVIOUS
      <3> QED
        BY <3>1, FS_Interval
    <2> HIDE DEF f, Upto
    <2>4. IsFiniteSet(Upto(n)) /\ Cardinality(Upto(n)) = Cardinality(1 .. n)
      BY <2>2, <2>3, FS_Bijection DEF ExistsBijection
    <2> QED
      BY <2>3, <2>4
  <1>3. IsFiniteSet(P) /\ Cardinality(P) = k /\ P \subseteq Nat
    <2>1. P = Upto(k) /\ k \in 0 .. k
      OBVIOUS
    <2>2. P \subseteq Nat
      OBVIOUS
    <2> HIDE DEF Upto
    <2> QED
      BY <1>2, <2>1, <2>2
  <1>4. a \in [1 .. k -> P] /\ \A n \in 1 .. k : Cardinality({j \in P : j < a[n]}) = n - 1
    <2>1. /\ a \in [1 .. Cardinality(P) -> P]
          /\ \A n \in 1 .. Cardinality(P) : Cardinality({j \in P : j < a[n]}) = n - 1
      <3>1. P \in SUBSET Nat /\ IsFiniteSet(P)
        BY <1>3
      <3> QED
        BY ONLY <3>1, AscendingStands
    <2> HIDE DEF a
    <2> QED
      BY <1>3, <2>1
  <1>5. ASSUME NEW n \in 1 .. k PROVE Cardinality({j \in P : j < g[n]}) = n - 1
    <2>1. \A m \in 1 .. k : g[m] < g[n] <=> m <= n - 1
      <3>1. \A m \in 1 .. k : g[m] \in Nat /\ g[n] \in Nat
        OBVIOUS
      <3>2. \A m \in 1 .. k : m <= n - 1 => g[m] < g[n]
        OBVIOUS
      <3>3. \A m \in 1 .. k : ~ (m <= n - 1) => m = n \/ n < m
        OBVIOUS
      <3>4. \A m \in 1 .. k : ~ (m <= n - 1) => ~ (g[m] < g[n])
        BY <3>1, <3>3
      <3> QED
        BY <3>2, <3>4
    <2>2. {j \in P : j < g[n]} = Upto(n - 1)
      <3>1. \A m \in 1 .. n - 1 : m \in 1 .. k /\ m <= n - 1
        OBVIOUS
      <3>2. \A m \in 1 .. k : m <= n - 1 => m \in 1 .. n - 1
        OBVIOUS
      <3> QED
        BY <2>1, <3>1, <3>2
    <2>3. n - 1 \in 0 .. k
      OBVIOUS
    <2> HIDE DEF Upto
    <2> QED
      BY <1>2, <2>2, <2>3
  <1> HIDE DEF a
  <1>6. \A n \in 1 .. k : a[n] = g[n]
    <2> TAKE n \in 1 .. k
    <2>1. PICK m \in 1 .. k : a[n] = g[m]
      BY <1>4
    <2>2. n - 1 = m - 1
      BY <1>4, <1>5, <2>1
    <2>3. m = n
      BY <2>2
    <2> QED
      BY <2>1, <2>3
  <1>7. a = g
    <2>1. a = [n \in 1 .. k |-> a[n]] /\ g = [n \in 1 .. k |-> g[n]]
      BY <1>4
    <2> QED
      BY <1>6, <2>1
  <1> QED
    BY <1>3, <1>7 DEF a

\* What stands at the positions of a list stands there when it is made longer.
LEMMA AtBeginning ==
    ASSUME NEW X, NEW list \in Seq(X), NEW positions \in SUBSET DOMAIN list, NEW long,
           \A n \in DOMAIN list : long[n] = list[n]
    PROVE  At(long, positions) = At(list, positions)
  <1> DEFINE a == Ascending(positions)
             k == Cardinality(positions)
  <1>1. positions \in SUBSET Nat /\ IsFiniteSet(positions)
    <2>1. DOMAIN list = 1 .. Len(list) /\ Len(list) \in Nat
      OBVIOUS
    <2>2. IsFiniteSet(1 .. Len(list))
      <3>1. 1 \in Int /\ Len(list) \in Int
        BY <2>1
      <3> QED
        BY <3>1, FS_Interval
    <2> QED
      BY <2>1, <2>2, FS_Subset
  <1>2. \A n \in 1 .. k : a[n] \in DOMAIN list
    <2>1. a \in [1 .. k -> positions]
      BY <1>1, AscendingStands
    <2> HIDE DEF a, k
    <2> QED
      BY <2>1
  <1> HIDE DEF a, k
  <1>3. \A n \in 1 .. k : long[a[n]] = list[a[n]]
    BY <1>2
  <1> QED
    BY <1>3 DEF At, a, k

\* Taking values out of a list
LEMMA WithoutStands ==
    ASSUME NEW X, NEW list \in Seq(X), NEW S
    PROVE  /\ Without(list, S) \in Seq(X)
           /\ Values(Without(list, S)) = Values(list) \ S
           /\ Distinct(list) => Distinct(Without(list, S))
  <1> DEFINE positions == {n \in DOMAIN list : list[n] \notin S}
  <1>1. positions \subseteq DOMAIN list /\ Without(list, S) = At(list, positions)
    BY DEF Without
  <1>2. {list[p] : p \in positions} = Values(list) \ S
    BY DEF Values
  <1>3. Distinct(list) => \A m, n \in positions : m # n => list[m] # list[n]
    BY DEF Distinct
  <1> HIDE DEF positions
  <1> QED
    BY <1>1, <1>2, <1>3, AtStands

\* Nothing is left of a second part that has only such values.
LEMMA WithoutJoin ==
    ASSUME NEW X, NEW a \in Seq(X), NEW b \in Seq(X), NEW S, Values(b) \subseteq S
    PROVE  Without(a \o b, S) = Without(a, S)
  <1> DEFINE both == a \o b
             P == {n \in DOMAIN a : a[n] \notin S}
             Q == {n \in DOMAIN both : both[n] \notin S}
  <1>1. /\ DOMAIN both = 1 .. Len(a) + Len(b) /\ DOMAIN a = 1 .. Len(a) /\ DOMAIN b = 1 .. Len(b)
        /\ Len(a) \in Nat /\ Len(b) \in Nat
        /\ \A n \in 1 .. Len(a) : both[n] = a[n]
        /\ \A n \in 1 .. Len(b) : both[Len(a) + n] = b[n]
    OBVIOUS
  <1> HIDE DEF both
  <1>2. ASSUME NEW n \in DOMAIN both, n \notin DOMAIN a PROVE both[n] \in S
    <2> DEFINE m == n - Len(a)
    <2>1. m \in 1 .. Len(b) /\ n = Len(a) + m
      BY <1>1, <1>2
    <2> HIDE DEF m
    <2>2. both[n] = b[m] /\ b[m] \in Values(b)
      BY <1>1, <2>1 DEF Values
    <2> QED
      BY <2>2
  <1>3. DOMAIN a \subseteq DOMAIN both
    BY <1>1
  <1>4. Q = P
    BY <1>1, <1>2, <1>3
  <1>5. P \subseteq DOMAIN a /\ Without(both, S) = At(both, P) /\ Without(a, S) = At(a, P)
    BY <1>4 DEF Without
  <1> HIDE DEF P
  <1>6. At(both, P) = At(a, P)
    BY <1>1, <1>5, AtBeginning
  <1> QED
    BY <1>5, <1>6 DEF both

\* ... or of one value added at the end.
LEMMA WithoutAppend ==
    ASSUME NEW X, NEW list \in Seq(X), NEW x \in X, NEW S
    PROVE  Without(Append(list, x), S) = IF x \in S THEN Without(list, S) ELSE Append(Without(list, S), x)
  <1> DEFINE l == Len(list)
             long == Append(list, x)
             P == {n \in DOMAIN list : list[n] \notin S}
             Q == {n \in DOMAIN long : long[n] \notin S}
             k == Cardinality(P)
             a == Ascending(P)
             g == [n \in 1 .. k + 1 |-> IF n = k + 1 THEN l + 1 ELSE a[n]]
  <1>1. /\ l \in Nat /\ DOMAIN list = 1 .. l /\ DOMAIN long = 1 .. l + 1
        /\ \A n \in 1 .. l : long[n] = list[n]
        /\ long[l + 1] = x
    OBVIOUS
  <1> HIDE DEF long, l
  <1>2. Q = IF x \in S THEN P ELSE P \cup {l + 1}
    <2>1. \A n \in 1 .. l + 1 : n # l + 1 => n \in 1 .. l
      BY <1>1
    <2>2. \A n \in 1 .. l : n \in 1 .. l + 1
      BY <1>1
    <2>3. l + 1 \in 1 .. l + 1 /\ l + 1 \notin 1 .. l
      BY <1>1
    <2> QED
      BY <1>1, <2>1, <2>2, <2>3
  <1>3. P \subseteq DOMAIN list /\ P \in SUBSET Nat /\ Without(list, S) = At(list, P) /\ Without(long, S) = At(long, Q)
    BY <1>1 DEF Without
  <1>4. IsFiniteSet(P)
    <2>1. IsFiniteSet(1 .. l)
      <3>1. 1 \in Int /\ l \in Int
        BY <1>1
      <3> QED
        BY <3>1, FS_Interval
    <2> HIDE DEF P
    <2> QED
      BY <1>1, <1>3, <2>1, FS_Subset
  <1> HIDE DEF P, Q
  <1>5. At(long, P) = At(list, P)
    BY <1>1, <1>3, AtBeginning
  <1>6. /\ k \in Nat /\ a \in [1 .. k -> P]
        /\ \A p \in P : \E n \in 1 .. k : a[n] = p
        /\ \A m, n \in 1 .. k : m < n => a[m] < a[n]
    BY <1>3, <1>4, AscendingStands
  <1>7. At(list, P) = [n \in 1 .. k |-> list[a[n]]]
    BY DEF At
  <1> HIDE DEF k, a
  <1>8. CASE x \in S
    BY <1>2, <1>3, <1>5, <1>8 DEF long
  <1>9. CASE x \notin S
    <2>1. \A n \in 1 .. k : a[n] \in 1 .. l /\ a[n] \in P
      BY <1>1, <1>3, <1>6
    <2>2. \A n \in 1 .. k + 1 : n # k + 1 => n \in 1 .. k
      BY <1>6
    <2>3. g \in [1 .. k + 1 -> Nat]
      BY <1>1, <1>6, <2>1, <2>2
    <2>4. \A m, n \in 1 .. k + 1 : m < n => g[m] < g[n]
      <3> TAKE m, n \in 1 .. k + 1
      <3> HAVE m < n
      <3>1. m \in 1 .. k /\ g[m] = a[m]
        BY <1>6
      <3>2. CASE n = k + 1
        BY <1>1, <2>1, <3>1, <3>2
      <3>3. CASE n # k + 1
        <4>1. n \in 1 .. k /\ g[n] = a[n]
          BY <2>2, <3>3
        <4> HIDE DEF g
        <4> QED
          BY <1>6, <3>1, <4>1
      <3> QED
        BY <3>2, <3>3
    <2>5. Q = {g[n] : n \in 1 .. k + 1}
      <3>1. k + 1 \in 1 .. k + 1 /\ g[k + 1] = l + 1
        BY <1>6
      <3>2. \A n \in 1 .. k : n \in 1 .. k + 1 /\ g[n] = a[n]
        BY <1>6
      <3> HIDE DEF g
      <3>3. \A n \in 1 .. k + 1 : g[n] \in P \cup {l + 1}
        BY <2>1, <2>2, <3>1, <3>2
      <3>4. \A p \in P \cup {l + 1} : \E n \in 1 .. k + 1 : g[n] = p
        BY <1>6, <3>1, <3>2
      <3> QED
        BY <1>2, <1>9, <3>3, <3>4
    <2> HIDE DEF g
    <2>6. Cardinality(Q) = k + 1 /\ Ascending(Q) = g
      <3>1. k + 1 \in Nat
        BY <1>6
      <3> QED
        BY <2>3, <2>4, <2>5, <3>1, IncreasingIsAscending
    <2>7. At(long, Q) = [n \in 1 .. k + 1 |-> long[g[n]]]
      BY <2>6 DEF At
    <2> DEFINE old == At(list, P)
    <2>8. \A n \in 1 .. k : list[a[n]] \in X
      BY <1>1, <2>1
    <2>9. old \in Seq(X) /\ Len(old) = k
      <3>1. old \in [1 .. k -> X]
        BY <1>7, <2>8
      <3> HIDE DEF old
      <3> QED
        BY <1>6, <3>1, ListOf
    <2>10. \A n \in 1 .. k : old[n] = list[a[n]]
      BY <1>7
    <2> HIDE DEF old
    <2>11. \A n \in 1 .. k : long[g[n]] = old[n]
      <3> TAKE n \in 1 .. k
      <3>1. g[n] = a[n]
        BY <1>6 DEF g
      <3>2. long[a[n]] = list[a[n]]
        BY <1>1, <2>1
      <3> QED
        BY <2>10, <3>1, <3>2
    <2>12. long[g[k + 1]] = x
      BY <1>1, <1>6 DEF g
    <2>13. Append(old, x) = [n \in 1 .. k + 1 |-> IF n = k + 1 THEN x ELSE old[n]]
      <3> DEFINE new == Append(old, x)
      <3>1. new \in Seq(X) /\ Len(new) = k + 1 /\ new[k + 1] = x /\ \A n \in 1 .. k : new[n] = old[n]
        BY <1>6, <2>9
      <3> HIDE DEF new
      <3>2. new = [n \in 1 .. k + 1 |-> new[n]]
        BY <3>1
      <3>3. \A n \in 1 .. k + 1 : new[n] = IF n = k + 1 THEN x ELSE old[n]
        BY <2>2, <3>1
      <3> QED
        BY <3>2, <3>3 DEF new
    <2>14. \A n \in 1 .. k + 1 : long[g[n]] = IF n = k + 1 THEN x ELSE old[n]
      BY <2>2, <2>11, <2>12
    <2>15. At(long, Q) = Append(old, x)
      BY <2>7, <2>13, <2>14
    <2> QED
      BY <1>3, <1>9, <2>15 DEF old, long
  <1> QED
    BY <1>8, <1>9

-----------------------------------------------------------------------------
(* The rules of a feed *)

IsRules(rules) ==
    /\ IsFiniteSet(rules)
    /\ \A p \in rules : /\ p.id \in Nat /\ p.item \in Stock /\ p.priority \in Int
                        /\ p.target # NoTarget => p.target \in Nat
    /\ \A p, q \in rules : p.id = q.id => p = q

\* The rules a feed can have are rules in the sense above.
LEMMA RuleSetsAreRules == ASSUME NEW rules \in RuleSets PROVE IsRules(rules)
  <1>0. PICK D \in SUBSET RuleIds :
           \E rule \in [D -> [item : Stock, priority : Priorities, target : Targets \cup {NoTarget}]] :
              rules = {[id |-> r, item |-> rule[r].item, priority |-> rule[r].priority, target |-> rule[r].target] : r \in D}
    BY DEF RuleSets
  <1>1. PICK rule \in [D -> [item : Stock, priority : Priorities, target : Targets \cup {NoTarget}]] :
           rules = {[id |-> r, item |-> rule[r].item, priority |-> rule[r].priority, target |-> rule[r].target] : r \in D}
    BY <1>0
  <1> DEFINE f == [r \in D |-> [id |-> r, item |-> rule[r].item, priority |-> rule[r].priority, target |-> rule[r].target]]
  <1>2. \A r \in D : rule[r].item \in Stock /\ rule[r].priority \in Int /\ (rule[r].target # NoTarget => rule[r].target \in Nat) /\ r \in Nat
    BY RankingConstants
  <1>3. \A p \in rules : p.id \in D /\ p = f[p.id]
    BY <1>1
  <1>4. f \in Surjection(D, rules)
    BY <1>1 DEF Surjection
  <1>5. IsFiniteSet(rules)
    <2>1. IsFiniteSet(D)
      BY RankingConstants, FS_Subset
    <2> HIDE DEF f
    <2> QED
      BY <1>4, <2>1, FS_Surjection
  <1>6. \A p \in rules : p.id \in Nat /\ p.item \in Stock /\ p.priority \in Int /\ (p.target # NoTarget => p.target \in Nat)
    BY <1>1, <1>2
  <1>7. \A p, q \in rules : p.id = q.id => p = q
    <2> HIDE DEF f
    <2> QED
      BY <1>3
  <1> QED
    BY <1>5, <1>6, <1>7 DEF IsRules

InPrecedence(rules) == {p \in rules \X rules : Precedes(p[1], p[2])}

\* Priority, then id: rules are never tied.
LEMMA RulesAreOrdered == ASSUME NEW rules, IsRules(rules) PROVE StrictlyOrders(InPrecedence(rules), rules)
  <1>1. \A p, q \in rules : <<p, q>> \in InPrecedence(rules) <=> Precedes(p, q)
    BY DEF InPrecedence
  <1>2. ASSUME NEW p \in rules PROVE ~ Precedes(p, p)
    BY DEF Precedes, IsRules
  <1>3. ASSUME NEW p \in rules, NEW q \in rules, p # q PROVE Precedes(p, q) \/ Precedes(q, p)
    <2>1. p.id \in Nat /\ q.id \in Nat /\ p.id # q.id /\ p.priority \in Int /\ q.priority \in Int
      BY <1>3 DEF IsRules
    <2>2. (p.target # NoTarget => p.target \in Nat) /\ (q.target # NoTarget => q.target \in Nat)
      BY DEF IsRules
    <2> QED
      BY <2>1, <2>2 DEF Precedes
  <1>4. ASSUME NEW p \in rules, NEW q \in rules, NEW r \in rules, Precedes(p, q), Precedes(q, r) PROVE Precedes(p, r)
    <2>1. p.id \in Nat /\ q.id \in Nat /\ r.id \in Nat /\ p.priority \in Int /\ q.priority \in Int /\ r.priority \in Int
      BY DEF IsRules
    <2>2. (p.target # NoTarget => p.target \in Nat) /\ (q.target # NoTarget => q.target \in Nat)
          /\ (r.target # NoTarget => r.target \in Nat)
      BY DEF IsRules
    <2> QED
      BY <1>4, <2>1, <2>2 DEF Precedes
  <1> QED
    BY <1>1, <1>2, <1>3, <1>4 DEF StrictlyOrders

LEMMA InOrderOfRules ==
    ASSUME NEW rules, IsRules(rules)
    PROVE  InOrder(rules, Precedes) = Sorted(rules, InPrecedence(rules))
  <1>1. InOrder(rules, Precedes) =
           [n \in 1 .. Cardinality(rules) |-> CHOOSE p \in rules : Cardinality({q \in rules : Precedes(q, p)}) = n - 1]
    BY DEF InOrder
  <1>2. \A p \in rules : {q \in rules : Precedes(q, p)} = {q \in rules : <<q, p>> \in InPrecedence(rules)}
    BY DEF InPrecedence
  <1>3. ASSUME NEW n \in 1 .. Cardinality(rules)
        PROVE  (CHOOSE p \in rules : Cardinality({q \in rules : Precedes(q, p)}) = n - 1)
                  = (CHOOSE p \in rules : Cardinality({q \in rules : <<q, p>> \in InPrecedence(rules)}) = n - 1)
    BY <1>2
  <1> QED
    BY <1>1, <1>3 DEF Sorted

\* The rule of an item is the first of those for it.
IsFirst(rules, p) == \A q \in rules \ {p} : q.item = p.item => Precedes(p, q)
FirstRules(rules) == {p \in rules : IsFirst(rules, p)}

\* Each promoted item has just one rule that counts.
LEMMA FirstRulesStand ==
    ASSUME NEW rules, IsRules(rules)
    PROVE  /\ \A p \in rules : \E q \in FirstRules(rules) : q.item = p.item
           /\ \A p, q \in FirstRules(rules) : p.item = q.item => p = q
           /\ \A S \in SUBSET FirstRules(rules) : IsRules(S)
  <1>1. \A p, q \in rules : ~ (Precedes(p, q) /\ Precedes(q, p))
    <2>1. StrictlyOrders(InPrecedence(rules), rules)
      BY RulesAreOrdered
    <2> QED
      BY <2>1 DEF StrictlyOrders, InPrecedence
  <1>2. ASSUME NEW p \in rules PROVE \E q \in FirstRules(rules) : q.item = p.item
    <2> DEFINE S == {q \in rules : q.item = p.item}
    <2>1. IsFiniteSet(S) /\ IsRules(S) /\ S # {}
      <3>1. IsFiniteSet(S)
        BY FS_Subset DEF IsRules
      <3> QED
        BY <3>1 DEF IsRules
    <2>2. \A q \in S : q \in rules /\ q.item = p.item
      OBVIOUS
    <2>3. \A q \in rules : q.item = p.item => q \in S
      OBVIOUS
    <2> HIDE DEF S
    <2>4. PICK q \in S : \A r \in S \ {q} : <<q, r>> \in InPrecedence(S)
      BY <2>1, RulesAreOrdered, FirstInOrder
    <2>5. IsFirst(rules, q)
      BY <2>2, <2>3, <2>4 DEF IsFirst, InPrecedence
    <2> QED
      BY <2>2, <2>5 DEF FirstRules
  <1>3. \A p, q \in FirstRules(rules) : p.item = q.item => p = q
    BY <1>1 DEF FirstRules, IsFirst
  <1>4. ASSUME NEW S \in SUBSET FirstRules(rules) PROVE IsRules(S)
    <2>1. S \subseteq rules
      BY DEF FirstRules
    <2>2. IsFiniteSet(S)
      BY <2>1, FS_Subset DEF IsRules
    <2> QED
      BY <2>1, <2>2 DEF IsRules
  <1> QED
    BY <1>2, <1>3, <1>4

-----------------------------------------------------------------------------
(* The slots of the promotions *)

FreeSlot(slots, target) ==
    CHOOSE n \in target .. target + Cardinality(slots) :
        /\ \A s \in slots : s.at # n
        /\ \A m \in target .. n - 1 : \E s \in slots : s.at = m

SlotsAfter(placements) ==
    LET slots[n \in 0 .. Len(placements)] ==
          IF n = 0 THEN {}
          ELSE slots[n - 1]
                 \cup {[at |-> FreeSlot(slots[n - 1], placements[n].target), item |-> placements[n].item]}
    IN slots

LEMMA SlotsIs == ASSUME NEW placements PROVE Slots(placements) = SlotsAfter(placements)[Len(placements)]
  BY DEF Slots, SlotsAfter, FreeSlot

\* Slots at different places for different items
IsSlots(slots) ==
    /\ IsFiniteSet(slots)
    /\ slots \subseteq [at : Nat, item : Stock]
    /\ \A s, t \in slots : s # t => s.at # t.at /\ s.item # t.item

\* There is a free place at the target or behind it, and all between are taken.
LEMMA FreeSlotStands ==
    ASSUME NEW slots, IsSlots(slots), NEW target \in Nat
    PROVE  /\ FreeSlot(slots, target) \in Nat /\ FreeSlot(slots, target) >= target
           /\ \A s \in slots : s.at # FreeSlot(slots, target)
           /\ \A m \in target .. FreeSlot(slots, target) - 1 : \E s \in slots : s.at = m
  <1> DEFINE c == Cardinality(slots)
             taken == {s.at : s \in slots}
             I == target .. target + c
             free == I \ taken
  <1>1. c \in Nat /\ IsFiniteSet(slots)
    BY FS_CardinalityType DEF IsSlots
  <1>2. IsFiniteSet(taken) /\ Cardinality(taken) <= c
    <2> DEFINE f == [s \in slots |-> s.at]
    <2>1. f \in Surjection(slots, taken)
      BY DEF Surjection
    <2> HIDE DEF f, taken
    <2> QED
      BY <1>1, <2>1, FS_Surjection
  <1> HIDE DEF c
  <1>3. IsFiniteSet(I) /\ Cardinality(I) = c + 1
    <2>1. target \in Int /\ target + c \in Int /\ ~ (target > target + c) /\ (target + c) - target + 1 = c + 1
      BY <1>1
    <2> QED
      BY <2>1, FS_Interval
  <1>4. free # {} /\ IsFiniteSet(free) /\ free \in SUBSET Int
    <2>1. IsFiniteSet(free) /\ free \in SUBSET Int
      <3>1. free \subseteq I
        OBVIOUS
      <3>2. I \subseteq Int
        BY <1>1
      <3> HIDE DEF I, free
      <3> QED
        BY <1>3, <3>1, <3>2, FS_Subset
    <2>2. ASSUME free = {} PROVE FALSE
      <3>1. I \subseteq taken
        BY <2>2
      <3> HIDE DEF I, taken
      <3>2. Cardinality(I) <= Cardinality(taken)
        BY <1>2, <3>1, FS_Subset
      <3>3. Cardinality(taken) \in Nat
        BY <1>2, FS_CardinalityType
      <3> QED
        BY <1>1, <1>2, <1>3, <3>2, <3>3
    <2> QED
      BY <2>1, <2>2
  <1> DEFINE n == Lowest(free)
  <1>5. n \in free /\ \A m \in free : n <= m
    <2> HIDE DEF free
    <2> QED
      BY <1>4, Extremes
  <1> HIDE DEF n
  <1>6. n \in I /\ \A s \in slots : s.at # n
    BY <1>5
  <1>7. \A m \in target .. n - 1 : \E s \in slots : s.at = m
    <2> TAKE m \in target .. n - 1
    <2>1. m \in I /\ ~ (n <= m)
      BY <1>1, <1>6
    <2>2. m \notin free
      BY <1>5, <2>1
    <2> QED
      BY <2>1, <2>2
  <1>8. \E k \in target .. target + Cardinality(slots) :
           /\ \A s \in slots : s.at # k
           /\ \A m \in target .. k - 1 : \E s \in slots : s.at = m
    BY <1>6, <1>7 DEF c
  <1>9. /\ FreeSlot(slots, target) \in I
        /\ \A s \in slots : s.at # FreeSlot(slots, target)
        /\ \A m \in target .. FreeSlot(slots, target) - 1 : \E s \in slots : s.at = m
    BY <1>8 DEF FreeSlot, c
  <1>10. \A k \in I : k \in Nat /\ k >= target
    BY <1>1
  <1> QED
    BY <1>9, <1>10

\* A list of promotions with a target, one for each of their items
IsPlacements(placements) ==
    /\ placements \in Seq({placements[n] : n \in DOMAIN placements})
    /\ \A n \in DOMAIN placements : placements[n].target \in Nat /\ placements[n].item \in Stock
    /\ \A m, n \in DOMAIN placements : m # n => placements[m].item # placements[n].item

\* Each has a slot at its target or behind slots from there on.
Placed(placements, n, slots) ==
    /\ IsSlots(slots)
    /\ {s.item : s \in slots} = {placements[m].item : m \in 1 .. n}
    /\ \A m \in 1 .. n : \A s \in slots : s.item = placements[m].item =>
          /\ s.at >= placements[m].target
          /\ \A k \in placements[m].target .. s.at - 1 : \E t \in slots : t.at = k

\* A further slot disturbs none of those that have been given.
LEMMA PlacedNext ==
    ASSUME NEW placements, IsPlacements(placements), NEW n \in 1 .. Len(placements), NEW slots, Placed(placements, n - 1, slots)
    PROVE  Placed(placements, n,
                  slots \cup {[at |-> FreeSlot(slots, placements[n].target), item |-> placements[n].item]})
  <1> DEFINE p == placements[n]
             free == FreeSlot(slots, p.target)
             new == [at |-> free, item |-> p.item]
             more == slots \cup {new}
  <1>0. DOMAIN placements = 1 .. Len(placements) /\ Len(placements) \in Nat
    BY DEF IsPlacements
  <1>1. n \in DOMAIN placements /\ n \in 1 .. n /\ \A m \in 1 .. n : m \in DOMAIN placements /\ (m # n => m \in 1 .. n - 1)
    BY <1>0
  <1>2. p.target \in Nat /\ p.item \in Stock
    BY <1>1 DEF IsPlacements
  <1>3. IsSlots(slots)
    BY DEF Placed
  <1>4. /\ free \in Nat /\ free >= p.target
        /\ \A s \in slots : s.at # free
        /\ \A k \in p.target .. free - 1 : \E t \in slots : t.at = k
    BY <1>2, <1>3, FreeSlotStands
  <1>5. \A s \in slots : s.item # p.item
    <2> TAKE s \in slots
    <2>1. PICK m \in 1 .. n - 1 : s.item = placements[m].item
      BY ZenonT(30) DEF Placed
    <2>2. m \in DOMAIN placements /\ m # n
      BY <1>0, <2>1
    <2> QED
      BY <1>1, <2>1, <2>2 DEF IsPlacements
  <1> HIDE DEF free, p
  <1>6. new.at = free /\ new.item = p.item /\ new \in [at : Nat, item : Stock]
    BY <1>2, <1>4
  <1> HIDE DEF new
  <1>7. IsSlots(more)
    <2>1. IsFiniteSet(more)
      BY <1>3, FS_AddElement DEF IsSlots
    <2>2. \A s, t \in more : s # t => s.at # t.at /\ s.item # t.item
      BY <1>3, <1>4, <1>5, <1>6 DEF IsSlots
    <2> QED
      BY <1>3, <1>6, <2>1, <2>2 DEF IsSlots
  <1>8. {s.item : s \in more} = {placements[m].item : m \in 1 .. n}
    <2>1. {s.item : s \in slots} = {placements[m].item : m \in 1 .. n - 1}
      BY DEF Placed
    <2>2. {s.item : s \in more} = {s.item : s \in slots} \cup {p.item}
      BY <1>6
    <2>3. {placements[m].item : m \in 1 .. n} = {placements[m].item : m \in 1 .. n - 1} \cup {p.item}
      <3>1. \A m \in 1 .. n - 1 : m \in 1 .. n
        OBVIOUS
      <3> QED
        BY <1>1, <3>1 DEF p
    <2> QED
      BY <2>1, <2>2, <2>3
  <1>9. ASSUME NEW m \in 1 .. n, NEW s \in more, s.item = placements[m].item
        PROVE  /\ s.at >= placements[m].target
               /\ \A k \in placements[m].target .. s.at - 1 : \E t \in more : t.at = k
    <2>1. CASE m = n
      <3>1. s = new
        BY <1>5, <1>9, <2>1 DEF p
      <3> QED
        BY <1>4, <1>6, <2>1, <3>1 DEF p
    <2>2. CASE m # n
      <3>1. m \in 1 .. n - 1 /\ m \in DOMAIN placements
        BY <1>1, <2>2
      <3>2. placements[m].item # p.item
        BY <1>1, <2>2, <3>1 DEF p, IsPlacements
      <3>3. s \in slots
        BY <1>6, <1>9, <3>2
      <3>4. /\ s.at >= placements[m].target
            /\ \A k \in placements[m].target .. s.at - 1 : \E t \in slots : t.at = k
        BY <1>9, <3>1, <3>3 DEF Placed
      <3> QED
        BY <3>4
    <2> QED
      BY <2>1, <2>2
  <1> QED
    BY <1>7, <1>8, <1>9 DEF Placed, new, free, p

\* Every placement has a slot of its own, as near behind its target as was free.
LEMMA SlotsStand ==
    ASSUME NEW placements, IsPlacements(placements)
    PROVE  Placed(placements, Len(placements), Slots(placements))
  <1> DEFINE N == Len(placements)
             U == SUBSET [at : Nat, item : Stock]
             A == [n \in 0 .. N |-> {S \in U : Placed(placements, n, S)}]
             Added(S, n) == S \cup {[at |-> FreeSlot(S, placements[n].target), item |-> placements[n].item]}
             step == [p \in (1 .. N) \X U |-> Added(p[2], p[1])]
             Value(f, n) == IF n = 0 THEN {} ELSE Added(f[n - 1], n)
             c == SlotsAfter(placements)
  <1>1. N \in Nat
    BY DEF IsPlacements
  <1>2. {} \in A[0]
    <2>1. 1 .. 0 = {} /\ 0 \in 0 .. N
      BY <1>1
    <2>2. IsSlots({})
      BY FS_EmptySet DEF IsSlots
    <2>3. {s.item : s \in {}} = {placements[m].item : m \in 1 .. 0}
      BY <2>1
    <2>4. Placed(placements, 0, {})
      BY <2>1, <2>2, <2>3 DEF Placed
    <2> QED
      BY <2>1, <2>4
  <1>3. ASSUME NEW n \in 1 .. N, NEW S \in A[n - 1] PROVE S \in U /\ Added(S, n) \in A[n]
    <2>1. n \in 0 .. N /\ n - 1 \in 0 .. N
      BY <1>1
    <2>2. S \in U /\ Placed(placements, n - 1, S)
      BY <2>1
    <2>3. Placed(placements, n, Added(S, n))
      BY <2>2, PlacedNext
    <2> HIDE DEF Added
    <2>4. Added(S, n) \in U
      BY <2>3 DEF Placed, IsSlots
    <2> QED
      BY <2>1, <2>2, <2>3, <2>4
  <1> HIDE DEF Added
  <1>4. \A n \in 1 .. N : \A S \in A[n - 1] : step[<<n, S>>] \in A[n]
    BY <1>3
  <1>5. PICK f : IsStepwise(f, N, {}, step) /\ \A n \in 0 .. N : f[n] \in A[n]
    <2> HIDE DEF A, step, N
    <2> QED
      BY <1>1, <1>2, <1>4, StepByStep
  <1>6. f = [n \in 0 .. N |-> IF n = 0 THEN {} ELSE step[<<n, f[n - 1]>>]]
    BY <1>5 DEF IsStepwise
  <1>7. f = [n \in 0 .. N |-> Value(f, n)]
    <2>1. ASSUME NEW n \in 1 .. N PROVE step[<<n, f[n - 1]>>] = Added(f[n - 1], n)
      <3>1. n - 1 \in 0 .. N
        BY <1>1
      <3>2. f[n - 1] \in A[n - 1]
        BY <1>5, <3>1
      <3>3. f[n - 1] \in U
        BY <1>3, <3>2
      <3> QED
        BY <3>3
    <2>2. \A n \in 0 .. N : n # 0 => n \in 1 .. N
      BY <1>1
    <2> HIDE DEF step, A, N
    <2> QED
      BY <1>6, <2>1, <2>2
  <1> HIDE DEF A
  <1>8. c = [n \in 0 .. N |-> Value(c, n)]
    <2>1. \E g : g = [n \in 0 .. N |-> Value(g, n)]
      BY <1>7
    <2> QED
      BY <2>1 DEF SlotsAfter, Added
  <1> HIDE DEF c, N, U
  <1> DEFINE S == {n \in 0 .. N : c[n] \in A[n]}
  <1>9. 0 \in S
    BY <1>1, <1>2, <1>8
  <1>10. ASSUME NEW n \in 1 .. N, n - 1 \in S PROVE n \in S
    <2>1. n \in 0 .. N /\ n # 0
      BY <1>1
    <2>2. c[n] = Added(c[n - 1], n)
      BY <1>8, <2>1
    <2> QED
      BY <1>3, <1>10, <2>1, <2>2
  <1>11. N \in S
    <2> HIDE DEF S
    <2>1. \A n \in 0 .. N : n \in S
      BY <1>1, <1>9, <1>10, ByInductionUpTo
    <2> QED
      BY <1>1, <2>1
  <1>12. c[N] \in A[N] /\ N \in 0 .. N
    BY <1>1, <1>11
  <1>13. Placed(placements, N, c[N])
    BY <1>12 DEF A
  <1> QED
    BY <1>13, SlotsIs DEF c, N

-----------------------------------------------------------------------------
(* Weaving the slots into the natural order *)

Due(w) == {s \in w.slots : s.at = Len(w.output)}
WithNatural(naturals, w) ==
    [w EXCEPT !.output = Append(@, naturals[w.naturals + 1]), !.naturals = @ + 1]
WithSlot(w, s) == [w EXCEPT !.output = Append(@, s.item), !.slots = @ \ {s}]
Weave(naturals, w) ==
    IF Due(w) # {} THEN WithSlot(w, CHOOSE s \in Due(w) : TRUE)
    ELSE IF w.naturals < Len(naturals) THEN WithNatural(naturals, w)
    ELSE WithSlot(w, CHOOSE s \in w.slots : \A t \in w.slots : s.at <= t.at)

Weaving(naturals, slots) ==
    LET woven[n \in 0 .. Len(naturals) + Cardinality(slots)] ==
          IF n = 0 THEN [output |-> <<>>, naturals |-> 0, slots |-> slots] ELSE Weave(naturals, woven[n - 1])
    IN woven

LEMMA WovenIs ==
    ASSUME NEW naturals, NEW slots
    PROVE  Woven(naturals, slots) = Weaving(naturals, slots)[Len(naturals) + Cardinality(slots)].output
  BY DEF Woven, Weaving, Weave, Due, WithNatural, WithSlot

ItemsOf(S) == {s.item : s \in S}
Begin(list, k) == [m \in 1 .. k |-> list[m]]

\* In the place of its slot, or before it where there is nothing but promotions any more
Stands(output, w, all, naturals, t) ==
    \E m \in DOMAIN output :
       /\ output[m] = t.item
       /\ \/ m - 1 = t.at
          \/ /\ m - 1 < t.at /\ w.naturals = Len(naturals)
             /\ \A k \in DOMAIN output : k >= m => output[k] \in ItemsOf(all)

\* What stands in the output after n steps, of naturals and of all slots, whose items are in S
IsWeave(naturals, all, S, n, w) ==
    /\ w \in [output : Seq(Stock), naturals : 0 .. Len(naturals), slots : SUBSET all]
    /\ Len(w.output) = n
    /\ n = w.naturals + Cardinality(all) - Cardinality(w.slots)
    /\ \A s \in w.slots : s.at >= n
    /\ Distinct(w.output)
    /\ Values(w.output) = ItemsOf(all \ w.slots) \cup Values(Begin(naturals, w.naturals))
    /\ Without(w.output, S) = Begin(naturals, w.naturals)
    /\ \A t \in all \ w.slots : Stands(w.output, w, all, naturals, t)

Weavable(naturals, all, S) ==
    /\ naturals \in Seq(Stock) /\ Distinct(naturals) /\ Values(naturals) \cap S = {}
    /\ IsSlots(all) /\ ItemsOf(all) \subseteq S

\* A list with an item added at the end
LEMMA Longer ==
    ASSUME NEW list \in Seq(Stock), NEW x \in Stock
    PROVE  /\ Append(list, x) \in Seq(Stock) /\ Len(Append(list, x)) = Len(list) + 1
           /\ DOMAIN Append(list, x) = 1 .. Len(list) + 1 /\ DOMAIN list = 1 .. Len(list)
           /\ \A n \in DOMAIN list : Append(list, x)[n] = list[n]
           /\ Append(list, x)[Len(list) + 1] = x
           /\ Values(Append(list, x)) = Values(list) \cup {x}
           /\ Distinct(list) /\ x \notin Values(list) => Distinct(Append(list, x))
  <1> DEFINE long == Append(list, x)
             n == Len(list)
  <1>1. /\ n \in Nat /\ long \in Seq(Stock) /\ Len(long) = n + 1 /\ DOMAIN long = 1 .. n + 1 /\ DOMAIN list = 1 .. n
        /\ long[n + 1] = x
        /\ \A k \in 1 .. n : long[k] = list[k]
    OBVIOUS
  <1> HIDE DEF long, n
  <1>2. \A k \in 1 .. n + 1 : k # n + 1 => k \in 1 .. n
    BY <1>1
  <1>3. n + 1 \in 1 .. n + 1 /\ \A k \in 1 .. n : k \in 1 .. n + 1
    BY <1>1
  <1>4. Values(long) = Values(list) \cup {x}
    BY <1>1, <1>2, <1>3 DEF Values
  <1>5. Distinct(list) /\ x \notin Values(list) => Distinct(long)
    BY <1>1, <1>2 DEF Distinct, Values
  <1> QED
    BY <1>1, <1>4, <1>5 DEF long, n

\* The beginning of a list, and one item more of it
LEMMA BeginNext ==
    ASSUME NEW list \in Seq(Stock), NEW k \in 0 .. Len(list) - 1
    PROVE  /\ Begin(list, k) \in Seq(Stock)
           /\ Begin(list, k + 1) = Append(Begin(list, k), list[k + 1])
           /\ list[k + 1] \in Stock /\ list[k + 1] \in Values(list)
           /\ Values(Begin(list, k)) \subseteq Values(list)
           /\ Distinct(list) => list[k + 1] \notin Values(Begin(list, k))
  <1> DEFINE b == Begin(list, k)
             x == list[k + 1]
             long == Append(b, x)
  <1>1. Len(list) \in Nat /\ DOMAIN list = 1 .. Len(list) /\ k + 1 \in DOMAIN list /\ k \in Nat
    OBVIOUS
  <1>2. x \in Stock /\ x \in Values(list)
    BY <1>1 DEF Values
  <1>3. \A m \in 1 .. k : m \in DOMAIN list
    BY <1>1
  <1>4. b \in [1 .. k -> Stock] /\ \A m \in 1 .. k : b[m] = list[m]
    BY <1>3 DEF Begin
  <1> HIDE DEF b, x
  <1>5. b \in Seq(Stock) /\ Len(b) = k /\ DOMAIN b = 1 .. k
    BY <1>1, <1>4, ListOf
  <1>6. /\ long \in Seq(Stock) /\ Len(long) = k + 1 /\ DOMAIN long = 1 .. k + 1
        /\ long[k + 1] = x /\ \A m \in 1 .. k : long[m] = b[m]
    BY <1>2, <1>5, Longer
  <1> HIDE DEF long
  <1>7. long = [m \in 1 .. k + 1 |-> long[m]]
    BY <1>6
  <1>8. \A m \in 1 .. k + 1 : long[m] = list[m]
    <2>1. \A m \in 1 .. k + 1 : m # k + 1 => m \in 1 .. k
      BY <1>1
    <2> QED
      BY <1>4, <1>6, <2>1 DEF x
  <1>9. long = Begin(list, k + 1)
    BY <1>7, <1>8 DEF Begin
  <1>10. Values(b) \subseteq Values(list)
    BY <1>3, <1>4, <1>5 DEF Values
  <1>11. Distinct(list) => x \notin Values(b)
    <2>1. \A m \in 1 .. k : m # k + 1
      BY <1>1
    <2> QED
      BY <1>1, <1>3, <1>4, <1>5, <2>1 DEF Values, Distinct, x
  <1> QED
    BY <1>2, <1>5, <1>9, <1>10, <1>11 DEF b, x, long

\* Two fields of a record being changed
LEMMA WeaveRow ==
    ASSUME NEW A, NEW B, NEW C, NEW w \in [output : A, naturals : B, slots : C], NEW x \in A
    PROVE  /\ \A y \in B : LET v == [w EXCEPT !.output = x, !.naturals = y]
                          IN v \in [output : A, naturals : B, slots : C]
                             /\ v.output = x /\ v.naturals = y /\ v.slots = w.slots
           /\ \A y \in C : LET v == [w EXCEPT !.output = x, !.slots = y]
                          IN v \in [output : A, naturals : B, slots : C]
                             /\ v.output = x /\ v.naturals = w.naturals /\ v.slots = y
  OBVIOUS

\* The next of the naturals, when no slot is due
LEMMA NaturalNext ==
    ASSUME NEW naturals, NEW all, NEW S, Weavable(naturals, all, S), NEW n \in Nat, NEW w,
           IsWeave(naturals, all, S, n, w), Due(w) = {}, w.naturals < Len(naturals)
    PROVE  IsWeave(naturals, all, S, n + 1, WithNatural(naturals, w))
  <1> DEFINE k == w.naturals
             x == naturals[k + 1]
             v == WithNatural(naturals, w)
             long == Append(w.output, x)
  <1>0. w \in [output : Seq(Stock), naturals : 0 .. Len(naturals), slots : SUBSET all]
    BY DEF IsWeave
  <1>1. /\ naturals \in Seq(Stock) /\ Distinct(naturals) /\ Len(naturals) \in Nat /\ k \in 0 .. Len(naturals) - 1
        /\ w.output \in Seq(Stock) /\ Len(w.output) = n /\ w.slots \subseteq all
    <2>1. naturals \in Seq(Stock) /\ Distinct(naturals)
      BY DEF Weavable
    <2>2. Len(naturals) \in Nat
      BY <2>1
    <2> QED
      BY <1>0, <2>1, <2>2 DEF IsWeave
  <1>2. v = [w EXCEPT !.output = long, !.naturals = k + 1]
    BY DEF WithNatural
  <1>3. /\ Begin(naturals, k) \in Seq(Stock) /\ Begin(naturals, k + 1) = Append(Begin(naturals, k), x)
        /\ x \in Stock /\ x \in Values(naturals) /\ Values(Begin(naturals, k)) \subseteq Values(naturals)
        /\ x \notin Values(Begin(naturals, k))
    BY <1>1, BeginNext
  <1>4. x \notin S
    BY <1>3 DEF Weavable
  <1>5. x \notin Values(w.output)
    <2>1. Values(w.output) = ItemsOf(all \ w.slots) \cup Values(Begin(naturals, k))
      BY DEF IsWeave
    <2>2. ItemsOf(all \ w.slots) \subseteq S
      BY DEF ItemsOf, Weavable
    <2> HIDE DEF x, k
    <2> QED
      BY <1>3, <1>4, <2>1, <2>2
  <1>d. Distinct(w.output)
    BY DEF IsWeave
  <1> HIDE DEF x, k
  <1>6. /\ long \in Seq(Stock) /\ Len(long) = n + 1 /\ DOMAIN long = 1 .. n + 1 /\ DOMAIN w.output = 1 .. n
        /\ \A m \in DOMAIN w.output : long[m] = w.output[m]
        /\ Values(long) = Values(w.output) \cup {x} /\ Distinct(long)
    BY <1>1, <1>3, <1>5, <1>d, Longer
  <1>7. Without(long, S) = Append(Without(w.output, S), x)
    BY <1>1, <1>3, <1>4, WithoutAppend, SMTT(30)
  <1> HIDE DEF long
  <1>8. Without(w.output, S) = Begin(naturals, k) /\ Values(w.output) = ItemsOf(all \ w.slots) \cup Values(Begin(naturals, k))
    BY DEF IsWeave, k
  <1>9. Values(Begin(naturals, k + 1)) = Values(Begin(naturals, k)) \cup {x}
    BY <1>3, Longer
  <1>10. \A s \in w.slots : s.at >= n + 1
    <2> TAKE s \in w.slots
    <2>1. s.at \in Nat
      BY <1>1 DEF Weavable, IsSlots
    <2>2. s.at >= n /\ s.at # n
      BY <1>1 DEF IsWeave, Due
    <2> QED
      BY <2>1, <2>2
  <1>11. n + 1 = (k + 1) + Cardinality(all) - Cardinality(w.slots)
    <2>1. n = k + Cardinality(all) - Cardinality(w.slots)
      BY DEF IsWeave, k
    <2>2. Cardinality(all) \in Nat /\ Cardinality(w.slots) \in Nat
      BY <1>1, FS_Subset, FS_CardinalityType DEF Weavable, IsSlots
    <2> QED
      BY <1>1, <2>1, <2>2
  <1>12. ASSUME NEW t \in all \ w.slots PROVE Stands(long, v, all, naturals, t)
    <2>1. Stands(w.output, w, all, naturals, t)
      BY DEF IsWeave
    <2>2. k # Len(naturals)
      BY <1>1
    <2>3. PICK m \in DOMAIN w.output : w.output[m] = t.item /\ m - 1 = t.at
      BY <2>1, <2>2 DEF Stands, k
    <2>4. m \in DOMAIN long
      BY <1>6
    <2> HIDE DEF v
    <2> QED
      BY <1>6, <2>3, <2>4 DEF Stands
  <1> HIDE DEF v
  <1>13. /\ v \in [output : Seq(Stock), naturals : 0 .. Len(naturals), slots : SUBSET all]
         /\ v.output = long /\ v.naturals = k + 1 /\ v.slots = w.slots
    <2>1. k + 1 \in 0 .. Len(naturals)
      BY <1>1
    <2> QED
      BY <1>0, <1>2, <1>6, <2>1, WeaveRow
  <1>15. Values(long) = ItemsOf(all \ w.slots) \cup Values(Begin(naturals, k + 1))
    BY <1>6, <1>8, <1>9
  <1>16. Without(long, S) = Begin(naturals, k + 1)
    BY <1>3, <1>7, <1>8
  <1>17. IsWeave(naturals, all, S, n + 1, v)
    BY <1>6, <1>10, <1>11, <1>12, <1>13, <1>15, <1>16 DEF IsWeave
  <1> QED
    BY <1>17 DEF v

\* A slot that is due, or the first that is left when there are no naturals
LEMMA SlotNext ==
    ASSUME NEW naturals, NEW all, NEW S, Weavable(naturals, all, S), NEW n \in Nat, NEW w,
           IsWeave(naturals, all, S, n, w), NEW s \in w.slots,
           s.at = n \/ (s.at > n /\ w.naturals = Len(naturals)), \A t \in w.slots \ {s} : t.at >= n + 1
    PROVE  IsWeave(naturals, all, S, n + 1, WithSlot(w, s))
  <1> DEFINE k == w.naturals
             x == s.item
             v == WithSlot(w, s)
             long == Append(w.output, x)
             left == w.slots \ {s}
  <1>0. w \in [output : Seq(Stock), naturals : 0 .. Len(naturals), slots : SUBSET all]
    BY DEF IsWeave
  <1>1. /\ naturals \in Seq(Stock) /\ k \in 0 .. Len(naturals)
        /\ w.output \in Seq(Stock) /\ Len(w.output) = n /\ w.slots \subseteq all /\ s \in all
        /\ s.at \in Nat /\ x \in Stock
    BY <1>0 DEF IsWeave, Weavable, IsSlots
  <1>2. v = [w EXCEPT !.output = long, !.slots = left]
    BY DEF WithSlot
  <1>4. x \in S /\ x \in ItemsOf(all)
    BY <1>1 DEF Weavable, ItemsOf
  <1>8. Without(w.output, S) = Begin(naturals, k) /\ Values(w.output) = ItemsOf(all \ w.slots) \cup Values(Begin(naturals, k))
    BY DEF IsWeave
  <1>5. x \notin Values(w.output)
    <2>1. x \notin ItemsOf(all \ w.slots)
      BY <1>1 DEF ItemsOf, Weavable, IsSlots
    <2>2. Values(Begin(naturals, k)) \subseteq Values(naturals)
      <3>1. Len(naturals) \in Nat /\ DOMAIN naturals = 1 .. Len(naturals)
        BY <1>1
      <3>2. \A m \in 1 .. k : m \in DOMAIN naturals
        BY <1>1, <3>1
      <3> HIDE DEF k
      <3> QED
        BY <3>2 DEF Values, Begin
    <2>3. x \notin Values(naturals)
      BY <1>4 DEF Weavable
    <2> HIDE DEF x, k
    <2> QED
      BY <1>8, <2>1, <2>2, <2>3
  <1>d. Distinct(w.output)
    BY DEF IsWeave
  <1> HIDE DEF x
  <1>6. /\ long \in Seq(Stock) /\ Len(long) = n + 1 /\ DOMAIN long = 1 .. n + 1 /\ DOMAIN w.output = 1 .. n
        /\ \A m \in DOMAIN w.output : long[m] = w.output[m]
        /\ long[n + 1] = x
        /\ Values(long) = Values(w.output) \cup {x} /\ Distinct(long)
    BY <1>1, <1>5, <1>d, Longer
  <1>7. Without(long, S) = Without(w.output, S)
    BY <1>1, <1>4, WithoutAppend
  <1> HIDE DEF long, k
  <1>9. ItemsOf(all \ left) = ItemsOf(all \ w.slots) \cup {x}
    BY <1>1 DEF ItemsOf, x
  <1>11. n + 1 = k + Cardinality(all) - Cardinality(left)
    <2>1. n = k + Cardinality(all) - Cardinality(w.slots)
      BY DEF IsWeave, k
    <2>2. Cardinality(all) \in Nat /\ Cardinality(w.slots) \in Nat /\ Cardinality(left) = Cardinality(w.slots) - 1
      BY <1>1, FS_Subset, FS_CardinalityType, FS_RemoveElement DEF Weavable, IsSlots
    <2> HIDE DEF left
    <2> QED
      BY <1>1, <2>1, <2>2
  <1> HIDE DEF v
  <1>13. /\ v \in [output : Seq(Stock), naturals : 0 .. Len(naturals), slots : SUBSET all]
         /\ v.output = long /\ v.naturals = k /\ v.slots = left
    <2>1. left \in SUBSET all
      BY <1>1
    <2> HIDE DEF left
    <2> QED
      BY <1>0, <1>2, <1>6, <2>1, WeaveRow DEF k
  <1>0n. n + 1 \in 1 .. n + 1 /\ (\A m \in 1 .. n : m \in 1 .. n + 1) /\ \A m \in 1 .. n + 1 : m # n + 1 => m \in 1 .. n
    OBVIOUS
  <1>12. ASSUME NEW t \in all \ left PROVE Stands(long, v, all, naturals, t)
    <2>1. CASE t = s
      <3> DEFINE m == n + 1
      <3>1. m \in DOMAIN long /\ long[m] = t.item
        BY <1>6, <1>0n, <2>1 DEF x
      <3>2. m - 1 = t.at \/ (m - 1 < t.at /\ k = Len(naturals))
        BY <1>1, <2>1 DEF k
      <3>3. \A l \in DOMAIN long : l >= m => long[l] \in ItemsOf(all)
        <4>1. \A l \in DOMAIN long : l >= m => l = n + 1
          BY <1>6
        <4> QED
          BY <1>4, <1>6, <4>1
      <3> HIDE DEF m
      <3> QED
        BY <1>13, <3>1, <3>2, <3>3 DEF Stands
    <2>2. CASE t # s
      <3>1. t \in all \ w.slots
        BY <2>2
      <3>2. PICK m \in DOMAIN w.output :
               /\ w.output[m] = t.item
               /\ \/ m - 1 = t.at
                  \/ /\ m - 1 < t.at /\ w.naturals = Len(naturals)
                     /\ \A l \in DOMAIN w.output : l >= m => w.output[l] \in ItemsOf(all)
        BY <3>1 DEF IsWeave, Stands
      <3>3. m \in DOMAIN long /\ long[m] = t.item
        BY <1>6, <1>0n, <3>2
      <3>4. CASE m - 1 = t.at
        BY <3>3, <3>4 DEF Stands
      <3>5. CASE m - 1 # t.at
        <4>1. \A l \in DOMAIN long : l >= m => long[l] \in ItemsOf(all)
          BY <1>4, <1>6, <1>0n, <3>2, <3>5
        <4> QED
          BY <1>13, <3>2, <3>3, <3>5, <4>1 DEF Stands, k
      <3> QED
        BY <3>4, <3>5
    <2> QED
      BY <2>1, <2>2
  <1>15. Values(long) = ItemsOf(all \ left) \cup Values(Begin(naturals, k))
    BY <1>6, <1>8, <1>9 DEF k
  <1>16. Without(long, S) = Begin(naturals, k)
    BY <1>7, <1>8 DEF k
  <1>17. IsWeave(naturals, all, S, n + 1, v)
    BY <1>6, <1>11, <1>12, <1>13, <1>15, <1>16 DEF IsWeave
  <1> QED
    BY <1>17 DEF v

\* Whichever it is, the weave stands with one item more
LEMMA WeaveNext ==
    ASSUME NEW naturals, NEW all, NEW S, Weavable(naturals, all, S), NEW n \in Nat, NEW w,
           IsWeave(naturals, all, S, n, w), n < Len(naturals) + Cardinality(all)
    PROVE  IsWeave(naturals, all, S, n + 1, Weave(naturals, w))
  <1>1. /\ w.slots \subseteq all /\ w.naturals \in 0 .. Len(naturals) /\ Len(w.output) = n
        /\ IsSlots(all) /\ \A s \in w.slots : s.at >= n
    BY DEF IsWeave, Weavable
  <1>2. \A s, t \in w.slots : s.at \in Nat /\ (s # t => s.at # t.at)
    BY <1>1 DEF IsSlots
  <1>3. CASE Due(w) # {}
    <2> DEFINE s == CHOOSE r \in Due(w) : TRUE
    <2>1. s \in Due(w) /\ Weave(naturals, w) = WithSlot(w, s)
      BY <1>3 DEF Weave
    <2> HIDE DEF s
    <2>2. s \in w.slots /\ s.at = n
      BY <1>1, <2>1 DEF Due
    <2>3. \A t \in w.slots \ {s} : t.at >= n + 1
      BY <1>1, <1>2, <2>2
    <2> QED
      BY <2>1, <2>2, <2>3, SlotNext
  <1>4. CASE Due(w) = {} /\ w.naturals < Len(naturals)
    <2>1. Weave(naturals, w) = WithNatural(naturals, w)
      BY <1>4 DEF Weave
    <2> QED
      BY <1>4, <2>1, NaturalNext
  <1>5. CASE Due(w) = {} /\ ~ (w.naturals < Len(naturals))
    <2> DEFINE s == CHOOSE r \in w.slots : \A t \in w.slots : r.at <= t.at
               ats == {r.at : r \in w.slots}
    <2>1. Weave(naturals, w) = WithSlot(w, s)
      BY <1>5 DEF Weave
    <2>2. Len(naturals) \in Nat /\ w.naturals = Len(naturals)
      <3>1. Len(naturals) \in Nat
        BY DEF Weavable
      <3> QED
        BY <1>1, <1>5, <3>1
    <2>3. IsFiniteSet(w.slots) /\ w.slots # {}
      <3>1. IsFiniteSet(w.slots)
        BY <1>1, FS_Subset DEF IsSlots
      <3>2. ASSUME w.slots = {} PROVE FALSE
        <4>1. Cardinality(w.slots) = 0
          BY <3>2, FS_EmptySet
        <4>2. n = w.naturals + Cardinality(all) - Cardinality(w.slots)
          BY DEF IsWeave
        <4>3. Cardinality(all) \in Nat
          BY <1>1, FS_CardinalityType DEF IsSlots
        <4> QED
          BY <2>2, <4>1, <4>2, <4>3
      <3> QED
        BY <3>1, <3>2
    <2>4. Lowest(ats) \in ats /\ \A m \in ats : Lowest(ats) <= m
      <3>1. ats \in SUBSET Int /\ ats # {}
        BY <1>2, <2>3
      <3>2. IsFiniteSet(ats)
        <4> DEFINE f == [r \in w.slots |-> r.at]
        <4>1. f \in Surjection(w.slots, ats)
          BY DEF Surjection
        <4> HIDE DEF f, ats
        <4> QED
          BY <2>3, <4>1, FS_Surjection
      <3> HIDE DEF ats
      <3> QED
        BY <3>1, <3>2, Extremes
    <2>5. \E r \in w.slots : \A t \in w.slots : r.at <= t.at
      <3>1. PICK r \in w.slots : r.at = Lowest(ats)
        BY <2>4
      <3> QED
        BY <2>4, <3>1
    <2>6. s \in w.slots /\ \A t \in w.slots : s.at <= t.at
      BY <2>5
    <2> HIDE DEF s
    <2>7. s.at > n
      BY <1>1, <1>2, <1>5, <2>6 DEF Due
    <2>8. \A t \in w.slots \ {s} : t.at >= n + 1
      BY <1>2, <2>6, <2>7
    <2> QED
      BY <2>1, <2>2, <2>6, <2>7, <2>8, SlotNext
  <1> QED
    BY <1>3, <1>4, <1>5

WeaveStart(all) == [output |-> <<>>, naturals |-> 0, slots |-> all]

\* ... as it does when it is empty
LEMMA WeaveStarts ==
    ASSUME NEW naturals, NEW all, NEW S, Weavable(naturals, all, S)
    PROVE  IsWeave(naturals, all, S, 0, WeaveStart(all))
  <1> DEFINE w == WeaveStart(all)
             none == {n \in DOMAIN <<>> : <<>>[n] \notin S}
  <1>1. /\ <<>> \in Seq(Stock) /\ Len(<<>>) = 0 /\ DOMAIN <<>> = {} /\ 1 .. 0 = {}
        /\ Len(naturals) \in Nat
    BY DEF Weavable
  <1>2. /\ w \in [output : Seq(Stock), naturals : 0 .. Len(naturals), slots : SUBSET all]
        /\ w.output = <<>> /\ w.naturals = 0 /\ w.slots = all
    BY <1>1 DEF WeaveStart
  <1> HIDE DEF w
  <1>3. Distinct(<<>>) /\ Values(<<>>) = {}
    BY <1>1 DEF Distinct, Values
  <1>4. Begin(naturals, 0) = <<>>
    BY <1>1 DEF Begin
  <1>5. Without(<<>>, S) = <<>>
    <2>1. none = {} /\ Without(<<>>, S) = At(<<>>, none)
      BY <1>1 DEF Without
    <2> HIDE DEF none
    <2>2. Cardinality(none) = 0
      BY <2>1, FS_EmptySet
    <2>3. At(<<>>, none) = [n \in 1 .. 0 |-> <<>>[Ascending(none)[n]]]
      BY <2>2 DEF At
    <2> QED
      BY <1>1, <2>1, <2>3
  <1>6. all \ w.slots = {} /\ ItemsOf({}) = {}
    BY <1>2 DEF ItemsOf
  <1>7. 0 = w.naturals + Cardinality(all) - Cardinality(w.slots)
    <2>1. Cardinality(all) \in Nat
      BY FS_CardinalityType DEF Weavable, IsSlots
    <2> QED
      BY <1>2, <2>1
  <1>8. \A s \in w.slots : s.at >= 0
    BY <1>2 DEF Weavable, IsSlots
  <1>9. IsWeave(naturals, all, S, 0, w)
    BY <1>1, <1>2, <1>3, <1>4, <1>5, <1>6, <1>7, <1>8 DEF IsWeave
  <1> QED
    BY <1>9 DEF w

\* ... and so with all.
LEMMA WeavingStands ==
    ASSUME NEW naturals, NEW all, NEW S, Weavable(naturals, all, S)
    PROVE  LET N == Len(naturals) + Cardinality(all)
           IN N \in Nat /\ IsWeave(naturals, all, S, N, Weaving(naturals, all)[N])
  <1> DEFINE N == Len(naturals) + Cardinality(all)
             U == [output : Seq(Stock), naturals : 0 .. Len(naturals), slots : SUBSET all]
             A == [n \in 0 .. N |-> {w \in U : IsWeave(naturals, all, S, n, w)}]
             start == WeaveStart(all)
             step == [p \in (1 .. N) \X U |-> Weave(naturals, p[2])]
             Value(f, n) == IF n = 0 THEN start ELSE Weave(naturals, f[n - 1])
             c == Weaving(naturals, all)
  <1>1. N \in Nat
    <2>1. Len(naturals) \in Nat /\ Cardinality(all) \in Nat
      BY FS_CardinalityType DEF Weavable, IsSlots
    <2> QED
      BY <2>1
  <1>2. start \in A[0]
    <2>1. 0 \in 0 .. N
      BY <1>1
    <2>2. IsWeave(naturals, all, S, 0, start)
      BY WeaveStarts
    <2> HIDE DEF start, U
    <2>3. start \in U
      BY <2>2 DEF IsWeave, U
    <2> QED
      BY <2>1, <2>2, <2>3
  <1> HIDE DEF start
  <1>3. ASSUME NEW n \in 1 .. N, NEW w \in A[n - 1] PROVE w \in U /\ Weave(naturals, w) \in A[n]
    <2>1. n \in 0 .. N /\ n - 1 \in 0 .. N /\ n - 1 \in Nat /\ n - 1 < N /\ (n - 1) + 1 = n
      BY <1>1
    <2>2. w \in U /\ IsWeave(naturals, all, S, n - 1, w)
      BY <2>1
    <2>3. IsWeave(naturals, all, S, (n - 1) + 1, Weave(naturals, w))
      BY <2>1, <2>2, WeaveNext
    <2>4. IsWeave(naturals, all, S, n, Weave(naturals, w))
      BY <2>1, <2>3
    <2>5. Weave(naturals, w) \in U
      BY <2>4 DEF IsWeave
    <2> HIDE DEF U
    <2> QED
      BY <2>1, <2>2, <2>4, <2>5
  <1>4. \A n \in 1 .. N : \A w \in A[n - 1] : step[<<n, w>>] \in A[n]
    <2> HIDE DEF U, A, N
    <2> QED
      BY <1>3
  <1>5. PICK f : IsStepwise(f, N, start, step) /\ \A n \in 0 .. N : f[n] \in A[n]
    <2> HIDE DEF A, step, N
    <2> QED
      BY <1>1, <1>2, <1>4, StepByStep
  <1>6. f = [n \in 0 .. N |-> IF n = 0 THEN start ELSE step[<<n, f[n - 1]>>]]
    BY <1>5 DEF IsStepwise
  <1>7. f = [n \in 0 .. N |-> Value(f, n)]
    <2>1. ASSUME NEW n \in 1 .. N PROVE step[<<n, f[n - 1]>>] = Weave(naturals, f[n - 1])
      <3>1. n - 1 \in 0 .. N
        BY <1>1
      <3>2. f[n - 1] \in A[n - 1]
        BY <1>5, <3>1
      <3>3. f[n - 1] \in U
        BY <1>3, <3>2
      <3> HIDE DEF U, N
      <3> QED
        BY <3>3
    <2>2. \A n \in 0 .. N : n # 0 => n \in 1 .. N
      BY <1>1
    <2> HIDE DEF step, A, N
    <2> QED
      BY <1>6, <2>1, <2>2
  <1> HIDE DEF A
  <1>8. c = [n \in 0 .. N |-> Value(c, n)]
    <2>1. \E g : g = [n \in 0 .. N |-> Value(g, n)]
      BY <1>7
    <2> QED
      BY <2>1 DEF Weaving, WeaveStart, start
  <1> HIDE DEF c, N, U
  <1> DEFINE T == {n \in 0 .. N : c[n] \in A[n]}
  <1>9. 0 \in T
    BY <1>1, <1>2, <1>8
  <1>10. ASSUME NEW n \in 1 .. N, n - 1 \in T PROVE n \in T
    <2>1. n \in 0 .. N /\ n # 0
      BY <1>1
    <2>2. c[n] = Weave(naturals, c[n - 1])
      BY <1>8, <2>1
    <2> QED
      BY <1>3, <1>10, <2>1, <2>2
  <1>11. N \in T
    <2> HIDE DEF T
    <2>1. \A n \in 0 .. N : n \in T
      BY <1>1, <1>9, <1>10, ByInductionUpTo
    <2> QED
      BY <1>1, <2>1
  <1>12. c[N] \in A[N] /\ N \in 0 .. N
    BY <1>1, <1>11
  <1>13. IsWeave(naturals, all, S, N, c[N])
    BY <1>12 DEF A
  <1> QED
    BY <1>1, <1>13 DEF c, N

\* All of both are woven in: the naturals in their order, a slot in its place or where nothing
\* but promotions follows.
LEMMA WovenStands ==
    ASSUME NEW naturals, NEW all, NEW S, Weavable(naturals, all, S)
    PROVE  LET output == Woven(naturals, all)
           IN /\ output \in Seq(Stock) /\ Distinct(output)
              /\ Values(output) = ItemsOf(all) \cup Values(naturals)
              /\ Without(output, S) = naturals
              /\ \A t \in all : \E m \in DOMAIN output :
                    /\ output[m] = t.item
                    /\ \/ m - 1 = t.at
                       \/ m - 1 < t.at /\ \A k \in DOMAIN output : k >= m => output[k] \in ItemsOf(all)
  <1> DEFINE N == Len(naturals) + Cardinality(all)
             w == Weaving(naturals, all)[N]
             output == Woven(naturals, all)
  <1>1. N \in Nat /\ IsWeave(naturals, all, S, N, w) /\ output = w.output
    BY WeavingStands, WovenIs
  <1>2. naturals \in Seq(Stock) /\ Len(naturals) \in Nat /\ Cardinality(all) \in Nat /\ IsFiniteSet(all)
    BY FS_CardinalityType DEF Weavable, IsSlots
  <1> HIDE DEF w, output
  <1>3. w.naturals = Len(naturals) /\ w.slots = {}
    <2>1. w.naturals \in 0 .. Len(naturals) /\ w.slots \subseteq all /\ N = w.naturals + Cardinality(all) - Cardinality(w.slots)
      BY <1>1 DEF IsWeave
    <2>2. IsFiniteSet(w.slots) /\ Cardinality(w.slots) \in Nat
      BY <1>2, <2>1, FS_Subset, FS_CardinalityType
    <2>3. w.naturals = Len(naturals) /\ Cardinality(w.slots) = 0
      BY <1>2, <2>1, <2>2
    <2> QED
      BY <2>2, <2>3, FS_EmptySet
  <1> HIDE DEF N
  <1>4. Begin(naturals, Len(naturals)) = naturals
    BY <1>2 DEF Begin
  <1>5. all \ w.slots = all
    BY <1>3
  <1> QED
    BY <1>1, <1>3, <1>4, <1>5 DEF IsWeave, Stands, output

\* Rules with targets have slots, the others come last.
LEMMA PlacementsStand ==
    ASSUME NEW rules, IsRules(rules), NEW S \in SUBSET FirstRules(rules)
    PROVE  LET list == InOrder(S, Precedes)
           IN /\ list \in Seq(S) /\ DOMAIN list = 1 .. Len(list) /\ Len(list) \in Nat
              /\ Values(list) = S
              /\ \A m, n \in DOMAIN list : m # n => list[m].item # list[n].item
              /\ (\A p \in S : p.target # NoTarget) => IsPlacements(list)
  <1> DEFINE list == Sorted(S, InPrecedence(S))
  <1>1. IsRules(S) /\ \A p, q \in S : p.item = q.item => p = q
    BY FirstRulesStand
  <1>2. InOrder(S, Precedes) = list
    BY <1>1, InOrderOfRules
  <1>3. IsFiniteSet(S) /\ StrictlyOrders(InPrecedence(S), S)
    BY <1>1, RulesAreOrdered DEF IsRules
  <1>4. list \in Seq(S) /\ Distinct(list) /\ Values(list) = S
    BY <1>3, OrderedList
  <1> HIDE DEF list
  <1>5. DOMAIN list = 1 .. Len(list) /\ Len(list) \in Nat /\ \A n \in DOMAIN list : list[n] \in S
    BY <1>4
  <1>6. \A m, n \in DOMAIN list : m # n => list[m].item # list[n].item
    BY <1>1, <1>4, <1>5 DEF Distinct
  <1>7. (\A p \in S : p.target # NoTarget) => IsPlacements(list)
    <2> SUFFICES ASSUME \A p \in S : p.target # NoTarget PROVE IsPlacements(list)
      OBVIOUS
    <2>1. {list[n] : n \in DOMAIN list} = S
      BY <1>4 DEF Values
    <2>2. \A p \in S : p.target \in Nat /\ p.item \in Stock
      BY <1>1 DEF IsRules
    <2> QED
      BY <1>4, <1>5, <1>6, <2>1, <2>2 DEF IsPlacements
  <1> QED
    BY <1>2, <1>4, <1>5, <1>6, <1>7

WithTarget(rules) == {p \in FirstRules(rules) : p.target # NoTarget}
WithoutTarget(rules) == {p \in FirstRules(rules) : p.target = NoTarget}

\* Where the item of a rule stands
Promoted(rules, order, p) ==
    \E m \in DOMAIN order :
       /\ order[m] = p.item
       /\ \/ p.target = NoTarget /\ \A k \in DOMAIN order : k >= m => order[k] \in ItemsOf(WithoutTarget(rules))
          \/ /\ p.target # NoTarget /\ m - 1 >= p.target
             /\ \A k \in p.target .. m - 2 : order[k + 1] \in ItemsOf(WithTarget(rules))
          \/ /\ p.target # NoTarget /\ m - 1 < p.target
             /\ \A k \in DOMAIN order : k >= m => order[k] \in ItemsOf(rules)

LEMMA SelectedIs ==
    ASSUME NEW rules, NEW online
    PROVE  Selected(rules, online) = FirstRules({p \in rules : p.item \in online})
  BY DEF Selected, FirstRules, IsFirst

\* The promoted feed: nothing lost, nothing doubled, the natural items in their order, and every
\* rule that counts in its place
LEMMA PromotionStands ==
    ASSUME NEW natural \in Seq(Stock), Distinct(natural), NEW rules, NEW online,
           NEW F, F = {p \in rules : p.item \in online}, IsRules(F)
    PROVE  LET order == ApplyPromotions(natural, rules, online)
           IN /\ order \in Seq(Stock) /\ Distinct(order)
              /\ Values(order) = ItemsOf(F) \cup Values(natural)
              /\ Without(order, ItemsOf(F)) = Without(natural, ItemsOf(F))
              /\ \A p \in FirstRules(F) : Promoted(F, order, p)
  <1> DEFINE items == ItemsOf(F)
             targeted == InOrder(WithTarget(F), Precedes)
             last == InOrder(WithoutTarget(F), Precedes)
             others == Without(natural, items)
             slots == Slots(targeted)
             woven == Woven(others, slots)
             rest == [n \in DOMAIN last |-> last[n].item]
             order == ApplyPromotions(natural, rules, online)
  <1>1. /\ WithTarget(F) \cup WithoutTarget(F) = FirstRules(F) /\ FirstRules(F) \subseteq F
        /\ WithTarget(F) \in SUBSET FirstRules(F) /\ WithoutTarget(F) \in SUBSET FirstRules(F)
        /\ \A p \in WithTarget(F) : p.target # NoTarget
    BY DEF WithTarget, WithoutTarget, FirstRules
  <1>2. /\ \A p \in F : \E q \in FirstRules(F) : q.item = p.item
        /\ \A p, q \in FirstRules(F) : p.item = q.item => p = q
    BY FirstRulesStand
  <1>3. items = {p.item : p \in FirstRules(F)} /\ items = ItemsOf(WithTarget(F)) \cup ItemsOf(WithoutTarget(F))
    <2>1. items = {p.item : p \in FirstRules(F)}
      BY <1>1, <1>2 DEF ItemsOf
    <2> QED
      BY <1>1, <2>1 DEF ItemsOf
  <1>4. items \subseteq Stock
    BY DEF ItemsOf, IsRules
  <1>5. order = woven \o rest
    <2>1. Selected(rules, online) = FirstRules(F)
      BY SelectedIs
    <2> QED
      BY <1>3, <2>1 DEF ApplyPromotions, WithTarget, WithoutTarget
  <1> HIDE DEF order
  <1>6. /\ targeted \in Seq(WithTarget(F)) /\ DOMAIN targeted = 1 .. Len(targeted) /\ Len(targeted) \in Nat
        /\ Values(targeted) = WithTarget(F) /\ IsPlacements(targeted)
    BY <1>1, PlacementsStand
  <1>7. /\ last \in Seq(WithoutTarget(F)) /\ DOMAIN last = 1 .. Len(last) /\ Len(last) \in Nat
        /\ Values(last) = WithoutTarget(F) /\ \A m, n \in DOMAIN last : m # n => last[m].item # last[n].item
    <2>1. IsRules(F) /\ WithoutTarget(F) \in SUBSET FirstRules(F)
      BY <1>1
    <2> QED
      BY ONLY <2>1, PlacementsStand
  <1> HIDE DEF targeted, last
  <1>8. Placed(targeted, Len(targeted), slots)
    BY <1>6, SlotsStand
  <1> HIDE DEF slots
  <1>9. IsSlots(slots) /\ ItemsOf(slots) = ItemsOf(WithTarget(F))
    <2>1. {s.item : s \in slots} = {targeted[m].item : m \in 1 .. Len(targeted)}
      BY <1>8 DEF Placed
    <2>2. {targeted[m].item : m \in 1 .. Len(targeted)} = {p.item : p \in WithTarget(F)}
      BY <1>6 DEF Values
    <2> QED
      BY <1>8, <2>1, <2>2 DEF Placed, ItemsOf
  <1>10. ASSUME NEW p \in WithTarget(F)
         PROVE  \E s \in slots : /\ s.item = p.item /\ s.at >= p.target
                                 /\ \A k \in p.target .. s.at - 1 : \E t \in slots : t.at = k
    <2>1. PICK m \in 1 .. Len(targeted) : targeted[m] = p
      BY <1>6 DEF Values
    <2>2. PICK s \in slots : s.item = p.item
      <3>1. p.item \in ItemsOf(WithTarget(F))
        BY DEF ItemsOf
      <3>2. p.item \in ItemsOf(slots)
        BY <1>9, <3>1
      <3> QED
        BY <3>2 DEF ItemsOf
    <2> QED
      BY <1>8, <2>1, <2>2 DEF Placed
  <1>11. others \in Seq(Stock) /\ Distinct(others) /\ Values(others) = Values(natural) \ items
    <2> HIDE DEF items
    <2> QED
      BY WithoutStands
  <1>12. Weavable(others, slots, items)
    <2>1. ItemsOf(slots) \subseteq items
      BY <1>3, <1>9
    <2> HIDE DEF items, others
    <2> QED
      BY <1>9, <1>11, <2>1 DEF Weavable
  <1>13. /\ woven \in Seq(Stock) /\ Distinct(woven)
         /\ Values(woven) = ItemsOf(slots) \cup Values(others)
         /\ Without(woven, items) = others
         /\ \A t \in slots : \E m \in DOMAIN woven :
               /\ woven[m] = t.item
               /\ \/ m - 1 = t.at
                  \/ m - 1 < t.at /\ \A k \in DOMAIN woven : k >= m => woven[k] \in ItemsOf(slots)
    <2> HIDE DEF others, items
    <2> QED
      BY <1>12, WovenStands
  <1>14. /\ rest \in Seq(Stock) /\ DOMAIN rest = 1 .. Len(rest) /\ Distinct(rest) /\ Values(rest) = ItemsOf(WithoutTarget(F))
    <2>1. \A n \in DOMAIN last : last[n] \in WithoutTarget(F) /\ last[n].item \in Stock
      BY <1>1, <1>7 DEF IsRules
    <2>2. rest \in [1 .. Len(last) -> Stock]
      BY <1>7, <2>1
    <2>3. \A n \in DOMAIN last : rest[n] = last[n].item
      OBVIOUS
    <2>4. DOMAIN rest = DOMAIN last
      OBVIOUS
    <2> HIDE DEF rest
    <2>5. rest \in Seq(Stock) /\ DOMAIN rest = 1 .. Len(rest)
      BY <1>7, <2>2, ListOf
    <2>6. Distinct(rest)
      BY <1>7, <2>3, <2>4 DEF Distinct
    <2>7. Values(rest) = ItemsOf(WithoutTarget(F))
      BY <1>7, <2>3, <2>4, SMTT(30) DEF Values, ItemsOf
    <2> QED
      BY <2>5, <2>6, <2>7
  <1> HIDE DEF rest, woven, others, items
  <1>15. Values(woven) \cap Values(rest) = {}
    <2>1. ItemsOf(WithTarget(F)) \cap ItemsOf(WithoutTarget(F)) = {}
      BY <1>2 DEF ItemsOf, WithTarget, WithoutTarget
    <2> QED
      BY <1>3, <1>9, <1>11, <1>13, <1>14, <2>1
  <1>16. /\ order \in Seq(Stock) /\ Len(order) = Len(woven) + Len(rest) /\ Distinct(order)
         /\ Values(order) = Values(woven) \cup Values(rest)
         /\ \A n \in 1 .. Len(woven) : order[n] = woven[n]
         /\ \A n \in 1 .. Len(rest) : order[Len(woven) + n] = rest[n]
    <2>1. /\ woven \in Seq(Stock) /\ rest \in Seq(Stock) /\ Distinct(woven) /\ Distinct(rest)
          /\ Values(woven) \cap Values(rest) = {}
      BY <1>13, <1>14, <1>15
    <2> DEFINE both == woven \o rest
    <2>2. /\ both \in Seq(Stock) /\ Len(both) = Len(woven) + Len(rest) /\ Distinct(both)
          /\ Values(both) = Values(woven) \cup Values(rest)
          /\ \A n \in 1 .. Len(woven) : both[n] = woven[n]
          /\ \A n \in 1 .. Len(rest) : both[Len(woven) + n] = rest[n]
      BY ONLY <2>1, JoinStands
    <2> QED
      BY <1>5, <2>2
  <1>17. Values(order) = items \cup Values(natural)
    BY <1>3, <1>9, <1>11, <1>13, <1>14, <1>16
  <1>18. Without(order, items) = others
    <2>1. Values(rest) \subseteq items
      BY <1>3, <1>14
    <2> QED
      BY <1>5, <1>13, <1>14, <2>1, WithoutJoin
  <1>19. /\ Len(woven) \in Nat /\ DOMAIN woven = 1 .. Len(woven) /\ Len(rest) \in Nat
         /\ DOMAIN order = 1 .. Len(woven) + Len(rest)
    BY <1>13, <1>14, <1>16
  <1>20. ASSUME NEW k \in DOMAIN order, ~ (k <= Len(woven)) PROVE order[k] \in Values(rest)
    <2> DEFINE n == k - Len(woven)
    <2>1. n \in 1 .. Len(rest) /\ k = Len(woven) + n
      BY <1>19, <1>20
    <2> HIDE DEF n
    <2>2. order[k] = rest[n]
      BY <1>16, <2>1
    <2> QED
      BY <1>14, <2>1, <2>2 DEF Values
  <1>21. ASSUME NEW p \in FirstRules(F) PROVE Promoted(F, order, p)
    <2>1. CASE p.target = NoTarget
      <3>1. p.item \in Values(rest)
        BY <1>14, <2>1 DEF WithoutTarget, ItemsOf
      <3>2. PICK n \in 1 .. Len(rest) : rest[n] = p.item
        BY <1>14, <3>1 DEF Values
      <3> DEFINE m == Len(woven) + n
      <3>3. m \in DOMAIN order /\ order[m] = p.item
        BY <1>16, <1>19, <3>2
      <3>4. \A k \in DOMAIN order : k >= m => ~ (k <= Len(woven))
        BY <1>19
      <3> HIDE DEF m
      <3>5. \A k \in DOMAIN order : k >= m => order[k] \in ItemsOf(WithoutTarget(F))
        BY <1>14, <1>20, <3>4
      <3> QED
        BY <2>1, <3>3, <3>5 DEF Promoted
    <2>2. CASE p.target # NoTarget
      <3>0. p \in WithTarget(F) /\ p.target \in Nat
        BY <1>1, <2>2 DEF WithTarget, IsRules
      <3>1. PICK s \in slots : /\ s.item = p.item /\ s.at >= p.target
                               /\ \A k \in p.target .. s.at - 1 : \E t \in slots : t.at = k
        BY <1>10, <3>0
      <3>2. PICK m \in DOMAIN woven :
               /\ woven[m] = s.item
               /\ \/ m - 1 = s.at
                  \/ m - 1 < s.at /\ \A k \in DOMAIN woven : k >= m => woven[k] \in ItemsOf(slots)
        BY <1>13
      <3>3. m \in DOMAIN order /\ order[m] = p.item /\ m \in Nat /\ s.at \in Nat
        BY <1>9, <1>16, <1>19, <3>1, <3>2 DEF IsSlots
      <3>4. CASE m - 1 >= p.target
        <4>1. ASSUME NEW k \in p.target .. m - 2 PROVE order[k + 1] \in ItemsOf(WithTarget(F))
          <5>0. m - 1 <= s.at /\ m <= Len(woven) /\ Len(woven) \in Nat
            BY <1>19, <3>2, <3>3, SMTT(30)
          <5>1. k \in p.target .. s.at - 1 /\ k + 1 \in DOMAIN woven /\ k \in Nat
            BY <1>19, <3>0, <3>3, <5>0, SMTT(30)
          <5>2. PICK t \in slots : t.at = k
            BY <3>1, <5>1
          <5>3. PICK l \in DOMAIN woven :
                   /\ woven[l] = t.item
                   /\ \/ l - 1 = t.at
                      \/ l - 1 < t.at /\ \A j \in DOMAIN woven : j >= l => woven[j] \in ItemsOf(slots)
            BY <1>13
          <5>4. woven[k + 1] \in ItemsOf(slots)
            <6>1. CASE l - 1 = t.at
              <7>1. l = k + 1
                BY <1>19, <5>1, <5>2, <6>1
              <7> QED
                BY <5>3, <7>1 DEF ItemsOf
            <6>2. CASE l - 1 # t.at
              <7>1. k + 1 >= l
                BY <1>19, <5>1, <5>2, <5>3, <6>2
              <7> QED
                BY <5>1, <5>3, <6>2, <7>1
            <6> QED
              BY <6>1, <6>2
          <5> QED
            BY <1>9, <1>16, <1>19, <5>1, <5>4
        <4> QED
          BY <2>2, <3>3, <3>4, <4>1 DEF Promoted
      <3>5. CASE m - 1 < p.target
        <4>1. \A k \in DOMAIN woven : k >= m => woven[k] \in ItemsOf(slots)
          BY <3>0, <3>1, <3>2, <3>3, <3>5
        <4>2. ASSUME NEW k \in DOMAIN order, k >= m PROVE order[k] \in ItemsOf(F)
          <5>1. CASE k <= Len(woven)
            <6>1. k \in DOMAIN woven
              BY <1>19, <5>1
            <6> QED
              BY <1>3, <1>9, <1>16, <1>19, <4>1, <4>2, <6>1 DEF items
          <5>2. CASE ~ (k <= Len(woven))
            BY <1>3, <1>14, <1>20, <5>2 DEF items
          <5> QED
            BY <5>1, <5>2
        <4> QED
          BY <2>2, <3>3, <3>5, <4>2 DEF Promoted
      <3> QED
        BY <3>0, <3>3, <3>4, <3>5
    <2> QED
      BY <2>1, <2>2
  <1> QED
    BY <1>16, <1>17, <1>18, <1>21 DEF order, items, others

-----------------------------------------------------------------------------
(* The feed, step by step *)

\* Each source recalls items with scores.
LEMMA RecalledStands ==
    ASSUME NEW source, NEW raw \in [Stock -> Int], NEW catalog \in SUBSET Stock
    PROVE  IsScore(Recalled(source, raw, catalog))
  <1> DEFINE pool == IF source \in {"dssm", "item_item_cf"} THEN Stock ELSE catalog
             known == {i \in pool : raw[i] > 0 \/ source \in {"popular", "explore"}}
             score == [i \in known |-> raw[i]]
             Above(i, j) == score[i] > score[j] \/ (score[i] = score[j] /\ i < j)
             R == {p \in known \X known : Above(p[1], p[2])}
             best == Best(score)
  <1>1. known \subseteq Stock /\ IsFiniteSet(known) /\ known \subseteq Nat /\ DOMAIN score = known
    <2>1. known \subseteq Stock
      OBVIOUS
    <2> HIDE DEF known
    <2> QED
      BY <2>1, RankingConstants, FS_Subset
  <1>2. \A i \in known : score[i] \in Int
    BY <1>1
  <1>3. Recalled(source, raw, catalog) = [i \in best |-> raw[i]]
    BY DEF Recalled
  <1> HIDE DEF known, score
  <1>4. Ranked(score) = [n \in 1 .. Cardinality(known) |-> CHOOSE i \in known : Cardinality({j \in known : Above(j, i)}) = n - 1]
    BY <1>1 DEF Ranked, InOrder
  <1>5. \A i \in known : {j \in known : Above(j, i)} = {j \in known : <<j, i>> \in R}
    OBVIOUS
  <1>6. ASSUME NEW n \in 1 .. Cardinality(known)
        PROVE  (CHOOSE i \in known : Cardinality({j \in known : Above(j, i)}) = n - 1)
                  = (CHOOSE i \in known : Cardinality({j \in known : <<j, i>> \in R}) = n - 1)
    BY <1>5
  <1>7. Ranked(score) = Sorted(known, R)
    BY <1>4, <1>6 DEF Sorted
  <1>8. \A i, j \in known : <<i, j>> \in R <=> Above(i, j)
    OBVIOUS
  <1> HIDE DEF R
  <1>9. StrictlyOrders(R, known)
    <2>1. \A i \in known : <<i, i>> \notin R
      BY <1>1, <1>2, <1>8
    <2>2. \A i, j \in known : i # j => <<i, j>> \in R \/ <<j, i>> \in R
      BY <1>1, <1>2, <1>8
    <2>3. \A i, j, k \in known : <<i, j>> \in R /\ <<j, k>> \in R => <<i, k>> \in R
      BY <1>1, <1>2, <1>8
    <2> QED
      BY <2>1, <2>2, <2>3 DEF StrictlyOrders
  <1> DEFINE s == Sorted(known, R)
  <1>10. s \in Seq(known) /\ Values(s) = known
    BY <1>1, <1>9, OrderedList
  <1> HIDE DEF s
  <1>11. best \subseteq known
    <2>1. TopN \in Nat
      BY RankingConstants
    <2>2. Values(FirstOf(s, TopN)) \subseteq Values(s)
      BY <1>10, <2>1, FirstOfStands
    <2> QED
      BY <1>7, <1>10, <2>2 DEF Best, s
  <1> HIDE DEF best
  <1>12. best \subseteq Stock /\ \A i \in best : raw[i] \in Int
    BY <1>1, <1>11
  <1> QED
    BY <1>3, <1>12 DEF IsScore

\* What is in a feed after each step
NaturalInv ==
    \E order : /\ IsRanking(order, feed.score) /\ Values(order) = Found
               /\ feed.order = Diversify(TopicDeduplicate(ByScore(order, feed.score)), feed.score)

FinalInv ==
    /\ IsRules(feed.rules) /\ feed.order \in Seq(Stock) /\ Distinct(feed.order)
    /\ Values(feed.order) = ItemsOf(feed.rules) \cup Values(feed.recall)
    /\ Without(feed.order, ItemsOf(feed.rules)) = Without(feed.recall, ItemsOf(feed.rules))
    /\ \A p \in FirstRules(feed.rules) : Promoted(feed.rules, feed.order, p)

FeedInv ==
    /\ DOMAIN feed = {"at", "recall", "order", "score", "rules"}
    /\ feed.at \in {"asked", "recalled", "merged", "natural", "final"}
    /\ feed.at \in {"recalled", "merged"} => IsRecall(feed.recall)
    /\ feed.at = "merged" => feed.order = Merge(feed.recall).order /\ feed.score = Merge(feed.recall).score
    /\ feed.at = "natural" => NaturalInv
    /\ feed.at = "final" => FinalInv

\* What the invariant says of a merged feed is what MergeStands asks of it
LEMMA MergedFeed ==
    ASSUME IsRecall(feed.recall), feed.order = Merge(feed.recall).order
    PROVE  MergeStands
  <1> DEFINE recall == feed.recall
             F == FoundIn(recall)
             R == MergedBy(recall)
             order == Sorted(F, R)
  <1>1. feed.order = order /\ Found = F
    BY MergeIs DEF Found, FoundIn
  <1>2. IsFiniteSet(F) /\ StrictlyOrders(R, F)
    BY MergeOrders
  <1>3. Values(order) = F /\ Len(order) = Cardinality(F)
    BY <1>2, OrderedList
  <1>4. ASSUME NEW i \in F, NEW j \in F, Leads(recall, i), ~ Leads(recall, j), Cardinality(SourcesOf(recall, j)) = 1
        PROVE  Rank(order, i) < Rank(order, j)
    <2>1. MergedScore(recall)[i] = Unit /\ MergedScore(recall)[j] \in Int /\ MergedScore(recall)[j] < Unit
      BY <1>4, MergedScores
    <2>2. MergedScore(recall)[i] > MergedScore(recall)[j]
      BY <2>1 DEF Unit
    <2>3. <<i, j>> \in R
      BY <2>2 DEF MergedBy, Over
    <2> HIDE DEF F, R
    <2> QED
      BY <1>2, <2>3, RankInOrder
  <1> HIDE DEF F, order
  <1>5. \A i, j \in F : Leads(recall, i) /\ ~ Leads(recall, j) /\ Cardinality(SourcesOf(recall, j)) = 1
                          => Rank(order, i) < Rank(order, j)
    BY <1>4
  <1>6. /\ Values(feed.order) = Found /\ Len(feed.order) = Cardinality(Found)
        /\ \A i, j \in Found : Leads(recall, i) /\ ~ Leads(recall, j) /\ Cardinality(SourcesOf(recall, j)) = 1
                                 => Rank(feed.order, i) < Rank(feed.order, j)
    BY <1>1, <1>3, <1>5
  <1> QED
    BY <1>6 DEF MergeStands, Leads, SourcesOf

\* ... of a ranked one, NaturalStands
LEMMA NaturalFeed ==
    ASSUME NaturalInv
    PROVE  IsRanking(feed.order, feed.score) /\ NaturalStands
  <1> DEFINE score == feed.score
  <1>0. PICK order : /\ IsRanking(order, score) /\ Values(order) = Found
                     /\ feed.order = Diversify(TopicDeduplicate(ByScore(order, score)), score)
    BY DEF NaturalInv
  <1> DEFINE ranked == ByScore(order, score)
             kept == TopicDeduplicate(ranked)
             natural == Diversify(kept, score)
  <1>1. /\ IsRanking(ranked, score) /\ Values(ranked) = Found
        /\ Descends(ranked, score)
    BY <1>0, ByScoreStands
  <1> HIDE DEF ranked
  <1>2. /\ IsRanking(kept, score) /\ Values(kept) \subseteq Found
        /\ \A i \in Found : Cardinality(Peers(kept, i)) <= MaxPerTopic
        /\ \A i \in Found \ Values(kept) : Cardinality(NoLower(kept, score, i)) = MaxPerTopic
    <2>1. IsRanking(ranked, score) /\ Descends(ranked, score)
      BY <1>1
    <2>2. /\ IsRanking(kept, score) /\ Values(kept) \subseteq Values(ranked)
          /\ \A i \in Values(ranked) : Cardinality(Peers(kept, i)) <= MaxPerTopic
          /\ \A i \in Values(ranked) \ Values(kept) :
                Cardinality(NoLower(kept, score, i)) = MaxPerTopic
      BY ONLY <2>1, DeduplicateStands
    <2> HIDE DEF kept
    <2> QED
      BY <1>1, <2>2
  <1> HIDE DEF kept
  <1>3. IsRanking(natural, score) /\ Values(natural) = Values(kept)
    BY <1>2, DiversifyStands
  <1>4. feed.order = natural
    BY <1>0 DEF natural, kept, ranked
  <1> HIDE DEF natural
  <1>5. Len(natural) = Cardinality(Values(natural))
    BY <1>3, RankingFacts
  <1> QED
    BY <1>2, <1>3, <1>4, <1>5 DEF NaturalStands, NoLower, Peers

\* ... and of a promoted one, PromotionsStand.
LEMMA FinalFeed == ASSUME FinalInv PROVE PromotionsStand
  <1> DEFINE F == feed.rules
             order == feed.order
             items == {p.item : p \in F}
             at(i) == Rank(order, i) - 1
             first(i) == CHOOSE p \in F : p.item = i /\ \A q \in F \ {p} : q.item = i => Precedes(p, q)
             tail(n) == {order[m] : m \in n + 1 .. Len(order)}
  <1>0. IsRules(F) /\ order \in Seq(Stock) /\ Distinct(order) /\ \A p \in FirstRules(F) : Promoted(F, order, p)
    BY DEF FinalInv
  <1>1. Len(order) = Cardinality(Values(order)) /\ DOMAIN order = 1 .. Len(order) /\ Len(order) \in Nat
    <2>1. Len(order) = Cardinality(Values(order))
      BY <1>0, DistinctCount
    <2>2. DOMAIN order = 1 .. Len(order) /\ Len(order) \in Nat
      BY <1>0
    <2> QED
      BY <2>1, <2>2
  <1>2. items = ItemsOf(F)
    BY DEF ItemsOf
  <1>3. ASSUME NEW i \in items PROVE first(i) \in FirstRules(F) /\ first(i).item = i
    <2>1. PICK p \in F : p.item = i
      OBVIOUS
    <2>2. PICK q \in FirstRules(F) : q.item = i
      BY <1>0, <2>1, FirstRulesStand
    <2>3. q \in F /\ q.item = i /\ \A r \in F \ {q} : r.item = i => Precedes(q, r)
      BY <2>2 DEF FirstRules, IsFirst
    <2>4. first(i) \in F /\ first(i).item = i /\ \A r \in F \ {first(i)} : r.item = i => Precedes(first(i), r)
      BY <2>3
    <2> HIDE DEF first
    <2> QED
      BY <2>4 DEF FirstRules, IsFirst
  <1>4. ASSUME NEW p \in FirstRules(F) PROVE p.item \in items /\ first(p.item) = p
    <2>1. p.item \in items
      BY DEF FirstRules
    <2>2. first(p.item) \in FirstRules(F) /\ first(p.item).item = p.item
      BY <1>3, <2>1
    <2> HIDE DEF first
    <2> QED
      BY <1>0, <2>1, <2>2, FirstRulesStand
  <1>5. /\ ItemsOf(WithTarget(F)) = {j \in items : first(j).target # NoTarget}
        /\ ItemsOf(WithoutTarget(F)) = {j \in items : first(j).target = NoTarget}
    <2> HIDE DEF first, items
    <2>1. \A j \in items : first(j) \in FirstRules(F) /\ first(j).item = j
      BY <1>3
    <2>2. \A p \in FirstRules(F) : p.item \in items /\ first(p.item) = p
      BY <1>4
    <2> QED
      BY <2>1, <2>2 DEF ItemsOf, WithTarget, WithoutTarget
  <1> HIDE DEF first
  <1>6. ASSUME NEW i \in items
        PROVE  LET target == first(i).target
               IN IF target = NoTarget THEN tail(at(i)) \subseteq {j \in items : first(j).target = NoTarget}
                  ELSE IF at(i) >= target
                  THEN \A n \in target .. at(i) - 1 : order[n + 1] \in {j \in items : first(j).target # NoTarget}
                  ELSE tail(at(i)) \subseteq items
    <2> DEFINE p == first(i)
    <2>1. p \in FirstRules(F) /\ p.item = i
      BY <1>3
    <2> HIDE DEF p
    <2>2. PICK m \in DOMAIN order :
             /\ order[m] = p.item
             /\ \/ p.target = NoTarget /\ \A k \in DOMAIN order : k >= m => order[k] \in ItemsOf(WithoutTarget(F))
                \/ /\ p.target # NoTarget /\ m - 1 >= p.target
                   /\ \A k \in p.target .. m - 2 : order[k + 1] \in ItemsOf(WithTarget(F))
                \/ /\ p.target # NoTarget /\ m - 1 < p.target
                   /\ \A k \in DOMAIN order : k >= m => order[k] \in ItemsOf(F)
      BY <1>0, <2>1 DEF Promoted
    <2>3. Rank(order, i) = m
      BY <1>0, <2>1, <2>2, RankStands
    <2>4. at(i) = m - 1 /\ at(i) + 1 = m /\ at(i) - 1 = m - 2 /\ m \in Nat
      BY <1>1, <2>3
    <2>5. \A k \in m .. Len(order) : k \in DOMAIN order /\ k >= m
      BY <1>1
    <2>6. tail(at(i)) = {order[k] : k \in m .. Len(order)}
      BY <2>4
    <2> HIDE DEF at, tail, items
    <2>7. CASE p.target = NoTarget
      <3>1. tail(at(i)) \subseteq ItemsOf(WithoutTarget(F))
        BY <2>2, <2>5, <2>6, <2>7
      <3> QED
        BY <1>5, <2>7, <3>1 DEF p
    <2>8. CASE p.target # NoTarget /\ m - 1 >= p.target
      <3>0. p.target \in Nat
        BY <1>0, <2>1, <2>8 DEF FirstRules, IsRules
      <3>1. ASSUME NEW n \in p.target .. at(i) - 1 PROVE order[n + 1] \in {j \in items : first(j).target # NoTarget}
        <4>1. n \in p.target .. m - 2
          BY <2>4
        <4>2. order[n + 1] \in ItemsOf(WithTarget(F))
          BY <2>2, <2>4, <2>8, <3>0, <4>1
        <4> QED
          BY <1>5, <4>2
      <3>2. at(i) >= p.target
        BY <2>4, <2>8
      <3> QED
        BY <2>8, <3>1, <3>2 DEF p
    <2>9. CASE p.target # NoTarget /\ ~ (m - 1 >= p.target)
      <3>0. p.target \in Nat
        BY <1>0, <2>1, <2>9 DEF FirstRules, IsRules
      <3>1. \A k \in DOMAIN order : k >= m => order[k] \in ItemsOf(F)
        BY <2>2, <2>4, <2>9, <3>0
      <3>2. tail(at(i)) \subseteq items
        BY <1>2, <2>5, <2>6, <3>1
      <3>3. ~ (at(i) >= p.target)
        BY <2>4, <2>9
      <3> QED
        BY <2>9, <3>2, <3>3 DEF p
    <2> QED
      BY <2>7, <2>8, <2>9
  <1> QED
    BY <1>1, <1>2, <1>6 DEF PromotionsStand, first, FinalInv

Parts == {"at", "recall", "order", "score", "rules"}

\* No step of a feed breaks the invariant
LEMMA RecallsKeeps == ASSUME FeedInv, Recalls PROVE FeedInv'
  <1>1. PICK type \in {"personalized", "popular", "explore"}, given \in SUBSET {"model", "seeds", "taste"} :
          \E raw \in RawScores, catalog, left \in SUBSET Stock :
             LET kept(s) == LET rows == Recalled(s, raw[s], catalog) IN [i \in DOMAIN rows \ left |-> rows[i]]
             IN feed' = [feed EXCEPT !.at = "recalled", !.recall = [s \in Asked(type, given) |-> kept(s)]]
    BY DEF Recalls
  <1>2. PICK raw \in RawScores, catalog \in SUBSET Stock, left \in SUBSET Stock :
             LET kept(s) == LET rows == Recalled(s, raw[s], catalog) IN [i \in DOMAIN rows \ left |-> rows[i]]
             IN feed' = [feed EXCEPT !.at = "recalled", !.recall = [s \in Asked(type, given) |-> kept(s)]]
    BY <1>1
  <1> DEFINE rows(s) == Recalled(s, raw[s], catalog)
             kept(s) == [i \in DOMAIN rows(s) \ left |-> rows(s)[i]]
             recall == [s \in Asked(type, given) |-> kept(s)]
  <1>3. feed' = [feed EXCEPT !.at = "recalled", !.recall = recall]
    BY <1>2
  <1>4. ASSUME NEW s \in Asked(type, given) PROVE s \in RecallSources /\ IsScore(kept(s))
    <2>1. s \in RecallSources
      BY DEF Asked
    <2>2. raw[s] \in [Stock -> Int]
      BY <2>1, RankingConstants
    <2>3. IsScore(rows(s))
      BY <2>2, RecalledStands
    <2> HIDE DEF rows
    <2> QED
      BY <2>1, <2>3 DEF IsScore
  <1> HIDE DEF kept
  <1>5. IsRecall(recall)
    BY <1>4 DEF IsRecall
  <1> HIDE DEF recall
  <1>6. DOMAIN feed' = Parts /\ feed'.at = "recalled" /\ feed'.recall = recall
    BY <1>3 DEF FeedInv, Parts
  <1> QED
    BY <1>5, <1>6 DEF FeedInv, Parts

LEMMA MergesKeeps == ASSUME FeedInv, Merges PROVE FeedInv'
  <1> DEFINE merged == Merge(feed.recall)
  <1>1. feed.at = "recalled" /\ feed' = [feed EXCEPT !.at = "merged", !.order = merged.order, !.score = merged.score]
    BY DEF Merges
  <1>2. IsRecall(feed.recall)
    BY <1>1 DEF FeedInv
  <1> HIDE DEF merged
  <1>3. /\ DOMAIN feed' = Parts /\ feed'.at = "merged" /\ feed'.recall = feed.recall
        /\ feed'.order = merged.order /\ feed'.score = merged.score
    BY <1>1 DEF FeedInv, Parts
  <1>4. feed'.order = Merge(feed'.recall).order /\ feed'.score = Merge(feed'.recall).score
    BY <1>3 DEF merged
  <1>5. IsRecall(feed'.recall)
    BY <1>2, <1>3
  <1> QED
    BY <1>3, <1>4, <1>5 DEF FeedInv, Parts

LEMMA RanksKeeps == ASSUME FeedInv, Ranks PROVE FeedInv'
  <1>1. PICK known \in ModelScores :
           LET score   == [i \in DOMAIN feed.score |-> IF i \in DOMAIN known THEN known[i] ELSE feed.score[i]]
               natural == Diversify(TopicDeduplicate(ByScore(feed.order, score)), score)
           IN feed' = [feed EXCEPT !.at = "natural", !.order = natural, !.score = score]
    BY DEF Ranks
  <1> DEFINE recall == feed.recall
             order == feed.order
             score == [i \in DOMAIN feed.score |-> IF i \in DOMAIN known THEN known[i] ELSE feed.score[i]]
             natural == Diversify(TopicDeduplicate(ByScore(order, score)), score)
  <1>2. feed.at = "merged" /\ feed' = [feed EXCEPT !.at = "natural", !.order = natural, !.score = score]
    BY <1>1 DEF Ranks
  <1>3. IsRecall(recall) /\ order = Sorted(FoundIn(recall), MergedBy(recall)) /\ feed.score = MergedScore(recall)
    BY <1>2, MergeIs DEF FeedInv
  <1>4. /\ FoundIn(recall) \subseteq Stock
        /\ order \in Seq(FoundIn(recall)) /\ Distinct(order) /\ Values(order) = FoundIn(recall)
    <2>1. IsFiniteSet(FoundIn(recall)) /\ FoundIn(recall) \subseteq Stock /\ StrictlyOrders(MergedBy(recall), FoundIn(recall))
      BY <1>3, MergeOrders
    <2> HIDE DEF order, recall
    <2> QED
      BY <1>3, <2>1, OrderedList
  <1>5. DOMAIN score = FoundIn(recall) /\ score \in [DOMAIN score -> Int]
    <2>1. DOMAIN feed.score = FoundIn(recall) /\ \A i \in FoundIn(recall) : feed.score[i] \in Int
      BY <1>3, MergedScores DEF MergedScore
    <2>2. \A i \in DOMAIN known : known[i] \in Int
      BY RankingConstants
    <2> QED
      BY <2>1, <2>2
  <1>6. IsRanking(order, score)
    <2> HIDE DEF order, score, recall
    <2>1. order \in Seq(Stock)
      BY <1>4
    <2> QED
      BY <1>4, <1>5, <2>1 DEF IsRanking
  <1> HIDE DEF natural, score
  <1>7. /\ DOMAIN feed' = Parts /\ feed'.at = "natural" /\ feed'.recall = recall
        /\ feed'.order = natural /\ feed'.score = score
    BY <1>2 DEF FeedInv, Parts
  <1>8. Values(order) = Found'
    BY <1>4, <1>7 DEF Found, FoundIn
  <1>9. NaturalInv'
    <2>1. IsRanking(order, feed'.score) /\ feed'.order = Diversify(TopicDeduplicate(ByScore(order, feed'.score)), feed'.score)
      BY <1>6, <1>7 DEF natural
    <2> HIDE DEF order, recall
    <2> QED
      BY <1>8, <2>1 DEF NaturalInv
  <1> QED
    BY <1>7, <1>9 DEF FeedInv, Parts

LEMMA PromotesKeeps == ASSUME FeedInv, Promotes PROVE FeedInv'
  <1>1. PICK rules \in RuleSets, online \in {Stock} \cup {Stock \ {i} : i \in Stock} :
           feed' = [NoFeed EXCEPT !.at = "final", !.recall = feed.order, !.rules = {p \in rules : p.item \in online},
                       !.order = ApplyPromotions(feed.order, rules, online)]
    BY DEF Promotes
  <1> DEFINE F == {p \in rules : p.item \in online}
             natural == feed.order
             order == ApplyPromotions(natural, rules, online)
  <1>2. natural \in Seq(Stock) /\ Distinct(natural)
    BY NaturalFeed DEF Promotes, FeedInv, IsRanking
  <1>3. IsRules(F)
    <2>1. IsRules(rules)
      BY RuleSetsAreRules
    <2>2. IsFiniteSet(F)
      BY <2>1, FS_Subset DEF IsRules
    <2> QED
      BY <2>1, <2>2 DEF IsRules
  <1>4. /\ order \in Seq(Stock) /\ Distinct(order)
        /\ Values(order) = ItemsOf(F) \cup Values(natural)
        /\ Without(order, ItemsOf(F)) = Without(natural, ItemsOf(F))
        /\ \A p \in FirstRules(F) : Promoted(F, order, p)
    <2> HIDE DEF natural
    <2> QED
      BY <1>2, <1>3, PromotionStands
  <1> HIDE DEF F, order, natural
  <1>5. feed' = [NoFeed EXCEPT !.at = "final", !.recall = natural, !.rules = F, !.order = order]
    BY <1>1 DEF F, order, natural
  <1>6. /\ DOMAIN feed' = Parts /\ feed'.at = "final" /\ feed'.recall = natural /\ feed'.rules = F /\ feed'.order = order
    BY <1>5 DEF NoFeed, Parts
  <1>7. FinalInv'
    BY <1>3, <1>4, <1>6 DEF FinalInv
  <1> QED
    BY <1>6, <1>7 DEF FeedInv, Parts

\* ... which holds before the first.
LEMMA FeedInvInit == ASSUME feed = NoFeed PROVE FeedInv
  BY DEF FeedInv, NoFeed

LEMMA FeedInvNext == FeedInv /\ [RankingNext]_feed => FeedInv'
  <1> SUFFICES ASSUME FeedInv, [RankingNext]_feed PROVE FeedInv'
    OBVIOUS
  <1>1. CASE Recalls
    BY <1>1, RecallsKeeps
  <1>2. CASE Merges
    BY <1>2, MergesKeeps
  <1>3. CASE Ranks
    BY <1>3, RanksKeeps
  <1>4. CASE Promotes
    BY <1>4, PromotesKeeps
  <1>5. CASE Served
    BY <1>5 DEF Served, FeedInv, NoFeed
  <1>6. CASE UNCHANGED feed
    BY <1>6 DEF FeedInv, NaturalInv, FinalInv, Found
  <1> QED
    BY <1>1, <1>2, <1>3, <1>4, <1>5, <1>6 DEF RankingNext

\* Whatever the sources recall, of whatever stock, with any scores, topics, likenesses and rules of
\* promotion: the merged feed (merge_candidates) has each item found just once, those that lead
\* a source before those that lead none and that no second source found; the natural feed
\* (topic_deduplicate, diversify) has no item twice and leaves one out only for MaxPerTopic others
\* of its topic that score no lower; and the promoted feed (apply_promotions) has lost and doubled
\* nothing, keeps the natural items in their order and shows every promotion at its target or as
\* near behind it as promotions leave room.
THEOREM FeedsStand == RankingSpec => []FeedStands
  <1>1. RankingInit => FeedInv
    BY FeedInvInit DEF RankingInit
  <1>2. FeedInv => FeedStands
    BY MergedFeed, NaturalFeed, FinalFeed DEF FeedInv, FeedStands
  <1> QED
    BY <1>1, <1>2, FeedInvNext, PTL DEF RankingSpec

=============================================================================
