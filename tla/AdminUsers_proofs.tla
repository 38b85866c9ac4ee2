-------------------------- MODULE AdminUsers_proofs --------------------------
(***************************************************************************)
(* Theorems about Listing, for every page number, limit and collection     *)
(* size, and about AdminUsers, for any accounts, any collection to begin   *)
(* with and any number of writes, with failures at every request.          *)
(***************************************************************************)
EXTENDS AdminUsers, FiniteSetTheorems, SequenceTheorems, TLAPS

------------------------------------------------------------------------------
\* Listing

\* The first and the last position of a page among the items found.
First(page, limit) == Skip(page, limit) + 1
Last(page, limit) == Skip(page, limit) + limit

\* Pages are counted in whole limits.
LEMMA PagesCover ==
  ASSUME NEW total \in Nat, NEW limit \in Nat \ {0}
  PROVE  LET n == TotalPages(total, limit)
         IN  n \in Nat /\ n * limit >= total /\ n * limit < total + limit
<1> DEFINE n == TotalPages(total, limit)
           a == total + limit - 1
<1>1. a \in Nat /\ n = a \div limit
  BY DEF TotalPages
<1> HIDE DEF a
<1>2. a \div limit \in Nat /\ (a \div limit) * limit <= a /\ a < (a \div limit) * limit + limit
  BY <1>1
<1>3. n \in Nat /\ n * limit \in Nat /\ n * limit <= a /\ a < n * limit + limit
  BY <1>1, <1>2
<1>4. QED
  BY <1>3 DEF a

LEMMA ProductsAreOrdered ==
  ASSUME NEW a \in Int, NEW b \in Int, NEW k \in Nat \ {0}
  PROVE  a * k < b * k <=> a < b
  OBVIOUS

\* validatePaginationParams: whatever a request asks for, the query has a page to
\* show and a limit within bounds, and skips a number of items that exists.
THEOREM ParametersAreInBounds ==
  ASSUME NEW x \in Int, NEW y \in Int
  PROVE  /\ PageOf(x) \in Nat \ {0}
         /\ LimitOf(y) \in 1..MAX_LIMIT
         /\ Skip(PageOf(x), LimitOf(y)) \in Nat
<1>1. PageOf(x) \in Nat \ {0}
  BY DEF PageOf, OrDefault, AtLeastOne, DEFAULT_PAGE
<1>2. LimitOf(y) \in 1..MAX_LIMIT
  BY DEF LimitOf, OrDefault, AtLeastOne, AtMost, DEFAULT_LIMIT, MAX_LIMIT
<1>3. ASSUME NEW p \in Nat \ {0}, NEW k \in Nat PROVE Skip(p, k) \in Nat
  BY <1>3 DEF Skip
<1>4. LimitOf(y) \in Nat
  BY <1>2 DEF MAX_LIMIT
<1>5. QED
  BY <1>1, <1>2, <1>3, <1>4

\* skip, limit and totalPages: every item found is on one page, and on no other.
THEOREM PagesPartition ==
  ASSUME NEW total \in Nat, NEW limit \in Nat \ {0}, NEW i \in 1..total
  PROVE  /\ \E p \in 1..TotalPages(total, limit) : i \in First(p, limit)..Last(p, limit)
         /\ \A p, q \in Nat \ {0} :
               i \in First(p, limit)..Last(p, limit) /\ i \in First(q, limit)..Last(q, limit)
                  => p = q
<1> DEFINE n == TotalPages(total, limit)
<1>1. n \in Nat /\ n * limit >= total
  BY PagesCover
<1> HIDE DEF n
<1>2. i \in Nat /\ i >= 1 /\ i <= total
  OBVIOUS
<1>3. \E p \in 1..n : i \in First(p, limit)..Last(p, limit)
  <2> DEFINE r == (i - 1) \div limit
  <2>1. r \in Nat /\ r * limit <= i - 1 /\ i - 1 < r * limit + limit
    BY <1>2
  <2> HIDE DEF r
  <2>2. r * limit < n * limit
    <3>1. r * limit \in Nat /\ n * limit \in Nat
      BY <1>1, <2>1
    <3>2. QED
      BY <1>1, <1>2, <2>1, <3>1
  <2>3. r < n
    BY <1>1, <2>1, <2>2, ProductsAreOrdered
  <2>4. r + 1 \in 1..n
    BY <1>1, <2>1, <2>3
  <2>5. Skip(r + 1, limit) = r * limit
    BY <2>1 DEF Skip
  <2>6. i \in First(r + 1, limit)..Last(r + 1, limit)
    <3>1. r * limit \in Nat
      BY <2>1
    <3>2. QED
      BY <1>2, <2>1, <2>5, <3>1 DEF First, Last
  <2>7. QED
    BY <2>4, <2>6
<1>4. ASSUME NEW p \in Nat \ {0}, NEW q \in Nat \ {0},
             i \in First(p, limit)..Last(p, limit), i \in First(q, limit)..Last(q, limit)
      PROVE  ~(p < q)
  <2>1. SUFFICES ASSUME p <= q - 1 PROVE FALSE
    OBVIOUS
  <2>2. /\ Skip(q, limit) \in Int /\ Skip(p, limit) \in Int
        /\ Skip(p, limit) + limit = p * limit
    BY DEF Skip
  <2>3. Skip(q, limit) < Skip(p, limit) + limit
    BY <1>2, <1>4, <2>2 DEF First, Last
  <2>4. (q - 1) * limit < p * limit
    BY <2>2, <2>3 DEF Skip
  <2>5. q - 1 < p
    BY <2>4, ProductsAreOrdered
  <2>6. QED
    BY <2>1, <2>5
<1>5. QED
  BY <1>3, <1>4 DEF n

\* createPaginationMeta: there is a next page exactly if items lie behind this one,
\* at an empty list, a full last page and a page past the end alike.
THEOREM NextPageIsThere ==
  ASSUME NEW total \in Nat, NEW limit \in Nat \ {0}, NEW page \in Nat \ {0}
  PROVE  HasNextPage(page, limit, total) <=> Last(page, limit) < total
<1> DEFINE n == TotalPages(total, limit)
<1>1. n \in Nat /\ n * limit >= total /\ n * limit < total + limit
  BY PagesCover
<1> HIDE DEF n
<1>2. Last(page, limit) = page * limit /\ page * limit \in Nat /\ n * limit \in Nat
  <2>1. Skip(page, limit) + limit = page * limit
    BY DEF Skip
  <2>2. QED
    BY <1>1, <2>1 DEF Last
<1>3. ASSUME page < n PROVE page * limit < total
  <2>1. (page + 1) * limit <= n * limit
    BY <1>1, <1>3, ProductsAreOrdered
  <2>2. (page + 1) * limit = page * limit + limit
    OBVIOUS
  <2>3. QED
    BY <1>1, <1>2, <2>1, <2>2
<1>4. ASSUME page * limit < total PROVE page < n
  <2>1. page * limit < n * limit
    BY <1>1, <1>2, <1>4
  <2>2. QED
    BY <1>1, <2>1, ProductsAreOrdered
<1>5. HasNextPage(page, limit, total) <=> page < n
  BY DEF HasNextPage, n
<1>6. QED
  BY <1>2, <1>3, <1>4, <1>5

------------------------------------------------------------------------------
\* What a query finds

Distinct(s) == \A i, j \in DOMAIN s : s[i] = s[j] => i = j
Places(s, Matching) == {i \in DOMAIN s : s[i] \in Matching}
Rank(at, i) == Cardinality({j \in at : j <= i})

\* The ranks of a set of positions count it without a gap.
LEMMA RanksCount ==
  ASSUME NEW n \in Nat, NEW at \in SUBSET (1..n)
  PROVE  /\ IsFiniteSet(at) /\ Cardinality(at) \in Nat
         /\ \A i \in at : Rank(at, i) \in 1..Cardinality(at)
         /\ \A i, j \in at : Rank(at, i) = Rank(at, j) => i = j
         /\ \A m \in 1..Cardinality(at) : \E i \in at : Rank(at, i) = m
<1>1. IsFiniteSet(at) /\ Cardinality(at) \in Nat
  <2>1. IsFiniteSet(1..n)
    BY FS_Interval
  <2>2. IsFiniteSet(at)
    BY <2>1, FS_Subset
  <2> QED
    BY <2>2, FS_CardinalityType
<1> DEFINE Below(i) == {j \in at : j <= i}
<1>2. ASSUME NEW i \in at
      PROVE  /\ IsFiniteSet(Below(i)) /\ Rank(at, i) \in Nat
             /\ Rank(at, i) <= Cardinality(at) /\ Rank(at, i) >= 1
  <2>1. Below(i) \in SUBSET at /\ i \in Below(i)
    OBVIOUS
  <2>2. IsFiniteSet(Below(i)) /\ Cardinality(Below(i)) <= Cardinality(at)
    BY <1>1, <2>1, FS_Subset
  <2>3. Cardinality(Below(i)) \in Nat /\ Cardinality(Below(i)) # 0
    BY <2>1, <2>2, FS_CardinalityType, FS_EmptySet
  <2> QED
    BY <2>2, <2>3 DEF Rank
<1>3. ASSUME NEW i \in at, NEW j \in at, i < j PROVE Rank(at, i) # Rank(at, j)
  <2>0. i \in Int /\ j \in Int /\ \A m \in at : m \in Int
    OBVIOUS
  <2>1. Below(i) \in SUBSET Below(j) /\ j \in Below(j) /\ j \notin Below(i)
    <3>1. \A m \in at : m <= i => m <= j
      BY <1>3, <2>0
    <3>2. j <= j /\ ~(j <= i)
      BY <1>3, <2>0
    <3> QED
      BY <3>1, <3>2
  <2>2. Below(i) # Below(j)
    BY <2>1
  <2> HIDE DEF Below
  <2>3. Cardinality(Below(i)) # Cardinality(Below(j))
    BY <1>2, <2>1, <2>2, FS_Subset
  <2> QED
    BY <2>3 DEF Rank, Below
<1>4. \A i, j \in at : Rank(at, i) = Rank(at, j) => i = j
  BY <1>3
<1> DEFINE rank == [i \in at |-> Rank(at, i)]
           ranks == 1..Cardinality(at)
<1>5. IsFiniteSet(ranks) /\ Cardinality(ranks) = Cardinality(at)
  BY <1>1, FS_Interval
<1>6. rank \in [at -> ranks]
  <2>1. ASSUME NEW i \in at PROVE Rank(at, i) \in ranks
    <3>1. Rank(at, i) \in Nat /\ Rank(at, i) <= Cardinality(at) /\ Rank(at, i) >= 1
      BY <1>2
    <3> QED
      BY <1>1, <3>1
  <2> QED
    BY <2>1
<1>7. rank \in Injection(at, ranks)
  BY <1>4, <1>6 DEF Injection, IsInjective
<1>8. rank \in Surjection(at, ranks)
  BY <1>5, <1>7, FS_Injection
<1>9. \A m \in ranks : \E i \in at : rank[i] = m
  BY <1>8 DEF Surjection
<1> QED
  BY <1>1, <1>4, <1>6, <1>9

\* The items found are those of the collection that match, as many as there are
\* places for them, and none twice if none is there twice.
LEMMA SelectedItems ==
  ASSUME NEW A, NEW s \in Seq(A), NEW Matching
  PROVE  /\ Selected(s, Matching) \in Seq(A)
         /\ Elements(Selected(s, Matching)) = Elements(s) \cap Matching
         /\ Distinct(s) => Distinct(Selected(s, Matching))
<1> DEFINE at == Places(s, Matching)
           Nth(n) == CHOOSE i \in at : Rank(at, i) = n
           hits == Selected(s, Matching)
<1>1. at \in SUBSET (1..Len(s)) /\ Len(s) \in Nat /\ \A i \in at : s[i] \in A
  BY DEF Places
<1>2. /\ Cardinality(at) \in Nat
      /\ \A m \in 1..Cardinality(at) : \E i \in at : Rank(at, i) = m
      /\ \A i \in at : Rank(at, i) \in 1..Cardinality(at)
      /\ \A i, j \in at : Rank(at, i) = Rank(at, j) => i = j
  BY <1>1, RanksCount
<1>3. hits = [n \in 1..Cardinality(at) |-> s[Nth(n)]]
  BY DEF Selected, Places, Rank
<1>4. \A n \in 1..Cardinality(at) : Nth(n) \in at /\ Rank(at, Nth(n)) = n
  BY <1>2
<1>5. at = {i \in DOMAIN s : s[i] \in Matching}
  BY DEF Places
<1> HIDE DEF at, Nth, hits
<1>6. \A i \in at : Nth(Rank(at, i)) = i
  BY <1>2, <1>4
<1>7. hits \in [1..Cardinality(at) -> A]
  BY <1>1, <1>3, <1>4
<1>8. hits \in Seq(A) /\ DOMAIN hits = 1..Cardinality(at)
  BY <1>2, <1>7
<1>9. Elements(hits) = Elements(s) \cap Matching
  <2>1. ASSUME NEW n \in DOMAIN hits PROVE hits[n] \in Elements(s) \cap Matching
    BY <1>3, <1>4, <1>5, <1>8 DEF Elements
  <2>2. ASSUME NEW i \in DOMAIN s, s[i] \in Matching PROVE \E n \in DOMAIN hits : hits[n] = s[i]
    <3>1. i \in at
      BY <1>5, <2>2
    <3>2. hits[Rank(at, i)] = s[i]
      BY <1>2, <1>3, <1>6, <3>1
    <3> QED
      BY <1>2, <1>8, <3>1, <3>2
  <2> QED
    BY <2>1, <2>2 DEF Elements
<1>10. Distinct(s) => Distinct(hits)
  <2> SUFFICES ASSUME Distinct(s), NEW m \in DOMAIN hits, NEW n \in DOMAIN hits,
                      hits[m] = hits[n]
               PROVE  m = n
    BY DEF Distinct
  <2>1. Nth(m) \in DOMAIN s /\ Nth(n) \in DOMAIN s /\ s[Nth(m)] = s[Nth(n)]
    BY <1>3, <1>4, <1>5, <1>8
  <2>2. Nth(m) = Nth(n)
    BY <2>1 DEF Distinct
  <2> QED
    BY <1>4, <1>8, <2>2
<1> QED
  BY <1>8, <1>9, <1>10 DEF hits

\* A sequence of distinct items is as long as the set of them is large.
LEMMA DistinctItems ==
  ASSUME NEW A, NEW s \in Seq(A), Distinct(s)
  PROVE  IsFiniteSet(Elements(s)) /\ Cardinality(Elements(s)) = Len(s)
<1>1. Len(s) \in Nat /\ DOMAIN s = 1..Len(s) /\ s \in [DOMAIN s -> Elements(s)]
  BY DEF Elements
<1>2. s \in Surjection(DOMAIN s, Elements(s))
  BY <1>1 DEF Surjection, Elements
<1>3. s \in Injection(DOMAIN s, Elements(s))
  BY <1>1 DEF Injection, IsInjective, Distinct
<1>4. IsFiniteSet(DOMAIN s) /\ Cardinality(DOMAIN s) = Len(s)
  <2>1. ASSUME NEW n \in Nat PROVE IsFiniteSet(1..n) /\ Cardinality(1..n) = n
    BY FS_Interval
  <2> QED
    BY <1>1, <2>1
<1> QED
  BY <1>2, <1>3, <1>4, FS_Surjection

\* countDocuments is the number of the items that match.
LEMMA CountIsCardinality ==
  ASSUME NEW A, NEW s \in Seq(A), Distinct(s), NEW Matching
  PROVE  /\ Count(s, Matching) \in Nat
         /\ Count(s, Matching) = Cardinality(Elements(s) \cap Matching)
<1>1. /\ Selected(s, Matching) \in Seq(A) /\ Distinct(Selected(s, Matching))
      /\ Elements(Selected(s, Matching)) = Elements(s) \cap Matching
  BY SelectedItems
<1>2. Cardinality(Elements(Selected(s, Matching))) = Len(Selected(s, Matching))
  BY <1>1, DistinctItems
<1>3. Len(Selected(s, Matching)) \in Nat
  BY <1>1
<1> QED
  BY <1>1, <1>2, <1>3 DEF Count

\* The items of a page.
OnPage(hits, page, limit) ==
    {hits[i] : i \in {j \in DOMAIN hits : (j - 1) \div limit = page - 1}}

\* find answers with at most a page, of the items on that page and no others.
LEMMA FindIsThePage ==
  ASSUME NEW A, NEW s \in Seq(A), NEW Matching, NEW page \in Nat \ {0}, NEW limit \in Nat \ {0}
  PROVE  /\ \E n \in 0..limit : Find(s, Matching, page, limit) \in [1..n -> A]
         /\ Elements(Find(s, Matching, page, limit)) = OnPage(Selected(s, Matching), page, limit)
<1> DEFINE hits == Selected(s, Matching)
           found == Find(s, Matching, page, limit)
           k == Skip(page, limit)
           last == AtMost(k + limit, Len(hits))
           places == {j \in DOMAIN hits : (j - 1) \div limit = page - 1}
<1>1. hits \in Seq(A) /\ Len(hits) \in Nat /\ DOMAIN hits = 1..Len(hits)
  BY SelectedItems
<1>2. found = SubSeq(hits, k + 1, last)
  BY DEF Find
<1>3. k = (page - 1) * limit /\ k \in Nat
  BY DEF Skip
<1> HIDE DEF hits, found, k
<1>4. last \in Int /\ last <= Len(hits) /\ last <= k + limit
      /\ (last = Len(hits) \/ last = k + limit)
  <2>1. last = IF k + limit > Len(hits) THEN Len(hits) ELSE k + limit
    BY DEF AtMost
  <2>2. k \in Nat /\ limit \in Nat /\ Len(hits) \in Nat
    BY <1>1, <1>3
  <2> HIDE DEF last
  <2> QED
    BY <2>1, <2>2
<1> HIDE DEF last
<1>5. \A i \in (k + 1)..last : i \in DOMAIN hits /\ hits[i] \in A
  <2>1. k \in Nat
    BY <1>3
  <2>2. ASSUME NEW n \in Nat, last <= n, NEW i \in (k + 1)..last PROVE i \in 1..n
    BY <1>4, <2>1, <2>2
  <2>3. \A i \in (k + 1)..last : i \in 1..Len(hits)
    BY <1>1, <1>4, <2>2
  <2> QED
    BY <1>1, <2>3
<1> DEFINE size == IF k + 1 <= last THEN last - k ELSE 0
<1>6. /\ found \in Seq(A) /\ Len(found) = size
      /\ \A i \in 1..(last - k) : found[i] = hits[k + i]
  <2>1. k + 1 \in Int /\ k \in Nat
    BY <1>3
  <2>2. /\ found \in Seq(A)
        /\ Len(found) = IF k + 1 <= last THEN last - (k + 1) + 1 ELSE 0
        /\ \A i \in 1..(last - (k + 1) + 1) : found[i] = hits[(k + 1) + i - 1]
    BY <1>2, <1>4, <1>5, <2>1, SubSeqProperties
  <2>3. last - (k + 1) + 1 = last - k /\ \A i \in Int : (k + 1) + i - 1 = k + i
    BY <1>4, <2>1
  <2>4. Len(found) = size
    BY <2>2, <2>3
  <2>5. ASSUME NEW i \in 1..(last - k) PROVE found[i] = hits[k + i]
    <3>1. i \in 1..(last - (k + 1) + 1) /\ i \in Int
      BY <1>4, <2>1, <2>3
    <3>2. found[i] = hits[(k + 1) + i - 1] /\ (k + 1) + i - 1 = k + i
      BY <2>2, <2>3, <3>1
    <3> QED
      BY <3>2
  <2> QED
    BY <2>2, <2>4, <2>5
<1>7. size \in 0..limit /\ found \in [1..size -> A] /\ DOMAIN found = 1..size
  BY <1>3, <1>4, <1>6
<1>8. \A j \in DOMAIN hits : (j - 1) \div limit = page - 1 <=> j \in (k + 1)..last
  <2> SUFFICES ASSUME NEW j \in DOMAIN hits
               PROVE  (j - 1) \div limit = page - 1 <=> j \in (k + 1)..last
    OBVIOUS
  <2> DEFINE q == (j - 1) \div limit
  <2>1. q \in Nat /\ q * limit <= j - 1 /\ j - 1 < q * limit + limit /\ j \in Nat
    BY <1>1
  <2> HIDE DEF q
  <2>2. ASSUME q = page - 1 PROVE j \in (k + 1)..last
    <3>1. k = q * limit /\ k \in Nat /\ k <= j - 1 /\ j - 1 < k + limit
      BY <1>3, <2>1, <2>2
    <3>2. ASSUME NEW n \in Nat, j <= n, last = n \/ last = k + limit PROVE j \in (k + 1)..last
      BY <2>1, <3>1, <3>2
    <3>3. j <= Len(hits)
      BY <1>1
    <3> QED
      BY <1>1, <1>4, <3>2, <3>3
  <2>3. ASSUME j \in (k + 1)..last PROVE q = page - 1
    <3>1. k <= j - 1 /\ j - 1 < k + limit
      BY <1>3, <1>4, <2>1, <2>3
    <3>2. q * limit \in Nat /\ (q + 1) * limit = q * limit + limit
          /\ page * limit = k + limit
      BY <1>3, <2>1
    <3>3. (page - 1) * limit < (q + 1) * limit /\ q * limit < page * limit
      BY <1>3, <2>1, <3>1, <3>2
    <3>4. page - 1 < q + 1 /\ q < page
      BY <2>1, <3>3, ProductsAreOrdered
    <3> QED
      BY <2>1, <3>4
  <2> QED
    BY <2>2, <2>3 DEF q
<1>9. Elements(found) = {hits[i] : i \in places}
  <2>1. ASSUME NEW i \in DOMAIN found PROVE \E j \in places : hits[j] = found[i]
    <3>1. k + i \in DOMAIN hits /\ k + i \in (k + 1)..last /\ found[i] = hits[k + i]
      <4>1. i \in 1..size /\ k \in Nat
        BY <1>3, <1>7
      <4>2. k + i \in (k + 1)..last /\ i \in 1..(last - k)
        BY <1>4, <4>1
      <4> QED
        BY <1>5, <1>6, <4>2
    <3>2. k + i \in places
      BY <1>8, <3>1
    <3> QED
      BY <3>1, <3>2
  <2>2. ASSUME NEW j \in places PROVE \E i \in DOMAIN found : found[i] = hits[j]
    <3>1. j \in (k + 1)..last
      BY <1>8
    <3>2. j - k \in DOMAIN found /\ j - k \in 1..(last - k) /\ k + (j - k) = j
      BY <1>3, <1>4, <1>7, <3>1
    <3> QED
      BY <1>6, <3>2
  <2> QED
    BY <2>1, <2>2 DEF Elements
<1> QED
  BY <1>7, <1>9 DEF hits, found, OnPage

------------------------------------------------------------------------------
\* AdminUsers.  What a query finds is left open: which items and what total.

NobodyOr == Account \cup {NoUser}

IsList(l) ==
    \E items, total : \E since \in Nat, by \in NobodyOr :
        l = [items |-> items, total |-> total, since |-> since, by |-> by]

IsFetch(f) ==
    \E pc \in {"none", "sent", "items", "total"} : \E l :
        IsList(l) /\ f = [pc |-> pc, list |-> l]

Shapes ==
    /\ changes \in Nat
    /\ shownFrom \in 0..changes
    /\ session \in NobodyOr
    /\ key \in Key
    /\ DOMAIN cache = Key /\ DOMAIN failed = Key /\ DOMAIN fetch = Key
    /\ \A k \in Key : IsList(cache[k]) /\ IsFetch(fetch[k])
    /\ deletion \in [pc     : {"none", "sent", "done", "refused"},
                     target : NobodyOr,
                     by     : NobodyOr,
                     mine   : BOOLEAN,
                     at     : Nat]
    /\ deletion.at <= changes

\* Nobody is in the store, no list is known and none on its way unless the pages
\* are shown, and then the cookies are those of the user shown, or none.
StoreIsSession ==
    /\ view # "admin" => /\ store = NoUser
                         /\ \A k \in Key : ~Known(k) /\ ~Fetching(k)
    /\ view = "admin" => session \in {store, NoUser}

\* A list, and an answer to one of the two queries, was given to the user shown.
ListsAreOwn ==
    \A k \in Key : /\ Known(k) => cache[k].by = store
                   /\ fetch[k].pc \in {"items", "total"} => fetch[k].list.by = store

\* No fetch began before the deletion that the lists must show, and the key on the
\* page is being fetched, has failed or has a list from after it.
ListsAreRecent ==
    /\ \A k \in Key : Fetching(k) => fetch[k].list.since >= shownFrom
    /\ Settled => cache[key].since >= shownFrom

\* The inductive invariant.
UsersInv == Shapes /\ StoreIsSession /\ ListsAreOwn /\ ListsAreRecent

------------------------------------------------------------------------------
\* Lists and fetches

LEMMA KeysOfFirstPages == \A term \in Term : FirstPage(term) \in Key
<1>1. Cardinality(Account) \in Nat
  BY AdminUsersAssumption, FS_CardinalityType
<1>2. 1 \in 1..(Cardinality(Account) + 1)
  BY <1>1
<1> QED
  BY <1>2 DEF FirstPage, Key

LEMMA EmptyShapes ==
  /\ IsList(NoList) /\ NoList.since = 0
  /\ IsFetch(NoFetch) /\ NoFetch.pc = "none" /\ NoFetch.list = NoList
<1>1. IsList(NoList) /\ NoList.since = 0
  BY DEF IsList, NoList, NobodyOr
<1> QED
  BY <1>1 DEF IsFetch, NoFetch

LEMMA ListParts == \A l : IsList(l) => l.since \in Nat /\ l.by \in NobodyOr
  BY DEF IsList

LEMMA ListUpdates ==
  ASSUME NEW l, IsList(l), NEW x
  PROVE  /\ IsList([l EXCEPT !.total = x]) /\ IsList([l EXCEPT !.items = x])
         /\ [l EXCEPT !.total = x].by = l.by /\ [l EXCEPT !.items = x].by = l.by
         /\ [l EXCEPT !.total = x].since = l.since /\ [l EXCEPT !.items = x].since = l.since
<1>1. PICK items, total : \E since \in Nat, by \in NobodyOr :
        l = [items |-> items, total |-> total, since |-> since, by |-> by]
  BY DEF IsList
<1>2. PICK since \in Nat, by \in NobodyOr :
        l = [items |-> items, total |-> total, since |-> since, by |-> by]
  BY <1>1
<1>3. [l EXCEPT !.total = x] = [items |-> items, total |-> x, since |-> since, by |-> by]
  BY <1>2
<1>4. [l EXCEPT !.items = x] = [items |-> x, total |-> total, since |-> since, by |-> by]
  BY <1>2
<1>5. IsList([l EXCEPT !.total = x])
  BY <1>3 DEF IsList
<1>6. IsList([l EXCEPT !.items = x])
  BY <1>4 DEF IsList
<1> QED
  BY <1>2, <1>3, <1>4, <1>5, <1>6

LEMMA FetchParts ==
  ASSUME NEW f, IsFetch(f)
  PROVE  /\ f.pc \in {"none", "sent", "items", "total"} /\ IsList(f.list)
         /\ f.list.since \in Nat
<1>1. f.pc \in {"none", "sent", "items", "total"} /\ IsList(f.list)
  BY DEF IsFetch
<1> QED
  BY <1>1, ListParts

LEMMA NewFetchIs ==
  NewFetch = [pc |-> "sent",
              list |-> [items |-> <<>>, total |-> 0, since |-> changes, by |-> NoUser]]
<1> DEFINE sent == [NoFetch EXCEPT !.pc = "sent"]
<1>1. sent = [pc |-> "sent", list |-> NoList]
  BY DEF NoFetch
<1>2. NewFetch = [sent EXCEPT !.list.since = changes]
  BY DEF NewFetch
<1> HIDE DEF sent
<1>3. NewFetch = [pc |-> "sent", list |-> [NoList EXCEPT !.since = changes]]
  BY <1>1, <1>2
<1> QED
  BY <1>3 DEF NoList

LEMMA NewFetchShape ==
  ASSUME changes \in Nat
  PROVE  IsFetch(NewFetch) /\ NewFetch.pc = "sent" /\ NewFetch.list.since = changes
<1> DEFINE list == [items |-> <<>>, total |-> 0, since |-> changes, by |-> NoUser]
<1>1. NewFetch = [pc |-> "sent", list |-> list]
  BY NewFetchIs
<1>2. IsList(list) /\ list.since = changes
  BY DEF IsList, NobodyOr
<1> HIDE DEF list
<1> QED
  BY <1>1, <1>2 DEF IsFetch

\* The fetch of k once the first of its queries has been answered.
Answered(k, label) ==
    [pc |-> label,
     list |-> [items |-> IF label = "items" THEN Items(k) ELSE fetch[k].list.items,
               total |-> IF label = "total" THEN Total(k) ELSE fetch[k].list.total,
               since |-> fetch[k].list.since,
               by    |-> session]]

\* A query that is answered first adds its answer and its owner to the fetch.
LEMMA FirstAnswer ==
  ASSUME Shapes, NEW k \in Key, FirstQuery(k)
  PROVE  /\ DOMAIN fetch' = Key
         /\ fetch'[k] \in {Answered(k, "items"), Answered(k, "total")}
         /\ \A j \in Key \ {k} : fetch'[j] = fetch[j]
         /\ IsFetch(fetch'[k]) /\ fetch'[k].pc \in {"items", "total"}
         /\ fetch'[k].list.by = session /\ fetch'[k].list.since = fetch[k].list.since
<1>1. session \in NobodyOr /\ DOMAIN fetch = Key /\ IsFetch(fetch[k])
  BY DEF Shapes
<1>2. PICK pc \in {"none", "sent", "items", "total"} : \E l :
         IsList(l) /\ fetch[k] = [pc |-> pc, list |-> l]
  BY <1>1 DEF IsFetch
<1>3. PICK l : IsList(l) /\ fetch[k] = [pc |-> pc, list |-> l]
  BY <1>2
<1>4. PICK items, total : \E since \in Nat, by \in NobodyOr :
        l = [items |-> items, total |-> total, since |-> since, by |-> by]
  BY <1>3 DEF IsList
<1>5. PICK since \in Nat, by \in NobodyOr :
        l = [items |-> items, total |-> total, since |-> since, by |-> by]
  BY <1>4
<1>6. fetch[k].list.since = since /\ fetch[k].list.items = items /\ fetch[k].list.total = total
  BY <1>3, <1>5
<1> DEFINE Answer(label, i, n) ==
             [pc |-> label, list |-> [items |-> i, total |-> n, since |-> since, by |-> session]]
<1>7. ASSUME NEW label \in {"items", "total"}, fetch'[k] = Answered(k, label)
      PROVE  /\ IsFetch(fetch'[k]) /\ fetch'[k].pc \in {"items", "total"}
             /\ fetch'[k].list.by = session /\ fetch'[k].list.since = fetch[k].list.since
  <2> DEFINE i == IF label = "items" THEN Items(k) ELSE fetch[k].list.items
             n == IF label = "total" THEN Total(k) ELSE fetch[k].list.total
             list == [items |-> i, total |-> n, since |-> since, by |-> session]
  <2>1. fetch'[k] = [pc |-> label, list |-> list]
    BY <1>6, <1>7 DEF Answered
  <2> HIDE DEF i, n
  <2>2. IsList(list) /\ list.since = since /\ list.by = session
    BY <1>1 DEF IsList
  <2> HIDE DEF list
  <2> QED
    BY <1>6, <2>1, <2>2 DEF IsFetch
<1>8. ASSUME NEW x, fetch' = [fetch EXCEPT ![k].pc = "items", ![k].list.by = session,
                                           ![k].list.items = x]
      PROVE  /\ DOMAIN fetch' = Key /\ \A j \in Key \ {k} : fetch'[j] = fetch[j]
             /\ fetch'[k] = Answer("items", x, total)
  <2> DEFINE f == [fetch EXCEPT ![k].pc = "items"]
             g == [f EXCEPT ![k].list.by = session]
  <2>1. fetch' = [g EXCEPT ![k].list.items = x]
    BY <1>8
  <2>2. /\ DOMAIN f = Key /\ \A j \in Key \ {k} : f[j] = fetch[j]
        /\ f[k] = [pc |-> "items", list |-> l]
    BY <1>1, <1>3
  <2> HIDE DEF f
  <2>3. /\ DOMAIN g = Key /\ \A j \in Key \ {k} : g[j] = f[j]
        /\ g[k] = [pc |-> "items", list |-> [l EXCEPT !.by = session]]
    BY <2>2
  <2> HIDE DEF g
  <2>4. /\ DOMAIN fetch' = Key /\ \A j \in Key \ {k} : fetch'[j] = g[j]
        /\ fetch'[k] = [pc |-> "items", list |-> [[l EXCEPT !.by = session] EXCEPT !.items = x]]
    BY <2>1, <2>3
  <2>5. [[l EXCEPT !.by = session] EXCEPT !.items = x]
          = [items |-> x, total |-> total, since |-> since, by |-> session]
    <3> DEFINE owned == [items |-> items, total |-> total, since |-> since, by |-> session]
    <3>1. [l EXCEPT !.by = session] = owned
      BY <1>5
    <3>2. [owned EXCEPT !.items = x] = [items |-> x, total |-> total, since |-> since, by |-> session]
      OBVIOUS
    <3> HIDE DEF owned
    <3> QED
      BY <3>1, <3>2
  <2> QED
    BY <2>2, <2>3, <2>4, <2>5
<1>9. ASSUME NEW x, fetch' = [fetch EXCEPT ![k].pc = "total", ![k].list.by = session,
                                           ![k].list.total = x]
      PROVE  /\ DOMAIN fetch' = Key /\ \A j \in Key \ {k} : fetch'[j] = fetch[j]
             /\ fetch'[k] = Answer("total", items, x)
  <2> DEFINE f == [fetch EXCEPT ![k].pc = "total"]
             g == [f EXCEPT ![k].list.by = session]
  <2>1. fetch' = [g EXCEPT ![k].list.total = x]
    BY <1>9
  <2>2. /\ DOMAIN f = Key /\ \A j \in Key \ {k} : f[j] = fetch[j]
        /\ f[k] = [pc |-> "total", list |-> l]
    BY <1>1, <1>3
  <2> HIDE DEF f
  <2>3. /\ DOMAIN g = Key /\ \A j \in Key \ {k} : g[j] = f[j]
        /\ g[k] = [pc |-> "total", list |-> [l EXCEPT !.by = session]]
    BY <2>2
  <2> HIDE DEF g
  <2>4. /\ DOMAIN fetch' = Key /\ \A j \in Key \ {k} : fetch'[j] = g[j]
        /\ fetch'[k] = [pc |-> "total", list |-> [[l EXCEPT !.by = session] EXCEPT !.total = x]]
    BY <2>1, <2>3
  <2>5. [[l EXCEPT !.by = session] EXCEPT !.total = x]
          = [items |-> items, total |-> x, since |-> since, by |-> session]
    <3> DEFINE owned == [items |-> items, total |-> total, since |-> since, by |-> session]
    <3>1. [l EXCEPT !.by = session] = owned
      BY <1>5
    <3>2. [owned EXCEPT !.total = x] = [items |-> items, total |-> x, since |-> since, by |-> session]
      OBVIOUS
    <3> HIDE DEF owned
    <3> QED
      BY <3>1, <3>2
  <2> QED
    BY <2>2, <2>3, <2>4, <2>5
<1>10. CASE fetch' = [fetch EXCEPT ![k].pc = "items", ![k].list.by = session,
                                    ![k].list.items = Items(k)]
  <2>1. /\ DOMAIN fetch' = Key /\ \A j \in Key \ {k} : fetch'[j] = fetch[j]
        /\ fetch'[k] = Answer("items", Items(k), total)
    BY <1>8, <1>10
  <2>2. Answer("items", Items(k), total) = Answered(k, "items")
    BY <1>6 DEF Answered
  <2> HIDE DEF Answer
  <2> QED
    BY <1>7, <2>1, <2>2
<1>11. CASE fetch' = [fetch EXCEPT ![k].pc = "total", ![k].list.by = session,
                                    ![k].list.total = Total(k)]
  <2>1. /\ DOMAIN fetch' = Key /\ \A j \in Key \ {k} : fetch'[j] = fetch[j]
        /\ fetch'[k] = Answer("total", items, Total(k))
    BY <1>9, <1>11
  <2>2. Answer("total", items, Total(k)) = Answered(k, "total")
    BY <1>6 DEF Answered
  <2> HIDE DEF Answer
  <2> QED
    BY <1>7, <2>1, <2>2
<1> QED
  BY <1>10, <1>11 DEF FirstQuery

------------------------------------------------------------------------------
\* The steps

LEMMA InitIsInv == Init => UsersInv
<1> SUFFICES ASSUME Init PROVE UsersInv
  OBVIOUS
<1>1. session \in NobodyOr
  <2>1. users \in Seq(Account)
    BY AdminUsersAssumption DEF Init
  <2>2. Elements(users) \subseteq Account
    BY <2>1 DEF Elements
  <2> QED
    BY <2>2 DEF Init, NobodyOr
<1>2. key \in Key
  BY KeysOfFirstPages DEF Init, Term
<1>3. DOMAIN cache = Key /\ DOMAIN failed = Key /\ DOMAIN fetch = Key
      /\ \A k \in Key : cache[k] = NoList /\ fetch[k] = NoFetch
  BY DEF Init
<1>4. \A k \in Key : IsList(cache[k]) /\ IsFetch(fetch[k]) /\ ~Known(k) /\ ~Fetching(k)
                     /\ fetch[k].pc = "none"
  BY <1>3, EmptyShapes DEF Known, Fetching
<1>5. Shapes
  <2>1. /\ deletion \in [pc     : {"none", "sent", "done", "refused"},
                         target : NobodyOr,
                         by     : NobodyOr,
                         mine   : BOOLEAN,
                         at     : Nat]
        /\ deletion.at = 0
    BY DEF Init, NoDeletion, NobodyOr
  <2>2. changes = 0 /\ shownFrom = 0
    BY DEF Init
  <2> QED
    BY <1>1, <1>2, <1>3, <1>4, <2>1, <2>2 DEF Shapes
<1> QED
  BY <1>2, <1>4, <1>5 DEF Init, UsersInv, StoreIsSession, ListsAreOwn, ListsAreRecent, Settled

LEMMA FetchingParts ==
  ASSUME Shapes, NEW k \in Key
  PROVE  /\ fetch[k].pc \in {"none", "sent", "items", "total"}
         /\ fetch[k].list.since \in Nat /\ cache[k].since \in Nat
  BY FetchParts, ListParts DEF Shapes

\* A fetch that is begun, joined or repeated.
LEMMA FetchEffect ==
  ASSUME Shapes, ListsAreRecent, NEW k \in Key, NEW f \in {NewFetch, Joined(k)},
         fetch' = [fetch EXCEPT ![k] = f]
  PROVE  /\ DOMAIN fetch' = Key /\ \A j \in Key : IsFetch(fetch'[j])
         /\ fetch'[k].pc # "none"
         /\ \A j \in Key : fetch'[j].pc \in {"items", "total"} => fetch'[j] = fetch[j]
         /\ \A j \in Key : fetch'[j].pc # "none" => fetch'[j].list.since >= shownFrom
         /\ fetch'[k] = f /\ \A j \in Key \ {k} : fetch'[j] = fetch[j]
<1>1. /\ DOMAIN fetch' = Key /\ fetch'[k] = f
      /\ \A j \in Key \ {k} : fetch'[j] = fetch[j]
  BY DEF Shapes
<1>2. /\ changes \in Nat /\ changes >= shownFrom
      /\ \A j \in Key : /\ IsFetch(fetch[j])
                        /\ fetch[j].pc # "none" => fetch[j].list.since >= shownFrom
  BY DEF Shapes, ListsAreRecent, Fetching
<1>3. IsFetch(NewFetch) /\ NewFetch.pc = "sent" /\ NewFetch.list.since = changes
  BY <1>2, NewFetchShape
<1>4. f = NewFetch \/ (f = fetch[k] /\ fetch[k].pc # "none")
  BY DEF Joined, Fetching
<1> HIDE DEF Key
<1> QED
  BY <1>1, <1>2, <1>3, <1>4

\* The page turns to a key, or is mounted with one.
LEMMA TurnKeepsLists ==
  ASSUME UsersInv, NEW k \in Key, key' = k,
         fetch' = [fetch EXCEPT ![k] = Joined(k)],
         failed' = [failed EXCEPT ![k] = @ /\ Known(k)],
         UNCHANGED <<cache, changes, session, deletion, shownFrom>>
  PROVE  /\ Shapes' /\ ListsAreRecent'
         /\ UNCHANGED store => ListsAreOwn'
<1>1. /\ DOMAIN fetch' = Key /\ \A j \in Key : IsFetch(fetch'[j])
      /\ fetch'[k].pc # "none"
      /\ \A j \in Key : fetch'[j].pc \in {"items", "total"} => fetch'[j] = fetch[j]
      /\ \A j \in Key : fetch'[j].pc # "none" => fetch'[j].list.since >= shownFrom
  BY FetchEffect DEF UsersInv
<1>2. DOMAIN failed' = Key
  BY DEF UsersInv, Shapes
<1>3. Shapes'
  BY <1>1, <1>2 DEF UsersInv, Shapes
<1>4. ListsAreRecent'
  BY <1>1 DEF ListsAreRecent, Settled, Fetching
<1>5. ASSUME UNCHANGED store PROVE ListsAreOwn'
  BY <1>1, <1>5 DEF UsersInv, ListsAreOwn, Known
<1> QED
  BY <1>3, <1>4, <1>5

LEMMA EnterKeepsInv ==
  ASSUME UsersInv, view # "admin", NEW a \in NobodyOr, Enter(a), session' = a,
         UNCHANGED <<api, deletion, leaving, shownFrom>>
  PROVE  UsersInv'
<1>1. store' = a /\ view' = "admin" /\ UNCHANGED <<changes, deletion, shownFrom>>
  BY DEF Enter, api
<1>2. StoreIsSession'
  BY <1>1 DEF StoreIsSession
<1>3. \A k \in Key : ~Known(k) /\ ~Fetching(k)
  BY DEF UsersInv, StoreIsSession
<1>4. CASE a \in Admin
  <2> DEFINE k == FirstPage("")
  <2>1. /\ key' = k /\ fetch' = [fetch EXCEPT ![k] = Joined(k)]
        /\ failed' = [failed EXCEPT ![k] = failed[k] /\ Known(k)] /\ UNCHANGED cache
    BY <1>4 DEF Enter, Mount
  <2>2. k \in Key
    BY KeysOfFirstPages DEF Term
  <2> HIDE DEF k
  <2>3. /\ DOMAIN fetch' = Key /\ \A j \in Key : IsFetch(fetch'[j])
        /\ fetch'[k].pc # "none"
        /\ \A j \in Key : fetch'[j].pc \in {"items", "total"} => fetch'[j] = fetch[j]
        /\ \A j \in Key : fetch'[j].pc # "none" => fetch'[j].list.since >= shownFrom
    BY <2>1, <2>2, FetchEffect DEF UsersInv
  <2>4. DOMAIN failed' = Key
    BY <2>1 DEF UsersInv, Shapes
  <2>5. Shapes'
    BY <1>1, <2>1, <2>2, <2>3, <2>4 DEF UsersInv, Shapes
  <2>6. ListsAreRecent'
    BY <1>1, <2>1, <2>2, <2>3 DEF ListsAreRecent, Settled, Fetching
  <2>7. ListsAreOwn'
    BY <1>3, <2>1, <2>3 DEF ListsAreOwn, Known, Fetching
  <2> QED
    BY <1>2, <2>5, <2>6, <2>7 DEF UsersInv
<1>5. CASE a \notin Admin
  <2>1. UNCHANGED <<key, cache, failed, fetch>>
    BY <1>5 DEF Enter, place, lists
  <2>2. Shapes'
    BY <1>1, <2>1 DEF UsersInv, Shapes
  <2>3. ListsAreRecent'
    BY <1>1, <1>5, <2>1 DEF UsersInv, ListsAreRecent, Settled, Fetching, Mounted
  <2>4. ListsAreOwn'
    BY <1>3, <2>1 DEF ListsAreOwn, Known, Fetching
  <2> QED
    BY <1>2, <2>2, <2>3, <2>4 DEF UsersInv
<1> QED
  BY <1>4, <1>5

LEMMA CurrentUserKeepsInv == UsersInv /\ CurrentUser => UsersInv'
<1> SUFFICES ASSUME UsersInv, CurrentUser PROVE UsersInv'
  OBVIOUS
<1>1. CASE Enter(session)
  <2>1. view # "admin" /\ session \in NobodyOr /\ UNCHANGED <<api, session, deletion, leaving, shownFrom>>
    BY DEF CurrentUser, UsersInv, Shapes
  <2> QED
    BY <1>1, <2>1, EnterKeepsInv
<1>2. CASE view' = "login" /\ UNCHANGED <<store, place, lists>>
  <2>1. UNCHANGED <<changes, session, deletion, shownFrom, store, key, cache, failed, fetch>>
        /\ view # "admin" /\ view' # "admin"
    BY <1>2 DEF CurrentUser, api, place, lists
  <2>2. Shapes'
    BY <2>1 DEF UsersInv, Shapes
  <2> QED
    BY <2>1, <2>2 DEF UsersInv, StoreIsSession, ListsAreOwn, ListsAreRecent, Known, Fetching,
                      Settled, Mounted
<1> QED
  BY <1>1, <1>2 DEF CurrentUser

LEMMA LoginKeepsInv == ASSUME UsersInv, NEW a \in Account, Login(a) PROVE UsersInv'
  BY EnterKeepsInv DEF Login, NobodyOr

LEMMA LogoutKeepsInv == UsersInv /\ Logout => UsersInv'
<1> SUFFICES ASSUME UsersInv, Logout PROVE UsersInv'
  OBVIOUS
<1>1. UNCHANGED <<changes, deletion, shownFrom, store, view, key, cache, failed, fetch>>
      /\ session' \in {session, NoUser}
  BY DEF Logout, api, place, lists
<1>2. Shapes'
  BY <1>1 DEF UsersInv, Shapes, NobodyOr
<1> QED
  BY <1>1, <1>2 DEF UsersInv, StoreIsSession, ListsAreOwn, ListsAreRecent, Known, Fetching,
                    Settled, Mounted

LEMMA ReceiveLogoutKeepsInv == UsersInv /\ ReceiveLogout => UsersInv'
<1> SUFFICES ASSUME UsersInv, ReceiveLogout PROVE UsersInv'
  OBVIOUS
<1>1. UNCHANGED <<changes, session, shownFrom, key>> /\ store' = NoUser /\ view' # "admin"
      /\ deletion' = [deletion EXCEPT !.mine = FALSE]
  BY DEF ReceiveLogout, api, place
<1>2. /\ DOMAIN cache' = Key /\ DOMAIN failed' = Key /\ DOMAIN fetch' = Key
      /\ \A k \in Key : cache'[k] = NoList /\ fetch'[k] = NoFetch
  BY DEF ReceiveLogout, ClearQueries
<1>3. \A k \in Key : /\ IsList(cache'[k]) /\ IsFetch(fetch'[k]) /\ cache'[k] = NoList
                     /\ fetch'[k].pc = "none"
  BY <1>2, EmptyShapes
<1>4. Shapes'
  BY <1>1, <1>2, <1>3 DEF UsersInv, Shapes
<1> QED
  BY <1>1, <1>3, <1>4 DEF UsersInv, StoreIsSession, ListsAreOwn, ListsAreRecent, Known, Fetching,
                          Settled, Mounted

LEMMA ObserveKeepsInv ==
  ASSUME UsersInv, Mounted, NEW k, Observe(k),
         UNCHANGED <<api, account, deletion, leaving, shownFrom>>
  PROVE  UsersInv'
<1>1. /\ k \in Key /\ key' = k
      /\ fetch' = [fetch EXCEPT ![k] = Joined(k)]
      /\ failed' = [failed EXCEPT ![k] = failed[k] /\ Known(k)]
      /\ UNCHANGED <<cache, changes, session, store, view, deletion, shownFrom>>
  BY DEF Observe, api, account
<1>2. Shapes' /\ ListsAreRecent' /\ ListsAreOwn'
  BY <1>1, TurnKeepsLists
<1>3. StoreIsSession'
  BY <1>1 DEF UsersInv, StoreIsSession, Mounted
<1> QED
  BY <1>2, <1>3 DEF UsersInv

LEMMA FirstQueryKeepsInv == ASSUME UsersInv, NEW k \in Key, FirstQuery(k) PROVE UsersInv'
<1>1. /\ DOMAIN fetch' = Key
      /\ \A j \in Key \ {k} : fetch'[j] = fetch[j]
      /\ IsFetch(fetch'[k]) /\ fetch'[k].pc \in {"items", "total"}
      /\ fetch'[k].list.by = session /\ fetch'[k].list.since = fetch[k].list.since
  BY FirstAnswer DEF UsersInv
<1>2. UNCHANGED <<changes, session, view, store, key, cache, failed, deletion, shownFrom>>
      /\ fetch[k].pc = "sent" /\ session \in Admin
  BY DEF FirstQuery, api, account, place, Allowed
<1>3. view = "admin" /\ session = store
  BY <1>2, AdminUsersAssumption DEF UsersInv, StoreIsSession, Fetching
<1>4. Shapes'
  BY <1>1, <1>2 DEF UsersInv, Shapes
<1>5. StoreIsSession'
  BY <1>2, <1>3 DEF UsersInv, StoreIsSession
<1>6. ListsAreOwn'
  BY <1>1, <1>2, <1>3 DEF UsersInv, ListsAreOwn, Known
<1>7. ListsAreRecent'
  <2>1. \A j \in Key : (fetch'[j].pc # "none") => fetch[j].pc # "none"
                                                  /\ fetch'[j].list.since = fetch[j].list.since
    BY <1>1, <1>2
  <2>2. fetch[key].pc # "none" => fetch'[key].pc # "none"
    BY <1>1 DEF UsersInv, Shapes
  <2> QED
    BY <1>2, <2>1, <2>2 DEF UsersInv, ListsAreRecent, Fetching, Settled, Mounted, Known
<1> QED
  BY <1>4, <1>5, <1>6, <1>7 DEF UsersInv

LEMMA SecondQueryKeepsInv == ASSUME UsersInv, NEW k \in Key, SecondQuery(k) PROVE UsersInv'
<1>1. UNCHANGED <<changes, session, view, store, key, deletion, shownFrom>>
      /\ fetch[k].pc \in {"items", "total"}
      /\ failed' = [failed EXCEPT ![k] = FALSE]
      /\ fetch' = [fetch EXCEPT ![k] = NoFetch]
  BY DEF SecondQuery, api, account, place
<1>2. PICK x : \/ cache' = [cache EXCEPT ![k] = [fetch[k].list EXCEPT !.total = x]]
               \/ cache' = [cache EXCEPT ![k] = [fetch[k].list EXCEPT !.items = x]]
  BY DEF SecondQuery
<1>3. IsList(fetch[k].list)
  BY FetchParts DEF UsersInv, Shapes
<1>4. /\ DOMAIN cache' = Key /\ \A j \in Key \ {k} : cache'[j] = cache[j]
      /\ IsList(cache'[k]) /\ cache'[k].by = fetch[k].list.by
      /\ cache'[k].since = fetch[k].list.since
  <2> DEFINE l == fetch[k].list
             list == IF cache' = [cache EXCEPT ![k] = [l EXCEPT !.total = x]]
                        THEN [l EXCEPT !.total = x] ELSE [l EXCEPT !.items = x]
  <2>1. cache' = [cache EXCEPT ![k] = list]
    BY <1>2
  <2>2. IsList(list) /\ list.by = l.by /\ list.since = l.since
    BY <1>3, ListUpdates
  <2> HIDE DEF list
  <2> QED
    BY <2>1, <2>2 DEF UsersInv, Shapes
<1>5. /\ DOMAIN failed' = Key /\ DOMAIN fetch' = Key
      /\ \A j \in Key \ {k} : fetch'[j] = fetch[j] /\ failed'[j] = failed[j]
      /\ fetch'[k] = NoFetch
  BY <1>1 DEF UsersInv, Shapes
<1>6. view = "admin"
  BY <1>1 DEF UsersInv, StoreIsSession, Fetching
<1>7. Shapes'
  BY <1>1, <1>4, <1>5, EmptyShapes DEF UsersInv, Shapes
<1>8. StoreIsSession'
  BY <1>1, <1>6 DEF UsersInv, StoreIsSession
<1>9. ListsAreOwn'
  BY <1>1, <1>4, <1>5, EmptyShapes DEF UsersInv, ListsAreOwn, Known
<1>10. ListsAreRecent'
  <2>1. \A j \in Key : fetch'[j].pc # "none" => fetch'[j] = fetch[j]
    BY <1>5, EmptyShapes
  <2>2. cache'[k].since >= shownFrom
    BY <1>1, <1>4 DEF UsersInv, ListsAreRecent, Fetching
  <2>3. key # k => cache'[key] = cache[key] /\ fetch'[key] = fetch[key] /\ failed'[key] = failed[key]
    BY <1>4, <1>5 DEF UsersInv, Shapes
  <2> QED
    BY <1>1, <2>1, <2>2, <2>3 DEF UsersInv, ListsAreRecent, Fetching, Settled, Mounted, Known
<1> QED
  BY <1>7, <1>8, <1>9, <1>10 DEF UsersInv

LEMMA ReceiveErrorKeepsInv == ASSUME UsersInv, NEW k \in Key, ReceiveError(k) PROVE UsersInv'
<1>1. UNCHANGED <<changes, session, view, store, key, cache, deletion, shownFrom>>
      /\ failed' = [failed EXCEPT ![k] = TRUE] /\ fetch' = [fetch EXCEPT ![k] = NoFetch]
      /\ fetch[k].pc # "none"
  BY DEF ReceiveError, api, account, place, Fetching
<1>2. /\ DOMAIN failed' = Key /\ DOMAIN fetch' = Key
      /\ \A j \in Key \ {k} : fetch'[j] = fetch[j] /\ failed'[j] = failed[j]
      /\ fetch'[k] = NoFetch /\ failed'[k]
  BY <1>1 DEF UsersInv, Shapes
<1>3. Shapes'
  BY <1>1, <1>2, EmptyShapes DEF UsersInv, Shapes
<1>4. StoreIsSession'
  BY <1>1 DEF UsersInv, StoreIsSession, Fetching
<1>5. ListsAreOwn'
  BY <1>1, <1>2, EmptyShapes DEF UsersInv, ListsAreOwn, Known
<1>6. ListsAreRecent'
  <2>1. \A j \in Key : fetch'[j].pc # "none" => fetch'[j] = fetch[j]
    BY <1>2, EmptyShapes
  <2>2. key # k => fetch'[key] = fetch[key] /\ failed'[key] = failed[key]
    BY <1>2 DEF UsersInv, Shapes
  <2> QED
    BY <1>1, <1>2, <2>1, <2>2 DEF UsersInv, ListsAreRecent, Fetching, Settled, Mounted, Known
<1> QED
  BY <1>3, <1>4, <1>5, <1>6 DEF UsersInv

LEMMA CollectKeepsInv == ASSUME UsersInv, NEW k \in Key, Collect(k) PROVE UsersInv'
<1>1. UNCHANGED <<changes, session, view, store, key, fetch, deletion, shownFrom>>
      /\ cache' = [cache EXCEPT ![k] = NoList] /\ failed' = [failed EXCEPT ![k] = FALSE]
      /\ Known(k) /\ ~(Mounted /\ k = key)
  BY DEF Collect, api, account, place
<1>2. /\ DOMAIN failed' = Key /\ DOMAIN cache' = Key
      /\ \A j \in Key \ {k} : cache'[j] = cache[j] /\ failed'[j] = failed[j]
      /\ cache'[k] = NoList
  BY <1>1 DEF UsersInv, Shapes
<1>3. Shapes'
  BY <1>1, <1>2, EmptyShapes DEF UsersInv, Shapes
<1>4. StoreIsSession'
  BY <1>1 DEF UsersInv, StoreIsSession
<1>5. ListsAreOwn'
  BY <1>1, <1>2 DEF UsersInv, ListsAreOwn, Known
<1>6. ListsAreRecent'
  <2>1. Mounted => cache'[key] = cache[key] /\ failed'[key] = failed[key]
    BY <1>1, <1>2 DEF UsersInv, Shapes
  <2> QED
    BY <1>1, <2>1 DEF UsersInv, ListsAreRecent, Fetching, Settled, Mounted, Known
<1> QED
  BY <1>3, <1>4, <1>5, <1>6 DEF UsersInv

\* The deletion, until it is answered, and the writes to the collection: nothing
\* that the page shows is touched.
LEMMA WriteKeepsInv ==
  ASSUME UsersInv, changes' \in Nat, changes <= changes',
         deletion' \in [pc     : {"none", "sent", "done", "refused"},
                        target : NobodyOr,
                        by     : NobodyOr,
                        mine   : BOOLEAN,
                        at     : Nat],
         deletion'.at <= changes',
         UNCHANGED <<account, place, lists, shownFrom>>
  PROVE  UsersInv'
<1>1. UNCHANGED <<session, view, store, key, cache, failed, fetch, shownFrom>>
  BY DEF account, place, lists
<1>2. Shapes'
  BY <1>1 DEF UsersInv, Shapes
<1> QED
  BY <1>1, <1>2 DEF UsersInv, StoreIsSession, ListsAreOwn, ListsAreRecent, Fetching, Settled,
                    Mounted, Known

LEMMA DeletionKeepsInv ==
  ASSUME UsersInv,
         (\E a \in Account : Delete(a)) \/ ServeDelete \/ RefuseDelete \/ ReceiveNotDeleted
  PROVE  UsersInv'
<1> DEFINE Shape == [pc     : {"none", "sent", "done", "refused"},
                     target : NobodyOr,
                     by     : NobodyOr,
                     mine   : BOOLEAN,
                     at     : Nat]
<1>1. /\ deletion \in Shape /\ changes \in Nat /\ deletion.at \in Nat /\ deletion.at <= changes
      /\ session \in NobodyOr
  BY DEF UsersInv, Shapes
<1>2. UNCHANGED <<account, place, lists, shownFrom>>
  BY DEF Delete, ServeDelete, RefuseDelete, ReceiveNotDeleted
<1>3. ASSUME NEW a \in Account, Delete(a) PROVE UsersInv'
  <2>1. changes' = changes
    BY <1>3 DEF Delete, api
  <2>2. deletion' = [pc |-> "sent", target |-> a, by |-> session, mine |-> TRUE, at |-> 0]
    BY <1>3 DEF Delete
  <2>3. deletion' \in Shape /\ deletion'.at = 0
    BY <1>1, <2>2 DEF NobodyOr
  <2> QED
    BY <1>1, <1>2, <2>1, <2>3, WriteKeepsInv
<1>4. CASE ServeDelete
  <2>1. changes' = changes + 1
    BY <1>4 DEF ServeDelete
  <2>2. CASE deletion' = [deletion EXCEPT !.pc = "done", !.at = changes']
    <3>1. changes' \in Nat
      BY <1>1, <2>1
    <3> DEFINE done == [deletion EXCEPT !.pc = "done"]
    <3>2. done \in Shape /\ deletion' = [done EXCEPT !.at = changes']
      BY <1>1, <2>2
    <3> HIDE DEF done
    <3>3. deletion' \in Shape /\ deletion'.at = changes'
      BY <3>1, <3>2
    <3> QED
      BY <1>1, <1>2, <2>1, <3>3, WriteKeepsInv
  <2>3. CASE deletion' = [deletion EXCEPT !.pc = "refused"]
    <3>1. deletion' \in Shape /\ deletion'.at = deletion.at
      BY <1>1, <2>3
    <3> QED
      BY <1>1, <1>2, <2>1, <3>1, WriteKeepsInv
  <2> QED
    BY <1>4, <2>2, <2>3 DEF ServeDelete
<1>5. CASE RefuseDelete
  <2>1. changes' = changes /\ deletion' = [deletion EXCEPT !.pc = "refused"]
    BY <1>5 DEF RefuseDelete, api
  <2>2. deletion' \in Shape /\ deletion'.at = deletion.at
    BY <1>1, <2>1
  <2> QED
    BY <1>1, <1>2, <2>1, <2>2, WriteKeepsInv
<1>6. CASE ReceiveNotDeleted
  <2>1. changes' = changes
    BY <1>6 DEF ReceiveNotDeleted, api
  <2>2. deletion' \in Shape /\ deletion'.at = 0
    BY <1>6 DEF ReceiveNotDeleted, NoDeletion, NobodyOr
  <2> QED
    BY <1>1, <1>2, <2>1, <2>2, WriteKeepsInv
<1> QED
  BY <1>3, <1>4, <1>5, <1>6

LEMMA CollectionKeepsInv ==
  ASSUME UsersInv, NEW a \in Account, Register(a) \/ RemoveElsewhere(a)
  PROVE  UsersInv'
<1>1. /\ changes' = changes + 1 /\ deletion' = deletion
      /\ UNCHANGED <<account, place, lists, shownFrom>>
  BY DEF Register, RemoveElsewhere
<1>2. changes \in Nat /\ deletion.at \in Nat /\ deletion.at <= changes
  BY DEF UsersInv, Shapes
<1> QED
  BY <1>1, <1>2, WriteKeepsInv DEF UsersInv, Shapes

\* The answer to a deletion: what the page shows is fetched again, and what is in
\* flight otherwise keeps the page from promising anything.
LEMMA ReceiveDeletedKeepsInv == UsersInv /\ ReceiveDeleted => UsersInv'
<1> SUFFICES ASSUME UsersInv, ReceiveDeleted PROVE UsersInv'
  OBVIOUS
<1>1. /\ UNCHANGED <<changes, session, view, store, key, cache, failed>>
      /\ deletion' = NoDeletion
      /\ shownFrom' = IF Overlapped THEN shownFrom ELSE deletion.at
      /\ fetch' = IF Mounted
                     THEN [fetch EXCEPT ![key] = IF Known(key) THEN NewFetch ELSE Joined(key)]
                     ELSE fetch
  BY DEF ReceiveDeleted, Invalidate, api, account, place
<1>2. /\ shownFrom \in 0..changes /\ changes \in Nat /\ deletion.at \in Nat
      /\ deletion.at <= changes /\ key \in Key
  BY DEF UsersInv, Shapes
<1>3. shownFrom' \in 0..changes
  BY <1>1, <1>2
<1>4. Shapes' /\ StoreIsSession' /\ ListsAreOwn'
  <2>0. deletion' \in [pc     : {"none", "sent", "done", "refused"},
                       target : NobodyOr,
                       by     : NobodyOr,
                       mine   : BOOLEAN,
                       at     : Nat]
        /\ deletion'.at = 0
    BY <1>1 DEF NoDeletion, NobodyOr
  <2>1. /\ DOMAIN fetch' = Key /\ \A j \in Key : IsFetch(fetch'[j])
        /\ \A j \in Key : fetch'[j].pc \in {"items", "total"} => fetch'[j] = fetch[j]
    <3>1. CASE Mounted
      <4> DEFINE f == IF Known(key) THEN NewFetch ELSE Joined(key)
      <4>1. f \in {NewFetch, Joined(key)} /\ fetch' = [fetch EXCEPT ![key] = f]
        BY <1>1, <3>1
      <4> HIDE DEF f
      <4> QED
        BY <1>2, <4>1, FetchEffect DEF UsersInv
    <3>2. CASE ~Mounted
      BY <1>1, <3>2 DEF UsersInv, Shapes
    <3> QED
      BY <3>1, <3>2
  <2>2. Shapes'
    BY <1>1, <1>2, <1>3, <2>0, <2>1 DEF UsersInv, Shapes
  <2>3. StoreIsSession'
    BY <1>1 DEF UsersInv, StoreIsSession, Known, Fetching, Mounted
  <2>4. ListsAreOwn'
    BY <1>1, <2>1 DEF UsersInv, ListsAreOwn, Known
  <2> QED
    BY <2>2, <2>3, <2>4
<1>5. ListsAreRecent'
  <2>1. CASE Mounted
    <3> DEFINE f == IF Known(key) THEN NewFetch ELSE Joined(key)
    <3>1. f \in {NewFetch, Joined(key)} /\ fetch' = [fetch EXCEPT ![key] = f]
      BY <1>1, <2>1
    <3>2. f = NewFetch \/ (Overlapped /\ f = fetch[key])
      BY <1>2, <2>1 DEF Joined, Overlapped
    <3> HIDE DEF f
    <3>3. /\ fetch'[key].pc # "none" /\ fetch'[key] = f
          /\ \A j \in Key : fetch'[j].pc # "none" => fetch'[j].list.since >= shownFrom
          /\ \A j \in Key \ {key} : fetch'[j] = fetch[j]
      BY <1>2, <3>1, FetchEffect DEF UsersInv
    <3>4. ~Settled'
      BY <1>1, <3>3 DEF Settled, Fetching
    <3>5. ASSUME NEW j \in Key, fetch'[j].pc # "none" PROVE fetch'[j].list.since >= shownFrom'
      <4>1. CASE Overlapped
        BY <1>1, <3>3, <3>5, <4>1
      <4>2. CASE ~Overlapped
        <5>1. j = key
          BY <3>3, <3>5, <4>2 DEF Overlapped, Fetching
        <5>2. fetch'[j].list.since = changes
          BY <1>2, <3>2, <3>3, <4>2, <5>1, NewFetchShape
        <5> QED
          BY <1>1, <1>2, <4>2, <5>2
      <4> QED
        BY <4>1, <4>2
    <3> QED
      BY <3>4, <3>5 DEF ListsAreRecent, Fetching
  <2>2. CASE ~Mounted
    <3>1. fetch' = fetch /\ ~Settled'
      BY <1>1, <2>2 DEF Settled, Mounted
    <3>2. ASSUME NEW j \in Key, fetch[j].pc # "none" PROVE fetch[j].list.since >= shownFrom'
      <4>1. Overlapped
        BY <2>2, <3>2 DEF Overlapped, Fetching
      <4> QED
        BY <1>1, <3>2, <4>1 DEF UsersInv, ListsAreRecent, Fetching
    <3> QED
      BY <3>1, <3>2 DEF ListsAreRecent, Fetching
  <2> QED
    BY <2>1, <2>2
<1> QED
  BY <1>4, <1>5 DEF UsersInv

LEMMA NextKeepsInv == UsersInv /\ [Next]_vars => UsersInv'
<1> SUFFICES ASSUME UsersInv, [Next]_vars PROVE UsersInv'
  OBVIOUS
<1>1. ASSUME (\E term \in Term : Search(term)) \/ NextPage \/ PreviousPage PROVE UsersInv'
  <2>1. Mounted /\ UNCHANGED <<api, account, deletion, leaving, shownFrom>>
    BY <1>1 DEF Search, NextPage, PreviousPage, Pager
  <2>2. \E k : Observe(k)
    BY <1>1 DEF Search, NextPage, PreviousPage
  <2> QED
    BY <2>1, <2>2, ObserveKeepsInv
<1>2. ASSUME UNCHANGED vars PROVE UsersInv'
  <2>1. /\ changes' = changes /\ deletion' = deletion
        /\ UNCHANGED <<account, place, lists, shownFrom>>
    BY <1>2 DEF vars, api
  <2>2. changes \in Nat /\ deletion.at <= changes
    BY DEF UsersInv, Shapes
  <2> QED
    BY <2>1, <2>2, WriteKeepsInv DEF UsersInv, Shapes
<1> QED
  BY <1>1, <1>2, CurrentUserKeepsInv, LoginKeepsInv, LogoutKeepsInv, ReceiveLogoutKeepsInv,
     FirstQueryKeepsInv, SecondQueryKeepsInv, ReceiveErrorKeepsInv, CollectKeepsInv,
     DeletionKeepsInv, CollectionKeepsInv, ReceiveDeletedKeepsInv
     DEF Next

LEMMA UsersAlways == Spec => []UsersInv
<1>1. Init => UsersInv
  BY InitIsInv
<1>2. UsersInv /\ [Next]_vars => UsersInv'
  BY NextKeepsInv
<1> QED
  BY <1>1, <1>2, PTL DEF Spec

\* useLogout and AdminRoute: whoever signs in, after whatever sign-outs, refusals
\* and late answers, every list known to the page was answered to their session.
THEOREM ListsAreTheUsersOwn == Spec => []ListsBelongToTheUser
<1>1. UsersInv => ListsBelongToTheUser
  BY DEF UsersInv, ListsAreOwn, ListsBelongToTheUser
<1> QED
  BY <1>1, UsersAlways, PTL

\* useDeleteUser: a list that settles after a deletion was answered was fetched
\* after it, whatever pages were cached, collected or in flight, and however
\* fetches fail.
THEOREM DeletionsAreShown == Spec => []DeletionIsReflected
<1>1. UsersInv => DeletionIsReflected
  BY DEF UsersInv, ListsAreRecent, DeletionIsReflected
<1> QED
  BY <1>1, UsersAlways, PTL

------------------------------------------------------------------------------
\* What a query finds is the collection's, from here on.

ItemLists == UNION {[1..n -> Account] : n \in 0..LIMIT}
Totals == 0..Cardinality(Account)

Collection ==
    /\ users \in Seq(Account) /\ Distinct(users)
    /\ unborn \subseteq Account /\ Elements(users) \cap unborn = {}
    /\ changes \in 0..MaxChanges

PageTypes ==
    /\ view \in {"login", "loading", "admin"}
    /\ store \in NobodyOr
    /\ lastKey \in Key
    /\ failed \in [Key -> BOOLEAN]
    /\ leaving \in BOOLEAN

ListTypes == cache \in [Key -> List] /\ fetch \in [Key -> Fetch]

TypesInv == Collection /\ PageTypes /\ ListTypes

LEMMA TypesSuffice == UsersInv /\ TypesInv => TypeOK
<1> SUFFICES ASSUME UsersInv, TypesInv PROVE TypeOK
  OBVIOUS
<1>1. Cardinality(Elements(users)) = Len(users)
  BY DistinctItems DEF TypesInv, Collection
<1>2. deletion \in Deletion /\ shownFrom \in 0..MaxChanges
  <2>1. /\ deletion \in [pc     : {"none", "sent", "done", "refused"},
                         target : NobodyOr,
                         by     : NobodyOr,
                         mine   : BOOLEAN,
                         at     : Nat]
        /\ deletion.at <= changes /\ shownFrom \in 0..changes
    BY DEF UsersInv, Shapes
  <2>2. changes \in 0..MaxChanges /\ MaxChanges \in Nat
    BY AdminUsersAssumption DEF TypesInv, Collection
  <2>3. deletion.at \in 0..MaxChanges /\ shownFrom \in 0..MaxChanges
    <3>1. deletion.at \in Nat
      BY <2>1
    <3> QED
      BY <2>1, <2>2, <3>1
  <2> QED
    BY <2>1, <2>3 DEF Deletion, NobodyOr
<1> QED
  BY <1>1, <1>2 DEF UsersInv, Shapes, TypesInv, Collection, PageTypes, ListTypes, TypeOK, NobodyOr

LEMMA Sizes ==
  /\ Cardinality(Account) \in Nat
  /\ LIMIT \in Nat \ {0} /\ LimitOf(LIMIT) = LIMIT
  /\ \A k \in Key : k.page \in Nat \ {0} /\ PageOf(k.page) = k.page
<1>1. Cardinality(Account) \in Nat
  BY AdminUsersAssumption, FS_CardinalityType
<1>2. LIMIT \in Nat \ {0} /\ LimitOf(LIMIT) = LIMIT
  BY AdminUsersAssumption DEF LimitOf, OrDefault, AtLeastOne, AtMost, MAX_LIMIT
<1>3. ASSUME NEW k \in Key PROVE k.page \in Nat \ {0} /\ PageOf(k.page) = k.page
  <2>1. k.page \in 1..(Cardinality(Account) + 1)
    BY DEF Key
  <2> QED
    BY <1>1, <2>1 DEF PageOf, OrDefault, AtLeastOne
<1> QED
  BY <1>1, <1>2, <1>3

\* The two queries of a page, and what their answers are.
LEMMA QueryAnswers ==
  ASSUME Collection, NEW k \in Key
  PROVE  /\ Items(k) \in ItemLists
         /\ Total(k) \in Totals
         /\ Total(k) = Cardinality(Elements(users) \cap Hits(k.term))
         /\ Elements(Items(k)) = OnPage(Selected(users, Hits(k.term)), k.page, LIMIT)
<1>1. users \in Seq(Account) /\ Distinct(users) /\ Elements(users) \subseteq Account
  BY DEF Collection, Elements
<1>2. Items(k) = Find(users, Hits(k.term), k.page, LIMIT)
  BY Sizes DEF Items
<1>3. /\ \E n \in 0..LIMIT : Items(k) \in [1..n -> Account]
      /\ Elements(Items(k)) = OnPage(Selected(users, Hits(k.term)), k.page, LIMIT)
  <2>1. k.page \in Nat \ {0} /\ LIMIT \in Nat \ {0}
    BY Sizes
  <2> DEFINE page == k.page
             Matching == Hits(k.term)
  <2>2. page \in Nat \ {0}
    BY <2>1
  <2> HIDE DEF page, Matching
  <2>3. \A Any : \A s \in Seq(Any) : 
         Elements(Find(s, Matching, page, LIMIT)) = OnPage(Selected(s, Matching), page, LIMIT)
    BY <2>1, <2>2, FindIsThePage
  <2>4. Elements(Find(users, Matching, page, LIMIT)) = OnPage(Selected(users, Matching), page, LIMIT)
    BY <1>1, <2>3
  <2>5. \E n \in 0..LIMIT : Find(users, Matching, page, LIMIT) \in [1..n -> Account]
    BY <1>1, <2>1, <2>2, FindIsThePage
  <2> QED
    BY <1>2, <2>4, <2>5 DEF page, Matching
<1>4. Total(k) \in Nat /\ Total(k) = Cardinality(Elements(users) \cap Hits(k.term))
  BY <1>1, CountIsCardinality DEF Total
<1>5. Elements(users) \cap Hits(k.term) \in SUBSET Account
  BY <1>1
<1>6. Total(k) <= Cardinality(Account)
  BY <1>4, <1>5, AdminUsersAssumption, FS_Subset
<1>7. Items(k) \in ItemLists
  BY <1>3 DEF ItemLists
<1>8. Total(k) \in Totals
  BY <1>4, <1>6, Sizes DEF Totals
<1> QED
  BY <1>3, <1>4, <1>7, <1>8

LEMMA ListsAre ==
  List = [items : ItemLists, total : Totals, since : 0..MaxChanges, by : NobodyOr]
  BY DEF List, ItemLists, Totals, NobodyOr

LEMMA EmptyTypes == NoList \in List /\ NoFetch \in Fetch /\ NoList.total = 0 /\ NoList.since = 0
<1>1. 0 \in 0..LIMIT /\ 0 \in Totals /\ 0 \in 0..MaxChanges
  BY Sizes, AdminUsersAssumption DEF Totals
<1>2. <<>> \in [1..0 -> Account]
  OBVIOUS
<1>3. <<>> \in ItemLists
  BY <1>1, <1>2 DEF ItemLists
<1>4. NoList \in List /\ NoList.total = 0 /\ NoList.since = 0
  BY <1>1, <1>3, ListsAre DEF NoList, NobodyOr
<1> QED
  BY <1>4 DEF NoFetch, Fetch

LEMMA NewFetchType == ASSUME changes \in 0..MaxChanges PROVE NewFetch \in Fetch
<1> DEFINE list == [items |-> <<>>, total |-> 0, since |-> changes, by |-> NoUser]
<1>1. NewFetch = [pc |-> "sent", list |-> list]
  BY NewFetchIs
<1>2. NoList.items \in ItemLists /\ NoList.total \in Totals /\ NoList.by \in NobodyOr
  BY EmptyTypes, ListsAre
<1>3. list \in List
  BY <1>2, ListsAre DEF NoList
<1> HIDE DEF list
<1> QED
  BY <1>1, <1>3 DEF Fetch

------------------------------------------------------------------------------
\* What a step does to the lists and the fetches, unless it writes the collection

CacheStep(k) ==
    \/ cache'[k] \in {cache[k], NoList}
    \/ fetch[k].pc = "items" /\ cache'[k] = [fetch[k].list EXCEPT !.total = Total(k)]
    \/ fetch[k].pc = "total" /\ cache'[k] = [fetch[k].list EXCEPT !.items = Items(k)]

FetchStep(k) ==
    \/ fetch'[k] \in {fetch[k], NoFetch, NewFetch}
    \/ fetch'[k] \in {Answered(k, "items"), Answered(k, "total")}

ListStep ==
    /\ cache' \in [Key -> List] /\ fetch' \in [Key -> Fetch]
    /\ \A k \in Key : CacheStep(k) /\ FetchStep(k)

LEMMA FetchFields ==
  ASSUME ListTypes, NEW k \in Key
  PROVE  /\ fetch[k] \in Fetch /\ fetch[k].list \in List /\ cache[k] \in List
         /\ fetch[k].pc \in {"none", "sent", "items", "total"}
         /\ fetch[k].list.items \in ItemLists /\ fetch[k].list.total \in Totals
         /\ fetch[k].list.since \in 0..MaxChanges
<1>1. fetch[k] \in Fetch /\ cache[k] \in List
  BY DEF ListTypes
<1>2. fetch[k].list \in List /\ fetch[k].pc \in {"none", "sent", "items", "total"}
  BY <1>1 DEF Fetch
<1> QED
  BY <1>1, <1>2, ListsAre

LEMMA ListsStay == ListTypes /\ UNCHANGED <<cache, fetch>> => ListStep
  BY DEF ListTypes, ListStep, CacheStep, FetchStep

LEMMA FetchIsSet ==
  ASSUME Collection, ListTypes, NEW k \in Key, NEW f \in {fetch[k], NoFetch, NewFetch},
         fetch' = [fetch EXCEPT ![k] = f], UNCHANGED cache
  PROVE  ListStep
<1>1. f \in Fetch
  BY EmptyTypes, NewFetchType DEF Collection, ListTypes
<1>2. fetch' \in [Key -> Fetch]
  BY <1>1 DEF ListTypes
<1>3. \A j \in Key : fetch'[j] \in {fetch[j], NoFetch, NewFetch}
  BY DEF ListTypes
<1> QED
  BY <1>2, <1>3 DEF ListTypes, ListStep, CacheStep, FetchStep

LEMMA JoinedIs == ASSUME NEW k PROVE Joined(k) \in {fetch[k], NewFetch}
  BY DEF Joined

LEMMA EnterSteps == ASSUME Collection, ListTypes, NEW a, Enter(a) PROVE ListStep
<1>1. CASE a \in Admin
  <2> DEFINE k == FirstPage("")
  <2>1. k \in Key
    BY KeysOfFirstPages DEF Term
  <2>2. fetch' = [fetch EXCEPT ![k] = Joined(k)] /\ UNCHANGED cache
    BY <1>1 DEF Enter, Mount
  <2> HIDE DEF k
  <2> QED
    BY <2>1, <2>2, JoinedIs, FetchIsSet
<1>2. CASE a \notin Admin
  BY <1>2, ListsStay DEF Enter, lists
<1> QED
  BY <1>1, <1>2

LEMMA ObserveSteps == ASSUME Collection, ListTypes, NEW k, Observe(k) PROVE ListStep
<1>1. k \in Key /\ fetch' = [fetch EXCEPT ![k] = Joined(k)] /\ UNCHANGED cache
  BY DEF Observe
<1> QED
  BY <1>1, JoinedIs, FetchIsSet

LEMMA ClearSteps == ASSUME ListTypes, ClearQueries PROVE ListStep
<1>1. cache' = [k \in Key |-> NoList] /\ fetch' = [k \in Key |-> NoFetch]
  BY DEF ClearQueries
<1>2. cache' \in [Key -> List] /\ fetch' \in [Key -> Fetch]
  BY <1>1, EmptyTypes
<1> QED
  BY <1>1, <1>2 DEF ListStep, CacheStep, FetchStep

LEMMA FirstQuerySteps ==
  ASSUME UsersInv, TypesInv, NEW k \in Key, FirstQuery(k)
  PROVE  ListStep
<1>1. /\ fetch'[k] \in {Answered(k, "items"), Answered(k, "total")}
      /\ \A j \in Key \ {k} : fetch'[j] = fetch[j]
      /\ UNCHANGED cache
  BY FirstAnswer DEF UsersInv, FirstQuery
<1>2. ASSUME NEW label \in {"items", "total"} PROVE Answered(k, label) \in Fetch
  <2> DEFINE i == IF label = "items" THEN Items(k) ELSE fetch[k].list.items
             n == IF label = "total" THEN Total(k) ELSE fetch[k].list.total
             list == [items |-> i, total |-> n, since |-> fetch[k].list.since, by |-> session]
  <2>1. i \in ItemLists /\ n \in Totals /\ fetch[k].list.since \in 0..MaxChanges
    BY FetchFields, QueryAnswers DEF TypesInv
  <2>2. session \in NobodyOr
    BY DEF UsersInv, Shapes
  <2> HIDE DEF i, n
  <2>3. list \in List
    BY <2>1, <2>2, ListsAre
  <2>4. Answered(k, label) = [pc |-> label, list |-> list]
    BY DEF Answered, i, n
  <2> HIDE DEF list
  <2> QED
    BY <2>3, <2>4 DEF Fetch
<1>3. fetch'[k] \in Fetch
  BY <1>1, <1>2
<1>4. fetch' \in [Key -> Fetch]
  <2>1. fetch' = [j \in Key |-> fetch'[j]]
    BY DEF FirstQuery, TypesInv, ListTypes
  <2>2. \A j \in Key : fetch'[j] \in Fetch
    BY <1>1, <1>3 DEF TypesInv, ListTypes
  <2> QED
    BY <2>1, <2>2
<1> QED
  BY <1>1, <1>4 DEF TypesInv, ListTypes, ListStep, CacheStep, FetchStep

LEMMA SecondQuerySteps ==
  ASSUME UsersInv, TypesInv, NEW k \in Key, SecondQuery(k)
  PROVE  ListStep
<1>1. fetch' = [fetch EXCEPT ![k] = NoFetch]
  BY DEF SecondQuery
<1> DEFINE l == fetch[k].list
           counted == [l EXCEPT !.total = Total(k)]
           filled == [l EXCEPT !.items = Items(k)]
<1>2. PICK answer \in {counted, filled} :
         /\ cache' = [cache EXCEPT ![k] = answer]
         /\ \/ answer = counted /\ fetch[k].pc = "items"
            \/ answer = filled /\ fetch[k].pc = "total"
  BY DEF SecondQuery
<1>3. counted \in List /\ filled \in List
  <2>1. l \in List /\ Items(k) \in ItemLists /\ Total(k) \in Totals
    BY FetchFields, QueryAnswers DEF TypesInv
  <2> HIDE DEF l
  <2> QED
    BY <2>1, ListsAre
<1>4. cache' \in [Key -> List] /\ fetch' \in [Key -> Fetch]
  BY <1>1, <1>2, <1>3, EmptyTypes DEF TypesInv, ListTypes
<1>5. \A j \in Key : FetchStep(j)
  BY <1>1 DEF TypesInv, ListTypes, FetchStep
<1>6. \A j \in Key : CacheStep(j)
  BY <1>2 DEF TypesInv, ListTypes, CacheStep
<1> QED
  BY <1>4, <1>5, <1>6 DEF ListStep

LEMMA ForgetSteps ==
  ASSUME Collection, ListTypes, NEW k \in Key, ReceiveError(k) \/ Collect(k)
  PROVE  ListStep
<1>1. CASE ReceiveError(k)
  BY <1>1, FetchIsSet DEF ReceiveError
<1>2. CASE Collect(k)
  <2>1. cache' = [cache EXCEPT ![k] = NoList] /\ UNCHANGED fetch
    BY <1>2 DEF Collect
  <2>2. cache' \in [Key -> List]
    BY <2>1, EmptyTypes DEF ListTypes
  <2> QED
    BY <2>1, <2>2 DEF ListTypes, ListStep, CacheStep, FetchStep
<1> QED
  BY <1>1, <1>2

LEMMA InvalidateSteps ==
  ASSUME Collection, ListTypes, key \in Key, Invalidate
  PROVE  ListStep
<1>1. CASE Mounted
  <2> DEFINE f == IF Known(key) THEN NewFetch ELSE Joined(key)
  <2>1. f \in {fetch[key], NewFetch}
    BY JoinedIs
  <2>2. fetch' = [fetch EXCEPT ![key] = f] /\ UNCHANGED cache
    BY <1>1 DEF Invalidate
  <2> HIDE DEF f
  <2> QED
    BY <2>1, <2>2, FetchIsSet
<1>2. CASE ~Mounted
  BY <1>2, ListsStay DEF Invalidate
<1> QED
  BY <1>1, <1>2

\* A step either writes the collection or deals with the lists.
Writes == ServeDelete \/ \E a \in Account : Register(a) \/ RemoveElsewhere(a)

LEMMA StepsOfLists ==
  ASSUME UsersInv, TypesInv, [Next]_vars
  PROVE  \/ UNCHANGED api /\ ListStep
         \/ Writes /\ UNCHANGED <<account, place, lists>>
<1> USE DEF TypesInv
<1>0. key \in Key
  BY DEF UsersInv, Shapes
<1>1. ASSUME UNCHANGED vars PROVE UNCHANGED api /\ ListStep
  BY <1>1, ListsStay DEF vars, lists
<1>2. ASSUME CurrentUser PROVE UNCHANGED api /\ ListStep
  BY <1>2, EnterSteps, ListsStay DEF CurrentUser, lists
<1>3. ASSUME NEW a \in Account, Login(a) PROVE UNCHANGED api /\ ListStep
  BY <1>3, EnterSteps DEF Login
<1>4. ASSUME Logout PROVE UNCHANGED api /\ ListStep
  BY <1>4, ListsStay DEF Logout, lists
<1>5. ASSUME ReceiveLogout PROVE UNCHANGED api /\ ListStep
  BY <1>5, ClearSteps DEF ReceiveLogout
<1>6. ASSUME NEW term \in Term, Search(term) PROVE UNCHANGED api /\ ListStep
  BY <1>6, ObserveSteps DEF Search
<1>7. ASSUME NextPage \/ PreviousPage PROVE UNCHANGED api /\ ListStep
  BY <1>7, ObserveSteps DEF NextPage, PreviousPage
<1>8. ASSUME NEW a \in Account, Delete(a) PROVE UNCHANGED api /\ ListStep
  BY <1>8, ListsStay DEF Delete, lists
<1>9. ASSUME NEW k \in Key, FirstQuery(k) \/ SecondQuery(k) PROVE UNCHANGED api /\ ListStep
  BY <1>9, FirstQuerySteps, SecondQuerySteps DEF FirstQuery, SecondQuery
<1>10. ASSUME NEW k \in Key, ReceiveError(k) \/ Collect(k) PROVE UNCHANGED api /\ ListStep
  BY <1>10, ForgetSteps DEF ReceiveError, Collect
<1>11. ASSUME RefuseDelete \/ ReceiveNotDeleted PROVE UNCHANGED api /\ ListStep
  BY <1>11, ListsStay DEF RefuseDelete, ReceiveNotDeleted, lists
<1>12. ASSUME ReceiveDeleted PROVE UNCHANGED api /\ ListStep
  BY <1>0, <1>12, InvalidateSteps DEF ReceiveDeleted
<1>13. ASSUME Writes PROVE UNCHANGED <<account, place, lists>>
  BY <1>13 DEF Writes, ServeDelete, Register, RemoveElsewhere
<1> QED
  BY <1>1, <1>2, <1>3, <1>4, <1>5, <1>6, <1>7, <1>8, <1>9, <1>10, <1>11, <1>12, <1>13
     DEF Next, Writes

------------------------------------------------------------------------------
\* Types

\* A registration adds an account to the collection, and a deletion takes one out.
LEMMA CollectionWrites ==
  ASSUME Collection, Writes
  PROVE  /\ Collection' /\ changes' = changes + 1
         /\ \/ \E a \in unborn : /\ Elements(users') = Elements(users) \cup {a}
                                 /\ unborn' = unborn \ {a}
            \/ \E a \in Elements(users) : /\ Elements(users') = Elements(users) \ {a}
                                          /\ unborn' = unborn
<1>1. /\ users \in Seq(Account) /\ Distinct(users) /\ Elements(users) \subseteq Account
      /\ unborn \subseteq Account /\ Elements(users) \cap unborn = {}
      /\ changes \in 0..MaxChanges /\ MaxChanges \in Nat
  BY AdminUsersAssumption DEF Collection, Elements
<1>2. changes' = changes + 1 /\ changes < MaxChanges
  BY DEF Writes, ServeDelete, Register, RemoveElsewhere
<1>3. changes' \in 0..MaxChanges
  BY <1>1, <1>2
<1>4. ASSUME NEW a \in Account, Register(a)
      PROVE  /\ a \in unborn /\ unborn' = unborn \ {a}
             /\ users' \in Seq(Account) /\ Distinct(users')
             /\ Elements(users') = Elements(users) \cup {a}
  <2>1. a \in unborn /\ unborn' = unborn \ {a} /\ users' = <<a>> \o users
    BY <1>4 DEF Register
  <2>2. a \notin Elements(users)
    BY <1>1, <2>1
  <2>3. <<a>> \in Seq(Account) /\ Len(<<a>>) = 1 /\ <<a>>[1] = a
    OBVIOUS
  <2>4. /\ users' \in Seq(Account) /\ Len(users') = Len(users) + 1 /\ Len(users) \in Nat
        /\ users'[1] = a
        /\ \A i \in 1..Len(users) : users'[i + 1] = users[i]
    BY <1>1, <2>1, <2>3
  <2>5. DOMAIN users' = 1..(Len(users) + 1) /\ DOMAIN users = 1..Len(users)
    BY <1>1, <2>4
  <2>6. \A i \in DOMAIN users' : i = 1 \/ (i - 1 \in DOMAIN users /\ users'[i] = users[i - 1])
    <3>1. ASSUME NEW i \in DOMAIN users', i # 1
          PROVE  i - 1 \in DOMAIN users /\ users'[i] = users[i - 1]
      <4>1. i - 1 \in 1..Len(users) /\ (i - 1) + 1 = i
        BY <2>4, <2>5, <3>1
      <4> QED
        BY <2>4, <2>5, <4>1
    <3> QED
      BY <3>1
  <2>7. Distinct(users')
    <3>1. ASSUME NEW i \in DOMAIN users', NEW j \in DOMAIN users', users'[i] = users'[j]
          PROVE  i = j
      <4>1. ASSUME i # 1 PROVE users'[i] # a
        BY <2>2, <2>6, <4>1 DEF Elements
      <4>2. ASSUME j # 1 PROVE users'[j] # a
        BY <2>2, <2>6, <4>2 DEF Elements
      <4>3. i = 1 <=> j = 1
        BY <2>4, <3>1, <4>1, <4>2
      <4>4. ASSUME i # 1, j # 1 PROVE i = j
        <5>1. i - 1 = j - 1
          BY <1>1, <2>6, <3>1, <4>4 DEF Distinct
        <5> QED
          BY <2>4, <2>5, <5>1
      <4> QED
        BY <4>3, <4>4
    <3> QED
      BY <3>1 DEF Distinct
  <2>8. Elements(users') = Elements(users) \cup {a}
    <3>1. ASSUME NEW i \in DOMAIN users' PROVE users'[i] \in Elements(users) \cup {a}
      BY <2>4, <2>6 DEF Elements
    <3>2. ASSUME NEW i \in DOMAIN users PROVE \E j \in DOMAIN users' : users'[j] = users[i]
      <4>1. i + 1 \in DOMAIN users' /\ users'[i + 1] = users[i]
        BY <2>4, <2>5
      <4> QED
        BY <4>1
    <3>3. 1 \in DOMAIN users' /\ users'[1] = a
      BY <2>4, <2>5
    <3> QED
      BY <3>1, <3>2, <3>3 DEF Elements
  <2> QED
    BY <2>1, <2>4, <2>7, <2>8
<1>5. ASSUME NEW a \in Elements(users), Remove(a), UNCHANGED unborn
      PROVE  /\ users' \in Seq(Account) /\ Distinct(users')
             /\ Elements(users') = Elements(users) \ {a}
  <2>1. users' = Selected(users, Account \ {a})
    BY <1>5 DEF Remove
  <2>2. /\ users' \in Seq(Account) /\ Distinct(users')
        /\ Elements(users') = Elements(users) \cap (Account \ {a})
    BY <1>1, <2>1, SelectedItems
  <2> QED
    BY <1>1, <2>2
<1>6. CASE \E a \in Account : Register(a)
  <2>1. PICK a \in Account : Register(a)
    BY <1>6
  <2> QED
    BY <1>1, <1>2, <1>3, <1>4, <2>1 DEF Collection
<1>7. CASE ServeDelete \/ \E a \in Account : RemoveElsewhere(a)
  <2>1. PICK a \in Elements(users) : Remove(a) /\ UNCHANGED unborn
    BY <1>7 DEF ServeDelete, RemoveElsewhere
  <2> QED
    BY <1>1, <1>2, <1>3, <1>5, <2>1 DEF Collection
<1> QED
  BY <1>6, <1>7 DEF Writes

LEMMA EnterTypes ==
  ASSUME PageTypes, ListTypes, key \in Key, NEW a \in NobodyOr, Enter(a), UNCHANGED leaving
  PROVE  PageTypes'
<1>1. view' = "admin" /\ store' = a
  BY DEF Enter
<1>2. CASE a \in Admin
  <2> DEFINE k == FirstPage("")
  <2>1. lastKey' = k /\ failed' = [failed EXCEPT ![k] = failed[k] /\ Known(k)]
    BY <1>2 DEF Enter, Mount
  <2>2. k \in Key
    BY KeysOfFirstPages DEF Term
  <2> HIDE DEF k
  <2>3. failed' \in [Key -> BOOLEAN]
    BY <2>1, <2>2 DEF PageTypes
  <2> QED
    BY <1>1, <2>1, <2>2, <2>3 DEF PageTypes
<1>3. CASE a \notin Admin
  BY <1>1, <1>3 DEF Enter, place, lists, PageTypes
<1> QED
  BY <1>2, <1>3

LEMMA ObserveTypes ==
  ASSUME PageTypes, key \in Key, NEW k, Observe(k), UNCHANGED <<account, leaving>>
  PROVE  PageTypes'
<1>1. /\ k \in Key /\ lastKey' \in {key, lastKey}
      /\ failed' = [failed EXCEPT ![k] = failed[k] /\ Known(k)]
      /\ UNCHANGED <<view, store, leaving>>
  BY DEF Observe, account
<1>2. failed' \in [Key -> BOOLEAN]
  BY <1>1 DEF PageTypes
<1> QED
  BY <1>1, <1>2 DEF PageTypes

LEMMA PageTypesStep == ASSUME UsersInv, TypesInv, [Next]_vars PROVE PageTypes'
<1>0. PageTypes /\ ListTypes /\ key \in Key /\ session \in NobodyOr
  BY DEF TypesInv, UsersInv, Shapes
<1>1. ASSUME UNCHANGED <<view, store, lastKey, failed, leaving>> PROVE PageTypes'
  BY <1>0, <1>1 DEF PageTypes
<1>2. ASSUME UNCHANGED vars \/ Writes \/ RefuseDelete \/ ReceiveNotDeleted \/ ReceiveDeleted
             \/ \E a \in Account : Delete(a)
      PROVE  PageTypes'
  <2>1. UNCHANGED <<view, store, lastKey, failed, leaving>>
    BY <1>2 DEF vars, Writes, ServeDelete, Register, RemoveElsewhere, RefuseDelete,
                ReceiveNotDeleted, ReceiveDeleted, Invalidate, Delete, account, place, lists
  <2> QED
    BY <1>1, <2>1
<1>3. ASSUME CurrentUser PROVE PageTypes'
  <2>1. /\ UNCHANGED leaving
        /\ Enter(session) \/ (view' = "login" /\ UNCHANGED <<store, place, lists>>)
    BY <1>3 DEF CurrentUser
  <2> QED
    BY <1>0, <2>1, EnterTypes DEF PageTypes, place, lists
<1>4. ASSUME NEW a \in Account, Login(a) PROVE PageTypes'
  <2>1. Enter(a) /\ UNCHANGED leaving /\ a \in NobodyOr
    BY <1>4 DEF Login, NobodyOr
  <2> QED
    BY <1>0, <2>1, EnterTypes
<1>5. ASSUME Logout PROVE PageTypes'
  BY <1>0, <1>5 DEF Logout, PageTypes, place, lists
<1>6. ASSUME ReceiveLogout PROVE PageTypes'
  <2>1. /\ leaving' = FALSE /\ store' = NoUser /\ view' \in {"loading", "login"}
        /\ UNCHANGED lastKey /\ failed' = [k \in Key |-> FALSE]
    BY <1>6 DEF ReceiveLogout, ClearQueries, place
  <2>2. failed' \in [Key -> BOOLEAN]
    BY <2>1
  <2> QED
    BY <1>0, <2>1, <2>2 DEF PageTypes, NobodyOr
<1>7. ASSUME (\E term \in Term : Search(term)) \/ NextPage \/ PreviousPage PROVE PageTypes'
  <2>1. UNCHANGED <<account, leaving>> /\ \E k : Observe(k)
    BY <1>7 DEF Search, NextPage, PreviousPage
  <2> QED
    BY <1>0, <2>1, ObserveTypes
<1>8. ASSUME NEW k \in Key, FirstQuery(k) PROVE PageTypes'
  BY <1>0, <1>8 DEF FirstQuery, PageTypes, account, place
<1>9. ASSUME NEW k \in Key, SecondQuery(k) \/ ReceiveError(k) \/ Collect(k) PROVE PageTypes'
  <2>1. /\ UNCHANGED <<view, store, lastKey, leaving>>
        /\ \E b \in BOOLEAN : failed' = [failed EXCEPT ![k] = b]
    BY <1>9 DEF SecondQuery, ReceiveError, Collect, account, place
  <2>2. failed' \in [Key -> BOOLEAN]
    BY <1>0, <2>1 DEF PageTypes
  <2> QED
    BY <1>0, <2>1, <2>2 DEF PageTypes
<1> QED
  BY <1>2, <1>3, <1>4, <1>5, <1>6, <1>7, <1>8, <1>9 DEF Next, Writes

LEMMA TypesStep == ASSUME UsersInv, TypesInv, [Next]_vars PROVE TypesInv'
<1>1. PageTypes'
  BY PageTypesStep
<1>2. CASE UNCHANGED api /\ ListStep
  BY <1>1, <1>2 DEF TypesInv, Collection, ListTypes, ListStep, api, Distinct
<1>3. CASE Writes /\ UNCHANGED <<account, place, lists>>
  BY <1>1, <1>3, CollectionWrites DEF TypesInv, ListTypes, lists
<1> QED
  BY <1>2, <1>3, StepsOfLists

LEMMA InitTypes == Init => TypesInv
<1> SUFFICES ASSUME Init PROVE TypesInv
  OBVIOUS
<1>1. users \in Seq(Account) /\ Distinct(users)
  BY AdminUsersAssumption DEF Init, Distinct
<1>2. Collection
  <2>1. unborn = Account \ Elements(users) /\ changes = 0
    BY DEF Init
  <2>2. 0 \in 0..MaxChanges
    BY AdminUsersAssumption
  <2> QED
    BY <1>1, <2>1, <2>2 DEF Collection
<1>3. PageTypes
  BY KeysOfFirstPages DEF Init, PageTypes, NobodyOr, Term
<1>4. ListTypes
  BY EmptyTypes DEF Init, ListTypes
<1> QED
  BY <1>2, <1>3, <1>4 DEF TypesInv

LEMMA TypesAlways == Spec => [](UsersInv /\ TypesInv)
<1>1. Init => UsersInv /\ TypesInv
  BY InitIsInv, InitTypes
<1>2. UsersInv /\ TypesInv /\ [Next]_vars => (UsersInv /\ TypesInv)'
  BY NextKeepsInv, TypesStep
<1> QED
  BY <1>1, <1>2, PTL DEF Spec

\* user.service.ts, UsersPage and AdminRoute: whatever the page does, the collection
\* holds no account twice, a page of the list is never longer than the limit, and
\* no total exceeds the number of accounts.
THEOREM UsersTypes == Spec => []TypeOK
<1>1. UsersInv /\ TypesInv => TypeOK
  BY TypesSuffice
<1> QED
  BY <1>1, TypesAlways, PTL

------------------------------------------------------------------------------
\* Lists that no write has overtaken

\* What was read since the last write is what the collection has.
AnswersAreCurrent ==
    \A k \in Key :
        /\ cache[k].since <= changes /\ fetch[k].list.since <= changes
        /\ Known(k) /\ cache[k].since = changes =>
              cache[k].items = Items(k) /\ cache[k].total = Total(k)
        /\ fetch[k].list.since = changes =>
              /\ fetch[k].pc = "items" => fetch[k].list.items = Items(k)
              /\ fetch[k].pc = "total" => fetch[k].list.total = Total(k)

LEMMA InitIsCurrent == Init => AnswersAreCurrent
<1> SUFFICES ASSUME Init PROVE AnswersAreCurrent
  OBVIOUS
<1>1. /\ changes = 0
      /\ \A k \in Key : cache[k] = NoList /\ fetch[k] = NoFetch
  BY DEF Init
<1>2. NoList.since = 0 /\ NoFetch.list = NoList /\ NoFetch.pc = "none"
  BY EmptyShapes
<1> QED
  BY <1>1, <1>2 DEF AnswersAreCurrent, Known

LEMMA AnsweredParts ==
  ASSUME NEW k, NEW label \in {"items", "total"}
  PROVE  /\ Answered(k, label).pc = label
         /\ Answered(k, label).list.since = fetch[k].list.since
         /\ label = "items" => Answered(k, label).list.items = Items(k)
         /\ label = "total" => Answered(k, label).list.total = Total(k)
  BY DEF Answered

LEMMA SecondAnswer ==
  ASSUME ListTypes, NEW k \in Key, NEW x
  PROVE  LET l == fetch[k].list
             counted == [l EXCEPT !.total = x]
             filled == [l EXCEPT !.items = x]
         IN  /\ counted.since = l.since /\ counted.items = l.items /\ counted.total = x
             /\ filled.since = l.since /\ filled.items = x /\ filled.total = l.total
<1>1. fetch[k].list \in List
  BY FetchFields
<1> QED
  BY <1>1, ListsAre

LEMMA CurrentStep ==
  ASSUME UsersInv, TypesInv, AnswersAreCurrent, [Next]_vars
  PROVE  AnswersAreCurrent'
<1>1. /\ changes \in Nat
      /\ \A k \in Key : cache[k].since \in Nat /\ fetch[k].list.since \in Nat
  BY FetchingParts, FetchParts DEF UsersInv, Shapes
<1>2. CASE UNCHANGED api /\ ListStep
  <2>1. changes' = changes /\ \A k \in Key : Items(k)' = Items(k) /\ Total(k)' = Total(k)
    BY <1>2 DEF api, Items, Total
  <2>2. ASSUME NEW k \in Key
        PROVE  /\ fetch'[k].list.since <= changes
               /\ fetch'[k].list.since = changes =>
                    /\ fetch'[k].pc = "items" => fetch'[k].list.items = Items(k)
                    /\ fetch'[k].pc = "total" => fetch'[k].list.total = Total(k)
    <3>1. CASE fetch'[k] = fetch[k]
      BY <3>1 DEF AnswersAreCurrent
    <3>2. CASE fetch'[k] \in {NoFetch, NewFetch}
      <4>1. fetch'[k].list.since \in {0, changes} /\ fetch'[k].pc \in {"none", "sent"}
        BY <1>1, <3>2, EmptyShapes, NewFetchShape
      <4> QED
        BY <1>1, <4>1
    <3>3. CASE fetch'[k] \in {Answered(k, "items"), Answered(k, "total")}
      BY <3>3, AnsweredParts DEF AnswersAreCurrent
    <3> QED
      BY <1>2, <3>1, <3>2, <3>3 DEF ListStep, FetchStep
  <2>3. ASSUME NEW k \in Key
        PROVE  /\ cache'[k].since <= changes
               /\ cache'[k] # NoList /\ cache'[k].since = changes =>
                     cache'[k].items = Items(k) /\ cache'[k].total = Total(k)
    <3> DEFINE l == fetch[k].list
    <3>0. fetch[k].list.since <= changes
          /\ (fetch[k].list.since = changes =>
                /\ fetch[k].pc = "items" => fetch[k].list.items = Items(k)
                /\ fetch[k].pc = "total" => fetch[k].list.total = Total(k))
      BY DEF AnswersAreCurrent
    <3>1. CASE cache'[k] = cache[k]
      BY <3>1 DEF AnswersAreCurrent, Known
    <3>2. CASE cache'[k] = NoList
      BY <1>1, <3>2, EmptyShapes
    <3>3. CASE fetch[k].pc = "items" /\ cache'[k] = [l EXCEPT !.total = Total(k)]
      <4>1. cache'[k].since = l.since /\ cache'[k].items = l.items /\ cache'[k].total = Total(k)
        BY <3>3, SecondAnswer DEF TypesInv
      <4> QED
        BY <3>0, <3>3, <4>1
    <3>4. CASE fetch[k].pc = "total" /\ cache'[k] = [l EXCEPT !.items = Items(k)]
      <4>1. cache'[k].since = l.since /\ cache'[k].items = Items(k) /\ cache'[k].total = l.total
        BY <3>4, SecondAnswer DEF TypesInv
      <4> QED
        BY <3>0, <3>4, <4>1
    <3> QED
      BY <1>2, <3>1, <3>2, <3>3, <3>4 DEF ListStep, CacheStep
  <2> QED
    BY <2>1, <2>2, <2>3 DEF AnswersAreCurrent, Known
<1>3. CASE Writes /\ UNCHANGED <<account, place, lists>>
  <2>1. changes' = changes + 1 /\ UNCHANGED <<cache, fetch>>
    BY <1>3, CollectionWrites DEF TypesInv, lists
  <2>2. \A k \in Key : /\ cache'[k].since <= changes' /\ cache'[k].since # changes'
                       /\ fetch'[k].list.since <= changes' /\ fetch'[k].list.since # changes'
    BY <1>1, <2>1 DEF AnswersAreCurrent
  <2> QED
    BY <2>2 DEF AnswersAreCurrent
<1> QED
  BY <1>2, <1>3, StepsOfLists

LEMMA CurrentAlways == Spec => [](UsersInv /\ TypesInv /\ AnswersAreCurrent)
<1>1. Init => AnswersAreCurrent
  BY InitIsCurrent
<1>2. UsersInv /\ TypesInv /\ AnswersAreCurrent /\ [Next]_vars => AnswersAreCurrent'
  BY CurrentStep
<1> QED
  BY <1>1, <1>2, TypesAlways, PTL DEF Spec

\* paginate and UsersPage: a settled list that no write has overtaken is the page
\* asked for, with the total its pager needs, although the two queries are answered
\* apart, after fetches joined, dropped and repeated, by whichever came first.
THEOREM SettledListsAreCurrent == Spec => []SettledListIsCurrent
<1>1. ASSUME UsersInv, TypesInv, AnswersAreCurrent PROVE SettledListIsCurrent
  <2> SUFFICES ASSUME Settled, cache[key].since = changes
               PROVE  LET hits == Selected(users, Hits(key.term))
                          onPage == {i \in DOMAIN hits : (i - 1) \div LIMIT = key.page - 1}
                      IN  /\ Elements(cache[key].items) = {hits[i] : i \in onPage}
                          /\ cache[key].total = Cardinality(Elements(users) \cap Hits(key.term))
    BY DEF SettledListIsCurrent
  <2>1. key \in Key /\ Known(key)
    BY <1>1 DEF UsersInv, Shapes, Settled
  <2>2. cache[key].items = Items(key) /\ cache[key].total = Total(key)
    BY <1>1, <2>1 DEF AnswersAreCurrent
  <2>3. /\ Elements(Items(key)) = OnPage(Selected(users, Hits(key.term)), key.page, LIMIT)
        /\ Total(key) = Cardinality(Elements(users) \cap Hits(key.term))
    BY <1>1, <2>1, QueryAnswers DEF TypesInv
  <2> QED
    BY <2>2, <2>3 DEF OnPage
<1> QED
  BY <1>1, CurrentAlways, PTL

------------------------------------------------------------------------------
\* The pager

NobodyGone == Elements(users) \cup unborn = Account

\* While nobody has been deleted a total seen is one that the collection still has,
\* and the page asked for exists.
PagesExist ==
    NobodyGone =>
        /\ \A k \in Key : /\ cache[k].total <= Total(k)
                          /\ fetch[k].pc = "total" => fetch[k].list.total <= Total(k)
        /\ Mounted => key.page = 1 \/ key.page <= TotalPages(Total(key), LIMIT)

LEMMA PagesGrow ==
  ASSUME NEW m \in Nat, NEW n \in Nat, m <= n
  PROVE  /\ TotalPages(m, LIMIT) \in Nat /\ TotalPages(n, LIMIT) \in Nat
         /\ TotalPages(m, LIMIT) <= TotalPages(n, LIMIT)
<1> DEFINE a == TotalPages(m, LIMIT)
           b == TotalPages(n, LIMIT)
<1>0. LIMIT \in Nat \ {0}
  BY Sizes
<1>1. a \in Nat /\ a * LIMIT < m + LIMIT /\ b \in Nat /\ b * LIMIT >= n
  BY <1>0, PagesCover
<1> HIDE DEF a, b
<1>2. (b + 1) * LIMIT = b * LIMIT + LIMIT /\ b * LIMIT \in Nat /\ a * LIMIT \in Nat
  BY <1>0, <1>1
<1>3. a * LIMIT < (b + 1) * LIMIT
  BY <1>0, <1>1, <1>2
<1>4. a < b + 1
  BY <1>0, <1>1, <1>3, ProductsAreOrdered
<1>5. a <= b
  BY <1>1, <1>4
<1> QED
  BY <1>1, <1>5 DEF a, b

\* A page turned to is the first of a term, or one that the last total has.
LEMMA PageTurns ==
  ASSUME UsersInv, TypesInv, [Next]_vars, UNCHANGED api, PagesExist, NobodyGone, Mounted'
  PROVE  key'.page = 1 \/ key'.page <= TotalPages(Total(key'), LIMIT)
<1>0. key \in Key /\ key.page \in Nat \ {0}
  BY Sizes DEF UsersInv, Shapes
<1>1. ASSUME UNCHANGED <<view, store, key>>
      PROVE  key'.page = 1 \/ key'.page <= TotalPages(Total(key'), LIMIT)
  BY <1>1 DEF Mounted, PagesExist
<1>2. ASSUME NEW a, Enter(a) PROVE key'.page = 1
  <2>1. a \in Admin
    BY <1>2 DEF Enter, Mounted
  <2>2. key' = FirstPage("")
    BY <1>2, <2>1 DEF Enter, Mount
  <2> QED
    BY <2>2 DEF FirstPage
<1>3. ASSUME CurrentUser PROVE key'.page = 1
  BY <1>2, <1>3 DEF CurrentUser, Mounted
<1>4. ASSUME NEW a \in Account, Login(a) PROVE key'.page = 1
  BY <1>2, <1>4 DEF Login
<1>5. ASSUME NEW term \in Term, Search(term) PROVE key'.page = 1
  BY <1>5 DEF Search, Observe, FirstPage
<1>6. ASSUME NextPage PROVE key'.page <= TotalPages(Total(key'), LIMIT)
  <2>1. /\ Mounted /\ key.page < TotalPages(cache[key].total, LIMIT)
        /\ key' = [key EXCEPT !.page = key.page + 1]
    BY <1>6 DEF NextPage, Pager, MayTurnNext, HasNextPage, Observe
  <2>2. key'.page = key.page + 1 /\ key'.term = key.term
    BY <1>0, <2>1 DEF Key
  <2>3. Total(key') = Total(key)
    BY <2>2 DEF Total
  <2>4. /\ cache[key].total \in Nat /\ Total(key) \in Nat
        /\ cache[key].total <= Total(key)
    <3>1. cache[key].total \in Totals /\ Total(key) \in Totals
      BY <1>0, FetchFields, QueryAnswers, ListsAre DEF TypesInv
    <3> QED
      BY <1>0, <3>1, Sizes DEF Totals, PagesExist
  <2>5. /\ TotalPages(cache[key].total, LIMIT) \in Nat /\ TotalPages(Total(key), LIMIT) \in Nat
        /\ TotalPages(cache[key].total, LIMIT) <= TotalPages(Total(key), LIMIT)
    BY <2>4, PagesGrow
  <2> QED
    BY <1>0, <2>1, <2>2, <2>3, <2>5
<1>7. ASSUME PreviousPage PROVE key'.page <= TotalPages(Total(key'), LIMIT)
  <2>1. /\ Mounted /\ key.page > 1
        /\ key' = [key EXCEPT !.page = key.page - 1]
    BY <1>7 DEF PreviousPage, Pager, HasPreviousPage, Observe
  <2>2. key'.page = key.page - 1 /\ key'.term = key.term
    BY <1>0, <2>1 DEF Key
  <2>3. Total(key') = Total(key) /\ TotalPages(Total(key), LIMIT) \in Nat
    <3>1. Total(key) \in Totals
      BY <1>0, QueryAnswers DEF TypesInv
    <3>2. Total(key) \in Nat
      BY <3>1, Sizes DEF Totals
    <3> QED
      BY <2>2, <3>2, PagesGrow DEF Total
  <2>4. key.page <= TotalPages(Total(key), LIMIT)
    BY <1>0, <2>1 DEF PagesExist
  <2> QED
    BY <1>0, <2>2, <2>3, <2>4
<1>8. ASSUME UNCHANGED vars \/ Writes \/ Logout \/ RefuseDelete \/ ReceiveNotDeleted
             \/ ReceiveDeleted \/ \E a \in Account : Delete(a)
      PROVE  UNCHANGED <<view, store, key>>
  BY <1>8 DEF vars, Writes, ServeDelete, Register, RemoveElsewhere, Logout, RefuseDelete,
              ReceiveNotDeleted, ReceiveDeleted, Delete, account, place
<1>9. ASSUME NEW k \in Key, FirstQuery(k) \/ SecondQuery(k) \/ ReceiveError(k) \/ Collect(k)
      PROVE  UNCHANGED <<view, store, key>>
  BY <1>9 DEF FirstQuery, SecondQuery, ReceiveError, Collect, account, place
<1>10. ~ReceiveLogout
  BY DEF ReceiveLogout, Mounted
<1> QED
  BY <1>1, <1>3, <1>4, <1>5, <1>6, <1>7, <1>8, <1>9, <1>10 DEF Next, Writes

LEMMA PagesStep ==
  ASSUME UsersInv, TypesInv, PagesExist, [Next]_vars
  PROVE  PagesExist'
<1>0. \A k \in Key : /\ Total(k) \in Nat /\ cache[k].total \in Nat /\ fetch[k].list.total \in Nat
  <2>1. ASSUME NEW k \in Key
        PROVE  Total(k) \in Totals /\ cache[k].total \in Totals /\ fetch[k].list.total \in Totals
    BY FetchFields, QueryAnswers, ListsAre DEF TypesInv
  <2> QED
    BY <2>1, Sizes DEF Totals
<1>1. CASE UNCHANGED api /\ ListStep
  <2> SUFFICES ASSUME NobodyGone'
               PROVE  /\ \A k \in Key :
                            /\ cache'[k].total <= Total(k)'
                            /\ fetch'[k].pc = "total" => fetch'[k].list.total <= Total(k)'
                      /\ Mounted' => key'.page = 1 \/ key'.page <= TotalPages(Total(key)', LIMIT)
    BY DEF PagesExist
  <2>1. NobodyGone /\ users' = users /\ \A k : Total(k)' = Total(k)
    BY <1>1 DEF api, NobodyGone, Total
  <2>2. ASSUME NEW k \in Key PROVE cache'[k].total <= Total(k)
    <3>1. CASE cache'[k] = cache[k]
      BY <2>1, <3>1 DEF PagesExist
    <3>2. CASE cache'[k] = NoList
      BY <1>0, <3>2, EmptyTypes
    <3>3. CASE fetch[k].pc = "items" /\ cache'[k] = [fetch[k].list EXCEPT !.total = Total(k)]
      <4>1. cache'[k].total = Total(k)
        BY <3>3, SecondAnswer DEF TypesInv
      <4> QED
        BY <1>0, <4>1
    <3>4. CASE fetch[k].pc = "total" /\ cache'[k] = [fetch[k].list EXCEPT !.items = Items(k)]
      <4>1. cache'[k].total = fetch[k].list.total
        BY <3>4, SecondAnswer DEF TypesInv
      <4> QED
        BY <2>1, <3>4, <4>1 DEF PagesExist
    <3> QED
      BY <1>1, <3>1, <3>2, <3>3, <3>4 DEF ListStep, CacheStep
  <2>3. ASSUME NEW k \in Key, fetch'[k].pc = "total" PROVE fetch'[k].list.total <= Total(k)
    <3>1. CASE fetch'[k] = fetch[k]
      BY <2>1, <2>3, <3>1 DEF PagesExist
    <3>2. fetch'[k] \notin {NoFetch, NewFetch, Answered(k, "items")}
      BY <2>3, EmptyShapes, NewFetchShape, AnsweredParts DEF UsersInv, Shapes
    <3>3. CASE fetch'[k] = Answered(k, "total")
      <4>1. fetch'[k].list.total = Total(k)
        BY <3>3, AnsweredParts
      <4> QED
        BY <1>0, <4>1
    <3> QED
      BY <1>1, <3>1, <3>2, <3>3 DEF ListStep, FetchStep
  <2>4. ASSUME Mounted' PROVE key'.page = 1 \/ key'.page <= TotalPages(Total(key'), LIMIT)
    BY <1>1, <2>1, <2>4, PageTurns
  <2>5. Total(key)' = Total(key')
    BY <2>1 DEF Total
  <2> QED
    BY <2>1, <2>2, <2>3, <2>4, <2>5
<1>2. CASE Writes /\ UNCHANGED <<account, place, lists>>
  <2>1. /\ Collection' /\ UNCHANGED <<view, store, key, cache, fetch>>
        /\ \/ \E a \in unborn : /\ Elements(users') = Elements(users) \cup {a}
                                /\ unborn' = unborn \ {a}
           \/ \E a \in Elements(users) : /\ Elements(users') = Elements(users) \ {a}
                                         /\ unborn' = unborn
    BY <1>2, CollectionWrites DEF TypesInv, account, place, lists
  <2> SUFFICES ASSUME NobodyGone'
               PROVE  /\ \A k \in Key :
                            /\ cache'[k].total <= Total(k)'
                            /\ fetch'[k].pc = "total" => fetch'[k].list.total <= Total(k)'
                      /\ Mounted' => key'.page = 1 \/ key'.page <= TotalPages(Total(key)', LIMIT)
    BY DEF PagesExist
  <2>2. NobodyGone /\ Elements(users) \subseteq Elements(users')
    <3>1. Elements(users) \subseteq Account /\ Elements(users) \cap unborn = {}
      BY DEF TypesInv, Collection, Elements
    <3>2. Elements(users') \cup unborn' = Account
      BY DEF NobodyGone
    <3> QED
      BY <2>1, <3>1, <3>2 DEF NobodyGone
  <2>3. ASSUME NEW k \in Key PROVE Total(k)' \in Nat /\ Total(k) <= Total(k)'
    <3>1. Total(k) = Cardinality(Elements(users) \cap Hits(k.term))
      BY QueryAnswers DEF TypesInv
    <3>2. /\ Total(k)' \in Nat
          /\ Total(k)' = Cardinality(Elements(users') \cap Hits(k.term))
      BY <2>1, CountIsCardinality DEF Collection, Total
    <3>3. Elements(users') \cap Hits(k.term) \in SUBSET Account
      BY <2>1 DEF Collection, Elements
    <3>4. IsFiniteSet(Elements(users') \cap Hits(k.term))
      BY <3>3, AdminUsersAssumption, FS_Subset
    <3>5. Elements(users) \cap Hits(k.term) \in SUBSET (Elements(users') \cap Hits(k.term))
      BY <2>2
    <3> QED
      BY <3>1, <3>2, <3>4, <3>5, FS_Subset
  <2>4. \A k \in Key : /\ cache'[k].total <= Total(k)'
                       /\ fetch'[k].pc = "total" => fetch'[k].list.total <= Total(k)'
    BY <1>0, <2>1, <2>2, <2>3 DEF PagesExist
  <2>5. ASSUME Mounted' PROVE key'.page = 1 \/ key'.page <= TotalPages(Total(key)', LIMIT)
    <3>1. key \in Key /\ key' = key /\ key.page \in Nat
      BY <2>1, Sizes DEF UsersInv, Shapes
    <3>2. key.page = 1 \/ key.page <= TotalPages(Total(key), LIMIT)
      BY <2>1, <2>2, <2>5 DEF PagesExist, Mounted
    <3>3. /\ TotalPages(Total(key), LIMIT) \in Nat /\ TotalPages(Total(key)', LIMIT) \in Nat
          /\ TotalPages(Total(key), LIMIT) <= TotalPages(Total(key)', LIMIT)
      BY <1>0, <2>1, <2>3, <3>1, PagesGrow
    <3> QED
      BY <3>1, <3>2, <3>3
  <2> QED
    BY <2>4, <2>5
<1> QED
  BY <1>1, <1>2, StepsOfLists

LEMMA InitPages == Init => PagesExist
<1> SUFFICES ASSUME Init PROVE PagesExist
  OBVIOUS
<1>1. ~Mounted /\ \A k \in Key : cache[k] = NoList /\ fetch[k] = NoFetch
  BY DEF Init, Mounted
<1>2. \A k \in Key : Total(k) \in Totals
  BY InitTypes, QueryAnswers DEF TypesInv
<1> QED
  BY <1>1, <1>2, EmptyTypes, EmptyShapes, Sizes DEF PagesExist, Totals

\* UsersPage and createPaginationMeta: as long as accounts are only registered, the
\* pager leads to no page past the end, whatever it turns to between the answers.
THEOREM PagerStaysInside == Spec => []NeverPastTheEnd
<1>1. Init => PagesExist
  BY InitPages
<1>2. UsersInv /\ TypesInv /\ PagesExist /\ [Next]_vars => PagesExist'
  BY PagesStep
<1>3. PagesExist => NeverPastTheEnd
  BY DEF PagesExist, NeverPastTheEnd, NobodyGone, Total
<1> QED
  BY <1>1, <1>2, <1>3, TypesAlways, PTL DEF Spec
=============================================================================
