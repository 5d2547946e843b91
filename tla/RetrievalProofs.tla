-------------------------- MODULE RetrievalProofs ---------------------------
(***************************************************************************)
(* The answers of Retrieval are exact, for any catalogue, items, limits    *)
(* and ingestion.  The argument follows a search from its statements to    *)
(* its answer:                                                             *)
(*   - a statement returns a selection of what meets the request in its    *)
(*     layer, which lacks an item only if a limit's worth of others comes  *)
(*     before it (NearestSelects, StatementAsksForMatching);               *)
(*   - selections of different layers make one selection                   *)
(*     (SelectionsAppend, ProgressGoesOn);                                 *)
(*   - to sort and cut a selection leaves one (MergeIsSelection), and one  *)
(*     that is sorted and cut is the best there is (SelectionIsExact).     *)
(* A lookup is one statement, whose joins GroupedIsFull undoes.            *)
(***************************************************************************)
EXTENDS Retrieval, FiniteSetTheorems, SequenceTheorems, TLAPS

SearchKinds == {"search_all", "search_docs", "search_code", "search_commits", "time",
                "get_recent_commits"}
LookupKinds == {"list_projects", "get_project_info", "get_project_links"}

\* What a token's role sees, by role: Shown of the request's.
ShownTo(rl, s) == IF rl = "app_ro" THEN s
                  ELSE [s EXCEPT !.private = {},
                                 !.items = {i \in @ : ItemData[i].project \notin s.private}]

\* The layers of a request's statements.
LayersOf(req) ==
    CASE req.kind = "search_all"  -> ActiveLayers(req.asked)
      [] req.kind = "search_docs" -> <<"document">>
      [] req.kind = "search_code" -> <<"code">>
      [] req.kind \in {"search_commits", "time", "get_recent_commits"} -> <<"commit">>
      [] OTHER -> <<>>

\* What meets a request in one layer of one store.
MatchIn(req, rl, layer, s) ==
    {i \in Items :
        /\ i \in ShownTo(rl, s).items
        /\ ItemData[i].layer = layer
        /\ req.kind = "search_all" \/ req.project \in {Anything, ItemData[i].project}
        /\ req.kind = "search_commits" =>
              /\ \A t \in req.since : t <= ItemData[i].at
              /\ \A t \in req.until : ItemData[i].at <= t
        /\ req.kind = "time" => Meant(req.phrase, ItemData[i].at)
        /\ req.kind # "get_recent_commits" => ItemData[i].embedded}

\* What meets it in the stores of its statements: Meeting of the request.
MeetingOf(req, rl, sns) ==
    {i \in Items : \E n \in DOMAIN sns : i \in MatchIn(req, rl, LayersOf(req)[n], sns[n])}

\* Before of a request of the kind.
IsBefore(kind, i, j) ==
    IF kind = "get_recent_commits" THEN ItemData[i].at >= ItemData[j].at
                                   ELSE ItemData[i].distance <= ItemData[j].distance

\* Each comes before those after it, and none comes twice.
InOrder(kind, items) ==
    \A m, n \in DOMAIN items : m < n => IsBefore(kind, items[m], items[n])

Distinct(items) == \A m, n \in DOMAIN items : items[m] = items[n] => m = n

\* items are some of met, and a run of as many as the limit comes before each of
\* met that is not among them.
Selection(met, items, kind, limit) ==
    /\ items \in Seq(Items)
    /\ Distinct(items)
    /\ \A n \in DOMAIN items : items[n] \in met
    /\ \A j \in met :
          \/ \E n \in DOMAIN items : items[n] = j
          \/ \E b \in Nat : /\ b + limit <= Len(items)
                            /\ \A k \in (b + 1)..(b + limit) : IsBefore(kind, items[k], j)

-----------------------------------------------------------------------------

\* The smaller of two numbers.
LEMMA MinOfTwo ==
    ASSUME NEW a \in Nat, NEW b \in Nat
    PROVE  Min({a, b}) = IF a <= b THEN a ELSE b
<1> DEFINE m == IF a <= b THEN a ELSE b
<1>1. m \in {a, b} /\ \A y \in {a, b} : m <= y
  OBVIOUS
<1>2. \A x \in {a, b} : (\A y \in {a, b} : x <= y) => x = m
  OBVIOUS
<1> QED
  BY <1>1, <1>2 DEF Min

\* The first of a sequence.
LEMMA FirstOf ==
    ASSUME NEW S, NEW q \in Seq(S), NEW k \in Nat
    PROVE  LET r == SubSeq(q, 1, Min({k, Len(q)}))
           IN  /\ r \in Seq(S)
               /\ Len(r) = IF k <= Len(q) THEN k ELSE Len(q)
               /\ Len(r) <= k /\ Len(r) <= Len(q)
               /\ \A n \in 1..Len(r) : r[n] = q[n]
<1> DEFINE z == IF k <= Len(q) THEN k ELSE Len(q)
           r == SubSeq(q, 1, z)
<1>1. Len(q) \in Nat /\ Min({k, Len(q)}) = z
  BY MinOfTwo
<1>2. z \in Nat /\ z <= k /\ z <= Len(q)
  BY <1>1
<1>3. \A n \in 1..z : n \in 1..Len(q)
  BY <1>1, <1>2
<1>4. r \in Seq(S) /\ Len(r) = z /\ \A n \in 1..z : r[n] = q[n]
  <2> HIDE DEF z
  <2>1. \A i \in 1..z : q[i] \in S
    BY <1>3
  <2>2. /\ SubSeq(q, 1, z) \in Seq(S)
        /\ Len(SubSeq(q, 1, z)) = IF 1 <= z THEN z - 1 + 1 ELSE 0
        /\ \A i \in 1..(z - 1 + 1) : SubSeq(q, 1, z)[i] = q[1 + i - 1]
    BY <1>1, <1>2, SubSeqProperties
  <2> QED
    BY <1>2, <2>2
<1> QED
  BY <1>1, <1>2, <1>4

\* A set of items in an order that fits, cut at the limit, is a selection of it.
LEMMA SortedIsSelection ==
    ASSUME NEW s \in SUBSET Items, NEW k \in Nat, NEW kind,
           NEW q \in SetToSeqs(s), InOrder(kind, q)
    PROVE  LET r == SubSeq(q, 1, Min({k, Len(q)}))
           IN  Selection(s, r, kind, k) /\ InOrder(kind, r) /\ Len(r) <= k
<1> DEFINE r == SubSeq(q, 1, Min({k, Len(q)}))
           c == Cardinality(s)
<1>1. IsFiniteSet(s) /\ c \in Nat
  BY RetrievalAssumption, FS_Subset, FS_CardinalityType
<1>2. q \in [1..c -> s] /\ \A m, n \in 1..c : m # n => q[m] # q[n]
  BY DEF SetToSeqs
<1>3. q \in Seq(s) /\ Len(q) = c /\ DOMAIN q = 1..c /\ Distinct(q)
  <2> HIDE DEF c
  <2> QED
    BY <1>1, <1>2 DEF Distinct
<1>4. \A j \in s : \E n \in 1..c : q[n] = j
  <2>1. q \in Injection(1..c, s)
    BY <1>2 DEF Injection, IsInjective
  <2>2. Cardinality(1..c) = c
    BY <1>1, FS_Interval
  <2>3. q \in Surjection(1..c, s)
    BY <1>1, <2>1, <2>2, FS_Injection
  <2> QED
    BY <2>3 DEF Surjection
<1>5. /\ r \in Seq(s)
      /\ Len(r) = IF k <= Len(q) THEN k ELSE Len(q)
      /\ Len(r) <= k /\ Len(r) <= Len(q)
      /\ \A n \in 1..Len(r) : r[n] = q[n]
  BY <1>3, FirstOf
<1> HIDE DEF r, c
<1>6. Len(r) \in Nat /\ DOMAIN r = 1..Len(r) /\ 1..Len(r) \subseteq 1..c
  BY <1>1, <1>3, <1>5
<1>7. InOrder(kind, r)
  BY <1>3, <1>5, <1>6 DEF InOrder
<1>8. Distinct(r) /\ r \in Seq(Items) /\ \A n \in DOMAIN r : r[n] \in s
  BY <1>3, <1>5, <1>6 DEF Distinct
<1>9. ASSUME NEW j \in s
      PROVE  \/ \E n \in DOMAIN r : r[n] = j
             \/ \E b \in Nat : /\ b + k <= Len(r)
                               /\ \A i \in (b + 1)..(b + k) : IsBefore(kind, r[i], j)
  <2>1. PICK n \in 1..c : q[n] = j
    BY <1>4
  <2>2. CASE n <= Len(r)
    BY <1>5, <1>6, <2>1, <2>2
  <2>3. CASE n > Len(r)
    <3>1. Len(r) = k
      BY <1>1, <1>3, <1>5, <2>3
    <3>2. \A i \in 1..k : IsBefore(kind, r[i], j)
      <4> TAKE i \in 1..k
      <4>1. r[i] = q[i] /\ i < n /\ i \in DOMAIN q /\ n \in DOMAIN q
        BY <1>3, <1>5, <1>6, <2>3, <3>1
      <4> QED
        BY <2>1, <4>1 DEF InOrder
    <3>3. 0 \in Nat /\ 0 + k <= Len(r) /\ 0 + 1 = 1 /\ 0 + k = k
      BY <3>1
    <3> QED
      BY <3>2, <3>3
  <2> QED
    BY <1>1, <1>6, <2>2, <2>3
<1> QED
  BY <1>5, <1>7, <1>8, <1>9 DEF Selection, r

\* Selections of sets with nothing in common, one after the other.
LEMMA SelectionsAppend ==
    ASSUME NEW A, NEW B, A \cap B = {}, NEW kind, NEW limit \in Nat,
           NEW one, Selection(A, one, kind, limit),
           NEW two, Selection(B, two, kind, limit)
    PROVE  Selection(A \cup B, one \o two, kind, limit)
<1> DEFINE both == one \o two
           a    == Len(one)
           c    == Len(two)
<1>1. /\ one \in Seq(Items) /\ two \in Seq(Items)
      /\ Distinct(one) /\ Distinct(two)
      /\ \A n \in DOMAIN one : one[n] \in A
      /\ \A n \in DOMAIN two : two[n] \in B
  BY DEF Selection
<1>2. /\ both \in Seq(Items) /\ a \in Nat /\ c \in Nat /\ Len(both) = a + c
      /\ DOMAIN one = 1..a /\ DOMAIN two = 1..c /\ DOMAIN both = 1..(a + c)
  BY <1>1
<1>3. \A n \in 1..a : both[n] = one[n]
  BY <1>1, <1>2
<1>4. \A n \in 1..c : both[a + n] = two[n]
  BY <1>1, <1>2
<1>5. \A n \in 1..(a + c) : n \in 1..a \/ \E i \in 1..c : n = a + i
  <2> TAKE n \in 1..(a + c)
  <2>1. n \in 1..a \/ (n - a \in 1..c /\ n = a + (n - a))
    BY <1>2
  <2> QED
    BY <2>1
<1> HIDE DEF both, a, c
<1>6. Distinct(both)
  <2> SUFFICES ASSUME NEW m \in 1..(a + c), NEW n \in 1..(a + c), both[m] = both[n]
               PROVE  m = n
    BY <1>2 DEF Distinct
  <2>1. CASE m \in 1..a /\ n \in 1..a
    BY <1>1, <1>2, <1>3, <2>1 DEF Distinct
  <2>2. CASE m \in 1..a /\ n \notin 1..a
    <3>1. PICK k \in 1..c : n = a + k
      BY <1>5, <2>2
    <3>2. both[m] = one[m] /\ both[n] = two[k]
      BY <1>3, <1>4, <2>2, <3>1
    <3> QED
      BY <1>1, <1>2, <2>2, <3>1, <3>2
  <2>3. CASE m \notin 1..a /\ n \in 1..a
    <3>1. PICK i \in 1..c : m = a + i
      BY <1>5, <2>3
    <3>2. both[m] = two[i] /\ both[n] = one[n]
      BY <1>3, <1>4, <2>3, <3>1
    <3> QED
      BY <1>1, <1>2, <2>3, <3>1, <3>2
  <2>4. CASE m \notin 1..a /\ n \notin 1..a
    <3>1. PICK i \in 1..c : m = a + i
      BY <1>5, <2>4
    <3>2. PICK k \in 1..c : n = a + k
      BY <1>5, <2>4
    <3>3. two[i] = two[k]
      BY <1>4, <3>1, <3>2
    <3> QED
      BY <1>1, <1>2, <3>1, <3>2, <3>3 DEF Distinct
  <2> QED
    BY <2>1, <2>2, <2>3, <2>4
<1>7. \A n \in DOMAIN both : both[n] \in A \cup B
  <2> TAKE n \in DOMAIN both
  <2>1. n \in 1..a \/ \E i \in 1..c : n = a + i
    BY <1>2, <1>5
  <2>2. CASE n \in 1..a
    BY <1>1, <1>2, <1>3, <2>2
  <2>3. CASE \E i \in 1..c : n = a + i
    BY <1>1, <1>2, <1>4, <2>3
  <2> QED
    BY <2>1, <2>2, <2>3
<1>8. ASSUME NEW j \in A \cup B
      PROVE  \/ \E n \in DOMAIN both : both[n] = j
             \/ \E b \in Nat : /\ b + limit <= Len(both)
                               /\ \A k \in (b + 1)..(b + limit) : IsBefore(kind, both[k], j)
  <2>1. CASE \E n \in DOMAIN one : one[n] = j
    BY <1>2, <1>3, <2>1
  <2>2. CASE \E n \in DOMAIN two : two[n] = j
    <3>1. PICK n \in 1..c : two[n] = j
      BY <1>2, <2>2
    <3>2. a + n \in 1..(a + c) /\ both[a + n] = j
      BY <1>2, <1>4, <3>1
    <3> QED
      BY <1>2, <3>2
  <2>3. CASE \E b \in Nat : /\ b + limit <= Len(one)
                            /\ \A k \in (b + 1)..(b + limit) : IsBefore(kind, one[k], j)
    <3>1. PICK b \in Nat : /\ b + limit <= a
                           /\ \A k \in (b + 1)..(b + limit) : IsBefore(kind, one[k], j)
      BY <2>3 DEF a
    <3>2. b + limit <= Len(both) /\ \A k \in (b + 1)..(b + limit) : both[k] = one[k]
      BY <1>2, <1>3, <3>1
    <3> QED
      BY <3>1, <3>2
  <2>4. CASE \E b \in Nat : /\ b + limit <= Len(two)
                            /\ \A k \in (b + 1)..(b + limit) : IsBefore(kind, two[k], j)
    <3>1. PICK b \in Nat : /\ b + limit <= c
                           /\ \A k \in (b + 1)..(b + limit) : IsBefore(kind, two[k], j)
      BY <2>4 DEF c
    <3>2. a + b \in Nat /\ (a + b) + limit <= Len(both)
      BY <1>2, <3>1
    <3>3. \A k \in (a + b + 1)..(a + b + limit) : IsBefore(kind, both[k], j)
      <4> TAKE k \in (a + b + 1)..(a + b + limit)
      <4>1. k - a \in (b + 1)..(b + limit) /\ k - a \in 1..c /\ a + (k - a) = k
        BY <1>2, <3>1
      <4>2. both[a + (k - a)] = two[k - a]
        BY <1>4, <4>1
      <4> QED
        BY <3>1, <4>1, <4>2
    <3> QED
      BY <3>2, <3>3
  <2> QED
    BY <2>1, <2>2, <2>3, <2>4 DEF Selection
<1> QED
  BY <1>2, <1>6, <1>7, <1>8 DEF Selection, both

-----------------------------------------------------------------------------

\* Precedes orders the places of a sequence of items, and totally.
LEMMA PrecedesIsTotal ==
    ASSUME NEW items \in Seq(Items)
    PROVE  \A l, m, n \in DOMAIN items :
              /\ ~Precedes(items, m, m)
              /\ m # n => Precedes(items, m, n) \/ Precedes(items, n, m)
              /\ Precedes(items, l, m) /\ Precedes(items, m, n) => Precedes(items, l, n)
              /\ Precedes(items, m, n) => IsBefore("search_all", items[m], items[n])
<1>1. \A n \in DOMAIN items : ItemData[items[n]].distance \in Nat
  <2>1. \A n \in DOMAIN items : items[n] \in Items
    OBVIOUS
  <2>2. \A i \in Items : ItemData[i].distance \in Nat
    BY RetrievalAssumption DEF Item
  <2> QED
    BY <2>1, <2>2
<1>2. DOMAIN items \subseteq Nat
  OBVIOUS
<1> QED
  BY <1>1, <1>2 DEF Precedes, IsBefore

\* The places are the numbers from one to the length, one for each position, and
\* they grow with Precedes.
LEMMA PlacesAreAPermutation ==
    ASSUME NEW items \in Seq(Items)
    PROVE  /\ \A m \in DOMAIN items : Place(items, m) \in DOMAIN items
           /\ \A m, n \in DOMAIN items :
                 Place(items, m) < Place(items, n) <=> Precedes(items, m, n)
           /\ \A n \in DOMAIN items : \E m \in DOMAIN items : Place(items, m) = n
<1> DEFINE z == Len(items)
           D == 1..z
           Upto(m) == {k \in D : ~Precedes(items, m, k)}
<1>1. z \in Nat /\ DOMAIN items = D
  OBVIOUS
<1>2. IsFiniteSet(D) /\ Cardinality(D) = z
  BY <1>1, FS_Interval
<1>3. \A m \in D : Place(items, m) = Cardinality(Upto(m))
  BY <1>1 DEF Place
<1>4. \A l, m, n \in D :
         /\ ~Precedes(items, m, m)
         /\ m # n => Precedes(items, m, n) \/ Precedes(items, n, m)
         /\ Precedes(items, l, m) /\ Precedes(items, m, n) => Precedes(items, l, n)
  BY <1>1, PrecedesIsTotal
<1>5. \A m \in D : /\ Upto(m) \in SUBSET D /\ IsFiniteSet(Upto(m))
                   /\ Cardinality(Upto(m)) \in Nat
  <2> TAKE m \in D
  <2>1. Upto(m) \in SUBSET D
    OBVIOUS
  <2> HIDE DEF Upto, D
  <2>2. IsFiniteSet(Upto(m))
    BY <1>2, <2>1, FS_Subset
  <2> QED
    BY <2>1, <2>2, FS_CardinalityType
<1>6. \A m \in D : Place(items, m) \in D
  <2> TAKE m \in D
  <2>1. m \in Upto(m)
    BY <1>4
  <2> HIDE DEF Upto
  <2>2. Cardinality(Upto(m)) <= z
    <3> HIDE DEF D
    <3> QED
      BY <1>2, <1>5, FS_Subset
  <2>3. Cardinality(Upto(m)) # 0
    BY <1>5, <2>1, FS_EmptySet
  <2> QED
    BY <1>1, <1>3, <1>5, <2>2, <2>3
<1>7. ASSUME NEW m \in D, NEW n \in D, Precedes(items, m, n)
      PROVE  Place(items, m) < Place(items, n)
  <2>1. Upto(m) \in SUBSET Upto(n)
    <3> SUFFICES ASSUME NEW k \in D, ~Precedes(items, m, k)
                 PROVE  ~Precedes(items, n, k)
      OBVIOUS
    <3> HIDE DEF D
    <3> QED
      BY <1>4, <1>7
  <2>2. n \in Upto(n) /\ n \notin Upto(m)
    BY <1>4, <1>7
  <2> HIDE DEF Upto, D
  <2>3. /\ Cardinality(Upto(m)) <= Cardinality(Upto(n))
        /\ Cardinality(Upto(n)) # Cardinality(Upto(m))
    BY <1>5, <2>1, <2>2, FS_Subset
  <2> QED
    BY <1>3, <1>5, <2>3
<1>8. \A m, n \in D : Place(items, m) < Place(items, n) <=> Precedes(items, m, n)
  <2> SUFFICES ASSUME NEW m \in D, NEW n \in D, Place(items, m) < Place(items, n)
               PROVE  Precedes(items, m, n)
    BY <1>7
  <2>1. m # n /\ ~(Place(items, n) < Place(items, m))
    BY <1>6
  <2> HIDE DEF D
  <2> QED
    BY <1>4, <1>7, <2>1
<1>9. \A n \in D : \E m \in D : Place(items, m) = n
  <2> DEFINE p == [m \in D |-> Place(items, m)]
  <2>1. p \in [D -> D] /\ \A m \in D : p[m] = Place(items, m)
    <3> HIDE DEF D
    <3> QED
      BY <1>6
  <2>2. \A m, n \in D : p[m] = p[n] => m = n
    <3> SUFFICES ASSUME NEW m \in D, NEW n \in D, p[m] = p[n], m # n
                 PROVE  FALSE
      OBVIOUS
    <3>1. Place(items, m) = Place(items, n) /\ Place(items, m) \in Int
      BY <1>6, <2>1
    <3>2. ~(Place(items, m) < Place(items, n)) /\ ~(Place(items, n) < Place(items, m))
      BY <3>1
    <3> HIDE DEF D, p
    <3> QED
      BY <1>4, <1>8, <3>2
  <2> HIDE DEF p, D
  <2>3. p \in Injection(D, D)
    BY <2>1, <2>2 DEF Injection, IsInjective
  <2>4. p \in Surjection(D, D)
    BY <1>2, <2>3, FS_Injection
  <2> QED
    BY <2>1, <2>4 DEF Surjection
<1> HIDE DEF D
<1> QED
  BY <1>1, <1>6, <1>8, <1>9

\* Merge turns what the layers have given into a selection in order.
LEMMA MergeIsSelection ==
    ASSUME NEW met \in SUBSET Items, NEW items, NEW limit \in Nat,
           Selection(met, items, "search_all", limit)
    PROVE  LET r == Merge(items, limit)
           IN  Selection(met, r, "search_all", limit) /\ InOrder("search_all", r)
               /\ Len(r) <= limit
<1> DEFINE z == Len(items)
           D == DOMAIN items
           At(n) == CHOOSE m \in D : Place(items, m) = n
           q == Sorted(items)
           r == SubSeq(q, 1, Min({limit, Len(q)}))
<1>1. /\ items \in Seq(Items) /\ Distinct(items)
      /\ z \in Nat /\ D = 1..z
      /\ \A n \in D : items[n] \in met
  BY DEF Selection
<1>2. /\ \A m \in D : Place(items, m) \in D
      /\ \A m, n \in D : Place(items, m) < Place(items, n) <=> Precedes(items, m, n)
      /\ \A n \in D : \E m \in D : Place(items, m) = n
  BY <1>1, PlacesAreAPermutation
<1>3. \A n \in D : At(n) \in D /\ Place(items, At(n)) = n
  <2> HIDE DEF D
  <2> QED
    BY <1>2
<1>4. \A n \in D : n \in Int /\ n >= 1 /\ n <= z
  BY <1>1
<1>5. \A m \in D : Place(items, m) \in Int /\ Place(items, m) >= 1 /\ Place(items, m) <= z
  BY <1>2, <1>4
<1>6. q = [n \in D |-> items[At(n)]]
  BY DEF Sorted
<1> HIDE DEF At, D
<1>7. q \in Seq(Items) /\ Len(q) = z /\ DOMAIN q = D /\ \A n \in D : q[n] = items[At(n)]
  <2>1. \A n \in D : items[At(n)] \in Items
    BY <1>1, <1>3 DEF D
  <2> HIDE DEF q
  <2> QED
    BY <1>1, <1>6, <2>1
<1>8. \A m \in D : \E n \in D : n = Place(items, m) /\ At(n) = m
  <2> SUFFICES ASSUME NEW m \in D
               PROVE  At(Place(items, m)) = m
    BY <1>2
  <2> DEFINE a == At(Place(items, m))
  <2>1. a \in D /\ Place(items, a) = Place(items, m) /\ Place(items, m) \in Int
    BY <1>2, <1>3, <1>4
  <2>2. ~Precedes(items, a, m) /\ ~Precedes(items, m, a)
    <3> HIDE DEF a
    <3> QED
      BY <1>2, <2>1
  <2> HIDE DEF a
  <2>3. a = m
    BY <1>1, <2>1, <2>2, PrecedesIsTotal DEF D
  <2> QED
    BY <2>3 DEF a
<1> HIDE DEF q
<1>9. InOrder("search_all", q)
  <2> SUFFICES ASSUME NEW m \in D, NEW n \in D, m < n
               PROVE  IsBefore("search_all", q[m], q[n])
    BY <1>7 DEF InOrder
  <2>1. Precedes(items, At(m), At(n))
    BY <1>2, <1>3
  <2>2. IsBefore("search_all", items[At(m)], items[At(n)])
    BY <1>1, <1>3, <2>1, PrecedesIsTotal DEF D
  <2> QED
    BY <1>7, <2>2
<1>10. /\ r \in Seq(Items)
       /\ Len(r) = IF limit <= z THEN limit ELSE z
       /\ Len(r) <= limit /\ Len(r) <= z
       /\ \A n \in 1..Len(r) : r[n] = q[n]
  <2>1. q \in Seq(Items)
    BY <1>7
  <2>2. /\ r \in Seq(Items)
        /\ Len(r) = IF limit <= Len(q) THEN limit ELSE Len(q)
        /\ Len(r) <= limit /\ Len(r) <= Len(q)
        /\ \A n \in 1..Len(r) : r[n] = q[n]
    BY <2>1, FirstOf
  <2> HIDE DEF r
  <2> QED
    BY <1>7, <2>2
<1>11. Merge(items, limit) = r
  BY <1>7 DEF Merge, q, r
<1> HIDE DEF r
<1>12. Len(r) \in Nat /\ DOMAIN r = 1..Len(r) /\ \A n \in 1..Len(r) : n \in D
  BY <1>1, <1>10
<1>13. InOrder("search_all", r)
  <2> HIDE DEF D
  <2> QED
    BY <1>7, <1>9, <1>10, <1>12 DEF InOrder
<1>14. Distinct(r) /\ \A n \in DOMAIN r : r[n] \in met
  <2>1. \A n \in DOMAIN r : r[n] = items[At(n)] /\ At(n) \in D /\ Place(items, At(n)) = n
    BY <1>3, <1>7, <1>10, <1>12
  <2> HIDE DEF D
  <2> QED
    BY <1>1, <2>1 DEF Distinct
<1>15. ASSUME NEW j \in met
       PROVE  \/ \E n \in DOMAIN r : r[n] = j
              \/ \E b \in Nat : /\ b + limit <= Len(r)
                                /\ \A k \in (b + 1)..(b + limit) : IsBefore("search_all", r[k], j)
  <2> SUFFICES ASSUME \A n \in DOMAIN r : r[n] # j
               PROVE  /\ 0 + limit <= Len(r)
                      /\ \A k \in (0 + 1)..(0 + limit) : IsBefore("search_all", r[k], j)
    OBVIOUS
  <2>1. \A m \in D : items[m] = j => Place(items, m) > Len(r)
    <3> SUFFICES ASSUME NEW m \in D, items[m] = j, Place(items, m) <= Len(r)
                 PROVE  FALSE
      BY <1>5, <1>12
    <3>1. Place(items, m) \in D /\ At(Place(items, m)) = m
      BY <1>2, <1>8
    <3>3. Place(items, m) \in 1..Len(r)
      BY <1>12, <1>4, <3>1
    <3>2. r[Place(items, m)] = j
      BY <1>7, <1>10, <3>1, <3>3
    <3> QED
      BY <1>12, <3>2, <3>3
  \* Some item that comes before j has a place of the limit or more.
  <2>2. /\ limit <= z
        /\ limit > 0 =>
              \E m \in D : Place(items, m) >= limit /\ IsBefore("search_all", items[m], j)
    <3>1. CASE \E m \in D : items[m] = j
      <4>1. PICK m \in D : items[m] = j
        BY <3>1
      <4>2. Place(items, m) \in D /\ Place(items, m) > Len(r)
        BY <1>2, <2>1, <4>1
      <4>3. Len(r) = limit /\ limit <= z
        BY <1>1, <1>10, <1>4, <4>2
      <4>4. IsBefore("search_all", items[m], j)
        <5>1. ItemData[j].distance \in Nat
          BY <1>1, <4>1, RetrievalAssumption DEF Item
        <5> QED
          BY <4>1, <5>1 DEF IsBefore
      <4> QED
        BY <1>5, <4>2, <4>3, <4>4
    <3>2. CASE ~\E m \in D : items[m] = j
      <4>1. PICK b \in Nat :
               /\ b + limit <= z
               /\ \A k \in (b + 1)..(b + limit) : IsBefore("search_all", items[k], j)
        BY <1>1, <3>2 DEF Selection, D
      <4> DEFINE R == (b + 1)..(b + limit)
                 T == 1..(limit - 1)
                 f == [k \in R |-> Place(items, k)]
      <4>2. R \subseteq D
        BY <1>1, <4>1
      <4>3. ASSUME limit > 0, \A k \in R : Place(items, k) < limit
            PROVE  FALSE
        <5>1. f \in [R -> T]
          <6>1. \A k \in R : Place(items, k) \in T
            BY <1>5, <4>2, <4>3
          <6> HIDE DEF R, T
          <6> QED
            BY <6>1
        <5>2. IsFiniteSet(R) /\ Cardinality(R) = limit
          BY <4>3, FS_Interval
        <5>3. IsFiniteSet(T) /\ Cardinality(T) = limit - 1
          BY <4>3, FS_Interval
        <5>4. Cardinality(T) < Cardinality(R)
          BY <5>2, <5>3
        <5> HIDE DEF T
        <5>5. PICK k, l \in R : k # l /\ f[k] = f[l]
          <6> HIDE DEF R, f
          <6> QED
            BY <5>1, <5>2, <5>3, <5>4, FS_PigeonHole
        <5>6. k \in D /\ l \in D /\ Place(items, k) = Place(items, l)
          BY <4>2, <5>5
        <5>7. ~Precedes(items, k, l) /\ ~Precedes(items, l, k)
          BY <1>2, <1>5, <5>6
        <5> QED
          BY <1>1, <5>5, <5>6, <5>7, PrecedesIsTotal DEF D
      <4>4. limit <= z
        BY <1>1, <4>1
      <4>5. \A k \in R : k \in D /\ Place(items, k) \in Int
        BY <1>5, <4>2
      <4> QED
        BY <4>1, <4>3, <4>4, <4>5
    <3> QED
      BY <3>1, <3>2
  <2>3. Len(r) = limit
    BY <1>1, <1>10, <2>2
  <2>4. ASSUME NEW k \in 1..limit
        PROVE  IsBefore("search_all", r[k], j)
    <3>1. PICK m \in D : Place(items, m) >= limit /\ IsBefore("search_all", items[m], j)
      BY <2>2
    <3>2. k \in D /\ r[k] = q[k] /\ k <= Place(items, m) /\ Place(items, m) \in D
      <4>1. Place(items, m) \in D /\ k \in 1..Len(r)
        BY <1>2, <2>3, <3>1
      <4> QED
        BY <1>10, <1>12, <1>4, <3>1, <4>1
    <3>3. q[Place(items, m)] = items[m] /\ items[m] \in Items
      <4>1. PICK n \in D : n = Place(items, m) /\ At(n) = m
        BY <1>8, <3>1
      <4> QED
        BY <1>1, <1>7, <4>1 DEF D
    <3>4. q[k] \in Items
      BY <1>7, <3>2
    <3>5. q[k] = items[m] \/ IsBefore("search_all", q[k], items[m])
      <4>1. CASE k = Place(items, m)
        BY <3>3, <4>1
      <4>2. CASE k < Place(items, m)
        BY <1>7, <1>9, <3>2, <3>3, <4>2 DEF InOrder
      <4> QED
        BY <1>4, <1>5, <3>1, <3>2, <4>1, <4>2
    <3>6. ItemData[j].distance \in Nat
      BY RetrievalAssumption DEF Item
    <3>7. ItemData[q[k]].distance \in Nat /\ ItemData[items[m]].distance \in Nat
      BY <3>3, <3>4, RetrievalAssumption DEF Item
    <3>8. ItemData[q[k]].distance <= ItemData[items[m]].distance
      BY <3>5, <3>7 DEF IsBefore
    <3>9. ItemData[items[m]].distance <= ItemData[j].distance
      BY <3>1 DEF IsBefore
    <3> QED
      BY <3>2, <3>6, <3>7, <3>8, <3>9 DEF IsBefore
  <2> QED
    BY <2>3, <2>4
<1> QED
  BY <1>10, <1>11, <1>13, <1>14, <1>15 DEF Selection

\* items are the best of met, in order and as many as the limit allows.
BestOf(met, items, kind, limit) ==
    LET answer == {items[n] : n \in DOMAIN items}
    IN  /\ answer \subseteq met
        /\ Len(items) = Cardinality(answer)
        /\ Len(items) = Min({limit, Cardinality(met)})
        /\ InOrder(kind, items)
        /\ \A i \in answer, j \in met \ answer : IsBefore(kind, i, j)

\* A selection in order that is no longer than the limit holds the best of all.
LEMMA SelectionIsExact ==
    ASSUME NEW met \in SUBSET Items, NEW kind, NEW limit \in Nat,
           NEW items, Selection(met, items, kind, limit), InOrder(kind, items),
           Len(items) <= limit
    PROVE  BestOf(met, items, kind, limit)
<1> DEFINE answer == {items[n] : n \in DOMAIN items}
           z == Len(items)
<1>1. /\ items \in Seq(Items) /\ z \in Nat /\ DOMAIN items = 1..z /\ z <= limit
      /\ \A m, n \in 1..z : items[m] = items[n] => m = n
  BY DEF Selection, Distinct
<1>2. answer \subseteq met
  BY DEF Selection
<1>3. ASSUME NEW j \in met \ answer
      PROVE  z = limit /\ \A n \in 1..z : IsBefore(kind, items[n], j)
  <2>1. PICK b \in Nat : /\ b + limit <= z
                         /\ \A k \in (b + 1)..(b + limit) : IsBefore(kind, items[k], j)
    BY DEF Selection
  <2>2. b = 0 /\ z = limit
    <3>1. b \in Nat /\ b + limit <= z
      BY <2>1
    <3> HIDE DEF z
    <3> QED
      BY <1>1, <3>1
  <2>3. (b + 1)..(b + limit) = 1..z
    BY <2>2
  <2> QED
    BY <2>1, <2>2, <2>3
<1>4. Cardinality(answer) = z
  <2>1. items \in Bijection(1..z, answer)
    <3>1. items \in [1..z -> answer] /\ \A a \in answer : \E n \in 1..z : items[n] = a
      BY <1>1
    <3> HIDE DEF answer, z
    <3> QED
      BY <1>1, <3>1 DEF Bijection, Injection, Surjection, IsInjective
  <2> HIDE DEF answer, z
  <2>2. ExistsBijection(1..z, answer)
    BY <2>1 DEF ExistsBijection
  <2> QED
    BY <1>1, <2>2, FS_CountingElements
<1>5. IsFiniteSet(met) /\ Cardinality(met) \in Nat
  BY RetrievalAssumption, FS_Subset, FS_CardinalityType
<1> HIDE DEF answer, z
<1>6. z <= Cardinality(met)
  BY <1>2, <1>4, <1>5, FS_Subset
<1>7. z = Min({limit, Cardinality(met)})
  <2>1. CASE met = answer
    BY <1>1, <1>4, <1>5, <2>1, MinOfTwo
  <2>2. CASE met # answer
    <3>1. PICK j \in met : j \notin answer
      BY <1>2, <2>2
    <3>2. z = limit
      BY <1>3, <3>1
    <3> QED
      BY <1>5, <1>6, <3>2, MinOfTwo
  <2> QED
    BY <2>1, <2>2
<1>8. \A i \in answer, j \in met \ answer : IsBefore(kind, i, j)
  BY <1>1, <1>3 DEF answer
<1> QED
  BY <1>2, <1>4, <1>7, <1>8 DEF BestOf, answer, z

-----------------------------------------------------------------------------

\* The days of a time, without a division.
LEMMA DaysOfTime ==
    ASSUME NEW t \in Nat
    PROVE  /\ DayOf(t) \in Nat
           /\ \A a \in Int : a * DayLength <= t <=> a <= DayOf(t)
<1> DEFINE L == DayLength
           d == t \div L
<1>1. L \in Nat /\ L > 0
  BY RetrievalAssumption
<1>2. d \in Nat /\ d * L <= t /\ t < d * L + L
  <2> HIDE DEF L
  <2> QED
    BY <1>1
<1> HIDE DEF L, d
<1>3. ASSUME NEW a \in Int
      PROVE  a * L <= t <=> a <= d
  <2>1. CASE a <= d
    <3>1. a * L <= d * L
      BY <1>1, <1>2, <2>1
    <3>2. a * L \in Int /\ d * L \in Int
      BY <1>1, <1>2
    <3> QED
      BY <1>2, <2>1, <3>1, <3>2
  <2>2. CASE a > d
    <3>1. (d + 1) * L <= a * L
      BY <1>1, <1>2, <2>2
    <3>2. (d + 1) * L = d * L + L
      BY <1>1, <1>2
    <3>3. a * L \in Int /\ d * L \in Int
      BY <1>1, <1>2
    <3> QED
      BY <1>1, <1>2, <2>2, <3>1, <3>2, <3>3
  <2> QED
    BY <1>2, <2>1, <2>2
<1> QED
  BY <1>2, <1>3 DEF DayOf, d, L

\* The window of a phrase holds the times that are meant by it.
LEMMA WindowIsMeant ==
    ASSUME NEW phrase \in Phrases, NEW t \in 0..Now
    PROVE  Window(phrase)[1] <= t /\ t <= Window(phrase)[2] <=> Meant(phrase, t)
<1> DEFINE L == DayLength
           D == DayOf(Now)
           d == DayOf(t)
<1>1. Now \in Nat /\ L \in Nat /\ L > 0 /\ t \in Nat /\ t <= Now
  BY RetrievalAssumption
<1>2. D \in Nat /\ d \in Nat
  BY <1>1, DaysOfTime
<1>3. \A a \in Int : (a * L <= t <=> a <= d) /\ (a * L <= Now <=> a <= D)
  BY <1>1, DaysOfTime
<1>4. d <= D
  <2>1. d * L <= t
    BY <1>2, <1>3
  <2>2. d * L \in Int
    BY <1>1, <1>2
  <2>3. d * L <= Now
    BY <1>1, <2>1, <2>2
  <2> QED
    BY <1>2, <1>3, <2>3
<1>5. D * L \in Int /\ D * L <= Now
  BY <1>1, <1>2, <1>3
<1> HIDE DEF L, D, d
<1>6. CASE phrase.words = "yesterday"
  <2>1. Window(phrase) = <<D * L - L, D * L>>
    BY <1>6 DEF Window, Midnight, DayOf, D, L
  <2>2. D * L - L = (D - 1) * L
    BY <1>1, <1>2
  <2>3. D * L - L <= t <=> D - 1 <= d
    BY <1>2, <1>3, <2>2
  <2>4. D * L <= t <=> D <= d
    BY <1>2, <1>3
  <2>5. Meant(phrase, t) <=> d = D - 1 \/ t = D * L
    BY <1>6 DEF Meant, Named, D, d, L
  <2> QED
    BY <1>1, <1>2, <1>4, <1>5, <2>1, <2>3, <2>4, <2>5
<1>7. CASE phrase.words = "today"
  <2>1. Window(phrase) = <<D * L, Now>>
    BY <1>7 DEF Window, Midnight, DayOf, D, L
  <2>2. Meant(phrase, t) <=> d = D
    BY <1>7 DEF Meant, Named, D, d, L
  <2> QED
    BY <1>1, <1>2, <1>3, <1>4, <2>1, <2>2
<1>8. CASE phrase.words = "this week"
  <2>1. Window(phrase) = <<D * L - (D % 7) * L, Now>>
    BY <1>8 DEF Window, Monday, Midnight, DayOf, D, L
  <2>2. D % 7 \in Int /\ D * L - (D % 7) * L = (D - (D % 7)) * L
    BY <1>1, <1>2
  <2>3. D * L - (D % 7) * L <= t <=> D - (D % 7) <= d
    BY <1>2, <1>3, <2>2
  <2>4. D - (D % 7) <= d <=> d \div 7 = D \div 7
    BY <1>2, <1>4
  <2>5. Meant(phrase, t) <=> d \div 7 = D \div 7
    BY <1>8 DEF Meant, Named, D, d, L
  <2> QED
    BY <1>1, <2>1, <2>3, <2>4, <2>5
<1>9. ASSUME NEW n \in Nat, Window(phrase) = <<Now - n * L, Now>>,
             Meant(phrase, t) <=> Now - t <= n * L
      PROVE  Window(phrase)[1] <= t /\ t <= Window(phrase)[2] <=> Meant(phrase, t)
  <2>1. n * L \in Nat
    BY <1>1
  <2> QED
    BY <1>1, <1>9, <2>1
<1>10. CASE phrase.words = "past days"
  <2>1. phrase.days \in Nat
    BY <1>10, RetrievalAssumption DEF Phrases
  <2>2. Window(phrase) = <<Now - phrase.days * L, Now>>
    BY <1>10 DEF Window, L
  <2>3. Meant(phrase, t) <=> Now - t <= phrase.days * L
    BY <1>10 DEF Meant, Named, L
  <2> QED
    BY <1>9, <2>1, <2>2, <2>3
<1>11. CASE phrase.words = "last days"
  <2>1. Window(phrase) = <<Now - 30 * L, Now>>
    BY <1>11 DEF Window, L
  <2>2. Meant(phrase, t) <=> Now - t <= 30 * L
    BY <1>11 DEF Meant, Named, L
  <2> QED
    BY <1>9, <2>1, <2>2
<1>12. CASE phrase.words = "recently"
  <2>1. Window(phrase) = <<Now - 14 * L, Now>>
    BY <1>12 DEF Window, L
  <2>2. Meant(phrase, t) <=> Now - t <= 14 * L
    BY <1>12 DEF Meant, Named, L
  <2> QED
    BY <1>9, <2>1, <2>2
<1>13. CASE phrase.words = "week"
  <2>1. Window(phrase) = <<Now - 7 * L, Now>>
    BY <1>13 DEF Window, L
  <2>2. Meant(phrase, t) <=> Now - t <= 7 * L
    BY <1>13 DEF Meant, Named, L
  <2> QED
    BY <1>9, <2>1, <2>2
<1>14. CASE phrase.words = "month"
  <2>1. Window(phrase) = <<Now - 30 * L, Now>>
    BY <1>14 DEF Window, L
  <2>2. Meant(phrase, t) <=> Now - t <= 30 * L
    BY <1>14 DEF Meant, Named, L
  <2> QED
    BY <1>9, <2>1, <2>2
<1>15. CASE phrase.words = "year"
  <2>1. Window(phrase) = <<Now - 365 * L, Now>>
    BY <1>15 DEF Window, L
  <2>2. Meant(phrase, t) <=> Now - t <= 365 * L
    BY <1>15 DEF Meant, Named, L
  <2> QED
    BY <1>9, <2>1, <2>2
<1> QED
  BY <1>6, <1>7, <1>8, <1>10, <1>11, <1>12, <1>13, <1>14, <1>15 DEF Phrases

-----------------------------------------------------------------------------

\* What a request of each kind carries.
LEMMA RequestFields ==
    ASSUME NEW r \in Requests
    PROVE  /\ r.kind \in SearchKinds \cup LookupKinds
           /\ r.kind \in SearchKinds => r.limit \in Nat
           /\ r.kind = "time" => r.phrase \in Phrases
           /\ r.kind = "list_projects" => r.technology \subseteq Skills \cup {Anything}
           /\ r.kind = "get_project_info" => r.project \in Catalogue
  BY RetrievalAssumption DEF Requests, SearchKinds, LookupKinds

\* Active layers are layers, each at most once.
LEMMA ActiveLayersAreDistinct ==
    ASSUME NEW asked
    PROVE  ActiveLayers(asked) \in Seq(LayerNames) /\ Distinct(ActiveLayers(asked))
<1> DEFINE active == IF asked = {} THEN LayerNames ELSE {Alias(name) : name \in asked}
           Part(layer) == IF layer \in active THEN <<layer>> ELSE <<>>
<1>1. ActiveLayers(asked) = Part("document") \o Part("code") \o Part("commit")
  BY DEF ActiveLayers
<1> HIDE DEF active
<1>2. ASSUME NEW layer \in LayerNames
      PROVE  /\ Part(layer) \in Seq(LayerNames) /\ Len(Part(layer)) \in {0, 1}
             /\ \A n \in 1..Len(Part(layer)) : Part(layer)[n] = layer
  OBVIOUS
<1> HIDE DEF Part
<1> DEFINE one == Part("document")
           two == Part("code")
           three == Part("commit")
           all == (one \o two) \o three
<1>3. /\ one \in Seq(LayerNames) /\ Len(one) \in {0, 1}
      /\ \A n \in 1..Len(one) : one[n] = "document"
      /\ two \in Seq(LayerNames) /\ Len(two) \in {0, 1}
      /\ \A n \in 1..Len(two) : two[n] = "code"
      /\ three \in Seq(LayerNames) /\ Len(three) \in {0, 1}
      /\ \A n \in 1..Len(three) : three[n] = "commit"
  BY <1>2 DEF LayerNames
<1> HIDE DEF one, two, three
<1>4. /\ all \in Seq(LayerNames) /\ Len(all) = Len(one) + Len(two) + Len(three)
      /\ \A n \in 1..Len(one) : all[n] = "document"
      /\ \A n \in 1..Len(two) : all[Len(one) + n] = "code"
      /\ \A n \in 1..Len(three) : all[Len(one) + Len(two) + n] = "commit"
  BY <1>3
<1> HIDE DEF all
<1>5. Distinct(all)
  <2>1. DOMAIN all = 1..Len(all)
    BY <1>4
  <2>2. \A n \in DOMAIN all : \/ n = Len(one) /\ n = 1 /\ all[n] = "document"
                              \/ n = Len(one) + Len(two) /\ Len(two) = 1 /\ all[n] = "code"
                              \/ n = Len(one) + Len(two) + Len(three) /\ all[n] = "commit"
    <3> TAKE n \in DOMAIN all
    <3>1. /\ Len(one) \in Nat /\ Len(two) \in Nat /\ Len(three) \in Nat
          /\ Len(one) <= 1 /\ Len(two) <= 1 /\ Len(three) <= 1
          /\ n \in 1..(Len(one) + Len(two) + Len(three))
      BY <1>3, <1>4, <2>1
    <3>2. \/ n \in 1..Len(one)
          \/ \E i \in 1..Len(two) : n = Len(one) + i
          \/ \E i \in 1..Len(three) : n = Len(one) + Len(two) + i
      <4>1. CASE n <= Len(one)
        BY <3>1, <4>1
      <4>2. CASE n > Len(one) /\ n <= Len(one) + Len(two)
        <5>1. n - Len(one) \in 1..Len(two) /\ n = Len(one) + (n - Len(one))
          BY <3>1, <4>2
        <5> QED
          BY <5>1, Zenon
      <4>3. CASE n > Len(one) + Len(two)
        <5> DEFINE i == n - (Len(one) + Len(two))
        <5>1. i \in 1..Len(three) /\ n = Len(one) + Len(two) + i
          BY <3>1, <4>3
        <5> QED
          BY <5>1, Zenon
      <4> QED
        BY <3>1, <4>1, <4>2, <4>3
    <3>3. CASE n \in 1..Len(one)
      <4>1. all[n] = "document"
        BY <1>4, <3>3
      <4>2. n = Len(one) /\ n = 1
        BY <3>1, <3>3
      <4> QED
        BY <4>1, <4>2
    <3>4. CASE \E i \in 1..Len(two) : n = Len(one) + i
      <4>1. PICK i \in 1..Len(two) : n = Len(one) + i
        BY <3>4
      <4>2. all[n] = "code"
        BY <1>4, <4>1
      <4>3. i = 1 /\ Len(two) = 1
        <5>1. i \in Int /\ 1 <= i /\ i <= Len(two)
          BY <3>1, <4>1
        <5>2. Len(two) \in Nat /\ Len(two) <= 1
          BY <3>1
        <5>3. \A k \in Int, l \in Nat : 1 <= k /\ k <= l /\ l <= 1 => k = 1 /\ l = 1
          OBVIOUS
        <5> QED
          BY <5>1, <5>2, <5>3, Zenon
      <4> QED
        BY <4>1, <4>2, <4>3
    <3>5. CASE \E i \in 1..Len(three) : n = Len(one) + Len(two) + i
      <4>1. PICK i \in 1..Len(three) : n = Len(one) + Len(two) + i
        BY <3>5
      <4>2. all[n] = "commit"
        BY <1>4, <4>1
      <4>3. i = Len(three)
        BY <3>1, <4>1
      <4> QED
        BY <4>1, <4>2, <4>3
    <3> QED
      BY <3>2, <3>3, <3>4, <3>5
  <2> QED
    BY <1>3, <2>2 DEF Distinct
<1> QED
  BY <1>1, <1>4, <1>5 DEF all, one, two, three

\* The layers of a search, in the order of its statements.
LEMMA LayersOfSearch ==
    ASSUME NEW r \in Requests, r.kind \in SearchKinds
    PROVE  /\ LayersOf(r) \in Seq(LayerNames) /\ Distinct(LayersOf(r))
           /\ r.kind # "search_all" => Len(LayersOf(r)) = 1
           /\ r.kind = "search_docs" => LayersOf(r)[1] = "document"
           /\ r.kind = "search_code" => LayersOf(r)[1] = "code"
           /\ r.kind \in {"search_commits", "time", "get_recent_commits"} => LayersOf(r)[1] = "commit"
<1>1. CASE r.kind = "search_all"
  <2>1. LayersOf(r) = ActiveLayers(r.asked)
    BY <1>1 DEF LayersOf
  <2> QED
    BY <1>1, <2>1, ActiveLayersAreDistinct
<1>2. CASE r.kind = "search_docs"
  <2>1. LayersOf(r) = <<"document">>
    BY <1>2 DEF LayersOf
  <2> QED
    BY <1>2, <2>1 DEF Distinct, LayerNames
<1>3. CASE r.kind = "search_code"
  <2>1. LayersOf(r) = <<"code">>
    BY <1>3 DEF LayersOf
  <2> QED
    BY <1>3, <2>1 DEF Distinct, LayerNames
<1>4. CASE r.kind \in {"search_commits", "time", "get_recent_commits"}
  <2>1. LayersOf(r) = <<"commit">>
    BY <1>4 DEF LayersOf
  <2> QED
    BY <1>4, <2>1 DEF Distinct, LayerNames
<1> QED
  BY <1>1, <1>2, <1>3, <1>4 DEF SearchKinds

\* What Nearest may return is a selection in order.
LEMMA NearestSelects ==
    ASSUME NEW s \in SUBSET Items, NEW k \in Nat, NEW kind, kind # "get_recent_commits",
           NEW r \in Nearest(s, k)
    PROVE  Selection(s, r, kind, k) /\ InOrder(kind, r) /\ Len(r) <= k
<1>1. PICK q \in SetToSeqs(s) :
         /\ \A m, n \in DOMAIN q : m < n => ItemData[q[m]].distance <= ItemData[q[n]].distance
         /\ r = SubSeq(q, 1, Min({k, Len(q)}))
  BY DEF Nearest
<1>2. InOrder(kind, q)
  BY <1>1 DEF InOrder, IsBefore
<1> QED
  BY <1>1, <1>2, SortedIsSelection

\* The same of Latest, by time.
LEMMA LatestSelects ==
    ASSUME NEW s \in SUBSET Items, NEW k \in Nat, NEW r \in Latest(s, k)
    PROVE  /\ Selection(s, r, "get_recent_commits", k)
           /\ InOrder("get_recent_commits", r) /\ Len(r) <= k
<1>1. PICK q \in SetToSeqs(s) :
         /\ \A m, n \in DOMAIN q : m < n => ItemData[q[m]].at >= ItemData[q[n]].at
         /\ r = SubSeq(q, 1, Min({k, Len(q)}))
  BY DEF Latest
<1>2. InOrder("get_recent_commits", q)
  BY <1>1 DEF InOrder, IsBefore
<1> QED
  BY <1>1, <1>2, SortedIsSelection

\* Row-level security leaves of the committed items what the tier is shown.
LEMMA VisibleIsShown ==
    ASSUME stored \in Store, role \in {"app_ro", "app_ro_public"}
    PROVE  VisibleItems = ShownTo(role, stored).items /\ VisibleItems \subseteq Items
<1>1. \A i \in stored.items : i \in Items /\ ItemData[i].project \in Catalogue
  BY RetrievalAssumption DEF Store, Item
<1>2. CASE role = "app_ro"
  BY <1>1, <1>2 DEF VisibleItems, VisibleProjects, ShownTo
<1>3. CASE role = "app_ro_public"
  <2>1. ShownTo(role, stored).items = {i \in stored.items : ItemData[i].project \notin stored.private}
    BY <1>3 DEF ShownTo, Store
  <2> QED
    BY <1>1, <1>3, <2>1 DEF VisibleItems, VisibleProjects
<1> QED
  BY <1>2, <1>3

\* The statement of a search asks for what meets the request in its layer.
LEMMA StatementAsksForMatching ==
    ASSUME stored \in Store, role \in {"app_ro", "app_ro_public"},
           request \in Requests, request.kind \in SearchKinds,
           layers # <<>>, layers[1] \in LayerNames,
           request.kind = "search_docs" => layers[1] = "document",
           request.kind = "search_code" => layers[1] = "code",
           request.kind \in {"search_commits", "time", "get_recent_commits"} => layers[1] = "commit"
    PROVE  LET match == MatchIn(request, role, layers[1], stored)
           IN  NextResults = IF request.kind = "get_recent_commits"
                                 THEN Latest(match, request.limit)
                                 ELSE Nearest(match, request.limit)
<1> DEFINE match == MatchIn(request, role, layers[1], stored)
<1>1. VisibleItems = ShownTo(role, stored).items /\ VisibleItems \subseteq Items
  BY VisibleIsShown
<1>2. \A i \in Items : /\ ItemData[i].at \in 0..Now
                       /\ ItemData[i].layer # "commit" => ItemData[i].embedded
  BY RetrievalAssumption DEF Item
<1>3. CASE request.kind = "search_all" /\ layers[1] = "commit"
  <2>1. match = {i \in InScope(Anything, OfLayer("commit")) :
                    /\ ItemData[i].embedded
                    /\ \A t \in {} : t <= ItemData[i].at
                    /\ \A t \in {} : ItemData[i].at <= t}
    BY <1>1, <1>3 DEF MatchIn, InScope, OfLayer
  <2> QED
    BY <1>3, <2>1 DEF NextResults, SearchCommits
<1>4. CASE request.kind = "search_all" /\ layers[1] # "commit"
  <2>1. match = InScope(Anything, OfLayer(layers[1]))
    BY <1>1, <1>2, <1>4 DEF MatchIn, InScope, OfLayer
  <2> QED
    BY <1>4, <2>1 DEF NextResults, SearchLayer
<1>5. CASE request.kind \in {"search_docs", "search_code"}
  <2>1. match = InScope(request.project, OfLayer(layers[1]))
    BY <1>1, <1>2, <1>5 DEF MatchIn, InScope, OfLayer
  <2> QED
    BY <1>5, <2>1 DEF NextResults, SearchLayer
<1>6. CASE request.kind = "search_commits"
  <2>1. match = {i \in InScope(request.project, OfLayer("commit")) :
                    /\ ItemData[i].embedded
                    /\ \A t \in request.since : t <= ItemData[i].at
                    /\ \A t \in request.until : ItemData[i].at <= t}
    BY <1>1, <1>6 DEF MatchIn, InScope, OfLayer
  <2> QED
    BY <1>6, <2>1 DEF NextResults, SearchCommits
<1>7. CASE request.kind = "time"
  <2> DEFINE since == {Window(request.phrase)[1]}
             until == {Window(request.phrase)[2]}
  <2>1. \A i \in Items :
           Meant(request.phrase, ItemData[i].at) <=>
               /\ \A t \in since : t <= ItemData[i].at
               /\ \A t \in until : ItemData[i].at <= t
    BY <1>2, <1>7, RequestFields, WindowIsMeant
  <2>2. NextResults = SearchCommits(request.project, since, until, request.limit)
    BY <1>7 DEF NextResults
  <2> HIDE DEF since, until
  <2>3. match = {i \in InScope(request.project, OfLayer("commit")) :
                    /\ ItemData[i].embedded
                    /\ \A t \in since : t <= ItemData[i].at
                    /\ \A t \in until : ItemData[i].at <= t}
    BY <1>1, <1>7, <2>1 DEF MatchIn, InScope, OfLayer
  <2> QED
    BY <1>7, <2>2, <2>3 DEF SearchCommits
<1>8. CASE request.kind = "get_recent_commits"
  <2>1. match = InScope(request.project, OfLayer("commit"))
    BY <1>1, <1>8 DEF MatchIn, InScope, OfLayer
  <2> QED
    BY <1>8, <2>1 DEF NextResults, SearchLatestCommits
<1> QED
  BY <1>3, <1>4, <1>5, <1>6, <1>7, <1>8 DEF SearchKinds

-----------------------------------------------------------------------------

\* How far a search is: the layers that are left follow those of its statements, and
\* what it has found is a selection of what has met it.
Progress(req, rl, ls, fd, sns) ==
    LET all == LayersOf(req)
    IN  /\ Len(sns) + Len(ls) = Len(all)
        /\ \A n \in 1..Len(ls) : ls[n] = all[Len(sns) + n]
        /\ Selection(MeetingOf(req, rl, sns), fd, req.kind, req.limit)
        /\ req.kind # "search_all" => InOrder(req.kind, fd) /\ Len(fd) <= req.limit

\* A search that starts has found all that meets it, which is nothing.
LEMMA ProgressStarts ==
    ASSUME NEW req \in Requests, req.kind \in SearchKinds, NEW rl
    PROVE  Progress(req, rl, LayersOf(req), <<>>, <<>>)
<1>1. LayersOf(req) \in Seq(LayerNames) /\ req.limit \in Nat
  BY LayersOfSearch, RequestFields
<1>2. MeetingOf(req, rl, <<>>) = {}
  BY DEF MeetingOf
<1>3. Selection({}, <<>>, req.kind, req.limit)
  BY DEF Selection, Distinct
<1>4. InOrder(req.kind, <<>>) /\ Len(<<>>) <= req.limit
  BY <1>1 DEF InOrder
<1> DEFINE all == LayersOf(req)
<1>5. Len(<<>>) + Len(all) = Len(all) /\ \A n \in 1..Len(all) : all[n] = all[Len(<<>>) + n]
  <2> HIDE DEF all
  <2> QED
    BY <1>1 DEF all
<1> HIDE DEF all
<1>6. /\ Selection(MeetingOf(req, rl, <<>>), <<>>, req.kind, req.limit)
      /\ req.kind # "search_all" => InOrder(req.kind, <<>>) /\ Len(<<>>) <= req.limit
  BY <1>2, <1>3, <1>4, Zenon
<1> QED
  BY <1>5, <1>6, Zenon DEF Progress, all

\* A statement adds what meets the request in its layer of the store it sees.
LEMMA MeetingGrows ==
    ASSUME NEW req, NEW rl, NEW sns \in Seq(Store), NEW s \in Store,
           NEW layer, layer = LayersOf(req)[Len(sns) + 1]
    PROVE  MeetingOf(req, rl, Append(sns, s)) =
               MeetingOf(req, rl, sns) \cup MatchIn(req, rl, layer, s)
<1> DEFINE z == Len(sns)
           new == Append(sns, s)
           M(n) == MatchIn(req, rl, LayersOf(req)[n], sns[n])
           N(n) == MatchIn(req, rl, LayersOf(req)[n], new[n])
<1>1. /\ z \in Nat /\ DOMAIN sns = 1..z /\ DOMAIN new = 1..(z + 1)
      /\ new[z + 1] = s /\ \A n \in 1..z : new[n] = sns[n]
  OBVIOUS
<1>2. N(z + 1) = MatchIn(req, rl, layer, s)
  BY <1>1
<1>3. \A n \in 1..z : N(n) = M(n)
  BY <1>1
<1>4. MatchIn(req, rl, layer, s) \subseteq Items
  BY DEF MatchIn
<1>5. MeetingOf(req, rl, sns) = {i \in Items : \E n \in 1..z : i \in M(n)}
  BY <1>1 DEF MeetingOf
<1>6. MeetingOf(req, rl, new) = {i \in Items : \E n \in 1..(z + 1) : i \in N(n)}
  BY <1>1 DEF MeetingOf
<1>7. \A n \in 1..(z + 1) : n = z + 1 \/ n \in 1..z
  BY <1>1
<1>8. z + 1 \in 1..(z + 1) /\ \A n \in 1..z : n \in 1..(z + 1)
  BY <1>1
<1> HIDE DEF z, new, M, N
<1> QED
  BY <1>2, <1>3, <1>4, <1>5, <1>6, <1>7, <1>8 DEF new

\* A statement takes the search a layer further.
LEMMA ProgressGoesOn ==
    ASSUME NEW req \in Requests, req.kind \in SearchKinds, NEW rl, NEW s \in Store,
           NEW ls \in Seq(LayerNames), ls # <<>>, NEW fd, NEW sns \in Seq(Store),
           Progress(req, rl, ls, fd, sns),
           NEW res, Selection(MatchIn(req, rl, ls[1], s), res, req.kind, req.limit),
           InOrder(req.kind, res), Len(res) <= req.limit
    PROVE  Progress(req, rl, Tail(ls), fd \o res, Append(sns, s))
<1> DEFINE all == LayersOf(req)
           z   == Len(sns)
           A   == MeetingOf(req, rl, sns)
           B   == MatchIn(req, rl, ls[1], s)
<1>1. all \in Seq(LayerNames) /\ Distinct(all) /\ req.limit \in Nat
  BY LayersOfSearch, RequestFields
<1>2. /\ z \in Nat /\ Len(ls) \in Nat /\ Len(ls) > 0
      /\ z + Len(ls) = Len(all)
      /\ \A n \in 1..Len(ls) : ls[n] = all[z + n]
  BY DEF Progress
<1>3. ls[1] = all[z + 1] /\ DOMAIN all = 1..Len(all) /\ z + 1 <= Len(all)
  BY <1>1, <1>2
<1>4. MeetingOf(req, rl, Append(sns, s)) = A \cup B
  BY <1>3, MeetingGrows
<1>5. A \cap B = {}
  <2> SUFFICES ASSUME NEW i \in A, i \in B
               PROVE  FALSE
    OBVIOUS
  <2>1. PICK n \in 1..z : i \in MatchIn(req, rl, all[n], sns[n])
    BY DEF MeetingOf
  <2>2. ItemData[i].layer = all[n] /\ ItemData[i].layer = all[z + 1]
    BY <1>3, <2>1 DEF MatchIn
  <2>3. n \in DOMAIN all /\ z + 1 \in DOMAIN all /\ n # z + 1
    BY <1>2, <1>3
  <2> QED
    BY <1>1, <2>2, <2>3 DEF Distinct
<1>6. Selection(A \cup B, fd \o res, req.kind, req.limit)
  <2>1. Selection(A, fd, req.kind, req.limit)
    BY DEF Progress
  <2> HIDE DEF A, B
  <2> QED
    BY <1>1, <1>5, <2>1, SelectionsAppend DEF B
<1>7. /\ Len(Append(sns, s)) = z + 1
      /\ Len(Tail(ls)) = Len(ls) - 1
      /\ \A n \in 1..(Len(ls) - 1) : Tail(ls)[n] = ls[n + 1]
  BY <1>2
<1>8. \A n \in 1..Len(Tail(ls)) : Tail(ls)[n] = all[Len(Append(sns, s)) + n]
  <2> TAKE n \in 1..Len(Tail(ls))
  <2>1. n \in 1..(Len(ls) - 1) /\ n + 1 \in 1..Len(ls) /\ z + (n + 1) = (z + 1) + n
    BY <1>2, <1>7
  <2> QED
    BY <1>2, <1>7, <2>1
<1>9. req.kind # "search_all" => InOrder(req.kind, fd \o res) /\ Len(fd \o res) <= req.limit
  <2> SUFFICES ASSUME req.kind # "search_all"
               PROVE  fd \o res = res
    OBVIOUS
  <2>1. Len(all) = 1
    BY LayersOfSearch
  <2>2. z = 0
    BY <1>2, <2>1
  <2>3. A = {}
    BY <2>2 DEF MeetingOf
  <2>4. fd \in Seq(Items) /\ \A n \in DOMAIN fd : FALSE
    BY <2>3 DEF Progress, Selection
  <2>5. fd = <<>>
    <3>1. Len(fd) \in Nat /\ DOMAIN fd = 1..Len(fd)
      BY <2>4
    <3>2. 1 \notin DOMAIN fd
      BY <2>4
    <3>3. Len(fd) = 0
      BY <3>1, <3>2
    <3> QED
      BY <2>4, <3>3
  <2>6. res \in Seq(Items)
    BY DEF Selection
  <2> QED
    BY <2>5, <2>6
<1>10. Len(Append(sns, s)) + Len(Tail(ls)) = Len(all)
  BY <1>1, <1>2, <1>7
<1> HIDE DEF all, A, B
<1> QED
  BY <1>4, <1>6, <1>8, <1>9, <1>10 DEF Progress, all

-----------------------------------------------------------------------------

\* Grouping the rows of the joins gives each project with all its technologies.
LEMMA GroupedIsFull ==
    ASSUME stored \in Store, NEW P, P \subseteq VisibleProjects
    PROVE  Grouped(UNION {Joined(p) : p \in P}) =
               {[name |-> p, technologies |-> stored.skills[p]] : p \in P}
<1> DEFINE joined == UNION {Joined(p) : p \in P}
<1>1. \A p \in P : p \in Catalogue /\ VisibleSkills(p) = stored.skills[p]
                   /\ stored.skills[p] \subseteq Skills
  BY DEF VisibleProjects, VisibleSkills, Store
<1>2. \A p \in P : (\E row \in Joined(p) : row[1] = p) /\ \A row \in Joined(p) : row[1] = p
  <2> TAKE p \in P
  <2>1. CASE VisibleSkills(p) = {}
    <3>1. Joined(p) = {<<p, Anything>>}
      BY <2>1 DEF Joined
    <3> QED
      BY <3>1
  <2>2. CASE VisibleSkills(p) # {}
    <3>1. Joined(p) = {p} \X VisibleSkills(p)
      BY <2>2 DEF Joined
    <3>2. PICK t \in VisibleSkills(p) : TRUE
      BY <2>2
    <3>3. <<p, t>> \in Joined(p)
      BY <3>1, <3>2
    <3> QED
      BY <3>1, <3>3
  <2> QED
    BY <2>1, <2>2
<1>3. {row[1] : row \in joined} = P
  BY <1>2
<1>4. ASSUME NEW p \in P
      PROVE  {t \in Skills : <<p, t>> \in joined} = stored.skills[p]
  <2>1. ASSUME NEW t \in Skills
        PROVE  <<p, t>> \in joined <=> <<p, t>> \in Joined(p)
    <3>1. ASSUME NEW q \in P, <<p, t>> \in Joined(q)
          PROVE  q = p
      BY <1>2, <3>1
    <3> QED
      BY <3>1
  <2>2. ASSUME NEW t \in Skills
        PROVE  <<p, t>> \in Joined(p) <=> t \in stored.skills[p]
    BY <1>1, RetrievalAssumption DEF Joined
  <2> HIDE DEF joined
  <2> QED
    BY <1>1, <2>1, <2>2
<1> HIDE DEF joined
<1>5. Grouped(joined) = {[name |-> p, technologies |-> {t \in Skills : <<p, t>> \in joined}] : p \in P}
  BY <1>3 DEF Grouped
<1> QED
  BY <1>4, <1>5 DEF joined

-----------------------------------------------------------------------------

\* SearchIsExact and LookupIsExact of an answer, by what they are about.
SearchExact(req, rl, fd, sns) ==
    req.kind \in SearchKinds =>
        /\ BestOf(MeetingOf(req, rl, sns), fd, req.kind, req.limit)
        /\ Len(sns) <= Len(LayersOf(req))

LookupExact(req, rl, rws, sns) ==
    sns # <<>> =>
        LET s       == sns[1]
            visible == IF rl = "app_ro" THEN Catalogue ELSE Catalogue \ s.private
            Full(p) == [name |-> p, technologies |-> s.skills[p]]
        IN  CASE req.kind = "list_projects" ->
                    rws = {Full(p) : p \in {q \in visible :
                              Anything \in req.technology
                              \/ s.skills[q] \cap req.technology # {}}}
              [] req.kind = "get_project_info" ->
                    rws = {Full(p) : p \in visible \cap {req.project}}
              [] req.kind = "get_project_links" ->
                    {row.name : row \in rws} =
                        IF Anything \in req.projects THEN visible
                                                     ELSE visible \cap req.projects
              [] OTHER -> rws = {}

\* What the statement of a lookup returns is exact.
LEMMA ListIsExact ==
    ASSUME stored \in Store, NEW technology
    PROVE  ListProjects(technology) =
               {[name |-> p, technologies |-> stored.skills[p]] :
                   p \in {q \in VisibleProjects :
                             Anything \in technology \/ stored.skills[q] \cap technology # {}}}
<1> DEFINE P == {q \in VisibleProjects : Has(q, technology)}
           Q == {q \in VisibleProjects :
                    Anything \in technology \/ stored.skills[q] \cap technology # {}}
<1>1. P = Q
  BY DEF Has, VisibleSkills
<1>2. ListProjects(technology) = Grouped(UNION {Joined(p) : p \in P})
  BY DEF ListProjects
<1>3. P \subseteq VisibleProjects
  OBVIOUS
<1> HIDE DEF P, Q
<1>4. ListProjects(technology) = {[name |-> p, technologies |-> stored.skills[p]] : p \in P}
  BY <1>2, <1>3, GroupedIsFull
<1> QED
  BY <1>1, <1>4 DEF Q

LEMMA InfoIsExact ==
    ASSUME stored \in Store, NEW project
    PROVE  GetProjectInfo(project) =
               {[name |-> p, technologies |-> stored.skills[p]] :
                   p \in VisibleProjects \cap {project}}
<1> DEFINE P == VisibleProjects \cap {project}
<1>1. GetProjectInfo(project) = Grouped(UNION {Joined(p) : p \in P}) /\ P \subseteq VisibleProjects
  BY DEF GetProjectInfo
<1> HIDE DEF P
<1>2. GetProjectInfo(project) = {[name |-> p, technologies |-> stored.skills[p]] : p \in P}
  BY <1>1, GroupedIsFull
<1> QED
  BY <1>2 DEF P

LEMMA LinksAreExact ==
    ASSUME NEW projects
    PROVE  {row.name : row \in GetProjectLinks(projects)} =
               IF Anything \in projects THEN VisibleProjects ELSE VisibleProjects \cap projects
<1> DEFINE P == {q \in VisibleProjects : Anything \in projects \/ q \in projects}
<1>1. P = IF Anything \in projects THEN VisibleProjects ELSE VisibleProjects \cap projects
  OBVIOUS
<1>2. GetProjectLinks(projects) = {[name |-> p, technologies |-> {}] : p \in P}
  BY DEF GetProjectLinks
<1> HIDE DEF P
<1>3. {row.name : row \in GetProjectLinks(projects)} = P
  <2>1. \A row \in GetProjectLinks(projects) : row.name \in P
    BY <1>2
  <2>2. ASSUME NEW p \in P
        PROVE  \E row \in GetProjectLinks(projects) : row.name = p
    <3>1. [name |-> p, technologies |-> {}] \in GetProjectLinks(projects)
      BY <1>2
    <3> QED
      BY <3>1
  <2> QED
    BY <2>1, <2>2
<1> QED
  BY <1>1, <1>3

\* What a search has found when no layer is left, sorted and cut when there were
\* several, is exact.
LEMMA FoundIsExact ==
    ASSUME NEW req \in Requests, req.kind \in SearchKinds, NEW rl, NEW sns \in Seq(Store),
           NEW fd, Progress(req, rl, <<>>, fd, sns),
           NEW ans, ans = IF req.kind = "search_all" THEN Merge(fd, req.limit) ELSE fd
    PROVE  ans \in Seq(Items) /\ SearchExact(req, rl, ans, sns)
<1> DEFINE met == MeetingOf(req, rl, sns)
<1>1. req.limit \in Nat /\ LayersOf(req) \in Seq(LayerNames)
  BY LayersOfSearch, RequestFields
<1>2. met \in SUBSET Items
  BY DEF MeetingOf
<1>3. /\ Selection(met, fd, req.kind, req.limit)
      /\ req.kind # "search_all" => InOrder(req.kind, fd) /\ Len(fd) <= req.limit
      /\ Len(sns) + Len(<<>>) = Len(LayersOf(req))
  BY DEF Progress
<1>4. Len(sns) <= Len(LayersOf(req))
  BY <1>1, <1>3
<1> HIDE DEF met
<1>5. Selection(met, ans, req.kind, req.limit) /\ InOrder(req.kind, ans) /\ Len(ans) <= req.limit
  <2>1. CASE req.kind = "search_all"
    <3>1. Selection(met, fd, "search_all", req.limit) /\ ans = Merge(fd, req.limit)
      BY <1>3, <2>1
    <3> QED
      BY <1>1, <1>2, <2>1, <3>1, MergeIsSelection
  <2>2. CASE req.kind # "search_all"
    BY <1>3, <2>2
  <2> QED
    BY <2>1, <2>2
<1>6. BestOf(met, ans, req.kind, req.limit)
  BY <1>1, <1>2, <1>5, SelectionIsExact
<1>7. ans \in Seq(Items)
  BY <1>5 DEF Selection
<1> QED
  BY <1>4, <1>6, <1>7, Zenon DEF SearchExact, met

-----------------------------------------------------------------------------

\* The inductive invariant: what a request that is under way has done so far, and
\* that an answer is exact.
ReadInv ==
    /\ ReadTypeOK
    /\ status \in {"none", "searching", "looking up"} => rows = {}
    /\ status \in {"none", "looking up"} => found = <<>> /\ snaps = <<>>
    /\ status \in {"searching", "looking up", "answered"} =>
          request \in Requests /\ role \in {"app_ro", "app_ro_public"}
    /\ status = "searching" =>
          request.kind \in SearchKinds /\ Progress(request, role, layers, found, snaps)
    /\ status = "looking up" => request.kind \in LookupKinds
    /\ status = "answered" =>
          SearchExact(request, role, found, snaps) /\ LookupExact(request, role, rows, snaps)

\* It holds before there is a request.
LEMMA ReadInvStarts == ReadInit => ReadInv
<1> SUFFICES ASSUME ReadInit
             PROVE  ReadInv
  OBVIOUS
<1>1. stored \in Store
  BY DEF ReadInit, Store
<1>2. changes \in 0..MaxChanges
  BY RetrievalAssumption DEF ReadInit
<1> QED
  BY <1>1, <1>2 DEF ReadInit, ReadInv, ReadTypeOK

\* Ingestion changes what is committed and nothing of a request.
LEMMA IngestKeepsReadInv ==
    ASSUME ReadInv, NEW t \in Ingestions, Ingest(t)
    PROVE  ReadInv'
<1>1. /\ t.project \in Catalogue /\ t.items \subseteq Items /\ t.skills \subseteq Skills
  BY RetrievalAssumption
<1>2. stored' \in Store
  <2>1. stored \in Store
    BY DEF ReadInv, ReadTypeOK
  <2>2. /\ stored.items \subseteq Items /\ stored.private \subseteq Catalogue
        /\ stored.skills \in [Catalogue -> SUBSET Skills]
    BY <2>1 DEF Store
  <2> DEFINE i == {k \in stored.items : ItemData[k].project # t.project} \cup t.items
             p == IF t.private THEN stored.private \cup {t.project}
                               ELSE stored.private \ {t.project}
             k == [stored.skills EXCEPT ![t.project] = t.skills]
  <2>3. i \subseteq Items /\ p \subseteq Catalogue /\ k \in [Catalogue -> SUBSET Skills]
    BY <1>1, <2>2
  <2>4. stored' = [items |-> i, private |-> p, skills |-> k]
    BY DEF Ingest
  <2> HIDE DEF i, p, k
  <2> QED
    BY <2>3, <2>4 DEF Store
<1>3. changes' \in 0..MaxChanges
  <2>1. changes \in 0..MaxChanges
    BY DEF ReadInv, ReadTypeOK
  <2>2. changes < MaxChanges /\ changes' = changes + 1
    BY DEF Ingest
  <2> QED
    BY <2>1, <2>2, RetrievalAssumption
<1>4. UNCHANGED <<request, role, layers, found, rows, status, snaps>>
  BY DEF Ingest
<1> QED
  BY <1>2, <1>3, <1>4 DEF ReadInv, ReadTypeOK

\* A request starts where the token and its kind put it.
LEMMA AskKeepsReadInv ==
    ASSUME ReadInv, NEW r \in Requests,
           NEW token \in {"API_ADMIN_KEY", "API_AUTH_KEY", "other"}, Ask(r, token)
    PROVE  ReadInv'
<1>1. /\ status = "none" /\ request' = r
      /\ found = <<>> /\ snaps = <<>> /\ rows = {}
      /\ UNCHANGED <<stored, changes, found, rows, snaps>>
  BY DEF Ask, ReadInv
<1>2. r.kind \in SearchKinds \cup LookupKinds
  BY RequestFields
<1>3. layers' = LayersOf(r)
  BY DEF Ask, LayersOf
<1>4. layers' \in Seq(LayerNames)
  <2>1. CASE r.kind \in SearchKinds
    BY <1>3, <2>1, LayersOfSearch
  <2>2. CASE r.kind \in LookupKinds
    <3>1. LayersOf(r) = <<>>
      BY <2>2 DEF LookupKinds, LayersOf
    <3> QED
      BY <1>3, <3>1
  <2> QED
    BY <1>2, <2>1, <2>2
<1>5. /\ role' \in {"none", "app_ro", "app_ro_public"}
      /\ token # "other" => role' \in {"app_ro", "app_ro_public"}
  BY DEF Ask
<1>6. /\ token = "other" => status' = "refused"
      /\ token # "other" /\ r.kind \in LookupKinds => status' = "looking up"
      /\ token # "other" /\ r.kind \in SearchKinds => status' = "searching"
  BY DEF Ask, LookupKinds, SearchKinds
<1>7. status' = "searching" => r.kind \in SearchKinds /\ token # "other"
  BY <1>2, <1>6
<1>8. status' = "looking up" => r.kind \in LookupKinds /\ token # "other"
  BY <1>2, <1>6
<1>9. status' \in {"refused", "looking up", "searching"}
  BY <1>2, <1>6
<1>10. r.kind \in SearchKinds => Progress(r, role', layers', found', snaps')
  BY <1>1, <1>3, ProgressStarts
<1>11. ReadTypeOK'
  BY <1>1, <1>4, <1>5, <1>9 DEF ReadInv, ReadTypeOK
<1> QED
  BY <1>1, <1>5, <1>7, <1>8, <1>9, <1>10, <1>11 DEF ReadInv

\* A statement of a search takes it a layer further.
LEMMA SearchNextKeepsReadInv ==
    ASSUME ReadInv, SearchNext
    PROVE  ReadInv'
<1>1. /\ stored \in Store /\ snaps \in Seq(Store) /\ layers \in Seq(LayerNames)
      /\ status = "searching" /\ layers # <<>> /\ rows = {}
      /\ request \in Requests /\ role \in {"app_ro", "app_ro_public"}
      /\ request.kind \in SearchKinds
      /\ Progress(request, role, layers, found, snaps)
  BY DEF ReadInv, ReadTypeOK, SearchNext
<1>2. PICK res \in NextResults : found' = found \o res
  BY DEF SearchNext
<1>3. /\ layers' = Tail(layers) /\ snaps' = Append(snaps, stored)
      /\ UNCHANGED <<stored, changes, request, role, rows, status>>
  BY DEF SearchNext
<1> DEFINE match == MatchIn(request, role, layers[1], stored)
<1>4. /\ layers[1] \in LayerNames
      /\ request.kind # "search_all" => layers[1] = LayersOf(request)[1]
  <2>1. LayersOf(request) \in Seq(LayerNames)
        /\ (request.kind # "search_all" => Len(LayersOf(request)) = 1)
    BY <1>1, LayersOfSearch
  <2>2. /\ Len(snaps) + Len(layers) = Len(LayersOf(request))
        /\ \A n \in 1..Len(layers) : layers[n] = LayersOf(request)[Len(snaps) + n]
    BY <1>1 DEF Progress
  <2>3. Len(layers) \in Nat /\ Len(layers) > 0 /\ Len(snaps) \in Nat
    BY <1>1
  <2>4. layers[1] = LayersOf(request)[Len(snaps) + 1]
    BY <2>2, <2>3
  <2>5. request.kind # "search_all" => Len(snaps) + 1 = 1
    BY <2>1, <2>2, <2>3
  <2> QED
    BY <1>1, <2>3, <2>4, <2>5
<1>5. /\ request.kind = "search_docs" => layers[1] = "document"
      /\ request.kind = "search_code" => layers[1] = "code"
      /\ request.kind \in {"search_commits", "time", "get_recent_commits"} => layers[1] = "commit"
  BY <1>1, <1>4, LayersOfSearch
<1>6. NextResults = IF request.kind = "get_recent_commits" THEN Latest(match, request.limit)
                                                            ELSE Nearest(match, request.limit)
  BY <1>1, <1>4, <1>5, StatementAsksForMatching
<1>7. match \in SUBSET Items /\ request.limit \in Nat
  BY <1>1, RequestFields DEF MatchIn
<1> HIDE DEF match
<1>8. /\ Selection(match, res, request.kind, request.limit)
      /\ InOrder(request.kind, res) /\ Len(res) <= request.limit
  <2>1. CASE request.kind = "get_recent_commits"
    <3>1. res \in Latest(match, request.limit)
      BY <1>2, <1>6, <2>1
    <3> QED
      BY <1>7, <2>1, <3>1, LatestSelects
  <2>2. CASE request.kind # "get_recent_commits"
    <3>1. res \in Nearest(match, request.limit)
      BY <1>2, <1>6, <2>2
    <3> QED
      BY <1>7, <2>2, <3>1, NearestSelects
  <2> QED
    BY <2>1, <2>2
<1>9. Progress(request, role, Tail(layers), found \o res, Append(snaps, stored))
  BY <1>1, <1>8, ProgressGoesOn DEF match
<1>10. ReadTypeOK'
  <2>1. found \o res \in Seq(Items)
    BY <1>9 DEF Progress, Selection
  <2>2. Tail(layers) \in Seq(LayerNames) /\ Append(snaps, stored) \in Seq(Store)
    BY <1>1
  <2> QED
    BY <1>2, <1>3, <2>1, <2>2 DEF ReadInv, ReadTypeOK
<1> QED
  BY <1>1, <1>2, <1>3, <1>9, <1>10 DEF ReadInv

\* A search that fails has no answer.
LEMMA EmbeddingFailsKeepsReadInv ==
    ASSUME ReadInv, EmbeddingFails
    PROVE  ReadInv'
  BY DEF ReadInv, ReadTypeOK, EmbeddingFails

\* A search answers with what it has found.
LEMMA AnswerSearchKeepsReadInv ==
    ASSUME ReadInv, AnswerSearch
    PROVE  ReadInv'
<1>1. /\ snaps \in Seq(Store) /\ status = "searching" /\ layers = <<>> /\ rows = {}
      /\ request \in Requests /\ role \in {"app_ro", "app_ro_public"}
      /\ request.kind \in SearchKinds
      /\ Progress(request, role, <<>>, found, snaps)
  BY DEF ReadInv, ReadTypeOK, AnswerSearch
<1>2. /\ found' = IF request.kind = "search_all" THEN Merge(found, request.limit) ELSE found
      /\ status' = "answered"
      /\ UNCHANGED <<stored, changes, request, role, layers, rows, snaps>>
  BY DEF AnswerSearch
<1>3. found' \in Seq(Items) /\ SearchExact(request, role, found', snaps)
  BY <1>1, <1>2, FoundIsExact
<1>4. LookupExact(request, role, {}, snaps)
  BY <1>1 DEF LookupExact, SearchKinds
<1>5. ReadTypeOK'
  BY <1>2, <1>3 DEF ReadInv, ReadTypeOK
<1> QED
  BY <1>1, <1>2, <1>3, <1>4, <1>5 DEF ReadInv

\* A lookup answers with what its statement returns.
LEMMA LookUpKeepsReadInv ==
    ASSUME ReadInv, LookUp
    PROVE  ReadInv'
<1>1. /\ stored \in Store /\ status = "looking up" /\ snaps = <<>>
      /\ request \in Requests /\ role \in {"app_ro", "app_ro_public"}
      /\ request.kind \in LookupKinds
  BY DEF ReadInv, ReadTypeOK, LookUp
<1>2. /\ status' = "answered" /\ snaps' = <<stored>>
      /\ UNCHANGED <<stored, changes, request, role, layers, found>>
  <2>1. Append(<<>>, stored) = <<stored>>
    OBVIOUS
  <2> QED
    BY <1>1, <2>1, Zenon DEF LookUp
<1> DEFINE Full(p) == [name |-> p, technologies |-> stored.skills[p]]
<1>3. \A p \in VisibleProjects : p \in Catalogue /\ Full(p) \in Project
  BY <1>1 DEF VisibleProjects, Store, Project
<1>4. VisibleProjects = IF role = "app_ro" THEN Catalogue ELSE Catalogue \ stored.private
  BY DEF VisibleProjects
<1>5. LookupExact(request, role, rows', <<stored>>) /\ rows' \subseteq Project
  <2>1. CASE request.kind = "list_projects"
    <3> DEFINE P == {q \in VisibleProjects :
                        Anything \in request.technology
                        \/ stored.skills[q] \cap request.technology # {}}
    <3>1. rows' = {Full(p) : p \in P}
      BY <1>1, <2>1, ListIsExact DEF LookUp
    <3>2. LookupExact(request, role, rows', <<stored>>)
      BY <1>4, <2>1, <3>1 DEF LookupExact
    <3>3. rows' \subseteq Project
      BY <1>3, <3>1
    <3> QED
      BY <3>2, <3>3
  <2>2. CASE request.kind = "get_project_info"
    <3>1. rows' = {Full(p) : p \in VisibleProjects \cap {request.project}}
      BY <1>1, <2>2, InfoIsExact DEF LookUp
    <3>2. LookupExact(request, role, rows', <<stored>>)
      BY <1>4, <2>2, <3>1 DEF LookupExact
    <3>3. rows' \subseteq Project
      BY <1>3, <3>1
    <3> QED
      BY <3>2, <3>3
  <2>3. CASE request.kind = "get_project_links"
    <3>1. rows' = GetProjectLinks(request.projects)
      BY <2>3 DEF LookUp
    <3>2. {row.name : row \in rows'} =
              IF Anything \in request.projects THEN VisibleProjects
                                               ELSE VisibleProjects \cap request.projects
      BY <3>1, LinksAreExact
    <3>3. LookupExact(request, role, rows', <<stored>>)
      BY <1>4, <2>3, <3>2 DEF LookupExact
    <3>4. rows' \subseteq Project
      BY <1>3, <3>1 DEF GetProjectLinks, Project
    <3> QED
      BY <3>3, <3>4
  <2> QED
    BY <1>1, <2>1, <2>2, <2>3 DEF LookupKinds
<1>6. SearchExact(request, role, found, <<stored>>)
  BY <1>1 DEF SearchExact, SearchKinds, LookupKinds
<1>7. ReadTypeOK'
  <2>1. <<stored>> \in Seq(Store)
    <3>1. \A x \in Store : <<x>> \in Seq(Store)
      OBVIOUS
    <3> QED
      BY <1>1, <3>1, Zenon
  <2> QED
    BY <1>2, <1>5, <2>1 DEF ReadInv, ReadTypeOK
<1> QED
  BY <1>1, <1>2, <1>5, <1>6, <1>7 DEF ReadInv

\* Every step keeps the invariant.
LEMMA ReadInvStays == ReadInv /\ [ReadNext]_readVars => ReadInv'
<1> SUFFICES ASSUME ReadInv, [ReadNext]_readVars
             PROVE  ReadInv'
  OBVIOUS
<1>1. CASE \E t \in Ingestions : Ingest(t)
  BY <1>1, IngestKeepsReadInv
<1>2. CASE \E r \in Requests, token \in {"API_ADMIN_KEY", "API_AUTH_KEY", "other"} : Ask(r, token)
  BY <1>2, AskKeepsReadInv
<1>3. CASE SearchNext
  BY <1>3, SearchNextKeepsReadInv
<1>4. CASE EmbeddingFails
  BY <1>4, EmbeddingFailsKeepsReadInv
<1>5. CASE AnswerSearch
  BY <1>5, AnswerSearchKeepsReadInv
<1>6. CASE LookUp
  BY <1>6, LookUpKeepsReadInv
<1>7. CASE UNCHANGED readVars
  BY <1>7 DEF readVars, ReadInv, ReadTypeOK
<1> QED
  BY <1>1, <1>2, <1>3, <1>4, <1>5, <1>6, <1>7 DEF ReadNext

\* It says of an answer what ReadsAreExact says.
LEMMA ReadInvIsExact == ReadInv => ReadsAreExact
<1> SUFFICES ASSUME ReadInv
             PROVE  ReadsAreExact
  OBVIOUS
<1>1. SearchIsExact
  <2> SUFFICES ASSUME status = "answered", request.kind \in SearchKinds
               PROVE  LET answer == {found[n] : n \in DOMAIN found}
                      IN  /\ answer \subseteq Meeting
                          /\ Len(found) = Cardinality(answer)
                          /\ Len(found) = Min({request.limit, Cardinality(Meeting)})
                          /\ \A m, n \in DOMAIN found : m < n => Before(found[m], found[n])
                          /\ \A i \in answer, j \in Meeting \ answer : Before(i, j)
    BY DEF SearchIsExact, SearchKinds
  <2>1. /\ request \in Requests /\ snaps \in Seq(Store)
        /\ BestOf(MeetingOf(request, role, snaps), found, request.kind, request.limit)
        /\ Len(snaps) <= Len(LayersOf(request))
    BY DEF ReadInv, ReadTypeOK, SearchExact
  <2>2. \A n \in DOMAIN snaps : LayerOfStatement(n) = LayersOf(request)[n]
    <3>1. CASE request.kind = "search_all"
      BY <3>1 DEF LayerOfStatement, LayersOf
    <3>2. CASE request.kind # "search_all"
      <4>1. DOMAIN snaps = 1..Len(snaps) /\ Len(snaps) \in Nat /\ Len(snaps) <= 1
        <5>1. Len(LayersOf(request)) = 1
          BY <2>1, <3>2, LayersOfSearch
        <5>2. Len(snaps) <= 1
          BY <2>1, <5>1
        <5> QED
          BY <2>1, <5>2
      <4>2. \A n \in DOMAIN snaps : n = 1
        BY <4>1
      <4>3. LayerOfStatement(1) = LayersOf(request)[1]
        BY <2>1, <3>2, LayersOfSearch DEF LayerOfStatement, SearchKinds
      <4> QED
        BY <4>2, <4>3
    <3> QED
      BY <3>1, <3>2
  <2>3. Meeting = MeetingOf(request, role, snaps)
    <3>1. \A n : Shown(snaps[n]) = ShownTo(role, snaps[n])
      BY DEF Shown, ShownTo
    <3> QED
      BY <2>2, <3>1 DEF Meeting, MeetingOf, MatchIn
  <2>4. \A i, j : Before(i, j) <=> IsBefore(request.kind, i, j)
    BY DEF Before, IsBefore
  <2> QED
    BY <2>1, <2>3, <2>4 DEF BestOf, InOrder
<1>2. LookupIsExact
  <2>1. status = "answered" => LookupExact(request, role, rows, snaps)
    BY DEF ReadInv
  <2> QED
    BY <2>1 DEF LookupIsExact, LookupExact
<1> QED
  BY <1>1, <1>2 DEF ReadsAreExact

\* The state of the reads has its types.
THEOREM ReadTypes == ReadSpec => []ReadTypeOK
<1>1. ReadInv => ReadTypeOK
  BY DEF ReadInv
<1> QED
  BY <1>1, ReadInvStarts, ReadInvStays, PTL DEF ReadSpec

\* Every answer of a search or a lookup (vector_search.py, project_lookup.py) is
\* exactly what row-level security leaves of what the request is about, whatever is
\* stored, asked and committed in between.
THEOREM ReadsStayExact == ReadSpec => []ReadsAreExact
  BY ReadInvStarts, ReadInvStays, ReadInvIsExact, PTL DEF ReadSpec
=============================================================================
