------------------------- MODULE ContentStoreProofs -------------------------
(***************************************************************************)
(* Theorems of Chunking and ContentStore, for any paths, contents, secrets *)
(* and number of pushes: what the scanner reports is never stored, what is *)
(* stored was on the branch, a seed pass accounts for every chunk, and a   *)
(* paragraph is only ever lost for a secret of its own.                    *)
(***************************************************************************)
EXTENDS ContentStore, NaturalsInduction, FiniteSetTheorems, SequenceTheorems, TLAPS

-----------------------------------------------------------------------------
(* Numbers: least and greatest ones, and sets of them in order.            *)

\* The order of the natural numbers as a set of pairs, and that it is well-founded.
Smaller == {p \in Nat \X Nat : p[1] < p[2]}

\* The order of the natural numbers is well-founded.
LEMMA SmallerIsWellFounded == IsWellFoundedOn(Smaller, Nat)
<1>1. Smaller = OpToRel(<, Nat)
  BY Zenon DEF OpToRel, Smaller
<1>. QED
  BY <1>1, NatLessThanWellFounded, Zenon

\* A set of natural numbers has a least one.
LEMMA LeastExists ==
  ASSUME NEW S \in SUBSET Nat, S # {} PROVE \E x \in S : \A y \in S : x <= y
<1>1. PICK x \in S : \A y \in S : ~(<<y, x>> \in Smaller)
  BY SmallerIsWellFounded, WFMin, Zenon
<1>2. ASSUME NEW y \in S PROVE x <= y
  <2>1. <<y, x>> \in Nat \X Nat /\ <<y, x>>[1] = y /\ <<y, x>>[2] = x
    OBVIOUS
  <2>2. ~ (y < x)
    BY <1>1, <2>1, Zenon DEF Smaller
  <2>. QED
    BY <2>2
<1>. QED
  BY <1>2

\* Below a bound it has a greatest one.
LEMMA GreatestExists ==
  ASSUME NEW N \in Nat, NEW S \in SUBSET (1..N), S # {}
  PROVE  \E x \in S : \A y \in S : x >= y
<1>. DEFINE T == {n \in Nat : \E x \in S : n = N - x}
<1>1. T \in SUBSET Nat /\ T # {}
  <2>1. PICK x \in S : TRUE
    OBVIOUS
  <2>2. N - x \in T
    OBVIOUS
  <2>. QED
    BY <2>2
<1>2. PICK n \in T : \A m \in T : n <= m
  <2>. HIDE DEF T
  <2>. QED
    BY <1>1, LeastExists
<1>3. PICK x \in S : n = N - x
  OBVIOUS
<1>4. ASSUME NEW y \in S PROVE x >= y
  <2>1. N - y \in T
    OBVIOUS
  <2>. QED
    BY <1>2, <1>3, <2>1
<1>. QED
  BY <1>4

\* Hence Min and Max are what they are called.
LEMMA MinIsLeast ==
  ASSUME NEW S \in SUBSET Nat, S # {} PROVE Min(S) \in S /\ \A y \in S : Min(S) <= y
  BY LeastExists, Zenon DEF Min

\* So Max is the greatest of a set of numbers up to N.
LEMMA MaxIsGreatest ==
  ASSUME NEW N \in Nat, NEW S \in SUBSET (1..N), S # {}
  PROVE  Max(S) \in S /\ \A y \in S : Max(S) >= y
  BY GreatestExists, Zenon DEF Max

IsOrder(S, f) ==
    /\ f \in [1..Cardinality(S) -> S]
    /\ \A m, n \in DOMAIN f : m < n => f[m] < f[n]

\* Such a set consists of natural numbers and is finite.
LEMMA MembersAreNumbers ==
  ASSUME NEW N \in Nat, NEW S \in SUBSET (1..N) PROVE \A x \in S : x \in Nat /\ x \in 1..N
  OBVIOUS

\* Sets of numbers up to N are finite.
LEMMA FiniteNumbers ==
  ASSUME NEW N \in Nat, NEW S \in SUBSET (1..N)
  PROVE  IsFiniteSet(S) /\ Cardinality(S) \in Nat
<1>1. IsFiniteSet(1..N)
  BY FS_Interval
<1>2. IsFiniteSet(S)
  BY <1>1, FS_Subset
<1>. QED
  BY <1>2, FS_CardinalityType

\* It can be put in order.
LEMMA OrderExists ==
  ASSUME NEW N \in Nat, NEW S \in SUBSET (1..N) PROVE \E f : IsOrder(S, f)
<1>1. \A T \in SUBSET (1..N) : IsFiniteSet(T) /\ Cardinality(T) \in Nat
  BY FiniteNumbers
<1>. DEFINE Bad == {n \in Nat : \E T \in SUBSET (1..N) :
                       Cardinality(T) = n /\ ~ \E f : IsOrder(T, f)}
<1>2. SUFFICES ASSUME Bad # {} PROVE FALSE
  <2>1. Cardinality(S) \in Nat
    BY <1>1
  <2>. QED
    BY <2>1
<1>3. PICK n \in Bad : \A m \in Bad : n <= m
  <2>1. Bad \in SUBSET Nat
    OBVIOUS
  <2>. HIDE DEF Bad
  <2>. QED
    BY <1>2, <2>1, LeastExists
<1>4. PICK T \in SUBSET (1..N) : Cardinality(T) = n /\ ~ \E f : IsOrder(T, f)
  OBVIOUS
<1>5. CASE T = {}
  <2>1. IsOrder(T, <<>>)
    BY <1>5, FS_EmptySet DEF IsOrder
  <2>. QED
    BY <1>4, <2>1
<1>6. CASE T # {}
  <2>1. PICK g \in T : \A y \in T : g >= y
    BY <1>6, GreatestExists
  <2>. DEFINE U == T \ {g}
  <2>2. Cardinality(U) = n - 1 /\ n - 1 \in Nat
    <3>1. IsFiniteSet(T) /\ g \in T /\ Cardinality(T) = n
      BY <1>1, <1>4, <2>1
    <3>2. IsFiniteSet(U) /\ Cardinality(U) = n - 1
      BY <3>1, FS_RemoveElement
    <3>. QED
      BY <3>2, FS_CardinalityType
  <2>3. PICK f : IsOrder(U, f)
    <3>1. n - 1 \notin Bad
      BY <1>3, <2>2
    <3>. QED
      BY <2>2, <3>1
  <2>. DEFINE h == [i \in 1..n |-> IF i = n THEN g ELSE f[i]]
  <2>4. f \in [1..(n - 1) -> U] /\ \A i, j \in 1..(n - 1) : i < j => f[i] < f[j]
    BY <2>2, <2>3 DEF IsOrder
  <2>5. \A i \in 1..(n - 1) : f[i] \in T /\ f[i] < g
    <3>1. TAKE i \in 1..(n - 1)
    <3>2. f[i] \in T /\ f[i] # g
      BY <2>4
    <3>3. f[i] \in Nat /\ g \in Nat
      BY <1>4, <2>1, <3>2, MembersAreNumbers
    <3>. QED
      BY <2>1, <3>2, <3>3
  <2>6. h \in [1..n -> T]
    BY <2>1, <2>5
  <2>7. ASSUME NEW i \in 1..n, NEW j \in 1..n, i < j PROVE h[i] < h[j]
    BY <2>4, <2>5, <2>7
  <2>8. IsOrder(T, h)
    <3>. HIDE DEF h
    <3>. QED
      BY <1>4, <2>6, <2>7 DEF IsOrder
  <2>. QED
    BY <1>4, <2>8
<1>. QED
  BY <1>5, <1>6

\* InOrder lists the numbers of a set, each once, in ascending order.
LEMMA InOrderLists ==
  ASSUME NEW N \in Nat, NEW S \in SUBSET (1..N)
  PROVE  /\ Cardinality(S) \in Nat
         /\ InOrder(S) \in [1..Cardinality(S) -> S]
         /\ \A m, n \in 1..Cardinality(S) : m < n => InOrder(S)[m] < InOrder(S)[n]
         /\ \A x \in S : \E n \in 1..Cardinality(S) : InOrder(S)[n] = x
<1>1. IsFiniteSet(S) /\ Cardinality(S) \in Nat
  BY FiniteNumbers
<1>. DEFINE f == InOrder(S)
<1>2. /\ f \in [1..Cardinality(S) -> S]
      /\ \A m, n \in DOMAIN f : m < n => f[m] < f[n]
  BY OrderExists, Zenon DEF InOrder, IsOrder
<1>. HIDE DEF f
<1>3. f \in Injection(1..Cardinality(S), S)
  <2>1. ASSUME NEW m \in 1..Cardinality(S), NEW n \in 1..Cardinality(S), f[m] = f[n]
        PROVE  m = n
    <3>1. f[m] \in S /\ f[n] \in S /\ DOMAIN f = 1..Cardinality(S)
      BY <1>2
    <3>. f[m] \in Nat /\ f[n] \in Nat
      BY <3>1, MembersAreNumbers
    <3>2. CASE m < n
      BY <1>2, <2>1, <3>1, <3>2
    <3>3. CASE n < m
      BY <1>2, <2>1, <3>1, <3>3
    <3>. QED
      BY <1>1, <3>2, <3>3
  <2>. QED
    BY <1>2, <2>1 DEF Injection, IsInjective
<1>4. Cardinality(1..Cardinality(S)) = Cardinality(S)
  BY <1>1, FS_Interval
<1>5. f \in Surjection(1..Cardinality(S), S)
  BY <1>1, <1>3, <1>4, FS_Injection
<1>. QED
  BY <1>1, <1>2, <1>5 DEF f, Surjection

-----------------------------------------------------------------------------
(* Sequences of sequences.                                                 *)

\* The function that FlattenSeq is defined by, up to n, and that there is one.
FlatUpTo(ss, n, f) == f = [i \in 1..n |-> IF i = 1 THEN ss[i] ELSE f[i - 1] \o ss[i]]

\* Every prefix of a sequence of sequences can be flattened.
LEMMA FlatExists ==
  ASSUME NEW S, NEW ss \in Seq(Seq(S)), NEW n \in 0..Len(ss)
  PROVE  \E f : FlatUpTo(ss, n, f)
<1>. DEFINE Bad == {k \in Nat : k <= n /\ ~ \E f : FlatUpTo(ss, k, f)}
<1>. n \in Nat /\ n <= n
  OBVIOUS
<1>1. SUFFICES ASSUME Bad # {} PROVE FALSE
  OBVIOUS
<1>2. PICK k \in Bad : \A m \in Bad : k <= m
  <2>1. Bad \in SUBSET Nat
    OBVIOUS
  <2>. HIDE DEF Bad
  <2>. QED
    BY <1>1, <2>1, LeastExists
<1>3. CASE k = 0
  <2>1. FlatUpTo(ss, 0, <<>>)
    BY DEF FlatUpTo
  <2>. QED
    BY <1>3, <2>1
<1>4. CASE k # 0
  <2>1. k - 1 \in Nat /\ k - 1 <= n /\ k - 1 \notin Bad
    <3>1. k \in Nat /\ k <= n
      OBVIOUS
    <3>2. k - 1 \in Nat /\ k - 1 <= n /\ ~ (k <= k - 1)
      BY <1>4, <3>1
    <3>. HIDE DEF Bad
    <3>. QED
      BY <1>2, <3>2
  <2>2. PICK f : FlatUpTo(ss, k - 1, f)
    BY <2>1
  <2>. DEFINE g == [i \in 1..k |->
                       IF i < k THEN f[i]
                       ELSE IF k = 1 THEN ss[k] ELSE f[k - 1] \o ss[k]]
  <2>3. ASSUME NEW i \in 1..k
        PROVE  g[i] = IF i = 1 THEN ss[i] ELSE g[i - 1] \o ss[i]
    <3>1. CASE i < k
      <4>1. i \in 1..(k - 1) /\ (i # 1 => i - 1 \in 1..k /\ i - 1 < k)
        BY <2>1, <3>1
      <4>2. f[i] = IF i = 1 THEN ss[i] ELSE f[i - 1] \o ss[i]
        BY <2>2, <4>1 DEF FlatUpTo
      <4>. QED
        BY <3>1, <4>1, <4>2
    <3>2. CASE i = k
      <4>1. k # 1 => k - 1 \in 1..k /\ k - 1 < k
        BY <2>1
      <4>. QED
        BY <2>1, <3>2, <4>1
    <3>. QED
      BY <2>1, <3>1, <3>2
  <2>4. FlatUpTo(ss, k, g)
    <3>1. g = [i \in 1..k |-> g[i]]
      OBVIOUS
    <3>. HIDE DEF g
    <3>. QED
      BY <2>3, <3>1 DEF FlatUpTo
  <2>5. k \in Bad
    OBVIOUS
  <2>. QED
    BY <2>4, <2>5
<1>. QED
  BY <1>3, <1>4

\* FlattenSeq holds the elements of every one of the sequences.
LEMMA FlattenHoldsAll ==
  ASSUME NEW S, NEW ss \in Seq(Seq(S))
  PROVE  /\ FlattenSeq(ss) \in Seq(S)
         /\ \A k \in DOMAIN ss : \A i \in DOMAIN ss[k] :
               \E m \in DOMAIN FlattenSeq(ss) : FlattenSeq(ss)[m] = ss[k][i]
<1>1. CASE Len(ss) = 0
  <2>1. FlattenSeq(ss) = ss /\ ss = <<>>
    BY <1>1 DEF FlattenSeq
  <2>. QED
    BY <2>1
<1>2. CASE Len(ss) # 0
  <2>. DEFINE f == CHOOSE f : FlatUpTo(ss, Len(ss), f)
  <2>1. FlatUpTo(ss, Len(ss), f)
    <3>1. \E g : FlatUpTo(ss, Len(ss), g)
      BY FlatExists
    <3>. QED
      BY <3>1, Zenon
  <2>2. FlattenSeq(ss) = f[Len(ss)]
    BY <1>2, Zenon DEF FlattenSeq, FlatUpTo
  <2>. HIDE DEF f
  <2>. DEFINE Good(n) ==
                 /\ f[n] \in Seq(S)
                 /\ \A k \in 1..n : \A i \in DOMAIN ss[k] :
                       \E m \in DOMAIN f[n] : f[n][m] = ss[k][i]
              Bad == {n \in 1..Len(ss) : ~ Good(n)}
  <2>3. ASSUME Bad # {} PROVE FALSE
    <3>1. PICK n \in Bad : \A m \in Bad : n <= m
      <4>1. Bad \in SUBSET Nat
        OBVIOUS
      <4>. HIDE DEF Bad
      <4>. QED
        BY <2>3, <4>1, LeastExists
    <3>2. n \in 1..Len(ss) /\ ss[n] \in Seq(S)
      OBVIOUS
    <3>3. CASE n = 1
      <4>1. f[1] = ss[1]
        BY <2>1, <3>2, <3>3 DEF FlatUpTo
      <4>2. Good(1)
        BY <3>2, <3>3, <4>1
      <4>. QED
        BY <3>3, <4>2
    <3>4. CASE n # 1
      <4>1. n - 1 \in 1..Len(ss) /\ Good(n - 1)
        <5>1. n - 1 \in 1..Len(ss) /\ n - 1 < n
          BY <3>2, <3>4
        <5>2. n - 1 \notin Bad
          BY <3>1, <5>1
        <5>. QED
          BY <5>1, <5>2
      <4>2. f[n] = f[n - 1] \o ss[n]
        BY <2>1, <3>2, <3>4 DEF FlatUpTo
      <4>. DEFINE s == f[n - 1]
                  t == ss[n]
      <4>3. s \in Seq(S) /\ t \in Seq(S)
        BY <3>2, <4>1
      <4>. DOMAIN s = 1..Len(s) /\ Len(s) \in Nat /\ Len(t) \in Nat
        BY <4>3
      <4>4. /\ f[n] \in Seq(S) /\ DOMAIN f[n] = 1..(Len(s) + Len(t))
            /\ \A i \in 1..Len(s) : f[n][i] = s[i]
            /\ \A i \in 1..Len(t) : Len(s) + i \in DOMAIN f[n] /\ f[n][Len(s) + i] = t[i]
        <5>. HIDE DEF s, t
        <5>1. /\ s \o t \in Seq(S) /\ Len(s \o t) = Len(s) + Len(t)
              /\ \A i \in 1..Len(s) : (s \o t)[i] = s[i]
              /\ \A i \in 1..Len(t) : (s \o t)[Len(s) + i] = t[i]
          BY <4>3
        <5>2. f[n] = s \o t
          BY <4>2 DEF s, t
        <5>. QED
          BY <4>3, <5>1, <5>2
      <4>5. Good(n)
        <5>1. ASSUME NEW k \in 1..n, NEW i \in DOMAIN ss[k]
              PROVE  \E m \in DOMAIN f[n] : f[n][m] = ss[k][i]
          <6>1. CASE k = n
            <7>1. i \in 1..Len(t)
              BY <4>3, <5>1, <6>1
            <7>. QED
              BY <4>4, <6>1, <7>1, Zenon
          <6>2. CASE k # n
            <7>1. k \in 1..(n - 1)
              BY <3>2, <6>2
            <7>2. PICK m \in DOMAIN s : s[m] = ss[k][i]
              BY <4>1, <5>1, <7>1
            <7>3. m \in 1..Len(s) /\ m \in DOMAIN f[n]
              <8>. HIDE DEF s, t
              <8>1. m \in 1..Len(s)
                OBVIOUS
              <8>2. m \in 1..(Len(s) + Len(t))
                BY <8>1
              <8>. QED
                BY <4>4, <8>1, <8>2
            <7>. QED
              BY <4>4, <7>2, <7>3, Zenon
          <6>. QED
            BY <6>1, <6>2
        <5>. QED
          BY <4>4, <5>1
      <4>. QED
        BY <4>5
    <3>. QED
      BY <3>3, <3>4
  <2>4. Len(ss) \in 1..Len(ss) /\ Good(Len(ss))
    <3>1. Len(ss) \in 1..Len(ss)
      BY <1>2
    <3>2. Len(ss) \notin Bad
      BY <2>3, Zenon
    <3>. QED
      BY <3>1, <3>2
  <2>. QED
    BY <2>2, <2>4
<1>. QED
  BY <1>1, <1>2

-----------------------------------------------------------------------------
(* The chunks of a document.                                               *)

\* The section at a boundary is a part of the lines that starts there, and ends at the
\* last of them or before the next boundary.
LEMMA SectionIsPart ==
  ASSUME NEW lines \in Seq(Lines), NEW b \in Boundaries(lines)
  PROVE  \E e \in b..Len(lines) :
            /\ SectionAt(lines, b) = SubSeq(lines, b, e)
            /\ SectionAt(lines, b) \in Seq(Lines)
            /\ Len(SectionAt(lines, b)) = e - b + 1
            /\ \A i \in 1..(e - b + 1) : SectionAt(lines, b)[i] = lines[b + i - 1]
            /\ \A c \in Boundaries(lines) : c > b => c > e
            /\ e = Len(lines) \/ e + 1 \in Boundaries(lines)
<1>. DEFINE later == {c \in Boundaries(lines) : c > b}
            e == IF later = {} THEN Len(lines) ELSE Min(later) - 1
<1>1. b \in 1..Len(lines) /\ Boundaries(lines) \subseteq 1..Len(lines) /\ Len(lines) \in Nat
  BY DEF Boundaries
<1>2. later # {} => /\ Min(later) \in Boundaries(lines) /\ Min(later) > b
                    /\ \A c \in later : Min(later) <= c
  <2>1. later \in SUBSET Nat
    BY <1>1
  <2>2. ASSUME later # {} PROVE Min(later) \in later /\ \A c \in later : Min(later) <= c
    <3>. HIDE DEF later
    <3>. QED
      BY <2>1, <2>2, MinIsLeast
  <2>. QED
    BY <2>2
<1>3. /\ e \in b..Len(lines) /\ (e = Len(lines) \/ e + 1 \in Boundaries(lines))
      /\ \A c \in Boundaries(lines) : c > b => c > e
  <2>1. CASE later = {}
    BY <1>1, <2>1
  <2>2. CASE later # {}
    <3>1. Min(later) \in 1..Len(lines) /\ e = Min(later) - 1
      BY <1>1, <1>2, <2>2
    <3>2. \A c \in Boundaries(lines) : c \in Nat /\ (c > b => Min(later) <= c)
      BY <1>1, <1>2, <2>2
    <3>. HIDE DEF e, later
    <3>. QED
      BY <1>1, <1>2, <2>2, <3>1, <3>2
  <2>. QED
    BY <2>1, <2>2
<1>4. SectionAt(lines, b) = SubSeq(lines, b, e)
  BY DEF SectionAt
<1>. HIDE DEF e
<1>5. /\ SubSeq(lines, b, e) \in Seq(Lines)
      /\ Len(SubSeq(lines, b, e)) = e - b + 1
      /\ \A i \in 1..(e - b + 1) : SubSeq(lines, b, e)[i] = lines[b + i - 1]
  <2>1. b \in Int /\ e \in Int /\ b <= e /\ \A i \in b..e : lines[i] \in Lines
    BY <1>1, <1>3
  <2>2. /\ SubSeq(lines, b, e) \in Seq(Lines)
        /\ Len(SubSeq(lines, b, e)) = IF b <= e THEN e - b + 1 ELSE 0
        /\ \A i \in 1 .. e - b + 1 : SubSeq(lines, b, e)[i] = lines[b + i - 1]
    BY <2>1, SubSeqProperties
  <2>. QED
    BY <2>1, <2>2
<1>. QED
  BY <1>3, <1>4, <1>5

\* A section is split into texts.
LEMMA SplitTypes ==
  ASSUME NEW section \in Seq(Lines), Len(section) > 0
  PROVE  SplitSection(section) \in Seq(Seq(Lines))
<1>1. /\ Len(section) \in Nat /\ DOMAIN section = 1..Len(section)
      /\ \A i \in 1..Len(section) : section[i] \in Lines
  OBVIOUS
<1>2. CASE section[1] \notin Headings
  <2>1. SplitSection(section) = [i \in DOMAIN section |-> <<section[i]>>]
    BY <1>2 DEF SplitSection
  <2>2. [i \in 1..Len(section) |-> <<section[i]>>] \in Seq(Seq(Lines))
    BY <1>1
  <2>. QED
    BY <1>1, <2>1, <2>2
<1>3. CASE section[1] \in Headings /\ Len(section) = 1
  <2>1. SplitSection(section) = <<section>>
    BY <1>3 DEF SplitSection
  <2>. QED
    BY <2>1
<1>4. CASE section[1] \in Headings /\ Len(section) > 1
  <2>. DEFINE n == Len(section) - 1
  <2>1. SplitSection(section) = [i \in 1..n |-> <<section[1], section[i + 1]>>]
    BY <1>4 DEF SplitSection
  <2>2. n \in Nat /\ \A i \in 1..n : section[1] \in Lines /\ section[i + 1] \in Lines
    BY <1>1, <1>4
  <2>. HIDE DEF n
  <2>3. [i \in 1..n |-> <<section[1], section[i + 1]>>] \in Seq(Seq(Lines))
    BY <2>2
  <2>. QED
    BY <2>1, <2>3
<1>. QED
  BY <1>1, <1>2, <1>3, <1>4

\* The sections of a document, in the order of their boundaries, each split.
Sections(lines) ==
    [k \in DOMAIN InOrder(Boundaries(lines)) |->
        SplitSection(SectionAt(lines, InOrder(Boundaries(lines))[k]))]

\* The sections of a document, split, are lists of texts, one for each boundary.
LEMMA SectionTypes ==
  ASSUME NEW lines \in Seq(Lines)
  PROVE  /\ Sections(lines) \in Seq(Seq(Seq(Lines)))
         /\ \A b \in Boundaries(lines) : \E k \in DOMAIN Sections(lines) :
               Sections(lines)[k] = SplitSection(SectionAt(lines, b))
<1>. DEFINE starts == InOrder(Boundaries(lines))
            n == Cardinality(Boundaries(lines))
<1>1. /\ n \in Nat /\ starts \in [1..n -> Boundaries(lines)]
      /\ \A b \in Boundaries(lines) : \E k \in 1..n : starts[k] = b
  <2>1. Len(lines) \in Nat /\ Boundaries(lines) \in SUBSET (1..Len(lines))
    BY DEF Boundaries
  <2>. QED
    BY <2>1, InOrderLists
<1>2. \A b \in Boundaries(lines) : SplitSection(SectionAt(lines, b)) \in Seq(Seq(Lines))
  <2>1. TAKE b \in Boundaries(lines)
  <2>2. PICK e \in b..Len(lines) : /\ SectionAt(lines, b) \in Seq(Lines)
                                   /\ Len(SectionAt(lines, b)) = e - b + 1
    BY SectionIsPart
  <2>3. b \in Nat
    BY DEF Boundaries
  <2>. QED
    BY <2>2, <2>3, SplitTypes
<1>3. Sections(lines) = [k \in 1..n |-> SplitSection(SectionAt(lines, starts[k]))]
  BY <1>1 DEF Sections
<1>. DEFINE T == Seq(Seq(Lines))
<1>. HIDE DEF starts, n, T
<1>4. \A k \in 1..n : SplitSection(SectionAt(lines, starts[k])) \in T
  BY <1>1, <1>2 DEF T
<1>5. Sections(lines) \in Seq(T)
  BY <1>1, <1>3, <1>4
<1>6. ASSUME NEW b \in Boundaries(lines)
      PROVE  \E k \in DOMAIN Sections(lines) :
                Sections(lines)[k] = SplitSection(SectionAt(lines, b))
  <2>1. PICK k \in 1..n : starts[k] = b
    BY <1>1
  <2>. QED
    BY <1>3, <2>1
<1>. QED
  BY <1>5, <1>6 DEF T

\* The texts of a document are texts, and every part of a section is one of them.
LEMMA TextsTypes ==
  ASSUME NEW lines \in Seq(Lines)
  PROVE  /\ MarkdownTexts(lines) \in Seq(Seq(Lines))
         /\ \A b \in Boundaries(lines) : \A i \in DOMAIN SplitSection(SectionAt(lines, b)) :
               \E m \in DOMAIN MarkdownTexts(lines) :
                  MarkdownTexts(lines)[m] = SplitSection(SectionAt(lines, b))[i]
<1>1. MarkdownTexts(lines) = FlattenSeq(Sections(lines))
  BY DEF MarkdownTexts, Sections
<1>. QED
  BY <1>1, SectionTypes, FlattenHoldsAll

\* The chunks of a document are chunks, and no two of them have the same key.
LEMMA MarkdownChunks ==
  ASSUME NEW content \in Content
  PROVE  /\ ChunkMarkdown(content) \in Seq(Chunk)
         /\ \A m, n \in DOMAIN ChunkMarkdown(content) :
               ChunkMarkdown(content)[m].key = ChunkMarkdown(content)[n].key => m = n
<1>1. content.lines \in Seq(Lines)
  BY DEF Content, File
<1>2. CASE content.oversize
  BY <1>2 DEF ChunkMarkdown
<1>3. CASE ~ content.oversize
  <2>. DEFINE texts == MarkdownTexts(content.lines)
              chunks == [i \in DOMAIN texts |-> [key |-> <<<<>>, i - 1>>, text |-> texts[i]]]
  <2>1. ChunkMarkdown(content) = chunks
    BY <1>3 DEF ChunkMarkdown
  <2>2. texts \in Seq(Seq(Lines))
    BY <1>1, TextsTypes
  <2>. HIDE DEF texts
  <2>3. DOMAIN texts = 1..Len(texts) /\ Len(texts) \in Nat
    BY <2>2
  <2>4. \A i \in 1..Len(texts) : [key |-> <<<<>>, i - 1>>, text |-> texts[i]] \in Chunk
    <3>1. TAKE i \in 1..Len(texts)
    <3>2. <<<<>>, i - 1>> \in Seq(Symbols) \X Nat
      <4>1. i - 1 \in Nat /\ <<>> \in Seq(Symbols)
        BY <2>3
      <4>. QED
        BY <4>1
    <3>3. texts[i] \in Seq(Lines)
      BY <2>2
    <3>. QED
      BY <3>2, <3>3 DEF Chunk
  <2>5. chunks \in Seq(Chunk)
    BY <2>3, <2>4
  <2>6. ASSUME NEW m \in 1..Len(texts), NEW n \in 1..Len(texts), chunks[m].key = chunks[n].key
        PROVE  m = n
    <3>1. <<<<>>, m - 1>> = <<<<>>, n - 1>>
      BY <2>3, <2>6
    <3>. QED
      BY <3>1
  <2>. QED
    BY <2>1, <2>3, <2>5, <2>6
<1>. QED
  BY <1>2, <1>3

\* A paragraph is a text of its own, under the heading it follows if there is one.
LEMMA ParagraphIsText ==
  ASSUME NEW lines \in Seq(Lines), NEW i \in DOMAIN lines, lines[i] \notin Headings
  PROVE  LET above == {j \in 1..i : lines[j] \in Headings}
         IN  \E m \in DOMAIN MarkdownTexts(lines) :
                MarkdownTexts(lines)[m] = IF above = {} THEN <<lines[i]>>
                                          ELSE <<lines[Max(above)], lines[i]>>
<1>. DEFINE above == {j \in 1..i : lines[j] \in Headings}
            starts == {b \in Boundaries(lines) : b <= i}
            text == IF above = {} THEN <<lines[i]>> ELSE <<lines[Max(above)], lines[i]>>
<1>1. /\ Len(lines) \in Nat /\ DOMAIN lines = 1..Len(lines) /\ i \in 1..Len(lines)
      /\ \A j \in Boundaries(lines) : j \in 1..Len(lines) /\ (j = 1 \/ lines[j] \in Headings)
      /\ \A j \in 1..Len(lines) : j = 1 \/ lines[j] \in Headings => j \in Boundaries(lines)
  BY DEF Boundaries
<1>2. starts \in SUBSET (1..Len(lines)) /\ 1 \in starts
  BY <1>1
<1>3. PICK b \in starts : \A c \in starts : b >= c
  <2>. HIDE DEF starts
  <2>. QED
    BY <1>1, <1>2, GreatestExists
<1>4. b \in Boundaries(lines) /\ b \in 1..i
  BY <1>1, <1>2
<1>. DEFINE section == SectionAt(lines, b)
<1>5. PICK e \in b..Len(lines) :
         /\ section \in Seq(Lines) /\ Len(section) = e - b + 1
         /\ \A k \in 1..(e - b + 1) : section[k] = lines[b + k - 1]
         /\ e = Len(lines) \/ e + 1 \in Boundaries(lines)
  BY <1>4, SectionIsPart
<1>. HIDE DEF section
<1>6. i \in b..e
  <2>. i \in Nat /\ i <= Len(lines) /\ Len(lines) \in Nat
    BY <1>1
  <2>. b \in Nat /\ b <= i
    BY <1>4
  <2>. e \in Nat /\ b <= e
    OBVIOUS
  <2>1. CASE e = Len(lines)
    BY <2>1
  <2>2. CASE e # Len(lines)
    <3>1. ASSUME e < i PROVE FALSE
      <4>1. e + 1 \in Boundaries(lines) /\ e + 1 <= i
        BY <1>5, <2>2, <3>1
      <4>2. b >= e + 1
        BY <1>3, <4>1
      <4>. QED
        BY <1>5, <4>2
    <3>. QED
      BY <3>1
  <2>. QED
    BY <2>1, <2>2
<1>7. section[1] = lines[b] /\ Len(section) = e - b + 1 /\ section[i - b + 1] = lines[i]
  <2>1. /\ 1 \in 1..(e - b + 1) /\ b + 1 - 1 = b
        /\ i - b + 1 \in 1..(e - b + 1) /\ b + (i - b + 1) - 1 = i
    BY <1>4, <1>5, <1>6
  <2>. QED
    BY <1>5, <2>1
<1>8. \E k \in DOMAIN SplitSection(section) : SplitSection(section)[k] = text
  <2>1. CASE lines[b] \in Headings
    <3>1. b # i /\ b \in above
      BY <1>4, <2>1
    <3>2. Max(above) = b
      <4>1. above \in SUBSET (1..Len(lines)) /\ above # {}
        BY <1>1, <3>1
      <4>2. Max(above) \in above /\ \A c \in above : Max(above) >= c
        <5>. HIDE DEF above
        <5>. QED
          BY <1>1, <4>1, MaxIsGreatest
      <4>3. Max(above) \in starts
        BY <1>1, <4>1, <4>2
      <4>4. Max(above) \in Nat /\ b >= Max(above) /\ Max(above) >= b
        BY <1>1, <1>3, <3>1, <4>1, <4>2, <4>3
      <4>. QED
        BY <1>4, <4>4
    <3>3. text = <<section[1], section[i - b + 1]>>
      <4>1. text = <<lines[b], lines[i]>>
        BY <3>1, <3>2
      <4>. QED
        BY <1>7, <4>1
    <3>. DEFINE n == Len(section) - 1
    <3>4. Len(section) > 1 /\ n \in Nat /\ i - b \in 1..n
      BY <1>4, <1>5, <1>6, <1>7, <3>1
    <3>5. SplitSection(section) = [k \in 1..n |-> <<section[1], section[k + 1]>>]
      BY <1>7, <2>1, <3>4 DEF SplitSection
    <3>. HIDE DEF n, text
    <3>6. SplitSection(section)[i - b] = text
      BY <3>3, <3>4, <3>5
    <3>. QED
      BY <3>4, <3>5, <3>6
  <2>2. CASE lines[b] \notin Headings
    <3>1. b = 1
      BY <1>1, <1>4, <2>2
    <3>2. above = {}
      <4>1. SUFFICES ASSUME NEW j \in above PROVE FALSE
        OBVIOUS
      <4>2. j \in starts /\ j \in 1..i
        BY <1>1
      <4>3. j = b
        BY <1>3, <3>1, <4>2
      <4>. QED
        BY <2>2, <4>3
    <3>3. text = <<section[i]>>
      <4>1. i - b + 1 = i
        BY <1>4, <3>1
      <4>2. section[i] = lines[i]
        BY <1>7, <4>1
      <4>. QED
        BY <3>2, <4>2
    <3>4. SplitSection(section) = [k \in DOMAIN section |-> <<section[k]>>]
      BY <1>7, <2>2 DEF SplitSection
    <3>5. i \in DOMAIN section
      BY <1>5, <1>6, <3>1
    <3>. HIDE DEF text
    <3>. QED
      BY <3>3, <3>4, <3>5
  <2>. QED
    BY <2>1, <2>2
<1>9. \E m \in DOMAIN MarkdownTexts(lines) : MarkdownTexts(lines)[m] = text
  <2>. HIDE DEF text
  <2>1. PICK k \in DOMAIN SplitSection(section) : SplitSection(section)[k] = text
    BY <1>8
  <2>2. \E m \in DOMAIN MarkdownTexts(lines) :
           MarkdownTexts(lines)[m] = SplitSection(SectionAt(lines, b))[k]
    BY <1>4, TextsTypes DEF section
  <2>. QED
    BY <2>1, <2>2 DEF section
<1>. QED
  BY <1>9

-----------------------------------------------------------------------------
(* The chunks of a code file.                                              *)

\* A definition within a file makes a chunk.
LEMMA NodeMakesChunk ==
  ASSUME NEW content, content.lines \in Seq(Lines), NEW node, InFile(content, node),
         node.from \in Nat, node.to \in Nat, NEW symbol \in Seq(Symbols)
  PROVE  ChunkFromNode(content, node, symbol) \in Chunk
<1>1. SubSeq(content.lines, node.from, node.to) \in Seq(Lines)
  <2>1. \A i \in node.from..node.to : content.lines[i] \in Lines
    BY DEF InFile
  <2>2. node.from \in Int /\ node.to \in Int
    OBVIOUS
  <2>. QED
    BY <2>1, <2>2, SubSeqProperties
<1>2. <<symbol, node.from>> \in Seq(Symbols) \X Nat
  OBVIOUS
<1>. QED
  BY <1>1, <1>2 DEF ChunkFromNode, Chunk

\* The functions of a node are members of it.
LEMMA FunctionsAreMembers ==
  ASSUME NEW node \in Node
  PROVE  \E n \in Nat : /\ DOMAIN FunctionsIn(node) = 1..n
                        /\ \A i \in 1..n : \E m \in DOMAIN node.members :
                              FunctionsIn(node)[i] = node.members[m]
<1>. DEFINE those == {m \in DOMAIN node.members : node.members[m].type = "function"}
            order == InOrder(those)
<1>1. node.members \in Seq(Member)
  BY DEF Node
<1>2. Len(node.members) \in Nat /\ those \in SUBSET (1..Len(node.members))
  BY <1>1
<1>3. Cardinality(those) \in Nat /\ order \in [1..Cardinality(those) -> those]
  <2>. HIDE DEF those
  <2>. QED
    BY <1>2, InOrderLists
<1>4. FunctionsIn(node) = [n \in DOMAIN order |-> node.members[order[n]]]
  BY DEF FunctionsIn
<1>5. \A i \in 1..Cardinality(those) : order[i] \in DOMAIN node.members
  <2>. HIDE DEF order
  <2>. QED
    BY <1>3
<1>. HIDE DEF order, those
<1>. QED
  BY <1>3, <1>4, <1>5

\* The chunks of a node are chunks.
LEMMA NodeChunks ==
  ASSUME NEW content \in Content, NEW k \in DOMAIN content.nodes
  PROVE  ChunksOfNode(content, content.nodes[k]) \in Seq(Chunk)
<1>. DEFINE node == content.nodes[k]
            functions == FunctionsIn(node)
<1>1. content.lines \in Seq(Lines) /\ node \in Node
  BY DEF Content, File
<1>2. /\ node.name \in Symbols /\ node.from \in Nat /\ node.to \in Nat
      /\ node.type \in {"function", "class", "declaration", "other"}
      /\ node.members \in Seq(Member)
  BY <1>1 DEF Node
<1>3. InFile(content, node) /\ \A m \in DOMAIN node.members : InFile(content, node.members[m])
  BY DEF Content
<1>. HIDE DEF node
<1>4. PICK n \in Nat : /\ DOMAIN functions = 1..n
                       /\ \A i \in 1..n : \E m \in DOMAIN node.members :
                             functions[i] = node.members[m]
  BY <1>1, FunctionsAreMembers
<1>. HIDE DEF functions
<1>5. \A i \in 1..n : /\ functions[i].name \in Symbols
                      /\ functions[i].from \in Nat /\ functions[i].to \in Nat
                      /\ InFile(content, functions[i])
  <2>1. TAKE i \in 1..n
  <2>2. PICK m \in DOMAIN node.members : functions[i] = node.members[m]
    BY <1>4
  <2>3. node.members[m] \in Member
    BY <1>2
  <2>. QED
    BY <1>3, <2>2, <2>3 DEF Member
<1>6. <<ChunkFromNode(content, node, <<node.name>>)>> \in Seq(Chunk)
  <2>1. ChunkFromNode(content, node, <<node.name>>) \in Chunk
    <3>1. <<node.name>> \in Seq(Symbols)
      BY <1>2
    <3>. QED
      BY <1>1, <1>2, <1>3, <3>1, NodeMakesChunk
  <2>. HIDE DEF Chunk
  <2>. QED
    BY <2>1
<1>7. [i \in DOMAIN functions |->
          ChunkFromNode(content, functions[i], <<node.name, functions[i].name>>)] \in Seq(Chunk)
  <2>1. \A i \in 1..n :
           ChunkFromNode(content, functions[i], <<node.name, functions[i].name>>) \in Chunk
    <3>1. TAKE i \in 1..n
    <3>2. <<node.name, functions[i].name>> \in Seq(Symbols)
      BY <1>2, <1>5
    <3>. QED
      BY <1>1, <1>5, <3>2, NodeMakesChunk
  <2>. DEFINE t == [i \in DOMAIN functions |->
                       ChunkFromNode(content, functions[i], <<node.name, functions[i].name>>)]
  <2>2. t \in [1..n -> Chunk]
    BY <1>4, <2>1
  <2>. HIDE DEF t
  <2>3. t \in Seq(Chunk)
    BY <2>2
  <2>. QED
    BY <2>3 DEF t
<1>8. [i \in DOMAIN functions |-> ChunkFromNode(content, node, <<functions[i].name>>)]
         \in Seq(Chunk)
  <2>1. \A i \in 1..n : ChunkFromNode(content, node, <<functions[i].name>>) \in Chunk
    <3>1. TAKE i \in 1..n
    <3>2. <<functions[i].name>> \in Seq(Symbols)
      BY <1>5
    <3>. QED
      BY <1>1, <1>2, <1>3, <3>2, NodeMakesChunk
  <2>. DEFINE t == [i \in DOMAIN functions |->
                       ChunkFromNode(content, node, <<functions[i].name>>)]
  <2>2. t \in [1..n -> Chunk]
    BY <1>4, <2>1
  <2>. HIDE DEF t
  <2>3. t \in Seq(Chunk)
    BY <2>2
  <2>. QED
    BY <2>3 DEF t
<1>9. CASE node.type = "function"
  <2>1. ChunksOfNode(content, node) = <<ChunkFromNode(content, node, <<node.name>>)>>
    BY <1>9 DEF ChunksOfNode
  <2>. QED
    BY <1>6, <2>1 DEF node
<1>10. CASE node.type = "class"
  <2>. DEFINE s == <<ChunkFromNode(content, node, <<node.name>>)>>
              t == [i \in DOMAIN functions |->
                       ChunkFromNode(content, functions[i], <<node.name, functions[i].name>>)]
  <2>1. ChunksOfNode(content, node) = s \o t
    BY <1>10 DEF ChunksOfNode, functions
  <2>2. s \in Seq(Chunk) /\ t \in Seq(Chunk)
    BY <1>6, <1>7
  <2>. HIDE DEF s, t
  <2>3. s \o t \in Seq(Chunk)
    BY <2>2
  <2>. QED
    BY <2>1, <2>3 DEF node
<1>11. CASE node.type = "declaration"
  <2>1. ChunksOfNode(content, node) =
           [i \in DOMAIN functions |-> ChunkFromNode(content, node, <<functions[i].name>>)]
    BY <1>11 DEF ChunksOfNode, functions
  <2>. QED
    BY <1>8, <2>1 DEF node
<1>12. CASE node.type = "other"
  <2>1. ChunksOfNode(content, node) = <<>>
    BY <1>12 DEF ChunksOfNode
  <2>. QED
    BY <2>1 DEF node
<1>. QED
  BY <1>2, <1>9, <1>10, <1>11, <1>12

\* What a parser reports of a file is cut into chunks.
LEMMA TreesitterChunks ==
  ASSUME NEW content \in Content PROVE ChunkTreesitter(content) \in Seq(Chunk)
<1>. DEFINE parts == [i \in DOMAIN content.nodes |-> ChunksOfNode(content, content.nodes[i])]
            T == Seq(Chunk)
<1>1. content.nodes \in Seq(Node)
  BY DEF Content, File
<1>2. Len(content.nodes) \in Nat /\ DOMAIN content.nodes = 1..Len(content.nodes)
  BY <1>1
<1>3. \A i \in 1..Len(content.nodes) : ChunksOfNode(content, content.nodes[i]) \in T
  BY <1>2, NodeChunks
<1>. HIDE DEF T
<1>4. parts \in Seq(T)
  BY <1>2, <1>3
<1>. HIDE DEF parts
<1>5. FlattenSeq(parts) \in Seq(Chunk)
  BY <1>4, FlattenHoldsAll DEF T
<1>. QED
  BY <1>5 DEF ChunkTreesitter, parts

\* Blocks are chunks, and no two of them start on one line.
LEMMA HeuristicChunks ==
  ASSUME NEW content \in Content
  PROVE  /\ ChunkHeuristic(content) \in Seq(Chunk)
         /\ \A m, n \in DOMAIN ChunkHeuristic(content) :
               ChunkHeuristic(content)[m].key = ChunkHeuristic(content)[n].key => m = n
<1>. DEFINE lines == content.lines
            Block(s) == SubSeq(lines, s, Min({s + BlockLines - 1, Len(lines)}))
            starts == {s \in DOMAIN lines : /\ (s - 1) % BlockLines = 0
                                            /\ ~ LineSet(Block(s)) \subseteq BlankLines}
            ordered == InOrder(starts)
            n == Cardinality(starts)
            chunks == [i \in DOMAIN ordered |->
                          [key |-> <<<<>>, ordered[i]>>, text |-> Block(ordered[i])]]
<1>1. ChunkHeuristic(content) = chunks
  BY DEF ChunkHeuristic
<1>2. lines \in Seq(Lines) /\ Len(lines) \in Nat /\ DOMAIN lines = 1..Len(lines)
  BY DEF Content, File
<1>3. \A s \in 1..Len(lines) : Block(s) \in Seq(Lines)
  <2>. HIDE DEF lines
  <2>1. TAKE s \in 1..Len(lines)
  <2>. DEFINE e == Min({s + BlockLines - 1, Len(lines)})
  <2>2. e \in Nat /\ e <= Len(lines)
    <3>1. s + BlockLines - 1 \in Nat
      BY ChunkingAssumption DEF ChunkingAssumption
    <3>2. {s + BlockLines - 1, Len(lines)} \in SUBSET Nat
      BY <1>2, <3>1
    <3>. QED
      BY <3>2, MinIsLeast
  <2>. HIDE DEF e
  <2>3. s \in Int /\ e \in Int /\ \A i \in s..e : lines[i] \in Lines
    BY <1>2, <2>2
  <2>4. SubSeq(lines, s, e) \in Seq(Lines)
    BY <2>3, SubSeqProperties
  <2>. QED
    BY <2>4 DEF e
<1>4. starts \in SUBSET (1..Len(lines))
  BY <1>2
<1>. HIDE DEF starts
<1>5. /\ n \in Nat /\ ordered \in [1..n -> starts]
      /\ \A i, j \in 1..n : i < j => ordered[i] < ordered[j]
  BY <1>2, <1>4, InOrderLists
<1>. HIDE DEF n, ordered, lines
<1>6. \A i \in 1..n : ordered[i] \in 1..Len(lines) /\ ordered[i] \in Nat
  BY <1>2, <1>4, <1>5, MembersAreNumbers
<1>. HIDE DEF Block
<1>7. chunks \in Seq(Chunk)
  <2>1. \A i \in 1..n : [key |-> <<<<>>, ordered[i]>>, text |-> Block(ordered[i])] \in Chunk
    <3>1. TAKE i \in 1..n
    <3>2. <<>> \in Seq(Symbols)
      OBVIOUS
    <3>3. <<<<>>, ordered[i]>> \in Seq(Symbols) \X Nat
      BY <1>6, <3>2
    <3>. QED
      BY <1>3, <1>6, <3>3 DEF Chunk
  <2>. QED
    BY <1>5, <2>1
<1>8. ASSUME NEW i \in 1..n, NEW j \in 1..n, chunks[i].key = chunks[j].key PROVE i = j
  <2>1. ordered[i] = ordered[j]
    <3>1. <<<<>>, ordered[i]>> = <<<<>>, ordered[j]>>
      BY <1>5, <1>8
    <3>. QED
      BY <3>1
  <2>2. ~ (i < j) /\ ~ (j < i)
    BY <1>5, <1>6, <2>1
  <2>. QED
    BY <1>5, <2>2
<1>9. DOMAIN chunks = 1..n
  BY <1>5
<1>. QED
  BY <1>1, <1>7, <1>8, <1>9

\* What a file is cut into are chunks, and if no two of its definitions have one name
\* and line, no two of them have the same key.
LEMMA ChunksOfTypes ==
  ASSUME NEW path \in Path, NEW content \in Content \cup {Absent}, Absent \notin Content
  PROVE  /\ ChunksOf(path, content) \in Seq(Chunk)
         /\ content # Absent /\ HasDistinctKeys(content) =>
               \A m, n \in DOMAIN ChunksOf(path, content) :
                  ChunksOf(path, content)[m].key = ChunksOf(path, content)[n].key => m = n
<1>1. CASE content = Absent \/ IsExcludedPath(path)
  BY <1>1 DEF ChunksOf
<1>2. CASE content # Absent /\ ~IsExcludedPath(path)
  <2>1. content \in Content
    BY <1>2
  <2>2. CASE IsL1DocumentPath(path)
    <3>1. ChunksOf(path, content) = ChunkMarkdown(content)
      BY <1>2, <2>2 DEF ChunksOf
    <3>. QED
      BY <2>1, <3>1, MarkdownChunks
  <2>3. CASE ~IsL1DocumentPath(path)
    <3>1. ChunksOf(path, content) = ChunkCodeFile(path, content)
      BY <1>2, <2>3 DEF ChunksOf
    <3>2. ChunkCodeFile(path, content) \in
             {<<>>, ChunkTreesitter(content), ChunkHeuristic(content)}
      BY DEF ChunkCodeFile, ChunkPython
    <3>3. CASE ChunkCodeFile(path, content) = <<>>
      BY <3>1, <3>3
    <3>4. CASE ChunkCodeFile(path, content) = ChunkTreesitter(content)
      BY <2>1, <3>1, <3>4, TreesitterChunks DEF HasDistinctKeys
    <3>5. CASE ChunkCodeFile(path, content) = ChunkHeuristic(content)
      BY <2>1, <3>1, <3>5, HeuristicChunks
    <3>. QED
      BY <3>2, <3>3, <3>4, <3>5
  <2>. QED
    BY <2>2, <2>3
<1>. QED
  BY <1>1, <1>2

-----------------------------------------------------------------------------
(* The inductive invariant.                                                *)

PushRecord == UNION {[before: [DOMAIN k -> Content \cup {Absent}], after: {k}] :
                        k \in PushKinds \cup {FirstPush}}

\* A transaction and what is committed refer to pushes there have been.
WellFormed ==
    /\ pending \subseteq DOMAIN history
    /\ txn.kind = "none" => txn = NoTxn
    /\ txn.kind = "push" => txn.push \in DOMAIN history
    /\ txn.kind # "none" => txn.step # "none"
    /\ txn.step = "commit" => txn.todo = {}
    /\ txn.kind = "seed" => \A p \in txn.todo : IsSeeded(p)
    /\ \A row \in db.commits \cup txn.db.commits :
          row.sha \in DOMAIN history /\ row.message = Messages[history[row.sha].after]

\* Content c was pushed to path p.
WasPushed(p, c) ==
    \E n \in DOMAIN history : p \in DOMAIN history[n].after /\ history[n].after[p] = c

HeadWasPushed == \A p \in Paths : head[p] = Absent \/ WasPushed(p, head[p])

\* What is stored under path p may be the content of path q.
MayStandFor(q, p) == q = p \/ (p = Readme /\ IsReadme(q))

\* NothingInvented of a database, by the pushes that may have made a row.
Makes(h, r) ==
    \E p \in DOMAIN h.after :
        /\ MayStandFor(p, r.path)
        /\ LET chunks == ChunksOf(r.path, h.after[p])
           IN  \E i \in DOMAIN chunks : r.key = chunks[i].key /\ r.text = chunks[i].text

FromBranch(d) == \A r \in d.rows : \E n \in DOMAIN history : Makes(history[n], r)

\* A transaction has seen all findings and resolutions.
SeesFindings ==
    txn.kind # "none" => db.findings \subseteq txn.db.findings /\ db.resolved \subseteq txn.db.resolved

\* Whether a transaction may rely on what a pass has stored.
SettledIsSeen == txn.kind # "none" /\ txn.fresh /\ txn.quiet => settled

\* PreferredReadme, SourceOf and IsContested of a branch h.
ReadmeOf(h) ==
    LET readmes == {p \in Paths : IsReadme(p) /\ h[p] # Absent}
    IN  IF readmes = {} THEN Readme ELSE Preferred[readmes]

Source(h, p) == IF p = Readme THEN ReadmeOf(h) ELSE p

Contested(h, p) == p = Readme /\ h[p] # Absent /\ ReadmeOf(h) # Readme

\* The chunks that a pass stores under path p.
Sourced(h, p) == ChunksOf(p, h[Source(h, p)])

FileAccounted(h, d, p) ==
    \A i \in DOMAIN Sourced(h, p) : Accounted(d, p, Sourced(h, p)[i])

CommitsStored(pushes, d) ==
    \A n \in DOMAIN pushes :
        Len(pushes) - n < MaxCommits /\ ~ IsNoiseCommit(pushes[n])
            => \E row \in d.commits : row.sha = n

\* All that a pass is about is in the database, or reported.
AllAccounted(h, pushes, d) ==
    /\ \A p \in Paths : IsSeeded(p) /\ ~Contested(h, p) => FileAccounted(h, d, p)
    /\ CommitsStored(pushes, d)

IsPurged(d) == d.rows = {} /\ d.commits = {}

\* What was settled is in the committed database and in the one of a transaction.
SettledIsStored ==
    settled =>
        /\ IF Excluded THEN IsPurged(db) ELSE AllAccounted(head, history, db)
        /\ txn.kind # "none" => IF Excluded THEN txn.step = "commit" /\ IsPurged(txn.db)
                                            ELSE AllAccounted(head, history, txn.db)

IsDocument(p) == p = Readme \/ IsListedDocument(p)

\* How far a pass has come that nothing was pushed into, and at what price.
QuietProgress ==
    txn.kind # "none" /\ txn.quiet =>
        /\ Excluded => txn.step = "commit" /\ IsPurged(txn.db) /\ txn.calls = 0
        /\ ~Excluded /\ txn.kind = "seed" =>
              /\ \A p \in Paths : IsDocument(p) =>
                    (txn.step = "documents" /\ p \in txn.todo) \/ FileAccounted(head, txn.db, p)
              /\ \A p \in Paths : IsCandidateCodeFile(p) =>
                    \/ txn.step = "documents" \/ (txn.step = "code" /\ p \in txn.todo)
                    \/ FileAccounted(head, txn.db, p)
              /\ txn.step = "commit" => CommitsStored(history, txn.db)

IsFree ==
    txn.kind = "seed" /\ txn.fresh /\ txn.quiet /\ ~Contested(head, Readme) => txn.calls = 0

-----------------------------------------------------------------------------
(* What the operators on a transaction do.                                 *)

\* A text is clean if none of its lines is flagged.
LEMMA CleanIsUnflagged == ASSUME NEW text PROVE IsClean(text) <=> ~ Flagged(text)
  BY DEF IsClean, Flagged, ScanForSecrets, LineSet

\* The clean rows of a file are rows, and finitely many.
LEMMA CleanRowTypes ==
  ASSUME NEW p \in Paths, NEW chunks \in Seq(Chunk)
  PROVE  CleanRows(p, chunks) \in SUBSET Row /\ IsFiniteSet(CleanRows(p, chunks))
<1>. DEFINE clean == {j \in DOMAIN chunks : IsClean(chunks[j].text)}
            RowOf(i) == [path |-> p, key |-> chunks[i].key, text |-> chunks[i].text]
            f == [i \in clean |-> RowOf(i)]
<1>1. /\ Len(chunks) \in Nat /\ clean \in SUBSET (1..Len(chunks))
      /\ \A i \in clean : chunks[i] \in Chunk
  OBVIOUS
<1>2. CleanRows(p, chunks) = {RowOf(i) : i \in clean}
  BY DEF CleanRows
<1>. HIDE DEF clean
<1>3. \A i \in clean : RowOf(i) \in Row
  BY <1>1 DEF Chunk, Row
<1>4. IsFiniteSet(clean)
  BY <1>1, FiniteNumbers
<1>5. f \in Surjection(clean, CleanRows(p, chunks))
  <2>. HIDE DEF RowOf
  <2>. QED
    BY <1>2 DEF Surjection
<1>6. IsFiniteSet(CleanRows(p, chunks))
  BY <1>4, <1>5, FS_Surjection
<1>. QED
  BY <1>2, <1>3, <1>6

\* What synchronising a file does to a transaction.
FileSynced(t, u, p, chunks) ==
    /\ u \in Txn
    /\ u.kind = t.kind /\ u.push = t.push /\ u.step = t.step
    /\ u.quiet = t.quiet /\ u.fresh = t.fresh
    /\ u.todo = t.todo \ {p}
    /\ u.db.commits = t.db.commits /\ u.db.resolved = t.db.resolved
    /\ u.db.rows = {r \in t.db.rows : ~ \E n \in CleanRows(p, chunks) : SameKey(r, n)}
                   \cup CleanRows(p, chunks)
    /\ u.db.findings = t.db.findings \cup ({"file"} \X {p} \X RulesFound(chunks))
    /\ u.calls = t.calls + Cardinality(CleanRows(p, chunks) \ t.db.rows)

\* SyncFile synchronises a file in this sense.
LEMMA SyncEffect ==
  ASSUME NEW t \in Txn, NEW p \in Paths, NEW chunks \in Seq(Chunk),
         NEW u, u = [SyncChunks(t, p, chunks) EXCEPT !.todo = @ \ {p}]
  PROVE  FileSynced(t, u, p, chunks)
<1>. DEFINE new == CleanRows(p, chunks)
            rows == {r \in t.db.rows : ~ \E n \in new : SameKey(r, n)} \cup new
            findings == t.db.findings \cup ({"file"} \X {p} \X RulesFound(chunks))
            calls == t.calls + Cardinality(new \ t.db.rows)
<1>1. t.db \in Database /\ t.calls \in Nat
  BY DEF Txn
<1>2. rows \in SUBSET Row
  BY <1>1, CleanRowTypes DEF Database
<1>3. findings \in SUBSET Finding
  <2>1. RulesFound(chunks) \in SUBSET Rules
    <3>1. \A i \in DOMAIN chunks : chunks[i].text \in Seq(Lines)
      <4>1. \A i \in DOMAIN chunks : chunks[i] \in Chunk
        OBVIOUS
      <4>. QED
        BY <4>1 DEF Chunk
    <3>2. \A i \in DOMAIN chunks : \A j \in DOMAIN chunks[i].text : chunks[i].text[j] \in Lines
      BY <3>1
    <3>. QED
      BY <3>2, ChunkingAssumption DEF RulesFound, ScanForSecrets, LineSet, ChunkingAssumption
  <2>2. {"file"} \X {p} \X RulesFound(chunks) \in SUBSET Finding
    BY <2>1 DEF Finding
  <2>. QED
    BY <1>1, <2>2 DEF Database
<1>4. calls \in Nat
  <2>1. IsFiniteSet(new \ t.db.rows)
    BY CleanRowTypes, FS_Subset
  <2>. QED
    BY <1>1, <2>1, FS_CardinalityType
<1>5. SyncChunks(t, p, chunks) = [t EXCEPT !.db.rows = rows, !.db.findings = findings,
                                           !.calls = calls]
  BY <1>1 DEF SyncChunks, Txn, Database
<1>. HIDE DEF new, rows, findings, calls
<1>6. u = [t EXCEPT !.db.rows = rows, !.db.findings = findings, !.calls = calls,
                    !.todo = t.todo \ {p}]
  BY <1>1, <1>5, ZenonT(40) DEF Txn, Database
<1>. DEFINE d == [rows |-> rows, commits |-> t.db.commits, findings |-> findings,
                  resolved |-> t.db.resolved]
<1>7. u = [kind |-> t.kind, push |-> t.push, step |-> t.step, todo |-> t.todo \ {p},
           db |-> d, calls |-> calls, quiet |-> t.quiet, fresh |-> t.fresh]
  BY <1>1, <1>6, ZenonT(40) DEF Txn, Database
<1>8. d \in Database
  BY <1>1, <1>2, <1>3 DEF Database
<1>9. u \in Txn
  <2>. HIDE DEF d
  <2>1. [kind |-> t.kind, push |-> t.push, step |-> t.step, todo |-> t.todo \ {p},
         db |-> d, calls |-> calls, quiet |-> t.quiet, fresh |-> t.fresh] \in Txn
    BY <1>4, <1>8 DEF Txn
  <2>. QED
    BY <1>7, <2>1, Zenon
<1>. QED
  BY <1>7, <1>9 DEF FileSynced, new, rows, findings, calls

\* The message of a commit is a line, and what is found in it are rules.
LEMMA CommitRules ==
  ASSUME NEW c, IsPush(c)
  PROVE  Messages[c.after] \in Lines /\ RulesInCommit(c) \in SUBSET Rules
<1>1. PICK k \in PushKinds \cup {FirstPush} :
         c \in [before: [DOMAIN k -> Content \cup {Absent}], after: {k}]
  BY DEF IsPush
<1>2. \A p \in DOMAIN c.after : /\ c.before[p] \in Content \cup {Absent}
                                /\ c.after[p] \in Content \cup {Absent}
  BY <1>1, StoreAssumption DEF StoreAssumption
<1>3. \A d \in Content \cup {Absent} : LinesOf(d) \in SUBSET Lines
  <2>1. ASSUME NEW d \in Content PROVE LineSet(d.lines) \in SUBSET Lines
    <3>1. d.lines \in Seq(Lines)
      BY DEF Content, File
    <3>2. \A i \in DOMAIN d.lines : d.lines[i] \in Lines
      BY <3>1
    <3>. QED
      BY <3>2 DEF LineSet
  <2>. QED
    BY <2>1 DEF LinesOf
<1>4. \A p \in Scannable(c) : PatchLines(c, p) \in SUBSET Lines
  BY <1>2, <1>3 DEF Scannable, PatchLines
<1>5. Messages[c.after] \in Lines
  BY <1>1, StoreAssumption DEF StoreAssumption
<1>6. CommitText(c) \in SUBSET Lines
  BY <1>4, <1>5 DEF CommitText
<1>. QED
  BY <1>5, <1>6, ChunkingAssumption DEF RulesInCommit, ChunkingAssumption

\* The commits of a list that SyncCommits stores.
NewCommits(t, shas) ==
    {n \in shas : ~ (\E row \in t.db.commits : row.sha = n) /\ ~ IsNoiseCommit(history[n])}

\* The row of commit n when those of clean are summarised.
CommitRowOf(n, clean) ==
    [sha |-> n, message |-> Messages[history[n].after], summarized |-> n \in clean]

CleanCommits(t, shas) == {n \in NewCommits(t, shas) : RulesInCommit(history[n]) = {}}

\* What handling commits does to a transaction.
CommitsSynced(t, u, shas) ==
    /\ u \in Txn
    /\ u.kind = t.kind /\ u.push = t.push /\ u.step = "commit" /\ u.todo = t.todo
    /\ u.quiet = t.quiet /\ u.fresh = t.fresh
    /\ u.db.rows = t.db.rows /\ u.db.resolved = t.db.resolved
    /\ u.db.commits = t.db.commits \cup
          {CommitRowOf(n, CleanCommits(t, shas)) : n \in NewCommits(t, shas)}
    /\ u.db.findings = t.db.findings \cup
          UNION {{"commit"} \X {n} \X RulesInCommit(history[n]) : n \in NewCommits(t, shas)}
    /\ u.calls = t.calls + 2 * Cardinality(CleanCommits(t, shas))

\* HandleCommits handles commits in this sense.
LEMMA CommitsEffect ==
  ASSUME TypeOK, history \in Seq(PushRecord), NEW t \in Txn, NEW shas \in SUBSET DOMAIN history,
         NEW u, u = [SyncCommits(t, shas) EXCEPT !.step = "commit"]
  PROVE  CommitsSynced(t, u, shas)
<1>. DEFINE new == NewCommits(t, shas)
            clean == CleanCommits(t, shas)
            commits == t.db.commits \cup {CommitRowOf(n, clean) : n \in new}
            findings == t.db.findings \cup
                           UNION {{"commit"} \X {n} \X RulesInCommit(history[n]) : n \in new}
            calls == t.calls + 2 * Cardinality(clean)
<1>1. t.db \in Database /\ t.calls \in Nat
  BY DEF Txn
<1>2. /\ Len(history) \in Nat /\ Len(history) <= MaxPushes /\ DOMAIN history = 1..Len(history)
      /\ MaxPushes \in Nat
      /\ new \in SUBSET (1..Len(history)) /\ clean \in SUBSET (1..Len(history))
  <2>1. /\ Len(history) \in Nat /\ Len(history) <= MaxPushes /\ MaxPushes \in Nat
        /\ DOMAIN history = 1..Len(history)
    BY StoreAssumption DEF TypeOK, StoreAssumption
  <2>. QED
    BY <2>1 DEF NewCommits, CleanCommits
<1>3. commits \in SUBSET CommitRow
  <2>1. \A n \in new : CommitRowOf(n, clean) \in CommitRow
    <3>. HIDE DEF new, clean
    <3>1. TAKE n \in new
    <3>2. n \in Pushes
      BY <1>2 DEF Pushes
    <3>3. Messages[history[n].after] \in Lines
      BY <1>2, CommitRules DEF TypeOK
    <3>. QED
      BY <3>2, <3>3 DEF CommitRow, CommitRowOf
  <2>. HIDE DEF new, clean
  <2>. QED
    BY <1>1, <2>1 DEF Database
<1>4. findings \in SUBSET Finding
  <2>. HIDE DEF new, clean
  <2>1. ASSUME NEW n \in new
        PROVE  {"commit"} \X {n} \X RulesInCommit(history[n]) \in SUBSET Finding
    <3>1. RulesInCommit(history[n]) \in SUBSET Rules
      BY <1>2, CommitRules DEF TypeOK
    <3>2. n \in Pushes
      BY <1>2 DEF Pushes
    <3>. QED
      BY <3>1, <3>2 DEF Finding
  <2>. QED
    BY <1>1, <2>1 DEF Database
<1>5. calls \in Nat
  <2>1. Cardinality(clean) \in Nat
    BY <1>2, FiniteNumbers
  <2>. QED
    BY <1>1, <2>1
<1>6. SyncCommits(t, shas) = [t EXCEPT !.db.commits = commits, !.db.findings = findings,
                                       !.calls = calls]
  BY <1>1 DEF SyncCommits, NewCommits, CleanCommits, CommitRowOf, Txn, Database
<1>. HIDE DEF new, clean, commits, findings, calls
<1>. DEFINE d == [rows |-> t.db.rows, commits |-> commits, findings |-> findings,
                  resolved |-> t.db.resolved]
<1>8. u = [kind |-> t.kind, push |-> t.push, step |-> "commit", todo |-> t.todo,
           db |-> d, calls |-> calls, quiet |-> t.quiet, fresh |-> t.fresh]
  BY <1>1, <1>6, ZenonT(40) DEF Txn, Database
<1>9. d \in Database
  BY <1>1, <1>3, <1>4 DEF Database
<1>10. u \in Txn
  <2>. HIDE DEF d
  <2>1. [kind |-> t.kind, push |-> t.push, step |-> "commit", todo |-> t.todo,
         db |-> d, calls |-> calls, quiet |-> t.quiet, fresh |-> t.fresh] \in Txn
    BY <1>5, <1>9 DEF Txn
  <2>. QED
    BY <1>8, <2>1, Zenon
<1>. QED
  BY <1>8, <1>10 DEF CommitsSynced, commits, findings, calls, new, clean

-----------------------------------------------------------------------------
(* Types, and that references are to pushes there have been.               *)

Typed == TypeOK /\ history \in Seq(PushRecord) /\ WellFormed

\* Files have contents.
LEMMA HeadTypes ==
  ASSUME TypeOK, NEW p \in Paths, NEW q \in Paths
  PROVE  /\ p \in Path /\ head[q] \in Content \cup {Absent} /\ Absent \notin Content
         /\ ChunksOf(p, head[q]) \in Seq(Chunk)
<1>1. p \in Path /\ Absent \notin Content
  BY StoreAssumption DEF StoreAssumption
<1>2. head[q] \in Content \cup {Absent}
  BY DEF TypeOK
<1>. QED
  BY <1>1, <1>2, ChunksOfTypes

\* README.md is neither in the listing of docs/ nor a code file.
LEMMA ReadmeIsOnItsOwn ==
  Readme \in Paths /\ IsReadme(Readme) /\ ~IsListedDocument(Readme) /\ ~IsCandidateCodeFile(Readme)
  BY StoreAssumption DEF StoreAssumption

\* The README that GitHub prefers is one, and one of the repository if there is any.
LEMMA ReadmeTypes ==
  ASSUME NEW h
  PROVE  ReadmeOf(h) \in Paths /\ IsReadme(ReadmeOf(h))
<1>. DEFINE readmes == {p \in Paths : IsReadme(p) /\ h[p] # Absent}
<1>1. ReadmeOf(h) = IF readmes = {} THEN Readme ELSE Preferred[readmes]
  BY DEF ReadmeOf
<1>2. readmes # {} => Preferred[readmes] \in readmes
  <2>1. readmes \in SUBSET {p \in Paths : IsReadme(p)}
    OBVIOUS
  <2>. HIDE DEF readmes
  <2>. QED
    BY <2>1, StoreAssumption, Zenon DEF StoreAssumption
<1>. QED
  BY <1>1, <1>2, ReadmeIsOnItsOwn

\* The operators on a branch, of the branch there is.
LEMMA SourceIs ==
  ASSUME NEW p \in Paths
  PROVE  /\ SourceOf("seed", p) = Source(head, p)
         /\ SourceOf("push", p) = p
         /\ IsContested(p) <=> Contested(head, p)
<1>1. PreferredReadme = ReadmeOf(head)
  BY DEF PreferredReadme, ReadmeOf
<1>. QED
  BY <1>1 DEF SourceOf, Source, IsContested, Contested

\* The content of a path comes from that path or, for README.md, from a README.
LEMMA SourceTypes ==
  ASSUME NEW kind, NEW p \in Paths
  PROVE  SourceOf(kind, p) \in Paths /\ MayStandFor(SourceOf(kind, p), p)
<1>1. PreferredReadme = ReadmeOf(head)
  BY DEF PreferredReadme, ReadmeOf
<1>2. PreferredReadme \in Paths /\ IsReadme(PreferredReadme)
  BY <1>1, ReadmeTypes
<1>. QED
  BY <1>2 DEF SourceOf, MayStandFor

\* The pushes so far.
LEMMA HistoryTypes ==
  ASSUME TypeOK, history \in Seq(PushRecord)
  PROVE  /\ Len(history) \in Nat /\ Len(history) <= MaxPushes /\ MaxPushes \in Nat
         /\ DOMAIN history = 1..Len(history) /\ DOMAIN history \subseteq Pushes
  BY StoreAssumption DEF TypeOK, StoreAssumption, Pushes

\* What a push writes.
LEMMA WrittenTypes ==
  ASSUME NEW h \in [Paths -> Content \cup {Absent}], NEW k \in PushKinds \cup {FirstPush}
  PROVE  /\ Written(h, k) \in [Paths -> Content \cup {Absent}]
         /\ [before |-> [p \in DOMAIN k |-> h[p]], after |-> k] \in PushRecord
         /\ IsPush([before |-> [p \in DOMAIN k |-> h[p]], after |-> k])
<1>1. DOMAIN k \subseteq Paths /\ k \in [DOMAIN k -> Content \cup {Absent}]
  BY StoreAssumption DEF StoreAssumption
<1>2. Written(h, k) \in [Paths -> Content \cup {Absent}]
  BY <1>1 DEF Written
<1>3. [before |-> [p \in DOMAIN k |-> h[p]], after |-> k]
         \in [before: [DOMAIN k -> Content \cup {Absent}], after: {k}]
  BY <1>1
<1>. QED
  BY <1>2, <1>3 DEF PushRecord, IsPush

\* The first push is there and nothing is stored.
LEMMA InitTyped == ASSUME Init PROVE Typed
<1>. DEFINE first == [before |-> [p \in DOMAIN FirstPush |-> NoFiles[p]], after |-> FirstPush]
<1>1. FirstPush \in PushKinds \cup {FirstPush}
  OBVIOUS
<1>2. NoFiles \in [Paths -> Content \cup {Absent}]
  BY DEF NoFiles
<1>3. /\ head \in [Paths -> Content \cup {Absent}]
      /\ first \in PushRecord /\ IsPush(first)
  BY <1>1, <1>2, WrittenTypes DEF Init
<1>4. history = <<first>>
  <2>1. [p \in DOMAIN FirstPush |-> Absent] = [p \in DOMAIN FirstPush |-> NoFiles[p]]
    BY <1>1, StoreAssumption DEF NoFiles, StoreAssumption
  <2>. QED
    BY <2>1, Zenon DEF Init
<1>. HIDE DEF first
<1>5. history \in Seq(PushRecord) /\ Len(history) = 1 /\ DOMAIN history = {1}
      /\ history[1] = first
  BY <1>3, <1>4
<1>6. EmptyDatabase \in Database /\ EmptyDatabase.commits = {}
  BY DEF EmptyDatabase, Database
<1>7. NoTxn \in Txn /\ NoTxn.kind = "none" /\ NoTxn.todo = {} /\ NoTxn.db = EmptyDatabase
  <2>1. 0 \in 0..MaxPushes
    BY StoreAssumption DEF StoreAssumption
  <2>. QED
    BY <1>6, <2>1 DEF NoTxn, Txn
<1>8. TypeOK
  <2>1. Len(history) \in 0..MaxPushes
    BY <1>5, StoreAssumption DEF StoreAssumption
  <2>2. \A n \in DOMAIN history : IsPush(history[n])
    BY <1>3, <1>5
  <2>. QED
    BY <1>3, <1>6, <1>7, <2>1, <2>2 DEF Init, TypeOK
<1>9. WellFormed
  BY <1>6, <1>7 DEF Init, WellFormed
<1>. QED
  BY <1>5, <1>8, <1>9 DEF Typed

\* A push keeps the types; the history only grows.
LEMMA PushTypes ==
  ASSUME Typed, NEW k \in PushKinds, Push(k)
  PROVE  /\ Typed'
         /\ Len(history') = Len(history) + 1
         /\ \A n \in DOMAIN history : n \in DOMAIN history' /\ history'[n] = history[n]
         /\ history'[Len(history')].after = k /\ Len(history') \in DOMAIN history'
         /\ txn'.kind = txn.kind /\ txn'.db = txn.db /\ txn'.step = txn.step
         /\ txn'.todo = txn.todo /\ ~ txn'.quiet
<1>. DEFINE h == [before |-> [p \in DOMAIN k |-> head[p]], after |-> k]
<1>1. /\ head \in [Paths -> Content \cup {Absent}] /\ txn \in Txn /\ db \in Database
      /\ settled \in BOOLEAN /\ \A n \in DOMAIN history : IsPush(history[n])
      /\ history \in Seq(PushRecord)
  BY DEF Typed, TypeOK
<1>2. head' \in [Paths -> Content \cup {Absent}] /\ h \in PushRecord /\ IsPush(h)
  BY <1>1, WrittenTypes DEF Push
<1>3. /\ Len(history) \in Nat /\ MaxPushes \in Nat /\ DOMAIN history = 1..Len(history)
      /\ Len(history) < MaxPushes
  BY HistoryTypes DEF Typed, Push
<1>4. history' = Append(history, h) /\ h.after = k
  BY DEF Push
<1>. HIDE DEF h
<1>5. /\ history' \in Seq(PushRecord) /\ Len(history') = Len(history) + 1
      /\ DOMAIN history' = 1..(Len(history) + 1)
      /\ \A n \in 1..Len(history) : history'[n] = history[n]
      /\ history'[Len(history) + 1] = h
  BY <1>1, <1>2, <1>3, <1>4
<1>6. \A n \in DOMAIN history : n \in DOMAIN history' /\ history'[n] = history[n]
  BY <1>3, <1>5
<1>7. /\ txn' \in Txn /\ txn'.kind = txn.kind /\ txn'.db = txn.db /\ txn'.push = txn.push
      /\ txn'.step = txn.step /\ txn'.todo = txn.todo /\ ~ txn'.quiet
      /\ txn = NoTxn => txn' = NoTxn
  <2>1. txn' = [txn EXCEPT !.quiet = FALSE]
    BY DEF Push
  <2>2. ASSUME txn = NoTxn PROVE txn' = NoTxn
    BY <2>1, <2>2 DEF NoTxn
  <2>3. /\ txn' \in Txn /\ txn'.kind = txn.kind /\ txn'.db = txn.db /\ txn'.push = txn.push
        /\ txn'.step = txn.step /\ txn'.todo = txn.todo /\ ~ txn'.quiet
    BY <1>1, <2>1 DEF Txn
  <2>. QED
    BY <2>2, <2>3
<1>8. pending' \subseteq DOMAIN history' /\ pending' \subseteq Pushes
  <2>1. pending \subseteq 1..Len(history) /\ pending' = pending \cup {Len(history) + 1}
    BY <1>3 DEF Typed, WellFormed, Push
  <2>2. \A n \in pending' : n \in 1..(Len(history) + 1)
    BY <1>3, <2>1
  <2>3. 1..(Len(history) + 1) \subseteq 1..MaxPushes
    BY <1>3
  <2>. QED
    BY <1>5, <2>2, <2>3 DEF Pushes
<1>9. TypeOK'
  <2>1. \A n \in DOMAIN history' : IsPush(history'[n])
    <3>1. TAKE n \in DOMAIN history'
    <3>2. CASE n \in DOMAIN history
      BY <1>1, <1>6, <3>2
    <3>3. CASE n \notin DOMAIN history
      <4>1. n = Len(history) + 1
        BY <1>3, <1>5, <3>3
      <4>. QED
        BY <1>2, <1>5, <4>1
    <3>. QED
      BY <3>2, <3>3
  <2>2. Len(history') \in 0..MaxPushes
    BY <1>3, <1>5
  <2>3. db' = db /\ settled' = FALSE
    BY DEF Push
  <2>. QED
    BY <1>1, <1>2, <1>7, <1>8, <2>1, <2>2, <2>3 DEF TypeOK
<1>10. WellFormed'
  <2>1. db' = db
    BY DEF Push
  <2>. QED
    BY <1>6, <1>7, <1>8, <2>1 DEF Typed, WellFormed
<1>. QED
  BY <1>3, <1>4, <1>5, <1>6, <1>7, <1>9, <1>10 DEF Typed

\* The transaction that begins.
LEMMA BeginEffect ==
  ASSUME Typed, NEW kind, NEW n, NEW documents, Begin(kind, n, documents),
         kind \in {"push", "seed"}, n \in 0..MaxPushes, documents \subseteq Paths
  PROVE  /\ txn.kind = "none"
         /\ UNCHANGED <<head, history, pending, db, settled>>
         /\ txn' \in Txn
         /\ txn'.kind = kind /\ txn'.push = n /\ txn'.calls = 0 /\ txn'.quiet
         /\ txn'.fresh = settled
         /\ txn'.step = IF Excluded THEN "commit" ELSE "documents"
         /\ txn'.todo = IF Excluded THEN {} ELSE documents
         /\ txn'.db.findings = db.findings /\ txn'.db.resolved = db.resolved
         /\ Excluded => IsPurged(txn'.db)
         /\ ~Excluded => txn'.db = db
<1>. DEFINE d == IF Excluded THEN PurgeProjectData(db) ELSE db
            step == IF Excluded THEN "commit" ELSE "documents"
            todo == IF Excluded THEN {} ELSE documents
<1>1. db \in Database /\ settled \in BOOLEAN
  BY DEF Typed, TypeOK
<1>2. /\ d \in Database /\ d.findings = db.findings /\ d.resolved = db.resolved
      /\ Excluded => IsPurged(d)
      /\ ~Excluded => d = db
  BY <1>1 DEF PurgeProjectData, Database, IsPurged
<1>3. txn' = [kind |-> kind, push |-> n, step |-> step, todo |-> todo,
              db |-> d, calls |-> 0, quiet |-> TRUE, fresh |-> settled]
  BY Zenon DEF Begin
<1>4. step \in {"none", "documents", "code", "commit"} /\ todo \in SUBSET Paths
  OBVIOUS
<1>5. txn' \in Txn
  <2>. HIDE DEF d, step, todo
  <2>1. [kind |-> kind, push |-> n, step |-> step, todo |-> todo,
         db |-> d, calls |-> 0, quiet |-> TRUE, fresh |-> settled] \in Txn
    BY <1>1, <1>2, <1>4 DEF Txn
  <2>. QED
    BY <1>3, <2>1, Zenon
<1>6. txn.kind = "none" /\ UNCHANGED <<head, history, pending, db, settled>>
  BY DEF Begin
<1>7. /\ txn'.kind = kind /\ txn'.push = n /\ txn'.calls = 0 /\ txn'.quiet
      /\ txn'.fresh = settled /\ txn'.step = step /\ txn'.todo = todo /\ txn'.db = d
  <2>. HIDE DEF d, step, todo
  <2>. QED
    BY <1>3
<1>. QED
  BY <1>2, <1>5, <1>6, <1>7, Zenon

\* A transaction that begins is about a push there has been, or about the listing.
LEMMA BeginTypes ==
  ASSUME Typed, NEW kind, NEW n, NEW documents, Begin(kind, n, documents),
         kind \in {"push", "seed"}, n \in 0..MaxPushes, documents \subseteq Paths,
         kind = "push" => n \in DOMAIN history,
         kind = "seed" => \A p \in documents : IsSeeded(p)
  PROVE  Typed'
<1>1. TypeOK'
  BY BeginEffect DEF Typed, TypeOK
<1>2. \A row \in db'.commits \cup txn'.db.commits : row \in db.commits
  <2>1. db' = db /\ (txn'.db.commits = {} \/ txn'.db = db)
    BY BeginEffect DEF IsPurged
  <2>. QED
    BY <2>1
<1>3. WellFormed'
  <2>1. /\ txn'.kind = kind /\ txn'.push = n /\ UNCHANGED <<history, pending>>
        /\ txn'.step # "none" /\ (txn'.step = "commit" => txn'.todo = {})
        /\ txn'.todo \subseteq documents
    BY BeginEffect
  <2>. QED
    BY <1>2, <2>1 DEF Typed, WellFormed
<1>4. history' = history
  BY BeginEffect
<1>. QED
  BY <1>1, <1>3, <1>4 DEF Typed

\* What a step inside a transaction does to it.
LEMMA SyncFileEffect ==
  ASSUME Typed, NEW p \in Paths, SyncFile(p)
  PROVE  /\ p \in txn.todo /\ txn.kind # "none"
         /\ UNCHANGED <<head, history, pending, db, settled>>
         /\ FileSynced(txn, txn', p, ChunksOf(p, head[SourceOf(txn.kind, p)]))
<1>. DEFINE source == SourceOf(txn.kind, p)
<1>1. txn \in Txn /\ ChunksOf(p, head[source]) \in Seq(Chunk)
  <2>1. source \in Paths
    BY SourceTypes
  <2>. HIDE DEF source
  <2>. QED
    BY <2>1, HeadTypes DEF Typed, TypeOK
<1>2. txn' = [SyncChunks(txn, p, ChunksOf(p, head[source])) EXCEPT !.todo = @ \ {p}]
  BY DEF SyncFile
<1>3. p \in txn.todo /\ UNCHANGED <<head, history, pending, db, settled>>
  BY DEF SyncFile
<1>4. txn.kind # "none"
  BY <1>3 DEF Typed, WellFormed, NoTxn
<1>. QED
  BY <1>1, <1>2, <1>3, <1>4, SyncEffect, Zenon

\* Synchronising a file keeps the types.
LEMMA SyncFileTypes == ASSUME Typed, NEW p \in Paths, SyncFile(p) PROVE Typed'
<1>1. TypeOK'
  BY SyncFileEffect, Zenon DEF Typed, TypeOK, FileSynced
<1>2. WellFormed'
  <2>1. /\ txn.kind # "none" /\ UNCHANGED <<history, pending, db>>
        /\ txn'.kind = txn.kind /\ txn'.push = txn.push /\ txn'.step = txn.step
        /\ txn'.todo = txn.todo \ {p} /\ txn'.db.commits = txn.db.commits
    BY SyncFileEffect, Zenon DEF FileSynced
  <2>. QED
    BY <2>1 DEF Typed, WellFormed
<1>3. history' = history
  BY SyncFileEffect, Zenon
<1>. QED
  BY <1>1, <1>2, <1>3 DEF Typed

\* The code files of the branch.
CodeFiles(h) == {p \in Paths : IsCandidateCodeFile(p) /\ h[p] # Absent}

\* The code files of the push, or of the listing, are to come next: all of them
\* unless the transaction is no longer quiet.
LEMMA ListCodeEffect ==
  ASSUME Typed, ListCode
  PROVE  /\ txn.kind # "none" /\ txn.step = "documents" /\ txn.todo = {}
         /\ UNCHANGED <<head, history, pending, db, settled>>
         /\ txn' \in Txn
         /\ txn'.kind = txn.kind /\ txn'.push = txn.push /\ txn'.step = "code"
         /\ txn'.quiet => txn.quiet
         /\ txn'.fresh = txn.fresh
         /\ txn'.db = txn.db /\ txn'.calls = txn.calls
         /\ txn.kind = "seed" => txn'.todo \subseteq CodeFiles(head)
         /\ txn.kind = "seed" /\ txn'.quiet => txn'.todo = CodeFiles(head)
<1>1. /\ txn.step = "documents" /\ txn.todo = {}
      /\ UNCHANGED <<head, history, pending, db, settled>>
  BY DEF ListCode
<1>2. txn \in Txn
  BY DEF Typed, TypeOK
<1>3. txn.kind # "none"
  BY <1>1 DEF Typed, WellFormed, NoTxn
<1>4. \/ /\ txn.kind = "push"
         /\ txn' = [txn EXCEPT !.step = "code", !.todo = Changed(txn.push, "code")]
      \/ /\ txn.kind = "seed"
         /\ txn' = [txn EXCEPT !.step = "code", !.todo = CodeFiles(head)]
      \/ /\ txn.kind = "seed"
         /\ \E some \in SUBSET CodeFiles(head) :
               txn' = [txn EXCEPT !.step = "code", !.todo = some, !.quiet = FALSE]
  <2>1. CodeFiles(head) = {p \in {q \in Paths : head[q] # Absent} : IsCandidateCodeFile(p)}
    BY DEF CodeFiles
  <2>. QED
    BY <2>1, Zenon DEF ListCode
<1>5. CodeFiles(head) \in SUBSET Paths
  BY DEF CodeFiles
<1>6. txn.kind = "push" => Changed(txn.push, "code") \in SUBSET Paths
  <2>1. SUFFICES ASSUME txn.kind = "push" PROVE Changed(txn.push, "code") \in SUBSET Paths
    OBVIOUS
  <2>2. PICK k \in PushKinds \cup {FirstPush} :
           history[txn.push] \in [before: [DOMAIN k -> Content \cup {Absent}], after: {k}]
    BY <2>1 DEF Typed, WellFormed, TypeOK, IsPush
  <2>. QED
    BY <2>2, StoreAssumption DEF Changed, StoreAssumption
<1>7. ASSUME NEW todo \in SUBSET Paths, NEW quiet \in BOOLEAN,
             txn' = [txn EXCEPT !.step = "code", !.todo = todo, !.quiet = quiet]
      PROVE  /\ txn' \in Txn
             /\ txn'.kind = txn.kind /\ txn'.push = txn.push /\ txn'.step = "code"
             /\ txn'.quiet = quiet /\ txn'.fresh = txn.fresh
             /\ txn'.db = txn.db /\ txn'.calls = txn.calls /\ txn'.todo = todo
  BY <1>2, <1>7 DEF Txn
<1>8. ASSUME NEW todo \in SUBSET Paths, txn' = [txn EXCEPT !.step = "code", !.todo = todo]
      PROVE  /\ txn' \in Txn
             /\ txn'.kind = txn.kind /\ txn'.push = txn.push /\ txn'.step = "code"
             /\ txn'.quiet = txn.quiet /\ txn'.fresh = txn.fresh
             /\ txn'.db = txn.db /\ txn'.calls = txn.calls /\ txn'.todo = todo
  BY <1>2, <1>8 DEF Txn
<1>. DEFINE Effect ==
               /\ txn' \in Txn
               /\ txn'.kind = txn.kind /\ txn'.push = txn.push /\ txn'.step = "code"
               /\ txn'.quiet => txn.quiet
               /\ txn'.fresh = txn.fresh
               /\ txn'.db = txn.db /\ txn'.calls = txn.calls
               /\ txn.kind = "seed" => txn'.todo \subseteq CodeFiles(head)
               /\ txn.kind = "seed" /\ txn'.quiet => txn'.todo = CodeFiles(head)
<1>9. CASE /\ txn.kind = "push"
           /\ txn' = [txn EXCEPT !.step = "code", !.todo = Changed(txn.push, "code")]
  <2>1. Effect
    BY <1>6, <1>8, <1>9
  <2>. QED
    BY <1>1, <1>3, <2>1
<1>10. CASE /\ txn.kind = "seed"
            /\ txn' = [txn EXCEPT !.step = "code", !.todo = CodeFiles(head)]
  <2>1. Effect
    BY <1>5, <1>8, <1>10
  <2>. QED
    BY <1>1, <1>3, <2>1
<1>11. CASE /\ txn.kind = "seed"
            /\ \E some \in SUBSET CodeFiles(head) :
                  txn' = [txn EXCEPT !.step = "code", !.todo = some, !.quiet = FALSE]
  <2>1. PICK some \in SUBSET CodeFiles(head) :
           txn' = [txn EXCEPT !.step = "code", !.todo = some, !.quiet = FALSE]
    BY <1>11
  <2>2. some \in SUBSET Paths
    BY <1>5
  <2>3. Effect
    BY <1>7, <2>1, <2>2
  <2>. QED
    BY <1>1, <1>3, <2>3
<1>. QED
  BY <1>4, <1>9, <1>10, <1>11

\* Listing them keeps the types.
LEMMA ListCodeTypes == ASSUME Typed, ListCode PROVE Typed'
<1>1. TypeOK'
  BY ListCodeEffect DEF Typed, TypeOK
<1>2. WellFormed'
  <2>1. txn.kind = "seed" => \A p \in txn'.todo : IsSeeded(p)
    BY ListCodeEffect DEF CodeFiles, IsSeeded
  <2>. QED
    BY <2>1, ListCodeEffect DEF Typed, WellFormed
<1>3. history' = history
  BY ListCodeEffect
<1>. QED
  BY <1>1, <1>2, <1>3 DEF Typed

\* The commits a transaction handles.
Handled == IF txn.kind = "seed" THEN Recent ELSE {n \in {txn.push} : Changed(n, "commits") # {}}

\* The commits handled are pushes there have been.
LEMMA HandleCommitsEffect ==
  ASSUME Typed, HandleCommits
  PROVE  /\ txn.kind # "none" /\ txn.step = "code" /\ txn.todo = {}
         /\ UNCHANGED <<head, history, pending, db, settled>>
         /\ Handled \subseteq DOMAIN history
         /\ CommitsSynced(txn, txn', Handled)
<1>1. /\ txn.step = "code" /\ txn.todo = {}
      /\ UNCHANGED <<head, history, pending, db, settled>>
  BY DEF HandleCommits
<1>2. txn.kind # "none"
  BY <1>1 DEF Typed, WellFormed, NoTxn
<1>3. Handled \in SUBSET DOMAIN history
  <2>1. txn.kind \in {"push", "seed"}
    BY <1>2 DEF Typed, TypeOK, Txn
  <2>. QED
    BY <2>1 DEF Typed, WellFormed, Handled, Recent
<1>4. txn' = [SyncCommits(txn, Handled) EXCEPT !.step = "commit"]
  BY Zenon DEF HandleCommits, Handled
<1>5. TypeOK /\ history \in Seq(PushRecord) /\ txn \in Txn
  BY DEF Typed, TypeOK
<1>. QED
  BY <1>1, <1>2, <1>3, <1>4, <1>5, CommitsEffect, Zenon

\* Handling commits keeps the types.
LEMMA HandleCommitsTypes == ASSUME Typed, HandleCommits PROVE Typed'
<1>1. TypeOK'
  BY HandleCommitsEffect, Zenon DEF Typed, TypeOK, CommitsSynced
<1>2. WellFormed'
  <2>1. \A n \in NewCommits(txn, Handled) : n \in DOMAIN history
    BY HandleCommitsEffect, Zenon DEF NewCommits
  <2>2. \A row \in txn'.db.commits :
           row.sha \in DOMAIN history /\ row.message = Messages[history[row.sha].after]
    <3>1. txn'.db.commits = txn.db.commits \cup
             {CommitRowOf(n, CleanCommits(txn, Handled)) : n \in NewCommits(txn, Handled)}
      BY HandleCommitsEffect, Zenon DEF CommitsSynced
    <3>. QED
      BY <2>1, <3>1 DEF CommitRowOf, Typed, WellFormed
  <2>3. /\ txn.kind # "none" /\ UNCHANGED <<history, pending, db>>
        /\ txn'.kind = txn.kind /\ txn'.push = txn.push /\ txn'.step = "commit"
        /\ txn'.todo = txn.todo /\ txn.todo = {}
    BY HandleCommitsEffect, Zenon DEF CommitsSynced
  <2>. QED
    BY <2>2, <2>3 DEF Typed, WellFormed
<1>3. history' = history
  BY HandleCommitsEffect, Zenon
<1>. QED
  BY <1>1, <1>2, <1>3 DEF Typed

\* No transaction, and nothing in it.
LEMMA NoTxnTypes == NoTxn \in Txn /\ NoTxn.kind = "none" /\ NoTxn.step = "none" /\ NoTxn.todo = {}
                    /\ NoTxn.db.commits = {} /\ NoTxn.db.rows = {}
<1>1. 0 \in 0..MaxPushes /\ EmptyDatabase \in Database
  BY StoreAssumption DEF StoreAssumption, EmptyDatabase, Database
<1>. QED
  BY <1>1 DEF NoTxn, Txn, EmptyDatabase

\* What a transaction leaves behind has the types of what it worked on.
LEMMA CommitTypes == ASSUME Typed, Commit PROVE Typed' /\ txn.kind # "none"
<1>1. /\ db' = txn.db /\ txn' = NoTxn /\ pending' \subseteq pending /\ txn.step = "commit"
      /\ UNCHANGED <<head, history>> /\ settled' \in BOOLEAN
  BY DEF Commit
<1>2. txn.db \in Database
  BY DEF Typed, TypeOK, Txn
<1>3. TypeOK'
  BY <1>1, <1>2, NoTxnTypes DEF Typed, TypeOK
<1>4. WellFormed'
  BY <1>1, NoTxnTypes DEF Typed, WellFormed
<1>5. txn.kind # "none"
  BY <1>1, NoTxnTypes DEF Typed, WellFormed
<1>. QED
  BY <1>1, <1>3, <1>4, <1>5 DEF Typed

\* A rollback leaves no transaction.
LEMMA AbortTypes == ASSUME Typed, Abort PROVE Typed'
<1>1. txn' = NoTxn /\ UNCHANGED <<head, history, pending, db, settled>>
  BY DEF Abort
<1>. QED
  BY <1>1, NoTxnTypes DEF Typed, TypeOK, WellFormed

\* A resolution reaches the committed rows and the open transaction, and adds one.
LEMMA ResolveEffect ==
  ASSUME Typed, NEW f, MarkSecretResolved(f)
  PROVE  /\ UNCHANGED <<head, history, pending, settled>>
         /\ db' \in Database /\ txn' \in Txn
         /\ db'.rows = db.rows /\ db'.commits = db.commits /\ db'.findings = db.findings
         /\ db'.resolved = db.resolved \cup {f}
         /\ txn.kind = "none" => txn' = txn
         /\ txn.kind # "none" => txn'.db.resolved = txn.db.resolved \cup {f}
         /\ txn'.kind = txn.kind /\ txn'.push = txn.push /\ txn'.step = txn.step
         /\ txn'.todo = txn.todo /\ txn'.quiet = txn.quiet /\ txn'.fresh = txn.fresh
         /\ txn'.calls = txn.calls
         /\ txn'.db.rows = txn.db.rows /\ txn'.db.commits = txn.db.commits
         /\ txn'.db.findings = txn.db.findings
<1>1. db \in Database /\ txn \in Txn /\ txn.db \in Database
  BY DEF Typed, TypeOK, Txn
<1>2. f \in Finding
  BY <1>1 DEF MarkSecretResolved, Database
<1>3. /\ db' \in Database
      /\ db'.rows = db.rows /\ db'.commits = db.commits /\ db'.findings = db.findings
      /\ db'.resolved = db.resolved \cup {f}
  <2>1. db' = [db EXCEPT !.resolved = @ \cup {f}]
    BY DEF MarkSecretResolved
  <2>. QED
    BY <1>1, <1>2, <2>1 DEF Database
<1>4. CASE txn.kind = "none"
  <2>1. txn' = txn /\ UNCHANGED <<head, history, pending, settled>>
    BY <1>4 DEF MarkSecretResolved
  <2>. QED
    BY <1>1, <1>3, <1>4, <2>1
<1>5. CASE txn.kind # "none"
  <2>1. txn' = [txn EXCEPT !.db.resolved = @ \cup {f}]
        /\ UNCHANGED <<head, history, pending, settled>>
    BY <1>5 DEF MarkSecretResolved
  <2>2. txn' = [txn EXCEPT !.db = [txn.db EXCEPT !.resolved = @ \cup {f}]]
    BY <1>1, <2>1 DEF Txn
  <2>. DEFINE d == [txn.db EXCEPT !.resolved = @ \cup {f}]
  <2>3. /\ d \in Database
        /\ d.rows = txn.db.rows /\ d.commits = txn.db.commits /\ d.findings = txn.db.findings
        /\ d.resolved = txn.db.resolved \cup {f}
    BY <1>1, <1>2 DEF Database
  <2>. HIDE DEF d
  <2>4. /\ txn' \in Txn /\ txn'.db = d
        /\ txn'.kind = txn.kind /\ txn'.push = txn.push /\ txn'.step = txn.step
        /\ txn'.todo = txn.todo /\ txn'.quiet = txn.quiet /\ txn'.fresh = txn.fresh
        /\ txn'.calls = txn.calls
    BY <1>1, <2>2, <2>3 DEF Txn, d
  <2>. QED
    BY <1>3, <1>5, <2>1, <2>3, <2>4
<1>. QED
  BY <1>4, <1>5

\* It keeps the types.
LEMMA ResolveTypes == ASSUME Typed, NEW f, MarkSecretResolved(f) PROVE Typed'
<1>1. TypeOK'
  BY ResolveEffect DEF Typed, TypeOK
<1>2. WellFormed'
  BY ResolveEffect DEF Typed, WellFormed
<1>3. history' = history
  BY ResolveEffect
<1>. QED
  BY <1>1, <1>2, <1>3 DEF Typed

\* The two ways a transaction begins.
LEMMA WorkerBeginsIs ==
  ASSUME Typed, NEW n \in pending, WorkerBegins(n)
  PROVE  /\ Begin("push", n, Changed(n, "documents")) /\ n \in DOMAIN history
         /\ n \in 0..MaxPushes /\ Changed(n, "documents") \subseteq Paths
<1>1. n \in DOMAIN history /\ n \in 0..MaxPushes
  <2>1. n \in DOMAIN history
    BY DEF Typed, WellFormed
  <2>2. n \in 1..Len(history) /\ Len(history) \in Nat /\ Len(history) <= MaxPushes
        /\ MaxPushes \in Nat
    BY <2>1, HistoryTypes DEF Typed
  <2>. QED
    BY <2>1, <2>2
<1>2. PICK k \in PushKinds \cup {FirstPush} :
         history[n] \in [before: [DOMAIN k -> Content \cup {Absent}], after: {k}]
  BY <1>1 DEF Typed, TypeOK, IsPush
<1>3. Changed(n, "documents") \subseteq Paths
  BY <1>2, StoreAssumption DEF Changed, StoreAssumption
<1>. QED
  BY <1>1, <1>3 DEF WorkerBegins

SeedDocuments == {Readme} \cup {p \in Paths : IsListedDocument(p) /\ head[p] # Absent}

\* The seed pass begins with the documents the listing finds.
LEMMA SeedBeginsIs ==
  ASSUME SeedBegins
  PROVE  /\ Begin("seed", 0, SeedDocuments) /\ 0 \in 0..MaxPushes
         /\ SeedDocuments \subseteq Paths /\ \A p \in SeedDocuments : IsSeeded(p)
<1>1. Begin("seed", 0, SeedDocuments)
  BY Zenon DEF SeedBegins, SeedDocuments
<1>2. 0 \in 0..MaxPushes
  BY StoreAssumption DEF StoreAssumption
<1>. QED
  BY <1>1, <1>2, ReadmeIsOnItsOwn DEF SeedDocuments, IsSeeded

\* Types, and the form of what there is, are invariant.
LEMMA NextTyped == ASSUME Typed, [Next]_vars PROVE Typed'
<1>1. CASE UNCHANGED vars
  BY <1>1 DEF vars, Typed, TypeOK, WellFormed
<1>2. ASSUME NEW k \in PushKinds, Push(k) PROVE Typed'
  BY <1>2, PushTypes
<1>3. ASSUME NEW n \in pending, Lose(n) PROVE Typed'
  <2>1. pending' = pending \ {n} /\ UNCHANGED <<head, history, db, txn, settled>>
    BY <1>3 DEF Lose
  <2>. QED
    BY <2>1 DEF Typed, TypeOK, WellFormed
<1>4. ASSUME NEW n \in pending, WorkerBegins(n) PROVE Typed'
  BY <1>4, WorkerBeginsIs, BeginTypes
<1>5. CASE SeedBegins
  BY <1>5, SeedBeginsIs, BeginTypes
<1>6. CASE ListCode
  BY <1>6, ListCodeTypes
<1>7. CASE HandleCommits
  BY <1>7, HandleCommitsTypes
<1>8. CASE Commit
  BY <1>8, CommitTypes
<1>9. CASE Abort
  BY <1>9, AbortTypes
<1>10. ASSUME NEW p \in Paths, SyncFile(p) PROVE Typed'
  BY <1>10, SyncFileTypes
<1>11. ASSUME NEW f \in db.findings, MarkSecretResolved(f) PROVE Typed'
  BY <1>11, ResolveTypes
<1>. QED
  BY <1>1, <1>2, <1>3, <1>4, <1>5, <1>6, <1>7, <1>8, <1>9, <1>10, <1>11 DEF Next

\* The history only grows.
HistoryGrows == \A n \in DOMAIN history : n \in DOMAIN history' /\ history'[n] = history[n]

\* No step rewrites a push.
LEMMA NextGrows == ASSUME Typed, [Next]_vars PROVE HistoryGrows
<1>1. ASSUME NEW k \in PushKinds, Push(k) PROVE HistoryGrows
  BY <1>1, PushTypes DEF HistoryGrows
<1>2. ASSUME history' = history PROVE HistoryGrows
  BY <1>2 DEF HistoryGrows
<1>3. \/ \E k \in PushKinds : Push(k)
      \/ history' = history
  BY DEF Next, vars, Lose, WorkerBegins, SeedBegins, Begin, ListCode, HandleCommits, Commit,
         Abort, SyncFile, MarkSecretResolved
<1>. QED
  BY <1>1, <1>2, <1>3

-----------------------------------------------------------------------------
(* What is stored was on the branch.                                       *)

\* The chunks of a file that was pushed make rows that a push makes.
LEMMA CleanRowsAreMade ==
  ASSUME HeadWasPushed, NEW p \in Paths, NEW q \in Paths, MayStandFor(q, p),
         NEW r \in CleanRows(p, ChunksOf(p, head[q]))
  PROVE  \E n \in DOMAIN history : Makes(history[n], r)
<1>. DEFINE chunks == ChunksOf(p, head[q])
<1>1. PICK i \in DOMAIN chunks :
         r = [path |-> p, key |-> chunks[i].key, text |-> chunks[i].text]
  BY DEF CleanRows
<1>2. head[q] # Absent
  <2>1. SUFFICES ASSUME head[q] = Absent PROVE FALSE
    OBVIOUS
  <2>2. chunks = <<>>
    BY <2>1 DEF ChunksOf
  <2>. QED
    BY <1>1, <2>2
<1>3. PICK n \in DOMAIN history : q \in DOMAIN history[n].after /\ history[n].after[q] = head[q]
  BY <1>2 DEF HeadWasPushed, WasPushed
<1>. HIDE DEF chunks
<1>4. r.path = p /\ r.key = chunks[i].key /\ r.text = chunks[i].text
  BY <1>1
<1>5. Makes(history[n], r)
  BY <1>1, <1>3, <1>4 DEF Makes, chunks
<1>. QED
  BY <1>5

\* Rows that were made stay made.
LEMMA StaysMade ==
  ASSUME HistoryGrows, NEW r, \E n \in DOMAIN history : Makes(history[n], r)
  PROVE  \E n \in DOMAIN history' : Makes(history'[n], r)
  BY DEF HistoryGrows

Made == HeadWasPushed /\ FromBranch(db) /\ FromBranch(txn.db)

\* The first push made what the branch holds.
LEMMA InitMade == ASSUME Init PROVE Made
<1>1. db.rows = {} /\ txn.db.rows = {}
  BY DEF Init, EmptyDatabase, NoTxn
<1>2. FromBranch(db) /\ FromBranch(txn.db)
  BY <1>1 DEF FromBranch
<1>3. ASSUME NEW p \in Paths, head[p] # Absent PROVE WasPushed(p, head[p])
  <2>1. p \in DOMAIN FirstPush /\ FirstPush[p] = head[p]
    BY <1>3 DEF Init, Written, NoFiles
  <2>2. 1 \in DOMAIN history /\ history[1].after = FirstPush
    BY DEF Init
  <2>. QED
    BY <2>1, <2>2 DEF WasPushed
<1>. QED
  BY <1>2, <1>3 DEF Made, HeadWasPushed

\* Every row, committed or not, stays one that a push makes.
LEMMA NextMade == ASSUME Typed, Made, [Next]_vars PROVE Made'
<1>. HistoryGrows
  BY NextGrows
<1>1. ASSUME NEW k \in PushKinds, Push(k) PROVE HeadWasPushed'
  <2>1. ASSUME NEW p \in Paths, NEW c, head'[p] = c, c # Absent
        PROVE  \E n \in DOMAIN history' : p \in DOMAIN history'[n].after /\ history'[n].after[p] = c
    <3>1. CASE p \in DOMAIN k
      <4>1. head'[p] = k[p]
        BY <1>1, <3>1 DEF Push, Written
      <4>. QED
        BY <1>1, <2>1, <3>1, <4>1, PushTypes
    <3>2. CASE p \notin DOMAIN k
      <4>1. head'[p] = head[p]
        BY <1>1, <3>2 DEF Push, Written
      <4>. QED
        BY <2>1, <4>1 DEF Made, HeadWasPushed, WasPushed, HistoryGrows
    <3>. QED
      BY <3>1, <3>2
  <2>. QED
    BY <2>1 DEF HeadWasPushed, WasPushed
<1>2. ASSUME UNCHANGED <<head, history>> PROVE HeadWasPushed'
  BY <1>2 DEF Made, HeadWasPushed, WasPushed
<1>3. ASSUME NEW p \in Paths, SyncFile(p)
      PROVE  FromBranch(db)' /\ FromBranch(txn.db)' /\ UNCHANGED <<head, history>>
  <2>. DEFINE q == SourceOf(txn.kind, p)
  <2>1. /\ UNCHANGED <<head, history, db>>
        /\ FileSynced(txn, txn', p, ChunksOf(p, head[q]))
    BY <1>3, SyncFileEffect
  <2>2. q \in Paths /\ MayStandFor(q, p)
    BY SourceTypes
  <2>. HIDE DEF q
  <2>3. ASSUME NEW r \in txn'.db.rows PROVE \E n \in DOMAIN history' : Makes(history'[n], r)
    <3>1. r \in txn.db.rows \/ r \in CleanRows(p, ChunksOf(p, head[q]))
      BY <2>1, <2>3 DEF FileSynced
    <3>2. r \in CleanRows(p, ChunksOf(p, head[q])) => \E n \in DOMAIN history : Makes(history[n], r)
      BY <2>2, CleanRowsAreMade DEF Made
    <3>3. r \in txn.db.rows => \E n \in DOMAIN history : Makes(history[n], r)
      BY DEF Made, FromBranch
    <3>. QED
      BY <3>1, <3>2, <3>3, StaysMade
  <2>. QED
    BY <2>1, <2>3 DEF FromBranch, Made
<1>4. ASSUME db'.rows \subseteq db.rows \cup txn.db.rows,
             txn'.db.rows \subseteq db.rows \cup txn.db.rows
      PROVE  FromBranch(db)' /\ FromBranch(txn.db)'
  BY <1>4, StaysMade DEF FromBranch, Made
<1>5. CASE UNCHANGED vars
  BY <1>2, <1>4, <1>5 DEF vars, Made
<1>6. ASSUME NEW k \in PushKinds, Push(k) PROVE Made'
  <2>1. txn'.db = txn.db /\ db' = db
    BY <1>6, PushTypes DEF Push
  <2>. QED
    BY <1>1, <1>4, <1>6, <2>1 DEF Made
<1>7. ASSUME NEW n \in pending, Lose(n) PROVE Made'
  BY <1>2, <1>4, <1>7 DEF Lose, Made
<1>8. ASSUME NEW n \in pending, WorkerBegins(n) PROVE Made'
  <2>1. UNCHANGED <<head, history, db>> /\ (txn'.db = db \/ txn'.db.rows = {})
    BY <1>8, WorkerBeginsIs, BeginEffect DEF IsPurged
  <2>. QED
    BY <1>2, <1>4, <2>1 DEF Made
<1>9. CASE SeedBegins
  <2>1. UNCHANGED <<head, history, db>> /\ (txn'.db = db \/ txn'.db.rows = {})
    BY <1>9, SeedBeginsIs, BeginEffect DEF IsPurged
  <2>. QED
    BY <1>2, <1>4, <2>1 DEF Made
<1>10. CASE ListCode
  BY <1>2, <1>4, <1>10, ListCodeEffect DEF Made
<1>11. CASE HandleCommits
  <2>1. UNCHANGED <<head, history, db>> /\ txn'.db.rows = txn.db.rows
    BY <1>11, HandleCommitsEffect DEF CommitsSynced
  <2>. QED
    BY <1>2, <1>4, <2>1 DEF Made
<1>12. CASE Commit
  BY <1>2, <1>4, <1>12, NoTxnTypes DEF Commit, Made
<1>13. CASE Abort
  BY <1>2, <1>4, <1>13, NoTxnTypes DEF Abort, Made
<1>14. ASSUME NEW p \in Paths, SyncFile(p) PROVE Made'
  BY <1>2, <1>3, <1>14 DEF Made
<1>15. ASSUME NEW f \in db.findings, MarkSecretResolved(f) PROVE Made'
  <2>1. UNCHANGED <<head, history>> /\ db'.rows = db.rows /\ txn'.db.rows = txn.db.rows
    BY <1>15, ResolveEffect
  <2>. QED
    BY <1>2, <1>4, <2>1 DEF Made
<1>. QED
  BY <1>5, <1>6, <1>7, <1>8, <1>9, <1>10, <1>11, <1>12, <1>13, <1>14, <1>15 DEF Next

-----------------------------------------------------------------------------
(* What is stored is clean, and what was found stays found.                *)

\* Where the rows of a step come from.
RowsOrigin ==
    \A r \in db'.rows \cup txn'.db.rows :
        \/ r \in db.rows \cup txn.db.rows
        \/ \E p, q \in Paths : r \in CleanRows(p, ChunksOf(p, head[q]))

\* What Clean says of commits, of those of a history.
CommitIsClean(h, d, row) ==
    /\ row.sha \in DOMAIN h
    /\ row.summarized => RulesInCommit(h[row.sha]) = {}
    /\ {"commit"} \X {row.sha} \X RulesInCommit(h[row.sha]) \subseteq d.findings

CommitsClean(h, d) == \A row \in d.commits : CommitIsClean(h, d, row)

\* A store is clean if its rows and its commits are.
LEMMA CleanIs ==
  ASSUME Typed
  PROVE  StoreIsClean <=> /\ \A r \in db.rows \cup txn.db.rows : ~ Flagged(r.text)
                          /\ CommitsClean(history, db) /\ CommitsClean(history, txn.db)
<1>1. ASSUME NEW row \in db.commits \cup txn.db.commits
      PROVE  /\ row.sha \in DOMAIN history
             /\ RulesIn[row.message] \cup RulesInCommit(history[row.sha])
                   = RulesInCommit(history[row.sha])
  BY DEF Typed, WellFormed, RulesInCommit, CommitText
<1>. QED
  BY <1>1 DEF StoreIsClean, Clean, CommitsClean, CommitIsClean

\* A commit of a larger history, with more findings, is as clean.
LEMMA CommitsStayClean ==
  ASSUME NEW g, NEW h, \A n \in DOMAIN g : n \in DOMAIN h /\ h[n] = g[n],
         NEW d, NEW e, e.commits \subseteq d.commits, d.findings \subseteq e.findings,
         CommitsClean(g, d)
  PROVE  CommitsClean(h, e)
<1>1. SUFFICES ASSUME NEW row \in e.commits PROVE CommitIsClean(h, e, row)
  BY DEF CommitsClean
<1>2. CommitIsClean(g, d, row)
  BY <1>1 DEF CommitsClean
<1>3. row.sha \in DOMAIN g /\ h[row.sha] = g[row.sha] /\ row.sha \in DOMAIN h
  BY <1>2 DEF CommitIsClean
<1>. QED
  BY <1>2, <1>3 DEF CommitIsClean

\* A commit handled is summarised only if nothing is flagged, and reported if it is.
LEMMA HandledCommitsClean ==
  ASSUME Typed, HandleCommits, CommitsClean(history, txn.db)
  PROVE  CommitsClean(history, txn'.db)
<1>. DEFINE new == NewCommits(txn, Handled)
            clean == CleanCommits(txn, Handled)
            Reports(n) == {"commit"} \X {n} \X RulesInCommit(history[n])
<1>1. /\ Handled \subseteq DOMAIN history
      /\ txn'.db.commits = txn.db.commits \cup {CommitRowOf(n, clean) : n \in new}
      /\ txn'.db.findings = txn.db.findings \cup UNION {Reports(n) : n \in new}
  BY HandleCommitsEffect, Zenon DEF CommitsSynced
<1>2. \A n \in new : n \in DOMAIN history
  BY <1>1 DEF NewCommits
<1>3. \A n \in clean : RulesInCommit(history[n]) = {}
  BY DEF CleanCommits
<1>. HIDE DEF new, clean
<1>4. ASSUME NEW n \in new PROVE CommitIsClean(history, txn'.db, CommitRowOf(n, clean))
  <2>1. /\ CommitRowOf(n, clean).sha = n
        /\ CommitRowOf(n, clean).summarized => n \in clean
    BY DEF CommitRowOf
  <2>2. Reports(n) \subseteq txn'.db.findings
    BY <1>1
  <2>. QED
    BY <1>2, <1>3, <2>1, <2>2 DEF CommitIsClean
<1>5. ASSUME NEW row \in txn.db.commits PROVE CommitIsClean(history, txn'.db, row)
  <2>1. CommitIsClean(history, txn.db, row)
    BY DEF CommitsClean
  <2>2. txn.db.findings \subseteq txn'.db.findings
    BY <1>1
  <2>. QED
    BY <2>1, <2>2 DEF CommitIsClean
<1>. QED
  BY <1>1, <1>4, <1>5 DEF CommitsClean

\* Each database of a step is an earlier one, with more findings perhaps, an empty
\* one, or one that commits were just added to.
CommitsOrigin ==
    \A e \in {db', txn'.db} :
        \/ CommitsClean(history, e)
        \/ \E d \in {db, txn.db} : e.commits \subseteq d.commits /\ d.findings \subseteq e.findings

\* New rows are the clean chunks of a file, new commits those of the branch.
LEMMA NextOrigin ==
  ASSUME Typed, CommitsClean(history, txn.db), [Next]_vars PROVE RowsOrigin /\ CommitsOrigin
<1>1. ASSUME db'.rows \subseteq db.rows \cup txn.db.rows,
             txn'.db.rows \subseteq db.rows \cup txn.db.rows
      PROVE  RowsOrigin
  BY <1>1 DEF RowsOrigin
<1>. DEFINE Grown(d, e) == e.commits \subseteq d.commits /\ d.findings \subseteq e.findings
<1>2. ASSUME Grown(db, db') \/ Grown(txn.db, db'),
             Grown(db, txn'.db) \/ Grown(txn.db, txn'.db) \/ txn'.db.commits = {}
      PROVE  CommitsOrigin
  BY <1>2 DEF CommitsOrigin, CommitsClean
<1>3. CASE UNCHANGED vars
  BY <1>1, <1>2, <1>3 DEF vars
<1>4. ASSUME NEW k \in PushKinds, Push(k) PROVE RowsOrigin /\ CommitsOrigin
  <2>1. txn'.db = txn.db /\ db' = db
    BY <1>4, PushTypes DEF Push
  <2>. QED
    BY <1>1, <1>2, <2>1
<1>5. ASSUME NEW n \in pending, Lose(n) PROVE RowsOrigin /\ CommitsOrigin
  BY <1>1, <1>2, <1>5 DEF Lose
<1>6. ASSUME NEW n \in pending, WorkerBegins(n) PROVE RowsOrigin /\ CommitsOrigin
  <2>1. db' = db /\ (txn'.db = db \/ IsPurged(txn'.db))
    BY <1>6, WorkerBeginsIs, BeginEffect
  <2>. QED
    BY <1>1, <1>2, <2>1 DEF IsPurged
<1>7. CASE SeedBegins
  <2>1. db' = db /\ (txn'.db = db \/ IsPurged(txn'.db))
    BY <1>7, SeedBeginsIs, BeginEffect
  <2>. QED
    BY <1>1, <1>2, <2>1 DEF IsPurged
<1>8. CASE ListCode
  BY <1>1, <1>2, <1>8, ListCodeEffect
<1>9. CASE HandleCommits
  <2>1. db' = db /\ txn'.db.rows = txn.db.rows
    BY <1>9, HandleCommitsEffect, Zenon DEF CommitsSynced
  <2>2. CommitsClean(history, txn'.db)
    BY <1>9, HandledCommitsClean
  <2>3. CommitsOrigin
    BY <2>1, <2>2 DEF CommitsOrigin
  <2>. QED
    BY <1>1, <2>1, <2>3
<1>10. CASE Commit
  BY <1>1, <1>2, <1>10, NoTxnTypes DEF Commit
<1>11. CASE Abort
  BY <1>1, <1>2, <1>11, NoTxnTypes DEF Abort
<1>12. ASSUME NEW p \in Paths, SyncFile(p) PROVE RowsOrigin /\ CommitsOrigin
  <2>. DEFINE q == SourceOf(txn.kind, p)
  <2>1. db' = db /\ FileSynced(txn, txn', p, ChunksOf(p, head[q]))
    BY <1>12, SyncFileEffect
  <2>2. q \in Paths
    BY SourceTypes
  <2>. HIDE DEF q
  <2>3. /\ txn'.db.commits = txn.db.commits /\ txn.db.findings \subseteq txn'.db.findings
        /\ \A r \in txn'.db.rows : r \in txn.db.rows \/ r \in CleanRows(p, ChunksOf(p, head[q]))
    BY <2>1 DEF FileSynced
  <2>4. RowsOrigin
    BY <2>1, <2>2, <2>3 DEF RowsOrigin
  <2>. QED
    BY <1>2, <2>1, <2>3, <2>4
<1>13. ASSUME NEW f \in db.findings, MarkSecretResolved(f) PROVE RowsOrigin /\ CommitsOrigin
  <2>1. /\ db'.rows = db.rows /\ txn'.db.rows = txn.db.rows
        /\ db'.commits = db.commits /\ txn'.db.commits = txn.db.commits
        /\ db'.findings = db.findings /\ txn'.db.findings = txn.db.findings
    BY <1>13, ResolveEffect
  <2>. QED
    BY <1>1, <1>2, <2>1
<1>. QED
  BY <1>3, <1>4, <1>5, <1>6, <1>7, <1>8, <1>9, <1>10, <1>11, <1>12, <1>13 DEF Next

\* A clean store stays clean: a chunk is scanned before it becomes a row, message
\* and diff before a commit is summarised, and a commit of the past does not change.
LEMMA NextClean == ASSUME Typed, StoreIsClean, [Next]_vars PROVE StoreIsClean'
<1>1. /\ CommitsClean(history, db) /\ CommitsClean(history, txn.db)
      /\ \A r \in db.rows \cup txn.db.rows : ~ Flagged(r.text)
  BY CleanIs
<1>2. RowsOrigin /\ CommitsOrigin /\ HistoryGrows /\ Typed'
  BY <1>1, NextOrigin, NextGrows, NextTyped
<1>3. ASSUME NEW r \in db'.rows \cup txn'.db.rows PROVE ~ Flagged(r.text)
  <2>1. ASSUME NEW p \in Paths, NEW q \in Paths, r \in CleanRows(p, ChunksOf(p, head[q]))
        PROVE  ~ Flagged(r.text)
    <3>1. IsClean(r.text)
      BY <2>1 DEF CleanRows
    <3>. QED
      BY <3>1, CleanIsUnflagged
  <2>. QED
    BY <1>1, <1>2, <2>1 DEF RowsOrigin
<1>4. ASSUME NEW e \in {db', txn'.db} PROVE CommitsClean(history', e)
  <2>1. \A n \in DOMAIN history : n \in DOMAIN history' /\ history'[n] = history[n]
    BY <1>2 DEF HistoryGrows
  <2>2. PICK d : /\ CommitsClean(history, d)
                 /\ e.commits \subseteq d.commits /\ d.findings \subseteq e.findings
    BY <1>1, <1>2, <1>4 DEF CommitsOrigin
  <2>. QED
    BY <2>1, <2>2, CommitsStayClean
<1>5. CommitsClean(history', db') /\ CommitsClean(history', txn'.db)
  BY <1>4
<1>6. ASSUME NEW row \in db'.commits \cup txn'.db.commits
      PROVE  RulesIn[row.message] \cup RulesInCommit(history'[row.sha])
                = RulesInCommit(history'[row.sha])
  <2>1. row.message = Messages[history'[row.sha].after]
    BY <1>2 DEF Typed, WellFormed
  <2>. QED
    BY <2>1 DEF RulesInCommit, CommitText
<1>. QED
  BY <1>3, <1>5, <1>6 DEF StoreIsClean, Clean, CommitsClean, CommitIsClean

\* The store starts empty.
LEMMA InitClean == ASSUME Init PROVE StoreIsClean
<1>1. /\ db.rows = {} /\ txn.db.rows = {} /\ db.commits = {} /\ txn.db.commits = {}
  BY DEF Init, EmptyDatabase, NoTxn
<1>. QED
  BY <1>1 DEF StoreIsClean, Clean

\* Findings and resolutions grow: a transaction starts from all of them, adds to
\* them, and those resolved meanwhile are resolved in it too.
FindingsGrow == db.findings \subseteq db'.findings /\ db.resolved \subseteq db'.resolved

\* No step forgets a finding or a resolution, nor lets a transaction miss one.
LEMMA NextKeeps == ASSUME Typed, SeesFindings, [Next]_vars PROVE FindingsGrow /\ SeesFindings'
<1>1. CASE UNCHANGED vars
  BY <1>1 DEF vars, FindingsGrow, SeesFindings
<1>2. ASSUME NEW k \in PushKinds, Push(k) PROVE FindingsGrow /\ SeesFindings'
  <2>1. txn'.db = txn.db /\ db' = db /\ txn'.kind = txn.kind
    BY <1>2, PushTypes DEF Push
  <2>. QED
    BY <2>1 DEF FindingsGrow, SeesFindings
<1>3. ASSUME NEW n \in pending, Lose(n) PROVE FindingsGrow /\ SeesFindings'
  BY <1>3 DEF Lose, FindingsGrow, SeesFindings
<1>4. ASSUME NEW n \in pending, WorkerBegins(n) PROVE FindingsGrow /\ SeesFindings'
  <2>1. db' = db /\ txn'.db.findings = db.findings /\ txn'.db.resolved = db.resolved
    BY <1>4, WorkerBeginsIs, BeginEffect
  <2>. QED
    BY <2>1 DEF FindingsGrow, SeesFindings
<1>5. CASE SeedBegins
  <2>1. db' = db /\ txn'.db.findings = db.findings /\ txn'.db.resolved = db.resolved
    BY <1>5, SeedBeginsIs, BeginEffect
  <2>. QED
    BY <2>1 DEF FindingsGrow, SeesFindings
<1>6. CASE ListCode
  BY <1>6, ListCodeEffect DEF FindingsGrow, SeesFindings
<1>7. CASE HandleCommits
  <2>1. /\ db' = db /\ txn'.kind = txn.kind /\ txn'.db.resolved = txn.db.resolved
        /\ txn.db.findings \subseteq txn'.db.findings
    BY <1>7, HandleCommitsEffect, Zenon DEF CommitsSynced
  <2>. QED
    BY <2>1 DEF FindingsGrow, SeesFindings
<1>8. CASE Commit
  <2>1. db' = txn.db /\ txn' = NoTxn /\ txn.kind # "none"
    BY <1>8, CommitTypes DEF Commit
  <2>. QED
    BY <2>1, NoTxnTypes DEF FindingsGrow, SeesFindings
<1>9. CASE Abort
  BY <1>9, NoTxnTypes DEF Abort, FindingsGrow, SeesFindings
<1>10. ASSUME NEW p \in Paths, SyncFile(p) PROVE FindingsGrow /\ SeesFindings'
  <2>1. /\ db' = db /\ txn'.kind = txn.kind /\ txn'.db.resolved = txn.db.resolved
        /\ txn.db.findings \subseteq txn'.db.findings
    BY <1>10, SyncFileEffect DEF FileSynced
  <2>. QED
    BY <2>1 DEF FindingsGrow, SeesFindings
<1>11. ASSUME NEW f \in db.findings, MarkSecretResolved(f) PROVE FindingsGrow /\ SeesFindings'
  BY <1>11, ResolveEffect DEF FindingsGrow, SeesFindings
<1>. QED
  BY <1>1, <1>2, <1>3, <1>4, <1>5, <1>6, <1>7, <1>8, <1>9, <1>10, <1>11 DEF Next

\* While a transaction that saw a settled store is quiet, the store is settled.
LEMMA NextSeen == ASSUME Typed, SettledIsSeen, [Next]_vars PROVE SettledIsSeen'
<1>1. CASE UNCHANGED vars
  BY <1>1 DEF vars, SettledIsSeen
<1>2. ASSUME NEW k \in PushKinds, Push(k) PROVE SettledIsSeen'
  <2>1. ~ txn'.quiet /\ settled' = FALSE
    BY <1>2, PushTypes DEF Push
  <2>. QED
    BY <2>1 DEF SettledIsSeen
<1>3. ASSUME NEW n \in pending, Lose(n) PROVE SettledIsSeen'
  BY <1>3 DEF Lose, SettledIsSeen
<1>4. ASSUME NEW n \in pending, WorkerBegins(n) PROVE SettledIsSeen'
  <2>1. settled' = settled /\ txn'.quiet /\ txn'.fresh = settled
    BY <1>4, WorkerBeginsIs, BeginEffect
  <2>. QED
    BY <2>1 DEF SettledIsSeen
<1>5. CASE SeedBegins
  <2>1. settled' = settled /\ txn'.quiet /\ txn'.fresh = settled
    BY <1>5, SeedBeginsIs, BeginEffect
  <2>. QED
    BY <2>1 DEF SettledIsSeen
<1>6. ASSUME settled' = settled, txn'.kind = txn.kind,
             txn'.quiet => txn.quiet, txn'.fresh = txn.fresh
      PROVE  SettledIsSeen'
  BY <1>6 DEF SettledIsSeen
<1>7. CASE ListCode
  BY <1>6, <1>7, ListCodeEffect
<1>8. CASE HandleCommits
  BY <1>6, <1>8, HandleCommitsEffect, Zenon DEF CommitsSynced
<1>9. CASE Commit
  BY <1>9, NoTxnTypes DEF Commit, SettledIsSeen
<1>10. CASE Abort
  BY <1>10, NoTxnTypes DEF Abort, SettledIsSeen
<1>11. ASSUME NEW p \in Paths, SyncFile(p) PROVE SettledIsSeen'
  BY <1>6, <1>11, SyncFileEffect, Zenon DEF FileSynced
<1>12. ASSUME NEW f \in db.findings, MarkSecretResolved(f) PROVE SettledIsSeen'
  BY <1>6, <1>12, ResolveEffect
<1>. QED
  BY <1>1, <1>2, <1>3, <1>4, <1>5, <1>7, <1>8, <1>9, <1>10, <1>11, <1>12 DEF Next

-----------------------------------------------------------------------------
(* Accounting for the chunks of a file.                                    *)

\* The chunks of a file on the branch have distinct keys.
LEMMA HeadKeysDistinct ==
  ASSUME Typed, HeadWasPushed, NEW p \in Paths, NEW q \in Paths
  PROVE  \A m, n \in DOMAIN ChunksOf(p, head[q]) :
            ChunksOf(p, head[q])[m].key = ChunksOf(p, head[q])[n].key => m = n
<1>1. CASE head[q] = Absent
  BY <1>1 DEF ChunksOf
<1>2. CASE head[q] # Absent
  <2>1. PICK n \in DOMAIN history : q \in DOMAIN history[n].after /\ history[n].after[q] = head[q]
    BY <1>2 DEF HeadWasPushed, WasPushed
  <2>2. PICK k \in PushKinds \cup {FirstPush} :
           history[n] \in [before: [DOMAIN k -> Content \cup {Absent}], after: {k}]
    BY DEF Typed, TypeOK, IsPush
  <2>3. q \in DOMAIN k /\ k[q] = head[q]
    BY <2>1, <2>2
  <2>4. HasDistinctKeys(head[q])
    BY <1>2, <2>2, <2>3, StoreAssumption DEF StoreAssumption
  <2>5. p \in Path /\ Absent \notin Content /\ head[q] \in Content \cup {Absent}
    BY HeadTypes DEF Typed
  <2>. QED
    BY <1>2, <2>4, <2>5, ChunksOfTypes
<1>. QED
  BY <1>1, <1>2

\* A path without a file has nothing to account for.
LEMMA NothingToAccount ==
  ASSUME NEW h, NEW d, NEW p, p # Readme, h[p] = Absent PROVE FileAccounted(h, d, p)
  BY DEF FileAccounted, Sourced, Source, ChunksOf

\* A file just synchronised is accounted for: what stood under the key of a clean
\* chunk has given way to it, and no other of its chunks has that key.
LEMMA SyncAccounts ==
  ASSUME NEW t, NEW u, NEW p, NEW chunks, FileSynced(t, u, p, chunks),
         \A m, n \in DOMAIN chunks : chunks[m].key = chunks[n].key => m = n,
         NEW i \in DOMAIN chunks
  PROVE  Accounted(u.db, p, chunks[i])
<1>. DEFINE row == [path |-> p, key |-> chunks[i].key, text |-> chunks[i].text]
            new == CleanRows(p, chunks)
<1>1. /\ u.db.rows = {r \in t.db.rows : ~ \E n \in new : SameKey(r, n)} \cup new
      /\ u.db.findings = t.db.findings \cup ({"file"} \X {p} \X RulesFound(chunks))
  BY DEF FileSynced
<1>2. CASE Flagged(chunks[i].text)
  <2>1. \A rule \in ScanForSecrets(chunks[i].text) : rule \in RulesFound(chunks)
    BY DEF RulesFound
  <2>. QED
    BY <1>1, <1>2, <2>1 DEF Accounted
<1>3. CASE ~ Flagged(chunks[i].text)
  <2>1. row \in new
    BY <1>3, CleanIsUnflagged DEF CleanRows
  <2>2. ASSUME NEW r \in new, r.key = chunks[i].key PROVE r = row
    <3>1. PICK j \in DOMAIN chunks :
             r = [path |-> p, key |-> chunks[j].key, text |-> chunks[j].text]
      BY <2>2 DEF CleanRows
    <3>2. j = i
      BY <2>2, <3>1
    <3>. QED
      BY <3>1, <3>2
  <2>3. row.path = p /\ row.key = chunks[i].key
    OBVIOUS
  <2>. HIDE DEF row, new
  <2>4. {r \in u.db.rows : r.path = p /\ r.key = chunks[i].key} = {row}
    BY <1>1, <2>1, <2>2, <2>3 DEF SameKey
  <2>. QED
    BY <1>3, <2>4 DEF Accounted, row
<1>. QED
  BY <1>2, <1>3

\* The files of other paths stay accounted for.
LEMMA OthersStay ==
  ASSUME NEW t, NEW u, NEW p, NEW chunks, FileSynced(t, u, p, chunks),
         NEW q, q # p, NEW chunk, Accounted(t.db, q, chunk)
  PROVE  Accounted(u.db, q, chunk)
<1>. DEFINE new == CleanRows(p, chunks)
<1>1. \A r \in new : r.path = p
  BY DEF CleanRows
<1>. HIDE DEF new
<1>2. /\ u.db.rows = {r \in t.db.rows : ~ \E n \in new : SameKey(r, n)} \cup new
      /\ t.db.findings \subseteq u.db.findings
  BY DEF FileSynced, new
<1>3. {r \in u.db.rows : r.path = q /\ r.key = chunk.key}
         = {r \in t.db.rows : r.path = q /\ r.key = chunk.key}
  BY <1>1, <1>2 DEF SameKey
<1>. QED
  BY <1>2, <1>3 DEF Accounted

\* Nor do findings, or anything that leaves the rows alone, undo it.
LEMMA StaysAccounted ==
  ASSUME NEW h, NEW p, NEW d, NEW e, e.rows = d.rows, d.findings \subseteq e.findings,
         FileAccounted(h, d, p)
  PROVE  FileAccounted(h, e, p)
  BY DEF FileAccounted, Accounted

\* To synchronise a file that is accounted for calls no model.
LEMMA SyncIsFree ==
  ASSUME NEW t \in Txn, NEW u, NEW p, NEW chunks, FileSynced(t, u, p, chunks),
         \A i \in DOMAIN chunks : Accounted(t.db, p, chunks[i])
  PROVE  u.calls = t.calls
<1>1. ASSUME NEW r \in CleanRows(p, chunks) PROVE r \in t.db.rows
  <2>1. PICK i \in DOMAIN chunks :
           /\ r = [path |-> p, key |-> chunks[i].key, text |-> chunks[i].text]
           /\ IsClean(chunks[i].text)
    BY DEF CleanRows
  <2>2. r \in {s \in t.db.rows : s.path = p /\ s.key = chunks[i].key}
    BY <2>1, CleanIsUnflagged DEF Accounted
  <2>. QED
    BY <2>2
<1>2. CleanRows(p, chunks) \ t.db.rows = {}
  BY <1>1
<1>3. Cardinality({}) = 0 /\ t.calls \in Nat
  BY FS_EmptySet DEF Txn
<1>4. u.calls = t.calls + Cardinality(CleanRows(p, chunks) \ t.db.rows)
  BY DEF FileSynced
<1>. QED
  BY <1>2, <1>3, <1>4

\* To synchronise a file that is not there changes nothing and costs nothing.
LEMMA EmptySync ==
  ASSUME NEW t \in Txn, NEW u, NEW p, FileSynced(t, u, p, <<>>)
  PROVE  u.db.rows = t.db.rows /\ u.db.findings = t.db.findings /\ u.calls = t.calls
<1>1. CleanRows(p, <<>>) = {} /\ RulesFound(<<>>) = {}
  BY DEF CleanRows, RulesFound
<1>2. /\ u.db.rows = {r \in t.db.rows : ~ \E n \in {} : SameKey(r, n)} \cup {}
      /\ u.db.findings = t.db.findings \cup ({"file"} \X {p} \X {})
      /\ u.calls = t.calls + Cardinality({} \ t.db.rows)
  BY <1>1 DEF FileSynced
<1>3. {} \ t.db.rows = {} /\ Cardinality({}) = 0 /\ t.calls \in Nat
  BY FS_EmptySet DEF Txn
<1>4. {"file"} \X {p} \X {} = {}
  OBVIOUS
<1>. QED
  BY <1>2, <1>3, <1>4

\* What synchronising file p means for the accounts.
LEMMA SyncFileAccounts ==
  ASSUME Typed, HeadWasPushed, NEW p \in Paths, SyncFile(p)
  PROVE  /\ txn.kind = "seed" => FileAccounted(head, txn'.db, p)
         /\ \A q \in Paths : q # p /\ FileAccounted(head, txn.db, q)
               => FileAccounted(head, txn'.db, q)
         /\ ~Contested(head, p) /\ FileAccounted(head, txn.db, p)
               => FileAccounted(head, txn'.db, p) /\ txn'.calls = txn.calls
<1>. DEFINE q == SourceOf(txn.kind, p)
<1>1. FileSynced(txn, txn', p, ChunksOf(p, head[q])) /\ txn \in Txn
      /\ txn.kind \in {"push", "seed"}
  BY SyncFileEffect DEF Typed, TypeOK, Txn
<1>2. q \in Paths
  BY SourceTypes
<1>3. \A m, n \in DOMAIN ChunksOf(p, head[q]) :
         ChunksOf(p, head[q])[m].key = ChunksOf(p, head[q])[n].key => m = n
  <2>. HIDE DEF q
  <2>. QED
    BY <1>2, HeadKeysDistinct
<1>4. ASSUME ChunksOf(p, head[q]) = Sourced(head, p)
      PROVE  /\ FileAccounted(head, txn'.db, p)
             /\ FileAccounted(head, txn.db, p) => txn'.calls = txn.calls
  <2>. HIDE DEF q
  <2>1. FileAccounted(head, txn'.db, p)
    BY <1>1, <1>3, <1>4, SyncAccounts DEF FileAccounted
  <2>2. FileAccounted(head, txn.db, p) => txn'.calls = txn.calls
    BY <1>1, <1>4, SyncIsFree DEF FileAccounted
  <2>. QED
    BY <2>1, <2>2
<1>5. txn.kind = "seed" => ChunksOf(p, head[q]) = Sourced(head, p)
  BY SourceIs DEF Sourced
<1>6. ASSUME txn.kind = "push", ~Contested(head, p)
      PROVE  ChunksOf(p, head[q]) \in {Sourced(head, p), <<>>}
  <2>1. q = p
    BY <1>6, SourceIs
  <2>2. CASE Source(head, p) = p
    BY <2>1, <2>2 DEF Sourced
  <2>3. CASE Source(head, p) # p
    <3>1. head[p] = Absent
      BY <1>6, <2>3 DEF Source, Contested
    <3>. QED
      BY <2>1, <3>1 DEF ChunksOf
  <2>. QED
    BY <2>2, <2>3
<1>7. ASSUME ChunksOf(p, head[q]) = <<>>, FileAccounted(head, txn.db, p)
      PROVE  FileAccounted(head, txn'.db, p) /\ txn'.calls = txn.calls
  <2>1. /\ txn'.db.rows = txn.db.rows /\ txn'.db.findings = txn.db.findings
        /\ txn'.calls = txn.calls
    BY <1>1, <1>7, EmptySync
  <2>. QED
    BY <1>7, <2>1, StaysAccounted
<1>8. \A r \in Paths : r # p /\ FileAccounted(head, txn.db, r) => FileAccounted(head, txn'.db, r)
  <2>. HIDE DEF q
  <2>. QED
    BY <1>1, OthersStay DEF FileAccounted
<1>. HIDE DEF q
<1>. QED
  BY <1>1, <1>4, <1>5, <1>6, <1>7, <1>8

\* What handling the recent commits means for them.
LEMMA HandleCommitsAccounts ==
  ASSUME Typed, HandleCommits
  PROVE  /\ txn.kind = "seed" => CommitsStored(history, txn'.db)
         /\ CommitsStored(history, txn.db) => CommitsStored(history, txn'.db)
         /\ CommitsStored(history, txn.db) /\ txn.kind = "seed" => txn'.calls = txn.calls
<1>1. CommitsSynced(txn, txn', Handled) /\ txn \in Txn
  BY HandleCommitsEffect DEF Typed, TypeOK
<1>2. /\ txn'.db.commits = txn.db.commits \cup
            {CommitRowOf(n, CleanCommits(txn, Handled)) : n \in NewCommits(txn, Handled)}
      /\ txn'.calls = txn.calls + 2 * Cardinality(CleanCommits(txn, Handled))
  BY <1>1 DEF CommitsSynced
<1>3. ASSUME NEW n \in NewCommits(txn, Handled) PROVE \E row \in txn'.db.commits : row.sha = n
  <2>. DEFINE row == CommitRowOf(n, CleanCommits(txn, Handled))
  <2>1. row \in txn'.db.commits
    BY <1>2
  <2>2. row.sha = n
    BY DEF CommitRowOf
  <2>. QED
    BY <2>1, <2>2
<1>4. ASSUME txn.kind = "seed", NEW n \in DOMAIN history,
             Len(history) - n < MaxCommits, ~ IsNoiseCommit(history[n])
      PROVE  n \in NewCommits(txn, Handled) \/ \E row \in txn.db.commits : row.sha = n
  BY <1>4 DEF NewCommits, Handled, Recent
<1>5. txn.kind = "seed" => CommitsStored(history, txn'.db)
  BY <1>2, <1>3, <1>4 DEF CommitsStored
<1>6. CommitsStored(history, txn.db) => CommitsStored(history, txn'.db)
  BY <1>2 DEF CommitsStored
<1>7. ASSUME CommitsStored(history, txn.db), txn.kind = "seed" PROVE txn'.calls = txn.calls
  <2>1. CleanCommits(txn, Handled) = {}
    BY <1>7 DEF CleanCommits, NewCommits, Handled, Recent, CommitsStored
  <2>2. Cardinality({}) = 0 /\ txn.calls \in Nat
    BY <1>1, FS_EmptySet DEF Txn
  <2>. QED
    BY <1>2, <2>1, <2>2
<1>. QED
  BY <1>5, <1>6, <1>7

-----------------------------------------------------------------------------
(* What a pass has stored stays stored, and a pass over it is free.        *)

Progress == SettledIsStored /\ QuietProgress /\ IsFree

\* A commit changed by a file that is read and no lockfile is no noise.
LEMMA SubstanceIsNoNoise ==
  ASSUME NEW n \in DOMAIN history, IsSubstantial(n) PROVE ~ IsNoiseCommit(history[n])
<1>. DEFINE c == history[n]
<1>1. PICK p \in DOMAIN c.after :
         /\ p.name \notin {"secret", "lockfile"}
         /\ LinesOf(c.before[p]) # LinesOf(c.after[p])
  BY DEF IsSubstantial
<1>2. p \in Scannable(c) /\ p.name # "lockfile" /\ ~ IsWhitespaceOnly(c, p)
  BY <1>1 DEF Scannable, IsExcludedPath, IsWhitespaceOnly
<1>3. PatchLines(c, p) # {}
  BY <1>1 DEF PatchLines
<1>. HIDE DEF c
<1>4. ~ IsNoiseCommit(c)
  BY <1>2, <1>3 DEF IsNoiseCommit
<1>. QED
  BY <1>4 DEF c

\* Nothing is settled before the first pass.
LEMMA InitProgress == ASSUME Init PROVE Progress
<1>1. settled = FALSE /\ txn.kind = "none"
  BY NoTxnTypes DEF Init
<1>. QED
  BY <1>1 DEF Progress, SettledIsStored, QuietProgress, IsFree

\* Steps that leave the branch, the rows and the commits alone.
LEMMA SameProgress ==
  ASSUME Progress, UNCHANGED <<head, history, settled>>,
         db'.rows = db.rows, db'.commits = db.commits, db'.findings = db.findings,
         txn'.kind = txn.kind, txn'.step = txn.step, txn'.todo = txn.todo,
         txn'.quiet = txn.quiet, txn'.fresh = txn.fresh, txn'.calls = txn.calls,
         txn'.db.rows = txn.db.rows, txn'.db.commits = txn.db.commits,
         txn'.db.findings = txn.db.findings
  PROVE  Progress'
<1>1. ASSUME NEW d, NEW e, e.rows = d.rows, e.commits = d.commits, e.findings = d.findings
      PROVE  /\ IsPurged(d) => IsPurged(e)
             /\ \A p : FileAccounted(head, d, p) => FileAccounted(head, e, p)
             /\ CommitsStored(history, d) => CommitsStored(history, e)
             /\ AllAccounted(head, history, d) => AllAccounted(head, history, e)
  <2>1. \A p : FileAccounted(head, d, p) => FileAccounted(head, e, p)
    BY <1>1, StaysAccounted
  <2>2. CommitsStored(history, d) => CommitsStored(history, e)
    BY <1>1 DEF CommitsStored
  <2>3. IsPurged(d) => IsPurged(e)
    BY <1>1 DEF IsPurged
  <2>. QED
    BY <2>1, <2>2, <2>3 DEF AllAccounted
<1>2. /\ IsPurged(db) => IsPurged(db')
      /\ AllAccounted(head, history, db) => AllAccounted(head, history, db')
  BY <1>1
<1>3. /\ IsPurged(txn.db) => IsPurged(txn'.db)
      /\ \A p : FileAccounted(head, txn.db, p) => FileAccounted(head, txn'.db, p)
      /\ CommitsStored(history, txn.db) => CommitsStored(history, txn'.db)
      /\ AllAccounted(head, history, txn.db) => AllAccounted(head, history, txn'.db)
  BY <1>1
<1>4. SettledIsStored'
  BY <1>2, <1>3 DEF Progress, SettledIsStored, Excluded
<1>5. QuietProgress'
  BY <1>3 DEF Progress, QuietProgress, Excluded
<1>6. IsFree'
  BY DEF Progress, IsFree
<1>. QED
  BY <1>4, <1>5, <1>6 DEF Progress

\* A transaction begins with all files of the pass still to come, or, under the
\* marker, with an empty store and nothing to come.
LEMMA BeginProgress ==
  ASSUME Typed, Progress, NEW kind, NEW n, NEW documents, Begin(kind, n, documents),
         kind \in {"push", "seed"}, n \in 0..MaxPushes, documents \subseteq Paths,
         kind = "seed" => documents = SeedDocuments
  PROVE  Progress'
<1>1. /\ UNCHANGED <<head, history, db, settled>>
      /\ txn'.kind = kind /\ txn'.calls = 0
      /\ txn'.step = IF Excluded THEN "commit" ELSE "documents"
      /\ txn'.todo = IF Excluded THEN {} ELSE documents
      /\ Excluded => IsPurged(txn'.db)
      /\ ~Excluded => txn'.db = db
  BY BeginEffect
<1>2. Excluded' = Excluded
  BY <1>1 DEF Excluded
<1>3. SettledIsStored'
  BY <1>1, <1>2 DEF Progress, SettledIsStored
<1>4. ASSUME ~Excluded, kind = "seed", NEW p \in Paths, IsDocument(p)
      PROVE  p \in txn'.todo \/ FileAccounted(head, txn'.db, p)
  BY <1>1, <1>4, NothingToAccount DEF SeedDocuments, IsDocument
<1>5. QuietProgress'
  BY <1>1, <1>2, <1>4 DEF QuietProgress
<1>6. IsFree'
  BY <1>1 DEF IsFree
<1>. QED
  BY <1>3, <1>5, <1>6 DEF Progress

\* When the documents are done all of them are accounted for; code files come next.
LEMMA ListCodeProgress == ASSUME Typed, Progress, ListCode PROVE Progress'
<1>1. /\ txn.kind # "none" /\ txn.step = "documents" /\ txn.todo = {}
      /\ UNCHANGED <<head, history, db, settled>>
      /\ txn'.kind = txn.kind /\ txn'.step = "code"
      /\ txn'.quiet => txn.quiet
      /\ txn'.fresh = txn.fresh
      /\ txn'.db = txn.db /\ txn'.calls = txn.calls
      /\ txn.kind = "seed" /\ txn'.quiet => txn'.todo = CodeFiles(head)
  BY ListCodeEffect
<1>2. Excluded' = Excluded
  BY <1>1 DEF Excluded
<1>3. SettledIsStored'
  BY <1>1, <1>2 DEF Progress, SettledIsStored
<1>4. txn.quiet => ~Excluded
  BY <1>1 DEF Progress, QuietProgress
<1>5. ASSUME txn.kind = "seed", txn'.quiet, NEW p \in Paths, IsCandidateCodeFile(p)
      PROVE  p \in txn'.todo \/ FileAccounted(head, txn'.db, p)
  BY <1>1, <1>5, ReadmeIsOnItsOwn, NothingToAccount DEF CodeFiles
<1>6. ASSUME txn.kind = "seed", txn.quiet, NEW p \in Paths, IsDocument(p)
      PROVE  FileAccounted(head, txn'.db, p)
  BY <1>1, <1>4, <1>6 DEF Progress, QuietProgress
<1>7. QuietProgress'
  BY <1>1, <1>2, <1>4, <1>5, <1>6 DEF QuietProgress
<1>8. IsFree'
  BY <1>1 DEF Progress, IsFree
<1>. QED
  BY <1>3, <1>7, <1>8 DEF Progress

\* A transaction that relies on a settled store of a repository that is read.
LEMMA SettledIsAccounted ==
  ASSUME Progress, SettledIsSeen, txn.kind # "none", txn.fresh, txn.quiet, ~Excluded
  PROVE  settled /\ AllAccounted(head, history, txn.db)
  BY DEF Progress, SettledIsSeen, SettledIsStored

\* When the code files are done all files are; then the commits of the window are.
LEMMA HandleCommitsProgress ==
  ASSUME Typed, Progress, SettledIsSeen, HandleCommits PROVE Progress'
<1>1. /\ txn.kind # "none" /\ txn.step = "code" /\ txn.todo = {}
      /\ UNCHANGED <<head, history, db, settled>>
      /\ CommitsSynced(txn, txn', Handled)
  BY HandleCommitsEffect
<1>2. /\ txn'.kind = txn.kind /\ txn'.step = "commit"
      /\ txn'.quiet = txn.quiet /\ txn'.fresh = txn.fresh
      /\ txn'.db.rows = txn.db.rows /\ txn.db.findings \subseteq txn'.db.findings
  BY <1>1, Zenon DEF CommitsSynced
<1>3. Excluded' = Excluded
  BY <1>1 DEF Excluded
<1>4. txn.quiet => ~Excluded
  BY <1>1 DEF Progress, QuietProgress
<1>5. \A p \in Paths : FileAccounted(head, txn.db, p) => FileAccounted(head, txn'.db, p)
  BY <1>2, StaysAccounted
<1>6. AllAccounted(head, history, txn.db) => AllAccounted(head, history, txn'.db)
  BY <1>5, HandleCommitsAccounts DEF AllAccounted
<1>7. SettledIsStored'
  BY <1>1, <1>2, <1>3, <1>6 DEF Progress, SettledIsStored
<1>8. ASSUME txn.kind = "seed", txn.quiet, NEW p \in Paths
      PROVE  /\ IsDocument(p) => FileAccounted(head, txn'.db, p)
             /\ IsCandidateCodeFile(p) => FileAccounted(head, txn'.db, p)
  BY <1>1, <1>4, <1>5, <1>8 DEF Progress, QuietProgress
<1>9. txn.kind = "seed" => CommitsStored(history, txn'.db)
  BY HandleCommitsAccounts
<1>10. QuietProgress'
  BY <1>1, <1>2, <1>3, <1>4, <1>8, <1>9 DEF QuietProgress
<1>11. IsFree'
  <2>1. ASSUME txn.kind = "seed", txn.fresh, txn.quiet, ~Contested(head, Readme)
        PROVE  txn'.calls = 0
    <3>1. AllAccounted(head, history, txn.db)
      BY <1>1, <1>4, <2>1, SettledIsAccounted
    <3>2. txn'.calls = txn.calls
      BY <2>1, <3>1, HandleCommitsAccounts DEF AllAccounted
    <3>. QED
      BY <2>1, <3>2 DEF Progress, IsFree
  <2>. QED
    BY <1>1, <1>2, <2>1 DEF IsFree
<1>. QED
  BY <1>7, <1>10, <1>11 DEF Progress

\* A file synchronised in a quiet transaction is accounted for, at no price if it was.
LEMMA SyncFileProgress ==
  ASSUME Typed, HeadWasPushed, Progress, SettledIsSeen, NEW p \in Paths, SyncFile(p)
  PROVE  Progress'
<1>1. /\ p \in txn.todo /\ txn.kind # "none"
      /\ UNCHANGED <<head, history, db, settled>>
      /\ FileSynced(txn, txn', p, ChunksOf(p, head[SourceOf(txn.kind, p)]))
  BY SyncFileEffect
<1>2. /\ txn'.kind = txn.kind /\ txn'.step = txn.step /\ txn'.todo = txn.todo \ {p}
      /\ txn'.quiet = txn.quiet /\ txn'.fresh = txn.fresh
      /\ txn'.db.commits = txn.db.commits
  BY <1>1, Zenon DEF FileSynced
<1>3. Excluded' = Excluded
  BY <1>1 DEF Excluded
<1>4. txn.step # "commit"
  BY <1>1 DEF Typed, WellFormed
<1>5. txn.quiet => ~Excluded
  BY <1>1, <1>4 DEF Progress, QuietProgress
<1>6. /\ txn.kind = "seed" => FileAccounted(head, txn'.db, p)
      /\ \A q \in Paths : q # p /\ FileAccounted(head, txn.db, q) => FileAccounted(head, txn'.db, q)
      /\ ~Contested(head, p) /\ FileAccounted(head, txn.db, p)
            => FileAccounted(head, txn'.db, p) /\ txn'.calls = txn.calls
  BY SyncFileAccounts
<1>7. CommitsStored(history, txn.db) => CommitsStored(history, txn'.db)
  BY <1>2 DEF CommitsStored
<1>8. SettledIsStored'
  <2>1. AllAccounted(head, history, txn.db) => AllAccounted(head, history, txn'.db)
    BY <1>6, <1>7 DEF AllAccounted
  <2>. QED
    BY <1>1, <1>2, <1>3, <1>4, <2>1 DEF Progress, SettledIsStored
<1>9. QuietProgress'
  <2>1. ASSUME txn.kind = "seed", txn.quiet, NEW q \in Paths
        PROVE  /\ IsDocument(q) =>
                     (txn'.step = "documents" /\ q \in txn'.todo) \/ FileAccounted(head, txn'.db, q)
               /\ IsCandidateCodeFile(q) =>
                     \/ txn'.step = "documents" \/ (txn'.step = "code" /\ q \in txn'.todo)
                     \/ FileAccounted(head, txn'.db, q)
    <3>1. CASE q = p
      BY <1>6, <2>1, <3>1
    <3>2. CASE q # p
      BY <1>1, <1>2, <1>5, <1>6, <2>1, <3>2 DEF Progress, QuietProgress
    <3>. QED
      BY <3>1, <3>2
  <2>. QED
    BY <1>1, <1>2, <1>3, <1>4, <1>5, <2>1 DEF QuietProgress
<1>10. IsFree'
  <2>1. ASSUME txn.kind = "seed", txn.fresh, txn.quiet, ~Contested(head, Readme)
        PROVE  txn'.calls = 0
    <3>1. AllAccounted(head, history, txn.db)
      BY <1>1, <1>5, <2>1, SettledIsAccounted
    <3>2. IsSeeded(p)
      BY <1>1, <2>1 DEF Typed, WellFormed
    <3>3. ~Contested(head, p)
      BY <2>1 DEF Contested
    <3>4. txn'.calls = txn.calls
      BY <1>6, <3>1, <3>2, <3>3 DEF AllAccounted
    <3>. QED
      BY <2>1, <3>4 DEF Progress, IsFree
  <2>. QED
    BY <1>1, <1>2, <2>1 DEF IsFree
<1>. QED
  BY <1>8, <1>9, <1>10 DEF Progress

\* A pass that nothing was pushed into settles the store, and a transaction into
\* which nothing was pushed leaves a settled store settled.
LEMMA CommitProgress ==
  ASSUME Typed, Progress, SettledIsSeen, Commit PROVE Progress'
<1>1. /\ txn.kind # "none" /\ txn.step = "commit" /\ db' = txn.db /\ txn' = NoTxn
      /\ settled' = (settled \/ (txn.kind = "seed" /\ txn.quiet))
      /\ UNCHANGED <<head, history>>
  BY CommitTypes DEF Commit
<1>2. txn'.kind = "none"
  BY <1>1, NoTxnTypes
<1>3. Excluded' = Excluded
  BY <1>1 DEF Excluded
<1>4. ASSUME settled \/ (txn.kind = "seed" /\ txn.quiet), Excluded PROVE IsPurged(txn.db)
  BY <1>1, <1>4 DEF Progress, QuietProgress, SettledIsStored
<1>5. ASSUME settled, ~Excluded PROVE AllAccounted(head, history, txn.db)
  BY <1>1, <1>5 DEF Progress, SettledIsStored
<1>6. ASSUME txn.kind = "seed", txn.quiet, ~Excluded PROVE AllAccounted(head, history, txn.db)
  BY <1>1, <1>6 DEF Progress, QuietProgress, AllAccounted, IsSeeded, IsDocument
<1>7. SettledIsStored'
  BY <1>1, <1>2, <1>3, <1>4, <1>5, <1>6 DEF SettledIsStored
<1>. QED
  BY <1>2, <1>7 DEF Progress, QuietProgress, IsFree

\* Progress is kept by every step.
LEMMA NextProgress ==
  ASSUME Typed, HeadWasPushed, SettledIsSeen, Progress, [Next]_vars PROVE Progress'
<1>1. CASE UNCHANGED vars
  BY <1>1, SameProgress DEF vars
<1>2. ASSUME NEW k \in PushKinds, Push(k) PROVE Progress'
  <2>1. ~ txn'.quiet /\ settled' = FALSE
    BY <1>2, PushTypes DEF Push
  <2>. QED
    BY <2>1 DEF Progress, SettledIsStored, QuietProgress, IsFree
<1>3. ASSUME NEW n \in pending, Lose(n) PROVE Progress'
  BY <1>3, SameProgress DEF Lose
<1>4. ASSUME NEW n \in pending, WorkerBegins(n) PROVE Progress'
  BY <1>4, WorkerBeginsIs, BeginProgress
<1>5. CASE SeedBegins
  BY <1>5, SeedBeginsIs, BeginProgress
<1>6. CASE ListCode
  BY <1>6, ListCodeProgress
<1>7. CASE HandleCommits
  BY <1>7, HandleCommitsProgress
<1>8. CASE Commit
  BY <1>8, CommitProgress
<1>9. CASE Abort
  <2>1. UNCHANGED <<head, history, db, settled>> /\ txn'.kind = "none"
    BY <1>9, NoTxnTypes DEF Abort
  <2>2. Excluded' = Excluded
    BY <2>1 DEF Excluded
  <2>. QED
    BY <2>1, <2>2 DEF Progress, SettledIsStored, QuietProgress, IsFree
<1>10. ASSUME NEW p \in Paths, SyncFile(p) PROVE Progress'
  BY <1>10, SyncFileProgress
<1>11. ASSUME NEW f \in db.findings, MarkSecretResolved(f) PROVE Progress'
  BY <1>11, ResolveEffect, SameProgress
<1>. QED
  BY <1>1, <1>2, <1>3, <1>4, <1>5, <1>6, <1>7, <1>8, <1>9, <1>10, <1>11 DEF Next

-----------------------------------------------------------------------------
(* The theorems.                                                           *)

StoreInv == Typed /\ Made /\ StoreIsClean /\ SeesFindings /\ SettledIsSeen /\ Progress

\* The invariant holds at the start,
LEMMA InitStoreInv == ASSUME Init PROVE StoreInv
<1>1. SeesFindings /\ SettledIsSeen
  BY NoTxnTypes DEF Init, SeesFindings, SettledIsSeen
<1>. QED
  BY <1>1, InitTyped, InitMade, InitClean, InitProgress DEF StoreInv

\* and every step keeps it.
LEMMA NextStoreInv == ASSUME StoreInv, [Next]_vars PROVE StoreInv'
<1>1. Typed' /\ Made' /\ StoreIsClean' /\ SeesFindings' /\ SettledIsSeen'
  BY NextTyped, NextMade, NextClean, NextKeeps, NextSeen DEF StoreInv
<1>2. Progress'
  BY NextProgress DEF StoreInv, Made
<1>. QED
  BY <1>1, <1>2 DEF StoreInv

\* The inductive invariant: types, rows made by pushes, nothing flagged in the
\* store, transactions that have seen all findings, and how far a pass has come.
THEOREM StoreInvariant == Spec => []StoreInv
<1>1. Init => StoreInv
  BY InitStoreInv
<1>2. StoreInv /\ [Next]_vars => StoreInv'
  BY NextStoreInv
<1>. QED
  BY <1>1, <1>2, PTL DEF Spec

\* Every variable keeps its type: sync_chunks, sync_commit and the purge make
\* rows, commits and findings of the repository and nothing else.
THEOREM StoreTypes == Spec => []TypeOK
<1>1. StoreInv => TypeOK
  BY DEF StoreInv, Typed
<1>. QED
  BY <1>1, StoreInvariant, PTL

\* No chunk with a line the scanner reports is ever stored, nor is a commit
\* summarised if its message, or what is read of its diff, has one, and what is
\* found in a commit is reported with it, whatever the interleaving of pushes, late
\* events, passes, failures and resolutions.  Messages of flagged commits are
\* stored, and diffs beyond MAX_DIFF_CHARS are not read.
THEOREM SecretsAreNeverStored == Spec => []StoreIsClean
<1>1. StoreInv => StoreIsClean
  BY DEF StoreInv
<1>. QED
  BY <1>1, StoreInvariant, PTL

\* Every stored row is a chunk of a content that was pushed to its path or, under
\* README.md, to that of another README: files are read whole from HEAD, and what
\* is kept of older ones is kept whole.
THEOREM NothingIsInvented == Spec => []NothingInvented
<1>1. StoreInv => NothingInvented
  BY DEF StoreInv, Made, FromBranch, Makes, MayStandFor, NothingInvented
<1>. QED
  BY <1>1, StoreInvariant, PTL

\* No step forgets a finding or the resolution of one: not a scan that finds it
\* again, not the purge of an excluded project, not the end of a transaction
\* that began before the finding was resolved.
THEOREM FindingsStay == Spec => FindingsAreKept
<1>1. StoreInv /\ [Next]_vars =>
         [db.findings \subseteq db'.findings /\ db.resolved \subseteq db'.resolved]_vars
  BY NextKeeps DEF StoreInv, FindingsGrow
<1>. QED
  BY <1>1, StoreInvariant, PTL DEF Spec, FindingsAreKept

\* After a seed pass into which nothing was pushed and whose listing was complete,
\* all that the pass stores is there as it is on the branch or reported, and late
\* or repeated events, other passes and failures leave it so until the next push,
\* but for README.md while events and passes store two different files under it.
THEOREM PassesAccountForAll == Spec => []PassAccountsForAll
<1>1. StoreInv => PassAccountsForAll
  <2>1. SUFFICES ASSUME StoreInv, settled, ~Excluded,
                        NEW p \in Paths, IsSeeded(p), ~IsContested(p)
                 PROVE  LET chunks == ChunksOf(p, head[SourceOf("seed", p)])
                        IN  \A i \in DOMAIN chunks : Accounted(db, p, chunks[i])
    BY DEF PassAccountsForAll
  <2>2. FileAccounted(head, db, p)
    BY <2>1, SourceIs DEF StoreInv, Progress, SettledIsStored, AllAccounted
  <2>3. Sourced(head, p) = ChunksOf(p, head[SourceOf("seed", p)])
    BY SourceIs DEF Sourced
  <2>. QED
    BY <2>2, <2>3, Zenon DEF FileAccounted
<1>. QED
  BY <1>1, StoreInvariant, PTL

\* And all recent commits of substance are stored, flagged or not; or nothing is,
\* if the repository has the marker.
THEOREM HistoryIsStored == Spec => []RecentHistoryIsStored
<1>1. StoreInv => RecentHistoryIsStored
  <2>1. SUFFICES ASSUME StoreInv, settled
                 PROVE  IF Excluded THEN db.rows = {} /\ db.commits = {}
                        ELSE \A n \in Recent : IsSubstantial(n) =>
                                \E row \in db.commits : row.sha = n
    BY DEF RecentHistoryIsStored
  <2>2. CASE Excluded
    BY <2>1, <2>2 DEF StoreInv, Progress, SettledIsStored, IsPurged
  <2>3. CASE ~Excluded
    <3>1. CommitsStored(history, db)
      BY <2>1, <2>3 DEF StoreInv, Progress, SettledIsStored, AllAccounted
    <3>. QED
      BY <2>3, <3>1, SubstanceIsNoNoise DEF CommitsStored, Recent
  <2>. QED
    BY <2>2, <2>3
<1>. QED
  BY <1>1, StoreInvariant, PTL

\* A pass over what a pass has stored embeds and summarises nothing, flagged
\* chunks and flagged commits included, unless events and passes store two
\* different files under README.md.
THEOREM QuietPassesAreFree == Spec => []QuietPassIsFree
<1>1. StoreInv => QuietPassIsFree
  BY SourceIs, ReadmeIsOnItsOwn DEF StoreInv, Progress, IsFree, QuietPassIsFree
<1>. QED
  BY <1>1, StoreInvariant, PTL

\* Each paragraph of a document that is read is in a chunk with its heading and
\* nothing else, so that a flagged line costs that paragraph or, in a heading,
\* that section.
THEOREM LossStaysLocal == Spec => []LossIsLocal
<1>1. StoreInv => LossIsLocal
  <2>1. SUFFICES ASSUME StoreInv, NEW p \in Paths, IsL1DocumentPath(p), head[p] # Absent,
                        ~ head[p].oversize, ~ IsExcludedPath(p),
                        NEW i \in DOMAIN head[p].lines, head[p].lines[i] \notin Headings
                 PROVE  LET lines  == head[p].lines
                            chunks == ChunksOf(p, head[p])
                            above  == {j \in 1..i : lines[j] \in Headings}
                        IN  \E k \in DOMAIN chunks :
                               chunks[k].text = IF above = {} THEN <<lines[i]>>
                                                ELSE <<lines[Max(above)], lines[i]>>
    BY DEF LossIsLocal
  <2>. DEFINE lines == head[p].lines
              texts == MarkdownTexts(lines)
              above == {j \in 1..i : lines[j] \in Headings}
  <2>2. lines \in Seq(Lines)
    BY <2>1 DEF StoreInv, Typed, TypeOK, Content, File
  <2>3. PICK m \in DOMAIN texts :
           texts[m] = IF above = {} THEN <<lines[i]>> ELSE <<lines[Max(above)], lines[i]>>
    BY <2>1, <2>2, ParagraphIsText
  <2>4. ChunksOf(p, head[p]) = [k \in DOMAIN texts |-> [key |-> <<<<>>, k - 1>>, text |-> texts[k]]]
    BY <2>1 DEF ChunksOf, ChunkMarkdown
  <2>. HIDE DEF texts, above
  <2>5. /\ m \in DOMAIN ChunksOf(p, head[p])
        /\ ChunksOf(p, head[p])[m].text = texts[m]
    BY <2>3, <2>4
  <2>. QED
    BY <2>3, <2>5 DEF above
<1>. QED
  BY <1>1, StoreInvariant, PTL
=============================================================================
