----------------------------- MODULE GrubScanProofs -----------------------------
(***************************************************************************)
(* Proofs about the search for GRUB configurations, for any devices, trees *)
(* of files and lines in them: the parser reads each entry as it is        *)
(* written, and the walk finds every file there is to find.                *)
(***************************************************************************)
EXTENDS GrubScan, FiniteSetTheorems, TLAPS

\* The list of devices holds the first m of them, as they are.
Listed(m) ==
  /\ Len(devices) = m
  /\ \A i \in 1..m : devices[i] = [name |-> Sys[i], uuid |-> getUUID(media[Sys[i]])]

DevicesKnown ==
  /\ pc = "list" => n <= Len(Sys) + 1 /\ Listed(n - 1)
  /\ pc \in {"walk", "parse", "done"} => Listed(Len(Sys))

\* The configurations of the entries that start at some lines.
Listing(t, ps) == [k \in 1..Cardinality(ps) |-> EntryAt(t, InOrder(ps)[k])]

\* The valid entries before the last one.
Closed(t) == {p \in Starts(t) : p < Max(Starts(t)) /\ IsValid(EntryAt(t, p))}

\* The parser is in the last entry, and has saved those before.
ParserKnown ==
  pc = "parse" =>
    IF Starts(text) = {}
    THEN cfg = NoConfig /\ kernelBasedir = basedir /\ bootconfigs = <<>>
    ELSE LET p == Max(Starts(text))
         IN /\ cfg \in ConfigType /\ cfg = Entry(text, p, Len(text))
            /\ kernelBasedir = DirAt(text, p, Len(text))
            /\ bootconfigs = Listing(text, Closed(text))

\* The walk is not in a directory that it skips, and it parses what it should.
WalkKnown ==
  /\ pc \in {"walk", "parse"} => n <= Len(tree) + 1
  /\ pc \in {"walk", "parse"} /\ n <= Len(tree) =>
       \A k \in 1..(n - 1) : tree[k].dir /\ Skips(tree[k].path) =>
         ~IsStrictPrefix(tree[k].path, tree[n].path)
  /\ pc = "parse" => n <= Len(tree) /\ ~tree[n].dir /\ Version(tree[n].path) > 0

\* What has been parsed is behind, and all it gave is found.
ParsedKnown ==
  /\ pc \in {"list", "fatal"} => parsed = <<>>
  /\ \A i \in 1..Len(parsed) : parsed[i].place < n /\ FoundBy(i) <= Len(found)

Inv ==
  /\ TypeOK /\ DevicesKnown /\ ParserKnown /\ WalkKnown /\ ParsedKnown
  /\ FindsAllUpToAnError
---------------------------------------------------------------------------
\* In a finite set of numbers there is one of each rank.
LEMMA EachRankIsTaken ==
  ASSUME NEW J \in SUBSET Int, IsFiniteSet(J), NEW k \in 1..Cardinality(J)
  PROVE  \E j \in J : Cardinality({i \in J : i <= j}) = k
<1> DEFINE upTo(j) == {i \in J : i <= j}
           rank == [j \in J |-> Cardinality(upTo(j))]
           c == Cardinality(J)
<1>0. \A j \in J : j \in Int
  OBVIOUS
<1>1. c \in Nat
  BY FS_CardinalityType
<1>2. ASSUME NEW j \in J
      PROVE  IsFiniteSet(upTo(j)) /\ rank[j] \in 1..c
  <2>1. upTo(j) \subseteq J /\ j \in upTo(j)
    BY <1>0
  <2>2. IsFiniteSet(upTo(j)) /\ Cardinality(upTo(j)) <= c
    BY <2>1, FS_Subset
  <2>3. Cardinality(upTo(j)) \in Nat \ {0}
    BY <2>1, <2>2, FS_CardinalityType, FS_EmptySet
  <2>4. rank[j] = Cardinality(upTo(j))
    OBVIOUS
  <2> HIDE DEF c, upTo, rank
  <2> QED  BY <1>1, <2>2, <2>3, <2>4
<1>3. ASSUME NEW x \in J, NEW y \in J, x < y PROVE rank[x] # rank[y]
  <2>0. x \in Int /\ y \in Int
    BY <1>0
  <2>1. upTo(x) \subseteq upTo(y) /\ y \in upTo(y) /\ y \notin upTo(x)
    <3>1. \A i \in J : i <= x => i <= y
      BY <1>0, <1>3, <2>0
    <3>2. y <= y /\ ~(y <= x)
      BY <1>3, <2>0
    <3> QED  BY <3>1, <3>2
  <2>2. upTo(x) # upTo(y)
    BY <2>1
  <2>3. IsFiniteSet(upTo(y))
    BY <1>2
  <2>4. Cardinality(upTo(x)) # Cardinality(upTo(y))
    <3> HIDE DEF upTo
    <3> QED  BY <2>1, <2>2, <2>3, FS_Subset
  <2>5. rank[x] = Cardinality(upTo(x)) /\ rank[y] = Cardinality(upTo(y))
    OBVIOUS
  <2> HIDE DEF rank, upTo
  <2> QED  BY <2>4, <2>5
<1>4. rank \in Injection(J, 1..c)
  <2>1. rank \in [J -> 1..c]
    <3>1. rank = [j \in J |-> rank[j]]
      OBVIOUS
    <3> HIDE DEF rank, c
    <3> QED  BY <1>2, <3>1
  <2>2. ASSUME NEW x \in J, NEW y \in J, x # y PROVE rank[x] # rank[y]
    <3>1. x < y \/ y < x
      BY <1>0, <2>2
    <3> HIDE DEF rank
    <3> QED  BY <1>3, <3>1
  <2>3. DOMAIN rank = J
    OBVIOUS
  <2> HIDE DEF rank, c
  <2> QED  BY <2>1, <2>2, <2>3 DEF Injection, IsInjective
<1>5. IsFiniteSet(1..c) /\ Cardinality(1..c) = c
  <2> HIDE DEF c
  <2> QED  BY <1>1, FS_Interval
<1>6. rank \in Surjection(J, 1..c)
  <2> HIDE DEF rank
  <2> QED  BY <1>4, <1>5, FS_Injection
<1>7. \E j \in J : rank[j] = k
  <2> HIDE DEF rank
  <2> QED  BY <1>6 DEF Surjection
<1> QED  BY <1>7

\* One that is not empty has a greatest element, that of the highest rank.
LEMMA MaxIsGreatest ==
  ASSUME NEW J \in SUBSET Int, IsFiniteSet(J), J # {}
  PROVE  Max(J) \in J /\ \A j \in J : j <= Max(J)
<1>1. Cardinality(J) \in 1..Cardinality(J)
  BY FS_CardinalityType, FS_EmptySet
<1>2. PICK m \in J : Cardinality({i \in J : i <= m}) = Cardinality(J)
  BY <1>1, EachRankIsTaken
<1>3. {i \in J : i <= m} = J
  <2>1. {i \in J : i <= m} \subseteq J
    OBVIOUS
  <2> QED  BY <1>2, <2>1, FS_Subset
<1>4. \E x \in J : \A y \in J : x >= y
  BY <1>3
<1>5. Max(J) \in J /\ \A y \in J : Max(J) >= y
  BY <1>4 DEF Max
<1> QED  BY <1>5

\* The same for the least one.
LEMMA MinIsLeast ==
  ASSUME NEW J \in SUBSET Int, IsFiniteSet(J), J # {}
  PROVE  Min(J) \in J /\ \A j \in J : Min(J) <= j
<1> DEFINE N == {-j : j \in J}
           neg == [j \in J |-> -j]
<1>0. \A j \in J : j \in Int
  OBVIOUS
<1>1. N \in SUBSET Int /\ N # {}
  <2>1. \A j \in J : -j \in Int
    BY <1>0
  <2> QED  BY <2>1
<1>2. neg \in Surjection(J, N)
  BY DEF Surjection
<1>3. IsFiniteSet(N)
  BY <1>2, FS_Surjection
<1>4. Max(N) \in N /\ \A k \in N : k <= Max(N)
  BY <1>1, <1>3, MaxIsGreatest
<1>5. PICK m \in J : Max(N) = -m
  BY <1>4
<1>6. \A j \in J : m <= j
  BY <1>4, <1>5
<1>7. Min(J) \in J /\ \A y \in J : Min(J) =< y
  BY <1>6 DEF Min
<1> QED  BY <1>7

\* The greatest of a set that has gained a greater element.
LEMMA MaxOfMore ==
  ASSUME NEW J \in SUBSET Int, NEW m \in Int, \A j \in J : j <= m
  PROVE  Max(J \cup {m}) = m
<1>1. m \in J \cup {m} /\ \A j \in J \cup {m} : m >= j
  OBVIOUS
<1>2. Max(J \cup {m}) \in J \cup {m} /\ \A j \in J \cup {m} : Max(J \cup {m}) >= j
  BY <1>1 DEF Max
<1>3. Max(J \cup {m}) >= m /\ m >= Max(J \cup {m}) /\ Max(J \cup {m}) \in Int
  BY <1>1, <1>2
<1> QED  BY <1>3

\* A set of line numbers is finite.
LEMMA LineNumbers ==
  ASSUME NEW a \in Int, NEW b \in Int, NEW J \in SUBSET (a..b)
  PROVE  J \in SUBSET Int /\ IsFiniteSet(J) /\ Cardinality(J) \in Nat
<1>1. IsFiniteSet(a..b)
  BY FS_Interval
<1>2. IsFiniteSet(J)
  BY <1>1, FS_Subset
<1>3. \A j \in a..b : j \in Int
  OBVIOUS
<1> QED  BY <1>2, <1>3, FS_CardinalityType

\* InOrder lists the elements of a set.
LEMMA InOrderType ==
  ASSUME NEW J \in SUBSET Int, IsFiniteSet(J), NEW k \in 1..Cardinality(J)
  PROVE  InOrder(J)[k] \in J
<1>1. PICK j \in J : Cardinality({i \in J : i <= j}) = k
  BY EachRankIsTaken
<1>2. j \in {i \in J : Cardinality({h \in J : h <= i}) = k}
  BY <1>1
<1>3. InOrder(J)[k] = CHOOSE i \in {i \in J : Cardinality({h \in J : h <= i}) = k} : TRUE
  BY DEF InOrder
<1> QED  BY <1>2, <1>3

\* A number greater than all others comes last, and the others stay in place.
LEMMA InOrderOfMore ==
  ASSUME NEW J \in SUBSET Int, IsFiniteSet(J), NEW m \in Int, \A j \in J : j < m
  PROVE  /\ Cardinality(J) \in Nat
         /\ Cardinality(J \cup {m}) = Cardinality(J) + 1
         /\ InOrder(J \cup {m})[Cardinality(J) + 1] = m
         /\ \A k \in 1..Cardinality(J) : InOrder(J \cup {m})[k] = InOrder(J)[k]
<1> DEFINE K == J \cup {m}
           upTo(S, j) == {i \in S : i <= j}
           ranked(S, k) == {j \in S : Cardinality(upTo(S, j)) = k}
<1>1. m \notin J /\ Cardinality(J) \in Nat /\ Cardinality(K) = Cardinality(J) + 1
  BY FS_AddElement, FS_CardinalityType
<1>0. \A j \in J : j \in Int
  OBVIOUS
<1>2. upTo(K, m) = K
  <2>1. \A j \in K : j <= m
    BY <1>0
  <2> QED  BY <2>1
<1>3. ASSUME NEW j \in J
      PROVE  /\ upTo(K, j) = upTo(J, j)
             /\ Cardinality(upTo(J, j)) \in Nat
             /\ Cardinality(upTo(J, j)) <= Cardinality(J)
  <2>1. upTo(K, j) = upTo(J, j)
    BY <1>0
  <2>2. upTo(J, j) \subseteq J
    OBVIOUS
  <2> HIDE DEF upTo
  <2> QED  BY <1>1, <2>1, <2>2, FS_Subset, FS_CardinalityType
<1>4. ranked(K, Cardinality(J) + 1) = {m}
  <2>1. \A j \in J : Cardinality(upTo(K, j)) # Cardinality(J) + 1
    <3> HIDE DEF upTo
    <3> QED  BY <1>1, <1>3
  <2>2. Cardinality(upTo(K, m)) = Cardinality(J) + 1
    BY <1>1, <1>2
  <2> HIDE DEF upTo
  <2> QED  BY <2>1, <2>2
<1>5. ASSUME NEW k \in 1..Cardinality(J) PROVE ranked(K, k) = ranked(J, k)
  <2>1. Cardinality(upTo(K, m)) # k
    <3>1. Cardinality(upTo(K, m)) = Cardinality(J) + 1
      BY <1>1, <1>2
    <3> HIDE DEF upTo, K
    <3> QED  BY <1>1, <3>1
  <2>2. \A j \in J : Cardinality(upTo(K, j)) = Cardinality(upTo(J, j))
    <3> HIDE DEF upTo
    <3> QED  BY <1>3
  <2> HIDE DEF upTo
  <2> QED  BY <2>1, <2>2
<1>6. /\ InOrder(K) = [k \in 1..Cardinality(K) |-> CHOOSE j \in ranked(K, k) : TRUE]
      /\ InOrder(J) = [k \in 1..Cardinality(J) |-> CHOOSE j \in ranked(J, k) : TRUE]
  BY DEF InOrder
<1> HIDE DEF ranked, upTo, K
<1>7. InOrder(K)[Cardinality(J) + 1] = m
  <2>1. Cardinality(J) + 1 \in 1..Cardinality(K)
    BY <1>1
  <2>2. InOrder(K)[Cardinality(J) + 1] = CHOOSE j \in {m} : TRUE
    BY <1>4, <1>6, <2>1
  <2> QED  BY <2>2
<1>8. ASSUME NEW k \in 1..Cardinality(J) PROVE InOrder(K)[k] = InOrder(J)[k]
  <2>1. k \in 1..Cardinality(K)
    BY <1>1
  <2> QED  BY <1>5, <1>6, <2>1
<1> QED  BY <1>1, <1>7, <1>8 DEF K
---------------------------------------------------------------------------
(* What a reader takes the lines of a file to say, when there is one more. *)

\* Whether a line is a directive that begins with one of some words.
Takes(s, ops) == s[1] \in ops /\ Len(s) > 1

LEMMA LineType ==
  ASSUME NEW s \in Cfgs
  PROVE  s \in Seq(Words) /\ Len(s) \in Nat \ {0}
<1>1. s \in Seq(Words) /\ s # <<>>
  BY GrubScanAssumption DEF Line
<1> QED  BY <1>1

LEMMA OneMore ==
  ASSUME NEW t \in Seq(Cfgs), NEW s \in Cfgs
  PROVE  /\ Len(t) \in Nat /\ Append(t, s) \in Seq(Cfgs)
         /\ Len(Append(t, s)) = Len(t) + 1
         /\ Append(t, s)[Len(t) + 1] = s
         /\ \A j \in 1..Len(t) : Append(t, s)[j] = t[j] /\ t[j] \in Cfgs
  OBVIOUS

\* The earlier lines of an entry are in the directories they were in.
LEMMA SameDir ==
  ASSUME NEW t \in Seq(Cfgs), NEW s \in Cfgs,
         NEW p \in Nat \ {0}, NEW j \in Int, j <= Len(t)
  PROVE  DirAt(Append(t, s), p, j) = DirAt(t, p, j)
<1> DEFINE S(u) == {k \in p..j : Searches(u[k])}
<1>1. \A k \in p..j : Append(t, s)[k] = t[k]
  BY OneMore
<1>2. S(Append(t, s)) = S(t)
  BY <1>1
<1>3. CASE S(t) = {}
  BY <1>2, <1>3 DEF DirAt
<1>4. CASE S(t) # {}
  <2>1. S(t) \in SUBSET (p..j) /\ p \in Int
    OBVIOUS
  <2>2. S(t) \in SUBSET Int /\ IsFiniteSet(S(t))
    <3> HIDE DEF S
    <3> QED  BY <2>1, LineNumbers
  <2>3. Max(S(t)) \in S(t)
    <3> HIDE DEF S
    <3> QED  BY <1>4, <2>2, MaxIsGreatest
  <2>4. Append(t, s)[Max(S(t))] = t[Max(S(t))]
    BY <1>1, <2>3
  <2> QED  BY <1>2, <1>4, <2>4 DEF DirAt
<1> QED  BY <1>3, <1>4

\* One more line is in the directory it searches, or in that of the line before.
LEMMA DirOfMore ==
  ASSUME NEW t \in Seq(Cfgs), NEW s \in Cfgs, NEW p \in 1..(Len(t) + 1)
  PROVE  DirAt(Append(t, s), p, Len(t) + 1) =
           IF Searches(s) THEN Searched(s) ELSE DirAt(t, p, Len(t))
<1> DEFINE m == Len(t) + 1
           S == {k \in p..Len(t) : Searches(t[k])}
           R == {k \in p..m : Searches(Append(t, s)[k])}
<1>0. Len(t) \in Nat /\ p \in Nat \ {0}
  BY OneMore
<1>1. /\ \A k \in p..Len(t) : Append(t, s)[k] = t[k] /\ k \in p..m
      /\ \A k \in p..m : k \in p..Len(t) \/ k = m
      /\ m \in p..m /\ Append(t, s)[m] = s
  BY <1>0, OneMore
<1>2. CASE Searches(s)
  <2>1. R = S \cup {m}
    BY <1>1, <1>2
  <2>2. S \in SUBSET Int /\ m \in Int /\ \A j \in S : j <= m
    BY <1>0
  <2>3. Max(R) = m
    <3> HIDE DEF S, m, R
    <3> QED  BY <2>1, <2>2, MaxOfMore
  <2>4. R # {}
    BY <2>1
  <2> QED  BY <1>1, <1>2, <2>3, <2>4 DEF DirAt
<1>3. CASE ~Searches(s)
  <2>1. R = S
    BY <1>1, <1>3
  <2>2. CASE S = {}
    BY <1>3, <2>1, <2>2 DEF DirAt
  <2>3. CASE S # {}
    <3>1. S \in SUBSET (p..Len(t))
      OBVIOUS
    <3>2. Max(S) \in S
      <4>1. p \in Int /\ Len(t) \in Int
        BY <1>0
      <4> HIDE DEF S
      <4>2. S \in SUBSET Int /\ IsFiniteSet(S)
        BY <3>1, <4>1, LineNumbers
      <4> QED  BY <2>3, <4>2, MaxIsGreatest
    <3>3. Append(t, s)[Max(S)] = t[Max(S)]
      BY <1>1, <3>2
    <3> QED  BY <1>3, <2>1, <2>3, <3>3 DEF DirAt
  <2> QED  BY <2>2, <2>3
<1> QED  BY <1>2, <1>3

\* The directives of an entry.
LEMMA SameLines ==
  ASSUME NEW t \in Seq(Cfgs), NEW s \in Cfgs,
         NEW p \in Nat \ {0}, NEW e \in Int, e <= Len(t), NEW ops
  PROVE  Lines(Append(t, s), p, e, ops) = Lines(t, p, e, ops)
<1>1. \A j \in p..e : Append(t, s)[j] = t[j]
  BY OneMore
<1> QED  BY <1>1 DEF Lines

LEMMA LinesType ==
  ASSUME NEW t, NEW p \in Int, NEW e \in Int, NEW ops
  PROVE  LET J == Lines(t, p, e, ops)
         IN  /\ J \in SUBSET Int /\ IsFiniteSet(J) /\ Cardinality(J) \in Nat
             /\ J \subseteq p..e
             /\ J # {} => Max(J) \in J
<1> DEFINE J == Lines(t, p, e, ops)
<1>1. J \in SUBSET (p..e)
  BY DEF Lines
<1> HIDE DEF J
<1>2. J \in SUBSET Int /\ IsFiniteSet(J) /\ Cardinality(J) \in Nat
  BY <1>1, LineNumbers
<1>3. J # {} => Max(J) \in J
  BY <1>2, MaxIsGreatest
<1> QED  BY <1>1, <1>2, <1>3 DEF J

LEMMA LinesOfMore ==
  ASSUME NEW t \in Seq(Cfgs), NEW s \in Cfgs, NEW p \in 1..(Len(t) + 1), NEW ops
  PROVE  Lines(Append(t, s), p, Len(t) + 1, ops) =
           IF Takes(s, ops) THEN Lines(t, p, Len(t), ops) \cup {Len(t) + 1}
           ELSE Lines(t, p, Len(t), ops)
<1> DEFINE m == Len(t) + 1
<1>1. /\ \A k \in p..Len(t) : Append(t, s)[k] = t[k] /\ k \in p..m
      /\ \A k \in p..m : k \in p..Len(t) \/ k = m
      /\ m \in p..m /\ Append(t, s)[m] = s /\ m \notin p..Len(t)
  BY OneMore
<1> HIDE DEF m
<1>2. CASE Takes(s, ops)
  <2>1. Lines(Append(t, s), p, m, ops) = Lines(t, p, Len(t), ops) \cup {m}
    BY <1>1, <1>2 DEF Lines, Takes
  <2> QED  BY <1>2, <2>1 DEF m
<1>3. CASE ~Takes(s, ops)
  <2>1. Lines(Append(t, s), p, m, ops) = Lines(t, p, Len(t), ops)
    BY <1>1, <1>3 DEF Lines, Takes
  <2> QED  BY <1>3, <2>1 DEF m
<1> QED  BY <1>2, <1>3

\* The file and the arguments that the last directive of a kind names.
LEMMA SameFile ==
  ASSUME NEW t \in Seq(Cfgs), NEW s \in Cfgs,
         NEW p \in Nat \ {0}, NEW e \in Int, e <= Len(t), NEW ops
  PROVE  /\ FileOf(Append(t, s), p, e, ops) = FileOf(t, p, e, ops)
         /\ ArgsOf(Append(t, s), p, e, ops) = ArgsOf(t, p, e, ops)
<1> DEFINE J == Lines(t, p, e, ops)
<1>1. Lines(Append(t, s), p, e, ops) = J
  BY SameLines
<1>2. J \subseteq p..e /\ (J # {} => Max(J) \in J)
  BY LinesType
<1>3. \A j \in J : Append(t, s)[j] = t[j] /\ j \in Int /\ j <= Len(t)
  BY <1>2, OneMore
<1> HIDE DEF J
<1>4. CASE J = {}
  BY <1>1, <1>4 DEF FileOf, ArgsOf, J
<1>5. CASE J # {}
  <2>1. Append(t, s)[Max(J)] = t[Max(J)]
    BY <1>2, <1>3, <1>5
  <2>2. DirAt(Append(t, s), p, Max(J)) = DirAt(t, p, Max(J))
    BY <1>2, <1>3, <1>5, SameDir
  <2> QED  BY <1>1, <1>5, <2>1, <2>2 DEF FileOf, ArgsOf, PathAt, J
<1> QED  BY <1>4, <1>5

LEMMA FileOfMore ==
  ASSUME NEW t \in Seq(Cfgs), NEW s \in Cfgs, NEW p \in 1..(Len(t) + 1), NEW ops
  PROVE  LET m == Len(t) + 1
             u == Append(t, s)
         IN  /\ FileOf(u, p, m, ops) = IF Takes(s, ops) THEN <<DirAt(u, p, m), s[2]>>
                                       ELSE FileOf(t, p, Len(t), ops)
             /\ ArgsOf(u, p, m, ops) = IF Takes(s, ops) THEN Cmdline(s)
                                       ELSE ArgsOf(t, p, Len(t), ops)
<1> DEFINE m == Len(t) + 1
           u == Append(t, s)
           J == Lines(t, p, Len(t), ops)
<1>0. Len(t) \in Nat /\ p \in Nat \ {0} /\ u[m] = s /\ p \in Int /\ Len(t) \in Int
  BY OneMore
<1>1. J \in SUBSET Int /\ J \subseteq p..Len(t) /\ (J # {} => Max(J) \in J)
  BY <1>0, LinesType
<1>2. CASE Takes(s, ops)
  <2>1. Lines(u, p, m, ops) = J \cup {m}
    BY <1>2, LinesOfMore
  <2>2. m \in Int /\ \A j \in J : j <= m
    BY <1>0, <1>1
  <2>3. Max(J \cup {m}) = m
    <3> HIDE DEF J, m
    <3> QED  BY <1>1, <2>2, MaxOfMore
  <2>4. J \cup {m} # {}
    OBVIOUS
  <2> HIDE DEF J, m, u
  <2>5. FileOf(u, p, m, ops) = <<DirAt(u, p, m), s[2]>> /\ ArgsOf(u, p, m, ops) = Cmdline(s)
    BY <1>0, <2>1, <2>3, <2>4 DEF FileOf, ArgsOf, PathAt
  <2> QED  BY <1>2, <2>5 DEF m, u
<1>3. CASE ~Takes(s, ops)
  <2>1. Lines(u, p, m, ops) = J
    BY <1>3, LinesOfMore
  <2>2. CASE J = {}
    BY <1>3, <2>1, <2>2 DEF FileOf, ArgsOf
  <2>3. CASE J # {}
    <3>1. u[Max(J)] = t[Max(J)] /\ Max(J) \in Int /\ Max(J) <= Len(t)
      <4>1. Max(J) \in p..Len(t)
        BY <1>1, <2>3
      <4> HIDE DEF J
      <4> QED  BY <1>0, <4>1, OneMore
    <3>2. DirAt(u, p, Max(J)) = DirAt(t, p, Max(J))
      <4> HIDE DEF J
      <4> QED  BY <1>0, <3>1, SameDir
    <3> HIDE DEF J, m, u
    <3>3. FileOf(u, p, m, ops) = FileOf(t, p, Len(t), ops)
          /\ ArgsOf(u, p, m, ops) = ArgsOf(t, p, Len(t), ops)
      BY <2>1, <2>3, <3>1, <3>2 DEF FileOf, ArgsOf, PathAt, J
    <3> QED  BY <1>3, <3>3 DEF m, u
  <2> QED  BY <2>2, <2>3
<1> QED  BY <1>2, <1>3

\* The modules of an entry.
LEMMA SameModules ==
  ASSUME NEW t \in Seq(Cfgs), NEW s \in Cfgs,
         NEW p \in Nat \ {0}, NEW e \in Int, e <= Len(t)
  PROVE  ModulesOf(Append(t, s), p, e) = ModulesOf(t, p, e)
<1> DEFINE J == Lines(t, p, e, Module)
<1>1. Lines(Append(t, s), p, e, Module) = J
  BY SameLines
<1>2. J \in SUBSET Int /\ IsFiniteSet(J) /\ J \subseteq p..e
  BY LinesType
<1>3. ASSUME NEW k \in 1..Cardinality(J)
      PROVE  ModuleOf(Append(t, s), p, InOrder(J)[k]) = ModuleOf(t, p, InOrder(J)[k])
  <2> DEFINE j == InOrder(J)[k]
  <2>1. j \in J
    <3> HIDE DEF J
    <3> QED  BY <1>2, InOrderType
  <2>2. j \in 1..Len(t) /\ j \in Int /\ j <= Len(t)
    BY <1>2, <2>1
  <2> HIDE DEF j, J
  <2>3. Append(t, s)[j] = t[j] /\ DirAt(Append(t, s), p, j) = DirAt(t, p, j)
    BY <2>2, OneMore, SameDir
  <2>4. ModuleOf(Append(t, s), p, j) = ModuleOf(t, p, j)
    BY <2>3 DEF ModuleOf, PathAt
  <2> QED  BY <2>4 DEF j
<1> HIDE DEF J
<1> QED  BY <1>1, <1>3 DEF ModulesOf, J

LEMMA ModulesOfMore ==
  ASSUME NEW t \in Seq(Cfgs), NEW s \in Cfgs, NEW p \in 1..(Len(t) + 1)
  PROVE  LET m == Len(t) + 1
             u == Append(t, s)
         IN  ModulesOf(u, p, m) =
               IF Takes(s, Module)
               THEN Append(ModulesOf(t, p, Len(t)), <<<<DirAt(u, p, m), s[2]>>, Cmdline(s)>>)
               ELSE ModulesOf(t, p, Len(t))
<1> DEFINE m == Len(t) + 1
           u == Append(t, s)
           J == Lines(t, p, Len(t), Module)
           M == ModulesOf(t, p, Len(t))
           x == <<<<DirAt(u, p, m), s[2]>>, Cmdline(s)>>
<1>0. Len(t) \in Nat /\ p \in Nat \ {0} /\ u[m] = s /\ p \in Int /\ Len(t) \in Int
  BY OneMore
<1>1. J \in SUBSET Int /\ IsFiniteSet(J) /\ J \subseteq p..Len(t)
      /\ Cardinality(J) \in Nat
  BY <1>0, LinesType
<1>2. ASSUME NEW k \in 1..Cardinality(J)
      PROVE  ModuleOf(u, p, InOrder(J)[k]) = ModuleOf(t, p, InOrder(J)[k])
  <2> DEFINE j == InOrder(J)[k]
  <2>1. j \in J
    <3> HIDE DEF J
    <3> QED  BY <1>1, InOrderType
  <2>2. j \in 1..Len(t) /\ j \in Int /\ j <= Len(t)
    BY <1>0, <1>1, <2>1
  <2> HIDE DEF j, J
  <2>3. u[j] = t[j] /\ DirAt(u, p, j) = DirAt(t, p, j)
    BY <1>0, <2>2, OneMore, SameDir
  <2> HIDE DEF u
  <2>4. ModuleOf(u, p, j) = ModuleOf(t, p, j)
    BY <2>3 DEF ModuleOf, PathAt
  <2> QED  BY <2>4 DEF j
<1>3. CASE Takes(s, Module)
  <2>1. Lines(u, p, m, Module) = J \cup {m}
    BY <1>3, LinesOfMore
  <2>2. m \in Int /\ \A j \in J : j < m
    BY <1>0, <1>1
  <2> DEFINE K == J \cup {m}
             c == Cardinality(J)
  <2>3. /\ Cardinality(K) = c + 1 /\ InOrder(K)[c + 1] = m
        /\ \A k \in 1..c : InOrder(K)[k] = InOrder(J)[k]
    <3> HIDE DEF J, m
    <3> QED  BY <1>1, <2>2, InOrderOfMore
  <2>4. ModuleOf(u, p, m) = x
    BY <1>0 DEF ModuleOf, PathAt
  <2>5. /\ ModulesOf(u, p, m) = [k \in 1..(c + 1) |-> ModuleOf(u, p, InOrder(K)[k])]
        /\ M = [k \in 1..c |-> ModuleOf(t, p, InOrder(J)[k])]
    BY <2>1, <2>3 DEF ModulesOf
  <2>6. c \in Nat
    BY <1>1
  <2>7. \A k \in 1..c : ModuleOf(u, p, InOrder(K)[k]) = ModuleOf(t, p, InOrder(J)[k])
    BY <1>2, <2>3
  <2>8. ModulesOf(u, p, m) = Append(M, x)
    <3> HIDE DEF J, K, c, m, u, x, M
    <3> QED  BY <2>3, <2>4, <2>5, <2>6, <2>7
  <2> QED  BY <1>3, <2>8
<1>4. CASE ~Takes(s, Module)
  <2>1. Lines(u, p, m, Module) = J
    BY <1>4, LinesOfMore
  <2> HIDE DEF J, m, u
  <2>2. ModulesOf(u, p, m) = M
    BY <1>2, <2>1 DEF ModulesOf, J
  <2> QED  BY <1>4, <2>2 DEF m, u
<1> QED  BY <1>3, <1>4

\* An entry without lines.
LEMMA NoLines ==
  ASSUME NEW t, NEW p \in Int, NEW e \in Int, e < p
  PROVE  Entry(t, p, e) = EmptyConfig /\ DirAt(t, p, e) = basedir
<1>1. p..e = {}
  OBVIOUS
<1>2. \A ops : Lines(t, p, e, ops) = {}
  BY <1>1 DEF Lines
<1>3. \A ops : FileOf(t, p, e, ops) = NoFile /\ ArgsOf(t, p, e, ops) = <<>>
  BY <1>2 DEF FileOf, ArgsOf
<1>4. ModulesOf(t, p, e) = <<>>
  <2>1. Cardinality({}) = 0
    BY FS_EmptySet
  <2> QED  BY <1>2, <2>1 DEF ModulesOf
<1>5. DirAt(t, p, e) = basedir
  BY <1>1 DEF DirAt
<1> QED  BY <1>3, <1>4, <1>5 DEF Entry, EmptyConfig

LEMMA SameEntry ==
  ASSUME NEW t \in Seq(Cfgs), NEW s \in Cfgs,
         NEW p \in Nat \ {0}, NEW e \in Int, e <= Len(t)
  PROVE  Entry(Append(t, s), p, e) = Entry(t, p, e)
<1>1. \A ops : /\ FileOf(Append(t, s), p, e, ops) = FileOf(t, p, e, ops)
               /\ ArgsOf(Append(t, s), p, e, ops) = ArgsOf(t, p, e, ops)
  BY SameFile
<1>2. ModulesOf(Append(t, s), p, e) = ModulesOf(t, p, e)
  BY SameModules
<1> QED  BY <1>1, <1>2 DEF Entry

\* A line that is no directive changes nothing in an entry.
LEMMA EntryOfNone ==
  ASSUME NEW t \in Seq(Cfgs), NEW s \in Cfgs, NEW p \in 1..(Len(t) + 1),
         \A ops \in {Linux, Initrd, Multiboot, Module} : ~Takes(s, ops)
  PROVE  Entry(Append(t, s), p, Len(t) + 1) = Entry(t, p, Len(t))
<1> DEFINE m == Len(t) + 1
           u == Append(t, s)
<1>1. ASSUME NEW ops \in {Linux, Initrd, Multiboot, Module}
      PROVE  /\ FileOf(u, p, m, ops) = FileOf(t, p, Len(t), ops)
             /\ ArgsOf(u, p, m, ops) = ArgsOf(t, p, Len(t), ops)
  BY FileOfMore
<1>2. ModulesOf(u, p, m) = ModulesOf(t, p, Len(t))
  BY ModulesOfMore
<1> HIDE DEF m, u
<1>3. Entry(u, p, m) = Entry(t, p, Len(t))
  BY <1>1, <1>2 DEF Entry
<1> QED  BY <1>3 DEF m, u

\* A line of at least two words changes an entry as the parser does.
LEMMA EntryOfMore ==
  ASSUME NEW t \in Seq(Cfgs), NEW s \in Cfgs, NEW p \in 1..(Len(t) + 1),
         Len(s) > 1, cfg = Entry(t, p, Len(t)),
         Search(s) = DirAt(Append(t, s), p, Len(t) + 1)
  PROVE  Entry(Append(t, s), p, Len(t) + 1) = Directive(s)
<1> DEFINE m == Len(t) + 1
           u == Append(t, s)
           path == <<Search(s), s[2]>>
<1>1. /\ Linux \cap Initrd = {} /\ Linux \cap Multiboot = {} /\ Linux \cap Module = {}
      /\ Initrd \cap Multiboot = {} /\ Initrd \cap Module = {}
      /\ Multiboot \cap Module = {}
  BY DEF Linux, Initrd, Multiboot, Module
<1>2. ASSUME NEW ops
      PROVE  /\ FileOf(u, p, m, ops) = IF s[1] \in ops THEN path ELSE FileOf(t, p, Len(t), ops)
             /\ ArgsOf(u, p, m, ops) = IF s[1] \in ops THEN Cmdline(s)
                                       ELSE ArgsOf(t, p, Len(t), ops)
  <2>1. Takes(s, ops) <=> s[1] \in ops
    BY DEF Takes
  <2> QED  BY <2>1, FileOfMore
<1>3. ModulesOf(u, p, m) = IF s[1] \in Module
                           THEN Append(ModulesOf(t, p, Len(t)), <<path, Cmdline(s)>>)
                           ELSE ModulesOf(t, p, Len(t))
  <2>1. Takes(s, Module) <=> s[1] \in Module
    BY DEF Takes
  <2> QED  BY <2>1, ModulesOfMore
<1>4. Directive(s) = CASE s[1] \in Linux     -> [cfg EXCEPT !.kernel = path, !.args = Cmdline(s)]
                       [] s[1] \in Initrd    -> [cfg EXCEPT !.initramfs = path]
                       [] s[1] \in Multiboot -> [cfg EXCEPT !.multiboot = path, !.mbargs = Cmdline(s)]
                       [] s[1] \in Module    -> [cfg EXCEPT !.modules = Append(@, <<path, Cmdline(s)>>)]
                       [] OTHER              -> cfg
  BY DEF Directive
<1> HIDE DEF m, u, path
<1>5. CASE s[1] \in Linux
  <2>1. s[1] \notin Initrd /\ s[1] \notin Multiboot /\ s[1] \notin Module
    BY <1>1, <1>5
  <2>2. Directive(s) = [cfg EXCEPT !.kernel = path, !.args = Cmdline(s)]
    BY <1>4, <1>5, <2>1
  <2>3. Entry(u, p, m) = Directive(s)
    BY <1>2, <1>3, <1>5, <2>1, <2>2 DEF Entry
  <2> QED  BY <2>3 DEF m, u
<1>6. CASE s[1] \in Initrd
  <2>1. s[1] \notin Linux /\ s[1] \notin Multiboot /\ s[1] \notin Module
    BY <1>1, <1>6
  <2>2. Directive(s) = [cfg EXCEPT !.initramfs = path]
    BY <1>4, <1>6, <2>1
  <2>3. Entry(u, p, m) = Directive(s)
    BY <1>2, <1>3, <1>6, <2>1, <2>2 DEF Entry
  <2> QED  BY <2>3 DEF m, u
<1>7. CASE s[1] \in Multiboot
  <2>1. s[1] \notin Linux /\ s[1] \notin Initrd /\ s[1] \notin Module
    BY <1>1, <1>7
  <2>2. Directive(s) = [cfg EXCEPT !.multiboot = path, !.mbargs = Cmdline(s)]
    BY <1>4, <1>7, <2>1
  <2>3. Entry(u, p, m) = Directive(s)
    BY <1>2, <1>3, <1>7, <2>1, <2>2 DEF Entry
  <2> QED  BY <2>3 DEF m, u
<1>8. CASE s[1] \in Module
  <2>1. s[1] \notin Linux /\ s[1] \notin Initrd /\ s[1] \notin Multiboot
    BY <1>1, <1>8
  <2>2. Directive(s) = [cfg EXCEPT !.modules = Append(@, <<path, Cmdline(s)>>)]
    BY <1>4, <1>8, <2>1
  <2>3. Entry(u, p, m) = Directive(s)
    BY <1>2, <1>3, <1>8, <2>1, <2>2 DEF Entry
  <2> QED  BY <2>3 DEF m, u
<1>9. CASE s[1] \notin Linux \cup Initrd \cup Multiboot \cup Module
  <2>1. Directive(s) = cfg
    BY <1>4, <1>9
  <2>2. Entry(u, p, m) = Entry(t, p, Len(t))
    BY <1>2, <1>3, <1>9 DEF Entry
  <2> QED  BY <2>1, <2>2 DEF m, u
<1> QED  BY <1>5, <1>6, <1>7, <1>8, <1>9
---------------------------------------------------------------------------
(* Where the entries of a file start and end.                              *)

LEMMA StartsType ==
  ASSUME NEW t \in Seq(Cfgs)
  PROVE  /\ Starts(t) \in SUBSET Int /\ IsFiniteSet(Starts(t))
         /\ Starts(t) \subseteq 1..Len(t) /\ Len(t) \in Nat
         /\ Starts(t) # {} =>
              Max(Starts(t)) \in Starts(t) /\ \A p \in Starts(t) : p <= Max(Starts(t))
<1>1. Len(t) \in Nat /\ Starts(t) \in SUBSET (1..Len(t)) /\ 1 \in Int /\ Len(t) \in Int
  BY DEF Starts
<1>2. Starts(t) \in SUBSET Int /\ IsFiniteSet(Starts(t))
  BY <1>1, LineNumbers
<1> QED  BY <1>1, <1>2, MaxIsGreatest

LEMMA StartsOfMore ==
  ASSUME NEW t \in Seq(Cfgs), NEW s \in Cfgs
  PROVE  Starts(Append(t, s)) = IF s[1] = "menuentry" THEN Starts(t) \cup {Len(t) + 1}
                                ELSE Starts(t)
<1> DEFINE m == Len(t) + 1
           u == Append(t, s)
<1>1. /\ \A k \in 1..Len(t) : u[k] = t[k] /\ k \in 1..m
      /\ \A k \in 1..m : k \in 1..Len(t) \/ k = m
      /\ m \in 1..m /\ u[m] = s /\ Len(u) = m
  BY OneMore
<1> HIDE DEF m, u
<1>2. CASE s[1] = "menuentry"
  <2>1. Starts(u) = Starts(t) \cup {m}
    BY <1>1, <1>2 DEF Starts
  <2> QED  BY <1>2, <2>1 DEF m, u
<1>3. CASE s[1] # "menuentry"
  <2>1. Starts(u) = Starts(t)
    BY <1>1, <1>3 DEF Starts
  <2> QED  BY <1>3, <2>1 DEF m, u
<1> QED  BY <1>2, <1>3

\* The last entry ends with the file, all others before the next one.
LEMMA EndType ==
  ASSUME NEW t \in Seq(Cfgs), NEW p \in Starts(t)
  PROVE  LET later == {q \in Starts(t) : q > p}
         IN  /\ p = Max(Starts(t)) => later = {} /\ End(t, p) = Len(t)
             /\ p < Max(Starts(t)) =>
                  /\ later # {} /\ End(t, p) = Min(later) - 1
                  /\ Min(later) \in later /\ \A q \in later : Min(later) <= q
             /\ End(t, p) \in Int /\ End(t, p) <= Len(t)
<1> DEFINE later == {q \in Starts(t) : q > p}
<1>1. /\ Starts(t) \in SUBSET Int /\ IsFiniteSet(Starts(t))
      /\ Starts(t) \subseteq 1..Len(t) /\ Len(t) \in Nat
      /\ Max(Starts(t)) \in Starts(t) /\ \A q \in Starts(t) : q <= Max(Starts(t))
  BY StartsType
<1>2. later \in SUBSET Int /\ IsFiniteSet(later)
  BY <1>1, FS_Subset
<1>3. later # {} => Min(later) \in later /\ \A q \in later : Min(later) <= q
  <2> HIDE DEF later
  <2> QED  BY <1>2, MinIsLeast
<1>4. End(t, p) = IF later = {} THEN Len(t) ELSE Min(later) - 1
  BY DEF End
<1>5. p = Max(Starts(t)) => later = {}
  BY <1>1
<1>6. p < Max(Starts(t)) => later # {}
  BY <1>1
<1>7. End(t, p) \in Int /\ End(t, p) <= Len(t)
  <2>1. CASE later = {}
    BY <1>1, <1>4, <2>1
  <2>2. CASE later # {}
    <3>1. Min(later) \in 1..Len(t)
      BY <1>1, <1>3, <2>2
    <3> HIDE DEF later
    <3> QED  BY <1>1, <1>4, <2>2, <3>1
  <2> QED  BY <2>1, <2>2
<1> HIDE DEF later
<1>8. /\ p = Max(Starts(t)) => later = {} /\ End(t, p) = Len(t)
      /\ p < Max(Starts(t)) =>
           /\ later # {} /\ End(t, p) = Min(later) - 1
           /\ Min(later) \in later /\ \A q \in later : Min(later) <= q
  BY <1>3, <1>4, <1>5, <1>6
<1> QED  BY <1>7, <1>8 DEF later

\* One more line leaves the entries before the last one as they are, and the
\* last one too if it starts another.
LEMMA SameEntryAt ==
  ASSUME NEW t \in Seq(Cfgs), NEW s \in Cfgs, NEW p \in Starts(t),
         p < Max(Starts(t)) \/ s[1] = "menuentry"
  PROVE  EntryAt(Append(t, s), p) = EntryAt(t, p)
<1> DEFINE m == Len(t) + 1
           u == Append(t, s)
           later(v) == {q \in Starts(v) : q > p}
<1>1. /\ Starts(t) \subseteq 1..Len(t) /\ Len(t) \in Nat
      /\ Max(Starts(t)) \in Starts(t) /\ \A q \in Starts(t) : q <= Max(Starts(t))
  BY StartsType
<1>2. p \in Nat \ {0} /\ p < m /\ End(t, p) \in Int /\ End(t, p) <= Len(t)
  <2>1. p \in 1..Len(t)
    BY <1>1
  <2>2. p \in Nat \ {0} /\ p < m
    BY <1>1, <2>1
  <2>3. End(t, p) \in Int /\ End(t, p) <= Len(t)
    BY EndType
  <2> QED  BY <2>2, <2>3
<1>3. End(u, p) = End(t, p)
  <2>1. CASE p < Max(Starts(t))
    <3>1. /\ later(t) # {} /\ End(t, p) = Min(later(t)) - 1
          /\ Min(later(t)) \in later(t) /\ \A q \in later(t) : Min(later(t)) <= q
      BY <2>1, EndType
    <3>2. later(u) = later(t) \/ later(u) = later(t) \cup {m}
      BY <1>2, StartsOfMore
    <3>3. Min(later(t)) \in 1..Len(t) /\ later(t) \subseteq 1..Len(t)
      BY <1>1, <3>1
    <3>4. Min(later(t) \cup {m}) = Min(later(t))
      <4> DEFINE L == later(t)
      <4>1. Min(L) \in L \cup {m} /\ \A q \in L \cup {m} : Min(L) <= q
        <5>1. Min(L) \in L /\ \A q \in L : Min(L) <= q
          BY <3>1
        <5>2. Min(L) <= m
          <6> HIDE DEF L
          <6> QED  BY <1>1, <3>3 DEF L
        <5> HIDE DEF L, m
        <5> QED  BY <5>1, <5>2
      <4>2. Min(L \cup {m}) \in L \cup {m} /\ \A q \in L \cup {m} : Min(L \cup {m}) =< q
        <5> HIDE DEF L, m
        <5> QED  BY <4>1 DEF Min
      <4>3. \A q \in L \cup {m} : q \in Int
        BY <1>1, <3>3
      <4> HIDE DEF L, m
      <4>4. Min(L \cup {m}) <= Min(L) /\ Min(L) <= Min(L \cup {m})
        BY <4>1, <4>2
      <4>5. Min(L) \in Int /\ Min(L \cup {m}) \in Int
        BY <4>1, <4>2, <4>3
      <4> QED  BY <4>4, <4>5 DEF L
    <3>5. Min(later(u)) = Min(later(t)) /\ later(u) # {}
      <4> HIDE DEF later
      <4> QED  BY <3>1, <3>2, <3>4
    <3>6. End(u, p) = Min(later(u)) - 1
      BY <3>5 DEF End
    <3> QED  BY <3>1, <3>5, <3>6
  <2>2. CASE p = Max(Starts(t)) /\ s[1] = "menuentry"
    <3>1. later(t) = {} /\ End(t, p) = Len(t)
      BY <2>2, EndType
    <3>2. later(u) = {m}
      BY <1>2, <2>2, <3>1, StartsOfMore
    <3>3. Min({m}) = m
      <4>1. m \in Int
        BY <1>1
      <4>2. \E x \in {m} : \A y \in {m} : x =< y
        BY <4>1
      <4> HIDE DEF m
      <4> QED  BY <4>2 DEF Min
    <3>4. End(u, p) = m - 1
      BY <3>2, <3>3 DEF End
    <3> QED  BY <1>1, <3>1, <3>4
  <2> QED  BY <1>1, <2>1, <2>2
<1>4. Entry(u, p, End(t, p)) = Entry(t, p, End(t, p))
  BY <1>2, SameEntry
<1> HIDE DEF u
<1>5. EntryAt(u, p) = EntryAt(t, p)
  BY <1>3, <1>4 DEF EntryAt
<1> QED  BY <1>5 DEF u

\* A listing with one more entry at its end.
LEMMA ListingOfMore ==
  ASSUME NEW t, NEW J \in SUBSET Int, IsFiniteSet(J), NEW m \in Int, \A j \in J : j < m
  PROVE  Listing(t, J \cup {m}) = Append(Listing(t, J), EntryAt(t, m))
<1> DEFINE K == J \cup {m}
           c == Cardinality(J)
<1>1. /\ c \in Nat /\ Cardinality(K) = c + 1 /\ InOrder(K)[c + 1] = m
      /\ \A k \in 1..c : InOrder(K)[k] = InOrder(J)[k]
  BY InOrderOfMore
<1>2. /\ Listing(t, K) = [k \in 1..(c + 1) |-> EntryAt(t, InOrder(K)[k])]
      /\ Listing(t, J) = [k \in 1..c |-> EntryAt(t, InOrder(J)[k])]
  BY <1>1 DEF Listing
<1> HIDE DEF K, c
<1>3. Listing(t, K) = Append(Listing(t, J), EntryAt(t, m))
  BY <1>1, <1>2
<1> QED  BY <1>3 DEF K

LEMMA SameListing ==
  ASSUME NEW t, NEW u, NEW J \in SUBSET Int, IsFiniteSet(J),
         \A j \in J : EntryAt(u, j) = EntryAt(t, j)
  PROVE  Listing(u, J) = Listing(t, J)
<1>1. \A k \in 1..Cardinality(J) : InOrder(J)[k] \in J
  BY InOrderType
<1> QED  BY <1>1 DEF Listing

LEMMA EmptyListing ==
  ASSUME NEW t
  PROVE  Listing(t, {}) = <<>>
<1>1. Cardinality({}) = 0
  BY FS_EmptySet
<1> QED  BY <1>1 DEF Listing

\* What the parser has, with the entry that it is in, is what the lines say.
LEMMA ParserReads ==
  ASSUME text \in Seq(Cfgs), pc = "parse", ParserKnown
  PROVE  WithEntry = Entries(text)
<1> DEFINE S == Starts(text)
           V == {p \in S : IsValid(EntryAt(text, p))}
<1>0. Entries(text) = Listing(text, V)
  BY DEF Entries, Listing
<1>1. CASE S = {}
  <2>1. V = {} /\ WithEntry = <<>>
    BY <1>1 DEF ParserKnown, WithEntry
  <2> QED  BY <1>0, <2>1, EmptyListing
<1>2. CASE S # {}
  <2> DEFINE p == Max(S)
  <2>1. /\ S \in SUBSET Int /\ IsFiniteSet(S) /\ p \in S /\ \A q \in S : q <= p
    BY <1>2, StartsType
  <2>2. EntryAt(text, p) = cfg
    BY <1>2, <2>1, EndType DEF EntryAt, ParserKnown
  <2>3. cfg # NoConfig /\ bootconfigs = Listing(text, Closed(text))
    BY <1>2, GrubParserAssumption DEF ParserKnown
  <2>4. Closed(text) \in SUBSET Int /\ IsFiniteSet(Closed(text)) /\ p \in Int
        /\ \A q \in Closed(text) : q < p
    BY <2>1, FS_Subset DEF Closed
  <2>5. \A q \in S : q < p \/ q = p
    BY <2>1
  <2>6. CASE IsValid(cfg)
    <3>1. V = Closed(text) \cup {p}
      BY <2>1, <2>2, <2>5, <2>6 DEF Closed
    <3>2. Listing(text, V) = Append(Listing(text, Closed(text)), cfg)
      <4> HIDE DEF p, V
      <4> QED  BY <2>2, <2>4, <3>1, ListingOfMore
    <3> QED  BY <1>0, <2>3, <2>6, <3>2 DEF WithEntry
  <2>7. CASE ~IsValid(cfg)
    <3>1. V = Closed(text)
      BY <2>1, <2>2, <2>5, <2>7 DEF Closed
    <3> QED  BY <1>0, <2>3, <2>7, <3>1 DEF WithEntry
  <2> QED  BY <2>6, <2>7
<1> QED  BY <1>1, <1>2
---------------------------------------------------------------------------
(* The parser.                                                             *)

\* What the lines say depends on the media, the place of the file and its
\* version, and on nothing else.
LEMMA SameReading ==
  ASSUME UNCHANGED <<media, basedir, ver>>
  PROVE  /\ \A s : Searches(s)' = Searches(s) /\ Searched(s)' = Searched(s)
         /\ \A t, p, e : Entry(t, p, e)' = Entry(t, p, e) /\ DirAt(t, p, e)' = DirAt(t, p, e)
         /\ \A t : Closed(t)' = Closed(t)
         /\ \A t, J : Listing(t, J)' = Listing(t, J)
<1>1. \A s : Cmdline(s)' = Cmdline(s)
  BY DEF Cmdline
<1>2. \A uuid : Having(uuid)' = Having(uuid)
  BY DEF Having, getUUID
<1>3. \A s : Named(s)' = Named(s)
  BY <1>2 DEF Named
<1>4. \A s : Searches(s)' = Searches(s) /\ Searched(s)' = Searched(s)
  BY <1>2, <1>3 DEF Searches, Searched
<1>5. \A t, p, e : DirAt(t, p, e)' = DirAt(t, p, e)
  BY <1>4 DEF DirAt
<1>6. \A t, p, j : PathAt(t, p, j)' = PathAt(t, p, j)
  BY <1>5 DEF PathAt
<1>7. \A t, p, j : ModuleOf(t, p, j)' = ModuleOf(t, p, j)
  BY <1>1, <1>6 DEF ModuleOf
<1>8. \A t, p, e : ModulesOf(t, p, e)' = ModulesOf(t, p, e)
  BY <1>7 DEF ModulesOf
<1>9. \A t, p, e, ops : /\ FileOf(t, p, e, ops)' = FileOf(t, p, e, ops)
                        /\ ArgsOf(t, p, e, ops)' = ArgsOf(t, p, e, ops)
  BY <1>1, <1>6 DEF FileOf, ArgsOf
<1>10. \A t, p, e : Entry(t, p, e)' = Entry(t, p, e)
  BY <1>8, <1>9 DEF Entry
<1>11. \A t, p : EntryAt(t, p)' = EntryAt(t, p)
  BY <1>10 DEF EntryAt
<1>12. \A t : Closed(t)' = Closed(t)
  BY <1>11 DEF Closed
<1>13. \A t, J : Listing(t, J)' = Listing(t, J)
  BY <1>11 DEF Listing
<1> QED  BY <1>4, <1>5, <1>10, <1>12, <1>13

\* What the list of devices is searched for is what is on the devices.
LEMMA ListedPartitions ==
  ASSUME Listed(Len(Sys)), NEW uuid
  PROVE  /\ PartitionsByFsUUID(uuid) = Having(uuid)
         /\ Having(uuid) # {} =>
              /\ Min(Having(uuid)) \in 1..Len(Sys)
              /\ devices[Min(Having(uuid))].name = Sys[Min(Having(uuid))]
              /\ Sys[Min(Having(uuid))] \in SysDevices
<1>0. Sys \in Seq(SysDevices) /\ Len(Sys) \in Nat
  BY StorageAssumption
<1>1. /\ Len(devices) = Len(Sys)
      /\ \A i \in 1..Len(Sys) :
           devices[i].uuid = getUUID(media[Sys[i]]) /\ devices[i].name = Sys[i]
  <2> DEFINE known(i) == [name |-> Sys[i], uuid |-> getUUID(media[Sys[i]])]
  <2>1. Len(devices) = Len(Sys) /\ \A i \in 1..Len(Sys) : devices[i] = known(i)
    BY DEF Listed
  <2>2. \A i : known(i).uuid = getUUID(media[Sys[i]]) /\ known(i).name = Sys[i]
    OBVIOUS
  <2> HIDE DEF known
  <2> QED  BY <2>1, <2>2
<1>2. PartitionsByFsUUID(uuid) = Having(uuid)
  BY <1>1 DEF PartitionsByFsUUID, Having
<1>3. Having(uuid) \in SUBSET (1..Len(Sys)) /\ 1 \in Int /\ Len(Sys) \in Int
  BY <1>0 DEF Having
<1>4. Having(uuid) \in SUBSET Int /\ IsFiniteSet(Having(uuid))
  BY <1>3, LineNumbers
<1>5. Having(uuid) # {} => Min(Having(uuid)) \in Having(uuid)
  BY <1>4, MinIsLeast
<1>6. Having(uuid) # {} => Min(Having(uuid)) \in 1..Len(Sys)
  BY <1>3, <1>5
<1> QED  BY <1>0, <1>1, <1>2, <1>6

\* The search directive leads where the line says.
LEMMA SearchReads ==
  ASSUME Listed(Len(Sys)), NEW s \in Cfgs
  PROVE  /\ Search(s) = IF Searches(s) THEN Searched(s) ELSE kernelBasedir
         /\ Searches(s) => Searched(s) \in SysDevices
<1>1. s \in Seq(Words) /\ Len(s) \in Int /\ 1 \in Int
  BY LineType
<1>2. Hits(s) = Named(s)
  BY ListedPartitions DEF Hits, Named, isValidFsUUID
<1>3. Named(s) \in SUBSET (1..Len(s))
  BY DEF Named
<1>4. Named(s) \in SUBSET Int /\ IsFiniteSet(Named(s))
  BY <1>1, <1>3, LineNumbers
<1>5. Named(s) # {} => Max(Named(s)) \in Named(s)
  BY <1>4, MaxIsGreatest
<1>6. Named(s) # {} => Having(s[Max(Named(s))]) # {}
  BY <1>5 DEF Named
<1>7. CASE Searches(s)
  <2>1. Hits(s) = Named(s) /\ Named(s) # {} /\ Having(s[Max(Named(s))]) # {}
    BY <1>2, <1>6, <1>7 DEF Searches
  <2>2. Search(s) = devices[Min(Having(s[Max(Named(s))]))].name
    BY <1>7, <2>1, ListedPartitions DEF Search, Searches
  <2> QED  BY <1>7, <2>1, <2>2, ListedPartitions DEF Searched
<1>8. CASE ~Searches(s)
  BY <1>2, <1>8 DEF Search, Searches
<1> QED  BY <1>7, <1>8

\* A directive gives a configuration.
LEMMA DirectiveType ==
  ASSUME NEW s \in Cfgs, Len(s) > 1, cfg \in ConfigType, Search(s) \in SysDevices
  PROVE  Directive(s) \in ConfigType
<1>1. s \in Seq(Words) /\ Len(s) \in Nat /\ s[2] \in Words
  BY LineType
<1>2. Cmdline(s) \in Line
  <2>1. \A i \in 1..(Len(s) - 2) : s[i + 2] \in Words /\ Plain[s[i + 2]] \in Words
    BY <1>1, GrubParserAssumption
  <2>2. Cmdline(s) \in [1..(Len(s) - 2) -> Words] /\ Len(s) - 2 \in Nat
    BY <1>1, <2>1 DEF Cmdline
  <2> QED  BY <2>2 DEF Line
<1> DEFINE path == <<Search(s), s[2]>>
<1>3. path \in Path
  BY <1>1 DEF Path
<1>4. Directive(s) = CASE s[1] \in Linux     -> [cfg EXCEPT !.kernel = path, !.args = Cmdline(s)]
                       [] s[1] \in Initrd    -> [cfg EXCEPT !.initramfs = path]
                       [] s[1] \in Multiboot -> [cfg EXCEPT !.multiboot = path, !.mbargs = Cmdline(s)]
                       [] s[1] \in Module    -> [cfg EXCEPT !.modules = Append(@, <<path, Cmdline(s)>>)]
                       [] OTHER              -> cfg
  BY DEF Directive
<1> HIDE DEF path
<1>5. [cfg EXCEPT !.kernel = path, !.args = Cmdline(s)] \in ConfigType
  BY <1>2, <1>3 DEF ConfigType
<1>6. [cfg EXCEPT !.initramfs = path] \in ConfigType
  BY <1>3 DEF ConfigType
<1>7. [cfg EXCEPT !.multiboot = path, !.mbargs = Cmdline(s)] \in ConfigType
  BY <1>2, <1>3 DEF ConfigType
<1>8. [cfg EXCEPT !.modules = Append(@, <<path, Cmdline(s)>>)] \in ConfigType
  <2>1. <<path, Cmdline(s)>> \in Path \X Line /\ cfg.modules \in Seq(Path \X Line)
    BY <1>2, <1>3 DEF ConfigType
  <2>2. Append(cfg.modules, <<path, Cmdline(s)>>) \in Seq(Path \X Line)
    BY <2>1
  <2> QED  BY <2>2 DEF ConfigType
<1> QED  BY <1>4, <1>5, <1>6, <1>7, <1>8

\* The parser remains in the last entry with each line that it reads.
LEMMA ParserStep ==
  ASSUME text \in Seq(Cfgs), cfg \in ConfigType \cup {NoConfig},
         bootconfigs \in Seq(ConfigType), kernelBasedir \in SysDevices,
         basedir \in SysDevices, pc = "parse", Listed(Len(Sys)), ParserKnown,
         NEW s \in Cfgs, ParseLine(s), UNCHANGED <<media, basedir>>
  PROVE  /\ ParserKnown'
         /\ text' \in Seq(Cfgs) /\ ver' = ver
         /\ cfg' \in ConfigType \cup {NoConfig} /\ bootconfigs' \in Seq(ConfigType)
         /\ kernelBasedir' \in SysDevices
<1> DEFINE t == text
           u == Append(text, s)
           m == Len(text) + 1
<1>1. /\ text' = u /\ u \in Seq(Cfgs) /\ Len(u) = m /\ Len(t) \in Nat /\ m \in Int
      /\ ver' = ver
  BY OneMore DEF ParseLine
<1>2. /\ \A q, j, e : Entry(q, j, e)' = Entry(q, j, e) /\ DirAt(q, j, e)' = DirAt(q, j, e)
      /\ \A q : Closed(q)' = Closed(q)
      /\ \A q, J : Listing(q, J)' = Listing(q, J)
  BY <1>1, SameReading
<1>3. /\ Starts(t) \in SUBSET Int /\ IsFiniteSet(Starts(t)) /\ Starts(t) \subseteq 1..Len(t)
      /\ Starts(t) # {} =>
           Max(Starts(t)) \in Starts(t) /\ \A p \in Starts(t) : p <= Max(Starts(t))
  BY StartsType
<1>4. CASE s[1] = "menuentry"
  <2>1. bootconfigs' = WithEntry /\ cfg' = EmptyConfig /\ kernelBasedir' = basedir
    BY <1>4 DEF ParseLine, Menuentry
  <2>2. Starts(u) = Starts(t) \cup {m}
    BY <1>4, StartsOfMore
  <2>3. Max(Starts(u)) = m
    <3>1. \A j \in Starts(t) : j <= m
      BY <1>1, <1>3
    <3> HIDE DEF m, u
    <3> QED  BY <1>1, <1>3, <2>2, <3>1, MaxOfMore
  <2>4. m \in 1..(Len(t) + 1) /\ Len(t) \in Int /\ Len(t) < m
    BY <1>1
  <2>5. Entry(t, m, Len(t)) = EmptyConfig /\ DirAt(t, m, Len(t)) = basedir
    <3> HIDE DEF m
    <3> QED  BY <1>1, <2>4, NoLines
  <2>6. Entry(u, m, m) = EmptyConfig
    <3>1. \A ops \in {Linux, Initrd, Multiboot, Module} : ~Takes(s, ops)
      BY <1>4 DEF Takes, Linux, Initrd, Multiboot, Module
    <3>2. Entry(u, m, m) = Entry(t, m, Len(t))
      BY <2>4, <3>1, EntryOfNone
    <3> QED  BY <2>5, <3>2
  <2>7. DirAt(u, m, m) = basedir
    <3>1. ~Searches(s)
      BY <1>4 DEF Searches
    <3>2. DirAt(u, m, m) = DirAt(t, m, Len(t))
      BY <2>4, <3>1, DirOfMore
    <3> QED  BY <2>5, <3>2
  <2>8. bootconfigs' = Listing(u, Closed(u))
    <3> DEFINE V == {p \in Starts(t) : IsValid(EntryAt(t, p))}
    <3>1. WithEntry = Listing(t, V)
      BY ParserReads DEF Entries, Listing
    <3>2. \A p \in Starts(t) : EntryAt(u, p) = EntryAt(t, p)
      BY <1>4, SameEntryAt
    <3>3. \A p \in Starts(t) : p < m
      BY <1>1, <1>3
    <3>4. ~(m < m)
      BY <1>1
    <3>5. Closed(u) = V
      <4> HIDE DEF u, m
      <4> QED  BY <2>2, <2>3, <3>2, <3>3, <3>4 DEF Closed
    <3>6. V \in SUBSET Int /\ IsFiniteSet(V) /\ V \subseteq Starts(t)
      BY <1>3, FS_Subset
    <3>7. Listing(u, V) = Listing(t, V)
      <4> HIDE DEF u, V
      <4> QED  BY <3>2, <3>6, SameListing
    <3> QED  BY <2>1, <3>1, <3>5, <3>7
  <2>9. EmptyConfig \in ConfigType
    BY DEF EmptyConfig, ConfigType, Line
  <2>10. WithEntry \in Seq(ConfigType)
    BY DEF WithEntry
  <2>11. ParserKnown'
    <3>1. Starts(u) # {}
      BY <2>2
    <3> HIDE DEF u, m
    <3> QED  BY <1>1, <1>2, <2>1, <2>3, <2>6, <2>7, <2>8, <2>9, <3>1 DEF ParserKnown
  <2> QED  BY <1>1, <2>1, <2>9, <2>10, <2>11
<1>5. CASE s[1] # "menuentry" /\ Starts(t) = {}
  <2>1. cfg = NoConfig /\ kernelBasedir = basedir /\ bootconfigs = <<>>
    BY <1>5 DEF ParserKnown
  <2>2. UNCHANGED <<kernelBasedir, cfg, bootconfigs>>
    BY <1>5, <2>1 DEF ParseLine
  <2>3. Starts(u) = {}
    BY <1>5, StartsOfMore
  <2>4. ParserKnown'
    <3> HIDE DEF u, m
    <3> QED  BY <1>1, <2>1, <2>2, <2>3 DEF ParserKnown
  <2> QED  BY <1>1, <2>2, <2>4
<1>6. CASE s[1] # "menuentry" /\ Starts(t) # {}
  <2> DEFINE p == Max(Starts(t))
  <2>1. /\ cfg \in ConfigType /\ cfg = Entry(t, p, Len(t))
        /\ kernelBasedir = DirAt(t, p, Len(t))
        /\ bootconfigs = Listing(t, Closed(t))
    BY <1>6 DEF ParserKnown
  <2>2. cfg # NoConfig
    BY <2>1, GrubParserAssumption
  <2>3. /\ kernelBasedir' = Search(s)
        /\ cfg' = IF Len(s) < 2 THEN cfg ELSE Directive(s)
        /\ bootconfigs' = bootconfigs
    BY <1>6, <2>2 DEF ParseLine, InMenuEntry
  <2>4. Starts(u) = Starts(t)
    BY <1>6, StartsOfMore
  <2>5. p \in Starts(t) /\ p \in 1..(Len(t) + 1) /\ \A q \in Starts(t) : q <= p
    BY <1>1, <1>3, <1>6
  <2>6. /\ Search(s) = IF Searches(s) THEN Searched(s) ELSE kernelBasedir
        /\ Searches(s) => Searched(s) \in SysDevices
    BY SearchReads
  <2>7. Search(s) = DirAt(u, p, m) /\ Search(s) \in SysDevices
    <3>1. DirAt(u, p, m) = IF Searches(s) THEN Searched(s) ELSE DirAt(t, p, Len(t))
      <4> HIDE DEF p
      <4> QED  BY <2>5, DirOfMore
    <3> HIDE DEF u, m, p
    <3> QED  BY <2>1, <2>6, <3>1
  <2>8. cfg' = Entry(u, p, m) /\ cfg' \in ConfigType
    <3>1. CASE Len(s) < 2
      <4>1. \A ops \in {Linux, Initrd, Multiboot, Module} : ~Takes(s, ops)
        BY <3>1, LineType DEF Takes
      <4>2. Entry(u, p, m) = Entry(t, p, Len(t))
        <5> HIDE DEF p
        <5> QED  BY <2>5, <4>1, EntryOfNone
      <4> QED  BY <2>1, <2>3, <3>1, <4>2
    <3>2. CASE ~(Len(s) < 2)
      <4>1. Len(s) > 1
        BY <3>2, LineType
      <4>2. Entry(u, p, m) = Directive(s)
        <5> HIDE DEF p
        <5> QED  BY <2>1, <2>5, <2>7, <4>1, EntryOfMore
      <4>3. Directive(s) \in ConfigType
        BY <2>1, <2>7, <4>1, DirectiveType
      <4> QED  BY <2>3, <3>2, <4>2, <4>3
    <3> QED  BY <3>1, <3>2
  <2>9. bootconfigs' = Listing(u, Closed(u))
    <3>1. \A q \in Starts(t) : q < p => EntryAt(u, q) = EntryAt(t, q)
      BY SameEntryAt
    <3>2. Closed(u) = Closed(t)
      <4> HIDE DEF u
      <4> QED  BY <2>4, <3>1 DEF Closed
    <3>3. Closed(t) \in SUBSET Int /\ IsFiniteSet(Closed(t))
          /\ \A q \in Closed(t) : q \in Starts(t) /\ q < p
      BY <1>3, FS_Subset DEF Closed
    <3>4. Listing(u, Closed(t)) = Listing(t, Closed(t))
      <4> HIDE DEF u, p
      <4> QED  BY <3>1, <3>3, SameListing
    <3> QED  BY <2>1, <2>3, <3>2, <3>4
  <2>10. ParserKnown'
    <3> HIDE DEF u, m
    <3> QED  BY <1>1, <1>2, <1>6, <2>3, <2>4, <2>7, <2>8, <2>9 DEF ParserKnown
  <2> QED  BY <1>1, <2>3, <2>7, <2>8, <2>10
<1> QED  BY <1>4, <1>5, <1>6
---------------------------------------------------------------------------
(* The walk.                                                               *)

LEMMA PrefixElements ==
  ASSUME NEW S, NEW s \in Seq(S), NEW t \in Seq(S), IsStrictPrefix(s, t)
  PROVE  /\ Len(s) \in Nat /\ Len(t) \in Nat /\ Len(s) < Len(t)
         /\ \A i \in 1..Len(s) : t[i] = s[i]
<1>1. /\ Len(s) \in Nat /\ Len(t) \in Nat /\ Len(s) <= Len(t) /\ s # t
      /\ SubSeq(s, 1, Len(s)) = SubSeq(t, 1, Len(s))
  BY DEF IsStrictPrefix, IsPrefix
<1>2. \A i \in 1..Len(s) : SubSeq(s, 1, Len(s))[i] = s[i] /\ SubSeq(t, 1, Len(s))[i] = t[i]
  BY <1>1
<1>3. \A i \in 1..Len(s) : t[i] = s[i]
  BY <1>1, <1>2
<1>4. ASSUME Len(s) = Len(t) PROVE s = t
  BY <1>3, <1>4
<1> QED  BY <1>1, <1>3, <1>4

\* The directory that a path begins with.
LEMMA AncestorIsPrefix ==
  ASSUME NEW S, NEW t \in Seq(S), NEW m \in 1..(Len(t) - 1)
  PROVE  LET s == SubSeq(t, 1, m)
         IN  /\ s \in Seq(S) /\ Len(s) = m /\ s[1] = t[1] /\ s # <<>>
             /\ IsStrictPrefix(s, t)
<1> DEFINE s == SubSeq(t, 1, m)
<1>1. Len(t) \in Nat /\ m \in Nat /\ 1 <= m /\ m < Len(t)
  OBVIOUS
<1>2. s \in Seq(S) /\ Len(s) = m /\ \A i \in 1..m : s[i] = t[i]
  BY <1>1
<1>3. s[1] = t[1] /\ s # <<>>
  BY <1>1, <1>2
<1>4. SubSeq(s, 1, m) = s
  <2> HIDE DEF s
  <2> QED  BY <1>1, <1>2
<1>5. IsStrictPrefix(s, t)
  <2>1. s # t
    BY <1>1, <1>2
  <2> HIDE DEF s
  <2>2. Len(s) <= Len(t)
    BY <1>1, <1>2
  <2> QED  BY <1>2, <1>4, <2>1, <2>2 DEF IsStrictPrefix, IsPrefix, s
<1> QED  BY <1>2, <1>3, <1>5

LEMMA TreeType ==
  ASSUME tree \in Trees
  PROVE  /\ Len(tree) \in Nat /\ IsWalk(tree)
         /\ \A k \in 1..Len(tree) :
              tree[k] \in Node /\ tree[k].path \in Seq(Names) /\ tree[k].dir \in BOOLEAN
<1>1. tree \in Seq(Node) /\ IsWalk(tree)
  BY GrubScanAssumption
<1>2. \A k \in 1..Len(tree) : tree[k] \in Node
  BY <1>1
<1> QED  BY <1>1, <1>2 DEF Node

\* In a directory that the walk skips there is nothing to find.
LEMMA NothingBelow ==
  ASSUME tree \in Trees, NEW k \in 1..Len(tree), Skips(tree[k].path),
         NEW j \in 1..Len(tree), IsStrictPrefix(tree[k].path, tree[j].path)
  PROVE  ~Relevant(j)
<1> DEFINE p == tree[k].path
           q == tree[j].path
<1>1. p \in Seq(Names) /\ q \in Seq(Names)
  BY TreeType
<1>2. Len(p) \in Nat /\ Len(q) \in Nat /\ Len(p) < Len(q) /\ \A i \in 1..Len(p) : q[i] = p[i]
  <2> HIDE DEF p, q
  <2> QED  BY <1>1, PrefixElements DEF p, q
<1>3. CASE Len(p) = 1 /\ StripMarks(p)[1] \notin SearchDirs
  <2>1. StripMarks(p)[1] = Stripped[p[1]]
    BY <1>3 DEF StripMarks
  <2>2. q[1] = p[1] /\ Len(q) # 1
    <3> HIDE DEF p, q
    <3>1. 1 \in 1..Len(p)
      BY <1>3
    <3>2. q[1] = p[1]
      BY <1>2, <3>1
    <3>3. Len(q) # 1
      <4> DEFINE a == Len(p)
                 b == Len(q)
      <4>1. a < b /\ a = 1 /\ b \in Nat
        BY <1>2, <1>3
      <4>2. b # 1
        <5> HIDE DEF a, b
        <5> QED  BY <4>1
      <4> QED  BY <4>2
    <3> QED  BY <3>2, <3>3
  <2> HIDE DEF p
  <2> QED  BY <1>3, <2>1, <2>2 DEF Relevant
<1>4. CASE Depth(p) > searchDepth
  <2>1. Len(p) > searchDepth
    BY <1>1, <1>4 DEF Depth, searchDepth
  <2>2. ~(Len(q) <= searchDepth + 1)
    BY <1>2, <2>1 DEF searchDepth
  <2> QED  BY <2>2 DEF Relevant
<1> QED  BY <1>3, <1>4 DEF Skips

\* The walk is at no file that it should not parse.
LEMMA FileIsRelevant ==
  ASSUME tree \in Trees, pc = "parse", n \in Nat \ {0}, WalkKnown
  PROVE  Relevant(n)
<1> DEFINE p == tree[n].path
           Above(m) == [path |-> SubSeq(p, 1, m), dir |-> TRUE]
<1>1. n \in 1..Len(tree) /\ ~tree[n].dir /\ Version(p) > 0
  BY TreeType DEF WalkKnown
<1>2. p \in Seq(Names) /\ Len(p) \in Nat \ {0}
  <2>1. p \in Seq(Names) /\ p # <<>>
    BY <1>1, TreeType DEF IsWalk
  <2> HIDE DEF p
  <2> QED  BY <2>1
<1>3. Last(p) \in {"grub.cfg", "grub2.cfg"}
  <2> HIDE DEF p
  <2> QED  BY <1>1 DEF Version
<1>4. ASSUME NEW m \in 1..(Len(p) - 1) PROVE ~Skips(SubSeq(p, 1, m))
  <2>1. m \in 0..(Len(p) - 1)
    BY <1>2
  <2>2. Above(m) \in {tree[i] : i \in 1..(n - 1)}
    BY <1>1, <2>1, TreeType DEF IsWalk
  <2>3. PICK i \in 1..(n - 1) : tree[i] = Above(m)
    BY <2>2
  <2>4. tree[i].dir /\ tree[i].path = SubSeq(p, 1, m)
    BY <2>3
  <2>5. IsStrictPrefix(SubSeq(p, 1, m), p)
    <3> HIDE DEF p
    <3> QED  BY <1>2, AncestorIsPrefix
  <2> QED  BY <1>1, <2>4, <2>5, TreeType DEF WalkKnown
<1>5. Len(p) # 1 => Stripped[p[1]] \in SearchDirs
  <2> SUFFICES ASSUME Len(p) # 1 PROVE Stripped[p[1]] \in SearchDirs
    OBVIOUS
  <2> HIDE DEF p
  <2>1. 1 \in 1..(Len(p) - 1)
    <3> DEFINE l == Len(p)
    <3>1. l \in Nat \ {0} /\ l # 1
      BY <1>2
    <3> HIDE DEF l
    <3>2. 1 \in 1..(l - 1)
      BY <3>1
    <3> QED  BY <3>2 DEF l
  <2> DEFINE d == SubSeq(p, 1, 1)
  <2>2. Len(d) = 1 /\ d[1] = p[1]
    BY <1>2, <2>1, AncestorIsPrefix
  <2>3. ~Skips(d)
    BY <1>4, <2>1
  <2> HIDE DEF d
  <2>4. StripMarks(d)[1] = Stripped[d[1]]
    BY <2>2 DEF StripMarks
  <2> QED  BY <2>2, <2>3, <2>4 DEF Skips
<1>6. Len(p) <= searchDepth + 1
  <2> SUFFICES ASSUME ~(Len(p) <= 5) PROVE FALSE
    BY DEF searchDepth
  <2> HIDE DEF p
  <2>1. 5 \in 1..(Len(p) - 1)
    BY <1>2
  <2> DEFINE d == SubSeq(p, 1, 5)
  <2>2. Len(d) = 5 /\ d # <<>>
    BY <1>2, <2>1, AncestorIsPrefix
  <2>3. ~Skips(d)
    BY <1>4, <2>1
  <2> HIDE DEF d
  <2> QED  BY <2>2, <2>3 DEF Skips, Depth, searchDepth
<1> QED  BY <1>1, <1>3, <1>5, <1>6 DEF Relevant

LEMMA PrefixOfPrefix ==
  ASSUME NEW S, NEW s \in Seq(S), NEW t \in Seq(S), NEW u \in Seq(S),
         IsStrictPrefix(s, t), IsStrictPrefix(t, u)
  PROVE  IsStrictPrefix(s, u)
<1>1. /\ Len(s) \in Nat /\ Len(t) \in Nat /\ Len(s) < Len(t)
      /\ \A i \in 1..Len(s) : t[i] = s[i]
  BY PrefixElements
<1>2. Len(u) \in Nat /\ Len(t) < Len(u) /\ \A i \in 1..Len(t) : u[i] = t[i]
  BY PrefixElements
<1>3. Len(s) < Len(u) /\ \A i \in 1..Len(s) : u[i] = s[i]
  BY <1>1, <1>2
<1> DEFINE v == SubSeq(s, 1, Len(s))
           w == SubSeq(u, 1, Len(s))
<1>4. /\ v \in Seq(S) /\ Len(v) = Len(s) /\ \A i \in 1..Len(s) : v[i] = s[i]
      /\ w \in Seq(S) /\ Len(w) = Len(s) /\ \A i \in 1..Len(s) : w[i] = u[i]
  BY <1>1, <1>2, <1>3
<1>5. v = w
  <2> HIDE DEF v, w
  <2> QED  BY <1>1, <1>3, <1>4
<1>6. s # u /\ Len(s) <= Len(u)
  BY <1>1, <1>2, <1>3
<1> QED  BY <1>5, <1>6 DEF IsStrictPrefix, IsPrefix

\* What the walk comes to next is in no directory that it has skipped, or jumped
\* over with one that it skips.
LEMMA NotBelowSkipped ==
  ASSUME tree \in Trees, NEW i \in 1..Len(tree), NEW j \in 1..Len(tree), i < j,
         \A k \in 1..(i - 1) : tree[k].dir /\ Skips(tree[k].path) =>
           ~IsStrictPrefix(tree[k].path, tree[i].path),
         tree[i].dir /\ Skips(tree[i].path) => ~IsStrictPrefix(tree[i].path, tree[j].path),
         \A k \in (i + 1)..(j - 1) : /\ tree[i].dir /\ Skips(tree[i].path)
                                     /\ IsStrictPrefix(tree[i].path, tree[k].path),
         NEW k \in 1..(j - 1), tree[k].dir, Skips(tree[k].path)
  PROVE  ~IsStrictPrefix(tree[k].path, tree[j].path)
<1>0. Len(tree) \in Nat /\ k \in 1..Len(tree)
  BY TreeType
<1>1. CASE k = i
  BY <1>1
<1>2. CASE k < i
  <2>1. k \in 1..(i - 1) /\ k < j /\ i \in (k + 1)..j
    BY <1>2
  <2>2. ~IsStrictPrefix(tree[k].path, tree[i].path)
    BY <2>1
  <2>3. IsStrictPrefix(tree[k].path, tree[j].path) =>
          \A h \in (k + 1)..j : IsStrictPrefix(tree[k].path, tree[h].path)
    BY <1>0, <2>1, TreeType DEF IsWalk
  <2> QED  BY <2>1, <2>2, <2>3
<1>3. CASE k > i
  <2>1. k \in (i + 1)..(j - 1)
    BY <1>3
  <2>2. /\ IsStrictPrefix(tree[i].path, tree[k].path)
        /\ ~IsStrictPrefix(tree[i].path, tree[j].path)
    BY <2>1
  <2>3. /\ tree[i].path \in Seq(Names) /\ tree[j].path \in Seq(Names)
        /\ tree[k].path \in Seq(Names)
    BY <1>0, TreeType
  <2> QED  BY <2>2, <2>3, PrefixOfPrefix
<1> QED  BY <1>1, <1>2, <1>3

LEMMA SameRelevant ==
  ASSUME UNCHANGED tree
  PROVE  \A k : Relevant(k)' <=> Relevant(k)
  BY DEF Relevant

LEMMA Between ==
  ASSUME NEW a \in Int, NEW b \in Int, a < b
  PROVE  /\ \A k \in 1..(a - 1) : k \in 1..(b - 1)
         /\ \A k \in 1..(b - 1) : k \in 1..(a - 1) \/ k \in a..(b - 1)
  OBVIOUS

LEMMA ParsedType ==
  ASSUME TypeOK
  PROVE  /\ Len(parsed) \in Nat
         /\ \A i \in 1..Len(parsed) :
              /\ parsed[i].place \in Nat /\ parsed[i].before \in Nat
              /\ parsed[i].configs \in Seq(ConfigType) /\ Len(parsed[i].configs) \in Nat
<1> DEFINE File == [place : Nat, lines : Nat, before : Nat, configs : Seq(ConfigType)]
<1>1. parsed \in Seq(File)
  BY DEF TypeOK
<1>2. ASSUME NEW x \in File
      PROVE  /\ x.place \in Nat /\ x.before \in Nat
             /\ x.configs \in Seq(ConfigType) /\ Len(x.configs) \in Nat
  OBVIOUS
<1> HIDE DEF File
<1>3. Len(parsed) \in Nat /\ \A i \in 1..Len(parsed) : parsed[i] \in File
  BY <1>1
<1> QED  BY <1>2, <1>3

\* The walk goes on, over what it need not parse.
LEMMA WalkGoesOn ==
  ASSUME Inv, pc = "walk", n <= Len(tree), n' \in (n + 1)..(Len(tree) + 1),
         UNCHANGED <<worldVars, devices, parserVars, pc, scanVars>>,
         \A j \in n..(n' - 1) : ~Relevant(j),
         tree[n].dir /\ Skips(tree[n].path) /\ n' <= Len(tree) =>
           ~IsStrictPrefix(tree[n].path, tree[n'].path),
         \A j \in (n + 1)..(n' - 1) : /\ tree[n].dir /\ Skips(tree[n].path)
                                      /\ IsStrictPrefix(tree[n].path, tree[j].path)
  PROVE  Inv'
<1>1. /\ UNCHANGED <<media, basedir, tree, devices, ver, kernelBasedir, cfg,
                     bootconfigs, text, pc, found, failed, parsed>>
  BY DEF worldVars, parserVars, scanVars
<1>2. /\ tree \in Trees /\ n \in Nat \ {0} /\ Len(tree) \in Nat /\ n' \in Nat \ {0}
      /\ n \in 1..Len(tree) /\ n < n'
  BY TreeType DEF Inv, TypeOK
<1>3. TypeOK'
  BY <1>1, <1>2 DEF Inv, TypeOK
<1>4. DevicesKnown'
  BY <1>1 DEF Inv, DevicesKnown, Listed, getUUID
<1>5. ParserKnown'
  BY <1>1 DEF ParserKnown
<1>6. WalkKnown'
  <2>1. n' <= Len(tree)' + 1
    BY <1>1, <1>2
  <2>2. ASSUME n' <= Len(tree), NEW k \in 1..(n' - 1), tree[k].dir, Skips(tree[k].path)
        PROVE  ~IsStrictPrefix(tree[k].path, tree[n'].path)
    <3>1. n' \in 1..Len(tree)
      BY <1>2, <2>2
    <3>2. \A h \in 1..(n - 1) : tree[h].dir /\ Skips(tree[h].path) =>
            ~IsStrictPrefix(tree[h].path, tree[n].path)
      BY DEF Inv, WalkKnown
    <3> QED  BY <1>2, <2>2, <3>1, <3>2, NotBelowSkipped
  <2> QED  BY <1>1, <2>1, <2>2 DEF WalkKnown
<1>7. ParsedKnown'
  <2>1. \A i \in 1..Len(parsed) : parsed[i].place \in Nat
    BY ParsedType DEF Inv
  <2> QED  BY <1>1, <1>2, <2>1 DEF Inv, ParsedKnown, FoundBy
<1>8. FindsAllUpToAnError'
  <2>1. {k \in 1..(n' - 1) : k <= Len(tree) /\ Relevant(k)} =
          {k \in 1..(n - 1) : k <= Len(tree) /\ Relevant(k)}
    <3>1. n \in Int /\ n' \in Int
      BY <1>2
    <3>2. /\ \A k \in 1..(n - 1) : k \in 1..(n' - 1)
          /\ \A k \in 1..(n' - 1) : k \in 1..(n - 1) \/ k \in n..(n' - 1)
      BY <1>2, <3>1, Between
    <3> QED  BY <3>2
  <2>2. {k \in 1..(n' - 1) : k <= Len(tree)' /\ Relevant(k)'} =
          {k \in 1..(n - 1) : k <= Len(tree) /\ Relevant(k)}
    BY <1>1, <2>1, SameRelevant
  <2> QED  BY <1>1, <2>2 DEF Inv, FindsAllUpToAnError, FoundBy
<1> QED  BY <1>3, <1>4, <1>5, <1>6, <1>7, <1>8 DEF Inv

\* The configurations of a file are added to those found before.
LEMMA FileIsParsed ==
  ASSUME Inv, ParseReturns
  PROVE  Inv'
<1>0. PICK l \in Nat : l = Len(parsed)
  BY ParsedType DEF Inv
<1> DEFINE x == [place |-> n, lines |-> Len(text), before |-> Len(found),
                 configs |-> Entries(text)]
<1>1. /\ pc = "parse" /\ pc' = "walk" /\ n' = n + 1
      /\ found' = found \o WithEntry /\ parsed' = Append(parsed, x)
      /\ UNCHANGED <<media, basedir, tree, devices, ver, kernelBasedir, cfg,
                     bootconfigs, text, failed>>
  BY DEF ParseReturns, worldVars, parserVars
<1>2. /\ tree \in Trees /\ n \in Nat \ {0} /\ Len(tree) \in Nat /\ n' \in Nat \ {0}
      /\ n \in 1..Len(tree) /\ n < n'
  BY <1>1, TreeType DEF Inv, TypeOK, WalkKnown
<1>3. /\ l \in Nat /\ found \in Seq(ConfigType) /\ Len(found) \in Nat
      /\ \A i \in 1..l : /\ parsed[i].place \in Nat /\ parsed[i].before \in Nat
                         /\ parsed[i].configs \in Seq(ConfigType)
                         /\ Len(parsed[i].configs) \in Nat
  <2>1. \A i \in 1..l : /\ parsed[i].place \in Nat /\ parsed[i].before \in Nat
                        /\ parsed[i].configs \in Seq(ConfigType)
                        /\ Len(parsed[i].configs) \in Nat
    BY <1>0, ParsedType DEF Inv
  <2>2. found \in Seq(ConfigType)
    BY DEF Inv, TypeOK
  <2> QED  BY <2>1, <2>2
<1>4. WithEntry = Entries(text)
  BY <1>1, ParserReads DEF Inv, TypeOK
<1>5. WithEntry \in Seq(ConfigType) /\ Len(WithEntry) \in Nat
  <2>1. WithEntry \in Seq(ConfigType)
    BY DEF WithEntry, Inv, TypeOK
  <2> QED  BY <2>1
<1>6. /\ x.place = n /\ x.before = Len(found) /\ x.configs = WithEntry
      /\ x \in [place : Nat, lines : Nat, before : Nat, configs : Seq(ConfigType)]
  <2>1. Len(text) \in Nat
    BY DEF Inv, TypeOK
  <2> QED  BY <1>2, <1>3, <1>4, <1>5, <2>1
<1>7. /\ Len(parsed') = l + 1 /\ parsed'[l + 1] = x
      /\ \A i \in 1..l : parsed'[i] = parsed[i]
      /\ \A i \in 1..(l + 1) : i \in 1..l \/ i = l + 1
  <2> HIDE DEF x
  <2>1. parsed \in Seq([place : Nat, lines : Nat, before : Nat, configs : Seq(ConfigType)])
    BY DEF Inv, TypeOK
  <2> QED  BY <1>0, <1>1, <1>6, <2>1
<1>8. /\ Len(found') = Len(found) + Len(WithEntry) /\ found' \in Seq(ConfigType)
      /\ \A k \in 1..Len(found) : found'[k] = found[k]
      /\ \A k \in 1..Len(WithEntry) : found'[Len(found) + k] = WithEntry[k]
  BY <1>1, <1>3, <1>5
<1>9. /\ \A i \in 0..l : FoundBy(i)' = FoundBy(i) /\ FoundBy(i) \in Nat
      /\ FoundBy(l + 1)' = Len(found) + Len(WithEntry)
  <2>1. ASSUME NEW i \in 0..l PROVE FoundBy(i)' = FoundBy(i) /\ FoundBy(i) \in Nat
    BY <1>3, <1>7 DEF FoundBy
  <2>2. l + 1 # 0
    BY <1>3
  <2>3. FoundBy(l + 1)' = parsed'[l + 1].before + Len(parsed'[l + 1].configs)
    BY <2>2 DEF FoundBy
  <2> HIDE DEF x
  <2> QED  BY <1>6, <1>7, <2>1, <2>3
<1> HIDE DEF x
<1>10. TypeOK'
  <2>1. parsed' \in Seq([place : Nat, lines : Nat, before : Nat, configs : Seq(ConfigType)])
    BY <1>1, <1>6 DEF Inv, TypeOK
  <2> QED  BY <1>1, <1>2, <1>8, <2>1 DEF Inv, TypeOK
<1>11. DevicesKnown'
  BY <1>1 DEF Inv, DevicesKnown, Listed, getUUID
<1>12. ParserKnown'
  BY <1>1 DEF ParserKnown
<1>13. WalkKnown'
  <2>1. n' <= Len(tree)' + 1
    BY <1>1, <1>2
  <2>2. ASSUME n' <= Len(tree), NEW k \in 1..(n' - 1), tree[k].dir, Skips(tree[k].path)
        PROVE  ~IsStrictPrefix(tree[k].path, tree[n'].path)
    <3>1. n' \in 1..Len(tree)
      BY <1>2, <2>2
    <3>2. /\ ~tree[n].dir
          /\ \A h \in 1..(n - 1) : tree[h].dir /\ Skips(tree[h].path) =>
               ~IsStrictPrefix(tree[h].path, tree[n].path)
      BY <1>1 DEF Inv, WalkKnown
    <3>3. \A h \in (n + 1)..(n' - 1) : FALSE
      BY <1>1, <1>2
    <3> QED  BY <1>2, <2>2, <3>1, <3>2, <3>3, NotBelowSkipped
  <2> QED  BY <1>1, <2>1, <2>2 DEF WalkKnown
<1>14. ParsedKnown'
  <2>1. ASSUME NEW i \in 1..l
        PROVE  parsed'[i].place < n' /\ FoundBy(i)' <= Len(found')
    <3>1. parsed[i].place < n /\ FoundBy(i) <= Len(found)
      BY <1>0 DEF Inv, ParsedKnown
    <3>2. i \in 0..l
      OBVIOUS
    <3> QED  BY <1>2, <1>3, <1>5, <1>7, <1>8, <1>9, <3>1, <3>2
  <2>2. parsed'[l + 1].place < n' /\ FoundBy(l + 1)' <= Len(found')
    BY <1>2, <1>3, <1>5, <1>6, <1>7, <1>8, <1>9
  <2>3. \A i \in 1..(l + 1) : parsed'[i].place < n' /\ FoundBy(i)' <= Len(found')
    BY <1>7, <2>1, <2>2
  <2> QED  BY <1>1, <1>7, <2>3 DEF ParsedKnown
<1>15. FindsAllUpToAnError'
  <2>1. {p.place : p \in Range(parsed')} =
          {k \in 1..(n' - 1) : k <= Len(tree)' /\ Relevant(k)'}
    <3>1. {p.place : p \in Range(parsed)} = {k \in 1..(n - 1) : k <= Len(tree) /\ Relevant(k)}
      BY <1>1 DEF Inv, FindsAllUpToAnError
    <3>2. Relevant(n)
      BY <1>1, <1>2, FileIsRelevant DEF Inv
    <3>3. \A k \in 1..(n' - 1) : k \in 1..(n - 1) \/ k = n
      BY <1>1, <1>2
    <3>4. \A k \in 1..(n - 1) : k \in 1..(n' - 1)
      BY <1>1, <1>2
    <3>5. n \in 1..(n' - 1) /\ n <= Len(tree)
      BY <1>1, <1>2
    <3>6. {k \in 1..(n' - 1) : k <= Len(tree) /\ Relevant(k)} =
            {k \in 1..(n - 1) : k <= Len(tree) /\ Relevant(k)} \cup {n}
      BY <3>2, <3>3, <3>4, <3>5
    <3>7. {k \in 1..(n' - 1) : k <= Len(tree)' /\ Relevant(k)'} =
            {k \in 1..(n' - 1) : k <= Len(tree) /\ Relevant(k)}
      BY <1>1, SameRelevant
    <3>8. Range(parsed') = Range(parsed) \cup {x}
      <4>1. DOMAIN parsed = 1..l /\ DOMAIN parsed' = 1..(l + 1)
        BY <1>0, <1>1, <1>3, <1>7 DEF Inv, TypeOK
      <4>2. l + 1 \in 1..(l + 1) /\ \A i \in 1..l : i \in 1..(l + 1)
        BY <1>3
      <4> QED  BY <1>7, <4>1, <4>2 DEF Range
    <3>9. {p.place : p \in Range(parsed')} = {p.place : p \in Range(parsed)} \cup {n}
      BY <1>6, <3>8
    <3> QED  BY <3>1, <3>6, <3>7, <3>9
  <2>2. \A i, j \in 1..(l + 1) : i < j => parsed'[i].place < parsed'[j].place
    <3>1. \A i, j \in 1..l : i < j => parsed[i].place < parsed[j].place
      BY <1>0 DEF Inv, FindsAllUpToAnError
    <3>2. \A i \in 1..l : parsed[i].place < n
      BY <1>0 DEF Inv, ParsedKnown
    <3>3. \A i \in 1..(l + 1) : ~(l + 1 < i)
      BY <1>3
    <3> QED  BY <1>6, <1>7, <3>1, <3>2, <3>3
  <2>3. ASSUME NEW i \in 1..(l + 1)
        PROVE  /\ parsed'[i].before = FoundBy(i - 1)'
               /\ \A k \in 1..Len(parsed'[i].configs) :
                    found'[parsed'[i].before + k] = parsed'[i].configs[k]
    <3>1. CASE i \in 1..l
      <4>1. /\ parsed[i].before = FoundBy(i - 1)
            /\ \A k \in 1..Len(parsed[i].configs) :
                 found[parsed[i].before + k] = parsed[i].configs[k]
        BY <1>0, <3>1 DEF Inv, FindsAllUpToAnError
      <4>2. i - 1 \in 0..l
        BY <3>1
      <4>3. ASSUME NEW k \in 1..Len(parsed[i].configs)
            PROVE  parsed[i].before + k \in 1..Len(found)
        <5>1. FoundBy(i) <= Len(found)
          BY <1>0, <3>1 DEF Inv, ParsedKnown
        <5>2. FoundBy(i) = parsed[i].before + Len(parsed[i].configs)
          BY <3>1 DEF FoundBy
        <5>3. parsed[i].before \in Nat /\ Len(parsed[i].configs) \in Nat
          BY <1>3, <3>1
        <5> QED  BY <1>3, <5>1, <5>2, <5>3
      <4> QED  BY <1>7, <1>8, <1>9, <3>1, <4>1, <4>2, <4>3
    <3>2. CASE i = l + 1
      <4>1. FoundBy(l)' = Len(found)
        <5>1. Len(found) = FoundBy(l) /\ l \in 0..l
          BY <1>0, <1>3 DEF Inv, FindsAllUpToAnError
        <5> QED  BY <1>9, <5>1
      <4>2. i - 1 = l
        BY <1>3, <3>2
      <4> QED  BY <1>6, <1>7, <1>8, <3>2, <4>1, <4>2
    <3> QED  BY <1>7, <3>1, <3>2
  <2>4. Len(found') = FoundBy(l + 1)'
    BY <1>8, <1>9
  <2>5. pc' # "done"
    BY <1>1
  <2> QED  BY <1>7, <2>1, <2>2, <2>3, <2>4, <2>5 DEF FindsAllUpToAnError
<1> QED  BY <1>10, <1>11, <1>12, <1>13, <1>14, <1>15 DEF Inv

\* The next device is put at the end of the list.
LEMMA DeviceIsListed ==
  ASSUME Inv, ListDevice
  PROVE  Inv'
<1>1. /\ pc = "list" /\ n <= Len(Sys) /\ n' = n + 1 /\ GetBlockStat(Sys[n])
      /\ UNCHANGED <<media, basedir, tree, ver, kernelBasedir, cfg,
                     bootconfigs, text, pc, found, failed, parsed>>
  BY DEF ListDevice, worldVars, parserVars, scanVars
<1>2. media \in Medias /\ n \in Nat \ {0} /\ devices \in Seq(BlockDev)
  BY DEF Inv, TypeOK
<1>0. PICK m \in Nat \ {0} : m = n
  BY <1>2
<1>3. Sys \in Seq(SysDevices) /\ Len(Sys) \in Nat /\ Sys[m] \in SysDevices
  BY <1>0, <1>1, <1>2, StorageAssumption
<1> DEFINE known(i) == [name |-> Sys[i], uuid |-> getUUID(media[Sys[i]])]
<1>4. devices' = Append(devices, known(m))
  BY <1>0, <1>1 DEF GetBlockStat
<1>5. known(m) \in BlockDev
  <2>1. media[Sys[m]] \in MediaType
    BY <1>2, <1>3, GrubScanAssumption
  <2>2. ASSUME NEW x \in MediaType PROVE getUUID(x) \in Uuids \cup {NoUuid}
    BY DEF MediaType, getUUID, tryVFAT, tryEXT4
  <2>3. getUUID(media[Sys[m]]) \in Uuids \cup {NoUuid}
    BY <2>1, <2>2
  <2> QED  BY <1>3, <2>3 DEF BlockDev
<1>6. Len(devices) = m - 1 /\ \A i \in 1..(m - 1) : devices[i] = known(i)
  BY <1>0, <1>1 DEF Inv, DevicesKnown, Listed
<1>7. \A i : known(i)' = known(i)
  BY <1>1 DEF getUUID
<1> HIDE DEF known
<1>8. Len(devices') = m /\ \A i \in 1..m : devices'[i] = known(i)
  BY <1>2, <1>4, <1>5, <1>6
<1>9. devices' \in Seq(BlockDev)
  BY <1>2, <1>4, <1>5
<1>10. TypeOK'
  BY <1>1, <1>2, <1>9 DEF Inv, TypeOK
<1>11. DevicesKnown'
  <2>1. n' - 1 = m /\ n' <= Len(Sys) + 1
    BY <1>0, <1>1, <1>2, <1>3
  <2>2. \A i \in 1..m : devices'[i] = known(i)'
    BY <1>7, <1>8
  <2>3. Listed(m)'
    BY <1>8, <2>2 DEF Listed, known
  <2>4. Listed(n - 1)'
    BY <2>1, <2>3 DEF Listed
  <2> QED  BY <1>1, <2>1, <2>4 DEF DevicesKnown
<1>12. ParserKnown' /\ WalkKnown'
  BY <1>1 DEF ParserKnown, WalkKnown
<1>13. parsed = <<>> /\ Len(parsed) = 0
  BY <1>1 DEF Inv, ParsedKnown
<1>14. ParsedKnown'
  BY <1>1, <1>13 DEF ParsedKnown
<1>15. FindsAllUpToAnError'
  BY <1>1, <1>13 DEF Inv, FindsAllUpToAnError, FoundBy
<1> QED  BY <1>10, <1>11, <1>12, <1>14, <1>15 DEF Inv

LEMMA InitInv == Init => Inv
<1> SUFFICES ASSUME Init PROVE Inv
  OBVIOUS
<1>1. TypeOK
  <2>1. /\ media \in Medias /\ tree \in Trees /\ basedir \in SysDevices
        /\ ver \in {1, 2} /\ kernelBasedir \in SysDevices
        /\ cfg \in ConfigType \cup {NoConfig}
        /\ pc \in {"list", "walk", "parse", "done", "fatal"} /\ n \in Nat \ {0}
    BY DEF Init
  <2>2. /\ devices \in Seq(BlockDev) /\ bootconfigs \in Seq(ConfigType)
        /\ text \in Seq(Cfgs) /\ found \in Seq(ConfigType)
    BY DEF Init
  <2>3. parsed \in Seq([place : Nat, lines : Nat, before : Nat, configs : Seq(ConfigType)])
    BY DEF Init
  <2>4. failed \in BOOLEAN
    BY DEF Init
  <2> QED  BY <2>1, <2>2, <2>3, <2>4 DEF TypeOK
<1>2. DevicesKnown
  <2>1. Len(Sys) \in Nat
    BY StorageAssumption
  <2> QED  BY <2>1 DEF Init, DevicesKnown, Listed
<1>3. ParserKnown /\ WalkKnown
  BY DEF Init, ParserKnown, WalkKnown
<1>4. ParsedKnown
  BY DEF Init, ParsedKnown
<1>5. FindsAllUpToAnError
  BY DEF Init, FindsAllUpToAnError, FoundBy
<1> QED  BY <1>1, <1>2, <1>3, <1>4, <1>5 DEF Inv

\* Each step keeps the invariant.
LEMMA NextInv == Inv /\ [Next]_vars => Inv'
<1> SUFFICES ASSUME Inv, [Next]_vars PROVE Inv'
  OBVIOUS
<1>0. /\ tree \in Trees /\ n \in Nat \ {0} /\ Len(tree) \in Nat
      /\ \A k \in 1..Len(tree) : tree[k].path \in Seq(Names) /\ tree[k].dir \in BOOLEAN
  BY TreeType DEF Inv, TypeOK
<1>1. CASE ListDevice
  BY <1>1, DeviceIsListed
<1>2. CASE ListFails
  <2>1. /\ pc = "list" /\ pc' = "fatal"
        /\ UNCHANGED <<media, basedir, tree, devices, ver, kernelBasedir, cfg,
                       bootconfigs, text, n, found, failed, parsed>>
    BY <1>2 DEF ListFails, worldVars, parserVars, scanVars
  <2>2. TypeOK'
    BY <2>1 DEF Inv, TypeOK
  <2>3. DevicesKnown' /\ ParserKnown' /\ WalkKnown'
    BY <2>1 DEF DevicesKnown, ParserKnown, WalkKnown
  <2>4. ParsedKnown'
    BY <2>1 DEF Inv, ParsedKnown, FoundBy
  <2>5. FindsAllUpToAnError'
    BY <2>1 DEF Inv, FindsAllUpToAnError, FoundBy
  <2> QED  BY <2>2, <2>3, <2>4, <2>5 DEF Inv
<1>3. CASE ListDone
  <2>1. /\ pc = "list" /\ n > Len(Sys) /\ pc' = "walk" /\ n' = 1
        /\ UNCHANGED <<media, basedir, tree, devices, ver, kernelBasedir, cfg,
                       bootconfigs, text, found, failed, parsed>>
    BY <1>3 DEF ListDone, worldVars, parserVars, scanVars
  <2>2. TypeOK'
    BY <2>1 DEF Inv, TypeOK
  <2>3. DevicesKnown'
    <3>1. Len(Sys) \in Nat
      BY StorageAssumption
    <3>2. n - 1 = Len(Sys) /\ Listed(n - 1)
      BY <1>0, <2>1, <3>1 DEF Inv, DevicesKnown
    <3>3. Listed(Len(Sys))'
      BY <2>1, <3>2 DEF Listed, getUUID
    <3> QED  BY <2>1, <3>3 DEF DevicesKnown
  <2>4. ParserKnown'
    BY <2>1 DEF ParserKnown
  <2>5. WalkKnown'
    BY <1>0, <2>1 DEF WalkKnown
  <2>6. parsed = <<>>
    BY <2>1 DEF Inv, ParsedKnown
  <2>7. ParsedKnown'
    BY <2>1, <2>6 DEF ParsedKnown
  <2>8. FindsAllUpToAnError'
    <3>1. {p.place : p \in Range(parsed')} = {} /\ 1..(n' - 1) = {}
      BY <2>1, <2>6 DEF Range
    <3>2. {k \in 1..(n' - 1) : k <= Len(tree)' /\ Relevant(k)'} = {}
      BY <3>1
    <3>3. Len(parsed) = 0 /\ Len(parsed') = 0
      BY <2>1, <2>6
    <3>4. Len(found') = FoundBy(Len(parsed))'
      BY <2>1, <3>3 DEF Inv, FindsAllUpToAnError, FoundBy
    <3>5. {p.place : p \in Range(parsed')} =
            {k \in 1..(n' - 1) : k <= Len(tree)' /\ Relevant(k)'}
      BY <3>1, <3>2
    <3>6. \A i \in 1..Len(parsed') : FALSE
      BY <3>3
    <3> QED  BY <2>1, <3>4, <3>5, <3>6 DEF FindsAllUpToAnError
  <2> QED  BY <2>2, <2>3, <2>4, <2>5, <2>7, <2>8 DEF Inv
<1>4. CASE VisitDir
  <2>1. /\ pc = "walk" /\ n <= Len(tree) /\ tree[n].dir
        /\ IF Skips(tree[n].path) THEN SkipDir ELSE n' = n + 1
        /\ UNCHANGED <<worldVars, devices, parserVars, pc, scanVars>>
    BY <1>4 DEF VisitDir, Visits
  <2>2. ~Relevant(n)
    BY <2>1 DEF Relevant
  <2>3. CASE Skips(tree[n].path)
    <3>1. /\ n' \in (n + 1)..(Len(tree) + 1)
          /\ \A j \in (n + 1)..(n' - 1) : IsStrictPrefix(tree[n].path, tree[j].path)
          /\ n' <= Len(tree) => ~IsStrictPrefix(tree[n].path, tree[n'].path)
      BY <2>1, <2>3 DEF SkipDir
    <3>2. ASSUME NEW j \in n..(n' - 1) PROVE ~Relevant(j)
      <4>1. CASE j = n
        BY <2>2, <4>1
      <4>2. CASE j # n
        <5>1. j \in (n + 1)..(n' - 1) /\ j \in 1..Len(tree) /\ n \in 1..Len(tree)
          <6> DEFINE a == n
                     b == n'
                     c == Len(tree)
          <6>1. /\ a \in Nat \ {0} /\ c \in Nat /\ a <= c /\ b \in (a + 1)..(c + 1)
                /\ j \in a..(b - 1) /\ j # a
            BY <1>0, <2>1, <3>1, <4>2
          <6> HIDE DEF a, b, c
          <6>2. j \in (a + 1)..(b - 1) /\ j \in 1..c /\ a \in 1..c
            BY <6>1
          <6> QED  BY <6>2 DEF a, b, c
        <5>2. IsStrictPrefix(tree[n].path, tree[j].path)
          BY <3>1, <5>1
        <5> QED  BY <1>0, <2>3, <5>1, <5>2, NothingBelow
      <4> QED  BY <4>1, <4>2
    <3> QED  BY <2>1, <2>3, <3>1, <3>2, WalkGoesOn
  <2>4. CASE ~Skips(tree[n].path)
    <3>1. n' = n + 1 /\ n' \in (n + 1)..(Len(tree) + 1)
      BY <1>0, <2>1, <2>4
    <3>2. \A j \in n..(n' - 1) : j = n
      BY <1>0, <3>1
    <3>3. \A j \in (n + 1)..(n' - 1) : FALSE
      BY <1>0, <3>1
    <3> QED  BY <2>1, <2>2, <2>4, <3>1, <3>2, <3>3, WalkGoesOn
  <2> QED  BY <2>3, <2>4
<1>5. CASE PassFile
  <2>1. /\ pc = "walk" /\ n <= Len(tree) /\ tree[n].dir = FALSE
        /\ Version(tree[n].path) = 0 /\ n' = n + 1
        /\ UNCHANGED <<worldVars, devices, parserVars, pc, scanVars>>
    BY <1>5 DEF PassFile, Visits
  <2>2. ~Relevant(n)
    BY <2>1 DEF Relevant, Version
  <2>3. n' \in (n + 1)..(Len(tree) + 1)
    BY <1>0, <2>1
  <2>4. \A j \in n..(n' - 1) : j = n
    BY <1>0, <2>1
  <2>5. \A j \in (n + 1)..(n' - 1) : FALSE
    BY <1>0, <2>1
  <2> QED  BY <2>1, <2>2, <2>3, <2>4, <2>5, WalkGoesOn
<1>6. CASE ReadFile
  <2>1. /\ pc = "walk" /\ pc' = "parse" /\ n <= Len(tree) /\ tree[n].dir = FALSE
        /\ Version(tree[n].path) > 0 /\ ver' = Version(tree[n].path)
        /\ kernelBasedir' = basedir /\ cfg' = NoConfig /\ bootconfigs' = <<>>
        /\ text' = <<>>
        /\ UNCHANGED <<media, basedir, tree, devices, n, found, failed, parsed>>
    BY <1>6 DEF ReadFile, Visits, StartParse, worldVars, scanVars
  <2>2. Version(tree[n].path) \in {1, 2}
    BY <2>1 DEF Version
  <2>3. TypeOK'
    BY <2>1, <2>2 DEF Inv, TypeOK
  <2>4. DevicesKnown'
    BY <2>1 DEF Inv, DevicesKnown, Listed, getUUID
  <2>5. ParserKnown'
    <3>1. Starts(<<>>) = {}
      BY DEF Starts
    <3> QED  BY <2>1, <3>1 DEF ParserKnown
  <2>6. WalkKnown'
    BY <2>1 DEF Inv, WalkKnown
  <2>7. ParsedKnown'
    BY <2>1 DEF Inv, ParsedKnown, FoundBy
  <2>8. FindsAllUpToAnError'
    BY <2>1, SameRelevant DEF Inv, FindsAllUpToAnError, FoundBy
  <2> QED  BY <2>3, <2>4, <2>5, <2>6, <2>7, <2>8 DEF Inv
<1>7. CASE WalkFails \/ WalkReturns
  <2>1. /\ pc = "walk" /\ pc' = "done" /\ (failed' \/ n > Len(tree))
        /\ failed' \in BOOLEAN
        /\ UNCHANGED <<media, basedir, tree, devices, ver, kernelBasedir, cfg,
                       bootconfigs, text, n, found, parsed>>
    BY <1>7 DEF WalkFails, WalkReturns, worldVars, parserVars, scanVars, Inv, TypeOK
  <2>2. TypeOK'
    BY <2>1 DEF Inv, TypeOK
  <2>3. DevicesKnown'
    BY <2>1 DEF Inv, DevicesKnown, Listed, getUUID
  <2>4. ParserKnown' /\ WalkKnown'
    BY <2>1 DEF ParserKnown, WalkKnown
  <2>5. ParsedKnown'
    BY <2>1 DEF Inv, ParsedKnown, FoundBy
  <2>6. FindsAllUpToAnError'
    BY <2>1, SameRelevant DEF Inv, FindsAllUpToAnError, FoundBy
  <2> QED  BY <2>2, <2>3, <2>4, <2>5, <2>6 DEF Inv
<1>8. CASE NextLine
  <2>1. PICK s \in Cfgs : ParseLine(s)
    BY <1>8 DEF NextLine
  <2>2. /\ pc = "parse" /\ pc' = "parse"
        /\ UNCHANGED <<media, basedir, tree, devices, n, found, failed, parsed>>
    BY <1>8 DEF NextLine, worldVars, scanVars
  <2>3. /\ ParserKnown' /\ text' \in Seq(Cfgs) /\ ver' = ver
        /\ cfg' \in ConfigType \cup {NoConfig} /\ bootconfigs' \in Seq(ConfigType)
        /\ kernelBasedir' \in SysDevices
    BY <2>1, <2>2, ParserStep DEF Inv, TypeOK, DevicesKnown
  <2>4. TypeOK'
    BY <2>2, <2>3 DEF Inv, TypeOK
  <2>5. DevicesKnown'
    BY <2>2 DEF Inv, DevicesKnown, Listed, getUUID
  <2>6. WalkKnown'
    BY <2>2 DEF Inv, WalkKnown
  <2>7. ParsedKnown'
    BY <2>2 DEF Inv, ParsedKnown, FoundBy
  <2>8. FindsAllUpToAnError'
    BY <2>2, SameRelevant DEF Inv, FindsAllUpToAnError, FoundBy
  <2> QED  BY <2>3, <2>4, <2>5, <2>6, <2>7, <2>8 DEF Inv
<1>9. CASE ParseReturns
  BY <1>9, FileIsParsed
<1>10. CASE UNCHANGED vars
  <2>1. UNCHANGED <<media, basedir, tree, devices, ver, kernelBasedir, cfg,
                    bootconfigs, text, pc, n, found, failed, parsed>>
    BY <1>10 DEF vars, worldVars, parserVars, scanVars
  <2>2. TypeOK'
    BY <2>1 DEF Inv, TypeOK
  <2>3. DevicesKnown'
    BY <2>1 DEF Inv, DevicesKnown, Listed, getUUID
  <2>4. ParserKnown'
    BY <2>1, SameReading DEF Inv, ParserKnown
  <2>5. WalkKnown'
    BY <2>1 DEF Inv, WalkKnown
  <2>6. ParsedKnown'
    BY <2>1 DEF Inv, ParsedKnown, FoundBy
  <2>7. FindsAllUpToAnError'
    BY <2>1, SameRelevant DEF Inv, FindsAllUpToAnError, FoundBy
  <2> QED  BY <2>2, <2>3, <2>4, <2>5, <2>6, <2>7 DEF Inv
<1> QED  BY <1>1, <1>2, <1>3, <1>4, <1>5, <1>6, <1>7, <1>8, <1>9, <1>10 DEF Next

LEMMA AlwaysInv == Spec => []Inv
<1>1. Init => Inv
  BY InitInv
<1>2. Inv /\ [Next]_vars => Inv'
  BY NextInv
<1> QED  BY <1>1, <1>2, PTL DEF Spec
---------------------------------------------------------------------------
\* All variables keep their types, whatever is on the devices and in the files.
THEOREM Types == Spec => []TypeOK
<1>1. Inv => TypeOK
  BY DEF Inv
<1> QED  BY <1>1, AlwaysInv, PTL

\* For any devices and any lines, the parser holds after each line exactly the
\* configurations that the lines read so far say, in their order
\* (localboot/grub.go:63-153, pkg/storage/blockdev.go:157-172, 364-374).
THEOREM EntriesAreRead == Spec => []ReadsEntriesAsWritten
<1>1. Inv => ReadsEntriesAsWritten
  BY ParserReads DEF Inv, TypeOK, ReadsEntriesAsWritten
<1> QED  BY <1>1, AlwaysInv, PTL

\* For any tree of files, what the walk has parsed at any moment are the relevant
\* files that it has come by, once each and in their order, and it has all their
\* configurations; it ends early only with an error
\* (localboot/grub.go:178-243).
THEOREM AllAreFound == Spec => []FindsAllUpToAnError
<1>1. Inv => FindsAllUpToAnError
  BY DEF Inv
<1> QED  BY <1>1, AlwaysInv, PTL
================================================================================
