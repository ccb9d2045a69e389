------------------------- MODULE ListsAndTreesProofs -------------------------
(***************************************************************************)
(* Pages, walks and trees, for every database that the tables can hold,    *)
(* cycles included, and every list, sort and number of hops.               *)
(*                                                                         *)
(*   PagesPartition   the keys of a list, the id among them, order its     *)
(*                    rows strictly and totally, so separate statements    *)
(*                    page through one and the same sequence;              *)
(*   WalksReach       the paths of the recursive queries hold a shortest   *)
(*                    path to whatever is within the hops;                 *)
(*   TreesAgree       each node of a loaded tree has one parent at most,   *)
(*                    so the way up is one chain, of distinct nodes when   *)
(*                    there is no cycle, and nodes that call each other    *)
(*                    for ever on the way down are one.                    *)
(*                                                                         *)
(* What the three need of the tables is TablesOK (NodeReadsProofs).        *)
(***************************************************************************)
EXTENDS NodeReadsProofs

-----------------------------------------------------------------------------
(***************************************************************************)
(* Orders.  A finite set that is ordered strictly and totally has exactly  *)
(* one sequence in that order.                                             *)
(***************************************************************************)
\* P orders S strictly and totally.
IsStrictOrder(P, S) ==
    /\ \A a \in S : <<a, a>> \notin P
    /\ \A a, b \in S : a # b => <<a, b>> \in P \/ <<b, a>> \in P
    /\ \A a, b, c \in S : <<a, b>> \in P /\ <<b, c>> \in P => <<a, c>> \in P

\* No member of s comes before one that precedes it.
InOrder(P, s) == \A i, j \in DOMAIN s : <<s[i], s[j]>> \in P => i < j

\* A sequence of all members of a finite set, each once.
LEMMA AllOnce ==
    ASSUME NEW S, IsFiniteSet(S), NEW f \in SetToSeqs(S)
    PROVE  /\ f \in [1 .. Cardinality(S) -> S] /\ Cardinality(S) \in Nat
           /\ \A i, j \in 1 .. Cardinality(S) : i # j => f[i] # f[j]
           /\ \A a \in S : \E i \in 1 .. Cardinality(S) : f[i] = a
<1> DEFINE n == Cardinality(S)
<1>1. n \in Nat
  BY FS_CardinalityType
<1>2. f \in [1 .. n -> S] /\ \A i, j \in 1 .. n : i # j => f[i] # f[j]
  BY DEF SetToSeqs
<1> HIDE DEF n
<1>3. f \in Injection(1 .. n, S)
  BY <1>2 DEF Injection, IsInjective
<1>4. Cardinality(1 .. n) = n
  BY <1>1, FS_Interval
<1>5. f \in Surjection(1 .. n, S)
  BY <1>3, <1>4, FS_Injection DEF n
<1>6. \A a \in S : \E i \in 1 .. n : f[i] = a
  BY <1>5 DEF Surjection
<1> QED
  BY <1>1, <1>2, <1>6 DEF n

\* There is at most one order.
LEMMA OneOrder ==
    ASSUME NEW S, IsFiniteSet(S), NEW P, IsStrictOrder(P, S),
           NEW f \in SetToSeqs(S), NEW g \in SetToSeqs(S), InOrder(P, f), InOrder(P, g)
    PROVE  f = g
<1> DEFINE n == Cardinality(S)
<1>1. /\ n \in Nat /\ f \in [1 .. n -> S] /\ g \in [1 .. n -> S]
      /\ \A i, j \in 1 .. n : i # j => f[i] # f[j]
      /\ \A i, j \in 1 .. n : i # j => g[i] # g[j]
      /\ \A a \in S : \E i \in 1 .. n : f[i] = a
      /\ \A a \in S : \E i \in 1 .. n : g[i] = a
  BY AllOnce, ZenonT(40)
<1> HIDE DEF n
<1> DEFINE T == {i \in 1 .. n : f[i] # g[i]}
<1>2. SUFFICES ASSUME T # {} PROVE FALSE
  <2>1. SUFFICES ASSUME f # g PROVE FALSE
    OBVIOUS
  <2>2. \E i \in 1 .. n : f[i] # g[i]
    BY <1>1, <2>1
  <2> QED BY <1>2, <2>2
<1>3. PICK i \in T : \A k \in T : i =< k
  <2>1. T \subseteq Nat
    OBVIOUS
  <2> HIDE DEF T
  <2> QED BY <1>2, <2>1, SmallestOf
<1>4. i \in 1 .. n /\ f[i] # g[i] /\ \A k \in 1 .. n : k < i => f[k] = g[k]
  BY <1>1, <1>3
<1>5. PICK j \in 1 .. n : g[j] = f[i]
  BY <1>1, <1>4
<1>6. PICK k \in 1 .. n : f[k] = g[i]
  BY <1>1, <1>4
<1>7. i < j /\ i < k
  <2>1. i \in Int /\ j \in Int /\ k \in Int
    BY <1>1, <1>4
  <2>2. j # i /\ k # i
    BY <1>4, <1>5, <1>6
  <2>3. ~ (j < i)
    BY <1>1, <1>4, <1>5, <2>2
  <2>4. ~ (k < i)
    BY <1>1, <1>4, <1>6, <2>2
  <2> QED BY <2>1, <2>2, <2>3, <2>4
<1>8. <<f[i], g[i]>> \notin P
  <2>1. <<g[j], g[i]>> \in P => j < i
    BY <1>1, <1>4 DEF InOrder
  <2> QED BY <2>1, <1>5, <1>7
<1>9. <<g[i], f[i]>> \notin P
  <2>1. <<f[k], f[i]>> \in P => k < i
    BY <1>1, <1>4 DEF InOrder
  <2> QED BY <2>1, <1>6, <1>7
<1> QED
  BY <1>1, <1>4, <1>8, <1>9 DEF IsStrictOrder

\* There is one: each member has as many before it as precede it.
LEMMA SomeOrder ==
    ASSUME NEW S, IsFiniteSet(S), NEW P, IsStrictOrder(P, S)
    PROVE  \E f \in SetToSeqs(S) : InOrder(P, f)
<1> DEFINE n == Cardinality(S)
           First(a) == {b \in S : <<b, a>> \in P}
           rank == [a \in S |-> Cardinality(First(a)) + 1]
<1>1. n \in Nat
  BY FS_CardinalityType
<1>2. ASSUME NEW a \in S PROVE IsFiniteSet(First(a)) /\ Cardinality(First(a)) \in Nat
  BY FS_Subset, FS_CardinalityType
<1>3. ASSUME NEW a \in S, NEW b \in S, <<a, b>> \in P
      PROVE  Cardinality(First(a)) < Cardinality(First(b))
  <2>1. First(a) \in SUBSET First(b) /\ First(a) # First(b)
    BY <1>3 DEF IsStrictOrder
  <2>2. IsFiniteSet(First(b)) /\ Cardinality(First(a)) \in Nat /\ Cardinality(First(b)) \in Nat
    BY <1>2
  <2> HIDE DEF First
  <2> QED BY <2>1, <2>2, FS_Subset
<1>4. ASSUME NEW a \in S PROVE Cardinality(First(a)) < n
  <2>1. First(a) \in SUBSET S /\ First(a) # S
    BY DEF IsStrictOrder
  <2>2. Cardinality(First(a)) =< n /\ Cardinality(First(a)) # n
    <3> HIDE DEF First
    <3> QED BY <2>1, FS_Subset
  <2> QED BY <2>2, <1>1, <1>2
<1> HIDE DEF n, First
<1>5. rank \in [S -> 1 .. n]
  BY <1>1, <1>2, <1>4
<1>6. \A a, b \in S : <<a, b>> \in P => rank[a] < rank[b]
  BY <1>2, <1>3
<1> HIDE DEF rank
<1>7. \A a, b \in S : rank[a] = rank[b] => a = b
  <2>1. ASSUME NEW a \in S, NEW b \in S, rank[a] = rank[b], a # b PROVE FALSE
    <3>1. <<a, b>> \in P \/ <<b, a>> \in P
      BY <2>1 DEF IsStrictOrder
    <3>2. rank[a] < rank[b] \/ rank[b] < rank[a]
      BY <3>1, <1>6
    <3>3. rank[a] \in Int
      BY <1>5
    <3> QED BY <2>1, <3>2, <3>3
  <2> QED BY <2>1
<1>8. \A i \in 1 .. n : \E a \in S : rank[a] = i
  <2>1. rank \in Injection(S, 1 .. n)
    BY <1>5, <1>7 DEF Injection, IsInjective
  <2>2. IsFiniteSet(1 .. n) /\ Cardinality(1 .. n) = n
    BY <1>1, FS_Interval
  <2>3. rank \in Surjection(S, 1 .. n)
    BY <2>1, <2>2, FS_Injection DEF n
  <2> QED BY <2>3 DEF Surjection
<1> DEFINE f == [i \in 1 .. n |-> CHOOSE a \in S : rank[a] = i]
<1>9. \A i \in 1 .. n : f[i] \in S /\ rank[f[i]] = i
  BY <1>8
<1>10. f \in [1 .. n -> S] /\ DOMAIN f = 1 .. n
  BY <1>9
<1> HIDE DEF f
<1>11. f \in SetToSeqs(S)
  BY <1>9, <1>10 DEF SetToSeqs, n
<1>12. InOrder(P, f)
  BY <1>6, <1>9, <1>10 DEF InOrder
<1> QED
  BY <1>11, <1>12

-----------------------------------------------------------------------------
(***************************************************************************)
(* Pages.  What LIMIT and OFFSET take of a sequence.                       *)
(***************************************************************************)
\* The place of a member of a page in the whole.
OnPage(n, size, off) == {k \in 1 .. n : off < k /\ k =< off + size}

\* What LIMIT and OFFSET leave of a sequence of length n.
IsPage(p, f, n, size, off) ==
    /\ Len(p) = IF n < off THEN 0 ELSE IF n < off + size THEN n - off ELSE size
    /\ ToSet(p) = {f[k] : k \in OnPage(n, size, off)}

\* SQL page arithmetic: LIMIT size OFFSET off takes these places and no others (node_query.go).
LEMMA PageIs ==
    ASSUME NEW S, NEW n \in Nat, NEW f \in [1 .. n -> S], NEW size \in Nat \ {0}, NEW off \in Nat
    PROVE  IsPage(PageOf(f, size, off), f, n, size, off)
<1> DEFINE last == IF off + size < n THEN off + size ELSE n
           p == SubSeq(f, off + 1, last)
<1>1. f \in Seq(S) /\ Len(f) = n
  OBVIOUS
<1>2. PageOf(f, size, off) = p
  BY <1>1 DEF PageOf
<1>3. CASE n =< off
  <2>1. OnPage(n, size, off) = {}
    BY <1>3 DEF OnPage
  <2>2. last = n
    BY <1>3
  <2>3. p = << >>
    BY <1>1, <1>3, <2>2
  <2> HIDE DEF p, last
  <2>4. Len(p) = 0 /\ ToSet(p) = {}
    <3>1. Len(<< >>) = 0 /\ DOMAIN << >> = {}
      OBVIOUS
    <3>2. ToSet(<< >>) = {}
      BY <3>1 DEF ToSet
    <3> QED BY <2>3, <3>1, <3>2
  <2> QED BY <1>2, <1>3, <2>1, <2>4 DEF IsPage
<1>4. CASE off < n
  <2>1. last \in off + 1 .. n /\ last = IF n < off + size THEN n ELSE off + size
    BY <1>4
  <2> HIDE DEF last
  <2>2. /\ Len(p) = last - off /\ p \in Seq(S)
        /\ \A i \in 1 .. last - off : p[i] = f[off + i]
    BY <1>1, <2>1
  <2>3. DOMAIN p = 1 .. last - off
    BY <2>2
  <2> HIDE DEF p
  <2>4. OnPage(n, size, off) = off + 1 .. last
    BY <2>1 DEF OnPage
  <2>5. ASSUME NEW x \in ToSet(p) PROVE x \in {f[k] : k \in off + 1 .. last}
    <3>1. PICK i \in 1 .. last - off : x = p[i]
      BY <2>3 DEF ToSet
    <3>2. off + i \in off + 1 .. last /\ x = f[off + i]
      BY <2>1, <2>2, <3>1
    <3> QED BY <3>2
  <2>6. ASSUME NEW k \in off + 1 .. last PROVE f[k] \in ToSet(p)
    <3>1. k - off \in 1 .. last - off /\ off + (k - off) = k
      BY <2>1
    <3>2. p[k - off] = f[k]
      BY <2>2, <3>1
    <3> QED BY <3>1, <3>2, <2>3 DEF ToSet
  <2>7. ToSet(p) = {f[k] : k \in off + 1 .. last}
    BY <2>5, <2>6
  <2> QED BY <1>2, <1>4, <2>1, <2>2, <2>4, <2>7 DEF IsPage
<1> QED
  BY <1>3, <1>4

\* Pages of one size cover the places of a sequence, and no two meet.
LEMMA PlacesOnPages ==
    ASSUME NEW n \in Nat, NEW b \in Nat, n =< b, NEW size \in Nat \ {0}
    PROVE  /\ \A k \in 1 .. n : \E i \in 0 .. b : k \in OnPage(n, size, size * i)
           /\ \A i, j \in 0 .. b : \A k \in 1 .. n :
                k \in OnPage(n, size, size * i) /\ k \in OnPage(n, size, size * j) => i = j
<1>1. ASSUME NEW k \in 1 .. n PROVE \E i \in 0 .. b : k \in OnPage(n, size, size * i)
  <2> DEFINE T == {i \in 0 .. b : k =< size * i + size}
  <2>1. size * b \in Nat /\ size * b >= b
    OBVIOUS
  <2>2. b \in T
    BY <2>1
  <2>3. PICK i \in T : \A j \in T : i =< j
    <3>1. T \subseteq Nat /\ T # {}
      BY <2>2
    <3> HIDE DEF T
    <3> QED BY <3>1, SmallestOf
  <2>4. i \in 0 .. b /\ k =< size * i + size
    BY <2>3
  <2>5. size * i < k
    <3>1. CASE i = 0
      BY <3>1
    <3>2. CASE i > 0
      <4>1. i - 1 \in 0 .. b /\ i - 1 \notin T
        BY <2>3, <2>4, <3>2
      <4>2. size * (i - 1) + size = size * i
        BY <2>4
      <4>3. ~ (k =< size * (i - 1) + size)
        BY <4>1
      <4>4. size * i \in Int
        BY <2>4
      <4> QED BY <4>2, <4>3, <4>4
    <3> QED BY <2>4, <3>1, <3>2
  <2>6. size * i \in Nat
    BY <2>4
  <2> QED BY <2>4, <2>5, <2>6 DEF OnPage
<1>2. ASSUME NEW i \in 0 .. b, NEW j \in 0 .. b, i < j PROVE size * i + size =< size * j
  <2>1. PICK d \in Nat : j = i + 1 + d
    <3>1. j - i - 1 \in Nat /\ j = i + 1 + (j - i - 1)
      BY <1>2
    <3> QED BY <3>1
  <2>2. size * j = size * i + size + size * d
    BY <2>1
  <2>3. size * d \in Nat /\ size * i \in Nat
    OBVIOUS
  <2> QED BY <2>2, <2>3
<1>3. ASSUME NEW i \in 0 .. b, NEW j \in 0 .. b, NEW k \in 1 .. n, i < j,
             k \in OnPage(n, size, size * i), k \in OnPage(n, size, size * j)
      PROVE  FALSE
  <2>1. size * i \in Nat /\ size * j \in Nat
    OBVIOUS
  <2> QED BY <1>2, <1>3, <2>1 DEF OnPage
<1>4. ASSUME NEW i \in 0 .. b, NEW j \in 0 .. b, NEW k \in 1 .. n,
             k \in OnPage(n, size, size * i), k \in OnPage(n, size, size * j)
      PROVE  i = j
  <2>1. ~ (i < j) /\ ~ (j < i)
    BY <1>3, <1>4
  <2> QED BY <2>1
<1> QED
  BY <1>1, <1>4

-----------------------------------------------------------------------------
(***************************************************************************)
(* Sort keys.  The key of the id, which every list has (compileSort), makes *)
(* the order of the rows strict and total; so SQLite has no choice.        *)
(***************************************************************************)
\* What a row is compared by is a number or is missing.
LEMMA ColumnIs ==
    ASSUME TablesOK(nodes, edges), NEW n \in Rows(DB), NEW path
    PROVE  /\ Column(DB, n, path) \in Int \cup {Null}
           /\ path.kind = "system" => Column(DB, n, path) = n /\ n \in Int
<1>1. n \in Int /\ nodes[n] \in Row
  BY ReadsAssumption DEF ReadsAssumption, Rows, DB, TablesOK
<1>2. nodes[n].value \in Int \cup {Null}
  BY <1>1, ReadsAssumption DEF ReadsAssumption, Row
<1> QED
  BY <1>1, <1>2 DEF Column, DB

\* One sort key is a weak order of the rows; the key of the id is a total one.
LEMMA BeforeIsWeakOrder ==
    ASSUME TablesOK(nodes, edges), NEW a \in Rows(DB), NEW b \in Rows(DB), NEW c \in Rows(DB), NEW key
    PROVE  /\ ~ Before(DB, a, a, key)
           /\ Before(DB, a, b, key) /\ Before(DB, b, c, key) => Before(DB, a, c, key)
           /\ Before(DB, a, c, key) => Before(DB, a, b, key) \/ Before(DB, b, c, key)
           /\ key.path.kind = "system" /\ a # b => Before(DB, a, b, key) \/ Before(DB, b, a, key)
<1> DEFINE x == Column(DB, a, key.path)
           y == Column(DB, b, key.path)
           z == Column(DB, c, key.path)
<1>1. x \in Int \cup {Null} /\ y \in Int \cup {Null} /\ z \in Int \cup {Null}
  BY ColumnIs
<1>2. key.path.kind = "system" => x = a /\ y = b /\ a \in Int /\ b \in Int
  BY ColumnIs
<1>3. Null \notin Int
  BY ReadsAssumption DEF ReadsAssumption
<1>4. /\ Before(DB, a, a, key) = IF key.desc THEN FALSE \/ (x # Null /\ x # Null /\ x < x)
                                            ELSE FALSE \/ (x # Null /\ x # Null /\ x < x)
      /\ Before(DB, a, b, key) = IF key.desc THEN (y = Null /\ x # Null) \/ (x # Null /\ y # Null /\ y < x)
                                            ELSE (x = Null /\ y # Null) \/ (x # Null /\ y # Null /\ x < y)
      /\ Before(DB, b, a, key) = IF key.desc THEN (x = Null /\ y # Null) \/ (y # Null /\ x # Null /\ x < y)
                                            ELSE (y = Null /\ x # Null) \/ (y # Null /\ x # Null /\ y < x)
      /\ Before(DB, b, c, key) = IF key.desc THEN (z = Null /\ y # Null) \/ (y # Null /\ z # Null /\ z < y)
                                            ELSE (y = Null /\ z # Null) \/ (y # Null /\ z # Null /\ y < z)
      /\ Before(DB, a, c, key) = IF key.desc THEN (z = Null /\ x # Null) \/ (x # Null /\ z # Null /\ z < x)
                                            ELSE (x = Null /\ z # Null) \/ (x # Null /\ z # Null /\ x < z)
  BY DEF Before
<1> HIDE DEF x, y, z
<1>5. ~ Before(DB, a, a, key)
  <2>1. x # Null => ~ (x < x)
    BY <1>1
  <2> QED BY <1>4, <2>1, Zenon
<1>6. Before(DB, a, b, key) /\ Before(DB, b, c, key) => Before(DB, a, c, key)
  <2>1. CASE key.desc
    BY <2>1, <1>1, <1>3, <1>4
  <2>2. CASE ~ key.desc
    BY <2>2, <1>1, <1>3, <1>4
  <2> QED BY <2>1, <2>2
<1>7. Before(DB, a, c, key) => Before(DB, a, b, key) \/ Before(DB, b, c, key)
  <2>1. CASE key.desc
    BY <2>1, <1>1, <1>3, <1>4
  <2>2. CASE ~ key.desc
    BY <2>2, <1>1, <1>3, <1>4
  <2> QED BY <2>1, <2>2
<1>8. key.path.kind = "system" /\ a # b => Before(DB, a, b, key) \/ Before(DB, b, a, key)
  <2>1. ASSUME key.path.kind = "system", a # b
        PROVE  x # Null /\ y # Null /\ (x < y \/ y < x)
    BY <1>2, <1>3, <2>1
  <2> QED BY <1>4, <2>1, Zenon
<1> QED
  BY <1>5, <1>6, <1>7, <1>8

\* Neither comes first by this key.
Tie(D, a, b, key) == ~ Before(D, a, b, key) /\ ~ Before(D, b, a, key)

\* Ties of one key are an equivalence that agrees with the key.
LEMMA TiesAgree ==
    ASSUME TablesOK(nodes, edges), NEW a \in Rows(DB), NEW b \in Rows(DB), NEW c \in Rows(DB), NEW key
    PROVE  /\ Tie(DB, a, b, key) /\ Tie(DB, b, c, key) => Tie(DB, a, c, key)
           /\ Before(DB, a, b, key) /\ Tie(DB, b, c, key) => Before(DB, a, c, key)
           /\ Tie(DB, a, b, key) /\ Before(DB, b, c, key) => Before(DB, a, c, key)
<1>1. Before(DB, a, c, key) => Before(DB, a, b, key) \/ Before(DB, b, c, key)
  BY BeforeIsWeakOrder
<1>2. Before(DB, c, a, key) => Before(DB, c, b, key) \/ Before(DB, b, a, key)
  BY BeforeIsWeakOrder
<1>3. Before(DB, a, b, key) => Before(DB, a, c, key) \/ Before(DB, c, b, key)
  BY BeforeIsWeakOrder
<1>4. Before(DB, b, c, key) => Before(DB, b, a, key) \/ Before(DB, a, c, key)
  BY BeforeIsWeakOrder
<1> QED
  BY <1>1, <1>2, <1>3, <1>4 DEF Tie

\* Keys of which one is the id order the rows strictly and totally.
LEMMA KeysOrderRows ==
    ASSUME TablesOK(nodes, edges), NEW S \in SUBSET Rows(DB), NEW keys, NEW len \in Nat,
           DOMAIN keys = 1 .. len, \E m \in 1 .. len : keys[m].path.kind = "system"
    PROVE  IsStrictOrder({p \in S \X S : Precedes(DB, p[1], p[2], keys)}, S)
<1>1. ASSUME NEW a \in S, Precedes(DB, a, a, keys) PROVE FALSE
  BY <1>1, BeforeIsWeakOrder DEF Precedes
<1>2. ASSUME NEW a \in S, NEW b \in S, a # b
      PROVE  Precedes(DB, a, b, keys) \/ Precedes(DB, b, a, keys)
  <2> DEFINE T == {i \in 1 .. len : ~ Tie(DB, a, b, keys[i])}
  <2>1. T # {}
    <3>1. PICK m \in 1 .. len : keys[m].path.kind = "system"
      OBVIOUS
    <3>2. Before(DB, a, b, keys[m]) \/ Before(DB, b, a, keys[m])
      BY <1>2, <3>1, BeforeIsWeakOrder
    <3> QED BY <3>1, <3>2 DEF Tie
  <2>2. PICK i \in T : \A k \in T : i =< k
    <3>1. T \subseteq Nat
      OBVIOUS
    <3> HIDE DEF T
    <3> QED BY <2>1, <3>1, SmallestOf
  <2>3. i \in 1 .. len /\ ~ Tie(DB, a, b, keys[i])
    BY <2>2
  <2>4. \A j \in 1 .. i - 1 : Tie(DB, a, b, keys[j])
    BY <2>2, <2>3
  <2> QED BY <2>3, <2>4 DEF Precedes, Tie
<1>3. ASSUME NEW a \in S, NEW b \in S, NEW c \in S,
             Precedes(DB, a, b, keys), Precedes(DB, b, c, keys)
      PROVE  Precedes(DB, a, c, keys)
  <2>1. PICK i \in 1 .. len : /\ Before(DB, a, b, keys[i])
                             /\ \A k \in 1 .. i - 1 : Tie(DB, a, b, keys[k])
    BY <1>3 DEF Precedes, Tie
  <2>2. PICK j \in 1 .. len : /\ Before(DB, b, c, keys[j])
                             /\ \A k \in 1 .. j - 1 : Tie(DB, b, c, keys[k])
    BY <1>3 DEF Precedes, Tie
  <2>3. ASSUME NEW k \in 1 .. len, k =< i, k =< j, Before(DB, a, c, keys[k])
        PROVE  Precedes(DB, a, c, keys)
    <3>1. ASSUME NEW l \in 1 .. k - 1 PROVE Tie(DB, a, c, keys[l])
      <4>1. Tie(DB, a, b, keys[l]) /\ Tie(DB, b, c, keys[l])
        BY <2>1, <2>2, <2>3
      <4> QED BY <4>1, TiesAgree
    <3> QED BY <2>3, <3>1 DEF Precedes, Tie
  <2>4. CASE i < j
    <3>1. Tie(DB, b, c, keys[i])
      BY <2>1, <2>2, <2>4
    <3>2. Before(DB, a, c, keys[i])
      BY <2>1, <3>1, TiesAgree
    <3> QED BY <2>3, <2>4, <3>2
  <2>5. CASE j < i
    <3>1. Tie(DB, a, b, keys[j])
      BY <2>1, <2>2, <2>5
    <3>2. Before(DB, a, c, keys[j])
      BY <2>2, <3>1, TiesAgree
    <3> QED BY <2>3, <2>5, <3>2
  <2>6. CASE i = j
    <3>1. Before(DB, a, c, keys[i])
      BY <2>1, <2>2, <2>6, BeforeIsWeakOrder
    <3> QED BY <2>3, <2>6, <3>1
  <2> QED BY <2>4, <2>5, <2>6
<1> DEFINE P == {p \in S \X S : Precedes(DB, p[1], p[2], keys)}
<1>4. \A a, b \in S : <<a, b>> \in P <=> Precedes(DB, a, b, keys)
  OBVIOUS
<1> HIDE DEF P
<1>5. \A a \in S : <<a, a>> \notin P
  BY <1>1, <1>4
<1>6. \A a, b \in S : a # b => <<a, b>> \in P \/ <<b, a>> \in P
  BY <1>2, <1>4
<1>7. \A a, b, c \in S : <<a, b>> \in P /\ <<b, c>> \in P => <<a, c>> \in P
  BY <1>3, <1>4
<1>8. IsStrictOrder(P, S)
  BY <1>5, <1>6, <1>7 DEF IsStrictOrder
<1> QED
  BY <1>8 DEF P

\* The keys of a list, the id among them.
LEMMA SortKeysHaveId ==
    ASSUME NEW sort \in Sorts
    PROVE  \E len \in Nat : /\ DOMAIN SortKeys(sort) = 1 .. len
                            /\ \E m \in 1 .. len : SortKeys(sort)[m].path.kind = "system"
<1> DEFINE Key2 == [path : [kind : STRING, source : STRING, name : STRING], desc : BOOLEAN]
<1>1. sort \in Seq(Key2)
  BY ReadsAssumption DEF ReadsAssumption
<1> DEFINE id == System("id")
           last == Desc(id)
<1>2. id.kind = "system"
  BY DEF System
<1> HIDE DEF id
<1>3. last.path.kind = "system"
  BY <1>2 DEF Desc
<1> HIDE DEF Key2, last
<1>4. Len(sort) \in Nat /\ DOMAIN sort = 1 .. Len(sort)
  BY <1>1
<1>5. CASE \E i \in DOMAIN sort : sort[i].path = id
  <2>1. SortKeys(sort) = sort
    BY <1>5 DEF SortKeys, id
  <2>2. \E m \in 1 .. Len(sort) : sort[m].path.kind = "system"
    BY <1>2, <1>4, <1>5
  <2> QED BY <1>4, <2>1, <2>2
<1>6. CASE ~ \E i \in DOMAIN sort : sort[i].path = id
  <2>1. SortKeys(sort) = Append(sort, last)
    BY <1>6 DEF SortKeys, last, id
  <2> DEFINE keys == Append(sort, last)
             len == Len(sort) + 1
  <2>2. DOMAIN keys = 1 .. len /\ keys[len] = last
    <3>1. sort \in Seq(Key2 \cup {last})
      BY <1>1
    <3> QED BY <3>1, <1>4, AppendProperties
  <2>3. len \in Nat /\ len \in 1 .. len
    BY <1>4
  <2> HIDE DEF keys, len
  <2>4. keys[len].path.kind = "system"
    BY <1>3, <2>2
  <2>5. SortKeys(sort) = keys
    BY <2>1 DEF keys
  <2> QED BY <2>2, <2>3, <2>4, <2>5
<1> QED
  BY <1>5, <1>6

\* The statement ORDER BY leaves no choice: a list has one order.
LEMMA ListHasOneOrder ==
    ASSUME TablesOK(nodes, edges), NEW S \in SUBSET Rows(DB), NEW sort \in Sorts
    PROVE  /\ IsFiniteSet(S)
           /\ \E f \in SetToSeqs(S) : Orders(DB, S, sort) = {f}
<1> DEFINE keys == SortKeys(sort)
           P == {p \in S \X S : Precedes(DB, p[1], p[2], keys)}
<1>1. IsFiniteSet(S)
  <2>1. S \in SUBSET NodeId /\ IsFiniteSet(NodeId)
    BY ReadsAssumption DEF ReadsAssumption, Rows
  <2> QED BY <2>1, FS_Subset
<1>2. IsStrictOrder(P, S)
  <2>1. PICK len \in Nat : /\ DOMAIN keys = 1 .. len
                          /\ \E m \in 1 .. len : keys[m].path.kind = "system"
    BY SortKeysHaveId
  <2> HIDE DEF keys
  <2> QED BY <2>1, KeysOrderRows
<1> HIDE DEF keys
<1>3. ASSUME NEW s \in SetToSeqs(S) PROVE s \in Orders(DB, S, sort) <=> InOrder(P, s)
  <2>1. \A i, j \in DOMAIN s : s[i] \in S /\ s[j] \in S
    BY DEF SetToSeqs
  <2>2. \A i, j \in DOMAIN s : <<s[i], s[j]>> \in P <=> Precedes(DB, s[i], s[j], keys)
    BY <2>1
  <2> HIDE DEF P
  <2> QED BY <2>2 DEF Orders, InOrder, keys
<1> HIDE DEF P
<1>4. PICK f \in SetToSeqs(S) : InOrder(P, f)
  BY <1>1, <1>2, SomeOrder
<1>5. Orders(DB, S, sort) \subseteq SetToSeqs(S)
  BY DEF Orders
<1>6. \A g \in Orders(DB, S, sort) : g = f
  BY <1>1, <1>2, <1>3, <1>4, <1>5, OneOrder
<1>7. Orders(DB, S, sort) = {f}
  BY <1>3, <1>4, <1>6
<1> QED
  BY <1>1, <1>7

-----------------------------------------------------------------------------
(***************************************************************************)
(* The pages of a list.                                                    *)
(***************************************************************************)
\* What the pages of the members of S are.
Partition(S, b, size, total, Page) ==
    /\ UNION {ToSet(Page[i]) : i \in 0 .. b} = S
    /\ \A i \in 0 .. b :
         /\ Len(Page[i]) = IF total < size * i THEN 0
                           ELSE IF total < size * (i + 1) THEN total - size * i
                           ELSE size
         /\ \A j \in 0 .. b : i # j => ToSet(Page[i]) \cap ToSet(Page[j]) = {}

\* The pages of one order.
LEMMA PagesOfOrder ==
    ASSUME NEW S, IsFiniteSet(S), NEW f \in SetToSeqs(S), NEW b \in Nat, Cardinality(S) =< b,
           NEW size \in Nat \ {0}
    PROVE  Partition(S, b, size, Cardinality(S), [i \in 0 .. b |-> PageOf(f, size, size * i)])
<1> DEFINE Page == [i \in 0 .. b |-> PageOf(f, size, size * i)]
<1> DEFINE n == Cardinality(S)
<1>1. /\ f \in [1 .. n -> S] /\ n \in Nat
      /\ \A i, j \in 1 .. n : i # j => f[i] # f[j]
      /\ \A a \in S : \E i \in 1 .. n : f[i] = a
  BY AllOnce
<1> HIDE DEF n
<1>2. n =< b
  BY DEF n
<1>3. ASSUME NEW i \in 0 .. b
      PROVE  /\ Len(Page[i]) = IF n < size * i THEN 0
                               ELSE IF n < size * (i + 1) THEN n - size * i ELSE size
             /\ ToSet(Page[i]) = {f[k] : k \in OnPage(n, size, size * i)}
  <2> DEFINE off == size * i
  <2>1. off \in Nat /\ size * (i + 1) = off + size
    OBVIOUS
  <2>2. Page[i] = PageOf(f, size, off)
    OBVIOUS
  <2> HIDE DEF off
  <2> DEFINE p == PageOf(f, size, off)
  <2>3. IsPage(p, f, n, size, off)
    BY <1>1, <2>1, PageIs
  <2> HIDE DEF p
  <2>4. Page[i] = p
    BY <2>2 DEF p
  <2> HIDE DEF Page
  <2> QED BY <2>1, <2>3, <2>4 DEF off, IsPage
<1> HIDE DEF Page
<1>4. \A i \in 0 .. b : OnPage(n, size, size * i) \subseteq 1 .. n
  BY DEF OnPage
<1>5. /\ \A k \in 1 .. n : \E i \in 0 .. b : k \in OnPage(n, size, size * i)
      /\ \A i, j \in 0 .. b : \A k \in 1 .. n :
           k \in OnPage(n, size, size * i) /\ k \in OnPage(n, size, size * j) => i = j
  BY <1>1, <1>2, PlacesOnPages
<1> DEFINE Places(i) == OnPage(n, size, size * i)
<1>6. /\ \A i \in 0 .. b : Places(i) \subseteq 1 .. n
      /\ \A k \in 1 .. n : \E i \in 0 .. b : k \in Places(i)
      /\ \A i, j \in 0 .. b : \A k \in 1 .. n : k \in Places(i) /\ k \in Places(j) => i = j
      /\ \A i \in 0 .. b : ToSet(Page[i]) = {f[k] : k \in Places(i)}
  BY <1>3, <1>4, <1>5
<1> HIDE DEF Places
<1>7. UNION {ToSet(Page[i]) : i \in 0 .. b} = S
  <2>1. ASSUME NEW a \in S PROVE \E i \in 0 .. b : a \in ToSet(Page[i])
    <3>1. PICK k \in 1 .. n : f[k] = a
      BY <1>1
    <3>2. PICK i \in 0 .. b : k \in Places(i)
      BY <1>6
    <3>3. a \in ToSet(Page[i])
      BY <1>6, <3>1, <3>2
    <3> QED BY <3>3
  <2>2. ASSUME NEW i \in 0 .. b, NEW a \in ToSet(Page[i]) PROVE a \in S
    BY <1>1, <1>6
  <2> QED BY <2>1, <2>2
<1>8. ASSUME NEW i \in 0 .. b, NEW j \in 0 .. b, i # j
      PROVE  ToSet(Page[i]) \cap ToSet(Page[j]) = {}
  <2>1. ASSUME NEW k \in Places(i), NEW l \in Places(j) PROVE f[k] # f[l]
    <3>1. k \in 1 .. n /\ l \in 1 .. n /\ k # l
      BY <1>6, <1>8
    <3> QED BY <1>1, <3>1
  <2>2. ToSet(Page[i]) = {f[k] : k \in Places(i)} /\ ToSet(Page[j]) = {f[k] : k \in Places(j)}
    BY <1>6
  <2> QED BY <2>1, <2>2
<1> QED
  BY <1>3, <1>7, <1>8 DEF n, Partition, Page

\* Lists are paged without a gap or a repetition.
LEMMA PagesHold == TablesOK(nodes, edges) => PagesPartitionMatches
<1> SUFFICES ASSUME TablesOK(nodes, edges), NEW s \in Lists, NEW sort \in Sorts
    PROVE  LET M == Matches(DB, Listed, s, NoExpr)
               O == Orders(DB, M, sort)
               total == CountNodes(DB, Listed, s, NoExpr, -1)
           IN  /\ O # {}
               /\ \A size \in 1 .. Bound, o \in [0 .. Bound -> O] :
                    LET Page == [i \in 0 .. Bound |-> PageOf(o[i], size, size * i)]
                    IN  /\ UNION {ToSet(Page[i]) : i \in 0 .. Bound} = M
                        /\ \A i \in 0 .. Bound :
                             /\ Len(Page[i]) = IF total < size * i THEN 0
                                               ELSE IF total < size * (i + 1) THEN total - size * i
                                               ELSE size
                             /\ \A j \in 0 .. Bound :
                                  i # j => ToSet(Page[i]) \cap ToSet(Page[j]) = {}
  BY DEF PagesPartitionMatches
<1> DEFINE M == Matches(DB, Listed, s, NoExpr)
           O == Orders(DB, M, sort)
           total == CountNodes(DB, Listed, s, NoExpr, -1)
<1>1. M \in SUBSET Rows(DB)
  BY DEF Matches, Selected
<1>2. total = Cardinality(M)
  BY DEF CountNodes
<1> HIDE DEF M
<1>3. IsFiniteSet(M) /\ \E f \in SetToSeqs(M) : O = {f}
  BY <1>1, ListHasOneOrder
<1>4. PICK f \in SetToSeqs(M) : O = {f}
  BY <1>3
<1>5. Bound \in Nat /\ Cardinality(M) =< Bound
  <2>1. IsFiniteSet(NodeId) /\ M \in SUBSET NodeId
    BY <1>1, ReadsAssumption DEF ReadsAssumption, Rows
  <2> QED BY <2>1, FS_Subset, FS_CardinalityType DEF Bound
<1> HIDE DEF O, total
<1>6. ASSUME NEW size \in 1 .. Bound, NEW o \in [0 .. Bound -> O]
      PROVE  Partition(M, Bound, size, total, [i \in 0 .. Bound |-> PageOf(o[i], size, size * i)])
  <2>1. \A i \in 0 .. Bound : o[i] = f
    BY <1>4
  <2>2. [i \in 0 .. Bound |-> PageOf(o[i], size, size * i)]
          = [i \in 0 .. Bound |-> PageOf(f, size, size * i)]
    BY <2>1
  <2>3. size \in Nat \ {0}
    BY <1>5
  <2>4. Partition(M, Bound, size, Cardinality(M), [i \in 0 .. Bound |-> PageOf(f, size, size * i)])
    BY <1>3, <1>5, <2>3, PagesOfOrder
  <2> QED BY <1>2, <2>2, <2>4
<1>7. O # {}
  BY <1>4
<1> QED
  BY <1>6, <1>7 DEF M, O, total, Partition

\* However a list is sorted and whatever the page size, its pages hold every match exactly
\* once, and the count of the list tells how long each page is: the sort keys that
\* compileSort completes with the id leave the engine no choice.
THEOREM PagesPartition == Spec => []PagesPartitionMatches
  BY TablesFit, PagesHold, PTL

-----------------------------------------------------------------------------
(***************************************************************************)
(* Levels.  Within counts hops from the start.                             *)
(***************************************************************************)
\* Recursion over a range of numbers: values in V, each from the one before.
IsRecursion(g, m, V, e, s) ==
    g \in [0 .. m -> V] /\ g[0] = e /\ \A i \in 1 .. m : g[i] = s[i][g[i - 1]]

\* There is a sequence of values each of which follows from the one before: a LET
\* function of a level has a value.
LEMMA RecursionOn ==
    ASSUME NEW m \in Nat, NEW V, NEW e \in V, NEW s \in [1 .. m -> [V -> V]]
    PROVE  \E g : IsRecursion(g, m, V, e, s)
<1> DEFINE Good(k, g) == g \in [0 .. k -> V] /\ g[0] = e /\ \A i \in 1 .. k : g[i] = s[i][g[i - 1]]
           T == {k \in 0 .. m : \E g : Good(k, g)}
<1>1. 0 \in T
  <2>1. Good(0, [i \in 0 .. 0 |-> e])
    OBVIOUS
  <2> HIDE DEF Good
  <2> QED BY <2>1
<1>2. ASSUME NEW k \in 1 .. m, k - 1 \in T PROVE k \in T
  <2>1. PICK g : Good(k - 1, g)
    BY <1>2
  <2> DEFINE h == [i \in 0 .. k |-> IF i = k THEN s[k][g[k - 1]] ELSE g[i]]
  <2>2. g[k - 1] \in V /\ s[k] \in [V -> V]
    BY <2>1
  <2>3. h \in [0 .. k -> V]
    BY <2>1, <2>2
  <2>4. h[0] = e
    BY <2>1
  <2>5. \A i \in 0 .. k : h[i] = IF i = k THEN s[k][g[k - 1]] ELSE g[i]
    OBVIOUS
  <2> HIDE DEF h
  <2>6. ASSUME NEW i \in 1 .. k PROVE h[i] = s[i][h[i - 1]]
    <3>1. i - 1 \in 0 .. k /\ i - 1 # k /\ i \in 0 .. k
      OBVIOUS
    <3>2. h[i - 1] = g[i - 1]
      BY <2>5, <3>1
    <3>3. CASE i = k
      BY <2>5, <3>1, <3>2, <3>3
    <3>4. CASE i # k
      <4>1. i \in 1 .. k - 1
        BY <3>4
      <4> QED BY <2>1, <2>5, <3>1, <3>2, <3>4, <4>1
    <3> QED BY <3>3, <3>4
  <2>7. Good(k, h)
    BY <2>3, <2>4, <2>6
  <2> HIDE DEF Good
  <2> QED BY <2>7
<1> HIDE DEF T
<1>3. 0 .. m \subseteq T
  BY <1>1, <1>2, InductionOn
<1>4. m \in T
  BY <1>3
<1> QED
  BY <1>4 DEF T, IsRecursion

\* Where one step leads.
Onward(R, X) == {r[2] : r \in {q \in R : q[1] \in X}}

\* The levels of Within.
WithinAt(R, n, k) ==
    CHOOSE B : B = [i \in 0 .. k |->
        IF i = 0 THEN {n} ELSE B[i - 1] \cup {r[2] : r \in {q \in R : q[1] \in B[i - 1]}}]

\* Each level of Within follows from the one before.
AreLevels(B, V, R, n, k) ==
    /\ B \in [0 .. k -> SUBSET V]
    /\ B[0] = {n}
    /\ \A i \in 1 .. k : B[i] = B[i - 1] \cup Onward(R, B[i - 1])

\* The levels of Within start at the start and each adds one hop.
LEMMA WithinAtDef ==
    ASSUME NEW V, NEW R \in SUBSET (V \X V), NEW n \in V, NEW k \in Nat
    PROVE  AreLevels(WithinAt(R, n, k), V, R, n, k)
<1> DEFINE s == [i \in 1 .. k |-> [X \in SUBSET V |-> X \cup Onward(R, X)]]
<1>1. \A X \in SUBSET V : Onward(R, X) \in SUBSET V
  BY DEF Onward
<1>2. s \in [1 .. k -> [SUBSET V -> SUBSET V]]
  BY <1>1
<1>3. \A i \in 1 .. k : \A X \in SUBSET V : s[i][X] = X \cup Onward(R, X)
  OBVIOUS
<1> HIDE DEF s
<1>4. PICK g \in [0 .. k -> SUBSET V] : g[0] = {n} /\ \A i \in 1 .. k : g[i] = s[i][g[i - 1]]
  <2> DEFINE P == SUBSET V
             e == {n}
  <2>1. e \in P /\ s \in [1 .. k -> [P -> P]]
    BY <1>2
  <2> HIDE DEF P, e
  <2>2. \E g : IsRecursion(g, k, P, e, s)
    BY <2>1, RecursionOn
  <2> QED BY <2>2 DEF P, e, IsRecursion
<1>5. ASSUME NEW i \in 1 .. k PROVE g[i] = g[i - 1] \cup Onward(R, g[i - 1])
  <2>1. i - 1 \in 0 .. k
    OBVIOUS
  <2> QED BY <1>3, <1>4, <2>1
<1> DEFINE Ring(B, i) == IF i = 0 THEN {n} ELSE B[i - 1] \cup Onward(R, B[i - 1])
           W == WithinAt(R, n, k)
<1>6. \A i \in 0 .. k : g[i] = Ring(g, i)
  <2> TAKE i \in 0 .. k
  <2>1. i = 0 \/ i \in 1 .. k
    OBVIOUS
  <2> QED BY <1>4, <1>5, <2>1
<1>7. g = [i \in 0 .. k |-> Ring(g, i)]
  <2> HIDE DEF Ring
  <2> QED BY <1>6
<1>8. W = [i \in 0 .. k |-> Ring(W, i)]
  BY <1>7 DEF WithinAt, Onward
<1> HIDE DEF W
<1>9. \A i \in 0 .. k : W[i] = Ring(W, i)
  <2> HIDE DEF Ring
  <2> QED BY <1>8
<1>10. W[0] = {n}
  <2>1. 0 \in 0 .. k
    OBVIOUS
  <2> QED BY <1>9, <2>1
<1>11. ASSUME NEW i \in 1 .. k PROVE W[i] = W[i - 1] \cup Onward(R, W[i - 1])
  <2>1. i \in 0 .. k /\ i # 0
    OBVIOUS
  <2> QED BY <1>9, <2>1
<1>12. 0 .. k \subseteq {i \in 0 .. k : W[i] \in SUBSET V}
  <2> DEFINE T == {i \in 0 .. k : W[i] \in SUBSET V}
  <2>1. 0 \in T
    BY <1>10
  <2>2. ASSUME NEW i \in 1 .. k, i - 1 \in T PROVE i \in T
    BY <1>1, <1>11, <2>2
  <2> HIDE DEF T
  <2>3. 0 .. k \subseteq T
    BY <2>1, <2>2, InductionOn
  <2> QED BY <2>3 DEF T
<1>13. W \in [0 .. k -> SUBSET V]
  <2>1. \A i \in 0 .. k : W[i] \in SUBSET V
    BY <1>12
  <2> HIDE DEF Ring
  <2> QED BY <1>8, <2>1
<1> QED
  BY <1>10, <1>11, <1>13 DEF W, AreLevels

\* Without a hop there is the start.
LEMMA WithinZero ==
    ASSUME NEW V, NEW R \in SUBSET (V \X V), NEW n \in V
    PROVE  Within(R, n, 0) = {n}
<1>1. AreLevels(WithinAt(R, n, 0), V, R, n, 0)
  BY WithinAtDef
<1>2. Within(R, n, 0) = WithinAt(R, n, 0)[0]
  BY DEF Within, WithinAt
<1> QED
  BY <1>1, <1>2 DEF AreLevels

\* Hops never leave the vertices.
LEMMA WithinInside ==
    ASSUME NEW V, NEW R \in SUBSET (V \X V), NEW n \in V, NEW k \in Nat
    PROVE  Within(R, n, k) \in SUBSET V
<1>1. AreLevels(WithinAt(R, n, k), V, R, n, k)
  BY WithinAtDef
<1>2. Within(R, n, k) = WithinAt(R, n, k)[k]
  BY DEF Within, WithinAt
<1> QED
  BY <1>1, <1>2 DEF AreLevels

\* Within one hop more: a step from within.
LEMMA WithinNext ==
    ASSUME NEW V, NEW R \in SUBSET (V \X V), NEW n \in V, NEW k \in Nat
    PROVE  Within(R, n, k + 1) = Within(R, n, k) \cup Onward(R, Within(R, n, k))
<1> DEFINE F == WithinAt(R, n, k)
           G == WithinAt(R, n, k + 1)
           T == {i \in 0 .. k : G[i] = F[i]}
<1>1. F[0] = {n} /\ \A i \in 1 .. k : F[i] = F[i - 1] \cup Onward(R, F[i - 1])
  <2>1. AreLevels(F, V, R, n, k)
    BY WithinAtDef
  <2> HIDE DEF F
  <2> QED BY <2>1 DEF AreLevels
<1>2. G[0] = {n} /\ \A i \in 1 .. k + 1 : G[i] = G[i - 1] \cup Onward(R, G[i - 1])
  <2>0. k + 1 \in Nat
    OBVIOUS
  <2>1. AreLevels(G, V, R, n, k + 1)
    BY <2>0, WithinAtDef
  <2> HIDE DEF G
  <2> QED BY <2>1 DEF AreLevels
<1> HIDE DEF F, G
<1>3. 0 \in T
  <2>1. 0 \in 0 .. k
    OBVIOUS
  <2>2. G[0] = F[0]
    BY <1>1, <1>2
  <2> QED BY <2>1, <2>2
<1>4. ASSUME NEW i \in 1 .. k, i - 1 \in T PROVE i \in T
  <2>1. i \in 1 .. k + 1 /\ i \in 0 .. k /\ G[i - 1] = F[i - 1]
    BY <1>4
  <2> QED BY <1>1, <1>2, <2>1
<1> HIDE DEF T
<1>5. 0 .. k \subseteq T
  BY <1>3, <1>4, InductionOn
<1>6. G[k] = F[k]
  BY <1>5 DEF T
<1>7. G[k + 1] = G[k] \cup Onward(R, G[k])
  BY <1>2
<1>8. Within(R, n, k + 1) = G[k + 1] /\ Within(R, n, k) = F[k]
  BY DEF Within, WithinAt, F, G
<1> QED
  BY <1>6, <1>7, <1>8

-----------------------------------------------------------------------------
(***************************************************************************)
(* What is within reach: it grows with the hops, it is the least closed    *)
(* set, it reads the same from the other end, and as many hops as there are *)
(* vertices reach all that can be reached.                                 *)
(***************************************************************************)
\* A set that holds 0, and with every number the next, holds all numbers.
LEMMA InductionUp ==
    ASSUME NEW T, 0 \in T, \A k \in Nat : k \in T => k + 1 \in T
    PROVE  \A k \in Nat : k \in T
<1> TAKE m \in Nat
<1>1. ASSUME NEW k \in 1 .. m, k - 1 \in T PROVE k \in T
  <2>1. k - 1 \in Nat /\ (k - 1) + 1 = k
    OBVIOUS
  <2> QED BY <1>1, <2>1
<1>2. 0 .. m \subseteq T
  BY <1>1, InductionOn
<1> QED
  BY <1>2

\* One step leads where a pair leads.
LEMMA OnwardIs ==
    ASSUME NEW V, NEW R \in SUBSET (V \X V), NEW X, NEW b
    PROVE  b \in Onward(R, X) <=> \E a \in X : <<a, b>> \in R
<1>1. ASSUME NEW a \in X, <<a, b>> \in R PROVE b \in Onward(R, X)
  <2>1. <<a, b>>[1] = a /\ <<a, b>>[2] = b
    OBVIOUS
  <2> QED BY <1>1, <2>1 DEF Onward
<1>2. ASSUME b \in Onward(R, X) PROVE \E a \in X : <<a, b>> \in R
  <2>1. PICK r \in R : r[1] \in X /\ r[2] = b
    BY <1>2 DEF Onward
  <2>2. r = <<r[1], r[2]>>
    OBVIOUS
  <2> QED BY <2>1, <2>2
<1> QED
  BY <1>1, <1>2

\* One hop more.
LEMMA WithinStep ==
    ASSUME NEW V, NEW R \in SUBSET (V \X V), NEW n \in V, NEW k \in Nat, NEW b
    PROVE  b \in Within(R, n, k + 1) <=> \/ b \in Within(R, n, k)
                                         \/ \E a \in Within(R, n, k) : <<a, b>> \in R
<1>1. Within(R, n, k + 1) = Within(R, n, k) \cup Onward(R, Within(R, n, k))
  BY WithinNext
<1> DEFINE X == Within(R, n, k)
<1>2. b \in Onward(R, X) <=> \E a \in X : <<a, b>> \in R
  <2> HIDE DEF X
  <2> QED BY OnwardIs
<1> QED
  BY <1>1, <1>2

\* More hops reach more.
LEMMA WithinGrows ==
    ASSUME NEW V, NEW R \in SUBSET (V \X V), NEW n \in V, NEW i \in Nat, NEW j \in Nat, i =< j
    PROVE  Within(R, n, i) \subseteq Within(R, n, j)
<1> DEFINE W(k) == Within(R, n, k)
           T == {d \in Nat : W(i) \subseteq W(i + d)}
<1>1. \A k \in Nat : W(k) \subseteq W(k + 1)
  BY WithinNext
<1> HIDE DEF W
<1>2. 0 \in T
  BY DEF W
<1>3. ASSUME NEW d \in Nat, d \in T PROVE d + 1 \in T
  <2>1. i + d \in Nat /\ (i + d) + 1 = i + (d + 1)
    OBVIOUS
  <2>2. W(i + d) \subseteq W((i + d) + 1)
    BY <1>1, <2>1
  <2> QED BY <1>3, <2>1, <2>2
<1> HIDE DEF T
<1>4. \A d \in Nat : d \in T
  BY <1>2, <1>3, InductionUp
<1>5. j - i \in Nat /\ i + (j - i) = j
  OBVIOUS
<1>6. j - i \in T
  BY <1>4, <1>5
<1>7. W(i) \subseteq W(j)
  BY <1>5, <1>6 DEF T
<1> QED
  BY <1>7 DEF W

\* The start is within any number of hops, and the rest are vertices.
LEMMA WithinHasStart ==
    ASSUME NEW V, NEW R \in SUBSET (V \X V), NEW n \in V, NEW k \in Nat
    PROVE  n \in Within(R, n, k) /\ Within(R, n, k) \subseteq V
<1>1. Within(R, n, 0) \subseteq Within(R, n, k)
  BY WithinGrows
<1>2. Within(R, n, 0) = {n}
  BY WithinZero
<1> QED
  BY <1>1, <1>2, WithinInside

\* A closed set that has the start has what is reached from it.
LEMMA WithinIsLeast ==
    ASSUME NEW V, NEW R \in SUBSET (V \X V), NEW n \in V, NEW S, n \in S, Closed(R, S)
    PROVE  \A k \in Nat : Within(R, n, k) \subseteq S
<1> DEFINE T == {k \in Nat : Within(R, n, k) \subseteq S}
<1>1. 0 \in T
  BY WithinZero
<1>2. ASSUME NEW k \in Nat, k \in T PROVE k + 1 \in T
  <2>1. ASSUME NEW b \in Within(R, n, k + 1) PROVE b \in S
    <3>1. b \in Within(R, n, k) \/ \E a \in Within(R, n, k) : <<a, b>> \in R
      BY WithinStep
    <3>2. ASSUME NEW a \in S, <<a, b>> \in R PROVE b \in S
      <4>1. <<a, b>>[1] = a /\ <<a, b>>[2] = b
        OBVIOUS
      <4> QED BY <3>2, <4>1 DEF Closed
    <3> QED BY <1>2, <3>1, <3>2
  <2> QED BY <2>1
<1> HIDE DEF T
<1>3. \A k \in Nat : k \in T
  BY <1>1, <1>2, InductionUp
<1> QED
  BY <1>3 DEF T

\* A walk may be taken apart behind its first step.
LEMMA WithinFirst ==
    ASSUME NEW V, NEW R \in SUBSET (V \X V)
    PROVE  \A k \in Nat : \A n \in V : \A b :
              b \in Within(R, n, k + 1) <=> b = n \/ \E x \in V : <<n, x>> \in R /\ b \in Within(R, x, k)
<1> DEFINE First(n, k, b) == b = n \/ \E x \in V : <<n, x>> \in R /\ b \in Within(R, x, k)
           T == {k \in Nat : \A n \in V : \A b : b \in Within(R, n, k + 1) <=> First(n, k, b)}
<1>0. \A n \in V : \A k \in Nat : \A b : b \in Within(R, n, k + 1) <=>
         b \in Within(R, n, k) \/ \E a \in Within(R, n, k) : <<a, b>> \in R
  BY WithinStep
<1>1. 0 \in T
  <2> SUFFICES ASSUME NEW n \in V, NEW b PROVE b \in Within(R, n, 0 + 1) <=> First(n, 0, b)
    OBVIOUS
  <2>1. b \in Within(R, n, 0 + 1) <=> b \in Within(R, n, 0) \/ \E a \in Within(R, n, 0) : <<a, b>> \in R
    BY <1>0
  <2>2. \A x \in V : Within(R, x, 0) = {x}
    BY WithinZero
  <2>3. <<n, b>> \in R => b \in V
    OBVIOUS
  <2> QED BY <2>1, <2>2, <2>3, ZenonT(40)
<1>2. ASSUME NEW k \in Nat, k \in T PROVE k + 1 \in T
  <2> SUFFICES ASSUME NEW n \in V, NEW b PROVE b \in Within(R, n, (k + 1) + 1) <=> First(n, k + 1, b)
    OBVIOUS
  <2>1. k + 1 \in Nat
    OBVIOUS
  <2>2. b \in Within(R, n, (k + 1) + 1) <=>
          b \in Within(R, n, k + 1) \/ \E a \in Within(R, n, k + 1) : <<a, b>> \in R
    BY <1>0, <2>1
  <2>3. \A a : a \in Within(R, n, k + 1) <=> First(n, k, a)
    BY <1>2
  <2>4. \A x \in V : b \in Within(R, x, k + 1) <=>
          b \in Within(R, x, k) \/ \E a \in Within(R, x, k) : <<a, b>> \in R
    BY <1>0
  <2>5. <<n, b>> \in R => b \in V /\ b \in Within(R, b, k + 1)
    <3>1. <<n, b>> \in R => b \in V
      OBVIOUS
    <3> QED BY <2>1, <3>1, WithinHasStart
  <2>6. ASSUME b \in Within(R, n, (k + 1) + 1) PROVE First(n, k + 1, b)
    <3>1. CASE First(n, k, b)
      BY <2>4, <3>1
    <3>2. CASE \E a : First(n, k, a) /\ <<a, b>> \in R
      <4>1. PICK a : First(n, k, a) /\ <<a, b>> \in R
        BY <3>2
      <4>2. CASE a = n
        BY <2>5, <4>1, <4>2
      <4>3. CASE \E x \in V : <<n, x>> \in R /\ a \in Within(R, x, k)
        BY <2>4, <4>1, <4>3
      <4> QED BY <4>1, <4>2, <4>3
    <3> QED BY <2>2, <2>3, <2>6, <3>1, <3>2, Zenon
  <2>7. ASSUME First(n, k + 1, b) PROVE b \in Within(R, n, (k + 1) + 1)
    <3>1. CASE b = n
      BY <2>2, <2>3, <3>1
    <3>2. CASE \E x \in V : <<n, x>> \in R /\ b \in Within(R, x, k + 1)
      <4>1. PICK x \in V : <<n, x>> \in R /\ b \in Within(R, x, k + 1)
        BY <3>2
      <4>2. CASE b \in Within(R, x, k)
        BY <2>2, <2>3, <4>1, <4>2
      <4>3. CASE \E a \in Within(R, x, k) : <<a, b>> \in R
        BY <2>2, <2>3, <4>1, <4>3
      <4> QED BY <2>4, <4>1, <4>2, <4>3
    <3> QED BY <2>7, <3>1, <3>2
  <2> QED BY <2>6, <2>7
<1> HIDE DEF T
<1>3. \A k \in Nat : k \in T
  BY <1>1, <1>2, InductionUp
<1> QED
  BY <1>3 DEF T

\* The steps the other way.
Converse(R) == {<<r[2], r[1]>> : r \in R}

\* The converse of a relation has its pairs turned round.
LEMMA ConverseIs ==
    ASSUME NEW V, NEW R \in SUBSET (V \X V)
    PROVE  /\ Converse(R) \in SUBSET (V \X V)
           /\ \A a, b : <<a, b>> \in Converse(R) <=> <<b, a>> \in R
<1>1. ASSUME NEW a, NEW b, <<b, a>> \in R PROVE <<a, b>> \in Converse(R)
  <2>1. <<b, a>>[1] = b /\ <<b, a>>[2] = a
    OBVIOUS
  <2> QED BY <1>1, <2>1 DEF Converse
<1>2. ASSUME NEW a, NEW b, <<a, b>> \in Converse(R) PROVE <<b, a>> \in R
  <2>1. PICK r \in R : <<a, b>> = <<r[2], r[1]>>
    BY <1>2 DEF Converse
  <2>2. r = <<r[1], r[2]>>
    OBVIOUS
  <2> QED BY <2>1, <2>2
<1> QED
  BY <1>1, <1>2 DEF Converse

\* What is reached one way is reached back the other way.
LEMMA WithinReversed ==
    ASSUME NEW V, NEW R \in SUBSET (V \X V)
    PROVE  \A k \in Nat : \A a, b \in V : b \in Within(R, a, k) <=> a \in Within(Converse(R), b, k)
<1> DEFINE Q == Converse(R)
           T == {k \in Nat : \A a, b \in V : b \in Within(R, a, k) <=> a \in Within(Q, b, k)}
<1>1. Q \in SUBSET (V \X V) /\ \A a, b : <<a, b>> \in Q <=> <<b, a>> \in R
  BY ConverseIs
<1> HIDE DEF Q
<1>2. 0 \in T
  <2>1. \A a \in V : Within(R, a, 0) = {a} /\ Within(Q, a, 0) = {a}
    BY <1>1, WithinZero
  <2> QED BY <2>1
<1>3. ASSUME NEW k \in Nat, k \in T PROVE k + 1 \in T
  <2> SUFFICES ASSUME NEW a \in V, NEW b \in V
               PROVE  b \in Within(R, a, k + 1) <=> a \in Within(Q, b, k + 1)
    OBVIOUS
  <2>1. b \in Within(R, a, k + 1) <=> b \in Within(R, a, k) \/ \E x \in Within(R, a, k) : <<x, b>> \in R
    BY WithinStep
  <2>2. a \in Within(Q, b, k + 1) <=> a = b \/ \E x \in V : <<b, x>> \in Q /\ a \in Within(Q, x, k)
    BY <1>1, WithinFirst
  <2>3. \A x \in V : x \in Within(R, a, k) <=> a \in Within(Q, x, k)
    BY <1>3
  <2>4. Within(R, a, k) \subseteq V /\ a \in Within(R, a, k) /\ Within(Q, b, k) \subseteq Within(Q, b, k + 1)
    BY <1>1, WithinHasStart, WithinGrows
  <2>5. ASSUME b \in Within(R, a, k + 1) PROVE a \in Within(Q, b, k + 1)
    <3>1. CASE b \in Within(R, a, k)
      BY <2>3, <2>4, <3>1
    <3>2. CASE \E x \in Within(R, a, k) : <<x, b>> \in R
      BY <1>1, <2>2, <2>3, <2>4, <3>2
    <3> QED BY <2>1, <2>5, <3>1, <3>2
  <2>6. ASSUME a \in Within(Q, b, k + 1) PROVE b \in Within(R, a, k + 1)
    BY <1>1, <2>1, <2>2, <2>3, <2>4, <2>6
  <2> QED BY <2>5, <2>6
<1> HIDE DEF T
<1>4. \A k \in Nat : k \in T
  BY <1>2, <1>3, InductionUp
<1> QED
  BY <1>4 DEF T, Q

\* As many hops as there are vertices reach everything that is reached at all.
LEMMA WithinSaturates ==
    ASSUME NEW V, IsFiniteSet(V), NEW R \in SUBSET (V \X V), NEW n \in V
    PROVE  Closed(R, Within(R, n, Cardinality(V)))
<1> DEFINE W(k) == Within(R, n, k)
           m == Cardinality(V)
<1>1. m \in Nat
  BY FS_CardinalityType
<1>2. \A k \in Nat : W(k) \in SUBSET V /\ W(k + 1) = W(k) \cup Onward(R, W(k))
  BY WithinInside, WithinNext
<1>3. W(0) = {n}
  BY WithinZero
<1> HIDE DEF W, m
<1>4. \A X \in SUBSET V : Closed(R, X) <=> X \cup Onward(R, X) = X
  <2> TAKE X \in SUBSET V
  <2>1. Onward(R, X) \subseteq X <=> Closed(R, X)
    BY DEF Onward, Closed
  <2> QED BY <2>1
<1> SUFFICES ASSUME ~ Closed(R, W(m)) PROVE FALSE
  BY DEF W, m
<1>5. \A k \in Nat : Closed(R, W(k)) => W(k + 1) = W(k)
  BY <1>2, <1>4
<1>6. \A k \in 0 .. m : ~ Closed(R, W(k))
  <2> SUFFICES ASSUME NEW k \in 0 .. m, Closed(R, W(k)) PROVE FALSE
    OBVIOUS
  <2> DEFINE T == {d \in Nat : W(k + d) = W(k)}
  <2>1. 0 \in T
    OBVIOUS
  <2>2. ASSUME NEW d \in Nat, d \in T PROVE d + 1 \in T
    <3>1. k + d \in Nat /\ (k + d) + 1 = k + (d + 1) /\ W(k + d) = W(k)
      BY <2>2
    <3>2. W((k + d) + 1) = W(k + d)
      BY <1>5, <3>1
    <3> QED BY <3>1, <3>2
  <2> HIDE DEF T
  <2>3. \A d \in Nat : d \in T
    BY <2>1, <2>2, InductionUp
  <2>4. m - k \in Nat /\ k + (m - k) = m
    BY <1>1
  <2>5. W(m) = W(k)
    BY <2>3, <2>4 DEF T
  <2> QED BY <2>5
<1> DEFINE T == {k \in 0 .. m : Cardinality(W(k)) >= k + 1}
<1>7. 0 \in T
  <2>1. Cardinality(W(0)) = 1
    BY <1>3, FS_Singleton
  <2> QED BY <1>1, <2>1
<1>8. ASSUME NEW k \in 1 .. m, k - 1 \in T PROVE k \in T
  <2>1. k - 1 \in Nat /\ (k - 1) + 1 = k /\ k - 1 \in 0 .. m
    BY <1>1
  <2>2. W(k - 1) \in SUBSET V /\ W(k) = W(k - 1) \cup Onward(R, W(k - 1))
    BY <1>2, <2>1
  <2>3. W(k) # W(k - 1) /\ W(k - 1) \in SUBSET W(k) /\ W(k) \in SUBSET V
    <3>1. ~ Closed(R, W(k - 1))
      BY <1>6, <2>1
    <3>2. W(k) \in SUBSET V
      BY <1>2, <2>1
    <3> QED BY <1>4, <2>2, <3>1, <3>2
  <2> DEFINE A == W(k - 1)
             B == W(k)
  <2>4. IsFiniteSet(B) /\ IsFiniteSet(A)
    BY <2>2, <2>3, FS_Subset
  <2>5. A \in SUBSET B /\ A # B /\ Cardinality(A) >= k
    BY <1>8, <2>1, <2>3
  <2> HIDE DEF A, B
  <2>6. Cardinality(A) =< Cardinality(B) /\ Cardinality(B) # Cardinality(A)
    BY <2>4, <2>5, FS_Subset
  <2>7. Cardinality(A) \in Nat /\ Cardinality(B) \in Nat
    BY <2>4, FS_CardinalityType
  <2>8. Cardinality(B) >= k + 1
    BY <2>5, <2>6, <2>7
  <2> QED BY <2>8 DEF B
<1> HIDE DEF T
<1>9. 0 .. m \subseteq T
  BY <1>1, <1>7, <1>8, InductionOn
<1>10. Cardinality(W(m)) >= m + 1
  BY <1>1, <1>9 DEF T
<1>11. W(m) \in SUBSET V
  BY <1>1, <1>2
<1> DEFINE X == W(m)
<1>12. Cardinality(X) =< m /\ Cardinality(X) \in Nat
  <2>1. X \in SUBSET V
    BY <1>11
  <2> HIDE DEF X
  <2> QED BY <2>1, FS_Subset, FS_CardinalityType DEF m
<1> QED
  BY <1>1, <1>10, <1>12

-----------------------------------------------------------------------------
(***************************************************************************)
(* Paths.  The recursive queries extend paths that never come back         *)
(* (traverse.go); a shortest path to a vertex is one of them.              *)
(***************************************************************************)
\* The paths that go one step on, to a vertex that is not on them.
Extended(R, X) ==
    {Append(x[1], x[2][2]) : x \in {y \in X \X R : y[2][1] = Last(y[1]) /\ ~ Contains(y[1], y[2][2])}}

\* q is a path of X and one step of R.
GoesOn(q, V, R, X) ==
    \E p \in X, b \in V : <<Last(p), b>> \in R /\ ~ Contains(p, b) /\ q = Append(p, b)

\* One round of the recursive query appends one step that does not come back.
LEMMA ExtendedIs ==
    ASSUME NEW V, NEW R \in SUBSET (V \X V), NEW X, NEW q
    PROVE  q \in Extended(R, X) <=> GoesOn(q, V, R, X)
<1>1. ASSUME NEW p \in X, NEW b \in V, <<Last(p), b>> \in R, ~ Contains(p, b)
      PROVE  Append(p, b) \in Extended(R, X)
  <2> DEFINE r == <<Last(p), b>>
             x == <<p, r>>
  <2>1. r \in R /\ r[1] = Last(p) /\ r[2] = b
    BY <1>1
  <2> HIDE DEF r
  <2>2. x \in X \X R /\ x[1] = p /\ x[2] = r
    BY <2>1
  <2> HIDE DEF x
  <2>3. x[2][1] = Last(x[1]) /\ ~ Contains(x[1], x[2][2]) /\ Append(x[1], x[2][2]) = Append(p, b)
    BY <1>1, <2>1, <2>2
  <2> QED BY <2>2, <2>3 DEF Extended
<1>2. ASSUME q \in Extended(R, X)
      PROVE  \E p \in X, b \in V : <<Last(p), b>> \in R /\ ~ Contains(p, b) /\ q = Append(p, b)
  <2>1. PICK x \in X \X R : /\ x[2][1] = Last(x[1]) /\ ~ Contains(x[1], x[2][2])
                            /\ q = Append(x[1], x[2][2])
    BY <1>2 DEF Extended
  <2>2. x[1] \in X /\ x[2] \in R
    BY <2>1
  <2>3. x[2] = <<x[2][1], x[2][2]>> /\ x[2][2] \in V
    BY <2>2
  <2> QED BY <2>1, <2>2, <2>3
<1> QED
  BY <1>1, <1>2 DEF GoesOn

\* The levels of Paths.
PathsAt(R, first, m) ==
    CHOOSE P : P = [d \in 0 .. m |->
        IF d = 0 THEN first
        ELSE {Append(x[1], x[2][2]) : x \in {y \in P[d - 1] \X R :
                  /\ y[2][1] = Last(y[1]) /\ ~ Contains(y[1], y[2][2])}}]

\* Each level of Paths follows from the one before.
ArePaths(P, V, R, first, m) ==
    /\ P \in [0 .. m -> SUBSET Seq(V)]
    /\ P[0] = first
    /\ \A d \in 1 .. m : P[d] = Extended(R, P[d - 1])

\* The levels of Paths start with the first rows and each adds one step.
LEMMA PathsAtDef ==
    ASSUME NEW V, NEW R \in SUBSET (V \X V), NEW first \in SUBSET Seq(V), NEW m \in Nat
    PROVE  ArePaths(PathsAt(R, first, m), V, R, first, m)
<1> DEFINE Z == SUBSET Seq(V)
           s == [d \in 1 .. m |-> [X \in Z |-> Extended(R, X)]]
<1>1. \A X \in Z : Extended(R, X) \in Z
  <2> SUFFICES ASSUME NEW X \in Z, NEW q \in Extended(R, X) PROVE q \in Seq(V)
    OBVIOUS
  <2>1. GoesOn(q, V, R, X)
    BY ExtendedIs
  <2>2. PICK p \in X, b \in V : q = Append(p, b)
    BY <2>1 DEF GoesOn
  <2> QED BY <2>2, AppendProperties
<1>2. first \in Z
  OBVIOUS
<1> HIDE DEF Z
<1>3. s \in [1 .. m -> [Z -> Z]] /\ \A d \in 1 .. m : \A X \in Z : s[d][X] = Extended(R, X)
  BY <1>1
<1> HIDE DEF s
<1>4. \E g : IsRecursion(g, m, Z, first, s)
  BY <1>2, <1>3, RecursionOn
<1>5. PICK g \in [0 .. m -> Z] : g[0] = first /\ \A d \in 1 .. m : g[d] = s[d][g[d - 1]]
  BY <1>4 DEF IsRecursion
<1>6. ASSUME NEW d \in 1 .. m PROVE g[d] = Extended(R, g[d - 1])
  <2>1. d - 1 \in 0 .. m
    OBVIOUS
  <2> QED BY <1>3, <1>5, <2>1
<1> DEFINE Ring(P, d) == IF d = 0 THEN first ELSE Extended(R, P[d - 1])
           W == PathsAt(R, first, m)
<1>7. \A d \in 0 .. m : g[d] = Ring(g, d)
  <2> TAKE d \in 0 .. m
  <2>1. d = 0 \/ d \in 1 .. m
    OBVIOUS
  <2> QED BY <1>5, <1>6, <2>1
<1>8. g = [d \in 0 .. m |-> Ring(g, d)]
  <2> HIDE DEF Ring
  <2> QED BY <1>7
<1>9. W = [d \in 0 .. m |-> Ring(W, d)]
  BY <1>8 DEF PathsAt, Extended
<1> HIDE DEF W
<1>10. \A d \in 0 .. m : W[d] = Ring(W, d)
  <2> HIDE DEF Ring
  <2> QED BY <1>9
<1>11. W[0] = first
  <2>1. 0 \in 0 .. m
    OBVIOUS
  <2> QED BY <1>10, <2>1
<1>12. ASSUME NEW d \in 1 .. m PROVE W[d] = Extended(R, W[d - 1])
  <2>1. d \in 0 .. m /\ d # 0
    OBVIOUS
  <2> QED BY <1>10, <2>1
<1> DEFINE T == {d \in 0 .. m : W[d] \in Z}
<1>13. 0 \in T
  BY <1>2, <1>11
<1>14. ASSUME NEW d \in 1 .. m, d - 1 \in T PROVE d \in T
  BY <1>1, <1>12, <1>14
<1> HIDE DEF T
<1>15. 0 .. m \subseteq T
  BY <1>13, <1>14, InductionOn
<1>16. W \in [0 .. m -> Z]
  <2>1. \A d \in 0 .. m : W[d] \in Z
    BY <1>15 DEF T
  <2> HIDE DEF Ring
  <2> QED BY <1>9, <2>1
<1> QED
  BY <1>11, <1>12, <1>16 DEF W, Z, ArePaths

\* Paths is the union of the rounds of the recursive query.
LEMMA PathsIs ==
    ASSUME NEW R, NEW first, NEW m
    PROVE  Paths(R, first, m) = UNION {PathsAt(R, first, m)[d] : d \in 0 .. m}
  BY DEF Paths, PathsAt

\* The vertices that lie exactly i hops away.
Fresh(R, n, i) == IF i = 0 THEN {n} ELSE Within(R, n, i) \ Within(R, n, i - 1)

\* A vertex i + 1 hops away is one step from one that is i hops away.
LEMMA FreshStep ==
    ASSUME NEW V, NEW R \in SUBSET (V \X V), NEW n \in V, NEW i \in Nat, NEW b \in Fresh(R, n, i + 1)
    PROVE  /\ b \in V /\ b \notin Within(R, n, i)
           /\ \E a \in Fresh(R, n, i) : <<a, b>> \in R
<1>1. b \in Within(R, n, i + 1) /\ b \notin Within(R, n, i)
  <2>1. i + 1 # 0 /\ (i + 1) - 1 = i
    OBVIOUS
  <2> QED BY <2>1 DEF Fresh
<1>2. PICK a \in Within(R, n, i) : <<a, b>> \in R
  BY <1>1, WithinStep
<1>3. a \in Fresh(R, n, i)
  <2>1. CASE i = 0
    BY <1>2, <2>1, WithinZero DEF Fresh
  <2>2. CASE i # 0
    <3>1. i - 1 \in Nat /\ (i - 1) + 1 = i
      BY <2>2
    <3>2. b \in Within(R, n, (i - 1) + 1) <=>
            b \in Within(R, n, i - 1) \/ \E x \in Within(R, n, i - 1) : <<x, b>> \in R
      BY <3>1, WithinStep
    <3>3. a \notin Within(R, n, i - 1)
      BY <1>1, <1>2, <3>1, <3>2
    <3> QED BY <1>2, <2>2, <3>3 DEF Fresh
  <2> QED BY <2>1, <2>2
<1> QED
  BY <1>1, <1>2, <1>3

\* Paths that lie within i hops of n, and among them one to each vertex that is exactly
\* i hops away.
Explore(X, V, R, n, i) ==
    /\ \A p \in X : p \in Seq(V) /\ Len(p) >= 1 /\ \A j \in 1 .. Len(p) : p[j] \in Within(R, n, i)
    /\ \A b \in Fresh(R, n, i) : \E p \in X : Last(p) = b

\* One step on they explore one hop more: a shortest path never comes back.
LEMMA ExtendedExplore ==
    ASSUME NEW V, NEW R \in SUBSET (V \X V), NEW n \in V, NEW i \in Nat,
           NEW X, Explore(X, V, R, n, i)
    PROVE  Explore(Extended(R, X), V, R, n, i + 1)
<1> DEFINE W(k) == Within(R, n, k)
<1>1. \A b : b \in W(i + 1) <=> b \in W(i) \/ \E a \in W(i) : <<a, b>> \in R
  BY WithinStep
<1>2. ASSUME NEW q \in Extended(R, X)
      PROVE  q \in Seq(V) /\ Len(q) >= 1 /\ \A j \in 1 .. Len(q) : q[j] \in W(i + 1)
  <2>1. GoesOn(q, V, R, X)
    BY ExtendedIs
  <2>2. PICK p \in X, b \in V : <<Last(p), b>> \in R /\ q = Append(p, b)
    BY <2>1 DEF GoesOn
  <2>3. p \in Seq(V) /\ Len(p) >= 1 /\ \A j \in 1 .. Len(p) : p[j] \in W(i)
    BY DEF Explore
  <2>4. Len(p) \in Nat
    BY <2>3
  <2>5. Last(p) \in W(i)
    BY <2>3, <2>4 DEF Last
  <2>6. b \in W(i + 1) /\ \A j \in 1 .. Len(p) : p[j] \in W(i + 1)
    BY <1>1, <2>2, <2>3, <2>5
  <2> HIDE DEF W
  <2>7. q \in Seq(V) /\ Len(q) = Len(p) + 1 /\ q[Len(p) + 1] = b
        /\ \A j \in 1 .. Len(p) : q[j] = p[j]
    BY <2>2, <2>3, AppendProperties
  <2>8. \A j \in 1 .. Len(q) : j = Len(p) + 1 \/ j \in 1 .. Len(p)
    BY <2>4, <2>7
  <2> QED BY <2>3, <2>4, <2>6, <2>7, <2>8
<1>3. ASSUME NEW b \in Fresh(R, n, i + 1) PROVE \E q \in Extended(R, X) : Last(q) = b
  <2>1. b \in V /\ b \notin W(i)
    BY FreshStep
  <2>2. PICK a \in Fresh(R, n, i) : <<a, b>> \in R
    BY FreshStep
  <2>3. PICK p \in X : Last(p) = a
    BY DEF Explore
  <2>4. p \in Seq(V) /\ ~ Contains(p, b)
    BY <2>1 DEF Explore, Contains
  <2> DEFINE q == Append(p, b)
  <2>5. GoesOn(q, V, R, X)
    BY <2>1, <2>2, <2>3, <2>4 DEF GoesOn
  <2>6. Last(q) = b
    BY <2>1, <2>4, AppendProperties DEF Last
  <2> HIDE DEF q
  <2>7. q \in Extended(R, X)
    BY <2>5, ExtendedIs
  <2> QED BY <2>6, <2>7
<1> QED
  BY <1>2, <1>3 DEF Explore

\* So do all the levels.
LEMMA LevelsExplore ==
    ASSUME NEW V, NEW R \in SUBSET (V \X V), NEW n \in V, NEW i \in Nat, NEW m \in Nat,
           NEW first \in SUBSET Seq(V), Explore(first, V, R, n, i)
    PROVE  \A d \in 0 .. m : Explore(PathsAt(R, first, m)[d], V, R, n, i + d)
<1> DEFINE P == PathsAt(R, first, m)
           T == {d \in 0 .. m : Explore(P[d], V, R, n, i + d)}
<1>1. P[0] = first /\ \A d \in 1 .. m : P[d] = Extended(R, P[d - 1])
  <2>1. ArePaths(P, V, R, first, m)
    BY PathsAtDef
  <2> HIDE DEF P
  <2> QED BY <2>1 DEF ArePaths
<1> HIDE DEF P
<1>2. 0 \in T
  <2>1. i + 0 = i
    OBVIOUS
  <2> QED BY <1>1, <2>1
<1>3. ASSUME NEW d \in 1 .. m, d - 1 \in T PROVE d \in T
  <2> DEFINE j == i + (d - 1)
  <2>1. j \in Nat /\ j + 1 = i + d /\ Explore(P[d - 1], V, R, n, j)
    BY <1>3
  <2> HIDE DEF j
  <2>2. Explore(Extended(R, P[d - 1]), V, R, n, j + 1)
    BY <2>1, ExtendedExplore
  <2> QED BY <1>1, <2>1, <2>2
<1> HIDE DEF T
<1>4. 0 .. m \subseteq T
  BY <1>2, <1>3, InductionOn
<1> QED
  BY <1>4 DEF T, P

\* What lies within k hops, but not within i - 1, is some number of hops away from i on.
LEMMA SomeHops ==
    ASSUME NEW V, NEW R \in SUBSET (V \X V), NEW n \in V, NEW i \in Nat, NEW m \in Nat,
           NEW b \in Within(R, n, i + m), i = 0 \/ b \notin Within(R, n, i - 1)
    PROVE  \E d \in 0 .. m : b \in Fresh(R, n, i + d)
<1> DEFINE T == {d \in 0 .. m : b \in Within(R, n, i + d)}
<1>1. T \subseteq Nat /\ T # {}
  <2>1. m \in T
    OBVIOUS
  <2>2. T \subseteq Nat
    OBVIOUS
  <2> HIDE DEF T
  <2> QED BY <2>1, <2>2
<1>2. PICK d \in T : \A e \in T : d =< e
  <2> HIDE DEF T
  <2> QED BY <1>1, SmallestOf
<1>3. d \in 0 .. m /\ b \in Within(R, n, i + d)
  BY <1>2
<1>4. CASE i + d = 0
  <2>1. b = n
    BY <1>3, <1>4, WithinZero
  <2> QED BY <1>3, <1>4, <2>1 DEF Fresh
<1>5. CASE i + d # 0
  <2>1. b \notin Within(R, n, (i + d) - 1)
    <3>1. CASE d = 0
      <4>1. (i + d) - 1 = i - 1 /\ i # 0
        BY <1>5, <3>1
      <4> QED BY <4>1
    <3>2. CASE d # 0
      <4>1. d - 1 \in 0 .. m /\ (i + d) - 1 = i + (d - 1)
        BY <1>3, <3>2
      <4>2. d - 1 \notin T
        BY <1>2, <1>3, <4>1
      <4> QED BY <4>1, <4>2
    <3> QED BY <3>1, <3>2
  <2> QED BY <1>3, <1>5, <2>1 DEF Fresh
<1> QED
  BY <1>4, <1>5

\* The ends of the paths are what lies within all the hops, except perhaps what lies
\* within fewer than the paths began with.
LEMMA EndsExplore ==
    ASSUME NEW V, NEW R \in SUBSET (V \X V), NEW n \in V, NEW i \in Nat, NEW m \in Nat,
           NEW first \in SUBSET Seq(V), Explore(first, V, R, n, i)
    PROVE  /\ Ends(Paths(R, first, m)) \subseteq Within(R, n, i + m)
           /\ \A b \in Within(R, n, i + m) :
                (i = 0 \/ b \notin Within(R, n, i - 1)) => b \in Ends(Paths(R, first, m))
<1> DEFINE P == PathsAt(R, first, m)
<1>1. Paths(R, first, m) = UNION {P[d] : d \in 0 .. m}
  BY PathsIs
<1>2. \A d \in 0 .. m : Explore(P[d], V, R, n, i + d)
  BY LevelsExplore
<1> HIDE DEF P
<1>3. ASSUME NEW d \in 0 .. m, NEW p \in P[d] PROVE Last(p) \in Within(R, n, i + m)
  <2>1. Len(p) \in Nat /\ Len(p) >= 1 /\ \A j \in 1 .. Len(p) : p[j] \in Within(R, n, i + d)
    BY <1>2 DEF Explore
  <2>2. Last(p) \in Within(R, n, i + d)
    BY <2>1 DEF Last
  <2>3. i + d \in Nat /\ i + m \in Nat /\ i + d =< i + m
    OBVIOUS
  <2>4. Within(R, n, i + d) \subseteq Within(R, n, i + m)
    BY <2>3, WithinGrows
  <2> QED BY <2>2, <2>4
<1>4. ASSUME NEW b \in Within(R, n, i + m), i = 0 \/ b \notin Within(R, n, i - 1)
      PROVE  b \in Ends(Paths(R, first, m))
  <2>1. PICK d \in 0 .. m : b \in Fresh(R, n, i + d)
    BY <1>4, SomeHops
  <2>2. PICK p \in P[d] : Last(p) = b
    BY <1>2, <2>1 DEF Explore
  <2> QED BY <1>1, <2>2 DEF Ends
<1>5. Ends(Paths(R, first, m)) \subseteq Within(R, n, i + m)
  BY <1>1, <1>3 DEF Ends
<1> QED
  BY <1>4, <1>5

-----------------------------------------------------------------------------
(***************************************************************************)
(* What a walk ends at, with and without its first step.                   *)
(***************************************************************************)
\* The first rows of a walk.
LEMMA FirstExplore ==
    ASSUME NEW V, NEW R \in SUBSET (V \X V), NEW n \in V
    PROVE  /\ \A p : p \in FirstSteps(R, n) <=> \E b \in V : <<n, b>> \in R /\ p = <<n, b>>
           /\ FirstSteps(R, n) \in SUBSET Seq(V)
           /\ Explore(FirstSteps(R, n), V, R, n, 1)
<1>1. ASSUME NEW b, <<n, b>> \in R PROVE <<n, b>> \in FirstSteps(R, n)
  <2>1. <<n, b>>[1] = n /\ <<n, b>>[2] = b
    OBVIOUS
  <2> QED BY <1>1, <2>1 DEF FirstSteps
<1>2. ASSUME NEW p \in FirstSteps(R, n) PROVE \E b \in V : <<n, b>> \in R /\ p = <<n, b>>
  <2>1. PICK r \in R : r[1] = n /\ p = <<r[1], r[2]>>
    BY DEF FirstSteps
  <2>2. r = <<n, r[2]>> /\ r[2] \in V
    BY <2>1
  <2> QED BY <2>1, <2>2
<1>3. \A b : b \in Within(R, n, 0 + 1) <=> b \in Within(R, n, 0) \/ \E a \in Within(R, n, 0) : <<a, b>> \in R
  BY WithinStep
<1>4. Within(R, n, 0) = {n}
  BY WithinZero
<1>5. ASSUME NEW p \in FirstSteps(R, n)
      PROVE  p \in Seq(V) /\ Len(p) >= 1 /\ \A j \in 1 .. Len(p) : p[j] \in Within(R, n, 1)
  <2>1. PICK b \in V : <<n, b>> \in R /\ p = <<n, b>>
    BY <1>2
  <2>2. n \in Within(R, n, 1) /\ b \in Within(R, n, 1)
    BY <1>3, <1>4, <2>1
  <2>3. p \in Seq(V) /\ Len(p) = 2 /\ p[1] = n /\ p[2] = b
    BY <2>1
  <2>4. \A j \in 1 .. Len(p) : j = 1 \/ j = 2
    BY <2>3
  <2> QED BY <2>2, <2>3, <2>4
<1>6. ASSUME NEW b \in Fresh(R, n, 1) PROVE \E p \in FirstSteps(R, n) : Last(p) = b
  <2>1. b \in Within(R, n, 0 + 1) /\ b \notin Within(R, n, 0)
    BY DEF Fresh
  <2>2. <<n, b>> \in R
    BY <1>3, <1>4, <2>1
  <2>3. Last(<<n, b>>) = b
    BY DEF Last
  <2> QED BY <1>1, <2>2, <2>3
<1>7. Explore(FirstSteps(R, n), V, R, n, 1)
  BY <1>5, <1>6 DEF Explore
<1>8. FirstSteps(R, n) \in SUBSET Seq(V)
  BY <1>5
<1>9. \A p : p \in FirstSteps(R, n) <=> \E b \in V : <<n, b>> \in R /\ p = <<n, b>>
  BY <1>1, <1>2
<1> QED
  BY <1>7, <1>8, <1>9

\* A walk without a loop at its start does not return to it.
Away(X, V, n) == \A p \in X : p \in Seq(V) /\ Len(p) >= 2 /\ p[1] = n /\ Last(p) # n

\* Paths that left their start do not end there: a step goes to a node not yet visited.
LEMMA WalkStaysAway ==
    ASSUME NEW V, NEW R \in SUBSET (V \X V), NEW n \in V, NEW m \in Nat,
           NEW first \in SUBSET Seq(V), Away(first, V, n)
    PROVE  n \notin Ends(Paths(R, first, m))
<1> DEFINE P == PathsAt(R, first, m)
           T == {d \in 0 .. m : Away(P[d], V, n)}
<1>1. P[0] = first /\ \A d \in 1 .. m : P[d] = Extended(R, P[d - 1])
  <2>1. ArePaths(P, V, R, first, m)
    BY PathsAtDef
  <2> HIDE DEF P
  <2> QED BY <2>1 DEF ArePaths
<1>2. Paths(R, first, m) = UNION {P[d] : d \in 0 .. m}
  BY PathsIs
<1> HIDE DEF P
<1>3. 0 \in T
  BY <1>1
<1>4. ASSUME NEW d \in 1 .. m, d - 1 \in T PROVE d \in T
  <2>1. Away(P[d - 1], V, n) /\ P[d] = Extended(R, P[d - 1])
    BY <1>1, <1>4
  <2>2. ASSUME NEW q \in P[d] PROVE q \in Seq(V) /\ Len(q) >= 2 /\ q[1] = n /\ Last(q) # n
    <3> DEFINE X == P[d - 1]
    <3>0. q \in Extended(R, X)
      BY <2>1
    <3> HIDE DEF X
    <3>1. GoesOn(q, V, R, X)
      BY <3>0, ExtendedIs
    <3>2. PICK p \in X, b \in V : ~ Contains(p, b) /\ q = Append(p, b)
      BY <3>1 DEF GoesOn
    <3>3. p \in Seq(V) /\ Len(p) >= 2 /\ p[1] = n
      BY <2>1 DEF Away, X
    <3>4. Len(p) \in Nat
      BY <3>3
    <3>5. b # n
      BY <3>2, <3>3, <3>4 DEF Contains
    <3>6. q \in Seq(V) /\ Len(q) = Len(p) + 1 /\ q[Len(p) + 1] = b
          /\ \A j \in 1 .. Len(p) : q[j] = p[j]
      BY <3>2, <3>3, AppendProperties
    <3> QED BY <3>3, <3>4, <3>5, <3>6 DEF Last
  <2> QED BY <2>2 DEF Away
<1> HIDE DEF T
<1>5. 0 .. m \subseteq T
  BY <1>3, <1>4, InductionOn
<1>6. \A d \in 0 .. m : \A p \in P[d] : Last(p) # n
  BY <1>5 DEF T, Away
<1> QED
  BY <1>2, <1>6 DEF Ends

\* A walk of at most k hops, k at least 1, ends at what lies within k hops; at its start
\* only when there is a loop.
LEMMA WalkEnds ==
    ASSUME NEW V, NEW R \in SUBSET (V \X V), NEW n \in V, NEW k \in Nat \ {0}
    PROVE  \A b : b \in Ends(Paths(R, FirstSteps(R, n), k - 1)) <=>
                    b \in Within(R, n, k) /\ (b = n => <<n, n>> \in R)
<1> DEFINE first == FirstSteps(R, n)
           m == k - 1
<1>1. m \in Nat /\ 1 + m = k
  OBVIOUS
<1>2. /\ \A p : p \in first <=> \E b \in V : <<n, b>> \in R /\ p = <<n, b>>
      /\ first \in SUBSET Seq(V) /\ Explore(first, V, R, n, 1)
  BY FirstExplore
<1> HIDE DEF first, m
<1>3. /\ Ends(Paths(R, first, m)) \subseteq Within(R, n, 1 + m)
      /\ \A b \in Within(R, n, 1 + m) :
           (1 = 0 \/ b \notin Within(R, n, 1 - 1)) => b \in Ends(Paths(R, first, m))
  BY <1>1, <1>2, EndsExplore
<1>4. Within(R, n, 1 - 1) = {n}
  BY WithinZero
<1>5. CASE <<n, n>> \in R
  <2>1. <<n, n>> \in first
    BY <1>2, <1>5
  <2>2. first \subseteq Paths(R, first, m)
    <3>1. ArePaths(PathsAt(R, first, m), V, R, first, m)
      BY <1>1, <1>2, PathsAtDef
    <3>2. PathsAt(R, first, m)[0] = first /\ 0 \in 0 .. m
      BY <1>1, <3>1 DEF ArePaths
    <3> QED BY <3>2, PathsIs
  <2>3. Last(<<n, n>>) = n
    BY DEF Last
  <2>4. n \in Ends(Paths(R, first, m))
    BY <2>1, <2>2, <2>3 DEF Ends
  <2> QED BY <1>1, <1>3, <1>4, <1>5, <2>4 DEF first, m
<1>6. CASE <<n, n>> \notin R
  <2>1. Away(first, V, n)
    <3> SUFFICES ASSUME NEW p \in first PROVE p \in Seq(V) /\ Len(p) >= 2 /\ p[1] = n /\ Last(p) # n
      BY DEF Away
    <3>1. PICK b \in V : <<n, b>> \in R /\ p = <<n, b>>
      BY <1>2
    <3>2. b # n
      BY <1>6, <3>1
    <3> QED BY <3>1, <3>2 DEF Last
  <2>2. n \notin Ends(Paths(R, first, m))
    BY <1>1, <1>2, <2>1, WalkStaysAway
  <2> QED BY <1>1, <1>3, <1>4, <1>6, <2>2 DEF first, m
<1> QED
  BY <1>5, <1>6

\* A walk that may stay where it starts ends at all that lies within its hops.
LEMMA ClassEnds ==
    ASSUME NEW V, NEW R \in SUBSET (V \X V), NEW n \in V, NEW k \in Nat
    PROVE  Ends(Paths(R, {<<n>>}, k)) = Within(R, n, k)
<1> DEFINE first == {<<n>>}
<1>1. first \in SUBSET Seq(V)
  OBVIOUS
<1>2. Explore(first, V, R, n, 0)
  <2>1. Within(R, n, 0) = {n} /\ Fresh(R, n, 0) = {n}
    BY WithinZero DEF Fresh
  <2>2. Last(<<n>>) = n
    BY DEF Last
  <2> QED BY <2>1, <2>2 DEF Explore
<1> HIDE DEF first
<1>3. /\ Ends(Paths(R, first, k)) \subseteq Within(R, n, 0 + k)
      /\ \A b \in Within(R, n, 0 + k) :
           (0 = 0 \/ b \notin Within(R, n, 0 - 1)) => b \in Ends(Paths(R, first, k))
  BY <1>1, <1>2, EndsExplore
<1>4. 0 + k = k
  OBVIOUS
<1> QED
  BY <1>3, <1>4 DEF first

-----------------------------------------------------------------------------
(***************************************************************************)
(* The walks of the engine.                                                *)
(***************************************************************************)
\* Sets of pairs with the same pairs.
LEMMA SamePairs ==
    ASSUME NEW V, NEW A \in SUBSET (V \X V), NEW B \in SUBSET (V \X V),
           \A a, b : <<a, b>> \in A <=> <<a, b>> \in B
    PROVE  A = B
<1>1. \A r \in A : r = <<r[1], r[2]>>
  OBVIOUS
<1>2. \A r \in B : r = <<r[1], r[2]>>
  OBVIOUS
<1>3. \A r \in A : r \in B
  <2> TAKE r \in A
  <2>1. <<r[1], r[2]>> \in A
    BY <1>1
  <2> QED BY <1>1, <2>1
<1>4. \A r \in B : r \in A
  <2> TAKE r \in B
  <2>1. <<r[1], r[2]>> \in B
    BY <1>2
  <2> QED BY <1>2, <2>1
<1> QED
  BY <1>3, <1>4

\* The steps of the walks, between rows.
LEMMA AlongIs ==
    ASSUME TablesOK(nodes, edges), NEW name
    PROVE  /\ Along(DB, name) \in SUBSET (Rows(DB) \X Rows(DB))
           /\ \A a, b : <<a, b>> \in Along(DB, name) <=>
                          \E e \in edges : e.field = name /\ e.from = a /\ e.to = b
           /\ Against(DB, name) = Converse(Along(DB, name))
<1>1. ASSUME NEW e \in edges PROVE e.from \in Rows(DB) /\ e.to \in Rows(DB)
  BY EdgeEnds DEF Rows, DB
<1>2. Along(DB, name) \in SUBSET (Rows(DB) \X Rows(DB))
  BY <1>1 DEF Along, DB
<1>3. \A a, b : <<a, b>> \in Along(DB, name) <=>
                  \E e \in edges : e.field = name /\ e.from = a /\ e.to = b
  BY DEF Along, DB
<1>4. \A a, b : <<a, b>> \in Against(DB, name) <=> <<b, a>> \in Along(DB, name)
  BY <1>3 DEF Against, DB
<1>5. \A a, b : <<a, b>> \in Converse(Along(DB, name)) <=> <<b, a>> \in Along(DB, name)
  BY <1>2, ConverseIs
<1>6. /\ Against(DB, name) \in SUBSET (Rows(DB) \X Rows(DB))
      /\ Converse(Along(DB, name)) \in SUBSET (Rows(DB) \X Rows(DB))
  <2>1. Against(DB, name) \in SUBSET (Rows(DB) \X Rows(DB))
    BY <1>1 DEF Against, DB
  <2> QED BY <1>2, <2>1, ConverseIs
<1>7. Against(DB, name) = Converse(Along(DB, name))
  <2> DEFINE A == Against(DB, name)
             B == Converse(Along(DB, name))
             V == Rows(DB)
  <2>1. A \in SUBSET (V \X V) /\ B \in SUBSET (V \X V) /\ \A a, b : <<a, b>> \in A <=> <<a, b>> \in B
    BY <1>4, <1>5, <1>6
  <2> HIDE DEF A, B, V
  <2>2. A = B
    BY <2>1, SamePairs
  <2> QED BY <2>2 DEF A, B
<1> QED
  BY <1>2, <1>3, <1>7

\* The steps of an equivalence lead both ways.
LEMMA AcrossIs ==
    ASSUME TablesOK(nodes, edges), NEW name
    PROVE  /\ Across(DB, name) \in SUBSET (NodeId \X NodeId)
           /\ Converse(Across(DB, name)) = Across(DB, name)
<1> DEFINE R == Across(DB, name)
<1>1. ASSUME NEW e \in edges PROVE e.from \in NodeId /\ e.to \in NodeId
  BY EdgeEnds
<1>2. R \in SUBSET (NodeId \X NodeId)
  BY <1>1 DEF Across, DB
<1>3. \A a, b : <<a, b>> \in R => <<b, a>> \in R
  BY DEF Across, DB
<1> HIDE DEF R
<1>4. \A a, b : <<a, b>> \in Converse(R) <=> <<b, a>> \in R
  BY <1>2, ConverseIs
<1>5. Converse(R) \in SUBSET (NodeId \X NodeId)
  BY <1>2, ConverseIs
<1>6. Converse(R) = R
  <2> DEFINE Q == Converse(R)
  <2>1. Q \in SUBSET (NodeId \X NodeId) /\ \A a, b : <<a, b>> \in Q <=> <<a, b>> \in R
    BY <1>3, <1>4, <1>5
  <2> HIDE DEF Q
  <2>2. Q = R
    BY <1>2, <2>1, SamePairs
  <2> QED BY <2>2 DEF Q
<1> QED
  BY <1>2, <1>6 DEF R

\* No reference of an ordered field is a loop.
LEMMA NoLoop ==
    ASSUME TablesOK(nodes, edges), NEW f \in Field, Ordered(f), NEW n \in OfType(f.type)
    PROVE  <<n, n>> \notin Along(DB, f.name)
<1> SUFFICES ASSUME <<n, n>> \in Along(DB, f.name) PROVE FALSE
  OBVIOUS
<1>1. PICK e \in edges : e.field = f.name /\ e.from = n /\ e.to = n
  BY AlongIs
<1>2. PICK g \in Field :
        /\ e.field = g.name /\ nodes[e.from].type = g.type
        /\ Ordered(g) => e.from # e.to
  BY DEF TablesOK, EdgeFits
<1>3. nodes[n].type = f.type
  BY DEF OfType
<1>4. f = g
  <2>1. f.name = g.name
    BY <1>1, <1>2
  <2>2. nodes[e.from] = nodes[n]
    BY <1>1
  <2>3. f.type = g.type
    BY <1>2, <1>3, <2>2
  <2> QED BY <2>1, <2>3, SchemaAssumption DEF SchemaAssumption, NamesUnique
<1>5. Ordered(g)
  BY <1>4
<1>6. e.from # e.to
  BY <1>2, <1>5
<1> QED
  BY <1>1, <1>6

\* Traverse finds what is within reach of a row.
LEMMA TraverseFinds ==
    ASSUME TablesOK(nodes, edges), NEW n \in Rows(DB), NEW name, NEW k \in Nat \ {0}, NEW b
    PROVE  /\ b \in Traverse(DB, n, name, k) <=>
                b \in Within(Along(DB, name), n, k) /\ (b = n => <<n, n>> \in Along(DB, name))
           /\ b \in Subtree(DB, n, name, k) <=>
                b \in Within(Against(DB, name), n, k) /\ (b = n => <<n, n>> \in Along(DB, name))
<1> DEFINE V == Rows(DB)
           R == Along(DB, name)
           Q == Against(DB, name)
<1>1. R \in SUBSET (V \X V) /\ Q = Converse(R)
  BY AlongIs
<1>2. Traverse(DB, n, name, k) = Ends(Paths(R, FirstSteps(R, n), k - 1))
  BY DEF Traverse
<1>3. Subtree(DB, n, name, k) = Ends(Paths(Q, FirstSteps(Q, n), k - 1))
  BY DEF Subtree
<1> HIDE DEF V, R, Q
<1>4. Q \in SUBSET (V \X V) /\ (<<n, n>> \in Q <=> <<n, n>> \in R)
  BY <1>1, ConverseIs
<1>5. n \in V
  BY DEF V
<1>6. b \in Ends(Paths(R, FirstSteps(R, n), k - 1)) <=>
        b \in Within(R, n, k) /\ (b = n => <<n, n>> \in R)
  BY <1>1, <1>5, WalkEnds
<1>7. b \in Ends(Paths(Q, FirstSteps(Q, n), k - 1)) <=>
        b \in Within(Q, n, k) /\ (b = n => <<n, n>> \in Q)
  BY <1>4, <1>5, WalkEnds
<1> QED
  BY <1>2, <1>3, <1>4, <1>6, <1>7 DEF R, Q

\* In any database, a subtree is what traverses to its root.
LEMMA SubtreeIsReversed ==
    ASSUME TablesOK(nodes, edges), NEW n \in Rows(DB), NEW name, NEW k \in Nat \ {0}
    PROVE  Subtree(DB, n, name, k) = {m \in Rows(DB) : n \in Traverse(DB, m, name, k)}
<1> DEFINE V == Rows(DB)
           R == Along(DB, name)
           Q == Against(DB, name)
<1>1. R \in SUBSET (V \X V) /\ Q = Converse(R)
  BY AlongIs
<1>2. \A m \in V : n \in Traverse(DB, m, name, k) <=>
                     n \in Within(R, m, k) /\ (n = m => <<m, m>> \in R)
  BY TraverseFinds
<1>3. \A m : m \in Subtree(DB, n, name, k) <=> m \in Within(Q, n, k) /\ (m = n => <<n, n>> \in R)
  BY TraverseFinds
<1>4. n \in V
  OBVIOUS
<1> HIDE DEF V, R, Q
<1>5. Q \in SUBSET (V \X V)
  BY <1>1, ConverseIs
<1>6. Within(Q, n, k) \subseteq V
  BY <1>4, <1>5, WithinHasStart
<1>7. \A m \in V : n \in Within(R, m, k) <=> m \in Within(Q, n, k)
  BY <1>1, <1>4, WithinReversed
<1> QED
  BY <1>2, <1>3, <1>4, <1>6, <1>7 DEF V

\* Of an equivalence relation, all members of a class have that class.
LEMMA ClassesAgree ==
    ASSUME TablesOK(nodes, edges), NEW n \in NodeId, NEW name
    PROVE  /\ \A k \in Nat : EquivalenceClass(DB, n, name, k) = Within(Across(DB, name), n, k)
           /\ \A m \in EquivalenceClass(DB, n, name, Bound) :
                EquivalenceClass(DB, m, name, Bound) = EquivalenceClass(DB, n, name, Bound)
<1> DEFINE R == Across(DB, name)
           C(a) == Within(R, a, Bound)
<1>1. R \in SUBSET (NodeId \X NodeId) /\ Converse(R) = R
  BY AcrossIs
<1>2. \A a \in NodeId : \A k \in Nat : EquivalenceClass(DB, a, name, k) = Within(R, a, k)
  <2> TAKE a \in NodeId, k \in Nat
  <2>1. EquivalenceClass(DB, a, name, k) = Ends(Paths(R, {<<a>>}, k))
    BY DEF EquivalenceClass
  <2> HIDE DEF R
  <2>2. Ends(Paths(R, {<<a>>}, k)) = Within(R, a, k)
    BY <1>1, ClassEnds
  <2> QED BY <2>1, <2>2
<1> HIDE DEF R
<1>3. Bound \in Nat /\ IsFiniteSet(NodeId) /\ Bound = Cardinality(NodeId)
  BY ReadsAssumption, FS_CardinalityType DEF ReadsAssumption, Bound
<1>4. \A a \in NodeId : C(a) \subseteq NodeId /\ a \in C(a)
  BY <1>1, <1>3, WithinHasStart
<1>5. \A a \in NodeId : Closed(R, C(a))
  BY <1>1, <1>3, WithinSaturates
<1>6. \A a, b \in NodeId : b \in C(a) => C(b) \subseteq C(a)
  <2> SUFFICES ASSUME NEW a \in NodeId, NEW b \in NodeId, b \in C(a) PROVE C(b) \subseteq C(a)
    OBVIOUS
  <2> DEFINE S == C(a)
  <2>1. b \in S /\ Closed(R, S)
    BY <1>5
  <2> HIDE DEF S
  <2>2. \A k \in Nat : Within(R, b, k) \subseteq S
    BY <1>1, <2>1, WithinIsLeast
  <2> QED BY <1>3, <2>2 DEF S
<1>7. \A a, b \in NodeId : b \in C(a) => a \in C(b)
  BY <1>1, <1>3, WithinReversed
<1>8. ASSUME NEW m \in C(n) PROVE C(m) = C(n)
  BY <1>4, <1>6, <1>7
<1>9. \A a \in NodeId : EquivalenceClass(DB, a, name, Bound) = C(a)
  BY <1>2, <1>3
<1>10. \A m \in C(n) : m \in NodeId
  BY <1>4
<1> HIDE DEF C
<1>11. \A m \in EquivalenceClass(DB, n, name, Bound) :
         EquivalenceClass(DB, m, name, Bound) = EquivalenceClass(DB, n, name, Bound)
  BY <1>8, <1>9, <1>10
<1> QED
  BY <1>2, <1>11 DEF R

\* Walks find what is within their hops.
LEMMA WalksHold == TablesOK(nodes, edges) => WalksMatchReachability
<1> SUFFICES ASSUME TablesOK(nodes, edges), NEW n \in OfType(Listed), NEW k \in 1 .. Bound
    PROVE  /\ WalkIsAccepted(DB, Listed, n, Tree, k, FALSE) =>
                /\ Traverse(DB, n, Tree, k) = Within(Along(DB, Tree), n, k) \ {n}
                /\ Subtree(DB, n, Tree, k) = {m \in Rows(DB) : n \in Traverse(DB, m, Tree, k)}
                /\ {r.id : r \in AncestorRows(DB, n, Tree, k)} = Traverse(DB, n, Tree, k)
           /\ WalkIsAccepted(DB, Listed, n, Peers, k, TRUE) =>
                /\ EquivalenceClass(DB, n, Peers, k) = Within(Across(DB, Peers), n, k)
                /\ k = Bound => \A m \in EquivalenceClass(DB, n, Peers, k) :
                     EquivalenceClass(DB, m, Peers, k) = EquivalenceClass(DB, n, Peers, k)
  BY DEF WalksMatchReachability
<1>1. k \in Nat \ {0} /\ n \in Rows(DB) /\ n \in NodeId
  BY ReadsAssumption, FS_CardinalityType DEF ReadsAssumption, Bound, OfType, Rows
<1>2. ASSUME WalkIsAccepted(DB, Listed, n, Tree, k, FALSE)
      PROVE  Traverse(DB, n, Tree, k) = Within(Along(DB, Tree), n, k) \ {n}
  <2>1. PICK f \in FieldsOf(Listed) : f.name = Tree /\ Ordered(f)
    BY <1>2 DEF WalkIsAccepted, Ordered
  <2>2. <<n, n>> \notin Along(DB, Tree)
    <3>1. f \in Field /\ f.type = Listed
      BY DEF FieldsOf
    <3>2. <<n, n>> \notin Along(DB, f.name)
      BY <2>1, <3>1, NoLoop
    <3> QED BY <2>1, <3>2
  <2>3. \A b : b \in Traverse(DB, n, Tree, k) <=>
                 b \in Within(Along(DB, Tree), n, k) /\ (b = n => <<n, n>> \in Along(DB, Tree))
    BY <1>1, TraverseFinds
  <2> QED BY <2>2, <2>3
<1>3. Subtree(DB, n, Tree, k) = {m \in Rows(DB) : n \in Traverse(DB, m, Tree, k)}
  BY <1>1, SubtreeIsReversed
<1>4. {r.id : r \in AncestorRows(DB, n, Tree, k)} = Traverse(DB, n, Tree, k)
  <2> DEFINE P == Paths(Along(DB, Tree), FirstSteps(Along(DB, Tree), n), k - 1)
             A == AncestorRows(DB, n, Tree, k)
  <2>1. A = {[id |-> Last(p), depth |-> Len(p) - 1] : p \in P}
    BY DEF AncestorRows
  <2>2. Traverse(DB, n, Tree, k) = {Last(p) : p \in P}
    BY DEF Traverse, Ends
  <2> HIDE DEF P, A
  <2>3. \A r \in A : \E p \in P : r.id = Last(p)
    BY <2>1
  <2>4. \A p \in P : \E r \in A : r.id = Last(p)
    <3> TAKE p \in P
    <3> DEFINE r == [id |-> Last(p), depth |-> Len(p) - 1]
    <3>1. r \in A
      BY <2>1
    <3>2. r.id = Last(p)
      OBVIOUS
    <3> HIDE DEF r
    <3> QED BY <3>1, <3>2
  <2>5. {r.id : r \in A} = {Last(p) : p \in P}
    BY <2>3, <2>4
  <2> QED BY <2>2, <2>5 DEF A
<1>5. /\ \A i \in Nat : EquivalenceClass(DB, n, Peers, i) = Within(Across(DB, Peers), n, i)
      /\ \A m \in EquivalenceClass(DB, n, Peers, Bound) :
           EquivalenceClass(DB, m, Peers, Bound) = EquivalenceClass(DB, n, Peers, Bound)
  BY <1>1, ClassesAgree
<1> QED
  BY <1>1, <1>2, <1>3, <1>4, <1>5

\* On any database, with cycles too, the recursive queries find the nodes within the number
\* of hops and no others; Subtree is Traverse from the other end; equivalence classes are
\* classes.
THEOREM WalksReach == Spec => []WalksMatchReachability
  BY TablesFit, WalksHold, PTL

-----------------------------------------------------------------------------
(***************************************************************************)
(* Trees in memory (tree.go).  The chain from a node upwards never meets a *)
(* node twice, so it is never cut before it is at a root.                  *)
(***************************************************************************)
\* What LoadTree returns: each node has one parent at most.
HasParents(T) ==
    /\ T.nodes \in SUBSET NodeId /\ IsFiniteSet(T.nodes)
    /\ T.parent \in SUBSET (T.nodes \X T.nodes)
    /\ \A a, b, c : <<a, b>> \in T.parent /\ <<a, c>> \in T.parent => b = c

\* What it returns when no row closes a cycle.
IsForest(T) == HasParents(T) /\ IsAcyclic(T.parent, NodeId)

\* c starts at n and goes from each node to a parent.
Climbs(c, T, n) ==
    /\ c \in Seq(T.nodes) /\ Len(c) >= 1 /\ c[1] = n
    /\ \A j \in 1 .. Len(c) - 1 : <<c[j], c[j + 1]>> \in T.parent

\* Nobody is its own ancestor.
LEMMA ClimbIsDistinct ==
    ASSUME NEW T, IsForest(T), NEW n, NEW c, Climbs(c, T, n)
    PROVE  /\ \A i, j \in 1 .. Len(c) : c[i] = c[j] => i = j
           /\ Len(c) =< Cardinality(T.nodes)
<1> DEFINE m == Len(c)
<1>1. m \in Nat /\ \A j \in 1 .. m : c[j] \in NodeId /\ c[j] \in T.nodes
  BY DEF Climbs, IsForest, HasParents
<1>2. \A j \in 1 .. m - 1 : <<c[j], c[j + 1]>> \in T.parent
  BY DEF Climbs
<1> HIDE DEF m
<1>3. ASSUME NEW i \in 1 .. m, NEW j \in 1 .. m, i < j, c[i] = c[j] PROVE FALSE
  <2>1. i \in 1 .. m - 1
    BY <1>1, <1>3
  <2>2. ~ Reaches(T.parent, NodeId, c[i + 1], c[i])
    <3> DEFINE p == <<c[i], c[i + 1]>>
    <3>1. p \in T.parent /\ p[1] = c[i] /\ p[2] = c[i + 1]
      BY <1>2, <2>1
    <3> HIDE DEF p
    <3> QED BY <3>1 DEF IsForest, HasParents, IsAcyclic
  <2>3. PICK S \in SUBSET NodeId : c[i + 1] \in S /\ Closed(T.parent, S) /\ c[i] \notin S
    BY <2>2 DEF Reaches
  <2> DEFINE Q == {d \in 0 .. j - i - 1 : c[i + 1 + d] \in S}
  <2>4. 0 \in Q
    <3>1. 0 \in 0 .. j - i - 1 /\ i + 1 + 0 = i + 1
      BY <1>1, <1>3
    <3> QED BY <2>3, <3>1
  <2>5. ASSUME NEW d \in 1 .. j - i - 1, d - 1 \in Q PROVE d \in Q
    <3>1. i + d \in 1 .. m - 1 /\ i + 1 + (d - 1) = i + d /\ i + d + 1 = i + 1 + d /\ d \in 0 .. j - i - 1
      BY <1>1, <1>3
    <3>2. c[i + d] \in S
      BY <2>5, <3>1
    <3> DEFINE p == <<c[i + d], c[i + d + 1]>>
    <3>3. p \in T.parent /\ p[1] = c[i + d] /\ p[2] = c[i + d + 1]
      BY <1>2, <3>1
    <3> HIDE DEF p
    <3>4. c[i + d + 1] \in S
      BY <2>3, <3>2, <3>3 DEF Closed
    <3> QED BY <3>1, <3>4
  <2> HIDE DEF Q
  <2> DEFINE h == j - i - 1
  <2>6. h \in Nat /\ i + 1 + h = j
    BY <1>1, <1>3
  <2>7. 0 .. h \subseteq Q
    <3>1. 0 \in Q /\ \A d \in 1 .. h : d - 1 \in Q => d \in Q
      BY <2>4, <2>5
    <3> HIDE DEF h
    <3> QED BY <2>6, <3>1, InductionOn
  <2>8. h \in Q
    BY <2>6, <2>7
  <2>9. c[j] \in S
    BY <2>6, <2>8 DEF Q
  <2> QED BY <1>3, <2>3, <2>9
<1>4. \A i, j \in 1 .. m : c[i] = c[j] => i = j
  <2> TAKE i, j \in 1 .. m
  <2>1. i < j \/ j < i \/ i = j
    BY <1>1
  <2> QED BY <1>3, <2>1
<1>5. m =< Cardinality(T.nodes)
  <2> DEFINE N == T.nodes
             f == [k \in 1 .. m |-> c[k]]
  <2>1. IsFiniteSet(N)
    BY DEF IsForest, HasParents
  <2>2. f \in Injection(1 .. m, N)
    BY <1>1, <1>4 DEF Injection, IsInjective
  <2>3. IsFiniteSet(1 .. m) /\ Cardinality(1 .. m) = m
    BY <1>1, FS_Interval
  <2> DEFINE I == 1 .. m
  <2> HIDE DEF N, f, I
  <2>4. f \in Injection(I, N)
    BY <2>2 DEF I
  <2>5. Cardinality(I) =< Cardinality(N)
    BY <2>1, <2>4, FS_Injection
  <2> QED BY <2>3, <2>5 DEF I, N
<1> QED
  BY <1>4, <1>5 DEF m

\* One step of Chain.
ChainStep(T, n, i, c) ==
    IF i = 0 THEN <<n>>
    ELSE IF Len(c) < i \/ Parent(T, Last(c)) = {} THEN c
    ELSE Append(c, CHOOSE m \in Parent(T, Last(c)) : TRUE)

\* The steps of Chain.
ChainAt(T, n) ==
    CHOOSE Up : Up = [i \in 0 .. Cardinality(T.nodes) |-> ChainStep(T, n, i, Up[i - 1])]

\* Chain is the last step.
LEMMA ChainIs ==
    ASSUME NEW T, NEW n
    PROVE  Chain(T, n) = ChainAt(T, n)[Cardinality(T.nodes)]
  BY DEF Chain, ChainAt, ChainStep

\* Each step of Chain follows from the one before.
LEMMA ChainAtDef ==
    ASSUME NEW T, IsFiniteSet(T.nodes), NEW n \in T.nodes
    PROVE  \A i \in 0 .. Cardinality(T.nodes) :
              ChainAt(T, n)[i] = ChainStep(T, n, i, ChainAt(T, n)[i - 1])
<1> DEFINE L == Cardinality(T.nodes)
           Z == Seq(T.nodes)
           e == <<n>>
           s == [i \in 1 .. L |-> [c \in Z |-> ChainStep(T, n, i, c)]]
<1>0. L \in Nat
  BY FS_CardinalityType
<1>1. \A i \in 1 .. L : \A c \in Z : ChainStep(T, n, i, c) \in Z
  <2> TAKE i \in 1 .. L
  <2> TAKE c \in Z
  <2>1. Parent(T, Last(c)) \subseteq T.nodes
    BY DEF Parent
  <2>2. CASE Len(c) < i \/ Parent(T, Last(c)) = {}
    <3>1. i # 0
      BY <1>0
    <3>2. ChainStep(T, n, i, c) = c
      BY <2>2, <3>1, Zenon DEF ChainStep
    <3> QED BY <3>2
  <2>3. CASE ~ (Len(c) < i \/ Parent(T, Last(c)) = {})
    <3> DEFINE p == Parent(T, Last(c))
               m == CHOOSE a \in p : TRUE
    <3>1. m \in p
      BY <2>3
    <3>2. m \in T.nodes
      BY <2>1, <3>1
    <3>3. ChainStep(T, n, i, c) = Append(c, m)
      BY <1>0, <2>3 DEF ChainStep
    <3> DEFINE N == T.nodes
    <3>4. m \in N /\ c \in Seq(N)
      BY <3>2
    <3> HIDE DEF m, N
    <3>5. Append(c, m) \in Seq(N)
      BY <3>4, AppendProperties
    <3> QED BY <3>3, <3>5 DEF N
  <2> QED BY <2>2, <2>3
<1>2. e \in Z
  <2> DEFINE N == T.nodes
  <2>1. n \in N
    OBVIOUS
  <2> HIDE DEF N
  <2>2. <<n>> \in Seq(N)
    BY <2>1
  <2> QED BY <2>2 DEF N
<1>3. s \in [1 .. L -> [Z -> Z]]
  BY <1>1
<1>4. \A i \in 1 .. L : \A c \in Z : s[i][c] = ChainStep(T, n, i, c)
  OBVIOUS
<1>5. ChainStep(T, n, 0, 0) = e /\ \A x : ChainStep(T, n, 0, x) = e
  BY DEF ChainStep
<1> HIDE DEF s, L, Z, e
<1>6. PICK g : IsRecursion(g, L, Z, e, s)
  BY <1>0, <1>2, <1>3, RecursionOn
<1>7. /\ g \in [0 .. L -> Z]
      /\ g[0] = e
      /\ \A i \in 1 .. L : g[i] = s[i][g[i - 1]]
  BY <1>6 DEF IsRecursion
<1> DEFINE Step(h, i) == ChainStep(T, n, i, h[i - 1])
<1>8. \A i \in 0 .. L : g[i] = Step(g, i)
  <2> TAKE i \in 0 .. L
  <2>1. CASE i = 0
    BY <1>5, <1>7, <2>1
  <2>2. CASE i # 0
    <3>1. i \in 1 .. L /\ i - 1 \in 0 .. L
      BY <1>0, <2>2
    <3> QED BY <1>4, <1>7, <3>1
  <2> QED BY <2>1, <2>2
<1>9. g = [i \in 0 .. L |-> Step(g, i)]
  <2> HIDE DEF Step
  <2> QED BY <1>7, <1>8
<1> DEFINE U == ChainAt(T, n)
<1>10. U = [i \in 0 .. L |-> Step(U, i)]
  BY <1>9 DEF ChainAt, L
<1> HIDE DEF U, Step
<1>11. \A i \in 0 .. L : U[i] = Step(U, i)
  BY <1>10
<1> QED
  BY <1>11 DEF U, L, Step

\* A chain goes from each node to its parent, as far as a root.
IsChain(c, T, n) == Climbs(c, T, n) /\ \A b : <<c[Len(c)], b>> \notin T.parent

\* Ancestors gives the whole chain: it is never cut.
LEMMA ChainReachesRoot ==
    ASSUME NEW T, IsForest(T), NEW n \in T.nodes
    PROVE  IsChain(Chain(T, n), T, n)
<1> DEFINE L == Cardinality(T.nodes)
           U == ChainAt(T, n)
           Top(c) == \A b : <<c[Len(c)], b>> \notin T.parent
           Q == {i \in 0 .. L : Climbs(U[i], T, n) /\ (Len(U[i]) = i + 1 \/ (Len(U[i]) =< i /\ Top(U[i])))}
<1>0. L \in Nat /\ IsFiniteSet(T.nodes) /\ T.parent \in SUBSET (T.nodes \X T.nodes)
  BY FS_CardinalityType DEF IsForest, HasParents
<1>1. \A i \in 0 .. L : U[i] = ChainStep(T, n, i, U[i - 1])
  BY <1>0, ChainAtDef
<1> HIDE DEF L, U
<1>2. 0 \in Q
  <2>1. 0 \in 0 .. L
    BY <1>0
  <2>2. U[0] = <<n>>
    BY <1>1, <2>1 DEF ChainStep
  <2>3. Climbs(<<n>>, T, n) /\ Len(<<n>>) = 0 + 1
    <3> DEFINE N == T.nodes
               c == <<n>>
    <3>1. n \in N
      OBVIOUS
    <3> HIDE DEF N
    <3>2. c \in Seq(N) /\ Len(c) = 1 /\ c[1] = n
      BY <3>1
    <3> HIDE DEF c
    <3>3. \A j \in 1 .. Len(c) - 1 : FALSE
      BY <3>2
    <3>4. Climbs(c, T, n) /\ Len(c) = 0 + 1
      BY <3>2, <3>3 DEF Climbs, N
    <3> QED BY <3>4 DEF c
  <2> QED BY <2>1, <2>2, <2>3
<1>3. ASSUME NEW i \in 1 .. L, i - 1 \in Q PROVE i \in Q
  <2> DEFINE c == U[i - 1]
  <2>1. i \in 0 .. L /\ i # 0 /\ i \in Nat
    BY <1>0
  <2>2. Climbs(c, T, n) /\ (Len(c) = i - 1 + 1 \/ (Len(c) =< i - 1 /\ Top(c)))
    BY <1>3
  <2>3. U[i] = ChainStep(T, n, i, c)
    BY <1>1, <2>1
  <2> HIDE DEF c
  <2>4. c \in Seq(T.nodes) /\ Len(c) >= 1 /\ Len(c) \in Nat /\ Last(c) = c[Len(c)]
    BY <2>2 DEF Climbs, Last
  <2>5. CASE Len(c) < i
    <3>1. U[i] = c
      BY <2>1, <2>3, <2>5 DEF ChainStep
    <3>2. Len(c) =< i - 1 /\ Len(c) # i - 1 + 1
      BY <2>1, <2>4, <2>5
    <3> HIDE DEF Top
    <3> QED BY <2>1, <2>2, <3>1, <3>2
  <2>6. CASE ~ (Len(c) < i) /\ Parent(T, Last(c)) = {}
    <3>1. U[i] = c
      BY <2>1, <2>3, <2>6 DEF ChainStep
    <3>2. Len(c) = i
      BY <2>1, <2>2, <2>4, <2>6
    <3>3. Top(c)
      <4> SUFFICES ASSUME NEW b, <<c[Len(c)], b>> \in T.parent PROVE FALSE
        OBVIOUS
      <4>1. b \in T.nodes
        BY <1>0
      <4>2. b \in Parent(T, Last(c))
        BY <2>4, <4>1 DEF Parent
      <4> QED BY <2>6, <4>2
    <3> HIDE DEF Top
    <3> QED BY <2>1, <2>2, <3>1, <3>2, <3>3
  <2>7. CASE ~ (Len(c) < i) /\ Parent(T, Last(c)) # {}
    <3> DEFINE p == Parent(T, Last(c))
               m == CHOOSE a \in p : TRUE
    <3>1. m \in p
      BY <2>7
    <3>2. m \in T.nodes /\ <<c[Len(c)], m>> \in T.parent
      BY <2>4, <3>1 DEF Parent
    <3>3. U[i] = Append(c, m)
      BY <2>1, <2>3, <2>7 DEF ChainStep
    <3>4. Len(c) = i
      BY <2>1, <2>2, <2>4, <2>7
    <3> DEFINE q == Append(c, m)
    <3> HIDE DEF m
    <3>5. /\ q \in Seq(T.nodes) /\ Len(q) = Len(c) + 1 /\ q[Len(c) + 1] = m
          /\ \A j \in 1 .. Len(c) : q[j] = c[j]
      BY <2>4, <3>2, AppendProperties
    <3> HIDE DEF q
    <3>6. \A j \in 1 .. Len(q) - 1 : <<q[j], q[j + 1]>> \in T.parent
      <4> TAKE j \in 1 .. Len(q) - 1
      <4>1. CASE j = Len(c)
        BY <2>4, <3>2, <3>5, <4>1
      <4>2. CASE j # Len(c)
        <5>1. j \in 1 .. Len(c) - 1 /\ j \in 1 .. Len(c) /\ j + 1 \in 1 .. Len(c)
          BY <2>4, <3>5, <4>2
        <5>2. <<c[j], c[j + 1]>> \in T.parent
          BY <2>2, <5>1 DEF Climbs
        <5> QED BY <3>5, <5>1, <5>2
      <4> QED BY <4>1, <4>2
    <3>7. Climbs(q, T, n)
      <4>1. q[1] = n
        BY <2>2, <2>4, <3>5 DEF Climbs
      <4> QED BY <2>4, <3>5, <3>6, <4>1 DEF Climbs
    <3>8. Len(q) = i + 1
      BY <3>4, <3>5
    <3> HIDE DEF Top
    <3> QED BY <2>1, <3>3, <3>7, <3>8 DEF q
  <2> QED BY <2>5, <2>6, <2>7
<1> HIDE DEF Q
<1>4. 0 .. L \subseteq Q
  BY <1>0, <1>2, <1>3, InductionOn
<1>5. L \in Q
  BY <1>0, <1>4
<1>6. Climbs(U[L], T, n) /\ (Len(U[L]) = L + 1 \/ Top(U[L]))
  BY <1>5 DEF Q
<1>7. Len(U[L]) =< L
  BY <1>6, ClimbIsDistinct DEF L
<1>8. Top(U[L])
  <2>1. Len(U[L]) # L + 1
    BY <1>0, <1>7
  <2> QED BY <1>6, <2>1
<1>9. Chain(T, n) = U[L]
  BY ChainIs DEF U, L
<1> QED
  BY <1>6, <1>8, <1>9 DEF IsChain

-----------------------------------------------------------------------------
(***************************************************************************)
(* What hangs below a node, seen from below.                               *)
(***************************************************************************)
\* What hangs below a node is what is reached against the parents.
LEMMA BelowIsWithin ==
    ASSUME NEW T, IsForest(T), NEW r \in T.nodes
    PROVE  SubtreeIDs(T, r) = Within(Converse(T.parent), r, Cardinality(T.nodes))
<1> DEFINE L == Cardinality(T.nodes)
           N == T.nodes
           Q == Converse(T.parent)
           S == {r}
           B == BelowAt(T, S)
           G == {i \in 0 .. L : B[i] = Within(Q, r, i)}
<1>0. L \in Nat /\ IsFiniteSet(T.nodes) /\ r \in N
  BY FS_CardinalityType DEF IsForest, HasParents
<1>1. T.parent \in SUBSET (N \X N)
  BY DEF IsForest, HasParents
<1>2. Q \in SUBSET (N \X N) /\ \A a, b : <<a, b>> \in Q <=> <<b, a>> \in T.parent
  BY <1>1, ConverseIs
<1>3. \A i \in 0 .. L : B[i] = BelowStep(T, S, i, B[i - 1])
  BY <1>0, BelowAtDef
<1>4. \A a, b : b \in Children(T, a) <=> <<a, b>> \in Q
  BY <1>1, <1>2 DEF Children
<1> HIDE DEF L, B, Q, N
<1>5. 0 \in G
  <2>1. 0 \in 0 .. L
    BY <1>0
  <2>2. B[0] = S
    BY <1>3, <2>1 DEF BelowStep
  <2>3. Within(Q, r, 0) = {r}
    BY <1>0, <1>2, WithinZero
  <2> QED BY <2>1, <2>2, <2>3
<1>6. ASSUME NEW i \in 1 .. L, i - 1 \in G PROVE i \in G
  <2>1. i \in 0 .. L /\ i # 0 /\ i - 1 \in Nat /\ i - 1 + 1 = i
    BY <1>0
  <2>2. B[i] = B[i - 1] \cup UNION {Children(T, a) : a \in B[i - 1]}
    BY <1>3, <2>1 DEF BelowStep
  <2>3. B[i - 1] = Within(Q, r, i - 1)
    BY <1>6
  <2> DEFINE k == i - 1
             X == Within(Q, r, k)
  <2>4. k \in Nat /\ k + 1 = i
    BY <2>1
  <2> HIDE DEF k
  <2>5. \A b : b \in Within(Q, r, k + 1) <=> b \in X \/ \E a \in X : <<a, b>> \in Q
    BY <1>0, <1>2, <2>4, WithinStep
  <2>6. \A b : b \in B[i] <=> b \in X \/ \E a \in X : b \in Children(T, a)
    BY <2>2, <2>3 DEF k
  <2> HIDE DEF X
  <2>7. B[i] = Within(Q, r, k + 1)
    BY <1>4, <2>5, <2>6
  <2> QED BY <2>1, <2>4, <2>7
<1> HIDE DEF G
<1>7. 0 .. L \subseteq G
  BY <1>0, <1>5, <1>6, InductionOn
<1>8. L \in G
  BY <1>0, <1>7
<1>9. SubtreeIDs(T, r) = B[L]
  BY BelowIs DEF SubtreeIDs, B, L
<1> QED
  BY <1>8, <1>9 DEF G, L, Q

\* A node of the chain, no more than k steps up.
OnChain(b, c, k) == \E j \in 1 .. Len(c) : j =< k + 1 /\ b = c[j]

\* What is reached along the parents is the chain.
LEMMA ChainIsWithin ==
    ASSUME NEW T, IsForest(T), NEW n \in T.nodes, NEW c, IsChain(c, T, n)
    PROVE  \A k \in Nat : \A b : b \in Within(T.parent, n, k) <=> OnChain(b, c, k)
<1> DEFINE N == T.nodes
           R == T.parent
           m == Len(c)
           G == {k \in Nat : \A b : b \in Within(R, n, k) <=> OnChain(b, c, k)}
<1>1. n \in N /\ R \in SUBSET (N \X N) /\ \A a, x, y : <<a, x>> \in R /\ <<a, y>> \in R => x = y
  BY DEF IsForest, HasParents
<1>2. /\ m \in Nat /\ m >= 1 /\ c[1] = n
      /\ \A j \in 1 .. m - 1 : <<c[j], c[j + 1]>> \in R
      /\ \A b : <<c[m], b>> \notin R
  BY DEF IsChain, Climbs
<1>3. \A b, k : OnChain(b, c, k) <=> \E j \in 1 .. m : j =< k + 1 /\ b = c[j]
  BY DEF OnChain
<1> HIDE DEF N, R, m
<1>0. \A k \in Nat : \A b : b \in Within(R, n, k + 1) <=>
         b \in Within(R, n, k) \/ \E a \in Within(R, n, k) : <<a, b>> \in R
  <2>1. n \in N /\ R \in SUBSET (N \X N)
    BY <1>1
  <2> QED BY <2>1, WithinStep
<1>4. 0 \in G
  <2> SUFFICES ASSUME NEW b PROVE b \in Within(R, n, 0) <=> OnChain(b, c, 0)
    OBVIOUS
  <2>1. Within(R, n, 0) = {n}
    BY <1>1, WithinZero
  <2>2. OnChain(b, c, 0) <=> b = c[1]
    <3>1. \A j \in 1 .. m : j =< 0 + 1 <=> j = 1
      BY <1>2
    <3>2. 1 \in 1 .. m
      BY <1>2
    <3> QED BY <1>3, <3>1, <3>2
  <2> QED BY <1>2, <2>1, <2>2
<1>5. ASSUME NEW k \in Nat, k \in G PROVE k + 1 \in G
  <2> SUFFICES ASSUME NEW b PROVE b \in Within(R, n, k + 1) <=> OnChain(b, c, k + 1)
    OBVIOUS
  <2>1. b \in Within(R, n, k + 1) <=> b \in Within(R, n, k) \/ \E a \in Within(R, n, k) : <<a, b>> \in R
    BY <1>0
  <2>2. \A a : a \in Within(R, n, k) <=> OnChain(a, c, k)
    BY <1>5
  <2>3. ASSUME b \in Within(R, n, k + 1) PROVE OnChain(b, c, k + 1)
    <3>1. CASE OnChain(b, c, k)
      <4>1. PICK j \in 1 .. m : j =< k + 1 /\ b = c[j]
        BY <1>3, <3>1
      <4>2. j =< k + 1 + 1
        BY <1>2, <4>1
      <4> QED BY <1>3, <4>1, <4>2
    <3>2. CASE \E a \in Within(R, n, k) : <<a, b>> \in R
      <4>1. PICK a \in Within(R, n, k) : <<a, b>> \in R
        BY <3>2
      <4>2. PICK j \in 1 .. m : j =< k + 1 /\ a = c[j]
        BY <1>3, <2>2
      <4>3. j # m
        BY <1>2, <4>1, <4>2
      <4>4. j \in 1 .. m - 1 /\ j + 1 \in 1 .. m /\ j + 1 =< k + 1 + 1
        BY <1>2, <4>2, <4>3
      <4>5. <<a, c[j + 1]>> \in R
        BY <1>2, <4>2, <4>4
      <4>6. b = c[j + 1]
        BY <1>1, <4>1, <4>5
      <4> QED BY <1>3, <4>4, <4>6
    <3> QED BY <2>1, <2>2, <2>3, <3>1, <3>2
  <2>4. ASSUME OnChain(b, c, k + 1) PROVE b \in Within(R, n, k + 1)
    <3>1. PICK j \in 1 .. m : j =< k + 1 + 1 /\ b = c[j]
      BY <1>3, <2>4
    <3>2. CASE j =< k + 1
      BY <1>3, <2>1, <2>2, <3>1, <3>2
    <3>3. CASE ~ (j =< k + 1)
      <4>1. j - 1 \in 1 .. m - 1 /\ j - 1 \in 1 .. m /\ j - 1 =< k + 1 /\ j - 1 + 1 = j
        BY <1>2, <3>1, <3>3
      <4>2. OnChain(c[j - 1], c, k)
        BY <1>3, <4>1
      <4>3. <<c[j - 1], b>> \in R
        BY <1>2, <3>1, <4>1
      <4> QED BY <2>1, <2>2, <4>2, <4>3
    <3> QED BY <3>2, <3>3
  <2> QED BY <2>3, <2>4
<1> HIDE DEF G
<1>6. \A k \in Nat : k \in G
  BY <1>4, <1>5, InductionUp
<1> QED
  BY <1>6 DEF G, R

\* Below a node hang those whose chain goes through it.
LEMMA SubtreeByChain ==
    ASSUME NEW T, IsForest(T), NEW n \in T.nodes, NEW r \in T.nodes, NEW c, IsChain(c, T, n)
    PROVE  n \in SubtreeIDs(T, r) <=> \E j \in 1 .. Len(c) : r = c[j]
<1> DEFINE N == T.nodes
           R == T.parent
           L == Cardinality(T.nodes)
<1>1. L \in Nat /\ n \in N /\ r \in N /\ R \in SUBSET (N \X N)
  BY FS_CardinalityType DEF IsForest, HasParents
<1>2. SubtreeIDs(T, r) = Within(Converse(R), r, L)
  BY BelowIsWithin
<1>3. \A b : b \in Within(R, n, L) <=> OnChain(b, c, L)
  BY <1>1, ChainIsWithin
<1>4. Len(c) =< L /\ Len(c) \in Nat
  BY ClimbIsDistinct DEF IsChain, Climbs
<1> HIDE DEF N, R, L
<1>5. r \in Within(R, n, L) <=> n \in Within(Converse(R), r, L)
  BY <1>1, WithinReversed
<1>6. \A j \in 1 .. Len(c) : j =< L + 1
  BY <1>1, <1>4
<1>7. OnChain(r, c, L) <=> \E j \in 1 .. Len(c) : r = c[j]
  BY <1>6 DEF OnChain
<1> QED
  BY <1>2, <1>3, <1>5, <1>7

\* Every node hangs below one root: the last of its chain.
LEMMA OneRoot ==
    ASSUME NEW T, IsForest(T), NEW n \in T.nodes
    PROVE  /\ Last(Chain(T, n)) \in Roots(T)
           /\ {r \in Roots(T) : n \in SubtreeIDs(T, r)} = {Last(Chain(T, n))}
<1> DEFINE c == Chain(T, n)
<1>1. IsChain(c, T, n)
  BY ChainReachesRoot
<1> HIDE DEF c
<1>2. /\ Len(c) \in Nat /\ Len(c) >= 1 /\ Last(c) = c[Len(c)]
      /\ \A j \in 1 .. Len(c) : c[j] \in T.nodes
      /\ \A j \in 1 .. Len(c) - 1 : <<c[j], c[j + 1]>> \in T.parent
      /\ \A b : <<c[Len(c)], b>> \notin T.parent
  BY <1>1 DEF IsChain, Climbs, Last
<1>3. T.parent \in SUBSET (T.nodes \X T.nodes) /\ T.nodes \in SUBSET NodeId
  BY DEF IsForest, HasParents
<1>4. Len(c) \in 1 .. Len(c)
  BY <1>2
<1>5. Last(c) \in Roots(T)
  BY <1>2, <1>4 DEF Roots
<1>6. \A r \in T.nodes : n \in SubtreeIDs(T, r) <=> \E j \in 1 .. Len(c) : r = c[j]
  BY <1>1, SubtreeByChain
<1>7. ASSUME NEW r \in Roots(T), n \in SubtreeIDs(T, r) PROVE r = Last(c)
  <2>1. r \in T.nodes /\ \A b \in NodeId : <<r, b>> \notin T.parent
    BY DEF Roots
  <2>2. PICK j \in 1 .. Len(c) : r = c[j]
    BY <1>6, <1>7, <2>1
  <2>3. j = Len(c)
    <3> SUFFICES ASSUME j # Len(c) PROVE FALSE
      OBVIOUS
    <3>1. j \in 1 .. Len(c) - 1 /\ j + 1 \in 1 .. Len(c)
      BY <1>2
    <3>2. <<r, c[j + 1]>> \in T.parent /\ c[j + 1] \in NodeId
      BY <1>2, <1>3, <2>2, <3>1
    <3> QED BY <2>1, <3>2
  <2> QED BY <1>2, <2>2, <2>3
<1>8. n \in SubtreeIDs(T, Last(c))
  <2>1. Last(c) \in T.nodes
    BY <1>2, <1>4
  <2> QED BY <1>2, <1>4, <1>6, <2>1
<1> QED
  BY <1>5, <1>7, <1>8 DEF c

-----------------------------------------------------------------------------
(***************************************************************************)
(* The walk along the parents is the chain.                                *)
(***************************************************************************)
\* The paths of X are the first k nodes of the chain; there is one if the chain is so long.
Ascend(X, V, c, k) ==
    /\ \A p \in X : p \in Seq(V) /\ Len(p) = k /\ k =< Len(c) /\ \A j \in 1 .. k : p[j] = c[j]
    /\ k =< Len(c) => X # {}

\* A step from there is a step on the chain.
LEMMA AscendOn ==
    ASSUME NEW T, IsForest(T), NEW n \in T.nodes, NEW c, IsChain(c, T, n),
           NEW k \in Nat \ {0}, NEW X, Ascend(X, T.nodes, c, k)
    PROVE  Ascend(Extended(T.parent, X), T.nodes, c, k + 1)
<1> DEFINE V == T.nodes
           R == T.parent
           m == Len(c)
<1>1. R \in SUBSET (V \X V) /\ \A a, x, y : <<a, x>> \in R /\ <<a, y>> \in R => x = y
  BY DEF IsForest, HasParents
<1>2. /\ m \in Nat /\ \A j \in 1 .. m : c[j] \in V
      /\ \A j \in 1 .. m - 1 : <<c[j], c[j + 1]>> \in R
      /\ \A b : <<c[m], b>> \notin R
  BY DEF IsChain, Climbs
<1>3. \A i, j \in 1 .. m : c[i] = c[j] => i = j
  BY ClimbIsDistinct DEF IsChain
<1>4. \A p \in X : /\ p \in Seq(V) /\ Len(p) = k /\ k =< m /\ Last(p) = c[k]
                   /\ \A j \in 1 .. k : p[j] = c[j]
  BY DEF Ascend, Last
<1>5. k =< m => X # {}
  BY DEF Ascend
<1>6. \A q : q \in Extended(R, X) <=> GoesOn(q, V, R, X)
  <2>1. R \in SUBSET (V \X V)
    BY <1>1
  <2> HIDE DEF V, R, m
  <2> QED BY <2>1, ExtendedIs
<1> HIDE DEF V, R, m
<1>7. ASSUME NEW q \in Extended(R, X)
      PROVE  q \in Seq(V) /\ Len(q) = k + 1 /\ k + 1 =< m /\ \A j \in 1 .. k + 1 : q[j] = c[j]
  <2>1. PICK p \in X, b \in V : <<Last(p), b>> \in R /\ q = Append(p, b)
    BY <1>6 DEF GoesOn
  <2>2. <<c[k], b>> \in R /\ k =< m
    BY <1>4, <2>1
  <2>3. k # m
    BY <1>2, <2>2
  <2>4. k \in 1 .. m - 1
    BY <1>2, <2>2, <2>3
  <2>5. b = c[k + 1]
    BY <1>1, <1>2, <2>2, <2>4
  <2>6. /\ q \in Seq(V) /\ Len(q) = k + 1 /\ q[k + 1] = b
        /\ \A j \in 1 .. k : q[j] = p[j]
    BY <1>4, <2>1, AppendProperties
  <2>7. \A j \in 1 .. k + 1 : j \in 1 .. k \/ j = k + 1
    OBVIOUS
  <2>8. \A j \in 1 .. k + 1 : q[j] = c[j]
    BY <1>4, <2>1, <2>5, <2>6, <2>7
  <2>9. k + 1 =< m
    BY <1>2, <2>4
  <2> QED BY <2>6, <2>8, <2>9
<1>8. ASSUME k + 1 =< m PROVE Extended(R, X) # {}
  <2>1. k =< m /\ k \in 1 .. m - 1 /\ k + 1 \in 1 .. m
    BY <1>2, <1>8
  <2>2. PICK p \in X : TRUE
    BY <1>5, <2>1
  <2> DEFINE b == c[k + 1]
             q == Append(p, b)
  <2>3. b \in V
    BY <1>2, <2>1
  <2>4. <<Last(p), b>> \in R
    BY <1>2, <1>4, <2>1
  <2>5. ~ Contains(p, b)
    <3> SUFFICES ASSUME NEW j \in 1 .. Len(p), p[j] = b PROVE FALSE
      BY DEF Contains
    <3>1. Len(p) = k /\ p[j] = c[j]
      BY <1>4
    <3>2. j \in 1 .. m /\ j # k + 1
      BY <1>2, <2>1, <3>1
    <3> QED BY <1>3, <2>1, <3>1, <3>2
  <2> HIDE DEF b
  <2>6. GoesOn(q, V, R, X)
    BY <2>3, <2>4, <2>5 DEF GoesOn
  <2> HIDE DEF q
  <2> QED BY <1>6, <2>6
<1>9. Ascend(Extended(R, X), V, c, k + 1)
  <2> DEFINE Y == Extended(R, X)
             h == k + 1
  <2>1. \A q \in Y : q \in Seq(V) /\ Len(q) = h /\ h =< m /\ \A j \in 1 .. h : q[j] = c[j]
    BY <1>7
  <2>2. h =< m => Y # {}
    BY <1>8
  <2> HIDE DEF Y, h
  <2>3. Ascend(Y, V, c, h)
    BY <2>1, <2>2 DEF Ascend, m
  <2> QED BY <2>3 DEF Y, h
<1> QED
  BY <1>9 DEF V, R

\* The walk along the parents is the chain, level by level.
LEMMA LevelsAscend ==
    ASSUME NEW T, IsForest(T), NEW n \in T.nodes, NEW c, IsChain(c, T, n), NEW m \in Nat
    PROVE  \A d \in 0 .. m :
              Ascend(PathsAt(T.parent, FirstSteps(T.parent, n), m)[d], T.nodes, c, d + 2)
<1> DEFINE V == T.nodes
           R == T.parent
           first == FirstSteps(R, n)
           P == PathsAt(R, first, m)
           G == {d \in 0 .. m : Ascend(P[d], V, c, d + 2)}
<1>1. n \in V /\ R \in SUBSET (V \X V)
  BY DEF IsForest, HasParents
<1>2. /\ Len(c) \in Nat /\ Len(c) >= 1 /\ c[1] = n
      /\ \A j \in 1 .. Len(c) : c[j] \in V
      /\ \A j \in 1 .. Len(c) - 1 : <<c[j], c[j + 1]>> \in R
      /\ \A b : <<c[Len(c)], b>> \notin R
  <2>1. /\ c \in Seq(V) /\ Len(c) >= 1 /\ c[1] = n
        /\ \A j \in 1 .. Len(c) - 1 : <<c[j], c[j + 1]>> \in R
        /\ \A b : <<c[Len(c)], b>> \notin R
    BY DEF IsChain, Climbs
  <2> HIDE DEF V, R
  <2>2. Len(c) \in Nat /\ \A j \in 1 .. Len(c) : c[j] \in V
    BY <2>1
  <2> QED BY <2>1, <2>2
<1>3. \A a, x, y : <<a, x>> \in R /\ <<a, y>> \in R => x = y
  BY DEF IsForest, HasParents
<1>4. \A d \in Nat \ {0} : \A X : Ascend(X, V, c, d) => Ascend(Extended(R, X), V, c, d + 1)
  BY AscendOn
<1> HIDE DEF V, R
<1>5. /\ \A p : p \in first <=> \E b \in V : <<n, b>> \in R /\ p = <<n, b>>
      /\ first \in SUBSET Seq(V)
      /\ Explore(first, V, R, n, 1)
  BY <1>1, FirstExplore
<1> HIDE DEF first
<1>6. P[0] = first /\ \A d \in 1 .. m : P[d] = Extended(R, P[d - 1])
  <2>1. ArePaths(PathsAt(R, first, m), V, R, first, m)
    BY <1>1, <1>5, PathsAtDef
  <2> QED BY <2>1 DEF ArePaths
<1> HIDE DEF P
<1>7. Ascend(first, V, c, 2)
  <2>1. ASSUME NEW p \in first
        PROVE  p \in Seq(V) /\ Len(p) = 2 /\ 2 =< Len(c) /\ \A j \in 1 .. 2 : p[j] = c[j]
    <3>1. PICK b \in V : <<n, b>> \in R /\ p = <<n, b>>
      BY <1>5
    <3>0. Len(c) \in Nat /\ Len(c) >= 1
      BY <1>2
    <3>2. Len(c) # 1
      BY <1>2, <3>1
    <3> DEFINE z == Len(c)
    <3>8. z \in Nat /\ z >= 1 /\ z # 1
      BY <3>0, <3>2
    <3> HIDE DEF z
    <3>9. 2 =< z /\ 1 \in 1 .. z - 1 /\ 1 + 1 = 2
      BY <3>8
    <3>3. 1 \in 1 .. Len(c) - 1 /\ 1 + 1 = 2
      BY <3>9 DEF z
    <3>4. <<n, c[2]>> \in R
      BY <1>2, <3>3
    <3>5. b = c[2]
      BY <1>3, <3>1, <3>4
    <3>6. \A j \in 1 .. 2 : j = 1 \/ j = 2
      OBVIOUS
    <3>7. p[1] = n /\ p[2] = b /\ Len(p) = 2 /\ p \in Seq(V)
      BY <1>1, <3>1
    <3>10. 2 =< Len(c)
      BY <3>9 DEF z
    <3> QED BY <1>2, <3>5, <3>6, <3>7, <3>10
  <2>2. ASSUME 2 =< Len(c) PROVE first # {}
    <3>1. 1 \in 1 .. Len(c) - 1 /\ 1 + 1 = 2 /\ 2 \in 1 .. Len(c)
      BY <1>2, <2>2
    <3>2. <<n, c[2]>> \in R /\ c[2] \in V
      BY <1>2, <3>1
    <3>3. <<n, c[2]>> \in first
      BY <1>5, <3>2
    <3> QED BY <3>3
  <2> QED BY <2>1, <2>2 DEF Ascend
<1>8. 0 \in G
  <2>1. 0 \in 0 .. m /\ 0 + 2 = 2
    OBVIOUS
  <2> QED BY <1>6, <1>7, <2>1
<1>9. ASSUME NEW d \in 1 .. m, d - 1 \in G PROVE d \in G
  <2>1. d - 1 + 2 \in Nat \ {0} /\ d - 1 + 2 + 1 = d + 2 /\ d \in 0 .. m
    OBVIOUS
  <2> DEFINE k == d - 1 + 2
             X == P[d - 1]
  <2>2. Ascend(X, V, c, k)
    BY <1>9
  <2>3. k \in Nat \ {0} /\ k + 1 = d + 2
    BY <2>1
  <2> HIDE DEF k, X
  <2>4. Ascend(Extended(R, X), V, c, k + 1)
    BY <1>4, <2>2, <2>3
  <2>5. P[d] = Extended(R, X)
    BY <1>6 DEF X
  <2> QED BY <2>1, <2>3, <2>4, <2>5
<1> HIDE DEF G
<1>10. 0 .. m \subseteq G
  BY <1>8, <1>9, InductionOn
<1> QED
  BY <1>10 DEF G, P, first, V, R

-----------------------------------------------------------------------------
(***************************************************************************)
(* The rows of Ancestors, and the tree that LoadTree returns.              *)
(***************************************************************************)
\* A row of Ancestors for the j-th node of the chain.
RowOfChain(c, j) == [id |-> c[j], depth |-> j - 1]

\* What Ancestors lists is the chain without its start, each node with its distance.
ListsChain(A, c) ==
    /\ \A r \in A : \E j \in 2 .. Len(c) : r = RowOfChain(c, j)
    /\ \A j \in 2 .. Len(c) : RowOfChain(c, j) \in A

\* The walk of Ancestors along the parents lists the chain.
LEMMA AncestorsOnChain ==
    ASSUME NEW T, IsForest(T), NEW n \in T.nodes, NEW c, IsChain(c, T, n),
           NEW k \in Nat \ {0}, Len(c) =< k
    PROVE  ListsChain({[id |-> Last(p), depth |-> Len(p) - 1] :
                         p \in Paths(T.parent, FirstSteps(T.parent, n), k - 1)}, c)
<1> DEFINE R == T.parent
           first == FirstSteps(R, n)
           m == k - 1
           P == PathsAt(R, first, m)
           W == Paths(R, first, m)
           A == {[id |-> Last(p), depth |-> Len(p) - 1] : p \in W}
<1>1. m \in Nat /\ k = m + 1
  OBVIOUS
<1>2. W = UNION {P[d] : d \in 0 .. m}
  BY PathsIs
<1>3. \A d \in 0 .. m : Ascend(P[d], T.nodes, c, d + 2)
  <2> HIDE DEF m
  <2> QED BY <1>1, LevelsAscend
<1>4. Len(c) \in Nat
  BY DEF IsChain, Climbs
<1> HIDE DEF P, W, m
<1>5. ASSUME NEW p \in W
      PROVE  \E j \in 2 .. Len(c) : Len(p) = j /\ Last(p) = c[j]
  <2>1. PICK d \in 0 .. m : p \in P[d]
    BY <1>2
  <2>2. Len(p) = d + 2 /\ d + 2 =< Len(c) /\ \A j \in 1 .. d + 2 : p[j] = c[j]
    BY <1>3, <2>1 DEF Ascend
  <2>3. d + 2 \in 2 .. Len(c) /\ d + 2 \in 1 .. d + 2
    BY <1>1, <1>4, <2>2
  <2> QED BY <2>2, <2>3 DEF Last
<1>6. ASSUME NEW j \in 2 .. Len(c)
      PROVE  \E p \in W : Len(p) = j /\ Last(p) = c[j]
  <2>1. j - 2 \in 0 .. m /\ j - 2 + 2 = j /\ j \in 1 .. j /\ j =< Len(c)
    BY <1>1, <1>4
  <2>2. Ascend(P[j - 2], T.nodes, c, j)
    BY <1>3, <2>1
  <2>3. PICK p \in P[j - 2] : Len(p) = j /\ \A i \in 1 .. j : p[i] = c[i]
    BY <2>1, <2>2 DEF Ascend
  <2>4. p \in W
    BY <1>2, <2>1
  <2> QED BY <2>1, <2>3, <2>4 DEF Last
<1>7. \A r \in A : \E j \in 2 .. Len(c) : r = RowOfChain(c, j)
  <2> TAKE r \in A
  <2>1. PICK p \in W : r = [id |-> Last(p), depth |-> Len(p) - 1]
    OBVIOUS
  <2>2. PICK j \in 2 .. Len(c) : Len(p) = j /\ Last(p) = c[j]
    BY <1>5
  <2>3. r = RowOfChain(c, j)
    BY <2>1, <2>2 DEF RowOfChain
  <2> QED BY <2>3
<1>8. \A j \in 2 .. Len(c) : RowOfChain(c, j) \in A
  <2> TAKE j \in 2 .. Len(c)
  <2>1. PICK p \in W : Len(p) = j /\ Last(p) = c[j]
    BY <1>6
  <2>2. [id |-> Last(p), depth |-> Len(p) - 1] \in A
    OBVIOUS
  <2>3. RowOfChain(c, j) = [id |-> Last(p), depth |-> Len(p) - 1]
    BY <2>1 DEF RowOfChain
  <2> HIDE DEF A
  <2> QED BY <2>2, <2>3
<1> HIDE DEF A
<1>9. ListsChain(A, c)
  BY <1>7, <1>8 DEF ListsChain
<1> QED
  BY <1>9 DEF A, W, m

\* There is one row for each node of the chain but the start.
LEMMA RowsOfChain ==
    ASSUME NEW A, NEW c, Len(c) \in Nat, Len(c) >= 1, ListsChain(A, c)
    PROVE  Cardinality(A) = Len(c) - 1
<1> DEFINE m == Len(c)
           J == 2 .. m
           f == [j \in J |-> RowOfChain(c, j)]
<1>1. m \in Nat /\ m >= 1
  OBVIOUS
<1>2. /\ \A r \in A : \E j \in J : r = RowOfChain(c, j)
      /\ \A j \in J : RowOfChain(c, j) \in A
  BY DEF ListsChain
<1>3. \A i, j \in J : RowOfChain(c, i) = RowOfChain(c, j) => i = j
  <2> TAKE i, j \in J
  <2> HAVE RowOfChain(c, i) = RowOfChain(c, j)
  <2>1. RowOfChain(c, i).depth = i - 1 /\ RowOfChain(c, j).depth = j - 1
    BY DEF RowOfChain
  <2> QED BY <2>1
<1> HIDE DEF m
<1>4. IsFiniteSet(J) /\ Cardinality(J) = m - 1
  <2>1. IsFiniteSet(2 .. m) /\ Cardinality(2 .. m) = IF 2 > m THEN 0 ELSE m - 2 + 1
    BY <1>1, FS_Interval
  <2> QED BY <1>1, <2>1
<1> HIDE DEF J
<1>5. f \in [J -> A] /\ \A j \in J : f[j] = RowOfChain(c, j)
  BY <1>2
<1> HIDE DEF f
<1>6. f \in Injection(J, A)
  BY <1>3, <1>5 DEF Injection, IsInjective
<1>7. f \in Surjection(J, A)
  BY <1>2, <1>5 DEF Surjection
<1>8. ExistsBijection(J, A)
  BY <1>6, <1>7 DEF ExistsBijection, Bijection
<1>9. Cardinality(A) = Cardinality(J)
  BY <1>4, <1>8, FS_Bijection
<1> QED
  BY <1>4, <1>9 DEF m

\* The parent field of the listed type.
IsParent(f) == f \in Field /\ f.type = Listed /\ f.name = Tree /\ f.to = Listed /\ f.single

\* LoadTree follows the field that the tree capability names: one reference to the same type.
LEMMA ParentField ==
    /\ \E f : IsParent(f)
    /\ \A g \in Field : g.type = Listed /\ g.name = Tree => IsParent(g)
    /\ (CHOOSE f \in FieldsOf(Listed) : f.parent).name = Tree
<1>1. \A f \in Field : f.parent => f.single /\ f.to = f.type
  BY SchemaAssumption DEF SchemaAssumption, ParentIsSingleSelfReference
<1>2. \A f \in FieldsOf(Listed) : f \in Field /\ f.type = Listed /\ (f.parent <=> f.name = Tree)
  BY ReadsAssumption DEF ReadsAssumption, FieldsOf
<1>3. PICK f \in FieldsOf(Listed) : f.name = Tree
  BY ReadsAssumption DEF ReadsAssumption
<1>4. IsParent(f)
  BY <1>1, <1>2, <1>3 DEF IsParent
<1>5. \A g \in Field : g.type = Listed /\ g.name = Tree => IsParent(g)
  <2> SUFFICES ASSUME NEW g \in Field, g.type = Listed, g.name = Tree PROVE IsParent(g)
    OBVIOUS
  <2>1. g \in FieldsOf(Listed)
    BY DEF FieldsOf
  <2> QED BY <1>1, <1>2, <2>1 DEF IsParent
<1>6. (CHOOSE g \in FieldsOf(Listed) : g.parent).name = Tree
  <2> DEFINE h == CHOOSE g \in FieldsOf(Listed) : g.parent
  <2>1. h \in FieldsOf(Listed) /\ h.parent
    BY <1>2, <1>3
  <2> HIDE DEF h
  <2>2. h.name = Tree
    BY <1>2, <2>1
  <2> QED BY <2>2 DEF h
<1> QED
  BY <1>4, <1>5, <1>6

\* The pairs of a loaded tree.
LEMMA TreeIs ==
    ASSUME NEW s
    PROVE  /\ LoadTree(DB, Listed, s).nodes = Matches(DB, Listed, s, NoExpr)
           /\ LoadTree(DB, Listed, s).parent
                = {<<e.from, e.to>> : e \in {d \in edges :
                      /\ d.field = Tree /\ nodes[d.from].type = Listed
                      /\ {d.from, d.to} \subseteq Matches(DB, Listed, s, NoExpr)}}
  BY ParentField DEF LoadTree, DB

\* In a loaded tree each node has one parent at most, cycle or not.
LEMMA TreeHasParents ==
    ASSUME TablesOK(nodes, edges), NEW s
    PROVE  HasParents(LoadTree(DB, Listed, s))
<1> DEFINE T == LoadTree(DB, Listed, s)
           N == Matches(DB, Listed, s, NoExpr)
<1>1. N \subseteq NodeId
  BY DEF Matches, Selected, Rows
<1>2. IsFiniteSet(N)
  BY <1>1, FS_Subset, ReadsAssumption DEF ReadsAssumption
<1> HIDE DEF N
<1>3. /\ T.nodes = N
      /\ T.parent = {<<e.from, e.to>> : e \in {d \in edges :
                      d.field = Tree /\ nodes[d.from].type = Listed /\ {d.from, d.to} \subseteq N}}
  BY TreeIs DEF N
<1> HIDE DEF T
<1>5. T.parent \in SUBSET (T.nodes \X T.nodes)
  BY <1>3
<1>6. ASSUME NEW a, NEW b, NEW c, <<a, b>> \in T.parent, <<a, c>> \in T.parent PROVE b = c
  <2>1. PICK d \in edges : d.field = Tree /\ nodes[d.from].type = Listed /\ d.from = a /\ d.to = b
    BY <1>3, <1>6
  <2>2. PICK e \in edges : e.field = Tree /\ nodes[e.from].type = Listed /\ e.from = a /\ e.to = c
    BY <1>3, <1>6
  <2>3. \A x \in edges : EdgeFits(nodes, x)
    BY DEF TablesOK
  <2>4. \A x \in edges : x.field = Tree /\ nodes[x.from].type = Listed => x.single
    <3> TAKE x \in edges
    <3> HAVE x.field = Tree /\ nodes[x.from].type = Listed
    <3>1. PICK g \in Field : x.field = g.name /\ x.single = g.single /\ nodes[x.from].type = g.type
      BY <2>3 DEF EdgeFits
    <3>2. IsParent(g)
      <4>1. g.type = Listed /\ g.name = Tree
        BY <3>1
      <4> QED BY <4>1, ParentField
    <3> QED BY <3>1, <3>2 DEF IsParent
  <2>5. Compatible(d, e)
    BY DEF TablesOK
  <2>6. d.single /\ e.single
    BY <2>1, <2>2, <2>4
  <2>7. d = e
    BY <2>1, <2>2, <2>5, <2>6 DEF Compatible
  <2> QED BY <2>1, <2>2, <2>7
<1>7. HasParents(T)
  BY <1>1, <1>2, <1>3, <1>5, <1>6 DEF HasParents
<1> QED
  BY <1>7 DEF T

\* When no row closes a cycle, a loaded tree is a forest.
LEMMA TreeIsForest ==
    ASSUME TablesOK(nodes, edges), NEW s, IsAcyclic(LoadTree(DB, Listed, s).parent, NodeId)
    PROVE  IsForest(LoadTree(DB, Listed, s))
  BY TreeHasParents DEF IsForest

\* No other type has a field of the name.
TreeNameIsOwn == \A f \in Field : f.name = Tree => f.type = Listed

\* Without a scope the tree has all nodes of the type and all references of the field.
LEMMA WholeTree ==
    ASSUME TablesOK(nodes, edges), TreeNameIsOwn
    PROVE  /\ LoadTree(DB, Listed, BypassPolicy).nodes = OfType(Listed)
           /\ LoadTree(DB, Listed, BypassPolicy).parent = Along(DB, Tree)
<1> DEFINE N == OfType(Listed)
<1>1. Matches(DB, Listed, BypassPolicy, NoExpr) = N
  <2>1. Effective(BypassPolicy, NoExpr) = NoExpr
    BY DEF Effective, BypassPolicy
  <2> QED BY <2>1 DEF Matches, Selected, OfType, DB
<1>2. ASSUME NEW e \in edges, e.field = Tree
      PROVE  nodes[e.from].type = Listed /\ e.from \in N /\ e.to \in N
  <2>1. PICK g \in Field : /\ e.field = g.name
                          /\ nodes[e.from].type = g.type /\ nodes[e.to].type = g.to
    BY DEF TablesOK, EdgeFits
  <2>2. g.name = Tree
    BY <1>2, <2>1
  <2>3. g.type = Listed
    BY <2>2 DEF TreeNameIsOwn
  <2>4. IsParent(g)
    BY <2>2, <2>3, ParentField
  <2>5. /\ e.from \in NodeId /\ e.to \in NodeId
        /\ nodes[e.from] # NoRow /\ nodes[e.to] # NoRow
    BY EdgeEnds
  <2> QED BY <2>1, <2>4, <2>5 DEF IsParent, OfType, Rows, DB
<1> HIDE DEF N
<1>3. {d \in edges : d.field = Tree /\ nodes[d.from].type = Listed /\ {d.from, d.to} \subseteq N}
        = {d \in edges : d.field = Tree}
  BY <1>2
<1>4. Along(DB, Tree) = {<<e.from, e.to>> : e \in {d \in edges : d.field = Tree}}
  BY DEF Along, DB
<1> QED
  BY <1>1, <1>3, <1>4, TreeIs DEF N

-----------------------------------------------------------------------------
(***************************************************************************)
(* Walks down a tree that has cycles.                                      *)
(***************************************************************************)
\* Every node of C has a child in C: a walk that comes upon C never returns.
Endless(T, C) == C \in SUBSET T.nodes /\ \A m \in C : Children(T, m) \cap C # {}

\* As each node has one parent at most, the children in C are all of C, and
\* a node has no other child in C.
LEMMA EndlessIsClosed ==
    ASSUME NEW T, HasParents(T), NEW C, Endless(T, C)
    PROVE  /\ \A x \in C : \E m \in C : <<x, m>> \in T.parent
           /\ \A x, y \in C : \A m \in C :
                <<x, m>> \in T.parent /\ <<y, m>> \in T.parent => x = y
<1> DEFINE f == [m \in C |-> CHOOSE x \in C : <<x, m>> \in T.parent]
<1>1. \A m \in C : f[m] \in C /\ <<f[m], m>> \in T.parent
  BY DEF Endless, Children
<1>2. f \in [C -> C]
  BY <1>1
<1> HIDE DEF f
<1>3. \A a, b \in C : f[a] = f[b] => a = b
  BY <1>1 DEF HasParents
<1>4. f \in Injection(C, C)
  BY <1>2, <1>3 DEF Injection, IsInjective
<1>5. IsFiniteSet(C)
  BY FS_Subset DEF HasParents, Endless
<1>6. f \in Surjection(C, C)
  BY <1>4, <1>5, FS_Injection
<1>7. \A x \in C : \E m \in C : f[m] = x
  BY <1>6 DEF Surjection
<1>8. ASSUME NEW x \in C, NEW m \in C, <<x, m>> \in T.parent PROVE x = f[m]
  <2>1. PICK a \in C : f[a] = x
    BY <1>7
  <2>2. <<x, a>> \in T.parent
    BY <1>1, <2>1
  <2>3. a = m
    BY <1>8, <2>2 DEF HasParents
  <2> QED BY <2>1, <2>3
<1>9. \A x \in C : \E m \in C : <<x, m>> \in T.parent
  BY <1>1, <1>7
<1> QED
  BY <1>8, <1>9

\* So no root is in C.
LEMMA RootsReturn ==
    ASSUME NEW T, HasParents(T)
    PROVE  Returns(T, Roots(T))
<1> SUFFICES ASSUME NEW C \in SUBSET T.nodes, NEW r \in C, r \in Roots(T),
                    \A m \in C : Children(T, m) \cap C # {}
             PROVE  FALSE
  BY DEF Returns
<1>1. PICK m \in C : <<r, m>> \in T.parent
  BY EndlessIsClosed DEF Endless
<1>2. m \in NodeId
  BY DEF HasParents
<1> QED
  BY <1>1, <1>2 DEF Roots

\* And from the parent of a node of C the way up comes back to the node.
LEMMA EndlessIsCycle ==
    ASSUME NEW T, HasParents(T), NEW C, Endless(T, C), NEW n \in C
    PROVE  OnCycle(T, n)
<1>1. PICK p \in C : <<n, p>> \in T.parent
  BY EndlessIsClosed
<1>2. p \in Parent(T, n)
  BY <1>1 DEF Parent, Endless
<1>3. ASSUME NEW S \in SUBSET NodeId, p \in S, Closed(T.parent, S) PROVE n \in S
  <2> DEFINE D == C \cap S
             g == [x \in D |-> CHOOSE m \in D : <<x, m>> \in T.parent]
  <2>1. ASSUME NEW x \in D PROVE \E m \in D : <<x, m>> \in T.parent
    <3>1. PICK m \in C : <<x, m>> \in T.parent
      BY EndlessIsClosed
    <3>2. <<x, m>>[1] = x /\ <<x, m>>[2] = m
      OBVIOUS
    <3>3. m \in S
      BY <1>3, <3>1, <3>2 DEF Closed
    <3> QED BY <3>1, <3>3
  <2>2. \A x \in D : g[x] \in D /\ <<x, g[x]>> \in T.parent
    BY <2>1
  <2>3. g \in [D -> D]
    BY <2>2
  <2>4. p \in D /\ D \subseteq C /\ D \subseteq S
    BY <1>3
  <2> HIDE DEF g, D
  <2>5. \A x, y \in D : g[x] = g[y] => x = y
    <3> SUFFICES ASSUME NEW x \in D, NEW y \in D, g[x] = g[y] PROVE x = y
      OBVIOUS
    <3>1. <<x, g[x]>> \in T.parent /\ <<y, g[x]>> \in T.parent /\ g[x] \in C /\ x \in C /\ y \in C
      BY <2>2, <2>4
    <3> QED BY <3>1, EndlessIsClosed
  <2>6. g \in Injection(D, D)
    BY <2>3, <2>5 DEF Injection, IsInjective
  <2>7. IsFiniteSet(D)
    BY <2>4, FS_Subset DEF HasParents, Endless
  <2>8. g \in Surjection(D, D)
    BY <2>6, <2>7, FS_Injection
  <2>9. PICK x \in D : g[x] = p
    BY <2>4, <2>8 DEF Surjection
  <2>10. <<x, p>> \in T.parent /\ x \in C
    BY <2>2, <2>4, <2>9
  <2>11. x = n
    BY <1>1, <2>10, EndlessIsClosed
  <2> QED BY <2>4, <2>11
<1>4. Reaches(T.parent, NodeId, p, n)
  BY <1>3 DEF Reaches
<1> QED
  BY <1>2, <1>4 DEF OnCycle

\* The ancestors of a node that is one of them call each other for ever.
LEMMA CycleIsEndless ==
    ASSUME NEW T, HasParents(T), NEW n \in T.nodes, OnCycle(T, n)
    PROVE  \E C : Endless(T, C) /\ n \in C
<1>1. PICK p \in Parent(T, n) : Reaches(T.parent, NodeId, p, n)
  BY DEF OnCycle
<1> DEFINE C == {x \in T.nodes : Reaches(T.parent, NodeId, p, x)}
<1>2. p \in T.nodes /\ <<n, p>> \in T.parent /\ T.nodes \subseteq NodeId
  BY <1>1 DEF Parent, HasParents
<1>3. p \in C /\ n \in C
  BY <1>1, <1>2 DEF Reaches
<1>4. ASSUME NEW a \in C, NEW b, <<a, b>> \in T.parent PROVE b \in C
  <2>1. b \in T.nodes
    BY <1>4 DEF HasParents
  <2>2. <<a, b>>[1] = a /\ <<a, b>>[2] = b
    OBVIOUS
  <2>3. ASSUME NEW S \in SUBSET NodeId, p \in S, Closed(T.parent, S) PROVE b \in S
    <3>1. a \in S
      BY <2>3 DEF Reaches
    <3> QED BY <1>4, <2>2, <2>3, <3>1 DEF Closed
  <2> QED BY <2>1, <2>3 DEF Reaches
<1>5. ASSUME NEW x \in C, Children(T, x) \cap C = {} PROVE FALSE
  <2> DEFINE S == C \ {x}
  <2>1. x # p
    BY <1>2, <1>3, <1>5 DEF Children
  <2>2. S \in SUBSET NodeId /\ p \in S
    BY <1>2, <1>3, <2>1
  <2>3. ASSUME NEW q \in T.parent, q[1] \in S PROVE q[2] \in S
    <3>1. q = <<q[1], q[2]>> /\ q[1] \in T.nodes
      BY DEF HasParents
    <3>2. q[2] \in C
      BY <1>4, <2>3, <3>1
    <3>3. q[2] # x
      BY <1>5, <2>3, <3>1 DEF Children
    <3> QED BY <3>2, <3>3
  <2>4. Closed(T.parent, S)
    BY <2>3 DEF Closed
  <2>5. x \in S
    BY <1>5, <2>2, <2>4 DEF Reaches
  <2> QED BY <2>5
<1>6. Endless(T, C)
  BY <1>5 DEF Endless
<1> QED
  BY <1>3, <1>6

\* A walk down from a node returns exactly when the node is on no cycle.
LEMMA ReturnsOffCycles ==
    ASSUME NEW T, HasParents(T), NEW n \in T.nodes
    PROVE  Returns(T, {n}) <=> ~ OnCycle(T, n)
<1>1. ASSUME ~ Returns(T, {n}) PROVE OnCycle(T, n)
  <2>1. PICK C \in SUBSET T.nodes : C \cap {n} # {} /\ \A m \in C : Children(T, m) \cap C # {}
    BY <1>1 DEF Returns
  <2>2. n \in C /\ Endless(T, C)
    BY <2>1 DEF Endless
  <2> QED BY <2>2, EndlessIsCycle
<1>2. ASSUME OnCycle(T, n) PROVE ~ Returns(T, {n})
  <2>1. PICK C : Endless(T, C) /\ n \in C
    BY <1>2, CycleIsEndless
  <2> QED BY <2>1 DEF Endless, Returns
<1> QED
  BY <1>1, <1>2

-----------------------------------------------------------------------------
(***************************************************************************)
(* Trees and walks.                                                        *)
(***************************************************************************)
\* More hops than there are nodes reach nothing more.
LEMMA WithinStops ==
    ASSUME NEW V, IsFiniteSet(V), NEW R \in SUBSET (V \X V), NEW n \in V,
           NEW k \in Nat, Cardinality(V) =< k
    PROVE  Within(R, n, k) = Within(R, n, Cardinality(V))
<1> DEFINE m == Cardinality(V)
           S == Within(R, n, m)
<1>1. m \in Nat
  BY FS_CardinalityType
<1>2. n \in S
  BY <1>1, WithinHasStart
<1>3. Closed(R, S)
  BY WithinSaturates
<1>4. S \subseteq Within(R, n, k)
  BY <1>1, WithinGrows
<1> HIDE DEF S, m
<1>5. Within(R, n, k) \subseteq S
  BY <1>2, <1>3, WithinIsLeast
<1> QED
  BY <1>4, <1>5 DEF S, m

\* A tree that hides nothing has the subtrees and ancestors that SQL finds.
LEMMA WholeTreeAgrees ==
    ASSUME TablesOK(nodes, edges), TreeNameIsOwn,
           NEW T, T = LoadTree(DB, Listed, BypassPolicy), IsForest(T), NEW n \in T.nodes
    PROVE  /\ SubtreeIDs(T, n) = {n} \cup Subtree(DB, n, Tree, Bound)
           /\ SubtreeIDs(T, n) = SubtreeSet(DB, Listed, n, Bound)
           /\ \A r \in AncestorRows(DB, n, Tree, Bound) : Chain(T, n)[r.depth + 1] = r.id
           /\ Len(Chain(T, n)) = Cardinality(AncestorRows(DB, n, Tree, Bound)) + 1
<1> DEFINE N == T.nodes
           R == T.parent
           Q == Converse(R)
           c == Chain(T, n)
           A == AncestorRows(DB, n, Tree, Bound)
<1>1. N = OfType(Listed) /\ R = Along(DB, Tree)
  BY WholeTree
<1>2. n \in N /\ R \in SUBSET (N \X N) /\ IsFiniteSet(N) /\ N \subseteq NodeId
  BY DEF IsForest, HasParents
<1>3. Bound \in Nat /\ Cardinality(N) =< Bound /\ Cardinality(N) \in Nat
  <2>1. IsFiniteSet(NodeId)
    BY ReadsAssumption DEF ReadsAssumption
  <2> HIDE DEF N
  <2> QED BY <1>2, <2>1, FS_Subset, FS_CardinalityType DEF Bound
<1>4. IsChain(c, T, n)
  BY ChainReachesRoot
<1>5. Len(c) \in Nat /\ Len(c) >= 1 /\ Len(c) =< Cardinality(N)
  BY <1>4, ClimbIsDistinct, SMTT(30) DEF IsChain, Climbs
<1>6. Bound \in Nat \ {0} /\ Len(c) =< Bound
  <2> DEFINE z == Len(c)
             y == Cardinality(N)
  <2>1. z \in Nat /\ z >= 1 /\ z =< y /\ y \in Nat /\ y =< Bound /\ Bound \in Nat
    BY <1>3, <1>5
  <2> HIDE DEF z, y
  <2>2. Bound # 0 /\ z =< Bound
    BY <2>1
  <2> QED BY <1>3, <2>2 DEF z
<1>7. n \in Rows(DB)
  BY <1>1, <1>2 DEF OfType
<1>8. SubtreeIDs(T, n) = Within(Q, n, Cardinality(N))
  BY BelowIsWithin
<1>9. Within(Q, n, Bound) = Within(Q, n, Cardinality(N))
  <2>1. Q \in SUBSET (N \X N)
    BY <1>2, ConverseIs
  <2> HIDE DEF Q, N
  <2> QED BY <1>2, <1>3, <2>1, WithinStops
<1>10. {n} \cup Subtree(DB, n, Tree, Bound) = Within(Q, n, Bound)
  <2>1. Against(DB, Tree) = Q
    BY <1>1, AlongIs
  <2>2. \A b : b \in Subtree(DB, n, Tree, Bound) <=>
                 b \in Within(Against(DB, Tree), n, Bound) /\ (b = n => <<n, n>> \in Along(DB, Tree))
    BY <1>6, <1>7, TraverseFinds
  <2>3. n \in Within(Q, n, Bound)
    <3>1. Q \in SUBSET (N \X N)
      BY <1>2, ConverseIs
    <3> HIDE DEF Q, N
    <3> QED BY <1>2, <1>3, <3>1, WithinHasStart
  <2> HIDE DEF Q
  <2> QED BY <2>1, <2>2, <2>3
<1>11. SubtreeSet(DB, Listed, n, Bound) = {n} \cup Subtree(DB, n, Tree, Bound)
  BY ParentField DEF SubtreeSet
<1>12. ListsChain(A, c)
  <2>1. A = {[id |-> Last(p), depth |-> Len(p) - 1] : p \in Paths(R, FirstSteps(R, n), Bound - 1)}
    BY <1>1 DEF AncestorRows
  <2> HIDE DEF A, c
  <2>2. ListsChain({[id |-> Last(p), depth |-> Len(p) - 1] :
                      p \in Paths(R, FirstSteps(R, n), Bound - 1)}, c)
    BY <1>4, <1>6, AncestorsOnChain
  <2> QED BY <2>1, <2>2
<1> HIDE DEF A, c
<1>13. \A r \in A : c[r.depth + 1] = r.id
  <2> TAKE r \in A
  <2>1. PICK j \in 2 .. Len(c) : r = RowOfChain(c, j)
    BY <1>12 DEF ListsChain
  <2>2. r.depth = j - 1 /\ r.id = c[j] /\ j - 1 + 1 = j
    BY <2>1 DEF RowOfChain
  <2> QED BY <2>2
<1>14. Len(c) = Cardinality(A) + 1
  <2>1. Cardinality(A) = Len(c) - 1
    BY <1>5, <1>12, RowsOfChain
  <2> DEFINE z == Len(c)
  <2>2. z \in Nat /\ Cardinality(A) = z - 1
    BY <1>5, <2>1
  <2> HIDE DEF z
  <2>3. z = Cardinality(A) + 1
    BY <2>2
  <2> QED BY <2>3 DEF z
<1> QED
  BY <1>8, <1>9, <1>10, <1>11, <1>13, <1>14 DEF A, c

\* Without a cycle a tree is a forest of what it shows, and agrees with SQL when it shows all.
LEMMA ForestsAgree ==
    ASSUME TablesOK(nodes, edges), NEW s \in Lists,
           IsAcyclic(LoadTree(DB, Listed, s).parent, NodeId),
           NEW n \in LoadTree(DB, Listed, s).nodes
    PROVE  LET T == LoadTree(DB, Listed, s)
           IN /\ Cardinality({r \in Roots(T) : n \in SubtreeIDs(T, r)}) = 1
              /\ Last(Chain(T, n)) \in Roots(T)
              /\ s = BypassPolicy /\ (\A f \in Field : f.name = Tree => f.type = Listed) =>
                   /\ SubtreeIDs(T, n) = {n} \cup Subtree(DB, n, Tree, Bound)
                   /\ SubtreeIDs(T, n) = SubtreeSet(DB, Listed, n, Bound)
                   /\ \A r \in AncestorRows(DB, n, Tree, Bound) : Chain(T, n)[r.depth + 1] = r.id
                   /\ Len(Chain(T, n)) = Cardinality(AncestorRows(DB, n, Tree, Bound)) + 1
<1> DEFINE T == LoadTree(DB, Listed, s)
<1>1. IsForest(T)
  BY TreeIsForest
<1>2. n \in T.nodes
  OBVIOUS
<1>3. ASSUME s = BypassPolicy PROVE T = LoadTree(DB, Listed, BypassPolicy)
  BY <1>3
<1> HIDE DEF T
<1>4. /\ Last(Chain(T, n)) \in Roots(T)
      /\ {r \in Roots(T) : n \in SubtreeIDs(T, r)} = {Last(Chain(T, n))}
  BY <1>1, <1>2, OneRoot
<1>5. Cardinality({r \in Roots(T) : n \in SubtreeIDs(T, r)}) = 1
  BY <1>4, FS_Singleton
<1>6. ASSUME s = BypassPolicy, \A f \in Field : f.name = Tree => f.type = Listed
      PROVE  /\ SubtreeIDs(T, n) = {n} \cup Subtree(DB, n, Tree, Bound)
             /\ SubtreeIDs(T, n) = SubtreeSet(DB, Listed, n, Bound)
             /\ \A r \in AncestorRows(DB, n, Tree, Bound) : Chain(T, n)[r.depth + 1] = r.id
             /\ Len(Chain(T, n)) = Cardinality(AncestorRows(DB, n, Tree, Bound)) + 1
  <2>1. TreeNameIsOwn
    BY <1>6 DEF TreeNameIsOwn
  <2>2. T = LoadTree(DB, Listed, BypassPolicy)
    BY <1>3, <1>6
  <2> QED BY <1>1, <1>2, <2>1, <2>2, WholeTreeAgrees
<1>7. T = LoadTree(DB, Listed, s)
  BY DEF T
<1> QED
  BY <1>4, <1>5, <1>6, <1>7

\* What the tables hold makes the walks down a tree end, and the forests agree.
LEMMA TreesHold == TablesOK(nodes, edges) => TreesAgreeWithWalks
<1> SUFFICES ASSUME TablesOK(nodes, edges)
             PROVE  TreesAgreeWithWalks
  OBVIOUS
<1>1. \A s \in Lists : HasParents(LoadTree(DB, Listed, s))
  BY TreeHasParents
<1>2. \A s \in Lists : Returns(LoadTree(DB, Listed, s), Roots(LoadTree(DB, Listed, s)))
  BY <1>1, RootsReturn
<1>3. \A s \in Lists : \A n \in LoadTree(DB, Listed, s).nodes :
        Returns(LoadTree(DB, Listed, s), {n}) <=> ~ OnCycle(LoadTree(DB, Listed, s), n)
  BY <1>1, ReturnsOffCycles
<1> QED
  BY <1>2, <1>3, ForestsAgree DEF TreesAgreeWithWalks

\* Nesting a loaded tree ends, and collecting the subtree of a node ends exactly when the node
\* is not an ancestor of its own.  Without a cycle every node that the tree shows hangs below
\* exactly one root, the last of its ancestors, whatever the scope hides; and when nothing is
\* hidden the tree in memory, the recursive SQL and the id set of a subtree condition agree.
THEOREM TreesAgree == Spec => []TreesAgreeWithWalks
  BY TablesFit, TreesHold, PTL
=============================================================================
