-------------------------- MODULE DetectionProofs --------------------------
(***************************************************************************)
(* Theorems about what is detected, for addresses of any width: the        *)
(* sliding window, its trie and the clustering, for any set of requesters, *)
(* any limits and any arguments; and the arithmetic of the ranges, for any *)
(* number of them in any order.                                            *)
(***************************************************************************)
EXTENDS SlidingWindow, CIDRAlgebra, WellFoundedInduction, FiniteSetTheorems,
        FunctionTheorems, SequenceTheorems, TLAPS

----------------------------------------------------------------------------
(* Induction over the numbers, and functions defined by recursion on them, *)
(* for properties and steps that are values: sets and functions, and not   *)
(* operators.                                                              *)

(* Induction over the numbers, for a property given as a set.              *)
LEMMA Induction ==
  ASSUME NEW T, 0 \in T, \A n \in Nat : n \in T => n + 1 \in T
  PROVE  \A n \in Nat : n \in T
<1> DEFINE R == OpToRel(<, Nat)
           Bad == Nat \ T
<1>1. IsWellFoundedOn(R, Nat) /\ R = {ss \in Nat \X Nat : ss[1] < ss[2]}
  BY NatLessThanWellFounded DEF OpToRel
<1> HIDE DEF R
<1>2. SUFFICES ASSUME Bad # {} PROVE FALSE
  OBVIOUS
<1>3. PICK n \in Bad : \A m \in Bad : <<m, n>> \notin R
  BY <1>1, <1>2, WFMin
<1>4. n \in Nat /\ n # 0
  OBVIOUS
<1>5. n - 1 \in Nat /\ <<n - 1, n>> \in R /\ n = (n - 1) + 1
  BY <1>1, <1>4
<1>6. n - 1 \in T
  BY <1>3, <1>5
<1> QED BY <1>3, <1>5, <1>6

(* step[k] makes the k-th value out of the one before.                     *)
Recursive(f, base, step, n) ==
  f = [k \in 0..n |-> IF k = 0 THEN base ELSE step[k][f[k - 1]]]

LEMMA RecursionStep ==
  ASSUME NEW f, NEW base, NEW step, NEW n \in Nat, Recursive(f, base, step, n)
  PROVE  f[0] = base /\ \A k \in Nat : k + 1 <= n => f[k + 1] = step[k + 1][f[k]]
<1>1. \A k \in 0..n : f[k] = IF k = 0 THEN base ELSE step[k][f[k - 1]]
  BY DEF Recursive
<1>2. f[0] = base
  BY <1>1
<1>3. ASSUME NEW k \in Nat, k + 1 <= n PROVE f[k + 1] = step[k + 1][f[k]]
  <2>1. k + 1 \in 0..n /\ k + 1 # 0 /\ (k + 1) - 1 = k
    BY <1>3
  <2> QED BY <1>1, <2>1
<1> QED BY <1>2, <1>3

LEMMA RecursionExists ==
  ASSUME NEW V, NEW base \in V, NEW n \in Nat, NEW step \in [1..n -> [V -> V]]
  PROVE  \E f \in [0..n -> V] : Recursive(f, base, step, n)
<1> DEFINE T == {k \in Nat : k <= n => \E f \in [0..k -> V] : Recursive(f, base, step, k)}
<1>1. 0 \in T
  <2>1. Recursive([k \in 0..0 |-> base], base, step, 0)
    BY DEF Recursive
  <2> QED BY <2>1
<1>2. ASSUME NEW k \in Nat, k \in T PROVE k + 1 \in T
  <2> SUFFICES ASSUME k + 1 <= n
               PROVE  \E f \in [0..(k + 1) -> V] : Recursive(f, base, step, k + 1)
    OBVIOUS
  <2>1. PICK f \in [0..k -> V] : Recursive(f, base, step, k)
    BY <1>2
  <2> DEFINE g == [i \in 0..(k + 1) |-> IF i = k + 1 THEN step[k + 1][f[k]] ELSE f[i]]
  <2>2. \A i \in 0..k : f[i] \in V /\ f[i] = IF i = 0 THEN base ELSE step[i][f[i - 1]]
    BY <2>1 DEF Recursive
  <2>3. step[k + 1][f[k]] \in V
    BY <2>2
  <2>4. \A i \in 0..(k + 1) : g[i] = IF i = k + 1 THEN step[k + 1][f[k]] ELSE f[i]
    OBVIOUS
  <2>5. g \in [0..(k + 1) -> V]
    BY <2>2, <2>3
  <2>6. g = [i \in 0..(k + 1) |-> g[i]]
    OBVIOUS
  <2> HIDE DEF g
  <2>7. ASSUME NEW i \in 0..(k + 1) PROVE g[i] = IF i = 0 THEN base ELSE step[i][g[i - 1]]
    <3>1. CASE i = k + 1
      <4>1. i - 1 = k /\ k \in 0..(k + 1) /\ k # k + 1 /\ i # 0
        BY <3>1
      <4>2. g[k] = f[k] /\ g[i] = step[i][f[k]]
        BY <2>4, <3>1, <4>1
      <4> QED BY <4>1, <4>2
    <3>2. CASE i # k + 1
      <4>1. i \in 0..k /\ g[i] = f[i]
        BY <2>4, <3>2
      <4>2. ASSUME i # 0 PROVE g[i - 1] = f[i - 1]
        BY <2>4, <4>1, <4>2
      <4> QED BY <2>2, <4>1, <4>2
    <3> QED BY <3>1, <3>2
  <2>8. Recursive(g, base, step, k + 1)
    BY <2>6, <2>7 DEF Recursive
  <2> QED BY <2>5, <2>8
<1> HIDE DEF T
<1>3. n \in T
  BY <1>1, <1>2, Induction
<1> QED BY <1>3 DEF T

(* A set of numbers has a least one.                                       *)
LEMMA Least ==
  ASSUME NEW S \in SUBSET Nat, S # {}
  PROVE  \E n \in S : \A m \in S : n <= m
<1> DEFINE R == OpToRel(<, Nat)
<1>1. IsWellFoundedOn(R, Nat) /\ R = {ss \in Nat \X Nat : ss[1] < ss[2]}
  BY NatLessThanWellFounded DEF OpToRel
<1> HIDE DEF R
<1>2. PICK n \in S : \A m \in S : <<m, n>> \notin R
  BY <1>1, WFMin
<1>3. ASSUME NEW m \in S PROVE n <= m
  <2>1. m \in Nat /\ n \in Nat /\ <<m, n>> \notin R
    BY <1>2
  <2>2. ~ (m < n)
    BY <1>1, <2>1
  <2> QED BY <2>1, <2>2
<1> QED BY <1>3

----------------------------------------------------------------------------
(* Ranges: the root, the nodes, and the addresses, which are leaves.       *)

Ranges == {Root} \cup Node

LEMMA RangeFacts ==
  ASSUME NEW n \in Ranges
  PROVE  /\ n \in Seq(Bit) /\ Len(n) \in 0..W /\ n \in [1..Len(n) -> Bit]
         /\ n \in Node <=> Len(n) # 0
<1>1. CASE n = Root
  <2>1. n \in Seq(Bit) /\ Len(n) = 0 /\ n \in [1..Len(n) -> Bit]
    BY <1>1 DEF Root
  <2>2. n \notin Node
    <3>1. ASSUME NEW d \in 1..W, n \in [1..d -> Bit] PROVE FALSE
      <4>1. DOMAIN n = {} /\ 1 \in 1..d
        BY <1>1, <3>1, WAssumption DEF Root
      <4> QED BY <3>1, <4>1
    <3> QED BY <3>1 DEF Node
  <2> QED BY <2>1, <2>2, WAssumption
<1>2. CASE n \in Node
  <2>1. PICK d \in 1..W : n \in [1..d -> Bit]
    BY <1>2 DEF Node
  <2>2. n \in Seq(Bit) /\ Len(n) = d
    BY <2>1, WAssumption
  <2> QED BY <1>2, <2>1, <2>2, WAssumption
<1> QED BY <1>1, <1>2 DEF Ranges

LEMMA BitsAreFunctions ==
  ASSUME NEW s \in Seq(Bit)
  PROVE  s \in [1..Len(s) -> Bit]
OBVIOUS

LEMMA IsRange ==
  ASSUME NEW d \in 1..W, NEW n \in [1..d -> Bit]
  PROVE  n \in Node /\ n \in Ranges /\ Len(n) = d /\ n \in Seq(Bit)
<1>1. n \in Node
  BY DEF Node
<1> QED BY <1>1, WAssumption DEF Ranges

LEMMA AddressFacts ==
  ASSUME NEW a \in Address
  PROVE  a \in Node /\ a \in Ranges /\ Len(a) = W /\ a \in Seq(Bit)
BY IsRange, WAssumption DEF Address

(* The first bits of a range.                                              *)
LEMMA PrefixFacts ==
  ASSUME NEW n \in Ranges, NEW d \in 1..Len(n)
  PROVE  /\ SubSeq(n, 1, d) \in Node /\ Len(SubSeq(n, 1, d)) = d
         /\ \A i \in 1..d : SubSeq(n, 1, d)[i] = n[i]
<1>1. n \in Seq(Bit) /\ Len(n) \in 0..W /\ n \in [1..Len(n) -> Bit]
  BY RangeFacts
<1>2. d \in 1..W
  BY <1>1, WAssumption
<1> DEFINE p == SubSeq(n, 1, d)
<1>3. p \in Seq(Bit) /\ Len(p) = d /\ \A i \in 1..d : p[i] = n[i]
  BY <1>1
<1> HIDE DEF p
<1>4. p \in [1..d -> Bit]
  BY <1>3, BitsAreFunctions
<1>5. p \in Node /\ Len(p) = d
  BY <1>2, <1>4, IsRange
<1> QED BY <1>3, <1>5 DEF p

LEMMA RangesEqual ==
  ASSUME NEW m \in Ranges, NEW n \in Ranges, Len(m) = Len(n),
         \A i \in 1..Len(n) : m[i] = n[i]
  PROVE  m = n
<1>1. m \in [1..Len(n) -> Bit] /\ n \in [1..Len(n) -> Bit]
  BY RangeFacts
<1> QED BY <1>1

LEMMA WithinIff ==
  ASSUME NEW n \in Ranges, NEW r \in Ranges
  PROVE  Within(n, r) <=> Len(r) <= Len(n) /\ \A i \in 1..Len(r) : n[i] = r[i]
<1>1. Len(n) \in 0..W /\ Len(r) \in 0..W /\ n \in Seq(Bit) /\ r \in Seq(Bit)
  BY RangeFacts
<1>2. CASE Len(r) = 0
  <2>1. r = <<>>
    BY <1>1, <1>2
  <2>2. SubSeq(n, 1, 0) = <<>>
    BY <1>1
  <2> QED BY <1>1, <2>1, <2>2 DEF Within
<1>3. CASE Len(r) # 0 /\ Len(r) <= Len(n)
  <2>1. Len(r) \in 1..Len(n)
    BY <1>1, <1>3
  <2> DEFINE p == SubSeq(n, 1, Len(r))
  <2>2. p \in Ranges /\ Len(p) = Len(r) /\ \A i \in 1..Len(r) : p[i] = n[i]
    BY <2>1, PrefixFacts DEF Ranges
  <2>3. Within(n, r) <=> p = r
    BY <1>3 DEF Within
  <2> HIDE DEF p
  <2> QED BY <1>3, <2>2, <2>3, RangesEqual
<1> QED BY <1>1, <1>2, <1>3 DEF Within

LEMMA WithinOrder ==
  /\ \A n \in Ranges : Within(n, n) /\ Within(n, Root)
  /\ \A n, r \in Ranges : Within(n, r) => Len(r) <= Len(n) /\ (Len(r) = Len(n) => n = r)
  /\ \A n, r, s \in Ranges : Within(n, r) /\ Within(r, s) => Within(n, s)
  /\ \A n, r, s \in Ranges :
       Within(n, r) /\ Within(n, s) /\ Len(s) <= Len(r) => Within(r, s)
<1>0. \A n \in Ranges : Len(n) \in Nat
  BY RangeFacts
<1>1. Root \in Ranges /\ Len(Root) = 0
  BY DEF Ranges, Root
<1>2. \A n \in Ranges : Within(n, n) /\ Within(n, Root)
  BY <1>0, <1>1, WithinIff
<1>3. ASSUME NEW n \in Ranges, NEW r \in Ranges, Within(n, r)
      PROVE  Len(r) <= Len(n) /\ (Len(r) = Len(n) => n = r)
  BY <1>3, WithinIff, RangesEqual
<1>4. ASSUME NEW n \in Ranges, NEW r \in Ranges, NEW s \in Ranges, Within(n, r), Within(r, s)
      PROVE  Within(n, s)
  <2>1. /\ Len(s) <= Len(r) /\ Len(r) <= Len(n)
        /\ \A i \in 1..Len(r) : n[i] = r[i]
        /\ \A i \in 1..Len(s) : r[i] = s[i]
    BY <1>4, WithinIff
  <2>2. \A i \in 1..Len(s) : i \in 1..Len(r)
    BY <1>0, <2>1
  <2> QED BY <1>0, <2>1, <2>2, WithinIff
<1>5. ASSUME NEW n \in Ranges, NEW r \in Ranges, NEW s \in Ranges, Within(n, r), Within(n, s),
             Len(s) <= Len(r)
      PROVE  Within(r, s)
  <2>1. /\ \A i \in 1..Len(r) : n[i] = r[i]
        /\ \A i \in 1..Len(s) : n[i] = s[i]
    BY <1>5, WithinIff
  <2>2. \A i \in 1..Len(s) : i \in 1..Len(r)
    BY <1>0, <1>5
  <2> QED BY <1>0, <1>5, <2>1, <2>2, WithinIff
<1> QED BY <1>2, <1>3, <1>4, <1>5

(* The two halves of a range.                                              *)
LEMMA ChildFacts ==
  ASSUME NEW n \in Ranges, NEW b \in Bit, Len(n) < W
  PROVE  /\ Append(n, b) \in Node /\ Append(n, b) \in Ranges
         /\ Len(Append(n, b)) = Len(n) + 1 /\ Append(n, b)[Len(n) + 1] = b
         /\ Within(Append(n, b), n)
<1>1. n \in Seq(Bit) /\ Len(n) \in 0..W /\ n \in [1..Len(n) -> Bit]
  BY RangeFacts
<1> DEFINE c == Append(n, b)
           d == Len(n) + 1
<1>2. d \in 1..W
  BY <1>1, WAssumption
<1>3. /\ c \in Seq(Bit) /\ Len(c) = d /\ c[d] = b /\ \A i \in 1..Len(n) : c[i] = n[i]
  BY <1>1
<1>8. c \in Seq(Bit) /\ Len(c) = d
  BY <1>3
<1> HIDE DEF c
<1>7. c \in [1..d -> Bit]
  BY <1>8, BitsAreFunctions
<1>4. c \in Node /\ c \in Ranges
  BY <1>2, <1>7, IsRange
<1>5. Len(n) <= Len(c)
  BY <1>1, <1>3
<1>6. Within(c, n)
  BY <1>3, <1>4, <1>5, WithinIff
<1> QED BY <1>3, <1>4, <1>6 DEF c

LEMMA HalfOf ==
  ASSUME NEW n \in Ranges, NEW m \in Ranges, Within(m, n), Len(n) < Len(m)
  PROVE  /\ m[Len(n) + 1] \in Bit /\ Len(n) < W
         /\ Within(m, Append(n, m[Len(n) + 1]))
         /\ \A b \in Bit : Within(m, Append(n, b)) => b = m[Len(n) + 1]
<1>1. /\ n \in Seq(Bit) /\ Len(n) \in 0..W /\ m \in Seq(Bit) /\ Len(m) \in 0..W
      /\ m \in [1..Len(m) -> Bit]
  BY RangeFacts
<1> DEFINE d == Len(n) + 1
<1>2. d \in 1..Len(m) /\ Len(n) < W /\ d \in 1..d
  BY <1>1, WAssumption
<1>3. m[d] \in Bit
  BY <1>1, <1>2
<1>4. ASSUME NEW b \in Bit
      PROVE  /\ Append(n, b) \in Ranges /\ Len(Append(n, b)) = d /\ Append(n, b)[d] = b
             /\ \A i \in 1..Len(n) : Append(n, b)[i] = n[i]
  BY <1>1, <1>2, ChildFacts
<1>5. \A i \in 1..Len(n) : m[i] = n[i]
  BY WithinIff
<1>6. \A i \in 1..d : i # d => i \in 1..Len(n)
  BY <1>1
<1>7. d <= Len(m)
  BY <1>2
<1> HIDE DEF d
<1>8. Within(m, Append(n, m[d]))
  <2> DEFINE c == Append(n, m[d])
  <2>1. c \in Ranges /\ Len(c) = d /\ c[d] = m[d] /\ \A i \in 1..Len(n) : c[i] = n[i]
    BY <1>3, <1>4
  <2> HIDE DEF c
  <2>2. \A i \in 1..d : m[i] = c[i]
    BY <1>5, <1>6, <2>1
  <2>3. Within(m, c)
    BY <1>7, <2>1, <2>2, WithinIff
  <2> QED BY <2>3 DEF c
<1>9. ASSUME NEW b \in Bit, Within(m, Append(n, b)) PROVE b = m[d]
  <2> DEFINE c == Append(n, b)
  <2>1. c \in Ranges /\ Len(c) = d /\ c[d] = b
    BY <1>4
  <2>2. Within(m, c)
    BY <1>9
  <2> HIDE DEF c
  <2>3. m[d] = c[d]
    BY <1>2, <2>1, <2>2, WithinIff
  <2> QED BY <2>1, <2>3
<1> QED BY <1>2, <1>3, <1>8, <1>9 DEF d

(* The path of an address is the nodes that it is within.                  *)
LEMMA PathIff ==
  ASSUME NEW a \in Address
  PROVE  /\ Path(a) = {n \in Node : Within(a, n)}
         /\ \A n \in Path(a) : n \in Ranges
<1>1. a \in Ranges /\ Len(a) = W
  BY AddressFacts
<1>2. ASSUME NEW d \in 1..W PROVE SubSeq(a, 1, d) \in Node /\ Within(a, SubSeq(a, 1, d))
  <2>1. SubSeq(a, 1, d) \in Node /\ Len(SubSeq(a, 1, d)) = d
    BY <1>1, PrefixFacts
  <2> QED BY <1>1, <2>1 DEF Within
<1>3. ASSUME NEW n \in Node, Within(a, n) PROVE n \in Path(a)
  <2>1. n \in Ranges /\ Len(n) \in 1..W
    BY RangeFacts, WAssumption DEF Ranges
  <2> QED BY <1>3, <2>1 DEF Within, Path
<1>4. Path(a) = {n \in Node : Within(a, n)}
  BY <1>2, <1>3 DEF Path
<1> QED BY <1>4 DEF Ranges

----------------------------------------------------------------------------
(* The trie that counts the requests L, of which i comes from who[i].      *)

Sources(L, who) == IsFiniteSet(L) /\ \A i \in L : who[i] \in Address
Load(n, L, who) == {i \in L : Within(who[i], n)}
Tally(L, who) ==
  [n \in {m \in Node : Load(m, L, who) # {}} |-> Cardinality(Load(n, L, who))]

LEMMA LoadFacts ==
  ASSUME NEW L, NEW who, Sources(L, who), NEW n
  PROVE  /\ IsFiniteSet(Load(n, L, who)) /\ Cardinality(Load(n, L, who)) \in Nat
         /\ Cardinality(Load(n, L, who)) = 0 <=> Load(n, L, who) = {}
<1>1. Load(n, L, who) \in SUBSET L /\ IsFiniteSet(L)
  BY DEF Load, Sources
<1>2. IsFiniteSet(Load(n, L, who))
  BY <1>1, FS_Subset
<1> QED BY <1>2, FS_CardinalityType, FS_EmptySet

(* The load of a range is part of the load of every range around it.       *)
LEMMA LoadWithin ==
  ASSUME NEW L, NEW who, Sources(L, who), NEW m \in Ranges, NEW n \in Ranges, Within(m, n)
  PROVE  /\ Load(m, L, who) \subseteq Load(n, L, who)
         /\ Cardinality(Load(m, L, who)) <= Cardinality(Load(n, L, who))
<1>1. \A i \in L : Within(who[i], m) => Within(who[i], n)
  BY AddressFacts, WithinOrder DEF Sources
<1>2. Load(m, L, who) \in SUBSET Load(n, L, who)
  BY <1>1 DEF Load
<1>3. IsFiniteSet(Load(n, L, who))
  BY LoadFacts
<1> QED BY <1>2, <1>3, FS_Subset

LEMMA TallyFacts ==
  ASSUME NEW L, NEW who, Sources(L, who)
  PROVE  LET t == Tally(L, who)
         IN  /\ DOMAIN t = {m \in Node : Load(m, L, who) # {}}
             /\ \A n \in DOMAIN t : /\ n \in Node /\ n \in Ranges
                                    /\ t[n] = Cardinality(Load(n, L, who))
                                    /\ t[n] \in Nat \ {0}
             /\ \A m \in DOMAIN t : \A n \in Node : Within(m, n) => n \in DOMAIN t
             /\ \A i \in L : Path(who[i]) \subseteq DOMAIN t
<1> DEFINE t == Tally(L, who)
<1>1. DOMAIN t = {m \in Node : Load(m, L, who) # {}}
  BY DEF Tally
<1>2. \A n \in DOMAIN t : t[n] = Cardinality(Load(n, L, who)) /\ n \in Node /\ n \in Ranges
  BY DEF Tally, Ranges
<1> HIDE DEF t
<1>3. \A n \in DOMAIN t : t[n] \in Nat \ {0}
  BY <1>1, <1>2, LoadFacts
<1>4. \A m \in DOMAIN t : \A n \in Node : Within(m, n) => n \in DOMAIN t
  BY <1>1, <1>2, LoadWithin DEF Ranges
<1>5. \A i \in L : Path(who[i]) \subseteq DOMAIN t
  <2> SUFFICES ASSUME NEW i \in L, NEW n \in Path(who[i]) PROVE n \in DOMAIN t
    OBVIOUS
  <2>1. n \in Node /\ Within(who[i], n)
    BY PathIff DEF Sources
  <2> QED BY <1>1, <2>1 DEF Load
<1> QED BY <1>1, <1>2, <1>3, <1>4, <1>5 DEF t

(* A tally is known by its domain and its values.                          *)
LEMMA IsTally ==
  ASSUME NEW L, NEW who, NEW S, NEW t \in [S -> Nat],
         \A n \in S : n \in Node,
         \A n \in Node : n \in S <=> Load(n, L, who) # {},
         \A n \in S : t[n] = Cardinality(Load(n, L, who))
  PROVE  t = Tally(L, who)
<1>1. S = {m \in Node : Load(m, L, who) # {}}
  OBVIOUS
<1>2. t = [n \in S |-> t[n]]
  OBVIOUS
<1> QED BY <1>1, <1>2 DEF Tally

LEMMA EmptyTally ==
  ASSUME NEW who
  PROVE  Empty = Tally({}, who)
<1>1. \A n : Load(n, {}, who) = {}
  BY DEF Load
<1>2. Empty \in [{} -> Nat]
  BY DEF Empty
<1> QED BY <1>1, <1>2, IsTally

(* One request more.                                                       *)
OneMore(n, L, x, who) ==
  /\ Load(n, L \cup {x}, who)
       = IF Within(who[x], n) THEN Load(n, L, who) \cup {x} ELSE Load(n, L, who)
  /\ Cardinality(Load(n, L \cup {x}, who))
       = Cardinality(Load(n, L, who)) + (IF Within(who[x], n) THEN 1 ELSE 0)

LEMMA LoadMore ==
  ASSUME NEW L, NEW who, NEW x, x \notin L, Sources(L \cup {x}, who)
  PROVE  Sources(L, who) /\ \A n : OneMore(n, L, x, who)
<1> SUFFICES ASSUME NEW n PROVE Sources(L, who) /\ OneMore(n, L, x, who)
  OBVIOUS
<1>1. IsFiniteSet(L)
  <2>1. L \in SUBSET (L \cup {x})
    OBVIOUS
  <2> QED BY <2>1, FS_Subset DEF Sources
<1>2. Sources(L, who)
  BY <1>1 DEF Sources
<1>3. Load(n, L \cup {x}, who)
              = IF Within(who[x], n) THEN Load(n, L, who) \cup {x} ELSE Load(n, L, who)
  BY DEF Load
<1>4. x \notin Load(n, L, who)
  BY DEF Load
<1>5. IsFiniteSet(Load(n, L, who)) /\ Cardinality(Load(n, L, who)) \in Nat
  BY <1>2, LoadFacts
<1> DEFINE A == Load(n, L, who)
<1>6. Cardinality(A \cup {x}) = Cardinality(A) + 1
  <2> HIDE DEF A
  <2> QED BY <1>4, <1>5, FS_AddElement DEF A
<1> QED BY <1>2, <1>3, <1>5, <1>6 DEF OneMore

LEMMA InsertTally ==
  ASSUME NEW L, NEW who, NEW x, x \notin L, Sources(L \cup {x}, who)
  PROVE  Insert(Tally(L, who), who[x]) = Tally(L \cup {x}, who)
<1> DEFINE t == Tally(L, who)
           M == L \cup {x}
           S == DOMAIN t \cup Path(who[x])
<1>1. who[x] \in Address /\ Sources(L, who)
  BY LoadMore DEF Sources
<1>2. /\ DOMAIN t = {m \in Node : Load(m, L, who) # {}}
      /\ \A n \in DOMAIN t : t[n] = Cardinality(Load(n, L, who)) /\ t[n] \in Nat
  BY <1>1, TallyFacts
<1>3. Path(who[x]) = {n \in Node : Within(who[x], n)}
  BY <1>1, PathIff
<1>4. \A n \in S : n \in Node
  BY <1>2, <1>3
<1>5. ASSUME NEW n \in Node
      PROVE  /\ n \in S <=> Load(n, M, who) # {}
             /\ Cardinality(Load(n, M, who))
                  = (IF n \in DOMAIN t THEN t[n] ELSE 0) + (IF n \in Path(who[x]) THEN 1 ELSE 0)
             /\ Cardinality(Load(n, M, who)) \in Nat
  <2>1. /\ Load(n, M, who)
             = IF Within(who[x], n) THEN Load(n, L, who) \cup {x} ELSE Load(n, L, who)
        /\ Cardinality(Load(n, M, who))
             = Cardinality(Load(n, L, who)) + (IF Within(who[x], n) THEN 1 ELSE 0)
    <3>1. OneMore(n, L, x, who)
      BY LoadMore
    <3> QED BY <3>1 DEF OneMore
  <2>2. Cardinality(Load(n, L, who)) = IF n \in DOMAIN t THEN t[n] ELSE 0
    BY <1>1, <1>2, LoadFacts
  <2>3. Within(who[x], n) <=> n \in Path(who[x])
    BY <1>3
  <2>4. Cardinality(Load(n, M, who)) \in Nat
    BY LoadFacts
  <2> HIDE DEF t, M
  <2>5. n \in S <=> Load(n, M, who) # {}
    BY <1>2, <1>3, <2>1
  <2> QED BY <2>1, <2>2, <2>3, <2>4, <2>5
<1> DEFINE u == Insert(t, who[x])
<1>6. /\ DOMAIN u = S
      /\ \A n \in S : u[n] = (IF n \in DOMAIN t THEN t[n] ELSE 0)
                              + (IF n \in Path(who[x]) THEN 1 ELSE 0)
      /\ u = [n \in S |-> u[n]]
  BY DEF Insert
<1> HIDE DEF u, S, t, M
<1>7. \A n \in S : u[n] = Cardinality(Load(n, M, who)) /\ u[n] \in Nat
  BY <1>4, <1>5, <1>6
<1>8. u \in [S -> Nat]
  BY <1>6, <1>7
<1>9. u = Tally(M, who)
  BY <1>4, <1>5, <1>7, <1>8, IsTally
<1> QED BY <1>9 DEF u, t, M

(* A child that is there is within its parent.                             *)
LEMMA ChildrenFacts ==
  ASSUME NEW L, NEW who, Sources(L, who), NEW n \in Ranges,
         NEW c \in Children(Tally(L, who), n)
  PROVE  /\ Len(n) < W /\ Len(c) = Len(n) + 1 /\ Within(c, n)
         /\ c \in Node /\ c \in Ranges /\ c \in DOMAIN Tally(L, who)
<1>1. PICK b \in Bit : c = Append(n, b) /\ c \in DOMAIN Tally(L, who)
  BY DEF Children
<1>2. c \in Node /\ c \in Ranges
  BY <1>1, TallyFacts
<1>3. n \in Seq(Bit) /\ Len(n) \in 0..W /\ Len(c) \in 0..W
  BY <1>2, RangeFacts
<1>4. Len(c) = Len(n) + 1
  BY <1>1, <1>3
<1>5. Len(n) < W
  BY <1>3, <1>4, WAssumption
<1> QED BY <1>1, <1>2, <1>4, <1>5, ChildFacts

(* One request less: exactly the nodes that it alone kept go.              *)
LEMMA DeleteTally ==
  ASSUME NEW L, NEW who, NEW x, x \notin L, Sources(L \cup {x}, who)
  PROVE  Delete(Tally(L \cup {x}, who), who[x]) = Tally(L, who)
<1> DEFINE a == who[x]
           M == L \cup {x}
           t == Tally(M, who)
           p == Path(a)
           zero == {n \in p : t[n] = 0}
           down == {n \in p : \A z \in zero : Len(z) < Len(n)}
           less == [n \in DOMAIN t |-> IF n \in down THEN t[n] - 1 ELSE t[n]]
           gone == {n \in p : \A m \in p : Len(n) <= Len(m) =>
                                less[m] = 0 /\ Children(t, m) \subseteq p}
<1>1. a \in Address /\ Sources(L, who) /\ a \in Ranges
  BY LoadMore, AddressFacts DEF Sources
<1>2. p = {n \in Node : Within(a, n)} /\ \A n \in p : n \in Ranges
  BY <1>1, PathIff
<1>3. /\ DOMAIN t = {m \in Node : Load(m, M, who) # {}}
      /\ \A n \in DOMAIN t : /\ n \in Node /\ n \in Ranges /\ t[n] \in Nat \ {0}
                             /\ t[n] = Cardinality(Load(n, M, who))
      /\ p \subseteq DOMAIN t
  BY TallyFacts
<1>4. zero = {}
  BY <1>3
<1>5. down = p
  BY <1>4
<1>6. ASSUME NEW n \in DOMAIN t
      PROVE  /\ less[n] = Cardinality(Load(n, L, who)) /\ less[n] \in Nat
             /\ less[n] = 0 <=> Load(n, L, who) = {}
  <2>1. n \in p <=> Within(a, n)
    BY <1>2, <1>3
  <2>2. OneMore(n, L, x, who)
    BY LoadMore
  <2>3. t[n] = Cardinality(Load(n, L, who)) + (IF Within(a, n) THEN 1 ELSE 0)
    BY <1>3, <2>2 DEF OneMore
  <2>4. /\ Cardinality(Load(n, L, who)) \in Nat
        /\ Cardinality(Load(n, L, who)) = 0 <=> Load(n, L, who) = {}
    BY <1>1, LoadFacts
  <2>5. less[n] = IF n \in p THEN t[n] - 1 ELSE t[n]
    BY <1>5
  <2> HIDE DEF less, t
  <2> QED BY <2>1, <2>3, <2>4, <2>5
<1>7. ASSUME NEW n \in p, less[n] = 0 PROVE n \in gone
  <2> SUFFICES ASSUME NEW m \in p, Len(n) <= Len(m)
               PROVE  less[m] = 0 /\ Children(t, m) \subseteq p
    OBVIOUS
  <2>1. n \in DOMAIN t /\ m \in DOMAIN t /\ n \in Ranges /\ m \in Ranges
    BY <1>2, <1>3
  <2>2. Within(m, n)
    BY <1>1, <1>2, <2>1, WithinOrder
  <2>3. Load(n, L, who) = {}
    BY <1>6, <1>7, <2>1
  <2>4. Load(m, L, who) = {}
    BY <1>1, <2>1, <2>2, <2>3, LoadWithin
  <2>5. ASSUME NEW c \in Children(t, m) PROVE c \in p
    <3>1. c \in Node /\ c \in Ranges /\ Within(c, m) /\ c \in DOMAIN t
      BY <2>1, ChildrenFacts
    <3>2. Load(c, L, who) = {}
      BY <1>1, <2>1, <2>4, <3>1, LoadWithin
    <3>3. Load(c, M, who) # {}
      BY <1>3, <3>1
    <3>4. Within(a, c)
      BY <3>2, <3>3 DEF Load
    <3> QED BY <1>2, <3>1, <3>4
  <2> QED BY <1>6, <2>1, <2>4, <2>5
<1>8. gone = {n \in p : less[n] = 0}
  <2>1. \A n \in gone : n \in p /\ less[n] = 0
    <3> SUFFICES ASSUME NEW n \in gone PROVE n \in p /\ less[n] = 0
      OBVIOUS
    <3>1. n \in p /\ n \in Ranges
      BY <1>2
    <3>2. Len(n) <= Len(n)
      BY <3>1, RangeFacts
    <3> QED BY <3>1, <3>2
  <2> HIDE DEF gone
  <2> QED BY <1>7, <2>1
<1> DEFINE S == DOMAIN t \ gone
           u == [n \in S |-> less[n]]
<1>9. Delete(t, a) = u
  BY <1>3, <1>4 DEF Delete, Restrict
<1>10. \A n \in S : n \in DOMAIN t /\ n \in Node
  BY <1>3
<1>11. ASSUME NEW n \in Node PROVE n \in S <=> Load(n, L, who) # {}
  <2>1. CASE n \in DOMAIN t
    <3>1. n \in S <=> ~ (n \in p /\ less[n] = 0)
      BY <1>8, <2>1
    <3>2. n \notin p => Load(n, M, who) = Load(n, L, who)
      BY <1>2 DEF Load
    <3> QED BY <1>3, <1>6, <2>1, <3>1, <3>2
  <2>2. CASE n \notin DOMAIN t
    <3>1. Load(n, L, who) \subseteq Load(n, M, who)
      BY DEF Load
    <3> QED BY <1>3, <2>2, <3>1
  <2> QED BY <2>1, <2>2
<1>12. \A n \in S : u[n] = Cardinality(Load(n, L, who)) /\ u[n] \in Nat
  BY <1>6, <1>10
<1>13. u \in [S -> Nat]
  BY <1>12
<1> HIDE DEF u, S, t, M, a
<1>14. u = Tally(L, who)
  BY <1>10, <1>11, <1>12, <1>13, IsTally
<1> QED BY <1>9, <1>14 DEF t, M, a

----------------------------------------------------------------------------
(* Sorting: the order of addresses is linear, so the k-th smallest exists. *)

LEMMA SmallerOrder ==
  /\ \A a \in Address : ~ Smaller(a, a)
  /\ \A a, b, c \in Address : Smaller(a, b) /\ Smaller(b, c) => Smaller(a, c)
  /\ \A a, b \in Address : a # b => Smaller(a, b) \/ Smaller(b, a)
<1>1. \A a \in Address : \A i \in 1..W : a[i] \in {0, 1}
  BY DEF Address, Bit
<1>2. \A a \in Address : ~ Smaller(a, a)
  BY <1>1 DEF Smaller
<1>3. ASSUME NEW a \in Address, NEW b \in Address, NEW c \in Address,
             Smaller(a, b), Smaller(b, c)
      PROVE  Smaller(a, c)
  <2>1. PICK i \in 1..W : a[i] < b[i] /\ \A k \in 1..(i - 1) : a[k] = b[k]
    BY <1>3 DEF Smaller
  <2>2. PICK j \in 1..W : b[j] < c[j] /\ \A k \in 1..(j - 1) : b[k] = c[k]
    BY <1>3 DEF Smaller
  <2>3. i \in Nat /\ j \in Nat
    BY WAssumption
  <2>4. CASE i < j
    <3>1. a[i] < c[i] /\ \A k \in 1..(i - 1) : a[k] = c[k]
      BY <2>1, <2>2, <2>3, <2>4
    <3> QED BY <3>1 DEF Smaller
  <2>5. CASE j < i
    <3>1. a[j] < c[j] /\ \A k \in 1..(j - 1) : a[k] = c[k]
      BY <2>1, <2>2, <2>3, <2>5
    <3> QED BY <3>1 DEF Smaller
  <2>6. CASE i = j
    <3>1. a[i] < c[i] /\ \A k \in 1..(i - 1) : a[k] = c[k]
      BY <1>1, <2>1, <2>2, <2>3, <2>6
    <3> QED BY <3>1 DEF Smaller
  <2> QED BY <2>3, <2>4, <2>5, <2>6
<1>4. ASSUME NEW a \in Address, NEW b \in Address, a # b
      PROVE  Smaller(a, b) \/ Smaller(b, a)
  <2> DEFINE D == {i \in 1..W : a[i] # b[i]}
  <2>1. D # {}
    <3>1. a \in Ranges /\ b \in Ranges /\ Len(a) = W /\ Len(b) = W
      BY AddressFacts
    <3>2. ~ \A i \in 1..W : a[i] = b[i]
      BY <1>4, <3>1, RangesEqual
    <3> QED BY <3>2
  <2>2. D \in SUBSET Nat
    BY WAssumption
  <2>3. PICK i \in D : \A j \in D : i <= j
    BY <2>1, <2>2, Least
  <2>4. \A j \in 1..(i - 1) : j \in 1..W /\ j \notin D
    BY <2>3, WAssumption
  <2>5. \A j \in 1..(i - 1) : a[j] = b[j]
    BY <2>4
  <2>6. a[i] < b[i] \/ b[i] < a[i]
    BY <1>1, <2>3
  <2> QED BY <2>5, <2>6 DEF Smaller
<1> QED BY <1>2, <1>3, <1>4

LEMMA NthAddressFacts ==
  ASSUME NEW S \in SUBSET Address, IsFiniteSet(S)
  PROVE  /\ Cardinality(S) \in Nat
         /\ \A k \in 1..Cardinality(S) : NthAddress(S, k) \in S
         /\ \A a \in S : \E k \in 1..Cardinality(S) : NthAddress(S, k) = a
         /\ \A k, l \in 1..Cardinality(S) : NthAddress(S, k) = NthAddress(S, l) => k = l
<1> DEFINE upTo(a) == {b \in S : ~ Smaller(a, b)}
           T == 1..Cardinality(S)
           rank == [a \in S |-> Cardinality(upTo(a))]
<1>1. Cardinality(S) \in Nat
  BY FS_CardinalityType
<1>2. ASSUME NEW a \in S PROVE IsFiniteSet(upTo(a)) /\ Cardinality(upTo(a)) \in T
  <2>1. upTo(a) \in SUBSET S /\ a \in upTo(a)
    BY SmallerOrder
  <2> HIDE DEF upTo
  <2>2. IsFiniteSet(upTo(a)) /\ Cardinality(upTo(a)) <= Cardinality(S)
    BY <2>1, FS_Subset
  <2>3. Cardinality(upTo(a)) \in Nat /\ Cardinality(upTo(a)) # 0
    BY <2>1, <2>2, FS_CardinalityType, FS_EmptySet
  <2> QED BY <1>1, <2>2, <2>3
<1>3. ASSUME NEW a \in S, NEW b \in S, Smaller(a, b)
      PROVE  Cardinality(upTo(a)) # Cardinality(upTo(b))
  <2>1. upTo(a) \in SUBSET upTo(b)
    BY <1>3, SmallerOrder
  <2>2. b \in upTo(b) /\ b \notin upTo(a)
    BY <1>3, SmallerOrder
  <2>3. IsFiniteSet(upTo(b))
    BY <1>2
  <2> DEFINE A == upTo(a)
             B == upTo(b)
  <2>4. A \in SUBSET B /\ A # B /\ IsFiniteSet(B)
    BY <2>1, <2>2, <2>3
  <2> HIDE DEF A, B
  <2>5. Cardinality(A) # Cardinality(B)
    BY <2>4, FS_Subset
  <2> QED BY <2>5 DEF A, B
<1>4. \A a, b \in S : rank[a] = rank[b] => a = b
  BY <1>3, SmallerOrder
<1>5. rank \in [S -> T]
  BY <1>2
<1>6. rank \in Injection(S, T)
  BY <1>4, <1>5, Fun_IsInj
<1>7. IsFiniteSet(T) /\ Cardinality(T) = Cardinality(S)
  BY <1>1, FS_Interval
<1>8. rank \in Surjection(S, T)
  BY <1>6, <1>7, FS_Injection
<1>9. \A k \in T : \E a \in S : rank[a] = k
  BY <1>8 DEF Surjection
<1>10. \A k : NthAddress(S, k) = CHOOSE a \in S : rank[a] = k
  BY DEF NthAddress
<1> HIDE DEF rank
<1>11. \A k \in T : NthAddress(S, k) \in S /\ rank[NthAddress(S, k)] = k
  BY <1>9, <1>10
<1>12. \A a \in S : rank[a] \in T /\ NthAddress(S, rank[a]) = a
  BY <1>4, <1>5, <1>11
<1> QED BY <1>1, <1>11, <1>12

----------------------------------------------------------------------------
(* BuildSorted counts what it is given.                                    *)

(* A set of depths without gaps is counted by its deepest.                 *)
LEMMA DepthsCounted ==
  ASSUME NEW D \in SUBSET (1..W), \A i \in D : \A j \in 1..W : j <= i => j \in D
  PROVE  /\ Cardinality(D) \in Nat
         /\ \A k \in 1..W : k \in D <=> k <= Cardinality(D)
<1>1. IsFiniteSet(D) /\ Cardinality(D) \in Nat
  <2>1. IsFiniteSet(1..W)
    BY FS_Interval, WAssumption
  <2>2. IsFiniteSet(D)
    BY <2>1, FS_Subset
  <2> QED BY <2>2, FS_CardinalityType
<1>2. ASSUME NEW k \in 1..W, k \in D PROVE k <= Cardinality(D)
  <2>1. (1..k) \in SUBSET D
    BY <1>2, WAssumption
  <2>2. Cardinality(1..k) <= Cardinality(D)
    BY <1>1, <2>1, FS_Subset
  <2>3. Cardinality(1..k) = k
    BY FS_Interval, WAssumption
  <2> QED BY <2>2, <2>3
<1>3. ASSUME NEW k \in 1..W, k \notin D PROVE ~ (k <= Cardinality(D))
  <2>1. D \in SUBSET (1..(k - 1))
    BY <1>3, WAssumption
  <2>2. k - 1 \in Int /\ k - 1 >= 0
    BY WAssumption
  <2>3. IsFiniteSet(1..(k - 1)) /\ Cardinality(1..(k - 1)) = k - 1
    BY <2>2, FS_Interval
  <2>4. Cardinality(D) <= Cardinality(1..(k - 1))
    BY <2>1, <2>3, FS_Subset
  <2> QED BY <1>1, <2>2, <2>3, <2>4
<1> QED BY <1>1, <1>2, <1>3

(* Two addresses share the nodes no deeper than Shared, and no others.     *)
LEMMA SharedFacts ==
  ASSUME NEW a \in Address, NEW b \in Address
  PROVE  /\ Shared(a, b) \in Nat
         /\ \A n \in Path(b) : n \in Path(a) <=> Len(n) <= Shared(a, b)
         /\ \A n \in Path(a) : n \in Path(b) <=> Len(n) <= Shared(a, b)
<1> DEFINE D == {d \in 1..W : SubSeq(a, 1, d) = SubSeq(b, 1, d)}
<1>1. a \in Ranges /\ b \in Ranges /\ Len(a) = W /\ Len(b) = W
  BY AddressFacts
<1>2. ASSUME NEW d \in 1..W
      PROVE  /\ SubSeq(a, 1, d) \in Ranges /\ Len(SubSeq(a, 1, d)) = d
             /\ SubSeq(b, 1, d) \in Ranges /\ Len(SubSeq(b, 1, d)) = d
             /\ \A i \in 1..d : SubSeq(a, 1, d)[i] = a[i] /\ SubSeq(b, 1, d)[i] = b[i]
  BY <1>1, PrefixFacts DEF Ranges
<1>3. ASSUME NEW i \in D, NEW j \in 1..W, j <= i PROVE j \in D
  <2>1. \A k \in 1..i : a[k] = b[k]
    BY <1>2
  <2>2. \A k \in 1..j : k \in 1..i
    BY <1>3, WAssumption
  <2>3. \A k \in 1..j : a[k] = b[k]
    BY <2>1, <2>2
  <2> DEFINE p == SubSeq(a, 1, j)
             q == SubSeq(b, 1, j)
  <2>4. p \in Ranges /\ q \in Ranges /\ Len(p) = j /\ Len(q) = j /\ \A k \in 1..j : p[k] = q[k]
    BY <1>2, <2>3
  <2> HIDE DEF p, q
  <2>5. p = q
    BY <2>4, RangesEqual
  <2> QED BY <2>5 DEF p, q
<1>4. Shared(a, b) = Cardinality(D)
  BY DEF Shared
<1> DEFINE c == Shared(a, b)
<1>5. c \in Nat /\ \A k \in 1..W : k \in D <=> k <= c
  <2> HIDE DEF D
  <2>1. D \in SUBSET (1..W)
    BY DEF D
  <2> QED BY <1>3, <1>4, <2>1, DepthsCounted
<1> HIDE DEF c
<1>6. ASSUME NEW d \in 1..W
      PROVE  /\ SubSeq(b, 1, d) \in Path(a) <=> d \in D
             /\ SubSeq(a, 1, d) \in Path(b) <=> d \in D
  <2>1. ASSUME NEW e \in 1..W, SubSeq(b, 1, d) = SubSeq(a, 1, e) PROVE d \in D
    <3>1. e = d
      BY <1>2, <2>1
    <3> QED BY <2>1, <3>1
  <2>2. ASSUME NEW e \in 1..W, SubSeq(a, 1, d) = SubSeq(b, 1, e) PROVE d \in D
    <3>1. e = d
      BY <1>2, <2>2
    <3> QED BY <2>2, <3>1
  <2> QED BY <2>1, <2>2 DEF Path
<1>7. \A n \in Path(b) : n \in Path(a) <=> Len(n) <= c
  <2> SUFFICES ASSUME NEW d \in 1..W
               PROVE  SubSeq(b, 1, d) \in Path(a) <=> Len(SubSeq(b, 1, d)) <= c
    BY DEF Path
  <2> QED BY <1>2, <1>5, <1>6
<1>8. \A n \in Path(a) : n \in Path(b) <=> Len(n) <= c
  <2> SUFFICES ASSUME NEW d \in 1..W
               PROVE  SubSeq(a, 1, d) \in Path(b) <=> Len(SubSeq(a, 1, d)) <= c
    BY DEF Path
  <2> QED BY <1>2, <1>5, <1>6
<1> QED BY <1>5, <1>7, <1>8 DEF c

(* The states of the build: the open nodes are there.                      *)
Built ==
  {s \in [t : UNION {[S -> Nat] : S \in SUBSET Node}, open : Address, pending : [1..W -> Nat]] :
     Path(s.open) \subseteq DOMAIN s.t}
Run == [ip : Address, m : Nat]

LEMMA BuiltFacts ==
  ASSUME NEW s \in Built
  PROVE  /\ DOMAIN s.t \subseteq Node /\ \A n \in DOMAIN s.t : s.t[n] \in Nat
         /\ s.open \in Address /\ Path(s.open) \subseteq DOMAIN s.t
         /\ \A k \in 1..W : s.pending[k] \in Nat
  BY DEF Built

LEMMA PathDepth ==
  ASSUME NEW a \in Address, NEW n \in Path(a)
  PROVE  n \in Node /\ Len(n) \in 1..W
<1>1. n \in Node /\ n \in Ranges
  BY PathIff
<1> QED BY <1>1, RangeFacts, WAssumption

(* u counts what t counts, and m more on the path of a.                    *)
Adds(u, t, a, m) ==
  /\ DOMAIN u = DOMAIN t \cup Path(a)
  /\ u = [n \in DOMAIN u |-> (IF n \in DOMAIN t THEN t[n] ELSE 0)
                              + (IF n \in Path(a) THEN m ELSE 0)]

LEMMA FirstRunFacts ==
  ASSUME NEW run \in Run
  PROVE  FirstRun(run) \in Built /\ Adds(Flush(FirstRun(run), 0), Empty, run.ip, run.m)
<1>1. run.ip \in Address /\ run.m \in Nat
  BY DEF Run
<1>2. \A n \in Path(run.ip) : n \in Node /\ Len(n) \in 1..W
  BY <1>1, PathDepth
<1> DEFINE s == FirstRun(run)
<1>3. s.t = [n \in Path(run.ip) |-> 0] /\ s.open = run.ip /\ s.pending = [k \in 1..W |-> run.m]
      /\ s = [t |-> s.t, open |-> s.open, pending |-> s.pending]
  BY DEF FirstRun
<1> HIDE DEF s
<1>4. s \in Built
  <2>1. s.t \in [Path(run.ip) -> Nat] /\ Path(run.ip) \in SUBSET Node
    BY <1>2, <1>3
  <2>2. s.pending \in [1..W -> Nat]
    BY <1>1, <1>3
  <2>3. s.t \in UNION {[S -> Nat] : S \in SUBSET Node}
    BY <2>1
  <2>4. DOMAIN s.t = Path(run.ip)
    BY <2>1
  <2> QED BY <1>1, <1>3, <2>2, <2>3, <2>4 DEF Built
<1>5. ASSUME NEW n \in Path(run.ip)
      PROVE  s.t[n] + (IF n \in Path(s.open) /\ Len(n) > 0 THEN s.pending[Len(n)] ELSE 0) = run.m
  <2>1. s.t[n] = 0 /\ s.pending[Len(n)] = run.m /\ Len(n) > 0
    BY <1>2, <1>3
  <2> QED BY <1>1, <1>3, <2>1
<1>6. Flush(s, 0) = [n \in Path(run.ip) |-> run.m]
  BY <1>3, <1>5 DEF Flush
<1>7. ASSUME NEW n \in Path(run.ip)
      PROVE  (IF n \in {} THEN Empty[n] ELSE 0) + (IF n \in Path(run.ip) THEN run.m ELSE 0) = run.m
  BY <1>1
<1>8. DOMAIN Empty = {} /\ {} \cup Path(run.ip) = Path(run.ip)
  BY DEF Empty
<1>9. Adds(Flush(s, 0), Empty, run.ip, run.m)
  BY <1>6, <1>7, <1>8 DEF Adds
<1> QED BY <1>4, <1>9 DEF s

LEMMA NextRunFacts ==
  ASSUME NEW s \in Built, NEW run \in Run
  PROVE  NextRun(s, run) \in Built
         /\ Adds(Flush(NextRun(s, run), 0), Flush(s, 0), run.ip, run.m)
<1> DEFINE d == Shared(s.open, run.ip)
           S == DOMAIN s.t \cup Path(run.ip)
           u == NextRun(s, run)
<1>1. run.ip \in Address /\ run.m \in Nat /\ s.open \in Address
  BY BuiltFacts DEF Run
<1>2. /\ \A n \in Path(run.ip) : n \in Node /\ Len(n) \in 1..W
      /\ \A n \in Path(s.open) : n \in Node /\ Len(n) \in 1..W
  BY <1>1, PathDepth
<1>3. /\ DOMAIN s.t \subseteq Node /\ \A n \in DOMAIN s.t : s.t[n] \in Nat
      /\ Path(s.open) \subseteq DOMAIN s.t
      /\ \A k \in 1..W : s.pending[k] \in Nat
  BY BuiltFacts
<1>4. /\ d \in Nat
      /\ \A n \in Path(run.ip) : n \in Path(s.open) <=> Len(n) <= d
      /\ \A n \in Path(s.open) : n \in Path(run.ip) <=> Len(n) <= d
  BY <1>1, SharedFacts
<1>5. /\ Flush(s, d) = [n \in DOMAIN s.t |->
           s.t[n] + (IF n \in Path(s.open) /\ Len(n) > d THEN s.pending[Len(n)] ELSE 0)]
      /\ Flush(s, 0) = [n \in DOMAIN s.t |->
           s.t[n] + (IF n \in Path(s.open) /\ Len(n) > 0 THEN s.pending[Len(n)] ELSE 0)]
  BY DEF Flush
<1>6. /\ u.t = [n \in S |-> IF n \in DOMAIN s.t THEN Flush(s, d)[n] ELSE 0]
      /\ u.open = run.ip
      /\ u.pending = [k \in 1..W |-> run.m + (IF k <= d THEN s.pending[k] ELSE 0)]
      /\ u = [t |-> u.t, open |-> u.open, pending |-> u.pending]
  BY <1>5 DEF NextRun
<1> HIDE DEF u, d
<1>7. \A n \in DOMAIN s.t : Flush(s, d)[n] \in Nat
  BY <1>2, <1>3, <1>5
<1>8. u \in Built
  <2>1. u.t \in [S -> Nat]
    BY <1>6, <1>7
  <2>2. S \in SUBSET Node
    BY <1>2, <1>3
  <2> HIDE DEF S
  <2>3. u.t \in UNION {[R -> Nat] : R \in SUBSET Node} /\ DOMAIN u.t = S
    BY <2>1, <2>2
  <2>4. u.pending \in [1..W -> Nat]
    BY <1>1, <1>3, <1>6
  <2>5. Path(run.ip) \subseteq S
    BY DEF S
  <2> QED BY <1>1, <1>6, <2>3, <2>4, <2>5 DEF Built
<1>9. ASSUME NEW n \in S
      PROVE  u.t[n] + (IF n \in Path(u.open) /\ Len(n) > 0 THEN u.pending[Len(n)] ELSE 0)
               = (IF n \in DOMAIN s.t THEN Flush(s, 0)[n] ELSE 0)
                  + (IF n \in Path(run.ip) THEN run.m ELSE 0)
  <2>1. CASE n \in DOMAIN s.t /\ n \in Path(run.ip) /\ n \in Path(s.open)
    <3>1. Len(n) \in 1..W /\ Len(n) <= d
      BY <1>2, <1>4, <2>1
    <3>2. u.t[n] = s.t[n] /\ u.pending[Len(n)] = run.m + s.pending[Len(n)]
          /\ Flush(s, 0)[n] = s.t[n] + s.pending[Len(n)]
      BY <1>1, <1>3, <1>4, <1>5, <1>6, <2>1, <3>1
    <3> QED BY <1>1, <1>3, <1>6, <2>1, <3>1, <3>2
  <2>2. CASE n \in DOMAIN s.t /\ n \in Path(run.ip) /\ n \notin Path(s.open)
    <3>1. Len(n) \in 1..W /\ ~ (Len(n) <= d)
      BY <1>2, <1>4, <2>2
    <3>2. u.t[n] = s.t[n] /\ u.pending[Len(n)] = run.m /\ Flush(s, 0)[n] = s.t[n]
      BY <1>1, <1>3, <1>4, <1>5, <1>6, <2>2, <3>1
    <3> QED BY <1>1, <1>3, <1>6, <2>2, <3>1, <3>2
  <2>3. CASE n \in DOMAIN s.t /\ n \notin Path(run.ip) /\ n \in Path(s.open)
    <3>1. Len(n) \in 1..W /\ ~ (Len(n) <= d)
      BY <1>2, <1>4, <2>3
    <3>2. u.t[n] = s.t[n] + s.pending[Len(n)] /\ Flush(s, 0)[n] = s.t[n] + s.pending[Len(n)]
      BY <1>1, <1>3, <1>4, <1>5, <1>6, <2>3, <3>1
    <3> QED BY <1>1, <1>3, <1>6, <2>3, <3>1, <3>2
  <2>4. CASE n \in DOMAIN s.t /\ n \notin Path(run.ip) /\ n \notin Path(s.open)
    <3>1. u.t[n] = s.t[n] /\ Flush(s, 0)[n] = s.t[n]
      BY <1>3, <1>5, <1>6, <2>4
    <3> QED BY <1>1, <1>3, <1>6, <2>4, <3>1
  <2>5. CASE n \notin DOMAIN s.t
    <3>1. n \in Path(run.ip) /\ n \notin Path(s.open)
      BY <1>3, <2>5
    <3>2. Len(n) \in 1..W /\ ~ (Len(n) <= d)
      BY <1>2, <1>4, <3>1
    <3>3. u.t[n] = 0 /\ u.pending[Len(n)] = run.m
      BY <1>1, <1>4, <1>6, <2>5, <3>2
    <3> QED BY <1>1, <1>6, <2>5, <3>1, <3>2, <3>3
  <2> QED BY <2>1, <2>2, <2>3, <2>4, <2>5
<1>10. /\ DOMAIN u.t = S /\ DOMAIN Flush(s, 0) = DOMAIN s.t
  BY <1>5, <1>6
<1>11. Flush(u, 0) = [n \in S |-> (IF n \in DOMAIN s.t THEN Flush(s, 0)[n] ELSE 0)
                                    + (IF n \in Path(run.ip) THEN run.m ELSE 0)]
  BY <1>9, <1>10 DEF Flush
<1>12. Adds(Flush(u, 0), Flush(s, 0), run.ip, run.m)
  BY <1>10, <1>11 DEF Adds
<1> QED BY <1>8, <1>12 DEF u

(* The requests of one address, added at once.                             *)
LEMMA AddRunTally ==
  ASSUME NEW L, NEW R, NEW who, Sources(L \cup R, who), L \cap R = {}, R # {},
         NEW a \in Address, \A j \in R : who[j] = a,
         NEW u, Adds(u, Tally(L, who), a, Cardinality(R))
  PROVE  u = Tally(L \cup R, who)
<1> DEFINE t == Tally(L, who)
           M == L \cup R
           S == DOMAIN t \cup Path(a)
<1>1. Sources(L, who) /\ IsFiniteSet(R) /\ Cardinality(R) \in Nat
  <2>1. L \in SUBSET M /\ R \in SUBSET M
    OBVIOUS
  <2>2. IsFiniteSet(L) /\ IsFiniteSet(R)
    BY <2>1, FS_Subset DEF Sources
  <2> QED BY <2>2, FS_CardinalityType DEF Sources
<1>2. /\ DOMAIN t = {m \in Node : Load(m, L, who) # {}}
      /\ \A n \in DOMAIN t : t[n] = Cardinality(Load(n, L, who)) /\ t[n] \in Nat
  BY <1>1, TallyFacts
<1>3. Path(a) = {n \in Node : Within(a, n)}
  BY PathIff
<1>4. \A n \in S : n \in Node
  BY <1>2, <1>3
<1>5. ASSUME NEW n \in Node
      PROVE  /\ n \in S <=> Load(n, M, who) # {}
             /\ Cardinality(Load(n, M, who))
                  = (IF n \in DOMAIN t THEN t[n] ELSE 0)
                     + (IF n \in Path(a) THEN Cardinality(R) ELSE 0)
             /\ Cardinality(Load(n, M, who)) \in Nat
  <2>1. Load(n, M, who) = Load(n, L, who) \cup (IF Within(a, n) THEN R ELSE {})
    BY DEF Load
  <2>2. /\ IsFiniteSet(Load(n, L, who)) /\ Cardinality(Load(n, L, who)) \in Nat
        /\ Cardinality(Load(n, L, who)) = IF n \in DOMAIN t THEN t[n] ELSE 0
    BY <1>1, <1>2, LoadFacts
  <2>3. Load(n, L, who) \cap R = {}
    BY DEF Load
  <2>4. Cardinality(Load(n, L, who) \cup R) = Cardinality(Load(n, L, who)) + Cardinality(R)
    <3> DEFINE A == Load(n, L, who)
    <3>1. IsFiniteSet(A) /\ A \cap R = {} /\ Cardinality(A) \in Nat
      BY <2>2, <2>3
    <3> HIDE DEF A
    <3>2. Cardinality(A \cup R) = Cardinality(A) + Cardinality(R) - Cardinality({})
      BY <1>1, <3>1, FS_Union
    <3>3. Cardinality(A \cup R) = Cardinality(A) + Cardinality(R)
      BY <1>1, <3>1, <3>2, FS_EmptySet
    <3> QED BY <3>3 DEF A
  <2>5. Cardinality(Load(n, M, who)) \in Nat
    BY LoadFacts
  <2>6. Within(a, n) <=> n \in Path(a)
    BY <1>3
  <2>7. n \in DOMAIN t <=> Load(n, L, who) # {}
    BY <1>2
  <2> HIDE DEF t, M
  <2>8. CASE Within(a, n)
    <3>1. Load(n, M, who) = Load(n, L, who) \cup R
      BY <2>1, <2>8
    <3> QED BY <1>1, <2>2, <2>4, <2>5, <2>6, <2>8, <3>1
  <2>9. CASE ~ Within(a, n)
    <3>1. Load(n, M, who) = Load(n, L, who)
      BY <2>1, <2>9
    <3> QED BY <2>2, <2>5, <2>6, <2>7, <2>9, <3>1
  <2> QED BY <2>8, <2>9
<1>6. DOMAIN u = S /\ u = [n \in S |-> (IF n \in DOMAIN t THEN t[n] ELSE 0)
                                         + (IF n \in Path(a) THEN Cardinality(R) ELSE 0)]
  BY DEF Adds
<1> HIDE DEF S, t, M
<1>7. \A n \in S : u[n] = Cardinality(Load(n, M, who)) /\ u[n] \in Nat
  BY <1>4, <1>5, <1>6
<1>8. u \in [S -> Nat]
  BY <1>6, <1>7
<1>9. u = Tally(M, who)
  BY <1>4, <1>5, <1>7, <1>8, IsTally
<1> QED BY <1>9 DEF M

(* after[k] is the state when k runs are taken.                            *)
AfterRuns(after, runs) ==
  after = [k \in DOMAIN runs |-> IF k = 1 THEN FirstRun(runs[1]) ELSE NextRun(after[k - 1], runs[k])]

LEMMA AfterRunsExists ==
  ASSUME NEW n \in Nat \ {0}, NEW runs \in [1..n -> Run]
  PROVE  \E after \in [1..n -> Built] : AfterRuns(after, runs)
<1> DEFINE base == FirstRun(runs[1])
           step == [k \in 1..n |-> [s \in Built |->
                      IF k = 1 THEN base ELSE NextRun(s, runs[k])]]
<1>1. base \in Built
  BY FirstRunFacts
<1>2. step \in [1..n -> [Built -> Built]]
  BY <1>1, NextRunFacts
<1>3. \A k \in 1..n : \A s \in Built : step[k][s] = IF k = 1 THEN base ELSE NextRun(s, runs[k])
  OBVIOUS
<1> HIDE DEF step
<1>4. PICK f \in [0..n -> Built] : Recursive(f, base, step, n)
  BY <1>1, <1>2, RecursionExists
<1>5. f[0] = base /\ \A k \in Nat : k + 1 <= n => f[k + 1] = step[k + 1][f[k]]
  BY <1>4, RecursionStep
<1> DEFINE after == [k \in 1..n |-> f[k]]
<1>6. ASSUME NEW k \in 1..n
      PROVE  after[k] = IF k = 1 THEN FirstRun(runs[1]) ELSE NextRun(after[k - 1], runs[k])
  <2> DEFINE j == k - 1
  <2>1. j \in Nat /\ j + 1 = k /\ j \in 0..n /\ k <= n
    OBVIOUS
  <2>2. f[k] = step[k][f[j]] /\ f[j] \in Built
    BY <1>5, <2>1
  <2>3. f[k] = IF k = 1 THEN base ELSE NextRun(f[j], runs[k])
    BY <1>3, <2>2
  <2>4. k # 1 => j \in 1..n
    BY <2>1
  <2>5. k # 1 => after[j] = f[j]
    BY <2>4
  <2> QED BY <2>3, <2>5
<1>7. after \in [1..n -> Built] /\ DOMAIN runs = 1..n
  OBVIOUS
<1>8. AfterRuns(after, runs)
  BY <1>6, <1>7 DEF AfterRuns
<1> QED BY <1>7, <1>8

LEMMA BuildSortedIs ==
  ASSUME NEW ips, ips # <<>>
  PROVE  BuildSorted(ips)
           = Flush((CHOOSE after : AfterRuns(after, Runs(ips)))[Len(Runs(ips))], 0)
BY DEF BuildSorted, AfterRuns

LEMMA BuildSortedTally ==
  ASSUME NEW ips \in Seq(Address)
  PROVE  BuildSorted(ips) = Tally(DOMAIN ips, ips)
<1> DEFINE A == Range(ips)
           N == Cardinality(A)
           runs == Runs(ips)
           of(a) == {j \in DOMAIN ips : ips[j] = a}
           upTo(k) == {j \in DOMAIN ips : \E i \in 1..k : ips[j] = NthAddress(A, i)}
<1>1. CASE ips = <<>>
  <2>1. DOMAIN ips = {}
    BY <1>1
  <2> QED BY <1>1, <2>1, EmptyTally DEF BuildSorted
<1>2. CASE ips # <<>>
  <2>1. /\ Len(ips) \in Nat \ {0} /\ DOMAIN ips = 1..Len(ips)
        /\ ips \in [1..Len(ips) -> A] /\ A \in SUBSET Address
        /\ \A a \in A : \E j \in 1..Len(ips) : ips[j] = a
    BY <1>2 DEF Range
  <2>2. IsFiniteSet(DOMAIN ips)
    BY <2>1, FS_Interval
  <2>3. IsFiniteSet(A)
    <3>1. ips \in Surjection(DOMAIN ips, A)
      BY <2>1 DEF Surjection
    <3> QED BY <2>2, <3>1, FS_Surjection
  <2>4. /\ N \in Nat /\ \A k \in 1..N : NthAddress(A, k) \in A
        /\ \A a \in A : \E k \in 1..N : NthAddress(A, k) = a
        /\ \A k, l \in 1..N : NthAddress(A, k) = NthAddress(A, l) => k = l
    BY <2>1, <2>3, NthAddressFacts
  <2>5. N # 0
    BY <2>1, <2>3, <2>4
  <2>6. \A a \in A : of(a) # {} /\ IsFiniteSet(of(a)) /\ Cardinality(of(a)) \in Nat
    BY <2>1, <2>2, FS_Subset, FS_CardinalityType
  <2>7. runs = [k \in 1..N |-> [ip |-> NthAddress(A, k), m |-> Cardinality(of(NthAddress(A, k)))]]
    BY DEF Runs
  <2> HIDE DEF A, N, runs, of
  <2>8. runs \in [1..N -> Run] /\ DOMAIN runs = 1..N /\ Len(runs) = N
    BY <2>1, <2>4, <2>6, <2>7 DEF Run
  <2>9. \A k \in 1..N : /\ runs[k].ip = NthAddress(A, k)
                        /\ runs[k].m = Cardinality(of(NthAddress(A, k)))
    BY <2>7
  <2>10. \E after \in [1..N -> Built] : AfterRuns(after, runs)
    BY <2>4, <2>5, <2>8, AfterRunsExists
  <2> DEFINE after == CHOOSE f : AfterRuns(f, runs)
  <2>11. AfterRuns(after, runs)
    BY <2>10
  <2>12. BuildSorted(ips) = Flush(after[N], 0)
    BY <1>2, <2>8, BuildSortedIs DEF runs
  <2> HIDE DEF after
  <2>13. \A k \in 1..N : after[k] = IF k = 1 THEN FirstRun(runs[1])
                                             ELSE NextRun(after[k - 1], runs[k])
    BY <2>8, <2>11 DEF AfterRuns
  <2>14. \A k \in Nat : Sources(upTo(k), ips)
    <3> SUFFICES ASSUME NEW k \in Nat PROVE Sources(upTo(k), ips)
      OBVIOUS
    <3>1. upTo(k) \in SUBSET DOMAIN ips
      OBVIOUS
    <3>2. IsFiniteSet(upTo(k))
      BY <2>2, <3>1, FS_Subset
    <3> QED BY <2>1, <3>1, <3>2 DEF Sources
  <2>15. ASSUME NEW k \in Nat, k + 1 \in 1..N
         PROVE  /\ upTo(k + 1) = upTo(k) \cup of(NthAddress(A, k + 1))
                /\ upTo(k) \cap of(NthAddress(A, k + 1)) = {}
    <3>1. \A i \in 1..(k + 1) : i \in 1..k \/ i = k + 1
      OBVIOUS
    <3>2. \A i \in 1..k : i \in 1..N /\ i # k + 1 /\ i \in 1..(k + 1)
      BY <2>4, <2>15
    <3>3. \A i \in 1..k : NthAddress(A, i) # NthAddress(A, k + 1)
      BY <2>4, <2>15, <3>2
    <3>4. k + 1 \in 1..(k + 1)
      OBVIOUS
    <3>5. upTo(k + 1) = upTo(k) \cup of(NthAddress(A, k + 1))
      BY <3>1, <3>2, <3>4 DEF of
    <3> QED BY <3>3, <3>5 DEF of
  <2> HIDE DEF upTo
  <2>16. ASSUME NEW k \in Nat, k + 1 \in 1..N, NEW u,
                Adds(u, Tally(upTo(k), ips), runs[k + 1].ip, runs[k + 1].m)
         PROVE  u = Tally(upTo(k + 1), ips)
    <3> DEFINE a == NthAddress(A, k + 1)
    <3>1. a \in A /\ a \in Address /\ of(a) # {}
      BY <2>1, <2>4, <2>6, <2>16
    <3>2. upTo(k + 1) = upTo(k) \cup of(a) /\ upTo(k) \cap of(a) = {}
      BY <2>15, <2>16
    <3>3. Sources(upTo(k) \cup of(a), ips)
      <4>1. Sources(upTo(k + 1), ips)
        BY <2>14, <2>16
      <4> QED BY <3>2, <4>1
    <3>4. \A j \in of(a) : ips[j] = a
      BY DEF of
    <3>5. Adds(u, Tally(upTo(k), ips), a, Cardinality(of(a)))
      BY <2>9, <2>16
    <3> HIDE DEF a
    <3>6. u = Tally(upTo(k) \cup of(a), ips)
      BY <3>1, <3>2, <3>3, <3>4, <3>5, AddRunTally
    <3> QED BY <3>2, <3>6
  <2> DEFINE T == {k \in Nat : k + 1 <= N =>
                     /\ after[k + 1] \in Built
                     /\ Flush(after[k + 1], 0) = Tally(upTo(k + 1), ips)}
  <2>17. 0 \in T
    <3>1. 0 + 1 = 1 /\ 1 \in 1..N
      BY <2>4, <2>5
    <3>2. runs[1] \in Run
      BY <2>8, <3>1
    <3>3. after[1] = FirstRun(runs[1])
      BY <2>13, <3>1
    <3>4. upTo(0) = {}
      BY DEF upTo
    <3>5. after[1] \in Built /\ Adds(Flush(after[1], 0), Tally(upTo(0), ips), runs[1].ip, runs[1].m)
      BY <3>2, <3>3, <3>4, FirstRunFacts, EmptyTally
    <3>6. Flush(after[1], 0) = Tally(upTo(0 + 1), ips)
      BY <2>16, <3>1, <3>5
    <3> QED BY <3>1, <3>5, <3>6
  <2>18. ASSUME NEW k \in Nat, k \in T PROVE k + 1 \in T
    <3> DEFINE j == k + 1
    <3> SUFFICES ASSUME j + 1 <= N
                 PROVE  /\ after[j + 1] \in Built
                        /\ Flush(after[j + 1], 0) = Tally(upTo(j + 1), ips)
      OBVIOUS
    <3>1. j \in Nat /\ j + 1 \in 1..N /\ j + 1 # 1 /\ (j + 1) - 1 = j /\ j <= N
      BY <2>4
    <3>2. after[j] \in Built /\ Flush(after[j], 0) = Tally(upTo(j), ips)
      BY <2>18, <3>1
    <3> HIDE DEF j
    <3>3. after[j + 1] = NextRun(after[j], runs[j + 1]) /\ runs[j + 1] \in Run
      BY <2>8, <2>13, <3>1
    <3>4. /\ after[j + 1] \in Built
          /\ Adds(Flush(after[j + 1], 0), Tally(upTo(j), ips), runs[j + 1].ip, runs[j + 1].m)
      BY <3>2, <3>3, NextRunFacts
    <3> QED BY <2>16, <3>1, <3>4
  <2> HIDE DEF T
  <2>19. N - 1 \in Nat /\ (N - 1) + 1 = N
    BY <2>4, <2>5
  <2>20. N - 1 \in T
    BY <2>17, <2>18, <2>19, Induction
  <2>21. Flush(after[N], 0) = Tally(upTo(N), ips)
    BY <2>19, <2>20, <2>4 DEF T
  <2>22. upTo(N) = DOMAIN ips
    BY <2>1, <2>4 DEF upTo
  <2> QED BY <2>12, <2>21, <2>22
<1> QED BY <1>1, <1>2

----------------------------------------------------------------------------
(* The same requests under other indices.                                  *)

Shifted(A, B, e, l) ==
  /\ A \subseteq (e + 1)..l
  /\ B \subseteq 1..(l - e)
  /\ \A k \in 1..(l - e) : k \in B <=> k + e \in A

LEMMA ShiftCounted ==
  ASSUME NEW e \in Nat, NEW l \in Nat, e <= l, NEW A, NEW B, Shifted(A, B, e, l)
  PROVE  Cardinality(A) = Cardinality(B) /\ (A # {} <=> B # {})
<1>0. /\ A \in SUBSET ((e + 1)..l) /\ B \in SUBSET (1..(l - e))
      /\ \A k \in 1..(l - e) : k \in B <=> k + e \in A
  BY DEF Shifted
<1> DEFINE f == [k \in B |-> k + e]
<1>1. \A k \in B : k \in Nat /\ k + e \in A
  BY <1>0
<1>2. f \in [B -> A]
  BY <1>1
<1>3. \A k, j \in B : f[k] = f[j] => k = j
  BY <1>1
<1>4. \A a \in A : \E k \in B : f[k] = a
  <2> SUFFICES ASSUME NEW a \in A PROVE \E k \in B : f[k] = a
    OBVIOUS
  <2>1. a - e \in 1..(l - e) /\ (a - e) + e = a
    BY <1>0
  <2>2. a - e \in B
    BY <1>0, <2>1
  <2> QED BY <2>1, <2>2
<1>5. f \in Bijection(B, A)
  BY <1>2, <1>3, <1>4, Fun_IsBij
<1>6. IsFiniteSet(B)
  <2>1. IsFiniteSet(1..(l - e))
    BY FS_Interval
  <2> QED BY <1>0, <2>1, FS_Subset
<1>7. ExistsBijection(B, A)
  BY <1>5 DEF ExistsBijection
<1>8. Cardinality(A) = Cardinality(B)
  BY <1>6, <1>7, FS_Bijection
<1> QED BY <1>1, <1>4, <1>8

LEMMA SameTally ==
  ASSUME NEW L, NEW who, NEW whom, \A i \in L : who[i] = whom[i]
  PROVE  Tally(L, who) = Tally(L, whom)
<1>1. \A n : Load(n, L, who) = Load(n, L, whom)
  BY DEF Load
<1> QED BY <1>1 DEF Tally

LEMMA ShiftTally ==
  ASSUME NEW e \in Nat, NEW l \in Nat, e <= l, NEW who, NEW whom,
         \A k \in 1..(l - e) : whom[k] = who[k + e]
  PROVE  Tally((e + 1)..l, who) = Tally(1..(l - e), whom)
<1> DEFINE A(n) == Load(n, (e + 1)..l, who)
           B(n) == Load(n, 1..(l - e), whom)
<1>1. ASSUME NEW n PROVE Cardinality(A(n)) = Cardinality(B(n)) /\ (A(n) # {} <=> B(n) # {})
  <2>1. A(n) \in SUBSET ((e + 1)..l) /\ B(n) \in SUBSET (1..(l - e))
    BY DEF Load
  <2>2. ASSUME NEW k \in 1..(l - e) PROVE k \in B(n) <=> k + e \in A(n)
    <3>1. k + e \in (e + 1)..l
      OBVIOUS
    <3> QED BY <3>1 DEF Load
  <2>3. Shifted(A(n), B(n), e, l)
    BY <2>1, <2>2 DEF Shifted
  <2> HIDE DEF A, B
  <2> QED BY <2>3, ShiftCounted
<1> QED BY <1>1 DEF Tally

----------------------------------------------------------------------------
(* The statistics that count the requests L of the queue q.                *)

Of(ip, L, q) == {i \in L : q[i].ip = ip}
Follows(s, L, q) ==
  /\ DOMAIN s = {q[i].ip : i \in L}
  /\ \A ip \in DOMAIN s :
       /\ s[ip].count = Cardinality(Of(ip, L, q))
       /\ \E i \in Of(ip, L, q) : s[ip].last = q[i].time /\ \A j \in Of(ip, L, q) : j <= i

OfMore(ip, L, x, q) ==
  /\ Cardinality(Of(ip, L, q)) \in Nat
  /\ Cardinality(Of(ip, L, q)) = 0 <=> Of(ip, L, q) = {}
  /\ q[x].ip = ip => /\ Of(ip, L \cup {x}, q) = Of(ip, L, q) \cup {x}
                     /\ Cardinality(Of(ip, L \cup {x}, q)) = Cardinality(Of(ip, L, q)) + 1
  /\ q[x].ip # ip => Of(ip, L \cup {x}, q) = Of(ip, L, q)

LEMMA OfFacts ==
  ASSUME NEW L, IsFiniteSet(L), NEW x, x \notin L, NEW q
  PROVE  \A ip : OfMore(ip, L, x, q)
<1> SUFFICES ASSUME NEW ip PROVE OfMore(ip, L, x, q)
  OBVIOUS
<1> DEFINE old == Of(ip, L, q)
           new == Of(ip, L \cup {x}, q)
<1>1. old \in SUBSET L /\ x \notin old
  BY DEF Of
<1>2. /\ q[x].ip = ip => new = old \cup {x}
      /\ q[x].ip # ip => new = old
  BY DEF Of
<1> HIDE DEF old, new
<1>3. IsFiniteSet(old)
  BY <1>1, FS_Subset
<1>4. Cardinality(old) \in Nat /\ (Cardinality(old) = 0 <=> old = {})
  BY <1>3, FS_CardinalityType, FS_EmptySet
<1>5. Cardinality(old \cup {x}) = Cardinality(old) + 1
  BY <1>1, <1>3, FS_AddElement
<1> QED BY <1>2, <1>4, <1>5 DEF old, new, OfMore

(* The newest request.                                                     *)
LEMMA AddFollows ==
  ASSUME NEW L \in SUBSET Nat, IsFiniteSet(L), NEW x \in Nat, \A j \in L : j < x,
         NEW q, NEW s, Follows(s, L, q)
  PROVE  Follows(AddStat(s, q[x]), L \cup {x}, q)
<1> DEFINE M == L \cup {x}
           u == AddStat(s, q[x])
<1>1. x \notin L
  OBVIOUS
<1>0. \A ip : OfMore(ip, L, x, q)
  BY <1>1, OfFacts
<1>2. /\ DOMAIN u = DOMAIN s \cup {q[x].ip}
      /\ \A ip \in DOMAIN u : ip # q[x].ip => u[ip] = s[ip]
      /\ u[q[x].ip].last = q[x].time
      /\ u[q[x].ip].count = 1 + (IF q[x].ip \in DOMAIN s THEN s[q[x].ip].count ELSE 0)
  BY DEF AddStat
<1> HIDE DEF u
<1>3. DOMAIN s = {q[i].ip : i \in L}
  BY DEF Follows
<1>4. DOMAIN u = {q[i].ip : i \in M}
  BY <1>2, <1>3
<1>5. ASSUME NEW ip \in DOMAIN u
      PROVE  /\ u[ip].count = Cardinality(Of(ip, M, q))
             /\ \E i \in Of(ip, M, q) : u[ip].last = q[i].time /\ \A j \in Of(ip, M, q) : j <= i
  <2>1. CASE ip # q[x].ip
    <3>1. ip \in DOMAIN s /\ u[ip] = s[ip] /\ Of(ip, M, q) = Of(ip, L, q)
      BY <1>0, <1>2, <2>1 DEF OfMore
    <3> QED BY <3>1 DEF Follows
  <2>2. CASE ip = q[x].ip
    <3>1. /\ Of(ip, M, q) = Of(ip, L, q) \cup {x}
          /\ Cardinality(Of(ip, M, q)) = Cardinality(Of(ip, L, q)) + 1
          /\ Cardinality(Of(ip, L, q)) \in Nat
          /\ Cardinality(Of(ip, L, q)) = 0 <=> Of(ip, L, q) = {}
      BY <1>0, <2>2 DEF OfMore
    <3>2. ip \in DOMAIN s => s[ip].count = Cardinality(Of(ip, L, q))
      BY DEF Follows
    <3>3. ip \notin DOMAIN s => Of(ip, L, q) = {}
      BY <1>3 DEF Of
    <3>4. u[ip].count = Cardinality(Of(ip, M, q))
      BY <1>2, <2>2, <3>1, <3>2, <3>3
    <3>5. x \in Of(ip, M, q) /\ \A j \in Of(ip, M, q) : j <= x
      BY <3>1 DEF Of
    <3> QED BY <1>2, <2>2, <3>4, <3>5
  <2> QED BY <2>1, <2>2
<1> QED BY <1>4, <1>5 DEF Follows, u

(* The oldest request: the latest of its address stays, if any stays.      *)
LEMMA RemoveFollows ==
  ASSUME NEW L \in SUBSET Nat, IsFiniteSet(L), NEW x \in Nat, \A j \in L : x < j,
         NEW q, NEW s, Follows(s, L \cup {x}, q)
  PROVE  Follows(RemoveStat(s, q[x].ip), L, q)
<1> DEFINE M == L \cup {x}
           a == q[x].ip
           u == RemoveStat(s, a)
<1>1. x \notin L
  OBVIOUS
<1>0. \A ip : OfMore(ip, L, x, q)
  BY <1>1, OfFacts
<1>2. DOMAIN s = {q[i].ip : i \in M} /\ a \in DOMAIN s
  BY DEF Follows
<1>3. \A ip \in DOMAIN s : ip # a => Of(ip, M, q) = Of(ip, L, q)
  BY <1>0 DEF OfMore
<1>4. /\ Of(a, M, q) = Of(a, L, q) \cup {x}
      /\ Cardinality(Of(a, M, q)) = Cardinality(Of(a, L, q)) + 1
      /\ Cardinality(Of(a, L, q)) \in Nat
      /\ Cardinality(Of(a, L, q)) = 0 <=> Of(a, L, q) = {}
  BY <1>0 DEF OfMore
<1>5. \A ip \in DOMAIN s :
       /\ s[ip].count = Cardinality(Of(ip, M, q))
       /\ \E i \in Of(ip, M, q) : s[ip].last = q[i].time /\ \A j \in Of(ip, M, q) : j <= i
  BY DEF Follows
<1>8. {q[i].ip : i \in M} = {q[i].ip : i \in L} \cup {a}
  OBVIOUS
<1>9. s[a].count = Cardinality(Of(a, M, q))
  <2> HIDE DEF a, M
  <2> QED BY <1>2, <1>5
<1>10. \A i \in Of(a, L, q) : i \in Of(a, M, q) /\ x < i /\ i \in Nat
  BY DEF Of
<1>11. Of(a, M, q) \subseteq Nat
  BY DEF Of
<1> DEFINE good == Follows(u, L, q)
<1> SUFFICES good
  OBVIOUS
<1> HIDE DEF a, M
<1>6. CASE Of(a, L, q) = {}
  <2>1. s[a].count <= 1
    <3>1. Cardinality(Of(a, L, q)) = 0
      BY <1>4, <1>6
    <3>2. s[a].count = 0 + 1
      BY <1>4, <1>9, <3>1, Zenon
    <3> QED BY <3>2
  <2>2. u = [ip \in DOMAIN s \ {a} |-> s[ip]]
    BY <1>2, <2>1 DEF RemoveStat, Restrict
  <2>3. a \notin {q[i].ip : i \in L}
    BY <1>6 DEF Of
  <2>4. DOMAIN u = {q[i].ip : i \in L}
    BY <1>2, <1>8, <2>2, <2>3
  <2>5. \A ip \in DOMAIN u : ip \in DOMAIN s /\ ip # a /\ u[ip] = s[ip]
    BY <2>2
  <2> HIDE DEF u
  <2>6. \A ip \in DOMAIN u : Of(ip, M, q) = Of(ip, L, q)
    BY <1>3, <2>5
  <2>7. \A ip \in DOMAIN u :
          /\ u[ip].count = Cardinality(Of(ip, L, q))
          /\ \E k \in Of(ip, L, q) :
               u[ip].last = q[k].time /\ \A j \in Of(ip, L, q) : j <= k
    BY <1>5, <2>5, <2>6
  <2> QED BY <2>4, <2>7 DEF Follows
<1>7. CASE Of(a, L, q) # {}
  <2>1. ~ (s[a].count <= 1) /\ s[a].count = Cardinality(Of(a, L, q)) + 1
    BY <1>4, <1>7, <1>9
  <2>2. u = [s EXCEPT ![a] = [last |-> s[a].last, count |-> s[a].count - 1]]
    BY <1>2, <2>1 DEF RemoveStat
  <2>3. /\ DOMAIN u = DOMAIN s
        /\ u[a] = [last |-> s[a].last, count |-> s[a].count - 1]
        /\ \A ip \in DOMAIN s : ip # a => u[ip] = s[ip]
    BY <1>2, <2>2
  <2>4. u[a].last = s[a].last /\ u[a].count = s[a].count - 1
    BY <2>3
  <2> HIDE DEF u
  <2>5. PICK i \in Of(a, L, q) : i \in L /\ q[i].ip = a
    BY <1>7 DEF Of
  <2>6. DOMAIN u = {q[k].ip : k \in L}
    BY <1>2, <1>8, <2>3, <2>5
  <2>7. ASSUME NEW ip \in DOMAIN u
        PROVE  /\ u[ip].count = Cardinality(Of(ip, L, q))
               /\ \E k \in Of(ip, L, q) :
                    u[ip].last = q[k].time /\ \A j \in Of(ip, L, q) : j <= k
    <3>1. CASE ip # a
      <4>1. ip \in DOMAIN s /\ u[ip] = s[ip] /\ Of(ip, M, q) = Of(ip, L, q)
        BY <1>3, <2>3, <3>1
      <4> QED BY <1>5, <4>1
    <3>2. CASE ip = a
      <4>1. PICK k \in Of(a, M, q) : s[a].last = q[k].time /\ \A j \in Of(a, M, q) : j <= k
        BY <1>2, <1>5
      <4>2. i \in Of(a, M, q) /\ x < i /\ i <= k /\ k \in Nat /\ i \in Nat
        BY <1>10, <1>11, <2>5, <4>1
      <4>3. k # x
        BY <4>2
      <4>4. k \in Of(a, L, q) /\ \A j \in Of(a, L, q) : j <= k
        BY <1>4, <4>1, <4>3
      <4>5. u[a].count = Cardinality(Of(a, L, q))
        BY <1>4, <2>1, <2>4
      <4> QED BY <2>4, <3>2, <4>1, <4>4, <4>5
    <3> QED BY <3>1, <3>2
  <2> QED BY <2>6, <2>7 DEF Follows
<1> QED BY <1>6, <1>7

LEMMA SameFollows ==
  ASSUME NEW L, NEW q, NEW p, NEW s, Follows(s, L, q), \A i \in L : q[i] = p[i]
  PROVE  Follows(s, L, p)
<1>1. \A ip : Of(ip, L, q) = Of(ip, L, p)
  BY DEF Of
<1>2. {q[i].ip : i \in L} = {p[i].ip : i \in L}
  OBVIOUS
<1>3. \A ip : \A i \in Of(ip, L, q) : q[i] = p[i]
  BY DEF Of
<1> QED BY <1>1, <1>2, <1>3 DEF Follows

LEMMA ShiftFollows ==
  ASSUME NEW e \in Nat, NEW l \in Nat, e <= l, NEW q, NEW p, NEW s,
         Follows(s, (e + 1)..l, q), \A k \in 1..(l - e) : p[k] = q[k + e]
  PROVE  Follows(s, 1..(l - e), p)
<1> DEFINE L == (e + 1)..l
           K == 1..(l - e)
<1>1. (\A k \in K : k + e \in L /\ k \in Nat) /\ \A i \in L : i - e \in K /\ (i - e) + e = i
  OBVIOUS
<1>2. {q[i].ip : i \in L} = {p[k].ip : k \in K}
  BY <1>1
<1>3. ASSUME NEW ip
      PROVE  /\ Cardinality(Of(ip, L, q)) = Cardinality(Of(ip, K, p))
             /\ \A k \in K : k \in Of(ip, K, p) <=> k + e \in Of(ip, L, q)
  <2>1. Of(ip, L, q) \in SUBSET L /\ Of(ip, K, p) \in SUBSET K
    BY DEF Of
  <2>2. \A k \in K : k \in Of(ip, K, p) <=> k + e \in Of(ip, L, q)
    BY <1>1 DEF Of
  <2>3. Shifted(Of(ip, L, q), Of(ip, K, p), e, l)
    BY <2>1, <2>2 DEF Shifted
  <2>4. Cardinality(Of(ip, L, q)) = Cardinality(Of(ip, K, p))
    BY <2>3, ShiftCounted
  <2> QED BY <2>2, <2>4
<1>4. ASSUME NEW ip \in DOMAIN s
      PROVE  \E k \in Of(ip, K, p) : s[ip].last = p[k].time /\ \A j \in Of(ip, K, p) : j <= k
  <2>1. PICK i \in Of(ip, L, q) : s[ip].last = q[i].time /\ \A j \in Of(ip, L, q) : j <= i
    BY DEF Follows
  <2> DEFINE k == i - e
  <2>2. i \in L
    BY DEF Of
  <2>3. k \in K /\ k + e = i /\ k \in Nat /\ i \in Nat
    BY <1>1, <2>2
  <2> HIDE DEF k
  <2>4. k \in Of(ip, K, p) /\ s[ip].last = p[k].time
    BY <1>3, <2>1, <2>3
  <2>5. ASSUME NEW j \in Of(ip, K, p) PROVE j <= k
    <3>1. j \in K
      BY DEF Of
    <3>2. j \in Nat /\ j + e \in Of(ip, L, q)
      BY <1>1, <1>3, <3>1
    <3>3. j + e <= k + e
      BY <2>1, <2>3, <3>2
    <3> QED BY <2>3, <3>2, <3>3
  <2> QED BY <2>4, <2>5
<1> QED BY <1>2, <1>3, <1>4 DEF Follows

----------------------------------------------------------------------------
(* The inductive invariant.                                                *)

Who(q) == [i \in DOMAIN q |-> q[i].ip]

(* Where an update is: what it has inserted, and what it has evicted.      *)
Phases ==
  /\ pc \in {"idle", "insert", "expire", "trim"}
  /\ queue \in Seq(TimedIP)
  /\ inserted \in Nat /\ evicted \in Nat /\ evicted <= inserted /\ inserted <= Len(queue)
  /\ pc # "insert" => inserted = Len(queue)
  /\ pc \in {"idle", "insert"} => evicted = 0
  /\ dead \in Nat /\ allocated \in Nat /\ now \in Nat

(* Every node taken from the allocator is paid for: by an entry counted    *)
(* since the last rebuild, evicted or not.                                 *)
MemoryPaid == allocated <= W * (inserted + dead)

(* Trimming starts at a fresh request, and goes on only while the window   *)
(* is too full.                                                            *)
FreshAtTrim ==
  pc = "trim" /\ evicted < Len(queue) /\ Len(queue) - evicted < MaxEntries =>
    ~ Expired(queue[evicted + 1])

WindowInv ==
  /\ Phases
  /\ trie = Tally(Live, Who(queue))
  /\ Follows(stats, Live, queue)
  /\ MemoryPaid
  /\ FreshAtTrim

LEMMA RequesterFacts == \A a \in Requesters : a \in Address /\ a # NoAddress
<1>1. Requesters \subseteq Address \ {NoAddress}
  BY WindowAssumption, Zenon
<1> QED BY <1>1

LEMMA CountUpTo == \A n \in Nat : IsFiniteSet(1..n) /\ Cardinality(1..n) = n
BY FS_Interval

LEMMA QueueFacts ==
  ASSUME NEW q \in Seq(TimedIP)
  PROVE  /\ Len(q) \in Nat /\ DOMAIN q = 1..Len(q)
         /\ \A i \in 1..Len(q) : /\ q[i] \in TimedIP /\ q[i].ip \in Address
                                 /\ q[i].ip # NoAddress /\ Who(q)[i] = q[i].ip
         /\ Who(q) \in Seq(Address) /\ Len(Who(q)) = Len(q)
<1>1. /\ Len(q) \in Nat /\ DOMAIN q = 1..Len(q)
      /\ \A i \in 1..Len(q) : /\ q[i] \in TimedIP /\ q[i].ip \in Address
                              /\ q[i].ip # NoAddress
  <2>1. Len(q) \in Nat /\ DOMAIN q = 1..Len(q) /\ \A i \in 1..Len(q) : q[i] \in TimedIP
    OBVIOUS
  <2>2. \A e \in TimedIP : e.ip \in Requesters
    BY DEF TimedIP
  <2> QED BY <2>1, <2>2, RequesterFacts
<1>2. /\ \A i \in 1..Len(q) : Who(q)[i] = q[i].ip
      /\ Who(q) \in [1..Len(q) -> Address]
  BY <1>1 DEF Who
<1>3. Who(q) \in Seq(Address) /\ Len(Who(q)) = Len(q)
  BY <1>1, <1>2
<1> QED BY <1>1, <1>2, <1>3

LEMMA LiveFacts ==
  ASSUME Phases
  PROVE  /\ Live \in SUBSET (1..Len(queue)) /\ Live \in SUBSET Nat /\ IsFiniteSet(Live)
         /\ Sources(Live, Who(queue))
         /\ \A i \in Live : Who(queue)[i] = queue[i].ip
<1>1. /\ Live \in SUBSET (1..Len(queue)) /\ Live \in SUBSET Nat
  BY DEF Phases, Live
<1>2. IsFiniteSet(Live)
  BY FS_Interval DEF Phases, Live
<1>3. \A i \in Live : Who(queue)[i] = queue[i].ip /\ Who(queue)[i] \in Address
  BY <1>1, QueueFacts DEF Phases
<1> QED BY <1>1, <1>2, <1>3 DEF Sources

LEMMA PathSize ==
  ASSUME NEW a \in Address
  PROVE  IsFiniteSet(Path(a)) /\ Cardinality(Path(a)) \in 0..W
<1> DEFINE f == [d \in 1..W |-> SubSeq(a, 1, d)]
<1>1. f \in Surjection(1..W, Path(a))
  BY DEF Surjection, Path
<1>2. IsFiniteSet(1..W) /\ Cardinality(1..W) = W
  BY FS_Interval, WAssumption
<1>3. IsFiniteSet(Path(a)) /\ Cardinality(Path(a)) <= W
  BY <1>1, <1>2, FS_Surjection
<1> QED BY <1>3, FS_CardinalityType, WAssumption

LEMMA Times ==
  ASSUME NEW m \in Nat, NEW n \in Nat
  PROVE  W * m \in Nat /\ W * n \in Nat /\ W * (m + n) = W * m + W * n
         /\ W * (n + 1) = W * n + W /\ (m <= n => W * m <= W * n)
<1>1. W \in Nat
  BY WAssumption
<1> QED BY <1>1

(* A trie has at most W nodes for each request.                            *)
LEMMA TallySize ==
  ASSUME NEW q \in Seq(Address)
  PROVE  /\ IsFiniteSet(DOMAIN Tally(DOMAIN q, q))
         /\ Cardinality(DOMAIN Tally(DOMAIN q, q)) \in Nat
         /\ Cardinality(DOMAIN Tally(DOMAIN q, q)) <= W * Len(q)
<1> DEFINE n == Len(q)
           D(k) == DOMAIN Tally(1..k, q)
           T == {k \in Nat : k <= n => /\ IsFiniteSet(D(k)) /\ Cardinality(D(k)) \in Nat
                                       /\ Cardinality(D(k)) <= W * k}
<1>1. n \in Nat /\ DOMAIN q = 1..n /\ \A i \in 1..n : q[i] \in Address
  OBVIOUS
<1>2. 0 \in T
  <2>1. 1..0 = {}
    OBVIOUS
  <2>2. D(0) = {}
    BY <2>1, EmptyTally DEF Empty
  <2>3. W * 0 = 0
    BY WAssumption
  <2> HIDE DEF D
  <2>4. IsFiniteSet(D(0)) /\ Cardinality(D(0)) = 0
    BY <2>2, FS_EmptySet
  <2> QED BY <2>3, <2>4
<1>3. ASSUME NEW k \in Nat, k \in T PROVE k + 1 \in T
  <2> SUFFICES ASSUME k + 1 <= n
               PROVE  /\ IsFiniteSet(D(k + 1)) /\ Cardinality(D(k + 1)) \in Nat
                      /\ Cardinality(D(k + 1)) <= W * (k + 1)
    OBVIOUS
  <2>1. /\ 1..(k + 1) = (1..k) \cup {k + 1} /\ k + 1 \notin 1..k
        /\ k + 1 \in 1..n /\ k <= n /\ \A i \in 1..(k + 1) : i \in 1..n
    BY <1>1
  <2>2. Sources((1..k) \cup {k + 1}, q)
    <3>1. IsFiniteSet((1..k) \cup {k + 1})
      BY CountUpTo, FS_AddElement
    <3>2. \A i \in (1..k) \cup {k + 1} : q[i] \in Address
      BY <1>1, <2>1
    <3> QED BY <3>1, <3>2 DEF Sources
  <2>3. Tally((1..k) \cup {k + 1}, q) = Insert(Tally(1..k, q), q[k + 1])
    BY <2>1, <2>2, InsertTally
  <2>4. D(k + 1) = D(k) \cup Path(q[k + 1])
    BY <2>1, <2>3 DEF Insert
  <2>5. /\ IsFiniteSet(D(k)) /\ Cardinality(D(k)) \in Nat /\ Cardinality(D(k)) <= W * k
    BY <1>3, <2>1
  <2> DEFINE A == D(k)
             B == Path(q[k + 1])
  <2>6. IsFiniteSet(B) /\ Cardinality(B) \in 0..W
    BY <1>1, <2>1, PathSize
  <2>7. IsFiniteSet(A) /\ Cardinality(A) \in Nat /\ Cardinality(A) <= W * k
    BY <2>5
  <2> HIDE DEF A, B
  <2>8. /\ IsFiniteSet(A \cup B)
        /\ Cardinality(A \cup B) = Cardinality(A) + Cardinality(B) - Cardinality(A \cap B)
    BY <2>6, <2>7, FS_Union
  <2>9. Cardinality(A \cap B) \in Nat /\ Cardinality(A \cup B) \in Nat
    BY <2>7, <2>8, FS_Intersection, FS_CardinalityType
  <2>10. W * (k + 1) = W * k + W /\ W * k \in Nat
    BY Times
  <2>11. Cardinality(A \cup B) <= W * (k + 1)
    BY <2>6, <2>7, <2>8, <2>9, <2>10, WAssumption
  <2> QED BY <2>4, <2>8, <2>9, <2>11 DEF A, B
<1> HIDE DEF T
<1>4. n \in T
  BY <1>1, <1>2, <1>3, Induction
<1> QED BY <1>1, <1>4 DEF T

(* No request comes from address 0: a rebuild counts the whole queue.      *)
LEMMA SurvivorsFacts ==
  ASSUME NEW q \in Seq(TimedIP)
  PROVE  Survivors(q) = Who(q)
<1> DEFINE n == Len(q)
           K == {i \in DOMAIN q : q[i].ip # NoAddress}
           kept == Compact(q, K)
<1>1. n \in Nat /\ DOMAIN q = 1..n /\ \A i \in 1..n : q[i].ip # NoAddress
  BY QueueFacts
<1>2. K = 1..n
  BY <1>1
<1>3. Cardinality(K) = n
  <2> HIDE DEF K
  <2> QED BY <1>1, <1>2, CountUpTo
<1>4. ASSUME NEW k \in 1..n PROVE Nth(K, k) = k
  <2>1. \A i \in K : {j \in K : j <= i} = 1..i /\ i \in Nat
    BY <1>1, <1>2
  <2>2. \A i \in K : Cardinality({j \in K : j <= i}) = i
    BY <2>1, CountUpTo
  <2>3. k \in K
    BY <1>2
  <2> HIDE DEF K
  <2> QED BY <2>2, <2>3 DEF Nth
<1>5. kept = [k \in 1..n |-> q[k]]
  BY <1>3, <1>4 DEF Compact
<1>6. Survivors(q) = [i \in DOMAIN kept |-> kept[i].ip]
  BY DEF Survivors
<1> HIDE DEF kept
<1> QED BY <1>1, <1>5, <1>6 DEF Who

LEMMA InitWindowInv == Init => WindowInv
<1> SUFFICES ASSUME Init PROVE WindowInv
  OBVIOUS
<1>1. Live = {} /\ Len(queue) = 0
  BY DEF Init, Live
<1>2. Phases
  <2>1. <<>> \in Seq(TimedIP)
    OBVIOUS
  <2> QED BY <1>1, <2>1 DEF Init, Phases
<1>3. trie = Tally(Live, Who(queue))
  BY <1>1, EmptyTally DEF Init
<1>4. Follows(stats, Live, queue)
  BY <1>1 DEF Init, Follows
<1>5. MemoryPaid /\ FreshAtTrim
  <2>1. W * (0 + 0) = 0
    BY WAssumption
  <2> QED BY <2>1 DEF Init, MemoryPaid, FreshAtTrim
<1> QED BY <1>2, <1>3, <1>4, <1>5 DEF WindowInv

LEMMA BeginWindowInv ==
  ASSUME WindowInv, NEW batch \in Batches, Begin(batch)
  PROVE  WindowInv'
<1>1. batch \in Seq(TimedIP)
  <2> DEFINE arriving == {[ip |-> a, time |-> now - d] :
                            a \in Requesters, d \in {x \in Delays : x <= now}}
  <2>1. arriving \subseteq TimedIP
    <3> SUFFICES ASSUME NEW a \in Requesters, NEW d \in Delays, d <= now
                 PROVE  [ip |-> a, time |-> now - d] \in TimedIP
      OBVIOUS
    <3>1. now - d \in Nat
      BY WindowAssumption DEF WindowInv, Phases
    <3> QED BY <3>1 DEF TimedIP
  <2>2. PICK n \in 0..MaxBatch : batch \in [1..n -> arriving]
    BY DEF Batches
  <2> HIDE DEF arriving
  <2>3. n \in Nat /\ batch \in [1..n -> TimedIP]
    BY <2>1, <2>2, WindowAssumption
  <2> QED BY <2>3
<1>2. /\ queue \in Seq(TimedIP) /\ inserted = Len(queue) /\ evicted = 0
      /\ inserted \in Nat
  BY DEF WindowInv, Phases, Begin
<1>3. /\ queue' = queue \o batch /\ pc' = "insert"
      /\ UNCHANGED <<inserted, evicted, trie, stats, dead, allocated, now>>
  BY DEF Begin
<1>4. /\ queue' \in Seq(TimedIP) /\ Len(queue) <= Len(queue')
      /\ \A i \in 1..Len(queue) : queue'[i] = queue[i]
  BY <1>1, <1>2, <1>3
<1>5. Phases'
  BY <1>2, <1>3, <1>4 DEF WindowInv, Phases
<1>6. Live' = Live /\ Live \in SUBSET (1..Len(queue))
  BY <1>3, LiveFacts DEF Live, WindowInv
<1>7. \A i \in Live : queue'[i] = queue[i] /\ Who(queue')[i] = Who(queue)[i]
  <2>1. \A i \in 1..Len(queue) : i \in 1..Len(queue')
    BY <1>2, <1>4
  <2> QED BY <1>2, <1>4, <1>6, <2>1, QueueFacts
<1>8. (trie = Tally(Live, Who(queue)))'
  BY <1>3, <1>6, <1>7, SameTally DEF WindowInv
<1>9. Follows(stats, Live, queue)'
  BY <1>3, <1>6, <1>7, SameFollows DEF WindowInv
<1>10. (MemoryPaid /\ FreshAtTrim)'
  BY <1>3 DEF WindowInv, MemoryPaid, FreshAtTrim
<1> QED BY <1>5, <1>8, <1>9, <1>10 DEF WindowInv

LEMMA InsertWindowInv ==
  ASSUME WindowInv, InsertNext
  PROVE  WindowInv'
<1> DEFINE x == inserted + 1
           e == queue[x]
<1>1. /\ pc = "insert" /\ inserted < Len(queue) /\ inserted' = x
      /\ trie' = Insert(trie, e.ip) /\ stats' = AddStat(stats, e)
      /\ allocated' = allocated + Cardinality(Path(e.ip) \ DOMAIN trie)
      /\ UNCHANGED <<pc, queue, evicted, dead, now>>
  BY DEF InsertNext
<1>2. Phases /\ trie = Tally(Live, Who(queue)) /\ Follows(stats, Live, queue)
  BY DEF WindowInv
<1>3. /\ x \in 1..Len(queue) /\ x \notin Live /\ Live' = Live \cup {x} /\ x \in Nat
      /\ \A j \in Live : j < x
  BY <1>1, <1>2 DEF Phases, Live
<1>4. e.ip \in Address /\ Who(queue)[x] = e.ip
  BY <1>2, <1>3, QueueFacts DEF Phases
<1>5. IsFiniteSet(Path(e.ip)) /\ Cardinality(Path(e.ip)) \in 0..W
  BY <1>4, PathSize
<1>6. /\ Cardinality(Path(e.ip) \ DOMAIN trie) \in Nat
      /\ Cardinality(Path(e.ip) \ DOMAIN trie) <= W
  <2>1. (Path(e.ip) \ DOMAIN trie) \in SUBSET Path(e.ip)
    OBVIOUS
  <2>2. /\ IsFiniteSet(Path(e.ip) \ DOMAIN trie)
        /\ Cardinality(Path(e.ip) \ DOMAIN trie) <= Cardinality(Path(e.ip))
    BY <1>5, <2>1, FS_Subset
  <2> QED BY <1>5, <2>2, FS_CardinalityType, WAssumption
<1> HIDE DEF x, e
<1>7. Phases'
  BY <1>1, <1>2, <1>3, <1>6 DEF Phases, x
<1>8. Sources(Live \cup {x}, Who(queue))
  <2>1. Sources(Live, Who(queue))
    BY <1>2, LiveFacts
  <2> QED BY <1>4, <2>1, FS_AddElement DEF Sources
<1>9. (trie = Tally(Live, Who(queue)))'
  BY <1>1, <1>2, <1>3, <1>4, <1>8, InsertTally
<1>10. Follows(stats, Live, queue)'
  <2>1. Follows(AddStat(stats, queue[x]), Live \cup {x}, queue)
    BY <1>2, <1>3, LiveFacts, AddFollows
  <2> QED BY <1>1, <1>3, <2>1 DEF e
<1>11. MemoryPaid'
  <2> DEFINE k == inserted + dead
  <2>1. k \in Nat /\ inserted' + dead' = k + 1 /\ allocated \in Nat /\ allocated <= W * k
    BY <1>1, <1>2 DEF WindowInv, Phases, MemoryPaid, x
  <2> HIDE DEF k
  <2>2. W * (k + 1) = W * k + W /\ W * k \in Nat
    BY <2>1, Times
  <2>3. allocated' <= W * (k + 1)
    BY <1>1, <1>6, <2>1, <2>2, WAssumption
  <2> QED BY <2>1, <2>3 DEF MemoryPaid
<1>12. FreshAtTrim'
  BY <1>1 DEF FreshAtTrim
<1> QED BY <1>7, <1>9, <1>10, <1>11, <1>12 DEF WindowInv

LEMMA LimitFacts ==
  MaxEntries \in Nat /\ TimeLimit \in Nat /\ RebuildMinEvictions \in Nat \ {0}
BY WindowAssumption, Zenon

LEMMA EvictWindowInv ==
  ASSUME WindowInv, ExpireNext \/ TrimNext
  PROVE  WindowInv'
<1> DEFINE x == evicted + 1
           a == queue[x].ip
<1>1. Phases /\ trie = Tally(Live, Who(queue)) /\ Follows(stats, Live, queue)
  BY DEF WindowInv
<1>2. /\ pc \in {"expire", "trim"} /\ inserted = Len(queue) /\ evicted < Len(queue)
      /\ pc = "trim" => Len(queue) - evicted > MaxEntries
  BY <1>1, LimitFacts DEF ExpireNext, TrimNext, TooMany, Phases
<1>3. /\ trie' = Delete(trie, a) /\ stats' = RemoveStat(stats, a) /\ evicted' = x
      /\ UNCHANGED <<pc, queue, inserted, dead, allocated, now>>
  BY DEF ExpireNext, TrimNext, Evict
<1>4. /\ x \in 1..Len(queue) /\ x \notin Live' /\ Live = Live' \cup {x} /\ x \in Nat
      /\ \A j \in Live' : x < j
  BY <1>1, <1>2, <1>3 DEF Phases, Live
<1>5. a \in Address /\ Who(queue)[x] = a
  BY <1>1, <1>4, QueueFacts DEF Phases
<1>6. Phases'
  BY <1>1, <1>2, <1>3, <1>4 DEF Phases
<1>7. Live' \in SUBSET Nat /\ IsFiniteSet(Live') /\ Sources(Live' \cup {x}, Who(queue))
  <2>1. Sources(Live, Who(queue)) /\ Live \in SUBSET Nat
    BY <1>1, LiveFacts
  <2>2. Live' \in SUBSET Live
    BY <1>4
  <2>3. IsFiniteSet(Live')
    BY <2>1, <2>2, FS_Subset DEF Sources
  <2> QED BY <1>4, <2>1, <2>2, <2>3
<1> HIDE DEF x, a
<1> DEFINE L == Live'
<1>8. /\ x \notin L /\ Live = L \cup {x} /\ L \in SUBSET Nat /\ IsFiniteSet(L)
      /\ Sources(L \cup {x}, Who(queue)) /\ \A j \in L : x < j
  BY <1>4, <1>7
<1> HIDE DEF L
<1>9. Delete(Tally(L \cup {x}, Who(queue)), Who(queue)[x]) = Tally(L, Who(queue))
  BY <1>8, DeleteTally
<1>10. (trie = Tally(Live, Who(queue)))'
  BY <1>1, <1>3, <1>5, <1>8, <1>9 DEF L
<1>11. Follows(stats, Live, queue)'
  <2>1. Follows(RemoveStat(stats, queue[x].ip), L, queue)
    BY <1>1, <1>4, <1>8, RemoveFollows
  <2> QED BY <1>3, <2>1 DEF a, L
<1>12. MemoryPaid'
  BY <1>3 DEF WindowInv, MemoryPaid
<1>13. FreshAtTrim'
  BY <1>1, <1>2, <1>3, LimitFacts DEF FreshAtTrim, Phases, x
<1> QED BY <1>6, <1>10, <1>11, <1>12, <1>13 DEF WindowInv

(* What the cut leaves of the queue, and what is built of it.              *)
LEMMA CutFacts ==
  ASSUME Phases, EndUpdate
  PROVE  LET l == Len(queue)
             n == l - evicted
         IN  /\ inserted = l /\ l \in Nat /\ evicted <= l /\ evicted \in Nat /\ n \in Nat
             /\ Live = (evicted + 1)..l /\ Live' = 1..n
             /\ queue' \in Seq(TimedIP) /\ Len(queue') = n /\ n <= MaxEntries
             /\ \A k \in 1..n : queue'[k] = queue[k + evicted]
             /\ \A k \in 1..n : Who(queue')[k] = Who(queue)[k + evicted]
             /\ inserted' = n /\ evicted' = 0 /\ pc' = "idle"
             /\ UNCHANGED <<stats, now>>
<1> DEFINE l == Len(queue)
           n == l - evicted
<1>1. /\ pc = "trim" /\ ~ TooMany /\ pc' = "idle" /\ UNCHANGED <<stats, now>>
      /\ queue' = SubSeq(queue, evicted + 1, l) /\ inserted' = n /\ evicted' = 0
  BY DEF EndUpdate, Cut
<1>2. /\ queue \in Seq(TimedIP) /\ inserted = l /\ evicted <= l /\ evicted \in Nat /\ l \in Nat
  BY <1>1 DEF Phases
<1>3. n \in Nat /\ n <= MaxEntries
  BY <1>1, <1>2, LimitFacts DEF TooMany
<1>4. Live = (evicted + 1)..l /\ Live' = 1..n
  BY <1>1, <1>2 DEF Live
<1>5. /\ queue' \in Seq(TimedIP) /\ Len(queue') = n
      /\ \A k \in 1..n : queue'[k] = queue[k + evicted]
  BY <1>1, <1>2
<1>6. ASSUME NEW k \in 1..n PROVE Who(queue')[k] = Who(queue)[k + evicted]
  <2>1. k + evicted \in 1..l
    BY <1>2
  <2>2. Who(queue')[k] = queue'[k].ip
    BY <1>5, QueueFacts
  <2>3. Who(queue)[k + evicted] = queue[k + evicted].ip
    BY <1>2, <2>1, QueueFacts
  <2> QED BY <1>5, <2>2, <2>3
<1> QED BY <1>1, <1>2, <1>3, <1>4, <1>5, <1>6

LEMMA CutWindowInv ==
  ASSUME WindowInv, EndUpdate
  PROVE  WindowInv'
<1> DEFINE l == Len(queue)
           n == l - evicted
           q == queue'
<1>1. Phases /\ trie = Tally(Live, Who(queue)) /\ Follows(stats, Live, queue)
  BY DEF WindowInv
<1>2. /\ inserted = l /\ l \in Nat /\ evicted <= l /\ evicted \in Nat /\ n \in Nat
      /\ Live = (evicted + 1)..l /\ Live' = 1..n
      /\ q \in Seq(TimedIP) /\ Len(q) = n
      /\ \A k \in 1..n : q[k] = queue[k + evicted]
      /\ \A k \in 1..n : Who(q)[k] = Who(queue)[k + evicted]
      /\ inserted' = n /\ evicted' = 0 /\ pc' = "idle"
      /\ UNCHANGED <<stats, now>>
  BY <1>1, CutFacts
<1>3. /\ \/ /\ trie' = BuildSorted(Survivors(q)) /\ allocated' = Cardinality(DOMAIN trie')
            /\ dead' = 0
         \/ UNCHANGED <<trie, allocated>> /\ dead' = dead + evicted
  BY DEF EndUpdate
<1> HIDE DEF l, n, q
<1>4. Tally(Live, Who(queue)) = Tally(1..n, Who(q))
  BY <1>2, ShiftTally DEF n
<1>5. Who(q) \in Seq(Address) /\ DOMAIN Who(q) = 1..n /\ Len(Who(q)) = n
  BY <1>2, QueueFacts
<1>6. BuildSorted(Survivors(q)) = Tally(1..n, Who(q))
  BY <1>2, <1>5, SurvivorsFacts, BuildSortedTally
<1>7. trie' = Tally(1..n, Who(q))
  BY <1>1, <1>3, <1>4, <1>6
<1>8. (trie = Tally(Live, Who(queue)))'
  BY <1>2, <1>7 DEF q
<1>9. Follows(stats, Live, queue)'
  <2>1. Follows(stats, 1..n, q)
    BY <1>1, <1>2, ShiftFollows DEF n
  <2> QED BY <1>2, <2>1 DEF q
<1>10. dead \in Nat /\ allocated \in Nat /\ now \in Nat
  BY <1>1 DEF Phases
<1>11. /\ Cardinality(DOMAIN Tally(1..n, Who(q))) \in Nat
       /\ Cardinality(DOMAIN Tally(1..n, Who(q))) <= W * n
  BY <1>5, TallySize
<1>12. dead' \in Nat /\ allocated' \in Nat /\ now' \in Nat
  BY <1>2, <1>3, <1>7, <1>10, <1>11
<1>13. Phases'
  BY <1>2, <1>12 DEF Phases, q
<1>14. MemoryPaid'
  <2>1. CASE trie' = BuildSorted(Survivors(q)) /\ allocated' = Cardinality(DOMAIN trie')
             /\ dead' = 0
    BY <1>2, <1>7, <1>11, <2>1 DEF MemoryPaid
  <2>2. CASE UNCHANGED <<trie, allocated>> /\ dead' = dead + evicted
    <3>1. inserted' + dead' = inserted + dead
      BY <1>2, <1>10, <2>2 DEF n
    <3> QED BY <2>2, <3>1 DEF WindowInv, MemoryPaid
  <2> QED BY <1>3, <2>1, <2>2
<1>15. FreshAtTrim'
  BY <1>2 DEF FreshAtTrim
<1> QED BY <1>8, <1>9, <1>13, <1>14, <1>15 DEF WindowInv

LEMMA NextWindowInv == WindowInv /\ [Next]_vars => WindowInv'
<1> SUFFICES ASSUME WindowInv, [Next]_vars PROVE WindowInv'
  OBVIOUS
<1>1. CASE \E batch \in Batches : Begin(batch)
  BY <1>1, BeginWindowInv
<1>2. CASE InsertNext
  BY <1>2, InsertWindowInv
<1>3. CASE ExpireNext \/ TrimNext
  BY <1>3, EvictWindowInv
<1>4. CASE EndUpdate
  BY <1>4, CutWindowInv
<1>5. CASE EndInsert \/ EndExpire \/ Tick \/ UNCHANGED vars
  <2>1. /\ UNCHANGED <<queue, inserted, evicted, trie, stats, dead, allocated>>
        /\ now' \in Nat
    BY <1>5 DEF WindowInv, Phases, EndInsert, EndExpire, Tick, vars
  <2>2. Phases'
    BY <1>5, <2>1 DEF WindowInv, Phases, EndInsert, EndExpire, Tick, vars
  <2>3. Live' = Live
    BY <2>1 DEF Live
  <2>4. FreshAtTrim'
    BY <1>5, <2>1 DEF WindowInv, Phases, FreshAtTrim, EndInsert, EndExpire, Tick, vars, Expired
  <2> QED BY <2>1, <2>2, <2>3, <2>4 DEF WindowInv, MemoryPaid
<1> QED BY <1>1, <1>2, <1>3, <1>4, <1>5 DEF Next

LEMMA WindowInvHolds == Spec => []WindowInv
BY InitWindowInv, NextWindowInv, PTL DEF Spec

----------------------------------------------------------------------------
(* Functions defined down the tree: the value at a range follows from the  *)
(* values at deeper ones.                                                  *)

DependsDown(next, V) ==
  \A n \in Ranges : \A f, g \in [Ranges -> V] :
    (\A c \in Ranges : Len(n) < Len(c) => f[c] = g[c]) => next[f][n] = next[g][n]

LEMMA TreeRecursion ==
  ASSUME NEW V, V # {}, NEW next \in [[Ranges -> V] -> [Ranges -> V]], DependsDown(next, V)
  PROVE  \E f \in [Ranges -> V] : f = next[f]
<1> DEFINE F == [Ranges -> V]
           N == W + 2
           step == [k \in 1..N |-> next]
<1>1. W \in Nat /\ N \in Nat /\ \A n \in Ranges : Len(n) \in 0..W
  BY RangeFacts, WAssumption
<1>2. PICK v \in V : TRUE
  OBVIOUS
<1> DEFINE base == [n \in Ranges |-> v]
<1>3. base \in F /\ step \in [1..N -> [F -> F]]
  OBVIOUS
<1>4. \A k \in 1..N : step[k] = next
  OBVIOUS
<1> HIDE DEF base, step, F, N
<1>5. PICK g \in [0..N -> F] : Recursive(g, base, step, N)
  BY <1>1, <1>3, RecursionExists
<1>6. \A k \in Nat : k + 1 <= N => g[k + 1] = next[g[k]]
  <2> SUFFICES ASSUME NEW k \in Nat, k + 1 <= N PROVE g[k + 1] = next[g[k]]
    OBVIOUS
  <2>1. k + 1 \in 1..N
    BY <1>1
  <2>2. g[k + 1] = step[k + 1][g[k]]
    BY <1>1, <1>5, RecursionStep
  <2> QED BY <1>4, <2>1, <2>2
<1> DEFINE T == {k \in Nat : k + 1 <= N =>
                   \A n \in Ranges : W + 1 <= Len(n) + k => g[k + 1][n] = g[k][n]}
<1>7. 0 \in T
  BY <1>1
<1>8. ASSUME NEW k \in Nat, k \in T PROVE k + 1 \in T
  <2> DEFINE j == k + 1
  <2> SUFFICES ASSUME j + 1 <= N, NEW n \in Ranges, W + 1 <= Len(n) + j
               PROVE  g[j + 1][n] = g[j][n]
    OBVIOUS
  <2>1. /\ j \in Nat /\ j <= N /\ j \in 0..N /\ k \in 0..N /\ k + 1 <= N
    BY <1>1
  <2>2. g[j] \in F /\ g[k] \in F
    BY <2>1
  <2>3. g[j + 1] = next[g[j]] /\ g[j] = next[g[k]]
    BY <1>6, <2>1
  <2>4. ASSUME NEW c \in Ranges, Len(n) < Len(c) PROVE g[j][c] = g[k][c]
    <3>1. W + 1 <= Len(c) + k
      BY <1>1, <2>4
    <3> QED BY <1>8, <2>1, <3>1
  <2> HIDE DEF j
  <2>5. next[g[j]][n] = next[g[k]][n]
    BY <2>2, <2>4 DEF DependsDown, F
  <2> QED BY <2>3, <2>5
<1> HIDE DEF T
<1>9. W + 1 \in T
  BY <1>1, <1>7, <1>8, Induction
<1> DEFINE f == g[W + 1]
           h == g[(W + 1) + 1]
<1>10. W + 1 \in 0..N /\ (W + 1) + 1 \in 0..N /\ W + 1 \in Nat /\ (W + 1) + 1 <= N
  BY <1>1 DEF N
<1>11. f \in F /\ h \in F /\ h = next[f]
  BY <1>6, <1>10
<1>12. \A n \in Ranges : h[n] = f[n]
  BY <1>1, <1>9, <1>10 DEF T
<1> HIDE DEF f, h
<1>13. h = f
  BY <1>11, <1>12 DEF F
<1> QED BY <1>11, <1>13 DEF F

----------------------------------------------------------------------------
(* Counting in a range.                                                    *)

(* The load of a range is that of its halves.                              *)
LEMMA HalvesFacts ==
  ASSUME NEW L, NEW who, Sources(L, who), NEW n \in Ranges, Len(n) < W
  PROVE  Cardinality(Load(n, L, who))
           = Cardinality(Load(Append(n, 0), L, who)) + Cardinality(Load(Append(n, 1), L, who))
<1> DEFINE A == Load(Append(n, 0), L, who)
           B == Load(Append(n, 1), L, who)
<1>1. 0 \in Bit /\ 1 \in Bit
  BY DEF Bit
<1>2. /\ Append(n, 0) \in Ranges /\ Within(Append(n, 0), n)
      /\ Append(n, 1) \in Ranges /\ Within(Append(n, 1), n)
  BY <1>1, ChildFacts
<1>3. A \subseteq Load(n, L, who) /\ B \subseteq Load(n, L, who)
  BY <1>2, LoadWithin
<1>4. ASSUME NEW i \in Load(n, L, who) PROVE (i \in A \/ i \in B) /\ ~ (i \in A /\ i \in B)
  <2>1. i \in L /\ who[i] \in Ranges /\ Len(who[i]) = W /\ Within(who[i], n)
    BY AddressFacts DEF Load, Sources
  <2>2. /\ who[i][Len(n) + 1] \in Bit
        /\ Within(who[i], Append(n, who[i][Len(n) + 1]))
        /\ \A b \in Bit : Within(who[i], Append(n, b)) => b = who[i][Len(n) + 1]
    BY <2>1, HalfOf
  <2>3. who[i][Len(n) + 1] = 0 \/ who[i][Len(n) + 1] = 1
    BY <2>2 DEF Bit
  <2> QED BY <1>1, <2>1, <2>2, <2>3 DEF Load
<1>5. /\ IsFiniteSet(A) /\ Cardinality(A) \in Nat
      /\ IsFiniteSet(B) /\ Cardinality(B) \in Nat
  BY LoadFacts
<1> HIDE DEF A, B
<1>6. Load(n, L, who) = A \cup B /\ A \cap B = {}
  BY <1>3, <1>4
<1>7. Cardinality(A \cup B) = Cardinality(A) + Cardinality(B) - Cardinality({})
  BY <1>5, <1>6, FS_Union
<1>8. Cardinality(A \cup B) = Cardinality(A) + Cardinality(B)
  BY <1>5, <1>7, FS_EmptySet
<1> QED BY <1>6, <1>8 DEF A, B

(* A node's count is the load of its range, and 0 where there is no node.  *)
LEMMA CountFacts ==
  ASSUME NEW L, NEW who, Sources(L, who), NEW n \in Node
  PROVE  /\ Count(Tally(L, who), n) = Cardinality(Load(n, L, who))
         /\ Cardinality(Load(n, L, who)) \in Nat
         /\ n \in DOMAIN Tally(L, who) <=> Cardinality(Load(n, L, who)) # 0
<1>1. /\ DOMAIN Tally(L, who) = {m \in Node : Load(m, L, who) # {}}
      /\ \A m \in DOMAIN Tally(L, who) : Tally(L, who)[m] = Cardinality(Load(m, L, who))
  BY TallyFacts
<1>2. /\ Cardinality(Load(n, L, who)) \in Nat
      /\ Cardinality(Load(n, L, who)) = 0 <=> Load(n, L, who) = {}
  BY LoadFacts
<1> QED BY <1>1, <1>2 DEF Count

Side(t, f, n, b) == IF Append(n, b) \in DOMAIN t THEN f[Append(n, b)] ELSE 0
BelowAt(t, range, f, n) ==
  IF ~ Within(n, range) /\ ~ Within(range, n) THEN 0
  ELSE IF Within(n, range) THEN Count(t, n)
  ELSE Side(t, f, n, 0) + Side(t, f, n, 1)
Below(t, range, f) == f = [n \in {Root} \cup Node |-> BelowAt(t, range, f, n)]

LEMMA CountInRangeIs ==
  ASSUME NEW t, NEW range, range # Root
  PROVE  CountInRange(t, range) = (CHOOSE f : Below(t, range, f))[Root]
BY DEF CountInRange, Below, BelowAt, Side

LEMMA BelowExists ==
  ASSUME NEW L, NEW who, Sources(L, who), NEW range
  PROVE  \E f \in [Ranges -> Nat] : Below(Tally(L, who), range, f)
<1> DEFINE t == Tally(L, who)
           next == [f \in [Ranges -> Nat] |-> [n \in Ranges |-> BelowAt(t, range, f, n)]]
<1>1. \A n \in DOMAIN t : n \in Ranges /\ t[n] \in Nat
  BY TallyFacts
<1> HIDE DEF t
<1>2. ASSUME NEW f \in [Ranges -> Nat], NEW n \in Ranges PROVE BelowAt(t, range, f, n) \in Nat
  <2>1. Side(t, f, n, 0) \in Nat /\ Side(t, f, n, 1) \in Nat
    BY <1>1 DEF Side
  <2>2. Count(t, n) \in Nat
    BY <1>1 DEF Count
  <2> QED BY <2>1, <2>2 DEF BelowAt
<1>3. next \in [[Ranges -> Nat] -> [Ranges -> Nat]]
  BY <1>2
<1>4. DependsDown(next, Nat)
  <2> SUFFICES ASSUME NEW n \in Ranges, NEW f \in [Ranges -> Nat], NEW g \in [Ranges -> Nat],
                      \A c \in Ranges : Len(n) < Len(c) => f[c] = g[c]
               PROVE  next[f][n] = next[g][n]
    BY DEF DependsDown
  <2>1. ASSUME NEW b, Append(n, b) \in DOMAIN t PROVE f[Append(n, b)] = g[Append(n, b)]
    <3>1. Append(n, b) \in Ranges /\ n \in Seq(Bit) /\ Len(n) \in Nat
      BY <1>1, <2>1, RangeFacts
    <3>2. Len(n) < Len(Append(n, b))
      <4>1. Append(n, b) \in Seq(Bit)
        BY <3>1, RangeFacts
      <4>2. Len(Append(n, b)) = Len(n) + 1
        BY <3>1
      <4> QED BY <3>1, <4>2
    <3> QED BY <3>1, <3>2
  <2>2. Side(t, f, n, 0) = Side(t, g, n, 0) /\ Side(t, f, n, 1) = Side(t, g, n, 1)
    BY <2>1 DEF Side
  <2>3. BelowAt(t, range, f, n) = BelowAt(t, range, g, n)
    BY <2>2 DEF BelowAt
  <2> QED BY <2>3
<1>5. PICK f \in [Ranges -> Nat] : f = next[f]
  <2> HIDE DEF next
  <2>1. Nat # {}
    BY 0 \in Nat
  <2> QED BY <1>3, <1>4, <2>1, TreeRecursion
<1>6. Below(t, range, f)
  BY <1>5 DEF Below, Ranges
<1> QED BY <1>6 DEF t

(* Along the path to the range, the number found below is its load.        *)
LEMMA BelowFacts ==
  ASSUME NEW L, NEW who, Sources(L, who), NEW range \in Node,
         NEW f, Below(Tally(L, who), range, f)
  PROVE  f[Root] = Cardinality(Load(range, L, who))
<1> DEFINE t == Tally(L, who)
           load == Cardinality(Load(range, L, who))
           T == {k \in Nat : \A n \in Ranges :
                   (n = Root \/ n \in DOMAIN t) /\ Within(range, n) /\ Len(n) + k = Len(range)
                     => f[n] = load}
<1>1. \A n \in Ranges : f[n] = BelowAt(t, range, f, n)
  BY DEF Below, Ranges
<1>2. range \in Ranges /\ Len(range) \in Nat /\ Len(range) <= W /\ range # Root
  BY RangeFacts DEF Ranges, Root
<1>3. \A n \in Ranges : Len(n) \in Nat
  BY RangeFacts
<1>4. \A n \in DOMAIN t : n \in Node /\ n \in Ranges
  BY TallyFacts
<1>5. 0 \in T
  <2> SUFFICES ASSUME NEW n \in Ranges, n = Root \/ n \in DOMAIN t, Within(range, n),
                      Len(n) + 0 = Len(range)
               PROVE  f[n] = load
    OBVIOUS
  <2>1. n = range
    BY <1>2, <1>3, WithinOrder
  <2>2. Within(n, range)
    BY <2>1, <1>2, WithinOrder
  <2>3. Count(t, n) = load
    BY <2>1, CountFacts
  <2> QED BY <1>1, <2>2, <2>3 DEF BelowAt
<1>6. ASSUME NEW k \in Nat, k \in T PROVE k + 1 \in T
  <2> SUFFICES ASSUME NEW n \in Ranges, n = Root \/ n \in DOMAIN t, Within(range, n),
                      Len(n) + (k + 1) = Len(range)
               PROVE  f[n] = load
    OBVIOUS
  <2>1. Len(n) < Len(range) /\ Len(n) < W
    BY <1>2, <1>3, WAssumption
  <2>2. ~ Within(n, range)
    BY <1>2, <1>3, <2>1, WithinOrder
  <2> DEFINE bit == range[Len(n) + 1]
  <2>3. /\ bit \in Bit /\ Within(range, Append(n, bit))
        /\ \A b \in Bit : Within(range, Append(n, b)) => b = bit
    BY <1>2, <2>1, HalfOf
  <2> HIDE DEF bit
  <2>4. \A b \in Bit : Append(n, b) \in Node /\ Append(n, b) \in Ranges
                         /\ Len(Append(n, b)) = Len(n) + 1
    BY <2>1, ChildFacts
  <2>5. Side(t, f, n, bit) = load
    <3>1. CASE Append(n, bit) \in DOMAIN t
      <4>1. Len(Append(n, bit)) + k = Len(range)
        BY <1>2, <1>3, <2>3, <2>4
      <4>2. f[Append(n, bit)] = load
        BY <1>6, <2>3, <2>4, <3>1, <4>1
      <4> QED BY <3>1, <4>2 DEF Side
    <3>2. CASE Append(n, bit) \notin DOMAIN t
      <4>1. Cardinality(Load(Append(n, bit), L, who)) = 0
        BY <2>3, <2>4, <3>2, CountFacts
      <4>2. load <= Cardinality(Load(Append(n, bit), L, who)) /\ load \in Nat
        BY <1>2, <2>3, <2>4, LoadWithin, CountFacts
      <4>3. load = 0
        BY <4>1, <4>2
      <4> QED BY <3>2, <4>3 DEF Side
    <3> QED BY <3>1, <3>2
  <2>6. ASSUME NEW b \in Bit, b # bit PROVE Side(t, f, n, b) = 0
    <3> DEFINE c == Append(n, b)
    <3>1. c \in Ranges /\ Len(c) = Len(n) + 1 /\ ~ Within(range, c)
      BY <2>3, <2>4, <2>6
    <3> HIDE DEF c
    <3>2. ~ Within(c, range)
      <4> SUFFICES ASSUME Within(c, range) PROVE FALSE
        OBVIOUS
      <4>1. Len(range) <= Len(c)
        BY <1>2, <3>1, WithinOrder
      <4>2. Len(range) = Len(c)
        BY <1>2, <1>3, <2>1, <3>1, <4>1
      <4>3. c = range
        BY <1>2, <3>1, <4>2, WithinOrder
      <4> QED BY <1>2, <3>1, <4>3, WithinOrder
    <3>3. f[c] = 0
      BY <1>1, <3>1, <3>2 DEF BelowAt
    <3> QED BY <3>3 DEF Side, c
  <2>7. load \in Nat
    BY CountFacts
  <2>8. Side(t, f, n, 0) + Side(t, f, n, 1) = load
    BY <2>3, <2>5, <2>6, <2>7 DEF Bit
  <2> QED BY <1>1, <2>2, <2>8 DEF BelowAt
<1> HIDE DEF T
<1>7. Len(range) \in T
  BY <1>2, <1>5, <1>6, Induction
<1>8. Root \in Ranges /\ Len(Root) = 0 /\ Within(range, Root)
  BY <1>2, WithinOrder DEF Ranges, Root
<1>9. Len(Root) + Len(range) = Len(range)
  BY <1>2, <1>8
<1> QED BY <1>7, <1>8, <1>9 DEF T

(* CountInRange counts the requests of a range, whole or not.              *)
LEMMA CountInRangeFacts ==
  ASSUME NEW L, NEW who, Sources(L, who), NEW range \in Ranges
  PROVE  CountInRange(Tally(L, who), range) = Cardinality(Load(range, L, who))
<1> DEFINE t == Tally(L, who)
<1>1. CASE range # Root
  <2>1. range \in Node
    BY <1>1 DEF Ranges
  <2>2. \E f : Below(t, range, f)
    BY BelowExists
  <2> DEFINE f == CHOOSE g : Below(t, range, g)
  <2>3. Below(t, range, f)
    BY <2>2
  <2>4. CountInRange(t, range) = f[Root]
    BY <1>1, CountInRangeIs
  <2> HIDE DEF f
  <2>5. f[Root] = Cardinality(Load(range, L, who))
    BY <2>1, <2>3, BelowFacts
  <2> QED BY <2>4, <2>5
<1>2. CASE range = Root
  <2>1. Root \in Ranges /\ Len(Root) < W /\ Root \notin Node
    BY RangeFacts, WAssumption DEF Ranges, Root
  <2>2. /\ Append(Root, 0) \in Node /\ Append(Root, 1) \in Node
    BY <2>1, ChildFacts DEF Bit
  <2> DEFINE x == Count(t, Append(Root, 0))
             y == Count(t, Append(Root, 1))
  <2>3. /\ x = Cardinality(Load(Append(Root, 0), L, who)) /\ x \in Nat
        /\ y = Cardinality(Load(Append(Root, 1), L, who)) /\ y \in Nat
        /\ x # 0 => Append(Root, 0) \in DOMAIN t
        /\ y # 0 => Append(Root, 1) \in DOMAIN t
    BY <2>2, CountFacts
  <2>4. Cardinality(Load(Root, L, who)) = x + y
    BY <2>1, <2>3, HalvesFacts
  <2>5. CountInRange(t, Root) = IF Children(t, Root) = {} THEN Count(t, Root) ELSE x + y
    BY DEF CountInRange, CountAll, Count
  <2>6. Count(t, Root) = 0
    BY <2>1, TallyFacts DEF Count
  <2>7. Children(t, Root) = {} => Append(Root, 0) \notin DOMAIN t /\ Append(Root, 1) \notin DOMAIN t
    BY DEF Children, Bit
  <2> HIDE DEF x, y
  <2>8. Children(t, Root) = {} => x + y = 0
    BY <2>3, <2>7
  <2> QED BY <1>2, <2>4, <2>5, <2>6, <2>8
<1> QED BY <1>1, <1>2

----------------------------------------------------------------------------
(* Collecting the clusters.                                                *)

Arguments ==
  {a \in [size : Nat \ {0}, minDepth : 0..W, maxDepth : 1..W, threshold : Nat] :
     a.minDepth <= a.maxDepth}

LEMMA ArgumentFacts ==
  ASSUME NEW a \in Arguments
  PROVE  /\ a.size \in Nat \ {0} /\ a.minDepth \in Nat /\ a.maxDepth \in 1..W
         /\ a.maxDepth \in Nat \ {0} /\ a.maxDepth <= W /\ a.minDepth <= a.maxDepth
BY WAssumption DEF Arguments

CollectAt(t, a, f, n) ==
  IF Len(n) = a.maxDepth THEN {m \in {n} : Count(t, m) >= a.size}
  ELSE IF IsCluster(t, n, a) THEN {n}
  ELSE UNION {f[c] : c \in Descends(t, n, a)}
Collect(t, a, f) == f = [n \in {Root} \cup Node |-> CollectAt(t, a, f, n)]

LEMMA CollectCIDRsIs ==
  ASSUME NEW t, NEW a
  PROVE  CollectCIDRs(t, a)
           = IF Children(t, Root) = {} THEN {} ELSE (CHOOSE f : Collect(t, a, f))[Root]
BY DEF CollectCIDRs, Collect, CollectAt

LEMMA CollectExists ==
  ASSUME NEW L, NEW who, Sources(L, who), NEW a
  PROVE  \E f \in [Ranges -> SUBSET Ranges] : Collect(Tally(L, who), a, f)
<1> DEFINE t == Tally(L, who)
           V == SUBSET Ranges
           next == [f \in [Ranges -> V] |-> [n \in Ranges |-> CollectAt(t, a, f, n)]]
<1>1. ASSUME NEW n \in Ranges, NEW c \in Descends(t, n, a)
      PROVE  c \in Ranges /\ Len(n) < Len(c)
  <2>1. c \in Children(t, n)
    BY DEF Descends
  <2>2. c \in Ranges /\ Len(c) = Len(n) + 1 /\ Len(n) \in Nat
    BY <2>1, ChildrenFacts, RangeFacts
  <2> QED BY <2>2
<1> HIDE DEF t
<1>2. ASSUME NEW f \in [Ranges -> V], NEW n \in Ranges PROVE CollectAt(t, a, f, n) \in V
  <2>1. \A c \in Descends(t, n, a) : f[c] \in V
    BY <1>1
  <2> QED BY <2>1 DEF CollectAt
<1>3. next \in [[Ranges -> V] -> [Ranges -> V]]
  BY <1>2
<1>4. DependsDown(next, V)
  <2> SUFFICES ASSUME NEW n \in Ranges, NEW f \in [Ranges -> V], NEW g \in [Ranges -> V],
                      \A c \in Ranges : Len(n) < Len(c) => f[c] = g[c]
               PROVE  next[f][n] = next[g][n]
    BY DEF DependsDown
  <2>1. \A c \in Descends(t, n, a) : f[c] = g[c]
    BY <1>1
  <2>2. {f[c] : c \in Descends(t, n, a)} = {g[c] : c \in Descends(t, n, a)}
    BY <2>1
  <2>3. CollectAt(t, a, f, n) = CollectAt(t, a, g, n)
    BY <2>2 DEF CollectAt
  <2> QED BY <2>3
<1>5. PICK f \in [Ranges -> V] : f = next[f]
  <2> HIDE DEF next
  <2>1. V # {}
    OBVIOUS
  <2> QED BY <1>3, <1>4, <2>1, TreeRecursion
<1>6. Collect(t, a, f)
  BY <1>5 DEF Collect, Ranges
<1> QED BY <1>6 DEF t

(* What is collected at n: heavy ranges of n, within the depths, disjoint; *)
(* and any heavy range of maxDepth bits in n is in one of them.            *)
Reports(t, a, n, found) ==
  /\ \A c \in found : /\ c \in Ranges /\ Within(c, n) /\ Count(t, c) >= a.size
                       /\ a.minDepth <= Len(c) /\ Len(c) <= a.maxDepth
                       /\ \A d \in found : c # d => ~ Within(c, d)
  /\ \A m \in Node : Within(m, n) /\ Len(m) = a.maxDepth /\ Count(t, m) >= a.size =>
       \E c \in found : Within(m, c)

LEMMA ReportsDeep ==
  ASSUME NEW t, NEW a \in Arguments, NEW n \in Ranges, Len(n) = a.maxDepth
  PROVE  Reports(t, a, n, {m \in {n} : Count(t, m) >= a.size})
<1>1. Within(n, n)
  BY WithinOrder
<1>2. \A m \in Node : Within(m, n) /\ Len(m) = a.maxDepth => m = n
  BY WithinOrder DEF Ranges
<1>3. a.minDepth <= Len(n) /\ Len(n) <= a.maxDepth
  BY ArgumentFacts
<1> QED BY <1>1, <1>2, <1>3 DEF Reports

LEMMA ReportsCluster ==
  ASSUME NEW t, NEW a \in Arguments, NEW n \in Ranges, Len(n) < a.maxDepth, IsCluster(t, n, a)
  PROVE  Reports(t, a, n, {n})
<1>1. Within(n, n)
  BY WithinOrder
<1>2. /\ Count(t, n) >= a.size /\ a.minDepth <= Len(n) /\ Len(n) <= a.maxDepth
      /\ Len(n) \in Nat
  <2>1. Len(n) \in Nat /\ a.minDepth \in Nat /\ a.maxDepth \in Nat
    BY ArgumentFacts, RangeFacts
  <2> QED BY <2>1 DEF IsCluster
<1> QED BY <1>1, <1>2 DEF Reports

(* The reports of the children that are heavy enough make that of n.       *)
LEMMA ReportsUnion ==
  ASSUME NEW L, NEW who, Sources(L, who), NEW a \in Arguments,
         NEW n \in Ranges, Len(n) < a.maxDepth, NEW f,
         \A c \in Descends(Tally(L, who), n, a) : Reports(Tally(L, who), a, c, f[c])
  PROVE  Reports(Tally(L, who), a, n, UNION {f[c] : c \in Descends(Tally(L, who), n, a)})
<1> DEFINE t == Tally(L, who)
           D == Descends(t, n, a)
           found == UNION {f[c] : c \in D}
<1>1. /\ a.size \in Nat \ {0} /\ a.maxDepth \in Nat /\ a.maxDepth <= W /\ Len(n) \in Nat
      /\ Len(n) < W
  BY ArgumentFacts, RangeFacts, WAssumption
<1>2. ASSUME NEW e \in D
      PROVE  /\ e \in Ranges /\ Within(e, n) /\ Len(e) = Len(n) + 1
             /\ \E b \in Bit : e = Append(n, b)
  <2>1. e \in Children(t, n)
    BY DEF Descends
  <2> QED BY <2>1, ChildrenFacts DEF Children
<1>3. ASSUME NEW c \in found
      PROVE  \E e \in D : c \in f[e] /\ c \in Ranges /\ Within(c, e)
  <2>1. PICK e \in D : c \in f[e]
    OBVIOUS
  <2> QED BY <2>1 DEF Reports
<1>4. ASSUME NEW c \in found
      PROVE  /\ c \in Ranges /\ Within(c, n) /\ Count(t, c) >= a.size
             /\ a.minDepth <= Len(c) /\ Len(c) <= a.maxDepth
  <2>1. PICK e \in D : c \in f[e]
    OBVIOUS
  <2>2. /\ c \in Ranges /\ Within(c, e) /\ Count(t, c) >= a.size
        /\ a.minDepth <= Len(c) /\ Len(c) <= a.maxDepth
    BY <2>1 DEF Reports
  <2>3. Within(c, n)
    BY <1>2, <2>2, WithinOrder
  <2> QED BY <2>2, <2>3
<1>5. ASSUME NEW c \in found, NEW d \in found, c # d PROVE ~ Within(c, d)
  <2> SUFFICES ASSUME Within(c, d) PROVE FALSE
    OBVIOUS
  <2>1. PICK e \in D : c \in f[e] /\ c \in Ranges /\ Within(c, e)
    BY <1>3
  <2>2. PICK g \in D : d \in f[g] /\ d \in Ranges /\ Within(d, g)
    BY <1>3
  <2>3. /\ e \in Ranges /\ g \in Ranges /\ Len(e) = Len(n) + 1 /\ Len(g) = Len(n) + 1
    BY <1>2
  <2>4. Within(c, g)
    BY <2>1, <2>2, <2>3, WithinOrder
  <2>5. Len(g) <= Len(e)
    BY <1>1, <2>3
  <2>6. Within(e, g)
    BY <2>1, <2>3, <2>4, <2>5, WithinOrder
  <2>7. e = g
    BY <2>3, <2>6, WithinOrder
  <2> QED BY <1>5, <2>1, <2>2, <2>7 DEF Reports
<1>6. ASSUME NEW m \in Node, Within(m, n), Len(m) = a.maxDepth, Count(t, m) >= a.size
      PROVE  \E c \in found : Within(m, c)
  <2>1. m \in Ranges
    BY DEF Ranges
  <2> DEFINE bit == m[Len(n) + 1]
             e == Append(n, bit)
  <2>2. bit \in Bit /\ Within(m, e)
    BY <1>6, <2>1, HalfOf
  <2>3. e \in Node /\ e \in Ranges
    BY <1>1, <2>2, ChildFacts
  <2>4. /\ Count(t, m) = Cardinality(Load(m, L, who)) /\ Cardinality(Load(m, L, who)) \in Nat
        /\ Count(t, e) = Cardinality(Load(e, L, who)) /\ Cardinality(Load(e, L, who)) \in Nat
        /\ e \in DOMAIN t <=> Cardinality(Load(e, L, who)) # 0
    BY <2>3, CountFacts
  <2>5. Cardinality(Load(m, L, who)) <= Cardinality(Load(e, L, who))
    BY <2>1, <2>2, <2>3, LoadWithin
  <2>6. e \in DOMAIN t /\ Count(t, e) >= a.size
    BY <1>1, <1>6, <2>4, <2>5
  <2>7. e \in D
    BY <2>2, <2>6 DEF Descends, Children, Count
  <2>8. PICK c \in f[e] : Within(m, c)
    BY <1>6, <2>2, <2>7 DEF Reports
  <2> QED BY <2>7, <2>8
<1> HIDE DEF found
<1>7. Reports(t, a, n, found)
  BY <1>4, <1>5, <1>6 DEF Reports
<1> QED BY <1>7 DEF found

LEMMA CollectFacts ==
  ASSUME NEW L, NEW who, Sources(L, who), NEW a \in Arguments,
         NEW f, Collect(Tally(L, who), a, f)
  PROVE  Reports(Tally(L, who), a, Root, f[Root])
<1> DEFINE t == Tally(L, who)
           T == {k \in Nat : \A n \in Ranges :
                   Len(n) + k = a.maxDepth => Reports(t, a, n, f[n])}
<1>1. \A n \in Ranges : f[n] = CollectAt(t, a, f, n)
  BY DEF Collect, Ranges
<1>2. /\ a.maxDepth \in Nat /\ \A n \in Ranges : Len(n) \in Nat
  BY ArgumentFacts, RangeFacts
<1>3. 0 \in T
  <2> SUFFICES ASSUME NEW n \in Ranges, Len(n) + 0 = a.maxDepth PROVE Reports(t, a, n, f[n])
    OBVIOUS
  <2>1. Len(n) = a.maxDepth
    BY <1>2
  <2>2. f[n] = {m \in {n} : Count(t, m) >= a.size}
    BY <1>1, <2>1 DEF CollectAt
  <2>3. Reports(t, a, n, {m \in {n} : Count(t, m) >= a.size})
    BY <2>1, ReportsDeep
  <2> QED BY <2>2, <2>3
<1>4. ASSUME NEW k \in Nat, k \in T PROVE k + 1 \in T
  <2> SUFFICES ASSUME NEW n \in Ranges, Len(n) + (k + 1) = a.maxDepth
               PROVE  Reports(t, a, n, f[n])
    OBVIOUS
  <2>1. Len(n) < a.maxDepth /\ Len(n) # a.maxDepth
    BY <1>2
  <2>2. CASE IsCluster(t, n, a)
    <3>1. f[n] = {n}
      BY <1>1, <2>1, <2>2 DEF CollectAt
    <3>2. Reports(t, a, n, {n})
      BY <2>1, <2>2, ReportsCluster
    <3> QED BY <3>1, <3>2
  <2>3. CASE ~ IsCluster(t, n, a)
    <3>1. f[n] = UNION {f[c] : c \in Descends(t, n, a)}
      BY <1>1, <2>1, <2>3 DEF CollectAt
    <3>2. ASSUME NEW c \in Descends(t, n, a) PROVE Reports(t, a, c, f[c])
      <4>1. c \in Children(t, n)
        BY DEF Descends
      <4>2. c \in Ranges /\ Len(c) = Len(n) + 1
        BY <4>1, ChildrenFacts
      <4>3. Len(c) + k = a.maxDepth
        BY <1>2, <4>2
      <4> QED BY <1>4, <4>2, <4>3
    <3> QED BY <2>1, <3>1, <3>2, ReportsUnion
  <2> QED BY <2>2, <2>3
<1> HIDE DEF T
<1>5. a.maxDepth \in T
  BY <1>2, <1>3, <1>4, Induction
<1>6. Root \in Ranges /\ Len(Root) + a.maxDepth = a.maxDepth
  BY <1>2 DEF Ranges, Root
<1> QED BY <1>5, <1>6 DEF T

(* What the detection reports of a trie that counts L.                     *)
LEMMA CollectCIDRsFacts ==
  ASSUME NEW L, NEW who, Sources(L, who), NEW a \in Arguments
  PROVE  Reports(Tally(L, who), a, Root, CollectCIDRs(Tally(L, who), a))
<1> DEFINE t == Tally(L, who)
<1>1. CASE Children(t, Root) = {}
  <2>1. ASSUME NEW m \in Node, Count(t, m) >= a.size PROVE FALSE
    <3>1. a.size \in Nat \ {0}
      BY ArgumentFacts
    <3>2. m \in DOMAIN t
      BY <2>1, <3>1 DEF Count
    <3>3. m \in Ranges /\ Root \in Ranges /\ Within(m, Root) /\ Len(Root) < Len(m)
      BY RangeFacts, WithinOrder DEF Ranges, Root
    <3> DEFINE b == m[Len(Root) + 1]
               c == Append(Root, b)
    <3>4. b \in Bit /\ Within(m, c) /\ Len(Root) < W
      BY <3>3, HalfOf
    <3>5. c \in Node
      BY <3>3, <3>4, ChildFacts
    <3>6. c \in DOMAIN t
      BY <3>2, <3>4, <3>5, TallyFacts
    <3> QED BY <1>1, <3>4, <3>6 DEF Children
  <2> QED BY <1>1, <2>1 DEF CollectCIDRs, Reports
<1>2. CASE Children(t, Root) # {}
  <2> DEFINE f == CHOOSE g : Collect(t, a, g)
  <2>1. Collect(t, a, f)
    BY CollectExists
  <2>2. CollectCIDRs(t, a) = f[Root]
    BY <1>2, CollectCIDRsIs
  <2> HIDE DEF f
  <2> QED BY <2>1, <2>2, CollectFacts
<1> QED BY <1>1, <1>2

LEMMA ArgSetsAreArguments == ArgSets \subseteq Arguments
BY WindowAssumption, Zenon DEF Arguments

----------------------------------------------------------------------------

(* The queue, the trie and the statistics count the same requests, at      *)
(* every step of an update, through evictions, cuts and rebuilds.          *)
THEOREM CountsFollowQueueHolds == Spec => []CountsFollowQueue
<1>1. ASSUME WindowInv PROVE CountsFollowQueue
  <2>1. Phases /\ trie = Tally(Live, Who(queue)) /\ Follows(stats, Live, queue)
    BY <1>1 DEF WindowInv
  <2>2. \A i \in Live : queue[i].ip \in Address /\ Who(queue)[i] = queue[i].ip
    BY <2>1, LiveFacts DEF Sources
  <2>3. \A n \in Node : Load(n, Live, Who(queue)) = {i \in Live : n \in Path(queue[i].ip)}
    BY <2>2, PathIff DEF Load
  <2>4. /\ DOMAIN trie = {n \in Node : Load(n, Live, Who(queue)) # {}}
        /\ \A n \in DOMAIN trie : n \in Node /\ trie[n] = Cardinality(Load(n, Live, Who(queue)))
    BY <2>1, LiveFacts, TallyFacts
  <2>5. \A i \in Live : Path(queue[i].ip) \subseteq Node
    BY <2>2, PathIff
  <2>6. DOMAIN trie = UNION {Path(queue[i].ip) : i \in Live}
    BY <2>3, <2>4, <2>5
  <2>7. \A n \in DOMAIN trie : trie[n] = Cardinality({i \in Live : n \in Path(queue[i].ip)})
    BY <2>3, <2>4
  <2>8. /\ DOMAIN stats = {queue[i].ip : i \in Live}
        /\ \A ip \in DOMAIN stats :
             LET of == {i \in Live : queue[i].ip = ip}
             IN  /\ stats[ip].count = Cardinality(of)
                 /\ \E i \in of : stats[ip].last = queue[i].time /\ \A j \in of : j <= i
    BY <2>1 DEF Follows, Of
  <2> QED BY <2>6, <2>7, <2>8 DEF CountsFollowQueue
<1> QED BY <1>1, WindowInvHolds, PTL

(* The window an update leaves is bounded in number, time and memory.      *)
THEOREM WindowBoundedHolds == Spec => WindowBounded
<1> DEFINE Bounded ==
             pc = "trim" /\ pc' = "idle" =>
               /\ Len(queue') <= MaxEntries
               /\ Len(queue') \in 1..(MaxEntries - 1) => ~ Expired(queue'[1])
               /\ allocated' <= W * (2 * Len(queue') + RebuildMinEvictions)
<1>1. ASSUME WindowInv, [Next]_vars PROVE [Bounded]_vars
  <2> SUFFICES ASSUME pc = "trim", pc' = "idle" PROVE Bounded
    OBVIOUS
  <2>1. EndUpdate
    BY <1>1 DEF Next, Begin, InsertNext, EndInsert, ExpireNext, EndExpire, TrimNext, Evict,
                Tick, vars
  <2> DEFINE n == Len(queue) - evicted
  <2>2. Phases
    BY <1>1 DEF WindowInv
  <2>3. /\ inserted = Len(queue) /\ Len(queue) \in Nat /\ evicted <= Len(queue)
        /\ evicted \in Nat /\ n \in Nat
        /\ Len(queue') = n /\ n <= MaxEntries /\ inserted' = n
        /\ \A k \in 1..n : queue'[k] = queue[k + evicted]
    BY <2>1, <2>2, CutFacts
  <2>4. ASSUME Len(queue') \in 1..(MaxEntries - 1) PROVE ~ Expired(queue'[1])
    <3>1. n \in 1..(MaxEntries - 1) /\ 1 \in 1..n /\ 1 + evicted = evicted + 1
      BY <2>3, <2>4, LimitFacts
    <3>2. queue'[1] = queue[evicted + 1]
      BY <2>3, <3>1
    <3>3. evicted < Len(queue) /\ Len(queue) - evicted < MaxEntries
      BY <2>3, <3>1, LimitFacts
    <3>4. ~ Expired(queue[evicted + 1])
      BY <1>1, <3>3 DEF WindowInv, FreshAtTrim
    <3> QED BY <3>2, <3>4 DEF Expired
  <2>5. allocated' <= W * (2 * Len(queue') + RebuildMinEvictions)
    <3>1. WindowInv'
      BY <1>1, NextWindowInv
    <3>2. /\ allocated' <= W * (n + dead') /\ dead' \in Nat /\ allocated' \in Nat
      BY <2>3, <3>1 DEF WindowInv, MemoryPaid, Phases
    <3>3. dead' < n \/ dead' < RebuildMinEvictions
      BY <2>1, <2>2, <2>3, LimitFacts DEF EndUpdate, RebuildDue, Phases
    <3>4. n + dead' \in Nat /\ 2 * n + RebuildMinEvictions \in Nat
          /\ n + dead' <= 2 * n + RebuildMinEvictions
      BY <2>3, <3>2, <3>3, LimitFacts
    <3>5. /\ W * (n + dead') <= W * (2 * n + RebuildMinEvictions)
          /\ W * (n + dead') \in Nat /\ W * (2 * n + RebuildMinEvictions) \in Nat
      BY <3>4, Times
    <3> HIDE DEF n
    <3>6. allocated' <= W * (2 * n + RebuildMinEvictions)
      <4> DEFINE x == W * (n + dead')
                 y == W * (2 * n + RebuildMinEvictions)
      <4>1. allocated' <= x /\ x <= y /\ x \in Nat /\ y \in Nat /\ allocated' \in Nat
        BY <3>2, <3>5
      <4> HIDE DEF x, y
      <4>2. allocated' <= y
        BY <4>1
      <4> QED BY <4>2 DEF y
    <3> QED BY <2>3, <3>6
  <2> QED BY <2>3, <2>4, <2>5
<1>2. WindowInv /\ [Next]_vars => [Bounded]_vars
  BY <1>1
<1> QED BY <1>2, WindowInvHolds, PTL DEF Spec, WindowBounded

(* What the detection reports of a window: the ranges are disjoint, within *)
(* the depths asked for, and each has the requests asked for; and the      *)
(* count of any range is the number of its requests.                       *)
THEOREM ClustersSoundHolds == Spec => []ClustersSound
<1>1. ASSUME WindowInv PROVE ClustersSound
  <2> DEFINE who == Who(queue)
  <2>1. trie = Tally(Live, who) /\ Sources(Live, who)
    BY <1>1, LiveFacts DEF WindowInv
  <2>2. \A n : Load(n, Live, who) = InRange(n)
    BY <1>1, LiveFacts DEF WindowInv, Load, InRange
  <2> HIDE DEF who
  <2>3. ASSUME NEW a \in ArgSets, NEW c \in CollectCIDRs(trie, a)
        PROVE  /\ Cardinality(InRange(c)) >= a.size
               /\ Len(c) \in a.minDepth..a.maxDepth
               /\ \A d \in CollectCIDRs(trie, a) : c # d => ~ Within(c, d)
    <3>1. a \in Arguments
      BY ArgSetsAreArguments
    <3>2. Reports(trie, a, Root, CollectCIDRs(trie, a))
      BY <2>1, <3>1, CollectCIDRsFacts
    <3>3. /\ c \in Ranges /\ Count(trie, c) >= a.size
          /\ a.minDepth <= Len(c) /\ Len(c) <= a.maxDepth
          /\ \A d \in CollectCIDRs(trie, a) : c # d => ~ Within(c, d)
      BY <3>2 DEF Reports
    <3>4. a.size \in Nat \ {0} /\ a.minDepth \in Nat /\ a.maxDepth \in Nat /\ Len(c) \in Nat
      BY <3>1, <3>3, ArgumentFacts, RangeFacts
    <3>5. c \in DOMAIN trie
      BY <3>3, <3>4 DEF Count
    <3>6. Count(trie, c) = Cardinality(InRange(c))
      BY <2>1, <2>2, <3>5, TallyFacts DEF Count
    <3> QED BY <3>3, <3>4, <3>6
  <2>4. \A range \in {Root} \cup Node : CountInRange(trie, range) = Cardinality(InRange(range))
    BY <2>1, <2>2, CountInRangeFacts DEF Ranges
  <2> QED BY <2>3, <2>4 DEF ClustersSound
<1> QED BY <1>1, WindowInvHolds, PTL

(* Nothing heavy is missed: a range of maxDepth bits with enough requests  *)
(* is in a reported range.                                                 *)
THEOREM HeavyHittersFoundHolds == Spec => []HeavyHittersFound
<1>1. ASSUME WindowInv PROVE HeavyHittersFound
  <2> DEFINE who == Who(queue)
  <2>1. trie = Tally(Live, who) /\ Sources(Live, who)
    BY <1>1, LiveFacts DEF WindowInv
  <2>2. \A n : Load(n, Live, who) = InRange(n)
    BY <1>1, LiveFacts DEF WindowInv, Load, InRange
  <2> HIDE DEF who
  <2>3. ASSUME NEW a \in ArgSets, NEW n \in Node, Len(n) = a.maxDepth,
               Cardinality(InRange(n)) >= a.size
        PROVE  \E c \in CollectCIDRs(trie, a) : Within(n, c)
    <3>1. a \in Arguments
      BY ArgSetsAreArguments
    <3>2. Reports(trie, a, Root, CollectCIDRs(trie, a))
      BY <2>1, <3>1, CollectCIDRsFacts
    <3>3. Count(trie, n) = Cardinality(InRange(n))
      BY <2>1, <2>2, CountFacts
    <3>4. Within(n, Root)
      BY WithinOrder DEF Ranges
    <3> QED BY <2>3, <3>2, <3>3, <3>4 DEF Reports
  <2> QED BY <2>3 DEF HeavyHittersFound
<1> QED BY <1>1, WindowInvHolds, PTL

----------------------------------------------------------------------------
(* Powers of two, and the numbers that are multiples of one.               *)

Doubling(f) == f = [n \in 0..(W + 1) |-> IF n = 0 THEN 1 ELSE 2 * f[n - 1]]

LEMMA Pow2Is == Pow2 = CHOOSE f : Doubling(f)
BY DEF Pow2, Doubling

LEMMA Pow2Facts ==
  /\ Pow2 \in [0..(W + 1) -> Nat \ {0}]
  /\ Pow2[0] = 1
  /\ \A n \in 0..W : Pow2[n + 1] = 2 * Pow2[n]
<1> DEFINE V == Nat \ {0}
           step == [k \in 1..(W + 1) |-> [v \in V |-> 2 * v]]
<1>1. W + 1 \in Nat /\ 1 \in V /\ step \in [1..(W + 1) -> [V -> V]]
  BY WAssumption
<1>2. PICK f \in [0..(W + 1) -> V] : Recursive(f, 1, step, W + 1)
  <2> HIDE DEF V, step
  <2> QED BY <1>1, RecursionExists
<1>3. \A n \in 0..(W + 1) : f[n] = IF n = 0 THEN 1 ELSE step[n][f[n - 1]]
  BY <1>2 DEF Recursive
<1>4. ASSUME NEW n \in 0..(W + 1), n # 0 PROVE step[n][f[n - 1]] = 2 * f[n - 1]
  <2>1. n \in 1..(W + 1) /\ n - 1 \in 0..(W + 1)
    BY <1>4, WAssumption
  <2>2. f[n - 1] \in V
    BY <1>2, <2>1
  <2> QED BY <2>1, <2>2
<1> HIDE DEF step
<1>5. \A n \in 0..(W + 1) : f[n] = IF n = 0 THEN 1 ELSE 2 * f[n - 1]
  BY <1>3, <1>4
<1>6. f = [n \in 0..(W + 1) |-> f[n]]
  BY <1>2
<1>7. Doubling(f)
  BY <1>5, <1>6 DEF Doubling
<1>8. Doubling(Pow2)
  BY <1>7, Pow2Is
<1>9. Pow2 = [n \in 0..(W + 1) |-> IF n = 0 THEN 1 ELSE 2 * Pow2[n - 1]]
  BY <1>8 DEF Doubling
<1> HIDE DEF V
<1>10. \A n \in 0..(W + 1) : Pow2[n] = IF n = 0 THEN 1 ELSE 2 * Pow2[n - 1]
  BY <1>9
<1>11. Pow2[0] = 1
  BY <1>10, WAssumption
<1>12. ASSUME NEW n \in 0..W PROVE Pow2[n + 1] = 2 * Pow2[n]
  <2>1. n + 1 \in 0..(W + 1) /\ n + 1 # 0 /\ (n + 1) - 1 = n
    BY WAssumption
  <2> QED BY <1>10, <2>1
<1> DEFINE T == {n \in Nat : n <= W + 1 => Pow2[n] \in Nat \ {0}}
<1>13. 0 \in T
  BY <1>11
<1>14. ASSUME NEW n \in Nat, n \in T PROVE n + 1 \in T
  <2> SUFFICES ASSUME n + 1 <= W + 1 PROVE Pow2[n + 1] \in Nat \ {0}
    OBVIOUS
  <2>1. n \in 0..W /\ n <= W + 1
    BY WAssumption
  <2>2. Pow2[n] \in Nat \ {0} /\ Pow2[n + 1] = 2 * Pow2[n]
    BY <1>12, <1>14, <2>1
  <2> QED BY <2>2
<1> HIDE DEF T
<1>15. \A n \in Nat : n \in T
  BY <1>13, <1>14, Induction
<1>16. \A n \in 0..(W + 1) : Pow2[n] \in Nat \ {0}
  BY <1>15, WAssumption DEF T
<1> QED BY <1>9, <1>11, <1>12, <1>16

(* x is a multiple of Pow2[n]: an address at which a block of n bits can   *)
(* start.                                                                  *)
Aligned(x, n) == \E q \in Nat : x = q * Pow2[n]

LEMMA Product ==
  ASSUME NEW d \in Nat, NEW p \in Nat
  PROVE  d * p \in Nat /\ (1 + d) * p = p + d * p
OBVIOUS

LEMMA Remainder ==
  ASSUME NEW x \in Nat, NEW p \in Nat \ {0}
  PROVE  \E q \in Nat : \E m \in 0..(p - 1) : x = q * p + m
<1> DEFINE T == {y \in Nat : \E q \in Nat : \E m \in 0..(p - 1) : y = q * p + m}
<1>1. 0 \in T
  <2>1. 0 = 0 * p + 0 /\ 0 \in 0..(p - 1)
    OBVIOUS
  <2> QED BY <2>1
<1>2. ASSUME NEW y \in Nat, y \in T PROVE y + 1 \in T
  <2>1. PICK q \in Nat, m \in 0..(p - 1) : y = q * p + m
    BY <1>2
  <2>2. q * p \in Nat /\ (1 + q) * p = p + q * p
    BY Product
  <2>3. CASE m + 1 < p
    <3>1. m + 1 \in 0..(p - 1)
      BY <2>3
    <3>2. y + 1 = q * p + (m + 1)
      BY <2>1, <2>2
    <3> QED BY <3>1, <3>2
  <2>4. CASE ~ (m + 1 < p)
    <3>1. m + 1 = p /\ 0 \in 0..(p - 1) /\ 1 + q \in Nat
      BY <2>4
    <3>2. y + 1 = (1 + q) * p + 0
      BY <2>1, <2>2, <3>1
    <3>3. y + 1 \in Nat
      OBVIOUS
    <3> QED BY <3>1, <3>2, <3>3
  <2> QED BY <2>3, <2>4
<1> HIDE DEF T
<1>3. x \in T
  BY <1>1, <1>2, Induction
<1> QED BY <1>3 DEF T

LEMMA Multiple ==
  ASSUME NEW q \in Nat, NEW p \in Nat \ {0}, NEW m \in 0..(p - 1)
  PROVE  (q * p + m) % p = m
OBVIOUS

LEMMA AlignedIsMultiple ==
  ASSUME NEW x \in Nat, NEW n \in 0..(W + 1)
  PROVE  Aligned(x, n) <=> x % Pow2[n] = 0
<1>1. Pow2[n] \in Nat \ {0}
  BY Pow2Facts
<1>2. ASSUME Aligned(x, n) PROVE x % Pow2[n] = 0
  <2>1. PICK q \in Nat : x = q * Pow2[n]
    BY <1>2 DEF Aligned
  <2>2. 0 \in 0..(Pow2[n] - 1)
    BY <1>1
  <2>3. (q * Pow2[n] + 0) % Pow2[n] = 0
    BY <1>1, <2>2, Multiple
  <2>4. q * Pow2[n] + 0 = x
    BY <2>1
  <2> QED BY <2>3, <2>4
<1>3. ASSUME x % Pow2[n] = 0 PROVE Aligned(x, n)
  <2>1. PICK q \in Nat, m \in 0..(Pow2[n] - 1) : x = q * Pow2[n] + m
    BY <1>1, Remainder
  <2>2. m = 0
    BY <1>1, <1>3, <2>1, Multiple
  <2>3. q * Pow2[n] \in Nat
    BY <1>1, Product
  <2>4. x = q * Pow2[n]
    BY <2>1, <2>2, <2>3
  <2> QED BY <2>4 DEF Aligned
<1> QED BY <1>2, <1>3

(* Multiples of p are p apart, at least.                                   *)
LEMMA StepsApart ==
  ASSUME NEW p \in Nat \ {0}, NEW i \in Nat, NEW j \in Nat, i * p < j * p
  PROVE  i * p + p <= j * p
<1>1. i < j
  <2>1. CASE j <= i
    <3>1. PICK d \in Nat : i = j + d
      BY <2>1
    <3>2. i * p = j * p + d * p /\ d * p >= 0
      BY <3>1
    <3> QED BY <3>2
  <2> QED BY <2>1
<1>2. PICK d \in Nat : j = (i + 1) + d
  BY <1>1
<1>3. j * p = (i * p + p) + d * p /\ d * p >= 0
  BY <1>2
<1> QED BY <1>3

LEMMA AlignedApart ==
  ASSUME NEW n \in 0..(W + 1), NEW x, NEW y, Aligned(x, n), Aligned(y, n), x < y
  PROVE  x + Pow2[n] <= y
<1>1. PICK i \in Nat : x = i * Pow2[n]
  BY DEF Aligned
<1>2. PICK j \in Nat : y = j * Pow2[n]
  BY DEF Aligned
<1>3. Pow2[n] \in Nat \ {0}
  BY Pow2Facts
<1> QED BY <1>1, <1>2, <1>3, StepsApart

LEMMA AlignedNext ==
  ASSUME NEW n \in 0..(W + 1), NEW x, Aligned(x, n)
  PROVE  x \in Nat /\ Aligned(x + Pow2[n], n)
<1>1. PICK i \in Nat : x = i * Pow2[n]
  BY DEF Aligned
<1>2. Pow2[n] \in Nat \ {0}
  BY Pow2Facts
<1>3. x + Pow2[n] = (i + 1) * Pow2[n] /\ x \in Nat /\ i + 1 \in Nat
  BY <1>1, <1>2
<1> QED BY <1>3 DEF Aligned

(* A larger power is a multiple of a smaller one.                          *)
LEMMA Pow2Multiple ==
  ASSUME NEW m \in 0..(W + 1), NEW n \in m..(W + 1)
  PROVE  \E q \in Nat \ {0} : Pow2[n] = q * Pow2[m]
<1> DEFINE T == {k \in Nat : m + k <= W + 1 => \E q \in Nat \ {0} : Pow2[m + k] = q * Pow2[m]}
<1>1. 0 \in T
  <2>1. Pow2[m + 0] = 1 * Pow2[m]
    BY Pow2Facts
  <2> QED BY <2>1
<1>2. ASSUME NEW k \in Nat, k \in T PROVE k + 1 \in T
  <2> SUFFICES ASSUME m + (k + 1) <= W + 1
               PROVE  \E q \in Nat \ {0} : Pow2[m + (k + 1)] = q * Pow2[m]
    OBVIOUS
  <2>1. m + k <= W + 1 /\ m + k \in 0..W /\ m + (k + 1) = (m + k) + 1
    BY WAssumption
  <2>2. PICK q \in Nat \ {0} : Pow2[m + k] = q * Pow2[m]
    BY <1>2, <2>1
  <2>3. Pow2[m + (k + 1)] = 2 * Pow2[m + k]
    BY <2>1, Pow2Facts
  <2>4. Pow2[m] \in Nat
    BY Pow2Facts
  <2>5. Pow2[m + (k + 1)] = (2 * q) * Pow2[m] /\ 2 * q \in Nat \ {0}
    BY <2>2, <2>3, <2>4
  <2> QED BY <2>5
<1> HIDE DEF T
<1>3. \A k \in Nat : k \in T
  BY <1>1, <1>2, Induction
<1>4. n - m \in Nat /\ m + (n - m) = n /\ n <= W + 1
  BY WAssumption
<1>5. n - m \in T
  BY <1>3, <1>4
<1> QED BY <1>4, <1>5 DEF T

LEMMA Pow2Grows ==
  ASSUME NEW m \in 0..(W + 1), NEW n \in m..(W + 1)
  PROVE  Pow2[m] <= Pow2[n] /\ (m < n => 2 * Pow2[m] <= Pow2[n])
<1>1. n \in 0..(W + 1) /\ m \in Nat /\ n \in Nat
  BY WAssumption
<1>2. Pow2[m] \in Nat \ {0} /\ Pow2[n] \in Nat \ {0}
  BY Pow2Facts, <1>1
<1>3. PICK q \in Nat \ {0} : Pow2[n] = q * Pow2[m]
  BY Pow2Multiple
<1>4. PICK d \in Nat : q = 1 + d
  <2>1. q - 1 \in Nat /\ q = 1 + (q - 1)
    OBVIOUS
  <2> QED BY <2>1
<1>5. d * Pow2[m] \in Nat /\ Pow2[n] = Pow2[m] + d * Pow2[m]
  BY <1>2, <1>3, <1>4, Product
<1>6. ASSUME m < n PROVE 2 * Pow2[m] <= Pow2[n]
  <2>1. m + 1 \in 0..(W + 1) /\ n \in (m + 1)..(W + 1) /\ m \in 0..W
    BY <1>1, <1>6, WAssumption
  <2>2. PICK r \in Nat \ {0} : Pow2[n] = r * Pow2[m + 1]
    BY <2>1, Pow2Multiple
  <2>3. Pow2[m + 1] = 2 * Pow2[m]
    BY <2>1, Pow2Facts
  <2>4. PICK e \in Nat : r = 1 + e
    <3>1. r - 1 \in Nat /\ r = 1 + (r - 1)
      OBVIOUS
    <3> QED BY <3>1
  <2>5. e * Pow2[m + 1] \in Nat /\ Pow2[n] = Pow2[m + 1] + e * Pow2[m + 1]
    <3>1. Pow2[m + 1] \in Nat
      BY <1>2, <2>3
    <3> QED BY <2>2, <2>4, <3>1, Product
  <2> QED BY <1>2, <2>3, <2>5
<1> QED BY <1>2, <1>5, <1>6

LEMMA AlignedDown ==
  ASSUME NEW m \in 0..(W + 1), NEW n \in m..(W + 1), NEW x, Aligned(x, n)
  PROVE  Aligned(x, m)
<1>1. PICK i \in Nat : x = i * Pow2[n]
  BY DEF Aligned
<1>2. PICK q \in Nat \ {0} : Pow2[n] = q * Pow2[m]
  BY Pow2Multiple
<1>3. Pow2[m] \in Nat
  BY Pow2Facts
<1>4. x = (i * q) * Pow2[m] /\ i * q \in Nat
  BY <1>1, <1>2, <1>3
<1> QED BY <1>4 DEF Aligned

(* The block of n + 1 bits that the one of n bits at x is a half of.       *)
LEMMA Halves ==
  ASSUME NEW n \in 0..W, NEW x, Aligned(x, n)
  PROVE  \/ x % Pow2[n + 1] = 0 /\ Aligned(x, n + 1)
         \/ /\ x % Pow2[n + 1] = Pow2[n]
            /\ x >= Pow2[n]
            /\ Aligned(x - Pow2[n], n + 1)
<1>1. n + 1 \in 0..(W + 1) /\ n \in 0..(W + 1) /\ n \in Nat
  BY WAssumption
<1> DEFINE p == Pow2[n]
<1>2. p \in Nat \ {0} /\ Pow2[n + 1] = 2 * p /\ x \in Nat
  BY <1>1, Pow2Facts, AlignedNext
<1>3. PICK i \in Nat : x = i * p
  BY DEF Aligned
<1> HIDE DEF p
<1>4. PICK h \in Nat : i = 2 * h \/ i = 2 * h + 1
  <2>1. i \div 2 \in Nat /\ (i = 2 * (i \div 2) \/ i = 2 * (i \div 2) + 1)
    OBVIOUS
  <2> QED BY <2>1
<1>5. 0 \in 0..(2 * p - 1) /\ p \in 0..(2 * p - 1) /\ 2 * p \in Nat \ {0}
  BY <1>2
<1>6. CASE i = 2 * h
  <2>1. x = h * (2 * p) /\ x = h * (2 * p) + 0
    BY <1>2, <1>3, <1>6
  <2>2. x % (2 * p) = 0
    BY <1>5, <2>1, Multiple
  <2> QED BY <1>2, <2>1, <2>2 DEF Aligned
<1>7. CASE i = 2 * h + 1
  <2>1. x = h * (2 * p) + p /\ x - p = h * (2 * p) /\ h * (2 * p) >= 0
    BY <1>2, <1>3, <1>7
  <2>2. x % (2 * p) = p
    BY <1>5, <2>1, Multiple
  <2>3. x >= p
    BY <1>2, <2>1
  <2> QED BY <1>2, <2>1, <2>2, <2>3 DEF Aligned, p
<1> QED BY <1>4, <1>6, <1>7

----------------------------------------------------------------------------
(* Ranges.                                                                 *)

LEMMA TopFacts == Top \in Nat /\ Pow2[W] = Top + 1 /\ W \in 0..W /\ W \in 0..(W + 1) /\ W \in Nat
<1>1. W \in 0..W /\ W \in 0..(W + 1) /\ W \in Nat
  BY WAssumption
<1>2. Pow2[W] \in Nat \ {0}
  BY <1>1, Pow2Facts
<1> QED BY <1>1, <1>2 DEF Top

LEMMA Wraps ==
  ASSUME NEW x \in Nat
  PROVE  /\ x <= Top => U(x) = x
         /\ x = Top + 1 => U(x) = 0
<1>1. Top \in Nat /\ Pow2[W] = Top + 1 /\ Pow2[W] \in Nat \ {0}
  BY TopFacts
<1>2. ASSUME x <= Top PROVE U(x) = x
  <2>1. x \in 0..(Pow2[W] - 1) /\ 0 * Pow2[W] + x = x /\ 0 \in Nat
    BY <1>1, <1>2
  <2> QED BY <1>1, <2>1, Multiple DEF U
<1>3. ASSUME x = Top + 1 PROVE U(x) = 0
  <2>1. 0 \in 0..(Pow2[W] - 1) /\ 1 * Pow2[W] + 0 = x /\ 1 \in Nat
    BY <1>1, <1>3
  <2> QED BY <1>1, <2>1, Multiple DEF U
<1> QED BY <1>2, <1>3

LEMMA CIDRFacts ==
  ASSUME NEW r \in CIDRs
  PROVE  /\ r.ip \in Nat /\ r.len \in 0..W /\ r = [ip |-> r.ip, len |-> r.len]
         /\ W - r.len \in 0..W /\ W - r.len \in 0..(W + 1)
         /\ Size(r) \in Nat \ {0}
         /\ Aligned(r.ip, W - r.len)
         /\ Start(r) = r.ip /\ End(r) = r.ip + Size(r) - 1
         /\ End(r) \in Nat /\ Start(r) <= End(r) /\ End(r) <= Top
         /\ Addresses(r) = Start(r)..End(r)
<1>1. /\ r.ip \in 0..Top /\ r.len \in 0..W /\ r = [ip |-> r.ip, len |-> r.len]
      /\ r.ip % Size(r) = 0
  BY DEF CIDRs
<1>2. W - r.len \in 0..W /\ W - r.len \in 0..(W + 1) /\ r.ip \in Nat /\ W \in (W - r.len)..(W + 1)
  BY <1>1, TopFacts
<1>3. Size(r) \in Nat \ {0} /\ Size(r) = Pow2[W - r.len]
  BY <1>2, Pow2Facts DEF Size
<1>4. Aligned(r.ip, W - r.len)
  BY <1>1, <1>2, <1>3, AlignedIsMultiple
<1>5. Aligned(Pow2[W], W - r.len)
  <2>1. Aligned(Pow2[W], W)
    <3>1. Pow2[W] = 1 * Pow2[W]
      BY TopFacts
    <3> QED BY <3>1 DEF Aligned
  <2> QED BY <1>2, <2>1, AlignedDown
<1>6. r.ip < Pow2[W]
  BY <1>1, TopFacts
<1>7. r.ip + Size(r) <= Top + 1
  BY <1>2, <1>3, <1>4, <1>5, <1>6, AlignedApart, TopFacts
<1>8. Start(r) = r.ip /\ End(r) = r.ip + Size(r) - 1 /\ Addresses(r) = Start(r)..End(r)
  BY DEF Start, End, Addresses
<1>9. End(r) \in Nat /\ Start(r) <= End(r) /\ End(r) <= Top
  BY <1>2, <1>3, <1>7, <1>8, TopFacts
<1> QED BY <1>1, <1>2, <1>3, <1>4, <1>8, <1>9

(* A block of n bits at an aligned address is a range.                     *)
LEMMA BlockIsRange ==
  ASSUME NEW ip \in 0..Top, NEW n \in 0..W, Aligned(ip, n), NEW len, len = W - n
  PROVE  /\ [ip |-> ip, len |-> len] \in CIDRs
         /\ Start([ip |-> ip, len |-> len]) = ip
         /\ Size([ip |-> ip, len |-> len]) = Pow2[n]
<1> DEFINE r == [ip |-> ip, len |-> len]
<1>1. len \in 0..W /\ W - len = n /\ n \in 0..(W + 1) /\ ip \in Nat
  BY TopFacts
<1>2. Size(r) = Pow2[n]
  BY <1>1 DEF Size
<1>3. ip % Pow2[n] = 0
  BY <1>1, AlignedIsMultiple
<1>4. r \in [ip : 0..Top, len : 0..W] /\ r.ip % Size(r) = 0
  BY <1>1, <1>2, <1>3
<1> QED BY <1>2, <1>4 DEF CIDRs, Start

(* Of two ranges that share the start of one, the one with the shorter     *)
(* prefix holds the other.                                                 *)
LEMMA Nested ==
  ASSUME NEW r \in CIDRs, NEW c \in CIDRs, c.len <= r.len,
         Start(c) <= Start(r), Start(r) <= End(c)
  PROVE  End(r) <= End(c)
<1> DEFINE n == W - r.len
           m == W - c.len
<1>1. n \in 0..(W + 1) /\ m \in n..(W + 1) /\ m \in 0..(W + 1)
  <2>1. r.len \in 0..W /\ c.len \in 0..W /\ W \in Nat
    BY CIDRFacts, TopFacts
  <2> QED BY <2>1
<1>2. Aligned(r.ip, n) /\ Aligned(c.ip, m) /\ Size(c) = Pow2[m] /\ Size(r) = Pow2[n]
  BY CIDRFacts DEF Size
<1>3. Aligned(c.ip + Pow2[m], m)
  BY <1>1, <1>2, AlignedNext
<1>4. Aligned(c.ip + Pow2[m], n)
  BY <1>1, <1>3, AlignedDown
<1>5. r.ip < c.ip + Pow2[m]
  BY <1>2, CIDRFacts
<1>6. r.ip + Pow2[n] <= c.ip + Pow2[m]
  BY <1>1, <1>2, <1>4, <1>5, AlignedApart
<1>7. /\ End(r) = r.ip + Size(r) - 1 /\ End(c) = c.ip + Size(c) - 1
      /\ r.ip \in Nat /\ c.ip \in Nat /\ Size(r) \in Nat /\ Size(c) \in Nat
  BY CIDRFacts
<1> QED BY <1>2, <1>6, <1>7

LEMMA SameStart ==
  ASSUME NEW r \in CIDRs, NEW c \in CIDRs, r.len <= c.len,
         Start(c) <= Start(r), Start(r) <= End(c)
  PROVE  Start(c) = Start(r)
<1> DEFINE n == W - r.len
           m == W - c.len
<1>1. m \in 0..(W + 1) /\ n \in m..(W + 1)
  <2>1. r.len \in 0..W /\ c.len \in 0..W /\ W \in Nat
    BY CIDRFacts, TopFacts
  <2> QED BY <2>1
<1>2. Aligned(r.ip, n) /\ Aligned(c.ip, m) /\ Size(c) = Pow2[m]
  BY CIDRFacts DEF Size
<1>3. Aligned(r.ip, m)
  BY <1>1, <1>2, AlignedDown
<1>4. /\ End(c) = c.ip + Size(c) - 1 /\ Start(c) = c.ip /\ Start(r) = r.ip
      /\ r.ip \in Nat /\ c.ip \in Nat /\ Size(c) \in Nat
  BY CIDRFacts
<1>5. ASSUME c.ip < r.ip PROVE FALSE
  <2>1. c.ip + Pow2[m] <= r.ip
    BY <1>1, <1>2, <1>3, <1>5, AlignedApart
  <2> QED BY <1>2, <1>4, <2>1
<1> QED BY <1>4, <1>5

(* tryMerge takes neighbours that are the halves of a range, and makes     *)
(* that range of them.                                                     *)
LEMMA MergeableFacts ==
  ASSUME NEW a \in CIDRs, NEW b \in CIDRs, Mergeable(a, b), End(a) < Start(b)
  PROVE  /\ Larger(a) \in CIDRs
         /\ Start(Larger(a)) = Start(a)
         /\ End(Larger(a)) = End(b)
         /\ Start(b) = End(a) + 1
<1> DEFINE n == W - a.len
<1>1. a.len = b.len /\ U(a.ip + Size(a)) = b.ip /\ a.len > 0 /\ b.ip \in Addresses(Larger(a))
  BY DEF Mergeable, Size
<1>2. /\ n \in 0..W /\ n + 1 \in 0..W /\ n + 1 \in 0..(W + 1) /\ W - a.len + 1 = n + 1
      /\ n \in 0..(W + 1) /\ a.len - 1 = W - (n + 1) /\ a.len \in Nat
  <2>1. a.len \in 0..W /\ a.len > 0 /\ W \in Nat
    BY <1>1, CIDRFacts, TopFacts
  <2> QED BY <2>1
<1>3. /\ Size(a) = Pow2[n] /\ Size(b) = Pow2[n] /\ Pow2[n + 1] = 2 * Pow2[n]
      /\ Pow2[n] \in Nat \ {0} /\ Aligned(a.ip, n)
  BY <1>1, <1>2, CIDRFacts, Pow2Facts DEF Size
<1>4. /\ a.ip \in Nat /\ b.ip \in Nat /\ Start(a) = a.ip /\ Start(b) = b.ip
      /\ End(a) = a.ip + Size(a) - 1 /\ End(b) = b.ip + Size(b) - 1
      /\ b.ip <= Top /\ End(b) <= Top
  BY CIDRFacts, TopFacts
<1> HIDE DEF n
<1>5. b.ip = a.ip + Pow2[n]
  <2>1. a.ip + Size(a) \in Nat /\ a.ip + Size(a) <= Top
    BY <1>3, <1>4, TopFacts
  <2>2. U(a.ip + Size(a)) = a.ip + Size(a)
    BY <2>1, Wraps
  <2> QED BY <1>1, <1>3, <2>2
<1>6. /\ Larger(a) = [ip |-> a.ip - (a.ip % Pow2[n + 1]), len |-> a.len - 1]
      /\ Size(Larger(a)) = Pow2[n + 1]
      /\ Larger(a).ip = a.ip - (a.ip % Pow2[n + 1])
  <2>1. Larger(a) = [ip |-> a.ip - (a.ip % Pow2[n + 1]), len |-> a.len - 1]
    BY <1>2 DEF Larger
  <2>2. Larger(a).len = a.len - 1 /\ W - (a.len - 1) = n + 1
    BY <1>2, <2>1, TopFacts
  <2> QED BY <2>1, <2>2 DEF Size
<1>7. a.ip % Pow2[n + 1] = 0 /\ Aligned(a.ip, n + 1)
  <2>1. CASE a.ip % Pow2[n + 1] = 0 /\ Aligned(a.ip, n + 1)
    BY <2>1
  <2>2. CASE a.ip % Pow2[n + 1] = Pow2[n]
    <3>1. Larger(a).ip = a.ip - Pow2[n]
      BY <1>6, <2>2
    <3>2. b.ip <= Larger(a).ip + Size(Larger(a)) - 1
      <4>1. b.ip \in Larger(a).ip .. (Larger(a).ip + Size(Larger(a)) - 1)
        BY <1>1 DEF Addresses, Start, End
      <4> QED BY <1>3, <1>4, <1>6, <3>1, <4>1
    <3> QED BY <1>3, <1>4, <1>5, <1>6, <3>1, <3>2
  <2> QED BY <1>2, <1>3, <2>1, <2>2, Halves
<1>8. Larger(a) = [ip |-> a.ip, len |-> a.len - 1]
  BY <1>4, <1>6, <1>7
<1>9. Larger(a) \in CIDRs /\ Start(Larger(a)) = a.ip
  <2>1. a.ip \in 0..Top
    BY <1>3, <1>4, TopFacts
  <2> QED BY <1>2, <1>7, <1>8, <2>1, BlockIsRange
<1>10. End(Larger(a)) = a.ip + Pow2[n + 1] - 1
  BY <1>6, <1>9, CIDRFacts
<1> QED BY <1>3, <1>4, <1>5, <1>9, <1>10

----------------------------------------------------------------------------
(* Sequences of ranges that are apart and in order.                        *)

Apart(s) == \A i, j \in DOMAIN s : i < j => End(s[i]) < Start(s[j])

(* s is what the functions hand on: such a sequence, of the addresses S.   *)
Pieces(s, S) == s \in Seq(CIDRs) /\ Apart(s) /\ Covered(s) = S

AllBelow(S, T) == \A x \in S, y \in T : x < y

LEMMA CoveredIs ==
  ASSUME NEW s
  PROVE  \A x : x \in Covered(s) <=> \E i \in DOMAIN s : x \in Addresses(s[i])
BY DEF Covered

LEMMA PiecesNone == Pieces(<<>>, {})
BY DEF Pieces, Apart, Covered

LEMMA PiecesOne ==
  ASSUME NEW r \in CIDRs
  PROVE  Pieces(<<r>>, Addresses(r))
<1>1. <<r>> \in Seq(CIDRs) /\ DOMAIN <<r>> = {1} /\ <<r>>[1] = r
  OBVIOUS
<1>2. Apart(<<r>>)
  BY <1>1 DEF Apart
<1>3. \A x : x \in Covered(<<r>>) <=> x \in Addresses(r)
  BY <1>1, CoveredIs
<1> QED BY <1>1, <1>2, <1>3 DEF Pieces

LEMMA ConcatIs ==
  ASSUME NEW X, NEW s \in Seq(X), NEW t \in Seq(X)
  PROVE  /\ s \o t \in Seq(X) /\ Len(s \o t) = Len(s) + Len(t)
         /\ \A i \in DOMAIN s : i \in DOMAIN (s \o t) /\ (s \o t)[i] = s[i]
         /\ \A i \in DOMAIN t : Len(s) + i \in DOMAIN (s \o t) /\ (s \o t)[Len(s) + i] = t[i]
         /\ \A i \in DOMAIN (s \o t) : i \in DOMAIN s \/ i - Len(s) \in DOMAIN t
<1>1. Len(s) \in Nat /\ Len(t) \in Nat /\ DOMAIN s = 1..Len(s) /\ DOMAIN t = 1..Len(t)
  OBVIOUS
<1>2. s \o t \in Seq(X) /\ Len(s \o t) = Len(s) + Len(t) /\ DOMAIN (s \o t) = 1..(Len(s) + Len(t))
  OBVIOUS
<1>3. \A i \in 1..(Len(s) + Len(t)) : (s \o t)[i] = IF i <= Len(s) THEN s[i] ELSE t[i - Len(s)]
  OBVIOUS
<1> QED BY <1>1, <1>2, <1>3

LEMMA CoveredConcat ==
  ASSUME NEW s \in Seq(CIDRs), NEW t \in Seq(CIDRs)
  PROVE  Covered(s \o t) = Covered(s) \cup Covered(t)
<1> DEFINE u == s \o t
<1>1. /\ \A i \in DOMAIN s : i \in DOMAIN u /\ u[i] = s[i]
      /\ \A i \in DOMAIN t : Len(s) + i \in DOMAIN u /\ u[Len(s) + i] = t[i]
      /\ \A i \in DOMAIN u : i \in DOMAIN s \/ i - Len(s) \in DOMAIN t
      /\ Len(s) \in Nat /\ DOMAIN u \subseteq Nat
  BY ConcatIs
<1> HIDE DEF u
<1>2. ASSUME NEW x \in Covered(s) PROVE x \in Covered(u)
  BY <1>1, CoveredIs
<1>3. ASSUME NEW x \in Covered(t) PROVE x \in Covered(u)
  BY <1>1, CoveredIs
<1>4. ASSUME NEW x \in Covered(u) PROVE x \in Covered(s) \/ x \in Covered(t)
  <2>1. PICK i \in DOMAIN u : x \in Addresses(u[i])
    BY CoveredIs
  <2>2. CASE i \in DOMAIN s
    BY <1>1, <2>1, <2>2, CoveredIs
  <2>3. CASE i - Len(s) \in DOMAIN t
    <3>1. Len(s) + (i - Len(s)) = i
      BY <1>1
    <3>2. u[i] = t[i - Len(s)]
      BY <1>1, <2>3, <3>1
    <3> QED BY <2>1, <2>3, <3>2, CoveredIs
  <2> QED BY <1>1, <2>2, <2>3
<1> QED BY <1>2, <1>3, <1>4 DEF u

LEMMA PiecesConcat ==
  ASSUME NEW s, NEW S, NEW t, NEW T, Pieces(s, S), Pieces(t, T), AllBelow(S, T)
  PROVE  Pieces(s \o t, S \cup T)
<1> DEFINE u == s \o t
<1>1. /\ s \in Seq(CIDRs) /\ Apart(s) /\ Covered(s) = S
      /\ t \in Seq(CIDRs) /\ Apart(t) /\ Covered(t) = T
  BY DEF Pieces
<1>2. /\ u \in Seq(CIDRs) /\ DOMAIN u = 1..(Len(s) + Len(t))
      /\ DOMAIN s = 1..Len(s) /\ DOMAIN t = 1..Len(t) /\ Len(s) \in Nat /\ Len(t) \in Nat
      /\ \A i \in DOMAIN s : u[i] = s[i]
      /\ \A i \in DOMAIN t : u[Len(s) + i] = t[i]
  BY <1>1, ConcatIs
<1>3. Covered(u) = S \cup T
  BY <1>1, CoveredConcat
<1> HIDE DEF u
<1>4. ASSUME NEW i \in DOMAIN u, NEW j \in DOMAIN u, i < j
      PROVE  End(u[i]) < Start(u[j])
  <2>1. CASE j \in DOMAIN s
    <3>1. i \in DOMAIN s
      BY <1>2, <1>4, <2>1
    <3> QED BY <1>1, <1>2, <1>4, <2>1, <3>1 DEF Apart
  <2>2. CASE i \notin DOMAIN s
    <3> DEFINE k == i - Len(s)
               l == j - Len(s)
    <3>1. k \in DOMAIN t /\ l \in DOMAIN t /\ k < l /\ Len(s) + k = i /\ Len(s) + l = j
      BY <1>2, <1>4, <2>2
    <3> HIDE DEF k, l
    <3>2. u[i] = t[k] /\ u[j] = t[l]
      BY <1>2, <3>1
    <3> QED BY <1>1, <3>1, <3>2 DEF Apart
  <2>3. CASE i \in DOMAIN s /\ j \notin DOMAIN s
    <3> DEFINE l == j - Len(s)
    <3>1. l \in DOMAIN t /\ Len(s) + l = j
      BY <1>2, <2>3
    <3> HIDE DEF l
    <3>2. u[i] = s[i] /\ u[j] = t[l] /\ s[i] \in CIDRs /\ t[l] \in CIDRs
      BY <1>1, <1>2, <2>3, <3>1
    <3>3. End(s[i]) \in Addresses(s[i]) /\ Start(t[l]) \in Addresses(t[l])
      <4>1. \A r \in CIDRs : End(r) \in Addresses(r) /\ Start(r) \in Addresses(r)
        <5> TAKE r \in CIDRs
        <5>1. /\ Start(r) \in Nat /\ End(r) \in Nat /\ Start(r) <= End(r)
              /\ Addresses(r) = Start(r)..End(r)
          BY CIDRFacts
        <5> QED BY <5>1
      <4> QED BY <3>2, <4>1
    <3>4. End(s[i]) \in S /\ Start(t[l]) \in T
      BY <1>1, <2>3, <3>1, <3>3, CoveredIs
    <3> QED BY <3>2, <3>4 DEF AllBelow
  <2> QED BY <2>1, <2>2, <2>3
<1> QED BY <1>2, <1>3, <1>4 DEF Pieces, Apart, u

LEMMA FrontLast ==
  ASSUME NEW X, NEW s \in Seq(X), s # <<>>
  PROVE  /\ Front(s) \in Seq(X) /\ Last(s) \in X
         /\ Len(s) \in Nat \ {0} /\ Len(Front(s)) = Len(s) - 1 /\ Last(s) = s[Len(s)]
         /\ \A i \in 1..(Len(s) - 1) : Front(s)[i] = s[i]
         /\ s = Front(s) \o <<Last(s)>>
<1>0. Len(s) \in Nat \ {0}
  OBVIOUS
<1>1. Len(s) \in Nat \ {0} /\ DOMAIN s = 1..Len(s)
  OBVIOUS
<1>2. Front(s) = SubSeq(s, 1, Len(s) - 1) /\ Last(s) = s[Len(s)]
  BY DEF Front, Last
<1>3. Front(s) \in Seq(X) /\ Len(Front(s)) = Len(s) - 1 /\ Last(s) \in X
  BY <1>1, <1>2
<1>4. \A i \in 1..(Len(s) - 1) : Front(s)[i] = s[i]
  BY <1>1, <1>2
<1> DEFINE u == Front(s) \o <<Last(s)>>
<1>5. /\ u \in Seq(X) /\ Len(u) = Len(s)
      /\ \A i \in DOMAIN Front(s) : u[i] = Front(s)[i]
      /\ u[Len(Front(s)) + 1] = Last(s)
  <2>1. /\ <<Last(s)>> \in Seq(X) /\ Len(<<Last(s)>>) = 1 /\ 1 \in DOMAIN <<Last(s)>>
        /\ <<Last(s)>>[1] = Last(s)
    BY <1>3
  <2>2. u \in Seq(X) /\ Len(u) = Len(Front(s)) + 1
    BY <1>3, <2>1, ConcatIs
  <2>3. \A i \in DOMAIN Front(s) : u[i] = Front(s)[i]
    BY <1>3, <2>1, ConcatIs
  <2>4. u[Len(Front(s)) + 1] = Last(s)
    BY <1>3, <2>1, ConcatIs
  <2>5. Len(u) = Len(s)
    <3>1. Len(Front(s)) = Len(s) - 1 /\ Len(u) = Len(Front(s)) + 1
      BY <1>3, <2>2
    <3> HIDE DEF u
    <3> QED BY <1>0, <3>1
  <2> QED BY <2>2, <2>3, <2>4, <2>5
<1> HIDE DEF u
<1>6. ASSUME NEW i \in 1..Len(s) PROVE u[i] = s[i]
  <2>1. CASE i = Len(s)
    BY <1>1, <1>2, <1>3, <1>5, <2>1
  <2>2. CASE i # Len(s)
    <3>1. i \in 1..(Len(s) - 1)
      BY <1>0, <2>2
    <3>2. i \in 1..Len(Front(s)) /\ DOMAIN Front(s) = 1..Len(Front(s))
      BY <1>3, <3>1
    <3>3. u[i] = Front(s)[i]
      BY <1>5, <3>2
    <3> QED BY <1>4, <3>1, <3>3
  <2> QED BY <2>1, <2>2
<1>7. u = s
  BY <1>5, <1>6
<1> QED BY <1>1, <1>2, <1>3, <1>4, <1>7 DEF u

LEMMA AppendConcat ==
  ASSUME NEW X, NEW s \in Seq(X), NEW e
  PROVE  Append(s, e) = s \o <<e>>
OBVIOUS

LEMMA PiecesFront ==
  ASSUME NEW s, NEW S, Pieces(s, S), s # <<>>
  PROVE  \E T : /\ Pieces(Front(s), T) /\ S = T \cup Addresses(Last(s))
                /\ AllBelow(T, Addresses(Last(s)))
<1>1. s \in Seq(CIDRs) /\ Apart(s) /\ Covered(s) = S
  BY DEF Pieces
<1>2. /\ Front(s) \in Seq(CIDRs) /\ Last(s) \in CIDRs
      /\ Len(s) \in Nat \ {0} /\ Len(Front(s)) = Len(s) - 1 /\ Last(s) = s[Len(s)]
      /\ \A i \in 1..(Len(s) - 1) : Front(s)[i] = s[i]
      /\ s = Front(s) \o <<Last(s)>>
  BY <1>1, FrontLast
<1>3. DOMAIN Front(s) = 1..(Len(s) - 1) /\ DOMAIN s = 1..Len(s)
  BY <1>1, <1>2
<1>4. Apart(Front(s))
  BY <1>1, <1>2, <1>3 DEF Apart
<1>5. S = Covered(Front(s)) \cup Addresses(Last(s))
  <2>1. Covered(s) = Covered(Front(s)) \cup Covered(<<Last(s)>>)
    <3>1. <<Last(s)>> \in Seq(CIDRs)
      BY <1>2
    <3> QED BY <1>2, <3>1, CoveredConcat
  <2> QED BY <1>1, <1>2, <2>1, PiecesOne DEF Pieces
<1>6. ASSUME NEW x \in Covered(Front(s)), NEW y \in Addresses(Last(s)) PROVE x < y
  <2>1. PICK i \in 1..(Len(s) - 1) : x \in Addresses(Front(s)[i])
    BY <1>3, CoveredIs
  <2>2. x \in Addresses(s[i]) /\ End(s[i]) < Start(Last(s)) /\ s[i] \in CIDRs
    BY <1>1, <1>2, <1>3, <2>1 DEF Apart
  <2>3. x \in Start(s[i])..End(s[i]) /\ Start(s[i]) \in Nat /\ End(s[i]) \in Nat
    BY <2>2, CIDRFacts
  <2>4. y \in Start(Last(s))..End(Last(s)) /\ Start(Last(s)) \in Nat
    BY <1>2, CIDRFacts
  <2> QED BY <2>2, <2>3, <2>4
<1> QED BY <1>2, <1>4, <1>5, <1>6 DEF Pieces, AllBelow

----------------------------------------------------------------------------
(* Largest and smallest numbers.                                           *)

LEMMA MaxFacts ==
  ASSUME NEW n \in Nat, NEW S \in SUBSET (0..n), S # {}
  PROVE  Max(S) \in S /\ \A x \in S : x <= Max(S)
<1> DEFINE D == {d \in Nat : \E x \in S : d = n - x}
<1>1. D \in SUBSET Nat /\ D # {}
  <2>1. PICK x \in S : TRUE
    OBVIOUS
  <2>2. n - x \in D
    BY <2>1
  <2> QED BY <2>2
<1>2. PICK d \in D : \A e \in D : d <= e
  BY <1>1, Least
<1>3. PICK m \in S : d = n - m
  BY <1>2
<1>4. \A x \in S : m >= x
  <2> TAKE x \in S
  <2>1. n - x \in D /\ x \in Nat /\ m \in Nat
    OBVIOUS
  <2>2. d <= n - x
    BY <1>2, <2>1
  <2> QED BY <1>3, <2>1, <2>2
<1>5. Max(S) \in S /\ \A x \in S : Max(S) >= x
  BY <1>4 DEF Max
<1> QED BY <1>5

LEMMA MaxOfTwo ==
  ASSUME NEW a \in Nat, NEW b \in Nat
  PROVE  /\ Max({a, b}) \in {a, b} /\ Max({a, b}) \in Nat
         /\ a <= Max({a, b}) /\ b <= Max({a, b})
<1>1. \E m \in {a, b} : \A x \in {a, b} : m >= x
  <2>1. CASE a >= b
    BY <2>1
  <2>2. CASE b >= a
    BY <2>2
  <2> QED BY <2>1, <2>2
<1>2. Max({a, b}) \in {a, b} /\ \A x \in {a, b} : Max({a, b}) >= x
  BY <1>1 DEF Max
<1> QED BY <1>2

LEMMA MinOfTwo ==
  ASSUME NEW a \in Nat, NEW b \in Nat
  PROVE  /\ Min({a, b}) \in {a, b} /\ Min({a, b}) \in Nat
         /\ Min({a, b}) <= a /\ Min({a, b}) <= b
<1>1. \E m \in {a, b} : \A x \in {a, b} : m <= x
  <2>1. CASE a >= b
    BY <2>1
  <2>2. CASE b >= a
    BY <2>2
  <2> QED BY <2>1, <2>2
<1>2. Min({a, b}) \in {a, b} /\ \A x \in {a, b} : Min({a, b}) <= x
  BY <1>1 DEF Min
<1> QED BY <1>2

----------------------------------------------------------------------------
(* Sorting.                                                                *)

InOrder(s) == \A i, j \in DOMAIN s : i < j => ByStart(s[i], s[j])
Elements(s) == {s[i] : i \in DOMAIN s}

LEMMA ElementsCover ==
  ASSUME NEW s, NEW t, Elements(s) = Elements(t)
  PROVE  Covered(s) = Covered(t)
<1>1. \A u : \A x : x \in Covered(u) <=> \E r \in Elements(u) : x \in Addresses(r)
  BY DEF Covered, Elements
<1> QED BY <1>1

LEMMA ByStartOrders ==
  ASSUME NEW a \in CIDRs, NEW b \in CIDRs, NEW c \in CIDRs
  PROVE  /\ ByStart(a, b) \/ ByStart(b, a)
         /\ ByStart(a, b) /\ ByStart(b, c) => ByStart(a, c)
<1>1. /\ a.ip \in Nat /\ b.ip \in Nat /\ c.ip \in Nat
      /\ a.len \in Int /\ b.len \in Int /\ c.len \in Int
  <2>1. W \in Nat
    BY TopFacts
  <2> QED BY CIDRFacts, <2>1
<1> QED BY <1>1 DEF ByStart

LEMMA PlaceFacts ==
  ASSUME NEW t \in Seq(CIDRs), InOrder(t), NEW r \in CIDRs
  PROVE  Place(t, r) \in Seq(CIDRs) /\ InOrder(Place(t, r))
         /\ Elements(Place(t, r)) = Elements(t) \cup {r}
<1> DEFINE S == {0} \cup {i \in DOMAIN t : ByStart(t[i], r)}
           k == Max(S)
           A == SubSeq(t, 1, k)
           C == SubSeq(t, k + 1, Len(t))
           u == Place(t, r)
<1>00. Len(t) \in Nat
  OBVIOUS
<1>0. Len(t) \in Nat /\ DOMAIN t = 1..Len(t)
  OBVIOUS
<1>1. k \in S /\ \A x \in S : x <= k
  <2>1. S \in SUBSET (0..Len(t)) /\ S # {}
    BY <1>0
  <2> HIDE DEF S
  <2> QED BY <1>0, <2>1, MaxFacts
<1>2. k \in 0..Len(t)
  BY <1>0, <1>1
<1>3. u = A \o <<r>> \o C
  BY DEF Place
<1>4. \A i \in DOMAIN t : i <= k => ByStart(t[i], r)
  <2> TAKE i \in DOMAIN t
  <2> HAVE i <= k
  <2>1. k \in DOMAIN t /\ ByStart(t[k], r)
    BY <1>0, <1>1, <1>2
  <2>2. i = k \/ ByStart(t[i], t[k])
    BY <1>0, <1>2, <2>1 DEF InOrder
  <2>3. t[i] \in CIDRs /\ t[k] \in CIDRs
    BY <2>1
  <2> QED BY <2>1, <2>2, <2>3, ByStartOrders
<1>5. \A i \in DOMAIN t : i > k => ByStart(r, t[i])
  <2> TAKE i \in DOMAIN t
  <2> HAVE i > k
  <2>1. i \notin S
    BY <1>0, <1>1, <1>2
  <2>2. ~ ByStart(t[i], r) /\ t[i] \in CIDRs
    BY <2>1
  <2> QED BY <2>2, ByStartOrders
<1> HIDE DEF S, k
<1>6. A \in Seq(CIDRs) /\ Len(A) = k /\ \A i \in 1..k : A[i] = t[i]
  BY <1>0, <1>2
<1>7. /\ C \in Seq(CIDRs) /\ Len(C) = Len(t) - k
      /\ \A i \in 1..(Len(t) - k) : C[i] = t[k + i]
  <2>1. k + 1 \in Int /\ Len(t) \in Int /\ k \in Int
    BY <1>0, <1>2
  <2>2. \A i \in (k + 1)..Len(t) : t[i] \in CIDRs
    BY <1>0, <1>2
  <2>3. /\ C \in Seq(CIDRs)
        /\ Len(C) = IF k + 1 <= Len(t) THEN Len(t) - (k + 1) + 1 ELSE 0
        /\ \A i \in 1..(Len(t) - (k + 1) + 1) : C[i] = t[(k + 1) + i - 1]
    BY <2>1, <2>2, SubSeqProperties
  <2> HIDE DEF C
  <2>4. Len(t) - (k + 1) + 1 = Len(t) - k /\ \A i \in Int : (k + 1) + i - 1 = k + i
    BY <2>1
  <2>5. Len(C) = Len(t) - k
    BY <1>00, <1>2, <2>3
  <2>6. ASSUME NEW i \in 1..(Len(t) - k) PROVE C[i] = t[k + i]
    <3>1. i \in 1..(Len(t) - (k + 1) + 1) /\ (k + 1) + i - 1 = k + i
      BY <1>00, <1>2
    <3> QED BY <2>3, <3>1
  <2> QED BY <2>3, <2>5, <2>6
<1> HIDE DEF A, C
<1> DEFINE B == A \o <<r>>
<1>8. B \in Seq(CIDRs) /\ Len(B) = k + 1 /\ (\A i \in 1..k : B[i] = t[i]) /\ B[k + 1] = r
  <2>1. B = Append(A, r)
    BY <1>6
  <2> HIDE DEF B
  <2> QED BY <1>2, <1>6, <2>1
<1> HIDE DEF B
<1>9. u = B \o C
  BY <1>3 DEF B
<1> HIDE DEF u
<1>10. /\ u \in Seq(CIDRs) /\ Len(u) = Len(t) + 1
       /\ \A i \in 1..k : u[i] = t[i]
       /\ u[k + 1] = r
       /\ \A i \in (k + 2)..(Len(t) + 1) : u[i] = t[i - 1]
  <2>1. /\ DOMAIN B = 1..(k + 1) /\ DOMAIN C = 1..(Len(t) - k)
    BY <1>7, <1>8
  <2>2. /\ u \in Seq(CIDRs) /\ Len(u) = (k + 1) + (Len(t) - k)
        /\ \A i \in 1..(k + 1) : u[i] = B[i]
        /\ \A i \in 1..(Len(t) - k) : u[(k + 1) + i] = C[i]
    <3>1. B \in Seq(CIDRs) /\ C \in Seq(CIDRs) /\ Len(B) = k + 1 /\ Len(C) = Len(t) - k
      BY <1>7, <1>8
    <3>2. /\ u \in Seq(CIDRs) /\ Len(u) = Len(B) + Len(C)
          /\ \A i \in DOMAIN B : u[i] = B[i]
          /\ \A i \in DOMAIN C : u[Len(B) + i] = C[i]
      <4>1. B \o C \in Seq(CIDRs) /\ Len(B \o C) = Len(B) + Len(C)
        BY <3>1, ConcatIs
      <4>2. \A i \in DOMAIN B : (B \o C)[i] = B[i]
        BY <3>1, ConcatIs
      <4>3. \A i \in DOMAIN C : (B \o C)[Len(B) + i] = C[i]
        BY <3>1, ConcatIs
      <4> QED BY <1>9, <4>1, <4>2, <4>3
    <3> QED BY <2>1, <3>1, <3>2
  <2>3. Len(u) = Len(t) + 1
    BY <1>00, <1>2, <2>2
  <2>4. \A i \in 1..k : u[i] = t[i]
    BY <1>2, <1>8, <2>2
  <2>5. u[k + 1] = r
    BY <1>2, <1>8, <2>2
  <2>6. ASSUME NEW i \in (k + 2)..(Len(t) + 1) PROVE u[i] = t[i - 1]
    <3> DEFINE l == i - (k + 1)
    <3>1. l \in 1..(Len(t) - k) /\ (k + 1) + l = i /\ k + l = i - 1
      BY <1>0, <1>2
    <3> HIDE DEF l
    <3> QED BY <1>7, <2>2, <3>1
  <2> QED BY <2>2, <2>3, <2>4, <2>5, <2>6
<1>11. DOMAIN u = 1..(Len(t) + 1)
  BY <1>10
<1>12. InOrder(u)
  <2> SUFFICES ASSUME NEW i \in 1..(Len(t) + 1), NEW j \in 1..(Len(t) + 1), i < j
               PROVE  ByStart(u[i], u[j])
    BY <1>11 DEF InOrder
  <2>1. CASE j <= k
    <3>1. u[i] = t[i] /\ u[j] = t[j] /\ i \in DOMAIN t /\ j \in DOMAIN t
      BY <1>0, <1>2, <1>10, <2>1
    <3> QED BY <3>1 DEF InOrder
  <2>2. CASE i > k + 1
    <3>1. /\ u[i] = t[i - 1] /\ u[j] = t[j - 1] /\ i - 1 \in DOMAIN t /\ j - 1 \in DOMAIN t
          /\ i - 1 < j - 1
      BY <1>0, <1>2, <1>10, <2>2
    <3> QED BY <3>1 DEF InOrder
  <2>3. CASE i <= k /\ j = k + 1
    <3>1. u[i] = t[i] /\ u[j] = r /\ i \in DOMAIN t
      BY <1>0, <1>2, <1>10, <2>3
    <3> QED BY <1>4, <2>3, <3>1
  <2>4. CASE i <= k /\ j > k + 1
    <3>1. u[i] = t[i] /\ u[j] = t[j - 1] /\ i \in DOMAIN t /\ j - 1 \in DOMAIN t /\ i < j - 1
      BY <1>0, <1>2, <1>10, <2>4
    <3> QED BY <3>1 DEF InOrder
  <2>5. CASE i = k + 1
    <3>1. u[i] = r /\ u[j] = t[j - 1] /\ j - 1 \in DOMAIN t /\ j - 1 > k
      BY <1>0, <1>2, <1>10, <2>5
    <3> QED BY <1>5, <3>1
  <2> QED BY <1>2, <2>1, <2>2, <2>3, <2>4, <2>5
<1>13. Elements(u) = Elements(t) \cup {r}
  <2>1. ASSUME NEW x \in Elements(u) PROVE x \in Elements(t) \cup {r}
    <3>1. PICK i \in 1..(Len(t) + 1) : x = u[i]
      BY <1>11 DEF Elements
    <3>2. CASE i <= k
      <4>1. i \in DOMAIN t /\ x = t[i]
        BY <1>0, <1>2, <1>10, <3>1, <3>2
      <4> QED BY <4>1 DEF Elements
    <3>3. CASE i = k + 1
      BY <1>10, <3>1, <3>3
    <3>4. CASE i > k + 1
      <4>1. i - 1 \in DOMAIN t /\ x = t[i - 1]
        BY <1>0, <1>2, <1>10, <3>1, <3>4
      <4> QED BY <4>1 DEF Elements
    <3> QED BY <1>2, <3>2, <3>3, <3>4
  <2>2. r \in Elements(u)
    <3>1. k + 1 \in 1..(Len(t) + 1) /\ u[k + 1] = r
      BY <1>0, <1>2, <1>10
    <3> QED BY <1>11, <3>1 DEF Elements
  <2>3. ASSUME NEW x \in Elements(t) PROVE x \in Elements(u)
    <3>1. PICK i \in 1..Len(t) : x = t[i]
      BY <1>0 DEF Elements
    <3>2. CASE i <= k
      <4>1. i \in 1..(Len(t) + 1) /\ x = u[i]
        BY <1>0, <1>2, <1>10, <3>1, <3>2
      <4> QED BY <1>11, <4>1 DEF Elements
    <3>3. CASE i > k
      <4>1. i + 1 \in (k + 2)..(Len(t) + 1) /\ i + 1 \in 1..(Len(t) + 1) /\ (i + 1) - 1 = i
        BY <1>0, <1>2, <3>3
      <4>2. x = u[i + 1]
        BY <1>10, <3>1, <4>1
      <4> QED BY <1>11, <4>1, <4>2 DEF Elements
    <3> QED BY <1>2, <3>2, <3>3
  <2> QED BY <2>1, <2>2, <2>3
<1> QED BY <1>10, <1>12, <1>13 DEF u

Placing(s, f) == f = [n \in 0..Len(s) |-> IF n = 0 THEN <<>> ELSE Place(f[n - 1], s[n])]

LEMMA SortedIsPlaced ==
  ASSUME NEW s
  PROVE  Sorted(s) = (CHOOSE f : Placing(s, f))[Len(s)]
BY DEF Sorted, Placing

LEMMA SortedIs ==
  ASSUME NEW s \in Seq(CIDRs)
  PROVE  \E f : /\ f[0] = <<>>
                /\ \A n \in 1..Len(s) : f[n] = Place(f[n - 1], s[n])
                /\ Sorted(s) = f[Len(s)]
<1> DEFINE V == {v \in Seq(CIDRs) : InOrder(v)}
           N == Len(s)
           step == [n \in 1..N |-> [v \in V |-> Place(v, s[n])]]
<1>1. N \in Nat /\ <<>> \in V /\ \A n \in 1..N : s[n] \in CIDRs
  BY DEF InOrder
<1>2. step \in [1..N -> [V -> V]]
  BY <1>1, PlaceFacts
<1>3. \A n \in 1..N : \A v \in V : step[n][v] = Place(v, s[n])
  OBVIOUS
<1> HIDE DEF V, step
<1>4. PICK g \in [0..N -> V] : Recursive(g, <<>>, step, N)
  BY <1>1, <1>2, RecursionExists
<1>5. Placing(s, g)
  <2>1. g = [n \in 0..N |-> IF n = 0 THEN <<>> ELSE step[n][g[n - 1]]]
    BY <1>4 DEF Recursive
  <2>2. ASSUME NEW n \in 0..N, n # 0 PROVE step[n][g[n - 1]] = Place(g[n - 1], s[n])
    <3>1. n \in 1..N /\ n - 1 \in 0..N
      BY <1>1, <2>2
    <3> QED BY <1>3, <1>4, <3>1
  <2> QED BY <2>1, <2>2 DEF Placing
<1> DEFINE f == CHOOSE f : Placing(s, f)
<1>6. Placing(s, f) /\ Sorted(s) = f[N]
  BY <1>5, SortedIsPlaced
<1> HIDE DEF f
<1>7. \A n \in 0..N : f[n] = IF n = 0 THEN <<>> ELSE Place(f[n - 1], s[n])
  BY <1>6 DEF Placing
<1>8. f[0] = <<>> /\ \A n \in 1..N : f[n] = Place(f[n - 1], s[n])
  <2>1. 0 \in 0..N /\ \A n \in 1..N : n \in 0..N /\ n # 0
    BY <1>1
  <2> QED BY <1>7, <2>1
<1> QED BY <1>6, <1>8

LEMMA SortedFacts ==
  ASSUME NEW s \in Seq(CIDRs)
  PROVE  Sorted(s) \in Seq(CIDRs) /\ InOrder(Sorted(s)) /\ Elements(Sorted(s)) = Elements(s)
<1>1. PICK f : /\ f[0] = <<>>
               /\ \A n \in 1..Len(s) : f[n] = Place(f[n - 1], s[n])
               /\ Sorted(s) = f[Len(s)]
  BY SortedIs
<1>2. Len(s) \in Nat /\ \A n \in 1..Len(s) : s[n] \in CIDRs
  OBVIOUS
<1> DEFINE P(n) == f[n] \in Seq(CIDRs) /\ InOrder(f[n]) /\ Elements(f[n]) = {s[i] : i \in 1..n}
           T == {n \in Nat : n <= Len(s) => P(n)}
<1>3. 0 \in T
  <2>1. <<>> \in Seq(CIDRs) /\ InOrder(<<>>) /\ Elements(<<>>) = {}
    BY DEF InOrder, Elements
  <2>2. {s[i] : i \in 1..0} = {}
    OBVIOUS
  <2> QED BY <1>1, <2>1, <2>2
<1>4. ASSUME NEW n \in Nat, n \in T PROVE n + 1 \in T
  <2> SUFFICES ASSUME n + 1 <= Len(s) PROVE P(n + 1)
    OBVIOUS
  <2>1. P(n)
    BY <1>2, <1>4
  <2>2. n + 1 \in 1..Len(s) /\ (n + 1) - 1 = n
    BY <1>2
  <2>3. f[n + 1] = Place(f[n], s[n + 1]) /\ s[n + 1] \in CIDRs
    BY <1>1, <1>2, <2>2
  <2>4. /\ f[n + 1] \in Seq(CIDRs) /\ InOrder(f[n + 1])
        /\ Elements(f[n + 1]) = Elements(f[n]) \cup {s[n + 1]}
    BY <2>1, <2>3, PlaceFacts
  <2>5. {s[i] : i \in 1..(n + 1)} = {s[i] : i \in 1..n} \cup {s[n + 1]}
    <3>1. 1..(n + 1) = (1..n) \cup {n + 1}
      OBVIOUS
    <3> QED BY <3>1
  <2> QED BY <2>1, <2>4, <2>5
<1> HIDE DEF T
<1>5. Len(s) \in T
  BY <1>2, <1>3, <1>4, Induction
<1>6. P(Len(s))
  BY <1>2, <1>5 DEF T
<1>7. Elements(s) = {s[i] : i \in 1..Len(s)}
  BY DEF Elements
<1> QED BY <1>1, <1>6, <1>7

----------------------------------------------------------------------------
(* removeContained.                                                        *)

Sweeping(t, f) ==
  f = [n \in 0..Len(t) |->
         IF n = 0 THEN [active |-> {}, kept |-> <<>>] ELSE Sweep(f[n - 1], t[n])]

LEMMA RemoveContainedSweeps ==
  ASSUME NEW s
  PROVE  RemoveContained(s) = (CHOOSE f : Sweeping(Sorted(s), f))[Len(Sorted(s))].kept
BY DEF RemoveContained, Sweeping

(* What a container that is still open has to do with the next range.      *)
Open(acc, r) == {c \in acc.active : End(c) >= Start(r)}
Contained(acc, r) == \E c \in Open(acc, r) : c.len <= r.len /\ End(c) >= End(r)

LEMMA SweepIs ==
  ASSUME NEW acc, NEW r
  PROVE  Sweep(acc, r) =
           [active |-> IF Contained(acc, r) THEN Open(acc, r) ELSE Open(acc, r) \cup {r},
            kept |-> IF Contained(acc, r) THEN acc.kept ELSE Append(acc.kept, r)]
BY DEF Sweep, Contained, Open

Swept == [active : SUBSET CIDRs, kept : Seq(CIDRs)]

LEMMA SweepTyped ==
  ASSUME NEW acc \in Swept, NEW r \in CIDRs
  PROVE  Sweep(acc, r) \in Swept
<1>1. Open(acc, r) \in SUBSET CIDRs /\ acc.kept \in Seq(CIDRs)
  BY DEF Swept, Open
<1>2. Append(acc.kept, r) \in Seq(CIDRs)
  BY <1>1
<1> DEFINE a == IF Contained(acc, r) THEN Open(acc, r) ELSE Open(acc, r) \cup {r}
           k == IF Contained(acc, r) THEN acc.kept ELSE Append(acc.kept, r)
<1>3. a \in SUBSET CIDRs /\ k \in Seq(CIDRs)
  BY <1>1, <1>2
<1>4. Sweep(acc, r) = [active |-> a, kept |-> k]
  BY SweepIs
<1> HIDE DEF a, k
<1> QED BY <1>3, <1>4 DEF Swept

(* What is kept covers the ranges before, piece by piece, and of these the *)
(* ones that are not passed yet are active.                                *)
SweptTo(acc, S, r) ==
  /\ acc \in Swept
  /\ Pieces(acc.kept, S)
  /\ \A c \in Elements(acc.kept) : ByStart(c, r) /\ (c \in acc.active \/ End(c) < Start(r))
  /\ acc.active \subseteq Elements(acc.kept)

LEMMA SweepFacts ==
  ASSUME NEW acc, NEW S, NEW r \in CIDRs, SweptTo(acc, S, r)
  PROVE  /\ Sweep(acc, r) \in Swept
         /\ Pieces(Sweep(acc, r).kept, S \cup Addresses(r))
         /\ Elements(Sweep(acc, r).kept) \subseteq Elements(acc.kept) \cup {r}
         /\ Sweep(acc, r).active \subseteq Elements(Sweep(acc, r).kept)
         /\ \A c \in Elements(Sweep(acc, r).kept) :
              c \in Sweep(acc, r).active \/ End(c) < Start(r)
<1> DEFINE next == Sweep(acc, r)
<1>1. /\ acc \in Swept /\ Pieces(acc.kept, S) /\ acc.active \subseteq Elements(acc.kept)
      /\ \A c \in Elements(acc.kept) : ByStart(c, r) /\ (c \in acc.active \/ End(c) < Start(r))
  BY DEF SweptTo
<1>2. /\ next.active = IF Contained(acc, r) THEN Open(acc, r) ELSE Open(acc, r) \cup {r}
      /\ next.kept = IF Contained(acc, r) THEN acc.kept ELSE Append(acc.kept, r)
      /\ next \in Swept
  BY <1>1, SweepIs, SweepTyped
<1> HIDE DEF next
<1>3. acc.kept \in Seq(CIDRs) /\ Elements(acc.kept) \subseteq CIDRs
  BY <1>1 DEF Pieces, Elements
<1>4. CASE Contained(acc, r)
  <2>1. next.kept = acc.kept /\ next.active = Open(acc, r)
    BY <1>2, <1>4
  <2>2. PICK c \in Open(acc, r) : c.len <= r.len /\ End(c) >= End(r)
    BY <1>4 DEF Contained
  <2>3. c \in acc.active /\ c \in Elements(acc.kept) /\ c \in CIDRs /\ ByStart(c, r)
    BY <1>1, <1>3, <2>2 DEF Open
  <2>4. /\ c.ip \in Nat /\ r.ip \in Nat /\ Start(c) = c.ip /\ Start(r) = r.ip
        /\ End(c) \in Nat /\ End(r) \in Nat
        /\ Addresses(c) = Start(c)..End(c) /\ Addresses(r) = Start(r)..End(r)
    BY <2>3, CIDRFacts
  <2>5. Addresses(r) \subseteq Addresses(c)
    <3>1. Start(c) <= Start(r) /\ End(r) <= End(c)
      BY <2>2, <2>3, <2>4 DEF ByStart
    <3> QED BY <2>4, <3>1
  <2>6. Addresses(c) \subseteq S
    <3>1. PICK i \in DOMAIN acc.kept : c = acc.kept[i]
      BY <2>3 DEF Elements
    <3> QED BY <1>1, <3>1, CoveredIs DEF Pieces
  <2>7. S \cup Addresses(r) = S
    BY <2>5, <2>6
  <2>8. \A d \in Elements(next.kept) : d \in next.active \/ End(d) < Start(r)
    <3> TAKE d \in Elements(next.kept)
    <3>1. d \in CIDRs /\ (d \in acc.active \/ End(d) < Start(r))
      BY <1>1, <1>3, <2>1
    <3>2. End(d) \in Nat
      BY <3>1, CIDRFacts
    <3> QED BY <2>1, <2>4, <3>1, <3>2 DEF Open
  <2>9. next.active \subseteq Elements(next.kept)
    BY <1>1, <2>1 DEF Open
  <2> QED BY <1>1, <1>2, <2>1, <2>7, <2>8, <2>9 DEF next
<1>5. CASE ~ Contained(acc, r)
  <2>1. next.kept = Append(acc.kept, r) /\ next.active = Open(acc, r) \cup {r}
    BY <1>2, <1>5
  <2>2. \A c \in Elements(acc.kept) : End(c) < Start(r)
    <3> SUFFICES ASSUME NEW c \in Elements(acc.kept), ~ (End(c) < Start(r)) PROVE FALSE
      OBVIOUS
    <3>1. c \in CIDRs /\ c \in acc.active /\ ByStart(c, r)
      BY <1>1, <1>3
    <3>2. /\ c.ip \in Nat /\ r.ip \in Nat /\ Start(c) = c.ip /\ Start(r) = r.ip
          /\ End(c) \in Nat /\ End(r) \in Nat /\ c.len \in Int /\ r.len \in Int
      <4>1. W \in Nat
        BY TopFacts
      <4> QED BY <3>1, <4>1, CIDRFacts
    <3>3. Start(c) <= Start(r) /\ Start(r) <= End(c) /\ c \in Open(acc, r)
      BY <3>1, <3>2 DEF ByStart, Open
    <3>4. CASE c.len <= r.len
      <4>1. End(r) <= End(c)
        BY <3>1, <3>3, <3>4, Nested
      <4> QED BY <1>5, <3>2, <3>3, <3>4, <4>1 DEF Contained
    <3>5. CASE r.len < c.len
      <4>1. Start(c) = Start(r)
        <5>1. r.len <= c.len
          BY <3>2, <3>5
        <5> QED BY <3>1, <3>3, <5>1, SameStart
      <4> QED BY <3>1, <3>2, <3>5, <4>1 DEF ByStart
    <3> QED BY <3>2, <3>4, <3>5
  <2>3. AllBelow(S, Addresses(r))
    <3> SUFFICES ASSUME NEW x \in S, NEW y \in Addresses(r) PROVE x < y
      BY DEF AllBelow
    <3>1. PICK i \in DOMAIN acc.kept : x \in Addresses(acc.kept[i])
      BY <1>1, CoveredIs DEF Pieces
    <3>2. acc.kept[i] \in Elements(acc.kept) /\ acc.kept[i] \in CIDRs
      BY <1>3, <3>1 DEF Elements
    <3>3. x \in Start(acc.kept[i])..End(acc.kept[i]) /\ Start(acc.kept[i]) \in Nat
          /\ End(acc.kept[i]) \in Nat /\ End(acc.kept[i]) < Start(r)
      BY <2>2, <3>1, <3>2, CIDRFacts
    <3>4. y \in Start(r)..End(r) /\ Start(r) \in Nat
      BY CIDRFacts
    <3> QED BY <3>3, <3>4
  <2>4. Pieces(Append(acc.kept, r), S \cup Addresses(r))
    <3>1. Append(acc.kept, r) = acc.kept \o <<r>>
      BY <1>3, AppendConcat
    <3> QED BY <1>1, <2>3, <3>1, PiecesConcat, PiecesOne
  <2>5. Elements(next.kept) = Elements(acc.kept) \cup {r}
    <3>1. DOMAIN acc.kept = 1..Len(acc.kept) /\ DOMAIN next.kept = 1..(Len(acc.kept) + 1)
          /\ Len(acc.kept) \in Nat
      BY <1>3, <2>1
    <3>2. next.kept[Len(acc.kept) + 1] = r /\ \A i \in 1..Len(acc.kept) : next.kept[i] = acc.kept[i]
      BY <1>3, <2>1
    <3>3. 1..(Len(acc.kept) + 1) = (1..Len(acc.kept)) \cup {Len(acc.kept) + 1}
      BY <3>1
    <3> QED BY <3>1, <3>2, <3>3 DEF Elements
  <2>6. \A d \in Elements(next.kept) : d \in next.active \/ End(d) < Start(r)
    BY <2>1, <2>2, <2>5
  <2>7. next.active \subseteq Elements(next.kept)
    BY <1>1, <2>1, <2>5 DEF Open
  <2> QED BY <1>2, <2>1, <2>4, <2>5, <2>6, <2>7 DEF next
<1> QED BY <1>4, <1>5

(* The addresses of the first n ranges.                                    *)
CoveredTo(t, n) == UNION {Addresses(t[i]) : i \in 1..n}

LEMMA CoveredToIs ==
  ASSUME NEW t
  PROVE  /\ CoveredTo(t, 0) = {}
         /\ \A n \in Nat : CoveredTo(t, n + 1) = CoveredTo(t, n) \cup Addresses(t[n + 1])
<1>1. \A n : \A x : x \in CoveredTo(t, n) <=> \E i \in 1..n : x \in Addresses(t[i])
  BY DEF CoveredTo
<1>2. CoveredTo(t, 0) = {}
  BY <1>1
<1>3. ASSUME NEW n \in Nat PROVE CoveredTo(t, n + 1) = CoveredTo(t, n) \cup Addresses(t[n + 1])
  <2>1. 1..(n + 1) = (1..n) \cup {n + 1}
    OBVIOUS
  <2>2. \A x : x \in CoveredTo(t, n + 1) <=> x \in CoveredTo(t, n) \/ x \in Addresses(t[n + 1])
    BY <1>1, <2>1
  <2> QED BY <2>2
<1> QED BY <1>2, <1>3

LEMMA CoveredToAll ==
  ASSUME NEW X, NEW t \in Seq(X)
  PROVE  CoveredTo(t, Len(t)) = Covered(t)
BY DEF CoveredTo, Covered

LEMMA RemoveContainedIs ==
  ASSUME NEW t \in Seq(CIDRs), NEW s, t = Sorted(s)
  PROVE  \E f : /\ f[0] = [active |-> {}, kept |-> <<>>]
                /\ \A n \in 1..Len(t) : f[n] = Sweep(f[n - 1], t[n])
                /\ RemoveContained(s) = f[Len(t)].kept
<1> DEFINE N == Len(t)
           base == [active |-> {}, kept |-> <<>>]
           step == [n \in 1..N |-> [v \in Swept |-> Sweep(v, t[n])]]
<1>1. N \in Nat /\ \A n \in 1..N : t[n] \in CIDRs
  OBVIOUS
<1>2. base \in Swept
  BY DEF Swept
<1>3. step \in [1..N -> [Swept -> Swept]]
  BY <1>1, SweepTyped
<1>4. \A n \in 1..N : \A v \in Swept : step[n][v] = Sweep(v, t[n])
  OBVIOUS
<1> HIDE DEF base, step
<1>5. PICK g \in [0..N -> Swept] : Recursive(g, base, step, N)
  BY <1>1, <1>2, <1>3, RecursionExists
<1>6. Sweeping(t, g)
  <2>1. g = [n \in 0..N |-> IF n = 0 THEN base ELSE step[n][g[n - 1]]]
    BY <1>5 DEF Recursive
  <2>2. ASSUME NEW n \in 0..N, n # 0 PROVE step[n][g[n - 1]] = Sweep(g[n - 1], t[n])
    <3>1. n \in 1..N /\ n - 1 \in 0..N
      BY <1>1, <2>2
    <3> QED BY <1>4, <1>5, <3>1
  <2> QED BY <2>1, <2>2 DEF Sweeping, base
<1> DEFINE f == CHOOSE f : Sweeping(t, f)
<1>7. Sweeping(t, f) /\ RemoveContained(s) = f[N].kept
  BY <1>6, RemoveContainedSweeps
<1> HIDE DEF f
<1>8. \A n \in 0..N : f[n] = IF n = 0 THEN base ELSE Sweep(f[n - 1], t[n])
  BY <1>7 DEF Sweeping, base
<1>9. f[0] = base /\ \A n \in 1..N : f[n] = Sweep(f[n - 1], t[n])
  <2>1. 0 \in 0..N /\ \A n \in 1..N : n \in 0..N /\ n # 0
    BY <1>1
  <2> QED BY <1>8, <2>1
<1> QED BY <1>7, <1>9 DEF base

(* What removeContained hands on is apart and in order, and covers what it *)
(* is given.                                                               *)
LEMMA RemoveContainedFacts ==
  ASSUME NEW s \in Seq(CIDRs)
  PROVE  Pieces(RemoveContained(s), Covered(s))
<1> DEFINE t == Sorted(s)
<1>1. t \in Seq(CIDRs) /\ InOrder(t) /\ Elements(t) = Elements(s)
  BY SortedFacts
<1>2. PICK f : /\ f[0] = [active |-> {}, kept |-> <<>>]
               /\ \A n \in 1..Len(t) : f[n] = Sweep(f[n - 1], t[n])
               /\ RemoveContained(s) = f[Len(t)].kept
  BY <1>1, RemoveContainedIs
<1>3. Covered(t) = Covered(s)
  BY <1>1, ElementsCover
<1> HIDE DEF t
<1>4. Len(t) \in Nat
  BY <1>1
<1>5. DOMAIN t = 1..Len(t) /\ \A n \in 1..Len(t) : t[n] \in CIDRs
  BY <1>1
<1> DEFINE P(n) == /\ f[n] \in Swept
                   /\ Pieces(f[n].kept, CoveredTo(t, n))
                   /\ f[n].active \subseteq Elements(f[n].kept)
                   /\ \A c \in Elements(f[n].kept) : \E i \in 1..n : c = t[i]
                   /\ \A c \in Elements(f[n].kept) : c \in f[n].active \/ End(c) < Start(t[n])
           T == {n \in Nat : n <= Len(t) => P(n)}
<1>6. 0 \in T
  <2>1. f[0].active = {} /\ f[0].kept = <<>> /\ f[0] \in Swept
    BY <1>2 DEF Swept
  <2>2. Elements(<<>>) = {}
    BY DEF Elements
  <2> QED BY <2>1, <2>2, PiecesNone, CoveredToIs
<1>7. ASSUME NEW n \in Nat, n \in T PROVE n + 1 \in T
  <2> SUFFICES ASSUME n + 1 <= Len(t) PROVE P(n + 1)
    OBVIOUS
  <2> DEFINE r == t[n + 1]
  <2>1. P(n)
    BY <1>4, <1>7
  <2>2. n + 1 \in 1..Len(t) /\ (n + 1) - 1 = n /\ \A i \in 1..n : i \in 1..Len(t) /\ i < n + 1
    BY <1>4
  <2>3. f[n + 1] = Sweep(f[n], r) /\ r \in CIDRs
    BY <1>2, <1>5, <2>2
  <2> HIDE DEF P
  <2>4. SweptTo(f[n], CoveredTo(t, n), r)
    <3>1. /\ f[n] \in Swept /\ Pieces(f[n].kept, CoveredTo(t, n))
          /\ f[n].active \subseteq Elements(f[n].kept)
          /\ \A c \in Elements(f[n].kept) : \E i \in 1..n : c = t[i]
          /\ \A c \in Elements(f[n].kept) : c \in f[n].active \/ End(c) < Start(t[n])
      BY <2>1 DEF P
    <3>2. ASSUME NEW c \in Elements(f[n].kept)
          PROVE  ByStart(c, r) /\ (c \in f[n].active \/ End(c) < Start(r))
      <4>1. PICK i \in 1..n : c = t[i]
        BY <3>1
      <4>2. ByStart(c, r)
        BY <1>1, <1>5, <2>2, <4>1 DEF InOrder
      <4>3. ASSUME End(c) < Start(t[n]) PROVE End(c) < Start(r)
        <5>1. n \in 1..Len(t) /\ n < n + 1
          BY <1>4, <2>2, <4>1
        <5>2. ByStart(t[n], r) /\ t[n] \in CIDRs /\ c \in CIDRs
          BY <1>1, <1>5, <2>2, <4>1, <5>1 DEF InOrder
        <5>3. Start(t[n]) = t[n].ip /\ Start(r) = r.ip /\ t[n].ip \in Nat /\ r.ip \in Nat
              /\ End(c) \in Nat
          BY <2>3, <5>2, CIDRFacts
        <5> QED BY <4>3, <5>2, <5>3 DEF ByStart
      <4> QED BY <3>1, <4>2, <4>3
    <3> QED BY <3>1, <3>2 DEF SweptTo
  <2>5. /\ f[n + 1] \in Swept
        /\ Pieces(f[n + 1].kept, CoveredTo(t, n) \cup Addresses(r))
        /\ Elements(f[n + 1].kept) \subseteq Elements(f[n].kept) \cup {r}
        /\ f[n + 1].active \subseteq Elements(f[n + 1].kept)
        /\ \A c \in Elements(f[n + 1].kept) : c \in f[n + 1].active \/ End(c) < Start(r)
    <3> HIDE DEF r
    <3> DEFINE acc == f[n]
               S == CoveredTo(t, n)
    <3>1. SweptTo(acc, S, r) /\ r \in CIDRs
      BY <2>3, <2>4
    <3> HIDE DEF acc, S
    <3>2. /\ Sweep(acc, r) \in Swept
          /\ Pieces(Sweep(acc, r).kept, S \cup Addresses(r))
          /\ Elements(Sweep(acc, r).kept) \subseteq Elements(acc.kept) \cup {r}
          /\ Sweep(acc, r).active \subseteq Elements(Sweep(acc, r).kept)
          /\ \A c \in Elements(Sweep(acc, r).kept) :
               c \in Sweep(acc, r).active \/ End(c) < Start(r)
      BY <3>1, SweepFacts
    <3>3. f[n + 1] = Sweep(acc, r)
      BY <2>3 DEF acc
    <3> QED BY <3>2, <3>3 DEF acc, S
  <2>6. CoveredTo(t, n + 1) = CoveredTo(t, n) \cup Addresses(r)
    BY CoveredToIs
  <2>7. \A c \in Elements(f[n + 1].kept) : \E i \in 1..(n + 1) : c = t[i]
    <3>1. \A c \in Elements(f[n].kept) : \E i \in 1..n : c = t[i]
      BY <2>1 DEF P
    <3>2. \A i \in 1..n : i \in 1..(n + 1)
      OBVIOUS
    <3>3. n + 1 \in 1..(n + 1)
      OBVIOUS
    <3> QED BY <2>5, <3>1, <3>2, <3>3
  <2> QED BY <2>5, <2>6, <2>7 DEF P
<1> HIDE DEF T
<1>8. Len(t) \in T
  BY <1>4, <1>6, <1>7, Induction
<1>9. Pieces(f[Len(t)].kept, CoveredTo(t, Len(t)))
  BY <1>4, <1>8 DEF T
<1> QED BY <1>1, <1>2, <1>3, <1>9, CoveredToAll

----------------------------------------------------------------------------
(* The greedy merge.                                                       *)

(* The range of twice the size around a.                                   *)
LEMMA LargerFacts ==
  ASSUME NEW a \in CIDRs, NEW n, n = W - a.len
  PROVE  /\ n \in 0..W /\ Size(a) = Pow2[n] /\ Pow2[n] \in Nat \ {0}
         /\ Pow2[n + 1] = 2 * Pow2[n]
         /\ Aligned(Larger(a).ip, n + 1) /\ Larger(a).ip \in Nat
         /\ Larger(a).ip = a.ip \/ Larger(a).ip = a.ip - Pow2[n]
         /\ Start(Larger(a)) = Larger(a).ip
         /\ End(Larger(a)) = Larger(a).ip + Pow2[n + 1] - 1
         /\ a.len > 0 => Larger(a) \in CIDRs
<1>1. /\ n \in 0..W /\ n + 1 \in 0..(W + 1) /\ n \in 0..(W + 1) /\ W - a.len + 1 = n + 1
      /\ W - (a.len - 1) = n + 1
  <2>1. a.len \in 0..W /\ W \in Nat
    BY CIDRFacts, TopFacts
  <2> QED BY <2>1
<1>2. /\ Size(a) = Pow2[n] /\ Pow2[n + 1] = 2 * Pow2[n] /\ Pow2[n] \in Nat \ {0}
      /\ Aligned(a.ip, n) /\ a.ip \in Nat /\ a.ip <= Top
  <2>1. a.ip \in 0..Top
    BY DEF CIDRs
  <2>2. Size(a) = Pow2[n]
    BY DEF Size
  <2>3. Pow2[n + 1] = 2 * Pow2[n] /\ Pow2[n] \in Nat \ {0}
    BY <1>1, Pow2Facts
  <2>4. Aligned(a.ip, n)
    BY CIDRFacts
  <2>5. a.ip \in Nat /\ a.ip <= Top
    BY <2>1, TopFacts
  <2> QED BY <2>2, <2>3, <2>4, <2>5
<1>3. Larger(a) = [ip |-> a.ip - (a.ip % Pow2[n + 1]), len |-> a.len - 1]
  BY <1>1 DEF Larger
<1>4. /\ Larger(a).ip = a.ip - (a.ip % Pow2[n + 1]) /\ Larger(a).len = a.len - 1
      /\ Size(Larger(a)) = Pow2[n + 1]
  BY <1>1, <1>3 DEF Size
<1>5. /\ Aligned(Larger(a).ip, n + 1) /\ Larger(a).ip \in Nat
      /\ Larger(a).ip = a.ip \/ Larger(a).ip = a.ip - Pow2[n]
  <2>1. CASE a.ip % Pow2[n + 1] = 0 /\ Aligned(a.ip, n + 1)
    <3>1. Larger(a).ip = a.ip
      BY <1>2, <1>4, <2>1
    <3> QED BY <1>2, <2>1, <3>1
  <2>2. CASE /\ a.ip % Pow2[n + 1] = Pow2[n] /\ a.ip >= Pow2[n]
             /\ Aligned(a.ip - Pow2[n], n + 1)
    <3>1. Larger(a).ip = a.ip - Pow2[n]
      BY <1>4, <2>2
    <3>2. a.ip - Pow2[n] \in Nat
      BY <1>2, <2>2
    <3> QED BY <2>2, <3>1, <3>2
  <2> QED BY <1>1, <1>2, <2>1, <2>2, Halves
<1>6. Start(Larger(a)) = Larger(a).ip /\ End(Larger(a)) = Larger(a).ip + Pow2[n + 1] - 1
  BY <1>4 DEF Start, End
<1>7. ASSUME a.len > 0 PROVE Larger(a) \in CIDRs
  <2>1. n + 1 \in 0..W /\ a.len - 1 = W - (n + 1)
    <3>1. a.len \in 0..W /\ W \in Nat
      BY CIDRFacts, TopFacts
    <3> QED BY <1>7, <3>1
  <2>2. Larger(a).ip \in 0..Top
    BY <1>2, <1>5, TopFacts
  <2>3. Larger(a) = [ip |-> Larger(a).ip, len |-> a.len - 1]
    BY <1>3, <1>4
  <2> QED BY <1>5, <2>1, <2>2, <2>3, BlockIsRange
<1> QED BY <1>1, <1>2, <1>5, <1>6, <1>7

Merging(s, f) == f = [n \in 0..Len(s) |-> IF n = 0 THEN <<>> ELSE MergeNext(f[n - 1], s[n])]

LEMMA MergePassMerges ==
  ASSUME NEW s
  PROVE  MergePass(s) = (CHOOSE f : Merging(s, f))[Len(s)]
BY DEF MergePass, Merging

LEMMA MergeNextTyped ==
  ASSUME NEW v \in Seq(CIDRs), NEW r \in CIDRs
  PROVE  MergeNext(v, r) \in Seq(CIDRs)
<1>1. CASE v # <<>> /\ Mergeable(Last(v), r)
  <2>1. Front(v) \in Seq(CIDRs) /\ Last(v) \in CIDRs
    BY <1>1, FrontLast
  <2>2. Last(v).len > 0
    BY <1>1 DEF Mergeable
  <2>3. Larger(Last(v)) \in CIDRs
    BY <2>1, <2>2, LargerFacts
  <2>4. Append(Front(v), Larger(Last(v))) \in Seq(CIDRs)
    BY <2>1, <2>3
  <2> QED BY <1>1, <2>4 DEF MergeNext
<1>2. CASE ~ (v # <<>> /\ Mergeable(Last(v), r))
  <2>1. Append(v, r) \in Seq(CIDRs)
    OBVIOUS
  <2> QED BY <1>2, <2>1 DEF MergeNext
<1> QED BY <1>1, <1>2

LEMMA MergePassIs ==
  ASSUME NEW s \in Seq(CIDRs)
  PROVE  \E f : /\ f[0] = <<>>
                /\ \A n \in 1..Len(s) : f[n] = MergeNext(f[n - 1], s[n])
                /\ MergePass(s) = f[Len(s)]
<1> DEFINE N == Len(s)
           V == Seq(CIDRs)
           step == [n \in 1..N |-> [v \in V |-> MergeNext(v, s[n])]]
<1>1. N \in Nat /\ <<>> \in V /\ \A n \in 1..N : s[n] \in CIDRs
  OBVIOUS
<1>2. step \in [1..N -> [V -> V]]
  BY <1>1, MergeNextTyped
<1>3. \A n \in 1..N : \A v \in V : step[n][v] = MergeNext(v, s[n])
  OBVIOUS
<1> HIDE DEF V, step
<1>4. PICK g \in [0..N -> V] : Recursive(g, <<>>, step, N)
  BY <1>1, <1>2, RecursionExists
<1>5. Merging(s, g)
  <2>1. g = [n \in 0..N |-> IF n = 0 THEN <<>> ELSE step[n][g[n - 1]]]
    BY <1>4 DEF Recursive
  <2>2. ASSUME NEW n \in 0..N, n # 0 PROVE step[n][g[n - 1]] = MergeNext(g[n - 1], s[n])
    <3>1. n \in 1..N /\ n - 1 \in 0..N
      BY <1>1, <2>2
    <3> QED BY <1>3, <1>4, <3>1
  <2> QED BY <2>1, <2>2 DEF Merging
<1> DEFINE f == CHOOSE f : Merging(s, f)
<1>6. Merging(s, f) /\ MergePass(s) = f[N]
  BY <1>5, MergePassMerges
<1> HIDE DEF f
<1>7. \A n \in 0..N : f[n] = IF n = 0 THEN <<>> ELSE MergeNext(f[n - 1], s[n])
  BY <1>6 DEF Merging
<1>8. f[0] = <<>> /\ \A n \in 1..N : f[n] = MergeNext(f[n - 1], s[n])
  <2>1. 0 \in 0..N /\ \A n \in 1..N : n \in 0..N /\ n # 0
    BY <1>1
  <2> QED BY <1>7, <2>1
<1> QED BY <1>6, <1>8

(* A neighbour merged, or the next range taken as it is: no address is     *)
(* lost and none is gained.                                                *)
LEMMA MergeNextFacts ==
  ASSUME NEW v, NEW S, NEW r \in CIDRs, Pieces(v, S), AllBelow(S, Addresses(r))
  PROVE  Pieces(MergeNext(v, r), S \cup Addresses(r))
<1>1. v \in Seq(CIDRs)
  BY DEF Pieces
<1>2. CASE v # <<>> /\ Mergeable(Last(v), r)
  <2> DEFINE a == Last(v)
             b == Larger(a)
  <2>1. PICK T : Pieces(Front(v), T) /\ S = T \cup Addresses(a) /\ AllBelow(T, Addresses(a))
    BY <1>2, PiecesFront
  <2>2. a \in CIDRs /\ Front(v) \in Seq(CIDRs)
    BY <1>1, <1>2, FrontLast
  <2>3. MergeNext(v, r) = Append(Front(v), b) /\ Mergeable(a, r)
    BY <1>2 DEF MergeNext
  <2> HIDE DEF a
  <2>4. /\ Addresses(a) = Start(a)..End(a) /\ Start(a) \in Nat /\ End(a) \in Nat
        /\ Start(a) <= End(a)
        /\ Addresses(r) = Start(r)..End(r) /\ Start(r) \in Nat /\ End(r) \in Nat
        /\ Start(r) <= End(r)
    BY <2>2, CIDRFacts
  <2>5. End(a) < Start(r)
    <3>1. End(a) \in S /\ Start(r) \in Addresses(r)
      BY <2>1, <2>4
    <3> QED BY <3>1 DEF AllBelow
  <2>6. b \in CIDRs /\ Start(b) = Start(a) /\ End(b) = End(r) /\ Start(r) = End(a) + 1
    BY <2>2, <2>3, <2>5, MergeableFacts
  <2> HIDE DEF b
  <2>7. Addresses(b) = Start(b)..End(b)
    BY <2>6, CIDRFacts
  <2>8. Addresses(b) = Addresses(a) \cup Addresses(r)
    BY <2>4, <2>6, <2>7
  <2>9. AllBelow(T, Addresses(b))
    <3> SUFFICES ASSUME NEW x \in T, NEW y \in Addresses(b) PROVE x < y
      BY DEF AllBelow
    <3>1. Start(a) \in Addresses(a) /\ x < Start(a)
      BY <2>1, <2>4 DEF AllBelow
    <3>2. y \in Nat /\ Start(a) <= y
      BY <2>4, <2>6, <2>7
    <3>3. x \in Nat
      <4>1. PICK i \in DOMAIN Front(v) : x \in Addresses(Front(v)[i])
        BY <2>1, CoveredIs DEF Pieces
      <4>2. Front(v)[i] \in CIDRs
        BY <2>2, <4>1
      <4>3. /\ Addresses(Front(v)[i]) = Start(Front(v)[i])..End(Front(v)[i])
            /\ Start(Front(v)[i]) \in Nat
        BY <4>2, CIDRFacts
      <4> QED BY <4>1, <4>3
    <3> QED BY <2>4, <3>1, <3>2, <3>3
  <2>10. Pieces(Front(v) \o <<b>>, T \cup Addresses(b))
    BY <2>1, <2>6, <2>9, PiecesConcat, PiecesOne
  <2>11. MergeNext(v, r) = Front(v) \o <<b>>
    BY <2>2, <2>3, AppendConcat
  <2>12. T \cup Addresses(b) = S \cup Addresses(r)
    BY <2>1, <2>8
  <2> QED BY <2>10, <2>11, <2>12
<1>3. CASE ~ (v # <<>> /\ Mergeable(Last(v), r))
  <2>1. MergeNext(v, r) = v \o <<r>>
    BY <1>1, <1>3, AppendConcat DEF MergeNext
  <2> QED BY <2>1, PiecesConcat, PiecesOne
<1> QED BY <1>2, <1>3

LEMMA MergePassFacts ==
  ASSUME NEW s, NEW S, Pieces(s, S)
  PROVE  Pieces(MergePass(s), S)
<1>1. s \in Seq(CIDRs) /\ Apart(s) /\ Covered(s) = S
  BY DEF Pieces
<1>2. PICK f : /\ f[0] = <<>>
               /\ \A n \in 1..Len(s) : f[n] = MergeNext(f[n - 1], s[n])
               /\ MergePass(s) = f[Len(s)]
  BY <1>1, MergePassIs
<1>3. Len(s) \in Nat
  BY <1>1
<1>4. DOMAIN s = 1..Len(s) /\ \A n \in 1..Len(s) : s[n] \in CIDRs
  BY <1>1
<1> DEFINE P(n) == Pieces(f[n], CoveredTo(s, n))
           T == {n \in Nat : n <= Len(s) => P(n)}
<1>5. 0 \in T
  BY <1>2, PiecesNone, CoveredToIs
<1>6. ASSUME NEW n \in Nat, n \in T PROVE n + 1 \in T
  <2> SUFFICES ASSUME n + 1 <= Len(s) PROVE P(n + 1)
    OBVIOUS
  <2>1. P(n)
    BY <1>3, <1>6
  <2>2. n + 1 \in 1..Len(s) /\ (n + 1) - 1 = n /\ \A i \in 1..n : i \in 1..Len(s) /\ i < n + 1
    BY <1>3
  <2> DEFINE v == f[n]
             r == s[n + 1]
             C == CoveredTo(s, n)
  <2>3. f[n + 1] = MergeNext(v, r) /\ r \in CIDRs
    BY <1>2, <1>4, <2>2
  <2>4. AllBelow(C, Addresses(r))
    <3> SUFFICES ASSUME NEW x \in C, NEW y \in Addresses(r) PROVE x < y
      BY DEF AllBelow
    <3>1. PICK i \in 1..n : x \in Addresses(s[i])
      BY DEF CoveredTo
    <3>2. End(s[i]) < Start(r) /\ s[i] \in CIDRs
      BY <1>1, <1>4, <2>2, <3>1 DEF Apart
    <3>3. x \in Start(s[i])..End(s[i]) /\ Start(s[i]) \in Nat /\ End(s[i]) \in Nat
      BY <3>1, <3>2, CIDRFacts
    <3>4. y \in Start(r)..End(r) /\ Start(r) \in Nat
      BY <2>3, CIDRFacts
    <3> QED BY <3>2, <3>3, <3>4
  <2>5. Pieces(v, C)
    BY <2>1
  <2>6. CoveredTo(s, n + 1) = C \cup Addresses(r)
    BY CoveredToIs
  <2> HIDE DEF v, r, C
  <2>7. Pieces(MergeNext(v, r), C \cup Addresses(r))
    BY <2>3, <2>4, <2>5, MergeNextFacts
  <2> QED BY <2>3, <2>6, <2>7
<1> HIDE DEF T
<1>7. Len(s) \in T
  BY <1>3, <1>5, <1>6, Induction
<1>8. P(Len(s))
  BY <1>3, <1>7 DEF T
<1> QED BY <1>1, <1>2, <1>8, CoveredToAll

----------------------------------------------------------------------------
(* MergeIPNets.                                                            *)

(* Where the scan of the fast path finds nothing, the ranges are apart.    *)
LEMMA FastPath ==
  ASSUME NEW s \in Seq(CIDRs), ~ HasOverlaps(s)
  PROVE  Apart(s)
<1>1. Len(s) \in Nat
  OBVIOUS
<1>2. DOMAIN s = 1..Len(s) /\ \A n \in 1..Len(s) : s[n] \in CIDRs
  OBVIOUS
<1>3. \A i \in 1..Len(s) : /\ Start(s[i]) \in Nat /\ End(s[i]) \in Nat
                           /\ Start(s[i]) <= End(s[i]) /\ End(s[i]) <= Top
                           /\ s[i].ip = Start(s[i])
  BY <1>2, CIDRFacts
<1>4. ASSUME NEW n \in Nat, n + 1 \in 1..Len(s), n \in 1..Len(s)
      PROVE  End(s[n]) < Start(s[n + 1])
  <2>1. n + 1 \in 2..Len(s) /\ (n + 1) - 1 = n
    BY <1>1, <1>4
  <2>2. End(s[n]) # Top /\ ~ (s[n + 1].ip <= U(End(s[n]) + 1))
    BY <2>1 DEF HasOverlaps
  <2>3. End(s[n]) + 1 \in Nat /\ End(s[n]) + 1 <= Top
    BY <1>3, <1>4, <2>2, TopFacts
  <2>4. U(End(s[n]) + 1) = End(s[n]) + 1
    BY <2>3, Wraps
  <2> QED BY <1>3, <1>4, <2>2, <2>4
<1> DEFINE T == {n \in Nat : n <= Len(s) => \A i \in 1..n : i < n => End(s[i]) < Start(s[n])}
<1>5. 0 \in T
  OBVIOUS
<1>6. ASSUME NEW n \in Nat, n \in T PROVE n + 1 \in T
  <2> SUFFICES ASSUME n + 1 <= Len(s), NEW i \in 1..(n + 1), i < n + 1
               PROVE  End(s[i]) < Start(s[n + 1])
    OBVIOUS
  <2>1. n \in 1..Len(s) /\ n + 1 \in 1..Len(s) /\ i \in 1..n /\ i \in 1..Len(s) /\ n <= Len(s)
    BY <1>1
  <2>2. End(s[n]) < Start(s[n + 1])
    BY <1>4, <2>1
  <2>3. i = n \/ End(s[i]) < Start(s[n])
    BY <1>6, <2>1
  <2> QED BY <1>3, <2>1, <2>2, <2>3
<1> HIDE DEF T
<1>7. \A n \in Nat : n \in T
  BY <1>5, <1>6, Induction
<1>8. ASSUME NEW i \in 1..Len(s), NEW j \in 1..Len(s), i < j PROVE End(s[i]) < Start(s[j])
  <2>1. j \in T /\ j <= Len(s) /\ i \in 1..j
    BY <1>1, <1>7, <1>8
  <2> QED BY <1>8, <2>1 DEF T
<1> QED BY <1>2, <1>8 DEF Apart

LEMMA MergeIPNetsFacts ==
  ASSUME NEW s \in Seq(CIDRs)
  PROVE  Pieces(MergeIPNets(s), Covered(s))
<1>1. Len(s) \in Nat
  OBVIOUS
<1>2. CASE Len(s) <= 1 \/ (Ascending(s) /\ ~ HasOverlaps(s))
  <2>1. MergeIPNets(s) = s
    <3>1. ~ (Len(s) > 1 /\ HasOverlaps(s))
      BY <1>1, <1>2
    <3> QED BY <1>2, <3>1 DEF MergeIPNets
  <2>2. Apart(s)
    <3>1. CASE Len(s) <= 1
      <4>1. DOMAIN s = 1..Len(s)
        OBVIOUS
      <4>2. ~ \E i, j \in 1..Len(s) : i < j
        BY <1>1, <3>1
      <4> QED BY <4>1, <4>2 DEF Apart
    <3>2. CASE ~ HasOverlaps(s)
      BY <3>2, FastPath
    <3> QED BY <1>2, <3>1, <3>2
  <2> QED BY <2>1, <2>2 DEF Pieces
<1>3. CASE ~ (Len(s) <= 1 \/ (Ascending(s) /\ ~ HasOverlaps(s))) /\ HasOverlaps(s)
  <2>1. MergeIPNets(s) = Collapse(RemoveContained(s))
    <3>1. Len(s) > 1
      BY <1>1, <1>3
    <3> QED BY <1>3, <3>1 DEF MergeIPNets
  <2>2. Pieces(RemoveContained(s), Covered(s))
    BY RemoveContainedFacts
  <2>3. Pieces(Collapse(RemoveContained(s)), Covered(s))
    BY <2>2, MergePassFacts DEF Collapse
  <2> QED BY <2>1, <2>3
<1>4. CASE ~ (Len(s) <= 1 \/ (Ascending(s) /\ ~ HasOverlaps(s))) /\ ~ HasOverlaps(s)
  <2>1. MergeIPNets(s) = RemoveContained(s)
    BY <1>4 DEF MergeIPNets
  <2> QED BY <2>1, RemoveContainedFacts
<1> QED BY <1>2, <1>3, <1>4

----------------------------------------------------------------------------
(* Intervals.                                                              *)

Intervals == [start : 0..Top, end : 0..Top]
Between(v) == v.start .. v.end
Held(v) == UNION {Between(v[i]) : i \in DOMAIN v}

(* v is a sequence of intervals that are apart and in order, of the        *)
(* addresses S.                                                            *)
Parted(v, S) ==
  /\ v \in Seq(Intervals)
  /\ \A i \in DOMAIN v : v[i].start <= v[i].end
  /\ \A i, j \in DOMAIN v : i < j => v[i].end < v[j].start
  /\ Held(v) = S

LEMMA HeldIs ==
  ASSUME NEW v
  PROVE  \A x : x \in Held(v) <=> \E i \in DOMAIN v : x \in Between(v[i])
BY DEF Held

Joined(v, w) ==
  IF v # <<>> /\ w.start <= Last(v).end + 1
  THEN Append(Front(v), Extended(Last(v), w))
  ELSE Append(v, w)

LEMMA IntervalFacts ==
  ASSUME NEW v \in Intervals
  PROVE  v.start \in Nat /\ v.end \in Nat /\ v.start <= Top /\ v.end <= Top
<1>1. v.start \in 0..Top /\ v.end \in 0..Top
  BY DEF Intervals
<1> QED BY <1>1, TopFacts

LEMMA RangeInterval ==
  ASSUME NEW r \in CIDRs
  PROVE  /\ Interval(r) \in Intervals
         /\ Interval(r).start = Start(r) /\ Interval(r).end = End(r)
         /\ Interval(r).start <= Interval(r).end
         /\ Between(Interval(r)) = Addresses(r)
<1>1. /\ Start(r) \in Nat /\ End(r) \in Nat /\ Start(r) <= End(r) /\ End(r) <= Top
      /\ Addresses(r) = Start(r)..End(r)
  BY CIDRFacts
<1>2. Start(r) \in 0..Top /\ End(r) \in 0..Top
  BY <1>1, TopFacts
<1>3. Interval(r) = [start |-> Start(r), end |-> End(r)]
  BY DEF Interval
<1>4. Interval(r) \in Intervals
  BY <1>2, <1>3 DEF Intervals
<1> QED BY <1>1, <1>3, <1>4 DEF Between

(* The two guards at the top of the address space come to the same.        *)
LEMMA JoinedIs ==
  ASSUME NEW v \in Seq(Intervals), NEW w \in Intervals
  PROVE  Widen(v, w) = Joined(v, w) /\ Coalesce(v, w) = Joined(v, w)
<1>1. CASE v = <<>>
  BY <1>1 DEF Widen, Coalesce, Joined
<1>2. CASE v # <<>>
  <2> DEFINE e == Last(v).end
  <2>1. Last(v) \in Intervals
    BY <1>2, FrontLast
  <2>2. e \in Nat /\ e <= Top /\ w.start \in Nat /\ w.start <= Top /\ Top \in Nat
    BY <2>1, IntervalFacts, TopFacts
  <2> HIDE DEF e
  <2>3. (e = Top \/ w.start <= U(e + 1)) <=> w.start <= e + 1
    <3>1. CASE e = Top
      BY <2>2, <3>1
    <3>2. CASE e # Top
      <4>1. e + 1 \in Nat /\ e + 1 <= Top
        BY <2>2, <3>2
      <4>2. U(e + 1) = e + 1
        BY <4>1, Wraps
      <4> QED BY <3>2, <4>2
    <3> QED BY <3>1, <3>2
  <2>4. (w.start <= e \/ (e # Top /\ w.start = U(e + 1))) <=> w.start <= e + 1
    <3>1. CASE e = Top
      BY <2>2, <3>1
    <3>2. CASE e # Top
      <4>1. e + 1 \in Nat /\ e + 1 <= Top
        BY <2>2, <3>2
      <4>2. U(e + 1) = e + 1
        BY <4>1, Wraps
      <4> QED BY <2>2, <3>2, <4>2
    <3> QED BY <3>1, <3>2
  <2>5. Widen(v, w) = IF e = Top \/ w.start <= U(e + 1)
                      THEN Append(Front(v), Extended(Last(v), w)) ELSE Append(v, w)
    BY <1>2 DEF Widen, e
  <2>6. Coalesce(v, w) = IF w.start <= e \/ (e # Top /\ w.start = U(e + 1))
                         THEN Append(Front(v), Extended(Last(v), w)) ELSE Append(v, w)
    BY <1>2 DEF Coalesce, e
  <2>7. Joined(v, w) = IF w.start <= e + 1
                       THEN Append(Front(v), Extended(Last(v), w)) ELSE Append(v, w)
    BY <1>2 DEF Joined, e
  <2> QED BY <2>3, <2>4, <2>5, <2>6, <2>7
<1> QED BY <1>1, <1>2

LEMMA ExtendedFacts ==
  ASSUME NEW v \in Intervals, NEW w \in Intervals
  PROVE  /\ Extended(v, w) \in Intervals
         /\ Extended(v, w).start = v.start
         /\ Extended(v, w).end \in {v.end, w.end}
         /\ v.end <= Extended(v, w).end /\ w.end <= Extended(v, w).end
<1> DEFINE m == Max({v.end, w.end})
<1>1. v.end \in Nat /\ w.end \in Nat
  BY IntervalFacts
<1>2. m \in {v.end, w.end} /\ v.end <= m /\ w.end <= m
  BY <1>1, MaxOfTwo
<1> HIDE DEF m
<1>3. Extended(v, w) = [start |-> v.start, end |-> m]
  BY DEF Extended, m
<1>4. v.start \in 0..Top /\ v.end \in 0..Top /\ w.end \in 0..Top
  BY DEF Intervals
<1>5. Extended(v, w) \in Intervals
  BY <1>2, <1>3, <1>4 DEF Intervals
<1> QED BY <1>2, <1>3, <1>5

LEMMA JoinedTyped ==
  ASSUME NEW v \in Seq(Intervals), NEW w \in Intervals
  PROVE  Joined(v, w) \in Seq(Intervals)
<1>1. CASE v # <<>> /\ w.start <= Last(v).end + 1
  <2>1. Front(v) \in Seq(Intervals) /\ Last(v) \in Intervals
    BY <1>1, FrontLast
  <2>2. Extended(Last(v), w) \in Intervals
    BY <2>1, ExtendedFacts
  <2>3. Append(Front(v), Extended(Last(v), w)) \in Seq(Intervals)
    BY <2>1, <2>2
  <2> QED BY <1>1, <2>3 DEF Joined
<1>2. CASE ~ (v # <<>> /\ w.start <= Last(v).end + 1)
  <2>1. Append(v, w) \in Seq(Intervals)
    OBVIOUS
  <2> QED BY <1>2, <2>1 DEF Joined
<1> QED BY <1>1, <1>2

LEMMA AppendFacts ==
  ASSUME NEW X, NEW s \in Seq(X), NEW e \in X
  PROVE  /\ Append(s, e) \in Seq(X) /\ Len(Append(s, e)) = Len(s) + 1
         /\ DOMAIN Append(s, e) = 1..(Len(s) + 1)
         /\ \A i \in 1..Len(s) : Append(s, e)[i] = s[i]
         /\ Append(s, e)[Len(s) + 1] = e
         /\ Len(s) \in Nat /\ DOMAIN s = 1..Len(s)
OBVIOUS

(* An interval that starts no earlier than those before is joined to the   *)
(* last one, or put behind it.                                             *)
LEMMA JoinedFacts ==
  ASSUME NEW v, NEW S, Parted(v, S), NEW w \in Intervals, w.start <= w.end,
         \A i \in DOMAIN v : v[i].start <= w.start
  PROVE  /\ Parted(Joined(v, w), S \cup Between(w))
         /\ \A i \in DOMAIN Joined(v, w) : Joined(v, w)[i].start <= w.start
<1> DEFINE u == Joined(v, w)
<1>1. /\ v \in Seq(Intervals)
      /\ \A i \in DOMAIN v : v[i].start <= v[i].end
      /\ \A i, j \in DOMAIN v : i < j => v[i].end < v[j].start
      /\ Held(v) = S
  BY DEF Parted
<1>2. w.start \in Nat /\ w.end \in Nat
  BY IntervalFacts
<1>3. DOMAIN v = 1..Len(v) /\ Len(v) \in Nat /\ \A i \in 1..Len(v) : v[i] \in Intervals
  BY <1>1
<1>4. \A i \in 1..Len(v) : v[i].start \in Nat /\ v[i].end \in Nat
  BY <1>3, IntervalFacts
<1>5. CASE v # <<>> /\ w.start <= Last(v).end + 1
  <2> DEFINE n == Len(v)
             e == Extended(v[n], w)
  <2>1. /\ Front(v) \in Seq(Intervals) /\ n \in Nat \ {0} /\ Len(Front(v)) = n - 1
        /\ Last(v) = v[n] /\ \A i \in 1..(n - 1) : Front(v)[i] = v[i]
    BY <1>1, <1>5, FrontLast
  <2>2. u = Append(Front(v), e)
    BY <1>5, <2>1 DEF Joined
  <2> HIDE DEF u, n
  <2>3. n \in 1..n /\ (n - 1) + 1 = n /\ n = Len(v)
    BY <2>1 DEF n
  <2>4. v[n] \in Intervals
    BY <1>3, <2>3
  <2>5. /\ e \in Intervals /\ e.start = v[n].start /\ e.end \in {v[n].end, w.end}
        /\ v[n].end <= e.end /\ w.end <= e.end
    BY <2>4, ExtendedFacts
  <2> HIDE DEF e
  <2>6. /\ u \in Seq(Intervals) /\ DOMAIN u = 1..n /\ u[n] = e
        /\ \A i \in 1..(n - 1) : u[i] = v[i]
    <3>1. /\ u \in Seq(Intervals) /\ DOMAIN u = 1..((n - 1) + 1) /\ u[(n - 1) + 1] = e
          /\ \A i \in 1..(n - 1) : u[i] = Front(v)[i]
      BY <2>1, <2>2, <2>5, AppendFacts
    <3> QED BY <2>1, <2>3, <3>1
  <2>7. /\ v[n].start <= w.start /\ w.start <= v[n].end + 1 /\ v[n].start <= v[n].end
        /\ v[n].start \in Nat /\ v[n].end \in Nat /\ e.end \in Nat
    BY <1>1, <1>2, <1>3, <1>4, <1>5, <2>1, <2>3, <2>5
  <2>8. ASSUME NEW i \in 1..n PROVE u[i].start <= u[i].end /\ u[i].start <= w.start
    <3>1. CASE i = n
      BY <2>5, <2>6, <2>7, <3>1
    <3>2. CASE i # n
      <4>1. n \in Nat /\ i \in 1..n /\ i # n
        BY <2>1, <2>8, <3>2
      <4>2. i \in 1..(n - 1)
        BY <4>1
      <4>3. i \in DOMAIN v
        <5>1. DOMAIN v = 1..n
          BY <1>3, <2>3
        <5> QED BY <4>1, <5>1
      <4> QED BY <1>1, <2>6, <4>2, <4>3
    <3> QED BY <3>1, <3>2
  <2>9. ASSUME NEW i \in 1..n, NEW j \in 1..n, i < j PROVE u[i].end < u[j].start
    <3>1. i \in 1..(n - 1) /\ i \in DOMAIN v /\ j \in DOMAIN v
      BY <1>3, <2>1, <2>3, <2>9
    <3>2. u[i] = v[i] /\ v[i].end < v[j].start
      BY <1>1, <2>6, <2>9, <3>1
    <3>3. u[j].start = v[j].start
      <4>1. CASE j = n
        BY <2>5, <2>6, <4>1
      <4>2. CASE j # n
        <5>1. j \in 1..(n - 1)
          BY <2>1, <4>2
        <5> QED BY <2>6, <5>1
      <4> QED BY <4>1, <4>2
    <3> QED BY <3>2, <3>3
  <2>10. Between(e) = Between(v[n]) \cup Between(w)
    BY <1>2, <2>5, <2>7 DEF Between
  <2>11. Held(u) = S \cup Between(w)
    <3>1. ASSUME NEW x \in Held(u) PROVE x \in S \cup Between(w)
      <4>1. PICK i \in 1..n : x \in Between(u[i])
        BY <2>6, HeldIs
      <4>2. CASE i = n
        <5>1. x \in Between(v[n]) \/ x \in Between(w)
          BY <2>6, <2>10, <4>1, <4>2
        <5> QED BY <1>1, <1>3, <2>3, <5>1, HeldIs
      <4>3. CASE i # n
        <5>1. i \in 1..(n - 1) /\ i \in DOMAIN v
          <6>1. i \in 1..(n - 1)
            BY <2>1, <4>3
          <6>2. i \in DOMAIN v
            BY <1>3, <2>3
          <6> QED BY <6>1, <6>2
        <5> QED BY <1>1, <2>6, <4>1, <5>1, HeldIs
      <4> QED BY <4>2, <4>3
    <3>2. ASSUME NEW x \in S PROVE x \in Held(u)
      <4>1. PICK i \in 1..n : x \in Between(v[i])
        BY <1>1, <1>3, <2>3, <3>2, HeldIs
      <4>2. CASE i = n
        BY <2>3, <2>6, <2>10, <4>1, <4>2, HeldIs
      <4>3. CASE i # n
        <5>1. i \in 1..(n - 1)
          BY <2>1, <4>3
        <5> QED BY <2>6, <4>1, <5>1, HeldIs
      <4> QED BY <4>2, <4>3
    <3>3. ASSUME NEW x \in Between(w) PROVE x \in Held(u)
      BY <2>3, <2>6, <2>10, HeldIs
    <3> QED BY <3>1, <3>2, <3>3
  <2>12. Parted(u, S \cup Between(w))
    BY <2>6, <2>8, <2>9, <2>11 DEF Parted
  <2> QED BY <2>6, <2>8, <2>12 DEF u
<1>6. CASE ~ (v # <<>> /\ w.start <= Last(v).end + 1)
  <2> DEFINE n == Len(v)
  <2>1. u = Append(v, w)
    BY <1>6 DEF Joined
  <2> HIDE DEF u
  <2>2. /\ u \in Seq(Intervals) /\ DOMAIN u = 1..(n + 1) /\ u[n + 1] = w
        /\ \A i \in 1..n : u[i] = v[i]
    BY <1>1, <2>1, AppendFacts
  <2>3. \A i \in 1..n : v[i].end < w.start
    <3> TAKE i \in 1..n
    <3>1. v # <<>>
      BY <1>3
    <3>2. Last(v) = v[n] /\ n \in Nat \ {0}
      BY <1>1, <3>1, FrontLast
    <3>3. n \in 1..n /\ v[n].end \in Nat /\ v[i].end \in Nat /\ v[n].start \in Nat
      BY <1>4, <3>2
    <3>4. v[n].end < w.start
      BY <1>2, <1>6, <3>1, <3>2, <3>3
    <3>5. i = n \/ v[i].end < v[n].start
      <4>1. i < n \/ i = n
        BY <3>2
      <4>2. i \in DOMAIN v /\ n \in DOMAIN v
        BY <1>3, <3>3
      <4> QED BY <1>1, <4>1, <4>2
    <3>6. v[n].start <= v[n].end
      BY <1>1, <1>3, <3>3
    <3> QED BY <1>2, <3>3, <3>4, <3>5, <3>6
  <2>4. n \in Nat /\ n = Len(v)
    BY <1>3
  <2> HIDE DEF n
  <2>5. ASSUME NEW i \in 1..(n + 1) PROVE u[i].start <= u[i].end /\ u[i].start <= w.start
    <3>1. CASE i = n + 1
      BY <1>2, <2>2, <3>1
    <3>2. CASE i # n + 1
      <4>1. i \in 1..n /\ i \in DOMAIN v
        BY <1>3, <2>4, <3>2
      <4> QED BY <1>1, <2>2, <4>1
    <3> QED BY <3>1, <3>2
  <2>6. ASSUME NEW i \in 1..(n + 1), NEW j \in 1..(n + 1), i < j PROVE u[i].end < u[j].start
    <3>1. i \in 1..n /\ i \in DOMAIN v
      BY <1>3, <2>4, <2>6
    <3>2. CASE j = n + 1
      BY <2>2, <2>3, <3>1, <3>2
    <3>3. CASE j # n + 1
      <4>1. j \in 1..n /\ j \in DOMAIN v
        BY <1>3, <2>4, <3>3
      <4> QED BY <1>1, <2>2, <2>6, <3>1, <4>1
    <3> QED BY <3>2, <3>3
  <2>7. Held(u) = S \cup Between(w)
    <3>1. ASSUME NEW x \in Held(u) PROVE x \in S \cup Between(w)
      <4>1. PICK i \in 1..(n + 1) : x \in Between(u[i])
        BY <2>2, HeldIs
      <4>2. CASE i = n + 1
        BY <2>2, <4>1, <4>2
      <4>3. CASE i # n + 1
        <5>1. i \in 1..n /\ i \in DOMAIN v
          BY <1>3, <2>4, <4>3
        <5> QED BY <1>1, <2>2, <4>1, <5>1, HeldIs
      <4> QED BY <4>2, <4>3
    <3>2. ASSUME NEW x \in S PROVE x \in Held(u)
      <4>1. PICK i \in 1..n : x \in Between(v[i])
        BY <1>1, <1>3, <2>4, <3>2, HeldIs
      <4>2. i \in 1..(n + 1)
        BY <2>4
      <4> QED BY <2>2, <4>1, <4>2, HeldIs
    <3>3. ASSUME NEW x \in Between(w) PROVE x \in Held(u)
      <4>1. n + 1 \in 1..(n + 1)
        BY <2>4
      <4> QED BY <2>2, <4>1, HeldIs
    <3> QED BY <3>1, <3>2, <3>3
  <2>8. Parted(u, S \cup Between(w))
    BY <2>2, <2>5, <2>6, <2>7 DEF Parted
  <2> QED BY <2>2, <2>5, <2>8 DEF u
<1> QED BY <1>5, <1>6

LEMMA JoinedAll ==
  ASSUME NEW t \in Seq(CIDRs), InOrder(t), NEW f, f[0] = <<>>,
         \A n \in 1..Len(t) :
           f[n - 1] \in Seq(Intervals) => f[n] = Joined(f[n - 1], Interval(t[n]))
  PROVE  Parted(f[Len(t)], Covered(t))
<1>1. Len(t) \in Nat
  OBVIOUS
<1>2. DOMAIN t = 1..Len(t) /\ \A n \in 1..Len(t) : t[n] \in CIDRs
  OBVIOUS
<1>3. \A i, j \in 1..Len(t) : i < j => Start(t[i]) <= Start(t[j])
  <2> SUFFICES ASSUME NEW i \in 1..Len(t), NEW j \in 1..Len(t), i < j
               PROVE  Start(t[i]) <= Start(t[j])
    OBVIOUS
  <2>1. ByStart(t[i], t[j]) /\ t[i] \in CIDRs /\ t[j] \in CIDRs
    BY <1>2 DEF InOrder
  <2>2. Start(t[i]) = t[i].ip /\ Start(t[j]) = t[j].ip /\ t[i].ip \in Nat /\ t[j].ip \in Nat
    BY <2>1, CIDRFacts
  <2> QED BY <2>1, <2>2 DEF ByStart
<1> DEFINE Early(v, n) == \A i \in DOMAIN v : \A m \in (n + 1)..Len(t) : v[i].start <= Start(t[m])
           P(n) == Parted(f[n], CoveredTo(t, n)) /\ Early(f[n], n)
           T == {n \in Nat : n <= Len(t) => P(n)}
<1>4. 0 \in T
  <2>1. Parted(<<>>, {})
    BY DEF Parted, Held
  <2>2. Early(<<>>, 0)
    OBVIOUS
  <2> QED BY <2>1, <2>2, CoveredToIs
<1>5. ASSUME NEW n \in Nat, n \in T PROVE n + 1 \in T
  <2> SUFFICES ASSUME n + 1 <= Len(t) PROVE P(n + 1)
    OBVIOUS
  <2>1. P(n)
    BY <1>1, <1>5
  <2>2. n + 1 \in 1..Len(t) /\ (n + 1) - 1 = n /\ n + 1 \in (n + 1)..Len(t)
    BY <1>1
  <2> DEFINE v == f[n]
             w == Interval(t[n + 1])
             C == CoveredTo(t, n)
  <2>3. /\ w \in Intervals /\ w.start = Start(t[n + 1]) /\ w.start <= w.end
        /\ Between(w) = Addresses(t[n + 1])
    BY <1>2, <2>2, RangeInterval
  <2>4. Parted(v, C) /\ \A i \in DOMAIN v : v[i].start <= w.start
    BY <2>1, <2>2, <2>3
  <2>5. f[n + 1] = Joined(v, w)
    BY <2>2, <2>4 DEF Parted
  <2>6. CoveredTo(t, n + 1) = C \cup Between(w)
    BY <2>3, CoveredToIs
  <2> HIDE DEF v, w, C
  <2>7. /\ Parted(Joined(v, w), C \cup Between(w))
        /\ \A i \in DOMAIN Joined(v, w) : Joined(v, w)[i].start <= w.start
    BY <2>3, <2>4, JoinedFacts
  <2>8. Early(f[n + 1], n + 1)
    <3> SUFFICES ASSUME NEW i \in DOMAIN f[n + 1], NEW m \in ((n + 1) + 1)..Len(t)
                 PROVE  f[n + 1][i].start <= Start(t[m])
      OBVIOUS
    <3>1. f[n + 1][i].start <= w.start
      BY <2>5, <2>7
    <3>2. m \in 1..Len(t) /\ n + 1 < m
      BY <1>1
    <3>3. w.start <= Start(t[m])
      BY <1>3, <2>2, <2>3, <3>2
    <3>4. f[n + 1][i] \in Intervals
      BY <2>5, <2>7 DEF Parted
    <3>5. f[n + 1][i].start \in Nat /\ w.start \in Nat /\ Start(t[m]) \in Nat
      BY <1>2, <2>3, <3>2, <3>4, IntervalFacts, CIDRFacts
    <3> QED BY <3>1, <3>3, <3>5
  <2> QED BY <2>5, <2>6, <2>7, <2>8
<1> HIDE DEF T
<1>6. Len(t) \in T
  BY <1>1, <1>4, <1>5, Induction
<1>7. P(Len(t))
  BY <1>1, <1>6 DEF T
<1> QED BY <1>7, CoveredToAll

Widening(t, f) ==
  f = [n \in 0..Len(t) |-> IF n = 0 THEN <<>> ELSE Widen(f[n - 1], Interval(t[n]))]
Coalescing(t, f) ==
  f = [n \in 0..Len(t) |-> IF n = 0 THEN <<>> ELSE Coalesce(f[n - 1], Interval(t[n]))]

LEMMA ParseWhitelistRangesWidens ==
  ASSUME NEW s
  PROVE  ParseWhitelistRanges(s) = (CHOOSE f : Widening(Sorted(s), f))[Len(Sorted(s))]
BY DEF ParseWhitelistRanges, Widening

LEMMA BuildClusterIntervalsCoalesces ==
  ASSUME NEW s
  PROVE  BuildClusterIntervals(s) = (CHOOSE f : Coalescing(Sorted(s), f))[Len(Sorted(s))]
BY DEF BuildClusterIntervals, Coalescing

LEMMA JoiningExists ==
  ASSUME NEW t \in Seq(CIDRs)
  PROVE  \E g : Widening(t, g) /\ Coalescing(t, g)
<1> DEFINE N == Len(t)
           V == Seq(Intervals)
           step == [n \in 1..N |-> [v \in V |-> Joined(v, Interval(t[n]))]]
<1>1. N \in Nat /\ <<>> \in V /\ \A n \in 1..N : t[n] \in CIDRs
  OBVIOUS
<1>2. \A n \in 1..N : Interval(t[n]) \in Intervals
  BY <1>1, RangeInterval
<1>3. step \in [1..N -> [V -> V]]
  BY <1>2, JoinedTyped
<1>4. \A n \in 1..N : \A v \in V : step[n][v] = Joined(v, Interval(t[n]))
  OBVIOUS
<1>5. \A n \in 1..N : \A v \in V : /\ step[n][v] = Widen(v, Interval(t[n]))
                                   /\ step[n][v] = Coalesce(v, Interval(t[n]))
  BY <1>2, <1>4, JoinedIs
<1> HIDE DEF V, step
<1>6. PICK g \in [0..N -> V] : Recursive(g, <<>>, step, N)
  BY <1>1, <1>3, RecursionExists
<1>7. g = [n \in 0..N |-> IF n = 0 THEN <<>> ELSE step[n][g[n - 1]]]
  BY <1>6 DEF Recursive
<1>8. ASSUME NEW n \in 0..N, n # 0
      PROVE  /\ step[n][g[n - 1]] = Widen(g[n - 1], Interval(t[n]))
             /\ step[n][g[n - 1]] = Coalesce(g[n - 1], Interval(t[n]))
  <2>1. n \in 1..N /\ n - 1 \in 0..N
    BY <1>1, <1>8
  <2> QED BY <1>5, <1>6, <2>1
<1>9. Widening(t, g)
  BY <1>7, <1>8 DEF Widening
<1>10. Coalescing(t, g)
  BY <1>7, <1>8 DEF Coalescing
<1> QED BY <1>9, <1>10

LEMMA ParseWhitelistRangesFacts ==
  ASSUME NEW s \in Seq(CIDRs)
  PROVE  Parted(ParseWhitelistRanges(s), Covered(s))
<1> DEFINE t == Sorted(s)
           f == CHOOSE f : Widening(t, f)
<1>1. t \in Seq(CIDRs) /\ InOrder(t) /\ Elements(t) = Elements(s)
  BY SortedFacts
<1>2. Covered(t) = Covered(s)
  BY <1>1, ElementsCover
<1>3. ParseWhitelistRanges(s) = f[Len(t)]
  BY ParseWhitelistRangesWidens
<1> HIDE DEF t
<1>4. Widening(t, f)
  BY <1>1, JoiningExists
<1> HIDE DEF f
<1>5. Len(t) \in Nat /\ \A n \in 1..Len(t) : t[n] \in CIDRs
  BY <1>1
<1>6. \A n \in 0..Len(t) : f[n] = IF n = 0 THEN <<>> ELSE Widen(f[n - 1], Interval(t[n]))
  BY <1>4 DEF Widening
<1>7. f[0] = <<>>
  BY <1>5, <1>6
<1>8. ASSUME NEW n \in 1..Len(t), f[n - 1] \in Seq(Intervals)
      PROVE  f[n] = Joined(f[n - 1], Interval(t[n]))
  <2>1. n \in 0..Len(t) /\ n # 0
    BY <1>5
  <2>2. Interval(t[n]) \in Intervals
    BY <1>5, RangeInterval
  <2> QED BY <1>6, <1>8, <2>1, <2>2, JoinedIs
<1>9. Parted(f[Len(t)], Covered(t))
  BY <1>1, <1>7, <1>8, JoinedAll
<1> QED BY <1>2, <1>3, <1>9

LEMMA BuildClusterIntervalsFacts ==
  ASSUME NEW s \in Seq(CIDRs)
  PROVE  Parted(BuildClusterIntervals(s), Covered(s))
<1> DEFINE t == Sorted(s)
           f == CHOOSE f : Coalescing(t, f)
<1>1. t \in Seq(CIDRs) /\ InOrder(t) /\ Elements(t) = Elements(s)
  BY SortedFacts
<1>2. Covered(t) = Covered(s)
  BY <1>1, ElementsCover
<1>3. BuildClusterIntervals(s) = f[Len(t)]
  BY BuildClusterIntervalsCoalesces
<1> HIDE DEF t
<1>4. Coalescing(t, f)
  BY <1>1, JoiningExists
<1> HIDE DEF f
<1>5. Len(t) \in Nat /\ \A n \in 1..Len(t) : t[n] \in CIDRs
  BY <1>1
<1>6. \A n \in 0..Len(t) : f[n] = IF n = 0 THEN <<>> ELSE Coalesce(f[n - 1], Interval(t[n]))
  BY <1>4 DEF Coalescing
<1>7. f[0] = <<>>
  BY <1>5, <1>6
<1>8. ASSUME NEW n \in 1..Len(t), f[n - 1] \in Seq(Intervals)
      PROVE  f[n] = Joined(f[n - 1], Interval(t[n]))
  <2>1. n \in 0..Len(t) /\ n # 0
    BY <1>5
  <2>2. Interval(t[n]) \in Intervals
    BY <1>5, RangeInterval
  <2> QED BY <1>6, <1>8, <2>1, <2>2, JoinedIs
<1>9. Parted(f[Len(t)], Covered(t))
  BY <1>1, <1>7, <1>8, JoinedAll
<1> QED BY <1>2, <1>3, <1>9

(* The last interval that starts by x is the only one that can hold x.     *)
LEMMA LastBefore ==
  ASSUME NEW v, NEW S, Parted(v, S), NEW x \in Nat,
         NEW before, before = {i \in DOMAIN v : v[i].start <= x}, before # {}
  PROVE  /\ Max(before) \in DOMAIN v /\ v[Max(before)].start <= x
         /\ x \in S <=> x <= v[Max(before)].end
<1> DEFINE m == Max(before)
<1>1. /\ v \in Seq(Intervals)
      /\ \A i, j \in DOMAIN v : i < j => v[i].end < v[j].start
      /\ Held(v) = S
  BY DEF Parted
<1>2. DOMAIN v = 1..Len(v) /\ Len(v) \in Nat /\ \A i \in 1..Len(v) : v[i] \in Intervals
  BY <1>1
<1>3. m \in before /\ \A i \in before : i <= m
  <2>1. before \in SUBSET (0..Len(v))
    BY <1>2
  <2> QED BY <1>2, <2>1, MaxFacts
<1> HIDE DEF m
<1>4. m \in DOMAIN v /\ m \in 1..Len(v) /\ v[m].start <= x
  BY <1>2, <1>3
<1>5. \A i \in 1..Len(v) : v[i].start \in Nat /\ v[i].end \in Nat
  BY <1>2, IntervalFacts
<1>6. ASSUME x <= v[m].end PROVE x \in S
  <2>1. x \in Between(v[m])
    BY <1>4, <1>5, <1>6 DEF Between
  <2> QED BY <1>1, <1>4, <2>1, HeldIs
<1>7. ASSUME x \in S PROVE x <= v[m].end
  <2>1. PICK i \in 1..Len(v) : x \in Between(v[i])
    BY <1>1, <1>2, <1>7, HeldIs
  <2>2. v[i].start <= x /\ x <= v[i].end
    BY <2>1 DEF Between
  <2>3. i <= m
    BY <1>2, <1>3, <2>2
  <2>4. i = m
    <3>1. ASSUME i < m PROVE FALSE
      <4>1. v[i].end < v[m].start
        BY <1>1, <1>2, <1>4, <3>1
      <4> QED BY <1>4, <1>5, <2>2, <4>1
    <3> QED BY <1>4, <2>3, <3>1
  <2> QED BY <2>2, <2>4
<1> QED BY <1>4, <1>6, <1>7 DEF m

LEMMA ContainsIPFacts ==
  ASSUME NEW v, NEW S, Parted(v, S), NEW x \in 0..Top
  PROVE  ContainsIP(v, x) <=> x \in S
<1> DEFINE before == {i \in DOMAIN v : v[i].start <= x}
<1>1. x \in Nat
  BY TopFacts
<1>2. ContainsIP(v, x) <=> before # {} /\ v[Max(before)].end >= x
  BY DEF ContainsIP
<1>3. v \in Seq(Intervals) /\ Held(v) = S
  BY DEF Parted
<1>4. CASE before = {}
  <2>1. ASSUME x \in S PROVE FALSE
    <3>1. PICK i \in DOMAIN v : x \in Between(v[i])
      BY <1>3, <2>1, HeldIs
    <3>2. v[i].start <= x
      BY <3>1 DEF Between
    <3> QED BY <1>4, <3>2
  <2> QED BY <1>2, <1>4, <2>1
<1>5. CASE before # {}
  <2>1. before = {i \in DOMAIN v : v[i].start <= x}
    OBVIOUS
  <2> HIDE DEF before
  <2>2. Max(before) \in DOMAIN v /\ (x \in S <=> x <= v[Max(before)].end)
    BY <1>1, <1>5, <2>1, LastBefore
  <2>3. v[Max(before)].end \in Nat
    <3>1. v[Max(before)] \in Intervals
      BY <1>3, <2>2
    <3> QED BY <3>1, IntervalFacts
  <2> QED BY <1>1, <1>2, <1>5, <2>2, <2>3
<1> QED BY <1>4, <1>5

----------------------------------------------------------------------------
(* Every state is a call.                                                  *)

CallsInv == nets \in Seq(CIDRs) /\ white \in Seq(CIDRs)

LEMMA CallsInvHolds == Calls => []CallsInv
<1>1. CallsInit => CallsInv
  BY DEF CallsInit, CallsInv
<1>2. CallsInv /\ [CallsNext]_args => CallsInv'
  <2> SUFFICES ASSUME CallsInv, [CallsNext]_args PROVE CallsInv'
    OBVIOUS
  <2>1. ASSUME NEW r \in CIDRs, AddNet(r) PROVE CallsInv'
    BY <2>1 DEF AddNet, CallsInv
  <2>2. ASSUME NEW r \in CIDRs, AddWhite(r) PROVE CallsInv'
    BY <2>2 DEF AddWhite, CallsInv
  <2>3. CASE UNCHANGED args
    BY <2>3 DEF args, CallsInv
  <2> QED BY <2>1, <2>2, <2>3 DEF CallsNext
<1> QED BY <1>1, <1>2, PTL DEF Calls

LEMMA PiecesAre ==
  ASSUME NEW s, NEW S, Pieces(s, S)
  PROVE  Range(s) \subseteq CIDRs /\ Disjoint(s) /\ Ascending(s)
<1>1. s \in Seq(CIDRs) /\ Apart(s)
  BY DEF Pieces
<1>2. DOMAIN s = 1..Len(s) /\ Len(s) \in Nat /\ \A i \in 1..Len(s) : s[i] \in CIDRs
  BY <1>1
<1>3. Range(s) \subseteq CIDRs
  BY <1>1, <1>2 DEF Range
<1>4. \A i \in 1..Len(s) : /\ Start(s[i]) \in Nat /\ End(s[i]) \in Nat
                           /\ Start(s[i]) <= End(s[i]) /\ s[i].ip = Start(s[i])
                           /\ Addresses(s[i]) = Start(s[i])..End(s[i])
  BY <1>2, CIDRFacts
<1>5. Disjoint(s)
  <2> SUFFICES ASSUME NEW i \in DOMAIN s, NEW j \in DOMAIN s, i < j
               PROVE  Addresses(s[i]) \cap Addresses(s[j]) = {}
    BY DEF Disjoint
  <2>1. End(s[i]) < Start(s[j])
    BY <1>1 DEF Apart
  <2>2. i \in 1..Len(s) /\ j \in 1..Len(s)
    BY <1>2
  <2> QED BY <1>4, <2>1, <2>2
<1>6. Ascending(s)
  <2> SUFFICES ASSUME NEW i \in 2..Len(s) PROVE s[i - 1].ip <= s[i].ip
    BY DEF Ascending
  <2>1. i \in 1..Len(s) /\ i - 1 \in 1..Len(s) /\ i - 1 < i
    BY <1>2
  <2>2. End(s[i - 1]) < Start(s[i])
    BY <1>1, <1>2, <2>1 DEF Apart
  <2> QED BY <1>4, <2>1, <2>2
<1> QED BY <1>3, <1>5, <1>6

(* Whatever it is given, in whatever order, MergeIPNets hands the jail     *)
(* ranges that are disjoint and in order and have just the addresses it    *)
(* was given; and the overlay of the heatmap counts just these.            *)
THEOREM MergeExactHolds == Calls => []MergeExact
<1>1. CallsInv => MergeExact
  <2> SUFFICES ASSUME CallsInv PROVE MergeExact
    OBVIOUS
  <2> DEFINE merged == MergeIPNets(nets)
             built == BuildClusterIntervals(nets)
  <2>1. nets \in Seq(CIDRs)
    BY DEF CallsInv
  <2>2. Pieces(merged, Covered(nets)) /\ Parted(built, Covered(nets))
    BY <2>1, MergeIPNetsFacts, BuildClusterIntervalsFacts
  <2>3. \A x \in Covered(nets) : x \in 0..Top
    <3> TAKE x \in Covered(nets)
    <3>1. PICK i \in DOMAIN nets : x \in Addresses(nets[i])
      BY CoveredIs
    <3>2. nets[i] \in CIDRs
      BY <2>1, <3>1
    <3>3. /\ x \in Start(nets[i])..End(nets[i]) /\ Start(nets[i]) \in Nat
          /\ End(nets[i]) \in Nat /\ End(nets[i]) <= Top
      BY <3>1, <3>2, CIDRFacts
    <3> QED BY <3>3, TopFacts
  <2> HIDE DEF merged, built
  <2>4. Range(merged) \subseteq CIDRs /\ Disjoint(merged) /\ Ascending(merged)
    BY <2>2, PiecesAre
  <2>5. Covered(merged) = Covered(nets)
    BY <2>2 DEF Pieces
  <2>6. {ip \in 0..Top : ContainsIP(built, ip)} = Covered(nets)
    BY <2>2, <2>3, ContainsIPFacts
  <2> QED BY <2>4, <2>5, <2>6 DEF MergeExact, merged, built
<1> QED BY <1>1, CallsInvHolds, PTL

----------------------------------------------------------------------------
(* The blocks of a gap.                                                    *)

LEMMA LargestFacts ==
  ASSUME NEW cur \in 0..Top, NEW size \in Nat \ {0}, NEW n, n = LargestCIDRSize(cur, size)
  PROVE  /\ n \in 0..W /\ Aligned(cur, n) /\ Pow2[n] <= size
         /\ \A m \in 0..W : Aligned(cur, m) /\ Pow2[m] <= size => m <= n
<1> DEFINE S == {m \in 0..W : cur % Pow2[m] = 0 /\ Pow2[m] <= size}
<1>1. W \in Nat /\ 0 \in 0..W /\ 0 \in 0..(W + 1) /\ \A m \in 0..W : m \in 0..(W + 1)
  BY WAssumption
<1>2. cur \in Nat
  BY TopFacts
<1>3. 0 \in S
  <2>1. Pow2[0] = 1
    BY Pow2Facts
  <2>2. cur % 1 = 0 /\ 1 <= size
    BY <1>2
  <2> QED BY <1>1, <2>1, <2>2
<1>4. n = Max(S)
  BY DEF LargestCIDRSize
<1>5. S \in SUBSET (0..W)
  OBVIOUS
<1>6. \A m \in 0..W : m \in S <=> Aligned(cur, m) /\ Pow2[m] <= size
  BY <1>1, <1>2, AlignedIsMultiple
<1> HIDE DEF S
<1>7. n \in S /\ \A m \in S : m <= n
  BY <1>1, <1>3, <1>4, <1>5, MaxFacts
<1>8. n \in 0..W
  BY <1>5, <1>7
<1> QED BY <1>6, <1>7, <1>8

BlockAt(cur, last) == [ip |-> cur, len |-> W - LargestCIDRSize(cur, last - cur + 1)]
After(cur, last) == U(cur + Pow2[LargestCIDRSize(cur, last - cur + 1)])

(* The body of Blocks' function.                                           *)
Filled(f, cur, last) ==
  <<BlockAt(cur, last)>>
    \o IF After(cur, last) < cur \/ After(cur, last) > last THEN <<>>
       ELSE f[After(cur, last)]

Filling(f, first, last) == f = [cur \in first..last |-> Filled(f, cur, last)]

LEMMA BlocksFill ==
  ASSUME NEW first, NEW last
  PROVE  Blocks(first, last) =
           CASE first > last -> <<>>
             [] first = 0 /\ last = Top -> <<[ip |-> 0, len |-> 0]>>
             [] OTHER -> (CHOOSE f : Filling(f, first, last))[first]
BY DEF Blocks, Filling, Filled, BlockAt, After

(* A stretch of addresses that Blocks fills, other than all of them.       *)
Gap(first, last) ==
  first \in 0..Top /\ last \in 0..Top /\ first <= last /\ ~ (first = 0 /\ last = Top)

(* The next block starts behind the last one, and the address wraps only   *)
(* where there is no next one.                                             *)
LEMMA FilledIs ==
  ASSUME NEW first, NEW last, Gap(first, last), NEW cur \in first..last
  PROVE  /\ BlockAt(cur, last) \in CIDRs /\ Start(BlockAt(cur, last)) = cur
         /\ cur <= End(BlockAt(cur, last)) /\ End(BlockAt(cur, last)) <= last
         /\ End(BlockAt(cur, last)) \in Nat
         /\ \A f : Filled(f, cur, last) =
                     IF End(BlockAt(cur, last)) = last THEN <<BlockAt(cur, last)>>
                     ELSE <<BlockAt(cur, last)>> \o f[End(BlockAt(cur, last)) + 1]
<1> DEFINE n == LargestCIDRSize(cur, last - cur + 1)
           b == BlockAt(cur, last)
           p == Pow2[n]
<1>1. /\ Top \in Nat /\ first \in Nat /\ last \in Nat /\ cur \in Nat /\ last <= Top
      /\ first <= cur /\ cur <= last /\ cur \in 0..Top /\ last - cur + 1 \in Nat \ {0}
  BY TopFacts DEF Gap
<1>2. n \in 0..W /\ Aligned(cur, n) /\ p <= last - cur + 1
  BY <1>1, LargestFacts
<1>3. b = [ip |-> cur, len |-> W - n]
  BY DEF BlockAt
<1>4. p \in Nat \ {0}
  <2>1. n \in 0..(W + 1)
    BY <1>2, TopFacts
  <2> QED BY <2>1, Pow2Facts
<1> HIDE DEF n
<1>5. b \in CIDRs /\ Start(b) = cur /\ Size(b) = p
  BY <1>1, <1>2, <1>3, BlockIsRange
<1>6. End(b) = cur + p - 1
  BY <1>3, <1>5 DEF End
<1>7. After(cur, last) = U(cur + p)
  BY DEF After, n
<1> HIDE DEF p, b
<1>8. End(b) \in Nat /\ cur <= End(b) /\ End(b) <= last /\ cur + p = End(b) + 1 /\ cur + p \in Nat
  BY <1>1, <1>2, <1>4, <1>6
<1> DEFINE a == After(cur, last)
<1>9. ASSUME End(b) = last PROVE a < cur \/ a > last
  <2>1. CASE last = Top
    <3>1. a = 0
      BY <1>7, <1>8, <1>9, <2>1, Wraps
    <3>2. cur # 0
      BY <1>1, <2>1 DEF Gap
    <3> QED BY <1>1, <3>1, <3>2
  <2>2. CASE last # Top
    <3>1. a = cur + p
      BY <1>1, <1>7, <1>8, <1>9, <2>2, Wraps
    <3> QED BY <1>1, <1>8, <1>9, <3>1
  <2> QED BY <2>1, <2>2
<1>10. ASSUME End(b) # last PROVE a = End(b) + 1 /\ ~ (a < cur) /\ ~ (a > last)
  <2>1. a = cur + p
    BY <1>1, <1>7, <1>8, <1>10, Wraps
  <2> QED BY <1>1, <1>8, <1>10, <2>1
<1> HIDE DEF a
<1>11. ASSUME NEW f
       PROVE  Filled(f, cur, last) = IF End(b) = last THEN <<b>> ELSE <<b>> \o f[End(b) + 1]
  <2>1. Filled(f, cur, last) = <<b>> \o IF a < cur \/ a > last THEN <<>> ELSE f[a]
    BY DEF Filled, a, b
  <2>2. <<b>> \o <<>> = <<b>>
    BY <1>5
  <2> QED BY <1>9, <1>10, <2>1, <2>2
<1> QED BY <1>5, <1>8, <1>11 DEF b

LEMMA FilledTyped ==
  ASSUME NEW first, NEW last, Gap(first, last), NEW cur \in first..last, NEW f,
         \A x \in first..last : last - x < last - cur => f[x] \in Seq(CIDRs)
  PROVE  Filled(f, cur, last) \in Seq(CIDRs)
<1> DEFINE b == BlockAt(cur, last)
           e == End(b)
<1>1. /\ b \in CIDRs /\ cur <= e /\ e <= last /\ e \in Nat
      /\ Filled(f, cur, last) = IF e = last THEN <<b>> ELSE <<b>> \o f[e + 1]
  BY FilledIs
<1>2. first \in Nat /\ last \in Nat /\ cur \in Nat
  BY TopFacts DEF Gap
<1> HIDE DEF b, e
<1>3. <<b>> \in Seq(CIDRs)
  BY <1>1
<1>4. ASSUME e # last PROVE f[e + 1] \in Seq(CIDRs)
  <2>1. e + 1 \in first..last /\ last - (e + 1) < last - cur
    BY <1>1, <1>2, <1>4
  <2> QED BY <2>1
<1>5. ASSUME e # last PROVE <<b>> \o f[e + 1] \in Seq(CIDRs)
  BY <1>3, <1>4, <1>5, ConcatIs
<1> QED BY <1>1, <1>3, <1>5

(* Filled looks at later addresses only.                                   *)
LEMMA FilledLater ==
  ASSUME NEW first, NEW last, Gap(first, last), NEW cur \in first..last, NEW f, NEW g,
         \A x \in first..last : last - x < last - cur => f[x] = g[x]
  PROVE  Filled(f, cur, last) = Filled(g, cur, last)
<1> DEFINE b == BlockAt(cur, last)
           e == End(b)
<1>1. /\ cur <= e /\ e <= last /\ e \in Nat
      /\ Filled(f, cur, last) = IF e = last THEN <<b>> ELSE <<b>> \o f[e + 1]
      /\ Filled(g, cur, last) = IF e = last THEN <<b>> ELSE <<b>> \o g[e + 1]
  BY FilledIs
<1>2. first \in Nat /\ last \in Nat /\ cur \in Nat
  BY TopFacts DEF Gap
<1> HIDE DEF b, e
<1>3. ASSUME e # last PROVE f[e + 1] = g[e + 1]
  <2>1. e + 1 \in first..last /\ last - (e + 1) < last - cur
    BY <1>1, <1>2, <1>3
  <2> QED BY <2>1
<1> QED BY <1>1, <1>3

LEMMA FillingExists ==
  ASSUME NEW first, NEW last, Gap(first, last)
  PROVE  \E f : Filling(f, first, last) /\ f \in [first..last -> Seq(CIDRs)]
<1>1. first \in Nat /\ last \in Nat /\ first <= last
  BY TopFacts DEF Gap
<1> DEFINE D(d) == {x \in first..last : last - x < d}
           T == {d \in Nat : \E f \in [D(d) -> Seq(CIDRs)] :
                               \A x \in D(d) : f[x] = Filled(f, x, last)}
<1>2. 0 \in T
  <2>1. D(0) = {}
    BY <1>1
  <2>2. [x \in {} |-> <<>>] \in [D(0) -> Seq(CIDRs)]
    BY <2>1
  <2> QED BY <2>1, <2>2
<1>3. ASSUME NEW d \in Nat, d \in T PROVE d + 1 \in T
  <2>1. PICK f \in [D(d) -> Seq(CIDRs)] : \A x \in D(d) : f[x] = Filled(f, x, last)
    BY <1>3
  <2> DEFINE g == [x \in D(d + 1) |-> Filled(f, x, last)]
  <2>2. ASSUME NEW x \in D(d + 1), NEW y \in first..last, last - y < last - x
        PROVE  y \in D(d) /\ y \in D(d + 1)
    BY <1>1, <2>2
  <2>3. ASSUME NEW x \in D(d) PROVE x \in D(d + 1)
    BY <1>1, <2>3
  <2>4. \A x \in D(d + 1) : x \in first..last
    OBVIOUS
  <2> HIDE DEF D
  <2>5. ASSUME NEW x \in D(d + 1) PROVE Filled(f, x, last) \in Seq(CIDRs)
    <3>1. \A y \in first..last : last - y < last - x => f[y] \in Seq(CIDRs)
      BY <2>2
    <3> QED BY <2>4, <3>1, FilledTyped
  <2>6. g \in [D(d + 1) -> Seq(CIDRs)]
    BY <2>5
  <2>7. \A x \in D(d) : g[x] = f[x]
    BY <2>1, <2>3
  <2>8. \A x \in D(d + 1) : g[x] = Filled(f, x, last)
    OBVIOUS
  <2> HIDE DEF g
  <2>9. ASSUME NEW x \in D(d + 1) PROVE Filled(f, x, last) = Filled(g, x, last)
    <3>1. \A y \in first..last : last - y < last - x => f[y] = g[y]
      BY <2>2, <2>7
    <3> QED BY <2>4, <3>1, FilledLater
  <2>10. \A x \in D(d + 1) : g[x] = Filled(g, x, last)
    BY <2>8, <2>9
  <2> QED BY <2>6, <2>10
<1> HIDE DEF T
<1>4. last - first + 1 \in T /\ last - first + 1 \in Nat
  BY <1>1, <1>2, <1>3, Induction
<1>5. D(last - first + 1) = first..last
  BY <1>1
<1>6. PICK f \in [first..last -> Seq(CIDRs)] : \A x \in first..last : f[x] = Filled(f, x, last)
  BY <1>4, <1>5 DEF T
<1>7. f = [x \in first..last |-> Filled(f, x, last)]
  BY <1>6
<1> QED BY <1>6, <1>7 DEF Filling

----------------------------------------------------------------------------
(* No block could be larger.                                               *)

(* No block of the gap runs across cur.                                    *)
Whole(first, last, cur) ==
  \A k \in 0..W : \A x \in first..last :
    x < cur /\ Aligned(x, k) /\ x + Pow2[k] - 1 <= last => x + Pow2[k] <= cur

Largest(f, first, last) ==
  f.len = 0 \/ Start(Larger(f)) < first \/ last < End(Larger(f))

LEMMA BlockLargest ==
  ASSUME NEW first, NEW last, Gap(first, last), NEW cur \in first..last,
         Whole(first, last, cur)
  PROVE  /\ Largest(BlockAt(cur, last), first, last)
         /\ Whole(first, last, End(BlockAt(cur, last)) + 1)
<1> DEFINE n == LargestCIDRSize(cur, last - cur + 1)
           b == BlockAt(cur, last)
           p == Pow2[n]
<1>1. /\ Top \in Nat /\ first \in Nat /\ last \in Nat /\ cur \in Nat /\ last <= Top
      /\ first <= cur /\ cur <= last /\ cur \in 0..Top /\ last - cur + 1 \in Nat \ {0}
  BY TopFacts DEF Gap
<1>2. /\ n \in 0..W /\ Aligned(cur, n) /\ p <= last - cur + 1
      /\ \A m \in 0..W : Aligned(cur, m) /\ Pow2[m] <= last - cur + 1 => m <= n
  BY <1>1, LargestFacts
<1>3. b = [ip |-> cur, len |-> W - n]
  BY DEF BlockAt
<1>4. /\ p \in Nat \ {0} /\ n \in 0..(W + 1) /\ n \in Nat
      /\ \A k \in 0..W : Pow2[k] \in Nat \ {0} /\ k \in 0..(W + 1)
  <2>1. n \in 0..(W + 1) /\ \A k \in 0..W : k \in 0..(W + 1)
    BY <1>2, TopFacts
  <2> QED BY <2>1, Pow2Facts
<1>5. b \in CIDRs /\ Start(b) = cur /\ Size(b) = p
  BY <1>1, <1>2, <1>3, BlockIsRange
<1>6. End(b) = cur + p - 1
  BY <1>3, <1>5 DEF End
<1>7. b.len = W - n /\ b.ip = cur /\ n = W - b.len
  BY <1>2, <1>3, TopFacts
<1> HIDE DEF n, b
<1>8. Largest(b, first, last)
  <2> DEFINE i == Larger(b).ip
  <2>1. /\ Pow2[n + 1] = 2 * p /\ Aligned(i, n + 1) /\ i \in Nat
        /\ (i = cur \/ i = cur - p) /\ Start(Larger(b)) = i
        /\ End(Larger(b)) = i + Pow2[n + 1] - 1
    BY <1>5, <1>7, LargerFacts
  <2> HIDE DEF i, p
  <2>2. SUFFICES ASSUME b.len # 0, first <= i, i + Pow2[n + 1] - 1 <= last PROVE FALSE
    BY <1>1, <1>4, <2>1 DEF Largest
  <2>3. n + 1 \in 0..W
    BY <1>2, <1>7, <2>2, TopFacts
  <2>4. CASE i = cur
    <3>1. Pow2[n + 1] <= last - cur + 1
      BY <1>1, <1>4, <2>1, <2>2, <2>4
    <3>2. n + 1 <= n
      BY <1>2, <2>1, <2>3, <2>4, <3>1
    <3> QED BY <1>4, <3>2
  <2>5. CASE i = cur - p
    <3>1. i \in first..last /\ i < cur
      BY <1>1, <1>4, <2>1, <2>2, <2>5
    <3>2. i + Pow2[n + 1] <= cur
      BY <2>1, <2>2, <2>3, <3>1 DEF Whole
    <3> QED BY <1>1, <1>4, <2>1, <2>5, <3>2
  <2> QED BY <2>1, <2>4, <2>5
<1>9. End(b) + 1 = cur + p
  BY <1>1, <1>4, <1>6
<1>10. ASSUME NEW k \in 0..W, NEW x \in first..last, x < cur + p, Aligned(x, k),
              x + Pow2[k] - 1 <= last
       PROVE  x + Pow2[k] <= cur + p
  <2>1. x \in Nat /\ Pow2[k] \in Nat \ {0} /\ k \in 0..(W + 1) /\ k \in Nat
    BY <1>1, <1>4, TopFacts
  <2>2. CASE x < cur
    <3>1. x + Pow2[k] <= cur
      BY <1>10, <2>2 DEF Whole
    <3> QED BY <1>1, <1>4, <2>1, <3>1
  <2>3. CASE x = cur
    <3>1. Pow2[k] <= last - cur + 1
      BY <1>1, <1>10, <2>1, <2>3
    <3>2. k <= n
      BY <1>2, <1>10, <2>3, <3>1
    <3>3. n \in k..(W + 1)
      BY <1>4, <2>1, <3>2
    <3>4. Pow2[k] <= p
      BY <2>1, <3>3, Pow2Grows
    <3> QED BY <1>1, <1>4, <2>1, <2>3, <3>4
  <2>4. CASE x > cur
    <3>1. k < n
      <4>1. ASSUME n <= k PROVE FALSE
        <5>1. k \in n..(W + 1)
          BY <1>4, <2>1, <4>1
        <5>2. Aligned(x, n)
          BY <1>4, <1>10, <5>1, AlignedDown
        <5>3. cur + p <= x
          BY <1>2, <1>4, <2>4, <5>2, AlignedApart
        <5> QED BY <1>1, <1>4, <1>10, <2>1, <5>3
      <4> QED BY <1>4, <2>1, <4>1
    <3>2. n \in k..(W + 1)
      BY <1>4, <2>1, <3>1
    <3>3. Aligned(cur + p, n)
      BY <1>2, <1>4, AlignedNext
    <3>4. Aligned(cur + p, k)
      BY <2>1, <3>2, <3>3, AlignedDown
    <3> QED BY <1>10, <2>1, <3>4, AlignedApart
  <2> QED BY <1>1, <2>1, <2>2, <2>3, <2>4
<1>11. Whole(first, last, End(b) + 1)
  BY <1>9, <1>10 DEF Whole
<1> QED BY <1>8, <1>11 DEF b

LEMMA ElementsConcat ==
  ASSUME NEW s \in Seq(CIDRs), NEW t \in Seq(CIDRs)
  PROVE  Elements(s \o t) = Elements(s) \cup Elements(t)
<1> DEFINE u == s \o t
<1>1. /\ \A i \in DOMAIN s : i \in DOMAIN u /\ u[i] = s[i]
      /\ \A i \in DOMAIN t : Len(s) + i \in DOMAIN u /\ u[Len(s) + i] = t[i]
      /\ \A i \in DOMAIN u : i \in DOMAIN s \/ i - Len(s) \in DOMAIN t
      /\ Len(s) \in Nat /\ DOMAIN u \subseteq Nat
  BY ConcatIs
<1> HIDE DEF u
<1>2. ASSUME NEW x \in Elements(s) PROVE x \in Elements(u)
  BY <1>1 DEF Elements
<1>3. ASSUME NEW x \in Elements(t) PROVE x \in Elements(u)
  BY <1>1 DEF Elements
<1>4. ASSUME NEW x \in Elements(u) PROVE x \in Elements(s) \/ x \in Elements(t)
  <2>1. PICK i \in DOMAIN u : x = u[i]
    BY DEF Elements
  <2>2. CASE i \in DOMAIN s
    BY <1>1, <2>1, <2>2 DEF Elements
  <2>3. CASE i - Len(s) \in DOMAIN t
    <3>1. Len(s) + (i - Len(s)) = i
      BY <1>1
    <3>2. u[i] = t[i - Len(s)]
      BY <1>1, <2>3, <3>1
    <3> QED BY <2>1, <2>3, <3>2 DEF Elements
  <2> QED BY <1>1, <2>2, <2>3
<1> QED BY <1>2, <1>3, <1>4 DEF u

LEMMA BlocksFacts ==
  ASSUME NEW first \in 0..Top, NEW last \in 0..Top, first <= last
  PROVE  /\ Pieces(Blocks(first, last), first..last)
         /\ \A x \in Elements(Blocks(first, last)) : Largest(x, first, last)
<1>1. /\ Top \in Nat /\ first \in Nat /\ last \in Nat /\ last <= Top /\ ~ (first > last)
      /\ Pow2[W] = Top + 1 /\ W \in 0..W /\ W \in Nat
  BY TopFacts
<1>2. CASE first = 0 /\ last = Top
  <2> DEFINE b == [ip |-> 0, len |-> 0]
  <2>1. Blocks(first, last) = <<b>>
    BY <1>1, <1>2, BlocksFill
  <2>2. Aligned(0, W)
    <3>1. 0 = 0 * Pow2[W]
      BY <1>1
    <3> QED BY <3>1 DEF Aligned
  <2>3. b \in CIDRs /\ Start(b) = 0 /\ Size(b) = Pow2[W]
    <3>1. 0 \in 0..Top /\ 0 = W - W
      BY <1>1
    <3> QED BY <1>1, <2>2, <3>1, BlockIsRange
  <2>4. Addresses(b) = first..last
    BY <1>1, <1>2, <2>3, CIDRFacts
  <2>5. b.len = 0
    OBVIOUS
  <2> HIDE DEF b
  <2>6. Pieces(<<b>>, first..last)
    BY <2>3, <2>4, PiecesOne
  <2>7. \A x \in Elements(<<b>>) : x = b
    BY DEF Elements
  <2> QED BY <2>1, <2>5, <2>6, <2>7 DEF Largest
<1>3. CASE ~ (first = 0 /\ last = Top)
  <2>1. Gap(first, last)
    BY <1>3 DEF Gap
  <2> DEFINE f == CHOOSE f : Filling(f, first, last)
  <2>2. Blocks(first, last) = f[first]
    BY <1>1, <1>3, BlocksFill
  <2>3. Filling(f, first, last)
    BY <2>1, FillingExists
  <2> HIDE DEF f
  <2>4. \A cur \in first..last : f[cur] = Filled(f, cur, last)
    BY <2>3 DEF Filling
  <2> DEFINE P(cur) == /\ Pieces(f[cur], cur..last)
                       /\ Whole(first, last, cur) =>
                            \A x \in Elements(f[cur]) : Largest(x, first, last)
             T == {d \in Nat : \A cur \in first..last : last - cur < d => P(cur)}
  <2>5. 0 \in T
    BY <1>1
  <2>6. ASSUME NEW d \in Nat, d \in T PROVE d + 1 \in T
    <3> SUFFICES ASSUME NEW cur \in first..last, last - cur < d + 1 PROVE P(cur)
      OBVIOUS
    <3> DEFINE b == BlockAt(cur, last)
               e == End(b)
    <3>1. /\ b \in CIDRs /\ Start(b) = cur /\ cur <= e /\ e <= last /\ e \in Nat
          /\ Filled(f, cur, last) = IF e = last THEN <<b>> ELSE <<b>> \o f[e + 1]
      BY <2>1, FilledIs
    <3>2. f[cur] = IF e = last THEN <<b>> ELSE <<b>> \o f[e + 1]
      BY <2>4, <3>1
    <3>3. Whole(first, last, cur) => Largest(b, first, last) /\ Whole(first, last, e + 1)
      BY <2>1, BlockLargest
    <3>4. Addresses(b) = cur..e
      BY <3>1, CIDRFacts
    <3> HIDE DEF b, e
    <3>5. Pieces(<<b>>, cur..e)
      BY <3>1, <3>4, PiecesOne
    <3>6. \A x \in Elements(<<b>>) : x = b
      BY DEF Elements
    <3>7. CASE e = last
      BY <3>2, <3>3, <3>5, <3>6, <3>7
    <3>8. CASE e # last
      <4>1. cur \in Nat /\ e + 1 \in first..last /\ last - (e + 1) < d
        BY <1>1, <3>1, <3>8
      <4>2. P(e + 1)
        BY <2>6, <4>1
      <4>3. AllBelow(cur..e, (e + 1)..last)
        BY <1>1, <3>1, <4>1 DEF AllBelow
      <4>4. Pieces(<<b>> \o f[e + 1], (cur..e) \cup ((e + 1)..last))
        BY <3>5, <4>2, <4>3, PiecesConcat
      <4>5. (cur..e) \cup ((e + 1)..last) = cur..last
        BY <1>1, <3>1, <4>1
      <4>6. \A x \in Elements(<<b>> \o f[e + 1]) : x = b \/ x \in Elements(f[e + 1])
        <5>1. <<b>> \in Seq(CIDRs) /\ f[e + 1] \in Seq(CIDRs) /\ Len(<<b>>) = 1
          BY <3>5, <4>2 DEF Pieces
        <5> QED BY <3>6, <5>1, ElementsConcat
      <4> QED BY <3>2, <3>3, <3>8, <4>2, <4>4, <4>5, <4>6
    <3> QED BY <3>7, <3>8
  <2> HIDE DEF T
  <2>7. last - first + 1 \in T
    BY <1>1, <2>5, <2>6, Induction
  <2>8. first \in first..last /\ last - first < last - first + 1
    BY <1>1
  <2>9. P(first)
    BY <2>7, <2>8 DEF T
  <2>10. Whole(first, last, first)
    BY <1>1 DEF Whole
  <2> QED BY <2>2, <2>9, <2>10
<1> QED BY <1>2, <1>3

----------------------------------------------------------------------------
(* The pieces of a range.                                                  *)

(* f is all of r, or could not be larger without an address of C.          *)
Tight(f, r, C) == f = r \/ Addresses(Larger(f)) \cap C # {}

LEMMA WholeRange ==
  ASSUME NEW f \in CIDRs, NEW r \in CIDRs, f.len <= r.len,
         Start(r) <= Start(f), End(f) <= End(r)
  PROVE  f = r
<1>1. /\ f.ip = Start(f) /\ r.ip = Start(r) /\ f.len \in 0..W /\ r.len \in 0..W
      /\ f = [ip |-> f.ip, len |-> f.len] /\ r = [ip |-> r.ip, len |-> r.len]
      /\ End(f) = f.ip + Size(f) - 1 /\ End(r) = r.ip + Size(r) - 1
      /\ f.ip \in Nat /\ r.ip \in Nat /\ Size(f) \in Nat \ {0} /\ Size(r) \in Nat \ {0}
      /\ Start(f) <= End(f)
  BY CIDRFacts
<1>2. Start(r) = Start(f)
  <2>1. Start(f) <= End(r)
    BY <1>1
  <2> QED BY <2>1, SameStart
<1>3. Size(f) <= Size(r)
  BY <1>1, <1>2
<1>4. ASSUME f.len # r.len PROVE FALSE
  <2> DEFINE m == W - r.len
             n == W - f.len
  <2>1. m \in 0..(W + 1) /\ n \in m..(W + 1) /\ m < n
    BY <1>1, <1>4, TopFacts
  <2>2. 2 * Pow2[m] <= Pow2[n]
    BY <2>1, Pow2Grows
  <2>3. Pow2[m] = Size(r) /\ Pow2[n] = Size(f)
    BY DEF Size
  <2> HIDE DEF m, n
  <2> QED BY <1>1, <1>3, <2>2, <2>3
<1> QED BY <1>1, <1>2, <1>4

(* A larger block of a range that is not the range itself is within it.    *)
LEMMA LargerWithin ==
  ASSUME NEW f \in CIDRs, NEW r \in CIDRs, Start(r) <= Start(f), End(f) <= End(r), f # r
  PROVE  /\ f.len > 0 /\ Larger(f) \in CIDRs
         /\ Start(Larger(f)) <= Start(f) /\ End(f) <= End(Larger(f))
         /\ Start(r) <= Start(Larger(f)) /\ End(Larger(f)) <= End(r)
<1> DEFINE l == Larger(f)
           n == W - f.len
<1>1. /\ f.ip = Start(f) /\ f.len \in Nat /\ r.len \in Nat
      /\ End(f) = f.ip + Size(f) - 1 /\ f.ip \in Nat /\ Start(f) <= End(f)
      /\ Start(r) \in Nat /\ End(r) \in Nat /\ End(f) \in Nat
  <2>1. f.len \in 0..W /\ r.len \in 0..W
    BY CIDRFacts
  <2>2. Start(r) = r.ip /\ r.ip \in Nat /\ Start(f) = f.ip
    BY CIDRFacts
  <2> QED BY <2>1, <2>2, CIDRFacts
<1>2. r.len < f.len
  BY <1>1, WholeRange
<1>3. f.len > 0
  BY <1>1, <1>2
<1>4. /\ Size(f) = Pow2[n] /\ Pow2[n] \in Nat \ {0} /\ Pow2[n + 1] = 2 * Pow2[n]
      /\ l.ip \in Nat /\ (l.ip = f.ip \/ l.ip = f.ip - Pow2[n])
      /\ Start(l) = l.ip /\ End(l) = l.ip + Pow2[n + 1] - 1 /\ l \in CIDRs
  BY <1>3, LargerFacts
<1>5. l.len = f.len - 1
  BY DEF Larger
<1> HIDE DEF l, n
<1>6. Start(l) <= Start(f) /\ End(f) <= End(l) /\ Start(l) \in Nat /\ End(l) \in Nat
  BY <1>1, <1>4
<1>7. r.len <= l.len
  BY <1>1, <1>2, <1>5
<1>8. Start(r) <= Start(l)
  <2>1. ASSUME Start(l) < Start(r) PROVE FALSE
    <3>1. Start(l) <= Start(r) /\ Start(r) <= End(l)
      BY <1>1, <1>6, <2>1
    <3>2. Start(l) = Start(r)
      BY <1>4, <1>7, <3>1, SameStart
    <3> QED BY <1>1, <1>6, <2>1, <3>2
  <2> QED BY <1>1, <1>6, <2>1
<1>9. End(l) <= End(r)
  <2>1. Start(l) <= End(r)
    BY <1>1, <1>6
  <2> QED BY <1>4, <1>7, <1>8, <2>1, Nested
<1> QED BY <1>3, <1>4, <1>6, <1>8, <1>9 DEF l

(* A gap of a range, between addresses of C or the ends of the range.      *)
LEMMA GapPieces ==
  ASSUME NEW r \in CIDRs, NEW C, NEW first, NEW last, first \in Nat, last \in Nat,
         Start(r) <= first, first <= last, last <= End(r),
         first = Start(r) \/ first - 1 \in C,
         last = End(r) \/ last + 1 \in C
  PROVE  /\ Pieces(Blocks(first, last), first..last)
         /\ \A f \in Elements(Blocks(first, last)) : Tight(f, r, C)
<1> DEFINE B == Blocks(first, last)
<1>1. /\ Start(r) \in Nat /\ End(r) \in Nat /\ End(r) <= Top /\ Top \in Nat
  <2>1. Start(r) = r.ip /\ r.ip \in Nat
    BY CIDRFacts
  <2> QED BY <2>1, CIDRFacts, TopFacts
<1>2. first \in 0..Top /\ last \in 0..Top
  BY <1>1
<1>3. Pieces(B, first..last) /\ \A x \in Elements(B) : Largest(x, first, last)
  BY <1>2, BlocksFacts
<1> HIDE DEF B
<1>4. ASSUME NEW f \in Elements(B), f # r PROVE Addresses(Larger(f)) \cap C # {}
  <2> DEFINE l == Larger(f)
  <2>1. PICK i \in DOMAIN B : f = B[i]
    BY <1>4 DEF Elements
  <2>2. f \in CIDRs
    BY <1>3, <2>1 DEF Pieces
  <2>3. \A x \in Addresses(f) : x \in first..last
    BY <1>3, <2>1, CoveredIs DEF Pieces
  <2>4. Start(f) \in Nat /\ End(f) \in Nat /\ Start(f) <= End(f) /\ Addresses(f) = Start(f)..End(f)
    <3>1. Start(f) = f.ip /\ f.ip \in Nat
      BY <2>2, CIDRFacts
    <3> QED BY <2>2, <3>1, CIDRFacts
  <2>5. first <= Start(f) /\ End(f) <= last
    BY <2>3, <2>4
  <2>6. Start(r) <= Start(f) /\ End(f) <= End(r)
    BY <1>1, <2>4, <2>5
  <2>7. /\ f.len > 0 /\ l \in CIDRs /\ Start(l) <= Start(f) /\ End(f) <= End(l)
        /\ Start(r) <= Start(l) /\ End(l) <= End(r)
    BY <1>4, <2>2, <2>6, LargerWithin
  <2>8. Start(l) \in Nat /\ End(l) \in Nat /\ Addresses(l) = Start(l)..End(l)
    <3>1. Start(l) = l.ip /\ l.ip \in Nat
      BY <2>7, CIDRFacts
    <3> QED BY <2>7, <3>1, CIDRFacts
  <2>9. Start(l) < first \/ last < End(l)
    <3>1. f.len # 0
      BY <2>7
    <3> QED BY <1>3, <1>4, <3>1 DEF Largest
  <2> HIDE DEF l
  <2>10. CASE Start(l) < first
    <3>1. first - 1 \in C
      BY <1>1, <2>7, <2>8, <2>10
    <3>2. first - 1 \in Start(l)..End(l)
      BY <2>4, <2>5, <2>7, <2>8, <2>10
    <3> QED BY <2>8, <3>1, <3>2 DEF l
  <2>11. CASE last < End(l)
    <3>1. last + 1 \in C
      BY <1>1, <2>7, <2>8, <2>11
    <3>2. last + 1 \in Start(l)..End(l)
      BY <2>4, <2>5, <2>7, <2>8, <2>11
    <3> QED BY <2>8, <3>1, <3>2 DEF l
  <2> QED BY <2>9, <2>10, <2>11
<1> QED BY <1>3, <1>4 DEF B, Tight

----------------------------------------------------------------------------
(* Cutting the intervals out of a range, one after the other.              *)

Cuts == [pos : 0..(Top + 1), out : Seq(CIDRs), done : BOOLEAN]

From(r, w) == Max({w.start, Start(r)})
Until(r, w) == Min({w.end, End(r)})
WithGap(r, acc, w) ==
  IF acc.pos < From(r, w) THEN acc.out \o Blocks(acc.pos, From(r, w) - 1) ELSE acc.out
Overlaps(r, w) == w.end >= Start(r) /\ w.start <= End(r)

LEMMA SubtractNextIs ==
  ASSUME NEW r \in CIDRs, NEW acc \in Cuts, NEW w \in Intervals
  PROVE  SubtractNext(r, acc, w) =
           IF acc.done \/ ~ Overlaps(r, w) THEN acc
           ELSE IF Until(r, w) = Top
                THEN [pos |-> acc.pos, out |-> WithGap(r, acc, w), done |-> TRUE]
                ELSE [pos |-> Max({acc.pos, Until(r, w) + 1}), out |-> WithGap(r, acc, w),
                      done |-> FALSE]
<1>1. /\ Start(r) \in Nat /\ End(r) \in Nat
  <2>1. Start(r) = r.ip /\ r.ip \in Nat
    BY CIDRFacts
  <2> QED BY <2>1, CIDRFacts
<1>2. w.start \in Nat /\ w.end \in Nat
  BY IntervalFacts
<1>3. Overlaps(r, w) <=> ~ (w.end < Start(r)) /\ ~ (w.start > End(r))
  BY <1>1, <1>2 DEF Overlaps
<1>4. acc.done \in BOOLEAN
  BY DEF Cuts
<1>5. CASE acc.done \/ ~ Overlaps(r, w)
  <2>1. acc.done \/ w.end < Start(r) \/ w.start > End(r)
    BY <1>3, <1>5
  <2>2. SubtractNext(r, acc, w) = acc
    BY <1>3, <1>4, <2>1 DEF SubtractNext, Overlaps
  <2> QED BY <1>5, <2>2
<1>6. CASE ~ (acc.done \/ ~ Overlaps(r, w))
  <2>1. ~ acc.done /\ Overlaps(r, w) /\ ~ (w.end < Start(r)) /\ ~ (w.start > End(r))
    BY <1>3, <1>6
  <2>2. w.end >= Start(r) /\ w.start <= End(r)
    BY <2>1 DEF Overlaps
  <2>3. SubtractNext(r, acc, w) =
          IF Until(r, w) = Top
          THEN [pos |-> acc.pos, out |-> WithGap(r, acc, w), done |-> TRUE]
          ELSE [pos |-> Max({acc.pos, Until(r, w) + 1}), out |-> WithGap(r, acc, w),
                done |-> FALSE]
    <3>1. CASE Until(r, w) = Top
      BY <2>1, <2>2, <3>1 DEF SubtractNext, Until, From, WithGap
    <3>2. CASE Until(r, w) # Top
      BY <2>1, <2>2, <3>2 DEF SubtractNext, Until, From, WithGap
    <3> QED BY <3>1, <3>2
  <2> QED BY <1>6, <2>3
<1> QED BY <1>5, <1>6

(* What an interval takes out of a range that it overlaps.                 *)
LEMMA OverlapFacts ==
  ASSUME NEW r \in CIDRs, NEW w \in Intervals, w.start <= w.end, Overlaps(r, w)
  PROVE  /\ From(r, w) \in Nat /\ Until(r, w) \in Nat
         /\ Start(r) <= From(r, w) /\ w.start <= From(r, w) /\ From(r, w) <= Until(r, w)
         /\ Until(r, w) <= w.end /\ Until(r, w) <= End(r)
         /\ From(r, w) \in {w.start, Start(r)} /\ Until(r, w) \in {w.end, End(r)}
         /\ Start(r) \in Nat /\ End(r) \in Nat /\ End(r) <= Top /\ Top \in Nat
         /\ w.start \in Nat /\ w.end \in Nat
         /\ Addresses(r) = Start(r)..End(r)
<1>1. /\ Start(r) \in Nat /\ End(r) \in Nat /\ Start(r) <= End(r) /\ End(r) <= Top
      /\ Addresses(r) = Start(r)..End(r)
  <2>1. Start(r) = r.ip /\ r.ip \in Nat
    BY CIDRFacts
  <2> QED BY <2>1, CIDRFacts
<1>2. w.start \in Nat /\ w.end \in Nat /\ Top \in Nat
  BY IntervalFacts, TopFacts
<1>3. /\ From(r, w) \in {w.start, Start(r)}
      /\ w.start <= From(r, w) /\ Start(r) <= From(r, w)
  BY <1>1, <1>2, MaxOfTwo DEF From
<1>4. /\ Until(r, w) \in {w.end, End(r)}
      /\ Until(r, w) <= w.end /\ Until(r, w) <= End(r)
  BY <1>1, <1>2, MinOfTwo DEF Until
<1>5. w.end >= Start(r) /\ w.start <= End(r)
  BY DEF Overlaps
<1>6. From(r, w) <= Until(r, w) /\ From(r, w) \in Nat /\ Until(r, w) \in Nat
  BY <1>1, <1>2, <1>3, <1>4, <1>5
<1> QED BY <1>1, <1>2, <1>3, <1>4, <1>6

LEMMA CutTyped ==
  ASSUME NEW r \in CIDRs, NEW acc \in Cuts, NEW w \in Intervals, w.start <= w.end
  PROVE  SubtractNext(r, acc, w) \in Cuts
<1>1. acc.pos \in 0..(Top + 1) /\ acc.out \in Seq(CIDRs) /\ acc.done \in BOOLEAN
  BY DEF Cuts
<1>2. CASE acc.done \/ ~ Overlaps(r, w)
  BY <1>2, SubtractNextIs
<1>3. CASE ~ acc.done /\ Overlaps(r, w)
  <2> DEFINE s == From(r, w)
             e == Until(r, w)
  <2>1. /\ s \in Nat /\ e \in Nat /\ s <= e /\ e <= Top /\ Top \in Nat
    <3>1. /\ s \in Nat /\ e \in Nat /\ s <= e /\ e <= End(r) /\ End(r) <= Top
          /\ End(r) \in Nat /\ Top \in Nat
      BY <1>3, OverlapFacts
    <3> QED BY <3>1
  <2>2. acc.pos \in Nat
    BY <1>1, <2>1
  <2>3. WithGap(r, acc, w) \in Seq(CIDRs)
    <3>1. CASE acc.pos < s
      <4>1. acc.pos \in 0..Top /\ s - 1 \in 0..Top /\ acc.pos <= s - 1
        BY <2>1, <2>2, <3>1
      <4>2. Blocks(acc.pos, s - 1) \in Seq(CIDRs)
        BY <4>1, BlocksFacts DEF Pieces
      <4>3. acc.out \o Blocks(acc.pos, s - 1) \in Seq(CIDRs)
        BY <1>1, <4>2, ConcatIs
      <4> QED BY <3>1, <4>3 DEF WithGap
    <3>2. CASE ~ (acc.pos < s)
      BY <1>1, <3>2 DEF WithGap
    <3> QED BY <3>1, <3>2
  <2>4. e # Top => Max({acc.pos, e + 1}) \in 0..(Top + 1)
    <3>1. Max({acc.pos, e + 1}) \in {acc.pos, e + 1} /\ e + 1 \in 0..(Top + 1)
      BY <2>1, <2>2, MaxOfTwo
    <3> QED BY <1>1, <3>1
  <2>5. SubtractNext(r, acc, w) =
          IF e = Top THEN [pos |-> acc.pos, out |-> WithGap(r, acc, w), done |-> TRUE]
          ELSE [pos |-> Max({acc.pos, e + 1}), out |-> WithGap(r, acc, w), done |-> FALSE]
    BY <1>3, SubtractNextIs
  <2> HIDE DEF e
  <2> QED BY <1>1, <2>3, <2>4, <2>5 DEF Cuts
<1> QED BY <1>1, <1>2, <1>3

(* The addresses of the first n intervals.                                 *)
Seen(v, n, x) == \E i \in 1..n : x \in Between(v[i])

CutInv(r, v, C, n, acc) ==
  /\ acc \in Cuts
  /\ Start(r) <= acc.pos /\ acc.pos <= End(r) + 1
  /\ \A f \in Elements(acc.out) : Tight(f, r, C)
  /\ acc.done => Pieces(acc.out, Addresses(r) \ C)
  /\ ~ acc.done => /\ Pieces(acc.out, (Start(r)..(acc.pos - 1)) \ C)
                   /\ acc.pos = Start(r) \/ Seen(v, n, acc.pos - 1)
                   /\ \A x \in Addresses(r) : Seen(v, n, x) => x < acc.pos

LEMMA PartedAre ==
  ASSUME NEW v, NEW C, Parted(v, C)
  PROVE  /\ Len(v) \in Nat /\ DOMAIN v = 1..Len(v)
         /\ \A i \in 1..Len(v) : /\ v[i] \in Intervals /\ v[i].start <= v[i].end
                                 /\ v[i].start \in Nat /\ v[i].end \in Nat
                                 /\ v[i].end <= Top
         /\ \A i, j \in 1..Len(v) : i < j => v[i].end < v[j].start
         /\ \A x : x \in C <=> \E i \in 1..Len(v) : x \in Between(v[i])
<1>1. v \in Seq(Intervals) /\ Held(v) = C
  BY DEF Parted
<1>2. Len(v) \in Nat /\ DOMAIN v = 1..Len(v) /\ \A i \in 1..Len(v) : v[i] \in Intervals
  BY <1>1
<1>3. /\ \A i \in 1..Len(v) : v[i].start <= v[i].end
      /\ \A i, j \in 1..Len(v) : i < j => v[i].end < v[j].start
  BY <1>2 DEF Parted
<1> QED BY <1>1, <1>2, <1>3, HeldIs, IntervalFacts

LEMMA CutNext ==
  ASSUME NEW r \in CIDRs, NEW v, NEW C, Parted(v, C), NEW n \in Nat, n + 1 <= Len(v),
         NEW acc, CutInv(r, v, C, n, acc)
  PROVE  CutInv(r, v, C, n + 1, SubtractNext(r, acc, v[n + 1]))
<1> DEFINE w == v[n + 1]
           a == Start(r)
           z == End(r)
           out == WithGap(r, acc, w)
           s == From(r, w)
           e == Until(r, w)
<1>1. /\ Len(v) \in Nat
      /\ \A i \in 1..Len(v) : /\ v[i] \in Intervals /\ v[i].start <= v[i].end
                              /\ v[i].start \in Nat /\ v[i].end \in Nat
      /\ \A i, j \in 1..Len(v) : i < j => v[i].end < v[j].start
      /\ \A x : x \in C <=> \E i \in 1..Len(v) : x \in Between(v[i])
  BY PartedAre
<1>2. n + 1 \in 1..Len(v) /\ n + 1 \in 1..(n + 1)
  BY <1>1
<1>3. w \in Intervals /\ w.start <= w.end /\ w.start \in Nat /\ w.end \in Nat
  BY <1>1, <1>2
<1>4. /\ acc \in Cuts /\ a <= acc.pos /\ acc.pos <= z + 1
      /\ \A f \in Elements(acc.out) : Tight(f, r, C)
      /\ acc.done => Pieces(acc.out, Addresses(r) \ C)
      /\ ~ acc.done => /\ Pieces(acc.out, (a..(acc.pos - 1)) \ C)
                       /\ acc.pos = a \/ Seen(v, n, acc.pos - 1)
                       /\ \A x \in Addresses(r) : Seen(v, n, x) => x < acc.pos
  BY DEF CutInv
<1>5. \A x : Seen(v, n + 1, x) <=> Seen(v, n, x) \/ x \in Between(w)
  <2>1. \A i \in 1..(n + 1) : i \in 1..n \/ i = n + 1
    OBVIOUS
  <2>2. \A i \in 1..n : i \in 1..(n + 1)
    OBVIOUS
  <2> QED BY <1>2, <2>1, <2>2 DEF Seen
<1>6. acc.done \in BOOLEAN /\ acc.pos \in 0..(Top + 1)
  BY <1>4 DEF Cuts
<1>7. CASE acc.done
  <2>1. SubtractNext(r, acc, w) = acc
    BY <1>3, <1>4, <1>7, SubtractNextIs
  <2> QED BY <1>4, <1>7, <2>1 DEF CutInv
<1>8. CASE ~ acc.done /\ ~ Overlaps(r, w)
  <2>1. SubtractNext(r, acc, w) = acc
    BY <1>3, <1>4, <1>8, SubtractNextIs
  <2>2. \A x \in Addresses(r) : x \notin Between(w)
    <3> TAKE x \in Addresses(r)
    <3>1. a \in Nat /\ z \in Nat /\ x \in a..z
      <4>1. a = r.ip /\ r.ip \in Nat
        BY CIDRFacts
      <4> QED BY <4>1, CIDRFacts
    <3> QED BY <1>3, <1>8, <3>1 DEF Overlaps, Between
  <2> QED BY <1>4, <1>5, <1>8, <2>1, <2>2 DEF CutInv
<1>9. CASE ~ acc.done /\ Overlaps(r, w)
  <2> DEFINE p == acc.pos
  <2>1. /\ s \in Nat /\ e \in Nat /\ a <= s /\ w.start <= s /\ s <= e
        /\ e <= w.end /\ e <= z /\ s \in {w.start, a} /\ e \in {w.end, z}
        /\ a \in Nat /\ z \in Nat /\ z <= Top /\ Top \in Nat /\ Addresses(r) = a..z
    BY <1>3, <1>9, OverlapFacts
  <2>2. /\ Pieces(acc.out, (a..(p - 1)) \ C)
        /\ p = a \/ Seen(v, n, p - 1)
        /\ \A x \in a..z : Seen(v, n, x) => x < p
    BY <1>4, <1>9, <2>1
  <2>3. p \in Nat /\ a <= p /\ p <= z + 1
    BY <1>4, <1>6, <2>1
  <2>4. out = IF p < s THEN acc.out \o Blocks(p, s - 1) ELSE acc.out
    BY DEF WithGap
  <2>5. SubtractNext(r, acc, w) =
          IF e = Top THEN [pos |-> p, out |-> out, done |-> TRUE]
          ELSE [pos |-> Max({p, e + 1}), out |-> out, done |-> FALSE]
    BY <1>3, <1>4, <1>9, SubtractNextIs
  <2>6. SubtractNext(r, acc, w) \in Cuts
    BY <1>3, <1>4, CutTyped
  <2> HIDE DEF s, e, out, a, z, p
  <2>7. p <= s
    <3>1. CASE p = a
      BY <2>1, <3>1
    <3>2. CASE Seen(v, n, p - 1)
      <4>1. PICK i \in 1..n : p - 1 \in Between(v[i])
        BY <3>2 DEF Seen
      <4>2. i \in 1..Len(v) /\ i < n + 1
        BY <1>1
      <4>3. v[i].end < w.start /\ v[i].end \in Nat
        BY <1>1, <1>2, <4>2
      <4>4. p - 1 <= v[i].end
        BY <4>1 DEF Between
      <4> QED BY <1>3, <2>1, <2>3, <4>3, <4>4
    <3> QED BY <2>2, <3>1, <3>2
  <2>8. \A x \in Nat : p <= x /\ x < s => x \notin C
    <3> SUFFICES ASSUME NEW x \in Nat, p <= x, x < s, x \in C PROVE FALSE
      OBVIOUS
    <3>1. PICK i \in 1..Len(v) : x \in Between(v[i])
      BY <1>1
    <3>2. v[i].start <= x /\ x <= v[i].end /\ v[i].start \in Nat
      BY <1>1, <3>1 DEF Between
    <3>3. CASE i \in 1..n
      <4>1. x \in a..z
        BY <2>1, <2>3
      <4>2. Seen(v, n, x)
        BY <3>1, <3>3 DEF Seen
      <4> QED BY <2>2, <2>3, <4>1, <4>2
    <3>4. CASE i \notin 1..n
      <4>1. i = n + 1 \/ n + 1 < i
        BY <1>1, <3>4
      <4>2. w.start <= v[i].start
        <5>1. CASE i = n + 1
          BY <1>3, <5>1
        <5>2. CASE n + 1 < i
          <6>1. w.end < v[i].start
            BY <1>1, <1>2, <5>2
          <6> QED BY <1>3, <3>2, <6>1
        <5> QED BY <4>1, <5>1, <5>2
      <4>3. s = w.start
        BY <2>1, <2>3
      <4> QED BY <1>3, <3>2, <4>2, <4>3
    <3> QED BY <3>3, <3>4
  <2>9. \A x \in s..e : x \in C /\ x \in Between(w)
    <3> TAKE x \in s..e
    <3>1. x \in Between(w)
      BY <1>3, <2>1 DEF Between
    <3> QED BY <1>1, <1>2, <3>1
  <2>10. Pieces(out, (a..(s - 1)) \ C) /\ \A f \in Elements(out) : Tight(f, r, C)
    <3>1. CASE p < s
      <4> DEFINE gap == Blocks(p, s - 1)
      <4>1. /\ s - 1 \in Nat /\ p <= s - 1 /\ s - 1 <= z
        BY <2>1, <2>3, <3>1
      <4>2. p = a \/ p - 1 \in C
        <5>1. ASSUME Seen(v, n, p - 1) PROVE p - 1 \in C
          <6>1. PICK i \in 1..n : p - 1 \in Between(v[i])
            BY <5>1 DEF Seen
          <6>2. i \in 1..Len(v)
            BY <1>1
          <6> QED BY <1>1, <6>1, <6>2
        <5> QED BY <2>2, <5>1
      <4>3. (s - 1) + 1 \in C
        <5>1. s \in s..e /\ (s - 1) + 1 = s
          BY <2>1
        <5> QED BY <2>9, <5>1
      <4>4. Pieces(gap, p..(s - 1)) /\ \A f \in Elements(gap) : Tight(f, r, C)
        BY <2>3, <4>1, <4>2, <4>3, GapPieces DEF a, z
      <4> HIDE DEF gap
      <4>5. AllBelow((a..(p - 1)) \ C, p..(s - 1))
        BY <2>1, <2>3 DEF AllBelow
      <4>6. Pieces(acc.out \o gap, ((a..(p - 1)) \ C) \cup (p..(s - 1)))
        BY <2>2, <4>4, <4>5, PiecesConcat
      <4>7. ((a..(p - 1)) \ C) \cup (p..(s - 1)) = (a..(s - 1)) \ C
        <5>1. ASSUME NEW x \in p..(s - 1) PROVE x \in a..(s - 1) /\ x \notin C
          <6>1. x \in Nat /\ p <= x /\ x < s /\ x \in a..(s - 1)
            BY <2>1, <2>3
          <6> QED BY <2>8, <6>1
        <5>2. ASSUME NEW x \in a..(s - 1) PROVE x \in a..(p - 1) \/ x \in p..(s - 1)
          BY <2>1, <2>3
        <5>3. ASSUME NEW x \in a..(p - 1) PROVE x \in a..(s - 1)
          BY <2>1, <2>3, <2>7
        <5> QED BY <5>1, <5>2, <5>3
      <4>8. out = acc.out \o gap
        BY <2>4, <3>1 DEF gap
      <4>9. \A f \in Elements(acc.out \o gap) : f \in Elements(acc.out) \/ f \in Elements(gap)
        <5>1. acc.out \in Seq(CIDRs) /\ gap \in Seq(CIDRs)
          BY <2>2, <4>4 DEF Pieces
        <5> QED BY <5>1, ElementsConcat
      <4> QED BY <1>4, <4>4, <4>6, <4>7, <4>8, <4>9
    <3>2. CASE ~ (p < s)
      <4>1. p = s
        BY <2>1, <2>3, <2>7, <3>2
      <4>2. out = acc.out
        BY <2>4, <3>2
      <4> QED BY <1>4, <2>2, <4>1, <4>2
    <3> QED BY <3>1, <3>2
  <2>11. (a..(s - 1)) \ C = (a..e) \ C
    <3>1. ASSUME NEW x \in a..e, x \notin C PROVE x \in a..(s - 1)
      <4>1. x \notin s..e
        BY <2>9, <3>1
      <4> QED BY <2>1, <4>1
    <3>2. ASSUME NEW x \in a..(s - 1) PROVE x \in a..e
      BY <2>1
    <3> QED BY <3>1, <3>2
  <2>12. CASE e = Top
    <3>1. e = z
      BY <2>1, <2>12
    <3>2. Pieces(out, Addresses(r) \ C)
      BY <2>1, <2>10, <2>11, <3>1
    <3>3. SubtractNext(r, acc, w) = [pos |-> p, out |-> out, done |-> TRUE]
      BY <2>5, <2>12
    <3> QED BY <2>3, <2>6, <2>10, <3>2, <3>3 DEF CutInv, a, z
  <2>13. CASE e # Top
    <3> DEFINE q == e + 1
    <3>1. Max({p, q}) = q
      <4>1. q \in Nat /\ p < q
        BY <2>1, <2>3, <2>7
      <4>2. Max({p, q}) \in {p, q} /\ q <= Max({p, q})
        BY <2>3, <4>1, MaxOfTwo
      <4> QED BY <2>3, <4>1, <4>2
    <3>2. SubtractNext(r, acc, w) = [pos |-> q, out |-> out, done |-> FALSE]
      BY <2>5, <2>13, <3>1
    <3>3. q - 1 = e /\ a <= q /\ q <= z + 1
      BY <2>1
    <3>4. e \in Between(w)
      <4>1. e \in s..e
        BY <2>1
      <4> QED BY <2>9, <4>1
    <3>5. Seen(v, n + 1, q - 1)
      BY <1>5, <3>3, <3>4
    <3>6. ASSUME NEW x \in a..z, Seen(v, n + 1, x) PROVE x < q
      <4>1. CASE Seen(v, n, x)
        <5>1. x < p
          BY <2>2, <4>1
        <5> QED BY <2>1, <2>3, <2>7, <5>1
      <4>2. CASE x \in Between(w)
        <5>1. x <= w.end
          BY <4>2 DEF Between
        <5> QED BY <1>3, <2>1, <5>1
      <4> QED BY <1>5, <3>6, <4>1, <4>2
    <3>7. Pieces(out, (a..(q - 1)) \ C)
      BY <2>10, <2>11, <3>3
    <3> HIDE DEF q
    <3> QED BY <2>1, <2>6, <2>10, <3>2, <3>3, <3>5, <3>6, <3>7 DEF CutInv, a, z
  <2> QED BY <2>12, <2>13
<1> QED BY <1>6, <1>7, <1>8, <1>9

Cutting(r, v, f) ==
  f = [n \in 0..Len(v) |->
         IF n = 0 THEN [pos |-> Start(r), out |-> <<>>, done |-> FALSE]
         ELSE SubtractNext(r, f[n - 1], v[n])]

LEMMA SubtractRangesCuts ==
  ASSUME NEW r, NEW v
  PROVE  SubtractRanges(r, v) =
           LET last == (CHOOSE f : Cutting(r, v, f))[Len(v)]
           IN  IF last.done THEN last.out ELSE last.out \o Blocks(last.pos, End(r))
BY DEF SubtractRanges, Cutting

LEMMA CuttingExists ==
  ASSUME NEW r \in CIDRs, NEW v, NEW C, Parted(v, C)
  PROVE  \E f : Cutting(r, v, f)
<1> DEFINE N == Len(v)
           base == [pos |-> Start(r), out |-> <<>>, done |-> FALSE]
           step == [n \in 1..N |-> [acc \in Cuts |-> SubtractNext(r, acc, v[n])]]
<1>1. N \in Nat /\ \A n \in 1..N : v[n] \in Intervals /\ v[n].start <= v[n].end
  BY PartedAre
<1>2. base \in Cuts
  <2>1. Start(r) \in 0..(Top + 1) /\ <<>> \in Seq(CIDRs)
    <3>1. Start(r) = r.ip /\ r.ip \in Nat /\ Start(r) <= End(r) /\ End(r) <= Top
          /\ End(r) \in Nat /\ Top \in Nat
      BY CIDRFacts, TopFacts
    <3> QED BY <3>1
  <2> QED BY <2>1 DEF Cuts
<1>3. step \in [1..N -> [Cuts -> Cuts]]
  BY <1>1, CutTyped
<1>4. \A n \in 1..N : \A acc \in Cuts : step[n][acc] = SubtractNext(r, acc, v[n])
  OBVIOUS
<1> HIDE DEF step, base
<1>5. PICK g \in [0..N -> Cuts] : Recursive(g, base, step, N)
  BY <1>1, <1>2, <1>3, RecursionExists
<1>6. g = [n \in 0..N |-> IF n = 0 THEN base ELSE step[n][g[n - 1]]]
  BY <1>5 DEF Recursive
<1>7. ASSUME NEW n \in 0..N, n # 0 PROVE step[n][g[n - 1]] = SubtractNext(r, g[n - 1], v[n])
  <2>1. n \in 1..N /\ n - 1 \in 0..N
    BY <1>1, <1>7
  <2> QED BY <1>4, <1>5, <2>1
<1>8. Cutting(r, v, g)
  BY <1>6, <1>7 DEF Cutting, base
<1> QED BY <1>8

LEMMA SubtractRangesFacts ==
  ASSUME NEW r \in CIDRs, NEW v, NEW C, Parted(v, C)
  PROVE  /\ Pieces(SubtractRanges(r, v), Addresses(r) \ C)
         /\ \A f \in Elements(SubtractRanges(r, v)) : Tight(f, r, C)
<1> DEFINE g == CHOOSE f : Cutting(r, v, f)
           last == g[Len(v)]
           a == Start(r)
           z == End(r)
<1>1. SubtractRanges(r, v) = IF last.done THEN last.out ELSE last.out \o Blocks(last.pos, z)
  BY SubtractRangesCuts
<1>2. Cutting(r, v, g)
  BY CuttingExists
<1> HIDE DEF g
<1>3. /\ Len(v) \in Nat
      /\ \A x : x \in C <=> \E i \in 1..Len(v) : x \in Between(v[i])
  BY PartedAre
<1>4. \A n \in 0..Len(v) : g[n] = IF n = 0 THEN [pos |-> a, out |-> <<>>, done |-> FALSE]
                                  ELSE SubtractNext(r, g[n - 1], v[n])
  BY <1>2 DEF Cutting
<1>5. /\ a \in Nat /\ z \in Nat /\ a <= z /\ z <= Top /\ Top \in Nat /\ Addresses(r) = a..z
  <2>1. a = r.ip /\ r.ip \in Nat
    BY CIDRFacts
  <2> QED BY <2>1, CIDRFacts, TopFacts
<1> DEFINE T == {n \in Nat : n <= Len(v) => CutInv(r, v, C, n, g[n])}
<1>6. 0 \in T
  <2>1. g[0] = [pos |-> a, out |-> <<>>, done |-> FALSE]
    <3>1. 0 \in 0..Len(v)
      BY <1>3
    <3> QED BY <1>4, <3>1
  <2>2. g[0] \in Cuts
    <3>1. a \in 0..(Top + 1) /\ <<>> \in Seq(CIDRs)
      BY <1>5
    <3> QED BY <2>1, <3>1 DEF Cuts
  <2>3. Elements(<<>>) = {} /\ \A x : ~ Seen(v, 0, x)
    BY DEF Elements, Seen
  <2>4. (a..(a - 1)) \ C = {}
    BY <1>5
  <2>5. Pieces(<<>>, (a..(a - 1)) \ C)
    BY <2>4, PiecesNone
  <2> HIDE DEF a, z
  <2>6. CutInv(r, v, C, 0, g[0])
    BY <1>5, <2>1, <2>2, <2>3, <2>5 DEF CutInv, a, z
  <2> QED BY <2>6
<1>7. ASSUME NEW n \in Nat, n \in T PROVE n + 1 \in T
  <2> SUFFICES ASSUME n + 1 <= Len(v) PROVE CutInv(r, v, C, n + 1, g[n + 1])
    OBVIOUS
  <2>1. CutInv(r, v, C, n, g[n])
    BY <1>3, <1>7
  <2>2. n + 1 \in 0..Len(v) /\ n + 1 # 0 /\ (n + 1) - 1 = n
    BY <1>3
  <2>3. g[n + 1] = SubtractNext(r, g[n], v[n + 1])
    BY <1>4, <2>2
  <2> QED BY <2>1, <2>3, CutNext
<1> HIDE DEF T
<1>8. CutInv(r, v, C, Len(v), last)
  <2>1. Len(v) \in T
    BY <1>3, <1>6, <1>7, Induction
  <2> QED BY <1>3, <2>1 DEF T
<1> HIDE DEF last, a, z
<1>9. /\ last \in Cuts /\ a <= last.pos /\ last.pos <= z + 1
      /\ \A f \in Elements(last.out) : Tight(f, r, C)
      /\ last.done => Pieces(last.out, Addresses(r) \ C)
      /\ ~ last.done => /\ Pieces(last.out, (a..(last.pos - 1)) \ C)
                        /\ last.pos = a \/ Seen(v, Len(v), last.pos - 1)
                        /\ \A x \in Addresses(r) : Seen(v, Len(v), x) => x < last.pos
  BY <1>8 DEF CutInv, a, z
<1>10. CASE last.done
  BY <1>1, <1>9, <1>10
<1>11. CASE ~ last.done
  <2> DEFINE p == last.pos
             gap == Blocks(p, z)
  <2>1. p \in Nat
    <3>1. p \in 0..(Top + 1)
      BY <1>9 DEF Cuts
    <3> QED BY <1>5, <3>1
  <2>2. SubtractRanges(r, v) = last.out \o gap
    BY <1>1, <1>11
  <2>3. last.out \in Seq(CIDRs)
    BY <1>9 DEF Cuts
  <2>4. \A x : x \in C <=> Seen(v, Len(v), x)
    BY <1>3 DEF Seen
  <2>5. \A x \in a..z : x \in C => x < p
    BY <1>5, <1>9, <1>11, <2>4
  <2>6. Pieces(last.out, (a..(p - 1)) \ C) /\ (p = a \/ p - 1 \in C) /\ a <= p /\ p <= z + 1
    BY <1>9, <1>11, <2>4
  <2> HIDE DEF p
  <2>7. CASE p <= z
    <3>1. Pieces(gap, p..z) /\ \A f \in Elements(gap) : Tight(f, r, C)
      <4>1. /\ p \in Nat /\ End(r) \in Nat /\ Start(r) <= p /\ p <= End(r) /\ End(r) <= End(r)
            /\ p = Start(r) \/ p - 1 \in C
        BY <1>5, <2>1, <2>6, <2>7 DEF a, z
      <4>2. /\ Pieces(Blocks(p, End(r)), p..End(r))
            /\ \A f \in Elements(Blocks(p, End(r))) : Tight(f, r, C)
        BY <4>1, GapPieces
      <4> QED BY <4>2 DEF z
    <3> HIDE DEF gap
    <3>2. AllBelow((a..(p - 1)) \ C, p..z)
      BY <1>5, <2>1 DEF AllBelow
    <3>3. Pieces(last.out \o gap, ((a..(p - 1)) \ C) \cup (p..z))
      BY <2>6, <3>1, <3>2, PiecesConcat
    <3>4. ((a..(p - 1)) \ C) \cup (p..z) = Addresses(r) \ C
      <4>1. ASSUME NEW x \in p..z PROVE x \in a..z /\ x \notin C
        <5>1. x \in a..z /\ ~ (x < p)
          BY <1>5, <2>1, <2>6
        <5> QED BY <2>5, <5>1
      <4>2. ASSUME NEW x \in a..z PROVE x \in a..(p - 1) \/ x \in p..z
        BY <1>5, <2>1, <2>6
      <4>3. ASSUME NEW x \in a..(p - 1) PROVE x \in a..z
        BY <1>5, <2>1, <2>7
      <4> QED BY <1>5, <4>1, <4>2, <4>3
    <3>5. \A f \in Elements(last.out \o gap) : f \in Elements(last.out) \/ f \in Elements(gap)
      <4>1. gap \in Seq(CIDRs)
        BY <3>1 DEF Pieces
      <4> QED BY <2>3, <4>1, ElementsConcat
    <3> QED BY <1>9, <2>2, <3>1, <3>3, <3>4, <3>5
  <2>8. CASE ~ (p <= z)
    <3>1. p = z + 1 /\ p > z
      BY <1>5, <2>1, <2>6, <2>8
    <3>2. gap = <<>>
      <4>1. ~ (p = 0 /\ z = Top)
        BY <1>5, <2>1, <3>1
      <4> QED BY <3>1, <4>1, BlocksFill
    <3>3. last.out \o <<>> = last.out
      BY <2>3
    <3>4. a..(p - 1) = Addresses(r)
      BY <1>5, <3>1
    <3> QED BY <1>9, <2>2, <2>6, <3>2, <3>3, <3>4
  <2> QED BY <2>7, <2>8
<1> QED BY <1>10, <1>11

LEMMA MinFacts ==
  ASSUME NEW S \in SUBSET Nat, S # {}
  PROVE  Min(S) \in S /\ \A x \in S : Min(S) <= x
<1>1. \E n \in S : \A m \in S : n <= m
  BY Least
<1> QED BY <1>1 DEF Min

(* The binary searches see whether a range is covered, and whether it is   *)
(* touched at all.                                                         *)
LEMMA SearchFacts ==
  ASSUME NEW r \in CIDRs, NEW v, NEW C, Parted(v, C)
  PROVE  /\ FullyCovered(r, v) => Addresses(r) \subseteq C
         /\ ~ Intersects(r, v) => Addresses(r) \cap C = {}
<1> DEFINE a == Start(r)
           z == End(r)
           before == {i \in DOMAIN v : v[i].start <= a}
           after == {i \in DOMAIN v : v[i].end >= a}
<1>1. /\ a \in Nat /\ z \in Nat /\ a <= z /\ Addresses(r) = a..z
  <2>1. a = r.ip /\ r.ip \in Nat
    BY CIDRFacts
  <2> QED BY <2>1, CIDRFacts
<1>2. /\ Len(v) \in Nat /\ DOMAIN v = 1..Len(v)
      /\ \A i \in 1..Len(v) : v[i].start <= v[i].end /\ v[i].start \in Nat /\ v[i].end \in Nat
      /\ \A i, j \in 1..Len(v) : i < j => v[i].end < v[j].start
      /\ \A x : x \in C <=> \E i \in 1..Len(v) : x \in Between(v[i])
  BY PartedAre
<1>3. FullyCovered(r, v) <=> before # {} /\ v[Max(before)].end >= z
  BY DEF FullyCovered
<1>4. Intersects(r, v) <=> after # {} /\ v[Min(after)].start <= z
  BY DEF Intersects
<1>5. before = {i \in DOMAIN v : v[i].start <= a} /\ after \in SUBSET (1..Len(v))
      /\ \A i \in 1..Len(v) : i \in after <=> v[i].end >= a
  BY <1>2
<1> HIDE DEF a, z, before, after
<1>6. ASSUME FullyCovered(r, v), NEW x \in Addresses(r) PROVE x \in C
  <2> DEFINE m == Max(before)
  <2>1. m \in DOMAIN v /\ v[m].start <= a
    BY <1>1, <1>3, <1>5, <1>6, LastBefore
  <2>2. v[m].end >= z
    BY <1>3, <1>6
  <2> HIDE DEF m
  <2>3. x \in Between(v[m])
    BY <1>1, <1>2, <1>6, <2>1, <2>2 DEF Between
  <2> QED BY <1>2, <2>1, <2>3
<1>7. ASSUME ~ Intersects(r, v), NEW x \in Addresses(r), x \in C PROVE FALSE
  <2>1. PICK i \in 1..Len(v) : x \in Between(v[i])
    BY <1>2, <1>7
  <2>2. x \in Nat /\ a <= x /\ x <= z /\ v[i].start <= x /\ x <= v[i].end
    BY <1>1, <1>2, <1>7, <2>1 DEF Between
  <2>3. i \in after
    BY <1>1, <1>2, <1>5, <2>2
  <2> DEFINE m == Min(after)
  <2>4. m \in after /\ m <= i
    <3>1. after \in SUBSET Nat
      BY <1>2, <1>5
    <3> QED BY <2>3, <3>1, MinFacts
  <2>5. ~ (v[m].start <= z)
    BY <1>4, <1>7, <2>3
  <2> HIDE DEF m
  <2>6. m \in 1..Len(v) /\ m \in Nat /\ i \in Nat
    BY <1>2, <1>5, <2>4
  <2>7. v[m].start <= v[i].start
    <3>1. CASE m = i
      BY <1>2, <2>6, <3>1
    <3>2. CASE m # i
      <4>1. v[m].end < v[i].start
        BY <1>2, <2>4, <2>6, <3>2
      <4> QED BY <1>2, <2>6, <4>1
    <3> QED BY <3>1, <3>2
  <2> QED BY <1>1, <1>2, <2>2, <2>5, <2>6, <2>7
<1> QED BY <1>6, <1>7

LEMMA RemoveWhitelistedFacts ==
  ASSUME NEW s \in Seq(CIDRs), NEW ws \in Seq(CIDRs), NEW i \in DOMAIN s
  PROVE  /\ Pieces(RemoveWhitelisted(s, ws)[i], Addresses(s[i]) \ Covered(ws))
         /\ \A f \in Elements(RemoveWhitelisted(s, ws)[i]) : Tight(f, s[i], Covered(ws))
<1> DEFINE v == ParseWhitelistRanges(ws)
           C == Covered(ws)
           r == s[i]
           p == RemoveWhitelisted(s, ws)[i]
<1>1. Parted(v, C)
  BY ParseWhitelistRangesFacts
<1>2. r \in CIDRs
  OBVIOUS
<1>3. p = CASE FullyCovered(r, v) -> <<>>
            [] ~ Intersects(r, v) -> <<r>>
            [] OTHER -> SubtractRanges(r, v)
  BY DEF RemoveWhitelisted
<1> HIDE DEF v, C, r, p
<1>4. FullyCovered(r, v) \in BOOLEAN /\ Intersects(r, v) \in BOOLEAN
  BY DEF FullyCovered, Intersects
<1>5. /\ FullyCovered(r, v) => Addresses(r) \subseteq C
      /\ ~ Intersects(r, v) => Addresses(r) \cap C = {}
  BY <1>1, <1>2, SearchFacts
<1>6. p = <<>> \/ p = <<r>> \/ p = SubtractRanges(r, v)
  BY <1>3, <1>4
<1>7. ASSUME Addresses(r) \subseteq C
      PROVE  Pieces(<<>>, Addresses(r) \ C) /\ \A f \in Elements(<<>>) : Tight(f, r, C)
  <2>1. Addresses(r) \ C = {} /\ Elements(<<>>) = {}
    BY <1>7 DEF Elements
  <2> QED BY <2>1, PiecesNone
<1>8. ASSUME Addresses(r) \cap C = {}
      PROVE  Pieces(<<r>>, Addresses(r) \ C) /\ \A f \in Elements(<<r>>) : Tight(f, r, C)
  <2>1. Addresses(r) \ C = Addresses(r)
    BY <1>8
  <2>2. \A f \in Elements(<<r>>) : f = r
    BY DEF Elements
  <2> QED BY <1>2, <2>1, <2>2, PiecesOne DEF Tight
<1>9. /\ Pieces(SubtractRanges(r, v), Addresses(r) \ C)
      /\ \A f \in Elements(SubtractRanges(r, v)) : Tight(f, r, C)
  BY <1>1, <1>2, SubtractRangesFacts
<1>10. CASE FullyCovered(r, v) /\ ~ Intersects(r, v)
  <2>1. p = <<>> \/ p = <<r>>
    BY <1>3, <1>10
  <2>2. Pieces(p, Addresses(r) \ C) /\ \A f \in Elements(p) : Tight(f, r, C)
    BY <1>5, <1>7, <1>8, <1>10, <2>1
  <2> QED BY <2>2 DEF p, r, C
<1>11. CASE FullyCovered(r, v) /\ Intersects(r, v)
  <2>1. p = <<>>
    BY <1>3, <1>11
  <2>2. Pieces(p, Addresses(r) \ C) /\ \A f \in Elements(p) : Tight(f, r, C)
    BY <1>5, <1>7, <1>11, <2>1
  <2> QED BY <2>2 DEF p, r, C
<1>12. CASE ~ FullyCovered(r, v) /\ ~ Intersects(r, v)
  <2>1. p = <<r>>
    BY <1>3, <1>12
  <2>2. Pieces(p, Addresses(r) \ C) /\ \A f \in Elements(p) : Tight(f, r, C)
    BY <1>5, <1>8, <1>12, <2>1
  <2> QED BY <2>2 DEF p, r, C
<1>13. CASE ~ FullyCovered(r, v) /\ Intersects(r, v)
  <2>1. p = SubtractRanges(r, v)
    BY <1>3, <1>13
  <2>2. Pieces(p, Addresses(r) \ C) /\ \A f \in Elements(p) : Tight(f, r, C)
    BY <1>9, <2>1
  <2> QED BY <2>2 DEF p, r, C
<1> QED BY <1>4, <1>10, <1>11, <1>12, <1>13

(* RemoveWhitelisted publishes of every range just what Whitelists says is *)
(* left of it, in ranges that are disjoint and could not be larger.        *)
THEOREM SubtractExactHolds == Calls => []SubtractExact
<1>1. CallsInv => SubtractExact
  <2> SUFFICES ASSUME CallsInv PROVE SubtractExact
    OBVIOUS
  <2> DEFINE p == RemoveWhitelisted(nets, white)
             C == Covered(white)
             Left(r) == Addresses(r) \ C
  <2>1. nets \in Seq(CIDRs) /\ white \in Seq(CIDRs)
    BY DEF CallsInv
  <2>2. \A i \in DOMAIN nets : nets[i] \in CIDRs
    BY <2>1
  <2>3. \A i \in DOMAIN nets : /\ Pieces(p[i], Left(nets[i]))
                               /\ \A f \in Elements(p[i]) : Tight(f, nets[i], C)
    BY <2>1, RemoveWhitelistedFacts
  <2>4. \A s : \A f \in Range(s) : f \in Elements(s)
    BY DEF Range, Elements
  <2>5. /\ Range(nets) = {nets[i] : i \in DOMAIN nets}
        /\ Range(white) = {white[i] : i \in DOMAIN white}
    BY DEF Range
  <2>6. \A r \in CIDRs : Abstract!Addresses(r) = Addresses(r)
    BY DEF Abstract!Addresses, Addresses
  <2>7. Abstract!Covered(Range(white)) = C
    <3>1. \A r \in Range(white) : r \in CIDRs
      BY <2>1, <2>5
    <3>2. Abstract!Covered(Range(white)) = UNION {Abstract!Addresses(r) : r \in Range(white)}
      BY DEF Abstract!Covered
    <3>3. Abstract!Covered(Range(white)) = UNION {Addresses(r) : r \in Range(white)}
      BY <2>6, <3>1, <3>2
    <3> QED BY <2>5, <3>3 DEF Covered
  <2>8. \A r \in Range(nets) : r \in CIDRs
    BY <2>2, <2>5
  <2>9. Abstract!RemoveWhitelisted(Range(nets), Range(white)) = {Left(r) : r \in Range(nets)} \ {{}}
    <3>1. Abstract!RemoveWhitelisted(Range(nets), Range(white))
            = {Abstract!Addresses(r) \ C : r \in Range(nets)} \ {{}}
      BY <2>7 DEF Abstract!RemoveWhitelisted
    <3> QED BY <2>6, <2>8, <3>1
  <2>10. \A i \in DOMAIN nets : Covered(p[i]) = Left(nets[i])
    BY <2>3 DEF Pieces
  <2> HIDE DEF p, C
  <2>11. {Covered(p[i]) : i \in DOMAIN nets} = {Left(r) : r \in Range(nets)}
    <3> HIDE DEF Left
    <3> QED BY <2>5, <2>10
  <2>12. ASSUME NEW i \in DOMAIN nets
         PROVE  /\ Range(p[i]) \subseteq CIDRs
                /\ Disjoint(p[i])
                /\ \A f \in Range(p[i]) : f = nets[i] \/ Addresses(Larger(f)) \cap C # {}
    <3> HIDE DEF Left
    <3>1. Range(p[i]) \subseteq CIDRs /\ Disjoint(p[i])
      BY <2>3, PiecesAre
    <3> QED BY <2>3, <2>4, <3>1 DEF Tight
  <2> QED BY <2>9, <2>11, <2>12 DEF SubtractExact, p, C
<1> QED BY <1>1, CallsInvHolds, PTL
============================================================================
