----------------------------- MODULE LogProofs -----------------------------
(***************************************************************************)
(* A log on its way to the jail phase of a static analysis.                *)
(*                                                                         *)
(* Addresses: the walk for the address alone finds what the full walk      *)
(* finds, on any line of bytes and for any formats (LogFields).            *)
(*                                                                         *)
(* Fields: both parsers recover every field that a server logs, whatever   *)
(* quotes and backslashes it has in it, for any formats that tell their    *)
(* fields apart and texts of any length that suit them (LogFields).        *)
(*                                                                         *)
(* Lines: a parse call returns each line of the file once, or an error,    *)
(* for any file, chunks and batches of any size, channels of any capacity  *)
(* and any number of readers and parsers (LogChunks).                      *)
(*                                                                         *)
(* Requests: every way to a trie's requests gives the same result, and the *)
(* jail phase sees all of them, for any log, any configurations, any       *)
(* number of workers, chunks of any size and channels of any capacity      *)
(* (StaticTries).                                                          *)
(***************************************************************************)
EXTENDS LogFields, LogChunks, StaticTries, WellFoundedInduction, FiniteSetTheorems, TLAPS

(* Induction over the numbers, for a property given as a set.              *)
LEMMA Induction ==
  ASSUME NEW T, 0 \in T, \A n \in Nat : n \in T => n + 1 \in T
  PROVE  \A n \in Nat : n \in T
<1> DEFINE R == OpToRel(<, Nat)
           Bad == Nat \ T
<1>1. IsWellFoundedOn(R, Nat) /\ R = {ss \in Nat \X Nat : ss[1] < ss[2]}
  BY NatLessThanWellFounded DEF OpToRel
<1> HIDE DEF R
<1>2. SUFFICES ASSUME Bad # {} PROVE FALSE
  OBVIOUS
<1>3. PICK n \in Bad : \A m \in Bad : <<m, n>> \notin R
  BY <1>1, <1>2, WFMin
<1>4. n \in Nat /\ n # 0
  OBVIOUS
<1>5. n - 1 \in Nat /\ <<n - 1, n>> \in R /\ n = (n - 1) + 1
  BY <1>1, <1>4
<1>6. n - 1 \in T
  BY <1>3, <1>5
<1> QED BY <1>3, <1>5, <1>6

(* A set of numbers has a least one.                                       *)
LEMMA LeastExists ==
  ASSUME NEW S \in SUBSET Nat, S # {}
  PROVE  \E n \in S : \A m \in S : n <= m
<1> DEFINE R == OpToRel(<, Nat)
<1>1. IsWellFoundedOn(R, Nat) /\ R = {ss \in Nat \X Nat : ss[1] < ss[2]}
  BY NatLessThanWellFounded DEF OpToRel
<1> HIDE DEF R
<1>2. PICK n \in S : \A m \in S : <<m, n>> \notin R
  BY <1>1, WFMin
<1>3. ASSUME NEW m \in S PROVE n <= m
  <2>1. m \in Nat /\ n \in Nat /\ <<m, n>> \notin R
    BY <1>2
  <2>2. ~ (m < n)
    BY <1>1, <2>1
  <2> QED BY <2>1, <2>2
<1> QED BY <1>3

LEMMA MinFacts ==
  ASSUME NEW S \in SUBSET Nat, S # {}
  PROVE  Min(S) \in S /\ \A m \in S : Min(S) <= m
BY LeastExists DEF Min

----------------------------------------------------------------------------
(* Lines and requests on their way: channels and workers are functions to  *)
(* sets of lines, or of the places of requests.                            *)

Held(g) == UNION {g[x] : x \in DOMAIN g}
Distinct(g) == \A x, y \in DOMAIN g : x # y => g[x] \cap g[y] = {}

Fits(P, q, s) ==
  q \in Seq(SUBSET P) /\ s \in SUBSET P /\ Distinct(q) /\ s \cap Held(q) = {}
Longer(P, q, s, p) ==
  p \in Seq(SUBSET P) /\ Held(p) = Held(q) \cup s /\ Distinct(p)

LEMMA HeldAppend ==
  ASSUME NEW P, NEW q, NEW s, Fits(P, q, s)
  PROVE  Longer(P, q, s, Append(q, s))
<1> DEFINE p == Append(q, s)
           n == Len(q)
<1>0. q \in Seq(SUBSET P) /\ s \in SUBSET P /\ Distinct(q) /\ s \cap Held(q) = {}
  BY DEF Fits
<1>1. /\ p \in Seq(SUBSET P) /\ n \in Nat /\ DOMAIN q = 1..n /\ DOMAIN p = 1..(n + 1)
      /\ p[n + 1] = s /\ \A k \in 1..n : p[k] = q[k]
  BY <1>0
<1> HIDE DEF p, n
<1>2. /\ \A k \in 1..n : k \in 1..(n + 1) /\ k # n + 1
      /\ \A k \in 1..(n + 1) : k \in 1..n \/ k = n + 1
      /\ n + 1 \in 1..(n + 1)
  BY <1>1
<1>3. Held(p) = Held(q) \cup s
  <2>1. ASSUME NEW i \in Held(p) PROVE i \in Held(q) \cup s
    BY <1>1, <1>2 DEF Held
  <2>2. ASSUME NEW i \in Held(q) PROVE i \in Held(p)
    BY <1>1, <1>2 DEF Held
  <2>3. ASSUME NEW i \in s PROVE i \in Held(p)
    BY <1>1, <1>2 DEF Held
  <2> QED BY <2>1, <2>2, <2>3
<1>4. Distinct(p)
  <2>1. \A k \in 1..n : q[k] \cap s = {}
    BY <1>0, <1>1 DEF Held
  <2>2. SUFFICES ASSUME NEW x \in 1..(n + 1), NEW y \in 1..(n + 1), x # y
                 PROVE  p[x] \cap p[y] = {}
    BY <1>1 DEF Distinct
  <2>3. CASE x \in 1..n /\ y \in 1..n
    BY <1>0, <1>1, <2>2, <2>3 DEF Distinct
  <2>4. CASE x = n + 1 \/ y = n + 1
    BY <1>1, <1>2, <2>1, <2>2, <2>4
  <2> QED BY <1>2, <2>3, <2>4
<1> QED BY <1>1, <1>3, <1>4 DEF p, Longer

LEMMA HeldTail ==
  ASSUME NEW P, NEW q \in Seq(SUBSET P), q # <<>>, Distinct(q)
  PROVE  /\ Tail(q) \in Seq(SUBSET P) /\ Head(q) \in SUBSET P
         /\ Held(q) = Head(q) \cup Held(Tail(q)) /\ Head(q) \cap Held(Tail(q)) = {}
         /\ Distinct(Tail(q))
<1> DEFINE p == Tail(q)
           h == Head(q)
           n == Len(q)
<1>1. /\ p \in Seq(SUBSET P) /\ h \in SUBSET P /\ n \in Nat /\ n >= 1
      /\ DOMAIN q = 1..n /\ DOMAIN p = 1..(n - 1)
      /\ h = q[1] /\ \A k \in 1..(n - 1) : p[k] = q[k + 1]
  OBVIOUS
<1> HIDE DEF p, h, n
<1>2. /\ \A k \in 1..(n - 1) : k + 1 \in 1..n /\ k + 1 # 1
      /\ \A k \in 1..n : k = 1 \/ (k - 1 \in 1..(n - 1) /\ (k - 1) + 1 = k)
      /\ 1 \in 1..n
  BY <1>1
<1>3. Held(q) = h \cup Held(p)
  <2>1. ASSUME NEW i \in Held(q) PROVE i \in h \cup Held(p)
    <3>1. PICK k \in 1..n : i \in q[k]
      BY <1>1 DEF Held
    <3>2. CASE k = 1
      BY <1>1, <3>1, <3>2
    <3>3. CASE k # 1
      <4>1. k - 1 \in 1..(n - 1) /\ p[k - 1] = q[k]
        BY <1>1, <1>2, <3>3
      <4> QED BY <1>1, <3>1, <4>1 DEF Held
    <3> QED BY <3>2, <3>3
  <2>2. ASSUME NEW i \in h PROVE i \in Held(q)
    BY <1>1, <1>2 DEF Held
  <2>3. ASSUME NEW i \in Held(p) PROVE i \in Held(q)
    BY <1>1, <1>2 DEF Held
  <2> QED BY <2>1, <2>2, <2>3
<1>4. h \cap Held(p) = {}
  BY <1>1, <1>2 DEF Held, Distinct
<1>5. Distinct(p)
  <2> SUFFICES ASSUME NEW x \in 1..(n - 1), NEW y \in 1..(n - 1), x # y
               PROVE  p[x] \cap p[y] = {}
    BY <1>1 DEF Distinct
  <2>1. x + 1 \in 1..n /\ y + 1 \in 1..n /\ x + 1 # y + 1
    BY <1>1, <1>2
  <2>2. p[x] = q[x + 1] /\ p[y] = q[y + 1]
    BY <1>1
  <2> QED BY <1>1, <2>1, <2>2 DEF Distinct
<1> QED BY <1>1, <1>3, <1>4, <1>5 DEF p, h

(* A slot that gets s instead of what it held.                             *)
LEMMA HeldPut ==
  ASSUME NEW g, NEW x \in DOMAIN g, NEW s, Distinct(g)
  PROVE  LET g2 == [g EXCEPT ![x] = s]
         IN  /\ Held(g2) = (Held(g) \ g[x]) \cup s
             /\ s \cap (Held(g) \ g[x]) = {} => Distinct(g2)
<1> DEFINE g2 == [g EXCEPT ![x] = s]
<1>1. DOMAIN g2 = DOMAIN g /\ g2[x] = s /\ \A y \in DOMAIN g : y # x => g2[y] = g[y]
  OBVIOUS
<1> HIDE DEF g2
<1>2. \A y \in DOMAIN g : y # x => g[y] \cap g[x] = {} /\ g[y] \subseteq Held(g) \ g[x]
  BY DEF Distinct, Held
<1>3. Held(g2) = (Held(g) \ g[x]) \cup s
  <2>1. ASSUME NEW i \in Held(g2) PROVE i \in (Held(g) \ g[x]) \cup s
    <3>1. PICK y \in DOMAIN g : i \in g2[y]
      BY <1>1 DEF Held
    <3> QED BY <1>1, <1>2, <3>1
  <2>2. ASSUME NEW i \in Held(g), i \notin g[x] PROVE i \in Held(g2)
    <3>1. PICK y \in DOMAIN g : i \in g[y]
      BY DEF Held
    <3> QED BY <1>1, <2>2, <3>1 DEF Held
  <2>3. ASSUME NEW i \in s PROVE i \in Held(g2)
    BY <1>1 DEF Held
  <2> QED BY <2>1, <2>2, <2>3
<1>4. ASSUME s \cap (Held(g) \ g[x]) = {} PROVE Distinct(g2)
  <2> SUFFICES ASSUME NEW y \in DOMAIN g, NEW z \in DOMAIN g, y # z
               PROVE  g2[y] \cap g2[z] = {}
    BY <1>1 DEF Distinct
  <2>1. CASE y # x /\ z # x
    BY <1>1, <2>1 DEF Distinct
  <2>2. CASE y = x \/ z = x
    BY <1>1, <1>2, <1>4, <2>2
  <2> QED BY <2>1, <2>2
<1> QED BY <1>3, <1>4 DEF g2

----------------------------------------------------------------------------
(* Positions are numbers.                                                  *)

LEMMA FindIsNat ==
  ASSUME NEW l, Len(l) \in Nat, NEW b, NEW from \in Nat
  PROVE  Find(l, b, from) \in Nat /\ FindNot(l, b, from) \in Nat
         /\ ScanQuotedClose(l, from) \in Nat
<1>1. Find(l, b, from) \in Nat
  <2> DEFINE S == {i \in from .. Len(l) : l[i] = b} \cup {Len(l) + 1}
  <2>1. S \in SUBSET Nat /\ S # {}
    OBVIOUS
  <2> HIDE DEF S
  <2>2. Min(S) \in Nat
    BY <2>1, MinFacts
  <2> QED BY <2>2 DEF S, Find
<1>2. FindNot(l, b, from) \in Nat
  <2> DEFINE S == {i \in from .. Len(l) : l[i] # b} \cup {Len(l) + 1}
  <2>1. S \in SUBSET Nat /\ S # {}
    OBVIOUS
  <2> HIDE DEF S
  <2>2. Min(S) \in Nat
    BY <2>1, MinFacts
  <2> QED BY <2>2 DEF S, FindNot
<1>3. ScanQuotedClose(l, from) \in Nat
  <2> DEFINE S == {i \in from .. Len(l) : l[i] = Quote /\ Closes(l, from, i)} \cup {Len(l) + 1}
  <2>1. S \in SUBSET Nat /\ S # {}
    OBVIOUS
  <2> HIDE DEF S
  <2>2. Min(S) \in Nat
    BY <2>1, MinFacts
  <2> QED BY <2>2 DEF S, ScanQuotedClose
<1> QED BY <1>1, <1>2, <1>3

LEMMA FieldAtIsNat ==
  ASSUME NEW e, NEW l, Len(l) \in Nat, NEW pos \in Nat
  PROVE  FieldAt(e, l, pos).start \in Nat /\ FieldAt(e, l, pos).end \in Nat
<1> DEFINE S == {Find(l, e.delimiter, pos), Find(l, Space, pos)}
<1>1. S \in SUBSET Nat /\ S # {}
  BY FindIsNat
<1> HIDE DEF S
<1>2. Min(S) \in Nat
  BY <1>1, MinFacts
<1>3. /\ ScanQuotedClose(l, pos + 1) \in Nat
      /\ Find(l, "]", pos + 1) \in Nat
  BY FindIsNat
<1> QED BY <1>2, <1>3 DEF FieldAt, S

LEMMA AdvanceIsNat ==
  ASSUME NEW e, NEW l, NEW end \in Nat
  PROVE  Advance(e, l, end) \in Nat
BY DEF Advance

----------------------------------------------------------------------------
(* The codes of a format.                                                  *)

CodesUpTo(f, u) ==
  u = [i \in 0 .. Len(f) |->
         IF i = 0 THEN <<>>
         ELSE IF IsCode(f[i]) THEN Append(u[i - 1], i) ELSE u[i - 1]]

(* Places of codes, each after the one before it.                          *)
InOrder(f, s, n) ==
  /\ s \in Seq(1 .. n)
  /\ \A k \in 1 .. Len(s) : IsCode(f[s[k]])
  /\ \A k, j \in 1 .. Len(s) : j < k => s[j] < s[k]

LEMMA CodesExist ==
  ASSUME NEW f, Len(f) \in Nat
  PROVE  \E u : CodesUpTo(f, u)
<1> DEFINE Up(u, n) ==
             u = [i \in 0 .. n |->
                    IF i = 0 THEN <<>>
                    ELSE IF IsCode(f[i]) THEN Append(u[i - 1], i) ELSE u[i - 1]]
           T == {n \in Nat : \E u : Up(u, n)}
<1>1. 0 \in T
  <2>1. Up([i \in 0 .. 0 |-> <<>>], 0)
    OBVIOUS
  <2> QED BY <2>1
<1>2. ASSUME NEW n \in Nat, n \in T PROVE n + 1 \in T
  <2>1. PICK u : Up(u, n)
    BY <1>2
  <2> DEFINE v == IF IsCode(f[n + 1]) THEN Append(u[n], n + 1) ELSE u[n]
             g == [i \in 0 .. (n + 1) |-> IF i = n + 1 THEN v ELSE u[i]]
  <2>2. \A i \in 0 .. n : u[i] = IF i = 0 THEN <<>>
                               ELSE IF IsCode(f[i]) THEN Append(u[i - 1], i) ELSE u[i - 1]
    BY <2>1
  <2>3. \A i \in 0 .. (n + 1) : g[i] = IF i = n + 1 THEN v ELSE u[i]
    OBVIOUS
  <2>4. g = [i \in 0 .. (n + 1) |-> g[i]]
    OBVIOUS
  <2> HIDE DEF g, v
  <2>5. ASSUME NEW i \in 0 .. (n + 1)
        PROVE  g[i] = IF i = 0 THEN <<>>
                      ELSE IF IsCode(f[i]) THEN Append(g[i - 1], i) ELSE g[i - 1]
    <3>1. CASE i = n + 1
      <4>1. i - 1 = n /\ n \in 0 .. (n + 1) /\ n # n + 1 /\ i # 0
        BY <3>1
      <4>2. g[n] = u[n] /\ g[i] = v
        BY <2>3, <3>1, <4>1
      <4> QED BY <3>1, <4>1, <4>2 DEF v
    <3>2. CASE i # n + 1
      <4>1. i \in 0 .. n /\ g[i] = u[i]
        BY <2>3, <3>2
      <4>2. ASSUME i # 0 PROVE g[i - 1] = u[i - 1]
        BY <2>3, <4>1, <4>2
      <4> QED BY <2>2, <4>1, <4>2
    <3> QED BY <3>1, <3>2
  <2>6. Up(g, n + 1)
    BY <2>4, <2>5
  <2> QED BY <2>6
<1> HIDE DEF T
<1>3. Len(f) \in T
  BY <1>1, <1>2, Induction
<1> QED BY <1>3 DEF T, CodesUpTo

LEMMA InOrderAppend ==
  ASSUME NEW f, NEW n \in Nat, NEW s, InOrder(f, s, n), IsCode(f[n + 1])
  PROVE  InOrder(f, Append(s, n + 1), n + 1)
<1> DEFINE t == Append(s, n + 1)
           m == Len(s)
<1>1. s \in Seq(1 .. n) /\ m \in Nat /\ \A k \in 1 .. m : s[k] \in 1 .. n
  BY DEF InOrder
<1>2. t \in Seq(1 .. (n + 1)) /\ Len(t) = m + 1 /\ t[m + 1] = n + 1
      /\ \A k \in 1 .. m : t[k] = s[k]
  BY <1>1
<1> HIDE DEF t, m
<1>3. ASSUME NEW k \in 1 .. (m + 1) PROVE IsCode(f[t[k]])
  <2>1. CASE k = m + 1
    BY <1>2, <2>1
  <2>2. CASE k \in 1 .. m
    BY <1>2, <2>2 DEF InOrder, m
  <2> QED BY <1>1, <2>1, <2>2
<1>4. ASSUME NEW k \in 1 .. (m + 1), NEW j \in 1 .. (m + 1), j < k PROVE t[j] < t[k]
  <2>1. j \in 1 .. m
    BY <1>1, <1>4
  <2>2. CASE k = m + 1
    <3>1. t[j] \in 1 .. n /\ t[k] = n + 1
      BY <1>1, <1>2, <2>1, <2>2
    <3> QED BY <3>1
  <2>3. CASE k \in 1 .. m
    BY <1>2, <1>4, <2>1, <2>3 DEF InOrder, m
  <2> QED BY <1>1, <2>2, <2>3
<1> QED BY <1>2, <1>3, <1>4 DEF InOrder, t

LEMMA InOrderMore ==
  ASSUME NEW f, NEW n \in Nat, NEW s, InOrder(f, s, n)
  PROVE  InOrder(f, s, n + 1)
<1>1. s \in Seq(1 .. n) /\ Len(s) \in Nat /\ DOMAIN s = 1 .. Len(s)
      /\ s = [i \in 1 .. Len(s) |-> s[i]] /\ \A i \in 1 .. Len(s) : s[i] \in 1 .. n
  BY DEF InOrder
<1>2. \A i \in 1 .. Len(s) : s[i] \in 1 .. (n + 1)
  BY <1>1
<1>3. s \in Seq(1 .. (n + 1))
  BY <1>1, <1>2
<1> QED BY <1>3 DEF InOrder

LEMMA CodeAtFacts ==
  ASSUME NEW f, Len(f) \in Nat
  PROVE  InOrder(f, CodeAt(f), Len(f))
<1> DEFINE u == CHOOSE g : CodesUpTo(f, g)
<1>1. CodesUpTo(f, u)
  BY CodesExist
<1>2. CodeAt(f) = u[Len(f)]
  BY DEF CodeAt, CodesUpTo
<1> HIDE DEF u
<1>3. \A i \in 0 .. Len(f) : u[i] = IF i = 0 THEN <<>>
                                  ELSE IF IsCode(f[i]) THEN Append(u[i - 1], i) ELSE u[i - 1]
  BY <1>1 DEF CodesUpTo
<1> DEFINE T == {n \in Nat : n <= Len(f) => InOrder(f, u[n], n)}
<1>4. 0 \in T
  <2>1. u[0] = <<>>
    BY <1>3
  <2>2. InOrder(f, <<>>, 0)
    BY DEF InOrder
  <2> QED BY <2>1, <2>2
<1>5. ASSUME NEW n \in Nat, n \in T PROVE n + 1 \in T
  <2> SUFFICES ASSUME n + 1 <= Len(f) PROVE InOrder(f, u[n + 1], n + 1)
    OBVIOUS
  <2>1. InOrder(f, u[n], n)
    BY <1>5
  <2>2. u[n + 1] = IF IsCode(f[n + 1]) THEN Append(u[n], n + 1) ELSE u[n]
    <3>1. n + 1 \in 0 .. Len(f) /\ n + 1 # 0 /\ (n + 1) - 1 = n
      OBVIOUS
    <3> QED BY <1>3, <3>1
  <2> QED BY <2>1, <2>2, InOrderAppend, InOrderMore
<1> HIDE DEF T
<1>6. Len(f) \in T
  BY <1>4, <1>5, Induction
<1> QED BY <1>2, <1>6 DEF T
----------------------------------------------------------------------------
(* What a format compiles to.                                              *)

LEMMA Compiled ==
  ASSUME NEW f, Len(f) \in Nat
  PROVE  /\ Len(CompileFormat(f)) = Len(CodeAt(f))
         /\ Len(CodeAt(f)) \in Nat
         /\ \A k \in 1 .. Len(CodeAt(f)) :
              /\ CompileFormat(f)[k].type = f[CodeAt(f)[k]]
              /\ CodeAt(f)[k] \in 1 .. Len(f) /\ IsCode(f[CodeAt(f)[k]])
<1>1. InOrder(f, CodeAt(f), Len(f))
  BY CodeAtFacts
<1>2. /\ Len(CodeAt(f)) \in Nat /\ DOMAIN CodeAt(f) = 1 .. Len(CodeAt(f))
      /\ \A k \in 1 .. Len(CodeAt(f)) : CodeAt(f)[k] \in 1 .. Len(f)
  BY <1>1 DEF InOrder
<1>3. DOMAIN CompileFormat(f) = 1 .. Len(CodeAt(f))
  BY <1>2 DEF CompileFormat
<1>4. Len(CompileFormat(f)) = Len(CodeAt(f))
  BY <1>2, <1>3
<1>5. ASSUME NEW k \in 1 .. Len(CodeAt(f)) PROVE CompileFormat(f)[k].type = f[CodeAt(f)[k]]
  BY <1>2 DEF CompileFormat
<1> QED BY <1>1, <1>2, <1>4, <1>5 DEF InOrder

(* A valid format has the address once.                                    *)
LEMMA OneAddress ==
  ASSUME NEW f, Len(f) \in Nat, DOMAIN f = 1 .. Len(f), ValidFormat(f),
         NEW j \in 1 .. Len(CompileFormat(f)), NEW k \in 1 .. Len(CompileFormat(f)), j < k
  PROVE  ~ (CompileFormat(f)[j].type = "h" /\ CompileFormat(f)[k].type = "h")
<1> DEFINE a == CodeAt(f)[j]
           b == CodeAt(f)[k]
<1>1. /\ CompileFormat(f)[j].type = f[a] /\ CompileFormat(f)[k].type = f[b]
      /\ a \in 1 .. Len(f) /\ b \in 1 .. Len(f)
  BY Compiled
<1>2. a < b
  BY Compiled, CodeAtFacts DEF InOrder
<1> HIDE DEF a, b
<1>3. IsCode("h") /\ a # b
  BY <1>1, <1>2 DEF IsCode, Codes
<1> QED BY <1>1, <1>3 DEF ValidFormat

----------------------------------------------------------------------------
(* The two walks.                                                          *)

Full(es, l, w) ==
  w = [k \in 0 .. Len(es) |->
         IF k = 0 THEN [pos |-> 1, got |-> NoFields] ELSE ParseNext(w[k - 1], es[k], l)]

IPOnly(es, l, w) ==
  w = [k \in 0 .. Len(es) |->
         IF k = 0 THEN [pos |-> 1, found |-> FALSE, ip |-> <<>>]
         ELSE IPNext(w[k - 1], es[k], l)]

LEMMA FullExists ==
  ASSUME NEW es, Len(es) \in Nat, NEW l
  PROVE  \E w : Full(es, l, w)
<1> DEFINE Up(w, n) ==
             w = [k \in 0 .. n |-> IF k = 0 THEN [pos |-> 1, got |-> NoFields] ELSE ParseNext(w[k - 1], es[k], l)]
           T == {n \in Nat : \E w : Up(w, n)}
<1>1. 0 \in T
  <2>1. Up([k \in 0 .. 0 |-> [pos |-> 1, got |-> NoFields]], 0)
    OBVIOUS
  <2> QED BY <2>1
<1>2. ASSUME NEW n \in Nat, n \in T PROVE n + 1 \in T
  <2>1. PICK w : Up(w, n)
    BY <1>2
  <2> DEFINE v == ParseNext(w[n], es[n + 1], l)
             g == [k \in 0 .. (n + 1) |-> IF k = n + 1 THEN v ELSE w[k]]
  <2>2. \A k \in 0 .. n : w[k] = IF k = 0 THEN [pos |-> 1, got |-> NoFields] ELSE ParseNext(w[k - 1], es[k], l)
    BY <2>1
  <2>3. \A k \in 0 .. (n + 1) : g[k] = IF k = n + 1 THEN v ELSE w[k]
    OBVIOUS
  <2>4. g = [k \in 0 .. (n + 1) |-> g[k]]
    OBVIOUS
  <2> HIDE DEF g, v
  <2>5. ASSUME NEW k \in 0 .. (n + 1)
        PROVE  g[k] = IF k = 0 THEN [pos |-> 1, got |-> NoFields] ELSE ParseNext(g[k - 1], es[k], l)
    <3>1. CASE k = n + 1
      <4>1. k - 1 = n /\ n \in 0 .. (n + 1) /\ n # n + 1 /\ k # 0
        BY <3>1
      <4>2. g[n] = w[n] /\ g[k] = v
        BY <2>3, <3>1, <4>1
      <4> QED BY <3>1, <4>1, <4>2 DEF v
    <3>2. CASE k # n + 1
      <4>1. k \in 0 .. n /\ g[k] = w[k]
        BY <2>3, <3>2
      <4>2. ASSUME k # 0 PROVE g[k - 1] = w[k - 1]
        BY <2>3, <4>1, <4>2
      <4> QED BY <2>2, <4>1, <4>2
    <3> QED BY <3>1, <3>2
  <2>6. Up(g, n + 1)
    BY <2>4, <2>5
  <2> QED BY <2>6
<1> HIDE DEF T
<1>3. Len(es) \in T
  BY <1>1, <1>2, Induction
<1> QED BY <1>3 DEF T, Full

LEMMA IPOnlyExists ==
  ASSUME NEW es, Len(es) \in Nat, NEW l
  PROVE  \E w : IPOnly(es, l, w)
<1> DEFINE Up(w, n) ==
             w = [k \in 0 .. n |-> IF k = 0 THEN [pos |-> 1, found |-> FALSE, ip |-> <<>>] ELSE IPNext(w[k - 1], es[k], l)]
           T == {n \in Nat : \E w : Up(w, n)}
<1>1. 0 \in T
  <2>1. Up([k \in 0 .. 0 |-> [pos |-> 1, found |-> FALSE, ip |-> <<>>]], 0)
    OBVIOUS
  <2> QED BY <2>1
<1>2. ASSUME NEW n \in Nat, n \in T PROVE n + 1 \in T
  <2>1. PICK w : Up(w, n)
    BY <1>2
  <2> DEFINE v == IPNext(w[n], es[n + 1], l)
             g == [k \in 0 .. (n + 1) |-> IF k = n + 1 THEN v ELSE w[k]]
  <2>2. \A k \in 0 .. n : w[k] = IF k = 0 THEN [pos |-> 1, found |-> FALSE, ip |-> <<>>] ELSE IPNext(w[k - 1], es[k], l)
    BY <2>1
  <2>3. \A k \in 0 .. (n + 1) : g[k] = IF k = n + 1 THEN v ELSE w[k]
    OBVIOUS
  <2>4. g = [k \in 0 .. (n + 1) |-> g[k]]
    OBVIOUS
  <2> HIDE DEF g, v
  <2>5. ASSUME NEW k \in 0 .. (n + 1)
        PROVE  g[k] = IF k = 0 THEN [pos |-> 1, found |-> FALSE, ip |-> <<>>] ELSE IPNext(g[k - 1], es[k], l)
    <3>1. CASE k = n + 1
      <4>1. k - 1 = n /\ n \in 0 .. (n + 1) /\ n # n + 1 /\ k # 0
        BY <3>1
      <4>2. g[n] = w[n] /\ g[k] = v
        BY <2>3, <3>1, <4>1
      <4> QED BY <3>1, <4>1, <4>2 DEF v
    <3>2. CASE k # n + 1
      <4>1. k \in 0 .. n /\ g[k] = w[k]
        BY <2>3, <3>2
      <4>2. ASSUME k # 0 PROVE g[k - 1] = w[k - 1]
        BY <2>3, <4>1, <4>2
      <4> QED BY <2>2, <4>1, <4>2
    <3> QED BY <3>1, <3>2
  <2>6. Up(g, n + 1)
    BY <2>4, <2>5
  <2> QED BY <2>6
<1> HIDE DEF T
<1>3. Len(es) \in T
  BY <1>1, <1>2, Induction
<1> QED BY <1>3 DEF T, IPOnly

(* Up to where the address is found, both are at the same place; after     *)
(* that, the full walk leaves it as it is.                                 *)
InStep(full, ip) ==
  /\ full = [pos |-> full.pos, got |-> full.got]
  /\ full.got = [c \in Codes \ {"skip"} |-> full.got[c]]
  /\ full.pos \in Nat
  /\ ip.found \in BOOLEAN
  /\ full.got["h"] = ip.ip
  /\ ~ ip.found => ip.ip = <<>> /\ ip.pos = full.pos

LEMMA InStepFound ==
  ASSUME NEW full, NEW ip, NEW e, NEW l, Len(l) \in Nat,
         InStep(full, ip), ip.found, e.type \in Codes, e.type # "h"
  PROVE  InStep(ParseNext(full, e, l), IPNext(ip, e, l))
<1>1. IPNext(ip, e, l) = ip
  BY DEF IPNext
<1>2. CASE full.pos > Len(l)
  BY <1>1, <1>2 DEF ParseNext
<1>3. CASE ~ (full.pos > Len(l))
  <2> DEFINE at == FieldAt(e, l, FindNot(l, Space, full.pos))
             p == Advance(e, l, at.end)
             g == IF e.type = "skip" \/ at.start >= at.end THEN full.got
                  ELSE [full.got EXCEPT ![e.type] = SubSeq(l, at.start, at.end - 1)]
  <2>1. p \in Nat
    BY FindIsNat, FieldAtIsNat, AdvanceIsNat DEF InStep
  <2>2. ParseNext(full, e, l) = [pos |-> p, got |-> g]
    BY <1>3 DEF ParseNext
  <2>3. g = [c \in Codes \ {"skip"} |-> g[c]] /\ g["h"] = full.got["h"]
    BY DEF InStep, Codes
  <2> HIDE DEF at, p, g
  <2>4. ParseNext(full, e, l).pos = p /\ ParseNext(full, e, l).got = g
    BY <2>2
  <2> QED BY <1>1, <2>1, <2>2, <2>3, <2>4 DEF InStep
<1> QED BY <1>2, <1>3

LEMMA EmptySubSeq ==
  ASSUME NEW l, NEW a \in Nat, NEW b \in Nat, a >= b
  PROVE  SubSeq(l, a, b - 1) = <<>>
OBVIOUS

LEMMA InStepSearching ==
  ASSUME NEW full, NEW ip, NEW e, NEW l, Len(l) \in Nat,
         InStep(full, ip), ~ ip.found, e.type \in Codes
  PROVE  /\ InStep(ParseNext(full, e, l), IPNext(ip, e, l))
         /\ IPNext(ip, e, l).found => e.type = "h"
<1>1. CASE full.pos > Len(l)
  <2>1. ip.pos = full.pos
    BY DEF InStep
  <2>2. ParseNext(full, e, l) = full
    BY <1>1 DEF ParseNext
  <2>3. IPNext(ip, e, l) = ip
    <3> DEFINE at == FieldAt(e, l, SkipTo(l, ip.pos))
               x == [pos |-> ip.pos, found |-> TRUE, ip |-> SubSeq(l, at.start, at.end - 1)]
               y == [pos |-> Advance(e, l, at.end), found |-> FALSE, ip |-> <<>>]
    <3>1. IPNext(ip, e, l) = CASE ip.found \/ ip.pos > Len(l) -> ip
                               [] ~ ip.found /\ ip.pos <= Len(l) /\ e.type = "h" -> x
                               [] OTHER -> y
      BY DEF IPNext
    <3> HIDE DEF x, y
    <3>2. ip.pos > Len(l) /\ ~ (ip.pos <= Len(l))
      BY <1>1, <2>1 DEF InStep
    <3> QED BY <3>1, <3>2
  <2> QED BY <2>2, <2>3
<1>2. CASE ~ (full.pos > Len(l))
  <2> DEFINE at == FieldAt(e, l, FindNot(l, Space, full.pos))
             p == Advance(e, l, at.end)
             t == SubSeq(l, at.start, at.end - 1)
             g == IF e.type = "skip" \/ at.start >= at.end THEN full.got
                  ELSE [full.got EXCEPT ![e.type] = t]
  <2>1. p \in Nat /\ at.start \in Nat /\ at.end \in Nat
    BY FindIsNat, FieldAtIsNat, AdvanceIsNat DEF InStep
  <2>2. ParseNext(full, e, l) = [pos |-> p, got |-> g]
    BY <1>2 DEF ParseNext
  <2>3. at.start >= at.end => t = <<>>
    BY <2>1, EmptySubSeq
  <2>4. ip.pos = full.pos /\ full.pos <= Len(l)
    BY <1>2 DEF InStep
  <2>5. IPNext(ip, e, l) = IF e.type = "h" THEN [pos |-> ip.pos, found |-> TRUE, ip |-> t]
                           ELSE [pos |-> p, found |-> FALSE, ip |-> <<>>]
    BY <1>2, <2>4 DEF IPNext, SkipTo
  <2> HIDE DEF p, t, at
  <2>6. g = [c \in Codes \ {"skip"} |-> g[c]]
    BY DEF InStep, Codes
  <2>7. g["h"] = IF e.type = "h" THEN t ELSE <<>>
    BY <2>3 DEF InStep, Codes
  <2> HIDE DEF g
  <2>8. ParseNext(full, e, l).pos = p /\ ParseNext(full, e, l).got = g
    BY <2>2
  <2>9. CASE e.type = "h"
    <3>1. IPNext(ip, e, l) = [pos |-> ip.pos, found |-> TRUE, ip |-> t]
      BY <2>5, <2>9
    <3>2. IPNext(ip, e, l).found = TRUE /\ IPNext(ip, e, l).ip = t
      BY <3>1
    <3> QED BY <2>1, <2>2, <2>6, <2>7, <2>8, <2>9, <3>2 DEF InStep
  <2>10. CASE e.type # "h"
    <3>1. IPNext(ip, e, l) = [pos |-> p, found |-> FALSE, ip |-> <<>>]
      BY <2>5, <2>10
    <3>2. /\ IPNext(ip, e, l).found = FALSE /\ IPNext(ip, e, l).ip = <<>>
          /\ IPNext(ip, e, l).pos = p
      BY <3>1
    <3> QED BY <2>1, <2>2, <2>6, <2>7, <2>8, <2>10, <3>2 DEF InStep
  <2> QED BY <2>9, <2>10
<1> QED BY <1>1, <1>2

LEMMA WalksAgree ==
  ASSUME NEW f, Len(f) \in Nat, DOMAIN f = 1 .. Len(f), ValidFormat(f),
         NEW l, Len(l) \in Nat
  PROVE  ExtractIPOnly(f, l) = ParseLine(f, l)["h"]
<1> DEFINE es == CompileFormat(f)
           v == CHOOSE w : Full(es, l, w)
           u == CHOOSE w : IPOnly(es, l, w)
<1>1. Len(es) \in Nat /\ \A k \in 1 .. Len(es) : es[k].type \in Codes
  BY Compiled DEF IsCode
<1>2. \A k, j \in 1 .. Len(es) : j < k => ~ (es[j].type = "h" /\ es[k].type = "h")
  BY OneAddress
<1>3. ParseLine(f, l) = v[Len(es)].got /\ ExtractIPOnly(f, l) = u[Len(es)].ip
  BY DEF ParseLine, ExtractIPOnly, Full, IPOnly
<1> HIDE DEF es
<1>4. Full(es, l, v) /\ IPOnly(es, l, u)
  BY <1>1, FullExists, IPOnlyExists
<1> HIDE DEF v, u
<1>5. \A k \in 0 .. Len(es) :
        /\ v[k] = IF k = 0 THEN [pos |-> 1, got |-> NoFields] ELSE ParseNext(v[k - 1], es[k], l)
        /\ u[k] = IF k = 0 THEN [pos |-> 1, found |-> FALSE, ip |-> <<>>]
                  ELSE IPNext(u[k - 1], es[k], l)
  BY <1>4 DEF Full, IPOnly
<1> DEFINE T == {n \in Nat : n <= Len(es) =>
                   /\ InStep(v[n], u[n])
                   /\ u[n].found => \E j \in 1 .. n : es[j].type = "h"}
<1>6. 0 \in T
  <2>1. v[0] = [pos |-> 1, got |-> NoFields] /\ u[0] = [pos |-> 1, found |-> FALSE, ip |-> <<>>]
    BY <1>1, <1>5
  <2>2. InStep(v[0], u[0]) /\ ~ u[0].found
    BY <2>1 DEF InStep, NoFields, Codes
  <2> QED BY <2>2
<1>7. ASSUME NEW n \in Nat, n \in T PROVE n + 1 \in T
  <2> SUFFICES ASSUME n + 1 <= Len(es)
               PROVE  /\ InStep(v[n + 1], u[n + 1])
                      /\ u[n + 1].found => \E j \in 1 .. (n + 1) : es[j].type = "h"
    OBVIOUS
  <2>1. /\ InStep(v[n], u[n]) /\ u[n].found \in BOOLEAN
        /\ u[n].found => \E j \in 1 .. n : es[j].type = "h"
    BY <1>1, <1>7 DEF InStep
  <2>2. n + 1 \in 1 .. Len(es) /\ n + 1 \in 0 .. Len(es) /\ n + 1 # 0 /\ (n + 1) - 1 = n
    BY <1>1
  <2>3. v[n + 1] = ParseNext(v[n], es[n + 1], l) /\ u[n + 1] = IPNext(u[n], es[n + 1], l)
    BY <1>5, <2>2
  <2>4. es[n + 1].type \in Codes
    BY <1>1, <2>2
  <2>5. CASE u[n].found
    <3>1. PICK j \in 1 .. n : es[j].type = "h"
      BY <2>1, <2>5
    <3>2. j \in 1 .. Len(es) /\ j < n + 1 /\ j \in 1 .. (n + 1)
      BY <1>1, <2>2
    <3>3. es[n + 1].type # "h"
      BY <1>2, <2>2, <3>1, <3>2
    <3>4. InStep(v[n + 1], u[n + 1])
      BY <1>1, <2>1, <2>3, <2>4, <2>5, <3>3, InStepFound
    <3> QED BY <3>1, <3>2, <3>4
  <2>6. CASE ~ u[n].found
    <3>1. InStep(v[n + 1], u[n + 1]) /\ (u[n + 1].found => es[n + 1].type = "h")
      BY <2>1, <2>3, <2>4, <2>6, InStepSearching
    <3> QED BY <3>1, <2>2
  <2> QED BY <2>5, <2>6
<1> HIDE DEF T
<1>8. Len(es) \in T
  BY <1>1, <1>6, <1>7, Induction
<1>9. v[Len(es)].got["h"] = u[Len(es)].ip
  BY <1>1, <1>8 DEF T, InStep
<1> QED BY <1>3, <1>9

----------------------------------------------------------------------------
(* On any line, well formed or not, the walk that looks for the address    *)
(* alone (extractIPOnly, which ParseFileIPs uses) finds what the full walk *)
(* finds.                                                                  *)
THEOREM IPOnlyAgreesHolds == LineSpec => []IPOnlyAgrees
<1> DEFINE IInv == /\ format \in Formats /\ ValidFormat(format)
                   /\ Len(line) \in Nat
<1>1. LineInit => IInv
  BY DEF LineInit
<1>2. IInv /\ [LineNext]_lineVars => IInv'
  <2> SUFFICES ASSUME IInv, [LineNext]_lineVars PROVE IInv'
    OBVIOUS
  <2>1. CASE LogField
    BY <2>1 DEF LogField
  <2>2. CASE LogByte
    BY <2>2 DEF LogByte
  <2>3. CASE UNCHANGED lineVars
    BY <2>3 DEF lineVars
  <2> QED BY <2>1, <2>2, <2>3 DEF LineNext
<1>3. IInv => IPOnlyAgrees
  <2> SUFFICES ASSUME IInv PROVE IPOnlyAgrees
    OBVIOUS
  <2>1. format \in Seq(Range(format))
    BY FieldsAssumption
  <2>2. Len(format) \in Nat /\ DOMAIN format = 1 .. Len(format)
    BY <2>1
  <2> QED BY <2>2, WalksAgree DEF IPOnlyAgrees
<1> QED BY <1>1, <1>2, <1>3, PTL DEF LineSpec

----------------------------------------------------------------------------
(* Sequences put behind one another.                                       *)

FlatUpTo(ps, n, g) ==
  g = [i \in 1 .. n |-> IF i = 1 THEN ps[i] ELSE g[i - 1] \o ps[i]]

(* What is flattened up to each part.                                      *)
LEMMA FlatExists ==
  ASSUME NEW ps, NEW m \in Nat
  PROVE  \E g : FlatUpTo(ps, m, g)
<1> DEFINE T == {n \in Nat : \E g : FlatUpTo(ps, n, g)}
<1>1. 0 \in T
  <2>1. FlatUpTo(ps, 0, [i \in 1 .. 0 |-> <<>>])
    BY DEF FlatUpTo
  <2> QED BY <2>1
<1>2. ASSUME NEW n \in Nat, n \in T PROVE n + 1 \in T
  <2>1. PICK u : FlatUpTo(ps, n, u)
    BY <1>2
  <2> DEFINE v == IF n = 0 THEN ps[n + 1] ELSE u[n] \o ps[n + 1]
             g == [i \in 1 .. (n + 1) |-> IF i = n + 1 THEN v ELSE u[i]]
  <2>2. \A i \in 1 .. n : u[i] = IF i = 1 THEN ps[i] ELSE u[i - 1] \o ps[i]
    BY <2>1 DEF FlatUpTo
  <2>3. \A i \in 1 .. (n + 1) : g[i] = IF i = n + 1 THEN v ELSE u[i]
    OBVIOUS
  <2>4. g = [i \in 1 .. (n + 1) |-> g[i]]
    OBVIOUS
  <2> HIDE DEF g, v
  <2>5. ASSUME NEW i \in 1 .. (n + 1) PROVE g[i] = IF i = 1 THEN ps[i] ELSE g[i - 1] \o ps[i]
    <3>1. CASE i = n + 1
      <4>1. g[i] = v
        BY <2>3, <3>1
      <4>2. CASE n = 0
        BY <3>1, <4>1, <4>2 DEF v
      <4>3. CASE n # 0
        <5>1. i - 1 = n /\ n \in 1 .. (n + 1) /\ n # n + 1 /\ i # 1
          BY <3>1, <4>3
        <5>2. g[n] = u[n]
          BY <2>3, <5>1
        <5> QED BY <3>1, <4>1, <4>3, <5>1, <5>2 DEF v
      <4> QED BY <4>2, <4>3
    <3>2. CASE i # n + 1
      <4>1. i \in 1 .. n /\ g[i] = u[i]
        BY <2>3, <3>2
      <4>2. ASSUME i # 1 PROVE g[i - 1] = u[i - 1]
        BY <2>3, <4>1, <4>2
      <4> QED BY <2>2, <4>1, <4>2
    <3> QED BY <3>1, <3>2
  <2>6. FlatUpTo(ps, n + 1, g)
    BY <2>4, <2>5 DEF FlatUpTo
  <2> QED BY <2>6
<1> HIDE DEF T
<1>3. m \in T
  BY <1>1, <1>2, Induction
<1> QED BY <1>3 DEF T

(* They are put there one by one.                                          *)
LEMMA Flattened ==
  ASSUME NEW ps, Len(ps) \in Nat
  PROVE  \E g : /\ FlatUpTo(ps, Len(ps), g)
                /\ FlattenSeq(ps) = IF Len(ps) = 0 THEN ps ELSE g[Len(ps)]
<1> DEFINE u == CHOOSE g : FlatUpTo(ps, Len(ps), g)
<1>1. FlatUpTo(ps, Len(ps), u)
  BY FlatExists
<1>2. FlattenSeq(ps) = IF Len(ps) = 0 THEN ps ELSE u[Len(ps)]
  BY DEF FlattenSeq, FlatUpTo
<1> QED BY <1>1, <1>2

(* Two pieces, one behind the other.                                       *)
LEMMA ConcatFacts ==
  ASSUME NEW B, NEW s \in Seq(B), NEW t \in Seq(B)
  PROVE  /\ s \o t \in Seq(B) /\ Len(s \o t) = Len(s) + Len(t)
         /\ Len(s) \in Nat /\ Len(t) \in Nat
         /\ \A p \in 1 .. Len(s) : (s \o t)[p] = s[p]
         /\ \A p \in 1 .. Len(t) : (s \o t)[Len(s) + p] = t[p]
OBVIOUS

(* What holds of the empty sequence and is kept by each, holds in the end. *)
LEMMA FlattenKeeps ==
  ASSUME NEW B, NEW ps \in Seq(Seq(B)), NEW P \in SUBSET Seq(B), <<>> \in P,
         \A s \in P : \A i \in 1 .. Len(ps) : s \o ps[i] \in P
  PROVE  FlattenSeq(ps) \in P
<1> DEFINE m == Len(ps)
<1>1. m \in Nat /\ \A i \in 1 .. m : ps[i] \in Seq(B)
  OBVIOUS
<1>2. PICK g : /\ FlatUpTo(ps, m, g)
               /\ FlattenSeq(ps) = IF m = 0 THEN ps ELSE g[m]
  BY <1>1, Flattened
<1> HIDE DEF m
<1>3. \A i \in 1 .. m : g[i] = IF i = 1 THEN ps[i] ELSE g[i - 1] \o ps[i]
  BY <1>2 DEF FlatUpTo
<1> DEFINE T == {n \in Nat : n \in 1 .. m => g[n] \in P}
<1>4. 0 \in T
  BY <1>1
<1>5. ASSUME NEW n \in Nat, n \in T PROVE n + 1 \in T
  <2> SUFFICES ASSUME n + 1 \in 1 .. m PROVE g[n + 1] \in P
    OBVIOUS
  <2>1. ps[n + 1] \in Seq(B) /\ \A s \in P : s \o ps[n + 1] \in P
    BY <1>1 DEF m
  <2>2. CASE n = 0
    <3>1. g[n + 1] = ps[n + 1]
      BY <1>3, <2>2
    <3>2. <<>> \o ps[n + 1] = ps[n + 1]
      BY <2>1
    <3> QED BY <2>1, <3>1, <3>2
  <2>3. CASE n # 0
    <3>1. n \in 1 .. m /\ (n + 1) - 1 = n /\ n + 1 # 1
      BY <1>1, <2>3
    <3>2. g[n + 1] = g[n] \o ps[n + 1]
      BY <1>3, <3>1
    <3> QED BY <1>5, <2>1, <3>1, <3>2
  <2> QED BY <2>2, <2>3
<1> HIDE DEF T
<1>6. m \in T
  BY <1>1, <1>4, <1>5, Induction
<1>7. CASE m = 0
  <2>1. ps = <<>>
    BY <1>7 DEF m
  <2> QED BY <1>2, <1>7, <2>1
<1>8. CASE m # 0
  <2>1. m \in 1 .. m
    BY <1>1, <1>8
  <2> QED BY <1>2, <1>6, <1>8, <2>1 DEF T
<1> QED BY <1>7, <1>8

(* Where each of them ends, and that it is there.                          *)
Placed(l, ps, off) ==
  /\ off \in [0 .. Len(ps) -> Nat] /\ off[0] = 0 /\ Len(l) = off[Len(ps)]
  /\ \A i \in 1 .. Len(ps) :
       /\ off[i] = off[i - 1] + Len(ps[i])
       /\ off[i] <= Len(l)
       /\ \A j \in 1 .. Len(ps[i]) : l[off[i - 1] + j] = ps[i][j]

(* Each part of what is flattened lies where the ones before it end.       *)
LEMMA FlattenPlaces ==
  ASSUME NEW B, NEW ps \in Seq(Seq(B))
  PROVE  FlattenSeq(ps) \in Seq(B) /\ \E off : Placed(FlattenSeq(ps), ps, off)
<1> DEFINE m == Len(ps)
<1>1. m \in Nat /\ \A i \in 1 .. m : ps[i] \in Seq(B)
  OBVIOUS
<1>2. PICK g : /\ FlatUpTo(ps, m, g)
               /\ FlattenSeq(ps) = IF m = 0 THEN ps ELSE g[m]
  BY <1>1, Flattened
<1>3. m = 0 => ps = <<>>
  OBVIOUS
<1> DEFINE h == [i \in 0 .. m |-> IF i = 0 THEN <<>> ELSE g[i]]
           off == [i \in 0 .. m |-> Len(h[i])]
<1>4. h[0] = <<>> /\ \A i \in 1 .. m : h[i] = g[i]
  BY <1>1
<1>5. \A i \in 1 .. m : g[i] = IF i = 1 THEN ps[i] ELSE g[i - 1] \o ps[i]
  BY <1>2 DEF FlatUpTo
<1>6. \A i \in 0 .. m : off[i] = Len(h[i])
  OBVIOUS
<1>7. off = [i \in 0 .. m |-> off[i]]
  OBVIOUS
<1>8. FlattenSeq(ps) = h[m]
  BY <1>1, <1>2, <1>3, <1>4
<1>a. m = Len(ps)
  OBVIOUS
<1> HIDE DEF m, h, off
<1>9. ASSUME NEW i \in 1 .. m, h[i - 1] \in Seq(B) PROVE h[i] = h[i - 1] \o ps[i]
  <2>1. CASE i = 1
    <3>1. h[i] = ps[i] /\ h[i - 1] = <<>>
      BY <1>1, <1>4, <1>5, <2>1
    <3> QED BY <1>1, <3>1
  <2>2. CASE i # 1
    <3>1. i - 1 \in 1 .. m
      BY <1>1, <2>2
    <3>2. h[i - 1] = g[i - 1] /\ h[i] = g[i]
      BY <1>4, <3>1
    <3> QED BY <1>5, <2>2, <3>2
  <2> QED BY <2>1, <2>2
<1> DEFINE Good(n) ==
             /\ h[n] \in Seq(B)
             /\ \A i \in 1 .. n :
                  /\ off[i] = off[i - 1] + Len(ps[i])
                  /\ off[i - 1] \in Nat /\ off[i] <= Len(h[n])
                  /\ \A j \in 1 .. Len(ps[i]) : h[n][off[i - 1] + j] = ps[i][j]
           T == {n \in Nat : n <= m => Good(n)}
<1>10. 0 \in T
  <2>1. Good(0)
    <3>1. <<>> \in Seq(B)
      OBVIOUS
    <3> QED BY <1>4, <3>1
  <2> HIDE DEF Good
  <2> QED BY <2>1
<1> HIDE DEF Good
<1>11. ASSUME NEW n \in Nat, n \in T PROVE n + 1 \in T
  <2> SUFFICES ASSUME n + 1 <= m PROVE Good(n + 1)
    OBVIOUS
  <2>1. Good(n) /\ n + 1 \in 1 .. m /\ n \in 0 .. m /\ n + 1 \in 0 .. m
    BY <1>1, <1>11
  <2>0. (n + 1) - 1 = n
    OBVIOUS
  <2> DEFINE t == ps[n + 1]
             s == h[n]
  <2>2. t \in Seq(B) /\ s \in Seq(B)
    BY <1>1, <2>1 DEF Good
  <2>3. h[n + 1] = s \o t
    BY <1>9, <2>0, <2>1, <2>2
  <2>5. off[n] = Len(s) /\ off[n + 1] = Len(h[n + 1])
    BY <1>6, <2>1
  <2>8. ps[n + 1] = t /\ s = h[n]
    OBVIOUS
  <2> HIDE DEF s, t
  <2>4. /\ h[n + 1] \in Seq(B) /\ Len(h[n + 1]) = Len(s) + Len(t)
        /\ Len(s) \in Nat /\ Len(t) \in Nat
        /\ \A p \in 1 .. Len(s) : h[n + 1][p] = s[p]
        /\ \A p \in 1 .. Len(t) : h[n + 1][Len(s) + p] = t[p]
    BY <2>2, <2>3, ConcatFacts
  <2>6. ASSUME NEW i \in 1 .. (n + 1)
        PROVE  /\ off[i] = off[i - 1] + Len(ps[i])
               /\ off[i - 1] \in Nat /\ off[i] <= Len(h[n + 1])
               /\ \A j \in 1 .. Len(ps[i]) : h[n + 1][off[i - 1] + j] = ps[i][j]
    <3>1. CASE i = n + 1
      <4>1. i - 1 = n /\ ps[i] = t
        BY <2>8, <3>1
      <4>2. off[i - 1] = Len(s) /\ off[i] = Len(h[n + 1])
        BY <2>5, <3>1, <4>1
      <4>3. Len(h[n + 1]) = Len(s) + Len(t)
        BY <2>4
      <4> QED BY <2>4, <4>1, <4>2, <4>3
    <3>2. CASE i \in 1 .. n
      <4>1. /\ off[i] = off[i - 1] + Len(ps[i])
            /\ off[i - 1] \in Nat /\ off[i] <= Len(s)
            /\ \A j \in 1 .. Len(ps[i]) : s[off[i - 1] + j] = ps[i][j]
        BY <2>1, <2>8, <3>2 DEF Good
      <4>2. Len(ps[i]) \in Nat
        <5>1. i \in 1 .. m
          BY <1>1, <2>1, <3>2
        <5> QED BY <1>1, <5>1
      <4>3. off[i] <= Len(h[n + 1])
        <5> DEFINE a == off[i - 1] + Len(ps[i])
        <5>1. a \in Nat /\ off[i] = a
          BY <4>1, <4>2
        <5> HIDE DEF a
        <5> QED BY <2>4, <4>1, <5>1
      <4>4. ASSUME NEW j \in 1 .. Len(ps[i]) PROVE h[n + 1][off[i - 1] + j] = ps[i][j]
        <5>1. off[i - 1] + j \in 1 .. Len(s)
          BY <2>4, <4>1, <4>2
        <5> QED BY <2>4, <4>1, <5>1
      <4> QED BY <4>1, <4>3, <4>4
    <3> QED BY <3>1, <3>2
  <2> QED BY <2>4, <2>6 DEF Good
<1> HIDE DEF T
<1>12. \A n \in Nat : n \in T
  BY <1>10, <1>11, Induction
<1>13. Good(m)
  BY <1>1, <1>12 DEF T
<1>14. \A i \in 0 .. m : off[i] \in Nat
  <2> SUFFICES ASSUME NEW i \in 0 .. m PROVE off[i] \in Nat
    OBVIOUS
  <2>1. h[i] \in Seq(B)
    BY <1>1, <1>12 DEF T, Good
  <2> QED BY <1>6, <2>1
<1>15. off \in [0 .. m -> Nat] /\ off[0] = 0 /\ Len(h[m]) = off[m]
  BY <1>1, <1>4, <1>6, <1>7, <1>14
<1>16. Placed(h[m], ps, off)
  BY <1>a, <1>13, <1>15 DEF Placed, Good
<1> QED BY <1>8, <1>13, <1>16 DEF Good

----------------------------------------------------------------------------
(* Escaped texts.                                                          *)

(* How many backslashes there are at the end of the first p bytes.         *)
RunIs(s, p, r) ==
  /\ r \in 0 .. p
  /\ \A q \in (p - r + 1) .. p : s[q] = Backslash
  /\ r = p \/ s[p - r] # Backslash

(* No quote in it would close a field, and one behind it would.            *)
Balanced(s) ==
  /\ \A p \in 1 .. Len(s) : s[p] = Quote => \E r \in Nat : RunIs(s, p - 1, 2 * r + 1)
  /\ \E r \in Nat : RunIs(s, Len(s), 2 * r)

(* Bytes behind a place change no run of backslashes up to it.             *)
LEMMA RunKept ==
  ASSUME NEW s, NEW u, NEW p \in Nat, \A q \in 1 .. p : u[q] = s[q], NEW r, RunIs(s, p, r)
  PROVE  RunIs(u, p, r)
<1>1. r \in 0 .. p /\ r \in Nat
  BY DEF RunIs
<1>2. \A q \in (p - r + 1) .. p : u[q] = Backslash
  <2> SUFFICES ASSUME NEW q \in (p - r + 1) .. p PROVE u[q] = Backslash
    OBVIOUS
  <2>1. q \in 1 .. p
    BY <1>1
  <2> QED BY <2>1 DEF RunIs
<1>3. r = p \/ u[p - r] # Backslash
  <2> SUFFICES ASSUME r # p PROVE u[p - r] # Backslash
    OBVIOUS
  <2>1. p - r \in 1 .. p
    BY <1>1
  <2> QED BY <2>1 DEF RunIs
<1> QED BY <1>1, <1>2, <1>3 DEF RunIs

(* A byte that needs no escape leaves a text balanced.                     *)
LEMMA BalancedPlain ==
  ASSUME NEW B, NEW s \in Seq(B), Balanced(s), NEW c \in B, c \notin {Quote, Backslash}
  PROVE  Balanced(s \o <<c>>)
<1> DEFINE u == s \o <<c>>
           n == Len(s)
<1>1. /\ u \in Seq(B) /\ Len(u) = n + 1 /\ n \in Nat /\ u[n + 1] = c
      /\ \A q \in 1 .. n : u[q] = s[q]
  OBVIOUS
<1> HIDE DEF u
<1>2. ASSUME NEW p \in 1 .. Len(u), u[p] = Quote
      PROVE  \E r \in Nat : RunIs(u, p - 1, 2 * r + 1)
  <2>1. p \in 1 .. n /\ s[p] = Quote
    BY <1>1, <1>2
  <2>2. PICK r \in Nat : RunIs(s, p - 1, 2 * r + 1)
    BY <2>1 DEF Balanced
  <2>3. p - 1 \in Nat /\ \A q \in 1 .. (p - 1) : u[q] = s[q]
    BY <1>1, <2>1
  <2> QED BY <2>2, <2>3, RunKept
<1>3. RunIs(u, Len(u), 2 * 0)
  BY <1>1 DEF RunIs
<1> QED BY <1>2, <1>3 DEF Balanced, u

(* So does an escaped one.                                                 *)
LEMMA BalancedEscaped ==
  ASSUME NEW B, NEW s \in Seq(B), Balanced(s), NEW c \in B, c \in {Quote, Backslash},
         Backslash \in B
  PROVE  Balanced(s \o <<Backslash, c>>)
<1> DEFINE u == s \o <<Backslash, c>>
           n == Len(s)
<1>0. <<Backslash, c>> \in Seq(B) /\ Len(<<Backslash, c>>) = 2
  OBVIOUS
<1>1. /\ u \in Seq(B) /\ Len(u) = n + 2 /\ n \in Nat /\ u[n + 1] = Backslash /\ u[n + 2] = c
      /\ \A q \in 1 .. n : u[q] = s[q]
  BY <1>0
<1> HIDE DEF u, n
<1>2. PICK e \in Nat : RunIs(s, n, 2 * e)
  BY DEF Balanced, n
<1>3. 2 * e \in 0 .. n /\ 2 * e \in Nat
  BY <1>2 DEF RunIs
<1> DEFINE d == 2 * e
<1>4. d \in 0 .. n /\ d \in Nat /\ RunIs(u, n, d) /\ d = 2 * e
  BY <1>1, <1>2, <1>3, RunKept
<1> HIDE DEF d
<1>5. RunIs(u, n + 1, d + 1)
  <2>1. ASSUME NEW q \in ((n + 1) - (d + 1) + 1) .. (n + 1) PROVE u[q] = Backslash
    <3>1. q = n + 1 \/ q \in (n - d + 1) .. n
      BY <1>1, <1>4
    <3> QED BY <1>1, <1>4, <3>1 DEF RunIs
  <2>2. (n + 1) - (d + 1) = n - d /\ d + 1 \in 0 .. (n + 1)
    BY <1>1, <1>4
  <2> QED BY <1>1, <1>4, <2>1, <2>2 DEF RunIs
<1>6. Quote # Backslash
  BY DEF Quote, Backslash
<1>7. ASSUME NEW p \in 1 .. Len(u), u[p] = Quote
      PROVE  \E r \in Nat : RunIs(u, p - 1, 2 * r + 1)
  <2>1. CASE p \in 1 .. n
    <3>1. s[p] = Quote
      BY <1>1, <1>7, <2>1
    <3>2. PICK r \in Nat : RunIs(s, p - 1, 2 * r + 1)
      BY <2>1, <3>1 DEF Balanced, n
    <3>3. p - 1 \in Nat /\ \A q \in 1 .. (p - 1) : u[q] = s[q]
      BY <1>1, <2>1
    <3> QED BY <3>2, <3>3, RunKept
  <2>2. CASE p = n + 1
    BY <1>1, <1>6, <1>7, <2>2
  <2>3. CASE p = n + 2
    <3>1. p - 1 = n + 1
      BY <1>1, <2>3
    <3> QED BY <1>4, <1>5, <3>1
  <2> QED BY <1>1, <2>1, <2>2, <2>3
<1>8. \E r \in Nat : RunIs(u, Len(u), 2 * r)
  <2>1. CASE c = Quote
    <3>1. RunIs(u, n + 2, 0)
      BY <1>1, <1>6, <2>1 DEF RunIs
    <3>2. 2 * 0 = 0
      OBVIOUS
    <3> QED BY <1>1, <3>1, <3>2
  <2>2. CASE c = Backslash
    <3>1. \A q \in ((n + 2) - (d + 2) + 1) .. (n + 2) : u[q] = Backslash
      BY <1>1, <1>4, <2>2 DEF RunIs
    <3>2. (n + 2) - (d + 2) = n - d /\ d + 2 \in 0 .. (n + 2)
      BY <1>1, <1>4
    <3>3. RunIs(u, n + 2, d + 2)
      BY <1>1, <1>4, <3>1, <3>2 DEF RunIs
    <3>4. d + 2 = 2 * (e + 1) /\ e + 1 \in Nat
      BY <1>4
    <3> QED BY <1>1, <3>3, <3>4
  <2> QED BY <2>1, <2>2
<1> QED BY <1>7, <1>8 DEF Balanced, u

EscapedByte(c) == IF c \in {Quote, Backslash} THEN <<Backslash, c>> ELSE <<c>>

(* An escaped text is balanced: none of its quotes closes a field.         *)
LEMMA EscapedFacts ==
  ASSUME NEW B, NEW t \in Seq(B)
  PROVE  /\ Escaped(t) \in Seq(B \cup {Backslash}) /\ Balanced(Escaped(t))
         /\ t # <<>> => Len(Escaped(t)) > 0
         /\ Quote \notin B => Escaped(t) \in Seq(B)
<1> DEFINE C == B \cup {Backslash}
           ps == [i \in DOMAIN t |-> EscapedByte(t[i])]
<1>1. /\ Len(t) \in Nat /\ DOMAIN t = 1 .. Len(t) /\ \A i \in 1 .. Len(t) : t[i] \in B
      /\ t # <<>> => Len(t) # 0
  OBVIOUS
<1>2. Escaped(t) = FlattenSeq(ps)
  BY DEF Escaped, EscapedByte
<1>3. \A i \in 1 .. Len(t) : ps[i] = EscapedByte(t[i])
  BY <1>1
<1>4. ASSUME NEW c \in B
      PROVE  /\ EscapedByte(c) \in Seq(C) /\ Len(EscapedByte(c)) \in 1 .. 2
             /\ Quote \notin B => EscapedByte(c) \in Seq(B)
  <2>1. c \in C /\ Backslash \in C
    OBVIOUS
  <2>2. CASE c \in {Quote, Backslash}
    <3>1. EscapedByte(c) = <<Backslash, c>>
      BY <2>2 DEF EscapedByte
    <3>2. Quote \notin B => Backslash \in B
      BY <2>2
    <3> HIDE DEF C
    <3> QED BY <2>1, <3>1, <3>2
  <2>3. CASE c \notin {Quote, Backslash}
    <3>1. EscapedByte(c) = <<c>>
      BY <2>3 DEF EscapedByte
    <3> HIDE DEF C
    <3> QED BY <2>1, <3>1
  <2> QED BY <2>2, <2>3
<1>5. DOMAIN ps = 1 .. Len(t) /\ Len(ps) = Len(t)
  BY <1>1
<1>6. ps \in Seq(Seq(C)) /\ (Quote \notin B => ps \in Seq(Seq(B)))
  BY <1>1, <1>3, <1>4, <1>5
<1> HIDE DEF ps
<1> DEFINE P == {s \in Seq(C) : Balanced(s)}
<1>7. <<>> \in P
  <2>1. <<>> \in Seq(C) /\ Len(<<>>) = 0
    OBVIOUS
  <2>2. RunIs(<<>>, 0, 2 * 0)
    BY DEF RunIs
  <2> QED BY <2>1, <2>2 DEF Balanced
<1>8. ASSUME NEW s \in P, NEW i \in 1 .. Len(ps) PROVE s \o ps[i] \in P
  <2> DEFINE c == t[i]
  <2>1. s \in Seq(C) /\ Balanced(s) /\ c \in B /\ c \in C /\ Backslash \in C /\ ps[i] = EscapedByte(c)
    BY <1>1, <1>3, <1>5, <1>8
  <2> HIDE DEF c
  <2>2. s \o ps[i] \in Seq(C)
    BY <1>4, <2>1
  <2> HIDE DEF C
  <2>3. Balanced(s \o ps[i])
    <3>1. CASE c \in {Quote, Backslash}
      BY <2>1, <3>1, BalancedEscaped DEF EscapedByte
    <3>2. CASE c \notin {Quote, Backslash}
      BY <2>1, <3>2, BalancedPlain DEF EscapedByte
    <3> QED BY <3>1, <3>2
  <2> QED BY <2>2, <2>3
<1>9. FlattenSeq(ps) \in P
  <2> HIDE DEF C
  <2>1. P \in SUBSET Seq(C)
    OBVIOUS
  <2> HIDE DEF P
  <2> QED BY <1>6, <1>7, <1>8, <2>1, FlattenKeeps
<1>10. Quote \notin B => FlattenSeq(ps) \in Seq(B)
  BY <1>6, FlattenPlaces
<1>11. t # <<>> => Len(FlattenSeq(ps)) > 0
  <2> SUFFICES ASSUME t # <<>> PROVE Len(FlattenSeq(ps)) > 0
    OBVIOUS
  <2>1. PICK off : Placed(FlattenSeq(ps), ps, off)
    BY <1>6, FlattenPlaces
  <2>2. 1 \in 1 .. Len(ps) /\ 0 \in 0 .. Len(ps) /\ 1 \in 0 .. Len(ps)
    BY <1>1, <1>5
  <2>3. Len(ps[1]) \in 1 .. 2
    BY <1>1, <1>3, <1>4, <1>5, <2>2
  <2>4. off[1] = off[0] + Len(ps[1]) /\ off[1] <= Len(FlattenSeq(ps)) /\ off[0] = 0
    <3>1. 1 - 1 = 0
      OBVIOUS
    <3> QED BY <2>1, <2>2, <3>1 DEF Placed
  <2>5. Len(FlattenSeq(ps)) \in Nat
    BY <1>9
  <2> QED BY <2>3, <2>4, <2>5
<1> QED BY <1>2, <1>9, <1>10, <1>11

----------------------------------------------------------------------------
(* What is found in a line.                                                *)

(* The least and the greatest element, once it is known.                   *)
LEMMA MinIs ==
  ASSUME NEW S \in SUBSET Nat, NEW x \in S, \A y \in S : x <= y
  PROVE  Min(S) = x
<1>1. Min(S) \in S /\ Min(S) <= x
  BY MinFacts
<1>2. x <= Min(S) /\ x \in Nat /\ Min(S) \in Nat
  BY <1>1
<1> QED BY <1>1, <1>2

LEMMA MaxIs ==
  ASSUME NEW S \in SUBSET Nat, NEW x \in S, \A y \in S : y <= x
  PROVE  Max(S) = x
<1> DEFINE m == Max(S)
<1>1. m \in S /\ \A y \in S : m >= y
  <2>1. \E z \in S : \A y \in S : z >= y
    <3>1. \A y \in S : x >= y
      OBVIOUS
    <3> QED BY <3>1
  <2> QED BY <2>1 DEF Max
<1> HIDE DEF m
<1>2. m = x
  <2>1. m >= x /\ m <= x /\ m \in Nat /\ x \in Nat
    BY <1>1
  <2> QED BY <2>1
<1> QED BY <1>2 DEF m

(* The first byte found, once it is known which one it is.                 *)
LEMMA FindIs ==
  ASSUME NEW l, Len(l) \in Nat, NEW b, NEW from \in Nat, NEW to \in from .. (Len(l) + 1),
         \A q \in from .. (to - 1) : l[q] # b, to <= Len(l) => l[to] = b
  PROVE  Find(l, b, from) = to
<1> DEFINE S == {i \in from .. Len(l) : l[i] = b} \cup {Len(l) + 1}
<1>1. S \in SUBSET Nat
  OBVIOUS
<1>2. to \in S
  OBVIOUS
<1>3. \A y \in S : to <= y
  OBVIOUS
<1> HIDE DEF S
<1>4. Min(S) = to
  BY <1>1, <1>2, <1>3, MinIs
<1> QED BY <1>4 DEF S, Find

LEMMA FindNotIs ==
  ASSUME NEW l, Len(l) \in Nat, NEW b, NEW from \in Nat, NEW to \in from .. Len(l),
         \A q \in from .. (to - 1) : l[q] = b, l[to] # b
  PROVE  FindNot(l, b, from) = to
<1> DEFINE S == {i \in from .. Len(l) : l[i] # b} \cup {Len(l) + 1}
<1>1. S \in SUBSET Nat
  OBVIOUS
<1>2. to \in S
  OBVIOUS
<1>3. \A y \in S : to <= y
  OBVIOUS
<1> HIDE DEF S
<1>4. Min(S) = to
  BY <1>1, <1>2, <1>3, MinIs
<1> QED BY <1>4 DEF S, FindNot

(* What is found lies behind the bytes that are not it.                    *)
LEMMA FindAfter ==
  ASSUME NEW l, Len(l) \in Nat, NEW b, NEW from \in Nat, NEW to \in from .. (Len(l) + 1),
         \A q \in from .. (to - 1) : l[q] # b
  PROVE  Find(l, b, from) \in Nat /\ to <= Find(l, b, from)
<1> DEFINE S == {i \in from .. Len(l) : l[i] = b} \cup {Len(l) + 1}
<1>1. S \in SUBSET Nat /\ S # {}
  OBVIOUS
<1>2. \A y \in S : y \in Nat /\ to <= y
  OBVIOUS
<1> HIDE DEF S
<1>3. Min(S) \in S
  BY <1>1, MinFacts
<1> QED BY <1>2, <1>3 DEF S, Find

(* The bytes of a text in the line, which begin behind o.                  *)
Holds(l, o, e) == \A p \in 1 .. Len(e) : l[o + p] = e[p]

(* The backslashes before a quote of the line are those of the text.       *)
LEMMA BackslashesAre ==
  ASSUME NEW l, NEW o \in Nat, NEW e, Len(e) \in Nat, Holds(l, o, e),
         NEW p \in 0 .. Len(e), NEW r, RunIs(e, p, r)
  PROVE  Backslashes(l, o + 1, o + p + 1) = r
<1> DEFINE S == {j \in (o + 1) .. ((o + p + 1) - 1) : l[j] # Backslash} \cup {(o + 1) - 1}
           x == o + p - r
<1>1. r \in 0 .. p /\ r \in Nat /\ p \in Nat
  BY DEF RunIs
<1>2. S \in SUBSET Nat
  OBVIOUS
<1>3. x \in S
  <2>1. CASE r = p
    <3>1. x = (o + 1) - 1
      BY <1>1, <2>1
    <3> QED BY <3>1
  <2>2. CASE r # p
    <3>1. p - r \in 1 .. Len(e) /\ e[p - r] # Backslash
      BY <1>1, <2>2 DEF RunIs
    <3>2. l[o + (p - r)] = e[p - r] /\ o + (p - r) = x
      BY <1>1, <3>1 DEF Holds
    <3>3. x \in (o + 1) .. ((o + p + 1) - 1)
      BY <1>1, <3>1
    <3> QED BY <3>1, <3>2, <3>3
  <2> QED BY <2>1, <2>2
<1>4. ASSUME NEW y \in S PROVE y <= x
  <2>1. CASE y = (o + 1) - 1
    BY <1>1, <2>1
  <2>2. CASE y \in (o + 1) .. ((o + p + 1) - 1) /\ l[y] # Backslash
    <3> DEFINE q == y - o
    <3>1. q \in 1 .. p /\ q \in 1 .. Len(e) /\ o + q = y
      BY <1>1, <2>2
    <3>2. e[q] # Backslash
      BY <2>2, <3>1 DEF Holds
    <3>3. ~ (q \in (p - r + 1) .. p)
      BY <3>2 DEF RunIs
    <3> QED BY <1>1, <3>1, <3>3
  <2> QED BY <2>1, <2>2
<1>5. Max(S) = x
  <2> HIDE DEF S, x
  <2> QED BY <1>2, <1>3, <1>4, MaxIs
<1>6. Backslashes(l, o + 1, o + p + 1) = (o + p + 1 - 1) - Max(S)
  BY DEF Backslashes
<1> HIDE DEF S
<1> QED BY <1>1, <1>5, <1>6

(* The quote that closes an escaped text is the one behind it.             *)
LEMMA CloseIs ==
  ASSUME NEW l, Len(l) \in Nat, NEW o \in Nat, NEW e, Len(e) \in Nat, Holds(l, o, e),
         Balanced(e), NEW z \in Nat, z = o + Len(e) + 1, z <= Len(l), l[z] = Quote
  PROVE  ScanQuotedClose(l, o + 1) = z
<1> DEFINE S == {i \in (o + 1) .. Len(l) : l[i] = Quote /\ Closes(l, o + 1, i)} \cup {Len(l) + 1}
<1>1. S \in SUBSET Nat
  OBVIOUS
<1>2. z \in S
  <2>1. PICK r \in Nat : RunIs(e, Len(e), 2 * r)
    BY DEF Balanced
  <2>2. Len(e) \in 0 .. Len(e)
    OBVIOUS
  <2>3. Backslashes(l, o + 1, z) = 2 * r
    BY <2>1, <2>2, BackslashesAre
  <2>4. (2 * r) % 2 = 0
    OBVIOUS
  <2>5. Closes(l, o + 1, z) /\ z \in (o + 1) .. Len(l)
    BY <2>3, <2>4 DEF Closes
  <2> QED BY <2>5
<1>3. ASSUME NEW y \in S PROVE z <= y
  <2> SUFFICES ASSUME y < z PROVE FALSE
    BY <1>1
  <2> DEFINE q == y - o
  <2>1. y \in (o + 1) .. Len(l) /\ l[y] = Quote /\ Closes(l, o + 1, y)
    OBVIOUS
  <2>2. q \in 1 .. Len(e) /\ y = o + q
    BY <2>1
  <2> HIDE DEF q
  <2>3. e[q] = Quote
    BY <2>1, <2>2 DEF Holds
  <2>4. PICK r \in Nat : RunIs(e, q - 1, 2 * r + 1)
    BY <2>2, <2>3 DEF Balanced
  <2>5. q - 1 \in 0 .. Len(e) /\ o + (q - 1) + 1 = y
    BY <2>2
  <2>6. Backslashes(l, o + 1, o + (q - 1) + 1) = 2 * r + 1
    BY <2>4, <2>5, BackslashesAre
  <2>7. (2 * r + 1) % 2 # 0
    OBVIOUS
  <2> QED BY <2>1, <2>5, <2>6, <2>7 DEF Closes
<1> HIDE DEF S
<1>4. Min(S) = z
  BY <1>1, <1>2, <1>3, MinIs
<1> QED BY <1>4 DEF S, ScanQuotedClose

----------------------------------------------------------------------------
(* Where a format's codes are, and the fields of a line rendered with it.  *)

(* Every code of a format has its place in CodeAt.                         *)
LEMMA CodesComplete ==
  ASSUME NEW f, Len(f) \in Nat, NEW i \in 1 .. Len(f), IsCode(f[i])
  PROVE  \E k \in 1 .. Len(CodeAt(f)) : CodeAt(f)[k] = i
<1> DEFINE u == CHOOSE g : CodesUpTo(f, g)
<1>1. CodesUpTo(f, u)
  BY CodesExist
<1>2. CodeAt(f) = u[Len(f)]
  BY DEF CodeAt, CodesUpTo
<1> HIDE DEF u
<1>3. \A n \in 0 .. Len(f) : u[n] = IF n = 0 THEN <<>>
                                  ELSE IF IsCode(f[n]) THEN Append(u[n - 1], n) ELSE u[n - 1]
  BY <1>1 DEF CodesUpTo
<1> DEFINE Has(s, n) == /\ s \in Seq(Nat)
                        /\ \A j \in 1 .. n : IsCode(f[j]) => \E k \in 1 .. Len(s) : s[k] = j
           T == {n \in Nat : n <= Len(f) => Has(u[n], n)}
<1>4. 0 \in T
  <2>1. u[0] = <<>>
    BY <1>3
  <2>2. <<>> \in Seq(Nat) /\ \A j \in 1 .. 0 : FALSE
    OBVIOUS
  <2>3. Has(u[0], 0)
    BY <2>1, <2>2
  <2> HIDE DEF Has
  <2> QED BY <2>3
<1>5. ASSUME NEW n \in Nat, n \in T PROVE n + 1 \in T
  <2> HIDE DEF Has
  <2> SUFFICES ASSUME n + 1 <= Len(f) PROVE Has(u[n + 1], n + 1)
    OBVIOUS
  <2> USE DEF Has
  <2> DEFINE s == u[n]
             t == u[n + 1]
  <2>1. Has(s, n)
    BY <1>5
  <2>2. t = IF IsCode(f[n + 1]) THEN Append(s, n + 1) ELSE s
    <3>1. n + 1 \in 0 .. Len(f) /\ n + 1 # 0 /\ (n + 1) - 1 = n
      OBVIOUS
    <3> QED BY <1>3, <3>1
  <2> HIDE DEF s
  <2>3. s \in Seq(Nat) /\ Len(s) \in Nat
    BY <2>1
  <2>4. CASE IsCode(f[n + 1])
    <3>1. /\ t \in Seq(Nat) /\ Len(t) = Len(s) + 1 /\ t[Len(s) + 1] = n + 1
          /\ \A k \in 1 .. Len(s) : t[k] = s[k]
      <4>1. t = Append(s, n + 1)
        BY <2>2, <2>4
      <4> HIDE DEF t
      <4> QED BY <2>3, <4>1
    <3> HIDE DEF t
    <3>2. ASSUME NEW j \in 1 .. (n + 1), IsCode(f[j]) PROVE \E k \in 1 .. Len(t) : t[k] = j
      <4>1. CASE j = n + 1
        <5>1. Len(s) + 1 \in 1 .. Len(t)
          BY <2>3, <3>1
        <5> QED BY <3>1, <4>1, <5>1
      <4>2. CASE j # n + 1
        <5>1. j \in 1 .. n
          BY <4>2
        <5>2. PICK k \in 1 .. Len(s) : s[k] = j
          BY <2>1, <3>2, <5>1
        <5>3. k \in 1 .. Len(t)
          BY <2>3, <3>1
        <5> QED BY <3>1, <5>2, <5>3
      <4> QED BY <4>1, <4>2
    <3>3. Has(t, n + 1)
      BY <3>1, <3>2
    <3> QED BY <3>3 DEF t
  <2>5. CASE ~ IsCode(f[n + 1])
    <3>1. t = s
      BY <2>2, <2>5
    <3> HIDE DEF t
    <3>2. Has(t, n + 1)
      BY <2>1, <2>5, <3>1
    <3> QED BY <3>2 DEF t
  <2> QED BY <2>4, <2>5
<1> HIDE DEF T
<1>6. Len(f) \in T
  BY <1>4, <1>5, Induction
<1>7. Has(u[Len(f)], Len(f))
  BY <1>6 DEF T
<1> QED BY <1>2, <1>7

(* The places in CodeAt are codes, from left to right.                     *)
LEMMA CodesInOrder ==
  ASSUME NEW f, Len(f) \in Nat
  PROVE  /\ Len(CodeAt(f)) \in Nat
         /\ \A k \in 1 .. Len(CodeAt(f)) : CodeAt(f)[k] \in 1 .. Len(f) /\ IsCode(f[CodeAt(f)[k]])
         /\ \A j, k \in 1 .. Len(CodeAt(f)) : j < k => CodeAt(f)[j] < CodeAt(f)[k]
BY CodeAtFacts DEF InOrder

(* Of the codes up to the k-th there are k.                                *)
LEMMA NthIs ==
  ASSUME NEW f, Len(f) \in Nat, NEW k \in 1 .. Len(CodeAt(f))
  PROVE  Cardinality({j \in 1 .. CodeAt(f)[k] : IsCode(f[j])}) = k
<1> DEFINE c == CodeAt(f)
           S == {j \in 1 .. c[k] : IsCode(f[j])}
           g == [m \in 1 .. k |-> c[m]]
<1>1. /\ Len(c) \in Nat /\ k \in 1 .. Len(c)
      /\ \A m \in 1 .. Len(c) : c[m] \in 1 .. Len(f) /\ IsCode(f[c[m]])
      /\ \A i, j \in 1 .. Len(c) : i < j => c[i] < c[j]
  BY CodesInOrder
<1>2. \A i \in 1 .. Len(f) : IsCode(f[i]) => \E m \in 1 .. Len(c) : c[m] = i
  BY CodesComplete
<1> HIDE DEF c
<1>3. k \in Nat /\ \A m \in 1 .. k : m \in 1 .. Len(c)
  BY <1>1
<1>4. \A m \in 1 .. k : c[m] \in S
  <2> SUFFICES ASSUME NEW m \in 1 .. k PROVE c[m] \in S
    OBVIOUS
  <2>1. c[m] \in 1 .. Len(f) /\ IsCode(f[c[m]]) /\ c[k] \in 1 .. Len(f)
    BY <1>1, <1>3
  <2>2. m = k \/ c[m] < c[k]
    BY <1>1, <1>3
  <2> QED BY <2>1, <2>2
<1>5. ASSUME NEW x \in S PROVE \E m \in 1 .. k : c[m] = x
  <2>1. c[k] \in 1 .. Len(f)
    BY <1>1
  <2>2. x \in 1 .. Len(f) /\ IsCode(f[x]) /\ x <= c[k] /\ x \in Nat
    BY <2>1
  <2>3. PICK m \in 1 .. Len(c) : c[m] = x
    BY <1>2, <2>2
  <2>4. ~ (k < m)
    <3> SUFFICES ASSUME k < m PROVE FALSE
      OBVIOUS
    <3>1. c[k] < c[m]
      BY <1>1
    <3> QED BY <2>1, <2>2, <2>3, <3>1
  <2>5. m \in 1 .. k
    BY <1>1, <2>4
  <2> QED BY <2>3, <2>5
<1>6. \A i, j \in 1 .. k : c[i] = c[j] => i = j
  <2> SUFFICES ASSUME NEW i \in 1 .. k, NEW j \in 1 .. k, i < j PROVE c[i] # c[j]
    OBVIOUS
  <2>1. c[i] < c[j] /\ c[i] \in Nat /\ c[j] \in Nat
    BY <1>1, <1>3
  <2> QED BY <2>1
<1> HIDE DEF S
<1>7. g \in [1 .. k -> S] /\ \A m \in 1 .. k : g[m] = c[m]
  BY <1>4
<1> HIDE DEF g
<1>8. g \in Bijection(1 .. k, S)
  <2>1. g \in Injection(1 .. k, S)
    BY <1>6, <1>7 DEF Injection, IsInjective
  <2>2. g \in Surjection(1 .. k, S)
    BY <1>5, <1>7 DEF Surjection
  <2> QED BY <2>1, <2>2 DEF Bijection
<1>9. IsFiniteSet(1 .. k) /\ Cardinality(1 .. k) = k
  BY <1>3, FS_Interval
<1>10. Cardinality(S) = k
  BY <1>8, <1>9, FS_Bijection DEF ExistsBijection
<1> QED BY <1>10 DEF S, c

(* Element i of the format ends at off[i] of the line.                     *)
Rendering(f, ts, l, off) ==
  /\ off \in [0 .. Len(f) -> Nat] /\ off[0] = 0 /\ Len(l) = off[Len(f)]
  /\ \A i \in 1 .. Len(f) : off[i - 1] <= off[i] /\ off[i] <= Len(l)
  /\ \A i \in 1 .. Len(f) : ~ IsCode(f[i]) => off[i] = off[i - 1] + 1 /\ l[off[i]] = f[i]
  /\ \A k \in 1 .. Len(CodeAt(f)) :
       /\ off[CodeAt(f)[k]] = off[CodeAt(f)[k] - 1] + Len(Escaped(ts[k]))
       /\ Holds(l, off[CodeAt(f)[k] - 1], Escaped(ts[k]))

(* A rendered line has each element of the format at its place.            *)
LEMMA RenderedPlaces ==
  ASSUME NEW f, f \in Seq(Range(f)), NEW X, NEW ts \in Seq(Seq(X)), Len(ts) = Len(CodeAt(f))
  PROVE  \E off : Rendering(f, ts, Rendered(f, ts), off)
<1> DEFINE c == CodeAt(f)
           B == Range(f) \cup X \cup {Backslash}
           ps == [i \in DOMAIN f |->
                    IF IsCode(f[i]) THEN Escaped(ts[Cardinality({j \in 1 .. i : IsCode(f[j])})])
                    ELSE <<f[i]>>]
           l == Rendered(f, ts)
<1>1. Len(f) \in Nat /\ DOMAIN f = 1 .. Len(f) /\ \A i \in 1 .. Len(f) : f[i] \in B
  BY DEF Range
<1>2. /\ Len(c) \in Nat /\ Len(ts) = Len(c)
      /\ \A k \in 1 .. Len(c) : c[k] \in 1 .. Len(f) /\ IsCode(f[c[k]])
  BY <1>1, CodesInOrder
<1>3. \A i \in 1 .. Len(f) : IsCode(f[i]) => \E k \in 1 .. Len(c) : c[k] = i
  BY <1>1, CodesComplete
<1>4. \A k \in 1 .. Len(c) : Cardinality({j \in 1 .. c[k] : IsCode(f[j])}) = k
  BY <1>1, NthIs
<1>5. l = FlattenSeq(ps)
  BY DEF Rendered
<1> HIDE DEF c, l
<1>6. /\ DOMAIN ps = 1 .. Len(f) /\ Len(ps) = Len(f)
      /\ ps = [i \in 1 .. Len(f) |-> ps[i]]
      /\ \A i \in 1 .. Len(f) : ~ IsCode(f[i]) => ps[i] = <<f[i]>>
      /\ \A i \in 1 .. Len(f) :
           IsCode(f[i]) => ps[i] = Escaped(ts[Cardinality({j \in 1 .. i : IsCode(f[j])})])
  BY <1>1
<1> HIDE DEF ps
<1>7. \A k \in 1 .. Len(c) : ps[c[k]] = Escaped(ts[k])
  BY <1>2, <1>4, <1>6
<1>8. \A k \in 1 .. Len(c) : Escaped(ts[k]) \in Seq(B)
  <2> SUFFICES ASSUME NEW k \in 1 .. Len(c) PROVE Escaped(ts[k]) \in Seq(B)
    OBVIOUS
  <2>1. ts[k] \in Seq(X)
    BY <1>2
  <2>2. ts[k] \in Seq(B)
    BY <2>1
  <2>3. B \cup {Backslash} = B
    OBVIOUS
  <2> HIDE DEF B
  <2> QED BY <2>2, <2>3, EscapedFacts
<1>9. \A i \in 1 .. Len(f) : ps[i] \in Seq(B)
  <2> SUFFICES ASSUME NEW i \in 1 .. Len(f) PROVE ps[i] \in Seq(B)
    OBVIOUS
  <2>1. CASE ~ IsCode(f[i])
    <3>1. ps[i] = <<f[i]>> /\ f[i] \in B
      BY <1>1, <1>6, <2>1
    <3> HIDE DEF B
    <3> QED BY <3>1
  <2>2. CASE IsCode(f[i])
    <3>1. PICK k \in 1 .. Len(c) : c[k] = i
      BY <1>3, <2>2
    <3> HIDE DEF B
    <3> QED BY <1>7, <1>8, <3>1
  <2> QED BY <2>1, <2>2
<1> HIDE DEF B
<1>10. ps \in Seq(Seq(B))
  BY <1>1, <1>6, <1>9
<1>11. PICK off : Placed(l, ps, off)
  BY <1>5, <1>10, FlattenPlaces
<1>12. /\ off \in [0 .. Len(f) -> Nat] /\ off[0] = 0 /\ Len(l) = off[Len(f)]
       /\ \A i \in 1 .. Len(f) :
            /\ off[i] = off[i - 1] + Len(ps[i])
            /\ off[i] <= Len(l)
            /\ \A j \in 1 .. Len(ps[i]) : l[off[i - 1] + j] = ps[i][j]
  BY <1>6, <1>11 DEF Placed
<1>13. \A i \in 1 .. Len(f) : Len(ps[i]) \in Nat /\ off[i - 1] \in Nat /\ off[i] \in Nat
  <2> SUFFICES ASSUME NEW i \in 1 .. Len(f)
               PROVE  Len(ps[i]) \in Nat /\ off[i - 1] \in Nat /\ off[i] \in Nat
    OBVIOUS
  <2>1. Len(ps[i]) \in Nat
    <3>1. ps[i] \in Seq(B)
      BY <1>9
    <3> QED BY <3>1
  <2>2. i - 1 \in 0 .. Len(f) /\ i \in 0 .. Len(f)
    BY <1>1
  <2>3. off[i - 1] \in Nat /\ off[i] \in Nat
    BY <1>12, <2>2
  <2> QED BY <2>1, <2>3
<1>14. ASSUME NEW i \in 1 .. Len(f) PROVE off[i - 1] <= off[i] /\ off[i] <= Len(l)
  <2>1. off[i] = off[i - 1] + Len(ps[i]) /\ off[i] <= Len(l)
    BY <1>12
  <2>2. Len(ps[i]) \in Nat /\ off[i - 1] \in Nat /\ off[i] \in Nat
    BY <1>13
  <2> QED BY ONLY <2>1, <2>2
<1>15. ASSUME NEW i \in 1 .. Len(f), ~ IsCode(f[i])
       PROVE  off[i] = off[i - 1] + 1 /\ l[off[i]] = f[i]
  <2>1. ps[i] = <<f[i]>>
    BY <1>6, <1>15
  <2>2. Len(ps[i]) = 1 /\ ps[i][1] = f[i] /\ 1 \in 1 .. Len(ps[i])
    BY <2>1
  <2> QED BY <1>12, <2>2
<1>16. ASSUME NEW k \in 1 .. Len(c)
       PROVE  off[c[k]] = off[c[k] - 1] + Len(Escaped(ts[k])) /\ Holds(l, off[c[k] - 1], Escaped(ts[k]))
  <2>1. c[k] \in 1 .. Len(f) /\ ps[c[k]] = Escaped(ts[k])
    BY <1>2, <1>7
  <2> DEFINE e == Escaped(ts[k])
  <2>2. ps[c[k]] = e
    BY <2>1
  <2> HIDE DEF e
  <2>3. off[c[k]] = off[c[k] - 1] + Len(e) /\ Holds(l, off[c[k] - 1], e)
    BY <1>12, <2>1, <2>2 DEF Holds
  <2> QED BY <2>3 DEF e
<1>17. Rendering(f, ts, l, off)
  BY <1>12, <1>14, <1>15, <1>16 DEF Rendering, c
<1> QED BY <1>17 DEF l

(* Literal bytes take one place each.                                      *)
LEMMA Stretch ==
  ASSUME NEW f, Len(f) \in Nat, NEW ts, NEW l, NEW off, Rendering(f, ts, l, off),
         NEW a \in 0 .. Len(f), NEW b \in a .. Len(f),
         \A j \in (a + 1) .. b : ~ IsCode(f[j])
  PROVE  \A j \in a .. b : off[j] = off[a] + (j - a)
<1> DEFINE T == {n \in Nat : a + n <= b => off[a + n] = off[a] + n}
<1>1. off[a] \in Nat
  BY DEF Rendering
<1>2. 0 \in T
  BY <1>1
<1>3. ASSUME NEW n \in Nat, n \in T PROVE n + 1 \in T
  <2> SUFFICES ASSUME a + (n + 1) <= b PROVE off[a + (n + 1)] = off[a] + (n + 1)
    OBVIOUS
  <2> DEFINE i == a + (n + 1)
  <2>1. i \in 1 .. Len(f) /\ i - 1 = a + n /\ i \in (a + 1) .. b
    OBVIOUS
  <2>2. off[a + n] = off[a] + n
    BY <1>3
  <2> HIDE DEF i
  <2>3. off[i] = off[i - 1] + 1
    BY <2>1 DEF Rendering
  <2>4. off[i - 1] = off[a] + n
    BY <2>1, <2>2
  <2>6. \A x \in Nat : (x + n) + 1 = x + (n + 1)
    OBVIOUS
  <2>5. off[i] = off[a] + (n + 1)
    BY <1>1, <2>3, <2>4, <2>6, Zenon
  <2> QED BY <2>5 DEF i
<1> HIDE DEF T
<1>4. \A n \in Nat : n \in T
  BY <1>2, <1>3, Induction
<1> SUFFICES ASSUME NEW j \in a .. b PROVE off[j] = off[a] + (j - a)
  OBVIOUS
<1>5. j - a \in Nat /\ a + (j - a) = j /\ j <= b
  OBVIOUS
<1>6. j - a \in T
  BY <1>4, <1>5
<1> QED BY <1>5, <1>6 DEF T

(* What a field's extractor knows.                                         *)
LEMMA Extractors ==
  ASSUME NEW f, f \in Seq(Range(f)), TellsApart(f), NEW k \in 1 .. Len(CodeAt(f))
  PROVE  LET i == CodeAt(f)[k]
             e == CompileFormat(f)[k]
         IN  /\ e.type = f[i]
             /\ e.delimiter = IF i = Len(f) THEN Space ELSE f[i + 1]
             /\ e.quoted = (f[i] = "u" \/ (i < Len(f) /\ f[i + 1] = Quote))
             /\ e.brackets = (f[i] = "t")
<1> DEFINE c == CodeAt(f)
           i == c[k]
<1>1. Len(f) \in Nat /\ DOMAIN f = 1 .. Len(f)
  OBVIOUS
<1>2. i \in 1 .. Len(f) /\ IsCode(f[i]) /\ k \in 1 .. Len(c) /\ DOMAIN c = 1 .. Len(c)
  BY <1>1, CodesInOrder, CodeAtFacts DEF InOrder
<1>3. i = Len(f) \/ ~ IsCode(f[i + 1])
  BY <1>1, <1>2 DEF TellsApart
<1> DEFINE next == IF i = Len(f) THEN Space ELSE f[i + 1]
<1>4. CompileFormat(f)[k] = [type |-> f[i], delimiter |-> next,
                             quoted |-> f[i] = "u" \/ (i < Len(f) /\ next = Quote),
                             brackets |-> f[i] = "t"]
  <2>1. CASE i = Len(f)
    BY <1>2, <2>1 DEF CompileFormat
  <2>2. CASE i # Len(f)
    <3>1. i < Len(f)
      BY <1>1, <1>2, <2>2
    <3> QED BY <1>2, <1>3, <2>2, <3>1 DEF CompileFormat
  <2> QED BY <2>1, <2>2
<1>5. (i < Len(f) /\ next = Quote) <=> (i < Len(f) /\ f[i + 1] = Quote)
  BY <1>1, <1>2
<1> HIDE DEF i, next
<1>6. /\ CompileFormat(f)[k].type = f[i] /\ CompileFormat(f)[k].delimiter = next
      /\ CompileFormat(f)[k].quoted = (f[i] = "u" \/ (i < Len(f) /\ next = Quote))
      /\ CompileFormat(f)[k].brackets = (f[i] = "t")
  BY <1>4
<1> QED BY <1>5, <1>6 DEF i, next

(* The text that a field's element of the line was rendered from.          *)
FieldOf(f, ts, l, off, i, t) ==
  /\ i \in 1 .. Len(f) /\ IsCode(f[i]) /\ t \in Seq(Range(t)) /\ Suits(f, i, t)
  /\ off[i] = off[i - 1] + Len(Escaped(t)) /\ Holds(l, off[i - 1], Escaped(t))

(* The bytes that the walk tells apart.                                    *)
LEMMA BytesDiffer ==
  /\ Space # Quote /\ Space # "[" /\ Quote # "[" /\ Space # "]" /\ Quote # "]" /\ "[" # "]"
  /\ Space # Backslash /\ Quote # Backslash /\ "[" # Backslash /\ "]" # Backslash
BY DEF Space, Quote, Backslash

(* The places of a line go up with the elements.                           *)
LEMMA Offsets ==
  ASSUME NEW f, Len(f) \in Nat, NEW ts, NEW l, NEW off, Rendering(f, ts, l, off)
  PROVE  /\ Len(l) \in Nat /\ off[Len(f)] = Len(l) /\ off[0] = 0
         /\ \A i \in 0 .. Len(f) : off[i] \in Nat
         /\ \A i \in 1 .. Len(f) : /\ i - 1 \in 0 .. Len(f) /\ off[i - 1] \in Nat /\ off[i] \in Nat
                                   /\ off[i - 1] <= off[i] /\ off[i] <= Len(l)
<1>1. /\ off \in [0 .. Len(f) -> Nat] /\ off[0] = 0 /\ Len(l) = off[Len(f)]
      /\ \A i \in 1 .. Len(f) : off[i - 1] <= off[i] /\ off[i] <= Len(l)
  BY DEF Rendering
<1>2. \A i \in 0 .. Len(f) : off[i] \in Nat
  BY <1>1
<1>3. \A i \in 1 .. Len(f) : i - 1 \in 0 .. Len(f) /\ i \in 0 .. Len(f)
  OBVIOUS
<1>4. Len(f) \in 0 .. Len(f)
  OBVIOUS
<1> QED BY <1>1, <1>2, <1>3, <1>4

(* An escaped text in the open has no byte that the text does not have.    *)
LEMMA OpenText ==
  ASSUME NEW t, t \in Seq(Range(t)), Quote \notin Range(t)
  PROVE  /\ Len(Escaped(t)) \in Nat
         /\ \A p \in 1 .. Len(Escaped(t)) : Escaped(t)[p] \in Range(t)
         /\ t # <<>> => 1 <= Len(Escaped(t))
<1> DEFINE B == Range(t)
           e == Escaped(t)
<1>1. t \in Seq(B) /\ Quote \notin B
  OBVIOUS
<1> HIDE DEF B, e
<1>2. e \in Seq(B) /\ (t # <<>> => Len(e) > 0)
  BY <1>1, EscapedFacts DEF e
<1>3. Len(e) \in Nat /\ \A p \in 1 .. Len(e) : e[p] \in B
  BY <1>2
<1>4. t # <<>> => 1 <= Len(e)
  BY <1>2, <1>3
<1> QED BY <1>3, <1>4 DEF B, e

(* An escaped text is a sequence.                                          *)
LEMMA EscapedIsSeq ==
  ASSUME NEW t, t \in Seq(Range(t))
  PROVE  Len(Escaped(t)) \in Nat /\ Escaped(t) = [p \in 1 .. Len(Escaped(t)) |-> Escaped(t)[p]]
<1>1. Escaped(t) \in Seq(Range(t) \cup {Backslash})
  BY EscapedFacts
<1> QED BY <1>1

(* Where the walk looks for a field.                                       *)
FieldFrom(f, off, i) == IF Enclosed(f, i) THEN off[i - 1] ELSE off[i - 1] + 1

(* From behind what ended the field before, it passes the blanks, and only *)
(* those.                                                                  *)
LEMMA ReachField ==
  ASSUME NEW f, Len(f) \in Nat, DOMAIN f = 1 .. Len(f), TellsApart(f),
         NEW ts, NEW l, NEW off, Rendering(f, ts, l, off),
         NEW i, NEW t, FieldOf(f, ts, l, off, i, t),
         NEW a \in 0 .. (i - 1), \A j \in (a + 1) .. (i - 1) : ~ IsCode(f[j]),
         a = 0 \/ ~ IsCode(f[a]), Enclosed(f, i) => a < i - 1
  PROVE  /\ FindNot(l, Space, off[a] + 1) = FieldFrom(f, off, i)
         /\ off[a] + 1 <= Len(l) /\ off[a] \in Nat
         /\ FieldFrom(f, off, i) \in 1 .. Len(l)
         /\ Enclosed(f, i) => l[off[i - 1]] = f[i - 1] /\ off[i - 1] \in 1 .. Len(l)
         /\ ~ Enclosed(f, i) => l[off[i - 1] + 1] \in Range(t)
<1> DEFINE b == IF Enclosed(f, i) THEN i - 2 ELSE i - 1
           to == FieldFrom(f, off, i)
<1>1. i \in 1 .. Len(f) /\ IsCode(f[i]) /\ Suits(f, i, t) /\ t \in Seq(Range(t))
  BY DEF FieldOf
<1>2. b \in a .. (i - 1) /\ b \in a .. Len(f) /\ a \in 0 .. Len(f) /\ b \in Nat
      /\ b <= i - 1 /\ b <= Len(f) /\ a <= b
      /\ (Enclosed(f, i) => b = i - 2 /\ b + 1 = i - 1) /\ (~ Enclosed(f, i) => b = i - 1)
  BY <1>1
<1> HIDE DEF b
<1>3. /\ Len(l) \in Nat /\ off[a] \in Nat /\ off[b] \in Nat /\ off[i - 1] \in Nat /\ off[i] \in Nat
      /\ off[i - 1] <= off[i] /\ off[i] <= Len(l)
  <2>1. a \in 0 .. Len(f) /\ b \in 0 .. Len(f)
    BY <1>2
  <2> QED BY <1>1, <2>1, Offsets
<1>4. \A j \in a .. b : off[j] = off[a] + (j - a)
  <2>1. \A j \in (a + 1) .. b : ~ IsCode(f[j])
    BY <1>1, <1>2
  <2> QED BY <1>2, <2>1, Stretch
<1>5. ASSUME NEW j \in (a + 1) .. b PROVE f[j] = Space
  <2>1. j \in 1 .. Len(f) /\ ~ IsCode(f[j]) /\ j \in (a + 1) .. (i - 1)
    BY <1>1, <1>2
  <2>2. ~ (j > 1 /\ IsCode(f[j - 1]))
    <3>1. CASE j = a + 1
      <4>1. j - 1 = a
        BY <1>2, <3>1
      <4>2. j > 1 => a # 0
        BY <1>2, <3>1
      <4> QED BY <4>1, <4>2
    <3>2. CASE j # a + 1
      <4>1. j - 1 \in (a + 1) .. (i - 1)
        BY <1>1, <1>2, <2>1, <3>2
      <4> QED BY <4>1
    <3> QED BY <3>1, <3>2
  <2>3. ~ (j < Len(f) /\ IsCode(f[j + 1]) /\ Enclosed(f, j + 1))
    <3> SUFFICES ASSUME IsCode(f[j + 1]), Enclosed(f, j + 1) PROVE FALSE
      OBVIOUS
    <3>1. ~ (j + 1 \in (a + 1) .. (i - 1))
      OBVIOUS
    <3>2. j + 1 = i
      BY <1>1, <1>2, <2>1, <3>1
    <3>3. Enclosed(f, i)
      BY <3>2
    <3> QED BY <1>1, <1>2, <3>2, <3>3
  <2> QED BY <2>1, <2>2, <2>3 DEF TellsApart
<1>6. off[b] = off[a] + (b - a) /\ to = off[b] + 1
      /\ (Enclosed(f, i) => to = off[i - 1] /\ l[to] = f[i - 1])
  <2>1. off[b] = off[a] + (b - a)
    BY <1>2, <1>4
  <2>2. CASE Enclosed(f, i)
    <3>1. i - 1 \in 1 .. Len(f) /\ i - 1 \in (a + 1) .. (i - 1) /\ (i - 1) - 1 = b
      BY <1>1, <1>2, <2>2
    <3>2. off[i - 1] = off[b] + 1 /\ l[off[i - 1]] = f[i - 1]
      BY <3>1 DEF Rendering
    <3> QED BY <2>1, <2>2, <3>2 DEF FieldFrom
  <2>3. CASE ~ Enclosed(f, i)
    BY <1>2, <2>1, <2>3 DEF FieldFrom
  <2> QED BY <2>2, <2>3
<1>7. ~ Enclosed(f, i) => /\ to = off[i - 1] + 1 /\ off[i - 1] < off[i]
                          /\ l[to] \in Range(t) /\ Space \notin Range(t)
  <2> SUFFICES ASSUME ~ Enclosed(f, i)
               PROVE  /\ to = off[i - 1] + 1 /\ off[i - 1] < off[i]
                      /\ l[to] \in Range(t) /\ Space \notin Range(t)
    OBVIOUS
  <2> DEFINE e == Escaped(t)
  <2>1. t # <<>> /\ Space \notin Range(t) /\ Quote \notin Range(t)
    BY <1>1 DEF Suits
  <2>2. Len(e) \in Nat /\ 1 <= Len(e) /\ \A p \in 1 .. Len(e) : e[p] \in Range(t)
    BY <1>1, <2>1, OpenText
  <2>3. off[i] = off[i - 1] + Len(e) /\ Holds(l, off[i - 1], e)
    BY DEF FieldOf
  <2>4. to = off[i - 1] + 1
    BY DEF FieldFrom
  <2> HIDE DEF e
  <2>5. 1 \in 1 .. Len(e)
    BY <2>2
  <2>6. l[off[i - 1] + 1] = e[1] /\ e[1] \in Range(t)
    BY <2>2, <2>3, <2>5 DEF Holds
  <2>7. off[i - 1] < off[i]
    BY <1>3, <2>2, <2>3
  <2> QED BY <2>1, <2>4, <2>6, <2>7
<1>8. l[to] # Space
  <2>1. CASE Enclosed(f, i)
    <3>1. f[i - 1] # Space
      BY <2>1, BytesDiffer DEF Enclosed
    <3> QED BY <1>6, <2>1, <3>1
  <2>2. CASE ~ Enclosed(f, i)
    BY <1>7, <2>2
  <2> QED BY <2>1, <2>2
<1>9. to \in Nat /\ off[a] + 1 <= to /\ to <= Len(l) /\ 1 <= to
  <2>1. off[a] <= off[b]
    BY <1>2, <1>3, <1>6
  <2>2. to \in Nat /\ off[a] + 1 <= to /\ 1 <= to
    BY <1>3, <1>6, <2>1
  <2>3. to <= Len(l)
    BY <1>3, <1>6, <1>7
  <2> QED BY <2>2, <2>3
<1>10. ASSUME NEW q \in (off[a] + 1) .. (to - 1) PROVE l[q] = Space
  <2> DEFINE x == off[a]
             j == a + (q - x)
  <2>0. x \in Nat /\ q \in (x + 1) .. (x + (b - a)) /\ a \in Nat /\ b \in Nat
    <3>1. to - 1 = off[b]
      BY <1>3, <1>6
    <3> QED BY <1>2, <1>3, <1>6, <3>1
  <2> HIDE DEF x
  <2>5. j \in (a + 1) .. b /\ j \in a .. b /\ x + (j - a) = q
    BY <2>0
  <2>1. j \in (a + 1) .. b /\ j \in a .. b /\ off[a] + (j - a) = q
    BY <2>5 DEF x
  <2> HIDE DEF j
  <2>2. off[j] = q
    BY <1>4, <2>1
  <2>3. j \in 1 .. Len(f) /\ ~ IsCode(f[j])
    BY <1>1, <1>2, <2>1
  <2>4. l[off[j]] = f[j]
    BY <2>3 DEF Rendering
  <2> QED BY <1>5, <2>1, <2>2, <2>4
<1> HIDE DEF to
<1>11. FindNot(l, Space, off[a] + 1) = to
  <2>1. off[a] + 1 \in Nat /\ to \in (off[a] + 1) .. Len(l)
    BY <1>3, <1>9
  <2> QED BY <1>3, <1>8, <1>10, <2>1, FindNotIs
<1>12. to \in 1 .. Len(l) /\ off[a] + 1 <= Len(l)
  BY <1>3, <1>9
<1> QED BY <1>3, <1>6, <1>7, <1>11, <1>12 DEF to

(* The text is what lies between the ends of the element.                  *)
LEMMA TextIsThere ==
  ASSUME NEW l, NEW o \in Nat, NEW e, Len(e) \in Nat, e = [p \in 1 .. Len(e) |-> e[p]], Holds(l, o, e)
  PROVE  SubSeq(l, o + 1, o + Len(e)) = e
<1> DEFINE n == Len(e)
<1>1. n \in Nat
  OBVIOUS
<1>2. SubSeq(l, o + 1, o + n) = [p \in 1 .. n |-> l[o + p]]
  OBVIOUS
<1>3. \A p \in 1 .. n : l[o + p] = e[p]
  BY DEF Holds
<1> HIDE DEF n
<1>4. SubSeq(l, o + 1, o + n) = [p \in 1 .. n |-> e[p]]
  BY <1>2, <1>3
<1> QED BY <1>4 DEF n

(* A byte that an escaped text does not have is not between them.          *)
LEMMA NotBetween ==
  ASSUME NEW l, NEW o \in Nat, NEW e, Len(e) \in Nat, Holds(l, o, e), NEW b,
         \A p \in 1 .. Len(e) : e[p] # b
  PROVE  \A q \in (o + 1) .. (o + Len(e)) : l[q] # b
<1> SUFFICES ASSUME NEW q \in (o + 1) .. (o + Len(e)) PROVE l[q] # b
  OBVIOUS
<1>1. q - o \in 1 .. Len(e) /\ o + (q - o) = q
  OBVIOUS
<1>2. l[o + (q - o)] = e[q - o]
  BY <1>1 DEF Holds
<1> QED BY <1>1, <1>2

(* Escaping puts no byte in a text but backslashes.                        *)
LEMMA EscapedLacks ==
  ASSUME NEW t, t \in Seq(Range(t)), NEW b, b \notin Range(t), b # Backslash
  PROVE  \A p \in 1 .. Len(Escaped(t)) : Escaped(t)[p] # b
<1>1. Escaped(t) \in Seq(Range(t) \cup {Backslash})
  BY EscapedFacts
<1> QED BY <1>1

LEMMA NextIndex ==
  ASSUME NEW n \in Nat, NEW i \in 1 .. n, i # n
  PROVE  i < n /\ i + 1 \in 1 .. n /\ (i + 1) - 1 = i
OBVIOUS

ExtractorOf(f, i, e) ==
  /\ e.type = f[i]
  /\ e.delimiter = IF i = Len(f) THEN Space ELSE f[i + 1]
  /\ e.quoted = (f[i] = "u" \/ (i < Len(f) /\ f[i + 1] = Quote))
  /\ e.brackets = (f[i] = "t")

(* An extractor at its field takes the text, and what ends it.             *)
LEMMA ReadField ==
  ASSUME NEW f, Len(f) \in Nat, DOMAIN f = 1 .. Len(f), TellsApart(f),
         NEW ts, NEW l, NEW off, Rendering(f, ts, l, off),
         NEW i, NEW t, FieldOf(f, ts, l, off, i, t), NEW x, ExtractorOf(f, i, x),
         NEW to, to = FieldFrom(f, off, i), to \in 1 .. Len(l),
         Enclosed(f, i) => l[off[i - 1]] = f[i - 1] /\ off[i - 1] \in 1 .. Len(l),
         ~ Enclosed(f, i) => l[off[i - 1] + 1] \in Range(t)
  PROVE  /\ FieldAt(x, l, to).start = off[i - 1] + 1 /\ FieldAt(x, l, to).end = off[i] + 1
         /\ i < Len(f) => Advance(x, l, off[i] + 1) = off[i + 1] + 1
<1> DEFINE e == Escaped(t)
           o == off[i - 1]
           z == off[i] + 1
<1>1. i \in 1 .. Len(f) /\ IsCode(f[i]) /\ t \in Seq(Range(t)) /\ Suits(f, i, t)
      /\ off[i] = o + Len(e) /\ Holds(l, o, e)
  BY DEF FieldOf
<1>2. Len(e) \in Nat
  BY <1>1, EscapedIsSeq
<1>3. Len(l) \in Nat /\ o \in Nat /\ off[i] \in Nat /\ o <= off[i] /\ off[i] <= Len(l)
      /\ off[Len(f)] = Len(l)
  BY <1>1, Offsets
<1>4. z = o + Len(e) + 1 /\ z \in Nat /\ z \in (o + 1) .. (Len(l) + 1) /\ z - 1 = o + Len(e)
      /\ o + 1 \in Nat
  BY <1>1, <1>2, <1>3
<1>0. i \in 1 .. Len(f)
  BY DEF FieldOf
<1>5. (i # Len(f) => i < Len(f)) /\ (i < Len(f) => i # Len(f))
  <2>1. Len(f) \in Nat /\ i \in 1 .. Len(f)
    BY <1>0
  <2> QED BY ONLY <2>1
<1>6. i # Len(f) => off[i + 1] = z /\ z <= Len(l) /\ l[z] = f[i + 1]
  <2> SUFFICES ASSUME i # Len(f) PROVE off[i + 1] = z /\ z <= Len(l) /\ l[z] = f[i + 1]
    OBVIOUS
  <2>1. i + 1 \in 1 .. Len(f) /\ (i + 1) - 1 = i
    BY <1>0, NextIndex
  <2>2. ~ IsCode(f[i + 1])
    BY <1>1 DEF TellsApart
  <2>3. off[i + 1] = off[i] + 1 /\ l[off[i + 1]] = f[i + 1]
    BY <2>1, <2>2 DEF Rendering
  <2>4. off[i + 1] <= Len(l)
    BY <2>1, Offsets
  <2> QED BY <2>3, <2>4
<1> HIDE DEF e, o, z
<1>7. CASE Enclosed(f, i) /\ f[i - 1] = Quote
  <2>1. i < Len(f) /\ f[i + 1] = Quote /\ to = o /\ l[to] = Quote
    <3>1. i < Len(f) /\ f[i + 1] = Quote
      BY <1>7, BytesDiffer DEF Enclosed
    <3> QED BY <1>7, <3>1 DEF FieldFrom, o
  <2>2. x.quoted
    BY <2>1 DEF ExtractorOf
  <2>3. l[z] = Quote /\ z <= Len(l) /\ off[i + 1] = z
    BY <1>5, <1>6, <2>1
  <2>4. Balanced(e)
    BY <1>1, EscapedFacts DEF e
  <2>5. ScanQuotedClose(l, o + 1) = z
    BY <1>1, <1>2, <1>3, <1>4, <2>3, <2>4, CloseIs
  <2>6. FieldAt(x, l, to) = [start |-> o + 1, end |-> z]
    BY <2>1, <2>2, <2>5 DEF FieldAt
  <2>7. Advance(x, l, z) = z + 1
    BY <2>2, <2>3 DEF Advance
  <2> QED BY <2>3, <2>6, <2>7 DEF o, z
<1>8. CASE Enclosed(f, i) /\ f[i - 1] # Quote
  <2>1. i < Len(f) /\ f[i] = "t" /\ f[i - 1] = "[" /\ f[i + 1] = "]" /\ to = o /\ l[to] = "["
    <3>1. i < Len(f) /\ f[i] = "t" /\ f[i - 1] = "[" /\ f[i + 1] = "]"
      BY <1>8 DEF Enclosed
    <3> QED BY <1>8, <3>1 DEF FieldFrom, o
  <2>2. x.brackets
    BY <2>1 DEF ExtractorOf
  <2>3. l[z] = "]" /\ z <= Len(l) /\ off[i + 1] = z
    BY <1>5, <1>6, <2>1
  <2>4. "]" \notin Range(t)
    BY <1>1, <1>8, <2>1 DEF Suits
  <2>5. \A p \in 1 .. Len(e) : e[p] # "]"
    BY <1>1, <2>4, EscapedLacks, BytesDiffer DEF e
  <2>6. \A q \in (o + 1) .. (z - 1) : l[q] # "]"
    <3>1. \A q \in (o + 1) .. (o + Len(e)) : l[q] # "]"
      BY <1>1, <1>2, <1>3, <2>5, NotBetween
    <3> QED BY <1>4, <3>1
  <2>7. Find(l, "]", o + 1) = z
    BY <1>3, <1>4, <2>3, <2>6, FindIs
  <2>8. l[to] # Quote
    BY <2>1, BytesDiffer
  <2>9. to <= Len(l)
    BY <1>3
  <2>10. FieldAt(x, l, to) = [start |-> o + 1, end |-> z]
    BY <2>1, <2>2, <2>7, <2>8, <2>9 DEF FieldAt
  <2>11. Advance(x, l, z) = z + 1
    BY <2>2, <2>3 DEF Advance
  <2> QED BY <2>3, <2>10, <2>11 DEF o, z
<1>9. CASE ~ Enclosed(f, i)
  <2> DEFINE d == x.delimiter
  <2>1. /\ t # <<>> /\ Range(t) \cap {Space, Quote, "[", "]"} = {}
        /\ i < Len(f) => f[i + 1] \notin Range(t)
    BY <1>1, <1>9 DEF Suits
  <2>2. d = IF i = Len(f) THEN Space ELSE f[i + 1]
    BY DEF ExtractorOf
  <2>3. to = o + 1 /\ l[to] \in Range(t)
    BY <1>9 DEF FieldFrom, o
  <2>4. l[to] # Quote /\ l[to] # "["
    BY <2>1, <2>3
  <2> HIDE DEF d
  <2>5. Space \notin Range(t) /\ d \notin Range(t) /\ Quote \notin Range(t)
    BY <1>5, <2>1, <2>2
  <2>6. \A p \in 1 .. Len(e) : e[p] \in Range(t)
    BY <1>1, <2>5, OpenText DEF e
  <2>7. /\ \A q \in (o + 1) .. (z - 1) : l[q] # Space
        /\ \A q \in (o + 1) .. (z - 1) : l[q] # d
    <3>1. (\A p \in 1 .. Len(e) : e[p] # Space) /\ (\A p \in 1 .. Len(e) : e[p] # d)
      BY <2>5, <2>6
    <3>2. /\ \A q \in (o + 1) .. (o + Len(e)) : l[q] # Space
          /\ \A q \in (o + 1) .. (o + Len(e)) : l[q] # d
      BY <1>1, <1>2, <1>3, <3>1, NotBetween
    <3> QED BY <1>4, <3>2
  <2>8. Find(l, d, o + 1) = z
    <3>1. z <= Len(l) => l[z] = d
      <4>1. CASE i = Len(f)
        BY <1>3, <4>1 DEF z
      <4>2. CASE i # Len(f)
        BY <1>6, <2>2, <4>2
      <4> QED BY <4>1, <4>2
    <3> QED BY <1>3, <1>4, <2>7, <3>1, FindIs
  <2>9. Find(l, Space, o + 1) \in Nat /\ z <= Find(l, Space, o + 1)
    BY <1>3, <1>4, <2>7, FindAfter
  <2>10. Min({Find(l, d, o + 1), Find(l, Space, o + 1)}) = z
    <3> DEFINE S == {Find(l, d, o + 1), Find(l, Space, o + 1)}
    <3>1. S \in SUBSET Nat /\ z \in S /\ \A y \in S : z <= y
      BY <1>4, <2>8, <2>9
    <3> HIDE DEF S
    <3>2. Min(S) = z
      BY <3>1, MinIs
    <3> QED BY <3>2 DEF S
  <2>11. FieldAt(x, l, to) = [start |-> o + 1, end |-> z]
    BY <2>3, <2>4, <2>10 DEF FieldAt, d
  <2>12. i < Len(f) => Advance(x, l, z) = off[i + 1] + 1
    <3> SUFFICES ASSUME i < Len(f) PROVE Advance(x, l, z) = off[i + 1] + 1
      OBVIOUS
    <3>1. i # Len(f)
      BY <1>5
    <3>2. off[i + 1] = z /\ z <= Len(l) /\ l[z] = d
      BY <1>5, <1>6, <2>2, <3>1
    <3> QED BY <3>2 DEF Advance, d
  <2> QED BY <2>11, <2>12 DEF o, z
<1> QED BY <1>7, <1>8, <1>9

(* The element behind what ends the k-th field, and what follows it.       *)
Behind(f, k) == IF k = 0 THEN 0 ELSE CodeAt(f)[k] + 1

(* Between two fields there is no other one, only what TellsApart allows.  *)
LEMMA Between ==
  ASSUME NEW f, Len(f) \in Nat, DOMAIN f = 1 .. Len(f), TellsApart(f),
         NEW k \in Nat, k + 1 \in 1 .. Len(CodeAt(f)),
         NEW i, i = CodeAt(f)[k + 1], NEW a, a = Behind(f, k)
  PROVE  /\ i \in 1 .. Len(f) /\ IsCode(f[i]) /\ a \in 0 .. (i - 1)
         /\ \A j \in (a + 1) .. (i - 1) : ~ IsCode(f[j])
         /\ a = 0 \/ ~ IsCode(f[a])
         /\ Enclosed(f, i) => a < i - 1
<1> DEFINE c == CodeAt(f)
           n == Len(c)
<1>1. /\ n \in Nat
      /\ \A m \in 1 .. n : c[m] \in 1 .. Len(f) /\ IsCode(f[c[m]])
      /\ \A j, m \in 1 .. n : j < m => c[j] < c[m]
  BY CodesInOrder
<1>2. \A j \in 1 .. Len(f) : IsCode(f[j]) => \E m \in 1 .. n : c[m] = j
  BY CodesComplete
<1>3. i = c[k + 1] /\ k + 1 \in 1 .. n /\ (k = 0 => a = 0) /\ (k # 0 => a = c[k] + 1)
  BY DEF Behind
<1> HIDE DEF c, n
<1>4. i \in 1 .. Len(f) /\ IsCode(f[i]) /\ i \in Nat
  BY <1>1, <1>3
<1>5. ASSUME k # 0
      PROVE  /\ k \in 1 .. n /\ c[k] \in 1 .. Len(f) /\ IsCode(f[c[k]]) /\ c[k] < i
             /\ a = c[k] + 1 /\ a < i /\ ~ IsCode(f[a])
  <2>1. k \in 1 .. n /\ k < k + 1
    BY <1>1, <1>3, <1>5
  <2>2. c[k] \in 1 .. Len(f) /\ IsCode(f[c[k]]) /\ c[k] < i
    BY <1>1, <1>3, <2>1
  <2>3. c[k] # Len(f)
    BY <1>4, <2>2
  <2>4. ~ IsCode(f[c[k] + 1])
    BY <2>2, <2>3 DEF TellsApart
  <2>5. c[k] + 1 # i
    BY <1>4, <2>4
  <2>6. a = c[k] + 1
    BY <1>3, <1>5
  <2>7. a < i
    BY <1>4, <2>2, <2>5, <2>6
  <2> QED BY <2>1, <2>2, <2>4, <2>6, <2>7
<1>6. a \in 0 .. (i - 1)
  BY <1>3, <1>4, <1>5
<1>7. ASSUME NEW j \in (a + 1) .. (i - 1), IsCode(f[j]) PROVE FALSE
  <2>1. j \in 1 .. Len(f) /\ j < i /\ a < j
    BY <1>4, <1>6
  <2>2. PICK m \in 1 .. n : c[m] = j
    BY <1>2, <1>7, <2>1
  <2>3. ~ (k + 1 <= m)
    <3> SUFFICES ASSUME k + 1 <= m PROVE FALSE
      OBVIOUS
    <3>1. m = k + 1 \/ k + 1 < m
      BY <1>1
    <3>2. i <= j
      BY <1>1, <1>3, <1>4, <2>1, <2>2, <3>1
    <3> QED BY <1>4, <2>1, <3>2
  <2>4. m <= k /\ k # 0
    BY <1>1, <2>3
  <2>5. m = k \/ m < k
    BY <1>1, <2>4
  <2>6. j <= c[k]
    BY <1>1, <1>5, <2>1, <2>2, <2>4, <2>5
  <2> QED BY <1>5, <2>1, <2>4, <2>6
<1>8. a = 0 \/ ~ IsCode(f[a])
  BY <1>3, <1>5
<1>9. ASSUME Enclosed(f, i) PROVE a < i - 1
  <2>1. 1 < i /\ (i > 2 => ~ IsCode(f[i - 2]))
    BY <1>9 DEF Enclosed
  <2>2. CASE k = 0
    BY <1>3, <1>4, <2>1, <2>2
  <2>3. CASE k # 0
    <3>1. c[k] \in Nat /\ 1 <= c[k] /\ a = c[k] + 1 /\ a < i /\ IsCode(f[c[k]])
      BY <1>5, <2>3
    <3>2. c[k] # i - 2
      <4> SUFFICES ASSUME c[k] = i - 2 PROVE FALSE
        OBVIOUS
      <4>1. i > 2
        BY <1>4, <3>1
      <4> QED BY <2>1, <3>1, <4>1
    <3> QED BY <1>4, <3>1, <3>2
  <2> QED BY <2>2, <2>3
<1> QED BY <1>4, <1>6, <1>7, <1>8, <1>9

(* What the first n fields leave.                                          *)
Recovers(f, ts, n, got) ==
  /\ got = [x \in Codes \ {"skip"} |-> got[x]]
  /\ \A j \in 1 .. n : f[CodeAt(f)[j]] # "skip" => got[f[CodeAt(f)[j]]] = Escaped(ts[j])
  /\ \A x \in Codes \ {"skip"} : (\A j \in 1 .. n : f[CodeAt(f)[j]] # x) => got[x] = <<>>

(* One more field, taken as it was logged.                                 *)
LEMMA RecoversMore ==
  ASSUME NEW f, Len(f) \in Nat, DOMAIN f = 1 .. Len(f), ValidFormat(f), NEW ts,
         NEW n \in Nat, n + 1 \in 1 .. Len(CodeAt(f)), NEW got, Recovers(f, ts, n, got),
         NEW y, y = f[CodeAt(f)[n + 1]], NEW e, e = Escaped(ts[n + 1]),
         NEW g, y = "skip" \/ e = <<>> => g = got,
         y # "skip" /\ e # <<>> => g = [got EXCEPT ![y] = e]
  PROVE  Recovers(f, ts, n + 1, g)
<1> DEFINE c == CodeAt(f)
<1>1. /\ \A m \in 1 .. Len(c) : c[m] \in 1 .. Len(f) /\ IsCode(f[c[m]])
      /\ \A j, m \in 1 .. Len(c) : j < m => c[j] < c[m]
      /\ Len(c) \in Nat
  BY CodesInOrder
<1>2. y = f[c[n + 1]] /\ n + 1 \in 1 .. Len(c)
  OBVIOUS
<1>3. /\ got = [x \in Codes \ {"skip"} |-> got[x]]
      /\ \A j \in 1 .. n : f[c[j]] # "skip" => got[f[c[j]]] = Escaped(ts[j])
      /\ \A x \in Codes \ {"skip"} : (\A j \in 1 .. n : f[c[j]] # x) => got[x] = <<>>
  BY DEF Recovers
<1> HIDE DEF c
<1>4. y \in Codes
  BY <1>1, <1>2 DEF IsCode
<1>5. ASSUME NEW j \in 1 .. n, f[c[j]] = y PROVE y = "skip"
  <2>1. j \in 1 .. Len(c) /\ j < n + 1
    BY <1>1, <1>2
  <2>2. c[j] < c[n + 1] /\ c[j] \in 1 .. Len(f) /\ c[n + 1] \in 1 .. Len(f) /\ IsCode(f[c[j]])
    BY <1>1, <1>2, <2>1
  <2>3. c[j] # c[n + 1]
    BY <2>2
  <2> QED BY <1>2, <1>5, <2>2, <2>3 DEF ValidFormat
<1>6. y # "skip" => got[y] = <<>>
  BY <1>3, <1>4, <1>5
<1>7. /\ g = [x \in Codes \ {"skip"} |-> g[x]]
      /\ \A x \in Codes \ {"skip"} : x # y => g[x] = got[x]
      /\ y # "skip" => g[y] = e
  <2>1. CASE y = "skip" \/ e = <<>>
    BY <1>3, <1>6, <2>1
  <2>2. CASE y # "skip" /\ e # <<>>
    <3>1. g = [got EXCEPT ![y] = e]
      BY <2>2
    <3>2. y \in Codes \ {"skip"}
      BY <1>4, <2>2
    <3> QED BY <1>3, <3>1, <3>2
  <2> QED BY <2>1, <2>2
<1>8. ASSUME NEW j \in 1 .. (n + 1), f[c[j]] # "skip" PROVE g[f[c[j]]] = Escaped(ts[j])
  <2>1. CASE j = n + 1
    BY <1>2, <1>7, <1>8, <2>1
  <2>2. CASE j # n + 1
    <3>1. j \in 1 .. n /\ j \in 1 .. Len(c)
      BY <1>1, <1>2, <2>2
    <3>2. f[c[j]] \in Codes \ {"skip"} /\ f[c[j]] # y
      BY <1>1, <1>5, <1>8, <3>1 DEF IsCode
    <3> QED BY <1>3, <1>7, <1>8, <3>1, <3>2
  <2> QED BY <2>1, <2>2
<1>9. ASSUME NEW x \in Codes \ {"skip"}, \A j \in 1 .. (n + 1) : f[c[j]] # x PROVE g[x] = <<>>
  <2>1. x # y /\ \A j \in 1 .. n : f[c[j]] # x
    BY <1>2, <1>9
  <2> QED BY <1>3, <1>7, <2>1
<1> QED BY <1>7, <1>8, <1>9 DEF Recovers, c

(* Texts that fit a format.                                                *)
Fitting(f, ts) ==
  \A k \in 1 .. Len(CodeAt(f)) : ts[k] \in Seq(Range(ts[k])) /\ Suits(f, CodeAt(f)[k], ts[k])

(* The text of each code is the one that was logged.                       *)
LEMMA FieldOfText ==
  ASSUME NEW f, Len(f) \in Nat, NEW ts, NEW l, NEW off, Rendering(f, ts, l, off), Fitting(f, ts),
         NEW k \in 1 .. Len(CodeAt(f))
  PROVE  FieldOf(f, ts, l, off, CodeAt(f)[k], ts[k])
<1>1. CodeAt(f)[k] \in 1 .. Len(f) /\ IsCode(f[CodeAt(f)[k]])
  BY CodesInOrder
<1>2. ts[k] \in Seq(Range(ts[k])) /\ Suits(f, CodeAt(f)[k], ts[k])
  BY DEF Fitting
<1>3. /\ off[CodeAt(f)[k]] = off[CodeAt(f)[k] - 1] + Len(Escaped(ts[k]))
      /\ Holds(l, off[CodeAt(f)[k] - 1], Escaped(ts[k]))
  BY DEF Rendering
<1> QED BY <1>1, <1>2, <1>3 DEF FieldOf

(* The walk is behind the fields it has recovered.                         *)
Walked(f, ts, off, n, acc) ==
  /\ n < Len(CodeAt(f)) => acc.pos = off[Behind(f, n)] + 1
  /\ Recovers(f, ts, n, acc.got)

(* A step of the walk takes the next field whole, and stands behind it.    *)
LEMMA WalkOn ==
  ASSUME NEW f, f \in Seq(Range(f)), ValidFormat(f), TellsApart(f),
         NEW ts, NEW l, NEW off, Rendering(f, ts, l, off), Fitting(f, ts),
         NEW n \in Nat, n + 1 \in 1 .. Len(CodeAt(f)), NEW acc, Walked(f, ts, off, n, acc)
  PROVE  Walked(f, ts, off, n + 1, ParseNext(acc, CompileFormat(f)[n + 1], l))
<1> DEFINE c == CodeAt(f)
           i == c[n + 1]
           t == ts[n + 1]
           x == CompileFormat(f)[n + 1]
           a == Behind(f, n)
           o == off[i - 1]
           e == Escaped(t)
           next == ParseNext(acc, x, l)
           to == FieldFrom(f, off, i)
<1>1. Len(f) \in Nat /\ DOMAIN f = 1 .. Len(f)
  OBVIOUS
<1>2. /\ Len(c) \in Nat /\ n + 1 \in 1 .. Len(c)
      /\ \A m \in 1 .. Len(c) : c[m] \in 1 .. Len(f)
      /\ \A j, m \in 1 .. Len(c) : j < m => c[j] < c[m]
  BY <1>1, CodesInOrder
<1>3. ExtractorOf(f, i, x) /\ x.type = f[i]
  BY <1>2, Extractors DEF ExtractorOf
<1>4. FieldOf(f, ts, l, off, i, t)
  BY <1>1, <1>2, FieldOfText
<1>5. /\ i \in 1 .. Len(f) /\ a \in 0 .. (i - 1)
      /\ \A j \in (a + 1) .. (i - 1) : ~ IsCode(f[j])
      /\ a = 0 \/ ~ IsCode(f[a])
      /\ Enclosed(f, i) => a < i - 1
  <2>1. Len(f) \in Nat /\ DOMAIN f = 1 .. Len(f)
    BY <1>1
  <2>2. n + 1 \in 1 .. Len(CodeAt(f))
    OBVIOUS
  <2>3. i = CodeAt(f)[n + 1] /\ a = Behind(f, n)
    OBVIOUS
  <2> HIDE DEF c, i, a, x, t, o, e, next, to
  <2> QED BY <2>1, <2>2, <2>3, Between
<1>7. n < Len(c) /\ acc.pos = off[a] + 1 /\ Recovers(f, ts, n, acc.got)
  <2>1. n < Len(c)
    BY <1>2
  <2> QED BY <2>1 DEF Walked
<1>8. next = LET at == FieldAt(x, l, FindNot(l, Space, acc.pos))
             IN  IF acc.pos > Len(l)
                 THEN acc
                 ELSE [pos |-> Advance(x, l, at.end),
                       got |-> IF x.type = "skip" \/ at.start >= at.end
                               THEN acc.got
                               ELSE [acc.got EXCEPT ![x.type] = SubSeq(l, at.start, at.end - 1)]]
  BY DEF ParseNext
<1>9. \A m \in 1 .. Len(c) : c[m] = i => m = n + 1
  <2> SUFFICES ASSUME NEW m \in 1 .. Len(c), c[m] = i, m # n + 1 PROVE FALSE
    OBVIOUS
  <2>1. m < n + 1 \/ n + 1 < m
    BY <1>2
  <2>2. c[m] < i \/ i < c[m]
    BY <1>2, <2>1
  <2> QED BY <1>2, <1>5, <2>2
<1>10. x = CompileFormat(f)[n + 1] /\ e = Escaped(ts[n + 1]) /\ f[i] = f[CodeAt(f)[n + 1]]
  OBVIOUS
<1>11. n + 1 < Len(c) => Behind(f, n + 1) = i + 1 /\ i < Len(f)
  <2> SUFFICES ASSUME n + 1 < Len(c) PROVE Behind(f, n + 1) = i + 1 /\ i < Len(f)
    OBVIOUS
  <2>1. n + 2 \in 1 .. Len(c) /\ n + 1 < n + 2 /\ n + 1 # 0
    BY <1>2
  <2>2. i < c[n + 2] /\ c[n + 2] \in 1 .. Len(f)
    BY <1>2, <2>1
  <2> QED BY <1>2, <1>5, <2>1, <2>2 DEF Behind
<1>12. t \in Seq(Range(t)) /\ off[i] = o + Len(e) /\ Holds(l, o, e)
  BY <1>4 DEF FieldOf
<1>13. Len(e) \in Nat /\ e = [p \in 1 .. Len(e) |-> e[p]]
  BY <1>12, EscapedIsSeq
<1>14. Len(l) \in Nat /\ o \in Nat /\ off[i] \in Nat
  BY <1>1, <1>5, Offsets
<1>15. e \in Seq(Range(t) \cup {Backslash})
  BY <1>12, EscapedFacts
<1> HIDE DEF c, i, t, x, a, o, e, next, to
<1>16. /\ FindNot(l, Space, off[a] + 1) = to
       /\ off[a] + 1 <= Len(l) /\ off[a] \in Nat /\ to \in 1 .. Len(l)
       /\ Enclosed(f, i) => l[off[i - 1]] = f[i - 1] /\ off[i - 1] \in 1 .. Len(l)
       /\ ~ Enclosed(f, i) => l[off[i - 1] + 1] \in Range(t)
  <2>1. Len(f) \in Nat
    BY <1>1
  <2>2. DOMAIN f = 1 .. Len(f)
    BY <1>1
  <2>3. a \in 0 .. (i - 1)
    BY <1>5
  <2>4. \A j \in (a + 1) .. (i - 1) : ~ IsCode(f[j])
    BY <1>5
  <2>5. a = 0 \/ ~ IsCode(f[a])
    BY <1>5
  <2>6. Enclosed(f, i) => a < i - 1
    BY <1>5
  <2> QED BY <1>4, <2>1, <2>2, <2>3, <2>4, <2>5, <2>6, ReachField DEF to
<1> DEFINE at == FieldAt(x, l, to)
<1>17. /\ at.start = o + 1 /\ at.end = off[i] + 1
       /\ i < Len(f) => Advance(x, l, off[i] + 1) = off[i + 1] + 1
  BY <1>1, <1>3, <1>4, <1>16, ReadField DEF to, o
<1>18. SubSeq(l, o + 1, off[i]) = e
  BY <1>12, <1>13, <1>14, TextIsThere
<1>19. ~ (acc.pos > Len(l))
  BY <1>7, <1>14, <1>16
<1>20. next = [pos |-> Advance(x, l, at.end),
               got |-> IF x.type = "skip" \/ at.start >= at.end
                       THEN acc.got
                       ELSE [acc.got EXCEPT ![x.type] = SubSeq(l, at.start, at.end - 1)]]
  BY <1>7, <1>8, <1>16, <1>19
<1> HIDE DEF at
<1>21. (at.start >= at.end <=> e = <<>>) /\ at.end - 1 = off[i]
  <2>1. e = <<>> <=> Len(e) = 0
    BY <1>15
  <2> QED BY <1>12, <1>13, <1>14, <1>17, <2>1
<1> DEFINE g == next.got
<1>22. /\ g = IF f[i] = "skip" \/ e = <<>> THEN acc.got ELSE [acc.got EXCEPT ![f[i]] = e]
       /\ next.pos = Advance(x, l, off[i] + 1)
  <2>1. SubSeq(l, at.start, at.end - 1) = e
    BY <1>17, <1>18, <1>21
  <2> QED BY <1>3, <1>17, <1>20, <1>21, <2>1
<1> HIDE DEF g
<1>23. Recovers(f, ts, n + 1, g)
  <2>1. n + 1 \in 1 .. Len(CodeAt(f))
    OBVIOUS
  <2>2. (f[i] = "skip" \/ e = <<>> => g = acc.got)
        /\ (f[i] # "skip" /\ e # <<>> => g = [acc.got EXCEPT ![f[i]] = e])
    BY <1>22
  <2>3. Len(f) \in Nat
    BY <1>1
  <2>4. DOMAIN f = 1 .. Len(f)
    BY <1>1
  <2>5. Recovers(f, ts, n, acc.got)
    BY <1>7
  <2>6. f[i] = f[CodeAt(f)[n + 1]]
    BY <1>10
  <2>7. e = Escaped(ts[n + 1])
    BY <1>10
  <2>8. f[i] = "skip" \/ e = <<>> => g = acc.got
    BY <2>2
  <2>9. f[i] # "skip" /\ e # <<>> => g = [acc.got EXCEPT ![f[i]] = e]
    BY <2>2
  <2> QED BY <2>1, <2>3, <2>4, <2>5, <2>6, <2>7, <2>8, <2>9, RecoversMore
<1>24. n + 1 < Len(CodeAt(f)) => next.pos = off[Behind(f, n + 1)] + 1
  BY <1>11, <1>17, <1>22 DEF c
<1>25. Walked(f, ts, off, n + 1, next)
  BY <1>23, <1>24 DEF Walked, g
<1> QED BY <1>25 DEF next, x

(* So the walk recovers all of them.                                       *)
LEMMA StaticRecovers ==
  ASSUME NEW f, f \in Seq(Range(f)), ValidFormat(f), TellsApart(f),
         NEW ts, NEW l, NEW off, Rendering(f, ts, l, off), Fitting(f, ts)
  PROVE  Recovers(f, ts, Len(CodeAt(f)), ParseLine(f, l))
<1> DEFINE es == CompileFormat(f)
           v == CHOOSE w : Full(es, l, w)
           m == Len(es)
<1>1. Len(f) \in Nat /\ DOMAIN f = 1 .. Len(f)
  OBVIOUS
<1>2. m = Len(CodeAt(f)) /\ m \in Nat
  BY <1>1, Compiled
<1>3. ParseLine(f, l) = v[m].got
  BY DEF ParseLine, Full
<1>4. Full(es, l, v)
  BY <1>2, FullExists
<1> HIDE DEF v
<1>5. \A k \in 0 .. m : v[k] = IF k = 0 THEN [pos |-> 1, got |-> NoFields]
                               ELSE ParseNext(v[k - 1], es[k], l)
  BY <1>4 DEF Full
<1> HIDE DEF m
<1> DEFINE T == {n \in Nat : n <= m => Walked(f, ts, off, n, v[n])}
<1>6. 0 \in T
  <2>1. v[0] = [pos |-> 1, got |-> NoFields]
    BY <1>2, <1>5
  <2>2. off[0] = 0 /\ Behind(f, 0) = 0
    BY DEF Rendering, Behind
  <2>3. v[0].pos = off[Behind(f, 0)] + 1
    BY <2>1, <2>2
  <2>4. Recovers(f, ts, 0, v[0].got)
    <3>1. v[0].got = NoFields
      BY <2>1
    <3>2. Recovers(f, ts, 0, NoFields)
      BY DEF Recovers, NoFields
    <3> QED BY <3>1, <3>2
  <2>5. Walked(f, ts, off, 0, v[0])
    BY <2>3, <2>4 DEF Walked
  <2> QED BY <2>5
<1>7. ASSUME NEW n \in Nat, n \in T PROVE n + 1 \in T
  <2> SUFFICES ASSUME n + 1 <= m PROVE Walked(f, ts, off, n + 1, v[n + 1])
    OBVIOUS
  <2>1. Walked(f, ts, off, n, v[n])
    BY <1>2, <1>7
  <2>2. n + 1 \in 1 .. m /\ n + 1 \in 0 .. m /\ n + 1 # 0 /\ (n + 1) - 1 = n
    BY <1>2
  <2>3. v[n + 1] = ParseNext(v[n], es[n + 1], l)
    BY <1>5, <2>2
  <2>4. n + 1 \in 1 .. Len(CodeAt(f))
    BY <1>2, <2>2
  <2>5. Walked(f, ts, off, n + 1, ParseNext(v[n], CompileFormat(f)[n + 1], l))
    BY <2>1, <2>4, WalkOn
  <2> QED BY <2>3, <2>5
<1> HIDE DEF T
<1>8. m \in T
  BY <1>2, <1>6, <1>7, Induction
<1>9. Walked(f, ts, off, m, v[m])
  BY <1>2, <1>8 DEF T
<1> QED BY <1>2, <1>3, <1>9 DEF Walked

(* No b behind a and up to z.                                              *)
Lacks(l, a, z, b) == \A q \in (a + 1) .. z : l[q] # b

(* Two stretches that lack a byte.                                         *)
LEMMA LacksMore ==
  ASSUME NEW l, NEW b, NEW a \in Nat, NEW m \in Nat, NEW z \in Nat, Lacks(l, a, m, b), Lacks(l, m, z, b)
  PROVE  Lacks(l, a, z, b)
<1> SUFFICES ASSUME NEW q \in (a + 1) .. z PROVE l[q] # b
  BY DEF Lacks
<1>1. CASE q \in (a + 1) .. m
  BY <1>1 DEF Lacks
<1>2. CASE ~ (q \in (a + 1) .. m)
  <2>1. q \in (m + 1) .. z
    BY <1>2
  <2> QED BY <2>1 DEF Lacks
<1> QED BY <1>1, <1>2

(* A literal byte of the format is itself in the line.                     *)
LEMMA LiteralIs ==
  ASSUME NEW f, Len(f) \in Nat, NEW ts, NEW l, NEW off, Rendering(f, ts, l, off),
         NEW i \in 1 .. Len(f), ~ IsCode(f[i])
  PROVE  /\ off[i - 1] \in Nat /\ off[i] \in Nat /\ off[i] = off[i - 1] + 1 /\ off[i] <= Len(l)
         /\ l[off[i]] = f[i]
         /\ \A b : f[i] # b => Lacks(l, off[i - 1], off[i], b)
<1>1. off[i] = off[i - 1] + 1 /\ l[off[i]] = f[i]
  BY DEF Rendering
<1>2. off[i - 1] \in Nat /\ off[i] \in Nat /\ off[i] <= Len(l)
  BY Offsets
<1>3. \A q \in (off[i - 1] + 1) .. off[i] : q = off[i]
  BY <1>1, <1>2
<1>4. \A b : f[i] # b => Lacks(l, off[i - 1], off[i], b)
  BY <1>1, <1>3 DEF Lacks
<1> QED BY <1>1, <1>2, <1>4

(* A text in the open has no blank, quote or bracket in it.                *)
LEMMA OpenIs ==
  ASSUME NEW f, Len(f) \in Nat, NEW ts, NEW l, NEW off, Rendering(f, ts, l, off),
         NEW i, NEW t, FieldOf(f, ts, l, off, i, t), ~ Enclosed(f, i)
  PROVE  /\ off[i - 1] \in Nat /\ off[i] \in Nat /\ off[i - 1] < off[i] /\ off[i] <= Len(l)
         /\ \A b \in {Space, Quote, "[", "]"} : Lacks(l, off[i - 1], off[i], b)
         /\ SubSeq(l, off[i - 1] + 1, off[i]) = Escaped(t) /\ Escaped(t) # <<>>
<1> DEFINE e == Escaped(t)
           o == off[i - 1]
<1>1. i \in 1 .. Len(f) /\ t \in Seq(Range(t)) /\ Suits(f, i, t)
      /\ off[i] = o + Len(e) /\ Holds(l, o, e)
  BY DEF FieldOf
<1>2. o \in Nat /\ off[i] \in Nat /\ off[i] <= Len(l)
  BY <1>1, Offsets
<1>3. t # <<>> /\ Range(t) \cap {Space, Quote, "[", "]"} = {}
  BY <1>1 DEF Suits
<1>4. Len(e) \in Nat /\ 1 <= Len(e) /\ \A p \in 1 .. Len(e) : e[p] \in Range(t)
  BY <1>1, <1>3, OpenText
<1>5. e = [p \in 1 .. Len(e) |-> e[p]]
  BY <1>1, EscapedIsSeq
<1>6. e # <<>>
  BY <1>4
<1> HIDE DEF e, o
<1>7. ASSUME NEW b \in {Space, Quote, "[", "]"} PROVE Lacks(l, o, off[i], b)
  <2>1. \A p \in 1 .. Len(e) : e[p] # b
    BY <1>3, <1>4, <1>7
  <2>2. \A q \in (o + 1) .. (o + Len(e)) : l[q] # b
    BY <1>1, <1>2, <1>4, <2>1, NotBetween
  <2> QED BY <1>1, <2>2 DEF Lacks
<1>8. SubSeq(l, o + 1, o + Len(e)) = e
  BY <1>1, <1>2, <1>4, <1>5, TextIsThere
<1>9. o < off[i]
  BY <1>1, <1>2, <1>4
<1> QED BY <1>1, <1>2, <1>6, <1>7, <1>8, <1>9 DEF e, o

(* An enclosed one has no byte that its text has not, but backslashes.     *)
LEMMA EnclosedIs ==
  ASSUME NEW f, Len(f) \in Nat, NEW ts, NEW l, NEW off, Rendering(f, ts, l, off),
         NEW i, NEW t, FieldOf(f, ts, l, off, i, t)
  PROVE  /\ off[i - 1] \in Nat /\ off[i] \in Nat /\ off[i - 1] <= off[i] /\ off[i] <= Len(l)
         /\ SubSeq(l, off[i - 1] + 1, off[i]) = Escaped(t)
         /\ \A b : b \notin Range(t) /\ b # Backslash => Lacks(l, off[i - 1], off[i], b)
<1> DEFINE e == Escaped(t)
           o == off[i - 1]
<1>1. i \in 1 .. Len(f) /\ t \in Seq(Range(t)) /\ off[i] = o + Len(e) /\ Holds(l, o, e)
  BY DEF FieldOf
<1>2. o \in Nat /\ off[i] \in Nat /\ o <= off[i] /\ off[i] <= Len(l)
  BY <1>1, Offsets
<1>3. Len(e) \in Nat /\ e = [p \in 1 .. Len(e) |-> e[p]]
  BY <1>1, EscapedIsSeq
<1>4. \A b : b \notin Range(t) /\ b # Backslash => \A p \in 1 .. Len(e) : e[p] # b
  BY <1>1, EscapedLacks
<1> HIDE DEF e, o
<1>5. SubSeq(l, o + 1, o + Len(e)) = e
  BY <1>1, <1>2, <1>3, TextIsThere
<1>6. ASSUME NEW b, b \notin Range(t), b # Backslash PROVE Lacks(l, o, off[i], b)
  <2>1. \A p \in 1 .. Len(e) : e[p] # b
    BY <1>4, <1>6
  <2>2. \A q \in (o + 1) .. (o + Len(e)) : l[q] # b
    BY <1>1, <1>2, <1>3, <2>1, NotBetween
  <2> QED BY <1>1, <2>2 DEF Lacks
<1> QED BY <1>1, <1>2, <1>5, <1>6 DEF e, o

(* The live parser finds the quotes around a field.                        *)
LEMMA QuotedIs ==
  ASSUME NEW f, Len(f) \in Nat, NEW ts, NEW l, NEW off, Rendering(f, ts, l, off),
         NEW i, NEW t, FieldOf(f, ts, l, off, i, t),
         1 < i, i < Len(f), f[i - 1] = Quote, f[i + 1] = Quote,
         NEW a \in Nat, a < off[i - 1], Lacks(l, a, off[i - 1] - 1, Quote)
  PROVE  /\ NextQuoted(l, a + 1) = [start |-> off[i - 1] + 1, end |-> off[i + 1]]
         /\ off[i + 1] <= Len(l) /\ off[i + 1] - 1 = off[i]
<1> DEFINE e == Escaped(t)
           o == off[i - 1]
           z == off[i + 1]
<1>0. ~ IsCode(Quote)
  BY DEF IsCode, Codes, Quote
<1>1. i \in 1 .. Len(f) /\ t \in Seq(Range(t)) /\ off[i] = o + Len(e) /\ Holds(l, o, e)
  BY DEF FieldOf
<1>2. i - 1 \in 1 .. Len(f) /\ i + 1 \in 1 .. Len(f) /\ (i + 1) - 1 = i
  BY <1>1
<1>3. o \in Nat /\ o <= Len(l) /\ l[o] = Quote
  BY <1>0, <1>2, LiteralIs
<1>4. z \in Nat /\ z <= Len(l) /\ l[z] = Quote /\ z = off[i] + 1 /\ off[i] \in Nat
  <2>1. z \in Nat /\ z <= Len(l) /\ l[z] = Quote /\ z = off[(i + 1) - 1] + 1 /\ off[(i + 1) - 1] \in Nat
    BY <1>0, <1>2, LiteralIs
  <2> QED BY <1>2, <2>1
<1>5. Len(l) \in Nat
  BY Offsets
<1>6. Len(e) \in Nat /\ Balanced(e)
  BY <1>1, EscapedIsSeq, EscapedFacts
<1> HIDE DEF e, z
<1>7. z = o + Len(e) + 1
  BY <1>1, <1>3, <1>4, <1>6
<1>8. ScanQuotedClose(l, o + 1) = z
  BY <1>1, <1>3, <1>4, <1>5, <1>6, <1>7, CloseIs
<1>9. Find(l, Quote, a + 1) = o
  <2>1. a + 1 \in Nat /\ o \in (a + 1) .. (Len(l) + 1)
    BY <1>3, <1>5
  <2>2. \A q \in (a + 1) .. (o - 1) : l[q] # Quote
    BY DEF Lacks
  <2> QED BY <1>3, <1>5, <2>1, <2>2, FindIs
<1>10. NextQuoted(l, a + 1) = [start |-> o + 1, end |-> z]
  BY <1>8, <1>9 DEF NextQuoted, CloseQuote
<1>11. z - 1 = off[i]
  BY <1>4
<1> QED BY <1>4, <1>10, <1>11 DEF z

(* The combined layout, element by element.                                *)
LEMMA CombinedIs ==
  /\ Len(Combined) = 25 /\ DOMAIN Combined = 1 .. 25
  /\ Combined[1] = "h" /\ Combined[2] = Space /\ Combined[3] = "skip" /\ Combined[4] = Space
  /\ Combined[5] = "skip" /\ Combined[6] = Space /\ Combined[7] = "[" /\ Combined[8] = "t"
  /\ Combined[9] = "]" /\ Combined[10] = Space /\ Combined[11] = Quote /\ Combined[12] = "r"
  /\ Combined[13] = Quote /\ Combined[14] = Space /\ Combined[15] = "s" /\ Combined[16] = Space
  /\ Combined[17] = "b" /\ Combined[18] = Space /\ Combined[19] = Quote /\ Combined[20] = "skip"
  /\ Combined[21] = Quote /\ Combined[22] = Space /\ Combined[23] = Quote /\ Combined[24] = "u"
  /\ Combined[25] = Quote
BY DEF Combined

LEMMA CodesAre ==
  /\ IsCode("h") /\ IsCode("t") /\ IsCode("r") /\ IsCode("s") /\ IsCode("b") /\ IsCode("u")
  /\ IsCode("skip") /\ ~ IsCode(Space) /\ ~ IsCode(Quote) /\ ~ IsCode("[") /\ ~ IsCode("]")
BY DEF IsCode, Codes, Space, Quote

(* The text of each element that is a code.                                *)
LEMMA TextOfElement ==
  ASSUME NEW f, Len(f) \in Nat, NEW ts, NEW l, NEW off, Rendering(f, ts, l, off), Fitting(f, ts),
         NEW i \in 1 .. Len(f), IsCode(f[i])
  PROVE  \E k \in 1 .. Len(CodeAt(f)) :
           /\ CodeAt(f)[k] = i /\ FieldOf(f, ts, l, off, i, ts[k])
           /\ \A j \in 1 .. Len(CodeAt(f)) : CodeAt(f)[j] = i => j = k
<1> DEFINE c == CodeAt(f)
           n == Len(c)
<1>1. PICK k \in 1 .. n : c[k] = i
  BY CodesComplete
<1>2. FieldOf(f, ts, l, off, i, ts[k])
  BY <1>1, FieldOfText
<1>3. n \in Nat /\ \A j, m \in 1 .. n : j < m => c[j] < c[m]
  BY CodesInOrder
<1> HIDE DEF c, n
<1>4. ASSUME NEW j \in 1 .. n, c[j] = i PROVE j = k
  <2> SUFFICES ASSUME j # k PROVE FALSE
    OBVIOUS
  <2>1. j < k \/ k < j
    BY <1>3
  <2>2. i < i
    BY <1>1, <1>3, <1>4, <2>1
  <2> QED BY <2>2
<1> QED BY <1>1, <1>2, <1>4 DEF c, n

(* Its fields in the open.                                                 *)
LEMMA CombinedOpen ==
  \A i \in {1, 3, 5, 15, 17} : ~ Enclosed(Combined, i)
<1>1. ~ Enclosed(Combined, 1) /\ ~ Enclosed(Combined, 3) /\ ~ Enclosed(Combined, 5)
      /\ ~ Enclosed(Combined, 15) /\ ~ Enclosed(Combined, 17)
  BY CombinedIs, BytesDiffer DEF Enclosed
<1> QED BY <1>1

(* The text of element i of the combined layout, as it is in the line.     *)
PlaceOf(i) == CHOOSE k \in 1 .. Len(CodeAt(Combined)) : CodeAt(Combined)[k] = i
TextAt(ts, i) == Escaped(ts[PlaceOf(i)])

(* Each of its fields is its text.                                         *)
LEMMA PartIs ==
  ASSUME NEW ts, NEW l, NEW off, Rendering(Combined, ts, l, off), Fitting(Combined, ts),
         NEW i \in {1, 3, 5, 8, 12, 15, 17, 20, 24}
  PROVE  /\ FieldOf(Combined, ts, l, off, i, ts[PlaceOf(i)])
         /\ \A j \in 1 .. Len(CodeAt(Combined)) :
              CodeAt(Combined)[j] = i => Escaped(ts[j]) = TextAt(ts, i)
<1>1. Len(Combined) \in Nat /\ i \in 1 .. Len(Combined) /\ IsCode(Combined[i])
  BY CombinedIs, CodesAre
<1>2. PICK k \in 1 .. Len(CodeAt(Combined)) :
         /\ CodeAt(Combined)[k] = i /\ FieldOf(Combined, ts, l, off, i, ts[k])
         /\ \A j \in 1 .. Len(CodeAt(Combined)) : CodeAt(Combined)[j] = i => j = k
  BY <1>1, TextOfElement
<1>3. PlaceOf(i) = k
  BY <1>2 DEF PlaceOf
<1> QED BY <1>2, <1>3 DEF TextAt

(* The parts of such a line: texts in the open, enclosed ones, and what is *)
(* between them.                                                           *)
OpenPart(l, a, z, e) ==
  /\ a \in Nat /\ z \in Nat /\ a < z /\ z <= Len(l)
  /\ \A b \in {Space, Quote, "[", "]"} : Lacks(l, a, z, b)
  /\ SubSeq(l, a + 1, z) = e /\ e # <<>>
ShutPart(l, a, z, e) ==
  /\ a \in Nat /\ z \in Nat /\ a <= z /\ z <= Len(l)
  /\ SubSeq(l, a + 1, z) = e
LitPart(l, a, z, x) ==
  /\ a \in Nat /\ z \in Nat /\ z = a + 1 /\ z <= Len(l) /\ l[z] = x
  /\ \A b : x # b => Lacks(l, a, z, b)

(* The fields in the open are such parts, and so on.                       *)
LEMMA OpenPartIs ==
  ASSUME NEW ts, NEW l, NEW off, Rendering(Combined, ts, l, off), Fitting(Combined, ts),
         NEW i \in {1, 3, 5, 15, 17}
  PROVE  OpenPart(l, off[i - 1], off[i], TextAt(ts, i))
<1>1. FieldOf(Combined, ts, l, off, i, ts[PlaceOf(i)])
  BY PartIs
<1>2. ~ Enclosed(Combined, i) /\ Len(Combined) \in Nat
  BY CombinedOpen, CombinedIs
<1>3. /\ off[i - 1] \in Nat /\ off[i] \in Nat /\ off[i - 1] < off[i] /\ off[i] <= Len(l)
      /\ \A b \in {Space, Quote, "[", "]"} : Lacks(l, off[i - 1], off[i], b)
      /\ SubSeq(l, off[i - 1] + 1, off[i]) = Escaped(ts[PlaceOf(i)]) /\ Escaped(ts[PlaceOf(i)]) # <<>>
  BY <1>1, <1>2, OpenIs
<1> QED BY <1>3 DEF OpenPart, TextAt

LEMMA ShutPartIs ==
  ASSUME NEW ts, NEW l, NEW off, Rendering(Combined, ts, l, off), Fitting(Combined, ts),
         NEW i \in {8, 12, 20, 24}
  PROVE  /\ ShutPart(l, off[i - 1], off[i], TextAt(ts, i))
         /\ i = 8 => Lacks(l, off[i - 1], off[i], "]")
<1> DEFINE t == ts[PlaceOf(i)]
<1>1. FieldOf(Combined, ts, l, off, i, t)
  BY PartIs
<1>2. Len(Combined) \in Nat
  BY CombinedIs
<1> HIDE DEF t
<1>3. /\ off[i - 1] \in Nat /\ off[i] \in Nat /\ off[i - 1] <= off[i] /\ off[i] <= Len(l)
      /\ SubSeq(l, off[i - 1] + 1, off[i]) = Escaped(t)
      /\ \A b : b \notin Range(t) /\ b # Backslash => Lacks(l, off[i - 1], off[i], b)
  BY <1>1, <1>2, EnclosedIs
<1>4. ASSUME i = 8 PROVE "]" \notin Range(t) /\ "]" # Backslash
  <2>1. Enclosed(Combined, 8) /\ Combined[8 - 1] = "["
    BY CombinedIs, CodesAre DEF Enclosed
  <2>2. Suits(Combined, 8, t)
    BY <1>1, <1>4 DEF FieldOf
  <2> QED BY <2>1, <2>2, BytesDiffer DEF Suits
<1>5. i = 8 => Lacks(l, off[i - 1], off[i], "]")
  BY <1>3, <1>4
<1>6. TextAt(ts, i) = Escaped(t)
  BY DEF TextAt, t
<1> QED BY <1>3, <1>5, <1>6 DEF ShutPart

LEMMA LitPartIs ==
  ASSUME NEW ts, NEW l, NEW off, Rendering(Combined, ts, l, off),
         NEW i \in 1 .. 25, ~ IsCode(Combined[i])
  PROVE  LitPart(l, off[i - 1], off[i], Combined[i])
<1>1. Len(Combined) \in Nat /\ i \in 1 .. Len(Combined)
  BY CombinedIs
<1>2. /\ off[i - 1] \in Nat /\ off[i] \in Nat /\ off[i] = off[i - 1] + 1 /\ off[i] <= Len(l)
      /\ l[off[i]] = Combined[i]
      /\ \A b : Combined[i] # b => Lacks(l, off[i - 1], off[i], b)
  BY <1>1, LiteralIs
<1> QED BY <1>2 DEF LitPart

(* What a quoted element and the place before it satisfy.                  *)
QuotedAt(f, ts, l, off, i, t, a) ==
  /\ Len(f) \in Nat /\ Rendering(f, ts, l, off) /\ FieldOf(f, ts, l, off, i, t)
  /\ 1 < i /\ i < Len(f) /\ f[i - 1] = Quote /\ f[i + 1] = Quote
  /\ a \in Nat /\ a < off[i - 1] /\ Lacks(l, a, off[i - 1] - 1, Quote)

(* The quoted field found there, in terms of the format's elements,        *)
LEMMA QuotedAtIs ==
  ASSUME NEW f, NEW ts, NEW l, NEW off, NEW i, NEW t, NEW a, QuotedAt(f, ts, l, off, i, t, a)
  PROVE  NextQuoted(l, a + 1) = [start |-> off[i - 1] + 1, end |-> off[i + 1]]
<1>1. Len(f) \in Nat /\ Rendering(f, ts, l, off) /\ FieldOf(f, ts, l, off, i, t)
  BY DEF QuotedAt
<1>2. 1 < i /\ i < Len(f) /\ f[i - 1] = Quote /\ f[i + 1] = Quote
  BY DEF QuotedAt
<1>3. a \in Nat /\ a < off[i - 1] /\ Lacks(l, a, off[i - 1] - 1, Quote)
  BY DEF QuotedAt
<1> QED BY ONLY <1>1, <1>2, <1>3, QuotedIs

(* and in terms of the line's parts.                                       *)
LEMMA QuotedPartIs ==
  ASSUME NEW ts, NEW l, NEW off, Rendering(Combined, ts, l, off), Fitting(Combined, ts),
         NEW i \in {12, 20, 24}, NEW c, NEW o, NEW z, o = off[i - 1], z = off[i + 1],
         LitPart(l, c, o, Quote), NEW a \in Nat, a <= c, Lacks(l, a, c, Quote)
  PROVE  NextQuoted(l, a + 1) = [start |-> o + 1, end |-> z]
<1>0. a \in Nat /\ a < off[i - 1] /\ Lacks(l, a, off[i - 1] - 1, Quote)
  <2>1. c \in Nat /\ o = c + 1 /\ o \in Nat
    BY DEF LitPart
  <2>2. a < o /\ o - 1 = c
    BY <2>1
  <2> QED BY <2>2
<1>1. FieldOf(Combined, ts, l, off, i, ts[PlaceOf(i)])
  BY PartIs
<1>2. 1 < i /\ i < Len(Combined) /\ Combined[i - 1] = Quote /\ Combined[i + 1] = Quote
      /\ Len(Combined) \in Nat
  <2>1. Combined[12 - 1] = Quote /\ Combined[12 + 1] = Quote /\ Combined[20 - 1] = Quote
        /\ Combined[20 + 1] = Quote /\ Combined[24 - 1] = Quote /\ Combined[24 + 1] = Quote
        /\ Len(Combined) = 25
    BY CombinedIs
  <2> QED BY <2>1
<1> DEFINE f == Combined
           t == ts[PlaceOf(i)]
<1>3. Rendering(f, ts, l, off) /\ FieldOf(f, ts, l, off, i, t) /\ Len(f) \in Nat
      /\ 1 < i /\ i < Len(f) /\ f[i - 1] = Quote /\ f[i + 1] = Quote
  BY <1>1, <1>2
<1> HIDE DEF f, t
<1>4. NextQuoted(l, a + 1) = [start |-> off[i - 1] + 1, end |-> off[i + 1]]
  <2>1. QuotedAt(f, ts, l, off, i, t, a)
    BY <1>0, <1>3 DEF QuotedAt
  <2> QED BY ONLY <2>1, QuotedAtIs
<1> QED BY <1>4

(* Where they are.                                                         *)
LEMMA LineParts ==
  ASSUME NEW ts, NEW l, NEW off, Rendering(Combined, ts, l, off), Fitting(Combined, ts)
  PROVE  /\ Len(l) \in Nat /\ off[0] = 0
         /\ OpenPart(l, off[0], off[1], TextAt(ts, 1)) /\ LitPart(l, off[1], off[2], Space)
         /\ OpenPart(l, off[2], off[3], TextAt(ts, 3)) /\ LitPart(l, off[3], off[4], Space)
         /\ OpenPart(l, off[4], off[5], TextAt(ts, 5)) /\ LitPart(l, off[5], off[6], Space)
         /\ LitPart(l, off[6], off[7], "[") /\ ShutPart(l, off[7], off[8], TextAt(ts, 8))
         /\ Lacks(l, off[7], off[8], "]")
         /\ LitPart(l, off[8], off[9], "]") /\ LitPart(l, off[9], off[10], Space)
         /\ LitPart(l, off[10], off[11], Quote) /\ ShutPart(l, off[11], off[12], TextAt(ts, 12))
         /\ LitPart(l, off[12], off[13], Quote) /\ LitPart(l, off[13], off[14], Space)
         /\ OpenPart(l, off[14], off[15], TextAt(ts, 15)) /\ LitPart(l, off[15], off[16], Space)
         /\ OpenPart(l, off[16], off[17], TextAt(ts, 17)) /\ LitPart(l, off[17], off[18], Space)
         /\ LitPart(l, off[18], off[19], Quote) /\ ShutPart(l, off[19], off[20], TextAt(ts, 20))
         /\ LitPart(l, off[20], off[21], Quote) /\ LitPart(l, off[21], off[22], Space)
         /\ LitPart(l, off[22], off[23], Quote) /\ ShutPart(l, off[23], off[24], TextAt(ts, 24))
         /\ LitPart(l, off[24], off[25], Quote)
<1>1. Len(l) \in Nat /\ off[0] = 0
  <2>1. Len(Combined) \in Nat
    BY CombinedIs
  <2> QED BY <2>1, Offsets
<1>2. \A i \in {1, 3, 5, 15, 17} : OpenPart(l, off[i - 1], off[i], TextAt(ts, i))
  BY OpenPartIs
<1>3. \A i \in {8, 12, 20, 24} : ShutPart(l, off[i - 1], off[i], TextAt(ts, i))
  BY ShutPartIs
<1>4. Lacks(l, off[8 - 1], off[8], "]")
  BY ShutPartIs
<1>5. \A i \in 1 .. 25 : ~ IsCode(Combined[i]) => LitPart(l, off[i - 1], off[i], Combined[i])
  BY LitPartIs
<1>6. /\ 1 - 1 = 0 /\ 2 - 1 = 1 /\ 3 - 1 = 2 /\ 4 - 1 = 3 /\ 5 - 1 = 4 /\ 6 - 1 = 5 /\ 7 - 1 = 6
      /\ 8 - 1 = 7 /\ 9 - 1 = 8 /\ 10 - 1 = 9 /\ 11 - 1 = 10 /\ 12 - 1 = 11 /\ 13 - 1 = 12
      /\ 14 - 1 = 13 /\ 15 - 1 = 14 /\ 16 - 1 = 15 /\ 17 - 1 = 16 /\ 18 - 1 = 17 /\ 19 - 1 = 18
      /\ 20 - 1 = 19 /\ 21 - 1 = 20 /\ 22 - 1 = 21 /\ 23 - 1 = 22 /\ 24 - 1 = 23 /\ 25 - 1 = 24
  OBVIOUS
<1>7. /\ OpenPart(l, off[0], off[1], TextAt(ts, 1)) /\ OpenPart(l, off[2], off[3], TextAt(ts, 3))
      /\ OpenPart(l, off[4], off[5], TextAt(ts, 5)) /\ OpenPart(l, off[14], off[15], TextAt(ts, 15))
      /\ OpenPart(l, off[16], off[17], TextAt(ts, 17))
  BY <1>2, <1>6
<1>8. /\ ShutPart(l, off[7], off[8], TextAt(ts, 8)) /\ ShutPart(l, off[11], off[12], TextAt(ts, 12))
      /\ ShutPart(l, off[19], off[20], TextAt(ts, 20)) /\ ShutPart(l, off[23], off[24], TextAt(ts, 24))
      /\ Lacks(l, off[7], off[8], "]")
  BY <1>3, <1>4, <1>6
<1>9. \A i \in {2, 4, 6, 10, 14, 16, 18, 22} : LitPart(l, off[i - 1], off[i], Space)
  BY <1>5, CombinedIs, CodesAre
<1>10. \A i \in {11, 13, 19, 21, 23, 25} : LitPart(l, off[i - 1], off[i], Quote)
  BY <1>5, CombinedIs, CodesAre
<1>11. LitPart(l, off[7 - 1], off[7], "[") /\ LitPart(l, off[9 - 1], off[9], "]")
  BY <1>5, CombinedIs, CodesAre
<1>12. /\ LitPart(l, off[1], off[2], Space) /\ LitPart(l, off[3], off[4], Space)
       /\ LitPart(l, off[5], off[6], Space) /\ LitPart(l, off[9], off[10], Space)
       /\ LitPart(l, off[13], off[14], Space) /\ LitPart(l, off[15], off[16], Space)
       /\ LitPart(l, off[17], off[18], Space) /\ LitPart(l, off[21], off[22], Space)
  BY <1>6, <1>9
<1>13. /\ LitPart(l, off[10], off[11], Quote) /\ LitPart(l, off[12], off[13], Quote)
       /\ LitPart(l, off[18], off[19], Quote) /\ LitPart(l, off[20], off[21], Quote)
       /\ LitPart(l, off[22], off[23], Quote) /\ LitPart(l, off[24], off[25], Quote)
  BY <1>6, <1>10
<1> QED BY <1>1, <1>6, <1>7, <1>8, <1>11, <1>12, <1>13

(* A text in the open ends at the blank behind it.                         *)
LEMMA WordIs ==
  ASSUME NEW l, Len(l) \in Nat, NEW a, NEW z, NEW e, OpenPart(l, a, z, e),
         NEW y, LitPart(l, z, y, Space)
  PROVE  /\ FindNot(l, Space, a + 1) = a + 1 /\ Find(l, Space, a + 1) = y
         /\ y - 1 = z /\ a + 1 \in Nat
<1>1. /\ a \in Nat /\ z \in Nat /\ a < z /\ z <= Len(l) /\ y \in Nat /\ y = z + 1 /\ y <= Len(l)
      /\ l[y] = Space
  BY DEF OpenPart, LitPart
<1>2. \A q \in (a + 1) .. z : l[q] # Space
  BY DEF OpenPart, Lacks
<1>3. a + 1 \in Nat /\ a + 1 \in (a + 1) .. Len(l) /\ (a + 1) .. ((a + 1) - 1) = {}
      /\ l[a + 1] # Space /\ y - 1 = z /\ y \in (a + 1) .. (Len(l) + 1)
  BY <1>1, <1>2
<1>4. FindNot(l, Space, a + 1) = a + 1
  BY <1>3, FindNotIs
<1>5. \A q \in (a + 1) .. (y - 1) : l[q] # Space
  BY <1>2, <1>3
<1>6. Find(l, Space, a + 1) = y
  BY <1>1, <1>3, <1>5, FindIs
<1> QED BY <1>3, <1>4, <1>6

(* It begins behind the blank before it.                                   *)
LEMMA BlankBefore ==
  ASSUME NEW l, Len(l) \in Nat, NEW a, NEW z, NEW e, OpenPart(l, a, z, e),
         NEW c, LitPart(l, c, a, Space)
  PROVE  FindNot(l, Space, a) = a + 1
<1>1. /\ a \in Nat /\ z \in Nat /\ a < z /\ z <= Len(l) /\ l[a] = Space
  BY DEF OpenPart, LitPart
<1>2. \A q \in (a + 1) .. z : l[q] # Space
  BY DEF OpenPart, Lacks
<1>3. a + 1 \in a .. Len(l) /\ l[a + 1] # Space /\ \A q \in a .. ((a + 1) - 1) : l[q] = Space
  <2>1. \A q \in a .. ((a + 1) - 1) : q = a
    BY <1>1
  <2>2. a + 1 \in (a + 1) .. z /\ a + 1 \in a .. Len(l)
    BY <1>1
  <2> QED BY <1>1, <1>2, <2>1, <2>2
<1> QED BY <1>1, <1>3, FindNotIs

(* Two words are taken apart.                                              *)
LEMMA WordsAre ==
  ASSUME NEW l, Len(l) \in Nat, NEW c, NEW a, NEW z, NEW e, NEW b, NEW y, NEW g, NEW d,
         LitPart(l, c, a, Space), OpenPart(l, a, z, e), LitPart(l, z, b, Space),
         OpenPart(l, b, y, g), LitPart(l, y, d, Space)
  PROVE  Words(l, a + 1) = <<e, g>>
<1>1. FindNot(l, Space, a + 1) = a + 1 /\ Find(l, Space, a + 1) = b /\ b - 1 = z
  BY WordIs
<1>2. Find(l, Space, b + 1) = d /\ d - 1 = y
  BY WordIs
<1>3. FindNot(l, Space, b) = b + 1
  BY BlankBefore
<1>4. SubSeq(l, a + 1, z) = e /\ SubSeq(l, b + 1, y) = g
  BY DEF OpenPart
<1> QED BY <1>1, <1>2, <1>3, <1>4 DEF Words

(* The live parser finds them.                                             *)
LEMMA LiveRecovers ==
  ASSUME NEW ts, NEW l, NEW off, Rendering(Combined, ts, l, off), Fitting(Combined, ts)
  PROVE  ParseEvent(l) = [NoFields EXCEPT !["h"] = TextAt(ts, 1), !["t"] = TextAt(ts, 8),
                            !["r"] = TextAt(ts, 12), !["s"] = TextAt(ts, 15),
                            !["b"] = TextAt(ts, 17), !["u"] = TextAt(ts, 24)]
<1> DEFINE E(i) == TextAt(ts, i)
<1>1. /\ Len(l) \in Nat /\ off[0] = 0
      /\ OpenPart(l, off[0], off[1], TextAt(ts, 1)) /\ LitPart(l, off[1], off[2], Space)
      /\ OpenPart(l, off[2], off[3], TextAt(ts, 3)) /\ LitPart(l, off[3], off[4], Space)
      /\ OpenPart(l, off[4], off[5], TextAt(ts, 5)) /\ LitPart(l, off[5], off[6], Space)
      /\ LitPart(l, off[6], off[7], "[") /\ ShutPart(l, off[7], off[8], TextAt(ts, 8))
      /\ Lacks(l, off[7], off[8], "]")
      /\ LitPart(l, off[8], off[9], "]") /\ LitPart(l, off[9], off[10], Space)
      /\ LitPart(l, off[10], off[11], Quote) /\ ShutPart(l, off[11], off[12], TextAt(ts, 12))
      /\ LitPart(l, off[12], off[13], Quote) /\ LitPart(l, off[13], off[14], Space)
      /\ OpenPart(l, off[14], off[15], TextAt(ts, 15)) /\ LitPart(l, off[15], off[16], Space)
      /\ OpenPart(l, off[16], off[17], TextAt(ts, 17)) /\ LitPart(l, off[17], off[18], Space)
      /\ LitPart(l, off[18], off[19], Quote) /\ ShutPart(l, off[19], off[20], TextAt(ts, 20))
      /\ LitPart(l, off[20], off[21], Quote) /\ LitPart(l, off[21], off[22], Space)
      /\ LitPart(l, off[22], off[23], Quote) /\ ShutPart(l, off[23], off[24], TextAt(ts, 24))
      /\ LitPart(l, off[24], off[25], Quote)
  BY LineParts
<1>0. Len(l) \in Nat
  BY <1>1
(* The address ends at the first blank.                                    *)
<1>2. Find(l, Space, 1) = off[2] /\ off[2] - 1 = off[1] /\ off[1] \in Nat /\ off[2] <= Len(l)
  <2>1. /\ off[0] = 0 /\ off[1] \in Nat /\ off[2] \in Nat /\ off[2] = off[1] + 1 /\ 0 < off[1]
        /\ off[2] <= Len(l) /\ l[off[2]] = Space /\ Lacks(l, 0, off[1], Space)
    BY <1>1 DEF OpenPart, LitPart
  <2>2. \A q \in 1 .. (off[2] - 1) : l[q] # Space
    <3>1. off[2] - 1 = off[1] /\ 0 + 1 = 1
      BY <2>1
    <3> QED BY <2>1, <3>1 DEF Lacks
  <2>3. off[2] \in 1 .. (Len(l) + 1)
    BY <1>0, <2>1
  <2>4. Find(l, Space, 1) = off[2]
    BY <1>0, <2>1, <2>2, <2>3, FindIs
  <2> QED BY <2>1, <2>4
(* The time stands in the first brackets.                                  *)
<1>3. /\ off[1] \in Nat /\ off[2] \in Nat /\ off[3] \in Nat /\ off[4] \in Nat /\ off[5] \in Nat
      /\ off[6] \in Nat /\ off[7] \in Nat /\ off[8] \in Nat /\ off[9] \in Nat
  BY <1>1 DEF OpenPart, LitPart, ShutPart
<1>4. \A b \in {"[", "]"} : Lacks(l, 0, off[6], b)
  <2> SUFFICES ASSUME NEW b \in {"[", "]"} PROVE Lacks(l, 0, off[6], b)
    OBVIOUS
  <2>1. /\ Lacks(l, 0, off[1], b) /\ Lacks(l, off[2], off[3], b) /\ Lacks(l, off[4], off[5], b)
    BY <1>1 DEF OpenPart
  <2>2. Space # b
    BY BytesDiffer
  <2>3. Lacks(l, off[1], off[2], b) /\ Lacks(l, off[3], off[4], b) /\ Lacks(l, off[5], off[6], b)
    BY <1>1, <2>2 DEF LitPart
  <2>4. Lacks(l, 0, off[2], b)
    BY <1>3, <2>1, <2>3, LacksMore
  <2>5. Lacks(l, 0, off[3], b)
    BY <1>3, <2>1, <2>4, LacksMore
  <2>6. Lacks(l, 0, off[4], b)
    BY <1>3, <2>3, <2>5, LacksMore
  <2>7. Lacks(l, 0, off[5], b)
    BY <1>3, <2>1, <2>6, LacksMore
  <2> QED BY <1>3, <2>3, <2>7, LacksMore
<1>5. Find(l, "[", 1) = off[7] /\ off[7] <= Len(l)
  <2>1. off[7] = off[6] + 1 /\ off[7] <= Len(l) /\ l[off[7]] = "["
    BY <1>1 DEF LitPart
  <2>2. \A q \in 1 .. (off[7] - 1) : l[q] # "["
    <3>1. off[7] - 1 = off[6] /\ 0 + 1 = 1 /\ Lacks(l, 0, off[6], "[")
      BY <1>3, <1>4, <2>1
    <3> QED BY <3>1 DEF Lacks
  <2>3. off[7] \in 1 .. (Len(l) + 1)
    BY <1>0, <1>3, <2>1
  <2> QED BY <1>0, <2>1, <2>2, <2>3, FindIs
<1>6. Find(l, "]", 1) = off[9] /\ off[9] <= Len(l) /\ off[7] < off[9] /\ off[9] - 1 = off[8]
  <2>1. /\ off[9] = off[8] + 1 /\ off[9] <= Len(l) /\ l[off[9]] = "]" /\ off[7] <= off[8]
        /\ Lacks(l, off[7], off[8], "]")
    BY <1>1 DEF LitPart, ShutPart
  <2>2. Lacks(l, off[6], off[7], "]")
    BY <1>1, BytesDiffer DEF LitPart
  <2>3. Lacks(l, 0, off[6], "]")
    BY <1>4
  <2>4. Lacks(l, 0, off[7], "]")
    BY <1>3, <2>2, <2>3, LacksMore
  <2>5. Lacks(l, 0, off[8], "]")
    BY <1>3, <2>1, <2>4, LacksMore
  <2>6. \A q \in 1 .. (off[9] - 1) : l[q] # "]"
    <3>1. off[9] - 1 = off[8] /\ 0 + 1 = 1
      BY <1>3, <2>1
    <3> QED BY <2>5, <3>1 DEF Lacks
  <2>7. off[9] \in 1 .. (Len(l) + 1)
    BY <1>0, <1>3, <2>1
  <2>8. Find(l, "]", 1) = off[9]
    BY <1>0, <2>1, <2>6, <2>7, FindIs
  <2> QED BY <1>3, <2>1, <2>8
(* The quoted fields, each from behind the one before.                     *)
<1>7. /\ off[10] \in Nat /\ off[11] \in Nat /\ off[12] \in Nat /\ off[13] \in Nat /\ off[14] \in Nat
      /\ off[15] \in Nat /\ off[16] \in Nat /\ off[17] \in Nat /\ off[18] \in Nat /\ off[19] \in Nat
      /\ off[20] \in Nat /\ off[21] \in Nat /\ off[22] \in Nat /\ off[23] \in Nat /\ off[24] \in Nat
      /\ off[25] \in Nat
  BY <1>1 DEF OpenPart, LitPart, ShutPart
<1>8. /\ off[9] = off[8] + 1 /\ off[10] = off[9] + 1 /\ off[11] = off[10] + 1 /\ off[13] = off[12] + 1
      /\ off[14] = off[13] + 1 /\ off[16] = off[15] + 1 /\ off[18] = off[17] + 1
      /\ off[19] = off[18] + 1 /\ off[21] = off[20] + 1 /\ off[22] = off[21] + 1
      /\ off[23] = off[22] + 1 /\ off[25] = off[24] + 1
      /\ off[14] < off[15] /\ off[16] < off[17]
  BY <1>1 DEF OpenPart, LitPart
<1>9. /\ 12 - 1 = 11 /\ 12 + 1 = 13 /\ 20 - 1 = 19 /\ 20 + 1 = 21 /\ 24 - 1 = 23 /\ 24 + 1 = 25
  OBVIOUS
<1>10. NextQuoted(l, off[9]) = [start |-> off[11] + 1, end |-> off[13]]
  <2>1. Lacks(l, off[8], off[9], Quote) /\ Lacks(l, off[9], off[10], Quote)
    BY <1>1, BytesDiffer DEF LitPart
  <2>2. Lacks(l, off[8], off[10], Quote)
    BY <1>3, <1>7, <2>1, LacksMore
  <2>3. off[8] < off[11] /\ off[11] - 1 = off[10] /\ off[8] + 1 = off[9]
    BY <1>3, <1>7, <1>8
  <2>0. Lacks(l, off[8], off[10], Quote)
    BY <2>2
  <2>4. NextQuoted(l, off[8] + 1) = [start |-> off[12 - 1] + 1, end |-> off[12 + 1]]
    <3>1. LitPart(l, off[10], off[11], Quote)
      BY <1>1
    <3>2. off[8] \in Nat /\ off[8] <= off[10]
      BY <1>3, <1>7, <1>8
    <3>3. off[11] = off[12 - 1] /\ off[13] = off[12 + 1]
      BY <1>9
    <3>4. NextQuoted(l, off[8] + 1) = [start |-> off[11] + 1, end |-> off[13]]
      BY <2>0, <3>1, <3>2, <3>3, QuotedPartIs
    <3> QED BY <3>4, <1>9
  <2> QED BY <1>9, <2>3, <2>4
<1>11. NextQuoted(l, off[13] + 1) = [start |-> off[19] + 1, end |-> off[21]]
  <2>1. /\ Lacks(l, off[13], off[14], Quote) /\ Lacks(l, off[15], off[16], Quote)
        /\ Lacks(l, off[17], off[18], Quote)
    BY <1>1, BytesDiffer DEF LitPart
  <2>2. Lacks(l, off[14], off[15], Quote) /\ Lacks(l, off[16], off[17], Quote)
    BY <1>1 DEF OpenPart
  <2>3. Lacks(l, off[13], off[15], Quote)
    BY <1>7, <2>1, <2>2, LacksMore
  <2>4. Lacks(l, off[13], off[16], Quote)
    BY <1>7, <2>1, <2>3, LacksMore
  <2>5. Lacks(l, off[13], off[17], Quote)
    BY <1>7, <2>2, <2>4, LacksMore
  <2>6. Lacks(l, off[13], off[18], Quote)
    BY <1>7, <2>1, <2>5, LacksMore
  <2>7. off[13] < off[19] /\ off[19] - 1 = off[18]
    BY <1>7, <1>8
  <2>0. Lacks(l, off[13], off[18], Quote)
    BY <2>6
  <2>8. NextQuoted(l, off[13] + 1) = [start |-> off[20 - 1] + 1, end |-> off[20 + 1]]
    <3>1. LitPart(l, off[18], off[19], Quote)
      BY <1>1
    <3>2. off[13] \in Nat /\ off[13] <= off[18]
      BY <1>3, <1>7, <1>8
    <3>3. off[19] = off[20 - 1] /\ off[21] = off[20 + 1]
      BY <1>9
    <3>4. NextQuoted(l, off[13] + 1) = [start |-> off[19] + 1, end |-> off[21]]
      BY <2>0, <3>1, <3>2, <3>3, QuotedPartIs
    <3> QED BY <3>4, <1>9
  <2> QED BY <1>9, <2>8
<1>12. NextQuoted(l, off[21] + 1) = [start |-> off[23] + 1, end |-> off[25]]
  <2>1. Lacks(l, off[21], off[22], Quote)
    BY <1>1, BytesDiffer DEF LitPart
  <2>2. off[21] < off[23] /\ off[23] - 1 = off[22]
    BY <1>7, <1>8
  <2>0. Lacks(l, off[21], off[22], Quote)
    BY <2>1
  <2>3. NextQuoted(l, off[21] + 1) = [start |-> off[24 - 1] + 1, end |-> off[24 + 1]]
    <3>1. LitPart(l, off[22], off[23], Quote)
      BY <1>1
    <3>2. off[21] \in Nat /\ off[21] <= off[22]
      BY <1>3, <1>7, <1>8
    <3>3. off[23] = off[24 - 1] /\ off[25] = off[24 + 1]
      BY <1>9
    <3>4. NextQuoted(l, off[21] + 1) = [start |-> off[23] + 1, end |-> off[25]]
      BY <2>0, <3>1, <3>2, <3>3, QuotedPartIs
    <3> QED BY <3>4, <1>9
  <2> QED BY <1>9, <2>3
(* The two words behind the request.                                       *)
<1>13. Words(l, off[14] + 1) = <<E(15), E(17)>>
  <2>1. /\ LitPart(l, off[13], off[14], Space) /\ OpenPart(l, off[14], off[15], TextAt(ts, 15))
        /\ LitPart(l, off[15], off[16], Space) /\ OpenPart(l, off[16], off[17], TextAt(ts, 17))
        /\ LitPart(l, off[17], off[18], Space)
    BY <1>1
  <2> QED BY ONLY <1>0, <2>1, WordsAre DEF E
<1>14. off[13] + 2 = off[14] + 1
  BY <1>7, <1>8
<1>18. /\ SubSeq(l, off[0] + 1, off[1]) = E(1) /\ SubSeq(l, off[7] + 1, off[8]) = E(8)
       /\ SubSeq(l, off[11] + 1, off[12]) = E(12) /\ SubSeq(l, off[14] + 1, off[15]) = E(15)
       /\ SubSeq(l, off[16] + 1, off[17]) = E(17) /\ SubSeq(l, off[23] + 1, off[24]) = E(24)
       /\ E(17) # <<>>
  BY <1>1 DEF OpenPart, ShutPart
<1>19. off[13] - 1 = off[12] /\ off[25] - 1 = off[24] /\ off[0] + 1 = 1
  <2>1. off[0] = 0
    BY <1>1
  <2> QED BY <1>7, <1>8, <2>1
<1>20. Words(l, off[13] + 2) = <<E(15), E(17)>>
  BY <1>13, <1>14
<1>21. off[13] <= Len(l) /\ off[21] <= Len(l) /\ off[25] <= Len(l)
  BY <1>1 DEF LitPart
<1> HIDE DEF E
<1> DEFINE host == Find(l, Space, 1)
           open == Find(l, "[", 1)
           close == Find(l, "]", 1)
           request == NextQuoted(l, close)
           words == Words(l, request.end + 2)
           referer == NextQuoted(l, request.end + 1)
           agent == NextQuoted(l, referer.end + 1)
           TextOf(q) == SubSeq(l, q.start, q.end - 1)
           closed(q) == q.end <= Len(l)
           rejected == host > Len(l) \/ open > Len(l) \/ close > Len(l) \/ close < open
                         \/ ~ closed(request)
<1>22. host = off[2] /\ open = off[7] /\ close = off[9]
  BY <1>2, <1>5, <1>6
<1>23. request = [start |-> off[11] + 1, end |-> off[13]]
  BY <1>10, <1>22
<1>24. words = <<E(15), E(17)>> /\ referer = [start |-> off[19] + 1, end |-> off[21]]
  BY <1>11, <1>20, <1>23
<1>25. agent = [start |-> off[23] + 1, end |-> off[25]]
  BY <1>12, <1>24
<1>26. ParseEvent(l) =
         IF rejected
         THEN NoFields
         ELSE [NoFields EXCEPT
                 !["h"] = SubSeq(l, 1, host - 1),
                 !["t"] = SubSeq(l, open + 1, close - 1),
                 !["r"] = TextOf(request),
                 !["s"] = IF words[2] = <<>> THEN <<>> ELSE words[1],
                 !["b"] = words[2],
                 !["u"] = IF closed(referer) /\ closed(agent) THEN TextOf(agent) ELSE <<>>]
  BY DEF ParseEvent
<1> HIDE DEF host, open, close, request, words, referer, agent
<1>27. ~ rejected
  <2>1. ~ (host > Len(l)) /\ ~ (open > Len(l)) /\ ~ (close > Len(l)) /\ ~ (close < open)
    BY <1>0, <1>2, <1>3, <1>5, <1>6, <1>22
  <2> QED BY <1>21, <1>23, <2>1
<1>28. /\ SubSeq(l, 1, host - 1) = E(1) /\ SubSeq(l, open + 1, close - 1) = E(8)
       /\ TextOf(request) = E(12) /\ TextOf(agent) = E(24)
  BY <1>2, <1>6, <1>18, <1>19, <1>22, <1>23, <1>25
<1>29. words[2] = E(17) /\ words[1] = E(15) /\ E(17) # <<>>
  BY <1>18, <1>24
<1>30. closed(referer) /\ closed(agent)
  BY <1>21, <1>24, <1>25
<1> HIDE DEF rejected, closed, TextOf
<1> QED BY <1>26, <1>27, <1>28, <1>29, <1>30 DEF E

(* The combined layout has codes at nine places, six of them kept.         *)
LEMMA CombinedCodes ==
  ASSUME NEW i \in 1 .. 25, IsCode(Combined[i])
  PROVE  /\ i \in {1, 3, 5, 8, 12, 15, 17, 20, 24}
         /\ Combined[i] # "skip" => i \in {1, 8, 12, 15, 17, 24}
<1>1. i \notin {2, 4, 6, 10, 14, 16, 18, 22} /\ i \notin {11, 13, 19, 21, 23, 25}
      /\ i # 7 /\ i # 9
  BY CombinedIs, CodesAre
<1>2. i \in {1, 3, 5, 8, 12, 15, 17, 20, 24}
  BY <1>1
<1>3. Combined[i] # "skip" => i \notin {3, 5, 20}
  BY CombinedIs
<1> QED BY <1>2, <1>3

(* The live parser recovers what the walk does.                            *)
LEMMA LiveRecoversAll ==
  ASSUME NEW ts, NEW l, NEW off, Rendering(Combined, ts, l, off), Fitting(Combined, ts)
  PROVE  Recovers(Combined, ts, Len(CodeAt(Combined)), ParseEvent(l))
<1> DEFINE c == CodeAt(Combined)
           n == Len(c)
           g == ParseEvent(l)
<1>1. /\ g = [x \in Codes \ {"skip"} |-> g[x]]
      /\ g["h"] = TextAt(ts, 1) /\ g["t"] = TextAt(ts, 8) /\ g["r"] = TextAt(ts, 12)
      /\ g["s"] = TextAt(ts, 15) /\ g["b"] = TextAt(ts, 17) /\ g["u"] = TextAt(ts, 24)
      /\ g["m"] = <<>> /\ g["U"] = <<>>
  <2> DEFINE a == TextAt(ts, 1)
             b == TextAt(ts, 8)
             d == TextAt(ts, 12)
             e == TextAt(ts, 15)
             h == TextAt(ts, 17)
             k == TextAt(ts, 24)
  <2>1. g = [NoFields EXCEPT !["h"] = a, !["t"] = b, !["r"] = d, !["s"] = e, !["b"] = h, !["u"] = k]
    BY LiveRecovers
  <2> HIDE DEF a, b, d, e, h, k, g
  <2>2. /\ g = [x \in Codes \ {"skip"} |-> g[x]]
        /\ g["h"] = a /\ g["t"] = b /\ g["r"] = d /\ g["s"] = e /\ g["b"] = h /\ g["u"] = k
        /\ g["m"] = <<>> /\ g["U"] = <<>>
    BY <2>1 DEF NoFields, Codes
  <2> QED BY <2>2 DEF a, b, d, e, h, k
<1> HIDE DEF g
<1>2. /\ n \in Nat
      /\ \A j \in 1 .. n : c[j] \in 1 .. 25 /\ IsCode(Combined[c[j]])
  <2>1. Len(Combined) \in Nat /\ DOMAIN Combined = 1 .. Len(Combined) /\ Len(Combined) = 25
    BY CombinedIs
  <2> QED BY <2>1, CodesInOrder
<1>3. \A i \in {1, 8, 12, 15, 17, 24} : \E j \in 1 .. n : c[j] = i
  <2>1. Len(Combined) \in Nat /\ DOMAIN Combined = 1 .. Len(Combined)
        /\ \A i \in {1, 8, 12, 15, 17, 24} : i \in 1 .. Len(Combined) /\ IsCode(Combined[i])
    BY CombinedIs, CodesAre
  <2> QED BY <2>1, CodesComplete
<1>4. ASSUME NEW j \in 1 .. n, Combined[c[j]] # "skip" PROVE g[Combined[c[j]]] = Escaped(ts[j])
  <2>1. c[j] \in {1, 8, 12, 15, 17, 24}
    BY <1>2, <1>4, CombinedCodes
  <2>2. Escaped(ts[j]) = TextAt(ts, c[j])
    BY <2>1, PartIs
  <2>3. /\ Combined[1] = "h" /\ Combined[8] = "t" /\ Combined[12] = "r"
        /\ Combined[15] = "s" /\ Combined[17] = "b" /\ Combined[24] = "u"
    BY CombinedIs
  <2> HIDE DEF c
  <2> QED BY <1>1, <2>1, <2>2, <2>3
<1>5. ASSUME NEW x \in Codes \ {"skip"}, \A j \in 1 .. n : Combined[c[j]] # x PROVE g[x] = <<>>
  <2>1. x \notin {"h", "t", "r", "s", "b", "u"}
    <3>1. /\ Combined[1] = "h" /\ Combined[8] = "t" /\ Combined[12] = "r"
          /\ Combined[15] = "s" /\ Combined[17] = "b" /\ Combined[24] = "u"
      BY CombinedIs
    <3>2. \A i \in {1, 8, 12, 15, 17, 24} : x # Combined[i]
      BY <1>3, <1>5
    <3> QED BY <3>1, <3>2
  <2>2. x \in {"m", "U"}
    BY <2>1 DEF Codes
  <2> QED BY <1>1, <2>2
<1> QED BY <1>1, <1>4, <1>5 DEF Recovers, g, n, c

(* What all fields leave is what was logged.                               *)
LEMMA RecoversLogged ==
  ASSUME Len(format) \in Nat, DOMAIN format = 1 .. Len(format), ValidFormat(format),
         DOMAIN texts = 1 .. Len(CodeAt(format)),
         NEW g, Recovers(format, texts, Len(CodeAt(format)), g)
  PROVE  g = AsLogged
<1> DEFINE c == CodeAt(format)
           n == Len(c)
           Here(x) == {k \in DOMAIN texts : format[c[k]] = x}
           v(x) == IF Here(x) = {} THEN <<>> ELSE Escaped(texts[Max(Here(x))])
<1>1. /\ n \in Nat
      /\ \A m \in 1 .. n : c[m] \in 1 .. Len(format) /\ IsCode(format[c[m]])
      /\ \A j, m \in 1 .. n : j < m => c[j] < c[m]
  BY CodesInOrder
<1>2. /\ g = [x \in Codes \ {"skip"} |-> g[x]]
      /\ \A j \in 1 .. n : format[c[j]] # "skip" => g[format[c[j]]] = Escaped(texts[j])
      /\ \A x \in Codes \ {"skip"} : (\A j \in 1 .. n : format[c[j]] # x) => g[x] = <<>>
  BY DEF Recovers
<1>3. AsLogged = [x \in Codes \ {"skip"} |-> v(x)]
  BY DEF AsLogged
<1>4. \A x : Here(x) = {k \in 1 .. n : format[c[k]] = x}
  OBVIOUS
<1>5. ASSUME NEW x \in Codes \ {"skip"} PROVE g[x] = v(x)
  <2> HIDE DEF c, n
  <2>1. CASE Here(x) = {}
    <3>1. \A j \in 1 .. n : format[c[j]] # x
      BY <1>4, <2>1
    <3> HIDE DEF Here
    <3> QED BY <1>2, <2>1, <3>1
  <2>2. CASE Here(x) # {}
    <3>1. PICK k \in 1 .. n : format[c[k]] = x
      BY <1>4, <2>2
    <3>2. ASSUME NEW j \in 1 .. n, format[c[j]] = x, j # k PROVE FALSE
      <4>1. j \in Nat /\ k \in Nat
        BY <1>1
      <4>2. j < k \/ k < j
        BY <3>2, <4>1
      <4>3. c[j] < c[k] \/ c[k] < c[j]
        BY <1>1, <4>2
      <4>4. c[j] \in DOMAIN format /\ c[k] \in DOMAIN format /\ c[j] # c[k]
        BY <1>1, <4>3
      <4>5. IsCode(format[c[j]]) /\ format[c[j]] = format[c[k]] /\ format[c[j]] # "skip"
        BY <1>1, <3>1, <3>2
      <4> QED BY <4>4, <4>5 DEF ValidFormat
    <3>3. k \in Here(x) /\ \A y \in Here(x) : y = k
      BY <1>4, <3>1, <3>2
    <3>4. Here(x) \in SUBSET Nat
      BY <1>1, <1>4
    <3>5. k \in Nat
      BY <1>1
    <3> HIDE DEF Here
    <3>6. \A y \in Here(x) : y <= k
      BY <3>3, <3>5
    <3>7. Max(Here(x)) = k
      BY <3>3, <3>4, <3>6, MaxIs
    <3>8. g[x] = Escaped(texts[k])
      BY <1>2, <3>1
    <3> QED BY <2>2, <3>7, <3>8
  <2> QED BY <2>1, <2>2
<1> HIDE DEF v
<1>6. [x \in Codes \ {"skip"} |-> g[x]] = [x \in Codes \ {"skip"} |-> v(x)]
  BY <1>5
<1> QED BY <1>2, <1>3, <1>6

(* Whatever quotes and backslashes a field has in it, no field of a line   *)
(* whose format tells them apart is cut, shifted or missed, and the live   *)
(* parser agrees on the layout it knows.                                   *)
THEOREM FieldsRecoveredHolds == LineSpec => []FieldsRecovered
<1> DEFINE Texts == PlainTexts \cup BracketedTexts \cup QuotedTexts
           IInv == /\ format \in Formats /\ ValidFormat(format)
                   /\ texts \in Seq(Texts)
<1>1. LineInit => IInv
  BY DEF LineInit
<1>2. IInv /\ [LineNext]_lineVars => IInv'
  <2> SUFFICES ASSUME IInv, [LineNext]_lineVars PROVE IInv'
    OBVIOUS
  <2>1. CASE LogField
    <3>1. PICK t \in TextsAt(format, CodeAt(format)[Len(texts) + 1]) : texts' = Append(texts, t)
      BY <2>1 DEF LogField
    <3>2. t \in Texts
      BY DEF TextsAt
    <3> HIDE DEF Texts
    <3>3. texts' \in Seq(Texts)
      BY <3>1, <3>2
    <3> QED BY <2>1, <3>3 DEF LogField
  <2>2. CASE LogByte
    BY <2>2 DEF LogByte
  <2>3. CASE UNCHANGED lineVars
    BY <2>3 DEF lineVars
  <2> QED BY <2>1, <2>2, <2>3 DEF LineNext
<1>3. IInv => FieldsRecovered
  <2> SUFFICES ASSUME IInv, Logged, TellsApart(format),
                      \A k \in DOMAIN texts : Suits(format, CodeAt(format)[k], texts[k])
               PROVE  /\ ParseLine(format, Rendered(format, texts)) = AsLogged
                      /\ format = Combined => ParseEvent(Rendered(format, texts)) = AsLogged
    BY DEF FieldsRecovered
  <2> DEFINE X == UNION {Range(t) : t \in Texts}
             l == Rendered(format, texts)
             n == Len(CodeAt(format))
  <2>1. format \in Seq(Range(format)) /\ \A t \in Texts : t \in Seq(Range(t))
    BY FieldsAssumption
  <2>2. Len(format) \in Nat /\ DOMAIN format = 1 .. Len(format)
    BY <2>1
  <2>3. Len(texts) = n /\ texts \in Seq(Texts) /\ ValidFormat(format)
    BY DEF Logged
  <2> HIDE DEF Texts, n
  <2>4. DOMAIN texts = 1 .. n /\ n \in Nat /\ \A k \in 1 .. n : texts[k] \in Texts
    BY <2>3
  <2>5. Texts \in SUBSET Seq(X)
    <3> SUFFICES ASSUME NEW t \in Texts PROVE t \in Seq(X)
      OBVIOUS
    <3>1. t \in Seq(Range(t)) /\ Range(t) \in SUBSET X
      BY <2>1
    <3> HIDE DEF X
    <3> QED BY <3>1
  <2> HIDE DEF X
  <2>6. texts \in Seq(Seq(X))
    BY <2>3, <2>5
  <2>7. PICK off : Rendering(format, texts, l, off)
    BY <2>1, <2>3, <2>6, RenderedPlaces DEF n
  <2>8. Fitting(format, texts)
    BY <2>1, <2>4 DEF Fitting, n
  <2> HIDE DEF l
  <2>9. ParseLine(format, l) = AsLogged
    <3>1. Recovers(format, texts, n, ParseLine(format, l))
      BY <2>1, <2>3, <2>7, <2>8, StaticRecovers DEF n
    <3> QED BY <2>2, <2>3, <2>4, <3>1, RecoversLogged DEF n
  <2>10. ASSUME format = Combined PROVE ParseEvent(l) = AsLogged
    <3>1. Recovers(Combined, texts, Len(CodeAt(Combined)), ParseEvent(l))
      BY <2>7, <2>8, <2>10, LiveRecoversAll
    <3>2. Recovers(format, texts, n, ParseEvent(l))
      BY <2>10, <3>1 DEF n
    <3> QED BY <2>2, <2>3, <2>4, <3>2, RecoversLogged DEF n
  <2> QED BY <2>9, <2>10 DEF l
<1> QED BY <1>1, <1>2, <1>3, PTL DEF LineSpec

----------------------------------------------------------------------------
(* Lines and where they stop.                                              *)

IsFile(f) == Len(f) \in Nat /\ DOMAIN f = 1..Len(f)

LEMMA StopFacts ==
  ASSUME NEW f, IsFile(f), NEW s \in 1..Len(f)
  PROVE  /\ Stop(f, s) \in Nat /\ s <= Stop(f, s) /\ Stop(f, s) <= Len(f) + 1
         /\ \A i \in s..Len(f) : f[i] = "lf" => Stop(f, s) <= i
<1> DEFINE S == {i \in s..Len(f) : f[i] = "lf"} \cup {Len(f) + 1}
<1>1. /\ S \in SUBSET Nat /\ S # {} /\ Len(f) + 1 \in S
      /\ \A i \in S : s <= i /\ i <= Len(f) + 1
      /\ \A i \in s..Len(f) : f[i] = "lf" => i \in S
  BY DEF IsFile
<1> HIDE DEF S
<1>2. Min(S) \in S /\ \A m \in S : Min(S) <= m
  BY <1>1, MinFacts
<1>3. Stop(f, s) = Min(S)
  BY DEF S, Stop
<1> QED BY <1>1, <1>2, <1>3

(* Each line has a start of its own.                                       *)
LEMMA LineFrom ==
  ASSUME NEW f, NEW s
  PROVE  Line(f, s).from = s
BY DEF Line, Text

LEMMA LinesApart ==
  ASSUME NEW f, NEW S, NEW T
  PROVE  /\ S \cap T = {} => LinesAt(f, S) \cap LinesAt(f, T) = {}
         /\ LinesAt(f, S \cup T) = LinesAt(f, S) \cup LinesAt(f, T)
         /\ S \subseteq T => LinesAt(f, S) \subseteq LinesAt(f, T)
<1>1. ASSUME S \cap T = {} PROVE LinesAt(f, S) \cap LinesAt(f, T) = {}
  <2> SUFFICES ASSUME NEW s \in S, NEW t \in T, Line(f, s) = Line(f, t) PROVE FALSE
    BY DEF LinesAt
  <2> QED BY <1>1, LineFrom
<1> QED BY <1>1 DEF LinesAt

(* What a reader recovers: the line, unless it is too long or blank.       *)
Growing(f, s, g) ==
  g = [w \in 1..MaxLine |->
         IF Stop(f, s) < s + w \/ Len(f) < s + w THEN {Line(f, s)}
         ELSE IF w = MaxLine THEN {} ELSE g[Least(2 * w, MaxLine)]]
Whole(f, s) ==
  IF Stop(f, s) < s + MaxLine \/ Len(f) < s + MaxLine THEN {Line(f, s)} ELSE {}

LEMMA GrowingExists ==
  ASSUME NEW f, IsFile(f), NEW s \in 1..Len(f)
  PROVE  \E g : Growing(f, s, g)
<1> DEFINE c == Whole(f, s)
           g == [w \in 1..MaxLine |-> c]
<1>1. MaxLine \in Nat /\ MaxLine >= 1 /\ Stop(f, s) \in Nat /\ Len(f) \in Nat
  BY LinesAssumption, StopFacts DEF IsFile
<1>2. ASSUME NEW w \in 1..MaxLine
      PROVE  c = IF Stop(f, s) < s + w \/ Len(f) < s + w THEN {Line(f, s)}
                 ELSE IF w = MaxLine THEN {} ELSE g[Least(2 * w, MaxLine)]
  <2>1. CASE Stop(f, s) < s + w \/ Len(f) < s + w
    <3>1. Stop(f, s) < s + MaxLine \/ Len(f) < s + MaxLine
      BY <1>1, <2>1
    <3> QED BY <2>1, <3>1 DEF Whole
  <2>2. CASE ~ (Stop(f, s) < s + w \/ Len(f) < s + w) /\ w = MaxLine
    BY <2>2 DEF Whole
  <2>3. CASE ~ (Stop(f, s) < s + w \/ Len(f) < s + w) /\ w # MaxLine
    <3>1. Least(2 * w, MaxLine) \in 1..MaxLine
      BY <1>1 DEF Least
    <3> HIDE DEF c
    <3>2. g[Least(2 * w, MaxLine)] = c
      BY <3>1
    <3> QED BY <2>3, <3>2
  <2> QED BY <2>1, <2>2, <2>3
<1>3. \A w \in 1..MaxLine : g[w] = c
  OBVIOUS
<1> HIDE DEF c
<1>4. Growing(f, s, g)
  BY <1>2, <1>3 DEF Growing
<1> QED BY <1>4

LEMMA GrowingIsWhole ==
  ASSUME NEW f, IsFile(f), NEW s \in 1..Len(f), NEW g, Growing(f, s, g),
         NEW v \in 1..MaxLine
  PROVE  g[v] = Whole(f, s)
<1> DEFINE T == {n \in Nat : \A w \in 1..MaxLine : MaxLine - w <= n => g[w] = Whole(f, s)}
<1>1. MaxLine \in Nat /\ MaxLine >= 1 /\ Stop(f, s) \in Nat /\ Len(f) \in Nat
  BY LinesAssumption, StopFacts DEF IsFile
<1>2. \A w \in 1..MaxLine :
        g[w] = IF Stop(f, s) < s + w \/ Len(f) < s + w THEN {Line(f, s)}
               ELSE IF w = MaxLine THEN {} ELSE g[Least(2 * w, MaxLine)]
  BY DEF Growing
<1>3. ASSUME NEW w \in 1..MaxLine, w # MaxLine => g[Least(2 * w, MaxLine)] = Whole(f, s)
      PROVE  g[w] = Whole(f, s)
  <2>1. CASE Stop(f, s) < s + w \/ Len(f) < s + w
    <3>1. Stop(f, s) < s + MaxLine \/ Len(f) < s + MaxLine
      BY <1>1, <2>1
    <3> QED BY <1>2, <2>1, <3>1 DEF Whole
  <2>2. CASE ~ (Stop(f, s) < s + w \/ Len(f) < s + w) /\ w = MaxLine
    BY <1>2, <2>2 DEF Whole
  <2>3. CASE ~ (Stop(f, s) < s + w \/ Len(f) < s + w) /\ w # MaxLine
    BY <1>2, <1>3, <2>3
  <2> QED BY <2>1, <2>2, <2>3
<1>4. 0 \in T
  <2> SUFFICES ASSUME NEW w \in 1..MaxLine, MaxLine - w <= 0 PROVE g[w] = Whole(f, s)
    OBVIOUS
  <2>1. w = MaxLine
    BY <1>1
  <2> QED BY <1>3, <2>1
<1>5. ASSUME NEW n \in Nat, n \in T PROVE n + 1 \in T
  <2> SUFFICES ASSUME NEW w \in 1..MaxLine, MaxLine - w <= n + 1 PROVE g[w] = Whole(f, s)
    OBVIOUS
  <2>1. ASSUME w # MaxLine PROVE g[Least(2 * w, MaxLine)] = Whole(f, s)
    <3>1. Least(2 * w, MaxLine) \in 1..MaxLine /\ MaxLine - Least(2 * w, MaxLine) <= n
      BY <1>1, <2>1 DEF Least
    <3> QED BY <1>5, <3>1
  <2> QED BY <1>3, <2>1
<1> HIDE DEF T
<1>6. \A n \in Nat : n \in T
  BY <1>4, <1>5, Induction
<1>7. MaxLine - v \in Nat
  BY <1>1
<1>8. MaxLine - v \in T
  BY <1>6, <1>7
<1> QED BY <1>7, <1>8 DEF T

LEMMA RecoveredFacts ==
  ASSUME NEW f, IsFile(f), NEW s \in 1..Len(f)
  PROVE  /\ Recovered(f, s) \subseteq {Line(f, s)}
         /\ ~ TooLong(f, s) /\ ~ Blank(Line(f, s)) => Line(f, s) \in Recovered(f, s)
<1> DEFINE g == CHOOSE g : Growing(f, s, g)
           v == Least(2 * Overlap, MaxLine)
<1>1. v \in 1..MaxLine
  BY LinesAssumption DEF Least
<1>2. Growing(f, s, g)
  BY GrowingExists
<1>3. Recovered(f, s) = NoBlanks(g[v])
  BY DEF Recovered, Growing
<1> HIDE DEF g, v
<1>4. Recovered(f, s) = NoBlanks(Whole(f, s))
  BY <1>1, <1>2, <1>3, GrowingIsWhole
<1>5. ~ TooLong(f, s) => Stop(f, s) < s + MaxLine
  BY LinesAssumption, StopFacts DEF TooLong
<1> QED BY <1>4, <1>5 DEF NoBlanks, Whole

----------------------------------------------------------------------------
(* Chunks.                                                                 *)

IsJob(f, job) ==
  job.first \in Nat /\ job.last \in Nat /\ 1 <= job.first /\ job.first <= job.last
  /\ job.last <= Len(f)
StartsIn(f, job) == {s \in LineStarts(f) : job.first <= s /\ s <= job.last}

LEMMA ReadEndFacts ==
  ASSUME NEW f, IsFile(f), NEW job, IsJob(f, job)
  PROVE  ReadEnd(f, job) \in Nat /\ job.last <= ReadEnd(f, job) /\ ReadEnd(f, job) <= Len(f)
BY LinesAssumption DEF IsFile, IsJob, ReadEnd, Least

(* A reader takes the lines that begin in its chunk, and no others.        *)
LEMMA OwnedIsStartsIn ==
  ASSUME NEW f, IsFile(f), NEW job, IsJob(f, job)
  PROVE  Owned(f, job) = StartsIn(f, job)
<1> DEFINE e == ReadEnd(f, job)
<1>1. /\ job.first \in Nat /\ job.last \in Nat /\ 1 <= job.first /\ job.first <= job.last
      /\ job.last <= Len(f) /\ Len(f) \in Nat /\ e \in Nat /\ job.last <= e /\ e <= Len(f)
  BY ReadEndFacts DEF IsJob, IsFile
<1>2. CASE job.first = 1
  BY <1>1, <1>2 DEF Owned, FirstStart, StartsIn, LineStarts, StartsLine
<1>3. CASE job.first # 1
  <2> DEFINE i == job.first - 1
             S == {k \in i..e : f[k] = "lf"}
  <2>1. i \in Nat /\ i >= 1 /\ S \in SUBSET Nat
    BY <1>1, <1>3
  <2>2. \A s \in job.first..job.last : f[s - 1] = "lf" => s - 1 \in S
    BY <1>1, <1>3
  <2>3. FirstStart(f, job) = IF S = {} THEN e + 1 ELSE Min(S) + 1
    BY <1>3 DEF FirstStart, AfterBreak
  <2>4. \A s \in StartsIn(f, job) : s \in job.first..job.last /\ f[s - 1] = "lf"
    BY <1>1, <1>3 DEF StartsIn, LineStarts, StartsLine
  <2>5. \A s \in job.first..job.last : f[s - 1] = "lf" => s \in StartsIn(f, job)
    BY <1>1, <1>3 DEF StartsIn, LineStarts, StartsLine
  <2>6. CASE S = {}
    <3>1. FirstStart(f, job) = e + 1
      BY <2>3, <2>6
    <3>2. Owned(f, job) = {}
      BY <1>1, <3>1 DEF Owned
    <3> QED BY <2>2, <2>4, <2>6, <3>2
  <2>7. CASE S # {}
    <3> DEFINE m == Min(S)
    <3>1. m \in S /\ \A k \in S : m <= k
      BY <2>1, <2>7, MinFacts
    <3> HIDE DEF m
    <3>3. m \in Nat /\ i <= m /\ f[m] = "lf" /\ \A k \in S : m <= k
      BY <1>1, <2>1, <3>1
    <3> HIDE DEF S
    <3>4. FirstStart(f, job) = m + 1
      BY <2>3, <2>7 DEF m
    <3>5. ASSUME NEW s \in Owned(f, job) PROVE s \in StartsIn(f, job)
      <4>1. s \in (m + 1)..job.last /\ (s = m + 1 \/ f[s - 1] = "lf")
        BY <3>4 DEF Owned
      <4>2. s \in job.first..job.last /\ f[s - 1] = "lf"
        BY <1>1, <2>1, <3>3, <4>1
      <4> QED BY <2>5, <4>2
    <3>6. ASSUME NEW s \in StartsIn(f, job) PROVE s \in Owned(f, job)
      <4>1. s \in job.first..job.last /\ f[s - 1] = "lf" /\ s - 1 \in S
        BY <2>2, <2>4
      <4>2. s \in (m + 1)..job.last
        BY <1>1, <3>3, <4>1
      <4> QED BY <3>4, <4>1, <4>2 DEF Owned
    <3> QED BY <3>5, <3>6
  <2> QED BY <2>6, <2>7
<1> QED BY <1>2, <1>3

(* What a reader has after a chunk: its lines, but for one to recover.     *)
LEMMA ChunkFacts ==
  ASSUME NEW f, IsFile(f), NEW job, IsJob(f, job)
  PROVE  /\ Unfinished(f, job) \subseteq StartsIn(f, job)
         /\ \A s, t \in Unfinished(f, job) : s = t
         /\ ChunkLines(f, job) \subseteq LinesAt(f, StartsIn(f, job))
         /\ ChunkLines(f, job) \cap LinesAt(f, Unfinished(f, job)) = {}
         /\ \A s \in StartsIn(f, job) :
              \/ Blank(Line(f, s)) \/ Line(f, s) \in ChunkLines(f, job)
              \/ s \in Unfinished(f, job)
<1>1. Owned(f, job) = StartsIn(f, job)
  BY OwnedIsStartsIn
<1>2. \A s \in StartsIn(f, job) :
        s \in 1..Len(f) /\ s \in Nat /\ StartsLine(f, s) /\ job.first <= s /\ s <= job.last
  BY DEF StartsIn, LineStarts, IsFile
<1>3. /\ Complete(f, job) \subseteq StartsIn(f, job)
      /\ Unfinished(f, job) = StartsIn(f, job) \ Complete(f, job)
      /\ \A s \in StartsIn(f, job) : Stop(f, s) <= ReadEnd(f, job) => s \in Complete(f, job)
  BY <1>1 DEF Complete, Unfinished
<1>4. ASSUME NEW s \in Unfinished(f, job), NEW t \in Unfinished(f, job), s < t PROVE FALSE
  <2>1. s \in 1..Len(f) /\ t \in 1..Len(f) /\ t <= job.last /\ job.last \in Nat
    BY <1>2, <1>3 DEF IsJob
  <2>2. f[t - 1] = "lf" /\ t - 1 \in s..Len(f)
    BY <1>2, <1>3, <1>4, <2>1 DEF StartsLine, IsFile
  <2>3. Stop(f, s) \in Nat /\ Stop(f, s) <= t - 1
    BY <2>1, <2>2, StopFacts
  <2>4. Stop(f, s) <= ReadEnd(f, job)
    BY <2>1, <2>3, ReadEndFacts
  <2> QED BY <1>3, <2>4
<1>5. \A s, t \in Unfinished(f, job) : s = t
  <2> SUFFICES ASSUME NEW s \in Unfinished(f, job), NEW t \in Unfinished(f, job) PROVE s = t
    OBVIOUS
  <2>1. s \in Nat /\ t \in Nat
    BY <1>2, <1>3
  <2> QED BY <1>4, <2>1
<1>6. ChunkLines(f, job) = {u \in LinesAt(f, Complete(f, job)) : ~ Blank(u)}
  BY DEF ChunkLines, NoBlanks
<1>7. Complete(f, job) \cap Unfinished(f, job) = {}
  BY <1>3
<1>8. /\ LinesAt(f, Complete(f, job)) \cap LinesAt(f, Unfinished(f, job)) = {}
      /\ LinesAt(f, Complete(f, job)) \subseteq LinesAt(f, StartsIn(f, job))
  BY <1>3, <1>7, LinesApart
<1>9. ASSUME NEW s \in StartsIn(f, job), ~ Blank(Line(f, s)), s \notin Unfinished(f, job)
      PROVE  Line(f, s) \in ChunkLines(f, job)
  <2>1. s \in Complete(f, job)
    BY <1>3, <1>9
  <2> QED BY <1>6, <1>9, <2>1 DEF LinesAt
<1> QED BY <1>3, <1>5, <1>6, <1>8, <1>9

----------------------------------------------------------------------------
(* The chunks of a file: each line begins in one of them.                  *)

(* The lines that begin in some of the chunks.                             *)
Unread(f, js) == LinesAt(f, {s \in LineStarts(f) : \E j \in js : j.first <= s /\ s <= j.last})

Chunks(f, js) ==
  /\ \A j \in js : IsJob(f, j)
  /\ \A j, k \in js : j = k \/ j.last < k.first \/ k.last < j.first

LEMMA Times ==
  ASSUME NEW size \in Nat, NEW i \in Nat
  PROVE  /\ i * size \in Nat /\ (i + 1) * size = i * size + size
         /\ \A k \in Nat : i < k => i * size + size <= k * size
<1>1. i * size \in Nat /\ (i + 1) * size = i * size + size
  OBVIOUS
<1>2. ASSUME NEW k \in Nat, i < k PROVE i * size + size <= k * size
  <2>1. PICK d \in Nat : k = i + 1 + d
    <3>1. k - i - 1 \in Nat /\ k = i + 1 + (k - i - 1)
      BY <1>2
    <3> QED BY <3>1
  <2>2. k * size = i * size + size + d * size /\ d * size \in Nat
    BY <2>1
  <2> QED BY <1>1, <2>2
<1> QED BY <1>1, <1>2

LEMMA JobsAreChunks ==
  ASSUME NEW f, IsFile(f), NEW size \in Nat \ {0}
  PROVE  Chunks(f, Jobs(f, size)) /\ Unread(f, Jobs(f, size)) = LinesAt(f, LineStarts(f))
<1> DEFINE I == {k \in 0..Len(f) : k * size < Len(f)}
           J(i) == [first |-> i * size + 1, last |-> Least((i + 1) * size, Len(f))]
           T == {n \in Nat : \A s \in 1..Len(f) : s <= n * size =>
                   \E j \in Jobs(f, size) : j.first <= s /\ s <= j.last}
<1>0. Len(f) \in Nat /\ size \in Nat /\ size >= 1
  BY DEF IsFile
<1>1. Jobs(f, size) = {J(i) : i \in I}
  BY DEF Jobs
<1>2. \A i \in I : /\ i \in Nat /\ i * size < Len(f)
                   /\ J(i).first = i * size + 1
                   /\ J(i).last = Least((i + 1) * size, Len(f))
  BY <1>0
<1>3. ASSUME NEW i \in I PROVE IsJob(f, J(i)) /\ J(i).last <= i * size + size
  <2>1. i * size \in Nat /\ (i + 1) * size = i * size + size /\ i * size < Len(f)
    BY <1>0, <1>2, Times
  <2> DEFINE a == i * size
  <2>2. a \in Nat /\ a < Len(f) /\ J(i).first = a + 1 /\ J(i).last = Least(a + size, Len(f))
    BY <1>2, <2>1
  <2> HIDE DEF a, J
  <2>3. IsJob(f, J(i)) /\ J(i).last <= a + size
    BY <1>0, <2>2 DEF IsJob, Least
  <2> QED BY <2>3 DEF a
<1> HIDE DEF J, I
<1>4. ASSUME NEW i \in I, NEW k \in I, i < k PROVE J(i).last < J(k).first
  <2>1. i * size + size <= k * size /\ i * size \in Nat /\ k * size \in Nat
    BY <1>0, <1>2, <1>4, Times
  <2>2. J(i).last \in Nat /\ J(i).last <= i * size + size /\ J(k).first = k * size + 1
    BY <1>2, <1>3 DEF IsJob
  <2> QED BY <1>0, <2>1, <2>2
<1>5. Chunks(f, Jobs(f, size))
  <2>1. ASSUME NEW i \in I, NEW k \in I
        PROVE  J(i) = J(k) \/ J(i).last < J(k).first \/ J(k).last < J(i).first
    <3>1. i = k \/ i < k \/ k < i
      BY <1>2
    <3> QED BY <1>4, <3>1
  <2> QED BY <1>1, <1>3, <2>1 DEF Chunks
<1>6. 0 \in T
  <2>1. 0 * size = 0
    BY <1>0
  <2> QED BY <1>0, <2>1
<1>7. ASSUME NEW n \in Nat, n \in T PROVE n + 1 \in T
  <2> SUFFICES ASSUME NEW s \in 1..Len(f), s <= (n + 1) * size
               PROVE  \E j \in Jobs(f, size) : j.first <= s /\ s <= j.last
    OBVIOUS
  <2>1. n * size \in Nat /\ (n + 1) * size = n * size + size
    BY <1>0, Times
  <2>2. CASE s <= n * size
    BY <1>7, <2>2
  <2>3. CASE ~ (s <= n * size)
    <3>1. n * size < Len(f) /\ n <= n * size
      <4>1. n * size < Len(f)
        BY <1>0, <2>1, <2>3
      <4>2. n * size = n * (size - 1) + n /\ n * (size - 1) \in Nat
        BY <1>0
      <4> QED BY <4>1, <4>2
    <3>2. n \in I
      BY <1>0, <2>1, <3>1 DEF I
    <3>3. J(n).first = n * size + 1 /\ J(n).last = Least(n * size + size, Len(f))
      BY <1>2, <2>1, <3>2
    <3>4. J(n).first <= s /\ s <= J(n).last
      BY <1>0, <2>1, <2>3, <3>3 DEF Least
    <3> QED BY <1>1, <3>2, <3>4
  <2> QED BY <2>2, <2>3
<1> HIDE DEF T
<1>8. Len(f) \in T
  BY <1>0, <1>6, <1>7, Induction
<1>9. ASSUME NEW s \in LineStarts(f)
      PROVE  \E j \in Jobs(f, size) : j.first <= s /\ s <= j.last
  <2>1. s \in 1..Len(f)
    BY DEF LineStarts
  <2>2. Len(f) * size = Len(f) * (size - 1) + Len(f) /\ Len(f) * (size - 1) \in Nat
    BY <1>0
  <2>3. s <= Len(f) * size
    BY <1>0, <2>1, <2>2
  <2> QED BY <1>8, <2>1, <2>3 DEF T
<1>10. Unread(f, Jobs(f, size)) = LinesAt(f, LineStarts(f))
  <2>1. {s \in LineStarts(f) : \E j \in Jobs(f, size) : j.first <= s /\ s <= j.last} = LineStarts(f)
    BY <1>9
  <2> QED BY <2>1 DEF Unread
<1> QED BY <1>5, <1>10

(* The scanner's only job is the file.                                     *)
LEMMA OneJob ==
  ASSUME NEW f, IsFile(f)
  PROVE  Jobs(f, Len(f) + 1) \subseteq {[first |-> 1, last |-> Len(f)]}
<1> DEFINE n == Len(f)
<1>1. n \in Nat
  BY DEF IsFile
<1>2. ASSUME NEW i \in 0..n, i * (n + 1) < n PROVE i = 0
  <2>1. i # 0 => i * (n + 1) = (i - 1) * (n + 1) + (n + 1) /\ (i - 1) * (n + 1) \in Nat
    BY <1>1
  <2> QED BY <1>1, <1>2, <2>1
<1>3. 0 * (n + 1) + 1 = 1 /\ Least((0 + 1) * (n + 1), n) = n
  BY <1>1 DEF Least
<1> QED BY <1>2, <1>3 DEF Jobs

(* One chunk less.                                                         *)
LEMMA NextChunk ==
  ASSUME NEW f, IsFile(f), NEW js, Chunks(f, js), NEW job \in js
  PROVE  /\ IsJob(f, job) /\ Chunks(f, js \ {job})
         /\ Unread(f, js) = LinesAt(f, StartsIn(f, job)) \cup Unread(f, js \ {job})
         /\ LinesAt(f, StartsIn(f, job)) \cap Unread(f, js \ {job}) = {}
<1> DEFINE S == StartsIn(f, job)
           R == {s \in LineStarts(f) : \E j \in js \ {job} : j.first <= s /\ s <= j.last}
           A == {s \in LineStarts(f) : \E j \in js : j.first <= s /\ s <= j.last}
<1>1. IsJob(f, job) /\ Chunks(f, js \ {job})
  BY DEF Chunks
<1>2. A = S \cup R
  BY DEF StartsIn
<1>3. S \cap R = {}
  <2> SUFFICES ASSUME NEW s \in LineStarts(f), job.first <= s, s <= job.last,
                      NEW j \in js, j # job, j.first <= s, s <= j.last
               PROVE  FALSE
    BY DEF StartsIn
  <2>1. s \in Nat
    BY DEF LineStarts, IsFile
  <2> QED BY <2>1 DEF Chunks, IsJob
<1>4. Unread(f, js) = LinesAt(f, A) /\ Unread(f, js \ {job}) = LinesAt(f, R)
  BY DEF Unread
<1> HIDE DEF A, R, S
<1>5. LinesAt(f, S \cup R) = LinesAt(f, S) \cup LinesAt(f, R) /\ LinesAt(f, S) \cap LinesAt(f, R) = {}
  BY <1>3, LinesApart
<1> QED BY <1>1, <1>2, <1>4, <1>5 DEF S

----------------------------------------------------------------------------
(* Lines on their way: each is in one place, and none that counts is lost. *)

PossibleLines(f) == LinesAt(f, LineStarts(f))
CertainLines(f) ==
  LinesAt(f, {s \in LineStarts(f) : ~ TooLong(f, s) /\ ~ Blank(Line(f, s))})

(* To be read, with a reader, in linesChan, with a parser, in resultsChan, *)
(* and collected.                                                          *)
OnePlace(U, R, Q, P, Z, D) ==
  /\ U \cap (R \cup Q \cup P \cup Z \cup D) = {} /\ R \cap (Q \cup P \cup Z \cup D) = {}
  /\ Q \cap (P \cup Z \cup D) = {} /\ P \cap (Z \cup D) = {} /\ Z \cap D = {}
Kept(C, e, U, R, Q, P, Z, D) ==
  /\ OnePlace(U, R, Q, P, Z, D)
  /\ e = "none" => C \subseteq U \cup R \cup Q \cup P \cup Z \cup D

LEMMA KeptRead ==
  ASSUME NEW C, NEW e, NEW U, NEW R, NEW Q, NEW P, NEW Z, NEW D,
         Kept(C, e, U, R, Q, P, Z, D),
         NEW d, NEW S, NEW V, NEW T, U = S \cup V, S \cap V = {}, T \subseteq S,
         d = "none" => e = "none" /\ C \cap S \subseteq T
  PROVE  Kept(C, d, V, R \cup T, Q, P, Z, D)
BY DEF Kept, OnePlace

(* A reader gives some of what it has to the channel, and may lose some.   *)
LEMMA KeptSend ==
  ASSUME NEW C, NEW e, NEW U, NEW R, NEW Q, NEW P, NEW Z, NEW D,
         Kept(C, e, U, R, Q, P, Z, D),
         NEW d, NEW V, NEW B, V \cup B \subseteq R, V \cap B = {},
         d = "none" => e = "none" /\ C \cap R \subseteq V \cup B
  PROVE  Kept(C, d, U, V, Q \cup B, P, Z, D)
BY DEF Kept, OnePlace

LEMMA KeptParse ==
  ASSUME NEW C, NEW e, NEW U, NEW R, NEW Q, NEW P, NEW Z, NEW D,
         Kept(C, e, U, R, Q, P, Z, D),
         NEW V, NEW B, Q = B \cup V, B \cap V = {}
  PROVE  Kept(C, e, U, R, V, P \cup B, Z, D)
BY DEF Kept, OnePlace

LEMMA KeptResults ==
  ASSUME NEW C, NEW e, NEW U, NEW R, NEW Q, NEW P, NEW Z, NEW D,
         Kept(C, e, U, R, Q, P, Z, D),
         NEW B, B \subseteq P
  PROVE  Kept(C, e, U, R, Q, P \ B, Z \cup B, D)
BY DEF Kept, OnePlace

LEMMA KeptCollect ==
  ASSUME NEW C, NEW e, NEW U, NEW R, NEW Q, NEW P, NEW Z, NEW D,
         Kept(C, e, U, R, Q, P, Z, D),
         NEW V, NEW B, Z = B \cup V, B \cap V = {}
  PROVE  Kept(C, e, U, R, Q, P, V, D \cup B)
BY DEF Kept, OnePlace

(* What a reader has.                                                      *)
Carried(f, v) == v.lines \cup LinesAt(f, v.tail)
Loads(f, rd) == [r \in Readers |-> Carried(f, rd[r])]
Load(f, v) ==
  /\ v = [lines |-> v.lines, tail |-> v.tail]
  /\ v.lines \subseteq PossibleLines(f) /\ v.tail \subseteq LineStarts(f)
  /\ \A s, t \in v.tail : s = t
  /\ v.lines \cap LinesAt(f, v.tail) = {}

Reading(f, rd) ==
  /\ rd = [r \in Readers |-> rd[r]]
  /\ \A r \in Readers : Load(f, rd[r])
  /\ Distinct(Loads(f, rd))

JobsInv ==
  /\ IsFile(file)
  /\ Chunks(file, jobs)
  /\ path \in {"stream", "chunks"}
  /\ path = "stream" => jobs \subseteq {[first |-> 1, last |-> Len(file)]}
ReadersInv == Reading(file, reader)
QueueInv ==
  /\ linesChan \in Seq(SUBSET PossibleLines(file)) /\ Distinct(linesChan)
  /\ parser \in [Parsers -> SUBSET PossibleLines(file)] /\ Distinct(parser)
  /\ resultsChan \in Seq(SUBSET PossibleLines(file)) /\ Distinct(resultsChan)
  /\ requests = SetToBag(DOMAIN requests)
  /\ DOMAIN requests \subseteq PossibleLines(file)
KeptInv ==
  Kept(CertainLines(file), readErr, Unread(file, jobs), Held(Loads(file, reader)),
       Held(linesChan), Held(parser), Held(resultsChan), DOMAIN requests)
ErrorInv ==
  /\ readErr \in {"none", "read", "too long"}
  /\ readErr = "too long" => \E s \in LineStarts(file) : TooLong(file, s)
PhaseInv ==
  /\ phase \in {"read", "parse", "collect", "returned"}
  /\ phase # "read" => jobs = {} /\ \A r \in Readers : reader[r] = Nothing
  /\ phase \in {"collect", "returned"} => linesChan = <<>> /\ \A p \in Parsers : parser[p] = {}
  /\ phase # "returned" => answer = Pending

ReadInv == JobsInv /\ ReadersInv /\ QueueInv /\ KeptInv /\ ErrorInv /\ PhaseInv

LEMMA NothingCarried ==
  ASSUME NEW f
  PROVE  Load(f, Nothing) /\ Carried(f, Nothing) = {}
BY DEF Load, Carried, Nothing, LinesAt

LEMMA EmptyHeld ==
  /\ Held(<<>>) = {} /\ Distinct(<<>>)
  /\ \A S : Held([x \in S |-> {}]) = {} /\ Distinct([x \in S |-> {}])
BY DEF Held, Distinct

(* A reader gets another load.                                             *)
Reloaded(rd, r, v, new) == new = [rd EXCEPT ![r] = v]

LEMMA PutLoad ==
  ASSUME NEW f, NEW rd, Reading(f, rd), NEW r \in Readers, NEW v, Load(f, v),
         NEW new, Reloaded(rd, r, v, new),
         Carried(f, v) \cap (Held(Loads(f, rd)) \ Carried(f, rd[r])) = {}
  PROVE  /\ Reading(f, new)
         /\ Held(Loads(f, new)) = (Held(Loads(f, rd)) \ Carried(f, rd[r])) \cup Carried(f, v)
         /\ Carried(f, rd[r]) \subseteq Held(Loads(f, rd))
<1> DEFINE g == Loads(f, rd)
           c == Carried(f, v)
<1>1. new = [q \in Readers |-> IF q = r THEN v ELSE rd[q]]
  BY DEF Reading, Reloaded
<1>2. /\ new = [q \in Readers |-> new[q]] /\ new[r] = v
      /\ \A q \in Readers : q # r => new[q] = rd[q]
  BY <1>1
<1>3. \A q \in Readers : Load(f, new[q])
  BY <1>2 DEF Reading
<1>4. Loads(f, new) = [g EXCEPT ![r] = c]
  BY <1>2 DEF Loads
<1>5. r \in DOMAIN g /\ g[r] = Carried(f, rd[r]) /\ Distinct(g)
  BY DEF Loads, Reading
<1> HIDE DEF c, g
<1>6. Held([g EXCEPT ![r] = c]) = (Held(g) \ g[r]) \cup c /\ Distinct([g EXCEPT ![r] = c])
  <2>1. c \cap (Held(g) \ g[r]) = {}
    BY <1>5 DEF c, g
  <2> QED BY <1>5, <2>1, HeldPut
<1>7. g[r] \subseteq Held(g)
  BY <1>5 DEF Held
<1>8. Reading(f, new)
  BY <1>2, <1>3, <1>4, <1>6 DEF Reading
<1>9. Held(Loads(f, new)) = (Held(g) \ g[r]) \cup c
  BY <1>4, <1>6
<1> QED BY <1>5, <1>7, <1>8, <1>9 DEF c, g

LEMMA ReadInitInv == ReadInit => ReadInv
<1> SUFFICES ASSUME ReadInit PROVE ReadInv
  OBVIOUS
<1>1. file \in Seq(Range(file))
  BY ChunksAssumption DEF ReadInit
<1>2. IsFile(file)
  BY <1>1 DEF IsFile
<1>3. PICK size \in ChunkSizes :
        jobs = Jobs(file, IF path = "chunks" THEN size ELSE Len(file) + 1)
  BY DEF ReadInit
<1> DEFINE n == IF path = "chunks" THEN size ELSE Len(file) + 1
<1>4. n \in Nat \ {0}
  BY <1>2, ChunksAssumption DEF IsFile
<1> HIDE DEF n
<1>5. Chunks(file, jobs) /\ Unread(file, jobs) = PossibleLines(file)
  BY <1>2, <1>3, <1>4, JobsAreChunks DEF n, PossibleLines
<1>6. JobsInv
  <2>1. path = "stream" => jobs \subseteq {[first |-> 1, last |-> Len(file)]}
    BY <1>2, <1>3, OneJob
  <2> QED BY <1>2, <1>5, <2>1 DEF JobsInv, ReadInit
<1>7. Loads(file, reader) = [r \in Readers |-> {}]
  BY NothingCarried DEF ReadInit, Loads
<1>8. Reading(file, reader) /\ Held(Loads(file, reader)) = {}
  <2>1. \A r \in Readers : Load(file, reader[r])
    BY NothingCarried DEF ReadInit
  <2>2. Distinct(Loads(file, reader)) /\ Held(Loads(file, reader)) = {}
    BY <1>7, EmptyHeld
  <2> QED BY <2>1, <2>2 DEF Reading, ReadInit
<1>9. DOMAIN requests = {} /\ requests = SetToBag(DOMAIN requests)
  BY DEF ReadInit, EmptyBag, SetToBag
<1>10. QueueInv
  <2>1. /\ linesChan = <<>> /\ resultsChan = <<>>
        /\ parser = [p \in Parsers |-> {}]
    BY DEF ReadInit
  <2>2. /\ linesChan \in Seq(SUBSET PossibleLines(file)) /\ resultsChan \in Seq(SUBSET PossibleLines(file))
        /\ parser \in [Parsers -> SUBSET PossibleLines(file)]
    BY <2>1
  <2> QED BY <1>9, <2>1, <2>2, EmptyHeld DEF QueueInv
<1>11. CertainLines(file) \subseteq PossibleLines(file)
  BY LinesApart DEF CertainLines, PossibleLines
<1>12. KeptInv
  <2>1. Held(linesChan) = {} /\ Held(resultsChan) = {} /\ Held(parser) = {}
    BY EmptyHeld DEF ReadInit
  <2>2. Kept(CertainLines(file), readErr, PossibleLines(file), {}, {}, {}, {}, {})
    BY <1>11 DEF Kept, OnePlace
  <2> QED BY <1>5, <1>8, <1>9, <2>1, <2>2 DEF KeptInv
<1>13. ErrorInv /\ PhaseInv
  BY DEF ReadInit, ErrorInv, PhaseInv
<1> QED BY <1>6, <1>8, <1>10, <1>12, <1>13 DEF ReadInv, ReadersInv

LEMMA LinesIn ==
  ASSUME NEW f, NEW job
  PROVE  LinesAt(f, StartsIn(f, job)) \subseteq PossibleLines(f)
BY LinesApart DEF StartsIn, PossibleLines

(* A reader that has nothing takes a job.                                  *)
LEMMA TakeJob ==
  ASSUME ReadInv, NEW r \in Readers, Idle(r), NEW job \in jobs, NEW v, Load(file, v),
         Carried(file, v) \subseteq LinesAt(file, StartsIn(file, job)),
         jobs' = jobs \ {job}, reader' = [reader EXCEPT ![r] = v],
         UNCHANGED <<fileVars, linesChan, parseVars, phase, answer>>,
         readErr' \in {"none", "read", "too long"},
         readErr' = "too long" => \E s \in LineStarts(file) : TooLong(file, s),
         readErr' = "none" =>
           /\ readErr = "none"
           /\ CertainLines(file) \cap LinesAt(file, StartsIn(file, job)) \subseteq Carried(file, v)
  PROVE  ReadInv'
<1> DEFINE f == file
           S == LinesAt(f, StartsIn(f, job))
           c == Carried(f, v)
<1>1. f' = f /\ path' = path
  BY DEF fileVars
<1>2. /\ IsJob(f, job) /\ Chunks(f, jobs \ {job})
      /\ Unread(f, jobs) = S \cup Unread(f, jobs \ {job})
      /\ S \cap Unread(f, jobs \ {job}) = {}
  BY NextChunk DEF ReadInv, JobsInv
<1>3. JobsInv'
  BY <1>1, <1>2 DEF ReadInv, JobsInv
<1>4. Carried(f, reader[r]) = {}
  BY NothingCarried DEF Idle
<1>5. Reading(f, reader)
  BY DEF ReadInv, ReadersInv
<1>6. Kept(CertainLines(f), readErr, Unread(f, jobs), Held(Loads(f, reader)),
           Held(linesChan), Held(parser), Held(resultsChan), DOMAIN requests)
  BY DEF ReadInv, KeptInv
<1>7. c \cap Held(Loads(f, reader)) = {}
  <2>1. Unread(f, jobs) \cap Held(Loads(f, reader)) = {}
    BY <1>6 DEF Kept, OnePlace
  <2> QED BY <1>2, <2>1
<1>8. Reading(f, reader') /\ Held(Loads(f, reader')) = Held(Loads(f, reader)) \cup c
  <2>1. c \cap (Held(Loads(f, reader)) \ Carried(f, reader[r])) = {}
    BY <1>7
  <2>2. /\ Reading(f, reader')
        /\ Held(Loads(f, reader')) = (Held(Loads(f, reader)) \ Carried(f, reader[r])) \cup c
    <3>1. Reloaded(reader, r, v, reader')
      BY DEF Reloaded
    <3> QED BY <1>5, <2>1, <3>1, PutLoad
  <2> QED BY <1>4, <2>2
<1> HIDE DEF c, S
<1>9. Kept(CertainLines(f), readErr', Unread(f, jobs'), Held(Loads(f, reader')),
           Held(linesChan), Held(parser), Held(resultsChan), DOMAIN requests)
  <2>1. c \subseteq S /\ (readErr' = "none" => readErr = "none" /\ CertainLines(f) \cap S \subseteq c)
    BY DEF c, S
  <2> HIDE DEF f
  <2>2. Kept(CertainLines(f), readErr', Unread(f, jobs \ {job}), Held(Loads(f, reader)) \cup c,
             Held(linesChan), Held(parser), Held(resultsChan), DOMAIN requests)
    BY <1>2, <1>6, <2>1, KeptRead
  <2> QED BY <1>8, <2>2
<1>10. /\ linesChan' = linesChan /\ parser' = parser /\ resultsChan' = resultsChan
       /\ requests' = requests /\ phase' = phase /\ answer' = answer
  BY DEF parseVars
<1>11. ReadersInv'
  BY <1>1, <1>8 DEF ReadersInv
<1>12. KeptInv'
  BY <1>1, <1>9, <1>10 DEF KeptInv
<1>13. QueueInv'
  BY <1>1, <1>10 DEF ReadInv, QueueInv
<1>14. ErrorInv'
  BY <1>1 DEF ErrorInv
<1>15. PhaseInv'
  BY <1>10 DEF ReadInv, PhaseInv
<1> QED BY <1>3, <1>11, <1>12, <1>13, <1>14, <1>15 DEF ReadInv

LEMMA CertainFrom ==
  ASSUME NEW f, NEW t \in CertainLines(f)
  PROVE  \E s \in LineStarts(f) : t = Line(f, s) /\ ~ TooLong(f, s) /\ ~ Blank(Line(f, s))
BY DEF CertainLines, LinesAt

LEMMA ReadChunkKeeps ==
  ASSUME ReadInv, NEW r \in Readers, ReadChunk(r)
  PROVE  ReadInv'
<1>1. PICK job \in jobs :
        /\ jobs' = jobs \ {job}
        /\ reader' = [reader EXCEPT
             ![r] = [lines |-> ChunkLines(file, job), tail |-> Unfinished(file, job)]]
  BY DEF ReadChunk
<1> DEFINE v == [lines |-> ChunkLines(file, job), tail |-> Unfinished(file, job)]
           S == LinesAt(file, StartsIn(file, job))
<1>2. IsFile(file) /\ IsJob(file, job)
  BY NextChunk DEF ReadInv, JobsInv
<1>3. /\ Unfinished(file, job) \subseteq StartsIn(file, job)
      /\ \A s, t \in Unfinished(file, job) : s = t
      /\ ChunkLines(file, job) \subseteq S
      /\ ChunkLines(file, job) \cap LinesAt(file, Unfinished(file, job)) = {}
      /\ \A s \in StartsIn(file, job) :
           \/ Blank(Line(file, s)) \/ Line(file, s) \in ChunkLines(file, job)
           \/ s \in Unfinished(file, job)
  BY <1>2, ChunkFacts
<1>4. Carried(file, v) \subseteq S
  BY <1>3, LinesApart DEF Carried
<1>5. Load(file, v)
  <2>1. S \subseteq PossibleLines(file)
    BY LinesIn
  <2>2. Unfinished(file, job) \subseteq LineStarts(file)
    BY <1>3 DEF StartsIn
  <2> QED BY <1>3, <2>1, <2>2 DEF Load
<1>6. CertainLines(file) \cap S \subseteq Carried(file, v)
  <2> SUFFICES ASSUME NEW t \in CertainLines(file), t \in S PROVE t \in Carried(file, v)
    OBVIOUS
  <2>1. PICK s \in StartsIn(file, job) : t = Line(file, s)
    BY DEF LinesAt
  <2>2. ~ Blank(t)
    BY CertainFrom
  <2> QED BY <1>3, <2>1, <2>2 DEF Carried, LinesAt
<1>7. /\ Idle(r) /\ UNCHANGED <<fileVars, linesChan, parseVars, phase, answer>> /\ readErr' = readErr
  BY DEF ReadChunk
<1>8. /\ readErr \in {"none", "read", "too long"}
      /\ readErr = "too long" => \E s \in LineStarts(file) : TooLong(file, s)
  BY DEF ReadInv, ErrorInv
<1> HIDE DEF v
<1>9. reader' = [reader EXCEPT ![r] = v] /\ jobs' = jobs \ {job}
  BY <1>1 DEF v
<1> QED BY <1>4, <1>5, <1>6, <1>7, <1>8, <1>9, TakeJob

(* The scanner passes on lines of the file, and all unless one is too long. *)
LEMMA ScannedFacts ==
  ASSUME NEW f
  PROVE  /\ Scannable(f) \subseteq LineStarts(f) /\ Scanned(f) \subseteq PossibleLines(f)
         /\ Scannable(f) # LineStarts(f) => \E s \in LineStarts(f) : TooLong(f, s)
         /\ Scannable(f) = LineStarts(f) => CertainLines(f) \subseteq Scanned(f)
<1>1. Scannable(f) \subseteq LineStarts(f)
  BY DEF Scannable
<1>2. Scanned(f) \subseteq PossibleLines(f)
  BY <1>1, LinesApart DEF Scanned, PossibleLines
<1>3. Scannable(f) # LineStarts(f) => \E s \in LineStarts(f) : TooLong(f, s)
  BY DEF Scannable
<1>4. CertainLines(f) \subseteq PossibleLines(f)
  BY LinesApart DEF CertainLines, PossibleLines
<1> QED BY <1>1, <1>2, <1>3, <1>4 DEF Scanned, PossibleLines

(* The scanner's job has all lines.                                        *)
LEMMA WholeFile ==
  ASSUME JobsInv, path = "stream", NEW job \in jobs
  PROVE  /\ LinesAt(file, StartsIn(file, job)) = PossibleLines(file) /\ jobs \ {job} = {}
<1>1. job = [first |-> 1, last |-> Len(file)] /\ jobs \ {job} = {}
  BY DEF JobsInv
<1>2. job.first = 1 /\ job.last = Len(file)
  BY <1>1
<1>3. StartsIn(file, job) = LineStarts(file)
  BY <1>2 DEF StartsIn, LineStarts, JobsInv, IsFile
<1> QED BY <1>1, <1>3 DEF PossibleLines

LEMMA LinesOnly ==
  ASSUME NEW f, NEW S, S \subseteq PossibleLines(f)
  PROVE  Load(f, [lines |-> S, tail |-> {}]) /\ Carried(f, [lines |-> S, tail |-> {}]) = S
BY DEF Load, Carried, LinesAt

LEMMA ScanKeeps ==
  ASSUME ReadInv, NEW r \in Readers, Scan(r)
  PROVE  ReadInv'
<1>1. PICK job : job \in jobs
  BY DEF Scan
<1> DEFINE v == [lines |-> Scanned(file), tail |-> {}]
           S == LinesAt(file, StartsIn(file, job))
<1>2. S = PossibleLines(file) /\ jobs \ {job} = {}
  <2>1. JobsInv /\ path = "stream"
    BY DEF ReadInv, Scan
  <2> QED BY <1>1, <2>1, WholeFile
<1>3. Load(file, v) /\ Carried(file, v) = Scanned(file)
  BY ScannedFacts, LinesOnly
<1>4. Carried(file, v) \subseteq S
  BY <1>2, <1>3, ScannedFacts
<1>5. /\ readErr \in {"none", "read", "too long"}
      /\ readErr = "too long" => \E s \in LineStarts(file) : TooLong(file, s)
  BY DEF ReadInv, ErrorInv
<1>6. /\ Idle(r) /\ UNCHANGED <<fileVars, linesChan, parseVars, phase, answer>>
      /\ reader' = [reader EXCEPT ![r] = v] /\ jobs' = jobs \ {job}
      /\ readErr' = IF Scannable(file) = LineStarts(file) THEN readErr
                    ELSE IF readErr = "none" THEN "too long" ELSE readErr
  BY <1>2 DEF Scan, FirstError
<1> HIDE DEF v
<1>7. /\ readErr' \in {"none", "read", "too long"}
      /\ readErr' = "too long" => \E s \in LineStarts(file) : TooLong(file, s)
  BY <1>5, <1>6, ScannedFacts
<1>8. readErr' = "none" => readErr = "none" /\ CertainLines(file) \cap S \subseteq Carried(file, v)
  BY <1>3, <1>6, ScannedFacts
<1> QED BY <1>1, <1>3, <1>4, <1>6, <1>7, <1>8, TakeJob

LEMMA ReadErrorFacts ==
  ASSUME ErrorInv
  PROVE  /\ ReadError \in {"read", "too long"}
         /\ ReadError = "too long" => \E s \in LineStarts(file) : TooLong(file, s)
BY DEF ErrorInv, ReadError, FirstError

LEMMA ReadFailsKeeps ==
  ASSUME ReadInv, NEW r \in Readers, ReadFails(r)
  PROVE  ReadInv'
<1>1. PICK job \in jobs, got \in GotBefore :
        /\ jobs' = jobs \ {job}
        /\ reader' = [reader EXCEPT ![r] = [lines |-> got, tail |-> {}]]
  BY DEF ReadFails
<1> DEFINE v == [lines |-> got, tail |-> {}]
           S == LinesAt(file, StartsIn(file, job))
<1>2. got \subseteq S /\ got \subseteq PossibleLines(file)
  <2>1. CASE path = "chunks"
    BY <2>1 DEF GotBefore
  <2>2. CASE path # "chunks"
    <3>1. JobsInv /\ path = "stream"
      BY <2>2 DEF ReadInv, JobsInv
    <3>2. S = PossibleLines(file)
      BY <3>1, WholeFile
    <3>3. got \subseteq Scanned(file)
      BY <2>2 DEF GotBefore
    <3> QED BY <3>2, <3>3, ScannedFacts
  <2> QED BY <2>1, <2>2
<1>3. Load(file, v) /\ Carried(file, v) = got
  BY <1>2, LinesOnly
<1>4. /\ Idle(r) /\ UNCHANGED <<fileVars, linesChan, parseVars, phase, answer>>
      /\ reader' = [reader EXCEPT ![r] = v] /\ jobs' = jobs \ {job} /\ readErr' = ReadError
  BY <1>1 DEF ReadFails
<1> HIDE DEF v
<1>5. /\ readErr' \in {"none", "read", "too long"} /\ readErr' # "none"
      /\ readErr' = "too long" => \E s \in LineStarts(file) : TooLong(file, s)
  BY <1>4, ReadErrorFacts DEF ReadInv
<1> QED BY <1>2, <1>3, <1>4, <1>5, TakeJob

(* A reader that has something is not done.                                *)
LEMMA StillReading ==
  ASSUME PhaseInv, NEW r \in Readers, reader[r] # Nothing
  PROVE  phase = "read" /\ answer = Pending
BY DEF PhaseInv

(* A reader gives the lines B on, and is left with v.                      *)
LEMMA GiveOn ==
  ASSUME ReadInv, NEW r \in Readers, NEW v, Load(file, v), NEW B, NEW d,
         Carried(file, v) \cup B \subseteq Carried(file, reader[r]), Carried(file, v) \cap B = {},
         Reloaded(reader, r, v, reader'),
         d = "none" => /\ readErr = "none"
                       /\ CertainLines(file) \cap Carried(file, reader[r]) \subseteq Carried(file, v) \cup B
  PROVE  /\ Reading(file, reader')
         /\ Kept(CertainLines(file), d, Unread(file, jobs), Held(Loads(file, reader')),
                 Held(linesChan) \cup B, Held(parser), Held(resultsChan), DOMAIN requests)
         /\ B \subseteq PossibleLines(file) /\ B \cap Held(linesChan) = {}
<1> DEFINE H == Held(Loads(file, reader))
           a == Carried(file, reader[r])
           c == Carried(file, v)
           V == (H \ a) \cup c
<1>1. Reading(file, reader)
  BY DEF ReadInv, ReadersInv
<1>2. c \cap (H \ a) = {}
  OBVIOUS
<1>3. Reading(file, reader') /\ Held(Loads(file, reader')) = V /\ a \subseteq H
  BY <1>1, <1>2, PutLoad
<1>4. Kept(CertainLines(file), readErr, Unread(file, jobs), H,
           Held(linesChan), Held(parser), Held(resultsChan), DOMAIN requests)
  BY DEF ReadInv, KeptInv
<1>5. a \subseteq PossibleLines(file)
  <2>1. reader[r].lines \subseteq PossibleLines(file) /\ reader[r].tail \subseteq LineStarts(file)
    BY <1>1 DEF Reading, Load
  <2> QED BY <2>1, LinesApart DEF Carried, PossibleLines
<1>6. c \cup B \subseteq a /\ c \cap B = {}
  OBVIOUS
<1>7. d = "none" => readErr = "none" /\ CertainLines(file) \cap a \subseteq c \cup B
  OBVIOUS
<1> HIDE DEF H, a, c
<1>8. /\ V \cup B \subseteq H /\ V \cap B = {}
      /\ d = "none" => readErr = "none" /\ CertainLines(file) \cap H \subseteq V \cup B
  BY <1>3, <1>6, <1>7
<1> HIDE DEF V
<1>9. Kept(CertainLines(file), d, Unread(file, jobs), V,
           Held(linesChan) \cup B, Held(parser), Held(resultsChan), DOMAIN requests)
  BY <1>4, <1>8, KeptSend
<1>10. B \cap Held(linesChan) = {}
  BY <1>4, <1>8 DEF Kept, OnePlace
<1> QED BY <1>3, <1>5, <1>6, <1>9, <1>10

LEMMA SendBatchKeeps ==
  ASSUME ReadInv, NEW r \in Readers, SendBatch(r)
  PROVE  ReadInv'
<1> DEFINE old == reader[r]
<1>1. PICK batch \in SUBSET old.lines :
        /\ linesChan' = Append(linesChan, batch)
        /\ reader' = [reader EXCEPT ![r] = [lines |-> old.lines \ batch, tail |-> old.tail]]
  BY DEF SendBatch
<1> DEFINE v == [lines |-> old.lines \ batch, tail |-> old.tail]
<1>2. Load(file, old)
  BY DEF ReadInv, ReadersInv, Reading
<1>3. Load(file, v)
  BY <1>2 DEF Load
<1>4. /\ Carried(file, v) \cup batch = Carried(file, old)
      /\ Carried(file, v) \cap batch = {}
  BY <1>2 DEF Carried, Load
<1>5. phase = "read"
  <2>1. old # Nothing
    <3> SUFFICES ASSUME old = Nothing PROVE FALSE
      OBVIOUS
    <3>1. old.lines = {}
      BY DEF Nothing
    <3>2. Cardinality({}) = 0 /\ ~ (0 >= BatchSize)
      BY FS_EmptySet, ChunksAssumption
    <3> QED BY <3>1, <3>2 DEF SendBatch, BatchReady
  <2> HIDE DEF old
  <2> QED BY <2>1, StillReading DEF ReadInv, old
<1>6. /\ file' = file /\ path' = path /\ jobs' = jobs /\ parser' = parser
      /\ resultsChan' = resultsChan /\ requests' = requests /\ readErr' = readErr
      /\ phase' = phase /\ answer' = answer
  BY DEF SendBatch, fileVars, parseVars
<1>7. Reloaded(reader, r, v, reader')
  BY <1>1 DEF Reloaded
<1> HIDE DEF v
<1>8. /\ Reading(file, reader')
      /\ Kept(CertainLines(file), readErr, Unread(file, jobs), Held(Loads(file, reader')),
              Held(linesChan) \cup batch, Held(parser), Held(resultsChan), DOMAIN requests)
      /\ batch \subseteq PossibleLines(file) /\ batch \cap Held(linesChan) = {}
  BY <1>3, <1>4, <1>7, GiveOn
<1>9. Longer(PossibleLines(file), linesChan, batch, linesChan')
  <2>1. Fits(PossibleLines(file), linesChan, batch)
    BY <1>8 DEF Fits, ReadInv, QueueInv
  <2> QED BY <1>1, <2>1, HeldAppend
<1>10. Held(linesChan') = Held(linesChan) \cup batch
  BY <1>9 DEF Longer
<1>11. QueueInv'
  BY <1>6, <1>9 DEF ReadInv, QueueInv, Longer
<1>12. KeptInv'
  BY <1>6, <1>8, <1>10 DEF KeptInv
<1>13. JobsInv' /\ ReadersInv' /\ ErrorInv'
  BY <1>6, <1>8 DEF ReadInv, JobsInv, ReadersInv, ErrorInv
<1>14. PhaseInv'
  BY <1>5, <1>6 DEF ReadInv, PhaseInv
<1> QED BY <1>11, <1>12, <1>13, <1>14 DEF ReadInv

(* A reader has recovered the rest of its chunk, or has given it up.       *)
LEMMA RecoverOrNot ==
  ASSUME ReadInv, NEW r \in Readers, reader[r].tail # {}, NEW lines,
         lines \subseteq Carried(file, reader[r]),
         reader' = [reader EXCEPT ![r] = [lines |-> lines, tail |-> {}]],
         UNCHANGED <<fileVars, jobs, linesChan, parseVars, phase, answer>>,
         readErr' \in {"none", "read", "too long"},
         readErr' = "too long" => \E s \in LineStarts(file) : TooLong(file, s),
         readErr' = "none" =>
           /\ readErr = "none"
           /\ CertainLines(file) \cap Carried(file, reader[r]) \subseteq lines
  PROVE  ReadInv'
<1> DEFINE v == [lines |-> lines, tail |-> {}]
<1>1. lines \subseteq PossibleLines(file)
  <2>1. reader[r].lines \subseteq PossibleLines(file) /\ reader[r].tail \subseteq LineStarts(file)
    BY DEF ReadInv, ReadersInv, Reading, Load
  <2>2. Carried(file, reader[r]) \subseteq PossibleLines(file)
    BY <2>1, LinesApart DEF Carried, PossibleLines
  <2> QED BY <2>2
<1>2. Load(file, v) /\ Carried(file, v) = lines
  BY <1>1, LinesOnly
<1>3. Reloaded(reader, r, v, reader')
  BY DEF Reloaded
<1> HIDE DEF v
<1>4. /\ Reading(file, reader')
      /\ Kept(CertainLines(file), readErr', Unread(file, jobs), Held(Loads(file, reader')),
              Held(linesChan) \cup {}, Held(parser), Held(resultsChan), DOMAIN requests)
  <2>1. /\ Carried(file, v) \cup {} \subseteq Carried(file, reader[r]) /\ Carried(file, v) \cap {} = {}
        /\ readErr' = "none" =>
             /\ readErr = "none"
             /\ CertainLines(file) \cap Carried(file, reader[r]) \subseteq Carried(file, v) \cup {}
    BY <1>2
  <2> QED BY <1>2, <1>3, <2>1, GiveOn
<1>5. /\ file' = file /\ path' = path /\ jobs' = jobs /\ linesChan' = linesChan /\ parser' = parser
      /\ resultsChan' = resultsChan /\ requests' = requests /\ phase' = phase /\ answer' = answer
  BY DEF fileVars, parseVars
<1>6. phase = "read"
  <2>1. reader[r] # Nothing
    <3>1. Nothing.tail = {}
      BY DEF Nothing
    <3> QED BY <3>1
  <2> QED BY <2>1, StillReading DEF ReadInv
<1>7. KeptInv'
  <2>1. Held(linesChan) \cup {} = Held(linesChan)
    OBVIOUS
  <2> QED BY <1>4, <1>5, <2>1 DEF KeptInv
<1>8. JobsInv' /\ ReadersInv' /\ ErrorInv'
  BY <1>4, <1>5 DEF ReadInv, JobsInv, ReadersInv, ErrorInv
<1>9. QueueInv'
  BY <1>5 DEF ReadInv, QueueInv
<1>10. PhaseInv'
  BY <1>5, <1>6 DEF ReadInv, PhaseInv
<1> QED BY <1>7, <1>8, <1>9, <1>10 DEF ReadInv

LEMMA RecoverKeeps ==
  ASSUME ReadInv, NEW r \in Readers, Recover(r)
  PROVE  ReadInv'
<1> DEFINE old == reader[r]
<1>1. PICK s \in old.tail :
        reader' = [reader EXCEPT ![r] = [lines |-> old.lines \cup Recovered(file, s), tail |-> {}]]
  BY DEF Recover
<1> DEFINE lines == old.lines \cup Recovered(file, s)
<1>2. Load(file, old)
  BY DEF ReadInv, ReadersInv, Reading
<1>3. s \in 1..Len(file) /\ old.tail = {s} /\ IsFile(file)
  BY <1>2 DEF Load, LineStarts, ReadInv, JobsInv
<1>4. Carried(file, old) = old.lines \cup {Line(file, s)}
  BY <1>3 DEF Carried, LinesAt
<1>5. lines \subseteq Carried(file, old)
  BY <1>3, <1>4, RecoveredFacts
<1>6. CertainLines(file) \cap Carried(file, old) \subseteq lines
  <2> SUFFICES ASSUME NEW t \in CertainLines(file), t \in Carried(file, old), t \notin old.lines
               PROVE  t \in Recovered(file, s)
    OBVIOUS
  <2>1. t = Line(file, s)
    BY <1>4
  <2>2. PICK u \in LineStarts(file) : t = Line(file, u) /\ ~ TooLong(file, u) /\ ~ Blank(Line(file, u))
    BY CertainFrom
  <2>3. u = s
    <3>1. Line(file, s).from = s /\ Line(file, u).from = u
      BY LineFrom
    <3> QED BY <2>1, <2>2, <3>1
  <2> QED BY <1>3, <2>2, <2>3, RecoveredFacts
<1>7. /\ readErr' = readErr
      /\ UNCHANGED <<fileVars, jobs, linesChan, parseVars, phase, answer>>
  BY DEF Recover
<1>8. /\ readErr \in {"none", "read", "too long"}
      /\ readErr = "too long" => \E t \in LineStarts(file) : TooLong(file, t)
  BY DEF ReadInv, ErrorInv
<1> HIDE DEF lines
<1>9. reader' = [reader EXCEPT ![r] = [lines |-> lines, tail |-> {}]]
  BY <1>1 DEF lines
<1>10. old.tail # {}
  BY <1>1
<1> QED BY <1>5, <1>6, <1>7, <1>8, <1>9, <1>10, RecoverOrNot

LEMMA RecoverFailsKeeps ==
  ASSUME ReadInv, NEW r \in Readers, RecoverFails(r)
  PROVE  ReadInv'
<1>1. reader[r].lines \subseteq Carried(file, reader[r])
  BY DEF Carried
<1>2. /\ readErr' \in {"none", "read", "too long"} /\ readErr' # "none"
      /\ readErr' = "too long" => \E s \in LineStarts(file) : TooLong(file, s)
  BY ReadErrorFacts DEF ReadInv, RecoverFails
<1>3. /\ reader[r].tail # {}
      /\ reader' = [reader EXCEPT ![r] = [lines |-> reader[r].lines, tail |-> {}]]
      /\ UNCHANGED <<fileVars, jobs, linesChan, parseVars, phase, answer>>
  BY DEF RecoverFails
<1> QED BY <1>1, <1>2, <1>3, RecoverOrNot

LEMMA ParseKeeps ==
  ASSUME ReadInv, NEW p \in Parsers, Parse(p)
  PROVE  ReadInv'
<1> DEFINE B == Head(linesChan)
<1>1. /\ linesChan' = Tail(linesChan) /\ parser' = [parser EXCEPT ![p] = B]
      /\ parser[p] = {} /\ linesChan # <<>>
  BY DEF Parse
<1>2. /\ file' = file /\ path' = path /\ jobs' = jobs /\ reader' = reader
      /\ resultsChan' = resultsChan /\ requests' = requests /\ readErr' = readErr
      /\ phase' = phase /\ answer' = answer
  BY DEF Parse, fileVars
<1>3. /\ linesChan \in Seq(SUBSET PossibleLines(file)) /\ Distinct(linesChan)
      /\ parser \in [Parsers -> SUBSET PossibleLines(file)] /\ Distinct(parser)
  BY DEF ReadInv, QueueInv
<1>4. /\ linesChan' \in Seq(SUBSET PossibleLines(file)) /\ B \in SUBSET PossibleLines(file)
      /\ Held(linesChan) = B \cup Held(linesChan') /\ B \cap Held(linesChan') = {}
      /\ Distinct(linesChan')
  BY <1>1, <1>3, HeldTail
<1> HIDE DEF B
<1>5. Kept(CertainLines(file), readErr, Unread(file, jobs), Held(Loads(file, reader)),
           Held(linesChan), Held(parser), Held(resultsChan), DOMAIN requests)
  BY DEF ReadInv, KeptInv
<1>6. Kept(CertainLines(file), readErr, Unread(file, jobs), Held(Loads(file, reader)),
           Held(linesChan'), Held(parser) \cup B, Held(resultsChan), DOMAIN requests)
  BY <1>4, <1>5, KeptParse
<1>7. B \cap Held(parser) = {}
  BY <1>4, <1>5 DEF Kept, OnePlace
<1>8. Held(parser') = Held(parser) \cup B /\ Distinct(parser')
  <2>1. p \in DOMAIN parser
    BY <1>3
  <2>2. /\ Held([parser EXCEPT ![p] = B]) = (Held(parser) \ parser[p]) \cup B
        /\ B \cap (Held(parser) \ parser[p]) = {} => Distinct([parser EXCEPT ![p] = B])
    BY <1>3, <2>1, HeldPut
  <2> QED BY <1>1, <1>7, <2>2
<1>9. parser' \in [Parsers -> SUBSET PossibleLines(file)]
  BY <1>1, <1>3, <1>4
<1>10. QueueInv'
  BY <1>2, <1>4, <1>8, <1>9 DEF ReadInv, QueueInv
<1>11. KeptInv'
  BY <1>2, <1>6, <1>8 DEF KeptInv
<1>12. JobsInv' /\ ReadersInv' /\ ErrorInv'
  BY <1>2 DEF ReadInv, JobsInv, ReadersInv, ErrorInv
<1>13. PhaseInv'
  <2>1. PhaseInv
    BY DEF ReadInv
  <2>2. phase \notin {"collect", "returned"}
    BY <1>1, <2>1 DEF PhaseInv
  <2> QED BY <1>2, <2>1, <2>2 DEF PhaseInv
<1> QED BY <1>10, <1>11, <1>12, <1>13 DEF ReadInv

LEMMA SendResultsKeeps ==
  ASSUME ReadInv, NEW p \in Parsers, SendResults(p)
  PROVE  ReadInv'
<1> DEFINE B == parser[p]
<1>1. /\ resultsChan' = Append(resultsChan, B) /\ parser' = [parser EXCEPT ![p] = {}]
      /\ B # {}
  BY DEF SendResults
<1>2. /\ file' = file /\ path' = path /\ jobs' = jobs /\ reader' = reader
      /\ linesChan' = linesChan /\ requests' = requests /\ readErr' = readErr
      /\ phase' = phase /\ answer' = answer
  BY DEF SendResults, fileVars
<1>3. /\ resultsChan \in Seq(SUBSET PossibleLines(file)) /\ Distinct(resultsChan)
      /\ parser \in [Parsers -> SUBSET PossibleLines(file)] /\ Distinct(parser)
      /\ B \in SUBSET PossibleLines(file) /\ p \in DOMAIN parser
  BY DEF ReadInv, QueueInv
<1>4. B \subseteq Held(parser)
  BY <1>3 DEF Held
<1>5. Held(parser') = Held(parser) \ B /\ Distinct(parser')
  <2>1. /\ Held([parser EXCEPT ![p] = {}]) = (Held(parser) \ B) \cup {}
        /\ {} \cap (Held(parser) \ B) = {} => Distinct([parser EXCEPT ![p] = {}])
    BY <1>3, HeldPut
  <2> QED BY <1>1, <2>1
<1> HIDE DEF B
<1>6. Kept(CertainLines(file), readErr, Unread(file, jobs), Held(Loads(file, reader)),
           Held(linesChan), Held(parser), Held(resultsChan), DOMAIN requests)
  BY DEF ReadInv, KeptInv
<1>7. Kept(CertainLines(file), readErr, Unread(file, jobs), Held(Loads(file, reader)),
           Held(linesChan), Held(parser) \ B, Held(resultsChan) \cup B, DOMAIN requests)
  BY <1>4, <1>6, KeptResults
<1>8. B \cap Held(resultsChan) = {}
  BY <1>4, <1>6 DEF Kept, OnePlace
<1>9. Longer(PossibleLines(file), resultsChan, B, resultsChan')
  <2>1. Fits(PossibleLines(file), resultsChan, B)
    BY <1>3, <1>8 DEF Fits
  <2> QED BY <1>1, <2>1, HeldAppend
<1>10. Held(resultsChan') = Held(resultsChan) \cup B
  BY <1>9 DEF Longer
<1>11. parser' \in [Parsers -> SUBSET PossibleLines(file)]
  BY <1>1, <1>3
<1>12. QueueInv'
  BY <1>2, <1>5, <1>9, <1>11 DEF ReadInv, QueueInv, Longer
<1>13. KeptInv'
  BY <1>2, <1>5, <1>7, <1>10 DEF KeptInv
<1>14. JobsInv' /\ ReadersInv' /\ ErrorInv'
  BY <1>2 DEF ReadInv, JobsInv, ReadersInv, ErrorInv
<1>15. PhaseInv'
  <2>1. PhaseInv
    BY DEF ReadInv
  <2>2. phase \notin {"collect", "returned"}
    BY <1>1, <2>1 DEF PhaseInv, B
  <2> QED BY <1>2, <2>1, <2>2 DEF PhaseInv
<1> QED BY <1>12, <1>13, <1>14, <1>15 DEF ReadInv

(* Two sets without a common member: their bags add up.                    *)
LEMMA BagOfBoth ==
  ASSUME NEW A, NEW B, A \cap B = {}
  PROVE  /\ SetToBag(A) (+) SetToBag(B) = SetToBag(A \cup B)
         /\ DOMAIN SetToBag(A) = A
BY DEF SetToBag, (+)

LEMMA CollectKeeps ==
  ASSUME ReadInv, Collect
  PROVE  ReadInv'
<1> DEFINE B == Head(resultsChan)
           D == DOMAIN requests
<1>1. /\ resultsChan' = Tail(resultsChan) /\ resultsChan # <<>>
      /\ requests' = requests (+) SetToBag(B)
  BY DEF Collect, HasResults
<1>2. /\ file' = file /\ path' = path /\ jobs' = jobs /\ reader' = reader
      /\ linesChan' = linesChan /\ parser' = parser /\ readErr' = readErr
      /\ phase' = phase /\ answer' = answer
  BY DEF Collect, fileVars
<1>3. /\ resultsChan \in Seq(SUBSET PossibleLines(file)) /\ Distinct(resultsChan)
      /\ requests = SetToBag(D) /\ D \subseteq PossibleLines(file)
  BY DEF ReadInv, QueueInv
<1>4. /\ resultsChan' \in Seq(SUBSET PossibleLines(file)) /\ B \in SUBSET PossibleLines(file)
      /\ Held(resultsChan) = B \cup Held(resultsChan') /\ B \cap Held(resultsChan') = {}
      /\ Distinct(resultsChan')
  BY <1>1, <1>3, HeldTail
<1>5. Kept(CertainLines(file), readErr, Unread(file, jobs), Held(Loads(file, reader)),
           Held(linesChan), Held(parser), Held(resultsChan), D)
  BY DEF ReadInv, KeptInv
<1> HIDE DEF B, D
<1>6. Kept(CertainLines(file), readErr, Unread(file, jobs), Held(Loads(file, reader)),
           Held(linesChan), Held(parser), Held(resultsChan'), D \cup B)
  BY <1>4, <1>5, KeptCollect
<1>7. D \cap B = {}
  BY <1>4, <1>5 DEF Kept, OnePlace
<1>8. requests' = SetToBag(D \cup B) /\ DOMAIN requests' = D \cup B
  <2>1. requests' = SetToBag(D) (+) SetToBag(B)
    BY <1>1, <1>3
  <2>2. SetToBag(D) (+) SetToBag(B) = SetToBag(D \cup B)
    BY <1>7, BagOfBoth
  <2>3. DOMAIN SetToBag(D \cup B) = D \cup B
    BY DEF SetToBag
  <2> QED BY <2>1, <2>2, <2>3
<1>9. QueueInv'
  BY <1>2, <1>3, <1>4, <1>8 DEF ReadInv, QueueInv
<1>10. KeptInv'
  BY <1>2, <1>6, <1>8 DEF KeptInv
<1>11. JobsInv' /\ ReadersInv' /\ ErrorInv' /\ PhaseInv'
  BY <1>2 DEF ReadInv, JobsInv, ReadersInv, ErrorInv, PhaseInv
<1> QED BY <1>9, <1>10, <1>11 DEF ReadInv

(* The caller's steps move no line.                                        *)
LEMMA WaitKeeps ==
  ASSUME ReadInv, CloseLines \/ CloseResults \/ Return
  PROVE  ReadInv'
<1>1. /\ file' = file /\ path' = path /\ jobs' = jobs /\ reader' = reader
      /\ linesChan' = linesChan /\ parser' = parser /\ resultsChan' = resultsChan
      /\ requests' = requests /\ readErr' = readErr
  BY DEF CloseLines, CloseResults, Return, fileVars, parseVars
<1>2. JobsInv' /\ ReadersInv' /\ QueueInv' /\ KeptInv' /\ ErrorInv'
  BY <1>1 DEF ReadInv, JobsInv, ReadersInv, QueueInv, KeptInv, ErrorInv
<1>3. PhaseInv
  BY DEF ReadInv
<1>4. PhaseInv'
  <2>1. CASE CloseLines
    BY <1>1, <1>3, <2>1 DEF CloseLines, Idle, PhaseInv
  <2>2. CASE CloseResults
    BY <1>1, <1>3, <2>2 DEF CloseResults, PhaseInv
  <2>3. CASE Return
    BY <1>1, <1>3, <2>3 DEF Return, PhaseInv
  <2> QED BY <2>1, <2>2, <2>3
<1> QED BY <1>2, <1>4 DEF ReadInv

LEMMA ReadNextInv == ReadInv /\ [ReadNext]_readVars => ReadInv'
<1> SUFFICES ASSUME ReadInv, [ReadNext]_readVars PROVE ReadInv'
  OBVIOUS
<1>1. ASSUME NEW r \in Readers,
             ReadChunk(r) \/ Scan(r) \/ ReadFails(r) \/ SendBatch(r) \/ Recover(r) \/ RecoverFails(r)
      PROVE  ReadInv'
  BY <1>1, ReadChunkKeeps, ScanKeeps, ReadFailsKeeps, SendBatchKeeps, RecoverKeeps, RecoverFailsKeeps
<1>2. ASSUME NEW p \in Parsers, Parse(p) \/ SendResults(p) PROVE ReadInv'
  BY <1>2, ParseKeeps, SendResultsKeeps
<1>3. CASE Collect
  BY <1>3, CollectKeeps
<1>4. CASE CloseLines \/ CloseResults \/ Return
  BY <1>4, WaitKeeps
<1>5. CASE UNCHANGED readVars
  BY <1>5 DEF readVars, fileVars, ReadInv, JobsInv, ReadersInv, QueueInv, KeptInv, ErrorInv, PhaseInv
<1> QED BY <1>1, <1>2, <1>3, <1>4, <1>5 DEF ReadNext

LEMMA ReadInvHolds == ReadSpec => []ReadInv
<1>1. ReadInit => ReadInv
  BY ReadInitInv
<1>2. ReadInv /\ [ReadNext]_readVars => ReadInv'
  BY ReadNextInv
<1> QED BY <1>1, <1>2, PTL DEF ReadSpec

----------------------------------------------------------------------------
(* What the callers rely on.                                               *)

LEMMA SameLines ==
  ASSUME NEW f
  PROVE  /\ Contract!Possible(f) = PossibleLines(f) /\ Contract!Certain(f) = CertainLines(f)
         /\ Contract!LineStarts(f) = LineStarts(f)
         /\ \A s : Contract!TooLong(f, s) = TooLong(f, s)
         /\ \A S : Contract!SetToBag(S) = SetToBag(S)
<1>1. Contract!LineStarts(f) = LineStarts(f)
  BY DEF Contract!LineStarts, LineStarts, Contract!StartsLine, StartsLine
<1>2. \A s : Contract!Stop(f, s) = Stop(f, s)
  BY DEF Contract!Stop, Stop, Contract!Min, Min
<1>3. \A s : Contract!Line(f, s) = Line(f, s)
  BY <1>2 DEF Contract!Line, Line, Contract!Text, Text
<1>4. \A s : Contract!TooLong(f, s) = TooLong(f, s)
  BY <1>2 DEF Contract!TooLong, TooLong
<1>5. \A t : Contract!Blank(t) = Blank(t)
  BY DEF Contract!Blank, Blank
<1>6. Contract!Possible(f) = PossibleLines(f)
  BY <1>1, <1>3 DEF Contract!Possible, PossibleLines, LinesAt
<1>7. Contract!Certain(f) = CertainLines(f)
  BY <1>1, <1>3, <1>4, <1>5 DEF Contract!Certain, CertainLines, LinesAt
<1>8. \A S : Contract!SetToBag(S) = SetToBag(S)
  BY DEF Contract!SetToBag, SetToBag
<1> QED BY <1>1, <1>4, <1>6, <1>7, <1>8

(* The abstract step of a step: none, a failure, or the answer.            *)
LEMMA FailStep ==
  ASSUME PhaseInv, phase = "read", UNCHANGED <<fileVars, answer>>, readErr' = ReadError
  PROVE  [Contract!Next]_(Contract!vars)
<1>1. answer = Pending /\ file' = file /\ answer' = answer
  BY DEF PhaseInv, fileVars
<1>2. CASE readErr = "none"
  <2>1. (readErr' = "read") = TRUE
    BY <1>2 DEF ReadError, FirstError
  <2>2. Contract!Fail
    BY <1>1, <2>1 DEF Contract!Fail, Contract!Pending, Pending
  <2> QED BY <2>2 DEF Contract!Next
<1>3. CASE readErr # "none"
  <2>1. readErr' = readErr
    BY <1>3 DEF ReadError, FirstError
  <2> QED BY <1>1, <2>1 DEF Contract!vars
<1> QED BY <1>2, <1>3

LEMMA ReturnStep ==
  ASSUME ReadInv, Return
  PROVE  Contract!Next
<1>1. /\ phase = "collect" /\ resultsChan = <<>> /\ file' = file /\ readErr' = readErr
      /\ answer' = IF readErr = "none" THEN Requests(requests) ELSE Error
  BY DEF Return, fileVars
<1>2. PhaseInv /\ QueueInv /\ KeptInv /\ ErrorInv
  BY DEF ReadInv
<1>3. /\ answer = Pending /\ jobs = {} /\ reader = [r \in Readers |-> Nothing]
      /\ linesChan = <<>> /\ parser = [p \in Parsers |-> {}]
  <2>1. reader = [r \in Readers |-> reader[r]] /\ parser = [p \in Parsers |-> parser[p]]
    BY DEF ReadInv, ReadersInv, Reading, QueueInv
  <2> QED BY <1>1, <1>2, <2>1 DEF PhaseInv
<1>4. CASE readErr = "none"
  <2> DEFINE D == DOMAIN requests
  <2>1. Unread(file, jobs) = {} /\ Held(Loads(file, reader)) = {}
    <3>1. Loads(file, reader) = [r \in Readers |-> {}]
      BY <1>3, NothingCarried DEF Loads
    <3> QED BY <1>3, <3>1, EmptyHeld DEF Unread, LinesAt
  <2>2. Held(linesChan) = {} /\ Held(parser) = {} /\ Held(resultsChan) = {}
    BY <1>1, <1>3, EmptyHeld
  <2>3. D \subseteq PossibleLines(file) /\ CertainLines(file) \subseteq D /\ requests = SetToBag(D)
    BY <1>2, <1>4, <2>1, <2>2 DEF QueueInv, KeptInv, Kept
  <2>4. answer' = Contract!Requests(Contract!SetToBag(D))
    BY <1>1, <1>4, <2>3, SameLines DEF Contract!Requests, Requests
  <2> HIDE DEF D
  <2>5. D \in SUBSET Contract!Possible(file) /\ Contract!Certain(file) \subseteq D
    BY <2>3, SameLines
  <2>6. ~ (readErr = "read") /\ (readErr' = "read") = (readErr = "read")
    BY <1>1, <1>4
  <2>7. Contract!ReturnLines
    BY <1>1, <1>3, <2>4, <2>5, <2>6 DEF Contract!ReturnLines, Contract!Pending, Pending
  <2> QED BY <2>7 DEF Contract!Next
<1>5. CASE readErr # "none"
  <2>1. readErr = "read" \/ \E s \in Contract!LineStarts(file) : Contract!TooLong(file, s)
    BY <1>2, <1>5, SameLines DEF ErrorInv
  <2>2. answer' = Contract!Error /\ (readErr' = "read") = (readErr = "read")
    BY <1>1, <1>5 DEF Contract!Error, Error
  <2>3. Contract!ReturnError
    BY <1>1, <1>3, <2>1, <2>2 DEF Contract!ReturnError, Contract!Pending, Pending
  <2> QED BY <2>3 DEF Contract!Next
<1> QED BY <1>4, <1>5

LEMMA ReadStep == ReadInv /\ [ReadNext]_readVars => [Contract!Next]_(Contract!vars)
<1> SUFFICES ASSUME ReadInv, [ReadNext]_readVars PROVE [Contract!Next]_(Contract!vars)
  OBVIOUS
<1>0. PhaseInv
  BY DEF ReadInv
<1>1. ASSUME UNCHANGED <<file, readErr, answer>> PROVE [Contract!Next]_(Contract!vars)
  BY <1>1 DEF Contract!vars
<1>2. ASSUME NEW r \in Readers, ReadChunk(r) \/ SendBatch(r) \/ Recover(r)
      PROVE  [Contract!Next]_(Contract!vars)
  BY <1>1, <1>2 DEF ReadChunk, SendBatch, Recover, fileVars
<1>3. ASSUME NEW r \in Readers, Scan(r) PROVE [Contract!Next]_(Contract!vars)
  <2>1. file' = file /\ answer' = answer
    BY <1>3 DEF Scan, fileVars
  <2>2. (readErr' = "read") = (readErr = "read")
    BY <1>3 DEF Scan, FirstError
  <2> QED BY <2>1, <2>2 DEF Contract!vars
<1>4. ASSUME NEW r \in Readers, ReadFails(r) PROVE [Contract!Next]_(Contract!vars)
  <2>1. jobs # {}
    BY <1>4 DEF ReadFails
  <2>2. phase = "read"
    BY <1>0, <2>1 DEF PhaseInv
  <2> QED BY <1>0, <1>4, <2>2, FailStep DEF ReadFails
<1>5. ASSUME NEW r \in Readers, RecoverFails(r) PROVE [Contract!Next]_(Contract!vars)
  <2>1. reader[r].tail # {}
    BY <1>5 DEF RecoverFails
  <2>2. Nothing.tail = {}
    BY DEF Nothing
  <2>3. phase = "read"
    BY <1>0, <2>1, <2>2 DEF PhaseInv
  <2> QED BY <1>0, <1>5, <2>3, FailStep DEF RecoverFails
<1>6. ASSUME NEW p \in Parsers, Parse(p) \/ SendResults(p) PROVE [Contract!Next]_(Contract!vars)
  BY <1>1, <1>6 DEF Parse, SendResults, fileVars
<1>7. ASSUME Collect \/ CloseLines \/ CloseResults PROVE [Contract!Next]_(Contract!vars)
  BY <1>1, <1>7 DEF Collect, CloseLines, CloseResults, fileVars
<1>8. ASSUME Return PROVE [Contract!Next]_(Contract!vars)
  BY <1>8, ReturnStep
<1>9. ASSUME UNCHANGED readVars PROVE [Contract!Next]_(Contract!vars)
  BY <1>1, <1>9 DEF readVars, fileVars
<1> QED BY <1>2, <1>3, <1>4, <1>5, <1>6, <1>7, <1>8, <1>9 DEF ReadNext

(* However a file is cut into chunks and whatever reader, parser and the   *)
(* collector do in whatever order, a call of ParseFile or ParseFileIPs     *)
(* returns each line of the file once, blank and overlong lines apart, or  *)
(* an error; it never returns a part of the file as if it were all of it,  *)
(* nor a line twice.                                                       *)
THEOREM ImplementsParseHolds == ReadSpec => ImplementsParse
<1>1. ReadInit => Contract!Init
  <2> SUFFICES ASSUME ReadInit PROVE Contract!Init
    OBVIOUS
  <2>1. file \in Files /\ (readErr = "read") = FALSE /\ answer = Pending
    BY DEF ReadInit
  <2> QED BY <2>1 DEF Contract!Init, Contract!Pending, Pending
<1>2. ReadInv /\ [ReadNext]_readVars => [Contract!Next]_(Contract!vars)
  BY ReadStep
<1>3. ReadSpec => []ReadInv
  BY ReadInvHolds
<1> QED BY <1>1, <1>2, <1>3, PTL DEF ReadSpec, ImplementsParse, Contract!Spec

----------------------------------------------------------------------------
(* The result of the requests at the places D of a log.                    *)

Result(ips, filtered, invalid, excluded, w, b) ==
  [ips |-> ips, filtered |-> filtered, invalid |-> invalid, excluded |-> excluded,
   white |-> w, black |-> b]

Want(tc, l, D) == {i \in D : Passes(tc, l[i])}
Count(tc, l, D) == {i \in Want(tc, l, D) : l[i].ip # 0 /\ ~ Whitelisted(tc, l[i])}
Drop(tc, l, D) == {i \in Want(tc, l, D) : l[i].ip # 0 /\ Whitelisted(tc, l[i])}
Fail(tc, l, D) == {i \in Want(tc, l, D) : l[i].ip = 0}
List(tc, l, D) == {i \in Count(tc, l, D) : Blacklisted(tc, l[i])}

At(l, is) == {l[i].ip : i \in is}
BagAt(l, is) == [ip \in At(l, is) |-> Cardinality({i \in is : l[i].ip = ip})]

Tally(tc, l, D) ==
  Result(BagAt(l, Count(tc, l, D)), Cardinality(Count(tc, l, D)),
         Cardinality(Fail(tc, l, D)), Cardinality(Drop(tc, l, D)),
         At(l, Drop(tc, l, D)), At(l, List(tc, l, D)))

IsResult(v) ==
  v = Result(v.ips, v.filtered, v.invalid, v.excluded, v.white, v.black)

(* A result read and rewritten field by field.                             *)
LEMMA Fields ==
  ASSUME NEW a, NEW b, NEW c, NEW d, NEW e, NEW f, NEW v, v = Result(a, b, c, d, e, f)
  PROVE  /\ IsResult(v) /\ v.ips = a /\ v.filtered = b /\ v.invalid = c
         /\ v.excluded = d /\ v.white = e /\ v.black = f
BY DEF Result, IsResult

LEMMA Rewritten ==
  ASSUME NEW v, IsResult(v), NEW x
  PROVE  /\ [v EXCEPT !.ips = x]
              = Result(x, v.filtered, v.invalid, v.excluded, v.white, v.black)
         /\ [v EXCEPT !.filtered = x]
              = Result(v.ips, x, v.invalid, v.excluded, v.white, v.black)
         /\ [v EXCEPT !.invalid = x]
              = Result(v.ips, v.filtered, x, v.excluded, v.white, v.black)
         /\ [v EXCEPT !.excluded = x]
              = Result(v.ips, v.filtered, v.invalid, x, v.white, v.black)
         /\ [v EXCEPT !.white = x]
              = Result(v.ips, v.filtered, v.invalid, v.excluded, x, v.black)
         /\ [v EXCEPT !.black = x]
              = Result(v.ips, v.filtered, v.invalid, v.excluded, v.white, x)
<1>1. [v EXCEPT !.ips = x] = Result(x, v.filtered, v.invalid, v.excluded, v.white, v.black)
  BY DEF Result, IsResult
<1>2. [v EXCEPT !.filtered = x] = Result(v.ips, x, v.invalid, v.excluded, v.white, v.black)
  BY DEF Result, IsResult
<1>3. [v EXCEPT !.invalid = x] = Result(v.ips, v.filtered, x, v.excluded, v.white, v.black)
  BY DEF Result, IsResult
<1>4. [v EXCEPT !.excluded = x] = Result(v.ips, v.filtered, v.invalid, x, v.white, v.black)
  BY DEF Result, IsResult
<1>5. [v EXCEPT !.white = x] = Result(v.ips, v.filtered, v.invalid, v.excluded, x, v.black)
  BY DEF Result, IsResult
<1>6. [v EXCEPT !.black = x] = Result(v.ips, v.filtered, v.invalid, v.excluded, v.white, x)
  BY DEF Result, IsResult
<1> QED BY <1>1, <1>2, <1>3, <1>4, <1>5, <1>6

LEMMA InvalidFacts ==
  ASSUME NEW v, IsResult(v)
  PROVE  Invalid(v)
           = Result(v.ips, v.filtered, v.invalid + 1, v.excluded, v.white, v.black)
BY Rewritten DEF Invalid

LEMMA InsertedFacts ==
  ASSUME NEW v, IsResult(v), NEW ip
  PROVE  Inserted(v, ip)
           = Result(v.ips (+) SetToBag({ip}), v.filtered + 1, v.invalid, v.excluded,
                    v.white, v.black)
<1> DEFINE x == v.ips (+) SetToBag({ip})
           u == [v EXCEPT !.ips = x]
<1>1. Inserted(v, ip) = [u EXCEPT !.filtered = v.filtered + 1]
  BY DEF Inserted
<1>2. u = Result(x, v.filtered, v.invalid, v.excluded, v.white, v.black)
  BY Rewritten
<1> HIDE DEF u, x
<1>3. /\ IsResult(u) /\ u.ips = x /\ u.invalid = v.invalid /\ u.excluded = v.excluded
      /\ u.white = v.white /\ u.black = v.black
  BY <1>2, Fields
<1>4. [u EXCEPT !.filtered = v.filtered + 1]
        = Result(u.ips, v.filtered + 1, u.invalid, u.excluded, u.white, u.black)
  BY <1>3, Rewritten
<1>5. Inserted(v, ip) = Result(x, v.filtered + 1, v.invalid, v.excluded, v.white, v.black)
  BY <1>1, <1>3, <1>4
<1> QED BY <1>5 DEF x

LEMMA WhiteFacts ==
  ASSUME NEW v, IsResult(v), NEW x, NEW y
  PROVE  [v EXCEPT !.white = x, !.excluded = y]
           = Result(v.ips, v.filtered, v.invalid, y, x, v.black)
<1> DEFINE u == [v EXCEPT !.white = x]
<1>1. u = Result(v.ips, v.filtered, v.invalid, v.excluded, x, v.black)
  BY Rewritten
<1> HIDE DEF u
<1>2. /\ IsResult(u) /\ u.ips = v.ips /\ u.filtered = v.filtered /\ u.invalid = v.invalid
      /\ u.white = x /\ u.black = v.black
  BY <1>1, Fields
<1>3. [u EXCEPT !.excluded = y]
        = Result(u.ips, u.filtered, u.invalid, y, u.white, u.black)
  BY <1>2, Rewritten
<1>4. [u EXCEPT !.excluded = y] = Result(v.ips, v.filtered, v.invalid, y, x, v.black)
  BY <1>2, <1>3
<1> QED BY <1>4 DEF u

LEMMA ListsFacts ==
  ASSUME NEW v, IsResult(v), NEW j
  PROVE  CollectLists(v, j)
           = Result(v.ips, v.filtered, v.invalid, v.excluded,
                    IF j.white THEN v.white \cup {j.ip} ELSE v.white,
                    IF j.black THEN v.black \cup {j.ip} ELSE v.black)
<1> DEFINE x == IF j.white THEN v.white \cup {j.ip} ELSE v.white
           y == IF j.black THEN v.black \cup {j.ip} ELSE v.black
           u == [v EXCEPT !.white = x]
<1>1. CollectLists(v, j) = [u EXCEPT !.black = y]
  BY DEF CollectLists
<1>2. u = Result(v.ips, v.filtered, v.invalid, v.excluded, x, v.black)
  BY Rewritten
<1> HIDE DEF u, x, y
<1>3. /\ IsResult(u) /\ u.ips = v.ips /\ u.filtered = v.filtered /\ u.invalid = v.invalid
      /\ u.excluded = v.excluded /\ u.white = x
  BY <1>2, Fields
<1>4. [u EXCEPT !.black = y]
        = Result(u.ips, u.filtered, u.invalid, u.excluded, u.white, y)
  BY <1>3, Rewritten
<1>5. CollectLists(v, j) = Result(v.ips, v.filtered, v.invalid, v.excluded, x, y)
  BY <1>1, <1>3, <1>4
<1> QED BY <1>5 DEF x, y

LEMMA BagMore ==
  ASSUME NEW l, NEW is, IsFiniteSet(is), NEW i, i \notin is
  PROVE  BagAt(l, is \cup {i}) = BagAt(l, is) (+) SetToBag({l[i].ip})
<1> DEFINE Of(S, ip) == {j \in S : l[j].ip = ip}
           more == is \cup {i}
<1>1. At(l, more) = At(l, is) \cup {l[i].ip}
  BY DEF At
<1>2. ASSUME NEW ip, ip # l[i].ip PROVE Of(more, ip) = Of(is, ip)
  BY <1>2
<1>3. /\ Of(more, l[i].ip) = Of(is, l[i].ip) \cup {i}
      /\ Cardinality(Of(more, l[i].ip)) = Cardinality(Of(is, l[i].ip)) + 1
      /\ Cardinality(Of(is, l[i].ip)) \in Nat
  <2>1. IsFiniteSet(Of(is, l[i].ip))
    BY FS_Subset
  <2>2. Of(more, l[i].ip) = Of(is, l[i].ip) \cup {i} /\ i \notin Of(is, l[i].ip)
    OBVIOUS
  <2> HIDE DEF Of
  <2> QED BY <2>1, <2>2, FS_AddElement, FS_CardinalityType
<1>4. ASSUME NEW ip, ip \notin At(l, is) PROVE Cardinality(Of(is, ip)) = 0
  <2>1. Of(is, ip) = {}
    BY <1>4 DEF At
  <2> QED BY <2>1, FS_EmptySet
<1>5. ASSUME NEW ip \in At(l, is) PROVE Cardinality(Of(is, ip)) \in Nat
  <2>1. IsFiniteSet(Of(is, ip))
    BY FS_Subset
  <2> QED BY <2>1, FS_CardinalityType
<1>6. /\ BagAt(l, is) = [ip \in At(l, is) |-> Cardinality(Of(is, ip))]
      /\ BagAt(l, more) = [ip \in At(l, more) |-> Cardinality(Of(more, ip))]
  BY DEF BagAt
<1> HIDE DEF Of
<1> DEFINE B == BagAt(l, is)
           C == SetToBag({l[i].ip})
<1>7. /\ DOMAIN B = At(l, is) /\ \A ip \in At(l, is) : B[ip] = Cardinality(Of(is, ip))
      /\ DOMAIN C = {l[i].ip} /\ C[l[i].ip] = 1
  BY <1>6 DEF SetToBag
<1> HIDE DEF B, C
<1>8. B (+) C = [ip \in DOMAIN B \cup DOMAIN C |->
                   (IF ip \in DOMAIN B THEN B[ip] ELSE 0)
                   + (IF ip \in DOMAIN C THEN C[ip] ELSE 0)]
  BY DEF (+)
<1>9. ASSUME NEW ip \in At(l, more)
      PROVE  (IF ip \in DOMAIN B THEN B[ip] ELSE 0) + (IF ip \in DOMAIN C THEN C[ip] ELSE 0)
               = Cardinality(Of(more, ip))
  <2>1. CASE ip = l[i].ip
    BY <1>3, <1>4, <1>7, <2>1
  <2>2. CASE ip # l[i].ip
    <3>1. ip \in At(l, is)
      BY <1>1, <2>2
    <3>2. B[ip] = Cardinality(Of(is, ip)) /\ Cardinality(Of(is, ip)) \in Nat
      BY <1>5, <1>7, <3>1
    <3>3. Of(more, ip) = Of(is, ip)
      BY <1>2, <2>2
    <3> QED BY <1>7, <2>2, <3>1, <3>2, <3>3
  <2> QED BY <2>1, <2>2
<1>10. B (+) C = BagAt(l, more)
  BY <1>1, <1>6, <1>7, <1>8, <1>9
<1> QED BY <1>10 DEF B, C

LEMMA AddOne ==
  ASSUME NEW is, IsFiniteSet(is), NEW i, i \notin is
  PROVE  Cardinality(is \cup {i}) = Cardinality(is) + 1
BY FS_AddElement

LEMMA PartsFinite ==
  ASSUME NEW tc, NEW l, NEW D, IsFiniteSet(D)
  PROVE  /\ IsFiniteSet(Count(tc, l, D)) /\ Count(tc, l, D) \subseteq D
         /\ IsFiniteSet(Drop(tc, l, D)) /\ Drop(tc, l, D) \subseteq D
         /\ IsFiniteSet(Fail(tc, l, D)) /\ Fail(tc, l, D) \subseteq D
<1>1. /\ Count(tc, l, D) \subseteq D /\ Drop(tc, l, D) \subseteq D /\ Fail(tc, l, D) \subseteq D
  BY DEF Count, Drop, Fail, Want
<1> QED BY <1>1, FS_Subset

LEMMA TallyEmpty ==
  ASSUME NEW tc, NEW l
  PROVE  Tally(tc, l, {}) = NoResult
<1>1. /\ Count(tc, l, {}) = {} /\ Drop(tc, l, {}) = {} /\ Fail(tc, l, {}) = {}
      /\ List(tc, l, {}) = {}
  BY DEF Count, Drop, Fail, List, Want
<1>2. At(l, {}) = {} /\ BagAt(l, {}) = EmptyBag
  BY DEF At, BagAt, EmptyBag, SetToBag
<1>3. Cardinality({}) = 0
  BY FS_EmptySet
<1> QED BY <1>1, <1>2, <1>3 DEF Tally, Result, NoResult

LEMMA TallyFields ==
  ASSUME NEW tc, NEW l, NEW D
  PROVE  /\ IsResult(Tally(tc, l, D)) /\ Tally(tc, l, D).ips = BagAt(l, Count(tc, l, D))
         /\ Tally(tc, l, D).filtered = Cardinality(Count(tc, l, D))
         /\ Tally(tc, l, D).invalid = Cardinality(Fail(tc, l, D))
         /\ Tally(tc, l, D).excluded = Cardinality(Drop(tc, l, D))
         /\ Tally(tc, l, D).white = At(l, Drop(tc, l, D))
         /\ Tally(tc, l, D).black = At(l, List(tc, l, D))
<1> DEFINE v == Tally(tc, l, D)
<1>1. v = Result(BagAt(l, Count(tc, l, D)), Cardinality(Count(tc, l, D)),
                 Cardinality(Fail(tc, l, D)), Cardinality(Drop(tc, l, D)),
                 At(l, Drop(tc, l, D)), At(l, List(tc, l, D)))
  BY DEF Tally
<1> HIDE DEF v
<1>2. /\ IsResult(v) /\ v.ips = BagAt(l, Count(tc, l, D))
      /\ v.filtered = Cardinality(Count(tc, l, D))
      /\ v.invalid = Cardinality(Fail(tc, l, D))
      /\ v.excluded = Cardinality(Drop(tc, l, D))
      /\ v.white = At(l, Drop(tc, l, D)) /\ v.black = At(l, List(tc, l, D))
  BY <1>1, Fields
<1> QED BY <1>2 DEF v

(* What one more request adds to the parts.                                *)
Parts(tc, l, D, C, F, W, B) ==
  Count(tc, l, D) = C /\ Fail(tc, l, D) = F /\ Drop(tc, l, D) = W /\ List(tc, l, D) = B

LEMMA PartsSkipped ==
  ASSUME NEW tc, NEW l, NEW D, NEW i, i \notin D, ~ Passes(tc, l[i])
  PROVE  Parts(tc, l, D \cup {i}, Count(tc, l, D), Fail(tc, l, D), Drop(tc, l, D),
               List(tc, l, D))
BY DEF Parts, Count, Fail, Drop, List, Want

LEMMA PartsFailed ==
  ASSUME NEW tc, NEW l, NEW D, NEW i, i \notin D, Passes(tc, l[i]),
         l[i].ip = 0
  PROVE  Parts(tc, l, D \cup {i}, Count(tc, l, D), Fail(tc, l, D) \cup {i}, Drop(tc, l, D),
               List(tc, l, D))
BY DEF Parts, Count, Fail, Drop, List, Want

LEMMA PartsDropped ==
  ASSUME NEW tc, NEW l, NEW D, NEW i, i \notin D, Passes(tc, l[i]),
         l[i].ip # 0, Whitelisted(tc, l[i])
  PROVE  Parts(tc, l, D \cup {i}, Count(tc, l, D), Fail(tc, l, D), Drop(tc, l, D) \cup {i},
               List(tc, l, D))
BY DEF Parts, Count, Fail, Drop, List, Want

LEMMA PartsCounted ==
  ASSUME NEW tc, NEW l, NEW D, NEW i, i \notin D, Passes(tc, l[i]),
         l[i].ip # 0, ~ Whitelisted(tc, l[i])
  PROVE  Parts(tc, l, D \cup {i}, Count(tc, l, D) \cup {i}, Fail(tc, l, D), Drop(tc, l, D),
               IF Blacklisted(tc, l[i]) THEN List(tc, l, D) \cup {i}
               ELSE List(tc, l, D))
<1>1. CASE Blacklisted(tc, l[i])
  BY <1>1 DEF Parts, Count, Fail, Drop, List, Want
<1>2. CASE ~ Blacklisted(tc, l[i])
  BY <1>2 DEF Parts, Count, Fail, Drop, List, Want
<1> QED BY <1>1, <1>2

LEMMA AtMore ==
  ASSUME NEW l, NEW is, NEW i
  PROVE  At(l, is \cup {i}) = At(l, is) \cup {l[i].ip}
BY DEF At

LEMMA TallySkips ==
  ASSUME NEW tc, NEW l, NEW D, NEW i, i \notin D, ~ Passes(tc, l[i])
  PROVE  Tally(tc, l, D \cup {i}) = Tally(tc, l, D)
BY PartsSkipped DEF Parts, Tally

LEMMA TallyInvalid ==
  ASSUME NEW tc, NEW l, NEW D, IsFiniteSet(D), NEW i, i \notin D,
         Passes(tc, l[i]), l[i].ip = 0
  PROVE  Invalid(Tally(tc, l, D)) = Tally(tc, l, D \cup {i})
<1> DEFINE v == Tally(tc, l, D)
<1>1. Cardinality(Fail(tc, l, D) \cup {i}) = Cardinality(Fail(tc, l, D)) + 1
  <2>1. IsFiniteSet(Fail(tc, l, D)) /\ i \notin Fail(tc, l, D)
    BY PartsFinite
  <2> QED BY <2>1, AddOne
<1>2. Invalid(v) = Result(v.ips, v.filtered, v.invalid + 1, v.excluded, v.white, v.black)
  BY TallyFields, InvalidFacts
<1>3. Tally(tc, l, D \cup {i})
        = Result(BagAt(l, Count(tc, l, D)), Cardinality(Count(tc, l, D)),
                 Cardinality(Fail(tc, l, D) \cup {i}), Cardinality(Drop(tc, l, D)),
                 At(l, Drop(tc, l, D)), At(l, List(tc, l, D)))
  <2>1. Parts(tc, l, D \cup {i}, Count(tc, l, D), Fail(tc, l, D) \cup {i}, Drop(tc, l, D),
              List(tc, l, D))
    BY PartsFailed
  <2> QED BY <2>1 DEF Parts, Tally
<1> QED BY <1>1, <1>2, <1>3, TallyFields

LEMMA TallyDropped ==
  ASSUME NEW tc, NEW l, NEW D, IsFiniteSet(D), NEW i, i \notin D,
         Passes(tc, l[i]), l[i].ip # 0, Whitelisted(tc, l[i])
  PROVE  LET v == Tally(tc, l, D)
         IN  Tally(tc, l, D \cup {i})
               = Result(v.ips, v.filtered, v.invalid, v.excluded + 1,
                        v.white \cup {l[i].ip}, v.black)
<1> DEFINE v == Tally(tc, l, D)
<1>1. Cardinality(Drop(tc, l, D) \cup {i}) = Cardinality(Drop(tc, l, D)) + 1
  <2>1. IsFiniteSet(Drop(tc, l, D)) /\ i \notin Drop(tc, l, D)
    BY PartsFinite
  <2> QED BY <2>1, AddOne
<1>3. Tally(tc, l, D \cup {i})
        = Result(BagAt(l, Count(tc, l, D)), Cardinality(Count(tc, l, D)),
                 Cardinality(Fail(tc, l, D)), Cardinality(Drop(tc, l, D) \cup {i}),
                 At(l, Drop(tc, l, D) \cup {i}), At(l, List(tc, l, D)))
  <2>1. Parts(tc, l, D \cup {i}, Count(tc, l, D), Fail(tc, l, D), Drop(tc, l, D) \cup {i},
              List(tc, l, D))
    BY PartsDropped
  <2> QED BY <2>1 DEF Parts, Tally
<1>4. At(l, Drop(tc, l, D) \cup {i}) = At(l, Drop(tc, l, D)) \cup {l[i].ip}
  BY AtMore
<1>5. /\ v.ips = BagAt(l, Count(tc, l, D)) /\ v.filtered = Cardinality(Count(tc, l, D))
      /\ v.invalid = Cardinality(Fail(tc, l, D)) /\ v.excluded = Cardinality(Drop(tc, l, D))
      /\ v.white = At(l, Drop(tc, l, D)) /\ v.black = At(l, List(tc, l, D))
  BY TallyFields
<1> HIDE DEF v
<1>6. Tally(tc, l, D \cup {i})
        = Result(v.ips, v.filtered, v.invalid, v.excluded + 1, v.white \cup {l[i].ip}, v.black)
  BY <1>1, <1>3, <1>4, <1>5
<1> QED BY <1>6 DEF v

LEMMA TallyCounted ==
  ASSUME NEW tc, NEW l, NEW D, IsFiniteSet(D), NEW i, i \notin D,
         Passes(tc, l[i]), l[i].ip # 0, ~ Whitelisted(tc, l[i])
  PROVE  LET v == Tally(tc, l, D)
         IN  Tally(tc, l, D \cup {i})
               = Result(v.ips (+) SetToBag({l[i].ip}), v.filtered + 1, v.invalid, v.excluded,
                        v.white,
                        IF Blacklisted(tc, l[i]) THEN v.black \cup {l[i].ip} ELSE v.black)
<1> DEFINE v == Tally(tc, l, D)
           C == Count(tc, l, D)
           L == List(tc, l, D)
           M == IF Blacklisted(tc, l[i]) THEN L \cup {i} ELSE L
<1>1. Cardinality(C \cup {i}) = Cardinality(C) + 1
      /\ BagAt(l, C \cup {i}) = BagAt(l, C) (+) SetToBag({l[i].ip})
  <2>1. IsFiniteSet(C) /\ i \notin C
    BY PartsFinite
  <2> HIDE DEF C
  <2> QED BY <2>1, AddOne, BagMore
<1>2. At(l, M) = IF Blacklisted(tc, l[i]) THEN v.black \cup {l[i].ip} ELSE v.black
  <2>1. v.black = At(l, L)
    BY TallyFields
  <2> HIDE DEF L, v
  <2>2. At(l, L \cup {i}) = At(l, L) \cup {l[i].ip}
    BY AtMore
  <2> QED BY <2>1, <2>2
<1>3. Tally(tc, l, D \cup {i})
        = Result(BagAt(l, C \cup {i}), Cardinality(C \cup {i}), Cardinality(Fail(tc, l, D)),
                 Cardinality(Drop(tc, l, D)), At(l, Drop(tc, l, D)), At(l, M))
  <2>1. Parts(tc, l, D \cup {i}, C \cup {i}, Fail(tc, l, D), Drop(tc, l, D), M)
    BY PartsCounted
  <2> HIDE DEF C, L, M
  <2> QED BY <2>1 DEF Parts, Tally
<1>4. /\ v.ips = BagAt(l, C) /\ v.filtered = Cardinality(C)
      /\ v.invalid = Cardinality(Fail(tc, l, D)) /\ v.excluded = Cardinality(Drop(tc, l, D))
      /\ v.white = At(l, Drop(tc, l, D))
  BY TallyFields
<1> HIDE DEF v, C, M
<1>5. Tally(tc, l, D \cup {i})
        = Result(v.ips (+) SetToBag({l[i].ip}), v.filtered + 1, v.invalid, v.excluded,
                 v.white, At(l, M))
  BY <1>1, <1>3, <1>4
<1> QED BY <1>2, <1>5 DEF v

(* One pass of the filter counts what it reads.                            *)
LEMMA FilterOneTallies ==
  ASSUME NEW tc, NEW l, NEW D, IsFiniteSet(D), NEW i, i \notin D
  PROVE  FilterOne(tc, Tally(tc, l, D), l[i]) = Tally(tc, l, D \cup {i})
<1> DEFINE v == Tally(tc, l, D)
           r == l[i]
           u == Inserted(v, r.ip)
<1>0. IsResult(v)
  BY TallyFields
<1>1. CASE ~ Passes(tc, r)
  BY <1>1, TallySkips DEF FilterOne
<1>2. CASE Passes(tc, r) /\ r.ip = 0
  BY <1>2, TallyInvalid DEF FilterOne
<1>3. CASE Passes(tc, r) /\ r.ip # 0 /\ Whitelisted(tc, r)
  <2>1. FilterOne(tc, v, r)
          = [v EXCEPT !.white = v.white \cup {r.ip}, !.excluded = v.excluded + 1]
    BY <1>3 DEF FilterOne
  <2> DEFINE x == v.white \cup {r.ip}
             y == v.excluded + 1
  <2>2. Tally(tc, l, D \cup {i}) = Result(v.ips, v.filtered, v.invalid, y, x, v.black)
    BY <1>3, TallyDropped
  <2> HIDE DEF v, x, y
  <2>3. [v EXCEPT !.white = x, !.excluded = y]
          = Result(v.ips, v.filtered, v.invalid, y, x, v.black)
    BY <1>0, WhiteFacts
  <2> QED BY <2>1, <2>2, <2>3 DEF v, x, y
<1>4. CASE Passes(tc, r) /\ r.ip # 0 /\ ~ Whitelisted(tc, r)
  <2>1. u = Result(v.ips (+) SetToBag({r.ip}), v.filtered + 1, v.invalid, v.excluded,
                   v.white, v.black)
    BY <1>0, InsertedFacts
  <2>2. FilterOne(tc, v, r)
          = IF Blacklisted(tc, r) THEN [u EXCEPT !.black = u.black \cup {r.ip}] ELSE u
    BY <1>4 DEF FilterOne
  <2> HIDE DEF u
  <2>3. /\ IsResult(u) /\ u.ips = v.ips (+) SetToBag({r.ip}) /\ u.filtered = v.filtered + 1
        /\ u.invalid = v.invalid /\ u.excluded = v.excluded /\ u.white = v.white
        /\ u.black = v.black
    BY <2>1, Fields
  <2> DEFINE x == u.black \cup {r.ip}
  <2> HIDE DEF x
  <2>4. [u EXCEPT !.black = x]
          = Result(u.ips, u.filtered, u.invalid, u.excluded, u.white, x)
    BY <2>3, Rewritten
  <2>5. Tally(tc, l, D \cup {i})
          = Result(v.ips (+) SetToBag({r.ip}), v.filtered + 1, v.invalid, v.excluded,
                   v.white, IF Blacklisted(tc, r) THEN v.black \cup {r.ip} ELSE v.black)
    BY <1>4, TallyCounted
  <2> HIDE DEF v, r
  <2>6. x = v.black \cup {r.ip}
    BY <2>3 DEF x
  <2>7. FilterOne(tc, v, r) = IF Blacklisted(tc, r) THEN [u EXCEPT !.black = x] ELSE u
    BY <2>2 DEF x
  <2>8. CASE Blacklisted(tc, r)
    <3>1. Tally(tc, l, D \cup {i})
            = Result(v.ips (+) SetToBag({r.ip}), v.filtered + 1, v.invalid, v.excluded,
                     v.white, x)
      BY <2>5, <2>6, <2>8
    <3>2. FilterOne(tc, v, r) = [u EXCEPT !.black = x]
      BY <2>7, <2>8
    <3>3. [u EXCEPT !.black = x]
            = Result(v.ips (+) SetToBag({r.ip}), v.filtered + 1, v.invalid, v.excluded,
                     v.white, x)
      BY <2>3, <2>4
    <3> QED BY <3>1, <3>2, <3>3 DEF v, r
  <2>9. CASE ~ Blacklisted(tc, r)
    <3>1. Tally(tc, l, D \cup {i})
            = Result(v.ips (+) SetToBag({r.ip}), v.filtered + 1, v.invalid, v.excluded,
                     v.white, v.black)
      BY <2>5, <2>9
    <3>2. FilterOne(tc, v, r) = u
      BY <2>7, <2>9
    <3> QED BY <2>1, <3>1, <3>2 DEF v, r
  <2> QED BY <2>8, <2>9 DEF v, r
<1> QED BY <1>1, <1>2, <1>3, <1>4

(* The collector counts what a filter worker judged and sent.              *)
LEMMA CollectOneTallies ==
  ASSUME NEW tc, NEW l, NEW D, IsFiniteSet(D), NEW i, i \notin D, Passes(tc, l[i])
  PROVE  CollectOne(Tally(tc, l, D), Judge(tc, l[i])) = Tally(tc, l, D \cup {i})
<1> DEFINE v == Tally(tc, l, D)
           r == l[i]
           j == Judge(tc, r)
           u == CollectCounts(v, j)
<1>0. IsResult(v)
  BY TallyFields
<1>1. /\ j.ip = r.ip /\ j.include = ~ Whitelisted(tc, r)
      /\ j.white = Whitelisted(tc, r) /\ j.black = Blacklisted(tc, r)
  BY DEF Judge
<1>2. Blacklisted(tc, r) => ~ Whitelisted(tc, r)
  BY DEF Blacklisted, Whitelisted
<1>3. CASE r.ip = 0
  BY <1>1, <1>3, TallyInvalid DEF CollectOne
<1>4. CASE r.ip # 0 /\ Whitelisted(tc, r)
  <2>1. CollectOne(v, j) = CollectLists(u, j)
    BY <1>1, <1>4 DEF CollectOne
  <2>2. u = [v EXCEPT !.excluded = v.excluded + 1]
    BY <1>1, <1>4 DEF CollectCounts
  <2>3. u = Result(v.ips, v.filtered, v.invalid, v.excluded + 1, v.white, v.black)
    BY <1>0, <2>2, Rewritten
  <2>4. Tally(tc, l, D \cup {i})
          = Result(v.ips, v.filtered, v.invalid, v.excluded + 1, v.white \cup {r.ip}, v.black)
    BY <1>4, TallyDropped
  <2> HIDE DEF u, v
  <2>5. /\ IsResult(u) /\ u.ips = v.ips /\ u.filtered = v.filtered /\ u.invalid = v.invalid
        /\ u.excluded = v.excluded + 1 /\ u.white = v.white /\ u.black = v.black
    BY <2>3, Fields
  <2>6. CollectLists(u, j)
          = Result(u.ips, u.filtered, u.invalid, u.excluded,
                   IF j.white THEN u.white \cup {j.ip} ELSE u.white,
                   IF j.black THEN u.black \cup {j.ip} ELSE u.black)
    BY <2>5, ListsFacts
  <2> HIDE DEF j, r
  <2>7. CollectOne(v, j) = Tally(tc, l, D \cup {i})
    BY <1>1, <1>2, <1>4, <2>1, <2>4, <2>5, <2>6
  <2> QED BY <2>7 DEF v, j, r
<1>5. CASE r.ip # 0 /\ ~ Whitelisted(tc, r)
  <2>1. CollectOne(v, j) = CollectLists(u, j)
    BY <1>1, <1>5 DEF CollectOne
  <2>2. u = Inserted(v, r.ip)
    BY <1>1, <1>5 DEF CollectCounts
  <2>3. u = Result(v.ips (+) SetToBag({r.ip}), v.filtered + 1, v.invalid, v.excluded,
                   v.white, v.black)
    BY <1>0, <2>2, InsertedFacts
  <2>4. Tally(tc, l, D \cup {i})
          = Result(v.ips (+) SetToBag({r.ip}), v.filtered + 1, v.invalid, v.excluded,
                   v.white, IF Blacklisted(tc, r) THEN v.black \cup {r.ip} ELSE v.black)
    BY <1>5, TallyCounted
  <2> HIDE DEF u, v
  <2>5. /\ IsResult(u) /\ u.ips = v.ips (+) SetToBag({r.ip}) /\ u.filtered = v.filtered + 1
        /\ u.invalid = v.invalid /\ u.excluded = v.excluded /\ u.white = v.white
        /\ u.black = v.black
    BY <2>3, Fields
  <2>6. CollectLists(u, j)
          = Result(u.ips, u.filtered, u.invalid, u.excluded,
                   IF j.white THEN u.white \cup {j.ip} ELSE u.white,
                   IF j.black THEN u.black \cup {j.ip} ELSE u.black)
    BY <2>5, ListsFacts
  <2> HIDE DEF j, r
  <2>7. CollectOne(v, j) = Tally(tc, l, D \cup {i})
    BY <1>1, <1>5, <2>1, <2>4, <2>5, <2>6
  <2> QED BY <2>7 DEF v, j, r
<1> QED BY <1>3, <1>4, <1>5

----------------------------------------------------------------------------
(* The sequential ways to a result.                                        *)

(* f lists what one pass of the filter has after each request.             *)
Passing(tc, l, f) ==
  f = [n \in 0..Len(l) |-> IF n = 0 THEN NoResult ELSE FilterOne(tc, f[n - 1], l[n])]

LEMMA PlaceMore ==
  ASSUME NEW n \in Nat
  PROVE  /\ 1..(n + 1) = (1..n) \cup {n + 1} /\ n + 1 \notin 1..n /\ IsFiniteSet(1..n)
<1>1. IsFiniteSet(1..n)
  BY FS_Interval
<1> QED BY <1>1

LEMMA PassingExists ==
  ASSUME NEW tc, NEW l, Len(l) \in Nat
  PROVE  \E f : Passing(tc, l, f)
<1> DEFINE f == [n \in 0..Len(l) |-> Tally(tc, l, 1..n)]
           g == [n \in 0..Len(l) |-> IF n = 0 THEN NoResult ELSE FilterOne(tc, f[n - 1], l[n])]
<1>1. ASSUME NEW n \in 0..Len(l) PROVE f[n] = g[n]
  <2>1. CASE n = 0
    <3>1. 1..0 = {}
      OBVIOUS
    <3> QED BY <2>1, <3>1, TallyEmpty
  <2>2. CASE n # 0
    <3> DEFINE m == n - 1
    <3>1. m \in Nat /\ n = m + 1 /\ m \in 0..Len(l)
      BY <2>2
    <3> HIDE DEF m
    <3>2. /\ 1..n = (1..m) \cup {n} /\ n \notin 1..m /\ IsFiniteSet(1..m)
      BY <3>1, PlaceMore
    <3>3. FilterOne(tc, Tally(tc, l, 1..m), l[n]) = Tally(tc, l, (1..m) \cup {n})
      <4> DEFINE D == 1..m
      <4> HIDE DEF D
      <4>1. IsFiniteSet(D) /\ n \notin D
        BY <3>2 DEF D
      <4>2. FilterOne(tc, Tally(tc, l, D), l[n]) = Tally(tc, l, D \cup {n})
        BY <4>1, FilterOneTallies
      <4> QED BY <4>2 DEF D
    <3>4. f[n] = Tally(tc, l, 1..n) /\ f[m] = Tally(tc, l, 1..m)
      BY <3>1
    <3>5. g[n] = FilterOne(tc, f[m], l[n])
      BY <2>2 DEF m
    <3> HIDE DEF f, g
    <3> QED BY <3>2, <3>3, <3>4, <3>5
  <2> QED BY <2>1, <2>2
<1>2. f = g
  BY <1>1
<1> QED BY <1>2, Zenon DEF Passing

LEMMA PassingTallies ==
  ASSUME NEW tc, NEW l, Len(l) \in Nat, DOMAIN l = 1..Len(l), NEW f, Passing(tc, l, f)
  PROVE  f[Len(l)] = Tally(tc, l, DOMAIN l)
<1> DEFINE T == {n \in Nat : n <= Len(l) => f[n] = Tally(tc, l, 1..n)}
<1>1. \A n \in 0..Len(l) :
        f[n] = IF n = 0 THEN NoResult ELSE FilterOne(tc, f[n - 1], l[n])
  BY DEF Passing
<1>2. 0 \in T
  <2>1. 1..0 = {}
    OBVIOUS
  <2> QED BY <1>1, <2>1, TallyEmpty
<1>3. ASSUME NEW n \in Nat, n \in T PROVE n + 1 \in T
  <2> SUFFICES ASSUME n + 1 <= Len(l) PROVE f[n + 1] = Tally(tc, l, 1..(n + 1))
    OBVIOUS
  <2> DEFINE m == n + 1
  <2>1. m \in 0..Len(l) /\ m # 0 /\ m - 1 = n /\ n <= Len(l)
    OBVIOUS
  <2>2. f[n] = Tally(tc, l, 1..n)
    BY <1>3, <2>1
  <2>3. 1..m = (1..n) \cup {m} /\ m \notin 1..n /\ IsFiniteSet(1..n)
    BY PlaceMore
  <2> HIDE DEF m
  <2>4. f[m] = FilterOne(tc, f[n], l[m])
    BY <1>1, <2>1
  <2>5. FilterOne(tc, Tally(tc, l, 1..n), l[m]) = Tally(tc, l, (1..n) \cup {m})
    <3> DEFINE D == 1..n
    <3> HIDE DEF D
    <3>1. IsFiniteSet(D) /\ m \notin D
      BY <2>3 DEF D
    <3>2. FilterOne(tc, Tally(tc, l, D), l[m]) = Tally(tc, l, D \cup {m})
      BY <3>1, FilterOneTallies
    <3> QED BY <3>2 DEF D
  <2>6. f[m] = Tally(tc, l, 1..m)
    BY <2>2, <2>3, <2>4, <2>5
  <2> QED BY <2>6 DEF m
<1> HIDE DEF T
<1>4. Len(l) \in T
  BY <1>2, <1>3, Induction
<1> QED BY <1>4 DEF T

(* filterRequests, whatever the filters.                                   *)
LEMMA FilterRequestsTallies ==
  ASSUME NEW tc, NEW l, Len(l) \in Nat, DOMAIN l = 1..Len(l)
  PROVE  FilterRequests(tc, l) = Tally(tc, l, DOMAIN l)
<1> DEFINE f == CHOOSE f : Passing(tc, l, f)
<1>1. Passing(tc, l, f)
  BY PassingExists
<1>2. FilterRequests(tc, l) = f[Len(l)]
  BY DEF FilterRequests, Passing
<1> HIDE DEF f
<1> QED BY <1>1, <1>2, PassingTallies

LEMMA NoFilters ==
  ASSUME NEW tc, ~ HasFilters(tc), NEW r
  PROVE  Passes(tc, r) /\ ~ Whitelisted(tc, r) /\ ~ Blacklisted(tc, r)
<1>1. /\ tc.whiteAgents \cup tc.blackAgents = {}
      /\ ~ tc.agentRegex.set /\ ~ tc.uriRegex.set /\ ~ tc.start.set /\ ~ tc.end.set
  BY DEF HasFilters, HasAgentLists
<1>2. Passes(tc, r)
  BY <1>1 DEF Passes, Excluded, ShouldIncludeRequest, RegexGate
<1>3. ~ Whitelisted(tc, r) /\ ~ Blacklisted(tc, r)
  BY <1>1 DEF Whitelisted, Blacklisted
<1> QED BY <1>2, <1>3

(* i lists what inserting all addresses has after each request.            *)
Inserting(l, f) ==
  f = [n \in 0..Len(l) |-> IF n = 0 THEN NoResult ELSE InsertOne(f[n - 1], l[n].ip)]

LEMMA InsertingIsPassing ==
  ASSUME NEW tc, ~ HasFilters(tc), NEW l, NEW f
  PROVE  Inserting(l, f) <=> Passing(tc, l, f)
<1>1. \A res, r : FilterOne(tc, res, r) = InsertOne(res, r.ip)
  BY NoFilters DEF FilterOne, InsertOne
<1>2. [n \in 0..Len(l) |-> IF n = 0 THEN NoResult ELSE InsertOne(f[n - 1], l[n].ip)]
        = [n \in 0..Len(l) |-> IF n = 0 THEN NoResult ELSE FilterOne(tc, f[n - 1], l[n])]
  BY <1>1
<1> QED BY <1>2, Zenon DEF Inserting, Passing

LEMMA UnfilteredTallies ==
  ASSUME NEW tc, ~ HasFilters(tc), NEW l, Len(l) \in Nat, DOMAIN l = 1..Len(l)
  PROVE  Unfiltered(l) = Tally(tc, l, DOMAIN l)
<1> DEFINE f == CHOOSE f : Inserting(l, f)
<1>1. \E g : Inserting(l, g)
  BY PassingExists, InsertingIsPassing
<1>2. Passing(tc, l, f)
  BY <1>1, InsertingIsPassing
<1>3. Unfiltered(l) = f[Len(l)]
  BY DEF Unfiltered, Inserting
<1> HIDE DEF f
<1> QED BY <1>2, <1>3, PassingTallies

(* The addresses alone.                                                    *)
LEMMA FromAddressesTallies ==
  ASSUME NEW tc, ~ HasFilters(tc), NEW l
  PROVE  FromAddresses(ParseFileIPs(l)) = Tally(tc, l, DOMAIN l)
<1> DEFINE D == DOMAIN l
<1>1. \A i : Passes(tc, l[i]) /\ ~ Whitelisted(tc, l[i]) /\ ~ Blacklisted(tc, l[i])
  BY NoFilters
<1>2. /\ Count(tc, l, D) = Valid(l) /\ Fail(tc, l, D) = D \ Valid(l)
      /\ Drop(tc, l, D) = {} /\ List(tc, l, D) = {}
  BY <1>1 DEF Count, Fail, Drop, List, Want, Valid
<1>3. At(l, {}) = {}
  BY DEF At
<1>4. Cardinality({}) = 0
  BY FS_EmptySet
<1>5. Tally(tc, l, D) = Result(BagAt(l, Valid(l)), Cardinality(Valid(l)),
                               Cardinality(D \ Valid(l)), 0, {}, {})
  BY <1>2, <1>3, <1>4 DEF Tally
<1>6. BagAt(l, Valid(l)) = Addresses(l)
  BY DEF BagAt, At, Addresses
<1>7. FromAddresses(ParseFileIPs(l))
        = Result(Addresses(l), Cardinality(Valid(l)), Cardinality(D \ Valid(l)), 0, {}, {})
  BY DEF FromAddresses, ParseFileIPs, Result
<1> QED BY <1>5, <1>6, <1>7

(* What a trie should get.                                                 *)
LEMMA ExpectedTallies ==
  ASSUME NEW t, config[t] # NoConfig
  PROVE  Expected(t) = Tally(config[t], log, DOMAIN log)
BY DEF Expected, Tally, Result, BagAt, At, AddressesOf, Counted, Dropped, Listed, Wanted,
       Count, Drop, List, Fail, Want

----------------------------------------------------------------------------
(* The requests that are filtered concurrently.                            *)

(* The places of the requests in resultChan.                               *)
Sent(rs) == [k \in DOMAIN rs |-> {rs[k].at}]
Judgements(tc, l) ==
  {[at |-> i, judged |-> Judge(tc, l[i])] : i \in Want(tc, l, DOMAIN l)}

SentMore(tc, l, rs, x) ==
  Append(rs, x) \in Seq(Judgements(tc, l)) /\ Sent(Append(rs, x)) = Append(Sent(rs), {x.at})
SentLess(tc, l, rs) ==
  /\ Sent(rs) # <<>> /\ Tail(rs) \in Seq(Judgements(tc, l))
  /\ Sent(Tail(rs)) = Tail(Sent(rs)) /\ Head(Sent(rs)) = {Head(rs).at}
  /\ Head(rs).at \in DOMAIN l /\ Passes(tc, l[Head(rs).at])
  /\ Head(rs).judged = Judge(tc, l[Head(rs).at])

LEMMA SentFacts ==
  ASSUME NEW tc, NEW l, NEW rs \in Seq(Judgements(tc, l))
  PROVE  /\ Sent(rs) \in Seq(SUBSET DOMAIN l)
         /\ \A x \in Judgements(tc, l) : SentMore(tc, l, rs, x)
         /\ rs # <<>> => SentLess(tc, l, rs)
<1> DEFINE J == Judgements(tc, l)
           n == Len(rs)
<1>1. \A x \in J : /\ x.at \in DOMAIN l /\ Passes(tc, l[x.at])
                   /\ x.judged = Judge(tc, l[x.at])
  BY DEF Judgements, Want
<1> HIDE DEF J
<1>3. n \in Nat /\ DOMAIN rs = 1..n /\ \A k \in 1..n : rs[k] \in J
  BY DEF J
<1>4. Sent(rs) \in Seq(SUBSET DOMAIN l) /\ Len(Sent(rs)) = n
  BY <1>1, <1>3 DEF Sent
<1>5. ASSUME NEW i, NEW x \in J, x.at = i
      PROVE  Append(rs, x) \in Seq(J) /\ Sent(Append(rs, x)) = Append(Sent(rs), {i})
  <2>1. Append(rs, x) \in Seq(J)
    BY DEF J
  <2>2. /\ DOMAIN Append(rs, x) = 1..(n + 1) /\ Append(rs, x)[n + 1] = x
        /\ \A k \in 1..n : Append(rs, x)[k] = rs[k]
    BY <1>3
  <2>3. Sent(Append(rs, x)) = [k \in 1..(n + 1) |-> IF k = n + 1 THEN {i} ELSE Sent(rs)[k]]
    BY <1>3, <1>5, <2>2 DEF Sent
  <2>4. Append(Sent(rs), {i}) = [k \in 1..(n + 1) |-> IF k = n + 1 THEN {i} ELSE Sent(rs)[k]]
    BY <1>3, <1>4
  <2> QED BY <2>1, <2>3, <2>4
<1>6. ASSUME rs # <<>>
      PROVE  /\ Sent(rs) # <<>> /\ Tail(rs) \in Seq(J)
             /\ Sent(Tail(rs)) = Tail(Sent(rs)) /\ Head(Sent(rs)) = {Head(rs).at}
             /\ Head(rs) \in J
  <2>1. n >= 1 /\ Head(rs) = rs[1] /\ Tail(rs) \in Seq(J) /\ Head(rs) \in J
    BY <1>3, <1>6 DEF J
  <2>2. /\ DOMAIN Tail(rs) = 1..(n - 1) /\ \A k \in 1..(n - 1) : Tail(rs)[k] = rs[k + 1]
    BY <1>3, <2>1
  <2>3. Sent(Tail(rs)) = [k \in 1..(n - 1) |-> Sent(rs)[k + 1]]
    BY <1>3, <2>1, <2>2 DEF Sent
  <2>4. Tail(Sent(rs)) = [k \in 1..(n - 1) |-> Sent(rs)[k + 1]]
    <3> DEFINE u == Sent(rs)
               v == Tail(u)
    <3> HIDE DEF u, n
    <3>1. u \in Seq(SUBSET DOMAIN l) /\ Len(u) = n /\ n \in Nat /\ n >= 1
      BY <1>3, <1>4, <2>1 DEF u
    <3>2. v \in Seq(SUBSET DOMAIN l) /\ Len(v) = n - 1
          /\ \A k \in 1..(n - 1) : v[k] = u[k + 1]
      BY <3>1
    <3> HIDE DEF v
    <3>3. v = [k \in 1..(n - 1) |-> u[k + 1]]
      BY <3>1, <3>2
    <3> QED BY <3>3 DEF u, v
  <2>5. Head(Sent(rs)) = {Head(rs).at} /\ Sent(rs) # <<>>
    BY <1>3, <1>4, <2>1 DEF Sent
  <2> QED BY <2>1, <2>3, <2>4, <2>5
<1> QED BY <1>1, <1>4, <1>5, <1>6 DEF J, SentMore, SentLess

----------------------------------------------------------------------------
(* The filter of one trie: every request is not yet in a chunk, in a chunk *)
(* that waits, in the chunk of a filter worker, on its way to the          *)
(* collector, or in the result, and in only one of these.                  *)

Apart(A, B, C, D) ==
  /\ A \cap B = {} /\ A \cap C = {} /\ A \cap D = {}
  /\ B \cap C = {} /\ B \cap D = {} /\ C \cap D = {}

Sound(tc, l, un, q, ch, rs, res) ==
  /\ un \subseteq DOMAIN l
  /\ q \in Seq(SUBSET DOMAIN l)
  /\ ch \in [FilterWorkers -> SUBSET DOMAIN l]
  /\ rs \in Seq(Judgements(tc, l))
  /\ Distinct(q) /\ Distinct(ch) /\ Distinct(Sent(rs))
  /\ Apart(un, Held(q), Held(ch), Held(Sent(rs)))
  /\ res = Tally(tc, l, DOMAIN l \ (un \cup Held(q) \cup Held(ch) \cup Held(Sent(rs))))

NoChunks == [f \in FilterWorkers |-> {}]

LEMMA HeldNothing ==
  /\ Held(<<>>) = {} /\ Distinct(<<>>) /\ Sent(<<>>) = <<>>
  /\ Held(NoChunks) = {} /\ Distinct(NoChunks)
<1>1. DOMAIN <<>> = {}
  OBVIOUS
<1>2. Held(<<>>) = {} /\ Distinct(<<>>)
  BY <1>1 DEF Held, Distinct
<1>3. Sent(<<>>) = <<>>
  BY <1>1 DEF Sent
<1>4. Held(NoChunks) = {} /\ Distinct(NoChunks)
  BY DEF Held, Distinct, NoChunks
<1> QED BY <1>2, <1>3, <1>4

LEMMA SoundAtFirst ==
  ASSUME NEW tc, NEW l
  PROVE  Sound(tc, l, DOMAIN l, <<>>, NoChunks, <<>>, NoResult)
<1>1. DOMAIN l \ (DOMAIN l \cup {} \cup {} \cup {}) = {}
  OBVIOUS
<1>2. NoChunks \in [FilterWorkers -> SUBSET DOMAIN l]
  BY DEF NoChunks
<1>3. Apart(DOMAIN l, {}, {}, {})
  BY DEF Apart
<1>4. <<>> \in Seq(SUBSET DOMAIN l) /\ <<>> \in Seq(Judgements(tc, l))
  OBVIOUS
<1> QED BY <1>1, <1>2, <1>3, <1>4, HeldNothing, TallyEmpty DEF Sound

LEMMA SoundAtLast ==
  ASSUME NEW tc, NEW l, NEW ch, NEW res, Sound(tc, l, {}, <<>>, ch, <<>>, res),
         \A f \in FilterWorkers : ch[f] = {}
  PROVE  res = Tally(tc, l, DOMAIN l) /\ ch = NoChunks
<1>1. ch = NoChunks
  BY DEF Sound, NoChunks
<1>2. DOMAIN l \ ({} \cup {} \cup {} \cup {}) = DOMAIN l
  OBVIOUS
<1> QED BY <1>1, <1>2, HeldNothing DEF Sound

LEMMA SoundDistribute ==
  ASSUME NEW tc, NEW l, NEW un, NEW q, NEW ch, NEW rs, NEW res,
         Sound(tc, l, un, q, ch, rs, res), NEW s, s \subseteq un
  PROVE  Sound(tc, l, un \ s, Append(q, s), ch, rs, res)
<1> DEFINE P == DOMAIN l
           Q == Held(q)
           C == Held(ch)
           R == Held(Sent(rs))
<1>1. q \in Seq(SUBSET P) /\ s \in SUBSET P /\ Distinct(q) /\ s \cap Q = {} /\ un \subseteq P
      /\ Apart(un, Q, C, R)
  BY DEF Sound, Apart
<1>2. /\ Append(q, s) \in Seq(SUBSET P) /\ Held(Append(q, s)) = Q \cup s
      /\ Distinct(Append(q, s))
  <2>1. Fits(P, q, s)
    BY <1>1 DEF Fits
  <2>2. Longer(P, q, s, Append(q, s))
    BY <2>1, HeldAppend
  <2> QED BY <2>2 DEF Longer
<1>3. /\ Apart(un \ s, Q \cup s, C, R)
      /\ (un \ s) \cup (Q \cup s) \cup C \cup R = un \cup Q \cup C \cup R
  BY <1>1 DEF Apart
<1> HIDE DEF Q, C, R
<1> QED BY <1>1, <1>2, <1>3 DEF Sound, Q, C, R

LEMMA SoundTake ==
  ASSUME NEW tc, NEW l, NEW un, NEW q, NEW ch, NEW rs, NEW res,
         Sound(tc, l, un, q, ch, rs, res),
         NEW f \in FilterWorkers, ch[f] = {}, q # <<>>
  PROVE  Sound(tc, l, un, Tail(q), [ch EXCEPT ![f] = Head(q)], rs, res)
<1> DEFINE P == DOMAIN l
           Q == Held(q)
           C == Held(ch)
           R == Held(Sent(rs))
           h == Head(q)
           T == Held(Tail(q))
           c == [ch EXCEPT ![f] = h]
<1>1. /\ q \in Seq(SUBSET P) /\ Distinct(q) /\ Distinct(ch) /\ f \in DOMAIN ch
      /\ Apart(un, Q, C, R) /\ ch \in [FilterWorkers -> SUBSET P]
  BY DEF Sound
<1>2. /\ Tail(q) \in Seq(SUBSET P) /\ h \in SUBSET P
      /\ Q = h \cup T /\ h \cap T = {} /\ Distinct(Tail(q))
  <2> HIDE DEF P
  <2> QED BY <1>1, HeldTail
<1> HIDE DEF h, T
<1>3. h \cap (C \ ch[f]) = {}
  BY <1>1, <1>2 DEF Apart
<1>4. Held(c) = (C \ ch[f]) \cup h /\ Distinct(c)
  BY <1>1, <1>3, HeldPut
<1>5. c \in [FilterWorkers -> SUBSET P]
  BY <1>1, <1>2
<1>6. Held(c) = C \cup h
  BY <1>4
<1>7. Apart(un, T, C \cup h, R) /\ un \cup T \cup (C \cup h) \cup R = un \cup Q \cup C \cup R
  BY <1>1, <1>2 DEF Apart
<1> HIDE DEF Q, C, R, c
<1>8. Sound(tc, l, un, Tail(q), c, rs, res)
  BY <1>2, <1>4, <1>5, <1>6, <1>7 DEF Sound, Q, C, R, T
<1> QED BY <1>8 DEF c, h

LEMMA SoundJudge ==
  ASSUME NEW tc, NEW l, NEW un, NEW q, NEW ch, NEW rs, NEW res,
         Sound(tc, l, un, q, ch, rs, res),
         NEW f \in FilterWorkers, NEW i \in ch[f], Passes(tc, l[i])
  PROVE  Sound(tc, l, un, q, [ch EXCEPT ![f] = ch[f] \ {i}],
               Append(rs, [at |-> i, judged |-> Judge(tc, l[i])]), res)
<1> DEFINE P == DOMAIN l
           Q == Held(q)
           C == Held(ch)
           R == Held(Sent(rs))
           b == ch[f] \ {i}
           c == [ch EXCEPT ![f] = b]
           x == [at |-> i, judged |-> Judge(tc, l[i])]
           r == Append(rs, x)
<1>1. /\ rs \in Seq(Judgements(tc, l)) /\ Distinct(ch) /\ f \in DOMAIN ch
      /\ Apart(un, Q, C, R) /\ ch \in [FilterWorkers -> SUBSET P] /\ Distinct(Sent(rs))
  BY DEF Sound
<1>2. i \in P /\ i \in C /\ ch[f] \subseteq C
  BY <1>1 DEF Held
<1>3. x \in Judgements(tc, l) /\ x.at = i
  BY <1>2 DEF Judgements, Want
<1> HIDE DEF x, b, P
<1>4. /\ r \in Seq(Judgements(tc, l)) /\ Sent(r) = Append(Sent(rs), {i})
      /\ Sent(rs) \in Seq(SUBSET P)
  <2>1. SentMore(tc, l, rs, x) /\ Sent(rs) \in Seq(SUBSET P)
    BY <1>1, <1>3, SentFacts DEF P
  <2> QED BY <1>3, <2>1 DEF SentMore
<1>5. {i} \in SUBSET P /\ {i} \cap R = {}
  BY <1>1, <1>2 DEF Apart
<1>6. Held(Sent(r)) = R \cup {i} /\ Distinct(Sent(r))
  <2> DEFINE s == {i}
  <2> HIDE DEF s
  <2>1. Fits(P, Sent(rs), s)
    BY <1>1, <1>4, <1>5 DEF s, Fits
  <2>2. Longer(P, Sent(rs), s, Append(Sent(rs), s))
    BY <2>1, HeldAppend
  <2>3. Append(Sent(rs), s) = Sent(r)
    BY <1>4 DEF s
  <2> HIDE DEF r
  <2> QED BY <2>2, <2>3 DEF s, Longer
<1>7. b \cap (C \ ch[f]) = {} /\ (C \ ch[f]) \cup b = C \ {i}
  <2>1. b \subseteq ch[f] /\ i \in ch[f]
    BY DEF b
  <2> QED BY <1>2, <2>1 DEF b
<1>8. Held(c) = C \ {i} /\ Distinct(c)
  BY <1>1, <1>7, HeldPut
<1>9. c \in [FilterWorkers -> SUBSET P]
  BY <1>1 DEF b
<1>10. /\ Apart(un, Q, C \ {i}, R \cup {i})
       /\ un \cup Q \cup (C \ {i}) \cup (R \cup {i}) = un \cup Q \cup C \cup R
  BY <1>1, <1>2 DEF Apart
<1> HIDE DEF Q, C, R, c, r
<1>11. Sound(tc, l, un, q, c, r, res)
  BY <1>4, <1>6, <1>8, <1>9, <1>10 DEF Sound, Q, C, R, P
<1> QED BY <1>11 DEF c, r, x, b

LEMMA SoundReject ==
  ASSUME NEW tc, NEW l, IsFiniteSet(DOMAIN l),
         NEW un, NEW q, NEW ch, NEW rs, NEW res, Sound(tc, l, un, q, ch, rs, res),
         NEW f \in FilterWorkers, NEW i \in ch[f], ~ Passes(tc, l[i])
  PROVE  Sound(tc, l, un, q, [ch EXCEPT ![f] = ch[f] \ {i}], rs, res)
<1> DEFINE P == DOMAIN l
           Q == Held(q)
           C == Held(ch)
           R == Held(Sent(rs))
           b == ch[f] \ {i}
           c == [ch EXCEPT ![f] = b]
           D == P \ (un \cup Q \cup C \cup R)
<1>1. /\ Distinct(ch) /\ f \in DOMAIN ch
      /\ Apart(un, Q, C, R) /\ ch \in [FilterWorkers -> SUBSET P]
  BY DEF Sound
<1>2. i \in P /\ i \in C /\ ch[f] \subseteq C
  BY <1>1 DEF Held
<1> HIDE DEF b, P, Q, C, R
<1>3. b \cap (C \ ch[f]) = {} /\ (C \ ch[f]) \cup b = C \ {i}
  <2>1. b \subseteq ch[f] /\ i \in ch[f]
    BY DEF b
  <2> QED BY <1>2, <2>1 DEF b
<1>4. Held(c) = C \ {i} /\ Distinct(c)
  BY <1>1, <1>3, HeldPut DEF C
<1>5. c \in [FilterWorkers -> SUBSET P]
  BY <1>1 DEF b
<1>6. /\ Apart(un, Q, C \ {i}, R) /\ i \notin D
      /\ P \ (un \cup Q \cup (C \ {i}) \cup R) = D \cup {i}
  BY <1>1, <1>2 DEF Apart
<1>7. IsFiniteSet(P) /\ res = Tally(tc, l, D)
  BY DEF P, Q, C, R, Sound
<1> HIDE DEF c, D
<1>8. Tally(tc, l, D \cup {i}) = Tally(tc, l, D)
  BY <1>6, TallySkips
<1>9. Sound(tc, l, un, q, c, rs, res)
  BY <1>4, <1>5, <1>6, <1>7, <1>8 DEF Sound, Q, C, R, P
<1> QED BY <1>9 DEF c, b

LEMMA SoundCollect ==
  ASSUME NEW tc, NEW l, IsFiniteSet(DOMAIN l),
         NEW un, NEW q, NEW ch, NEW rs, NEW res, Sound(tc, l, un, q, ch, rs, res), rs # <<>>
  PROVE  Sound(tc, l, un, q, ch, Tail(rs), CollectOne(res, Head(rs).judged))
<1> DEFINE P == DOMAIN l
           Q == Held(q)
           C == Held(ch)
           S == Sent(rs)
           R == Held(S)
           i == Head(rs).at
           D == P \ (un \cup Q \cup C \cup R)
           T == Held(Tail(S))
<1>1. /\ rs \in Seq(Judgements(tc, l)) /\ Apart(un, Q, C, R) /\ Distinct(S)
      /\ un \subseteq P /\ res = Tally(tc, l, D)
  BY DEF Sound
<1>2. SentLess(tc, l, rs) /\ S \in Seq(SUBSET P)
  BY <1>1, SentFacts
<1>3. /\ S # <<>> /\ Tail(rs) \in Seq(Judgements(tc, l)) /\ Sent(Tail(rs)) = Tail(S)
      /\ Head(S) = {i} /\ i \in P /\ Passes(tc, l[i]) /\ Head(rs).judged = Judge(tc, l[i])
  BY <1>2 DEF SentLess
<1> HIDE DEF P, S, i
<1>4. /\ R = Head(S) \cup T /\ Head(S) \cap T = {} /\ Distinct(Tail(S))
  BY <1>1, <1>2, <1>3, HeldTail
<1> HIDE DEF Q, C, R, T
<1>5. R = {i} \cup T /\ i \notin T
  BY <1>3, <1>4
<1>6. /\ Apart(un, Q, C, T) /\ i \notin D
      /\ P \ (un \cup Q \cup C \cup T) = D \cup {i}
  BY <1>1, <1>3, <1>5 DEF Apart
<1>7. IsFiniteSet(D)
  <2>1. D \subseteq P /\ IsFiniteSet(P)
    BY DEF P
  <2> QED BY <2>1, FS_Subset
<1> HIDE DEF D
<1>8. CollectOne(Tally(tc, l, D), Judge(tc, l[i])) = Tally(tc, l, D \cup {i})
  BY <1>3, <1>6, <1>7, CollectOneTallies
<1>9. CollectOne(res, Head(rs).judged) = Tally(tc, l, P \ (un \cup Q \cup C \cup T))
  BY <1>1, <1>3, <1>6, <1>8
<1> QED BY <1>1, <1>3, <1>4, <1>6, <1>9 DEF Sound, P, Q, C, T, S, R

----------------------------------------------------------------------------
(* The specification.                                                      *)

(* What trie t should get out of log l.                                    *)
Due(c, l, t) == IF c[t] = NoConfig THEN NoResult ELSE Tally(c[t], l, DOMAIN l)

LEMMA ExpectedIsDue ==
  \A t : Expected(t) = Due(config, log, t)
<1> TAKE t
<1>1. CASE config[t] = NoConfig
  BY <1>1 DEF Expected, Due
<1>2. CASE config[t] # NoConfig
  BY <1>2, ExpectedTallies DEF Due
<1> QED BY <1>1, <1>2

TypeInv ==
  /\ log \in Logs
  /\ work \subseteq Tries /\ filtering \subseteq Tries
  /\ worker \in [TrieWorkers -> SUBSET Tries]
  /\ DOMAIN unsent = Tries /\ DOMAIN requestChan = Tries /\ DOMAIN chunk = Tries
  /\ DOMAIN resultChan = Tries /\ DOMAIN result = Tries

(* A trie whose filter runs has every request in one place, a trie that    *)
(* waits has no result, and one that is done has the right one.            *)
FilterInv ==
  /\ work \cap filtering = {}
  /\ \A t \in filtering :
       /\ config[t] # NoConfig
       /\ Sound(config[t], log, unsent[t], requestChan[t], chunk[t], resultChan[t], result[t])
  /\ \A t \in Tries \ filtering :
       /\ unsent[t] = {} /\ requestChan[t] = <<>>
       /\ chunk[t] = NoChunks /\ resultChan[t] = <<>>
  /\ \A t \in work : result[t] = NoResult
  /\ \A t \in Tries \ (work \cup filtering) : result[t] = Due(config, log, t)

(* No trie is lost between the trie workers.                               *)
NoneLost ==
  /\ \A w \in TrieWorkers : worker[w] \cap work = {} /\ \A t, u \in worker[w] : t = u
  /\ \A t \in Tries : t \in work \/ t \in DOMAIN results \/ \E w \in TrieWorkers : t \in worker[w]
  /\ DOMAIN results \subseteq Tries

(* What is gathered is what the tries that have reported should give.      *)
Gathered(c, l, rs, w, b) ==
  /\ \A t \in DOMAIN rs : rs[t] = Due(c, l, t)
  /\ w = UNION {Due(c, l, t).white : t \in DOMAIN rs}
  /\ b = UNION {Due(c, l, t).black : t \in DOMAIN rs}

GatherInv ==
  /\ NoneLost
  /\ Gathered(config, log, results, white, black)
  /\ outcome = "jail phase" => Joined

IInv == TypeInv /\ FilterInv /\ GatherInv

LEMMA LogFacts ==
  ASSUME NEW l \in Logs
  PROVE  Len(l) \in Nat /\ DOMAIN l = 1..Len(l) /\ IsFiniteSet(DOMAIN l)
<1>1. l \in Seq(Range(l))
  BY StaticAssumption
<1>2. Len(l) \in Nat /\ DOMAIN l = 1..Len(l)
  BY <1>1
<1> QED BY <1>2, FS_Interval

(* The three sequential ways agree.                                        *)
LEMMA SequentialIsDue ==
  ASSUME log \in Logs, NEW t \in Tries, ~ Concurrent(t)
  PROVE  SequentialResult(t) = Due(config, log, t)
<1>1. /\ Len(log) \in Nat /\ DOMAIN log = 1..Len(log)
  BY LogFacts
<1>2. CASE config[t] = NoConfig
  BY <1>2 DEF SequentialResult, Due
<1>3. CASE config[t] # NoConfig /\ FastPath
  <2>1. ~ HasFilters(config[t])
    BY <1>3 DEF FastPath, NeedsNonIPFields
  <2> QED BY <1>3, <2>1, FromAddressesTallies DEF SequentialResult, Due
<1>4. CASE config[t] # NoConfig /\ ~ FastPath /\ ~ HasFilters(config[t])
  BY <1>1, <1>4, UnfilteredTallies DEF SequentialResult, Due
<1>5. CASE config[t] # NoConfig /\ ~ FastPath /\ HasFilters(config[t])
  BY <1>1, <1>5, FilterRequestsTallies DEF SequentialResult, Due
<1> QED BY <1>2, <1>3, <1>4, <1>5

LEMMA InitIInv ==
  Init => IInv
<1> SUFFICES ASSUME Init PROVE IInv
  OBVIOUS
<1>1. TypeInv
  BY DEF Init, TypeInv, Tries
<1>2. FilterInv
  BY DEF Init, FilterInv, Tries, NoChunks
<1>3. GatherInv
  <2>1. DOMAIN results = {} /\ work = Tries /\ white = {} /\ black = {}
        /\ worker = [w \in TrieWorkers |-> {}] /\ outcome = "running"
    BY DEF Init
  <2>2. Tries \subseteq work
    BY <2>1
  <2>3. NoneLost
    BY <2>1, <2>2 DEF NoneLost
  <2>4. Gathered(config, log, results, white, black)
    BY <2>1 DEF Gathered
  <2> QED BY <2>1, <2>3, <2>4 DEF GatherInv
<1> QED BY <1>1, <1>2, <1>3 DEF IInv

(* A step that touches the filter of one trie only.                        *)
LEMMA OtherTries ==
  ASSUME IInv, NEW t \in filtering, UNCHANGED <<log, config, work, filtering>>,
         \A u \in Tries \ {t} :
           /\ unsent'[u] = unsent[u] /\ requestChan'[u] = requestChan[u]
           /\ chunk'[u] = chunk[u] /\ resultChan'[u] = resultChan[u] /\ result'[u] = result[u],
         Sound(config[t], log, unsent'[t], requestChan'[t], chunk'[t], resultChan'[t], result'[t])
  PROVE  FilterInv'
<1> USE DEF IInv
<1>1. Tries' = Tries /\ t \in Tries /\ filtering \subseteq Tries /\ work \subseteq Tries
      /\ t \notin work
  BY DEF Tries, TypeInv, FilterInv
<1>2. work' \cap filtering' = {}
  BY DEF FilterInv
<1>3. ASSUME NEW u \in filtering
      PROVE  /\ config[u] # NoConfig
             /\ Sound(config[u], log, unsent'[u], requestChan'[u], chunk'[u], resultChan'[u],
                      result'[u])
  <2>1. CASE u = t
    BY <2>1 DEF FilterInv
  <2>2. CASE u # t
    <3>1. /\ unsent'[u] = unsent[u] /\ requestChan'[u] = requestChan[u]
          /\ chunk'[u] = chunk[u] /\ resultChan'[u] = resultChan[u] /\ result'[u] = result[u]
      BY <1>1, <2>2
    <3> QED BY <3>1 DEF FilterInv
  <2> QED BY <2>1, <2>2
<1>4. ASSUME NEW u \in Tries \ filtering
      PROVE  /\ unsent'[u] = {} /\ requestChan'[u] = <<>>
             /\ chunk'[u] = NoChunks /\ resultChan'[u] = <<>>
  BY DEF FilterInv
<1>5. ASSUME NEW u \in work PROVE result'[u] = NoResult
  BY <1>1 DEF FilterInv
<1>6. ASSUME NEW u \in Tries \ (work \cup filtering) PROVE result'[u] = Due(config, log, u)
  BY DEF FilterInv
<1> QED BY <1>1, <1>2, <1>3, <1>4, <1>5, <1>6 DEF FilterInv

GatherVars == <<log, config, work, worker, results, white, black, outcome>>

LEMMA GatherUnchanged ==
  ASSUME GatherInv, UNCHANGED GatherVars
  PROVE  GatherInv'
<1>1. /\ Tries' = Tries /\ (Joined' <=> Joined)
      /\ log' = log /\ config' = config /\ work' = work /\ worker' = worker
      /\ results' = results /\ white' = white /\ black' = black /\ outcome' = outcome
  BY DEF GatherVars, Tries, Joined
<1>2. NoneLost'
  BY <1>1 DEF GatherInv, NoneLost
<1>3. Gathered(config', log', results', white', black')
  BY <1>1 DEF GatherInv
<1> QED BY <1>1, <1>2, <1>3 DEF GatherInv

LEMMA DistributeKeeps ==
  ASSUME IInv, NEW t \in Tries, Distribute(t)
  PROVE  IInv'
<1> USE DEF IInv
<1>1. PICK i \in unsent[t] :
        LET s == {j \in unsent[t] : j < i + ChunkSize}
        IN  /\ requestChan' = [requestChan EXCEPT ![t] = Append(requestChan[t], s)]
            /\ unsent' = [unsent EXCEPT ![t] = unsent[t] \ s]
  BY DEF Distribute
<1> DEFINE s == {j \in unsent[t] : j < i + ChunkSize}
<1>2. t \in filtering /\ s \subseteq unsent[t]
  BY DEF FilterInv
<1> HIDE DEF s
<1>3. /\ requestChan' = [requestChan EXCEPT ![t] = Append(requestChan[t], s)]
      /\ unsent' = [unsent EXCEPT ![t] = unsent[t] \ s]
  BY <1>1 DEF s
<1>4. UNCHANGED <<callVars, work, worker, chunk, resultChan, result, filtering, sharedVars,
                  quit, outcome>>
  BY DEF Distribute
<1>5. Sound(config[t], log, unsent[t] \ s, Append(requestChan[t], s), chunk[t], resultChan[t],
            result[t])
  BY <1>2, SoundDistribute DEF FilterInv
<1>6. Tries' = Tries /\ UNCHANGED <<log, config>> /\ UNCHANGED GatherVars
  BY <1>4 DEF callVars, sharedVars, Tries, GatherVars
<1>7. TypeInv'
  BY <1>3, <1>4, <1>6 DEF TypeInv
<1>8. /\ unsent'[t] = unsent[t] \ s /\ requestChan'[t] = Append(requestChan[t], s)
      /\ \A u \in Tries \ {t} : unsent'[u] = unsent[u] /\ requestChan'[u] = requestChan[u]
  BY <1>3 DEF TypeInv
<1>9. FilterInv'
  BY <1>2, <1>4, <1>5, <1>6, <1>8, OtherTries
<1>10. GatherInv'
  BY <1>6, GatherUnchanged
<1> QED BY <1>7, <1>9, <1>10

LEMMA TakeChunkKeeps ==
  ASSUME IInv, NEW t \in Tries, NEW f \in FilterWorkers, TakeChunk(t, f)
  PROVE  IInv'
<1> USE DEF IInv
<1> DEFINE c == [chunk[t] EXCEPT ![f] = Head(requestChan[t])]
<1>1. /\ chunk[t][f] = {} /\ requestChan[t] # <<>>
      /\ chunk' = [chunk EXCEPT ![t] = c]
      /\ requestChan' = [requestChan EXCEPT ![t] = Tail(requestChan[t])]
  BY DEF TakeChunk
<1>2. UNCHANGED <<callVars, work, worker, unsent, resultChan, result, filtering, sharedVars,
                  quit, outcome>>
  BY DEF TakeChunk
<1>3. t \in filtering
  BY <1>1 DEF FilterInv
<1>4. Sound(config[t], log, unsent[t], requestChan[t], chunk[t], resultChan[t], result[t])
  BY <1>3 DEF FilterInv
<1>5. Sound(config[t], log, unsent[t], Tail(requestChan[t]), c, resultChan[t], result[t])
  BY <1>1, <1>4, SoundTake
<1> HIDE DEF c
<1>6. Tries' = Tries /\ UNCHANGED <<log, config>> /\ UNCHANGED GatherVars
  BY <1>2 DEF callVars, sharedVars, Tries, GatherVars
<1>7. TypeInv'
  BY <1>1, <1>2, <1>6 DEF TypeInv
<1>8. /\ chunk'[t] = c /\ requestChan'[t] = Tail(requestChan[t])
      /\ \A u \in Tries \ {t} : chunk'[u] = chunk[u] /\ requestChan'[u] = requestChan[u]
  BY <1>1 DEF TypeInv
<1>9. FilterInv'
  BY <1>2, <1>3, <1>5, <1>6, <1>8, OtherTries
<1>10. GatherInv'
  BY <1>6, GatherUnchanged
<1> QED BY <1>7, <1>9, <1>10

LEMMA JudgeNextKeeps ==
  ASSUME IInv, NEW t \in Tries, NEW f \in FilterWorkers, JudgeNext(t, f)
  PROVE  IInv'
<1> USE DEF IInv
<1>1. PICK i \in chunk[t][f] :
        /\ \/ /\ Passes(config[t], log[i])
              /\ resultChan' = [resultChan EXCEPT ![t] =
                   Append(resultChan[t], [at |-> i, judged |-> Judge(config[t], log[i])])]
           \/ ~ Passes(config[t], log[i]) /\ UNCHANGED resultChan
        /\ chunk' = [chunk EXCEPT ![t] = [chunk[t] EXCEPT ![f] = chunk[t][f] \ {i}]]
  BY DEF JudgeNext
<1> DEFINE c == [chunk[t] EXCEPT ![f] = chunk[t][f] \ {i}]
           r == Append(resultChan[t], [at |-> i, judged |-> Judge(config[t], log[i])])
<1>2. UNCHANGED <<callVars, work, worker, unsent, requestChan, result, filtering, sharedVars,
                  quit, outcome>>
  BY DEF JudgeNext
<1>3. t \in filtering
  BY DEF FilterInv, NoChunks
<1>4. Sound(config[t], log, unsent[t], requestChan[t], chunk[t], resultChan[t], result[t])
  BY <1>3 DEF FilterInv
<1>5. IsFiniteSet(DOMAIN log)
  BY LogFacts DEF TypeInv
<1>6. Tries' = Tries /\ UNCHANGED <<log, config>> /\ UNCHANGED GatherVars
  BY <1>2 DEF callVars, sharedVars, Tries, GatherVars
<1>7. /\ chunk' = [chunk EXCEPT ![t] = c]
      /\ Passes(config[t], log[i]) => resultChan' = [resultChan EXCEPT ![t] = r]
      /\ ~ Passes(config[t], log[i]) => resultChan' = resultChan
  BY <1>1
<1>8. ASSUME Passes(config[t], log[i]) PROVE FilterInv'
  <2>1. Sound(config[t], log, unsent[t], requestChan[t], c, r, result[t])
    BY <1>4, <1>8, SoundJudge
  <2> HIDE DEF c, r
  <2>2. /\ chunk'[t] = c /\ resultChan'[t] = r
        /\ \A u \in Tries \ {t} : chunk'[u] = chunk[u] /\ resultChan'[u] = resultChan[u]
    BY <1>7, <1>8 DEF TypeInv
  <2> QED BY <1>2, <1>3, <1>6, <2>1, <2>2, OtherTries
<1>9. ASSUME ~ Passes(config[t], log[i]) PROVE FilterInv'
  <2>1. Sound(config[t], log, unsent[t], requestChan[t], c, resultChan[t], result[t])
    BY <1>4, <1>5, <1>9, SoundReject
  <2> HIDE DEF c
  <2>2. /\ chunk'[t] = c /\ resultChan'[t] = resultChan[t]
        /\ \A u \in Tries \ {t} : chunk'[u] = chunk[u] /\ resultChan'[u] = resultChan[u]
    BY <1>7, <1>9 DEF TypeInv
  <2> QED BY <1>2, <1>3, <1>6, <2>1, <2>2, OtherTries
<1>10. FilterInv'
  BY <1>8, <1>9
<1> HIDE DEF c, r
<1>11. TypeInv'
  BY <1>2, <1>6, <1>7 DEF TypeInv
<1>12. GatherInv'
  BY <1>6, GatherUnchanged
<1> QED BY <1>10, <1>11, <1>12

LEMMA CollectNextKeeps ==
  ASSUME IInv, NEW t \in Tries, CollectNext(t)
  PROVE  IInv'
<1> USE DEF IInv
<1> DEFINE e == CollectOne(result[t], Head(resultChan[t]).judged)
<1>1. /\ resultChan[t] # <<>> /\ result' = [result EXCEPT ![t] = e]
      /\ resultChan' = [resultChan EXCEPT ![t] = Tail(resultChan[t])]
  BY DEF CollectNext, CanCollect
<1>2. UNCHANGED <<callVars, work, worker, unsent, requestChan, chunk, filtering, sharedVars,
                  quit, outcome>>
  BY DEF CollectNext
<1>3. t \in filtering
  BY <1>1 DEF FilterInv
<1>4. Sound(config[t], log, unsent[t], requestChan[t], chunk[t], resultChan[t], result[t])
  BY <1>3 DEF FilterInv
<1>5. IsFiniteSet(DOMAIN log)
  BY LogFacts DEF TypeInv
<1>6. Sound(config[t], log, unsent[t], requestChan[t], chunk[t], Tail(resultChan[t]), e)
  BY <1>1, <1>4, <1>5, SoundCollect
<1> HIDE DEF e
<1>7. Tries' = Tries /\ UNCHANGED <<log, config>> /\ UNCHANGED GatherVars
  BY <1>2 DEF callVars, sharedVars, Tries, GatherVars
<1>8. TypeInv'
  BY <1>1, <1>2, <1>7 DEF TypeInv
<1>9. /\ result'[t] = e /\ resultChan'[t] = Tail(resultChan[t])
      /\ \A u \in Tries \ {t} : result'[u] = result[u] /\ resultChan'[u] = resultChan[u]
  BY <1>1 DEF TypeInv
<1>10. FilterInv'
  BY <1>2, <1>3, <1>6, <1>7, <1>9, OtherTries
<1>11. GatherInv'
  BY <1>7, GatherUnchanged
<1> QED BY <1>8, <1>10, <1>11

(* The jail phase has not begun while a trie waits or is filled.           *)
LEMMA StillRunning ==
  ASSUME GatherInv, UNCHANGED outcome, work # {} \/ \E w \in TrieWorkers : worker[w] # {}
  PROVE  outcome' # "jail phase"
BY DEF GatherInv, Joined

LEMMA TakeKeeps ==
  ASSUME IInv, NEW w \in TrieWorkers, NEW t \in Tries, Take(w, t)
  PROVE  /\ GatherInv' /\ Tries' = Tries /\ UNCHANGED <<log, config>>
         /\ work' \subseteq Tries /\ worker' \in [TrieWorkers -> SUBSET Tries]
         /\ t \in work /\ work' = work \ {t}
<1> USE DEF IInv
<1>1. /\ worker[w] = {} /\ t \in work /\ work' = work \ {t}
      /\ worker' = [worker EXCEPT ![w] = {t}]
      /\ UNCHANGED <<callVars, sharedVars, quit, outcome>>
  BY DEF Take
<1>2. Tries' = Tries /\ UNCHANGED <<log, config, results, white, black, outcome>>
  BY <1>1 DEF callVars, sharedVars, Tries
<1>3. /\ worker \in [TrieWorkers -> SUBSET Tries] /\ work \subseteq Tries
      /\ worker' \in [TrieWorkers -> SUBSET Tries] /\ worker'[w] = {t}
      /\ \A v \in TrieWorkers : v # w => worker'[v] = worker[v]
  BY <1>1 DEF TypeInv
<1>4. NoneLost'
  <2>1. ASSUME NEW v \in TrieWorkers
        PROVE  worker'[v] \cap work' = {} /\ \A x, y \in worker'[v] : x = y
    <3>1. CASE v = w
      BY <1>1, <1>3, <3>1
    <3>2. CASE v # w
      BY <1>1, <1>3, <3>2 DEF GatherInv, NoneLost
    <3> QED BY <3>1, <3>2
  <2>2. ASSUME NEW u \in Tries
        PROVE  u \in work' \/ u \in DOMAIN results \/ \E v \in TrieWorkers : u \in worker'[v]
    <3>1. CASE u = t
      BY <1>3, <3>1
    <3>2. CASE u # t
      <4>1. u \in work \/ u \in DOMAIN results \/ \E v \in TrieWorkers : u \in worker[v]
        BY DEF GatherInv, NoneLost
      <4>2. CASE \E v \in TrieWorkers : u \in worker[v]
        <5>1. PICK v \in TrieWorkers : u \in worker[v]
          BY <4>2
        <5>2. v # w
          BY <1>1, <5>1
        <5> QED BY <1>3, <5>1, <5>2
      <4> QED BY <1>1, <3>2, <4>1, <4>2
    <3> QED BY <3>1, <3>2
  <2>3. DOMAIN results \subseteq Tries
    BY DEF GatherInv, NoneLost
  <2> QED BY <1>2, <2>1, <2>2, <2>3 DEF NoneLost
<1>5. Gathered(config', log', results', white', black')
  BY <1>2 DEF GatherInv
<1>6. outcome' # "jail phase"
  BY <1>1, <1>2, StillRunning
<1> QED BY <1>1, <1>2, <1>3, <1>4, <1>5, <1>6 DEF GatherInv

LEMMA ProcessTrieKeeps ==
  ASSUME IInv, NEW w \in TrieWorkers, NEW t \in Tries, ProcessTrie(w, t)
  PROVE  IInv'
<1> USE DEF IInv
<1>1. /\ Take(w, t) /\ ~ Concurrent(t)
      /\ result' = [result EXCEPT ![t] = SequentialResult(t)]
      /\ UNCHANGED <<unsent, requestChan, chunk, resultChan, filtering>>
  BY DEF ProcessTrie
<1>2. /\ GatherInv' /\ Tries' = Tries /\ UNCHANGED <<log, config>>
      /\ work' \subseteq Tries /\ worker' \in [TrieWorkers -> SUBSET Tries]
      /\ t \in work /\ work' = work \ {t}
  BY <1>1, TakeKeeps
<1>3. SequentialResult(t) = Due(config, log, t)
  BY <1>1, SequentialIsDue DEF TypeInv
<1>4. TypeInv'
  BY <1>1, <1>2 DEF TypeInv
<1>5. /\ result'[t] = Due(config, log, t) /\ \A u \in Tries \ {t} : result'[u] = result[u]
  BY <1>1, <1>3 DEF TypeInv
<1>6. FilterInv'
  <2>1. t \notin filtering /\ work \cap filtering = {} /\ filtering \subseteq Tries
        /\ work \subseteq Tries
    BY <1>2 DEF FilterInv, TypeInv
  <2>2. ASSUME NEW u \in filtering
        PROVE  /\ config[u] # NoConfig
               /\ Sound(config[u], log, unsent[u], requestChan[u], chunk[u], resultChan[u],
                        result'[u])
    <3>1. u \in Tries \ {t}
      BY <2>1
    <3> QED BY <1>5, <3>1 DEF FilterInv
  <2>3. ASSUME NEW u \in work' PROVE result'[u] = NoResult
    BY <1>2, <1>5, <2>1 DEF FilterInv
  <2>4. ASSUME NEW u \in Tries \ (work' \cup filtering) PROVE result'[u] = Due(config, log, u)
    BY <1>2, <1>5 DEF FilterInv
  <2>5. \A u \in Tries \ filtering :
          unsent[u] = {} /\ requestChan[u] = <<>> /\ chunk[u] = NoChunks /\ resultChan[u] = <<>>
    BY DEF FilterInv
  <2> QED BY <1>1, <1>2, <2>1, <2>2, <2>3, <2>4, <2>5 DEF FilterInv
<1> QED BY <1>2, <1>4, <1>6

LEMMA StartFilterKeeps ==
  ASSUME IInv, NEW w \in TrieWorkers, NEW t \in Tries, StartFilter(w, t)
  PROVE  IInv'
<1> USE DEF IInv
<1>1. /\ Take(w, t) /\ Concurrent(t) /\ filtering' = filtering \cup {t}
      /\ unsent' = [unsent EXCEPT ![t] = DOMAIN log]
      /\ UNCHANGED <<requestChan, chunk, resultChan, result>>
  BY DEF StartFilter
<1>2. /\ GatherInv' /\ Tries' = Tries /\ UNCHANGED <<log, config>>
      /\ work' \subseteq Tries /\ worker' \in [TrieWorkers -> SUBSET Tries]
      /\ t \in work /\ work' = work \ {t}
  BY <1>1, TakeKeeps
<1>3. config[t] # NoConfig
  BY <1>1 DEF Concurrent
<1>4. TypeInv'
  BY <1>1, <1>2 DEF TypeInv
<1>5. /\ unsent'[t] = DOMAIN log /\ \A u \in Tries \ {t} : unsent'[u] = unsent[u]
  BY <1>1 DEF TypeInv
<1>6. FilterInv'
  <2>1. t \notin filtering /\ work \cap filtering = {} /\ filtering \subseteq Tries
        /\ work \subseteq Tries
    BY <1>2 DEF FilterInv, TypeInv
  <2>2. requestChan[t] = <<>> /\ chunk[t] = NoChunks /\ resultChan[t] = <<>>
        /\ result[t] = NoResult
    BY <1>2, <2>1 DEF FilterInv
  <2>3. Sound(config[t], log, unsent'[t], requestChan[t], chunk[t], resultChan[t], result[t])
    BY <1>5, <2>2, SoundAtFirst
  <2>4. ASSUME NEW u \in filtering'
        PROVE  /\ config[u] # NoConfig
               /\ Sound(config[u], log, unsent'[u], requestChan[u], chunk[u], resultChan[u],
                        result[u])
    <3>1. CASE u = t
      BY <1>3, <2>3, <3>1
    <3>2. CASE u # t
      <4>1. u \in filtering /\ unsent'[u] = unsent[u]
        BY <1>1, <1>5, <2>1, <3>2
      <4> QED BY <4>1 DEF FilterInv
    <3> QED BY <3>1, <3>2
  <2>5. ASSUME NEW u \in work' PROVE result[u] = NoResult
    BY <1>2 DEF FilterInv
  <2>6. ASSUME NEW u \in Tries \ (work' \cup filtering') PROVE result[u] = Due(config, log, u)
    BY <1>1, <1>2 DEF FilterInv
  <2>7. ASSUME NEW u \in Tries \ filtering'
        PROVE  unsent'[u] = {} /\ requestChan[u] = <<>> /\ chunk[u] = NoChunks
               /\ resultChan[u] = <<>>
    BY <1>1, <1>5 DEF FilterInv
  <2> QED BY <1>1, <1>2, <2>1, <2>4, <2>5, <2>6, <2>7 DEF FilterInv
<1> QED BY <1>2, <1>4, <1>6

LEMMA EndFilterKeeps ==
  ASSUME IInv, NEW t \in Tries, EndFilter(t)
  PROVE  IInv'
<1> USE DEF IInv
<1>1. /\ t \in filtering /\ filtering' = filtering \ {t}
      /\ unsent[t] = {} /\ requestChan[t] = <<>> /\ resultChan[t] = <<>>
      /\ \A f \in FilterWorkers : chunk[t][f] = {}
  BY DEF EndFilter, AllCollected, WorkersDone
<1>2. UNCHANGED <<callVars, work, worker, unsent, requestChan, chunk, resultChan, result,
                  sharedVars, quit, outcome>>
  BY DEF EndFilter
<1>3. Tries' = Tries /\ UNCHANGED <<log, config>> /\ UNCHANGED GatherVars
  BY <1>2 DEF callVars, sharedVars, Tries, GatherVars
<1>4. /\ config[t] # NoConfig
      /\ Sound(config[t], log, {}, <<>>, chunk[t], <<>>, result[t])
  BY <1>1 DEF FilterInv
<1>5. result[t] = Tally(config[t], log, DOMAIN log) /\ chunk[t] = NoChunks
  BY <1>1, <1>4, SoundAtLast
<1>6. result[t] = Due(config, log, t)
  BY <1>4, <1>5 DEF Due
<1>7. TypeInv'
  BY <1>1, <1>2, <1>3 DEF TypeInv
<1>8. FilterInv'
  <2>1. ASSUME NEW u \in Tries \ filtering'
        PROVE  unsent[u] = {} /\ requestChan[u] = <<>> /\ chunk[u] = NoChunks
               /\ resultChan[u] = <<>>
    BY <1>1, <1>5 DEF FilterInv
  <2>2. ASSUME NEW u \in Tries \ (work \cup filtering') PROVE result[u] = Due(config, log, u)
    BY <1>1, <1>6 DEF FilterInv
  <2> QED BY <1>1, <1>2, <1>3, <2>1, <2>2 DEF FilterInv
<1>9. GatherInv'
  BY <1>3, GatherUnchanged
<1> QED BY <1>7, <1>8, <1>9

LEMMA MergeKeeps ==
  ASSUME IInv, NEW w \in TrieWorkers, NEW t \in Tries, Merge(w, t)
  PROVE  IInv'
<1> USE DEF IInv
<1> DEFINE rs == [n \in DOMAIN results \cup {t} |-> IF n = t THEN result[t] ELSE results[n]]
<1>1. /\ t \in worker[w] /\ t \notin filtering /\ results' = rs
      /\ white' = white \cup result[t].white /\ black' = black \cup result[t].black
      /\ worker' = [worker EXCEPT ![w] = {}]
      /\ UNCHANGED <<callVars, work, filterVars, quit, outcome>>
  BY DEF Merge
<1>2. Tries' = Tries /\ UNCHANGED <<log, config, outcome, work>>
  BY <1>1 DEF callVars, Tries
<1>3. UNCHANGED <<unsent, requestChan, chunk, resultChan, result, filtering>>
  BY <1>1 DEF filterVars
<1>4. t \notin work /\ result[t] = Due(config, log, t)
  BY <1>1 DEF FilterInv, GatherInv, NoneLost
<1>5. TypeInv'
  BY <1>1, <1>2, <1>3 DEF TypeInv
<1>6. FilterInv'
  BY <1>2, <1>3 DEF FilterInv
<1>7. /\ worker'[w] = {} /\ \A v \in TrieWorkers : v # w => worker'[v] = worker[v]
  BY <1>1 DEF TypeInv
<1>8. DOMAIN rs = DOMAIN results \cup {t} /\ rs[t] = result[t]
      /\ \A u \in DOMAIN results : u # t => rs[u] = results[u]
  OBVIOUS
<1> HIDE DEF rs
<1>9. NoneLost'
  <2>1. ASSUME NEW v \in TrieWorkers
        PROVE  worker'[v] \cap work = {} /\ \A x, y \in worker'[v] : x = y
    <3>1. CASE v = w
      BY <1>7, <3>1
    <3>2. CASE v # w
      BY <1>7, <3>2 DEF GatherInv, NoneLost
    <3> QED BY <3>1, <3>2
  <2>2. ASSUME NEW u \in Tries
        PROVE  u \in work \/ u \in DOMAIN rs \/ \E v \in TrieWorkers : u \in worker'[v]
    <3>1. CASE u = t
      BY <1>8, <3>1
    <3>2. CASE u # t
      <4>1. u \in work \/ u \in DOMAIN results \/ \E v \in TrieWorkers : u \in worker[v]
        BY DEF GatherInv, NoneLost
      <4>2. CASE \E v \in TrieWorkers : u \in worker[v]
        <5>1. PICK v \in TrieWorkers : u \in worker[v]
          BY <4>2
        <5>2. v # w
          BY <1>1, <3>2, <5>1 DEF GatherInv, NoneLost
        <5> QED BY <1>7, <5>1, <5>2
      <4> QED BY <1>8, <4>1, <4>2
    <3> QED BY <3>1, <3>2
  <2>3. DOMAIN rs \subseteq Tries
    BY <1>8 DEF GatherInv, NoneLost
  <2> QED BY <1>1, <1>2, <2>1, <2>2, <2>3 DEF NoneLost
<1>10. Gathered(config, log, rs, white', black')
  <2>1. Gathered(config, log, results, white, black)
    BY DEF GatherInv
  <2>2. \A u \in DOMAIN rs : rs[u] = Due(config, log, u)
    BY <1>4, <1>8, <2>1 DEF Gathered
  <2> DEFINE W(u) == Due(config, log, u).white
             B(u) == Due(config, log, u).black
  <2>3. /\ white = UNION {W(u) : u \in DOMAIN results} /\ white' = white \cup W(t)
        /\ black = UNION {B(u) : u \in DOMAIN results} /\ black' = black \cup B(t)
    BY <1>1, <1>4, <2>1 DEF Gathered
  <2> HIDE DEF W, B
  <2>4. /\ white' = UNION {W(u) : u \in DOMAIN rs}
        /\ black' = UNION {B(u) : u \in DOMAIN rs}
    BY <1>8, <2>3
  <2> QED BY <2>2, <2>4 DEF Gathered, W, B
<1>11. outcome' # "jail phase"
  BY <1>1, <1>2, StillRunning
<1>12. GatherInv'
  BY <1>1, <1>2, <1>9, <1>10, <1>11 DEF GatherInv
<1> QED BY <1>5, <1>6, <1>12

LEMMA CallerKeeps ==
  ASSUME IInv, Quit \/ NoRequests \/ Finish \/ FinishStatic
  PROVE  IInv'
<1> USE DEF IInv
<1>1. /\ UNCHANGED <<callVars, work, worker, filterVars, sharedVars>>
      /\ outcome' = "jail phase" => Joined
  <2>1. CASE Quit
    BY <2>1 DEF Quit, GatherInv
  <2>2. CASE NoRequests
    BY <2>2 DEF NoRequests
  <2>3. CASE Finish
    BY <2>3 DEF Finish
  <2>4. CASE FinishStatic
    BY <2>4 DEF FinishStatic
  <2> QED BY <2>1, <2>2, <2>3, <2>4
<1>2. /\ UNCHANGED <<log, config, work, worker, results, white, black>>
      /\ UNCHANGED <<unsent, requestChan, chunk, resultChan, result, filtering>>
      /\ Tries' = Tries /\ (Joined' <=> Joined)
  BY <1>1 DEF callVars, filterVars, sharedVars, Tries, Joined
<1>3. TypeInv'
  BY <1>2 DEF TypeInv
<1>4. FilterInv'
  BY <1>2 DEF FilterInv
<1>5. NoneLost'
  BY <1>2 DEF GatherInv, NoneLost
<1>6. Gathered(config', log', results', white', black')
  BY <1>2 DEF GatherInv
<1> QED BY <1>1, <1>2, <1>3, <1>4, <1>5, <1>6 DEF GatherInv

LEMMA NextIInv ==
  IInv /\ [Next]_vars => IInv'
<1> SUFFICES ASSUME IInv, [Next]_vars PROVE IInv'
  OBVIOUS
<1>1. CASE UNCHANGED vars
  <2>1. /\ UNCHANGED <<log, config, work, worker>> /\ UNCHANGED GatherVars
        /\ UNCHANGED <<unsent, requestChan, chunk, resultChan, result, filtering>>
        /\ Tries' = Tries
    BY <1>1 DEF vars, GatherVars, Tries
  <2>2. TypeInv' /\ FilterInv'
    BY <2>1 DEF IInv, TypeInv, FilterInv
  <2> QED BY <2>1, <2>2, GatherUnchanged DEF IInv
<1>2. ASSUME NEW w \in TrieWorkers, NEW t \in Tries,
             ProcessTrie(w, t) \/ StartFilter(w, t) \/ Merge(w, t)
      PROVE  IInv'
  BY <1>2, ProcessTrieKeeps, StartFilterKeeps, MergeKeeps
<1>3. ASSUME NEW t \in Tries, Distribute(t) \/ CollectNext(t) \/ EndFilter(t)
      PROVE  IInv'
  BY <1>3, DistributeKeeps, CollectNextKeeps, EndFilterKeeps
<1>4. ASSUME NEW t \in Tries, NEW f \in FilterWorkers, TakeChunk(t, f) \/ JudgeNext(t, f)
      PROVE  IInv'
  BY <1>4, TakeChunkKeeps, JudgeNextKeeps
<1>5. CASE Quit \/ NoRequests \/ Finish \/ FinishStatic
  BY <1>5, CallerKeeps
<1> QED BY <1>1, <1>2, <1>3, <1>4, <1>5 DEF Next, Analyse

LEMMA IInvHolds ==
  Spec => []IInv
BY InitIInv, NextIInv, PTL DEF Spec

(* Every way to a trie's result gives the same: the addresses alone, all   *)
(* requests, one pass of the filter, or filter workers that share out the  *)
(* log in chunks of any size and a collector, in any order.                *)
THEOREM EveryPathAgreesHolds ==
  Spec => []EveryPathAgrees
<1>1. IInv => EveryPathAgrees
  BY ExpectedIsDue DEF IInv, GatherInv, Gathered, EveryPathAgrees
<1> QED BY <1>1, IInvHolds, PTL

(* The jail phase begins with the results of all tries and with exactly    *)
(* the User-Agent whitelisted and blacklisted addresses that they found:   *)
(* no trie is lost between the trie workers, and none is late.             *)
THEOREM JailPhaseIsCompleteHolds ==
  Spec => []JailPhaseIsComplete
<1>1. ASSUME IInv, outcome = "jail phase"
      PROVE  /\ DOMAIN results = Tries
             /\ white = UNION {Expected(t).white : t \in Tries}
             /\ black = UNION {Expected(t).black : t \in Tries}
  <2>1. /\ NoneLost /\ Gathered(config, log, results, white, black) /\ Joined
    BY <1>1 DEF IInv, GatherInv
  <2>2. DOMAIN results = Tries
    BY <2>1 DEF NoneLost, Joined
  <2>3. \A t : Expected(t) = Due(config, log, t)
    BY ExpectedIsDue
  <2> QED BY <2>1, <2>2, <2>3 DEF Gathered
<1>2. IInv => JailPhaseIsComplete
  BY <1>1 DEF JailPhaseIsComplete
<1> QED BY <1>2, IInvHolds, PTL
=============================================================================
