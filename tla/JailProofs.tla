---------------------------- MODULE JailProofs ----------------------------
(***************************************************************************)
(* Theorems about the jail, for every set of ranges, every ladder of cells *)
(* and every bound of the clock and of a batch.                            *)
(***************************************************************************)
EXTENDS Jail, FiniteSetTheorems, FunctionTheorems, TLAPS

----------------------------------------------------------------------------
(* Compaction of a slice.                                                  *)

(* The rank of an index among the indices K.                               *)
UpTo(K, i) == {j \in K : j <= i}

(* Ranking a set of indices is a bijection, by counting.                   *)
LEMMA RankBijective ==
  ASSUME NEW n \in Nat, NEW K \in SUBSET (1..n)
  PROVE  /\ IsFiniteSet(K)
         /\ Cardinality(K) \in Nat
         /\ \A i \in K : Cardinality(UpTo(K, i)) \in 1..Cardinality(K)
         /\ \A i, j \in K : Cardinality(UpTo(K, i)) = Cardinality(UpTo(K, j)) => i = j
         /\ \A k \in 1..Cardinality(K) : \E i \in K : Cardinality(UpTo(K, i)) = k
<1> DEFINE rank == [i \in K |-> Cardinality(UpTo(K, i))]
           T == 1..Cardinality(K)
<1>0. \A i \in K : i \in Nat
  OBVIOUS
<1>1. IsFiniteSet(K) /\ Cardinality(K) \in Nat
  <2>1. IsFiniteSet(1..n)
    BY FS_Interval
  <2>2. IsFiniteSet(K)
    BY <2>1, FS_Subset
  <2> QED BY <2>2, FS_CardinalityType
<1>2. \A i \in K : IsFiniteSet(UpTo(K, i)) /\ Cardinality(UpTo(K, i)) \in T
  <2> TAKE i \in K
  <2>1. UpTo(K, i) \in SUBSET K /\ UpTo(K, i) # {}
    BY <1>0 DEF UpTo
  <2>2. IsFiniteSet(UpTo(K, i)) /\ Cardinality(UpTo(K, i)) <= Cardinality(K)
    BY <1>1, <2>1, FS_Subset
  <2>3. Cardinality(UpTo(K, i)) \in Nat /\ Cardinality(UpTo(K, i)) # 0
    BY <2>1, <2>2, FS_CardinalityType, FS_EmptySet
  <2> QED BY <1>1, <2>2, <2>3
<1>3. \A i, j \in K : i < j => Cardinality(UpTo(K, i)) # Cardinality(UpTo(K, j))
  <2> SUFFICES ASSUME NEW i \in K, NEW j \in K, i < j
               PROVE  Cardinality(UpTo(K, i)) # Cardinality(UpTo(K, j))
    OBVIOUS
  <2>0. i \in Nat /\ j \in Nat /\ (\A m \in K : m <= i => m <= j) /\ ~(j <= i)
    BY <1>0
  <2>1. UpTo(K, i) \in SUBSET UpTo(K, j)
    BY <2>0 DEF UpTo
  <2>2. j \in UpTo(K, j) /\ j \notin UpTo(K, i)
    BY <2>0 DEF UpTo
  <2> QED BY <1>2, <2>1, <2>2, FS_Subset
<1>4. rank \in Injection(K, T)
  <2>1. rank \in [K -> T]
    BY <1>2
  <2>2. \A i, j \in K : rank[i] = rank[j] => i = j
    BY <1>3
  <2> QED BY <2>1, <2>2, Fun_IsInj
<1>5. IsFiniteSet(T) /\ Cardinality(T) = Cardinality(K)
  BY <1>1, FS_Interval
<1>6. rank \in Surjection(K, T)
  BY <1>4, <1>5, FS_Injection
<1>7. \A k \in T : \E i \in K : rank[i] = k
  BY <1>6 DEF Surjection
<1>8. \A i, j \in K : rank[i] = rank[j] => i = j
  BY <1>4 DEF Injection, IsInjective
<1> QED BY <1>1, <1>2, <1>7, <1>8

(* The k-th smallest index exists for every k, and the indices kept are    *)
(* met once each.                                                          *)
LEMMA NthBijective ==
  ASSUME NEW n \in Nat, NEW K \in SUBSET (1..n)
  PROVE  /\ Cardinality(K) \in Nat
         /\ \A k \in 1..Cardinality(K) : Nth(K, k) \in K
         /\ \A i \in K : \E k \in 1..Cardinality(K) : Nth(K, k) = i
         /\ \A k, l \in 1..Cardinality(K) : Nth(K, k) = Nth(K, l) => k = l
<1>1. \A k : Nth(K, k) = CHOOSE i \in K : Cardinality(UpTo(K, i)) = k
  BY DEF Nth, UpTo
<1>2. /\ Cardinality(K) \in Nat
      /\ \A i \in K : Cardinality(UpTo(K, i)) \in 1..Cardinality(K)
      /\ \A i, j \in K : Cardinality(UpTo(K, i)) = Cardinality(UpTo(K, j)) => i = j
      /\ \A k \in 1..Cardinality(K) : \E i \in K : Cardinality(UpTo(K, i)) = k
  BY RankBijective
<1>3. \A k \in 1..Cardinality(K) :
        Nth(K, k) \in K /\ Cardinality(UpTo(K, Nth(K, k))) = k
  BY <1>1, <1>2
<1>4. \A i \in K : Nth(K, Cardinality(UpTo(K, i))) = i
  BY <1>2, <1>3
<1> QED BY <1>2, <1>3, <1>4

----------------------------------------------------------------------------
(* The cells after prisoners were removed.                                 *)

IsLadder(cs) == cs \in [Cells -> Seq(Prisoner)]

(* Where the k-th prisoner of cell c stood before the slots S were removed. *)
Origin(S, c, k) == Nth({i \in DOMAIN cells[c] : <<c, i>> \notin S}, k)

(* Removing slots keeps every other prisoner, once, in its cell.           *)
LEMMA ReleasedFacts ==
  ASSUME IsLadder(cells), NEW S
  PROVE  /\ IsLadder(Released(S))
         /\ \A c \in Cells : \A k \in DOMAIN Released(S)[c] :
              /\ Origin(S, c, k) \in DOMAIN cells[c]
              /\ <<c, Origin(S, c, k)>> \notin S
              /\ Released(S)[c][k] = cells[c][Origin(S, c, k)]
         /\ \A c \in Cells : \A k, l \in DOMAIN Released(S)[c] :
              Origin(S, c, k) = Origin(S, c, l) => k = l
         /\ \A c \in Cells : \A i \in DOMAIN cells[c] :
              <<c, i>> \notin S =>
                \E k \in DOMAIN Released(S)[c] : Origin(S, c, k) = i
<1> DEFINE Kept(c) == {i \in DOMAIN cells[c] : <<c, i>> \notin S}
<1>1. ASSUME NEW c \in Cells
      PROVE  /\ Released(S)[c] \in Seq(Prisoner)
             /\ DOMAIN Released(S)[c] = 1..Cardinality(Kept(c))
             /\ \A k \in 1..Cardinality(Kept(c)) :
                  /\ Origin(S, c, k) \in Kept(c)
                  /\ Released(S)[c][k] = cells[c][Origin(S, c, k)]
             /\ \A i \in Kept(c) : \E k \in 1..Cardinality(Kept(c)) : Origin(S, c, k) = i
             /\ \A k, l \in 1..Cardinality(Kept(c)) :
                  Origin(S, c, k) = Origin(S, c, l) => k = l
  <2>1. cells[c] \in Seq(Prisoner)
    BY DEF IsLadder
  <2>2. PICK n \in Nat : DOMAIN cells[c] = 1..n
    BY <2>1
  <2>3. Kept(c) \in SUBSET (1..n)
    BY <2>2
  <2>4. /\ Cardinality(Kept(c)) \in Nat
        /\ \A k \in 1..Cardinality(Kept(c)) : Nth(Kept(c), k) \in Kept(c)
        /\ \A i \in Kept(c) : \E k \in 1..Cardinality(Kept(c)) : Nth(Kept(c), k) = i
        /\ \A k, l \in 1..Cardinality(Kept(c)) : Nth(Kept(c), k) = Nth(Kept(c), l) => k = l
    <3> HIDE DEF Kept
    <3> QED BY <2>3, NthBijective
  <2>5. Released(S)[c] = [k \in 1..Cardinality(Kept(c)) |-> cells[c][Nth(Kept(c), k)]]
    BY DEF Released, Compact
  <2>6. \A k : Origin(S, c, k) = Nth(Kept(c), k)
    BY DEF Origin
  <2>7. \A i \in Kept(c) : cells[c][i] \in Prisoner
    BY <2>1
  <2> HIDE DEF Kept
  <2>8. Released(S)[c] \in Seq(Prisoner)
    BY <2>4, <2>5, <2>7
  <2> QED BY <2>4, <2>5, <2>6, <2>8
<1>2. Released(S) = [c \in Cells |-> Released(S)[c]]
  BY DEF Released
<1>3. IsLadder(Released(S))
  BY <1>1, <1>2 DEF IsLadder
<1> QED BY <1>1, <1>3

----------------------------------------------------------------------------
(* The antichain, as a predicate of the cells alone.                       *)

Unrelated(q, r) == q # r /\ ~ Within(q, r) /\ ~ Within(r, q)

NoOverlap(cs) ==
  \A c, d \in Cells : \A i \in DOMAIN cs[c], j \in DOMAIN cs[d] :
    c # d \/ i # j => Unrelated(cs[c][i].cidr, cs[d][j].cidr)

LEMMA AntichainIsNoOverlap == Antichain <=> NoOverlap(cells)
<1>1. ASSUME Antichain, NEW c \in Cells, NEW d \in Cells,
             NEW i \in DOMAIN cells[c], NEW j \in DOMAIN cells[d], c # d \/ i # j
      PROVE  Unrelated(cells[c][i].cidr, cells[d][j].cidr)
  <2>1. <<c, i>> \in Slots /\ <<d, j>> \in Slots /\ <<c, i>> # <<d, j>>
    BY <1>1 DEF Slots
  <2> QED BY <1>1, <2>1 DEF Antichain, At, Unrelated
<1>2. ASSUME NoOverlap(cells), NEW s \in Slots, NEW t \in Slots, s # t
      PROVE  At(s).cidr # At(t).cidr /\ ~ Within(At(s).cidr, At(t).cidr)
  <2>1. /\ s[1] \in Cells /\ s[2] \in DOMAIN cells[s[1]] /\ s = <<s[1], s[2]>>
        /\ t[1] \in Cells /\ t[2] \in DOMAIN cells[t[1]] /\ t = <<t[1], t[2]>>
    BY DEF Slots
  <2>2. s[1] # t[1] \/ s[2] # t[2]
    BY <1>2, <2>1
  <2> QED BY <1>2, <2>1, <2>2 DEF NoOverlap, At, Unrelated
<1> QED BY <1>1, <1>2 DEF Antichain, NoOverlap

LEMMA WithinTransitive ==
  ASSUME NEW p \in CIDRs, NEW q \in CIDRs, NEW r \in CIDRs,
         Within(p, q), Within(q, r)
  PROVE  Within(p, r)
BY BoundsAssumption DEF Within

LEMMA ReleasedNoOverlap ==
  ASSUME IsLadder(cells), NoOverlap(cells), NEW S
  PROVE  NoOverlap(Released(S))
<1> SUFFICES ASSUME NEW c \in Cells, NEW d \in Cells,
                    NEW k \in DOMAIN Released(S)[c], NEW l \in DOMAIN Released(S)[d],
                    c # d \/ k # l
             PROVE  Unrelated(Released(S)[c][k].cidr, Released(S)[d][l].cidr)
  BY DEF NoOverlap
<1>1. c # d \/ Origin(S, c, k) # Origin(S, d, l)
  BY ReleasedFacts
<1>2. \A e \in Cells : \A m \in DOMAIN Released(S)[e] :
        /\ Released(S)[e][m] = cells[e][Origin(S, e, m)]
        /\ Origin(S, e, m) \in DOMAIN cells[e]
  BY ReleasedFacts
<1> QED BY <1>1, <1>2 DEF NoOverlap

(* Appending a range unrelated to all residents keeps the antichain.       *)
LEMMA AppendNoOverlap ==
  ASSUME NEW cs, IsLadder(cs), NoOverlap(cs), NEW c \in Cells, NEW p \in Prisoner,
         \A d \in Cells : \A j \in DOMAIN cs[d] : Unrelated(cs[d][j].cidr, p.cidr)
  PROVE  LET ds == [cs EXCEPT ![c] = Append(@, p)]
         IN  IsLadder(ds) /\ NoOverlap(ds)
<1> DEFINE ds == [cs EXCEPT ![c] = Append(@, p)]
<1>1. cs[c] \in Seq(Prisoner) /\ ds[c] = Append(cs[c], p)
  BY DEF IsLadder
<1>2. IsLadder(ds)
  BY <1>1 DEF IsLadder
<1>3. \A d \in Cells : \A j \in DOMAIN ds[d] :
        IF d = c /\ j = Len(cs[c]) + 1 THEN ds[d][j] = p
                                      ELSE j \in DOMAIN cs[d] /\ ds[d][j] = cs[d][j]
  BY <1>1 DEF IsLadder
<1>4. \A q, r : Unrelated(q, r) <=> Unrelated(r, q)
  BY DEF Unrelated
<1> HIDE DEF ds
<1>5. NoOverlap(ds)
  <2> SUFFICES ASSUME NEW d \in Cells, NEW e \in Cells,
                      NEW i \in DOMAIN ds[d], NEW j \in DOMAIN ds[e], d # e \/ i # j
               PROVE  Unrelated(ds[d][i].cidr, ds[e][j].cidr)
    BY DEF NoOverlap
  <2> DEFINE new(f, k) == f = c /\ k = Len(cs[c]) + 1
  <2>1. CASE new(d, i)
    BY <1>3, <1>4, <2>1
  <2>2. CASE ~ new(d, i) /\ new(e, j)
    BY <1>3, <2>2
  <2>3. CASE ~ new(d, i) /\ ~ new(e, j)
    BY <1>3, <2>3 DEF NoOverlap
  <2> QED BY <2>1, <2>2, <2>3
<1> QED BY <1>2, <1>5 DEF ds
----------------------------------------------------------------------------
(* The ranges resident in the cells.                                       *)

Resident(cs, r) == \E c \in Cells : \E i \in DOMAIN cs[c] : cs[c][i].cidr = r

LEMMA SlotFacts ==
  ASSUME IsLadder(cells), NEW s \in Slots
  PROVE  /\ s = <<s[1], s[2]>> /\ s[1] \in Cells /\ s[2] \in DOMAIN cells[s[1]]
         /\ At(s) \in Prisoner /\ At(s) = cells[s[1]][s[2]]
<1>1. s = <<s[1], s[2]>> /\ s[1] \in Cells /\ s[2] \in DOMAIN cells[s[1]]
  BY DEF Slots
<1>2. cells[s[1]] \in Seq(Prisoner)
  BY <1>1 DEF IsLadder
<1> QED BY <1>1, <1>2 DEF At

LEMMA SlotOf ==
  ASSUME NEW c \in Cells, NEW i \in DOMAIN cells[c]
  PROVE  <<c, i>> \in Slots /\ At(<<c, i>>) = cells[c][i]
BY DEF Slots, At

LEMMA ReleasedResident ==
  ASSUME IsLadder(cells), NEW S, NEW r
  PROVE  Resident(Released(S), r) <=> \E s \in Slots \ S : At(s).cidr = r
<1>1. ASSUME Resident(Released(S), r) PROVE \E s \in Slots \ S : At(s).cidr = r
  <2>1. PICK c \in Cells : \E k \in DOMAIN Released(S)[c] : Released(S)[c][k].cidr = r
    BY <1>1 DEF Resident
  <2>3. PICK k \in DOMAIN Released(S)[c] : Released(S)[c][k].cidr = r
    BY <2>1
  <2>2. /\ Origin(S, c, k) \in DOMAIN cells[c] /\ <<c, Origin(S, c, k)>> \notin S
        /\ cells[c][Origin(S, c, k)].cidr = r
    BY <2>3, ReleasedFacts
  <2> QED BY <2>2, SlotOf
<1>2. ASSUME NEW c \in Cells, NEW i \in DOMAIN cells[c], <<c, i>> \notin S,
             cells[c][i].cidr = r
      PROVE  Resident(Released(S), r)
  <2>1. PICK k \in DOMAIN Released(S)[c] : Origin(S, c, k) = i
    BY <1>2, ReleasedFacts
  <2>2. \A d \in Cells : \A m \in DOMAIN Released(S)[d] :
          Released(S)[d][m] = cells[d][Origin(S, d, m)]
    BY ReleasedFacts
  <2>3. Released(S)[c][k].cidr = r
    BY <1>2, <2>1, <2>2
  <2>4. \E m \in DOMAIN Released(S)[c] : Released(S)[c][m].cidr = r
    BY <2>3
  <2> QED BY <2>4 DEF Resident
<1>3. ASSUME NEW s \in Slots \ S, At(s).cidr = r PROVE Resident(Released(S), r)
  BY <1>2, <1>3, SlotFacts
<1> QED BY <1>1, <1>3

LEMMA AppendResident ==
  ASSUME NEW cs, IsLadder(cs), NEW c \in Cells, NEW p \in Prisoner, NEW r
  PROVE  Resident([cs EXCEPT ![c] = Append(@, p)], r) <=> Resident(cs, r) \/ p.cidr = r
<1> DEFINE ds == [cs EXCEPT ![c] = Append(@, p)]
<1>1. cs[c] \in Seq(Prisoner) /\ ds[c] = Append(cs[c], p)
  BY DEF IsLadder
<1>2. \A d \in Cells : d # c => ds[d] = cs[d]
  BY DEF IsLadder
<1>3. /\ DOMAIN ds[c] = 1..(Len(cs[c]) + 1) /\ DOMAIN cs[c] = 1..Len(cs[c])
      /\ Len(cs[c]) \in Nat
      /\ ds[c][Len(cs[c]) + 1] = p /\ \A j \in DOMAIN cs[c] : ds[c][j] = cs[c][j]
  BY <1>1
<1> HIDE DEF ds
<1>4. Resident(ds, r) => Resident(cs, r) \/ p.cidr = r
  <2> SUFFICES ASSUME NEW d \in Cells, NEW j \in DOMAIN ds[d], ds[d][j].cidr = r
               PROVE  Resident(cs, r) \/ p.cidr = r
    BY DEF Resident
  <2>1. CASE d # c
    BY <1>2, <2>1 DEF Resident
  <2>2. CASE d = c /\ j = Len(cs[c]) + 1
    BY <1>3, <2>2
  <2>3. CASE d = c /\ j # Len(cs[c]) + 1
    BY <1>3, <2>3 DEF Resident
  <2> QED BY <2>1, <2>2, <2>3
<1>5. Resident(cs, r) => Resident(ds, r)
  <2> SUFFICES ASSUME NEW d \in Cells, NEW j \in DOMAIN cs[d], cs[d][j].cidr = r
               PROVE  Resident(ds, r)
    BY DEF Resident
  <2>1. j \in DOMAIN ds[d] /\ ds[d][j] = cs[d][j]
    BY <1>2, <1>3
  <2> QED BY <2>1 DEF Resident
<1>6. p.cidr = r => Resident(ds, r)
  BY <1>3 DEF Resident
<1> QED BY <1>4, <1>5, <1>6 DEF ds

(* Rewriting prisoners where they stand, each keeping its range, changes   *)
(* neither the antichain nor the residents.                                *)
LEMMA InPlaceFacts ==
  ASSUME NEW cs, IsLadder(cs), NEW ds, IsLadder(ds), NoOverlap(cs),
         \A c \in Cells : /\ DOMAIN ds[c] = DOMAIN cs[c]
                          /\ \A i \in DOMAIN cs[c] : ds[c][i].cidr = cs[c][i].cidr
  PROVE  NoOverlap(ds) /\ \A r : Resident(ds, r) <=> Resident(cs, r)
BY DEF NoOverlap, Resident

(* A jail moves on when the antichain survives and the residents change    *)
(* from those of cs by the range r.                                        *)
LEMMA ThrowFacts ==
  ASSUME NEW S \in SUBSET Slots, NEW c \in Cells, NEW r \in CIDRs, NEW t \in Nat,
         IsLadder(cells), NoOverlap(cells),
         \A s \in Slots \ S : Unrelated(At(s).cidr, r)
  PROVE  LET ds == Throw(Released(S), c, r, t)
         IN  /\ IsLadder(ds) /\ NoOverlap(ds)
             /\ \A q : Resident(ds, q) <=> q = r \/ \E s \in Slots \ S : At(s).cidr = q
<1> DEFINE p == Jailed(r, t)
<1>1. p \in Prisoner /\ p.cidr = r
  BY DEF Jailed, Prisoner
<1>2. IsLadder(Released(S)) /\ NoOverlap(Released(S))
  BY ReleasedFacts, ReleasedNoOverlap
<1>3. ASSUME NEW d \in Cells, NEW k \in DOMAIN Released(S)[d]
      PROVE  Unrelated(Released(S)[d][k].cidr, r)
  <2>1. /\ Origin(S, d, k) \in DOMAIN cells[d] /\ <<d, Origin(S, d, k)>> \notin S
        /\ Released(S)[d][k] = cells[d][Origin(S, d, k)]
    BY ReleasedFacts
  <2> QED BY <2>1, SlotOf
<1> DEFINE R == Released(S)
           ds == Throw(R, c, r, t)
<1>4. \A q : Resident(R, q) <=> \E s \in Slots \ S : At(s).cidr = q
  BY ReleasedResident
<1>5. ds = [R EXCEPT ![c] = Append(@, p)]
  BY DEF Throw
<1> HIDE DEF p, R
<1>6. IsLadder(ds) /\ NoOverlap(ds)
  <2>1. \A d \in Cells : \A j \in DOMAIN R[d] : Unrelated(R[d][j].cidr, p.cidr)
    BY <1>1, <1>3 DEF R
  <2>2. IsLadder(R) /\ NoOverlap(R)
    BY <1>2 DEF R
  <2> HIDE DEF ds
  <2> QED BY <1>1, <1>5, <2>1, <2>2, AppendNoOverlap
<1>7. ASSUME NEW q
      PROVE  Resident(ds, q) <=> q = r \/ \E s \in Slots \ S : At(s).cidr = q
  <2>1. IsLadder(R)
    BY <1>2 DEF R
  <2> HIDE DEF ds
  <2>2. Resident(ds, q) <=> Resident(R, q) \/ p.cidr = q
    BY <1>1, <1>5, <2>1, AppendResident
  <2> QED BY <1>1, <1>4, <2>2
<1> QED BY <1>6, <1>7 DEF R
----------------------------------------------------------------------------
(* The scans: first match, deepest cell, number of occurrences.            *)

(* A non-empty set of indices has a least and a greatest element.          *)
LEMMA ExtremeIndex ==
  ASSUME NEW n \in Nat, NEW K \in SUBSET (1..n), K # {}
  PROVE  /\ \E i \in K : \A j \in K : i <= j
         /\ \E i \in K : \A j \in K : j <= i
<1>1. IsFiniteSet(1..n)
  BY FS_Interval
<1>2. IsFiniteSet(K)
  BY <1>1, FS_Subset
<1>3. Cardinality(K) \in Nat /\ Cardinality(K) # 0
  BY <1>2, FS_CardinalityType, FS_EmptySet
<1>4. \A i \in K : i \in Nat
  OBVIOUS
<1>5. \A k \in 1..Cardinality(K) : \E i \in K : Cardinality(UpTo(K, i)) = k
  BY RankBijective
<1>6. PICK i \in K : Cardinality(UpTo(K, i)) = 1
  BY <1>3, <1>5
<1>7. PICK m \in K : Cardinality(UpTo(K, m)) = Cardinality(K)
  BY <1>3, <1>5
<1>8. \A j \in K : i <= j
  <2>1. UpTo(K, i) \in SUBSET K
    BY DEF UpTo
  <2>2. IsFiniteSet(UpTo(K, i))
    BY <1>2, <2>1, FS_Subset
  <2>3. PICK x : UpTo(K, i) = {x}
    BY <1>6, <2>2, FS_Singleton
  <2>4. i \in UpTo(K, i)
    BY <1>4 DEF UpTo
  <2>5. \A j \in K : j <= i => j = i
    BY <2>3, <2>4 DEF UpTo
  <2> QED BY <1>4, <2>5
<1>9. \A j \in K : j <= m
  <2>1. UpTo(K, m) \in SUBSET K
    BY DEF UpTo
  <2>2. UpTo(K, m) = K
    BY <1>2, <1>7, <2>1, FS_Subset
  <2> QED BY <2>2 DEF UpTo
<1> QED BY <1>8, <1>9

LEMMA FirstSlotFacts ==
  ASSUME IsLadder(cells), NEW S \in SUBSET Slots, S # {}
  PROVE  FirstSlot(S) \in S /\ \A t \in S : Before(FirstSlot(S), t)
<1> DEFINE C == {c \in Cells : \E s \in S : s[1] = c}
<1>1. \A s \in S : s = <<s[1], s[2]>> /\ s[1] \in Cells /\ s[2] \in DOMAIN cells[s[1]]
  BY SlotFacts
<1>2. PICK c \in C : \A d \in C : c <= d
  <2>1. C \in SUBSET (1..NumCells) /\ C # {}
    BY <1>1 DEF Cells
  <2>2. NumCells \in Nat
    BY NumCellsAssumption
  <2> HIDE DEF C
  <2> QED BY <2>1, <2>2, ExtremeIndex
<1> DEFINE I == {i \in DOMAIN cells[c] : <<c, i>> \in S}
<1>3. PICK i \in I : \A j \in I : i <= j
  <2>1. PICK n \in Nat : DOMAIN cells[c] = 1..n
    BY DEF IsLadder
  <2>2. I \in SUBSET (1..n) /\ I # {}
    BY <1>1, <2>1
  <2> HIDE DEF I
  <2> QED BY <2>1, <2>2, ExtremeIndex
<1>4. <<c, i>> \in S
  OBVIOUS
<1>5. ASSUME NEW t \in S PROVE Before(<<c, i>>, t)
  <2>1. t = <<t[1], t[2]>> /\ t[1] \in C
    BY <1>1
  <2>2. c <= t[1] /\ c \in Nat /\ t[1] \in Nat
    BY <1>2, <2>1 DEF Cells
  <2>3. t[1] = c => t[2] \in I
    BY <1>1, <2>1
  <2> QED BY <1>3, <2>2, <2>3 DEF Before
<1> QED BY <1>4, <1>5 DEF FirstSlot

LEMMA DeepestFacts ==
  ASSUME IsLadder(cells), NEW S \in SUBSET Slots, S # {}
  PROVE  /\ Deepest(S) \in Cells
         /\ \A s \in S : s[1] <= Deepest(S)
         /\ NextCell(Deepest(S)) \in Cells /\ Deepest(S) <= NextCell(Deepest(S))
<1> DEFINE C == {s[1] : s \in S}
<1>1. C \in SUBSET (1..NumCells) /\ C # {}
  BY SlotFacts DEF Cells
<1>2. NumCells \in Nat
  BY NumCellsAssumption
<1>3. \E c \in C : \A d \in C : d <= c
  <2> HIDE DEF C
  <2> QED BY <1>1, <1>2, ExtremeIndex
<1>4. Deepest(S) \in C /\ \A s \in S : s[1] <= Deepest(S)
  BY <1>3 DEF Deepest
<1>5. Deepest(S) \in 1..NumCells
  BY <1>1, <1>4
<1> QED BY <1>2, <1>4, <1>5 DEF NextCell, Cells

LEMMA DeepestReached ==
  ASSUME IsLadder(cells), NEW S \in SUBSET Slots, S # {}
  PROVE  \E s \in S : s[1] = Deepest(S)
<1> DEFINE C == {s[1] : s \in S}
<1>1. C \in SUBSET (1..NumCells) /\ C # {}
  BY SlotFacts DEF Cells
<1>2. NumCells \in Nat
  BY NumCellsAssumption
<1>3. \E c \in C : \A d \in C : d <= c
  <2> HIDE DEF C
  <2> QED BY <1>1, <1>2, ExtremeIndex
<1>4. Deepest(S) \in C
  BY <1>3 DEF Deepest
<1> QED BY <1>4

(* Among unrelated residents a range occurs at most once.                  *)
LEMMA CountFacts ==
  ASSUME IsLadder(cells), NoOverlap(cells), NEW S \in SUBSET Slots, NEW r
  PROVE  Cardinality({s \in S : At(s).cidr = r})
           = IF \E s \in S : At(s).cidr = r THEN 1 ELSE 0
<1> DEFINE T == {s \in S : At(s).cidr = r}
<1>1. ASSUME NEW s \in T, NEW t \in T PROVE s = t
  <2>1. /\ s = <<s[1], s[2]>> /\ s[1] \in Cells /\ s[2] \in DOMAIN cells[s[1]]
        /\ t = <<t[1], t[2]>> /\ t[1] \in Cells /\ t[2] \in DOMAIN cells[t[1]]
        /\ cells[s[1]][s[2]].cidr = r /\ cells[t[1]][t[2]].cidr = r
    BY SlotFacts DEF At
  <2>2. s[1] = t[1] /\ s[2] = t[2]
    BY <2>1 DEF NoOverlap, Unrelated
  <2> QED BY <2>1, <2>2
<1>2. CASE T = {}
  BY <1>2, FS_EmptySet
<1>3. CASE T # {}
  <2>1. PICK s : s \in T
    BY <1>3
  <2>2. T = {s}
    BY <1>1, <2>1
  <2>3. Cardinality(T) = 1
    BY <2>2, FS_Singleton
  <2> QED BY <2>1, <2>3
<1> QED BY <1>2, <1>3

(* AllCIDRs lists the residents of cs.                                     *)
Listing(bag, cs) ==
  /\ bag \in [CIDRs -> Nat]
  /\ \A r \in CIDRs : bag[r] = IF Resident(cs, r) THEN 1 ELSE 0

LEMMA ResidentSlot ==
  ASSUME IsLadder(cells), NEW r
  PROVE  Resident(cells, r) <=> \E s \in Slots : At(s).cidr = r
<1>1. ASSUME NEW c \in Cells, NEW i \in DOMAIN cells[c], cells[c][i].cidr = r
      PROVE  \E s \in Slots : At(s).cidr = r
  BY <1>1, SlotOf
<1>2. ASSUME NEW s \in Slots, At(s).cidr = r PROVE Resident(cells, r)
  BY <1>2, SlotFacts DEF Resident
<1> QED BY <1>1, <1>2 DEF Resident

LEMMA AllCIDRsExactIsListing ==
  ASSUME IsLadder(cells), NoOverlap(cells), allCIDRs \in [CIDRs -> Nat]
  PROVE  AllCIDRsExact <=> Listing(allCIDRs, cells)
<1>1. ASSUME NEW r \in CIDRs
      PROVE  Cardinality(SameRange(r)) = IF Resident(cells, r) THEN 1 ELSE 0
  <2>1. Cardinality({s \in Slots : At(s).cidr = r})
          = IF \E s \in Slots : At(s).cidr = r THEN 1 ELSE 0
    BY CountFacts
  <2> QED BY <2>1, ResidentSlot DEF SameRange
<1> QED BY <1>1 DEF AllCIDRsExact, Listing
----------------------------------------------------------------------------
(* Every operation keeps the antichain and the listing.                    *)

Sound(cs, bag) == IsLadder(cs) /\ NoOverlap(cs) /\ Listing(bag, cs)

LEMMA UnrelatedSlots ==
  ASSUME IsLadder(cells), NoOverlap(cells), NEW s \in Slots, NEW t \in Slots, s # t
  PROVE  Unrelated(At(s).cidr, At(t).cidr)
<1>1. /\ s = <<s[1], s[2]>> /\ s[1] \in Cells /\ s[2] \in DOMAIN cells[s[1]]
      /\ At(s) = cells[s[1]][s[2]]
  BY SlotFacts
<1>2. /\ t = <<t[1], t[2]>> /\ t[1] \in Cells /\ t[2] \in DOMAIN cells[t[1]]
      /\ At(t) = cells[t[1]][t[2]]
  BY SlotFacts
<1>3. s[1] # t[1] \/ s[2] # t[2]
  BY <1>1, <1>2
<1> QED BY <1>1, <1>2, <1>3 DEF NoOverlap

LEMMA MovedIsThrown ==
  ASSUME IsLadder(cells), NEW s \in Slots, s[1] < NumCells
  PROVE  /\ s[1] + 1 \in Cells
         /\ Moved(s) = Throw(Released({s}), s[1] + 1, At(s).cidr, now)
<1>1. At(s) \in Prisoner /\ s[1] \in Cells
  BY SlotFacts
<1>2. Renewed(At(s)) = Jailed(At(s).cidr, now)
  BY DEF Renewed
<1>3. s[1] + 1 \in Cells
  BY <1>1, NumCellsAssumption DEF Cells
<1> QED BY <1>2, <1>3 DEF Moved, Throw

LEMMA MovedInPlace ==
  ASSUME IsLadder(cells), now \in Nat, NEW s \in Slots, ~ (s[1] < NumCells)
  PROVE  /\ IsLadder(Moved(s))
         /\ \A c \in Cells : DOMAIN Moved(s)[c] = DOMAIN cells[c]
         /\ \A c \in Cells : \A i \in DOMAIN cells[c] :
              Moved(s)[c][i] = IF <<c, i>> = s THEN Renewed(At(s)) ELSE cells[c][i]
<1>1. s = <<s[1], s[2]>> /\ s[1] \in Cells /\ s[2] \in DOMAIN cells[s[1]]
  BY SlotFacts
<1>2. At(s) \in Prisoner /\ At(s) = cells[s[1]][s[2]]
  BY SlotFacts
<1>3. Renewed(At(s)) \in Prisoner
  BY <1>2 DEF Renewed, Jailed, Prisoner
<1>4. Moved(s) = [cells EXCEPT ![s[1]] = [@ EXCEPT ![s[2]] = Renewed(At(s))]]
  BY DEF Moved
<1>5. cells \in [Cells -> Seq(Prisoner)] /\ cells[s[1]] \in Seq(Prisoner)
  BY <1>1 DEF IsLadder
<1> DEFINE line == [cells[s[1]] EXCEPT ![s[2]] = Renewed(At(s))]
<1>6. line \in Seq(Prisoner) /\ DOMAIN line = DOMAIN cells[s[1]]
  BY <1>1, <1>3, <1>5
<1>7. /\ Moved(s)[s[1]] = line
      /\ \A c \in Cells : c # s[1] => Moved(s)[c] = cells[c]
      /\ Moved(s) \in [Cells -> Seq(Prisoner)]
  BY <1>1, <1>4, <1>5, <1>6
<1>8. \A i \in DOMAIN cells[s[1]] :
        line[i] = IF i = s[2] THEN Renewed(At(s)) ELSE cells[s[1]][i]
  OBVIOUS
<1> HIDE DEF line
<1>9. ASSUME NEW c \in Cells, NEW i \in DOMAIN cells[c]
      PROVE  Moved(s)[c][i] = IF <<c, i>> = s THEN Renewed(At(s)) ELSE cells[c][i]
  BY <1>1, <1>7, <1>8
<1> QED BY <1>6, <1>7, <1>9 DEF IsLadder

LEMMA MovedFacts ==
  ASSUME IsLadder(cells), NoOverlap(cells), now \in Nat, NEW s \in Slots
  PROVE  /\ IsLadder(Moved(s)) /\ NoOverlap(Moved(s))
         /\ \A r : Resident(Moved(s), r) <=> Resident(cells, r)
<1>1. At(s) \in Prisoner /\ At(s).cidr \in CIDRs
  BY SlotFacts DEF Prisoner
<1>2. CASE s[1] < NumCells
  <2>1. \A t \in Slots \ {s} : Unrelated(At(t).cidr, At(s).cidr)
    BY UnrelatedSlots
  <2>2. s[1] + 1 \in Cells /\ Moved(s) = Throw(Released({s}), s[1] + 1, At(s).cidr, now)
    BY <1>2, MovedIsThrown
  <2> DEFINE r == At(s).cidr
             S == {s}
             c == s[1] + 1
  <2>3. S \in SUBSET Slots /\ c \in Cells /\ r \in CIDRs
        /\ \A t \in Slots \ S : Unrelated(At(t).cidr, r)
    BY <1>1, <2>1, <2>2
  <2>4. LET ds == Throw(Released(S), c, r, now)
        IN  /\ IsLadder(ds) /\ NoOverlap(ds)
            /\ \A q : Resident(ds, q) <=> q = r \/ \E t \in Slots \ S : At(t).cidr = q
    <3> HIDE DEF r, S, c
    <3> QED BY <2>3, ThrowFacts
  <2>5. \A q : Resident(Moved(s), q) <=> \E t \in Slots : At(t).cidr = q
    BY <2>2, <2>4
  <2> QED BY <2>2, <2>4, <2>5, ResidentSlot
<1>3. CASE ~ (s[1] < NumCells)
  <2>1. Renewed(At(s)).cidr = At(s).cidr
    BY DEF Renewed, Jailed
  <2>2. /\ IsLadder(Moved(s))
        /\ \A c \in Cells : DOMAIN Moved(s)[c] = DOMAIN cells[c]
        /\ \A c \in Cells : \A i \in DOMAIN cells[c] :
             Moved(s)[c][i] = IF <<c, i>> = s THEN Renewed(At(s)) ELSE cells[c][i]
    BY <1>3, MovedInPlace
  <2>3. \A c \in Cells : \A i \in DOMAIN cells[c] : Moved(s)[c][i].cidr = cells[c][i].cidr
    BY <2>1, <2>2, SlotOf
  <2> QED BY <2>2, <2>3, InPlaceFacts
<1> QED BY <1>2, <1>3

LEMMA RedetectSound ==
  ASSUME Sound(cells, allCIDRs), now \in Nat, NEW s \in Slots, Redetect(s)
  PROVE  Sound(cells', allCIDRs')
<1>1. CASE At(s).active
  BY <1>1 DEF Redetect
<1>2. CASE ~ At(s).active
  <2>1. cells' = Moved(s) /\ allCIDRs' = allCIDRs
    BY <1>2 DEF Redetect
  <2>2. /\ IsLadder(Moved(s)) /\ NoOverlap(Moved(s))
        /\ \A r : Resident(Moved(s), r) <=> Resident(cells, r)
    BY MovedFacts DEF Sound
  <2>3. Listing(allCIDRs, Moved(s))
    BY <2>2 DEF Sound, Listing
  <2> QED BY <2>1, <2>2, <2>3 DEF Sound
<1> QED BY <1>1, <1>2

(* Removing the slots S and appending the range r, in the cells and in the *)
(* listing.                                                                *)
LEMMA ReplaceSound ==
  ASSUME Sound(cells, allCIDRs), NEW S \in SUBSET Slots, NEW c \in Cells,
         NEW r \in CIDRs, NEW t \in Nat, SameRange(r) = {},
         \A s \in Slots \ S : Unrelated(At(s).cidr, r)
  PROVE  Sound(Throw(Released(S), c, r, t), Listed(Unlisted(S), r))
<1> DEFINE ds == Throw(Released(S), c, r, t)
           bag == Listed(Unlisted(S), r)
<1>1. /\ IsLadder(ds) /\ NoOverlap(ds)
      /\ \A q : Resident(ds, q) <=> q = r \/ \E s \in Slots \ S : At(s).cidr = q
  BY ThrowFacts DEF Sound
<1>2. ASSUME NEW q \in CIDRs
      PROVE  Unlisted(S)[q] = IF \E s \in Slots \ S : At(s).cidr = q THEN 1 ELSE 0
  <2>1. allCIDRs[q] = IF \E s \in Slots : At(s).cidr = q THEN 1 ELSE 0
    BY ResidentSlot DEF Sound, Listing
  <2>2. Cardinality({s \in S : At(s).cidr = q})
          = IF \E s \in S : At(s).cidr = q THEN 1 ELSE 0
    BY CountFacts DEF Sound
  <2>3. \A s, u \in Slots : At(s).cidr = q /\ At(u).cidr = q => s = u
    BY UnrelatedSlots DEF Sound, Unrelated
  <2>4. Unlisted(S)[q] = LET n == Cardinality({s \in S : At(s).cidr = q})
                         IN  IF allCIDRs[q] > n THEN allCIDRs[q] - n ELSE 0
    BY DEF Unlisted
  <2> DEFINE n == Cardinality({s \in S : At(s).cidr = q})
  <2>5. CASE \E s \in S : At(s).cidr = q
    <3>1. n = 1 /\ allCIDRs[q] = 1
      BY <2>1, <2>2, <2>5
    <3>2. ~ \E s \in Slots \ S : At(s).cidr = q
      BY <2>3, <2>5
    <3> HIDE DEF n
    <3> QED BY <2>4, <3>1, <3>2 DEF n
  <2>6. CASE ~ \E s \in S : At(s).cidr = q
    <3>1. n = 0
      BY <2>2, <2>6
    <3>2. (\E s \in Slots : At(s).cidr = q) <=> \E s \in Slots \ S : At(s).cidr = q
      BY <2>6
    <3> HIDE DEF n
    <3> QED BY <2>1, <2>4, <3>1, <3>2 DEF n
  <2> QED BY <2>5, <2>6
<1>3. Unlisted(S) \in [CIDRs -> Nat]
  <2>1. \A q \in CIDRs : Unlisted(S)[q] \in Nat
    BY <1>2
  <2> QED BY <2>1 DEF Unlisted
<1>4. \A s \in Slots : At(s).cidr # r
  BY DEF SameRange
<1>5. Listing(bag, ds)
  <2>1. bag \in [CIDRs -> Nat] /\ bag[r] = Unlisted(S)[r] + 1
        /\ \A q \in CIDRs : q # r => bag[q] = Unlisted(S)[q]
    BY <1>3 DEF Listed
  <2>2. bag[r] = 1
    BY <1>2, <1>4, <2>1
  <2> HIDE DEF bag, ds
  <2> QED BY <1>1, <1>2, <2>1, <2>2 DEF Listing
<1> QED BY <1>1, <1>5 DEF Sound

(* A resident range outside the sub-ranges of r is unrelated to r when r   *)
(* itself is not resident and has a resident sub-range, or no parent.      *)
LEMMA FillUnrelated ==
  ASSUME IsLadder(cells), NoOverlap(cells), NEW r \in CIDRs, SameRange(r) = {},
         SubRanges(r) # {} \/ ParentRanges(r) = {}
  PROVE  \A s \in Slots \ SubRanges(r) : Unrelated(At(s).cidr, r)
<1> SUFFICES ASSUME NEW s \in Slots, s \notin SubRanges(r)
             PROVE  Unrelated(At(s).cidr, r)
  OBVIOUS
<1>1. At(s).cidr # r
  BY DEF SameRange
<1>2. ~ Within(At(s).cidr, r)
  BY DEF SubRanges
<1>3. ASSUME Within(r, At(s).cidr) PROVE FALSE
  <2>1. PICK u \in Slots : Within(At(u).cidr, r) /\ u # s
    BY <1>2, <1>3 DEF SubRanges, ParentRanges
  <2>2. At(u).cidr \in CIDRs /\ At(s).cidr \in CIDRs
    BY SlotFacts DEF Prisoner
  <2>3. Within(At(u).cidr, At(s).cidr)
    BY <1>3, <2>1, <2>2, WithinTransitive
  <2> QED BY <2>1, <2>3, UnrelatedSlots DEF Unrelated
<1> QED BY <1>1, <1>2, <1>3 DEF Unrelated

LEMMA AbsorbSound ==
  ASSUME Sound(cells, allCIDRs), now \in Nat, NEW r \in CIDRs, FillAbsorb(r)
  PROVE  Sound(cells', allCIDRs')
<1> DEFINE S == SubRanges(r)
<1>1. S \in SUBSET Slots /\ S # {} /\ SameRange(r) = {}
  BY DEF FillAbsorb, SubRanges
<1>2. \A s \in Slots \ S : Unrelated(At(s).cidr, r)
  BY <1>1, FillUnrelated DEF Sound
<1>3. Deepest(S) \in Cells /\ NextCell(Deepest(S)) \in Cells
  BY <1>1, DeepestFacts DEF Sound
<1>4. \E c \in Cells, t \in Nat : cells' = Throw(Released(S), c, r, t)
  <2>1. CASE Carried(S) = {}
    <3>1. cells' = Throw(Released(S), NextCell(Deepest(S)), r, now)
      BY <2>1 DEF FillAbsorb, Absorbed
    <3> QED BY <1>3, <3>1
  <2>2. CASE Carried(S) # {}
    <3>1. Carried(S) \in SUBSET Slots
      BY <1>1 DEF Carried
    <3>2. FirstSlot(Carried(S)) \in Slots
      BY <2>2, <3>1, FirstSlotFacts DEF Sound
    <3>3. At(FirstSlot(Carried(S))).start \in Nat
      BY <3>2, SlotFacts DEF Sound, Prisoner
    <3>4. cells' = Throw(Released(S), Deepest(S), r, At(FirstSlot(Carried(S))).start)
      BY <2>2 DEF FillAbsorb, Absorbed
    <3> QED BY <1>3, <3>3, <3>4
  <2> QED BY <2>1, <2>2
<1>5. allCIDRs' = Listed(Unlisted(S), r)
  BY DEF FillAbsorb
<1> HIDE DEF S
<1> QED BY <1>1, <1>2, <1>4, <1>5, ReplaceSound

LEMMA FreshSound ==
  ASSUME Sound(cells, allCIDRs), now \in Nat, NEW r \in CIDRs, FillFresh(r)
  PROVE  Sound(cells', allCIDRs')
<1> DEFINE p == Jailed(r, now)
           ds == Throw(cells, 1, r, now)
<1>1. \A s \in Slots : Unrelated(At(s).cidr, r)
  BY FillUnrelated DEF FillFresh, Sound
<1>2. p \in Prisoner /\ p.cidr = r /\ 1 \in Cells
  BY NumCellsAssumption DEF Jailed, Prisoner, Cells
<1>3. ds = [cells EXCEPT ![1] = Append(@, p)]
  BY DEF Throw
<1>4. \A d \in Cells : \A j \in DOMAIN cells[d] : Unrelated(cells[d][j].cidr, p.cidr)
  BY <1>1, <1>2, SlotOf
<1> HIDE DEF p
<1>5. IsLadder(ds) /\ NoOverlap(ds)
  <2> HIDE DEF ds
  <2> QED BY <1>2, <1>3, <1>4, AppendNoOverlap DEF Sound
<1>6. \A q : Resident(ds, q) <=> Resident(cells, q) \/ q = r
  <2> HIDE DEF ds
  <2> QED BY <1>2, <1>3, AppendResident DEF Sound
<1>7. allCIDRs[r] = 0
  BY ResidentSlot DEF Sound, Listing, FillFresh, SameRange
<1>8. allCIDRs' = Listed(allCIDRs, r) /\ cells' = ds
  BY DEF FillFresh
<1>9. Listing(allCIDRs', ds)
  <2>1. allCIDRs \in [CIDRs -> Nat]
    BY DEF Sound, Listing
  <2>2. allCIDRs' \in [CIDRs -> Nat] /\ allCIDRs'[r] = 1
        /\ \A q \in CIDRs : q # r => allCIDRs'[q] = allCIDRs[q]
    BY <1>7, <1>8, <2>1 DEF Listed
  <2> HIDE DEF ds
  <2> QED BY <1>6, <2>2 DEF Sound, Listing
<1> QED BY <1>5, <1>8, <1>9 DEF Sound

LEMMA FillSound ==
  ASSUME Sound(cells, allCIDRs), now \in Nat, NEW r \in CIDRs, Fill(r)
  PROVE  Sound(cells', allCIDRs')
<1>1. CASE FillResident(r)
  <2>1. SameRange(r) \in SUBSET Slots /\ SameRange(r) # {}
    BY <1>1 DEF FillResident, SameRange
  <2>2. FirstSlot(SameRange(r)) \in Slots
    BY <2>1, FirstSlotFacts DEF Sound
  <2> QED BY <1>1, <2>2, RedetectSound DEF FillResident
<1>2. CASE FillAbsorb(r)
  BY <1>2, AbsorbSound
<1>3. CASE FillCovered(r)
  <2>1. ParentRanges(r) \in SUBSET Slots /\ ParentRanges(r) # {}
    BY <1>3 DEF FillCovered, ParentRanges
  <2>2. FirstSlot(ParentRanges(r)) \in Slots
    BY <2>1, FirstSlotFacts DEF Sound
  <2> QED BY <1>3, <2>2, RedetectSound DEF FillCovered
<1>4. CASE FillFresh(r)
  BY <1>4, FreshSound
<1> QED BY <1>1, <1>2, <1>3, <1>4 DEF Fill

LEMMA RefreshedFacts ==
  ASSUME IsLadder(cells)
  PROVE  /\ IsLadder(Refreshed)
         /\ \A c \in Cells : DOMAIN Refreshed[c] = DOMAIN cells[c]
         /\ \A c \in Cells : \A i \in DOMAIN cells[c] :
              Refreshed[c][i] = IF BanIsOver(<<c, i>>)
                                THEN [cells[c][i] EXCEPT !.active = FALSE]
                                ELSE cells[c][i]
<1>1. ASSUME NEW c \in Cells PROVE Refreshed[c] \in Seq(Prisoner)
  <2>1. PICK n \in Nat : cells[c] \in [1..n -> Prisoner]
    BY DEF IsLadder
  <2>2. \A i \in 1..n : [cells[c][i] EXCEPT !.active = FALSE] \in Prisoner
    BY <2>1 DEF Prisoner
  <2>3. Refreshed[c] \in [1..n -> Prisoner]
    BY <2>1, <2>2 DEF Refreshed
  <2> QED BY <2>3
<1> QED BY <1>1 DEF Refreshed, IsLadder

LEMMA RefreshedSound ==
  ASSUME Sound(cells, allCIDRs)
  PROVE  Sound(Refreshed, allCIDRs)
<1>1. /\ IsLadder(Refreshed)
      /\ \A c \in Cells : DOMAIN Refreshed[c] = DOMAIN cells[c]
      /\ \A c \in Cells : \A i \in DOMAIN cells[c] :
              Refreshed[c][i] = IF BanIsOver(<<c, i>>)
                                THEN [cells[c][i] EXCEPT !.active = FALSE]
                                ELSE cells[c][i]
  BY RefreshedFacts DEF Sound
<1>2. ASSUME NEW c \in Cells, NEW i \in DOMAIN cells[c]
      PROVE  Refreshed[c][i].cidr = cells[c][i].cidr
  <2>1. cells[c][i] \in Prisoner
    BY DEF Sound, IsLadder
  <2>2. [cells[c][i] EXCEPT !.active = FALSE].cidr = cells[c][i].cidr
    BY <2>1 DEF Prisoner
  <2> QED BY <1>1, <2>2
<1>3. NoOverlap(Refreshed) /\ \A r : Resident(Refreshed, r) <=> Resident(cells, r)
  BY <1>1, <1>2, InPlaceFacts DEF Sound
<1> QED BY <1>1, <1>3 DEF Sound, Listing

LEMMA PruneSound ==
  ASSUME Sound(cells, allCIDRs), Prune
  PROVE  Sound(cells', allCIDRs')
<1> DEFINE gone == {s \in Slots : Stale(s)}
<1>1. cells' = Released(gone)
      /\ allCIDRs' = IF gone = {} THEN allCIDRs ELSE Rebuilt(Slots \ gone)
  BY DEF Prune
<1> HIDE DEF gone
<1>2. IsLadder(cells') /\ NoOverlap(cells')
  BY <1>1, ReleasedFacts, ReleasedNoOverlap DEF Sound
<1>3. \A r : Resident(cells', r) <=> \E s \in Slots \ gone : At(s).cidr = r
  BY <1>1, ReleasedResident DEF Sound
<1>4. CASE gone = {}
  <2>1. \A r : Resident(cells', r) <=> Resident(cells, r)
    BY <1>3, <1>4, ResidentSlot DEF Sound
  <2>2. Listing(allCIDRs, cells) /\ allCIDRs' = allCIDRs
    BY <1>1, <1>4 DEF Sound
  <2>3. Listing(allCIDRs', cells')
    BY <2>1, <2>2 DEF Listing
  <2> QED BY <1>2, <2>3 DEF Sound
<1>5. CASE gone # {}
  <2> DEFINE left == Slots \ gone
  <2>1. allCIDRs' = [r \in CIDRs |-> Cardinality({s \in left : At(s).cidr = r})]
    BY <1>1, <1>5 DEF Rebuilt
  <2>2. left \in SUBSET Slots
    OBVIOUS
  <2>3. \A r : Resident(cells', r) <=> \E s \in left : At(s).cidr = r
    BY <1>3
  <2> HIDE DEF left
  <2>4. ASSUME NEW r \in CIDRs
        PROVE  allCIDRs'[r] = IF Resident(cells', r) THEN 1 ELSE 0
    <3>1. Cardinality({s \in left : At(s).cidr = r})
            = IF \E s \in left : At(s).cidr = r THEN 1 ELSE 0
      BY <2>2, CountFacts DEF Sound
    <3> QED BY <2>1, <2>3, <3>1
  <2>5. \A r \in CIDRs : allCIDRs'[r] \in Nat
    BY <2>4
  <2>6. DOMAIN allCIDRs' = CIDRs /\ allCIDRs' = [r \in CIDRs |-> allCIDRs'[r]]
    BY <2>1
  <2>7. allCIDRs' \in [CIDRs -> Nat]
    BY <2>5, <2>6
  <2>8. Listing(allCIDRs', cells')
    BY <2>4, <2>7 DEF Listing
  <2> QED BY <1>2, <2>8 DEF Sound
<1> QED BY <1>4, <1>5
----------------------------------------------------------------------------
(* The inductive invariant: the types, the antichain and the listing.  The *)
(* antichain is inductive only together with the types, and the listing    *)
(* only together with the antichain: RemovePrisoner cuts one entry per     *)
(* prisoner, which is right when no range is resident twice.               *)

JailInv == TypeOK /\ Sound(cells, allCIDRs)

LEMMA InitJailInv == Init => JailInv
<1> SUFFICES ASSUME Init PROVE JailInv
  OBVIOUS
<1>1. IsLadder(cells) /\ \A c \in Cells : DOMAIN cells[c] = {}
  BY DEF Init, IsLadder
<1>2. NoOverlap(cells) /\ \A r : ~ Resident(cells, r)
  BY <1>1 DEF NoOverlap, Resident
<1>3. Listing(allCIDRs, cells)
  BY <1>2 DEF Init, Listing
<1>4. todo \in Seq(CIDRs \cup BadStrings)
  BY DEF Init
<1> QED BY <1>1, <1>2, <1>3, <1>4 DEF Init, JailInv, TypeOK, Sound, IsLadder

LEMMA NextJailInv == JailInv /\ [Next]_vars => JailInv'
<1> SUFFICES ASSUME JailInv, [Next]_vars PROVE JailInv'
  OBVIOUS
<1> USE DEF JailInv
<1>1. ASSUME Sound(cells', allCIDRs'), now' \in Nat, refreshed' \in Nat,
             filled' \subseteq CIDRs, todo' \in Seq(CIDRs \cup BadStrings)
      PROVE  JailInv'
  BY <1>1 DEF TypeOK, Sound, IsLadder, Listing
<1> USE DEF TypeOK
<1>2. ASSUME NEW batch \in Batches, BeginUpdate(batch) PROVE JailInv'
  <2>1. batch \in Seq(CIDRs \cup BadStrings)
    BY LimitsAssumption DEF Batches
  <2>2. Sound(cells', allCIDRs')
    BY <1>2, RefreshedSound DEF BeginUpdate
  <2> QED BY <1>1, <1>2, <2>1, <2>2 DEF BeginUpdate
<1>3. CASE FillNext
  <2>1. Head(todo) \in CIDRs /\ Fill(Head(todo))
    BY <1>3 DEF FillNext
  <2>2. Sound(cells', allCIDRs')
    BY <2>1, FillSound
  <2>3. Tail(todo) \in Seq(CIDRs \cup BadStrings)
    BY <1>3 DEF FillNext, Idle
  <2> QED BY <1>1, <1>3, <2>1, <2>2, <2>3 DEF FillNext
<1>4. CASE FillRejected
  <2>1. Tail(todo) \in Seq(CIDRs \cup BadStrings)
    BY <1>4 DEF FillRejected, Idle
  <2> QED BY <1>1, <1>4, <2>1 DEF FillRejected
<1>5. CASE Prune
  <2>1. Sound(cells', allCIDRs')
    BY <1>5, PruneSound
  <2> QED BY <1>1, <1>5, <2>1 DEF Prune
<1>6. CASE Tick
  BY <1>1, <1>6 DEF Tick
<1>7. CASE UNCHANGED vars
  BY <1>1, <1>7 DEF vars
<1> QED BY <1>2, <1>3, <1>4, <1>5, <1>6, <1>7 DEF Next

(* Every variable keeps its type.                                          *)
THEOREM TypeCorrect == Spec => []TypeOK
<1>1. JailInv => TypeOK
  BY DEF JailInv
<1> QED BY <1>1, InitJailInv, NextJailInv, PTL DEF Spec

(* No sequence of detections, expiries, absorptions and prunings leaves    *)
(* two related ranges in the jail.                                         *)
THEOREM AntichainHolds == Spec => []Antichain
<1>1. JailInv => Antichain
  BY AntichainIsNoOverlap DEF JailInv, Sound
<1> QED BY <1>1, InitJailInv, NextJailInv, PTL DEF Spec

(* AllCIDRs always names each resident range once and nothing else.        *)
THEOREM AllCIDRsExactHolds == Spec => []AllCIDRsExact
<1>1. JailInv => AllCIDRsExact
  BY AllCIDRsExactIsListing DEF JailInv, Sound, TypeOK
<1> QED BY <1>1, InitJailInv, NextJailInv, PTL DEF Spec

----------------------------------------------------------------------------
(* Bans: flags are truthful, detections are banned, running bans are held  *)
(* and escalation is remembered.  Every step that is not a refresh or a    *)
(* Prune takes slots S out, and puts one prisoner in that covers what it   *)
(* took, no shallower and under an active ban (Grown).                     *)

Covers(q, r) == q = r \/ Within(r, q)

(* Some prisoner of the ladder cs, in cell c or deeper, covers r.          *)
Held(cs, r, c, needActive) ==
  \E d \in Cells : \E j \in DOMAIN cs[d] :
    /\ d >= c
    /\ Covers(cs[d][j].cidr, r)
    /\ needActive => cs[d][j].active

(* ActiveFlagsSound, as a predicate of the cells alone.                    *)
Truthful(cs, t, u) ==
  \A d \in Cells : \A j \in DOMAIN cs[d] :
    IF cs[d][j].active THEN u <= cs[d][j].start + BanDuration[d]
                       ELSE t > cs[d][j].start + BanDuration[d]

(* The ladder ds is the cells without S and with p in cell c.              *)
Grown(ds, S, c, p) ==
  /\ \A d \in Cells : \A i \in DOMAIN cells[d] :
       <<d, i>> \notin S => \E j \in DOMAIN ds[d] : ds[d][j] = cells[d][i]
  /\ \A d \in Cells : \A j \in DOMAIN ds[d] :
       \/ d = c /\ ds[d][j] = p
       \/ \E i \in DOMAIN cells[d] : ds[d][j] = cells[d][i]
  /\ \E j \in DOMAIN ds[c] : ds[c][j] = p

LEMMA CoversTransitive ==
  ASSUME NEW p \in CIDRs, NEW q \in CIDRs, NEW r \in CIDRs, Covers(p, q), Covers(q, r)
  PROVE  Covers(p, r)
BY WithinTransitive DEF Covers

----------------------------------------------------------------------------
(* The operations that grow the ladder.                                    *)

(* The ladder ds is cs with p appended to cell c.                          *)
Appended(cs, ds, c, p) ==
  /\ \A d \in Cells : \A i \in DOMAIN cs[d] : i \in DOMAIN ds[d] /\ ds[d][i] = cs[d][i]
  /\ \A d \in Cells : \A j \in DOMAIN ds[d] :
       \/ d = c /\ ds[d][j] = p
       \/ j \in DOMAIN cs[d] /\ ds[d][j] = cs[d][j]
  /\ \E j \in DOMAIN ds[c] : ds[c][j] = p

(* The ladder R is the cells without the slots S.                          *)
Without(S, R) ==
  /\ \A d \in Cells : \A k \in DOMAIN R[d] : \E i \in DOMAIN cells[d] : R[d][k] = cells[d][i]
  /\ \A d \in Cells : \A i \in DOMAIN cells[d] :
       <<d, i>> \notin S => \E k \in DOMAIN R[d] : R[d][k] = cells[d][i]

LEMMA ThrowAppends ==
  ASSUME NEW cs, IsLadder(cs), NEW c \in Cells, NEW r, NEW t
  PROVE  Appended(cs, Throw(cs, c, r, t), c, Jailed(r, t))
<1> DEFINE p == Jailed(r, t)
           ds == Throw(cs, c, r, t)
<1>0. ds = [cs EXCEPT ![c] = Append(@, p)]
  BY DEF Throw
<1> HIDE DEF p, ds
<1>1. cs[c] \in Seq(Prisoner) /\ ds[c] = Append(cs[c], p)
  BY <1>0 DEF IsLadder
<1>2. \A d \in Cells : d # c => ds[d] = cs[d]
  BY <1>0 DEF IsLadder
<1>3. /\ DOMAIN ds[c] = 1..(Len(cs[c]) + 1) /\ DOMAIN cs[c] = 1..Len(cs[c])
      /\ Len(cs[c]) \in Nat
      /\ ds[c][Len(cs[c]) + 1] = p /\ \A j \in DOMAIN cs[c] : ds[c][j] = cs[c][j]
  BY <1>1
<1>4. \A j \in DOMAIN ds[c] : ds[c][j] = p \/ (j \in DOMAIN cs[c] /\ ds[c][j] = cs[c][j])
  BY <1>3
<1>5. \A i \in DOMAIN cs[c] : i \in DOMAIN ds[c]
  BY <1>3
<1>6. \E j \in DOMAIN ds[c] : ds[c][j] = p
  BY <1>3
<1> QED BY <1>2, <1>3, <1>4, <1>5, <1>6 DEF Appended, p, ds

LEMMA ReleasedWithout ==
  ASSUME IsLadder(cells), NEW S
  PROVE  IsLadder(Released(S)) /\ Without(S, Released(S))
<1>1. IsLadder(Released(S))
  BY ReleasedFacts
<1>2. ASSUME NEW d \in Cells, NEW k \in DOMAIN Released(S)[d]
      PROVE  /\ Origin(S, d, k) \in DOMAIN cells[d]
             /\ Released(S)[d][k] = cells[d][Origin(S, d, k)]
  BY ReleasedFacts
<1>3. ASSUME NEW d \in Cells, NEW i \in DOMAIN cells[d], <<d, i>> \notin S
      PROVE  \E k \in DOMAIN Released(S)[d] : Released(S)[d][k] = cells[d][i]
  <2>1. PICK k \in DOMAIN Released(S)[d] : Origin(S, d, k) = i
    BY <1>3, ReleasedFacts
  <2>2. Released(S)[d][k] = cells[d][i]
    BY <1>2, <2>1
  <2> QED BY <2>2
<1> QED BY <1>1, <1>2, <1>3 DEF Without

LEMMA ThrownGrown ==
  ASSUME IsLadder(cells), NEW S, NEW R, IsLadder(R), Without(S, R),
         NEW c \in Cells, NEW r, NEW t
  PROVE  Grown(Throw(R, c, r, t), S, c, Jailed(r, t))
<1> DEFINE p == Jailed(r, t)
           ds == Throw(R, c, r, t)
<1>1. Appended(R, ds, c, p)
  BY ThrowAppends
<1> HIDE DEF p, ds
<1>2. ASSUME NEW d \in Cells, NEW i \in DOMAIN cells[d], <<d, i>> \notin S
      PROVE  \E j \in DOMAIN ds[d] : ds[d][j] = cells[d][i]
  <2>1. PICK k \in DOMAIN R[d] : R[d][k] = cells[d][i]
    BY <1>2 DEF Without
  <2> QED BY <1>1, <2>1 DEF Appended
<1>3. ASSUME NEW d \in Cells, NEW j \in DOMAIN ds[d], ~ (d = c /\ ds[d][j] = p)
      PROVE  \E i \in DOMAIN cells[d] : ds[d][j] = cells[d][i]
  <2>1. j \in DOMAIN R[d] /\ ds[d][j] = R[d][j]
    BY <1>1, <1>3 DEF Appended
  <2> QED BY <2>1 DEF Without
<1>4. \E j \in DOMAIN ds[c] : ds[c][j] = p
  BY <1>1 DEF Appended
<1> QED BY <1>2, <1>3, <1>4 DEF Grown, ds, p

LEMMA ThrownFromReleased ==
  ASSUME IsLadder(cells), NEW S, NEW c \in Cells, NEW r, NEW t
  PROVE  Grown(Throw(Released(S), c, r, t), S, c, Jailed(r, t))
BY ReleasedWithout, ThrownGrown

LEMMA FreshGrown ==
  ASSUME IsLadder(cells), NEW c \in Cells, NEW r, NEW t
  PROVE  Grown(Throw(cells, c, r, t), {}, c, Jailed(r, t))
<1>1. Without({}, cells)
  BY DEF Without
<1> QED BY <1>1, ThrownGrown

LEMMA MovedGrown ==
  ASSUME IsLadder(cells), now \in Nat, NEW s \in Slots
  PROVE  /\ NextCell(s[1]) \in Cells /\ s[1] <= NextCell(s[1])
         /\ Grown(Moved(s), {s}, NextCell(s[1]), Jailed(At(s).cidr, now))
<1>1. s = <<s[1], s[2]>> /\ s[1] \in Cells /\ s[2] \in DOMAIN cells[s[1]]
  BY SlotFacts
<1>2. CASE s[1] < NumCells
  <2>1. s[1] + 1 \in Cells /\ Moved(s) = Throw(Released({s}), s[1] + 1, At(s).cidr, now)
    BY <1>2, MovedIsThrown
  <2>2. Grown(Moved(s), {s}, s[1] + 1, Jailed(At(s).cidr, now))
    BY <2>1, ThrownFromReleased
  <2> QED BY <1>1, <1>2, <2>1, <2>2 DEF NextCell, Cells
<1>3. CASE ~ (s[1] < NumCells)
  <2>1. NextCell(s[1]) = s[1]
    BY <1>3 DEF NextCell
  <2>2. /\ \A c \in Cells : DOMAIN Moved(s)[c] = DOMAIN cells[c]
        /\ \A c \in Cells : \A i \in DOMAIN cells[c] :
             Moved(s)[c][i] = IF <<c, i>> = s THEN Renewed(At(s)) ELSE cells[c][i]
    BY <1>3, MovedInPlace
  <2>3. Renewed(At(s)) = Jailed(At(s).cidr, now)
    BY DEF Renewed
  <2>4. ASSUME NEW d \in Cells, NEW i \in DOMAIN cells[d]
        PROVE  <<d, i>> = s => d = s[1]
    OBVIOUS
  <2>5. s[2] \in DOMAIN Moved(s)[s[1]]
        /\ Moved(s)[s[1]][s[2]] = Jailed(At(s).cidr, now)
    BY <1>1, <2>2, <2>3
  <2> QED BY <1>1, <2>1, <2>2, <2>3, <2>4, <2>5 DEF Grown, Cells
<1> QED BY <1>2, <1>3

----------------------------------------------------------------------------
(* What a grown ladder keeps.                                              *)

LEMMA GrownKeeps ==
  ASSUME IsLadder(cells), NEW ds, NEW S \in SUBSET Slots, NEW c \in Cells, NEW q, NEW t,
         Grown(ds, S, c, Jailed(q, t)),
         \A s \in S : s[1] <= c /\ Covers(q, At(s).cidr)
  PROVE  /\ \A s \in Slots : Held(ds, At(s).cidr, s[1], At(s).active)
         /\ \A r : Covers(q, r) => Held(ds, r, 1, TRUE)
<1>1. Jailed(q, t).cidr = q /\ Jailed(q, t).active
  BY DEF Jailed
<1>2. PICK m \in DOMAIN ds[c] : ds[c][m] = Jailed(q, t)
  BY DEF Grown
<1>3. ASSUME NEW s \in Slots PROVE Held(ds, At(s).cidr, s[1], At(s).active)
  <2>1. /\ s = <<s[1], s[2]>> /\ s[1] \in Cells /\ s[2] \in DOMAIN cells[s[1]]
        /\ At(s) = cells[s[1]][s[2]]
    BY SlotFacts
  <2>2. CASE s \in S
    <3>1. c >= s[1] /\ Covers(ds[c][m].cidr, At(s).cidr) /\ ds[c][m].active
      BY <1>1, <1>2, <2>1, <2>2 DEF Cells
    <3> QED BY <3>1 DEF Held
  <2>3. CASE s \notin S
    <3>1. PICK j \in DOMAIN ds[s[1]] : ds[s[1]][j] = At(s)
      BY <2>1, <2>3 DEF Grown
    <3>2. s[1] >= s[1]
      BY <2>1 DEF Cells
    <3> QED BY <2>1, <3>1, <3>2 DEF Held, Covers
  <2> QED BY <2>2, <2>3
<1>4. ASSUME NEW r, Covers(q, r) PROVE Held(ds, r, 1, TRUE)
  <2>1. c >= 1
    BY DEF Cells
  <2> QED BY <1>1, <1>2, <1>4, <2>1 DEF Held
<1> QED BY <1>3, <1>4

LEMMA GrownTruthful ==
  ASSUME NEW ds, NEW S, NEW c \in Cells, NEW q, NEW t,
         Grown(ds, S, c, Jailed(q, t)), Truthful(cells, now, refreshed),
         refreshed <= t + BanDuration[c]
  PROVE  Truthful(ds, now, refreshed)
<1>1. Jailed(q, t).start = t /\ Jailed(q, t).active = TRUE
  BY DEF Jailed
<1> SUFFICES ASSUME NEW d \in Cells, NEW j \in DOMAIN ds[d]
             PROVE  IF ds[d][j].active THEN refreshed <= ds[d][j].start + BanDuration[d]
                                       ELSE now > ds[d][j].start + BanDuration[d]
  BY DEF Truthful
<1>2. CASE d = c /\ ds[d][j] = Jailed(q, t)
  BY <1>1, <1>2
<1>3. CASE \E i \in DOMAIN cells[d] : ds[d][j] = cells[d][i]
  BY <1>3 DEF Truthful
<1> QED BY <1>2, <1>3 DEF Grown

----------------------------------------------------------------------------
(* The steps.                                                              *)

(* What a step that fills the range r leaves behind.                       *)
Kept(ds) == \A s \in Slots : Held(ds, At(s).cidr, s[1], At(s).active)
Filled(ds, r) == Kept(ds) /\ Held(ds, r, 1, TRUE) /\ Truthful(ds, now, refreshed)

LEMMA SameKeeps ==
  ASSUME IsLadder(cells)
  PROVE  Kept(cells)
<1> SUFFICES ASSUME NEW s \in Slots PROVE Held(cells, At(s).cidr, s[1], At(s).active)
  BY DEF Kept
<1>1. /\ s[1] \in Cells /\ s[2] \in DOMAIN cells[s[1]]
      /\ At(s) = cells[s[1]][s[2]]
  BY SlotFacts
<1>2. s[1] >= s[1]
  BY <1>1 DEF Cells
<1> QED BY <1>1, <1>2 DEF Held, Covers

LEMMA RedetectFills ==
  ASSUME IsLadder(cells), now \in Nat, refreshed \in Nat, refreshed <= now,
         Truthful(cells, now, refreshed),
         NEW s \in Slots, Redetect(s), NEW r, Covers(At(s).cidr, r)
  PROVE  Filled(cells', r)
<1>1. CASE At(s).active
  <2>1. cells' = cells
    BY <1>1 DEF Redetect
  <2>2. /\ s[1] \in Cells /\ s[2] \in DOMAIN cells[s[1]]
        /\ At(s) = cells[s[1]][s[2]]
    BY SlotFacts
  <2>3. Held(cells, r, 1, TRUE)
    BY <1>1, <2>2 DEF Held, Cells
  <2> QED BY <2>1, <2>3, SameKeeps DEF Filled
<1>2. CASE ~ At(s).active
  <2> DEFINE c == NextCell(s[1])
             q == At(s).cidr
  <2>1. cells' = Moved(s)
    BY <1>2 DEF Redetect
  <2>2. c \in Cells /\ s[1] <= c /\ Grown(Moved(s), {s}, c, Jailed(q, now))
    BY MovedGrown
  <2>3. \A u \in {s} : u[1] <= c /\ Covers(q, At(u).cidr)
    BY <2>2 DEF Covers
  <2>4. refreshed <= now + BanDuration[c]
    BY <2>2, BanDurationAssumption
  <2>5. {s} \in SUBSET Slots /\ Covers(q, r)
    OBVIOUS
  <2> HIDE DEF c, q
  <2>6. /\ \A u \in Slots : Held(Moved(s), At(u).cidr, u[1], At(u).active)
        /\ Held(Moved(s), r, 1, TRUE)
    BY <2>2, <2>3, <2>5, GrownKeeps
  <2>7. Truthful(Moved(s), now, refreshed)
    BY <2>2, <2>4, GrownTruthful
  <2> QED BY <2>1, <2>6, <2>7 DEF Filled, Kept
<1> QED BY <1>1, <1>2

LEMMA AbsorbFills ==
  ASSUME IsLadder(cells), now \in Nat, refreshed \in Nat, refreshed <= now,
         Truthful(cells, now, refreshed), NEW r \in CIDRs, FillAbsorb(r)
  PROVE  Filled(cells', r)
<1> DEFINE S == SubRanges(r)
<1>1. S \in SUBSET Slots /\ S # {} /\ \A s \in S : Covers(r, At(s).cidr)
  BY DEF FillAbsorb, SubRanges, Covers
<1>2. /\ Deepest(S) \in Cells /\ \A s \in S : s[1] <= Deepest(S)
      /\ NextCell(Deepest(S)) \in Cells /\ Deepest(S) <= NextCell(Deepest(S))
  BY <1>1, DeepestFacts
<1>3. \E c \in Cells, t \in Nat :
        /\ cells' = Throw(Released(S), c, r, t)
        /\ Deepest(S) <= c
        /\ refreshed <= t + BanDuration[c]
  <2>1. CASE Carried(S) = {}
    <3>1. cells' = Throw(Released(S), NextCell(Deepest(S)), r, now)
      BY <2>1 DEF FillAbsorb, Absorbed
    <3>2. refreshed <= now + BanDuration[NextCell(Deepest(S))]
      BY <1>2, BanDurationAssumption
    <3> QED BY <1>2, <3>1, <3>2
  <2>2. CASE Carried(S) # {}
    <3> DEFINE f == FirstSlot(Carried(S))
    <3>1. Carried(S) \in SUBSET Slots
      BY <1>1 DEF Carried
    <3>2. f \in Carried(S)
      BY <2>2, <3>1, FirstSlotFacts
    <3>3. f \in Slots /\ f[1] = Deepest(S) /\ At(f).active
      BY <3>1, <3>2 DEF Carried
    <3>4. /\ f[1] \in Cells /\ f[2] \in DOMAIN cells[f[1]]
          /\ At(f) \in Prisoner /\ At(f) = cells[f[1]][f[2]]
      BY <3>3, SlotFacts
    <3>5. cells' = Throw(Released(S), Deepest(S), r, At(f).start)
      BY <2>2 DEF FillAbsorb, Absorbed
    <3>6. refreshed <= At(f).start + BanDuration[Deepest(S)]
      BY <3>3, <3>4 DEF Truthful
    <3>7. At(f).start \in Nat /\ Deepest(S) <= Deepest(S)
      BY <1>2, <3>4 DEF Prisoner, Cells
    <3> QED BY <1>2, <3>5, <3>6, <3>7
  <2> QED BY <2>1, <2>2
<1> HIDE DEF S
<1>4. PICK c \in Cells, t \in Nat :
        /\ cells' = Throw(Released(S), c, r, t)
        /\ Deepest(S) <= c
        /\ refreshed <= t + BanDuration[c]
  BY <1>3
<1>5. Grown(cells', S, c, Jailed(r, t))
  BY <1>4, ThrownFromReleased
<1>6. \A s \in S : s[1] <= c /\ Covers(r, At(s).cidr)
  <2> SUFFICES ASSUME NEW s \in S PROVE s[1] <= c
    BY <1>1
  <2>1. s[1] \in Cells
    BY <1>1, SlotFacts
  <2> QED BY <1>2, <1>4, <2>1 DEF Cells
<1>7. Covers(r, r)
  BY DEF Covers
<1>8. Kept(cells') /\ Held(cells', r, 1, TRUE)
  BY <1>1, <1>5, <1>6, <1>7, GrownKeeps DEF Kept
<1>9. Truthful(cells', now, refreshed)
  BY <1>4, <1>5, GrownTruthful
<1> QED BY <1>8, <1>9 DEF Filled

LEMMA FreshFills ==
  ASSUME IsLadder(cells), now \in Nat, refreshed \in Nat, refreshed <= now,
         Truthful(cells, now, refreshed), NEW r \in CIDRs, FillFresh(r)
  PROVE  Filled(cells', r)
<1>1. 1 \in Cells /\ cells' = Throw(cells, 1, r, now)
  BY NumCellsAssumption DEF FillFresh, Cells
<1>2. Grown(cells', {}, 1, Jailed(r, now))
  BY <1>1, FreshGrown
<1>3. refreshed <= now + BanDuration[1]
  BY <1>1, BanDurationAssumption
<1>4. Covers(r, r)
  BY DEF Covers
<1>5. Kept(cells') /\ Held(cells', r, 1, TRUE)
  <2>1. {} \in SUBSET Slots /\ \A s \in {} : s[1] <= 1 /\ Covers(r, At(s).cidr)
    OBVIOUS
  <2> QED BY <1>1, <1>2, <1>4, <2>1, GrownKeeps DEF Kept
<1>6. Truthful(cells', now, refreshed)
  BY <1>1, <1>2, <1>3, GrownTruthful
<1> QED BY <1>5, <1>6 DEF Filled

LEMMA FillFills ==
  ASSUME IsLadder(cells), now \in Nat, refreshed \in Nat, refreshed <= now,
         Truthful(cells, now, refreshed), NEW r \in CIDRs, Fill(r)
  PROVE  Filled(cells', r)
<1>1. CASE FillResident(r)
  <2>1. SameRange(r) \in SUBSET Slots /\ SameRange(r) # {}
    BY <1>1 DEF FillResident, SameRange
  <2>2. FirstSlot(SameRange(r)) \in SameRange(r)
    BY <2>1, FirstSlotFacts
  <2>3. Covers(At(FirstSlot(SameRange(r))).cidr, r)
    BY <2>2 DEF SameRange, Covers
  <2> QED BY <1>1, <2>1, <2>2, <2>3, RedetectFills DEF FillResident
<1>2. CASE FillAbsorb(r)
  BY <1>2, AbsorbFills
<1>3. CASE FillCovered(r)
  <2>1. ParentRanges(r) \in SUBSET Slots /\ ParentRanges(r) # {}
    BY <1>3 DEF FillCovered, ParentRanges
  <2>2. FirstSlot(ParentRanges(r)) \in ParentRanges(r)
    BY <2>1, FirstSlotFacts
  <2>3. Covers(At(FirstSlot(ParentRanges(r))).cidr, r)
    BY <2>2 DEF ParentRanges, Covers
  <2> QED BY <1>3, <2>1, <2>2, <2>3, RedetectFills DEF FillCovered
<1>4. CASE FillFresh(r)
  BY <1>4, FreshFills
<1> QED BY <1>1, <1>2, <1>3, <1>4 DEF Fill

(* A refresh clears the flags of the bans that are over, and no others.    *)
LEMMA RefreshFacts ==
  ASSUME IsLadder(cells), now \in Nat, NEW u, Truthful(cells, now, u)
  PROVE  /\ Truthful(Refreshed, now, now)
         /\ \A s \in Slots :
              Held(Refreshed, At(s).cidr, s[1], At(s).active /\ now <= Expiry(s))
<1>1. /\ \A c \in Cells : DOMAIN Refreshed[c] = DOMAIN cells[c]
      /\ \A c \in Cells : \A i \in DOMAIN cells[c] :
           Refreshed[c][i] = IF BanIsOver(<<c, i>>)
                             THEN [cells[c][i] EXCEPT !.active = FALSE]
                             ELSE cells[c][i]
  BY RefreshedFacts
<1>2. ASSUME NEW c \in Cells, NEW i \in DOMAIN cells[c]
      PROVE  /\ cells[c][i] \in Prisoner
             /\ BanIsOver(<<c, i>>) <=> now > cells[c][i].start + BanDuration[c]
             /\ Refreshed[c][i].cidr = cells[c][i].cidr
             /\ Refreshed[c][i].start = cells[c][i].start
             /\ Refreshed[c][i].active <=> cells[c][i].active /\ ~ BanIsOver(<<c, i>>)
  <2>1. cells[c][i] \in Prisoner
    BY DEF IsLadder
  <2>2. BanIsOver(<<c, i>>) <=> now - cells[c][i].start > BanDuration[c]
    BY DEF BanIsOver, At
  <2>3. cells[c][i].start \in Nat /\ BanDuration[c] \in Nat
    BY <2>1, BanDurationAssumption DEF Prisoner
  <2>4. CASE BanIsOver(<<c, i>>)
    <3>1. Refreshed[c][i] = [cells[c][i] EXCEPT !.active = FALSE]
      BY <1>1, <2>4
    <3> QED BY <2>1, <2>2, <2>3, <2>4, <3>1 DEF Prisoner
  <2>5. CASE ~ BanIsOver(<<c, i>>)
    <3>1. Refreshed[c][i] = cells[c][i]
      BY <1>1, <2>5
    <3> QED BY <2>1, <2>2, <2>3, <2>5, <3>1
  <2> QED BY <2>4, <2>5
<1>3. Truthful(Refreshed, now, now)
  <2> SUFFICES ASSUME NEW d \in Cells, NEW j \in DOMAIN cells[d]
               PROVE  IF Refreshed[d][j].active
                      THEN now <= Refreshed[d][j].start + BanDuration[d]
                      ELSE now > Refreshed[d][j].start + BanDuration[d]
    BY <1>1 DEF Truthful
  <2>1. cells[d][j].start \in Nat /\ BanDuration[d] \in Nat
    BY <1>2, BanDurationAssumption DEF Prisoner
  <2>2. ~ cells[d][j].active => now > cells[d][j].start + BanDuration[d]
    BY DEF Truthful
  <2>3. /\ BanIsOver(<<d, j>>) <=> now > cells[d][j].start + BanDuration[d]
        /\ Refreshed[d][j].start = cells[d][j].start
        /\ Refreshed[d][j].active <=> cells[d][j].active /\ ~ BanIsOver(<<d, j>>)
    BY <1>2
  <2>4. CASE Refreshed[d][j].active
    BY <2>1, <2>3, <2>4
  <2>5. CASE ~ Refreshed[d][j].active
    BY <2>1, <2>2, <2>3, <2>5
  <2> QED BY <2>4, <2>5
<1>4. ASSUME NEW s \in Slots
      PROVE  Held(Refreshed, At(s).cidr, s[1], At(s).active /\ now <= Expiry(s))
  <2>1. /\ s[1] \in Cells /\ s[2] \in DOMAIN cells[s[1]] /\ s = <<s[1], s[2]>>
        /\ At(s) = cells[s[1]][s[2]]
    BY SlotFacts
  <2>2. s[2] \in DOMAIN Refreshed[s[1]] /\ Refreshed[s[1]][s[2]].cidr = At(s).cidr
    BY <1>1, <1>2, <2>1
  <2>3. At(s).active /\ now <= Expiry(s) => Refreshed[s[1]][s[2]].active
    <3>1. At(s).start \in Nat /\ BanDuration[s[1]] \in Nat
      BY <1>2, <2>1, BanDurationAssumption DEF Prisoner
    <3> QED BY <1>2, <2>1, <3>1 DEF Expiry
  <2>4. s[1] >= s[1]
    BY <2>1 DEF Cells
  <2> QED BY <2>1, <2>2, <2>3, <2>4 DEF Held, Covers
<1> QED BY <1>3, <1>4

(* Prune takes stale prisoners out, whose bans are over, and no others.    *)
LEMMA PruneFacts ==
  ASSUME IsLadder(cells), Prune
  PROVE  /\ \A s \in Slots : Stale(s) \/ Held(cells', At(s).cidr, s[1], At(s).active)
         /\ Truthful(cells, now, refreshed) => Truthful(cells', now, refreshed)
<1> DEFINE gone == {s \in Slots : Stale(s)}
<1>1. Without(gone, cells')
  BY ReleasedWithout DEF Prune
<1>2. ASSUME NEW s \in Slots, ~ Stale(s)
      PROVE  Held(cells', At(s).cidr, s[1], At(s).active)
  <2>1. /\ s[1] \in Cells /\ s[2] \in DOMAIN cells[s[1]] /\ s = <<s[1], s[2]>>
        /\ At(s) = cells[s[1]][s[2]]
    BY SlotFacts
  <2>2. <<s[1], s[2]>> \notin gone
    BY <1>2, <2>1
  <2>3. PICK k \in DOMAIN cells'[s[1]] : cells'[s[1]][k] = cells[s[1]][s[2]]
    BY <1>1, <2>1, <2>2 DEF Without
  <2>4. s[1] >= s[1]
    BY <2>1 DEF Cells
  <2> QED BY <2>1, <2>3, <2>4 DEF Held, Covers
<1>3. ASSUME Truthful(cells, now, refreshed)
      PROVE  Truthful(cells', now, refreshed)
  BY <1>1, <1>3 DEF Truthful, Without
<1> QED BY <1>2, <1>3

----------------------------------------------------------------------------
(* The invariant.                                                          *)

BanInv ==
  /\ JailInv
  /\ refreshed <= now
  /\ Truthful(cells, now, refreshed)
  /\ \A r \in filled : Held(cells, r, 1, TRUE)

LEMMA InitBanInv == Init => BanInv
<1> SUFFICES ASSUME Init PROVE BanInv
  OBVIOUS
<1>1. \A c \in Cells : DOMAIN cells[c] = {}
  BY DEF Init
<1> QED BY <1>1, InitJailInv DEF BanInv, Truthful, Init

(* What covers a range under an active ban goes on covering it.            *)
LEMMA HeldByKept ==
  ASSUME IsLadder(cells), IsLadder(cells'),
         \A s \in Slots : At(s).active => Held(cells', At(s).cidr, s[1], TRUE),
         NEW r \in CIDRs, Held(cells, r, 1, TRUE)
  PROVE  Held(cells', r, 1, TRUE)
<1>1. PICK d, j : d \in Cells /\ j \in DOMAIN cells[d] /\
        Covers(cells[d][j].cidr, r) /\ cells[d][j].active
  BY DEF Held
<1>2. <<d, j>> \in Slots /\ At(<<d, j>>) = cells[d][j]
  BY <1>1, SlotOf
<1>3. Held(cells', cells[d][j].cidr, d, TRUE)
  <2>1. Held(cells', At(<<d, j>>).cidr, <<d, j>>[1], TRUE)
    BY <1>1, <1>2
  <2> QED BY <1>2, <2>1
<1>4. PICK e, k : e \in Cells /\ k \in DOMAIN cells'[e] /\
        Covers(cells'[e][k].cidr, cells[d][j].cidr) /\ cells'[e][k].active
  BY <1>3 DEF Held
<1>5. cells[d][j].cidr \in CIDRs /\ cells'[e][k].cidr \in CIDRs
  <2>1. cells[d][j] \in Prisoner /\ cells'[e][k] \in Prisoner
    BY <1>1, <1>4 DEF IsLadder
  <2> QED BY <2>1 DEF Prisoner
<1>6. Covers(cells'[e][k].cidr, r)
  BY <1>1, <1>4, <1>5, CoversTransitive
<1> QED BY <1>4, <1>6 DEF Held, Cells

(* What a ladder holds it holds after a step that keeps its prisoners.     *)
LEMMA HeldOn ==
  ASSUME IsLadder(cells), IsLadder(cells'), Kept(cells'),
         NEW r \in CIDRs, NEW c \in Cells, NEW b, Held(cells, r, c, b)
  PROVE  Held(cells', r, c, b)
<1>1. PICK d, j : d \in Cells /\ j \in DOMAIN cells[d] /\ d >= c /\
        Covers(cells[d][j].cidr, r) /\ (b => cells[d][j].active)
  BY DEF Held
<1>2. <<d, j>> \in Slots /\ At(<<d, j>>) = cells[d][j]
  BY <1>1, SlotOf
<1>3. Held(cells', cells[d][j].cidr, d, cells[d][j].active)
  <2>1. Held(cells', At(<<d, j>>).cidr, <<d, j>>[1], At(<<d, j>>).active)
    BY <1>2 DEF Kept
  <2> QED BY <1>2, <2>1
<1>4. PICK e, k : e \in Cells /\ k \in DOMAIN cells'[e] /\ e >= d /\
        Covers(cells'[e][k].cidr, cells[d][j].cidr) /\
        (cells[d][j].active => cells'[e][k].active)
  BY <1>3 DEF Held
<1>5. cells[d][j].cidr \in CIDRs /\ cells'[e][k].cidr \in CIDRs
  <2>1. cells[d][j] \in Prisoner /\ cells'[e][k] \in Prisoner
    BY <1>1, <1>4 DEF IsLadder
  <2> QED BY <2>1 DEF Prisoner
<1>6. Covers(cells'[e][k].cidr, r)
  BY <1>1, <1>4, <1>5, CoversTransitive
<1>7. e >= c
  BY <1>1, <1>4 DEF Cells
<1> QED BY <1>1, <1>4, <1>6, <1>7 DEF Held

(* Every active ban was active at the start of time.                       *)
LEMMA TruthfulLapses ==
  ASSUME NEW cs, IsLadder(cs), NEW t, NEW u \in Nat, Truthful(cs, t, u)
  PROVE  Truthful(cs, t, 0)
<1> SUFFICES ASSUME NEW d \in Cells, NEW j \in DOMAIN cs[d], cs[d][j].active
             PROVE  0 <= cs[d][j].start + BanDuration[d]
  BY DEF Truthful
<1>1. cs[d][j] \in Prisoner
  BY DEF IsLadder
<1> QED BY <1>1, BanDurationAssumption DEF Prisoner

(* A ban that was over stays so.                                           *)
LEMMA TruthfulLater ==
  ASSUME NEW cs, IsLadder(cs), now \in Nat, NEW t \in Nat, now <= t,
         NEW u, Truthful(cs, now, u)
  PROVE  Truthful(cs, t, u)
<1> SUFFICES ASSUME NEW d \in Cells, NEW j \in DOMAIN cs[d], ~ cs[d][j].active
             PROVE  t > cs[d][j].start + BanDuration[d]
  BY DEF Truthful
<1>1. cs[d][j] \in Prisoner
  BY DEF IsLadder
<1>2. now > cs[d][j].start + BanDuration[d]
  BY DEF Truthful
<1> QED BY <1>1, <1>2, BanDurationAssumption DEF Prisoner

LEMMA NextBanInv == BanInv /\ [Next]_vars => BanInv'
<1> SUFFICES ASSUME BanInv, [Next]_vars PROVE BanInv'
  OBVIOUS
<1>1. JailInv'
  BY NextJailInv DEF BanInv
<1>2. IsLadder(cells) /\ IsLadder(cells') /\ now \in Nat /\ refreshed \in Nat
  BY <1>1 DEF BanInv, JailInv, TypeOK, Sound
<1>3. filled \subseteq CIDRs
  BY DEF BanInv, JailInv, TypeOK
<1>4. ASSUME NEW batch \in Batches, BeginUpdate(batch) PROVE BanInv'
  <2>1. Truthful(cells', now', refreshed')
    BY <1>2, <1>4, RefreshFacts DEF BanInv, BeginUpdate
  <2> QED BY <1>1, <1>2, <1>4, <2>1 DEF BanInv, BeginUpdate
<1>5. CASE FillNext
  <2> DEFINE r == Head(todo)
  <2>1. r \in CIDRs /\ Fill(r) /\ filled' = filled \cup {r} /\ UNCHANGED <<now, refreshed>>
    BY <1>5 DEF FillNext
  <2> HIDE DEF r
  <2>2. Filled(cells', r)
    BY <1>2, <2>1, FillFills DEF BanInv
  <2>3. \A s \in Slots : At(s).active => Held(cells', At(s).cidr, s[1], TRUE)
    <3> SUFFICES ASSUME NEW s \in Slots, At(s).active
                 PROVE  Held(cells', At(s).cidr, s[1], TRUE)
      OBVIOUS
    <3>1. Held(cells', At(s).cidr, s[1], At(s).active)
      BY <2>2 DEF Filled, Kept
    <3> QED BY <3>1 DEF Held
  <2>4. \A q \in filled : Held(cells', q, 1, TRUE)
    BY <1>2, <1>3, <2>3, HeldByKept DEF BanInv
  <2> QED BY <1>1, <2>1, <2>2, <2>4 DEF BanInv, Filled
<1>6. CASE FillRejected
  BY <1>1, <1>6 DEF FillRejected, BanInv
<1>7. CASE Prune
  <2>1. Truthful(cells', now, refreshed) /\ UNCHANGED <<now, refreshed, filled>>
    BY <1>2, <1>7, PruneFacts DEF BanInv, Prune
  <2>2. \A s \in Slots : At(s).active => Held(cells', At(s).cidr, s[1], TRUE)
    <3> SUFFICES ASSUME NEW s \in Slots, At(s).active
                 PROVE  Held(cells', At(s).cidr, s[1], TRUE)
      OBVIOUS
    <3>1. Held(cells', At(s).cidr, s[1], At(s).active)
      BY <1>2, <1>7, PruneFacts DEF Stale
    <3> QED BY <3>1 DEF Held
  <2>3. \A q \in filled : Held(cells', q, 1, TRUE)
    BY <1>2, <1>3, <2>2, HeldByKept DEF BanInv
  <2> QED BY <1>1, <2>1, <2>3 DEF BanInv
<1>8. CASE Tick
  <2>1. now' = now + 1 /\ UNCHANGED <<cells, refreshed, filled>>
    BY <1>8 DEF Tick
  <2>2. Truthful(cells', now', refreshed')
    <3> SUFFICES ASSUME NEW d \in Cells, NEW j \in DOMAIN cells[d],
                        ~ cells[d][j].active
                 PROVE  now + 1 > cells[d][j].start + BanDuration[d]
      BY <2>1 DEF BanInv, Truthful
    <3>1. cells[d][j] \in Prisoner
      BY <1>2 DEF IsLadder
    <3>2. cells[d][j].start \in Nat /\ BanDuration[d] \in Nat
      BY <3>1, BanDurationAssumption DEF Prisoner
    <3>3. now > cells[d][j].start + BanDuration[d]
      BY DEF BanInv, Truthful
    <3> QED BY <1>2, <3>2, <3>3
  <2>3. refreshed' <= now'
    BY <1>2, <2>1 DEF BanInv
  <2> QED BY <1>1, <2>1, <2>2, <2>3 DEF BanInv
<1>9. CASE UNCHANGED vars
  BY <1>1, <1>9 DEF vars, BanInv
<1> QED BY <1>4, <1>5, <1>6, <1>7, <1>8, <1>9 DEF Next

LEMMA BanInvHolds == Spec => []BanInv
  BY InitBanInv, NextBanInv, PTL DEF Spec

(* The flags that the ban file trusts are truthful, for every sequence of  *)
(* detections, moves, absorptions and renewals.                            *)
THEOREM ActiveFlagsSoundHolds == Spec => []ActiveFlagsSound
<1>1. BanInv => ActiveFlagsSound
  <2> SUFFICES ASSUME BanInv, NEW s \in Slots
               PROVE  IF At(s).active THEN refreshed <= Expiry(s) ELSE now > Expiry(s)
    BY DEF ActiveFlagsSound
  <2>1. /\ s[1] \in Cells /\ s[2] \in DOMAIN cells[s[1]]
        /\ At(s) = cells[s[1]][s[2]]
    BY SlotFacts DEF BanInv, JailInv, Sound
  <2> QED BY <2>1 DEF BanInv, Truthful, Expiry
<1> QED BY <1>1, BanInvHolds, PTL

(* Every detected range is covered by an active ban until the next update. *)
THEOREM DetectedIsBannedHolds == Spec => []DetectedIsBanned
<1>1. BanInv => DetectedIsBanned
  <2> SUFFICES ASSUME BanInv, NEW r \in filled
               PROVE  \E s \in Slots : /\ At(s).active
                                       /\ At(s).cidr = r \/ Within(r, At(s).cidr)
    BY DEF DetectedIsBanned
  <2>1. PICK d, j : d \in Cells /\ j \in DOMAIN cells[d] /\
          Covers(cells[d][j].cidr, r) /\ cells[d][j].active
    BY DEF BanInv, Held
  <2>2. <<d, j>> \in Slots /\ At(<<d, j>>) = cells[d][j]
    BY <2>1, SlotOf
  <2> QED BY <2>1, <2>2 DEF Covers
<1> QED BY <1>1, BanInvHolds, PTL

----------------------------------------------------------------------------
(* The properties of a step.                                               *)

Remembers == \A s \in Slots : Stale(s) \/ HeldNext(At(s).cidr, s[1], FALSE)

(* The ban at slot s is in the ladder ds as it was, or one there takes over. *)
Same(ds, s) == \E j \in DOMAIN ds[s[1]] : ds[s[1]][j] = At(s)
TakenOver(ds, s) ==
  \E d \in Cells : \E j \in DOMAIN ds[d] :
    /\ Within(At(s).cidr, ds[d][j].cidr)
    /\ ds[d][j].active
    /\ TakesOver(ds[d][j], d)

Runs(s) == At(s).active /\ now <= Expiry(s)
Holds == \A s \in Slots : Runs(s) => Same(cells', s) \/ TakenOver(cells', s)

(* A step that keeps each prisoner that is not stale.                      *)
LEMMA KeepingStep ==
  ASSUME IsLadder(cells),
         \A s \in Slots : Stale(s) \/ \E b \in BOOLEAN : Held(cells', At(s).cidr, s[1], b)
  PROVE  Remembers
<1> SUFFICES ASSUME NEW s \in Slots, ~ Stale(s)
             PROVE  HeldNext(At(s).cidr, s[1], FALSE)
  BY DEF Remembers
<1>1. PICK b \in BOOLEAN : Held(cells', At(s).cidr, s[1], b)
  OBVIOUS
<1> QED BY <1>1 DEF Held, HeldNext, Covers

LEMMA StepRemembers == BanInv /\ [Next]_vars => Remembers
<1> SUFFICES ASSUME BanInv, [Next]_vars PROVE Remembers
  OBVIOUS
<1>1. IsLadder(cells) /\ now \in Nat /\ refreshed \in Nat /\ refreshed <= now
      /\ Truthful(cells, now, refreshed)
  BY DEF BanInv, JailInv, TypeOK, Sound
<1>2. ASSUME NEW batch \in Batches, BeginUpdate(batch) PROVE Remembers
  <2>1. \A s \in Slots : Held(cells', At(s).cidr, s[1], At(s).active /\ now <= Expiry(s))
    BY <1>1, <1>2, RefreshFacts DEF BeginUpdate
  <2> QED BY <1>1, <2>1, KeepingStep
<1>3. ASSUME \A s \in Slots : Stale(s) \/ Held(cells', At(s).cidr, s[1], At(s).active)
      PROVE  Remembers
  <2>1. \A s \in Slots : At(s).active \in BOOLEAN
    BY <1>1, SlotFacts DEF Prisoner
  <2> QED BY <1>1, <1>3, <2>1, KeepingStep
<1>4. CASE FillNext
  <2>1. Head(todo) \in CIDRs /\ Fill(Head(todo))
    BY <1>4 DEF FillNext
  <2>2. Filled(cells', Head(todo))
    BY <1>1, <2>1, FillFills
  <2> QED BY <1>3, <2>2 DEF Filled, Kept
<1>5. CASE Prune
  BY <1>1, <1>3, <1>5, PruneFacts
<1>6. CASE UNCHANGED cells
  <2>1. Kept(cells')
    BY <1>1, <1>6, SameKeeps
  <2> QED BY <1>3, <2>1 DEF Kept
<1>7. CASE FillRejected \/ Tick \/ UNCHANGED vars
  BY <1>6, <1>7 DEF FillRejected, Tick, vars
<1> QED BY <1>2, <1>4, <1>5, <1>7 DEF Next

----------------------------------------------------------------------------
(* What becomes of running bans.                                           *)

(* A grown ladder has all the prisoners that were not taken out.           *)
LEMMA GrownSame ==
  ASSUME IsLadder(cells), NEW ds, NEW S, NEW c, NEW p, Grown(ds, S, c, p),
         NEW s \in Slots, s \notin S
  PROVE  Same(ds, s)
<1>1. s = <<s[1], s[2]>> /\ s[1] \in Cells /\ s[2] \in DOMAIN cells[s[1]]
      /\ At(s) = cells[s[1]][s[2]]
  BY SlotFacts
<1>2. <<s[1], s[2]>> \notin S
  BY <1>1
<1>3. \E j \in DOMAIN ds[s[1]] : ds[s[1]][j] = cells[s[1]][s[2]]
  BY <1>1, <1>2 DEF Grown
<1> QED BY <1>1, <1>3 DEF Same

LEMMA UnchangedSame ==
  ASSUME IsLadder(cells), NEW s \in Slots
  PROVE  Same(cells, s)
BY SlotFacts DEF Same

(* A detection of a resident moves only a ban that is over.                *)
LEMMA RedetectSame ==
  ASSUME IsLadder(cells), now \in Nat, NEW s \in Slots, Redetect(s),
         NEW u \in Slots, At(u).active
  PROVE  Same(cells', u)
<1>1. CASE At(s).active
  BY <1>1, UnchangedSame DEF Redetect
<1>2. CASE ~ At(s).active
  <2>1. cells' = Moved(s)
    BY <1>2 DEF Redetect
  <2>2. Grown(Moved(s), {s}, NextCell(s[1]), Jailed(At(s).cidr, now))
    BY MovedGrown
  <2>3. u \notin {s}
    BY <1>2
  <2>4. Same(Moved(s), u)
    BY <2>2, <2>3, GrownSame
  <2> QED BY <2>1, <2>4
<1> QED BY <1>1, <1>2

(* The carried bans are the heirs: the active ones of the deepest cell.    *)
LEMMA CarriedAreHeirs ==
  ASSUME IsLadder(cells), NEW S \in SUBSET Slots, S # {}
  PROVE  Carried(S) = {u \in S : At(u).active /\ \A t \in S : t[1] <= u[1]}
<1>1. \A s \in S : s[1] \in Cells
  BY SlotFacts
<1>2. Deepest(S) \in Cells /\ \A s \in S : s[1] <= Deepest(S)
  BY DeepestFacts
<1>3. \E s \in S : s[1] = Deepest(S)
  BY DeepestReached
<1>4. ASSUME NEW u \in S PROVE u[1] = Deepest(S) <=> \A t \in S : t[1] <= u[1]
  BY <1>1, <1>2, <1>3, <1>4 DEF Cells
<1> QED BY <1>4 DEF Carried

(* The range that absorbs others takes over.                               *)
LEMMA AbsorbTakesOver ==
  ASSUME IsLadder(cells), now \in Nat, NEW r \in CIDRs, FillAbsorb(r)
  PROVE  \E c \in Cells, t \in Nat :
           /\ cells' = Throw(Released(SubRanges(r)), c, r, t)
           /\ TakesOver(Jailed(r, t), c)
<1> DEFINE S == SubRanges(r)
           heirs == {u \in S : At(u).active /\ \A t \in S : t[1] <= u[1]}
<1>1. S \in SUBSET Slots /\ S # {}
  BY DEF FillAbsorb, SubRanges
<1>2. /\ Deepest(S) \in Cells /\ \A s \in S : s[1] <= Deepest(S)
      /\ NextCell(Deepest(S)) \in Cells /\ Deepest(S) <= NextCell(Deepest(S))
  BY <1>1, DeepestFacts
<1>3. Carried(S) = heirs
  BY <1>1, CarriedAreHeirs
<1>4. ASSUME NEW t PROVE Jailed(r, t).cidr = r /\ Jailed(r, t).start = t
  BY DEF Jailed
<1>5. CASE Carried(S) = {}
  <2> DEFINE c == NextCell(Deepest(S))
  <2>1. cells' = Throw(Released(S), c, r, now)
    BY <1>5 DEF FillAbsorb, Absorbed
  <2>2. \A u \in S : u[1] <= c
    BY <1>1, <1>2, SlotFacts DEF Cells
  <2>3. TakesOver(Jailed(r, now), c)
    BY <1>3, <1>4, <1>5, <2>2 DEF TakesOver
  <2> QED BY <1>2, <2>1, <2>3
<1>6. CASE Carried(S) # {}
  <2> DEFINE f == FirstSlot(Carried(S))
             d == Deepest(S)
  <2>1. Carried(S) \in SUBSET Slots
    BY <1>1 DEF Carried
  <2>2. f \in Carried(S) /\ \A t \in Carried(S) : Before(f, t)
    BY <1>6, <2>1, FirstSlotFacts
  <2>3. cells' = Throw(Released(S), d, r, At(f).start)
    BY <1>6 DEF FillAbsorb, Absorbed
  <2>4. f[1] = d /\ At(f).start \in Nat
    BY <2>1, <2>2, SlotFacts DEF Carried, Prisoner
  <2>5. \A t \in Carried(S) : f[2] <= t[2]
    <3> SUFFICES ASSUME NEW t \in Carried(S) PROVE f[2] <= t[2]
      OBVIOUS
    <3>1. t[1] = d /\ Before(f, t) /\ d \in Nat
      BY <1>2, <2>2 DEF Carried, Cells
    <3> QED BY <2>4, <3>1 DEF Before
  <2> HIDE DEF f, d
  <2>6. TakesOver(Jailed(r, At(f).start), d)
    <3>1. \A u \in S : u[1] <= d
      BY <1>2 DEF d
    <3>2. f \in heirs /\ \A t \in heirs : f[2] <= t[2]
      BY <1>3, <2>2, <2>5
    <3> QED BY <1>4, <2>4, <3>1, <3>2 DEF TakesOver
  <2> QED BY <1>2, <2>3, <2>4, <2>6 DEF d
<1> QED BY <1>5, <1>6

LEMMA AbsorbHolds ==
  ASSUME IsLadder(cells), now \in Nat, NEW r \in CIDRs, FillAbsorb(r), NEW s \in Slots
  PROVE  Same(cells', s) \/ TakenOver(cells', s)
<1>1. PICK c \in Cells, t \in Nat :
        /\ cells' = Throw(Released(SubRanges(r)), c, r, t)
        /\ TakesOver(Jailed(r, t), c)
  BY AbsorbTakesOver
<1>2. Grown(cells', SubRanges(r), c, Jailed(r, t))
  BY <1>1, ThrownFromReleased
<1>3. CASE s \notin SubRanges(r)
  BY <1>2, <1>3, GrownSame
<1>4. CASE s \in SubRanges(r)
  <2>1. Within(At(s).cidr, r)
    BY <1>4 DEF SubRanges
  <2>2. PICK j \in DOMAIN cells'[c] : cells'[c][j] = Jailed(r, t)
    BY <1>2 DEF Grown
  <2>3. Jailed(r, t).cidr = r /\ Jailed(r, t).active
    BY DEF Jailed
  <2> QED BY <1>1, <2>1, <2>2, <2>3 DEF TakenOver
<1> QED BY <1>3, <1>4

LEMMA FillHolds ==
  ASSUME IsLadder(cells), now \in Nat, NEW r \in CIDRs, Fill(r),
         NEW s \in Slots, At(s).active
  PROVE  Same(cells', s) \/ TakenOver(cells', s)
<1>1. CASE FillResident(r)
  <2>1. SameRange(r) \in SUBSET Slots /\ SameRange(r) # {}
    BY <1>1 DEF FillResident, SameRange
  <2>2. FirstSlot(SameRange(r)) \in Slots
    BY <2>1, FirstSlotFacts
  <2> QED BY <1>1, <2>2, RedetectSame DEF FillResident
<1>2. CASE FillAbsorb(r)
  BY <1>2, AbsorbHolds
<1>3. CASE FillCovered(r)
  <2>1. ParentRanges(r) \in SUBSET Slots /\ ParentRanges(r) # {}
    BY <1>3 DEF FillCovered, ParentRanges
  <2>2. FirstSlot(ParentRanges(r)) \in Slots
    BY <2>1, FirstSlotFacts
  <2> QED BY <1>3, <2>2, RedetectSame DEF FillCovered
<1>4. CASE FillFresh(r)
  <2>1. 1 \in Cells /\ cells' = Throw(cells, 1, r, now)
    BY <1>4, NumCellsAssumption DEF FillFresh, Cells
  <2>2. Grown(cells', {}, 1, Jailed(r, now))
    BY <2>1, FreshGrown
  <2> QED BY <2>2, GrownSame
<1> QED BY <1>1, <1>2, <1>3, <1>4 DEF Fill

LEMMA RefreshSame ==
  ASSUME IsLadder(cells), now \in Nat, NEW s \in Slots, now <= Expiry(s)
  PROVE  Same(Refreshed, s)
<1>1. /\ s = <<s[1], s[2]>> /\ s[1] \in Cells /\ s[2] \in DOMAIN cells[s[1]]
      /\ At(s) \in Prisoner /\ At(s) = cells[s[1]][s[2]]
  BY SlotFacts
<1>2. ~ BanIsOver(s)
  <2>1. At(s).start \in Nat /\ BanDuration[s[1]] \in Nat
    BY <1>1, BanDurationAssumption DEF Prisoner
  <2> QED BY <2>1 DEF BanIsOver, Expiry
<1>3. /\ s[2] \in DOMAIN Refreshed[s[1]]
      /\ Refreshed[s[1]][s[2]] = cells[s[1]][s[2]]
  BY <1>1, <1>2, RefreshedFacts
<1> QED BY <1>1, <1>3 DEF Same

LEMMA PruneSame ==
  ASSUME IsLadder(cells), Prune, NEW s \in Slots, At(s).active
  PROVE  Same(cells', s)
<1> DEFINE gone == {u \in Slots : Stale(u)}
<1>1. Without(gone, cells')
  BY ReleasedWithout DEF Prune
<1>2. s \notin gone
  BY DEF Stale
<1>3. s = <<s[1], s[2]>> /\ s[1] \in Cells /\ s[2] \in DOMAIN cells[s[1]]
      /\ At(s) = cells[s[1]][s[2]]
  BY SlotFacts
<1>4. <<s[1], s[2]>> \notin gone
  BY <1>2, <1>3
<1>5. \E k \in DOMAIN cells'[s[1]] : cells'[s[1]][k] = cells[s[1]][s[2]]
  BY <1>1, <1>3, <1>4 DEF Without
<1> QED BY <1>3, <1>5 DEF Same

LEMMA StepHolds == BanInv /\ [Next]_vars => Holds
<1> SUFFICES ASSUME BanInv, [Next]_vars, NEW s \in Slots, Runs(s)
             PROVE  Same(cells', s) \/ TakenOver(cells', s)
  BY DEF Holds
<1>1. IsLadder(cells) /\ now \in Nat
  BY DEF BanInv, JailInv, TypeOK, Sound
<1>2. At(s).active /\ now <= Expiry(s)
  BY DEF Runs
<1>3. ASSUME NEW batch \in Batches, BeginUpdate(batch) PROVE Same(cells', s)
  BY <1>1, <1>2, <1>3, RefreshSame DEF BeginUpdate
<1>4. CASE FillNext
  BY <1>1, <1>2, <1>4, FillHolds DEF FillNext
<1>5. CASE Prune
  BY <1>1, <1>2, <1>5, PruneSame
<1>6. CASE UNCHANGED cells
  BY <1>1, <1>6, UnchangedSame
<1>7. CASE FillRejected \/ Tick \/ UNCHANGED vars
  BY <1>6, <1>7 DEF FillRejected, Tick, vars
<1> QED BY <1>3, <1>4, <1>5, <1>7 DEF Next

(* No range is forgotten or let off before its ban has been over for the   *)
(* retention horizon.                                                      *)
THEOREM EscalationRememberedHolds == Spec => EscalationRemembered
<1>1. BanInv /\ [Next]_vars => [Remembers]_vars
  BY StepRemembers
<1> QED BY <1>1, BanInvHolds, PTL DEF Spec, EscalationRemembered, Remembers

(* A running ban stays as it is until its range is absorbed, and then the  *)
(* absorbing range takes over.                                             *)
THEOREM RunningBanHeldHolds == Spec => RunningBanHeld
<1> DEFINE Lasts ==
      \A s \in Slots : At(s).active /\ now <= Expiry(s) =>
        \E d \in Cells : \E j \in DOMAIN cells'[d] :
          \/ d = s[1] /\ cells'[d][j] = At(s)
          \/ /\ Within(At(s).cidr, cells'[d][j].cidr)
             /\ cells'[d][j].active
             /\ TakesOver(cells'[d][j], d)
<1>1. ASSUME BanInv, Holds PROVE Lasts
  <2> SUFFICES ASSUME NEW s \in Slots, At(s).active, now <= Expiry(s)
               PROVE  \E d \in Cells : \E j \in DOMAIN cells'[d] :
                        \/ d = s[1] /\ cells'[d][j] = At(s)
                        \/ /\ Within(At(s).cidr, cells'[d][j].cidr)
                           /\ cells'[d][j].active
                           /\ TakesOver(cells'[d][j], d)
    OBVIOUS
  <2>1. IsLadder(cells)
    BY <1>1 DEF BanInv, JailInv, TypeOK, Sound
  <2>2. s[1] \in Cells
    BY <2>1, SlotFacts
  <2>3. CASE Same(cells', s)
    BY <2>2, <2>3 DEF Same
  <2>4. CASE TakenOver(cells', s)
    BY <2>4 DEF TakenOver
  <2> QED BY <1>1, <2>3, <2>4 DEF Holds, Runs
<1>2. BanInv /\ [Next]_vars => [Lasts]_vars
  BY <1>1, StepHolds
<1> QED BY <1>2, BanInvHolds, PTL DEF Spec, RunningBanHeld
=============================================================================
