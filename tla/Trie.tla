------------------------------- MODULE Trie -------------------------------
(***************************************************************************)
(* The binary trie of flokbn (trie/trie.go).  An address is a sequence of  *)
(* W bits, a node the prefix it stands for.  A trie maps every allocated   *)
(* node but the root to its Count; the root always exists and its Count    *)
(* stays 0.                                                                *)
(*                                                                         *)
(* Definitions named Slip... are plausible mistakes in the definition that *)
(* follows them; nothing uses them.                                        *)
(***************************************************************************)
EXTENDS AddressWidth, Sequences, SequencesExt

Bit == {0, 1}
Address == [1..W -> Bit]
Root == <<>>
Node == UNION {[1..d -> Bit] : d \in 1..W}

(* What each operation below walks: the node of each depth.                *)
Path(ip) == {SubSeq(ip, 1, d) : d \in 1..W}

Within(n, range) == Len(range) <= Len(n) /\ SubSeq(n, 1, Len(range)) = range

Empty == [n \in {} |-> 0]
Children(t, n) == {Append(n, b) : b \in Bit} \cap DOMAIN t

(* What a reader finds at a node: 0 at the root, whatever is below it, and *)
(* nothing where there is no node.                                         *)
Count(t, n) == IF n \in DOMAIN t THEN t[n] ELSE 0

----------------------------------------------------------------------------
(* InsertUint32.                                                           *)
Insert(t, ip) ==
  [n \in DOMAIN t \cup Path(ip) |->
     (IF n \in DOMAIN t THEN t[n] ELSE 0) + (IF n \in Path(ip) THEN 1 ELSE 0)]

SlipNoPrune(t, ip) ==
  [n \in DOMAIN t |-> IF n \in Path(ip) /\ t[n] > 0 THEN t[n] - 1 ELSE t[n]]

(* DeleteUint32.  The decrement goes upward from the leaf and gives up at  *)
(* a zero count; then the nodes of the path that are left without a count  *)
(* and without children go, from the leaf up to the first that stays.      *)
Delete(t, ip) ==
  LET zero == {n \in Path(ip) : t[n] = 0}
      down == {n \in Path(ip) : \A z \in zero : Len(z) < Len(n)}
      less == [n \in DOMAIN t |-> IF n \in down THEN t[n] - 1 ELSE t[n]]
      gone == {n \in Path(ip) :
                 \A m \in Path(ip) : Len(n) <= Len(m) =>
                   less[m] = 0 /\ Children(t, m) \subseteq Path(ip)}
  IN  IF ~ Path(ip) \subseteq DOMAIN t THEN t
      ELSE IF zero # {} THEN less
      ELSE Restrict(less, DOMAIN t \ gone)

----------------------------------------------------------------------------
(* BuildSorted.  The input is sorted, so equal addresses are adjacent: a   *)
(* run is an address and its multiplicity.                                 *)

Smaller(a, b) ==
  \E i \in 1..W : a[i] < b[i] /\ \A j \in 1..(i - 1) : a[j] = b[j]

(* The k-th smallest of the addresses S.                                   *)
NthAddress(S, k) == CHOOSE a \in S : Cardinality({b \in S : ~ Smaller(a, b)}) = k

Runs(ips) ==
  [k \in 1..Cardinality(Range(ips)) |->
     LET ip == NthAddress(Range(ips), k)
     IN  [ip |-> ip, m |-> Cardinality({j \in DOMAIN ips : ips[j] = ip})]]

(* Leading bits that a and b share.                                        *)
Shared(a, b) == Cardinality({d \in 1..W : SubSeq(a, 1, d) = SubSeq(b, 1, d)})

(* The open nodes deeper than d receive the counts pending for them.       *)
Flush(s, d) ==
  [n \in DOMAIN s.t |->
     s.t[n] + (IF n \in Path(s.open) /\ Len(n) > d THEN s.pending[Len(n)] ELSE 0)]

(* One run: nodes off the shared prefix are closed, those on it owe the    *)
(* run's multiplicity too, and the run's own nodes are opened.             *)
NextRun(s, run) ==
  LET d == Shared(s.open, run.ip)
      t == Flush(s, d)
  IN  [t |-> [n \in DOMAIN t \cup Path(run.ip) |-> IF n \in DOMAIN t THEN t[n] ELSE 0],
       open |-> run.ip,
       pending |-> [k \in 1..W |-> run.m + (IF k <= d THEN s.pending[k] ELSE 0)]]

FirstRun(run) ==
  [t |-> [n \in Path(run.ip) |-> 0],
   open |-> run.ip,
   pending |-> [k \in 1..W |-> run.m]]

BuildSorted(ips) ==
  LET runs == Runs(ips)
      after[k \in DOMAIN runs] ==
        IF k = 1 THEN FirstRun(runs[1]) ELSE NextRun(after[k - 1], runs[k])
  IN  IF ips = <<>> THEN Empty ELSE Flush(after[Len(runs)], 0)

----------------------------------------------------------------------------
(* CountInRangeIPNet.                                                      *)

CountAll(t) ==
  LET side(b) == IF Append(Root, b) \in DOMAIN t THEN t[Append(Root, b)] ELSE 0
  IN  IF Children(t, Root) = {} THEN Count(t, Root) ELSE side(0) + side(1)

CountInRange(t, range) ==
  LET below[n \in {Root} \cup Node] ==
        LET side(b) == IF Append(n, b) \in DOMAIN t THEN below[Append(n, b)] ELSE 0
        IN  IF ~ Within(n, range) /\ ~ Within(range, n) THEN 0
            ELSE IF Within(n, range) THEN Count(t, n)
            ELSE side(0) + side(1)
  IN  IF range = Root THEN CountAll(t) ELSE below[Root]

----------------------------------------------------------------------------
(* CollectCIDRsNumeric, for the cluster arguments                          *)
(* a = [size, minDepth, maxDepth, threshold].                              *)

(* Both subtrees carry the same load, or nearly so.                        *)
Balanced(t, n, a) ==
  \E l, r \in Children(t, n) :
    /\ l # r
    /\ \/ t[l] = t[r]
       \/ /\ t[l] > t[r]
          /\ 2000 * (t[l] - t[r]) < a.threshold * Count(t, n)

SlipDescends(t, n, a) == {c \in Children(t, n) : t[c] > a.size}

(* The subtrees that a visit goes on with.                                 *)
Descends(t, n, a) == {c \in Children(t, n) : t[c] >= a.size}

SlipAnyDepth(t, n, a) == Balanced(t, n, a) /\ Count(t, n) >= a.size

IsCluster(t, n, a) ==
  Balanced(t, n, a) /\ Count(t, n) >= a.size /\ Len(n) >= a.minDepth

CollectCIDRs(t, a) ==
  LET collect[n \in {Root} \cup Node] ==
        IF Len(n) = a.maxDepth THEN {m \in {n} : Count(t, m) >= a.size}
        ELSE IF IsCluster(t, n, a) THEN {n}
        ELSE UNION {collect[c] : c \in Descends(t, n, a)}
  IN  IF Children(t, Root) = {} THEN {} ELSE collect[Root]
=============================================================================
