---------------------------- MODULE CIDRAlgebra ----------------------------
(***************************************************************************)
(* The range arithmetic of flokbn (cidr/cidr.go) on unsigned W-bit         *)
(* integers: merging the ranges that the cluster sets detected             *)
(* (MergeIPNets), and cutting whitelisted addresses out of the ranges that *)
(* are published (RemoveWhitelisted).  A range is its first address and    *)
(* the length of its prefix.                                               *)
(*                                                                         *)
(* The variables collect the arguments, which come in any order: every     *)
(* state is a call of each function.                                       *)
(*                                                                         *)
(* Definitions named Slip... are plausible mistakes in the definition that *)
(* follows them; nothing uses them.                                        *)
(***************************************************************************)
EXTENDS AddressWidth, SequencesExt

CONSTANT MaxArgs   (* Bound: ranges and whitelist entries together.        *)

ASSUME CIDRAlgebraAssumption == MaxArgs \in Nat

VARIABLES
  nets,        (* Ranges detected, or to publish.                          *)
  white        (* Entries of the whitelists.                               *)

args == <<nets, white>>

Pow2[n \in 0..(W + 1)] == IF n = 0 THEN 1 ELSE 2 * Pow2[n - 1]
Top == Pow2[W] - 1
U(x) == x % Pow2[W]                      (* Unsigned arithmetic wraps.     *)

Size(r) == Pow2[W - r.len]
CIDRs == {r \in [ip : 0..Top, len : 0..W] : r.ip % Size(r) = 0}

Start(r) == r.ip
End(r) == r.ip + Size(r) - 1
Addresses(r) == Start(r)..End(r)
Covered(s) == UNION {Addresses(s[i]) : i \in DOMAIN s}

----------------------------------------------------------------------------
(* MergeIPNets.                                                            *)

ByStart(a, b) == a.ip < b.ip \/ (a.ip = b.ip /\ a.len <= b.len)

(* What sort.Slice makes of s, one range after the other put in its place. *)
Place(t, r) ==
  LET k == Max({0} \cup {i \in DOMAIN t : ByStart(t[i], r)})
  IN  SubSeq(t, 1, k) \o <<r>> \o SubSeq(t, k + 1, Len(t))

Sorted(s) ==
  LET placed[n \in 0..Len(s)] ==
        IF n = 0 THEN <<>> ELSE Place(placed[n - 1], s[n])
  IN  placed[Len(s)]

(* The scan of the fast path: each range with the one before it.           *)
Ascending(s) == \A i \in 2..Len(s) : s[i - 1].ip <= s[i].ip

SlipNoGuardAtTop(s) == \E i \in 2..Len(s) : s[i].ip <= U(End(s[i - 1]) + 1)
HasOverlaps(s) ==
  \E i \in 2..Len(s) : End(s[i - 1]) = Top \/ s[i].ip <= U(End(s[i - 1]) + 1)

(* The sweep of removeContained over its sorted input: a range is kept     *)
(* unless a container that is still active holds it.                       *)
Sweep(acc, r) ==
  LET active == {c \in acc.active : End(c) >= Start(r)}
      contained == \E c \in active : c.len <= r.len /\ End(c) >= End(r)
  IN  [active |-> IF contained THEN active ELSE active \cup {r},
       kept |-> IF contained THEN acc.kept ELSE Append(acc.kept, r)]

RemoveContained(s) ==
  LET t == Sorted(s)
      swept[n \in 0..Len(t)] ==
        IF n = 0 THEN [active |-> {}, kept |-> <<>>] ELSE Sweep(swept[n - 1], t[n])
  IN  swept[Len(t)].kept

(* tryMerge.  The block of a /0 is of size 0 and has no larger mask.       *)
Larger(r) == [ip |-> r.ip - (r.ip % Pow2[W - r.len + 1]), len |-> r.len - 1]

Mergeable(a, b) ==
  /\ a.len = b.len
  /\ U(a.ip + Size(a)) = b.ip
  /\ a.len > 0 /\ b.ip \in Addresses(Larger(a))

(* The last range of the result is the current one.                        *)
MergeNext(result, r) ==
  IF result # <<>> /\ Mergeable(Last(result), r)
  THEN Append(Front(result), Larger(Last(result)))
  ELSE Append(result, r)

MergePass(s) ==
  LET merged[n \in 0..Len(s)] ==
        IF n = 0 THEN <<>> ELSE MergeNext(merged[n - 1], s[n])
  IN  merged[Len(s)]
Collapse(s) == MergePass(MergePass(s))

(* The sorting that follows removeContained finds its result sorted.       *)
MergeIPNets(s) ==
  CASE Len(s) <= 1 \/ (Ascending(s) /\ ~ HasOverlaps(s)) -> s
    [] Len(s) > 1 /\ HasOverlaps(s) -> Collapse(RemoveContained(s))
    [] OTHER -> RemoveContained(s)

----------------------------------------------------------------------------
(* RemoveWhitelisted.                                                      *)

(* LargestCIDRSize, as the exponent it returns; 0 is aligned to all sizes. *)
LargestCIDRSize(start, maxSize) ==
  Max({n \in 0..W : start % Pow2[n] = 0 /\ Pow2[n] <= maxSize})

(* appendOptimalNumeric: the largest block that fits, then the next one,   *)
(* until the end is passed or the address wraps.                           *)
Blocks(first, last) ==
  LET from[cur \in first..last] ==
        LET n == LargestCIDRSize(cur, last - cur + 1)
            next == U(cur + Pow2[n])
        IN  <<[ip |-> cur, len |-> W - n]>>
              \o IF next < cur \/ next > last THEN <<>> ELSE from[next]
  IN  CASE first > last -> <<>>
        [] first = 0 /\ last = Top -> <<[ip |-> 0, len |-> 0]>>
        [] OTHER -> from[first]

(* parseWhitelistRanges: sorted intervals, overlapping or adjacent ones    *)
(* made one.                                                               *)
Interval(r) == [start |-> Start(r), end |-> End(r)]
Extended(v, w) == [start |-> v.start, end |-> Max({v.end, w.end})]

SlipLastEndWins(acc, w) ==
  IF acc # <<>> /\ (Last(acc).end = Top \/ w.start <= U(Last(acc).end + 1))
  THEN Append(Front(acc), [start |-> Last(acc).start, end |-> w.end])
  ELSE Append(acc, w)
Widen(acc, w) ==
  IF acc # <<>> /\ (Last(acc).end = Top \/ w.start <= U(Last(acc).end + 1))
  THEN Append(Front(acc), Extended(Last(acc), w))
  ELSE Append(acc, w)

ParseWhitelistRanges(ws) ==
  LET t == Sorted(ws)
      widened[n \in 0..Len(t)] ==
        IF n = 0 THEN <<>> ELSE Widen(widened[n - 1], Interval(t[n]))
  IN  widened[Len(t)]

(* The binary searches: the last interval that starts by r's start, the    *)
(* first one that ends by r's start or later.                              *)
FullyCovered(r, ranges) ==
  LET before == {i \in DOMAIN ranges : ranges[i].start <= Start(r)}
  IN  before # {} /\ ranges[Max(before)].end >= End(r)

Intersects(r, ranges) ==
  LET after == {i \in DOMAIN ranges : ranges[i].end >= Start(r)}
  IN  after # {} /\ ranges[Min(after)].start <= End(r)

(* subtractRanges: the gap before an interval that overlaps the range.     *)
SubtractNext(r, acc, w) ==
  LET s == Max({w.start, Start(r)})
      e == Min({w.end, End(r)})
      out == IF acc.pos < s THEN acc.out \o Blocks(acc.pos, s - 1) ELSE acc.out
  IN  CASE acc.done \/ w.end < Start(r) \/ w.start > End(r) -> acc
        [] ~ acc.done /\ w.end >= Start(r) /\ w.start <= End(r) /\ e = Top ->
             [pos |-> acc.pos, out |-> out, done |-> TRUE]
        [] OTHER -> [pos |-> Max({acc.pos, e + 1}), out |-> out, done |-> FALSE]

SubtractRanges(r, ranges) ==
  LET cut[n \in 0..Len(ranges)] ==
        IF n = 0 THEN [pos |-> Start(r), out |-> <<>>, done |-> FALSE]
        ELSE SubtractNext(r, cut[n - 1], ranges[n])
      last == cut[Len(ranges)]
  IN  IF last.done THEN last.out ELSE last.out \o Blocks(last.pos, End(r))

(* RemoveWhitelisted: what it appends to its result for each range.        *)
RemoveWhitelisted(s, ws) ==
  LET ranges == ParseWhitelistRanges(ws)
  IN  [i \in DOMAIN s |->
         CASE FullyCovered(s[i], ranges) -> <<>>
           [] ~ Intersects(s[i], ranges) -> <<s[i]>>
           [] OTHER -> SubtractRanges(s[i], ranges)]

----------------------------------------------------------------------------
(* The membership test of the heatmap's overlay (tui), with intervals and  *)
(* a guard at the top of its own.                                          *)

Coalesce(acc, iv) ==
  IF /\ acc # <<>>
     /\ \/ iv.start <= Last(acc).end
        \/ Last(acc).end # Top /\ iv.start = U(Last(acc).end + 1)
  THEN Append(Front(acc), Extended(Last(acc), iv))
  ELSE Append(acc, iv)

BuildClusterIntervals(s) ==
  LET t == Sorted(s)
      built[n \in 0..Len(t)] ==
        IF n = 0 THEN <<>> ELSE Coalesce(built[n - 1], Interval(t[n]))
  IN  built[Len(t)]

ContainsIP(intervals, ip) ==
  LET before == {i \in DOMAIN intervals : intervals[i].start <= ip}
  IN  before # {} /\ intervals[Max(before)].end >= ip

----------------------------------------------------------------------------
CallsInit == nets = <<>> /\ white = <<>>

Room == Len(nets) + Len(white) < MaxArgs

AddNet(r) == Room /\ nets' = Append(nets, r) /\ UNCHANGED white
AddWhite(r) == Room /\ white' = Append(white, r) /\ UNCHANGED nets

CallsNext == \E r \in CIDRs : AddNet(r) \/ AddWhite(r)

Calls == CallsInit /\ [][CallsNext]_args

----------------------------------------------------------------------------
(* Properties.                                                             *)

Disjoint(s) ==
  \A i, j \in DOMAIN s : i < j => Addresses(s[i]) \cap Addresses(s[j]) = {}

(* MergeIPNets neither loses an address nor takes one in, whatever overlap *)
(* and order it is given, up to both ends of the address space, and hands  *)
(* the jail disjoint ranges in ascending order; and the overlay of the     *)
(* heatmap counts the requests of these addresses and of no others.        *)
MergeExact ==
  LET merged == MergeIPNets(nets)
  IN  /\ Range(merged) \subseteq CIDRs
      /\ Covered(merged) = Covered(nets)
      /\ Disjoint(merged)
      /\ Ascending(merged)
      /\ {ip \in 0..Top : ContainsIP(BuildClusterIntervals(nets), ip)} = Covered(nets)

(* RemoveWhitelisted publishes of every range just the addresses that no   *)
(* whitelist entry covers, which is what Whitelists takes it to do, in     *)
(* disjoint ranges of which none could be larger ("the minimal set", its   *)
(* comment says).                                                          *)
Abstract == INSTANCE Whitelists WITH
  Bounds <- [r \in CIDRs |-> [start |-> Start(r), end |-> End(r)]]

SubtractExact ==
  LET pieces == RemoveWhitelisted(nets, white)
  IN  /\ {Covered(pieces[i]) : i \in DOMAIN nets} \ {{}}
           = Abstract!RemoveWhitelisted(Range(nets), Range(white))
      /\ \A i \in DOMAIN nets :
           /\ Range(pieces[i]) \subseteq CIDRs
           /\ Disjoint(pieces[i])
           /\ \A f \in Range(pieces[i]) :
                \/ f = nets[i]
                \/ Addresses(Larger(f)) \cap Covered(white) # {}
=============================================================================
