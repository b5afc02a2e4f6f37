---------------------------- MODULE Whitelists ----------------------------
(***************************************************************************)
(* How whitelists act on ranges (cidr/cidr.go): what is dropped before the *)
(* jail, and what is cut out of the lists that are published.  A range of  *)
(* a published list is represented by the set of its addresses.            *)
(***************************************************************************)
EXTENDS Integers, Sequences, Slices

CONSTANT Bounds       (* First and last address of each range.             *)

Addresses(r) == Bounds[r].start .. Bounds[r].end
Covered(R) == UNION {Addresses(r) : r \in R}

(* IsWhitelistedIPNet: only a single entry that covers the whole range     *)
(* makes DropFullyWhitelisted drop it.                                     *)
FullyWhitelisted(r, W) == \E w \in W : Addresses(r) \subseteq Addresses(w)
DropFullyWhitelisted(s, W) ==
  Compact(s, {i \in DOMAIN s : ~ FullyWhitelisted(s[i], W)})

(* Two plausible mistakes in the definition that follows; the              *)
(* specifications use neither.                                             *)
SlipAllOrNothing(R, W) ==
  {Addresses(r) : r \in {x \in R : Addresses(x) \cap Covered(W) = {}}}
SlipWholeRanges(R, W) == {Addresses(r) : r \in {x \in R : ~ FullyWhitelisted(x, W)}}

(* RemoveWhitelisted: what is left of each range, if anything.             *)
RemoveWhitelisted(R, W) == {Addresses(r) \ Covered(W) : r \in R} \ {{}}

(* ComposeBanLists: the whitelists win over bans and manual blacklist.     *)
ComposeBanLists(active, blacklist, W) ==
  [bans |-> RemoveWhitelisted(active, W), black |-> RemoveWhitelisted(blacklist, W)]

NoLists == [bans |-> {}, black |-> {}]
=============================================================================
