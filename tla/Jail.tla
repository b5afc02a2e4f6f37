------------------------------- MODULE Jail -------------------------------
(***************************************************************************)
(* The jail of flokbn (jail/jail.go): a ladder of cells with growing ban   *)
(* durations.  A detected range enters the first cell; detected again      *)
(* after its ban expired it moves one cell deeper.  A detected range that  *)
(* contains resident ranges absorbs them, and one inside a resident range  *)
(* counts as a detection of that resident.                                 *)
(*                                                                         *)
(* Update is modelled as the code runs it: UpdateBanActiveStatus first     *)
(* (BeginUpdate), then Fill for one range after the other (FillNext), each *)
(* with its own reading of the clock.                                      *)
(***************************************************************************)
EXTENDS Integers, Sequences, FiniteSets, Slices

CONSTANTS
  CIDRs,        (* Ranges that net.ParseCIDR accepts.                      *)
  BadStrings,   (* Strings it rejects: Fill returns an error for them.     *)
  Bounds,       (* cidrBounds of each range: ok, start, end.  ok is FALSE  *)
                (* for IPv6, which parses but has no numeric range.        *)
  NumCells,     (* Number of cells.                                        *)
  BanDuration,  (* Ban duration of each cell.                              *)
  MaxBatch,     (* Bound: longest argument of one Update.                  *)
  MaxTime       (* Bound: last instant of the clock.                       *)

Cells == 1..NumCells

ASSUME NumCellsAssumption == NumCells \in Nat \ {0}
ASSUME BanDurationAssumption == BanDuration \in [Cells -> Nat]
ASSUME BoundsAssumption ==
  Bounds \in [CIDRs -> [ok : BOOLEAN, start : Nat, end : Nat]]
ASSUME StringsAssumption == BadStrings \cap CIDRs = {}
ASSUME LimitsAssumption == MaxBatch \in Nat /\ MaxTime \in Nat

Prisoner == [cidr : CIDRs, start : Nat, active : BOOLEAN]

VARIABLES
  cells,      (* Prisoners of each cell, in slice order.                   *)
  allCIDRs,   (* AllCIDRs as a bag: nothing reads the order of the slice.  *)
  now,        (* The clock that time.Now and time.Since read.              *)
  todo,       (* Ranges the running Update has not filled yet.             *)
  filled,     (* Ranges the running or latest Update has filled.           *)
  refreshed   (* When UpdateBanActiveStatus last ran.                      *)

jail == <<cells, allCIDRs>>
vars == <<cells, allCIDRs, now, todo, filled, refreshed>>

----------------------------------------------------------------------------
(* Definitions named Slip... are plausible mistakes in the definition that *)
(* follows them.  The specification uses none of them; they show that the  *)
(* properties below would notice.                                          *)

----------------------------------------------------------------------------
(* Slots: a prisoner is found at <<cell index, position in the cell>>.     *)

Slots == UNION {{<<c, i>> : i \in DOMAIN cells[c]} : c \in Cells}

At(s) == cells[s[1]][s[2]]

(* Scan order of the nested loops over cells and prisoners.                *)
Before(s, t) == s[1] < t[1] \/ (s[1] = t[1] /\ s[2] <= t[2])

SlipLastSlot(S) == CHOOSE s \in S : \A t \in S : Before(t, s)
FirstSlot(S) == CHOOSE s \in S : \A t \in S : Before(s, t)

(* The range c lies within the range d, by their numeric bounds.           *)
Within(c, d) ==
  /\ Bounds[c].ok
  /\ Bounds[d].ok
  /\ Bounds[d].start <= Bounds[c].start
  /\ Bounds[c].end <= Bounds[d].end

SameRange(r) == {s \in Slots : At(s).cidr = r}
SubRanges(r) == {s \in Slots : Within(At(s).cidr, r)}
SlipParentsMissed(r) == {}
ParentRanges(r) == {s \in Slots : Within(r, At(s).cidr)}

Expiry(s) == At(s).start + BanDuration[s[1]]
BanIsOver(s) == now - At(s).start > BanDuration[s[1]]

----------------------------------------------------------------------------
(* What the operations do to the cells and to AllCIDRs.                    *)

Jailed(r, start) == [cidr |-> r, start |-> start, active |-> TRUE]

(* ThrowPrisonerInCell, with the BanStart the caller leaves behind.        *)
Throw(cs, c, r, start) == [cs EXCEPT ![c] = Append(@, Jailed(r, start))]

(* RemovePrisoner on the cells, for a set of slots.                        *)
Released(S) ==
  [c \in Cells |-> Compact(cells[c], {i \in DOMAIN cells[c] : <<c, i>> \notin S})]

SlipStillListed(S) == allCIDRs

(* RemovePrisoner on AllCIDRs: one occurrence per removed prisoner, if any *)
(* is left.                                                                *)
Unlisted(S) ==
  [r \in CIDRs |->
     LET n == Cardinality({s \in S : At(s).cidr = r})
     IN  IF allCIDRs[r] > n THEN allCIDRs[r] - n ELSE 0]

Listed(bag, r) == [bag EXCEPT ![r] = @ + 1]

SlipStartKept(p) == [p EXCEPT !.active = TRUE]

(* MovePrisonerToNextCell: a renewed ban, one cell deeper if there is one. *)
Renewed(p) == Jailed(p.cidr, now)

Moved(s) ==
  IF s[1] < NumCells
  THEN [Released({s}) EXCEPT ![s[1] + 1] = Append(@, Renewed(At(s)))]
  ELSE [cells EXCEPT ![s[1]] = [@ EXCEPT ![s[2]] = Renewed(At(s))]]

SlipIgnored(s) == UNCHANGED <<cells, allCIDRs>>

(* A prisoner found by a new detection: an active ban stays as it is.      *)
Redetect(s) ==
  /\ cells' = IF At(s).active THEN cells ELSE Moved(s)
  /\ UNCHANGED allCIDRs

SlipShallowest(S) == CHOOSE c \in {s[1] : s \in S} : \A s \in S : c <= s[1]
Deepest(S) == CHOOSE c \in {s[1] : s \in S} : \A s \in S : s[1] <= c
NextCell(c) == IF c < NumCells THEN c + 1 ELSE c

(* The active bans of the deepest cell among the absorbed slots; the scan  *)
(* runs backwards, so the BanStart kept is that of the first of them.      *)
Carried(S) == {s \in S : s[1] = Deepest(S) /\ At(s).active}

Absorbed(S, r) ==
  IF Carried(S) = {}
  THEN Throw(Released(S), NextCell(Deepest(S)), r, now)
  ELSE Throw(Released(S), Deepest(S), r, At(FirstSlot(Carried(S))).start)

----------------------------------------------------------------------------
(* The four branches of Fill.                                              *)

FillResident(r) ==
  /\ SameRange(r) # {}
  /\ Redetect(FirstSlot(SameRange(r)))

FillAbsorb(r) ==
  /\ SameRange(r) = {}
  /\ SubRanges(r) # {}
  /\ cells' = Absorbed(SubRanges(r), r)
  /\ allCIDRs' = Listed(Unlisted(SubRanges(r)), r)

FillCovered(r) ==
  /\ SameRange(r) = {}
  /\ SubRanges(r) = {}
  /\ ParentRanges(r) # {}
  /\ Redetect(FirstSlot(ParentRanges(r)))

FillFresh(r) ==
  /\ SameRange(r) = {}
  /\ SubRanges(r) = {}
  /\ ParentRanges(r) = {}
  /\ cells' = Throw(cells, 1, r, now)
  /\ allCIDRs' = Listed(allCIDRs, r)

Fill(r) ==
  \/ FillResident(r)
  \/ FillAbsorb(r)
  \/ FillCovered(r)
  \/ FillFresh(r)

----------------------------------------------------------------------------
Idle == todo = <<>>

Refreshed ==
  [c \in Cells |->
     [i \in DOMAIN cells[c] |->
        IF BanIsOver(<<c, i>>) THEN [cells[c][i] EXCEPT !.active = FALSE]
                               ELSE cells[c][i]]]

(* The argument of Update, or the empty one of the live loop's heartbeat,  *)
(* which calls UpdateBanActiveStatus alone.                                *)
BeginUpdate(batch) ==
  /\ Idle
  /\ cells' = Refreshed
  /\ refreshed' = now
  /\ todo' = batch
  /\ filled' = {}
  /\ UNCHANGED <<allCIDRs, now>>

FillNext ==
  /\ ~Idle
  /\ Head(todo) \in CIDRs
  /\ Fill(Head(todo))
  /\ todo' = Tail(todo)
  /\ filled' = filled \cup {Head(todo)}
  /\ UNCHANGED <<now, refreshed>>

(* Fill returns an error; Update records it and goes on.                   *)
FillRejected ==
  /\ ~Idle
  /\ Head(todo) \in BadStrings
  /\ todo' = Tail(todo)
  /\ UNCHANGED <<cells, allCIDRs, now, filled, refreshed>>

RetentionHorizon == BanDuration[NumCells]

Stale(s) == ~At(s).active /\ now - Expiry(s) > RetentionHorizon

(* AllCIDRs rebuilt from the residents.                                    *)
Rebuilt(S) == [r \in CIDRs |-> Cardinality({s \in S : At(s).cidr = r})]

Prune ==
  LET gone == {s \in Slots : Stale(s)}
  IN  /\ Idle
      /\ cells' = Released(gone)
      /\ allCIDRs' = IF gone = {} THEN allCIDRs ELSE Rebuilt(Slots \ gone)
      /\ UNCHANGED <<now, todo, filled, refreshed>>

Tick ==
  /\ now < MaxTime
  /\ now' = now + 1
  /\ UNCHANGED <<cells, allCIDRs, todo, filled, refreshed>>

----------------------------------------------------------------------------
(* NewJail.                                                                *)
Init ==
  /\ cells = [c \in Cells |-> <<>>]
  /\ allCIDRs = [r \in CIDRs |-> 0]
  /\ now = 0
  /\ todo = <<>>
  /\ filled = {}
  /\ refreshed = 0

Batches == UNION {[1..n -> CIDRs \cup BadStrings] : n \in 0..MaxBatch}

Next ==
  \/ \E batch \in Batches : BeginUpdate(batch)
  \/ FillNext
  \/ FillRejected
  \/ Prune
  \/ Tick

Spec == Init /\ [][Next]_vars

----------------------------------------------------------------------------
(* Properties.                                                             *)

(* Every variable has its type.                                            *)
TypeOK ==
  /\ cells \in [Cells -> Seq(Prisoner)]
  /\ allCIDRs \in [CIDRs -> Nat]
  /\ now \in Nat
  /\ todo \in Seq(CIDRs \cup BadStrings)
  /\ filled \subseteq CIDRs
  /\ refreshed \in Nat

(* No resident range lies within another one, and none is resident twice,  *)
(* whatever the order in which ranges were detected, expired and absorbed: *)
(* so the first match of rangeInJail and ParentRangeInJail is the only one *)
(* and no address is held by two cells that disagree about its ban.        *)
Antichain ==
  \A s, t \in Slots :
    s # t => /\ At(s).cidr # At(t).cidr
             /\ ~ Within(At(s).cidr, At(t).cidr)

(* AllCIDRs names every resident range exactly once and nothing else, as   *)
(* the comment on Prune claims; RemovePrisoner, Fill and Prune keep it     *)
(* in step with the cells by different means.                              *)
AllCIDRsExact ==
  \A r \in CIDRs : allCIDRs[r] = Cardinality(SameRange(r))

(* The BanActive flag that the ban file trusts: an active ban had not run  *)
(* out at the latest UpdateBanActiveStatus, and an inactive one has run    *)
(* out, although moves, absorption and renewal rewrite BanStart.           *)
ActiveFlagsSound ==
  \A s \in Slots :
    IF At(s).active THEN refreshed <= Expiry(s) ELSE now > Expiry(s)

(* Every range the latest Update filled is covered by an active ban, and   *)
(* later ranges of the same batch or a Prune do not undo it.               *)
DetectedIsBanned ==
  \A r \in filled :
    \E s \in Slots : /\ At(s).active
                     /\ At(s).cidr = r \/ Within(r, At(s).cidr)

----------------------------------------------------------------------------
(* Properties of a step.                                                   *)

(* After the step some prisoner at cell c or deeper covers the range r;    *)
(* with needActive, under an active ban.                                   *)
HeldNext(r, c, needActive) ==
  \E d \in Cells : \E j \in DOMAIN cells'[d] :
    /\ d >= c
    /\ cells'[d][j].cidr = r \/ Within(r, cells'[d][j].cidr)
    /\ needActive => cells'[d][j].active

(* Escalation memory: no step moves the addresses of a resident range to a *)
(* shallower cell or forgets them, except once the ban ended more than the *)
(* retention horizon ago (the contract of RetentionHorizon and Prune).     *)
EscalationRemembered ==
  [][\A s \in Slots : Stale(s) \/ HeldNext(At(s).cidr, s[1], FALSE)]_vars

(* The prisoner p, in cell d, stands in for all that its range absorbs: in *)
(* no shallower a cell than any of them, and with the start of the ban     *)
(* that stood first among the active ones of their deepest cell.  Only if  *)
(* none is active there does its ban start now.                            *)
TakesOver(p, d) ==
  LET absorbed == SubRanges(p.cidr)
      heirs == {u \in absorbed : At(u).active /\ \A t \in absorbed : t[1] <= u[1]}
  IN  /\ \A u \in absorbed : u[1] <= d
      /\ heirs = {} => p.start = now
      /\ heirs # {} => \E u \in heirs : /\ d = u[1]
                                       /\ p.start = At(u).start
                                       /\ \A t \in heirs : u[2] <= t[2]

(* A running ban stays as it is, neither lifted nor cut short nor started  *)
(* again, by every step but one: the absorption of its range.  That puts   *)
(* the addresses at once under an active ban that takes over.  The time of *)
(* the absorbed ban is not promised: the start inherited may be an older   *)
(* one, so that the ban is over sooner.  Whose start it is depends on how  *)
(* Fill scans the absorbed ranges, backwards and removing them by index.   *)
RunningBanHeld ==
  [][\A s \in Slots : At(s).active /\ now <= Expiry(s) =>
       \E d \in Cells : \E j \in DOMAIN cells'[d] :
         \/ d = s[1] /\ cells'[d][j] = At(s)
         \/ /\ Within(At(s).cidr, cells'[d][j].cidr)
            /\ cells'[d][j].active
            /\ TakesOver(cells'[d][j], d)]_vars

=============================================================================
