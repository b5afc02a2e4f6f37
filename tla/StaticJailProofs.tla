------------------------- MODULE StaticJailProofs -------------------------
(***************************************************************************)
(* What the jail phase promises from one static run to the next, for every *)
(* jail, every finding and any number of failures, deaths and quits.  The  *)
(* facts about the jail's operations are those of JailProofs (JP), for     *)
(* the jail that this module's variables make.                             *)
(***************************************************************************)
EXTENDS StaticJail, TLAPS

JP == INSTANCE JailProofs WITH BadStrings <- {}, MaxBatch <- 0

----------------------------------------------------------------------------
(* The jail of the runs is a jail as JailProofs has it.                    *)

(* The assumptions of Jail, for the instance.                              *)
JailIsSized ==
  /\ NumCells \in Nat \ {0}
  /\ BanDuration \in [JP!Cells -> Nat]
  /\ Bounds \in [CIDRs -> [ok : BOOLEAN, start : Nat, end : Nat]]
  /\ {} \cap CIDRs = {}
  /\ 0 \in Nat /\ MaxTime \in Nat

LEMMA Sized == JailIsSized
BY JailAssumption DEF JailIsSized, JP!Cells

LEMMA SameSlots ==
  /\ J!Cells = JP!Cells
  /\ J!Slots = JP!Slots
  /\ \A s : J!At(s) = JP!At(s)
BY DEF J!Slots, JP!Slots, J!Cells, JP!Cells, J!At, JP!At

LEMMA SameFill ==
  ASSUME NEW r
  PROVE  J!Fill(r) <=> JP!Fill(r)
BY DEF J!Fill, J!FillResident, J!FillAbsorb, J!FillCovered, J!FillFresh,
       J!SameRange, J!SubRanges, J!ParentRanges, J!Slots, J!Cells, J!At, J!Within,
       J!FirstSlot, J!Before, J!Redetect, J!Moved, J!Renewed, J!Jailed, J!Released,
       J!Compact, J!Nth, J!Absorbed, J!Carried, J!Deepest, J!NextCell, J!Throw,
       J!Listed, J!Unlisted, J!Cardinality,
       JP!Fill, JP!FillResident, JP!FillAbsorb, JP!FillCovered, JP!FillFresh,
       JP!SameRange, JP!SubRanges, JP!ParentRanges, JP!Slots, JP!Cells, JP!At, JP!Within,
       JP!FirstSlot, JP!Before, JP!Redetect, JP!Moved, JP!Renewed, JP!Jailed, JP!Released,
       JP!Compact, JP!Nth, JP!Absorbed, JP!Carried, JP!Deepest, JP!NextCell, JP!Throw,
       JP!Listed, JP!Unlisted, JP!Cardinality

LEMMA SameRefresh == J!Refreshed = JP!Refreshed
BY DEF J!Refreshed, J!Cells, J!BanIsOver, J!At,
       JP!Refreshed, JP!Cells, JP!BanIsOver, JP!At

----------------------------------------------------------------------------
(* Ladders that remember another one.                                      *)

(* Every prisoner of the ladder cs is still held by ds, no shallower, and  *)
(* under an active ban if its own is running at the time t.                *)
Remembers(ds, cs, t) ==
  \A c \in JP!Cells : \A i \in DOMAIN cs[c] :
    JP!Held(ds, cs[c][i].cidr, c, cs[c][i].active /\ t <= cs[c][i].start + BanDuration[c])

(* The inactive bans of the ladder are over.                               *)
Lapsed(cs) == JP!Truthful(cs, now, 0)

(* A range that covers another one has its addresses.                      *)
LEMMA CoversAddresses ==
  ASSUME NEW q \in CIDRs, NEW r \in CIDRs, JP!Covers(q, r)
  PROVE  Addresses(r) \subseteq Addresses(q)
BY JailAssumption DEF JP!Covers, JP!Within, Addresses

----------------------------------------------------------------------------
(* The inductive invariant.                                                *)

(* The jail in memory and the one on disk are sound, and their inactive    *)
(* bans are over.                                                          *)
JailsSound ==
  /\ now \in Nat /\ refreshed \in Nat /\ refreshed <= now
  /\ JP!Sound(cells, allCIDRs) /\ Lapsed(cells)
  /\ JP!Sound(jailFile.cells, jailFile.allCIDRs) /\ Lapsed(jailFile.cells)

(* A run works on what it loaded: the jail in memory is the saved one      *)
(* until the update and after the save, and remembers it in between.       *)
RunFollowsFile ==
  /\ pc \in {"update", "write"} => cells = jailFile.cells /\ allCIDRs = jailFile.allCIDRs
  /\ pc \in {"fill", "save"} =>
       /\ JP!Truthful(cells, now, refreshed)
       /\ Remembers(cells, jailFile.cells, now)

RunInv == JailsSound /\ RunFollowsFile

LEMMA RemembersLater ==
  ASSUME NEW cs, NEW ds, JP!IsLadder(cs), now \in Nat, NEW t \in Nat, now <= t,
         Remembers(ds, cs, now)
  PROVE  Remembers(ds, cs, t)
<1> SUFFICES ASSUME NEW c \in JP!Cells, NEW i \in DOMAIN cs[c]
             PROVE  JP!Held(ds, cs[c][i].cidr, c,
                            cs[c][i].active /\ t <= cs[c][i].start + BanDuration[c])
  BY DEF Remembers
<1>1. cs[c][i] \in JP!Prisoner
  BY DEF JP!IsLadder
<1>2. JP!Held(ds, cs[c][i].cidr, c,
              cs[c][i].active /\ now <= cs[c][i].start + BanDuration[c])
  BY DEF Remembers
<1>3. t <= cs[c][i].start + BanDuration[c] => now <= cs[c][i].start + BanDuration[c]
  BY <1>1, Sized DEF JailIsSized, JP!Prisoner
<1> QED BY <1>2, <1>3 DEF JP!Held

LEMMA InitRunInv == Init => RunInv
<1> SUFFICES ASSUME Init PROVE RunInv
  OBVIOUS
<1>1. JP!Init
  BY DEF Init, J!Init, JP!Init, J!Cells, JP!Cells
<1>2. JP!BanInv
  BY <1>1, JP!InitBanInv, Sized DEF JailIsSized
<1>3. JP!Sound(cells, allCIDRs) /\ JP!Truthful(cells, now, refreshed) /\ refreshed <= now
      /\ now \in Nat /\ refreshed \in Nat
  BY <1>2 DEF JP!BanInv, JP!JailInv, JP!TypeOK
<1>4. Lapsed(cells)
  BY <1>3, JP!TruthfulLapses, Sized DEF JailIsSized, JP!Sound, Lapsed
<1> QED BY <1>3, <1>4 DEF Init, SavedJail, RunInv, JailsSound, RunFollowsFile

(* A step that touches neither jail.                                       *)
LEMMA QuietStep ==
  ASSUME RunInv, UNCHANGED <<cells, allCIDRs, now, refreshed, jailFile>>,
         pc' \in {"off", "check", "load"} \/ pc' = pc
  PROVE  RunInv'
BY DEF RunInv, JailsSound, RunFollowsFile, Lapsed, Remembers, JP!Sound, JP!Truthful,
       JP!IsLadder, JP!NoOverlap, JP!Listing, JP!Held

LEMMA UpdateStep ==
  ASSUME RunInv, Update
  PROVE  RunInv'
<1>1. CASE UNCHANGED jailVars /\ pc' = "write"
  BY <1>1 DEF Update, jailVars, disk, RunInv, JailsSound, RunFollowsFile, Lapsed
<1>2. ASSUME NEW batch, J!BeginUpdate(batch), pc' = "fill" PROVE RunInv'
  <2>1. /\ cells' = JP!Refreshed /\ refreshed' = now
        /\ UNCHANGED <<allCIDRs, now, jailFile>>
    BY <1>2, SameRefresh DEF J!BeginUpdate, Update, disk
  <2>2. /\ cells = jailFile.cells /\ JP!IsLadder(cells) /\ now \in Nat
        /\ JP!Sound(cells, allCIDRs) /\ JP!Truthful(cells, now, 0)
    BY DEF Update, RunInv, JailsSound, RunFollowsFile, Lapsed, JP!Sound
  <2>3. /\ JP!Truthful(JP!Refreshed, now, now)
        /\ \A s \in JP!Slots : JP!Held(JP!Refreshed, JP!At(s).cidr, s[1],
                                       JP!At(s).active /\ now <= JP!Expiry(s))
    BY <2>2, JP!RefreshFacts, Sized DEF JailIsSized
  <2>4. JP!Sound(JP!Refreshed, allCIDRs)
    BY <2>2, JP!RefreshedSound, Sized DEF JailIsSized
  <2>5. Remembers(JP!Refreshed, cells, now)
    <3> SUFFICES ASSUME NEW c \in JP!Cells, NEW i \in DOMAIN cells[c]
                 PROVE  JP!Held(JP!Refreshed, cells[c][i].cidr, c,
                                cells[c][i].active /\ now <= cells[c][i].start + BanDuration[c])
      BY DEF Remembers
    <3>1. <<c, i>> \in JP!Slots /\ JP!At(<<c, i>>) = cells[c][i]
      BY JP!SlotOf, Sized DEF JailIsSized
    <3>2. JP!Expiry(<<c, i>>) = cells[c][i].start + BanDuration[c] /\ <<c, i>>[1] = c
      BY <3>1 DEF JP!Expiry
    <3>3. JP!Held(JP!Refreshed, JP!At(<<c, i>>).cidr, <<c, i>>[1],
                  JP!At(<<c, i>>).active /\ now <= JP!Expiry(<<c, i>>))
      BY <2>3, <3>1
    <3> QED BY <3>1, <3>2, <3>3
  <2>6. Lapsed(cells)'
    <3>1. JP!IsLadder(JP!Refreshed)
      BY <2>4 DEF JP!Sound
    <3> QED BY <2>1, <2>2, <2>3, <3>1, JP!TruthfulLapses, Sized DEF JailIsSized, Lapsed
  <2>7. JailsSound'
    BY <2>1, <2>2, <2>4, <2>6 DEF RunInv, JailsSound, Lapsed
  <2>8. RunFollowsFile'
    BY <1>2, <2>1, <2>2, <2>3, <2>5 DEF RunFollowsFile
  <2> QED BY <2>7, <2>8 DEF RunInv
<1> QED BY <1>1, <1>2 DEF Update

LEMMA FillStep ==
  ASSUME RunInv, FillNext
  PROVE  RunInv'
<1> DEFINE r == Head(todo)
<1>1. /\ r \in CIDRs /\ J!Fill(r) /\ UNCHANGED <<now, refreshed, jailFile>>
      /\ pc = "fill" /\ pc' \in {"fill", "save"}
  BY DEF FillNext, J!FillNext, disk
<1> HIDE DEF r
<1>2. JP!Fill(r)
  BY <1>1, SameFill
<1>3. /\ JP!Sound(cells, allCIDRs) /\ JP!IsLadder(cells) /\ JP!IsLadder(jailFile.cells)
      /\ now \in Nat /\ refreshed \in Nat /\ refreshed <= now
      /\ JP!Truthful(cells, now, refreshed) /\ Remembers(cells, jailFile.cells, now)
  BY <1>1 DEF RunInv, JailsSound, RunFollowsFile, JP!Sound
<1>4. JP!Sound(cells', allCIDRs')
  BY <1>1, <1>2, <1>3, JP!FillSound, Sized DEF JailIsSized
<1>5. JP!IsLadder(cells')
  BY <1>4 DEF JP!Sound
<1>6. JP!Kept(cells') /\ JP!Truthful(cells', now, refreshed)
  <2>1. JP!Filled(cells', r)
    BY <1>1, <1>2, <1>3, JP!FillFills, Sized DEF JailIsSized
  <2> QED BY <2>1 DEF JP!Filled
<1>7. Remembers(cells', jailFile.cells, now)
  <2> SUFFICES ASSUME NEW c \in JP!Cells, NEW i \in DOMAIN jailFile.cells[c]
               PROVE  JP!Held(cells', jailFile.cells[c][i].cidr, c,
                        /\ jailFile.cells[c][i].active
                        /\ now <= jailFile.cells[c][i].start + BanDuration[c])
    BY DEF Remembers
  <2>1. jailFile.cells[c][i].cidr \in CIDRs
    <3>1. jailFile.cells[c][i] \in JP!Prisoner
      BY <1>3 DEF JP!IsLadder
    <3> QED BY <3>1 DEF JP!Prisoner
  <2> QED BY <1>3, <1>5, <1>6, <2>1, JP!HeldOn, Sized DEF JailIsSized, Remembers
<1>8. Lapsed(cells)'
  BY <1>1, <1>3, <1>5, <1>6, JP!TruthfulLapses, Sized DEF JailIsSized, Lapsed
<1>9. JailsSound'
  BY <1>1, <1>3, <1>4, <1>8 DEF RunInv, JailsSound, Lapsed
<1>10. RunFollowsFile'
  BY <1>1, <1>6, <1>7 DEF RunFollowsFile
<1> QED BY <1>9, <1>10 DEF RunInv

LEMMA TickStep ==
  ASSUME RunInv, Tick
  PROVE  RunInv'
<1>1. /\ now' = now + 1
      /\ UNCHANGED <<cells, allCIDRs, refreshed, jailFile, pc>>
  BY DEF Tick, J!Tick, disk
<1>2. now \in Nat /\ refreshed \in Nat /\ refreshed <= now
      /\ JP!IsLadder(cells) /\ JP!IsLadder(jailFile.cells)
  BY DEF RunInv, JailsSound, JP!Sound
<1>3. now + 1 \in Nat /\ now <= now + 1
  BY <1>2
<1>4. Lapsed(cells)' /\ Lapsed(jailFile.cells)'
  BY <1>1, <1>2, <1>3, JP!TruthfulLater, Sized DEF JailIsSized, RunInv, JailsSound, Lapsed
<1>5. JailsSound'
  BY <1>1, <1>2, <1>4 DEF RunInv, JailsSound, Lapsed
<1>6. RunFollowsFile'
  BY <1>1, <1>2, <1>3, JP!TruthfulLater, RemembersLater, Sized DEF JailIsSized, RunInv, RunFollowsFile
<1> QED BY <1>5, <1>6 DEF RunInv

LEMMA NextRunInv == RunInv /\ [Next]_vars => RunInv'
<1> SUFFICES ASSUME RunInv, [Next]_vars PROVE RunInv'
  OBVIOUS
<1>1. ASSUME NEW f \in Findings, Start(f) PROVE RunInv'
  BY <1>1, QuietStep DEF Start, jailVars, disk
<1>2. CASE Quit \/ Check \/ Die
  BY <1>2, QuietStep DEF Quit, Check, Die, FailedWrite, jailVars, disk
<1>3. CASE Load
  BY <1>3 DEF Load, disk, RunInv, JailsSound, RunFollowsFile, Lapsed
<1>4. CASE Update
  BY <1>4, UpdateStep
<1>5. CASE FillNext
  BY <1>5, FillStep
<1>6. CASE Save
  <2>1. CASE jailFile' = SavedJail /\ pc' = "write"
    BY <1>6, <2>1 DEF Save, SavedJail, jailVars, RunInv, JailsSound, RunFollowsFile, Lapsed
  <2>2. CASE SaveFails
    BY <1>6, <2>2, QuietStep DEF Save, SaveFails, FailedWrite, jailVars, disk
  <2> QED BY <1>6, <2>1, <2>2 DEF Save
<1>7. CASE Write
  BY <1>7, QuietStep DEF Write, FailedWrite, jailVars, disk
<1>8. CASE Tick
  BY <1>8, TickStep
<1>9. CASE UNCHANGED vars
  BY <1>9, QuietStep DEF vars, jailVars, disk
<1> QED BY <1>1, <1>2, <1>3, <1>4, <1>5, <1>6, <1>7, <1>8, <1>9 DEF Next

----------------------------------------------------------------------------
(* What a save keeps.                                                      *)

(* Each range of the former jail file is kept, in its cell or a deeper one. *)
KeepsRanges ==
  \A s \in SavedSlots : \E c \in J!Cells : \E i \in DOMAIN jailFile'.cells[c] :
    /\ s[1] <= c
    /\ Addresses(Saved(s).cidr) \subseteq Addresses(jailFile'.cells[c][i].cidr)

LEMMA SavedSlotFacts ==
  ASSUME NEW s \in SavedSlots
  PROVE  /\ s = <<s[1], s[2]>> /\ s[1] \in J!Cells /\ s[2] \in DOMAIN jailFile.cells[s[1]]
         /\ Saved(s) = jailFile.cells[s[1]][s[2]]
BY DEF SavedSlots, Saved

LEMMA SaveKeepsRanges == RunInv /\ [Next]_vars => KeepsRanges
<1> SUFFICES ASSUME RunInv, [Next]_vars, NEW s \in SavedSlots
             PROVE  \E c \in J!Cells : \E i \in DOMAIN jailFile'.cells[c] :
                      /\ s[1] <= c
                      /\ Addresses(Saved(s).cidr) \subseteq Addresses(jailFile'.cells[c][i].cidr)
  BY DEF KeepsRanges
<1>1. /\ s[1] \in J!Cells /\ s[2] \in DOMAIN jailFile.cells[s[1]]
      /\ Saved(s) = jailFile.cells[s[1]][s[2]]
  BY SavedSlotFacts
<1>2. CASE jailFile' = jailFile
  <2>1. s[1] <= s[1]
    BY <1>1 DEF J!Cells
  <2> QED BY <1>1, <1>2, <2>1
<1>3. CASE Save /\ jailFile' = SavedJail
  <2>1. /\ JP!IsLadder(cells) /\ JP!IsLadder(jailFile.cells)
        /\ Remembers(cells, jailFile.cells, now)
    BY <1>3 DEF Save, RunInv, JailsSound, RunFollowsFile, JP!Sound
  <2>2. PICK d, j : d \in JP!Cells /\ j \in DOMAIN cells[d] /\ d >= s[1] /\
          JP!Covers(cells[d][j].cidr, Saved(s).cidr)
    BY <1>1, <2>1, SameSlots DEF Remembers, JP!Held
  <2>3. cells[d][j].cidr \in CIDRs /\ Saved(s).cidr \in CIDRs
    <3>1. cells[d][j] \in JP!Prisoner /\ Saved(s) \in JP!Prisoner
      BY <1>1, <2>1, <2>2, SameSlots DEF JP!IsLadder
    <3> QED BY <3>1 DEF JP!Prisoner
  <2>4. Addresses(Saved(s).cidr) \subseteq Addresses(cells[d][j].cidr)
    BY <2>2, <2>3, CoversAddresses
  <2>5. d \in J!Cells /\ s[1] <= d /\ jailFile'.cells = cells
    BY <1>1, <1>3, <2>2, SameSlots DEF SavedJail, J!Cells
  <2> QED BY <2>2, <2>4, <2>5
<1>4. jailFile' = jailFile \/ (Save /\ jailFile' = SavedJail)
  BY DEF Next, Start, Quit, Check, Load, Update, FillNext, Save, SaveFails, FailedWrite,
         Write, Die, Tick, disk, vars
<1> QED BY <1>2, <1>3, <1>4

----------------------------------------------------------------------------
(* What a ban file is made of.                                             *)

(* What ComposeBanLists leaves of some ranges.                             *)
LEMMA RemainingAddresses ==
  ASSUME NEW R, NEW W
  PROVE  UNION RemoveWhitelisted(R, W) = Covered(R) \ Covered(W)
<1> DEFINE C == Covered(W)
           A(r) == Addresses(r)
<1>1. UNION ({A(r) \ C : r \in R} \ {{}}) = (UNION {A(r) : r \in R}) \ C
  <2> HIDE DEF C, A
  <2>1. ASSUME NEW a \in UNION ({A(r) \ C : r \in R} \ {{}})
        PROVE  a \in (UNION {A(r) : r \in R}) \ C
    <3>1. PICK s \in {A(r) \ C : r \in R} : a \in s
      BY <2>1
    <3>2. PICK r \in R : s = A(r) \ C
      BY <3>1
    <3> QED BY <3>1, <3>2
  <2>2. ASSUME NEW a \in (UNION {A(r) : r \in R}) \ C
        PROVE  a \in UNION ({A(r) \ C : r \in R} \ {{}})
    <3>1. PICK r \in R : a \in A(r)
      BY <2>2
    <3>2. a \in A(r) \ C /\ A(r) \ C \in {A(q) \ C : q \in R}
      BY <2>2, <3>1
    <3> QED BY <3>2
  <2> QED BY <2>1, <2>2
<1> QED BY <1>1 DEF RemoveWhitelisted, Covered

(* A ban file is written from the bans of the jail file as it is.          *)
LEMMA BannedNext ==
  ASSUME RunInv, [Next]_vars
  PROVE  \/ banFile' = banFile
         \/ /\ Write /\ cells = jailFile.cells /\ jailFile' = jailFile
            /\ Banned' = Covered(ActiveBans) \ Covered(AllWhitelists)
<1>1. CASE Write /\ banFile' = ComposeBanLists(ActiveBans, Blacklist, AllWhitelists)
  <2>1. banFile'.bans = RemoveWhitelisted(ActiveBans, AllWhitelists)
    BY <1>1 DEF ComposeBanLists
  <2>2. Banned' = Covered(ActiveBans) \ Covered(AllWhitelists)
    BY <2>1, RemainingAddresses DEF Banned
  <2>3. jailFile' = jailFile \/ banFile' = banFile
    BY <1>1 DEF Write, FailedWrite, disk
  <2> QED BY <1>1, <2>2, <2>3 DEF Write, RunInv, RunFollowsFile
<1>2. \/ banFile' = banFile
      \/ Write /\ banFile' = ComposeBanLists(ActiveBans, Blacklist, AllWhitelists)
  BY DEF Next, Start, Quit, Check, Load, Update, FillNext, Save, SaveFails, FailedWrite,
         Write, Die, Tick, disk, vars
<1> QED BY <1>1, <1>2

(* While the jail is the saved one, the active bans are the saved ones.    *)
LEMMA ActiveBansAreSaved ==
  ASSUME cells = jailFile.cells
  PROVE  ActiveBans = {Saved(s).cidr : s \in {t \in SavedSlots : Saved(t).active}}
BY DEF ActiveBans, SavedSlots, Saved, J!Slots, J!At

----------------------------------------------------------------------------
(* The theorems.                                                           *)

LEMMA RunInvHolds == Spec => []RunInv
BY InitRunInv, NextRunInv, PTL DEF Spec

(* The ban file never runs ahead of the jail file, whatever run failed,    *)
(* died or was quit.                                                       *)
THEOREM BannedIsSavedHolds == Spec => []BannedIsSaved
<1>1. Init => BannedIsSaved
  BY DEF Init, NoLists, BannedIsSaved, Banned
<1>2. RunInv /\ BannedIsSaved /\ [Next]_vars => BannedIsSaved'
  <2> SUFFICES ASSUME RunInv, BannedIsSaved, [Next]_vars, NEW a \in Banned'
               PROVE  a \in Covered({Saved(s).cidr : s \in SavedSlots})'
    BY DEF BannedIsSaved
  <2>1. \E s \in SavedSlots : a \in Addresses(Saved(s).cidr)
    <3>1. CASE banFile' = banFile
      BY <3>1 DEF BannedIsSaved, Banned, Covered
    <3>2. CASE cells = jailFile.cells /\ a \in Covered(ActiveBans)
      <4>1. a \in Covered({Saved(s).cidr : s \in {t \in SavedSlots : Saved(t).active}})
        BY <3>2, ActiveBansAreSaved
      <4> QED BY <4>1 DEF Covered
    <3> QED BY <3>1, <3>2, BannedNext
  <2>2. PICK s \in SavedSlots : a \in Addresses(Saved(s).cidr)
    BY <2>1
  <2>3. PICK c \in J!Cells : \E i \in DOMAIN jailFile'.cells[c] :
          a \in Addresses(jailFile'.cells[c][i].cidr)
    BY <2>2, SaveKeepsRanges DEF KeepsRanges
  <2>4. PICK i \in DOMAIN jailFile'.cells[c] : a \in Addresses(jailFile'.cells[c][i].cidr)
    BY <2>3
  <2>5. <<c, i>> \in SavedSlots' /\ Saved(<<c, i>>)' = jailFile'.cells[c][i]
    BY <2>4 DEF SavedSlots, Saved
  <2> QED BY <2>4, <2>5 DEF Covered, Addresses
<1> QED BY <1>1, <1>2, RunInvHolds, PTL DEF Spec

(* No published ban is lifted while the saved jail has a running ban on    *)
(* the address, unless a whitelist has it.                                 *)
LiftsOnlyOver ==
  \A a \in Banned \ Banned' :
    \/ a \in Covered(AllWhitelists)
    \/ \A s \in SavedSlots : SavedRunning(s) => a \notin Addresses(Saved(s).cidr)

(* Bans and escalation are carried over from run to run.                   *)
THEOREM BansCarryOverHolds == Spec => BansCarryOver
<1>1. RunInv /\ [Next]_vars => [LiftsOnlyOver]_vars
  <2> SUFFICES ASSUME RunInv, [Next]_vars, NEW a \in Banned \ Banned',
                      a \notin Covered(AllWhitelists),
                      NEW s \in SavedSlots, SavedRunning(s)
               PROVE  a \notin Addresses(Saved(s).cidr)
    BY DEF LiftsOnlyOver
  <2>1. banFile' # banFile
    BY DEF Banned
  <2>2. cells = jailFile.cells /\ a \notin Covered(ActiveBans)
    BY <2>1, BannedNext
  <2>3. Saved(s).cidr \in ActiveBans
    BY <2>2, ActiveBansAreSaved DEF SavedRunning
  <2> QED BY <2>2, <2>3 DEF Covered
<1>2. RunInv /\ [Next]_vars => [KeepsRanges]_vars
  BY SaveKeepsRanges
<1> QED BY <1>1, <1>2, RunInvHolds, PTL DEF Spec, BansCarryOver, LiftsOnlyOver, KeepsRanges
=============================================================================
