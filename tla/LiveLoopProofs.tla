-------------------------- MODULE LiveLoopProofs --------------------------
(***************************************************************************)
(* What the live loop promises about the ban file and its served copy, for *)
(* every jail, whitelist, traffic and any number of failing writes and     *)
(* crashes.  First what the ban file, its change-detection key and its     *)
(* served copy have to do with each other (LoopInv), then what whitelisted *)
(* User-Agents suppress (UAInv), then how detections get through the jail  *)
(* into the ban file (PassInv), with the facts about the jail's operations *)
(* that JailProofs (JP) has.                                               *)
(***************************************************************************)
EXTENDS LiveLoop, FiniteSetTheorems, FunctionTheorems, TLAPS

JP == INSTANCE JailProofs WITH BadStrings <- {}, MaxBatch <- 0

(* Inductive strengthening: the served copy follows the disk as the key    *)
(* does, but between a write and the publication after it.                 *)
ContentIsOnDisk == banKeyValid => banContent = banFile

SnapshotIsOnDisk ==
  banKeyValid /\ pc \notin {"publish", "down"} /\ snapshot # <<>> =>
    snapshot[1].bans = banFile

LoopInv ==
  /\ WhitelistNeverBanned
  /\ KeyIsOnDisk
  /\ ContentIsOnDisk
  /\ SnapshotIsOnDisk

(* A step that leaves the published lists and the snapshot alone keeps the *)
(* invariant, unless it comes from a publication or a restart.             *)
LEMMA QuietStep ==
  ASSUME LoopInv,
         UNCHANGED <<publishVars, snapshot>>,
         pc' = pc \/ pc' = "down" \/ pc \notin {"publish", "down"}
  PROVE  LoopInv'
  BY DEF LoopInv, WhitelistNeverBanned, KeyIsOnDisk, ContentIsOnDisk,
         SnapshotIsOnDisk, Banned, publishVars

LEMMA CoveredIsMonotonic ==
  ASSUME NEW R, NEW S, R \subseteq S
  PROVE  Covered(R) \subseteq Covered(S)
  BY DEF Covered

(* What a composition publishes leaves out the whitelist file.             *)
LEMMA RemovedIsClean ==
  ASSUME NEW R, NEW W
  PROVE  \A a \in UNION RemoveWhitelisted(R, W) : a \notin Covered(W)
<1> DEFINE C == Covered(W)
<1> HIDE DEF C
<1>1. \A a \in UNION ({Addresses(r) \ C : r \in R} \ {{}}) : a \notin C
  OBVIOUS
<1> QED BY <1>1 DEF RemoveWhitelisted, C

LEMMA ComposedIsClean ==
  ((UNION BanLists.bans) \cup (UNION BanLists.black)) \cap Covered(Whitelist) = {}
<1>1. Covered(Whitelist) \subseteq Covered(AllWhitelists)
  <2>1. Whitelist \subseteq AllWhitelists
    BY DEF AllWhitelists
  <2> QED BY <2>1, CoveredIsMonotonic
<1>2. \A a \in UNION BanLists.bans : a \notin Covered(AllWhitelists)
  <2>1. BanLists.bans = RemoveWhitelisted(ActiveBans, AllWhitelists)
    BY DEF BanLists, ComposeBanLists
  <2> QED BY <2>1, RemovedIsClean
<1>3. \A a \in UNION BanLists.black : a \notin Covered(AllWhitelists)
  <2>1. BanLists.black = RemoveWhitelisted(Blacklist, AllWhitelists)
    BY DEF BanLists, ComposeBanLists
  <2> QED BY <2>1, RemovedIsClean
<1> QED BY <1>1, <1>2, <1>3

LEMMA WriteStep ==
  ASSUME LoopInv, WriteBanFile
  PROVE  LoopInv'
<1>1. CASE Written
  <2>1. /\ banFile' = BanLists
        /\ lastBanKey' = BanLists
        /\ banContent' = BanLists
        /\ pc' = "publish"
    BY <1>1 DEF Written, Recorded, WriteBanFile
  <2>2. WhitelistNeverBanned'
    <3>1. Covered(Whitelist)' = Covered(Whitelist)
      BY DEF Covered, Addresses
    <3> QED BY <2>1, <3>1, ComposedIsClean DEF WhitelistNeverBanned, Banned
  <2> QED BY <2>1, <2>2 DEF LoopInv, KeyIsOnDisk, ContentIsOnDisk, SnapshotIsOnDisk
<1>2. CASE UNCHANGED publishVars
  <2>1. UNCHANGED snapshot /\ pc \notin {"publish", "down"}
    BY DEF WriteBanFile, statsVars
  <2> QED BY <1>2, <2>1, QuietStep
<1> QED BY <1>1, <1>2 DEF WriteBanFile, NotWritten

LEMMA PublishStep ==
  ASSUME LoopInv, Publish
  PROVE  LoopInv'
<1>1. /\ UNCHANGED publishVars
      /\ snapshot' = <<[bans |-> banContent, ua |-> uaActive']>>
  BY DEF Publish, Snapshot
<1>2. snapshot'[1].bans = banContent
  BY <1>1
<1>3. /\ WhitelistNeverBanned'
      /\ KeyIsOnDisk'
      /\ ContentIsOnDisk'
  BY <1>1 DEF LoopInv, WhitelistNeverBanned, KeyIsOnDisk, ContentIsOnDisk,
              Banned, publishVars
<1>4. SnapshotIsOnDisk'
  BY <1>1, <1>2, <1>3 DEF SnapshotIsOnDisk, ContentIsOnDisk, publishVars
<1> QED BY <1>3, <1>4 DEF LoopInv

LEMMA RestartStep ==
  ASSUME LoopInv, Restart
  PROVE  LoopInv'
  BY DEF Restart, KeyInit, LoopInv, WhitelistNeverBanned, KeyIsOnDisk,
         ContentIsOnDisk, SnapshotIsOnDisk, Banned

LEMMA InitLoopInv == Init => LoopInv
  BY DEF Init, LoopInv, WhitelistNeverBanned, KeyIsOnDisk, ContentIsOnDisk,
         SnapshotIsOnDisk, NoLists, Banned

LEMMA NextLoopInv == LoopInv /\ [Next]_vars => LoopInv'
<1> SUFFICES ASSUME LoopInv, [Next]_vars PROVE LoopInv'
  OBVIOUS
<1>1. ASSUME NEW b \in Traffic, Iterate(b) PROVE LoopInv'
  BY <1>1, QuietStep DEF Iterate, statsVars
<1>2. CASE Heartbeat
  BY <1>2, QuietStep DEF Heartbeat, statsVars
<1>3. CASE FillNext
  BY <1>3, QuietStep DEF FillNext, statsVars
<1>4. CASE Prune
  BY <1>4, QuietStep DEF Prune, statsVars
<1>5. CASE SaveJail
  BY <1>5, QuietStep DEF SaveJail, statsVars
<1>6. CASE WriteBanFile
  BY <1>6, WriteStep
<1>7. CASE Publish
  BY <1>7, PublishStep
<1>8. CASE Wake
  BY <1>8, QuietStep DEF Wake, statsVars
<1>9. CASE Crash
  BY <1>9, QuietStep DEF Crash, statsVars
<1>10. CASE Restart
  BY <1>10, RestartStep
<1>11. CASE Tick
  BY <1>11, QuietStep DEF Tick, statsVars
<1>12. CASE UNCHANGED vars
  BY <1>12, QuietStep DEF vars, statsVars
<1> QED
  BY <1>1, <1>2, <1>3, <1>4, <1>5, <1>6, <1>7, <1>8, <1>9, <1>10, <1>11, <1>12
  DEF Next, Loop

(* No whitelisted address is ever in the ban file.                         *)
THEOREM WhitelistNeverBannedHolds == Spec => []WhitelistNeverBanned
<1>1. LoopInv => WhitelistNeverBanned
  BY DEF LoopInv
<1> QED BY <1>1, InitLoopInv, NextLoopInv, PTL DEF Spec

(* A valid change-detection key is what the ban file holds.                *)
THEOREM KeyIsOnDiskHolds == Spec => []KeyIsOnDisk
<1>1. LoopInv => KeyIsOnDisk
  BY DEF LoopInv
<1> QED BY <1>1, InitLoopInv, NextLoopInv, PTL DEF Spec

(* After the first successful write of a process, /bans serves what is on  *)
(* disk.                                                                   *)
THEOREM ServedIsOnDiskHolds == Spec => []ServedIsOnDisk
<1>1. LoopInv => ServedIsOnDisk
  BY DEF LoopInv, SnapshotIsOnDisk, ServedIsOnDisk
<1> QED BY <1>1, InitLoopInv, NextLoopInv, PTL DEF Spec

----------------------------------------------------------------------------
(* Suppression and early lifts.                                            *)

(* No tracked address outlives its window, counted from the latest refresh *)
(* of the jail: the purge goes with every refresh.                         *)
UAInv ==
  /\ DOMAIN uaWhite \subseteq Addr
  /\ \A a \in DOMAIN uaWhite : uaWhite[a] >= refreshed - UAWindow

LEMMA PurgeKeeps ==
  ASSUME NEW m, DOMAIN m \subseteq Addr, uaWhite' = Purged(m), refreshed' = now
  PROVE  UAInv'
  BY DEF UAInv, Purged

LEMMA NextUAInv == UAInv /\ [Next]_vars => UAInv'
<1> SUFFICES ASSUME UAInv, [Next]_vars PROVE UAInv'
  OBVIOUS
<1>1. ASSUME NEW b \in Traffic, Iterate(b) PROVE UAInv'
  <2>1. uaWhite' = Purged(Seen(uaWhite, b.white)) /\ refreshed' = now
    BY <1>1 DEF Iterate, J!BeginUpdate
  <2>2. DOMAIN Seen(uaWhite, b.white) \subseteq Addr
    BY TrafficAssumption DEF Seen, UAInv
  <2> QED BY <2>1, <2>2, PurgeKeeps
<1>2. CASE Heartbeat
  <2>1. uaWhite' = Purged(uaWhite) /\ refreshed' = now
    BY <1>2 DEF Heartbeat, HeartbeatPurge, HeartbeatRefresh, J!BeginUpdate
  <2> QED BY <2>1, PurgeKeeps DEF UAInv
<1>3. CASE Restart
  BY <1>3 DEF Restart, NoneSeen, UAInv
<1>4. ASSUME UNCHANGED <<uaWhite, refreshed>> PROVE UAInv'
  BY <1>4 DEF UAInv
<1>5. CASE FillNext \/ Prune \/ Tick
  BY <1>4, <1>5 DEF FillNext, Prune, Tick, J!FillNext, J!Prune, J!Tick, uaVars
<1>6. CASE SaveJail \/ WriteBanFile \/ Publish \/ Wake \/ Crash
  BY <1>4, <1>6 DEF SaveJail, WriteBanFile, Publish, Wake, Crash, uaVars, jailVars
<1>7. CASE UNCHANGED vars
  BY <1>4, <1>7 DEF vars, uaVars, jailVars
<1> QED BY <1>1, <1>2, <1>3, <1>5, <1>6, <1>7 DEF Next, Loop

(* What a composition leaves of the active bans.                           *)
LEMMA ComposedBans == UNION BanLists.bans = Covered(ActiveBans) \ Covered(AllWhitelists)
<1>1. BanLists.bans = RemoveWhitelisted(ActiveBans, AllWhitelists)
  BY DEF BanLists, ComposeBanLists
<1>2. ASSUME NEW R, NEW W PROVE UNION RemoveWhitelisted(R, W) = Covered(R) \ Covered(W)
  <2> DEFINE C == Covered(W)
             A(r) == Addresses(r)
  <2>1. UNION ({A(r) \ C : r \in R} \ {{}}) = (UNION {A(r) : r \in R}) \ C
    <3> HIDE DEF C, A
    <3>1. ASSUME NEW a \in UNION ({A(r) \ C : r \in R} \ {{}})
          PROVE  a \in (UNION {A(r) : r \in R}) \ C
      <4>1. PICK s \in {A(r) \ C : r \in R} : a \in s
        BY <3>1
      <4>2. PICK r \in R : s = A(r) \ C
        BY <4>1
      <4> QED BY <4>1, <4>2
    <3>2. ASSUME NEW a \in (UNION {A(r) : r \in R}) \ C
          PROVE  a \in UNION ({A(r) \ C : r \in R} \ {{}})
      <4>1. PICK r \in R : a \in A(r)
        BY <3>2
      <4>2. a \in A(r) \ C /\ A(r) \ C \in {A(q) \ C : q \in R}
        BY <3>2, <4>1
      <4> QED BY <4>2
    <3> QED BY <3>1, <3>2
  <2> QED BY <2>1 DEF RemoveWhitelisted, Covered
<1> QED BY <1>1, <1>2

(* A whitelisted User-Agent suppresses a ban no longer than its window.    *)
THEOREM SuppressionIsFreshHolds == Spec => []SuppressionIsFresh
<1>1. Init => UAInv
  BY DEF Init, NoneSeen, UAInv
<1>2. UAInv => SuppressionIsFresh
  <2> SUFFICES ASSUME UAInv, banFile = BanLists,
                      NEW a \in Covered(ActiveBans) \ (Banned \cup Covered(Whitelist))
               PROVE  a \in DOMAIN uaWhite /\ uaWhite[a] >= refreshed - UAWindow
    BY DEF SuppressionIsFresh
  <2>1. a \in Covered(AllWhitelists) /\ a \notin Covered(Whitelist)
    BY ComposedBans DEF Banned
  <2>2. PICK b \in DOMAIN uaWhite : a \in Addresses(Host[b])
    BY <2>1 DEF AllWhitelists, Covered
  <2>3. a = b
    BY <2>2, HostAssumption DEF UAInv
  <2> QED BY <2>2, <2>3 DEF UAInv
<1> QED BY <1>1, <1>2, NextUAInv, PTL DEF Spec

KeepsRunning ==
  \A a \in Banned : a \notin Banned' => ~ Running(a) \/ a \in Covered(AllWhitelists)

(* No step lifts the published ban of an address while the jail has a      *)
(* running ban on it, unless the address is whitelisted.                   *)
THEOREM NoEarlyLiftHolds == Spec => NoEarlyLift
<1>1. [Next]_vars => [KeepsRunning]_vars
  <2> SUFFICES ASSUME [Next]_vars, NEW a \in Banned, a \notin Banned', Running(a)
               PROVE  a \in Covered(AllWhitelists)
    BY DEF KeepsRunning
  <2>1. a \in Covered(ActiveBans)
    BY DEF Running, ActiveBans, Covered
  <2>2. CASE banFile' = banFile
    BY <2>2 DEF Banned
  <2>3. CASE banFile' = BanLists
    BY <2>1, <2>3, ComposedBans DEF Banned
  <2>4. banFile' = banFile \/ banFile' = BanLists
    BY DEF Next, Loop, Iterate, Heartbeat, FillNext, Prune, SaveJail, WriteBanFile, Written,
           NotWritten, Publish, Wake, Crash, Restart, Tick, publishVars, vars
  <2> QED BY <2>2, <2>3, <2>4
<1> QED BY <1>1, PTL DEF Spec, NoEarlyLift, KeepsRunning

----------------------------------------------------------------------------
(* The loop's jail is a jail as JailProofs has it.                         *)

(* The assumptions of Jail, for the instance.                              *)
JailIsSized ==
  /\ NumCells \in Nat \ {0}
  /\ BanDuration \in [JP!Cells -> Nat]
  /\ Bounds \in [CIDRs -> [ok : BOOLEAN, start : Nat, end : Nat]]
  /\ {} \cap CIDRs = {}
  /\ 0 \in Nat /\ MaxTime \in Nat

LEMMA Sized == JailIsSized
BY JailAssumption DEF JailIsSized, JP!Cells

LEMMA SameSlots ==
  /\ J!Cells = JP!Cells
  /\ J!Slots = JP!Slots
  /\ \A s : J!At(s) = JP!At(s)
BY DEF J!Slots, JP!Slots, J!Cells, JP!Cells, J!At, JP!At

LEMMA SameFill ==
  ASSUME NEW r
  PROVE  J!Fill(r) <=> JP!Fill(r)
BY DEF J!Fill, J!FillResident, J!FillAbsorb, J!FillCovered, J!FillFresh,
       J!SameRange, J!SubRanges, J!ParentRanges, J!Slots, J!Cells, J!At, J!Within,
       J!FirstSlot, J!Before, J!Redetect, J!Moved, J!Renewed, J!Jailed, J!Released,
       J!Compact, J!Nth, J!Absorbed, J!Carried, J!Deepest, J!NextCell, J!Throw,
       J!Listed, J!Unlisted, J!Cardinality,
       JP!Fill, JP!FillResident, JP!FillAbsorb, JP!FillCovered, JP!FillFresh,
       JP!SameRange, JP!SubRanges, JP!ParentRanges, JP!Slots, JP!Cells, JP!At, JP!Within,
       JP!FirstSlot, JP!Before, JP!Redetect, JP!Moved, JP!Renewed, JP!Jailed, JP!Released,
       JP!Compact, JP!Nth, JP!Absorbed, JP!Carried, JP!Deepest, JP!NextCell, JP!Throw,
       JP!Listed, JP!Unlisted, JP!Cardinality

LEMMA SameRefresh == J!Refreshed = JP!Refreshed
BY DEF J!Refreshed, J!Cells, J!BanIsOver, J!At,
       JP!Refreshed, JP!Cells, JP!BanIsOver, JP!At

LEMMA SamePrune == J!Prune => JP!Prune
BY DEF J!Prune, J!Slots, J!Cells, J!At, J!Expiry, J!RetentionHorizon, J!Stale, J!Idle,
       J!Rebuilt, J!Released, J!Compact, J!Nth, J!Cardinality,
       JP!Prune, JP!Slots, JP!Cells, JP!At, JP!Expiry, JP!RetentionHorizon, JP!Stale,
       JP!Idle, JP!Rebuilt, JP!Released, JP!Compact, JP!Nth, JP!Cardinality

(* A range that covers another one has its addresses.                      *)
LEMMA CoversAddresses ==
  ASSUME NEW q \in CIDRs, NEW r \in CIDRs, JP!Covers(q, r)
  PROVE  Addresses(r) \subseteq Addresses(q)
BY JailAssumption DEF JP!Covers, JP!Within, Addresses

----------------------------------------------------------------------------
(* The argument of the jail's Update.                                      *)

LEMMA CompactIsSeq ==
  ASSUME NEW s \in Seq(CIDRs), NEW K \in SUBSET (DOMAIN s)
  PROVE  Compact(s, K) \in Seq(CIDRs)
<1>1. PICK n \in Nat : DOMAIN s = 1..n /\ \A i \in 1..n : s[i] \in CIDRs
  OBVIOUS
<1>2. /\ JP!Cardinality(K) \in Nat
      /\ \A k \in 1..JP!Cardinality(K) : JP!Nth(K, k) \in K
  BY <1>1, JP!NthBijective, Sized DEF JailIsSized
<1>3. JP!Cardinality(K) = Cardinality(K) /\ \A k : JP!Nth(K, k) = Nth(K, k)
  BY DEF JP!Cardinality, Cardinality, JP!Nth, Nth
<1> QED BY <1>1, <1>2, <1>3 DEF Compact

(* A range over a finite map visits every key.                             *)
LEMMA OrderVisitsAll ==
  ASSUME NEW S, IsFiniteSet(S), NEW o \in Orders(S), NEW a \in S
  PROVE  \E i \in DOMAIN o : o[i] = a
<1> DEFINE D == 1..Cardinality(S)
<1>1. Cardinality(S) \in Nat
  BY FS_CardinalityType
<1>2. IsFiniteSet(D) /\ Cardinality(D) = Cardinality(S)
  BY <1>1, FS_Interval
<1>3. o \in [D -> S] /\ \A i, j \in D : o[i] = o[j] => i = j
  BY DEF Orders
<1> HIDE DEF D
<1>4. o \in Injection(D, S)
  BY <1>3, Fun_IsInj
<1>5. o \in Surjection(D, S)
  BY <1>2, <1>4, FS_Injection
<1> QED BY <1>3, <1>5 DEF Surjection

LEMMA ToJailFacts ==
  ASSUME NEW d \in Seq(CIDRs), NEW S \in SUBSET Addr, IsFiniteSet(S), NEW o \in Orders(S)
  PROVE  /\ ToJail(d, o) \in Seq(CIDRs)
         /\ \A a \in S : \E k \in DOMAIN ToJail(d, o) : ToJail(d, o)[k] = Host[a]
<1> DEFINE n == Cardinality(S)
           h == [i \in DOMAIN o |-> Host[o[i]]]
<1>1. n \in Nat
  BY FS_CardinalityType
<1>2. o \in [1..n -> S]
  BY DEF Orders
<1>3. h \in Seq(CIDRs) /\ Len(h) = n /\ \A i \in 1..n : h[i] = Host[o[i]]
  BY <1>1, <1>2, HostAssumption
<1>4. ToJail(d, o) = d \o h
  BY DEF ToJail
<1> HIDE DEF h, n
<1>5. /\ d \o h \in Seq(CIDRs)
      /\ DOMAIN (d \o h) = 1..(Len(d) + Len(h))
      /\ \A i \in 1..Len(h) : Len(d) + i \in DOMAIN (d \o h) /\ (d \o h)[Len(d) + i] = h[i]
  BY <1>3
<1>6. ASSUME NEW a \in S PROVE \E k \in DOMAIN (d \o h) : (d \o h)[k] = Host[a]
  <2>1. PICK i \in 1..n : o[i] = a
    BY <1>2, OrderVisitsAll
  <2> QED BY <1>3, <1>5, <2>1
<1> QED BY <1>4, <1>5, <1>6

----------------------------------------------------------------------------
(* Detections reach the ban file.                                          *)

(* The jail in memory and the one on disk are sound, and their inactive    *)
(* bans are over: a restart may take up the jail of any earlier pass.      *)
JailsSound ==
  /\ now \in Nat /\ refreshed \in Nat /\ refreshed <= now
  /\ JP!Sound(cells, allCIDRs) /\ JP!Truthful(cells, now, 0)
  /\ JP!Sound(jailFile.cells, jailFile.allCIDRs) /\ JP!Truthful(jailFile.cells, now, 0)

(* What a pass is to fill, the tracked addresses and the failures counted. *)
QueueTyped ==
  /\ failures \in Nat
  /\ todo \in Seq(CIDRs) /\ filled \subseteq CIDRs
  /\ DOMAIN uaBlack \subseteq Addr /\ IsFiniteSet(DOMAIN uaBlack)

(* From the refresh to the ban file, what the pass has filled is held.     *)
FilledIsHeld ==
  /\ pc = "fill" => JP!Truthful(cells, now, refreshed)
  /\ pc \in {"fill", "save", "write"} => \A q \in filled : JP!Held(cells, q, 1, TRUE)

(* An iteration fills every tracked address of a blacklisted User-Agent.   *)
Waiting(a) == \E k \in DOMAIN todo : todo[k] = Host[a]

BlackIsFilled ==
  ~ beat /\ pc \in {"fill", "save", "write"} =>
    \A a \in DOMAIN uaBlack : Host[a] \in filled \/ (pc = "fill" /\ Waiting(a))

PassInv == JailsSound /\ QueueTyped /\ FilledIsHeld /\ BlackIsFilled

LEMMA InitPassInv == Init => PassInv
<1> SUFFICES ASSUME Init PROVE PassInv
  OBVIOUS
<1>1. JP!Init
  BY DEF Init, J!Init, JP!Init, J!Cells, JP!Cells
<1>2. JP!BanInv
  BY <1>1, JP!InitBanInv, Sized DEF JailIsSized
<1>3. JP!Sound(cells, allCIDRs) /\ JP!Truthful(cells, now, refreshed) /\ refreshed <= now
      /\ now \in Nat /\ refreshed = 0
  BY <1>1, <1>2 DEF JP!BanInv, JP!JailInv, JP!TypeOK, JP!Init
<1>4. DOMAIN uaBlack = {} /\ IsFiniteSet(DOMAIN uaBlack)
  BY FS_EmptySet DEF Init, NoneSeen
<1> QED BY <1>1, <1>3, <1>4 DEF Init, JP!Init, PassInv, JailsSound, QueueTyped,
                                FilledIsHeld, BlackIsFilled

(* A step that leaves the jail, its queue and the tracked addresses alone, *)
(* after the queue was emptied or out of a pass.                           *)
LEMMA QuietPass ==
  ASSUME PassInv, UNCHANGED <<cells, allCIDRs, now, refreshed, todo, filled, uaBlack, beat>>,
         failures' \in Nat,
         jailFile' = jailFile \/ jailFile' = [cells |-> cells, allCIDRs |-> allCIDRs],
         pc' \in {"publish", "sleep", "read", "down"} \/ pc' = pc \/ (pc = "save" /\ pc' = "write")
  PROVE  PassInv'
<1>1. JailsSound'
  BY DEF PassInv, JailsSound
<1>2. QueueTyped'
  BY DEF PassInv, QueueTyped
<1>3. FilledIsHeld'
  BY DEF PassInv, FilledIsHeld
<1>4. BlackIsFilled'
  BY DEF PassInv, BlackIsFilled, Waiting
<1> QED BY <1>1, <1>2, <1>3, <1>4 DEF PassInv

LEMMA PurgedFacts ==
  ASSUME NEW m, NEW S, S \subseteq Addr, IsFiniteSet(S),
         DOMAIN m \subseteq Addr, IsFiniteSet(DOMAIN m)
  PROVE  /\ DOMAIN Purged(Seen(m, S)) \subseteq Addr /\ IsFiniteSet(DOMAIN Purged(Seen(m, S)))
         /\ DOMAIN Purged(m) \subseteq Addr /\ IsFiniteSet(DOMAIN Purged(m))
<1>1. /\ DOMAIN Purged(m) \subseteq DOMAIN m
      /\ DOMAIN Purged(Seen(m, S)) \subseteq DOMAIN m \cup S
  BY DEF Purged, Seen
<1>2. IsFiniteSet(DOMAIN m \cup S)
  BY FS_Union
<1> QED BY <1>1, <1>2, FS_Subset

(* The refresh at the start of an iteration or a heartbeat.                *)
LEMMA RefreshPass ==
  ASSUME PassInv, NEW batch \in Seq(CIDRs), J!BeginUpdate(batch), pc' = "fill",
         UNCHANGED <<jailFile, failures>>,
         DOMAIN uaBlack' \subseteq Addr, IsFiniteSet(DOMAIN uaBlack'),
         beat' \/ \A a \in DOMAIN uaBlack' : \E k \in DOMAIN batch : batch[k] = Host[a]
  PROVE  PassInv'
<1>1. /\ cells' = JP!Refreshed /\ refreshed' = now /\ todo' = batch /\ filled' = {}
      /\ UNCHANGED <<allCIDRs, now>>
  BY SameRefresh DEF J!BeginUpdate
<1>2. /\ JP!Sound(cells, allCIDRs) /\ JP!IsLadder(cells) /\ JP!Truthful(cells, now, 0)
      /\ now \in Nat
  BY DEF PassInv, JailsSound, JP!Sound
<1>3. JP!Truthful(JP!Refreshed, now, now)
  BY <1>2, JP!RefreshFacts, Sized DEF JailIsSized
<1>4. JP!Sound(JP!Refreshed, allCIDRs)
  BY <1>2, JP!RefreshedSound, Sized DEF JailIsSized
<1>5. JP!Truthful(JP!Refreshed, now, 0)
  <2>1. JP!IsLadder(JP!Refreshed)
    BY <1>4 DEF JP!Sound
  <2> QED BY <1>2, <1>3, <2>1, JP!TruthfulLapses, Sized DEF JailIsSized
<1>6. JailsSound'
  BY <1>1, <1>2, <1>4, <1>5 DEF PassInv, JailsSound
<1>7. QueueTyped' /\ FilledIsHeld' /\ BlackIsFilled'
  BY <1>1, <1>3 DEF PassInv, QueueTyped, FilledIsHeld, BlackIsFilled, Waiting
<1> QED BY <1>6, <1>7 DEF PassInv

LEMMA IteratePass ==
  ASSUME PassInv, NEW b \in Traffic, Iterate(b)
  PROVE  PassInv'
<1>1. /\ uaBlack' = Purged(Seen(uaBlack, b.black)) /\ pc' = "fill" /\ UNCHANGED <<jailFile, failures>>
      /\ \E order \in Orders(DOMAIN uaBlack') :
           J!BeginUpdate(ToJail(DropFullyWhitelisted(b.detected, AllWhitelists'), order))
  BY DEF Iterate, bounds
<1>2. DOMAIN uaBlack' \subseteq Addr /\ IsFiniteSet(DOMAIN uaBlack')
  BY <1>1, PurgedFacts, TrafficAssumption DEF PassInv, QueueTyped
<1>3. PICK order \in Orders(DOMAIN uaBlack') :
        J!BeginUpdate(ToJail(DropFullyWhitelisted(b.detected, AllWhitelists'), order))
  BY <1>1
<1> DEFINE d == DropFullyWhitelisted(b.detected, AllWhitelists')
<1>4. d \in Seq(CIDRs)
  BY CompactIsSeq, TrafficAssumption DEF DropFullyWhitelisted
<1> HIDE DEF d
<1>5. /\ ToJail(d, order) \in Seq(CIDRs)
      /\ \A a \in DOMAIN uaBlack' :
           \E k \in DOMAIN ToJail(d, order) : ToJail(d, order)[k] = Host[a]
  BY <1>2, <1>4, ToJailFacts
<1>6. J!BeginUpdate(ToJail(d, order))
  BY <1>3 DEF d
<1> QED BY <1>1, <1>2, <1>5, <1>6, RefreshPass

LEMMA HeartbeatPass ==
  ASSUME PassInv, Heartbeat
  PROVE  PassInv'
<1>1. /\ uaBlack' = Purged(uaBlack) /\ pc' = "fill" /\ UNCHANGED <<jailFile, failures>>
      /\ beat' = TRUE /\ J!BeginUpdate(<<>>)
  BY DEF Heartbeat, bounds, HeartbeatPurge, HeartbeatRefresh
<1>2. DOMAIN uaBlack' \subseteq Addr /\ IsFiniteSet(DOMAIN uaBlack')
  BY <1>1, PurgedFacts DEF PassInv, QueueTyped
<1>3. <<>> \in Seq(CIDRs)
  OBVIOUS
<1> QED BY <1>1, <1>2, <1>3, RefreshPass

LEMMA FillPass ==
  ASSUME PassInv, FillNext
  PROVE  PassInv'
<1> DEFINE r == Head(todo)
<1>1. /\ r \in CIDRs /\ J!Fill(r) /\ todo # <<>> /\ todo' = Tail(todo)
      /\ filled' = filled \cup {r} /\ pc = "fill" /\ pc' = "fill"
      /\ UNCHANGED <<now, refreshed, beat, uaBlack, jailFile, failures>>
  BY DEF FillNext, J!FillNext, J!Idle, uaVars, bounds
<1>2. /\ todo \in Seq(CIDRs) /\ Tail(todo) \in Seq(CIDRs) /\ r = todo[1]
      /\ \A k \in DOMAIN todo : k = 1 \/ (k - 1 \in DOMAIN Tail(todo) /\ Tail(todo)[k - 1] = todo[k])
  BY <1>1 DEF PassInv, QueueTyped
<1> HIDE DEF r
<1>3. JP!Fill(r)
  BY <1>1, SameFill
<1>4. /\ JP!Sound(cells, allCIDRs) /\ JP!IsLadder(cells)
      /\ now \in Nat /\ refreshed \in Nat /\ refreshed <= now
      /\ JP!Truthful(cells, now, refreshed)
  BY <1>1 DEF PassInv, JailsSound, FilledIsHeld, JP!Sound
<1>5. JP!Sound(cells', allCIDRs') /\ JP!IsLadder(cells')
  BY <1>1, <1>3, <1>4, JP!FillSound, Sized DEF JailIsSized, JP!Sound
<1>6. /\ JP!Kept(cells') /\ JP!Held(cells', r, 1, TRUE)
      /\ JP!Truthful(cells', now, refreshed)
  <2>1. JP!Filled(cells', r)
    BY <1>1, <1>3, <1>4, JP!FillFills, Sized DEF JailIsSized
  <2> QED BY <2>1 DEF JP!Filled
<1>7. \A q \in filled : JP!Held(cells', q, 1, TRUE)
  <2> SUFFICES ASSUME NEW q \in filled PROVE JP!Held(cells', q, 1, TRUE)
    OBVIOUS
  <2>1. q \in CIDRs /\ JP!Held(cells, q, 1, TRUE)
    BY <1>1 DEF PassInv, QueueTyped, FilledIsHeld
  <2>2. 1 \in JP!Cells
    BY Sized DEF JailIsSized, JP!Cells
  <2> QED BY <1>4, <1>5, <1>6, <2>1, <2>2, JP!HeldOn, Sized DEF JailIsSized
<1>8. JP!Truthful(cells', now, 0)
  BY <1>4, <1>5, <1>6, JP!TruthfulLapses, Sized DEF JailIsSized
<1>9. JailsSound'
  BY <1>1, <1>5, <1>8 DEF PassInv, JailsSound
<1>10. QueueTyped' /\ FilledIsHeld'
  BY <1>1, <1>2, <1>6, <1>7 DEF PassInv, QueueTyped, FilledIsHeld
<1>11. BlackIsFilled'
  <2> SUFFICES ASSUME ~ beat, NEW a \in DOMAIN uaBlack
               PROVE  Host[a] \in filled' \/ Waiting(a)'
    BY <1>1 DEF BlackIsFilled
  <2>1. Host[a] \in filled \/ Waiting(a)
    BY <1>1 DEF PassInv, BlackIsFilled
  <2> QED BY <1>1, <1>2, <2>1 DEF Waiting
<1> QED BY <1>9, <1>10, <1>11 DEF PassInv

LEMMA PrunePass ==
  ASSUME PassInv, Prune
  PROVE  PassInv'
<1>1. /\ JP!Prune /\ todo = <<>> /\ pc = "fill" /\ pc' \in {"save", "write"}
      /\ UNCHANGED <<now, todo, filled, refreshed, beat, uaBlack, jailFile, failures>>
  BY SamePrune DEF Prune, J!Prune, J!Idle, uaVars, bounds
<1>2. /\ JP!Sound(cells, allCIDRs) /\ JP!IsLadder(cells) /\ now \in Nat
      /\ refreshed \in Nat /\ JP!Truthful(cells, now, refreshed)
  BY <1>1 DEF PassInv, JailsSound, FilledIsHeld, JP!Sound
<1>3. JP!Sound(cells', allCIDRs') /\ JP!IsLadder(cells')
  BY <1>1, <1>2, JP!PruneSound, Sized DEF JailIsSized, JP!Sound
<1>4. /\ \A s \in JP!Slots :
           JP!Stale(s) \/ JP!Held(cells', JP!At(s).cidr, s[1], JP!At(s).active)
      /\ JP!Truthful(cells', now, refreshed)
  BY <1>1, <1>2, JP!PruneFacts, Sized DEF JailIsSized
<1>5. \A s \in JP!Slots : JP!At(s).active => JP!Held(cells', JP!At(s).cidr, s[1], TRUE)
  <2> SUFFICES ASSUME NEW s \in JP!Slots, JP!At(s).active
               PROVE  JP!Held(cells', JP!At(s).cidr, s[1], TRUE)
    OBVIOUS
  <2>1. JP!Held(cells', JP!At(s).cidr, s[1], JP!At(s).active)
    BY <1>4 DEF JP!Stale
  <2> QED BY <2>1 DEF JP!Held
<1>6. \A q \in filled : JP!Held(cells', q, 1, TRUE)
  <2> SUFFICES ASSUME NEW q \in filled PROVE JP!Held(cells', q, 1, TRUE)
    OBVIOUS
  <2>1. q \in CIDRs /\ JP!Held(cells, q, 1, TRUE)
    BY <1>1 DEF PassInv, QueueTyped, FilledIsHeld
  <2> QED BY <1>2, <1>3, <1>5, <2>1, JP!HeldByKept, Sized DEF JailIsSized
<1>7. JP!Truthful(cells', now, 0)
  BY <1>2, <1>3, <1>4, JP!TruthfulLapses, Sized DEF JailIsSized
<1>8. JailsSound'
  BY <1>1, <1>3, <1>7 DEF PassInv, JailsSound
<1>9. QueueTyped' /\ FilledIsHeld'
  BY <1>1, <1>6 DEF PassInv, QueueTyped, FilledIsHeld
<1>10. BlackIsFilled'
  <2>1. \A a : ~ Waiting(a)
    BY <1>1 DEF Waiting
  <2> QED BY <1>1, <2>1 DEF PassInv, BlackIsFilled
<1> QED BY <1>8, <1>9, <1>10 DEF PassInv

LEMMA RestartPass ==
  ASSUME PassInv, Restart
  PROVE  PassInv'
<1>1. IsFiniteSet(DOMAIN uaBlack') /\ DOMAIN uaBlack' = {}
  BY FS_EmptySet DEF Restart, NoneSeen
<1>2. JailsSound'
  BY DEF Restart, PassInv, JailsSound
<1>3. QueueTyped'
  <2>1. todo' = <<>> /\ filled' = {} /\ failures' = failures
    BY DEF Restart, bounds
  <2> QED BY <1>1, <2>1 DEF PassInv, QueueTyped
<1>4. FilledIsHeld' /\ BlackIsFilled'
  BY DEF Restart, FilledIsHeld, BlackIsFilled
<1> QED BY <1>2, <1>3, <1>4 DEF PassInv

LEMMA TickPass ==
  ASSUME PassInv, Tick
  PROVE  PassInv'
<1>1. /\ now' = now + 1
      /\ UNCHANGED <<cells, allCIDRs, refreshed, todo, filled, pc, beat, uaBlack, jailFile,
                   failures>>
  BY DEF Tick, J!Tick, uaVars, bounds
<1>2. now \in Nat /\ now + 1 \in Nat /\ now <= now + 1 /\ refreshed \in Nat
      /\ refreshed <= now + 1 /\ JP!IsLadder(cells) /\ JP!IsLadder(jailFile.cells)
  BY DEF PassInv, JailsSound, JP!Sound
<1>3. JailsSound'
  BY <1>1, <1>2, JP!TruthfulLater, Sized DEF JailIsSized, PassInv, JailsSound
<1>4. FilledIsHeld'
  BY <1>1, <1>2, JP!TruthfulLater, Sized DEF JailIsSized, PassInv, FilledIsHeld
<1>5. QueueTyped' /\ BlackIsFilled'
  BY <1>1 DEF PassInv, QueueTyped, BlackIsFilled, Waiting
<1> QED BY <1>3, <1>4, <1>5 DEF PassInv

LEMMA NextPassInv == PassInv /\ [Next]_vars => PassInv'
<1> SUFFICES ASSUME PassInv, [Next]_vars PROVE PassInv'
  OBVIOUS
<1>1. ASSUME NEW b \in Traffic, Iterate(b) PROVE PassInv'
  BY <1>1, IteratePass
<1>2. CASE SaveJail \/ WriteBanFile \/ Publish \/ Wake \/ Crash
  <2>1. failures' \in Nat
    BY <1>2 DEF SaveJail, WriteBanFile, Publish, Wake, Crash, bounds, PassInv, QueueTyped
  <2> QED BY <1>2, <2>1, QuietPass
          DEF SaveJail, WriteBanFile, Publish, Wake, Crash, uaVars, jailVars
<1>3. CASE UNCHANGED vars
  <2>1. failures' \in Nat
    BY <1>3 DEF vars, bounds, PassInv, QueueTyped
  <2> QED BY <1>3, <2>1, QuietPass DEF vars, uaVars, jailVars
<1> QED
  BY <1>1, <1>2, <1>3, HeartbeatPass, FillPass, PrunePass, RestartPass, TickPass
  DEF Next, Loop

(* What an iteration publishes when its write succeeds.                    *)
PublishesDetections ==
  pc = "write" /\ ~beat /\ pc' = "publish" /\ failures' = failures =>
    (Covered(filled) \cup DOMAIN uaBlack) \ Covered(AllWhitelists) \subseteq Banned'

(* An iteration that writes the ban file publishes every range it detected *)
(* and every tracked address of a blacklisted User-Agent, but for          *)
(* whitelisted addresses.                                                  *)
THEOREM DetectionsPublishedHolds == Spec => DetectionsPublished
<1>1. PassInv /\ [Next]_vars => [PublishesDetections]_vars
  <2> SUFFICES ASSUME PassInv, [Next]_vars,
                      pc = "write", ~ beat, pc' = "publish", failures' = failures,
                      NEW a \in (Covered(filled) \cup DOMAIN uaBlack) \ Covered(AllWhitelists)
               PROVE  a \in Banned'
    BY DEF PublishesDetections
  <2>1. WriteBanFile
    BY DEF Next, Loop, Iterate, Heartbeat, FillNext, Prune, SaveJail, Publish, Wake,
           Crash, Restart, Tick, vars
  <2>2. banFile' = BanLists
    BY <2>1 DEF WriteBanFile, Written, WriteDue, PassInv, QueueTyped
  <2>3. PICK q \in filled : a \in Addresses(q)
    <3>1. CASE a \in Covered(filled)
      BY <3>1 DEF Covered
    <3>2. CASE a \in DOMAIN uaBlack
      <4>1. Host[a] \in filled /\ Addresses(Host[a]) = {a}
        BY <3>2, HostAssumption DEF PassInv, BlackIsFilled, QueueTyped
      <4> QED BY <4>1
    <3> QED BY <3>1, <3>2
  <2>4. PICK d, j : d \in JP!Cells /\ j \in DOMAIN cells[d] /\
          JP!Covers(cells[d][j].cidr, q) /\ cells[d][j].active
    <3>1. JP!Held(cells, q, 1, TRUE)
      BY DEF PassInv, FilledIsHeld
    <3> QED BY <3>1 DEF JP!Held
  <2>5. cells[d][j].cidr \in CIDRs /\ q \in CIDRs
    <3>1. cells[d][j] \in JP!Prisoner
      BY <2>4 DEF PassInv, JailsSound, JP!Sound, JP!IsLadder
    <3> QED BY <3>1 DEF JP!Prisoner, PassInv, QueueTyped
  <2>6. a \in Addresses(cells[d][j].cidr)
    BY <2>3, <2>4, <2>5, CoversAddresses
  <2>7. cells[d][j].cidr \in ActiveBans
    <3>1. <<d, j>> \in J!Slots /\ J!At(<<d, j>>) = cells[d][j]
      BY <2>4, SameSlots, JP!SlotOf, Sized DEF JailIsSized
    <3> QED BY <2>4, <3>1 DEF ActiveBans
  <2>8. a \in Covered(ActiveBans)
    BY <2>6, <2>7 DEF Covered
  <2> QED BY <2>2, <2>8, ComposedBans DEF Banned
<1> QED BY <1>1, InitPassInv, NextPassInv, PTL DEF Spec, DetectionsPublished, PublishesDetections
=============================================================================
