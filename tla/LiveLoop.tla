----------------------------- MODULE LiveLoop -----------------------------
(***************************************************************************)
(* The live loop of flokbn (cli/api.go, runLiveLoop and runHeartbeat): it  *)
(* composes the jail, the jail file it restarts from, the ban file that    *)
(* the firewall reads, the IP sets of the User-Agent lists and the         *)
(* snapshot that the stats server serves.                                  *)
(*                                                                         *)
(* Definitions named Slip... are plausible mistakes in the definition that *)
(* follows them; the specification uses none of them.                      *)
(*                                                                         *)
(* What the sliding windows detect in a batch is an input here (Traffic).  *)
(* A file write replaces the file or fails and leaves it alone.  The       *)
(* process can die before any step; whatever is not in a file is gone.     *)
(***************************************************************************)
EXTENDS Integers, Sequences, FiniteSets, Whitelists

CONSTANTS
  CIDRs, NumCells, BanDuration, MaxTime,                (* Those of Jail.  *)
  Addr,               (* IPv4 addresses.                                   *)
  Host,               (* The /32 range of each address.                    *)
  Whitelist,          (* Ranges of the whitelist file.                     *)
  Blacklist,          (* Ranges of the manual blacklist file.              *)
  Traffic,            (* What a batch can bring: the merged detections and *)
                      (* the addresses of listed User-Agents.              *)
  UAWindow,           (* maxWindowTime.                                    *)
  HeartbeatInterval,
  LastTraffic,        (* Bound: last instant at which requests arrive.     *)
  MaxFailures,        (* Bound: failing file writes.                       *)
  MaxCrashes          (* Bound: crashes.                                   *)

ASSUME JailAssumption ==
  /\ NumCells \in Nat \ {0} /\ MaxTime \in Nat
  /\ BanDuration \in [1..NumCells -> Nat]
  /\ Bounds \in [CIDRs -> [ok : BOOLEAN, start : Nat, end : Nat]]
ASSUME HostAssumption ==
  \A a \in Addr : Host[a] \in CIDRs /\ Addresses(Host[a]) = {a}
ASSUME TrafficAssumption ==
  \A b \in Traffic :
    /\ b.detected \in Seq(CIDRs)
    /\ b.white \cup b.black \subseteq Addr
    /\ IsFiniteSet(b.black)

VARIABLES
  cells, allCIDRs, now, todo, filled, refreshed,        (* Those of Jail.  *)
  pc,                 (* Next step of the loop, or "down".                 *)
  beat,               (* The pass under way is a heartbeat.                *)
  dirty,              (* The heartbeat has seen a ban expire.              *)
  uaWhite, uaBlack,   (* Last-seen time of each tracked address.           *)
  lastTick,           (* Last end of an iteration or a heartbeat.          *)
  banKeyValid,        (* lastBanKey tells what was written last.           *)
  lastBanKey,
  banContent,         (* banContent of the statistics state.               *)
  uaActive,           (* Sizes of the two sets, in the statistics state.   *)
  snapshot,           (* What the stats server serves; <<>> before.        *)
  jailFile,           (* On disk.                                          *)
  banFile,            (* On disk.                                          *)
  failures, crashes   (* Counters for the bounds.                          *)

J == INSTANCE Jail WITH BadStrings <- {}, MaxBatch <- 0

jailVars == <<cells, allCIDRs, now, todo, filled, refreshed>>
publishVars == <<banKeyValid, lastBanKey, banContent, banFile>>
statsVars == <<uaActive, snapshot>>
uaVars == <<uaWhite, uaBlack>>
bounds == <<failures, crashes>>
vars == <<jailVars, pc, beat, dirty, uaVars, lastTick, publishVars, statsVars,
          jailFile, bounds>>

----------------------------------------------------------------------------
(* Whitelists and the published lists.                                     *)

(* composeAllWhitelists: the list entries and the tracked addresses.       *)
AllWhitelists == Whitelist \cup {Host[a] : a \in DOMAIN uaWhite}

ActiveBans == {J!At(s).cidr : s \in {t \in J!Slots : J!At(t).active}}

(* The content of a ban file written now.                                  *)
BanLists == ComposeBanLists(ActiveBans, Blacklist, AllWhitelists)

Banned == UNION banFile.bans

----------------------------------------------------------------------------
(* User-Agent sets.                                                        *)

Seen(m, S) == [a \in DOMAIN m \cup S |-> IF a \in S THEN now ELSE m[a]]

(* purgeExpired with the cutoff of the loop.                               *)
Purged(m) ==
  LET live == {a \in DOMAIN m : m[a] >= now - UAWindow}
  IN  [a \in live |-> m[a]]

NoneSeen == [a \in {} |-> 0]

(* The orders in which a range over the map can visit its keys.            *)
Orders(S) ==
  {o \in [1..Cardinality(S) -> S] : \A i, j \in DOMAIN o : o[i] = o[j] => i = j}

----------------------------------------------------------------------------
(* An iteration: ReadBatch returned requests.  The merged detections that  *)
(* no whitelist entry covers are jailed, then the blacklisted User-Agents' *)
(* addresses, whitelisted or not.                                          *)
SlipBlackForgotten(detected, order) == detected
ToJail(detected, order) == detected \o [i \in DOMAIN order |-> Host[order[i]]]

Iterate(b) ==
  /\ pc = "read"
  /\ now <= LastTraffic
  /\ uaWhite' = Purged(Seen(uaWhite, b.white))
  /\ uaBlack' = Purged(Seen(uaBlack, b.black))
  /\ LET W == AllWhitelists'
     IN  \E order \in Orders(DOMAIN uaBlack') :
           J!BeginUpdate(ToJail(DropFullyWhitelisted(b.detected, W), order))
  /\ beat' = FALSE
  /\ pc' = "fill"
  /\ UNCHANGED <<dirty, lastTick, publishVars, statsVars, jailFile, bounds>>

(* The bounded clock's last instant stands for all later ones.             *)
HeartbeatDue == now - lastTick >= HeartbeatInterval \/ now = MaxTime

SlipHeartbeatKeepsUA == UNCHANGED uaVars
HeartbeatPurge == uaWhite' = Purged(uaWhite) /\ uaBlack' = Purged(uaBlack)

SlipNoRefresh == UNCHANGED jailVars
HeartbeatRefresh == J!BeginUpdate(<<>>)

(* ReadBatch returned nothing and the heartbeat is due.                    *)
Heartbeat ==
  /\ pc = "read"
  /\ HeartbeatDue
  /\ HeartbeatPurge
  /\ HeartbeatRefresh
  /\ dirty' = (cells' # cells)
  /\ beat' = TRUE
  /\ pc' = "fill"
  /\ UNCHANGED <<lastTick, publishVars, statsVars, jailFile, bounds>>

FillNext ==
  /\ pc = "fill"
  /\ J!FillNext
  /\ UNCHANGED <<pc, beat, dirty, uaVars, lastTick, publishVars, statsVars,
                 jailFile, bounds>>

(* An iteration always saves the jail, a heartbeat only one that changed.  *)
Prune ==
  /\ pc = "fill"
  /\ J!Prune
  /\ pc' = IF beat /\ ~dirty /\ cells' = cells THEN "write" ELSE "save"
  /\ UNCHANGED <<beat, dirty, uaVars, lastTick, publishVars, statsVars,
                 jailFile, bounds>>

(* JailToFile.  A failure is logged and the pass goes on.                  *)
SaveJail ==
  /\ pc = "save"
  /\ \/ /\ jailFile' = [cells |-> cells, allCIDRs |-> allCIDRs]
        /\ UNCHANGED failures
     \/ /\ failures < MaxFailures
        /\ failures' = failures + 1
        /\ UNCHANGED jailFile
  /\ pc' = "write"
  /\ UNCHANGED <<jailVars, beat, dirty, uaVars, lastTick, publishVars,
                 statsVars, crashes>>

SlipWriteOnExpiry == ~beat \/ dirty

(* A heartbeat writes the ban file only if the lists changed since the     *)
(* last successful write of this process.                                  *)
WriteDue == ~beat \/ ~banKeyValid \/ BanLists # lastBanKey

(* recordBanFileWrite, for the statistics.                                 *)
Recorded == banContent' = BanLists

Written ==
  /\ banFile' = BanLists
  /\ lastBanKey' = BanLists
  /\ banKeyValid' = TRUE
  /\ Recorded

SlipKeyOfFailure ==
  /\ lastBanKey' = BanLists
  /\ banKeyValid' = TRUE
  /\ UNCHANGED <<banFile, banContent>>
NotWritten == UNCHANGED publishVars

WriteBanFile ==
  /\ pc = "write"
  /\ \/ /\ WriteDue
        /\ Written
        /\ UNCHANGED failures
     \/ /\ WriteDue
        /\ failures < MaxFailures
        /\ failures' = failures + 1
        /\ NotWritten
     \/ /\ ~WriteDue
        /\ UNCHANGED <<publishVars, failures>>
  /\ pc' = "publish"
  /\ UNCHANGED <<jailVars, beat, dirty, uaVars, lastTick, statsVars, jailFile,
                 crashes>>

(* buildSnapshot, as far as it can disagree with anything: the rest of a   *)
(* snapshot is copied from counters.                                       *)
Snapshot(content, active) == [bans |-> content, ua |-> active]

(* Only an iteration counts the User-Agent sets anew.                      *)
Publish ==
  /\ pc = "publish"
  /\ uaActive' = IF beat THEN uaActive
                 ELSE <<Cardinality(DOMAIN uaWhite), Cardinality(DOMAIN uaBlack)>>
  /\ snapshot' = <<Snapshot(banContent, uaActive')>>
  /\ IF beat THEN pc' = "read" /\ lastTick' = now
             ELSE pc' = "sleep" /\ UNCHANGED lastTick
  /\ UNCHANGED <<jailVars, beat, dirty, uaVars, publishVars, jailFile, bounds>>

Wake ==
  /\ pc = "sleep"
  /\ pc' = "read"
  /\ lastTick' = now
  /\ UNCHANGED <<jailVars, beat, dirty, uaVars, publishVars, statsVars,
                 jailFile, bounds>>

----------------------------------------------------------------------------
(* The process dies, at any step; a requested shutdown takes effect at     *)
(* "read", where it saves nothing either.                                  *)
Crash ==
  /\ pc # "down"
  /\ crashes < MaxCrashes
  /\ crashes' = crashes + 1
  /\ pc' = "down"
  /\ UNCHANGED <<jailVars, beat, dirty, uaVars, lastTick, publishVars,
                 statsVars, jailFile, failures>>

(* The start of runLiveLoop, with FileToJail, up to the loop.              *)
SlipKeyKept == UNCHANGED <<banKeyValid, lastBanKey>>
KeyInit == banKeyValid' = FALSE /\ lastBanKey' = NoLists

Restart ==
  /\ pc = "down"
  /\ pc' = "read"
  /\ cells' = jailFile.cells
  /\ allCIDRs' = jailFile.allCIDRs
  /\ todo' = <<>>
  /\ filled' = {}
  /\ beat' = FALSE
  /\ dirty' = FALSE
  /\ uaWhite' = NoneSeen
  /\ uaBlack' = NoneSeen
  /\ lastTick' = now
  /\ KeyInit
  /\ banContent' = NoLists
  /\ uaActive' = <<0, 0>>
  /\ snapshot' = <<>>
  /\ UNCHANGED <<now, refreshed, jailFile, banFile, bounds>>

(* Time passes.  After LastTraffic a pass under way takes no time.         *)
Tick ==
  /\ now < LastTraffic \/ pc \in {"read", "sleep", "down"}
  /\ J!Tick
  /\ UNCHANGED <<pc, beat, dirty, uaVars, lastTick, publishVars, statsVars,
                 jailFile, bounds>>

----------------------------------------------------------------------------
(* First start: neither file exists.                                       *)
Init ==
  /\ J!Init
  /\ pc = "read"
  /\ beat = FALSE
  /\ dirty = FALSE
  /\ uaWhite = NoneSeen
  /\ uaBlack = NoneSeen
  /\ lastTick = 0
  /\ banKeyValid = FALSE
  /\ lastBanKey = NoLists
  /\ banContent = NoLists
  /\ uaActive = <<0, 0>>
  /\ snapshot = <<>>
  /\ jailFile = [cells |-> cells, allCIDRs |-> allCIDRs]
  /\ banFile = NoLists
  /\ failures = 0
  /\ crashes = 0

Loop ==
  \/ Heartbeat
  \/ FillNext
  \/ Prune
  \/ SaveJail
  \/ WriteBanFile
  \/ Publish
  \/ Wake

Next ==
  \/ \E b \in Traffic : Iterate(b)
  \/ Loop
  \/ Crash
  \/ Restart
  \/ Tick

Spec == Init /\ [][Next]_vars

(* The loop's goroutine is scheduled and a process that died is started    *)
(* again.  Time passes: no instant holds infinitely many steps, so Tick is *)
(* strongly fair (a pass after LastTraffic disables it).                   *)
FairSpec ==
  Spec /\ WF_vars(Loop) /\ WF_vars(Restart) /\ SF_vars(Tick)

----------------------------------------------------------------------------
(* Properties.                                                             *)

(* An address of the whitelist file is never in the ban file, in any state *)
(* and after any restart, although the jail may hold ranges that contain   *)
(* it (the comment on DropFullyWhitelisted: "a whitelisted address can     *)
(* never end up banned").                                                  *)
WhitelistNeverBanned ==
  (Banned \cup (UNION banFile.black)) \cap Covered(Whitelist) = {}

(* The change detection of the heartbeat is sound: a valid lastBanKey is   *)
(* what the ban file holds, over failing writes, crashes and restarts.     *)
KeyIsOnDisk == banKeyValid => banFile = lastBanKey

(* After the first successful write of a process the snapshot that /bans   *)
(* serves is the content on disk, except between a write and the next      *)
(* publication.                                                            *)
ServedIsOnDisk ==
  banKeyValid /\ pc \in {"read", "sleep"} /\ snapshot # <<>> =>
    snapshot[1].bans = banFile

(* When a pass has synchronised the ban file, an address under an active   *)
(* ban is missing from it only because of the whitelist file, or because   *)
(* a whitelisted User-Agent was seen at it within the window.  The idle    *)
(* heartbeat must forget such addresses too.                               *)
SuppressionIsFresh ==
  pc = "publish" /\ banKeyValid /\ banFile = BanLists =>
    \A a \in Covered(ActiveBans) \ (Banned \cup Covered(Whitelist)) :
      a \in DOMAIN uaWhite /\ uaWhite[a] >= refreshed - UAWindow

----------------------------------------------------------------------------
(* Properties of a step.                                                   *)

Running(a) ==
  \E s \in J!Slots : /\ a \in Addresses(J!At(s).cidr)
                    /\ J!At(s).active
                    /\ now <= J!Expiry(s)

(* No step lifts the published ban of an address while the jail holds a    *)
(* running ban on it, unless the address is whitelisted: not an expiry, an *)
(* absorption, a failing write or a restart.                               *)
NoEarlyLift ==
  [][\A a \in Banned : a \notin Banned' =>
       ~ Running(a) \/ a \in Covered(AllWhitelists)]_vars

(* An iteration that writes the ban file publishes every range it detected *)
(* and every tracked address of a blacklisted User-Agent, whatever the     *)
(* jail made of them, but for whitelisted addresses.                       *)
DetectionsPublished ==
  [][pc = "write" /\ ~beat /\ pc' = "publish" /\ failures' = failures =>
       (Covered(filled) \cup DOMAIN uaBlack) \ Covered(AllWhitelists)
         \subseteq Banned']_vars

----------------------------------------------------------------------------
(* Liveness, under FairSpec: traffic, failing writes and crashes are       *)
(* bounded, so they stop at some point, and the loop is left idle.         *)

(* Bans lift without traffic: the ban file ends up without any jail ban    *)
(* (the lockout that the comment on the idle heartbeat wants to avoid).    *)
BansLift == <>[](banFile.bans = {})

(* The ban file ends up as the jail and the whitelists have it, whatever   *)
(* writes failed and whatever a former process left on disk.               *)
BanFileFollows == <>[](banFile = BanLists)

=============================================================================
