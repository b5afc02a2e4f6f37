---------------------------- MODULE StaticJail ----------------------------
(***************************************************************************)
(* The jail phase of a static analysis (analysis/static.go: the end of     *)
(* StaticWithRequestsCtx, and ProcessJailWithWhitelist), run again and     *)
(* again over the same jail file and ban file, as a scheduled job or from  *)
(* the terminal interface.  What an analysis finds is an input (Findings). *)
(* Writes can fail, which ends the run; the process can die at any step;   *)
(* in the terminal interface the user can quit at any step.                *)
(*                                                                         *)
(* Definitions named Slip... are plausible mistakes in the definition that *)
(* follows them; the specification uses none of them.                      *)
(***************************************************************************)
EXTENDS Whitelists, FiniteSets

CONSTANTS
  CIDRs, NumCells, BanDuration, MaxTime,          (* Those of Jail.        *)
  Host,               (* The /32 range of each address.                    *)
  Whitelist,          (* Ranges of the whitelist file.                     *)
  Blacklist,          (* Ranges of the manual blacklist file.              *)
  Findings,           (* What an analysis can find: the ranges to jail and *)
                      (* the addresses of listed User-Agents.              *)
  MaxFailures         (* Bound: failing writes and deaths.                 *)

ASSUME JailAssumption ==
  /\ NumCells \in Nat \ {0} /\ MaxTime \in Nat
  /\ BanDuration \in [1..NumCells -> Nat]
  /\ Bounds \in [CIDRs -> [ok : BOOLEAN, start : Nat, end : Nat]]

VARIABLES
  cells, allCIDRs, now, todo, filled, refreshed,  (* Those of Jail.        *)
  pc,                 (* Next step of the run; "off" between two runs.     *)
  found,              (* What this run's analysis found.                   *)
  quit,               (* The user has quit: the context is cancelled.      *)
  jailFile, banFile,  (* On disk.                                          *)
  failures            (* Counter for the bound.                            *)

J == INSTANCE Jail WITH BadStrings <- {}, MaxBatch <- 0

jailVars == <<cells, allCIDRs, now, todo, filled, refreshed>>
disk == <<jailFile, banFile>>
vars == <<jailVars, pc, found, quit, disk, failures>>

----------------------------------------------------------------------------
AllWhitelists == Whitelist \cup {Host[a] : a \in found.white}

(* The orders in which a range over the map of addresses can visit it.     *)
Orders(S) ==
  {o \in [1..Cardinality(S) -> S] : \A i, j \in DOMAIN o : o[i] = o[j] => i = j}

(* The argument of the jail's Update.                                      *)
ToJail(order) ==
  DropFullyWhitelisted(found.detected, AllWhitelists)
    \o [i \in DOMAIN order |-> Host[order[i]]]

ActiveBans == {J!At(s).cidr : s \in {t \in J!Slots : J!At(t).active}}

SavedJail == [cells |-> cells, allCIDRs |-> allCIDRs]

----------------------------------------------------------------------------
(* A run starts and analyses its log.                                      *)
Start(f) ==
  /\ pc = "off"
  /\ pc' = "check"
  /\ found' = f
  /\ quit' = FALSE
  /\ UNCHANGED <<jailVars, disk, failures>>

Quit ==
  /\ pc # "off"
  /\ quit' = TRUE
  /\ UNCHANGED <<jailVars, pc, found, disk, failures>>

(* The check of the context, the only one before the side effects.         *)
Check ==
  /\ pc = "check"
  /\ pc' = IF quit THEN "off" ELSE "load"
  /\ UNCHANGED <<jailVars, found, quit, disk, failures>>

SlipLoadStartsAfresh ==
  /\ pc = "load"
  /\ cells' = [c \in J!Cells |-> <<>>]
  /\ allCIDRs' = [r \in CIDRs |-> 0]
  /\ todo' = <<>>
  /\ filled' = {}
  /\ pc' = "update"
  /\ UNCHANGED <<now, refreshed, found, quit, disk, failures>>

(* FileToJail.                                                             *)
Load ==
  /\ pc = "load"
  /\ cells' = jailFile.cells
  /\ allCIDRs' = jailFile.allCIDRs
  /\ todo' = <<>>
  /\ filled' = {}
  /\ pc' = "update"
  /\ UNCHANGED <<now, refreshed, found, quit, disk, failures>>

(* With nothing to jail the jail is neither updated nor saved.             *)
Update ==
  /\ pc = "update"
  /\ \E order \in Orders(found.black) :
       IF ToJail(order) = <<>>
       THEN UNCHANGED jailVars /\ pc' = "write"
       ELSE J!BeginUpdate(ToJail(order)) /\ pc' = "fill"
  /\ UNCHANGED <<found, quit, disk, failures>>

FillNext ==
  /\ pc = "fill"
  /\ J!FillNext
  /\ pc' = IF todo' = <<>> THEN "save" ELSE "fill"
  /\ UNCHANGED <<found, quit, disk, failures>>

FailedWrite(next) ==
  /\ failures < MaxFailures
  /\ failures' = failures + 1
  /\ pc' = next
  /\ UNCHANGED disk

SlipBanOnFailedSave == FailedWrite("write")
SaveFails == FailedWrite("off")

(* JailToFile.  A failure ends the run: the ban file keeps its content.    *)
Save ==
  /\ pc = "save"
  /\ \/ /\ jailFile' = SavedJail
        /\ pc' = "write"
        /\ UNCHANGED <<banFile, failures>>
     \/ SaveFails
  /\ UNCHANGED <<jailVars, found, quit>>

(* WriteBanFileWithBlacklist of what ComposeBanLists leaves.               *)
Write ==
  /\ pc = "write"
  /\ \/ /\ banFile' = ComposeBanLists(ActiveBans, Blacklist, AllWhitelists)
        /\ pc' = "off"
        /\ UNCHANGED <<jailFile, failures>>
     \/ FailedWrite("off")
  /\ UNCHANGED <<jailVars, found, quit>>

(* The process dies; after the user quits it ends of its own accord.       *)
Die ==
  /\ pc # "off"
  /\ \/ quit /\ pc' = "off" /\ UNCHANGED <<disk, failures>>
     \/ FailedWrite("off")
  /\ UNCHANGED <<jailVars, found, quit>>

Tick ==
  /\ J!Tick
  /\ UNCHANGED <<pc, found, quit, disk, failures>>

Nothing == [detected |-> <<>>, white |-> {}, black |-> {}]

(* Neither file exists.                                                    *)
Init ==
  /\ J!Init
  /\ pc = "off"
  /\ found = Nothing
  /\ quit = FALSE
  /\ jailFile = SavedJail
  /\ banFile = NoLists
  /\ failures = 0

Next ==
  \/ \E f \in Findings : Start(f)
  \/ Quit
  \/ Check
  \/ Load
  \/ Update
  \/ FillNext
  \/ Save
  \/ Write
  \/ Die
  \/ Tick

Spec == Init /\ [][Next]_vars

----------------------------------------------------------------------------
(* Properties.                                                             *)

SavedSlots == UNION {{<<c, i>> : i \in DOMAIN jailFile.cells[c]} : c \in J!Cells}
Saved(s) == jailFile.cells[s[1]][s[2]]
SavedRunning(s) == Saved(s).active /\ now <= Saved(s).start + BanDuration[s[1]]

Banned == UNION banFile.bans

(* The ban file never runs ahead of the jail file: whatever run failed,    *)
(* died or was quit, a published address is one that some range of the     *)
(* saved jail contains, so the next run knows its offence.                 *)
BannedIsSaved == Banned \subseteq Covered({Saved(s).cidr : s \in SavedSlots})

(* What earlier runs did is carried over, from run to run.  No run lifts    *)
(* the published ban of an address while the saved jail has a running ban  *)
(* on it, unless the address is whitelisted; and a save keeps every range  *)
(* of the former jail file, itself or within a larger range, in the same   *)
(* cell or a deeper one.                                                   *)
BansCarryOver ==
  /\ [][\A a \in Banned \ Banned' :
          \/ a \in Covered(AllWhitelists)
          \/ \A s \in SavedSlots : SavedRunning(s) => a \notin Addresses(Saved(s).cidr)]_vars
  /\ [][\A s \in SavedSlots : \E c \in J!Cells : \E i \in DOMAIN jailFile'.cells[c] :
          /\ s[1] <= c
          /\ Addresses(Saved(s).cidr) \subseteq Addresses(jailFile'.cells[c][i].cidr)]_vars
=============================================================================
