---------------------------- MODULE AtomicFile ----------------------------
(***************************************************************************)
(* writeFileAtomic of flokbn (jail/io.go): every save of the jail and of   *)
(* the ban file writes a temporary file, syncs it and renames it over the  *)
(* target.  Several processes can save the same file; each can die between *)
(* any two system calls, and the machine can lose power.                   *)
(*                                                                         *)
(* Definitions named Slip... are plausible mistakes in the definition that *)
(* follows them; the specification uses none of them.                      *)
(***************************************************************************)
EXTENDS Naturals, FiniteSets

CONSTANTS
  Writers,       (* Processes that save the file.                          *)
  Contents,      (* Contents they save.                                    *)
  NoFile,        (* Content of a file that does not exist.                 *)
  MaxDeaths,     (* Bound: processes that die.                             *)
  MaxPowerLosses (* Bound: power losses.                                   *)

ASSUME NoFileAssumption == NoFile \notin Contents

(* A file: what it should hold, whether all of it was written, whether it  *)
(* was synced.                                                             *)
File == [data : Contents \cup {NoFile}, whole : BOOLEAN, synced : BOOLEAN]
Absent == [data |-> NoFile, whole |-> TRUE, synced |-> TRUE]

VARIABLES
  pc,        (* Next system call of each writer.                           *)
  data,      (* Argument of each writer's call.                            *)
  temp,      (* Temporary file of each writer, Absent if there is none.    *)
  target,    (* The file readers open.                                     *)
  onDisk,    (* Versions of target that a power loss may bring back: its   *)
             (* directory is never synced.                                 *)
  reported,  (* What the latest call of each writer returned.              *)
  deaths, powerLosses

vars == <<pc, data, temp, target, onDisk, reported, deaths, powerLosses>>
bounds == <<deaths, powerLosses>>

Calls == {"create", "write", "sync", "close", "chmod", "rename"}

TypeOK ==
  /\ pc \in [Writers -> Calls \cup {"idle"}]
  /\ data \in [Writers -> Contents \cup {NoFile}]
  /\ temp \in [Writers -> File]
  /\ target \in File
  /\ onDisk \subseteq File
  /\ reported \in [Writers -> {"none", "ok", "error"}]
  /\ deaths \in Nat
  /\ powerLosses \in Nat

Init ==
  /\ pc = [w \in Writers |-> "idle"]
  /\ data = [w \in Writers |-> NoFile]
  /\ temp = [w \in Writers |-> Absent]
  /\ target = Absent
  /\ onDisk = {Absent}
  /\ reported = [w \in Writers |-> "none"]
  /\ deaths = 0
  /\ powerLosses = 0

----------------------------------------------------------------------------
At(w, call) == pc[w] = call
Goto(w, call) == pc' = [pc EXCEPT ![w] = call]
Returns(w, r) ==
  /\ Goto(w, "idle")
  /\ data' = [data EXCEPT ![w] = NoFile]
  /\ reported' = [reported EXCEPT ![w] = r]

Begin(w, c) ==
  /\ At(w, "idle")
  /\ Goto(w, "create")
  /\ data' = [data EXCEPT ![w] = c]
  /\ reported' = [reported EXCEPT ![w] = "none"]
  /\ UNCHANGED <<temp, target, onDisk, bounds>>

(* Each call either succeeds, and the next one is due, or fails: the       *)
(* temporary file is removed and the error returned.                       *)
Succeeds(w, call, next, file) ==
  /\ At(w, call)
  /\ Goto(w, next)
  /\ temp' = [temp EXCEPT ![w] = file]
  /\ UNCHANGED <<data, target, onDisk, reported, bounds>>

RemoveTemp(w) == temp' = [temp EXCEPT ![w] = Absent]

Fails(w) ==
  /\ pc[w] \in Calls
  /\ RemoveTemp(w)
  /\ Returns(w, "error")
  /\ UNCHANGED <<target, onDisk, bounds>>

Create(w) ==
  Succeeds(w, "create", "write",
           [data |-> data[w], whole |-> FALSE, synced |-> FALSE])
Write(w) == Succeeds(w, "write", "sync", [temp[w] EXCEPT !.whole = TRUE])

SlipUnsynced(w) == Succeeds(w, "sync", "close", temp[w])
Sync(w) == Succeeds(w, "sync", "close", [temp[w] EXCEPT !.synced = TRUE])
Close(w) == Succeeds(w, "close", "chmod", temp[w])
Chmod(w) == Succeeds(w, "chmod", "rename", temp[w])

SlipOtherTemp(w) ==
  /\ At(w, "rename")
  /\ \E v \in Writers :
       /\ temp[v] # Absent
       /\ target' = temp[v]
       /\ onDisk' = onDisk \cup {temp[v]}
       /\ temp' = [temp EXCEPT ![w] = Absent]
  /\ Returns(w, "ok")
  /\ UNCHANGED bounds

Rename(w) ==
  /\ At(w, "rename")
  /\ target' = temp[w]
  /\ onDisk' = onDisk \cup {temp[w]}
  /\ temp' = [temp EXCEPT ![w] = Absent]
  /\ Returns(w, "ok")
  /\ UNCHANGED bounds

----------------------------------------------------------------------------
(* The process dies; a temporary file it had is litter nobody will use.    *)
Die(w) ==
  /\ pc[w] \in Calls
  /\ deaths < MaxDeaths
  /\ deaths' = deaths + 1
  /\ Goto(w, "idle")
  /\ data' = [data EXCEPT ![w] = NoFile]
  /\ temp' = [temp EXCEPT ![w] = Absent]
  /\ UNCHANGED <<target, onDisk, reported, powerLosses>>

(* The operating system writes the directory of its own accord.            *)
Flush ==
  /\ onDisk' = {target}
  /\ UNCHANGED <<pc, data, temp, target, reported, bounds>>

(* A file that was not synced may come back in part.                       *)
Survives(f) ==
  {[f EXCEPT !.whole = b, !.synced = TRUE] :
     b \in IF f.synced THEN {f.whole} ELSE {f.whole, FALSE}}

PowerLoss ==
  /\ powerLosses < MaxPowerLosses
  /\ powerLosses' = powerLosses + 1
  /\ target' \in UNION {Survives(f) : f \in onDisk}
  /\ onDisk' = {target'}
  /\ pc' = [w \in Writers |-> "idle"]
  /\ data' = [w \in Writers |-> NoFile]
  /\ temp' = [w \in Writers |-> Absent]
  /\ reported' = [w \in Writers |-> "none"]
  /\ UNCHANGED deaths

Step(w) ==
  \/ \E c \in Contents : Begin(w, c)
  \/ Create(w)
  \/ Write(w)
  \/ Sync(w)
  \/ Close(w)
  \/ Chmod(w)
  \/ Rename(w)
  \/ Fails(w)
  \/ Die(w)

Next ==
  \/ \E w \in Writers : Step(w)
  \/ Flush
  \/ PowerLoss

Spec == Init /\ [][Next]_vars

----------------------------------------------------------------------------
(* Properties.                                                             *)

(* Whoever opens the file finds a whole content, and so does who opens it  *)
(* after a power loss (the comment on writeFileAtomic: readers never       *)
(* observe a partial file).                                                *)
NeverPartial == target.whole /\ \A f \in onDisk : f.whole /\ f.synced

(* The file is an atomic register, whose contents a power loss may undo    *)
(* but not damage, and a save reports truthfully what it did.              *)
Register == INSTANCE FileRegister
              WITH content <- target.data,
                   durable <- {f.data : f \in onDisk},
                   writing <- data

ImplementsRegister == Register!Spec
=============================================================================
