------------------------- MODULE AtomicFileProofs -------------------------
(***************************************************************************)
(* No reader ever finds a partial file, and writeFileAtomic implements an  *)
(* atomic register: for any number of processes and contents.              *)
(***************************************************************************)
EXTENDS AtomicFile, TLAPS

(* Inductive strengthening of NeverPartial: how far each temporary file is *)
(* when its writer reaches a call.                                         *)
Progress ==
  \A w \in Writers :
    /\ pc[w] \in {"idle", "create"} => temp[w] = Absent
    /\ pc[w] \in {"sync", "close", "chmod", "rename"} => temp[w].whole
    /\ pc[w] \in {"close", "chmod", "rename"} => temp[w].synced
    /\ pc[w] \in Calls \ {"create"} => temp[w].data = data[w]
    /\ pc[w] = "idle" <=> data[w] = NoFile

FileInv ==
  /\ TypeOK
  /\ Progress
  /\ NeverPartial
  /\ target \in onDisk

LEMMA InitFileInv == Init => FileInv
  BY DEF Init, FileInv, TypeOK, Progress, NeverPartial, Calls, File, Absent

(* A call that succeeds and leaves the target alone.                       *)
LEMMA SucceedsStep ==
  ASSUME FileInv,
         NEW w \in Writers, NEW call \in Calls, NEW next \in Calls,
         NEW file \in File,
         Succeeds(w, call, next, file)
  PROVE  TypeOK' /\ NeverPartial' /\ target' \in onDisk'
<1>1. UNCHANGED <<data, target, onDisk, reported, deaths, powerLosses>>
  BY DEF Succeeds, bounds
<1>2. pc' = [pc EXCEPT ![w] = next] /\ temp' = [temp EXCEPT ![w] = file]
  BY DEF Succeeds, Goto
<1>3. pc' \in [Writers -> Calls \cup {"idle"}] /\ temp' \in [Writers -> File]
  BY <1>2 DEF FileInv, TypeOK
<1> QED BY <1>1, <1>3 DEF FileInv, TypeOK, NeverPartial

LEMMA CallStep ==
  ASSUME FileInv,
         NEW w \in Writers,
         Create(w) \/ Write(w) \/ Sync(w) \/ Close(w) \/ Chmod(w)
  PROVE  FileInv'
<1> DEFINE fresh == [data |-> data[w], whole |-> FALSE, synced |-> FALSE]
<1> DEFINE written == [temp[w] EXCEPT !.whole = TRUE]
<1> DEFINE safe == [temp[w] EXCEPT !.synced = TRUE]
<1>0. /\ {fresh, written, safe, temp[w]} \subseteq File
      /\ {"create", "write", "sync", "close", "chmod", "rename"} \subseteq Calls
  <2>1. temp[w] \in File /\ data[w] \in Contents \cup {NoFile}
    BY DEF FileInv, TypeOK
  <2>2. fresh \in File
    BY <2>1 DEF File
  <2>3. written \in File
    BY <2>1 DEF File
  <2>4. safe \in File
    BY <2>1 DEF File
  <2> QED BY <2>1, <2>2, <2>3, <2>4 DEF Calls
<1> HIDE DEF fresh, written, safe
<1>1. TypeOK' /\ NeverPartial' /\ target' \in onDisk'
  <2>1. CASE Create(w)
    BY <1>0, <2>1, SucceedsStep DEF Create, fresh
  <2>2. CASE Write(w)
    BY <1>0, <2>2, SucceedsStep DEF Write, written
  <2>3. CASE Sync(w)
    BY <1>0, <2>3, SucceedsStep DEF Sync, safe
  <2>4. CASE Close(w)
    BY <1>0, <2>4, SucceedsStep DEF Close
  <2>5. CASE Chmod(w)
    BY <1>0, <2>5, SucceedsStep DEF Chmod
  <2> QED BY <2>1, <2>2, <2>3, <2>4, <2>5
<1>2. ASSUME NEW v \in Writers, v # w
      PROVE  pc'[v] = pc[v] /\ temp'[v] = temp[v] /\ data'[v] = data[v]
  BY <1>2 DEF FileInv, TypeOK, Create, Write, Sync, Close, Chmod, Succeeds, Goto
<1>3. /\ pc'[w] \in {"idle", "create"} => temp'[w] = Absent
      /\ pc'[w] \in {"sync", "close", "chmod", "rename"} => temp'[w].whole
      /\ pc'[w] \in {"close", "chmod", "rename"} => temp'[w].synced
      /\ pc'[w] \in Calls \ {"create"} => temp'[w].data = data'[w]
      /\ pc'[w] = "idle" <=> data'[w] = NoFile
  <2> USE DEF FileInv, TypeOK, Progress, Succeeds, At, Goto, Calls, File
  <2>1. CASE Create(w)
    BY <2>1 DEF Create
  <2>2. CASE Write(w)
    BY <2>2 DEF Write
  <2>3. CASE Sync(w)
    BY <2>3 DEF Sync
  <2>4. CASE Close(w)
    BY <2>4 DEF Close
  <2>5. CASE Chmod(w)
    BY <2>5 DEF Chmod
  <2> QED BY <2>1, <2>2, <2>3, <2>4, <2>5
<1>4. Progress'
  <2> SUFFICES ASSUME NEW v \in Writers
               PROVE  /\ pc'[v] \in {"idle", "create"} => temp'[v] = Absent
                      /\ pc'[v] \in {"sync", "close", "chmod", "rename"} => temp'[v].whole
                      /\ pc'[v] \in {"close", "chmod", "rename"} => temp'[v].synced
                      /\ pc'[v] \in Calls \ {"create"} => temp'[v].data = data'[v]
                      /\ pc'[v] = "idle" <=> data'[v] = NoFile
    BY DEF Progress
  <2>1. CASE v = w
    BY <1>3, <2>1
  <2>2. CASE v # w
    BY <1>2, <2>2 DEF FileInv, Progress
  <2> QED BY <2>1, <2>2
<1> QED BY <1>1, <1>4 DEF FileInv

LEMMA BeginStep ==
  ASSUME FileInv, NEW w \in Writers, NEW c \in Contents, Begin(w, c)
  PROVE  FileInv'
  BY NoFileAssumption
  DEF FileInv, TypeOK, Progress, NeverPartial, Calls, Begin, At, Goto, bounds

LEMMA EndStep ==
  ASSUME FileInv, NEW w \in Writers, Fails(w) \/ Die(w)
  PROVE  FileInv'
<1> USE NoFileAssumption DEF FileInv
<1>0. /\ pc' = [pc EXCEPT ![w] = "idle"]
      /\ data' = [data EXCEPT ![w] = NoFile]
      /\ temp' = [temp EXCEPT ![w] = Absent]
      /\ reported' \in {reported, [reported EXCEPT ![w] = "error"]}
      /\ deaths' \in {deaths, deaths + 1}
      /\ UNCHANGED <<target, onDisk, powerLosses>>
  BY DEF Fails, Die, RemoveTemp, Returns, Goto, bounds
<1>1. TypeOK'
  <2>1. Absent \in File
    BY DEF Absent, File
  <2>2. /\ pc' \in [Writers -> Calls \cup {"idle"}]
        /\ data' \in [Writers -> Contents \cup {NoFile}]
        /\ temp' \in [Writers -> File]
        /\ reported' \in [Writers -> {"none", "ok", "error"}]
    BY <1>0, <2>1 DEF TypeOK
  <2> QED BY <1>0, <2>2 DEF TypeOK
<1>2. Progress'
  BY <1>0 DEF TypeOK, Progress, Calls
<1>3. NeverPartial' /\ target' \in onDisk'
  BY <1>0 DEF NeverPartial
<1> QED BY <1>1, <1>2, <1>3

LEMMA RenameStep ==
  ASSUME FileInv, NEW w \in Writers, Rename(w)
  PROVE  FileInv'
<1> USE NoFileAssumption DEF FileInv
<1>1. TypeOK'
  BY DEF TypeOK, Calls, File, Absent, Rename, Returns, Goto, bounds
<1>2. Progress'
  BY DEF TypeOK, Progress, Calls, Rename, Returns, Goto
<1>3. temp[w].whole /\ temp[w].synced
  BY DEF Rename, At, Progress
<1>4. NeverPartial' /\ target' \in onDisk'
  BY <1>3 DEF NeverPartial, Rename
<1> QED BY <1>1, <1>2, <1>4

LEMMA PowerLossStep ==
  ASSUME FileInv, PowerLoss
  PROVE  FileInv'
<1> USE NoFileAssumption DEF FileInv
<1>1. PICK f \in onDisk : target' \in Survives(f)
  BY DEF PowerLoss
<1>2. f \in File /\ f.whole /\ f.synced
  BY DEF TypeOK, NeverPartial
<1>3. target' = f
  BY <1>1, <1>2 DEF Survives, File
<1>4. TypeOK'
  BY <1>2, <1>3 DEF TypeOK, PowerLoss, File, Absent
<1>5. Progress'
  BY DEF Progress, PowerLoss, Calls
<1>6. NeverPartial' /\ target' \in onDisk'
  BY <1>2, <1>3 DEF NeverPartial, PowerLoss
<1> QED BY <1>4, <1>5, <1>6

LEMMA NextFileInv == FileInv /\ [Next]_vars => FileInv'
<1> SUFFICES ASSUME FileInv, [Next]_vars PROVE FileInv'
  OBVIOUS
<1>1. ASSUME NEW w \in Writers, Step(w) PROVE FileInv'
  BY <1>1, CallStep, BeginStep, EndStep, RenameStep DEF Step
<1>2. CASE Flush
  <2>1. target \in File /\ target.whole /\ target.synced
    BY DEF FileInv, TypeOK, NeverPartial
  <2>2. /\ onDisk' = {target}
        /\ UNCHANGED <<pc, data, temp, target, reported, deaths, powerLosses>>
    BY <1>2 DEF Flush, bounds
  <2>3. TypeOK'
    BY <2>1, <2>2 DEF FileInv, TypeOK
  <2>4. Progress' /\ NeverPartial' /\ target' \in onDisk'
    BY <2>1, <2>2 DEF FileInv, Progress, NeverPartial, Calls
  <2> QED BY <2>3, <2>4 DEF FileInv
<1>3. CASE PowerLoss
  BY <1>3, PowerLossStep
<1>4. CASE UNCHANGED vars
  BY <1>4 DEF FileInv, TypeOK, Progress, NeverPartial, vars
<1> QED BY <1>1, <1>2, <1>3, <1>4 DEF Next

(* No reader ever finds a partial file, not even after a power loss.       *)
THEOREM NeverPartialHolds == Spec => []NeverPartial
<1>1. FileInv => NeverPartial
  BY DEF FileInv
<1> QED BY <1>1, InitFileInv, NextFileInv, PTL DEF Spec

----------------------------------------------------------------------------
LEMMA InitRegister == Init => Register!Init
  BY DEF Init, Register!Init, Absent

(* Every step of a writer is a step of the register or leaves it alone.    *)
LEMMA StepRegister ==
  ASSUME FileInv, NEW w \in Writers, Step(w)
  PROVE  [Register!Next]_(Register!vars)
<1> USE NoFileAssumption DEF FileInv
<1>1. ASSUME NEW c \in Contents, Begin(w, c) PROVE Register!Begin(w, c)
  BY <1>1 DEF Begin, At, Progress, Register!Begin
<1>2. CASE Rename(w)
  <2>1. data[w] # NoFile /\ temp[w].data = data[w]
    BY <1>2 DEF Rename, At, Progress, Calls
  <2>2. {f.data : f \in onDisk'} = {f.data : f \in onDisk} \cup {data[w]}
    BY <1>2, <2>1 DEF Rename
  <2>3. Register!Replace(w)
    BY <1>2, <2>1, <2>2 DEF Rename, Returns, Register!Replace
  <2> QED BY <2>3 DEF Register!Next
<1>3. CASE Fails(w)
  <2>1. data[w] # NoFile
    BY <1>3 DEF Fails, Progress, Calls
  <2>2. Register!Fail(w)
    BY <1>3, <2>1 DEF Fails, Returns, Register!Fail
  <2> QED BY <2>2 DEF Register!Next
<1>4. CASE Die(w)
  <2>1. data[w] # NoFile
    BY <1>4 DEF Die, Progress, Calls
  <2>2. Register!Die(w)
    BY <1>4, <2>1 DEF Die, Register!Die
  <2> QED BY <2>2 DEF Register!Next
<1>5. CASE Create(w) \/ Write(w) \/ Sync(w) \/ Close(w) \/ Chmod(w)
  BY <1>5 DEF Create, Write, Sync, Close, Chmod, Succeeds, Register!vars
<1> QED BY <1>1, <1>2, <1>3, <1>4, <1>5 DEF Step, Register!Next

(* What a power loss brings back was a whole, synced version of the file.  *)
LEMMA PowerLossRegister ==
  ASSUME FileInv, PowerLoss
  PROVE  Register!PowerLoss
<1>1. PICK f \in onDisk : target' \in Survives(f)
  BY DEF PowerLoss
<1>2. f \in File /\ f.whole /\ f.synced
  BY DEF FileInv, TypeOK, NeverPartial
<1>3. target' = f
  BY <1>1, <1>2 DEF Survives, File
<1> QED BY <1>3 DEF PowerLoss, Register!PowerLoss

LEMMA NextRegister ==
  FileInv /\ [Next]_vars => [Register!Next]_(Register!vars)
<1> SUFFICES ASSUME FileInv, [Next]_vars
             PROVE  [Register!Next]_(Register!vars)
  OBVIOUS
<1>1. CASE Flush
  BY <1>1 DEF Flush, Register!Flush, Register!Next
<1>2. CASE PowerLoss
  BY <1>2, PowerLossRegister DEF Register!Next
<1>3. CASE UNCHANGED vars
  BY <1>3 DEF vars, Register!vars
<1> QED BY <1>1, <1>2, <1>3, StepRegister DEF Next

(* A save is atomic and its result truthful: writeFileAtomic implements    *)
(* FileRegister.                                                           *)
THEOREM ImplementsRegisterHolds == Spec => ImplementsRegister
<1> QED BY InitFileInv, NextFileInv, InitRegister, NextRegister, PTL
        DEF Spec, ImplementsRegister, Register!Spec
=============================================================================
