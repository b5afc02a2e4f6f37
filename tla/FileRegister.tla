--------------------------- MODULE FileRegister ---------------------------
(***************************************************************************)
(* What the rest of flokbn takes writeFileAtomic (jail/io.go) for: a file  *)
(* whose content is replaced at once.  A write that reports success has    *)
(* replaced the content; one that reports an error, or whose process died  *)
(* before its end, has left the content alone.  A content need not survive *)
(* a power loss, but what is found after one was once written whole.       *)
(***************************************************************************)
CONSTANTS
  Writers,   (* Processes that write the file.                             *)
  Contents,  (* Contents they write.                                       *)
  NoFile     (* Content of a file that does not exist.                     *)

VARIABLES
  content,   (* Content that a reader finds.                               *)
  durable,   (* Contents that a power loss may bring back.                 *)
  writing,   (* Content each writer is about to write, NoFile if none.     *)
  reported   (* What the latest write of each writer returned.             *)

vars == <<content, durable, writing, reported>>

Init ==
  /\ content = NoFile
  /\ durable = {NoFile}
  /\ writing = [w \in Writers |-> NoFile]
  /\ reported = [w \in Writers |-> "none"]

Begin(w, c) ==
  /\ writing[w] = NoFile
  /\ writing' = [writing EXCEPT ![w] = c]
  /\ reported' = [reported EXCEPT ![w] = "none"]
  /\ UNCHANGED <<content, durable>>

Replace(w) ==
  /\ writing[w] # NoFile
  /\ content' = writing[w]
  /\ durable' = durable \cup {writing[w]}
  /\ writing' = [writing EXCEPT ![w] = NoFile]
  /\ reported' = [reported EXCEPT ![w] = "ok"]

Fail(w) ==
  /\ writing[w] # NoFile
  /\ writing' = [writing EXCEPT ![w] = NoFile]
  /\ reported' = [reported EXCEPT ![w] = "error"]
  /\ UNCHANGED <<content, durable>>

Die(w) ==
  /\ writing[w] # NoFile
  /\ writing' = [writing EXCEPT ![w] = NoFile]
  /\ UNCHANGED <<content, durable, reported>>

Flush ==
  /\ durable' = {content}
  /\ UNCHANGED <<content, writing, reported>>

PowerLoss ==
  /\ content' \in durable
  /\ durable' = {content'}
  /\ writing' = [w \in Writers |-> NoFile]
  /\ reported' = [w \in Writers |-> "none"]

Next ==
  \/ \E w \in Writers :
       \/ \E c \in Contents : Begin(w, c)
       \/ Replace(w)
       \/ Fail(w)
       \/ Die(w)
  \/ Flush
  \/ PowerLoss

Spec == Init /\ [][Next]_vars
=============================================================================
