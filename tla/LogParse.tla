----------------------------- MODULE LogParse -----------------------------
(***************************************************************************)
(* What the callers of ParseFile and ParseFileIPs rely on: the call        *)
(* returns one request for each line of the file, or an error and nothing. *)
(* Blank lines and lines that are too long may or may not count, as the    *)
(* two ways of reading differ on them; a line that is too long may also    *)
(* fail the call.                                                          *)
(***************************************************************************)
EXTENDS LogLines, Bags

CONSTANT Files
VARIABLES file, failed, outcome

vars == <<file, failed, outcome>>

Pending == [kind |-> "pending"]
Error == [kind |-> "error"]
Requests(bag) == [kind |-> "requests", requests |-> bag]

Certain(f) ==
  {Line(f, s) : s \in {t \in LineStarts(f) :
                         ~TooLong(f, t) /\ ~Blank(Line(f, t))}}
Possible(f) == {Line(f, s) : s \in LineStarts(f)}

Init ==
  /\ file \in Files
  /\ failed = FALSE
  /\ outcome = Pending

(* Reading the file fails.                                                 *)
Fail ==
  /\ outcome = Pending
  /\ failed' = TRUE
  /\ UNCHANGED <<file, outcome>>

ReturnLines ==
  /\ outcome = Pending
  /\ ~failed
  /\ \E lines \in SUBSET Possible(file) :
       /\ Certain(file) \subseteq lines
       /\ outcome' = Requests(SetToBag(lines))
  /\ UNCHANGED <<file, failed>>

ReturnError ==
  /\ outcome = Pending
  /\ failed \/ \E s \in LineStarts(file) : TooLong(file, s)
  /\ outcome' = Error
  /\ UNCHANGED <<file, failed>>

Next == Fail \/ ReturnLines \/ ReturnError

Spec == Init /\ [][Next]_vars
=============================================================================
