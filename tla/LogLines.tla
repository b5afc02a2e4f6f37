----------------------------- MODULE LogLines -----------------------------
(***************************************************************************)
(* Log files, their lines, and which lines a reader of flokbn takes from   *)
(* them (logparser/parser.go).  A file is a sequence of bytes of which     *)
(* only "lf" and "cr" matter; a line is the place of its text in the file. *)
(*                                                                         *)
(* Definitions named Slip... are plausible mistakes in the definition that *)
(* follows them; nothing uses them.                                        *)
(***************************************************************************)
EXTENDS Naturals, Sequences, SequencesExt, FiniteSetsExt

CONSTANTS
  Overlap,   (* Bytes read past a chunk's end; 8 KB in the code.           *)
  MaxLine    (* maxRecoverLineLen and the scanner's limit; 2 MB.           *)

ASSUME LinesAssumption ==
  /\ {Overlap, MaxLine} \subseteq Nat \ {0}
  /\ Overlap <= MaxLine

Least(a, b) == IF a < b THEN a ELSE b
StartsLine(f, s) == s = 1 \/ f[s - 1] = "lf"
LineStarts(f) == {s \in 1..Len(f) : StartsLine(f, s)}

(* The newline that ends the line begun at s, or the end of the file.      *)
Stop(f, s) == Min({i \in s..Len(f) : f[i] = "lf"} \cup {Len(f) + 1})

(* The text of the line from s up to, and without, the byte at e.          *)
Text(f, s, e) ==
  [from |-> s, to |-> IF e > s /\ f[e - 1] = "cr" THEN e - 2 ELSE e - 1]
Line(f, s) == Text(f, s, Stop(f, s))
Blank(t) == t.to < t.from
LinesAt(f, starts) == {Line(f, s) : s \in starts}
NoBlanks(lines) == {t \in lines : ~Blank(t)}

(* Longer than bufio.Scanner can hold: it stops with an error.             *)
TooLong(f, s) == Stop(f, s) - s >= MaxLine

----------------------------------------------------------------------------
(* The streaming reader: every line up to the first that is too long.      *)

Scannable(f) ==
  {s \in LineStarts(f) : \A t \in LineStarts(f) : t <= s => ~TooLong(f, t)}
Scanned(f) == LinesAt(f, Scannable(f))

----------------------------------------------------------------------------
(* A chunk reader.  A job is the range of bytes first..last; the reader    *)
(* also gets the byte before it (the sentinel) and some bytes after it.    *)

Jobs(f, size) ==
  {[first |-> i * size + 1, last |-> Least((i + 1) * size, Len(f))] :
     i \in {k \in 0..Len(f) : k * size < Len(f)}}
ReadEnd(f, job) == Least(job.last + Overlap, Len(f))

(* The first line in the buffer that begins in the job.  A line begins at  *)
(* the boundary if the sentinel is a newline; else the reader skips the    *)
(* rest of a line that is not its own.                                     *)
AfterBreak(f, i, job) ==
  LET breaks == {k \in i..ReadEnd(f, job) : f[k] = "lf"}
  IN  IF breaks = {} THEN ReadEnd(f, job) + 1 ELSE Min(breaks) + 1
SlipNoSentinel(f, job) ==
  IF job.first = 1 THEN 1 ELSE AfterBreak(f, job.first, job)
FirstStart(f, job) ==
  IF job.first = 1 THEN 1 ELSE AfterBreak(f, job.first - 1, job)

Owned(f, job) ==
  {s \in FirstStart(f, job)..job.last :
     s = FirstStart(f, job) \/ f[s - 1] = "lf"}

(* Lines that end in the buffer, or with the file.                         *)
Complete(f, job) ==
  {s \in Owned(f, job) :
     Stop(f, s) <= ReadEnd(f, job) \/ ReadEnd(f, job) = Len(f)}
ChunkLines(f, job) == NoBlanks(LinesAt(f, Complete(f, job)))

(* The one line that may go on beyond the buffer, to be read again.        *)
Unfinished(f, job) == Owned(f, job) \ Complete(f, job)

(* recoverLongLine: read from s with a growing window until a newline or   *)
(* the end of the file is in it; give up at MaxLine.                       *)
Recovered(f, s) ==
  LET Grow[w \in 1..MaxLine] ==
        IF Stop(f, s) < s + w \/ Len(f) < s + w THEN {Line(f, s)}
        ELSE IF w = MaxLine THEN {}
        ELSE Grow[Least(2 * w, MaxLine)]
  IN  NoBlanks(Grow[Least(2 * Overlap, MaxLine)])
=============================================================================
