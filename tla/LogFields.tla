----------------------------- MODULE LogFields -----------------------------
(***************************************************************************)
(* The fields of one log line: logparser/parser.go compiles a format into  *)
(* extractors and walks a line with them, for all fields or for the        *)
(* address alone; ingestor/ingestor.go takes the combined layout of a live *)
(* event apart in its own way.                                             *)
(*                                                                         *)
(* A byte is a blank, a quote, a backslash, a bracket, a delimiter or any  *)
(* other.  What a field's text means (an address, a time, a number) is not *)
(* looked at: a field is its text, <<>> if it was not set.                 *)
(***************************************************************************)
EXTENDS Naturals, Sequences, SequencesExt, FiniteSetsExt

CONSTANTS
  Formats,         \* format strings
  PlainTexts,      \* bound: the texts of a field that is not enclosed
  BracketedTexts,  \* bound: of one in brackets
  QuotedTexts,     \* bound: of one in quotes
  LineBytes,       \* bound: the bytes of arbitrary lines
  MaxBytes         \* bound: their length

ASSUME FieldsAssumption ==
  \A x \in Formats \cup PlainTexts \cup BracketedTexts \cup QuotedTexts : x \in Seq(Range(x))

VARIABLES
  format,  \* the format that was configured
  texts,   \* the texts that a server logs, one for each field
  line     \* or an arbitrary line

(* A format is a sequence of literal bytes and field codes.                *)
Codes == {"h", "t", "m", "r", "s", "b", "U", "u", "skip"}
IsCode(x) == x \in Codes
Space == "sp"
Quote == "q"
Backslash == "bs"

(* Where its codes are.                                                    *)
CodeAt(f) ==
  LET upTo[i \in 0 .. Len(f)] ==
        IF i = 0 THEN <<>>
        ELSE IF IsCode(f[i]) THEN Append(upTo[i - 1], i) ELSE upTo[i - 1]
  IN  upTo[Len(f)]

----------------------------------------------------------------------------
(* Formats.                                                                *)

(* validateFormat: no field twice but the skipped one, and an address.     *)
ValidFormat(f) ==
  /\ \A i, j \in DOMAIN f : i # j /\ IsCode(f[i]) /\ f[i] = f[j] => f[i] = "skip"
  /\ \E i \in DOMAIN f : f[i] = "h"

(* compileFormat: a field's delimiter is what follows its code.            *)
CompileFormat(f) ==
  LET Extractor(i) ==
        LET next == CASE i = Len(f) -> Space
                      [] i < Len(f) /\ IsCode(f[i + 1]) -> "%"
                      [] OTHER -> f[i + 1]
        IN  [type |-> f[i], delimiter |-> next,
             quoted |-> f[i] = "u" \/ (i < Len(f) /\ next = Quote),
             brackets |-> f[i] = "t"]
  IN  [k \in DOMAIN CodeAt(f) |-> Extractor(CodeAt(f)[k])]

----------------------------------------------------------------------------
(* The walk.  Positions count from 1; Len(l) + 1 is the end of the line.   *)

(* bytes.IndexByte: the first b at or after a position, or the end.        *)
Find(l, b, from) == Min({i \in from .. Len(l) : l[i] = b} \cup {Len(l) + 1})
FindNot(l, b, from) == Min({i \in from .. Len(l) : l[i] # b} \cup {Len(l) + 1})

(* The backslashes right before a position, down to where the text begins. *)
Backslashes(l, from, i) ==
  (i - 1) - Max({j \in from .. (i - 1) : l[j] # Backslash} \cup {from - 1})

SlipAnyEscape(l, from, i) == Backslashes(l, from, i) = 0

(* A quote closes the field unless an odd number of backslashes escapes it. *)
Closes(l, from, i) == Backslashes(l, from, i) % 2 = 0

ScanQuotedClose(l, from) ==
  Min({i \in from .. Len(l) : l[i] = Quote /\ Closes(l, from, i)} \cup {Len(l) + 1})

(* Where the text of the extractor's field begins and ends, from a         *)
(* position past blanks.                                                   *)
FieldAt(e, l, pos) ==
  LET opens(b) == pos <= Len(l) /\ l[pos] = b
  IN  CASE e.quoted /\ opens(Quote) ->
             [start |-> pos + 1, end |-> ScanQuotedClose(l, pos + 1)]
        [] ~ (e.quoted /\ opens(Quote)) /\ e.brackets /\ opens("[") ->
             [start |-> pos + 1, end |-> Find(l, "]", pos + 1)]
        [] OTHER ->
             [start |-> pos, end |-> Min({Find(l, e.delimiter, pos), Find(l, Space, pos)})]

(* Past the closing quote or bracket, or else past one delimiter.          *)
Advance(e, l, end) ==
  IF end <= Len(l)
       /\ \/ e.quoted /\ l[end] = Quote
          \/ e.brackets /\ l[end] = "]"
          \/ l[end] = e.delimiter
  THEN end + 1
  ELSE end

NoFields == [c \in Codes \ {"skip"} |-> <<>>]

(* parseUsingCompiledFormatOpt, field by field.                            *)
ParseNext(acc, e, l) ==
  LET at == FieldAt(e, l, FindNot(l, Space, acc.pos))
  IN  IF acc.pos > Len(l)
      THEN acc
      ELSE [pos |-> Advance(e, l, at.end),
            got |-> IF e.type = "skip" \/ at.start >= at.end
                    THEN acc.got
                    ELSE [acc.got EXCEPT ![e.type] = SubSeq(l, at.start, at.end - 1)]]

ParseLine(f, l) ==
  LET es == CompileFormat(f)
      walk[k \in 0 .. Len(es)] ==
        IF k = 0 THEN [pos |-> 1, got |-> NoFields]
        ELSE ParseNext(walk[k - 1], es[k], l)
  IN  walk[Len(es)].got

(* extractIPOnly: the same walk, which stores nothing, ends at the address *)
(* and returns its text.                                                   *)
SlipNoBlanks(l, pos) == pos

SkipTo(l, pos) == FindNot(l, Space, pos)

IPNext(acc, e, l) ==
  LET at == FieldAt(e, l, SkipTo(l, acc.pos))
  IN  CASE acc.found \/ acc.pos > Len(l) -> acc
        [] ~ acc.found /\ acc.pos <= Len(l) /\ e.type = "h" ->
             [pos |-> acc.pos, found |-> TRUE, ip |-> SubSeq(l, at.start, at.end - 1)]
        [] OTHER -> [pos |-> Advance(e, l, at.end), found |-> FALSE, ip |-> <<>>]

ExtractIPOnly(f, l) ==
  LET es == CompileFormat(f)
      walk[k \in 0 .. Len(es)] ==
        IF k = 0 THEN [pos |-> 1, found |-> FALSE, ip |-> <<>>]
        ELSE IPNext(walk[k - 1], es[k], l)
  IN  walk[Len(es)].ip

----------------------------------------------------------------------------
(* parseEvent: the live parser's way through the combined layout.          *)

CloseQuote(l, from) == ScanQuotedClose(l, from)

Words(l, from) ==
  LET start == FindNot(l, Space, from)
      end == Find(l, Space, start)
      start2 == FindNot(l, Space, end)
  IN  <<SubSeq(l, start, end - 1), SubSeq(l, start2, Find(l, Space, start2) - 1)>>

(* The text of the next quoted field from a position, and where it ends.   *)
NextQuoted(l, from) ==
  LET start == Find(l, Quote, from) + 1
  IN  [start |-> start, end |-> CloseQuote(l, start)]

ParseEvent(l) ==
  LET host == Find(l, Space, 1)
      open == Find(l, "[", 1)
      close == Find(l, "]", 1)
      request == NextQuoted(l, close)
      words == Words(l, request.end + 2)
      referer == NextQuoted(l, request.end + 1)
      agent == NextQuoted(l, referer.end + 1)
      TextOf(q) == SubSeq(l, q.start, q.end - 1)
      closed(q) == q.end <= Len(l)
      rejected == host > Len(l) \/ open > Len(l) \/ close > Len(l) \/ close < open
                    \/ ~ closed(request)
  IN  IF rejected
      THEN NoFields
      ELSE [NoFields EXCEPT
              !["h"] = SubSeq(l, 1, host - 1),
              !["t"] = SubSeq(l, open + 1, close - 1),
              !["r"] = TextOf(request),
              !["s"] = IF words[2] = <<>> THEN <<>> ELSE words[1],
              !["b"] = words[2],
              !["u"] = IF closed(referer) /\ closed(agent) THEN TextOf(agent) ELSE <<>>]

(* The layout it expects.                                                  *)
Combined == <<"h", Space, "skip", Space, "skip", Space, "[", "t", "]", Space,
              Quote, "r", Quote, Space, "s", Space, "b", Space,
              Quote, "skip", Quote, Space, Quote, "u", Quote>>

----------------------------------------------------------------------------
(* What a web server writes (external): its fields in the layout of the    *)
(* format, with quotes and backslashes escaped.                            *)

Escaped(t) ==
  FlattenSeq([i \in DOMAIN t |->
                IF t[i] \in {Quote, Backslash} THEN <<Backslash, t[i]>> ELSE <<t[i]>>])

Rendered(f, ts) ==
  LET Nth(i) == Cardinality({j \in 1 .. i : IsCode(f[j])})
  IN  FlattenSeq([i \in DOMAIN f |-> IF IsCode(f[i]) THEN Escaped(ts[Nth(i)]) ELSE <<f[i]>>])

TextsAt(f, i) ==
  CASE i > 1 /\ f[i - 1] = Quote -> QuotedTexts
    [] i > 1 /\ f[i - 1] = "[" -> BracketedTexts
    [] OTHER -> PlainTexts

LineInit == format \in {f \in Formats : ValidFormat(f)} /\ texts = <<>> /\ line = <<>>

(* The server logs one more field.                                         *)
LogField ==
  /\ line = <<>> /\ Len(texts) < Len(CodeAt(format))
  /\ \E t \in TextsAt(format, CodeAt(format)[Len(texts) + 1]) : texts' = Append(texts, t)
  /\ UNCHANGED <<format, line>>

(* Or a line has any bytes.                                                *)
LogByte ==
  /\ texts = <<>> /\ Len(line) < MaxBytes
  /\ \E b \in LineBytes : line' = Append(line, b)
  /\ UNCHANGED <<format, texts>>

LineNext == LogField \/ LogByte

lineVars == <<format, texts, line>>
LineSpec == LineInit /\ [][LineNext]_lineVars

----------------------------------------------------------------------------
(* Properties.                                                             *)

Logged == Len(texts) = Len(CodeAt(format))

(* The fields as they were logged, the escapes still in them.              *)
AsLogged ==
  [c \in Codes \ {"skip"} |->
     LET here == {k \in DOMAIN texts : format[CodeAt(format)[k]] = c}
     IN  IF here = {} THEN <<>> ELSE Escaped(texts[Max(here)])]

(* A field in quotes or brackets that it shares with no other field.       *)
Enclosed(f, i) ==
  /\ 1 < i /\ i < Len(f) /\ (i > 2 => ~ IsCode(f[i - 2]))
  /\ \/ f[i - 1] = Quote /\ f[i + 1] = Quote
     \/ f[i] = "t" /\ f[i - 1] = "[" /\ f[i + 1] = "]"

(* A format that tells its fields apart: each is followed by a byte, then  *)
(* come blanks only, and the quote or bracket that opens the next one.     *)
TellsApart(f) ==
  \A i \in DOMAIN f :
    IF IsCode(f[i])
    THEN i = Len(f) \/ ~ IsCode(f[i + 1])
    ELSE \/ f[i] = Space
         \/ i > 1 /\ IsCode(f[i - 1])
         \/ i < Len(f) /\ IsCode(f[i + 1]) /\ Enclosed(f, i + 1)

(* Any text fits in quotes, as the server escapes it there.  In brackets   *)
(* there is no closing bracket, and in the open there is a text, without   *)
(* what would end or enclose it.                                           *)
Suits(f, i, t) ==
  IF Enclosed(f, i)
  THEN f[i - 1] = "[" => "]" \notin Range(t)
  ELSE /\ t # <<>>
       /\ Range(t) \cap {Space, Quote, "[", "]"} = {}
       /\ i < Len(f) => f[i + 1] \notin Range(t)

(* Whatever quotes and backslashes a field has in it, no field of a line   *)
(* whose format tells them apart is cut, shifted or missed; and the live   *)
(* parser, which takes the line apart by other means, agrees with the      *)
(* static one on the layout it knows.                                      *)
FieldsRecovered ==
  Logged /\ TellsApart(format) /\ (\A k \in DOMAIN texts : Suits(format, CodeAt(format)[k], texts[k]))
    => LET l == Rendered(format, texts)
       IN  /\ ParseLine(format, l) = AsLogged
           /\ format = Combined => ParseEvent(l) = AsLogged

(* "Delimiters must match (spaces, pipes, etc.)": so does the line of a    *)
(* format whose fields are told apart by another delimiter, enclosed       *)
(* fields or not.                                                          *)
DelimitersRecovered ==
  Logged => ParseLine(format, Rendered(format, texts)) = AsLogged

(* On any line, well formed or not, the walk that looks for the address    *)
(* alone finds what the full walk finds.                                   *)
IPOnlyAgrees ==
  ExtractIPOnly(format, line) = ParseLine(format, line)["h"]
=============================================================================
