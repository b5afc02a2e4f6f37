----------------------------- MODULE Prefilter -----------------------------
(***************************************************************************)
(* config/regexprefilter/prefilter.go: the literals that a regular         *)
(* expression requires, the substring screen built from them, and the gate *)
(* of config.go that asks the screen before the expression.                *)
(*                                                                         *)
(* A string is a sequence of runes.  UTF-8 is self-synchronising, so that  *)
(* a string holds the bytes of another exactly where it holds its runes;   *)
(* only lengths are counted in bytes.  A pattern is the syntax tree that   *)
(* regexp/syntax hands over, grown here node by node, nested in ways that  *)
(* the parser would flatten too.                                           *)
(***************************************************************************)
EXTENDS Naturals, Sequences, SequencesExt, FiniteSetsExt

CONSTANTS
  Leaves,           \* the leaves patterns are grown from
  InputRunes,       \* the runes of the inputs
  maxCrossProduct,  \* the largest set of literals that is multiplied out
  MaxInput,         \* bound: the length of the inputs
  MaxGrowth         \* bound: the number of nodes above the leaves

ASSUME PrefilterAssumption == maxCrossProduct \in Nat \ {0} /\ MaxInput \in Nat

VARIABLES
  pattern,  \* the syntax tree, as syntax.Parse returned it
  grown     \* the nodes above its leaves, at most

----------------------------------------------------------------------------
(* Runes.                                                                  *)

(* What (?i) takes for the same: unicode.SimpleFold.                       *)
Orbits == {{"a", "A"}, {"b", "B"}, {"k", "K", "kelvin"}, {"e'", "E'"}, {"/"}}
Orbit(r) == CHOOSE o \in Orbits : r \in o

ASCIILetter == {"a", "A", "b", "B", "k", "K"}
NonASCII == {"kelvin", "e'", "E'"}
Width(r) == IF r = "kelvin" THEN 3 ELSE IF r \in NonASCII THEN 2 ELSE 1

(* lowerASCII, and strings.ToLower, which lowers the others too.           *)
LowerASCII(r) == CASE r = "A" -> "a" [] r = "B" -> "b" [] r = "K" -> "k"
                   [] OTHER -> r
ToLower(r) == CASE r = "E'" -> "e'" [] r = "kelvin" -> "k"
                [] OTHER -> LowerASCII(r)

Map(Op(_), s) == [i \in DOMAIN s |-> Op(s[i])]
Holds(s, n) ==
  \E i \in 0 .. (Len(s) - Len(n)) : SubSeq(s, i + 1, i + Len(n)) = n
ByteLen(l) == FoldLeft(LAMBDA n, r : n + Width(r), 0, l)

----------------------------------------------------------------------------
(* Patterns and what they match.                                           *)

Lit(runes, fold) == [op |-> "literal", runes |-> runes, fold |-> fold]
AnyChar == [op |-> "any"]     \* and, to the extractor, a class of several runes
BeginText == [op |-> "begin"]
Unary == {"plus", "repeat", "star", "quest", "capture"}  \* repeat: x{2}
Wrap(op, t) == [op |-> op, sub |-> t]
Node(op, ts) == [op |-> op, subs |-> ts]

(* The positions where a match of t that begins at position i may end.     *)
RECURSIVE Ends(_, _, _)
Ends(t, s, i) ==
  LET From(u, starts) == UNION {Ends(u, s, j) : j \in starts}
      RECURSIVE Closure(_)
      Closure(js) == LET more == js \cup From(t.sub, js)
                     IN  IF more = js THEN js ELSE Closure(more)
      Same(r, q) == IF t.fold THEN q \in Orbit(r) ELSE q = r
      n == Len(t.runes)
  IN  CASE t.op = "literal" ->
             IF i + n <= Len(s) + 1
                  /\ \A k \in 1 .. n : Same(t.runes[k], s[i + k - 1])
             THEN {i + n} ELSE {}
        [] t.op = "any" -> IF i <= Len(s) THEN {i + 1} ELSE {}
        [] t.op = "begin" -> IF i = 1 THEN {i} ELSE {}
        [] t.op = "capture" -> Ends(t.sub, s, i)
        [] t.op = "quest" -> {i} \cup Ends(t.sub, s, i)
        [] t.op = "star" -> Closure({i})
        [] t.op = "plus" -> Closure(Ends(t.sub, s, i))
        [] t.op = "repeat" -> From(t.sub, Ends(t.sub, s, i))
        [] t.op = "alternate" -> UNION {Ends(t.subs[k], s, i) : k \in DOMAIN t.subs}
        [] t.op = "concat" -> FoldLeft(LAMBDA js, u : From(u, js), {i}, t.subs)

(* regexp.MatchString: unanchored.                                         *)
MatchString(t, s) == \E i \in 1 .. (Len(s) + 1) : Ends(t, s, i) # {}

----------------------------------------------------------------------------
(* The extractor.  set holds literals of which every match contains one;   *)
(* full says that a match is nothing but one of them, fold that some of    *)
(* them are matched in any case, cs that some hold a letter that is not.   *)

FailClosed == [ok |-> FALSE, set |-> <<>>, full |-> FALSE, fold |-> FALSE, cs |-> FALSE]

LiteralFromRunes(runes, fold) ==
  LET letters == \E i \in DOMAIN runes : runes[i] \in ASCIILetter
  IN  IF fold /\ \E i \in DOMAIN runes : runes[i] \in NonASCII
      THEN FailClosed
      ELSE [ok |-> TRUE, set |-> <<runes>>, full |-> TRUE,
            fold |-> fold /\ letters, cs |-> ~ fold /\ letters]

Partial(r) == IF r.ok THEN [r EXCEPT !.full = FALSE] ELSE FailClosed

ExtractAlternate(rs) ==
  LET Some(f) == \E i \in DOMAIN rs : rs[i][f]
  IN  IF \E i \in DOMAIN rs : ~ rs[i].ok
      THEN FailClosed
      ELSE [ok |-> TRUE, set |-> FlattenSeq(Map(LAMBDA r : r.set, rs)),
            full |-> \A i \in DOMAIN rs : rs[i].full,
            fold |-> Some("fold"), cs |-> Some("cs")]

MinLen(ls) == Min({ByteLen(ls[i]) : i \in DOMAIN ls})
CrossProduct(a, b) == FlattenSeq(Map(LAMBDA x : Map(LAMBDA y : x \o y, b), a))

(* extractConcat: the literals required contiguously so far (the run), and *)
(* the best run that has ended, the one whose shortest literal is longest. *)
NoRun == [cur |-> <<>>, curFold |-> FALSE, curFull |-> TRUE,
          best |-> <<>>, bestFold |-> FALSE, bestMin |-> 0, spans |-> FALSE]

CloseRun(acc) ==
  LET ended == [acc EXCEPT !.cur = <<>>, !.curFold = FALSE, !.curFull = TRUE]
  IN  IF acc.cur # <<>> /\ MinLen(acc.cur) > acc.bestMin
      THEN [ended EXCEPT !.best = acc.cur, !.bestFold = acc.curFold,
                         !.bestMin = MinLen(acc.cur)]
      ELSE ended

BeginRun(acc, r, first) ==
  [CloseRun(acc) EXCEPT !.cur = r.set, !.curFold = r.fold, !.curFull = r.full,
                        !.spans = first]

Glue(acc, r) ==
  [acc EXCEPT !.cur = CrossProduct(acc.cur, r.set), !.curFold = @ \/ r.fold,
              !.curFull = r.full]

Gluable(acc, r) ==
  /\ acc.cur # <<>> /\ acc.curFull /\ r.full
  /\ Len(acc.cur) * Len(r.set) <= maxCrossProduct

ConcatNext(acc, r, first) ==
  LET broken(a) == [CloseRun(a) EXCEPT !.spans = FALSE]
      joined == IF Gluable(acc, r) THEN Glue(acc, r) ELSE BeginRun(acc, r, first)
  IN  IF ~ r.ok THEN broken(acc)
      ELSE IF r.full THEN joined
      ELSE broken(joined)

ExtractConcat(rs) ==
  LET acc == CloseRun(FoldLeft(LAMBDA a, i : ConcatNext(a, rs[i], i = 1), NoRun,
                               [i \in DOMAIN rs |-> i]))
  IN  IF acc.best = <<>>
      THEN FailClosed
      ELSE [ok |-> TRUE, set |-> acc.best, full |-> acc.spans,
            fold |-> acc.bestFold, cs |-> \E i \in DOMAIN rs : rs[i].cs]

RECURSIVE Extract(_)
Extract(t) ==
  CASE t.op = "literal" -> LiteralFromRunes(t.runes, t.fold)
    [] t.op \in {"plus", "repeat"} -> Partial(Extract(t.sub))
    [] t.op = "capture" -> Extract(t.sub)
    [] t.op = "alternate" -> ExtractAlternate(Map(Extract, t.subs))
    [] t.op = "concat" -> ExtractConcat(Map(Extract, t.subs))
    [] OTHER -> FailClosed

----------------------------------------------------------------------------
(* Build, MightMatch and the gate.                                         *)

minLiteralLen == 2
NoPrefilter == [nil |-> TRUE]

SlipExactWithCase(r) == r.full

(* A tree that folds some letters and not others has its whole set lowered, *)
(* and is then only necessary.                                             *)
Exact(r) == r.full /\ ~ (r.fold /\ r.cs)

Build(t) ==
  LET r == Extract(t)
  IN  IF ~ r.ok \/ MinLen(r.set) < minLiteralLen
      THEN NoPrefilter
      ELSE [nil |-> FALSE, foldCase |-> r.fold, exact |-> Exact(r),
            needles |-> {IF r.fold THEN Map(ToLower, l) ELSE l : l \in ToSet(r.set)}]

MightMatch(p, s) ==
  p.nil \/ \E n \in p.needles :
             Holds(IF p.foldCase THEN Map(LowerASCII, s) ELSE s, n)

(* regexGate, for a filter that is configured.                             *)
RegexGate(t, p, s) ==
  /\ s # <<>>
  /\ MightMatch(p, s)
  /\ (~ p.nil /\ p.exact) \/ MatchString(t, s)

----------------------------------------------------------------------------
PatternInit == pattern \in Leaves /\ grown = 0

Grow(t) == grown < MaxGrowth /\ pattern' = t /\ grown' = grown + 1

WrapPattern == \E op \in Unary : Grow(Wrap(op, pattern))
JoinPattern ==
  \E op \in {"alternate", "concat"}, l \in Leaves :
    Grow(Node(op, <<pattern, l>>)) \/ Grow(Node(op, <<l, pattern>>))
ExtendPattern ==
  /\ pattern.op \in {"alternate", "concat"}
  /\ \E l \in Leaves : Grow([pattern EXCEPT !.subs = Append(@, l)])

PatternNext == WrapPattern \/ JoinPattern \/ ExtendPattern

patternVars == <<pattern, grown>>

----------------------------------------------------------------------------
(* Properties.                                                             *)

Inputs == UNION {[1 .. n -> InputRunes] : n \in 0 .. MaxInput}

(* The gate lets through exactly the non-empty values that the expression  *)
(* matches, whatever the screen makes of the expression: no literal is     *)
(* required that a match may lack, none is glued across a gap, and a       *)
(* screen that stands in for the expression accepts nothing else.          *)
GateAgrees ==
  LET p == Build(pattern)
  IN  \A s \in Inputs \ {<<>>} :
        RegexGate(pattern, p, s) <=> MatchString(pattern, s)

(* "The prefilter MUST NOT report a false negative", for every input.      *)
NoFalseNegative ==
  LET p == Build(pattern)
  IN  \A s \in Inputs : MatchString(pattern, s) => MightMatch(p, s)
=============================================================================
