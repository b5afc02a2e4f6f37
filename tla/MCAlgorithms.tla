---------------------------- MODULE MCAlgorithms ----------------------------
(***************************************************************************)
(* The pure algorithms, each on arguments that grow step by step: one of   *)
(* them in a behavior, while those of the others stay as they began.       *)
(***************************************************************************)
EXTENDS CIDRAlgebra, Prefilter, LogFields

AlgorithmsInit == CallsInit /\ PatternInit /\ LineInit

NetsIdle == nets = <<>> /\ white = <<>>
PatternIdle == pattern = BeginText
LineIdle == format = Combined /\ texts = <<>> /\ line = <<>>

CIDRCall == PatternIdle /\ LineIdle /\ CallsNext /\ UNCHANGED <<patternVars, lineVars>>
PatternCall == NetsIdle /\ LineIdle /\ PatternNext /\ UNCHANGED <<args, lineVars>>
LineCall == NetsIdle /\ PatternIdle /\ LineNext /\ UNCHANGED <<args, patternVars>>

AlgorithmsNext == CIDRCall \/ PatternCall \/ LineCall
AlgorithmsSpec == AlgorithmsInit /\ [][AlgorithmsNext]_<<args, patternVars, lineVars>>
----------------------------------------------------------------------------
(* Patterns over two letters, in either case, and a rune that is none.     *)
MCLeaves ==
  {Lit(<<"a">>, FALSE), Lit(<<"a", "b">>, FALSE), Lit(<<"A", "b">>, TRUE),
   Lit(<<"b">>, TRUE), AnyChar, BeginText}
MCRunes == {"a", "A", "b", "/"}
(* Patterns and inputs beyond ASCII.                                       *)
UnicodeLeaves ==
  {Lit(<<"k", "b">>, TRUE), Lit(<<"a", "b">>, TRUE), Lit(<<"E'">>, FALSE), BeginText}
UnicodeRunes == {"a", "b", "k", "kelvin", "E'"}

(* The documented layouts that keep their fields apart by blanks, and one  *)
(* with pipes; and the documented one with pipes and brackets.             *)
UpTo(n, bytes) == UNION {[1 .. k -> bytes] : k \in 0 .. n}
Forwarded == <<"skip", Space, "[", "t", "]", Space, Quote, "r", Quote, Space, "s", Space,
               Quote, "u", Quote, Space, Quote, "h", Quote>>
MCFormats ==
  {Combined, Forwarded, <<"h", "|", "m", "|", "U", "|", "s">>,
   <<Quote, "u", Quote, Space, "h">>, <<"[", "t", "]", Space, "h">>}
PipeFormats == {<<"h", "|", "[", "t", "]", "|", "m", "|", "U", "|", "s">>}
MCPlain == {<<"x">>}
MCBracketed == {<<"x">>, <<"x", Space, "x">>}
MCQuoted == UpTo(2, {"x", Space, Quote, Backslash})
MCBytes == {"x", Space, Quote, Backslash, "[", "]"}
NoTexts == {}
=============================================================================
