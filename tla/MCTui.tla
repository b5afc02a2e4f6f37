------------------------------- MODULE MCTui -------------------------------
EXTENDS Tui, TLC

\* Two tries, the first with two cluster sets and the second with one.
TwoThenOne == (0 :> 2) @@ (1 :> 1)
=============================================================================
