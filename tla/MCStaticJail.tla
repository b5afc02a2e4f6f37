--------------------------- MODULE MCStaticJail ---------------------------
(***************************************************************************)
(* Static runs over the range P of two addresses and their /32s.           *)
(***************************************************************************)
EXTENDS StaticJail

MCBounds ==
  [r \in CIDRs |->
     CASE r = "P" -> [ok |-> TRUE, start |-> 0, end |-> 1]
       [] r = "A" -> [ok |-> TRUE, start |-> 0, end |-> 0]
       [] r = "B" -> [ok |-> TRUE, start |-> 1, end |-> 1]]

MCHost == [a \in {0, 1} |-> IF a = 0 THEN "A" ELSE "B"]
MCBanDuration == [c \in 1..NumCells |-> c]

Finds(detected, white, black) ==
  [detected |-> detected, white |-> white, black |-> black]

MCFindings ==
  {Nothing, Finds(<<"A">>, {}, {}), Finds(<<"P">>, {}, {1}), Finds(<<"B">>, {0}, {1})}
=============================================================================
