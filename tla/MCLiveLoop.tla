---------------------------- MODULE MCLiveLoop ----------------------------
(***************************************************************************)
(* A small live loop: the range P of two addresses and their /32s.         *)
(***************************************************************************)
EXTENDS LiveLoop

MCBounds ==
  [r \in CIDRs |->
     CASE r = "P" -> [ok |-> TRUE, start |-> 0, end |-> 1]
       [] r = "A" -> [ok |-> TRUE, start |-> 0, end |-> 0]
       [] r = "B" -> [ok |-> TRUE, start |-> 1, end |-> 1]]

MCHost == [a \in Addr |-> IF a = 0 THEN "A" ELSE "B"]
MCBanDuration == [c \in 1..NumCells |-> c]

Brings(detected, white, black) ==
  [detected |-> detected, white |-> white, black |-> black]

(* The range detected, address 0 seen with a whitelisted User-Agent, and   *)
(* both addresses seen with a blacklisted one while 1 is detected.         *)
MCAgentTraffic ==
  {Brings(<<"P">>, {}, {}), Brings(<<>>, {0}, {}), Brings(<<"B">>, {}, {0, 1})}
=============================================================================
