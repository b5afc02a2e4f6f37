------------------------------ MODULE MCJail ------------------------------
(***************************************************************************)
(* A small jail: the ranges G > P > {A, B}.                                *)
(***************************************************************************)
EXTENDS Jail

IPv4(first, last) == [ok |-> TRUE, start |-> first, end |-> last]

MCBounds ==
  [r \in CIDRs |->
     CASE r = "G" -> IPv4(0, 3)
       [] r = "P" -> IPv4(0, 1)
       [] r = "A" -> IPv4(0, 0)
       [] r = "B" -> IPv4(1, 1)]

(* Ban durations grow with the cell, as those of NewJail do.               *)
MCBanDuration == [c \in Cells |-> c]
=============================================================================
