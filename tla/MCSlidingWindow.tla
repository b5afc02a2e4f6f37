-------------------------- MODULE MCSlidingWindow --------------------------
(***************************************************************************)
(* A small window over 3-bit addresses, two of them neighbours.            *)
(***************************************************************************)
EXTENDS SlidingWindow

MCRequesters == {<<0, 1, 0>>, <<0, 1, 1>>, <<1, 0, 0>>}

Args(size, minDepth, maxDepth, threshold) ==
  [size |-> size, minDepth |-> minDepth, maxDepth |-> maxDepth, threshold |-> threshold]

(* Single addresses, inner ranges of balanced load, and a tolerance that   *)
(* takes one third for balanced.                                           *)
MCArgSets ==
  {Args(1, 3, 3, 0), Args(2, 0, 3, 0), Args(2, 1, 2, 1000), Args(1, 2, 3, 500)}
=============================================================================
