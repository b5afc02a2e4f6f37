--------------------------- MODULE AddressWidth ---------------------------
(***************************************************************************)
(* The width of an address, for the trie and for the range arithmetic.     *)
(***************************************************************************)
EXTENDS Integers

CONSTANT W     (* Bits of an address; 32 in the code.                      *)

ASSUME WAssumption == W \in Nat \ {0}
=============================================================================
