--------------------------- MODULE MCAtomicFile ---------------------------
(***************************************************************************)
(* Two processes that save the same file.                                  *)
(***************************************************************************)
EXTENDS AtomicFile
=============================================================================
