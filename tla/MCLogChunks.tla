--------------------------- MODULE MCLogChunks ----------------------------
(***************************************************************************)
(* All files of up to ShortLen bytes, and all without "cr" of up to        *)
(* LongLen bytes.                                                          *)
(***************************************************************************)
EXTENDS LogChunks

CONSTANTS ShortLen, LongLen

Contents(bytes, n) == UNION {[1..k -> bytes] : k \in 0..n}
MCFiles ==
  Contents({"x", "cr", "lf"}, ShortLen) \cup Contents({"x", "lf"}, LongLen)
=============================================================================
