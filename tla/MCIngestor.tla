---------------------------- MODULE MCIngestor ----------------------------
(***************************************************************************)
(* Three batches, one of them unusable; the server's channel holds two     *)
(* and the events channel one, so that each of them fills up.              *)
(***************************************************************************)
EXTENDS Ingestor
=============================================================================
