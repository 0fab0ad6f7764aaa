------------------------------- MODULE MCIngest -------------------------------
(* Instances of Ingest for TLC.                                            *)
EXTENDS Ingest, TLC
=============================================================================
