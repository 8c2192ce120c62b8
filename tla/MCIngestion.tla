---------------------------- MODULE MCIngestion -----------------------------
(* Ingestion for TLC: vehicles and workers are model values. *)
EXTENDS Ingestion

=============================================================================
