-------------------------- MODULE MCCommandService --------------------------
(* CommandService for TLC: goroutines and request bodies are model values. *)
EXTENDS CommandService

=============================================================================
