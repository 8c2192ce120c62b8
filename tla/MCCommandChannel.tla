-------------------------- MODULE MCCommandChannel --------------------------
(* CommandChannel for TLC: goroutines and request bodies are model values. *)
EXTENDS CommandChannel

=============================================================================
