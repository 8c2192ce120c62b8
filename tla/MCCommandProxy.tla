--------------------------- MODULE MCCommandProxy ---------------------------
(* CommandProxy for TLC: goroutines and request bodies are model values. *)
EXTENDS CommandProxy, TLC

Symmetry == Permutations(Handlers)

=============================================================================
