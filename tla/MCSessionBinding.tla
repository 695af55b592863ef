-------------------------- MODULE MCSessionBinding --------------------------
(* Small instances of SessionBinding for TLC. *)
EXTENDS SessionBinding, TLC

Symmetry == Permutations(Threads) \cup Permutations(Sessions)

=============================================================================
