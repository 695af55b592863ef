--------------------------- MODULE MCLiveSession ---------------------------
(* Small instances of LiveSession for TLC. *)
EXTENDS LiveSession, TLC

Symmetry == Permutations(Cmds) \cup Permutations(Closes) \cup Permutations(Ackers)

=============================================================================
