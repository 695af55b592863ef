------------------------- MODULE MCInteractiveStore -------------------------
(* Small instances of InteractiveStore for TLC. *)
EXTENDS InteractiveStore, TLC

=============================================================================
