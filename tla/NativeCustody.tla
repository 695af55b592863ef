--------------------------- MODULE NativeCustody ---------------------------
(***************************************************************************)
(* What a live session promises about the native document it owns, without *)
(* threads, queues, timeouts or closes: who may release the editor, and    *)
(* what may be lost when it goes.                                          *)
(*                                                                         *)
(*   "owned"        commands run                                           *)
(*   "quarantined"  a wait expired; what was running may still finish      *)
(*   "cleared"      a recovery copy is preserved and acknowledged          *)
(*   "held"         an outcome is unknown; kept for the process's lifetime *)
(*   "gone"         the editor was told to quit                            *)
(***************************************************************************)

VARIABLES custody, unpreserved
vars == <<custody, unpreserved>>

Init == custody = "owned" /\ unpreserved = FALSE

\* A command changes the document.
Edit == /\ custody \in {"owned", "quarantined"}
        /\ unpreserved' = TRUE
        /\ UNCHANGED custody

\* A proved save, or a recovery copy.
Preserve == /\ custody # "gone"
            /\ unpreserved' = FALSE
            /\ UNCHANGED custody

Quarantine == /\ custody = "owned"
              /\ custody' = "quarantined"
              /\ UNCHANGED unpreserved

Clear == /\ custody = "quarantined"
         /\ ~unpreserved
         /\ custody' = "cleared"
         /\ UNCHANGED unpreserved

Hold == /\ custody \in {"owned", "quarantined", "cleared"}
        /\ custody' = "held"
        /\ UNCHANGED unpreserved

Release == /\ custody \in {"owned", "quarantined", "cleared"}
           /\ ~unpreserved
           /\ custody' = "gone"
           /\ UNCHANGED unpreserved

Next == Edit \/ Preserve \/ Quarantine \/ Clear \/ Hold \/ Release

Spec == Init /\ [][Next]_vars

=============================================================================
