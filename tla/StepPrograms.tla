---------------------------- MODULE StepPrograms ----------------------------
(***************************************************************************)
(* The vocabulary in which the edit engines are described.  An engine is a *)
(* straight program of phases; what a phase reads or computes is abstract, *)
(* what it may do to the document and to the caret, and how it may fail,   *)
(* is not.  The module CommandBundle runs the programs.                    *)
(*                                                                         *)
(* A phase that fails raises one of these:                                 *)
(*   "refusal"   NativeNumberingRefusal: a judged, unmutated target        *)
(*   "clean"     the same, already proven unchanged by its producer        *)
(*   "step"      a LocalCliStepRefusal that the engine registers           *)
(*   "read"      NativeNumberingReadFailure: a native read raised          *)
(*   "mutation"  NativeNumberingMutationError / LocalCliMutationError      *)
(*   "undoable"  a failed proof for which the engine first tries to undo   *)
(*   "error"     any other exception                                       *)
(***************************************************************************)
EXTENDS Naturals, Sequences, FiniteSets

Classes == {"refusal", "clean", "step", "read", "mutation", "undoable", "error"}

Phase(do, c) == <<[do |-> do, raises |-> c, n |-> 0]>>

Check(c) == Phase("check", c)     \* judges data already read; c when it does not suit
Read(c)  == Phase("read", c)      \* a native read; "read" when it raises, c when unusable
Move(c)  == Phase("move", c)      \* moves the caret or the selection; c when not confirmed
Visit    == Phase("visit", "error")     \* best-effort navigation: whatever fails is ignored
Publish  == Phase("publish", "error")   \* reports mutation intent to the bundle
Act      == Phase("act", "mutation")    \* a native edit, its status checked
ActOr(c) == Phase("act", c)             \* the same, with a failure of its own class
Try      == Phase("try", "error")       \* a native edit whose status is not checked
Retried  == Phase("retry", "error")     \* an edit issued again elsewhere when a call raised
Revert   == Phase("revert", "error")    \* native Undo calls, or the old values written again
Verify   == Phase("verify", "mutation") \* compares the whole document with the request
Peek(c)  == Phase("peek", c)      \* compares what the edit should have shown, nothing else
Differs(c) == Phase("differs", c) \* looks whether anything changed where the edit should show
Arm      == Phase("arm", "error") \* from here on the wrapper restores before it refuses
Home(c)  == Phase("home", c)      \* puts the caret back and proves it
HomeIfMoved(c) == Phase("homeif", c)    \* the same, only when something was moved
Tidy     == Phase("tidy", "error")      \* puts the caret back, and ignores a failure
Same(c)  == Phase("same", c)      \* proves that the document is what it was
MayStop  == Phase("stop", "error")      \* nothing to change: leaves the rest out

\* The step succeeded and reports n native editing actions.
Report(n) == <<[do |-> "report", raises |-> "error", n |-> n]>>

EditPhases == {"act", "try", "retry"}

\* n rounds of p.
Times(n, p) == [i \in 1..(n * Len(p)) |-> p[((i - 1) % Len(p)) + 1]]

Acts(p) == Cardinality({i \in DOMAIN p : p[i].do \in EditPhases})
=============================================================================
