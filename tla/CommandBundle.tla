---------------------------- MODULE CommandBundle ----------------------------
(***************************************************************************)
(* LocalCliService.command_bundle: the handler that runs the steps of one  *)
(* bundle on the owning thread, and what it decides about a step that      *)
(* failed (clean refusal, held custody, edit debt).                        *)
(*                                                                         *)
(* The engines are programs of StepPrograms.  Navigation and edits are     *)
(* calls into Hancom, so each may fail, fail after it took effect, or      *)
(* report success and do something else; silent misbehaviour is bounded by *)
(* MaxSilent.  The model keeps what really happened (eff, odd, drift,      *)
(* away) apart from what the code knows (issued, intent, reported).        *)
(***************************************************************************)
EXTENDS ProgramRules

CONSTANTS Commands,    \* the command packages, one record for each variant of an op
          MaxSteps,    \* steps of a bundle
          MaxSilent    \* native calls that silently misbehave

ASSUME BundleAssumption ==
    /\ MaxSteps \in Nat \ {0}
    /\ MaxSilent \in Nat
    /\ Commands # {} /\ \A c \in Commands : Orderly(c)

VARIABLES
    size, guarded,     \* the bundle: how many steps, and does one of them need the guarded envelope
    at, seen,          \* the step that runs; did a guarded step run
    cmd, mode, pc,    \* the engine: which, which of its programs, which phase
    armed, issued, intent, reported, raised,
    eff, odd, drift, away, silent,
    changed,           \* did a step of the bundle that has ended leave an edit in the document
    last,              \* the status of the step that ended last
    dirty, held        \* the envelope: 'dirty', and 'no' | 'unmutated' | 'mutated'

bundleVars == <<size, guarded, at, seen>>
engineVars == <<cmd, mode, pc, armed, issued, intent, reported, raised>>
truthVars  == <<eff, odd, drift, away, silent, changed>>
resultVars == <<last, dirty, held>>
vars == <<bundleVars, engineVars, truthVars, resultVars>>

NoStatus == [ok |-> TRUE, refused |-> FALSE, persisted |-> FALSE, changed |-> FALSE, count |-> 0]

\* The program the engine is in: its body, what it does when there is nothing
\* to change, or what it does before it lets a refusal out.
Program == IF mode = "body" THEN cmd.body
           ELSE IF mode = "still" THEN cmd.still
           ELSE cmd.back

Running == mode \in {"body", "still", "back"}
Phase0  == Program[pc]

\* How many edits the body has issued before phase i.
ActsBefore(p, i) == Cardinality({j \in 1..(i - 1) : p[j].do \in EditPhases})
AsAsked == eff = ActsBefore(Program, pc) /\ ~odd /\ ~drift
Touched   == eff > 0 \/ odd
Unchanged == ~Touched /\ ~drift

-----------------------------------------------------------------------------
\* _validate_command_bundle_steps has accepted a list of steps; the envelope is
\* guarded when one of them is.
Init ==
    /\ size \in 1..MaxSteps /\ guarded \in BOOLEAN
    /\ at = 0 /\ seen = FALSE
    /\ cmd \in {CHOOSE c \in Commands : TRUE} /\ mode = "between" /\ pc = 1
    /\ armed = FALSE /\ issued = FALSE /\ intent = FALSE /\ reported = 0 /\ raised = "none"
    /\ eff = 0 /\ odd = FALSE /\ drift = FALSE /\ away = FALSE /\ silent = 0 /\ changed = FALSE
    /\ last = NoStatus /\ dirty = FALSE /\ held = "no"

\* Mutant: the dispatcher trusts every engine to publish its own intent.
MarksBefore_Never(c) == FALSE

\* The families of _execute_command_bundle_step: a guarded or a deferred engine
\* publishes its intent itself, an inspection never does, and for every other
\* package the dispatcher publishes before it calls it.  The runtime does the same
\* for a command of its own that is not one of the audited reads.
MarksBefore(c) == c.family \in {"legacy", "direct", "macro"}

\* A command of its own, outside any bundle, is modelled as a request of one step.
Alone(c) == c.family \in {"direct", "macro", "glance"}

\* The last step decides whether the bundle holds a guarded step at all.
Fits(c) ==
    /\ c.family = "guarded" => guarded
    /\ Alone(c) => size = 1 /\ ~guarded
    /\ at = size - 1 /\ guarded /\ ~seen => c.family = "guarded"

BeginStep(c) ==
    /\ mode = "between" /\ at < size /\ Fits(c)
    /\ at' = at + 1 /\ seen' = (seen \/ c.family = "guarded")
    /\ cmd' = c /\ mode' = "body" /\ pc' = 1 /\ armed' = FALSE /\ reported' = 0 /\ raised' = "none"
    /\ issued' = MarksBefore(c) /\ intent' = (intent \/ MarksBefore(c))
    /\ eff' = 0 /\ odd' = FALSE /\ drift' = FALSE /\ away' = FALSE
    /\ UNCHANGED <<size, guarded, silent, changed, resultVars>>

-----------------------------------------------------------------------------
(***************************************************************************)
(* An exception inside an engine.  After intent was published, every       *)
(* exception of a strict engine leaves as a mutation error (_guarded of    *)
(* native_table, _run of native_paragraph_edit and their like).  Before    *)
(* that, a refusal first runs the wrapper's restoration when the wrapper   *)
(* has evidence to compare with.                                           *)
(***************************************************************************)
Converted(c) == IF issued /\ cmd.family \in {"guarded", "deferred"} /\ mode # "back" THEN "mutation" ELSE c

\* Mutant: a refusal leaves at once, whatever the wrapper had armed.
Raise_AtOnce(c) ==
    /\ mode' = "failed" /\ pc' = pc /\ raised' = Converted(c)
    /\ UNCHANGED <<cmd, armed, issued, intent, reported>>

Raise(c) ==
    LET d == Converted(c) IN
    /\ IF d \in {"refusal", "step", "undoable"} /\ armed /\ mode # "back"
       THEN mode' = "back" /\ pc' = 1 /\ raised' = d
       ELSE mode' = "failed" /\ pc' = pc /\ raised' = d
    /\ UNCHANGED <<cmd, armed, issued, intent, reported>>

Continue == pc' = pc + 1 /\ UNCHANGED <<cmd, mode, armed, issued, intent, reported, raised>>

At(do) == Running /\ pc <= Len(Program) /\ Phase0.do = do

\* A fault of the native side that nobody reports.
Silently == silent < MaxSilent /\ silent' = silent + 1

Judge ==
    /\ At("check")
    /\ Continue \/ Raise(Phase0.raises)
    /\ UNCHANGED <<bundleVars, truthVars, resultVars>>

ReadNative ==
    /\ At("read")
    /\ Continue \/ Raise("read") \/ Raise(Phase0.raises)
    /\ UNCHANGED <<bundleVars, truthVars, resultVars>>

Navigate ==
    /\ At("move")
    /\ Continue \/ Raise("read") \/ Raise(Phase0.raises)
    /\ away' = TRUE
    /\ (drift' = drift /\ silent' = silent) \/ (drift' = TRUE /\ Silently)
    /\ UNCHANGED <<eff, odd, changed, bundleVars, resultVars>>

\* Navigation that goes on whatever happened.
VisitAround ==
    /\ At("visit") /\ Continue
    /\ away' = TRUE
    /\ (drift' = drift /\ silent' = silent) \/ (drift' = TRUE /\ Silently)
    /\ UNCHANGED <<eff, odd, changed, bundleVars, resultVars>>

PublishIntent ==
    /\ At("publish")
    /\ issued' = TRUE /\ intent' = TRUE /\ pc' = pc + 1
    /\ UNCHANGED <<cmd, mode, armed, reported, raised, bundleVars, truthVars, resultVars>>

\* A native edit whose status must be the documented one.
EditChecked ==
    /\ At("act")
    /\ \/ Continue /\ eff' = eff + 1 /\ UNCHANGED <<odd, silent>>
       \/ Continue /\ odd' = TRUE /\ Silently /\ UNCHANGED eff
       \/ Raise(Phase0.raises) /\ eff' \in {eff, eff + 1} /\ UNCHANGED <<odd, silent>>
    /\ away' = TRUE
    /\ UNCHANGED <<drift, changed, bundleVars, resultVars>>

\* A native edit whose status nobody reads: it may also simply not happen.
EditUnchecked ==
    /\ At("try")
    /\ \/ Continue /\ eff' = eff + 1 /\ UNCHANGED <<odd, silent>>
       \/ Continue /\ odd' = TRUE /\ Silently /\ UNCHANGED eff
       \/ Continue /\ UNCHANGED <<eff, odd, silent>>
       \/ Raise(Phase0.raises) /\ eff' \in {eff, eff + 1} /\ UNCHANGED <<odd, silent>>
    /\ away' = TRUE
    /\ UNCHANGED <<drift, changed, bundleVars, resultVars>>

\* Up to three entry points, each tried when the one before raised: a call that
\* raised may have taken effect all the same.
EditRetried ==
    /\ At("retry")
    /\ \/ Continue /\ eff' \in (eff + 1)..(eff + 3) /\ UNCHANGED <<odd, silent>>
       \/ Continue /\ odd' = TRUE /\ Silently /\ UNCHANGED eff
       \/ Raise(Phase0.raises) /\ eff' \in eff..(eff + 3) /\ UNCHANGED <<odd, silent>>
    /\ away' = TRUE
    /\ UNCHANGED <<drift, changed, bundleVars, resultVars>>

\* The attempt to take the edits back, of which nobody checks how far it went.
RevertEdits ==
    /\ At("revert")
    /\ Continue \/ Raise(Phase0.raises)
    /\ eff' \in 0..eff
    /\ UNCHANGED <<odd, drift, away, silent, changed, bundleVars, resultVars>>

\* Mutant: only what had to stay is compared, not what was asked for.
VerifyDocument_Rest ==
    /\ At("verify")
    /\ (~odd /\ ~drift /\ Continue) \/ Raise(Phase0.raises)
    /\ UNCHANGED <<bundleVars, truthVars, resultVars>>

\* The whole document against the request.
VerifyDocument ==
    /\ At("verify")
    /\ (AsAsked /\ Continue) \/ Raise(Phase0.raises)
    /\ UNCHANGED <<bundleVars, truthVars, resultVars>>

\* Only what the edit should show: something else it did is not seen.
PeekAtResult ==
    /\ At("peek")
    /\ (eff = ActsBefore(Program, pc) /\ Continue) \/ Raise(Phase0.raises)
    /\ UNCHANGED <<bundleVars, truthVars, resultVars>>

\* Something changed there: how often, and what, is not compared.
SeesDifference ==
    /\ At("differs")
    /\ ((eff > 0 \/ odd) /\ Continue) \/ Raise(Phase0.raises)
    /\ UNCHANGED <<bundleVars, truthVars, resultVars>>

\* The wrapper holds the evidence that a refusal is compared with.
ArmRestoration ==
    /\ At("arm")
    /\ armed' = TRUE /\ pc' = pc + 1
    /\ UNCHANGED <<cmd, mode, issued, intent, reported, raised, bundleVars, truthVars, resultVars>>

GiveCaretBack ==
    /\ At("home") \/ (At("homeif") /\ away)
    /\ \/ Continue /\ away' = FALSE
       \/ (Raise("read") \/ Raise(Phase0.raises)) /\ UNCHANGED away
    /\ UNCHANGED <<eff, odd, drift, silent, changed, bundleVars, resultVars>>

NeverMoved ==
    /\ At("homeif") /\ ~away /\ Continue
    /\ UNCHANGED <<bundleVars, truthVars, resultVars>>

TidyCaret ==
    /\ At("tidy")
    /\ Continue /\ away' \in {away, FALSE}
    /\ UNCHANGED <<eff, odd, drift, silent, changed, bundleVars, resultVars>>

ProveUnchanged ==
    /\ At("same")
    /\ (Unchanged /\ Continue) \/ Raise("read") \/ Raise(Phase0.raises)
    /\ UNCHANGED <<bundleVars, truthVars, resultVars>>

\* Nothing to change, or something.
DecideToStop ==
    /\ At("stop")
    /\ \/ Continue
       \/ /\ mode' = "still" /\ pc' = 1
          /\ UNCHANGED <<cmd, armed, issued, intent, reported, raised>>
    /\ UNCHANGED <<bundleVars, truthVars, resultVars>>

ReportEdits ==
    /\ At("report")
    /\ reported' = Phase0.n /\ pc' = pc + 1
    /\ UNCHANGED <<cmd, mode, armed, issued, intent, raised, bundleVars, truthVars, resultVars>>

\* KeyboardInterrupt and its like end an engine at any phase, unconverted.
Interrupted ==
    /\ Running /\ pc <= Len(Program) /\ Silently
    /\ mode' = "failed" /\ raised' = "signal"
    /\ UNCHANGED <<cmd, pc, armed, issued, intent, reported, eff, odd, drift, away, changed, bundleVars, resultVars>>

EngineStep ==
    \/ Judge \/ ReadNative \/ Navigate \/ VisitAround \/ PublishIntent \/ EditChecked \/ EditUnchecked
    \/ EditRetried \/ RevertEdits \/ VerifyDocument \/ PeekAtResult \/ SeesDifference \/ ArmRestoration \/ GiveCaretBack \/ NeverMoved \/ TidyCaret
    \/ ProveUnchanged \/ DecideToStop \/ ReportEdits \/ Interrupted

-----------------------------------------------------------------------------
\* The restoration is complete: now the refusal itself leaves, or the failed proof.
RefusalLeaves ==
    /\ mode = "back" /\ pc > Len(Program)
    /\ mode' = "failed"
    /\ raised' = IF raised = "refusal" THEN "clean" ELSE IF raised = "undoable" THEN "error" ELSE raised
    /\ UNCHANGED <<cmd, pc, armed, issued, intent, reported, bundleVars, truthVars, resultVars>>

\* Mutant: a step that edited counts for one native action, however many it issued.
UndoCounts_One(c, k) == {IF k = 0 THEN 0 ELSE 1}

\* _bundle_step_single_undo and _native_undo_steps: how many native Undo calls
\* reverse the step, 0 when it is not counted.  A layout edit or an insertion is
\* counted only when it recorded the states around it, a picture edit by what its
\* profile declares.
UndoCounts(c, k) ==
    CASE c.undo = "one"     -> {1}
      [] c.undo = "single"  -> {IF k = 1 THEN 1 ELSE 0}
      [] c.undo = "counted" -> {IF k \in {1, 2} THEN k ELSE 0}
      [] c.undo = "any"     -> {k}
      [] c.undo = "state"   -> {0, k}
      [] c.undo = "picture" -> 0..4
      [] OTHER              -> {0}

StepSucceeds ==
    /\ mode \in {"body", "still"} /\ pc > Len(Program)
    /\ mode' = "between"
    /\ LET touches == cmd.edits /\ mode = "body"
       IN  /\ \E n \in IF touches THEN UndoCounts(cmd, reported) ELSE {0} :
                 last' = [NoStatus EXCEPT !.changed = touches, !.persisted = touches, !.count = n]
           /\ dirty' = (dirty \/ touches)
    /\ changed' = (changed \/ Touched)
    /\ UNCHANGED <<cmd, pc, armed, issued, intent, reported, raised, eff, odd, drift, away, silent, bundleVars, held>>

\* The except branch of the handler.
TargetRefused ==
    \/ cmd.family = "guarded" /\ raised \in {"refusal", "clean"}
    \/ cmd.family = "deferred" /\ raised = "step" /\ ~issued

\* A handler of its own that returns its failure: action's {'refused'}, cell_margins_get's {'failed'}.
Returned == Alone(cmd) /\ raised \in {"refusal", "clean"}

\* Unknown counts as an edit (_may_have_edited of the runtime); a readback does not edit.
MayHavePersisted ==
    \/ (IF TargetRefused THEN issued ELSE intent) /\ ~Returned
    \/ cmd.op = "official_numbering_apply" /\ ~TargetRefused
    \/ cmd.family = "glance" /\ cmd.op # "numbering-readback" /\ raised # "signal"

MustHold ==
    \/ MayHavePersisted
    \/ cmd.family = "glance" /\ raised # "signal"
    \/ guarded /\ ~TargetRefused
    \/ cmd.family = "deferred" /\ ~TargetRefused

StepFails ==
    /\ mode = "failed" /\ (raised # "signal" \/ MustHold)
    /\ mode' = "stopped"
    /\ last' = [ok |-> FALSE, refused |-> (TargetRefused \/ Returned) /\ ~MayHavePersisted,
                persisted |-> MayHavePersisted, changed |-> FALSE, count |-> 0]
    /\ dirty' = (dirty \/ MayHavePersisted)
    /\ held' = IF MayHavePersisted THEN "mutated" ELSE IF MustHold THEN "unmutated" ELSE held
    /\ changed' = (changed \/ Touched)
    /\ UNCHANGED <<cmd, pc, armed, issued, intent, reported, raised, eff, odd, drift, away, silent, bundleVars>>

\* A signal that is not held leaves the handler, with nothing issued in this bundle.
SignalEscapes ==
    /\ mode = "failed" /\ raised = "signal" /\ ~MustHold
    /\ mode' = "stopped" /\ held' = "escaped"
    /\ last' = [NoStatus EXCEPT !.ok = FALSE]
    /\ changed' = (changed \/ Touched)
    /\ UNCHANGED <<cmd, pc, armed, issued, intent, reported, raised, eff, odd, drift, away, silent, bundleVars, dirty>>

Ended == mode = "stopped" \/ (mode = "between" /\ at = size)

Done == Ended /\ UNCHANGED vars

Next ==
    \/ \E c \in Commands : BeginStep(c)
    \/ EngineStep \/ RefusalLeaves \/ StepSucceeds \/ StepFails \/ SignalEscapes \/ Done

Spec == Init /\ [][Next]_vars

-----------------------------------------------------------------------------
\* The engine's registers and the counters of what happened stay in their ranges.
TypeOK ==
    /\ size \in 1..MaxSteps /\ at \in 0..size /\ guarded \in BOOLEAN /\ seen \in BOOLEAN
    /\ cmd \in Commands /\ mode \in {"between", "body", "still", "back", "failed", "stopped"} /\ pc \in Nat \ {0}
    /\ armed \in BOOLEAN /\ issued \in BOOLEAN /\ intent \in BOOLEAN /\ reported \in Nat
    /\ raised \in Classes \cup {"none", "signal"}
    /\ eff \in Nat /\ odd \in BOOLEAN /\ drift \in BOOLEAN /\ away \in BOOLEAN
    /\ silent \in 0..MaxSilent /\ changed \in BOOLEAN
    /\ last \in [ok : BOOLEAN, refused : BOOLEAN, persisted : BOOLEAN, changed : BOOLEAN, count : Nat]
    /\ dirty \in BOOLEAN /\ held \in {"no", "unmutated", "mutated", "escaped"}

\* What a refusal leaves behind: the document and the caret as they were found.
\* A deferred engine compares the caret and no census, so it cannot speak of drift.
LeftAsFound == eff = 0 /\ ~odd /\ ~away /\ (drift => cmd.family = "deferred")

\* A step reported as refused left the document and the caret as it found them,
\* whatever the engine had already visited (the picture engine has no restoration
\* and the handler's text about it is the subject of RefusalVerified).
RefusalIsClean ==
    mode = "stopped" /\ last.refused /\ (cmd.edits \/ cmd.family = "macro") /\ cmd.undo # "picture" => LeftAsFound

\* The handler's text for every refused guarded edit: "original state and
\* preservation verified".  This does not hold of a picture that is refused after its
\* caret was moved; see README, "Known differences".
RefusalVerified ==
    mode = "stopped" /\ last.refused /\ cmd.edits /\ cmd.family = "guarded" => LeftAsFound

\* An edit that reached the document is never lost sight of: when the request has
\* ended, a document that any of its steps edited is owed a save, whatever a later step
\* reported, and 'dirty' unless a macro edited it; and it is held if the step that
\* failed had touched it.
EditsAreDebt ==
    Ended => /\ changed => intent /\ (dirty \/ cmd.family = "macro")
             /\ ~last.ok /\ Touched => held = "mutated"

\* A guarded step, a layout edit or an insertion that reports success did what was
\* asked, everything that was asked and nothing else, or nothing at all.
AskedIsDone ==
    mode = "between" /\ at > 0 /\ cmd.family \in {"guarded", "deferred"} /\ cmd.undo # "one" =>
        IF last.changed THEN eff = Acts(cmd.body) /\ ~odd
        ELSE eff = 0 /\ ~odd

\* The registers are well formed, and the number of native Undo calls recorded for a
\* counted step is the number of native edits the step made.
CountIsExact ==
    /\ TypeOK
    /\ mode = "between" /\ last.changed /\ last.count > 0 /\ cmd.undo \notin {"one", "picture"} =>
          last.count = eff
=============================================================================
