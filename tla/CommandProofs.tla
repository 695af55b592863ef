--------------------------- MODULE CommandProofs ---------------------------
(***************************************************************************)
(* For any number of steps and of native calls that silently misbehave,    *)
(* and for any set of commands whose programs are orderly: what a bundle   *)
(* says of its steps is true.  And for any number of requests, edits and   *)
(* native steps: a session of such commands loses no work.                 *)
(*                                                                         *)
(* The first needs what lies behind an engine at each of its phases: which *)
(* phases it has passed tells what is published and armed, and what may    *)
(* have moved or be edited (ProgressOK); from that, what it leaves when it *)
(* ends (LeavesOK), and what the handler makes of it (EndsOK).             *)
(*                                                                         *)
(* That the lists of a session are its document needs more than the lists: *)
(* a cutting of the native steps into the listed edits (Tiled), and that   *)
(* every count in use - of a list, of a direct command, of a request that  *)
(* is still to run - is what its edit took (Listed).                       *)
(***************************************************************************)
EXTENDS CommandBundle, EditHistory, FiniteSetTheorems, TLAPS

-----------------------------------------------------------------------------
(* What a phase does. *)

Phases == [do : STRING, raises : Classes, n : Nat]

\* What a phase may do to the document and to the caret.
Effect ==
    /\ UNCHANGED <<changed, cmd>>
    /\ eff' \in Nat /\ odd' \in BOOLEAN /\ drift' \in BOOLEAN /\ away' \in BOOLEAN
    /\ silent' \in 0..MaxSilent
    /\ Phase0.do \notin EditPhases => odd' = odd /\ eff' <= eff
    /\ Phase0.do \notin EditPhases \cup {"revert"} => eff' = eff
    /\ Phase0.do \notin Moving => (away' => away)
    /\ Phase0.do \notin Drifting => drift' = drift

\* The phase is done.
Ahead ==
    /\ pc' = pc + 1 /\ UNCHANGED <<mode, raised>>
    /\ issued' = (IF Phase0.do = "publish" THEN TRUE ELSE issued)
    /\ intent' = (IF Phase0.do = "publish" THEN TRUE ELSE intent)
    /\ armed' = (IF Phase0.do = "arm" THEN TRUE ELSE armed)
    /\ reported' = (IF Phase0.do = "report" THEN Phase0.n ELSE reported)
    /\ Phase0.do \in Homing => ~away'
    /\ Phase0.do \in Sameness => ~drift
    /\ Phase0.do \in {"verify", "peek"} => eff = ActsBefore(Program, pc)
    /\ Phase0.do = "verify" => ~odd

\* There was nothing to change.
Stops ==
    /\ Phase0.do = "stop" /\ mode' = "still" /\ pc' = 1
    /\ UNCHANGED <<armed, issued, intent, reported, raised, eff, odd, drift, away>>

\* The phase raised.
Raises ==
    /\ UNCHANGED intent
    /\ \E c \in {"read", Phase0.raises} : Raise(c)

\* What each kind of phase does to the document and to the caret.
LEMMA EffectIs ==
    ASSUME TypeOK, EngineStep
    PROVE  Effect
<1> DEFINE Kept == UNCHANGED <<eff, odd, drift, away, silent, changed>>
           Drifts == (drift' = drift /\ silent' = silent) \/ (drift' = TRUE /\ Silently)
<1>0. /\ eff \in Nat /\ odd \in BOOLEAN /\ drift \in BOOLEAN /\ away \in BOOLEAN
      /\ silent \in 0..MaxSilent
  BY DEF TypeOK
<1>k. (Continue \/ \E c \in {"read", Phase0.raises} : Raise(c)) => UNCHANGED cmd
  BY DEF Continue, Raise
<1>s. Silently => silent' \in 0..MaxSilent
  BY <1>0, BundleAssumption DEF Silently
<1>1. ASSUME Kept, UNCHANGED cmd PROVE Effect
  <2>1. eff' <= eff /\ silent' \in 0..MaxSilent
    BY <1>0, <1>1
  <2>2. odd' \in BOOLEAN /\ drift' \in BOOLEAN /\ away' \in BOOLEAN /\ eff' \in Nat
    BY <1>0, <1>1, Zenon
  <2> QED BY <1>1, <2>1, <2>2, Zenon DEF Effect
<1>2. CASE Judge \/ ReadNative \/ VerifyDocument \/ PeekAtResult \/ SeesDifference \/ NeverMoved
           \/ ProveUnchanged
  BY <1>1, <1>2, <1>k DEF Judge, ReadNative, VerifyDocument, PeekAtResult, SeesDifference,
     NeverMoved, ProveUnchanged, truthVars
<1>3. CASE PublishIntent \/ ArmRestoration \/ DecideToStop \/ ReportEdits
  BY <1>1, <1>3 DEF PublishIntent, ArmRestoration, DecideToStop, ReportEdits, truthVars, Continue
<1>4. CASE Navigate \/ VisitAround
  <2>1. Phase0.do \in {"move", "visit"} /\ Drifts /\ away' = TRUE /\ UNCHANGED <<eff, odd, changed, cmd>>
    BY <1>4, <1>k DEF Navigate, VisitAround, At
  <2>2. drift' \in BOOLEAN /\ silent' \in 0..MaxSilent
    BY <1>0, <1>s, <2>1
  <2> QED BY <1>0, <2>1, <2>2 DEF Effect, Moving, Drifting
<1>5. CASE EditChecked \/ EditUnchecked \/ EditRetried
  <2>1. /\ Phase0.do \in EditPhases /\ away' = TRUE /\ UNCHANGED <<drift, changed, cmd>>
    BY <1>5, <1>k DEF EditChecked, EditUnchecked, EditRetried, At, EditPhases
  <2>2. eff' \in Nat /\ odd' \in BOOLEAN
    <3>1. eff' \in {eff, eff + 1} \/ eff' \in eff..(eff + 3)
      BY <1>0, <1>5 DEF EditChecked, EditUnchecked, EditRetried
    <3>2. odd' = odd \/ odd' = TRUE
      BY <1>5 DEF EditChecked, EditUnchecked, EditRetried
    <3>3. eff' \in Nat
      BY <1>0, <3>1
    <3>4. odd' \in BOOLEAN
      <4>1. CASE odd' = odd
        BY <1>0, <4>1
      <4>2. CASE odd' = TRUE
        BY <4>2
      <4> QED BY <3>2, <4>1, <4>2
    <3> QED BY <3>3, <3>4
  <2>3. silent' \in 0..MaxSilent
    BY <1>0, <1>5, <1>s DEF EditChecked, EditUnchecked, EditRetried
  <2>4. Phase0.do \in Moving /\ Phase0.do \notin Drifting
    BY <2>1 DEF Moving, Drifting, EditPhases
  <2> QED BY <1>0, <2>1, <2>2, <2>3, <2>4 DEF Effect
<1>6. CASE RevertEdits
  <2>1. Phase0.do = "revert" /\ eff' \in 0..eff /\ UNCHANGED <<odd, drift, away, silent, changed, cmd>>
    BY <1>6, <1>k DEF RevertEdits, At
  <2> QED BY <1>0, <2>1 DEF Effect, EditPhases
<1>7. CASE GiveCaretBack \/ TidyCaret
  <2>1. UNCHANGED <<eff, odd, drift, silent, changed, cmd>> /\ (away' = away \/ away' = FALSE)
    BY <1>7, <1>k DEF GiveCaretBack, TidyCaret
  <2>2. away' \in BOOLEAN /\ (away' => away)
    <3>1. CASE away' = away
      BY <1>0, <3>1
    <3>2. CASE away' = FALSE
      BY <3>2
    <3> QED BY <2>1, <3>1, <3>2
  <2> QED BY <1>0, <2>1, <2>2 DEF Effect
<1>8. CASE Interrupted
  <2>1. UNCHANGED <<eff, odd, drift, away, changed, cmd>> /\ silent' \in 0..MaxSilent
    BY <1>8, <1>s DEF Interrupted
  <2> QED BY <1>0, <2>1 DEF Effect
<1> QED BY <1>2, <1>3, <1>4, <1>5, <1>6, <1>7, <1>8 DEF EngineStep

\* A phase is done, or there is nothing to change, or it raised.
LEMMA FlowIs ==
    ASSUME TypeOK, EngineStep
    PROVE  /\ Running /\ pc <= Len(Program) /\ UNCHANGED <<bundleVars, resultVars>>
           /\ Ahead \/ Stops \/ Raises \/ (Interrupted /\ UNCHANGED <<eff, odd, drift, away>>)
<1>1. Running /\ pc <= Len(Program) /\ UNCHANGED <<bundleVars, resultVars>>
  BY DEF EngineStep, Judge, ReadNative, Navigate, VisitAround, PublishIntent, EditChecked, EditUnchecked,
     EditRetried, RevertEdits, VerifyDocument, PeekAtResult, SeesDifference, ArmRestoration,
     GiveCaretBack, NeverMoved, TidyCaret, ProveUnchanged, DecideToStop, ReportEdits, Interrupted, At
<1>c. ASSUME Continue, Phase0.do \notin {"publish", "arm", "report"},
             Phase0.do \in {"home", "homeif"} => ~away', Phase0.do \in {"same", "verify"} => ~drift,
             Phase0.do \in {"verify", "peek"} => eff = ActsBefore(Program, pc),
             Phase0.do = "verify" => ~odd
      PROVE  Ahead
  BY <1>c DEF Ahead, Continue, Homing, Sameness
<1>r. ASSUME NEW c \in {"read", Phase0.raises}, Raise(c) PROVE Raises
  BY <1>r DEF Raises, Raise
<1>2. CASE Judge \/ ReadNative \/ Navigate \/ VisitAround
  BY <1>2, <1>c, <1>r DEF Judge, ReadNative, Navigate, VisitAround, At
<1>3. CASE PublishIntent \/ ArmRestoration \/ ReportEdits
  BY <1>3 DEF PublishIntent, ArmRestoration, ReportEdits, At, Ahead, Homing, Sameness
<1>4. CASE EditChecked \/ EditUnchecked \/ EditRetried \/ RevertEdits \/ SeesDifference \/ TidyCaret
  BY <1>4, <1>c, <1>r DEF EditChecked, EditUnchecked, EditRetried, RevertEdits, SeesDifference,
     TidyCaret, At
<1>5. CASE VerifyDocument \/ PeekAtResult \/ ProveUnchanged
  BY <1>5, <1>c, <1>r DEF VerifyDocument, PeekAtResult, ProveUnchanged, At, AsAsked, Unchanged
<1>6. CASE GiveCaretBack \/ NeverMoved
  BY <1>6, <1>c, <1>r DEF GiveCaretBack, NeverMoved, At, truthVars
<1>7. CASE DecideToStop
  BY <1>7, <1>c DEF DecideToStop, At, Stops, truthVars
<1>8. CASE Interrupted
  BY <1>8 DEF Interrupted
<1> QED BY <1>1, <1>2, <1>3, <1>4, <1>5, <1>6, <1>7, <1>8 DEF EngineStep

-----------------------------------------------------------------------------
(* Types. *)

\* The phase under the engine's counter is one of its program.
LEMMA PhaseIs ==
    ASSUME TypeOK
    PROVE  /\ Orderly(cmd) /\ cmd.body \in Seq(Phases) /\ cmd.still \in Seq(Phases)
           /\ cmd.back \in Seq(Phases) /\ Program \in Seq(Phases)
           /\ pc <= Len(Program) => pc \in DOMAIN Program /\ Phase0 \in Phases
                                    /\ Phase0.raises \in Classes /\ Phase0.n \in Nat
<1>1. Orderly(cmd)
  BY BundleAssumption DEF TypeOK
<1>2. cmd.body \in Seq(Phases) /\ cmd.still \in Seq(Phases) /\ cmd.back \in Seq(Phases)
  BY <1>1 DEF Orderly, WellFormed, Phases
<1>3. Program \in Seq(Phases)
  BY <1>2 DEF Program
<1>4. ASSUME pc <= Len(Program)
      PROVE  pc \in DOMAIN Program /\ Phase0 \in Phases
  BY <1>3, <1>4 DEF Phase0, TypeOK
<1> QED BY <1>1, <1>2, <1>3, <1>4 DEF Phases

\* How many native steps are recorded is a number.
LEMMA CountIs == ASSUME NEW c, NEW k \in Nat, NEW n \in UndoCounts(c, k) PROVE n \in Nat
BY DEF UndoCounts

\* Every step keeps the state well typed.
LEMMA TypeStep ==
    ASSUME TypeOK, [Next]_vars
    PROVE  TypeOK'
<1>0. MaxSilent \in Nat /\ MaxSteps \in Nat
  BY BundleAssumption
<1>t. TypeOK
  OBVIOUS
<1>1. ASSUME NEW c \in Commands, BeginStep(c) PROVE TypeOK'
  <2>1. at' \in 0..size' /\ size' \in 1..MaxSteps
    BY <1>0, <1>1 DEF BeginStep, TypeOK
  <2>2. seen' \in BOOLEAN /\ issued' \in BOOLEAN /\ intent' \in BOOLEAN
    <3>1. MarksBefore(c) \in BOOLEAN /\ (seen \/ c.family = "guarded") \in BOOLEAN
          /\ (intent \/ MarksBefore(c)) \in BOOLEAN
      BY DEF MarksBefore
    <3>2. seen' = (seen \/ c.family = "guarded") /\ issued' = MarksBefore(c)
          /\ intent' = (intent \/ MarksBefore(c))
      BY <1>1 DEF BeginStep
    <3> QED BY <3>1, <3>2
  <2>3. /\ UNCHANGED <<guarded, silent, changed, dirty, held, last>> /\ cmd' \in Commands
        /\ mode' = "body" /\ pc' = 1 /\ armed' = FALSE /\ reported' = 0 /\ raised' = "none"
        /\ eff' = 0 /\ odd' = FALSE /\ drift' = FALSE /\ away' = FALSE
    BY <1>1 DEF BeginStep, resultVars
  <2>4. /\ cmd' \in Commands /\ mode' \in {"between", "body", "still", "back", "failed", "stopped"}
        /\ pc' \in Nat \ {0} /\ reported' \in Nat /\ eff' \in Nat
        /\ raised' \in Classes \cup {"none", "signal"}
    BY <2>3
  <2>5. /\ guarded' \in BOOLEAN /\ silent' \in 0..MaxSilent /\ changed' \in BOOLEAN
        /\ last' \in [ok : BOOLEAN, refused : BOOLEAN, persisted : BOOLEAN, changed : BOOLEAN, count : Nat]
        /\ dirty' \in BOOLEAN /\ held' \in {"no", "unmutated", "mutated", "escaped"}
    BY <2>3 DEF TypeOK
  <2>6. armed' \in BOOLEAN /\ odd' \in BOOLEAN /\ drift' \in BOOLEAN /\ away' \in BOOLEAN
    BY <2>3
  <2> QED BY <2>1, <2>2, <2>4, <2>5, <2>6 DEF TypeOK
<1>2. CASE EngineStep
  <2>1. Effect
    BY <1>0, <1>2, EffectIs
  <2>2. UNCHANGED <<bundleVars, resultVars>> /\ Running /\ pc <= Len(Program)
    BY <1>2, FlowIs
  <2>3. Phase0.raises \in Classes /\ Phase0.n \in Nat /\ "read" \in Classes /\ "mutation" \in Classes
    BY <2>2, PhaseIs DEF Classes
  <2>4. /\ pc' \in Nat \ {0} /\ mode' \in {"between", "body", "still", "back", "failed", "stopped"}
        /\ armed' \in BOOLEAN /\ issued' \in BOOLEAN /\ intent' \in BOOLEAN /\ reported' \in Nat
        /\ raised' \in Classes \cup {"none", "signal"}
    <3>1. CASE Ahead
      <4>1. armed' \in BOOLEAN /\ issued' \in BOOLEAN /\ intent' \in BOOLEAN
        BY <3>1, Zenon DEF Ahead, TypeOK
      <4>2. pc' \in Nat \ {0} /\ UNCHANGED <<mode, raised>> /\ reported' \in Nat
        BY <3>1, <2>3 DEF Ahead, TypeOK
      <4> QED BY <4>1, <4>2 DEF TypeOK
    <3>2. CASE Stops
      BY <3>2 DEF Stops, TypeOK
    <3>3. CASE Raises
      <4>1. PICK c \in {"read", Phase0.raises} : Raise(c)
        BY <3>3 DEF Raises
      <4>2. Converted(c) \in Classes
        BY <2>3 DEF Converted
      <4> QED BY <3>3, <4>1, <4>2 DEF Raise, Raises, TypeOK
    <3>4. CASE Interrupted
      BY <3>4 DEF Interrupted, TypeOK
    <3> QED BY <1>2, <3>1, <3>2, <3>3, <3>4, FlowIs
  <2> QED BY <1>t, <2>1, <2>2, <2>4 DEF Effect, TypeOK, bundleVars, resultVars
<1>3. CASE RefusalLeaves
  BY <1>3 DEF RefusalLeaves, TypeOK, bundleVars, truthVars, resultVars, Classes
<1>4. CASE StepSucceeds
  <2> DEFINE touches == cmd.edits /\ mode = "body"
  <2>1. PICK n \in (IF touches THEN UndoCounts(cmd, reported) ELSE {0}) :
           last' = [NoStatus EXCEPT !.changed = touches, !.persisted = touches, !.count = n]
    BY <1>4, Zenon DEF StepSucceeds
  <2>2. n \in Nat
    BY <2>1, CountIs DEF TypeOK
  <2>3. touches \in BOOLEAN /\ dirty' \in BOOLEAN /\ changed' \in BOOLEAN
    BY <1>4, Zenon DEF StepSucceeds
  <2> HIDE DEF touches
  <2>4. last' \in [ok : BOOLEAN, refused : BOOLEAN, persisted : BOOLEAN, changed : BOOLEAN, count : Nat]
    BY <2>1, <2>2, <2>3 DEF NoStatus
  <2> QED BY <1>4, <2>3, <2>4 DEF StepSucceeds, TypeOK, bundleVars
<1>5. CASE StepFails
  <2>1. /\ ((TargetRefused \/ Returned) /\ ~MayHavePersisted) \in BOOLEAN /\ MayHavePersisted \in BOOLEAN
        /\ dirty' \in BOOLEAN /\ changed' \in BOOLEAN
    BY <1>5, Zenon DEF StepFails, MayHavePersisted
  <2>2. last' \in [ok : BOOLEAN, refused : BOOLEAN, persisted : BOOLEAN, changed : BOOLEAN, count : Nat]
    BY <1>5, <2>1 DEF StepFails
  <2>3. held' \in {"no", "unmutated", "mutated", "escaped"}
    BY <1>5 DEF StepFails, TypeOK
  <2> QED BY <1>5, <2>1, <2>2, <2>3 DEF StepFails, TypeOK, bundleVars
<1>6. CASE SignalEscapes
  <2>1. changed' \in BOOLEAN
    BY <1>6, Zenon DEF SignalEscapes
  <2>2. last' \in [ok : BOOLEAN, refused : BOOLEAN, persisted : BOOLEAN, changed : BOOLEAN, count : Nat]
    BY <1>6 DEF SignalEscapes, NoStatus
  <2> QED BY <1>6, <2>1, <2>2 DEF SignalEscapes, TypeOK, bundleVars
<1>7. CASE Done \/ UNCHANGED vars
  BY <1>7 DEF Done, vars, TypeOK, bundleVars, engineVars, truthVars, resultVars
<1> QED BY <1>1, <1>2, <1>3, <1>4, <1>5, <1>6, <1>7 DEF Next

-----------------------------------------------------------------------------
(* What an engine has done so far, from the phases it has behind it. *)

\* No phase between v and i.
Quiet(p, v, i, does) == \A k \in (v + 1)..(i - 1) : p[k].do \notin does

\* The body: what is published, armed, edited, moved and reported.
BodyOK ==
    mode = "body" =>
        /\ pc <= Len(cmd.body) + 1
        /\ Before(cmd.body, pc, {"publish"}) => issued
        /\ Before(cmd.body, pc, {"arm"}) => armed
        /\ Touched => Before(cmd.body, pc, EditPhases)
        /\ MadeGood(cmd.body, pc, Moving, Homing) => ~away
        /\ MadeGood(cmd.body, pc, Drifting, Sameness) => ~drift
        /\ reported # 0 => \E i \in 1..(pc - 1) : cmd.body[i].do = "report" /\ cmd.body[i].n = reported

\* What a comparison saw is still so when no edit came after it.
SeenOK ==
    mode = "body" =>
        \A v \in 1..(pc - 1) :
            Quiet(cmd.body, v, pc, EditPhases \cup {"revert"}) =>
                /\ cmd.body[v].do \in {"verify", "peek"} => eff = ActsBefore(cmd.body, v)
                /\ cmd.body[v].do = "verify" => ~odd

\* An engine that found nothing to change.
StillOK ==
    mode = "still" =>
        /\ pc <= Len(cmd.still) + 1 /\ ~Touched
        /\ \E k \in DOMAIN cmd.body : cmd.body[k].do = "stop" /\ (Before(cmd.body, k, {"arm"}) => armed)

\* A restoration under way.
BackOK ==
    mode = "back" =>
        /\ pc <= Len(cmd.back) + 1
        /\ \A h \in 1..(pc - 1) :
              /\ cmd.back[h].do \in Homing /\ Quiet(cmd.back, h, pc, Moving) => ~away
              /\ cmd.back[h].do \in Sameness /\ Quiet(cmd.back, h, pc, Drifting) => ~drift

\* A restoration is armed by a phase.
ArmedOK ==
    mode = "back" \/ (mode \in {"body", "still"} /\ armed) =>
        ~Never(cmd.body, {"arm"}) \/ ~Never(cmd.still, {"arm"})

ProgressOK == BodyOK /\ SeenOK /\ StillOK /\ BackOK /\ ArmedOK

\* One phase more is behind the engine.
LEMMA BeforeNext ==
    ASSUME NEW p, NEW i \in Nat \ {0}, NEW does, NEW cure
    PROVE  /\ Before(p, i + 1, does) <=> Before(p, i, does) \/ p[i].do \in does
           /\ MadeGood(p, i + 1, does, cure) =>
                 p[i].do \notin does /\ (p[i].do \in cure \/ MadeGood(p, i, does, cure))
           /\ \A v \in 1..i : Quiet(p, v, i + 1, does) =>
                 v = i \/ (v \in 1..(i - 1) /\ Quiet(p, v, i, does) /\ p[i].do \notin does)
<1>1. Before(p, i + 1, does) <=> Before(p, i, does) \/ p[i].do \in does
  BY DEF Before
<1>2. ASSUME MadeGood(p, i + 1, does, cure)
      PROVE  p[i].do \notin does /\ (p[i].do \in cure \/ MadeGood(p, i, does, cure))
  <2>1. p[i].do \notin does
    BY <1>2 DEF MadeGood
  <2>2. ASSUME p[i].do \notin cure, NEW k \in 1..(i - 1), p[k].do \in does
        PROVE  \E j \in (k + 1)..(i - 1) : p[j].do \in cure
    <3>1. PICK j \in (k + 1)..((i + 1) - 1) : p[j].do \in cure
      BY <1>2, <2>2 DEF MadeGood
    <3>2. j # i
      BY <2>2, <3>1
    <3> QED BY <3>1, <3>2
  <2> QED BY <2>1, <2>2 DEF MadeGood
<1>3. ASSUME NEW v \in 1..i, Quiet(p, v, i + 1, does), v # i
      PROVE  v \in 1..(i - 1) /\ Quiet(p, v, i, does) /\ p[i].do \notin does
  BY <1>3 DEF Quiet
<1> QED BY <1>1, <1>2, <1>3

\* One phase more behind the engine keeps what is known of the body.
LEMMA BodyAhead ==
    ASSUME TypeOK, BodyOK, SeenOK, mode = "body", pc <= Len(Program), Effect, Ahead
    PROVE  BodyOK' /\ SeenOK'
<1> DEFINE p == cmd.body
<1>0. Program = p /\ Phase0 = p[pc] /\ pc \in Nat \ {0} /\ pc \in 1..Len(p) /\ Len(p) \in Nat
      /\ pc' = pc + 1 /\ cmd' = cmd /\ mode' = "body"
  BY PhaseIs DEF Program, Phase0, TypeOK, Ahead, Effect
<1>a. /\ \A d : Before(p, pc + 1, d) <=> Before(p, pc, d) \/ p[pc].do \in d
      /\ \A d, c : MadeGood(p, pc + 1, d, c) =>
            p[pc].do \notin d /\ (p[pc].do \in c \/ MadeGood(p, pc, d, c))
      /\ \A d : \A v \in 1..pc : Quiet(p, v, pc + 1, d) =>
            v = pc \/ (v \in 1..(pc - 1) /\ Quiet(p, v, pc, d) /\ p[pc].do \notin d)
  BY <1>0, BeforeNext
<1>b. /\ Before(p, pc, {"publish"}) => issued
      /\ Before(p, pc, {"arm"}) => armed
      /\ Touched => Before(p, pc, EditPhases)
      /\ MadeGood(p, pc, Moving, Homing) => ~away
      /\ MadeGood(p, pc, Drifting, Sameness) => ~drift
      /\ reported # 0 => \E i \in 1..(pc - 1) : p[i].do = "report" /\ p[i].n = reported
  BY DEF BodyOK
<1> HIDE DEF p
<1>1. Before(p, pc + 1, {"publish"}) => issued'
  BY <1>0, <1>a, <1>b DEF Ahead
<1>2. Before(p, pc + 1, {"arm"}) => armed'
  BY <1>0, <1>a, <1>b DEF Ahead
<1>3. Touched' => Before(p, pc + 1, EditPhases)
  <2>1. Touched' => Touched \/ p[pc].do \in EditPhases
    BY <1>0 DEF Touched, Effect, TypeOK
  <2> QED BY <1>a, <1>b, <2>1
<1>4. MadeGood(p, pc + 1, Moving, Homing) => ~away'
  BY <1>0, <1>a, <1>b DEF Ahead, Effect
<1>5. MadeGood(p, pc + 1, Drifting, Sameness) => ~drift'
  BY <1>0, <1>a, <1>b DEF Ahead, Effect
<1>6. reported' # 0 => \E i \in 1..((pc + 1) - 1) : p[i].do = "report" /\ p[i].n = reported'
  BY <1>0, <1>b DEF Ahead
<1>7. BodyOK'
  BY <1>0, <1>1, <1>2, <1>3, <1>4, <1>5, <1>6 DEF BodyOK, p
<1>8. ASSUME NEW v \in 1..((pc + 1) - 1), Quiet(p, v, pc + 1, EditPhases \cup {"revert"})
      PROVE  /\ p[v].do \in {"verify", "peek"} => eff' = ActsBefore(p, v)
             /\ p[v].do = "verify" => ~odd'
  <2>1. CASE v = pc
    <3>1. p[pc].do \in {"verify", "peek"} => UNCHANGED <<eff, odd>>
      BY <1>0 DEF Effect, EditPhases
    <3> QED BY <1>0, <2>1, <3>1 DEF Ahead
  <2>2. CASE v # pc
    <3>1. v \in 1..(pc - 1) /\ Quiet(p, v, pc, EditPhases \cup {"revert"})
          /\ p[pc].do \notin EditPhases \cup {"revert"}
      BY <1>0, <1>8, <1>a, <2>2
    <3>2. UNCHANGED <<eff, odd>>
      BY <1>0, <3>1 DEF Effect
    <3> QED BY <3>1, <3>2 DEF SeenOK, p
  <2> QED BY <2>1, <2>2
<1>9. SeenOK'
  BY <1>0, <1>8 DEF SeenOK, p, ActsBefore, Quiet
<1> QED BY <1>7, <1>9

\* An engine that goes on, stops or raises keeps what its phases say.
LEMMA ProgressEngine ==
    ASSUME TypeOK, ProgressOK, EngineStep
    PROVE  ProgressOK'
<1>0. /\ Running /\ pc <= Len(Program) /\ Effect /\ cmd' = cmd /\ pc \in Nat \ {0}
      /\ Ahead \/ Stops \/ Raises \/ (Interrupted /\ UNCHANGED <<eff, odd, drift, away>>)
  BY EffectIs, FlowIs DEF Effect, TypeOK
<1>p. /\ Orderly(cmd) /\ cmd.body \in Seq(Phases) /\ cmd.still \in Seq(Phases)
      /\ cmd.back \in Seq(Phases) /\ pc \in DOMAIN Program
  BY <1>0, PhaseIs
<1>1. CASE Ahead /\ mode = "body"
  <2>1. BodyOK' /\ SeenOK'
    BY <1>0, <1>1, BodyAhead DEF ProgressOK
  <2>2. ArmedOK'
    <3>1. mode' = "body" /\ Phase0 = cmd.body[pc] /\ pc \in DOMAIN cmd.body
      BY <1>1, <1>p DEF Ahead, Phase0, Program
    <3>2. armed' => armed \/ cmd.body[pc].do = "arm"
      BY <1>1, <3>1 DEF Ahead
    <3>3. cmd.body[pc].do = "arm" => ~Never(cmd.body, {"arm"})
      BY <3>1 DEF Never
    <3> QED BY <1>0, <1>1, <3>1, <3>2, <3>3 DEF ProgressOK, ArmedOK
  <2>3. mode' = "body"
    BY <1>1 DEF Ahead
  <2> QED BY <2>1, <2>2, <2>3 DEF ProgressOK, StillOK, BackOK
<1>2. CASE Ahead /\ mode = "still"
  <2>1. mode' = "still" /\ Phase0 = cmd.still[pc] /\ pc \in DOMAIN cmd.still /\ pc' = pc + 1
    BY <1>2, <1>p DEF Ahead, Phase0, Program
  <2>2. Phase0.do \notin EditPhases
    BY <1>p, <2>1 DEF Orderly, StopsFirst, Never
  <2>3. ~Touched'
    <3>1. eff = 0 /\ ~odd
      BY <1>2 DEF ProgressOK, StillOK, Touched, TypeOK
    <3> QED BY <1>0, <2>2, <3>1 DEF Touched, Effect
  <2>4. (armed => armed') /\ (armed' => armed \/ cmd.still[pc].do = "arm")
    BY <1>2, <2>1 DEF Ahead
  <2>5. StillOK'
    <3>1. PICK k \in DOMAIN cmd.body : cmd.body[k].do = "stop" /\ (Before(cmd.body, k, {"arm"}) => armed)
      BY <1>2 DEF ProgressOK, StillOK
    <3>2. pc' <= Len(cmd.still) + 1
      BY <1>p, <2>1
    <3>3. /\ cmd'.body[k].do = "stop" /\ (Before(cmd'.body, k, {"arm"}) => armed')
          /\ k \in DOMAIN cmd'.body
      BY <1>0, <2>4, <3>1
    <3> QED BY <1>0, <2>3, <3>2, <3>3 DEF StillOK, Before
  <2>6. ArmedOK'
    <3>1. cmd.still[pc].do = "arm" => ~Never(cmd.still, {"arm"})
      BY <2>1 DEF Never
    <3> QED BY <1>0, <1>2, <2>1, <2>4, <3>1 DEF ProgressOK, ArmedOK
  <2> QED BY <2>1, <2>5, <2>6 DEF ProgressOK, BodyOK, SeenOK, BackOK
<1>3. CASE Ahead /\ mode = "back"
  <2> DEFINE p == cmd.back
  <2>1. mode' = "back" /\ Phase0 = p[pc] /\ pc \in DOMAIN p /\ pc' = pc + 1
    BY <1>3, <1>p DEF Ahead, Phase0, Program
  <2>2. \A d : \A v \in 1..pc : Quiet(p, v, pc + 1, d) =>
          v = pc \/ (v \in 1..(pc - 1) /\ Quiet(p, v, pc, d) /\ p[pc].do \notin d)
    BY <1>0, BeforeNext
  <2>b. \A h \in 1..(pc - 1) :
          /\ p[h].do \in Homing /\ Quiet(p, h, pc, Moving) => ~away
          /\ p[h].do \in Sameness /\ Quiet(p, h, pc, Drifting) => ~drift
    BY <1>3 DEF ProgressOK, BackOK
  <2>l. pc + 1 <= Len(p) + 1
    BY <1>p, <2>1
  <2> HIDE DEF p
  <2>3. ASSUME NEW h \in 1..pc, p[h].do \in Homing, Quiet(p, h, pc + 1, Moving) PROVE ~away'
    <3>1. CASE h = pc
      BY <1>3, <2>1, <2>3, <3>1 DEF Ahead
    <3>2. CASE h # pc
      <4>1. ~away /\ p[pc].do \notin Moving
        BY <2>2, <2>3, <2>b, <3>2
      <4> QED BY <1>0, <2>1, <4>1 DEF Effect
    <3> QED BY <3>1, <3>2
  <2>4. ASSUME NEW h \in 1..pc, p[h].do \in Sameness, Quiet(p, h, pc + 1, Drifting) PROVE ~drift'
    <3>1. CASE h = pc
      <4>1. ~drift /\ p[pc].do \notin Drifting
        BY <1>3, <2>1, <2>4, <3>1 DEF Ahead, Sameness, Drifting
      <4> QED BY <1>0, <2>1, <4>1 DEF Effect
    <3>2. CASE h # pc
      <4>1. ~drift /\ p[pc].do \notin Drifting
        BY <2>2, <2>4, <2>b, <3>2
      <4> QED BY <1>0, <2>1, <4>1 DEF Effect
    <3> QED BY <3>1, <3>2
  <2>5. (pc + 1) - 1 = pc
    BY <1>0
  <2>6. BackOK'
    BY <1>0, <2>1, <2>l, <2>3, <2>4, <2>5 DEF BackOK, Quiet, p
  <2>7. ArmedOK'
    BY <1>0, <1>3, <2>1 DEF ProgressOK, ArmedOK
  <2> QED BY <2>1, <2>6, <2>7 DEF ProgressOK, BodyOK, SeenOK, StillOK
<1>4. CASE Stops
  <2>1. mode' = "still" /\ pc' = 1 /\ UNCHANGED <<armed, eff, odd>> /\ Phase0.do = "stop"
    BY <1>4 DEF Stops
  <2>2. mode = "body"
    <3>1. mode # "still"
      BY <1>p, <2>1 DEF Orderly, StopsFirst, Never, Phase0, Program
    <3>2. mode # "back"
      BY <1>p, <2>1 DEF Orderly, StopsFirst, Never, Phase0, Program
    <3> QED BY <1>0, <3>1, <3>2 DEF Running
  <2>3. pc \in DOMAIN cmd.body /\ cmd.body[pc].do = "stop"
    BY <1>p, <2>1, <2>2 DEF Phase0, Program
  <2>4. ~Touched /\ (Before(cmd.body, pc, {"arm"}) => armed)
    BY <1>p, <2>2, <2>3 DEF ProgressOK, BodyOK, Orderly, StopsFirst
  <2>5. StillOK'
    <3>1. Len(cmd'.still) \in Nat /\ ~Touched'
      BY <1>0, <1>p, <2>1, <2>4 DEF Touched
    <3>2. cmd'.body[pc].do = "stop" /\ (Before(cmd'.body, pc, {"arm"}) => armed') /\ pc \in DOMAIN cmd'.body
      BY <1>0, <2>1, <2>3, <2>4
    <3> QED BY <2>1, <3>1, <3>2 DEF StillOK, Before
  <2>6. ArmedOK'
    BY <1>0, <2>1, <2>2 DEF ProgressOK, ArmedOK
  <2> QED BY <2>1, <2>5, <2>6 DEF ProgressOK, BodyOK, SeenOK, BackOK
<1>5. CASE Raises
  <2>1. (mode' = "back" /\ pc' = 1 /\ armed /\ mode \in {"body", "still"}) \/ mode' = "failed"
    BY <1>0, <1>5 DEF Raises, Raise, Running
  <2>2. CASE mode' = "back" /\ pc' = 1 /\ armed /\ mode \in {"body", "still"}
    <3>1. BackOK'
      BY <1>0, <1>p, <2>2 DEF BackOK
    <3>2. ArmedOK'
      BY <1>0, <2>2 DEF ProgressOK, ArmedOK
    <3> QED BY <2>2, <3>1, <3>2 DEF ProgressOK, BodyOK, SeenOK, StillOK
  <2>3. CASE mode' = "failed"
    BY <2>3 DEF ProgressOK, BodyOK, SeenOK, StillOK, BackOK, ArmedOK
  <2> QED BY <2>1, <2>2, <2>3
<1>6. CASE Interrupted
  BY <1>6 DEF Interrupted, ProgressOK, BodyOK, SeenOK, StillOK, BackOK, ArmedOK
<1>7. mode = "body" \/ mode = "still" \/ mode = "back"
  BY <1>0 DEF Running
<1> QED BY <1>0, <1>1, <1>2, <1>3, <1>4, <1>5, <1>6, <1>7

\* So does every step; a step of the bundle begins with nothing behind it.
LEMMA ProgressStep ==
    ASSUME TypeOK, ProgressOK, [Next]_vars
    PROVE  ProgressOK'
<1>e. ASSUME mode' \notin {"body", "still", "back"} PROVE ProgressOK'
  BY <1>e DEF ProgressOK, BodyOK, SeenOK, StillOK, BackOK, ArmedOK
<1>1. ASSUME NEW c \in Commands, BeginStep(c) PROVE ProgressOK'
  <2>1. /\ mode' = "body" /\ pc' = 1 /\ armed' = FALSE /\ reported' = 0 /\ cmd' = c
        /\ eff' = 0 /\ odd' = FALSE /\ drift' = FALSE /\ away' = FALSE
    BY <1>1 DEF BeginStep
  <2>2. cmd'.body \in Seq(Phases)
    BY <2>1, BundleAssumption DEF Orderly, WellFormed, Phases
  <2>3. BodyOK'
    <3>1. ~Before(cmd'.body, 1, {"publish"}) /\ ~Before(cmd'.body, 1, {"arm"}) /\ ~Touched'
      BY <2>1 DEF Before, Touched
    <3>2. Before(cmd.body, pc, {"publish"})' <=> Before(cmd'.body, pc', {"publish"})
      BY DEF Before
    <3>3. Before(cmd.body, pc, {"arm"})' <=> Before(cmd'.body, pc', {"arm"})
      BY DEF Before
    <3>4. 1 <= Len(cmd'.body) + 1
      BY <2>2
    <3> QED BY <2>1, <3>1, <3>2, <3>3, <3>4 DEF BodyOK
  <2>4. SeenOK' /\ ArmedOK'
    BY <2>1 DEF SeenOK, ArmedOK
  <2> QED BY <2>1, <2>3, <2>4 DEF ProgressOK, StillOK, BackOK
<1>2. CASE EngineStep
  BY <1>2, ProgressEngine
<1>3. CASE RefusalLeaves \/ StepSucceeds \/ StepFails \/ SignalEscapes
  BY <1>3, <1>e DEF RefusalLeaves, StepSucceeds, StepFails, SignalEscapes
<1>4. CASE Done \/ UNCHANGED vars
  <2>1. UNCHANGED <<cmd, mode, pc, armed, issued, reported, eff, odd, drift, away>>
    BY <1>4 DEF Done, vars, engineVars, truthVars
  <2> QED BY <2>1 DEF ProgressOK, BodyOK, SeenOK, StillOK, BackOK, ArmedOK, Before, MadeGood,
            Never, Quiet, Touched, ActsBefore
<1> QED BY <1>1, <1>2, <1>3, <1>4 DEF Next

-----------------------------------------------------------------------------
(* What an edit or a refusal leaves behind. *)

\* An edit is never without intent.
IssuedOK ==
    /\ Touched => issued
    /\ issued \/ changed => intent
    /\ mode # "between" /\ cmd.family \in Premarked => issued

\* What does not count as an edit does not edit, and what is returned was not begun.
DeclaredOK ==
    /\ mode # "between" /\ ~cmd.edits /\ cmd.family # "macro" => ~Touched
    /\ mode \in {"back", "failed"} /\ cmd.family \in Solo /\ raised \in Refusals(cmd) => ~Touched
    /\ at > 0 /\ cmd.family \in Solo => at = size

\* A refusal that the handler may take for judged left the caret, and what is compared.
Judged(c) ==
    /\ (c.edits \/ c.family = "macro") /\ c.undo # "picture"
    /\ c.family \in {"guarded", "deferred"} \cup Solo
RefusedOK ==
    /\ mode = "failed" /\ Judged(cmd) /\ raised \in Refusals(cmd)
    /\ cmd.family \in {"guarded", "deferred"} => ~issued
    => ~away /\ (drift => cmd.family = "deferred")

LeavesOK == IssuedOK /\ DeclaredOK /\ RefusedOK

\* A document is edited for the first time in a phase that edits, with intent published.
LEMMA FirstEdit ==
    ASSUME TypeOK, ProgressOK, EngineStep, mode # "between" /\ cmd.family \in Premarked => issued,
           ~Touched, Touched'
    PROVE  /\ issued
           /\ cmd.edits \/ cmd.family = "macro"
           /\ cmd.family \in Solo => mode = "body" /\ cmd.body[pc].do \in EditPhases /\ pc \in DOMAIN cmd.body
<1>0. /\ Running /\ pc <= Len(Program) /\ Effect
  BY EffectIs, FlowIs
<1>p. Orderly(cmd) /\ pc \in DOMAIN Program
  BY <1>0, PhaseIs
<1>1. Phase0.do \in EditPhases
  BY <1>0 DEF Effect, Touched, TypeOK
<1>2. CASE mode = "body"
  <2>1. pc \in DOMAIN cmd.body /\ cmd.body[pc].do \in EditPhases
    BY <1>1, <1>2, <1>p DEF Phase0, Program
  <2>2. issued
    BY <1>2, <1>p, <2>1 DEF ProgressOK, BodyOK, Orderly, PublishesFirst
  <2>3. cmd.edits \/ cmd.family = "macro"
    BY <1>p, <2>1 DEF Orderly, Declared, Never
  <2> QED BY <1>2, <2>1, <2>2, <2>3
<1>3. mode # "still"
  BY <1>1, <1>p DEF Phase0, Program, Orderly, StopsFirst, Never
<1>4. CASE mode = "back"
  <2>1. pc \in DOMAIN cmd.back /\ cmd.back[pc].do \in EditPhases
    BY <1>1, <1>4, <1>p DEF Phase0, Program
  <2>2. ~Never(cmd.back, EditPhases)
    BY <2>1 DEF Never
  <2> QED BY <1>4, <1>p, <2>2 DEF Orderly, PublishesFirst, Declared, ReturnsFirst
<1> QED BY <1>0, <1>2, <1>3, <1>4 DEF Running

\* What an engine raises is a refusal only where the rules allow one.
LEMMA RaiseIs ==
    ASSUME TypeOK, ProgressOK, LeavesOK, EngineStep, Raises, raised' \in Refusals(cmd),
           cmd.family \in {"guarded", "deferred"} => ~issued,
           cmd.family \in {"guarded", "deferred"} \cup Solo
    PROVE  /\ Phase0.raises = raised' /\ Phase0.raises \in Refusals(cmd) /\ UNCHANGED <<cmd, issued>>
           /\ mode' = "failed" \/ (mode' = "back" /\ mode \in {"body", "still"})
           /\ mode' = "failed" => mode = "back" \/ ~armed \/ raised' = "clean"
<1>1. PICK c \in {"read", Phase0.raises} : Raise(c)
  BY DEF Raises
<1>2. Converted(c) = c
  BY DEF Converted
<1>3. raised' = c /\ UNCHANGED <<cmd, issued>>
  BY <1>1, <1>2 DEF Raise
<1>4. c = Phase0.raises
  BY <1>3 DEF Refusals
<1>5. Running
  BY FlowIs
<1>6. c \in {"refusal", "clean", "step"}
  BY <1>3 DEF Refusals
<1>7. mode' = "failed" \/ (mode' = "back" /\ mode \in {"body", "still"})
  BY <1>1, <1>5 DEF Raise, Running
<1>8. mode' = "failed" => mode = "back" \/ ~armed \/ raised' = "clean"
  BY <1>1, <1>2, <1>3, <1>6 DEF Raise
<1> QED BY <1>3, <1>4, <1>7, <1>8

\* A phase that raises a judged refusal has left the caret as it was.
LEMMA SettledRaise ==
    ASSUME TypeOK, ProgressOK, LeavesOK, EngineStep, Raises, mode' = "failed",
           Judged(cmd), raised' \in Refusals(cmd), cmd.family \in {"guarded", "deferred"} => ~issued
    PROVE  ~away' /\ (drift' => cmd.family = "deferred")
<1>0. Running /\ pc <= Len(Program) /\ Effect
  BY EffectIs, FlowIs
<1>p. Orderly(cmd) /\ pc \in DOMAIN Program
  BY <1>0, PhaseIs
<1>r. /\ Phase0.raises = raised' /\ Phase0.raises \in Refusals(cmd)
      /\ mode = "back" \/ ~armed \/ raised' = "clean"
  BY RaiseIs DEF Judged
<1>s. RefusesSettled(cmd)
  BY <1>p DEF Orderly
<1>1. mode # "back"
  BY <1>p, <1>r, <1>s DEF RefusesSettled, Judged, Phase0, Program
<1>2. mode # "still"
  <2> SUFFICES ASSUME mode = "still" PROVE FALSE
    OBVIOUS
  <2>1. Phase0 = cmd.still[pc] /\ pc \in DOMAIN cmd.still
    BY <1>p DEF Phase0, Program
  <2>2. raised' # "clean" /\ \A k \in DOMAIN cmd.body : cmd.body[k].do = "stop" => Before(cmd.body, k, {"arm"})
    BY <1>r, <1>s, <2>1 DEF RefusesSettled, Judged
  <2>3. armed
    BY <2>2 DEF ProgressOK, StillOK
  <2> QED BY <1>r, <2>2, <2>3
<1>3. mode = "body"
  BY <1>0, <1>1, <1>2 DEF Running
<1>4. Phase0 = cmd.body[pc] /\ pc \in DOMAIN cmd.body
  BY <1>3, <1>p DEF Phase0, Program
<1>5. Settled(cmd, cmd.body, pc)
  <2>1. \/ cmd.family \in {"guarded", "deferred"} /\ Before(cmd.body, pc, {"publish"})
        \/ cmd.body[pc].raises # "clean" /\ Before(cmd.body, pc, {"arm"})
        \/ Settled(cmd, cmd.body, pc)
    BY <1>r, <1>s, <1>4 DEF RefusesSettled, Judged
  <2>2. (Before(cmd.body, pc, {"publish"}) => issued) /\ (Before(cmd.body, pc, {"arm"}) => armed)
    BY <1>3 DEF ProgressOK, BodyOK
  <2> QED BY <1>r, <1>1, <1>4, <2>1, <2>2
<1>6. Phase0.do \notin Moving /\ Phase0.do \notin Drifting
  BY <1>4, <1>5 DEF Settled, Moving
<1>7. ~away /\ (cmd.family = "deferred" \/ ~drift)
  BY <1>3, <1>5 DEF Settled, ProgressOK, BodyOK
<1> QED BY <1>0, <1>6, <1>7 DEF Effect

\* An engine leaves no edit without intent and no refusal with one.
LEMMA LeavesEngine ==
    ASSUME TypeOK, ProgressOK, LeavesOK, EngineStep
    PROVE  LeavesOK'
<1>0. /\ Running /\ pc <= Len(Program) /\ Effect /\ UNCHANGED <<bundleVars, resultVars>> /\ cmd' = cmd
      /\ UNCHANGED changed
      /\ Ahead \/ Stops \/ Raises \/ (Interrupted /\ UNCHANGED <<eff, odd, drift, away>>)
  BY EffectIs, FlowIs DEF Effect
<1>p. Orderly(cmd)
  BY PhaseIs
<1>m. mode # "between" /\ (issued => intent) /\ (changed => intent) /\ (Touched => issued)
      /\ (cmd.family \in Premarked => issued)
  BY <1>0 DEF Running, LeavesOK, IssuedOK
<1>1. (issued => issued') /\ (intent => intent') /\ (issued' => intent')
  <2>1. CASE Ahead
    BY <1>m, <2>1 DEF Ahead
  <2>2. CASE Stops
    BY <1>m, <2>2 DEF Stops
  <2>3. CASE Raises
    BY <1>m, <2>3 DEF Raises, Raise
  <2>4. CASE Interrupted
    BY <1>m, <2>4 DEF Interrupted
  <2> QED BY <1>0, <2>1, <2>2, <2>3, <2>4
<1>2. IssuedOK'
  <2>1. Touched' => issued'
    <3>1. CASE Touched
      BY <1>m, <1>1, <3>1
    <3>2. CASE ~Touched
      BY <1>m, <1>1, <3>2, FirstEdit
    <3> QED BY <3>1, <3>2
  <2> QED BY <1>0, <1>m, <1>1, <2>1 DEF IssuedOK
<1>3. DeclaredOK'
  <2>1. ~cmd.edits /\ cmd.family # "macro" => ~Touched'
    <3>1. ~cmd.edits /\ cmd.family # "macro" => ~Touched
      BY <1>m DEF LeavesOK, DeclaredOK
    <3> QED BY <1>m, <3>1, FirstEdit
  <2>2. ASSUME mode' \in {"back", "failed"}, cmd.family \in Solo, raised' \in Refusals(cmd)
        PROVE  ~Touched'
    <3>1. ~Ahead \/ mode = "back"
      BY <1>0, <2>2 DEF Ahead, Running
    <3>2. ~Stops /\ ~Interrupted
      BY <2>2 DEF Stops, Interrupted, Refusals
    <3>3. CASE mode = "back" /\ Ahead
      <4>1. raised' = raised
        BY <3>3 DEF Ahead
      <4>2. ~Touched
        BY <2>2, <3>3, <4>1 DEF LeavesOK, DeclaredOK
      <4> QED BY <1>m, <2>2, <3>3, <4>2, FirstEdit
    <3>4. CASE Raises
      <4>1. Phase0.raises \in Refusals(cmd)
        BY <2>2, <3>4, RaiseIs DEF Solo
      <4>2. pc \in DOMAIN Program
        BY <1>0, PhaseIs
      <4>3. mode # "back"
        BY <1>p, <2>2, <4>1, <4>2 DEF Orderly, ReturnsFirst, Phase0, Program
      <4>4. CASE mode = "still"
        <5>1. ~Touched
          BY <4>4 DEF ProgressOK, StillOK
        <5> QED BY <1>m, <2>2, <4>4, <5>1, FirstEdit
      <4>5. CASE mode = "body"
        <5>1. Phase0 = cmd.body[pc] /\ pc \in DOMAIN cmd.body
          BY <4>2, <4>5 DEF Phase0, Program
        <5>2. cmd.body[pc].do \notin EditPhases /\ ~Before(cmd.body, pc, EditPhases)
          BY <1>p, <2>2, <4>1, <5>1 DEF Orderly, ReturnsFirst
        <5>3. ~Touched
          BY <4>5, <5>2 DEF ProgressOK, BodyOK
        <5> QED BY <1>m, <2>2, <5>2, <5>3, FirstEdit
      <4> QED BY <1>0, <4>3, <4>4, <4>5 DEF Running
    <3> QED BY <1>0, <3>1, <3>2, <3>3, <3>4
  <2>3. UNCHANGED <<at, size>>
    BY <1>0 DEF bundleVars
  <2>4. at' > 0 /\ cmd'.family \in Solo => at' = size'
    BY <1>0, <2>3 DEF LeavesOK, DeclaredOK
  <2>5. mode' \in {"back", "failed"} /\ cmd'.family \in Solo /\ raised' \in Refusals(cmd)' => ~Touched'
    BY <1>0, <2>2 DEF Refusals
  <2> QED BY <1>0, <2>1, <2>4, <2>5 DEF DeclaredOK
<1>4. RefusedOK'
  <2> SUFFICES ASSUME mode' = "failed", Judged(cmd'), raised' \in Refusals(cmd'),
                      cmd'.family \in {"guarded", "deferred"} => ~issued'
               PROVE  ~away' /\ (drift' => cmd'.family = "deferred")
    BY DEF RefusedOK, Judged, Refusals
  <2>1. Judged(cmd) /\ raised' \in Refusals(cmd) /\ (cmd.family \in {"guarded", "deferred"} => ~issued)
    BY <1>0, <1>1
  <2>2. ~Ahead /\ ~Stops
    BY <1>0 DEF Ahead, Stops, Running
  <2>3. ~Interrupted
    BY DEF Interrupted, Refusals
  <2>4. Raises
    BY <1>0, <2>2, <2>3
  <2> QED BY <1>0, <2>1, <2>4, SettledRaise
<1> QED BY <1>2, <1>3, <1>4 DEF LeavesOK

\* So does every step.
LEMMA LeavesStep ==
    ASSUME TypeOK, ProgressOK, LeavesOK, [Next]_vars
    PROVE  LeavesOK'
<1>1. ASSUME NEW c \in Commands, BeginStep(c) PROVE LeavesOK'
  <2>1. /\ mode' = "body" /\ cmd' = c /\ eff' = 0 /\ odd' = FALSE /\ changed' = changed
        /\ issued' = MarksBefore(c) /\ intent' = (intent \/ MarksBefore(c)) /\ at' = at + 1 /\ size' = size
        /\ (Alone(c) => size = 1) /\ at < size
    BY <1>1 DEF BeginStep, Fits
  <2>2. IssuedOK'
    <3>1. MarksBefore(c) <=> c.family \in Premarked
      BY DEF MarksBefore, Premarked
    <3>2. ~Touched'
      BY <2>1 DEF Touched
    <3>3. issued' \/ changed' => intent'
      BY <2>1, Zenon DEF LeavesOK, IssuedOK
    <3>4. c.family \in Premarked => issued'
      BY <2>1, <3>1, Zenon
    <3> QED BY <2>1, <3>2, <3>3, <3>4 DEF IssuedOK
  <2>3. DeclaredOK'
    <3>1. c.family \in Solo => at' = size'
      BY <2>1 DEF Alone, Solo, TypeOK
    <3> QED BY <2>1, <3>1 DEF DeclaredOK, Touched
  <2> QED BY <2>1, <2>2, <2>3 DEF LeavesOK, RefusedOK
<1>2. CASE EngineStep
  BY <1>2, LeavesEngine
<1>3. CASE RefusalLeaves
  <2>1. /\ mode = "back" /\ pc > Len(Program) /\ mode' = "failed"
        /\ UNCHANGED <<cmd, issued, intent, at, size, eff, odd, drift, away, changed>>
        /\ raised' = IF raised = "refusal" THEN "clean" ELSE IF raised = "undoable" THEN "error" ELSE raised
    BY <1>3 DEF RefusalLeaves, bundleVars, truthVars
  <2>2. raised' \in Refusals(cmd) => raised \in Refusals(cmd)
    BY <2>1 DEF Refusals
  <2>3. IssuedOK'
    BY <2>1 DEF IssuedOK, LeavesOK, Touched
  <2>4. DeclaredOK'
    BY <2>1, <2>2 DEF DeclaredOK, LeavesOK, Touched, Refusals
  <2>5. RefusedOK'
    <3> SUFFICES ASSUME Judged(cmd) PROVE ~away /\ (drift => cmd.family = "deferred")
      BY <2>1 DEF RefusedOK, Judged, Refusals
    <3>1. Orderly(cmd) /\ cmd.back \in Seq(Phases)
      BY PhaseIs
    <3>2. Restores(cmd)
      BY <2>1, <3>1 DEF ProgressOK, ArmedOK, Orderly, RefusesSettled, Judged
    <3>3. pc - 1 = Len(cmd.back)
      BY <2>1, <3>1 DEF ProgressOK, BackOK, Program, TypeOK
    <3>4. \A h \in DOMAIN cmd.back : \A does : ~After(cmd.back, h, does) => Quiet(cmd.back, h, pc, does)
      BY <3>3 DEF After, Quiet
    <3>5. \A h \in DOMAIN cmd.back :
            /\ cmd.back[h].do \in Homing /\ Quiet(cmd.back, h, pc, Moving) => ~away
            /\ cmd.back[h].do \in Sameness /\ Quiet(cmd.back, h, pc, Drifting) => ~drift
      BY <2>1, <3>1, <3>3 DEF ProgressOK, BackOK
    <3> QED BY <3>2, <3>4, <3>5 DEF Restores
  <2> QED BY <2>3, <2>4, <2>5 DEF LeavesOK
<1>4. CASE StepSucceeds \/ StepFails \/ SignalEscapes
  <2>1. /\ mode' \in {"between", "stopped"} /\ mode # "between"
        /\ UNCHANGED <<cmd, issued, intent, at, size, eff, odd>> /\ changed' = (changed \/ Touched)
    BY <1>4 DEF StepSucceeds, StepFails, SignalEscapes, bundleVars
  <2>2. IssuedOK'
    BY <2>1 DEF IssuedOK, LeavesOK, Touched
  <2>3. DeclaredOK'
    BY <2>1 DEF DeclaredOK, LeavesOK, Touched
  <2> QED BY <2>1, <2>2, <2>3 DEF LeavesOK, RefusedOK
<1>5. CASE Done \/ UNCHANGED vars
  <2>1. UNCHANGED <<cmd, mode, issued, intent, raised, at, size, eff, odd, drift, away, changed>>
    BY <1>5 DEF Done, vars, bundleVars, engineVars, truthVars
  <2> QED BY <2>1 DEF LeavesOK, IssuedOK, DeclaredOK, RefusedOK, Touched, Judged, Refusals
<1> QED BY <1>1, <1>2, <1>3, <1>4, <1>5 DEF Next

-----------------------------------------------------------------------------
(* What the handler says of a step that has ended. *)

\* A body that was looked at after its last edit made the edits it was asked for.
LEMMA SeenThrough ==
    ASSUME TypeOK, ProgressOK, mode = "body", pc > Len(Program),
           NEW does, does \subseteq {"verify", "peek"}, SeenAfter(cmd.body, does)
    PROVE  eff = Acts(cmd.body) /\ (does = {"verify"} => ~odd)
<1>0. cmd.body \in Seq(Phases) /\ Program = cmd.body
  BY PhaseIs DEF Program
<1>1. pc - 1 = Len(cmd.body) /\ pc \in Nat
  BY <1>0 DEF ProgressOK, BodyOK, TypeOK
<1>2. CASE Never(cmd.body, EditPhases)
  <2>1. ~Before(cmd.body, pc, EditPhases)
    BY <1>0, <1>1, <1>2 DEF Before, Never
  <2>2. ~Touched
    BY <2>1 DEF ProgressOK, BodyOK
  <2>3. {i \in DOMAIN cmd.body : cmd.body[i].do \in EditPhases} = {}
    BY <1>2 DEF Never
  <2>4. Acts(cmd.body) = 0
    BY <2>3, FS_EmptySet DEF Acts
  <2> QED BY <2>2, <2>4 DEF Touched, TypeOK
<1>3. ASSUME NEW v \in DOMAIN cmd.body, cmd.body[v].do \in does,
             ~After(cmd.body, v, EditPhases \cup {"revert"})
      PROVE  eff = Acts(cmd.body) /\ (does = {"verify"} => ~odd)
  <2>1. v \in 1..(pc - 1)
    BY <1>0, <1>1
  <2>2. Quiet(cmd.body, v, pc, EditPhases \cup {"revert"})
    BY <1>1, <1>3 DEF Quiet, After
  <2>3. eff = ActsBefore(cmd.body, v) /\ (cmd.body[v].do = "verify" => ~odd)
    BY <1>3, <2>1, <2>2 DEF ProgressOK, SeenOK
  <2>4. cmd.body[v].do \notin EditPhases
    BY <1>3 DEF EditPhases
  <2>5. \A k \in DOMAIN cmd.body : k > v => cmd.body[k].do \notin EditPhases
    BY <1>0, <1>3 DEF After
  <2>6. {j \in 1..(v - 1) : cmd.body[j].do \in EditPhases} = {i \in DOMAIN cmd.body : cmd.body[i].do \in EditPhases}
    BY <1>0, <2>4, <2>5
  <2> QED BY <1>3, <2>3, <2>6 DEF ActsBefore, Acts
<1> QED BY <1>2, <1>3 DEF SeenAfter

\* What the envelope and the last status say of the steps so far.
DebtOK ==
    /\ mode # "stopped" => last.ok
    /\ mode # "between" => at > 0
    /\ changed => at > 0 /\ (dirty \/ (cmd.family = "macro" /\ mode \in {"between", "stopped"}))
    /\ EditsAreDebt

CountOK ==
    mode = "between" /\ last.changed /\ last.count > 0 /\ cmd.undo \notin {"one", "picture"} =>
        last.count = eff

EndsOK == DebtOK /\ RefusalIsClean /\ AskedIsDone /\ CountOK

BundleInv == TypeOK /\ ProgressOK /\ LeavesOK /\ EndsOK

\* A step that succeeds did what it says.
LEMMA SuccessIs ==
    ASSUME BundleInv, StepSucceeds
    PROVE  EndsOK'
<1>0. TypeOK /\ ProgressOK /\ LeavesOK /\ DebtOK
  BY DEF BundleInv, EndsOK
<1> DEFINE touches == cmd.edits /\ mode = "body"
<1>p. Orderly(cmd) /\ cmd.body \in Seq(Phases)
  BY <1>0, PhaseIs
<1>1. /\ mode \in {"body", "still"} /\ pc > Len(Program) /\ mode' = "between"
      /\ dirty' = (dirty \/ touches) /\ changed' = (changed \/ Touched)
      /\ UNCHANGED <<cmd, eff, odd, drift, away, at, size, intent, held>>
  BY DEF StepSucceeds, bundleVars
<1>2. PICK n \in (IF touches THEN UndoCounts(cmd, reported) ELSE {0}) :
         last' = [NoStatus EXCEPT !.changed = touches, !.persisted = touches, !.count = n]
  BY Zenon DEF StepSucceeds
<1>3. last'.changed = touches /\ last'.count = n /\ last'.ok
  BY <1>2, Zenon DEF NoStatus
<1>4. Touched => touches \/ cmd.family = "macro"
  <2>1. Touched => cmd.edits \/ cmd.family = "macro"
    BY <1>0, <1>1 DEF LeavesOK, DeclaredOK
  <2>2. mode = "still" => ~Touched
    BY <1>0 DEF ProgressOK, StillOK
  <2> QED BY <1>1, <2>1, <2>2
<1>5. at > 0
  BY <1>0, <1>1 DEF DebtOK
<1> HIDE DEF touches
<1>6. DebtOK'
  <2>1. changed => dirty
    BY <1>0, <1>1 DEF DebtOK
  <2>2. changed => intent
    BY <1>0 DEF LeavesOK, IssuedOK
  <2>3. Touched => intent
    BY <1>0 DEF LeavesOK, IssuedOK
  <2>4. changed' => intent' /\ (dirty' \/ cmd'.family = "macro")
    BY <1>1, <1>4, <2>1, <2>2, <2>3
  <2> QED BY <1>1, <1>3, <1>5, <2>4 DEF DebtOK, EditsAreDebt
<1>7. RefusalIsClean'
  BY <1>1 DEF RefusalIsClean
<1>8. AskedIsDone'
  <2> SUFFICES ASSUME cmd.family \in {"guarded", "deferred"}, cmd.undo # "one"
               PROVE  IF touches THEN eff = Acts(cmd.body) /\ ~odd ELSE eff = 0 /\ ~odd
    BY <1>1, <1>3 DEF AskedIsDone
  <2>1. CASE touches
    <3>1. mode = "body"
      BY <2>1 DEF touches
    <3>2. SeenAfter(cmd.body, {"verify"})
      BY <1>p DEF Orderly, VerifiesLast
    <3> QED BY <1>0, <1>1, <2>1, <3>1, <3>2, SeenThrough
  <2>2. CASE ~touches
    <3>1. ~Touched
      BY <1>4, <2>2
    <3> QED BY <1>0, <2>2, <3>1 DEF Touched, TypeOK
  <2> QED BY <2>1, <2>2
<1>9. CountOK'
  <2> SUFFICES ASSUME touches, n > 0, cmd.undo \notin {"one", "picture"}
               PROVE  n = eff
    BY <1>1, <1>3 DEF CountOK
  <2>0. n \in UndoCounts(cmd, reported) /\ mode = "body"
    BY <1>2 DEF touches
  <2>1. /\ cmd.undo \in {"single", "counted", "any", "state"} /\ n = reported
        /\ cmd.undo = "single" => reported = 1
    BY <2>0 DEF UndoCounts
  <2>2. PICK i \in 1..(pc - 1) : cmd.body[i].do = "report" /\ cmd.body[i].n = reported
    BY <1>0, <2>0, <2>1 DEF ProgressOK, BodyOK
  <2>3. i \in DOMAIN cmd.body
    BY <1>0, <1>p, <2>0 DEF ProgressOK, BodyOK, TypeOK
  <2>4. SeenAfter(cmd.body, {"verify", "peek"}) /\ reported = Acts(cmd.body)
    BY <1>p, <2>1, <2>2, <2>3 DEF Orderly, ReportsIssued
  <2>5. eff = Acts(cmd.body)
    BY <1>0, <1>1, <2>0, <2>4, SeenThrough
  <2> QED BY <2>1, <2>4, <2>5
<1> QED BY <1>6, <1>7, <1>8, <1>9 DEF EndsOK

\* A step that fails owes what it touched, and a refused one left nothing to owe.
LEMMA FailureIs ==
    ASSUME BundleInv, StepFails \/ SignalEscapes
    PROVE  EndsOK'
<1>0. TypeOK /\ ProgressOK /\ LeavesOK /\ DebtOK
  BY DEF BundleInv, EndsOK
<1>1. /\ mode = "failed" /\ mode' = "stopped" /\ changed' = (changed \/ Touched) /\ ~last'.ok
      /\ UNCHANGED <<cmd, eff, odd, drift, away, at, size, issued, intent, raised>>
  BY DEF StepFails, SignalEscapes, bundleVars, NoStatus
<1>2. /\ Touched => issued /\ intent
      /\ changed => intent /\ dirty
      /\ at > 0
  BY <1>0, <1>1 DEF LeavesOK, IssuedOK, DebtOK
<1>r. Returned => ~Touched
  BY <1>0, <1>1 DEF LeavesOK, DeclaredOK, Returned, Alone, Solo, Refusals
<1>3. Touched => MayHavePersisted
  BY <1>2, <1>r DEF MayHavePersisted
<1>4. Touched => StepFails /\ dirty' /\ held' = "mutated"
  BY <1>3 DEF StepFails, SignalEscapes, MustHold
<1>5. dirty => dirty'
  BY DEF StepFails, SignalEscapes
<1>6. DebtOK'
  BY <1>1, <1>2, <1>4, <1>5 DEF DebtOK, EditsAreDebt, Touched
<1>7. RefusalIsClean'
  <2> SUFFICES ASSUME last'.refused, cmd.edits \/ cmd.family = "macro", cmd.undo # "picture"
               PROVE  eff = 0 /\ ~odd /\ ~away /\ (drift => cmd.family = "deferred")
    BY <1>1 DEF RefusalIsClean, LeftAsFound
  <2>1. StepFails
    BY DEF SignalEscapes, NoStatus
  <2>2. (TargetRefused \/ Returned) /\ ~MayHavePersisted
    BY <2>1 DEF StepFails
  <2>3. ~Touched
    BY <1>3, <2>2
  <2>4. TargetRefused => ~issued
    BY <2>2 DEF MayHavePersisted, TargetRefused, Returned, Alone
  <2>5. Judged(cmd) /\ raised \in Refusals(cmd) /\ (cmd.family \in {"guarded", "deferred"} => ~issued)
    BY <2>2, <2>4 DEF Judged, TargetRefused, Returned, Alone, Solo, Refusals
  <2>6. ~away /\ (drift => cmd.family = "deferred")
    BY <1>0, <1>1, <2>5 DEF LeavesOK, RefusedOK
  <2> QED BY <1>0, <2>3, <2>6 DEF Touched, TypeOK
<1>8. AskedIsDone' /\ CountOK'
  BY <1>1 DEF AskedIsDone, CountOK
<1> QED BY <1>6, <1>7, <1>8 DEF EndsOK

\* Every step keeps what the envelope says true.
LEMMA EndsStep ==
    ASSUME BundleInv, [Next]_vars
    PROVE  EndsOK'
<1>0. TypeOK /\ LeavesOK /\ DebtOK /\ EndsOK
  BY DEF BundleInv, EndsOK
<1>1. ASSUME NEW c \in Commands, BeginStep(c) PROVE EndsOK'
  <2>1. /\ mode = "between" /\ at < size /\ at' = at + 1 /\ mode' = "body"
        /\ UNCHANGED <<size, changed, last, dirty, held>>
    BY <1>1 DEF BeginStep, resultVars
  <2>2. changed => dirty
    <3>1. at > 0 /\ cmd.family = "macro" => at = size
      BY <1>0 DEF LeavesOK, DeclaredOK, Solo
    <3>2. at # size
      BY <1>0, <2>1 DEF TypeOK
    <3> QED BY <1>0, <3>1, <3>2 DEF DebtOK
  <2>3. at' > 0
    BY <1>0, <2>1 DEF TypeOK
  <2> QED BY <1>0, <2>1, <2>2, <2>3
          DEF EndsOK, DebtOK, EditsAreDebt, Ended, RefusalIsClean, AskedIsDone, CountOK
<1>2. CASE EngineStep \/ RefusalLeaves
  <2>1. /\ mode \in {"body", "still", "back"} /\ mode' \in {"body", "still", "back", "failed"}
        /\ UNCHANGED <<cmd, changed, at, size, last, dirty, held>>
    <3>1. CASE EngineStep
      <4>1. /\ Running /\ UNCHANGED <<bundleVars, resultVars>> /\ Effect
            /\ Ahead \/ Stops \/ Raises \/ Interrupted
        BY <1>0, <3>1, FlowIs, EffectIs
      <4>2. mode' \in {"body", "still", "back", "failed"}
        <5>1. mode \in {"body", "still", "back"}
          BY <4>1 DEF Running
        <5>2. mode' = mode \/ mode' \in {"still", "back", "failed"}
          BY <4>1 DEF Ahead, Stops, Raises, Raise, Interrupted
        <5> QED BY <5>1, <5>2
      <4> QED BY <4>1, <4>2 DEF Running, Effect, bundleVars, resultVars
    <3>2. CASE RefusalLeaves
      BY <3>2 DEF RefusalLeaves, bundleVars, truthVars, resultVars
    <3> QED BY <1>2, <3>1, <3>2
  <2> QED BY <1>0, <2>1
          DEF EndsOK, DebtOK, EditsAreDebt, Ended, RefusalIsClean, AskedIsDone, CountOK
<1>3. CASE StepSucceeds
  BY <1>3, SuccessIs
<1>4. CASE StepFails \/ SignalEscapes
  BY <1>4, FailureIs
<1>5. CASE Done \/ UNCHANGED vars
  <2>1. UNCHANGED <<cmd, mode, at, size, last, dirty, held, changed, intent, eff, odd, drift, away>>
    BY <1>5 DEF Done, vars, bundleVars, engineVars, truthVars, resultVars
  <2> QED BY <1>0, <2>1 DEF EndsOK, DebtOK, EditsAreDebt, Ended, RefusalIsClean, AskedIsDone, CountOK,
          LeftAsFound, Touched
<1> QED BY <1>1, <1>2, <1>3, <1>4, <1>5 DEF Next

\* At the start no step has begun.
LEMMA BundleBegins == ASSUME Init PROVE BundleInv
<1>1. /\ size \in 1..MaxSteps /\ guarded \in BOOLEAN /\ at = 0 /\ seen = FALSE /\ cmd \in Commands
      /\ mode = "between" /\ pc = 1 /\ armed = FALSE /\ issued = FALSE /\ intent = FALSE
      /\ reported = 0 /\ raised = "none" /\ eff = 0 /\ odd = FALSE /\ drift = FALSE /\ away = FALSE
      /\ silent = 0 /\ changed = FALSE /\ last = NoStatus /\ dirty = FALSE /\ held = "no"
  BY BundleAssumption DEF Init
<1>2. TypeOK
  <2>1. silent \in 0..MaxSilent /\ at \in 0..size
    BY <1>1, BundleAssumption
  <2>2. /\ seen \in BOOLEAN /\ armed \in BOOLEAN /\ issued \in BOOLEAN /\ intent \in BOOLEAN
        /\ odd \in BOOLEAN /\ drift \in BOOLEAN /\ away \in BOOLEAN /\ changed \in BOOLEAN /\ dirty \in BOOLEAN
    BY <1>1
  <2>3. last \in [ok : BOOLEAN, refused : BOOLEAN, persisted : BOOLEAN, changed : BOOLEAN, count : Nat]
    BY <1>1 DEF NoStatus
  <2>4. pc \in Nat \ {0} /\ reported \in Nat /\ eff \in Nat
    BY <1>1
  <2>5. /\ mode \in {"between", "body", "still", "back", "failed", "stopped"}
        /\ raised \in Classes \cup {"none", "signal"} /\ held \in {"no", "unmutated", "mutated", "escaped"}
    BY <1>1
  <2> QED BY <1>1, <2>1, <2>2, <2>3, <2>4, <2>5 DEF TypeOK
<1>3. ProgressOK
  BY <1>1 DEF ProgressOK, BodyOK, SeenOK, StillOK, BackOK, ArmedOK
<1>4. LeavesOK
  BY <1>1 DEF LeavesOK, IssuedOK, DeclaredOK, RefusedOK, Touched
<1>5. EndsOK
  BY <1>1 DEF EndsOK, DebtOK, EditsAreDebt, RefusalIsClean, AskedIsDone, CountOK, NoStatus
<1> QED BY <1>2, <1>3, <1>4, <1>5 DEF BundleInv

\* The invariant of the bundle.
LEMMA BundleHolds == Spec => []BundleInv
<1>1. Init => BundleInv
  BY BundleBegins
<1>2. BundleInv /\ [Next]_vars => BundleInv'
  <2> SUFFICES ASSUME BundleInv, [Next]_vars PROVE BundleInv'
    OBVIOUS
  <2>1. TypeOK' /\ ProgressOK' /\ LeavesOK'
    BY TypeStep, ProgressStep, LeavesStep DEF BundleInv
  <2> QED BY <2>1, EndsStep DEF BundleInv
<1> QED BY <1>1, <1>2, PTL DEF Spec

\* An edit is never lost sight of, whatever program made it and however it ended: when a
\* request has ended, what any of its steps changed is owed a save, and the session is
\* held if the step that failed had touched the document (command_bundle's except branch).
THEOREM BundleEditsAreDebt == Spec => []EditsAreDebt
<1>1. BundleInv => EditsAreDebt
  BY DEF BundleInv, EndsOK, DebtOK
<1> QED BY <1>1, BundleHolds, PTL

\* A step reported as refused left the document and the caret as it found them, for any
\* program whose refusals are settled or restored (_guarded, refused_unmutated).
THEOREM BundleRefusalIsClean == Spec => []RefusalIsClean
<1>1. BundleInv => RefusalIsClean
  BY DEF BundleInv, EndsOK
<1> QED BY <1>1, BundleHolds, PTL

\* A guarded or deferred step that reports success did all that was asked and nothing
\* else, or nothing at all, for any program that compares after its last edit.
THEOREM BundleAskedIsDone == Spec => []AskedIsDone
<1>1. BundleInv => AskedIsDone
  BY DEF BundleInv, EndsOK
<1> QED BY <1>1, BundleHolds, PTL

\* The bundle's state is well typed, and the number of native Undo calls recorded for a
\* counted step is the number of native edits it made (_bundle_step_single_undo).
THEOREM BundleCountIsExact == Spec => []CountIsExact
<1>1. BundleInv => CountIsExact
  BY DEF BundleInv, EndsOK, CountOK, CountIsExact
<1> QED BY <1>1, BundleHolds, PTL

-----------------------------------------------------------------------------
(***************************************************************************)
(* The document over many commands (EditHistory).  A session that owes no  *)
(* save has its content on disk, a close loses nothing, and a package that *)
(* counts as current is the document.                                      *)
(*                                                                         *)
(* Neither needs the lists of the binding: the argument is the runtime's   *)
(* record alone.  Whatever may change the document leaves debt, unless the *)
(* editor was exactly clean before and after; and then the content is what *)
(* was saved.                                                              *)
(***************************************************************************)

\* The fields a package record and a runtime record have, whatever they hold.
IsPackage(v) == v = None \/ ("state" \in DOMAIN v /\ "current" \in DOMAIN v)
IsRuntime(r) ==
    /\ "debt" \in DOMAIN r /\ "cleared" \in DOMAIN r /\ "verified" \in DOMAIN r
    /\ IsPackage(r.verified)

\* The package of r, if it counts as current, is the content.
Holds(r, content) ==
    r.verified # None /\ r.verified.current => r.verified.state = content

HistoryInv ==
    /\ IsRuntime(rt)
    /\ DebtCoversWork
    /\ session = "closed" => disk = doc
    /\ session # "held" => Holds(rt, doc)

-----------------------------------------------------------------------------
(* The runtime's operators, by what they return. *)

LEMMA AdmittedIs ==
    ASSUME IsRuntime(rt)
    PROVE  /\ IsRuntime(Admitted)
           /\ Admitted.debt = (rt.debt \/ book.dirty)
           /\ Admitted.verified = rt.verified
BY DEF Admitted, IsRuntime

LEMMA StaleIs ==
    ASSUME NEW v, IsPackage(v)
    PROVE  IsPackage(Stale(v)) /\ (Stale(v) = None \/ ~Stale(v).current)
BY DEF Stale, IsPackage

\* The runtime whose package has gone stale holds for any content.
LEMMA StaledIs ==
    ASSUME NEW r, IsRuntime(r), NEW content
    PROVE  /\ IsRuntime([r EXCEPT !.verified = Stale(@)])
           /\ [r EXCEPT !.verified = Stale(@)].debt = r.debt
           /\ Holds([r EXCEPT !.verified = Stale(@)], content)
<1>1. IsPackage(Stale(r.verified)) /\ (Stale(r.verified) = None \/ ~Stale(r.verified).current)
  BY StaleIs DEF IsRuntime
<1> QED  BY <1>1 DEF IsRuntime, Holds

LEMMA MarkedIs ==
    ASSUME NEW r, IsRuntime(r), NEW content
    PROVE  IsRuntime(Marked(r)) /\ Marked(r).debt /\ Holds(Marked(r), content)
<1>1. IsPackage(Stale(r.verified)) /\ (Stale(r.verified) = None \/ ~Stale(r.verified).current)
  BY StaleIs DEF IsRuntime
<1> QED  BY <1>1 DEF IsRuntime, Marked, Holds

LEMMA RecordedIs ==
    ASSUME NEW r, IsRuntime(r), NEW content, NEW w
    PROVE  /\ IsRuntime(Recorded(r, content, w))
           /\ Recorded(r, content, w).debt = r.debt
           /\ Holds(Recorded(r, content, w), content)
BY DEF IsRuntime, IsPackage, Recorded, Holds

LEMMA SavedIs ==
    ASSUME NEW r, IsRuntime(r), NEW content, Holds(r, content)
    PROVE  IsRuntime(Saved(r)) /\ Holds(Saved(r), content)
BY DEF IsRuntime, Saved, Holds

-----------------------------------------------------------------------------
(* The steps. *)

\* An edit leaves debt and a stale package.
LEMMA MarkingSteps ==
    ASSUME HistoryInv, rt' = Marked(Admitted), session' # "closed"
    PROVE  HistoryInv'
<1>1. IsRuntime(rt') /\ rt'.debt /\ Holds(rt', doc')
  BY AdmittedIs, MarkedIs DEF HistoryInv
<1> QED  BY <1>1 DEF HistoryInv, DebtCoversWork

\* A step that leaves document and disk as they are and takes the debt over.
LEMMA AdmittingSteps ==
    ASSUME HistoryInv, session = "open", rt' = Admitted,
           UNCHANGED <<doc, disk>>, session' = "closed" => ~Admitted.debt
    PROVE  HistoryInv'
<1>1. IsRuntime(rt') /\ rt'.debt = (rt.debt \/ book.dirty) /\ rt'.verified = rt.verified
  BY AdmittedIs DEF HistoryInv
<1>2. ~rt'.debt => disk = doc  BY <1>1 DEF HistoryInv, DebtCoversWork
<1> QED  BY <1>1, <1>2 DEF HistoryInv, DebtCoversWork, Holds

\* A history command that ran: without debt the editor says the document is the saved one.
LEMMA HistoryRan ==
    ASSUME HistoryInv, session = "open", NEW c, NEW modified \in FlagAfter(doc'),
           rt' = AfterHistory(c, doc', modified), UNCHANGED <<disk, session>>
    PROVE  HistoryInv'
<1> DEFINE after == modified /\ ~(Package(c) /\ CopyClears)
           settled == Settles(Admitted, after, Package(c))
           marked == IF settled THEN [Admitted EXCEPT !.verified = Stale(@)] ELSE Marked(Admitted)
<1>1. IsRuntime(Admitted) /\ Admitted.debt = (rt.debt \/ book.dirty)  BY AdmittedIs DEF HistoryInv
<1>2. IsRuntime(marked) /\ Holds(marked, doc')  BY <1>1, StaledIs, MarkedIs
<1>3. settled => disk' = doc'
  <2>1. settled => ~Package(c) /\ ~modified  BY DEF Settles
  <2> QED  BY <2>1 DEF FlagAfter
<1>4. ~settled => marked.debt  BY <1>1, MarkedIs
<1>5. rt' = IF Package(c) THEN Recorded(marked, doc', modified) ELSE marked  BY DEF AfterHistory
<1> HIDE DEF marked, settled, after
<1>6. IsRuntime(rt') /\ Holds(rt', doc') /\ rt'.debt = marked.debt  BY <1>2, <1>5, RecordedIs
<1> QED  BY <1>3, <1>4, <1>6 DEF HistoryInv, DebtCoversWork

LEMMA RefusalKeeps ==
    ASSUME HistoryInv, NEW c, NEW copied \in BOOLEAN, HistoryRefused(c, copied)
    PROVE  HistoryInv'
<1> DEFINE settled == Settles(Admitted, flag', copied)
           marked == IF settled THEN [Admitted EXCEPT !.verified = Stale(@)] ELSE Marked(Admitted)
<1>1. IsRuntime(Admitted) /\ Admitted.debt = (rt.debt \/ book.dirty)  BY AdmittedIs DEF HistoryInv
<1>2. IsRuntime(marked) /\ Holds(marked, doc)  BY <1>1, StaledIs, MarkedIs
<1>3. settled => ~Admitted.debt  BY DEF Settles
<1>4. ~settled => marked.debt  BY <1>1, MarkedIs
<1>5. /\ rt' = IF copied THEN Recorded(marked, doc, flag) ELSE marked
      /\ session = "open" /\ UNCHANGED <<doc, disk, session>>
  BY DEF HistoryRefused
<1> HIDE DEF marked, settled
<1>6. IsRuntime(rt') /\ Holds(rt', doc) /\ rt'.debt = marked.debt  BY <1>2, <1>5, RecordedIs
<1> QED  BY <1>1, <1>3, <1>4, <1>5, <1>6 DEF HistoryInv, DebtCoversWork

LEMMA TravelKeeps ==
    ASSUME HistoryInv, NEW content \in BOOLEAN, Travel(content)
    PROVE  HistoryInv'
<1> DEFINE r == IF content THEN Marked(Admitted) ELSE [Admitted EXCEPT !.debt = TRUE]
           settled == Settles(Admitted, flag, FALSE)
<1>1. IsRuntime(Admitted) /\ Admitted.debt = (rt.debt \/ book.dirty) /\ Admitted.verified = rt.verified
  BY AdmittedIs DEF HistoryInv
<1>2. session = "open" /\ UNCHANGED <<doc, disk, session>>  BY DEF Travel, editorVars
<1>3. Holds(Admitted, doc)  BY <1>1, <1>2 DEF HistoryInv, Holds
<1>4. IsRuntime(r) /\ r.debt /\ Holds(r, doc)
  <2>1. CASE content  BY <2>1, <1>1, MarkedIs
  <2>2. CASE ~content  BY <2>2, <1>1, <1>3 DEF IsRuntime, Holds
  <2> QED  BY <2>1, <2>2
<1>5. rt' = IF settled THEN [r EXCEPT !.debt = FALSE] ELSE r  BY DEF Travel
<1>6. settled => disk = doc  BY <1>1 DEF Settles, HistoryInv, DebtCoversWork
<1> HIDE DEF r, settled
<1>7. IsRuntime(rt') /\ Holds(rt', doc) /\ (~settled => rt'.debt)  BY <1>4, <1>5 DEF IsRuntime, Holds
<1> QED  BY <1>2, <1>6, <1>7 DEF HistoryInv, DebtCoversWork

\* A picture edit has both its debt and a package of the new content.
LEMMA PictureKeeps ==
    ASSUME HistoryInv, NEW n, BundlePicture(n)
    PROVE  HistoryInv'
<1>1. IsRuntime(Marked(Admitted)) /\ Marked(Admitted).debt  BY AdmittedIs, MarkedIs DEF HistoryInv
<1>2. rt' = Recorded(Marked(Admitted), doc', TRUE)  BY DEF BundlePicture
<1>3. IsRuntime(rt') /\ rt'.debt /\ Holds(rt', doc')  BY <1>1, <1>2, RecordedIs
<1>4. session' = "open"  BY DEF BundlePicture
<1> QED  BY <1>3, <1>4 DEF HistoryInv, DebtCoversWork

\* A save writes the document, and the package it checked is still the document.
LEMMA SavingKeeps ==
    ASSUME HistoryInv, SaveOrdinary \/ SaveVerified
    PROVE  HistoryInv'
<1>1. IsRuntime(Admitted) /\ Holds(Admitted, doc)
  BY AdmittedIs DEF HistoryInv, Holds, SaveOrdinary, SaveVerified
<1>2. session = "open" /\ disk' = doc /\ UNCHANGED <<doc, session>>
  BY DEF SaveOrdinary, SaveVerified, editorVars
<1>3. \/ rt' = Saved(Admitted)
      \/ rt' = Saved(Recorded(Admitted, doc, FALSE))
  BY DEF SaveOrdinary, SaveVerified
<1>4. IsRuntime(rt') /\ Holds(rt', doc)  BY <1>1, <1>3, RecordedIs, SavedIs
<1> QED  BY <1>2, <1>4 DEF HistoryInv, DebtCoversWork

\* The invariant of the runtime's record, for every value of the constants.
THEOREM HistoryHolds == HistorySpec => []HistoryInv
<1>1. HistoryInit => HistoryInv
  BY DEF HistoryInit, HistoryInv, IsRuntime, IsPackage, Holds, DebtCoversWork
<1>2. HistoryInv /\ [HistoryNext]_historyVars => HistoryInv'
  <2> SUFFICES ASSUME HistoryInv, [HistoryNext]_historyVars PROVE HistoryInv'  OBVIOUS
  <2>1. ASSUME NEW kind, NEW n, NEW reports, DirectEdit(kind, n, reports) PROVE HistoryInv'
    BY <2>1, MarkingSteps DEF DirectEdit
  <2>2. CASE BundleChangesNothing
    BY <2>2, AdmittingSteps DEF BundleChangesNothing, editorVars
  <2>3. ASSUME NEW n, NEW lone, BundleCounted(n, lone) PROVE HistoryInv'
    BY <2>3, MarkingSteps DEF BundleCounted
  <2>4. ASSUME NEW n, BundleUncounted(n) PROVE HistoryInv'
    BY <2>4, MarkingSteps DEF BundleUncounted
  <2>5. ASSUME NEW n, BundleUnlisted(n) PROVE HistoryInv'
    BY <2>5, MarkingSteps DEF BundleUnlisted
  <2>6. ASSUME NEW n, BundlePicture(n) PROVE HistoryInv'
    BY <2>6, PictureKeeps
  <2>7. ASSUME NEW n, Held(n) PROVE HistoryInv'
    BY <2>7, MarkingSteps DEF Held
  <2>8. ASSUME NEW c, DecideUndo(c) \/ DecideRedo(c) PROVE HistoryInv'
    BY <2>8 DEF DecideUndo, DecideRedo, editorVars, HistoryInv, DebtCoversWork
  <2>9. ASSUME NEW c, NEW copied \in BOOLEAN, HistoryRefused(c, copied) PROVE HistoryInv'
    BY <2>9, RefusalKeeps
  <2>10. ASSUME NEW c, NEW k, HistoryUnknown(c, k) PROVE HistoryInv'
    BY <2>10, MarkingSteps DEF HistoryUnknown
  <2>11. ASSUME NEW c, NEW match, UndoRuns(c, match) \/ RedoRuns(c, match) PROVE HistoryInv'
    <3>1. PICK modified \in FlagAfter(doc') : rt' = AfterHistory(c, doc', modified)
      BY <2>11 DEF UndoRuns, RedoRuns
    <3>2. session = "open" /\ UNCHANGED <<disk, session>>  BY <2>11 DEF UndoRuns, RedoRuns
    <3> QED  BY <3>1, <3>2, HistoryRan
  <2>12. CASE Look
    BY <2>12, AdmittingSteps DEF Look, editorVars
  <2>13. ASSUME NEW content \in BOOLEAN, Travel(content) PROVE HistoryInv'
    BY <2>13, TravelKeeps
  <2>14. CASE SaveNothing \/ CloseRefused
    BY <2>14, AdmittingSteps DEF SaveNothing, CloseRefused, editorVars
  <2>15. CASE SaveOrdinary \/ SaveVerified
    BY <2>15, SavingKeeps
  <2>16. CASE Close
    BY <2>16, AdmittingSteps DEF Close, editorVars
  <2>17. CASE UNCHANGED historyVars
    BY <2>17 DEF historyVars, editorVars, HistoryInv, DebtCoversWork
  <2> QED
    BY <2>1, <2>2, <2>3, <2>4, <2>5, <2>6, <2>7, <2>8, <2>9, <2>10, <2>11, <2>12, <2>13, <2>14,
       <2>15, <2>16, <2>17 DEF HistoryNext
<1> QED  BY <1>1, <1>2, PTL DEF HistorySpec

-----------------------------------------------------------------------------
\* A session that owes no save has its whole content on disk, and one that was closed has
\* lost nothing, for any number of requests and edits (execute's debt, close).
THEOREM WorkIsSafe == HistorySpec => []NoWorkLost
<1>1. HistoryInv => NoWorkLost  BY DEF HistoryInv, NoWorkLost
<1> QED  BY <1>1, HistoryHolds, PTL

\* The package a save may be checked against is the document in memory
\* (_mark_mutating_intent, the recorded private copies).
THEOREM PackageIsDocument == HistorySpec => []BaselineIsDocument
<1>1. HistoryInv => BaselineIsDocument  BY DEF HistoryInv, Holds, BaselineIsDocument, Current
<1> QED  BY <1>1, HistoryHolds, PTL

-----------------------------------------------------------------------------
(* Sequences: an end taken away, an end put on in reverse. *)

\* All but the last k of s, and the last k in reverse.
Rest(s, k)  == SubSeq(s, 1, Len(s) - k)
Moved(s, k) == Reverse(SubSeq(s, Len(s) - k + 1, Len(s)))

LEMMA RestIs ==
    ASSUME NEW S, NEW s \in Seq(S), NEW k \in 0..Len(s)
    PROVE  /\ Rest(s, k) \in Seq(S) /\ Len(Rest(s, k)) = Len(s) - k
           /\ \A i \in 1..(Len(s) - k) : Rest(s, k)[i] = s[i]
<1>1. Len(s) - k \in 0..Len(s)
  OBVIOUS
<1> QED BY <1>1 DEF Rest

LEMMA MovedIs ==
    ASSUME NEW S, NEW s \in Seq(S), NEW k \in 0..Len(s)
    PROVE  /\ Moved(s, k) \in Seq(S) /\ Len(Moved(s, k)) = k
           /\ \A i \in 1..k : Moved(s, k)[i] = s[Len(s) + 1 - i]
<1> DEFINE t == SubSeq(s, Len(s) - k + 1, Len(s))
<1>1. t \in Seq(S) /\ Len(t) = k /\ \A i \in 1..k : t[i] = s[Len(s) - k + i]
  OBVIOUS
<1> HIDE DEF t
<1>2. Moved(s, k) = [i \in 1..k |-> t[(k - i) + 1]]
  BY <1>1 DEF Moved, Reverse, t
<1>3. \A i \in 1..k : (k - i) + 1 \in 1..k
  OBVIOUS
<1>4. Moved(s, k) \in Seq(S) /\ Len(Moved(s, k)) = k
  <2>1. \A i \in 1..k : t[(k - i) + 1] \in S
    BY <1>1, <1>3
  <2>2. k \in Nat
    OBVIOUS
  <2> QED BY <1>2, <2>1, <2>2
<1>5. \A i \in 1..k : Moved(s, k)[i] = s[Len(s) + 1 - i]
  <2> TAKE i \in 1..k
  <2>1. Moved(s, k)[i] = t[(k - i) + 1]
    BY <1>2
  <2>2. t[(k - i) + 1] = s[Len(s) - k + ((k - i) + 1)]
    BY <1>1, <1>3
  <2>3. Len(s) - k + ((k - i) + 1) = Len(s) + 1 - i
    OBVIOUS
  <2> QED BY <2>1, <2>2, <2>3
<1> QED BY <1>4, <1>5

LEMMA JoinedIs ==
    ASSUME NEW S, NEW s \in Seq(S), NEW t \in Seq(S)
    PROVE  /\ s \o t \in Seq(S) /\ Len(s \o t) = Len(s) + Len(t)
           /\ \A i \in 1..Len(s) : (s \o t)[i] = s[i]
           /\ \A i \in (Len(s) + 1)..(Len(s) + Len(t)) : (s \o t)[i] = t[i - Len(s)]
OBVIOUS

-----------------------------------------------------------------------------
(* Native steps cut into the edits of a list. *)

\* How many native steps the edit of an entry made; a stop entry has none.
Size(entry, lg) == IF entry.of = 0 THEN 0 ELSE lg[entry.of]

\* The first i edits of the list made the first cut[i] steps, and step p is of edit own[p].
Tiles(steps, list, lg, cut, own) ==
    /\ cut \in [0..Len(list) -> Nat] /\ cut[0] = 0 /\ cut[Len(list)] = Len(steps)
    /\ \A i, j \in 0..Len(list) : i <= j => cut[i] <= cut[j]
    /\ \A i \in 1..Len(list) : cut[i] = cut[i - 1] + Size(list[i], lg)
    /\ own \in [1..Len(steps) -> 1..Len(list)]
    /\ \A p \in 1..Len(steps) :
          cut[own[p] - 1] < p /\ p <= cut[own[p]] /\ steps[p] = list[own[p]].of

Tiled(steps, list, lg) == \E cut, own : Tiles(steps, list, lg, cut, own)

LEMMA TiledEmpty == ASSUME NEW lg PROVE Tiled(<<>>, <<>>, lg)
<1> DEFINE cut == [i \in 0..0 |-> 0]
           own == [p \in 1..0 |-> 0]
<1>1. Tiles(<<>>, <<>>, lg, cut, own)
  BY DEF Tiles
<1> QED BY <1>1 DEF Tiled

\* One edit more, whole and at the end.
LEMMA TiledAppend ==
    ASSUME NEW lg, NEW steps \in Seq(Nat), NEW list \in Seq(Entries), NEW entry \in Entries,
           Tiled(steps, list, lg), NEW more \in Seq(Nat), Len(more) = Size(entry, lg),
           \A i \in 1..Len(more) : more[i] = entry.of
    PROVE  Tiled(steps \o more, Append(list, entry), lg)
<1>1. PICK cut, own : Tiles(steps, list, lg, cut, own)
  BY DEF Tiled
<1> DEFINE n == Len(list)
           m == Len(steps)
           k == Len(more)
           l == Append(list, entry)
           s == steps \o more
           cut2 == [i \in 0..(n + 1) |-> IF i <= n THEN cut[i] ELSE m + k]
           own2 == [p \in 1..(m + k) |-> IF p <= m THEN own[p] ELSE n + 1]
<1>2. n \in Nat /\ m \in Nat /\ k \in Nat
  OBVIOUS
<1>3. Len(l) = n + 1 /\ l[n + 1] = entry /\ \A i \in 1..n : l[i] = list[i]
  OBVIOUS
<1>4. Len(s) = m + k /\ (\A i \in 1..m : s[i] = steps[i]) /\ \A i \in (m + 1)..(m + k) : s[i] = entry.of
  <2>1. \A i \in (m + 1)..(m + k) : s[i] = more[i - m] /\ i - m \in 1..k
    BY JoinedIs
  <2> QED BY <2>1, JoinedIs
<1>5. /\ cut \in [0..n -> Nat] /\ cut[0] = 0 /\ cut[n] = m
      /\ \A i, j \in 0..n : i <= j => cut[i] <= cut[j]
      /\ \A i \in 1..n : cut[i] = cut[i - 1] + Size(list[i], lg)
      /\ own \in [1..m -> 1..n]
      /\ \A p \in 1..m : cut[own[p] - 1] < p /\ p <= cut[own[p]] /\ steps[p] = list[own[p]].of
  BY <1>1 DEF Tiles
<1> HIDE DEF n, m, k, l, s
<1>6. cut2 \in [0..(n + 1) -> Nat] /\ cut2[0] = 0 /\ cut2[n + 1] = m + k /\ \A i \in 0..n : cut2[i] = cut[i]
  BY <1>2, <1>5
<1>7. \A i, j \in 0..(n + 1) : i <= j => cut2[i] <= cut2[j]
  <2> SUFFICES ASSUME NEW i \in 0..(n + 1), NEW j \in 0..(n + 1), i <= j PROVE cut2[i] <= cut2[j]
    OBVIOUS
  <2>1. CASE j <= n
    <3>1. i \in 0..n /\ j \in 0..n
      BY <1>2, <2>1
    <3> QED BY <1>5, <1>6, <3>1
  <2>2. CASE j = n + 1 /\ i <= n
    <3>1. i \in 0..n /\ n \in 0..n
      BY <1>2, <2>2
    <3>2. cut[i] <= m /\ cut[i] \in Nat
      BY <1>2, <1>5, <3>1, <2>2
    <3> QED BY <1>2, <1>6, <2>2, <3>1, <3>2
  <2>3. CASE j = n + 1 /\ i = n + 1
    BY <1>2, <1>6, <2>3
  <2> QED BY <1>2, <2>1, <2>2, <2>3
<1>8. \A i \in 1..(n + 1) : cut2[i] = cut2[i - 1] + Size(l[i], lg)
  <2> TAKE i \in 1..(n + 1)
  <2>1. CASE i <= n
    <3>1. i \in 1..n /\ i \in 0..n /\ i - 1 \in 0..n
      BY <1>2, <2>1
    <3> QED BY <1>3, <1>5, <1>6, <3>1
  <2>2. CASE i = n + 1
    <3>1. i - 1 = n /\ n \in 0..n
      BY <1>2, <2>2
    <3> QED BY <1>2, <1>3, <1>5, <1>6, <2>2, <3>1 DEF k
  <2> QED BY <1>2, <2>1, <2>2
<1>9. own2 \in [1..(m + k) -> 1..(n + 1)]
  <2>1. \A p \in 1..(m + k) : own2[p] \in 1..(n + 1)
    <3> TAKE p \in 1..(m + k)
    <3>1. CASE p <= m
      <4>1. p \in 1..m
        BY <1>2, <3>1
      <4>2. own[p] \in 1..n
        BY <1>5, <4>1
      <4> QED BY <1>2, <3>1, <4>2
    <3>2. CASE p > m
      BY <1>2, <3>2
    <3> QED BY <1>2, <3>1, <3>2
  <2> QED BY <2>1
<1>10. \A p \in 1..(m + k) : cut2[own2[p] - 1] < p /\ p <= cut2[own2[p]] /\ s[p] = l[own2[p]].of
  <2> TAKE p \in 1..(m + k)
  <2>1. CASE p <= m
    <3>1. p \in 1..m /\ own2[p] = own[p]
      BY <1>2, <2>1
    <3>2. own[p] \in 1..n
      BY <1>5, <3>1
    <3>3. own[p] \in 0..n /\ own[p] - 1 \in 0..n
      BY <1>2, <3>2
    <3>4. cut2[own[p] - 1] = cut[own[p] - 1] /\ cut2[own[p]] = cut[own[p]]
      BY <1>6, <3>3
    <3>5. cut[own[p] - 1] < p /\ p <= cut[own[p]] /\ steps[p] = list[own[p]].of
      BY <1>5, <3>1
    <3>6. s[p] = steps[p] /\ l[own[p]] = list[own[p]]
      BY <1>3, <1>4, <3>1, <3>2
    <3> HIDE DEF own2, cut2
    <3> QED BY <3>1, <3>4, <3>5, <3>6
  <2>2. CASE p > m
    <3>1. own2[p] = n + 1 /\ p \in (m + 1)..(m + k)
      BY <1>2, <2>2
    <3> HIDE DEF own2, cut2
    <3>2. cut2[n] = m /\ own2[p] - 1 = n
      <4>1. n \in 0..n
        BY <1>2
      <4>2. own2[p] - 1 = n
        BY <1>2, <3>1
      <4> QED BY <1>5, <1>6, <4>1, <4>2
    <3> QED BY <1>2, <1>3, <1>4, <1>6, <2>2, <3>1, <3>2
  <2> QED BY <1>2, <2>1, <2>2
<1> HIDE DEF cut2, own2
<1>11. Tiles(s, l, lg, cut2, own2)
  BY <1>3, <1>4, <1>6, <1>7, <1>8, <1>9, <1>10 DEF Tiles
<1> QED BY <1>11 DEF Tiled, s, l

\* The last k steps are of one edit.
EndsWith(steps, k, edit) == \A i \in 1..k : steps[Len(steps) + 1 - i] = edit

\* One edit less, whole and from the end.
LEMMA TiledRest ==
    ASSUME NEW lg, NEW steps \in Seq(Nat), NEW list \in Seq(Entries), list # <<>>,
           Tiled(steps, list, lg), NEW k \in Nat, k = Size(Last(list), lg)
    PROVE  /\ k \in 0..Len(steps) /\ Tiled(Rest(steps, k), Front(list), lg)
           /\ EndsWith(steps, k, Last(list).of)
<1>1. PICK cut, own : Tiles(steps, list, lg, cut, own)
  BY DEF Tiled
<1> DEFINE n == Len(list) - 1
           m == Len(steps)
           l == Front(list)
           s == Rest(steps, k)
<1>2. n \in Nat /\ m \in Nat /\ k \in Nat /\ Len(list) = n + 1
  OBVIOUS
<1>3. Len(l) = n /\ \A i \in 1..n : l[i] = list[i]
  <2>1. Front(list) = Rest(list, 1) /\ 1 \in 0..Len(list)
    BY <1>2 DEF Front, Rest
  <2> QED BY <2>1, RestIs
<1>4. Last(list) = list[n + 1]
  BY DEF Last
<1>5. /\ cut \in [0..(n + 1) -> Nat] /\ cut[0] = 0 /\ cut[n + 1] = m
      /\ \A i, j \in 0..(n + 1) : i <= j => cut[i] <= cut[j]
      /\ \A i \in 1..(n + 1) : cut[i] = cut[i - 1] + Size(list[i], lg)
      /\ own \in [1..m -> 1..(n + 1)]
      /\ \A p \in 1..m : cut[own[p] - 1] < p /\ p <= cut[own[p]] /\ steps[p] = list[own[p]].of
  BY <1>1, <1>2 DEF Tiles
<1>6. cut[n] \in Nat /\ m = cut[n] + k
  <2>1. n + 1 \in 1..(n + 1) /\ (n + 1) - 1 = n /\ n \in 0..(n + 1)
    BY <1>2
  <2>2. cut[n] \in Nat /\ cut[n + 1] = cut[n] + Size(list[n + 1], lg)
    BY <1>5, <2>1
  <2> QED BY <1>4, <1>5, <2>2
<1>7. k \in 0..m /\ m - k = cut[n]
  BY <1>2, <1>6
<1>8. Len(s) = cut[n] /\ \A i \in 1..cut[n] : s[i] = steps[i]
  BY <1>7, RestIs
<1> HIDE DEF n, m, l, s
<1>9. \A p \in 1..m : p <= cut[n] <=> own[p] \in 1..n
  <2> TAKE p \in 1..m
  <2>1. own[p] \in 1..(n + 1) /\ cut[own[p] - 1] < p /\ p <= cut[own[p]]
    BY <1>5
  <2>2. CASE own[p] = n + 1
    <3>1. own[p] - 1 = n /\ own[p] \notin 1..n
      BY <1>2, <2>2
    <3>2. cut[n] < p
      BY <2>1, <3>1
    <3> QED BY <1>2, <1>6, <3>1, <3>2
  <2>3. CASE own[p] \in 1..n
    <3>1. own[p] \in 0..(n + 1) /\ n \in 0..(n + 1) /\ own[p] <= n
      BY <1>2, <2>3
    <3>2. cut[own[p]] <= cut[n] /\ cut[own[p]] \in Nat
      BY <1>5, <3>1
    <3> QED BY <1>2, <1>6, <2>1, <2>3, <3>2
  <2> QED BY <1>2, <2>1, <2>2, <2>3
<1>10. \A i \in 1..k : steps[m + 1 - i] = Last(list).of
  <2> TAKE i \in 1..k
  <2>1. m + 1 - i \in 1..m /\ ~(m + 1 - i <= cut[n])
    BY <1>2, <1>6
  <2>2. own[m + 1 - i] \notin 1..n /\ own[m + 1 - i] \in 1..(n + 1)
    BY <1>5, <1>9, <2>1
  <2>3. own[m + 1 - i] = n + 1
    BY <1>2, <2>2
  <2> QED BY <1>4, <1>5, <2>1, <2>3
<1> DEFINE cut2 == [i \in 0..n |-> cut[i]]
           own2 == [p \in 1..cut[n] |-> own[p]]
<1>11. /\ cut2 \in [0..n -> Nat] /\ cut2[0] = 0 /\ cut2[n] = cut[n]
       /\ \A i \in 0..n : cut2[i] = cut[i]
  BY <1>2, <1>5
<1>12. \A i, j \in 0..n : i <= j => cut2[i] <= cut2[j]
  BY <1>2, <1>5, <1>11
<1>13. \A i \in 1..n : cut2[i] = cut2[i - 1] + Size(l[i], lg)
  <2> TAKE i \in 1..n
  <2>1. i \in 1..(n + 1) /\ i \in 0..n /\ i - 1 \in 0..n
    BY <1>2
  <2> QED BY <1>3, <1>5, <1>11, <2>1
<1>14. own2 \in [1..cut[n] -> 1..n]
  <2>1. \A p \in 1..cut[n] : p \in 1..m /\ p <= cut[n]
    BY <1>2, <1>6
  <2> QED BY <1>9, <2>1
<1>15. \A p \in 1..cut[n] : cut2[own2[p] - 1] < p /\ p <= cut2[own2[p]] /\ s[p] = l[own2[p]].of
  <2> TAKE p \in 1..cut[n]
  <2>1. p \in 1..m /\ own2[p] = own[p] /\ own[p] \in 1..n
    BY <1>2, <1>6, <1>9
  <2>2. own[p] \in 0..n /\ own[p] - 1 \in 0..n
    BY <1>2, <2>1
  <2>3. cut2[own[p] - 1] = cut[own[p] - 1] /\ cut2[own[p]] = cut[own[p]]
    BY <1>11, <2>2
  <2>4. cut[own[p] - 1] < p /\ p <= cut[own[p]] /\ steps[p] = list[own[p]].of
    BY <1>5, <2>1
  <2>5. s[p] = steps[p] /\ l[own[p]] = list[own[p]]
    BY <1>3, <1>8, <2>1
  <2> HIDE DEF cut2, own2
  <2> QED BY <2>1, <2>3, <2>4, <2>5
<1> HIDE DEF cut2, own2
<1>16. Tiles(s, l, lg, cut2, own2)
  BY <1>3, <1>8, <1>11, <1>12, <1>13, <1>14, <1>15 DEF Tiles
<1> QED BY <1>7, <1>10, <1>16 DEF Tiled, EndsWith, s, l, m

\* A new edit in the log changes no size of an older one.
LEMMA TiledLog ==
    ASSUME NEW steps, NEW list \in Seq(Entries), NEW lg \in Seq(Nat), NEW k \in Nat,
           \A i \in 1..Len(list) : list[i].of <= Len(lg), Tiled(steps, list, lg)
    PROVE  Tiled(steps, list, Append(lg, k))
<1>1. \A i \in 1..Len(list) : Size(list[i], Append(lg, k)) = Size(list[i], lg)
  <2> TAKE i \in 1..Len(list)
  <2>1. list[i] \in Entries
    OBVIOUS
  <2>2. list[i].of \in Nat
    BY <2>1, HistoryAssumption DEF Entries
  <2> QED BY <2>2 DEF Size
<1>2. PICK cut, own : Tiles(steps, list, lg, cut, own)
  BY DEF Tiled
<1>3. Tiles(steps, list, Append(lg, k), cut, own)
  BY <1>1, <1>2 DEF Tiles
<1> QED BY <1>3 DEF Tiled

\* No two entries are of the same edit.
Distinct(list) == \A i, j \in DOMAIN list : list[i].of = list[j].of /\ list[i].of # 0 => i = j

\* Steps that are cut into the edits of a list are the steps of it.
LEMMA TiledMeans ==
    ASSUME NEW steps \in Seq(Nat), NEW list \in Seq(Entries), Tiled(steps, list, log), Distinct(list),
           \A i \in DOMAIN list : Size(list[i], log) \in Nat
    PROVE  AreStepsOf(steps, list)
<1> DEFINE n == Len(list)
           m == Len(steps)
<1>0. n \in Nat /\ m \in Nat /\ DOMAIN list = 1..n
  OBVIOUS
<1>1. PICK cut, own : Tiles(steps, list, log, cut, own)
  BY DEF Tiled
<1>2. /\ cut \in [0..n -> Nat] /\ cut[0] = 0 /\ cut[n] = m
      /\ \A i, j \in 0..n : i <= j => cut[i] <= cut[j]
      /\ \A i \in 1..n : cut[i] = cut[i - 1] + Size(list[i], log)
      /\ own \in [1..m -> 1..n]
      /\ \A p \in 1..m : cut[own[p] - 1] < p /\ p <= cut[own[p]] /\ steps[p] = list[own[p]].of
  BY <1>1 DEF Tiles
<1>8. \A i, j \in 1..n : list[i].of = list[j].of /\ list[i].of # 0 => i = j
  BY <1>0 DEF Distinct
<1>9. DOMAIN steps = 1..m /\ \A a, b \in 0..m : SubSeq(steps, a + 1, b) = [x \in 1..(IF a + 1 <= b THEN b - a ELSE 0) |-> steps[a + x]]
  OBVIOUS
<1> HIDE DEF n, m
<1>3. \A p \in 1..m, i \in 0..n : p <= cut[i] <=> own[p] <= i
  <2> TAKE p \in 1..m, i \in 0..n
  <2>0. own[p] \in 1..n /\ cut[own[p] - 1] < p /\ p <= cut[own[p]]
    BY <1>2
  <2>1. own[p] \in 0..n /\ own[p] - 1 \in 0..n
    BY <1>0, <2>0
  <2>2. cut[i] \in Nat /\ cut[own[p]] \in Nat /\ cut[own[p] - 1] \in Nat
    BY <1>2, <2>1
  <2>3. own[p] <= i => cut[own[p]] <= cut[i]
    BY <1>2, <2>1
  <2>4. i <= own[p] - 1 => cut[i] <= cut[own[p] - 1]
    BY <1>2, <2>1
  <2> QED BY <1>0, <2>0, <2>1, <2>2, <2>3, <2>4
<1>4. \A p \in 1..m : list[own[p]].of # 0
  <2> TAKE p \in 1..m
  <2>0. own[p] \in 1..n /\ cut[own[p] - 1] < p /\ p <= cut[own[p]]
    BY <1>2
  <2>1. own[p] \in 0..n /\ own[p] - 1 \in 0..n
    BY <1>0, <2>0
  <2>2. cut[own[p]] = cut[own[p] - 1] + Size(list[own[p]], log)
    BY <1>2, <2>0
  <2>3. cut[own[p]] \in Nat /\ cut[own[p] - 1] \in Nat
    BY <1>2, <2>1
  <2>4. Size(list[own[p]], log) # 0
    BY <2>0, <2>2, <2>3
  <2> QED BY <2>4 DEF Size
<1>5. \A i \in 0..n : cut[i] \in 0..m /\ StepsUpTo(steps, list, i) = cut[i]
  <2> TAKE i \in 0..n
  <2>1. cut[i] \in 0..m
    <3>1. n \in 0..n /\ i <= n
      BY <1>0
    <3> QED BY <1>0, <1>2, <3>1
  <2>2. {p \in 1..m : \E j \in 1..i : list[j].of = steps[p]} = 1..cut[i]
    <3>1. ASSUME NEW p \in 1..m, NEW j \in 1..i, list[j].of = steps[p] PROVE p <= cut[i]
      <4>1. list[j].of = list[own[p]].of /\ list[own[p]].of # 0 /\ own[p] \in 1..n /\ j \in 1..n
        BY <1>0, <1>2, <1>4, <3>1
      <4>2. own[p] <= i
        BY <1>8, <3>1, <4>1
      <4> QED BY <1>3, <4>2
    <3>2. ASSUME NEW p \in 1..m, p <= cut[i] PROVE \E j \in 1..i : list[j].of = steps[p]
      <4>1. own[p] \in 1..n /\ own[p] <= i /\ steps[p] = list[own[p]].of
        BY <1>2, <1>3, <3>2
      <4>2. own[p] \in 1..i
        BY <1>0, <4>1
      <4> QED BY <4>1, <4>2
    <3>3. 1..cut[i] = {p \in 1..m : p <= cut[i]}
      BY <1>0, <2>1
    <3>4. {p \in 1..m : \E j \in 1..i : list[j].of = steps[p]} = {p \in 1..m : p <= cut[i]}
      BY <3>1, <3>2
    <3> QED BY <3>3, <3>4
  <2>3. Cardinality(1..cut[i]) = cut[i]
    BY <2>1, FS_Interval
  <2> QED BY <1>9, <2>1, <2>2, <2>3 DEF StepsUpTo
<1>6. StepsUpTo(steps, list, n) = m
  <2>1. n \in 0..n
    BY <1>0
  <2> QED BY <1>2, <1>5, <2>1
<1>7. ASSUME NEW i \in 1..n
      PROVE  SubSeq(steps, StepsUpTo(steps, list, i - 1) + 1, StepsUpTo(steps, list, i)) = StepsOf(list[i])
  <2> DEFINE a == cut[i - 1]
             b == cut[i]
             k == Size(list[i], log)
  <2>1. i \in 0..n /\ i - 1 \in 0..n
    BY <1>0, <1>7
  <2>2. a \in 0..m /\ b \in 0..m /\ StepsUpTo(steps, list, i - 1) = a /\ StepsUpTo(steps, list, i) = b
    BY <1>5, <2>1
  <2>3. b = a + k /\ k \in Nat
    BY <1>0, <1>2, <1>7
  <2>4. \A x \in 1..k : steps[a + x] = list[i].of
    <3> TAKE x \in 1..k
    <3>1. a + x \in 1..m /\ a + x <= b /\ ~(a + x <= a)
      BY <1>0, <2>2, <2>3
    <3>2. own[a + x] <= i /\ ~(own[a + x] <= i - 1) /\ own[a + x] \in 1..n
      BY <1>2, <1>3, <2>1, <3>1
    <3>3. own[a + x] = i
      BY <1>0, <1>7, <3>2
    <3> QED BY <1>2, <3>1, <3>3
  <2> HIDE DEF a, b, k
  <2>5. (IF a + 1 <= b THEN b - a ELSE 0) = k
    BY <1>0, <2>2, <2>3
  <2>6. SubSeq(steps, a + 1, b) = [x \in 1..k |-> steps[a + x]]
    BY <1>9, <2>2, <2>5
  <2>7. SubSeq(steps, a + 1, b) = [x \in 1..k |-> list[i].of]
    BY <2>4, <2>6
  <2> QED BY <2>2, <2>7 DEF StepsOf, Size, k
<1> QED BY <1>0, <1>6, <1>7 DEF AreStepsOf, n, m

-----------------------------------------------------------------------------
(* Types. *)

Runtimes == [debt : BOOLEAN, cleared : BOOLEAN, verified : {None} \cup [state : Contents, current : BOOLEAN]]
Books    == [undo : Seq(Entries), redo : Seq(Entries),
             pending : 0..MaxNative \cup {None}, marker : BOOLEAN, dirty : BOOLEAN]
Requests == [op : {"none"}] \cup [op : {"undo", "redo"}, count : 0..MaxNative, top : Entries]

ListTypes == HistoryTypeOK /\ rt \in Runtimes /\ req \in [Clients -> Requests]

\* The runtime's operators stay among the runtimes.
LEMMA RuntimesAre ==
    ASSUME NEW r \in Runtimes, NEW content \in Contents, NEW w \in BOOLEAN
    PROVE  /\ Marked(r) \in Runtimes /\ Recorded(r, content, w) \in Runtimes /\ Saved(r) \in Runtimes
           /\ [r EXCEPT !.verified = Stale(@)] \in Runtimes
           /\ \A b \in BOOLEAN : [r EXCEPT !.debt = b] \in Runtimes
<1>1. r.debt \in BOOLEAN /\ r.cleared \in BOOLEAN /\ r.verified \in {None} \cup [state : Contents, current : BOOLEAN]
  BY DEF Runtimes
<1>2. Stale(r.verified) \in {None} \cup [state : Contents, current : BOOLEAN]
  BY <1>1 DEF Stale
<1>3. [r EXCEPT !.verified = Stale(@)] \in Runtimes /\ Marked(r) \in Runtimes
  BY <1>2 DEF Runtimes, Marked
<1>4. (r.cleared \/ (w /\ CopyClears)) \in BOOLEAN
  BY Zenon
<1>5. [state |-> content, current |-> TRUE] \in [state : Contents, current : BOOLEAN]
  OBVIOUS
<1>6. Recorded(r, content, w) \in Runtimes
  BY <1>4, <1>5 DEF Runtimes, Recorded
<1>7. Saved(r) \in Runtimes /\ \A b \in BOOLEAN : [r EXCEPT !.debt = b] \in Runtimes
  BY DEF Runtimes, Saved
<1> QED BY <1>3, <1>6, <1>7

LEMMA AdmittedType == ASSUME ListTypes PROVE Admitted \in Runtimes
<1>1. (rt.debt \/ book.dirty) \in BOOLEAN
  BY Zenon
<1> QED BY <1>1 DEF Admitted, ListTypes, Runtimes

\* An edit of n native steps.
LEMMA EditsType ==
    ASSUME ListTypes, NEW kind, NEW n \in 0..MaxNative, Edits(kind, n)
    PROVE  /\ doc' \in Contents /\ ahead' \in Contents /\ log' \in Seq(0..MaxNative)
           /\ Len(log') <= MaxEdits /\ measured' \in BOOLEAN
           /\ Edit \in 1..MaxEdits /\ Len(log') = Edit
           /\ Native(n) \in Contents /\ Len(Native(n)) = n /\ \A i \in 1..n : Native(n)[i] = Edit
<1>1. /\ doc \in Contents /\ ahead \in Contents /\ log \in Seq(0..MaxNative) /\ MaxEdits \in Nat
      /\ Len(log) < MaxEdits /\ n \in Nat
  BY HistoryAssumption DEF ListTypes, HistoryTypeOK, Edits
<1>2. Edit \in 1..MaxEdits
  BY <1>1 DEF Edit
<1>3. Native(n) \in Contents /\ Len(Native(n)) = n /\ \A i \in 1..n : Native(n)[i] = Edit
  BY <1>1, <1>2 DEF Native, Contents
<1>4. doc' = doc \o Native(n) /\ log' = Append(log, n) /\ (ahead' = ahead \/ ahead' = <<>>)
  BY DEF Edits
<1>5. doc' \in Contents
  BY <1>1, <1>3, <1>4, JoinedIs DEF Contents
<1>6. ahead' \in Contents
  <2>1. <<>> \in Contents
    BY DEF Contents
  <2> QED BY <1>1, <1>4, <2>1
<1>7. log' \in Seq(0..MaxNative) /\ Len(log') = Len(log) + 1
  BY <1>1, <1>4
<1>8. Len(log') <= MaxEdits /\ Len(log') = Edit
  BY <1>1, <1>7 DEF Edit
<1>9. measured' \in BOOLEAN
  <2>1. (measured /\ kind \in MeasuredKinds) \in BOOLEAN
    BY Zenon
  <2> QED BY <2>1 DEF Edits
<1> QED BY <1>2, <1>3, <1>5, <1>6, <1>7, <1>8, <1>9

\* _track_history_edit puts an entry of the new edit on the undo list.
LEMMA TrackIs ==
    ASSUME ListTypes, NEW b \in Books, NEW count \in Counts, NEW states \in Recordings, Edit \in 1..MaxEdits
    PROVE  /\ Track(b, count, states) \in Books
           /\ Track(b, count, states).undo = Append(b.undo, [count |-> count, of |-> Edit, states |-> states])
           /\ Track(b, count, states).redo = <<>>
           /\ Track(b, count, states).pending = b.pending
           /\ Track(b, count, states).marker = b.marker /\ Track(b, count, states).dirty = b.dirty
           /\ [count |-> count, of |-> Edit, states |-> states] \in Entries
<1>1. [count |-> count, of |-> Edit, states |-> states] \in Entries
  BY DEF Entries
<1>2. b.undo \in Seq(Entries)
  BY DEF Books
<1>3. Append(b.undo, [count |-> count, of |-> Edit, states |-> states]) \in Seq(Entries)
  BY <1>1, <1>2
<1> DEFINE u == Append(b.undo, [count |-> count, of |-> Edit, states |-> states])
<1>4. Track(b, count, states) = [b EXCEPT !.undo = u, !.redo = <<>>]
  BY DEF Track
<1>5. u \in Seq(Entries) /\ <<>> \in Seq(Entries)
  BY <1>3
<1> HIDE DEF u
<1>6. /\ [b EXCEPT !.undo = u, !.redo = <<>>] \in Books
      /\ [b EXCEPT !.undo = u, !.redo = <<>>].undo = u /\ [b EXCEPT !.undo = u, !.redo = <<>>].redo = <<>>
      /\ [b EXCEPT !.undo = u, !.redo = <<>>].pending = b.pending
      /\ [b EXCEPT !.undo = u, !.redo = <<>>].marker = b.marker
      /\ [b EXCEPT !.undo = u, !.redo = <<>>].dirty = b.dirty
  BY <1>5 DEF Books
<1> QED BY <1>1, <1>4, <1>6 DEF u

\* What an edit does to the lists.
Tracked(kind, n) ==
    \E entry \in Entries :
        /\ entry.of = Edit /\ book'.undo = Append(book.undo, entry) /\ book'.redo = <<>>
        /\ book' \in Books /\ req' = req
        /\ kind \in MeasuredKinds =>
              /\ entry.count \in Int => entry.count = n
              /\ entry.count = Direct => n = 1 /\ (book'.pending # None => book'.pending = 1)
              /\ n = 0 => entry.count = None

LEMMA BookIs == ASSUME ListTypes PROVE book \in Books
BY DEF ListTypes, HistoryTypeOK, Books

LEMMA RecordingsAre ==
    ASSUME doc \in Contents, doc' \in Contents, NEW kind \in {"document", "package"}
    PROVE  States(kind) \in Recordings /\ None \in Recordings
BY DEF States, Recordings

\* The edits that are tracked.
LEMMA DirectIs ==
    ASSUME ListTypes, NEW kind \in {"typed", "single", "section", "quiet", "media"}, NEW n \in 0..MaxNative,
           NEW reports \in BOOLEAN, DirectEdit(kind, n, reports)
    PROVE  Tracked(kind, n) /\ flag' \in BOOLEAN /\ rt' \in Runtimes
<1> DEFINE entry == [count |-> Direct, of |-> Edit, states |-> None]
           t == Track(book, Direct, None)
<1>1. Edit \in 1..MaxEdits
  BY EditsType DEF DirectEdit
<1>2. Direct \in Counts /\ None \in Recordings
  BY DEF Counts, Recordings
<1>3. t \in Books /\ t.undo = Append(book.undo, entry) /\ t.redo = <<>> /\ entry \in Entries
  BY <1>1, <1>2, BookIs, TrackIs
<1> HIDE DEF t
<1>4. /\ book' = [t EXCEPT !.pending = PendingAfter(kind, n), !.marker = @ \/ kind = "media", !.dirty = @ \/ reports]
      /\ req' = req /\ rt' = Marked(Admitted) /\ flag' = (flag \/ n > 0) /\ n \in DirectSizes(kind)
  BY DEF DirectEdit, t
<1>5. PendingAfter(kind, n) \in 0..MaxNative \cup {None}
  BY BookIs, HistoryAssumption DEF PendingAfter, Books
<1>6. (t.marker \/ kind = "media") \in BOOLEAN /\ (t.dirty \/ reports) \in BOOLEAN /\ (flag \/ n > 0) \in BOOLEAN
  BY Zenon
<1>7. book' \in Books /\ book'.undo = t.undo /\ book'.redo = t.redo /\ book'.pending = PendingAfter(kind, n)
  BY <1>3, <1>4, <1>5, <1>6 DEF Books
<1>8. kind \in MeasuredKinds => n = 1 /\ (PendingAfter(kind, n) # None => PendingAfter(kind, n) = 1)
  BY <1>4 DEF MeasuredKinds, PendingAfter, DirectSizes
<1>9. Direct \notin Int /\ entry.count = Direct /\ entry.of = Edit
  BY HistoryAssumption
<1>10. Tracked(kind, n)
  BY <1>3, <1>4, <1>7, <1>8, <1>9 DEF Tracked
<1>11. flag' \in BOOLEAN /\ rt' \in Runtimes
  BY <1>4, <1>6, AdmittedType, RuntimesAre DEF ListTypes, HistoryTypeOK
<1> QED BY <1>10, <1>11

\* A bundle whose count is known, whose states may be recorded.
LEMMA CountedIs ==
    ASSUME ListTypes, NEW kind, NEW n \in 0..MaxNative, Edits(kind, n), NEW k \in 0..MaxNative,
           NEW states \in Recordings, book' = [Counted(book, k, states) EXCEPT !.dirty = TRUE], req' = req,
           kind \in MeasuredKinds => k = n /\ n > 0
    PROVE  Tracked(kind, n)
<1> DEFINE b == [book EXCEPT !.pending = k]
           entry == [count |-> k, of |-> Edit, states |-> states]
           t == Track(b, k, states)
<1>1. Edit \in 1..MaxEdits
  BY EditsType
<1>2. k \in Counts /\ k \in Int /\ k # Direct /\ n \in Nat
  BY HistoryAssumption DEF Counts
<1>3. b \in Books /\ b.undo = book.undo /\ b.pending = k
  BY BookIs DEF Books
<1> HIDE DEF b
<1>4. t \in Books /\ t.undo = Append(book.undo, entry) /\ t.redo = <<>> /\ entry \in Entries
  BY <1>1, <1>2, <1>3, TrackIs
<1> HIDE DEF t
<1>5. book' = [t EXCEPT !.dirty = TRUE]
  BY DEF Counted, b, t
<1>6. book' \in Books /\ book'.undo = t.undo /\ book'.redo = t.redo
  BY <1>4, <1>5 DEF Books
<1>7. entry.count = k /\ entry.of = Edit
  OBVIOUS
<1> HIDE DEF entry
<1> QED BY <1>2, <1>4, <1>6, <1>7 DEF Tracked

\* A bundle with an edit that cannot be counted.
LEMMA UncountedIs ==
    ASSUME ListTypes, NEW n \in 0..MaxNative, BundleUncounted(n)
    PROVE  Tracked("uncounted", n)
<1> DEFINE b == [book EXCEPT !.pending = None, !.marker = TRUE]
           entry == [count |-> None, of |-> Edit, states |-> None]
           t == Track(b, None, None)
<1>1. Edit \in 1..MaxEdits /\ req' = req /\ book' = [Uncounted(book) EXCEPT !.dirty = TRUE]
  BY EditsType DEF BundleUncounted
<1>2. None \in Counts /\ None \in Recordings /\ None \notin Int /\ None # Direct
  BY HistoryAssumption DEF Counts, Recordings
<1>3. b \in Books /\ b.undo = book.undo
  BY BookIs DEF Books
<1> HIDE DEF b
<1>4. t \in Books /\ t.undo = Append(book.undo, entry) /\ t.redo = <<>> /\ entry \in Entries
  BY <1>1, <1>2, <1>3, TrackIs
<1> HIDE DEF t
<1>5. book' = [t EXCEPT !.dirty = TRUE]
  BY <1>1 DEF Uncounted, b, t
<1>6. book' \in Books /\ book'.undo = t.undo /\ book'.redo = t.redo
  BY <1>4, <1>5 DEF Books
<1>7. entry.count = None /\ entry.of = Edit
  OBVIOUS
<1> HIDE DEF entry
<1> QED BY <1>1, <1>2, <1>4, <1>6, <1>7 DEF Tracked

\* A stop entry: nothing before it may be undone.
IsStop(entry) == entry \in Entries /\ entry.of = 0 /\ entry.count = None

\* What an undo, and a redo, does to the two histories.
TakesBack(c) ==
    /\ req[c].count \in 0..Len(doc) /\ book.undo # <<>>
    /\ doc' = Rest(doc, req[c].count) /\ ahead' = ahead \o Moved(doc, req[c].count)
    /\ book'.pending = None
    /\ \/ book'.undo = Front(book.undo) /\ book'.redo = Append(book.redo, Last(book.undo))
       \/ \E stop : IsStop(stop) /\ book'.undo = Append(Front(book.undo), stop) /\ book'.redo = <<>>
    /\ measured' = (measured /\ Last(book.undo) = req[c].top)

DoesAgain(c) ==
    /\ req[c].count \in 0..Len(ahead) /\ book.redo # <<>>
    /\ ahead' = Rest(ahead, req[c].count) /\ doc' = doc \o Moved(ahead, req[c].count)
    /\ book'.pending = book.pending
    /\ \/ book'.undo = Append(book.undo, Last(book.redo)) /\ book'.redo = Front(book.redo)
       \/ \E stop :
             /\ IsStop(stop) /\ book'.redo = <<>>
             /\ book'.undo = Append(Append(book.undo, Last(book.redo)), stop)
    /\ measured' = (measured /\ Last(book.redo) = req[c].top)

LEMMA EndsOf ==
    ASSUME NEW list \in Seq(Entries), list # <<>>
    PROVE  Front(list) \in Seq(Entries) /\ Last(list) \in Entries
<1>1. Front(list) = Rest(list, 1) /\ 1 \in 0..Len(list)
  BY DEF Front, Rest
<1> QED BY <1>1, RestIs DEF Last

\* _stop_history
LEMMA StopIs ==
    ASSUME NEW b \in Books
    PROVE  /\ StopHistory(b) \in Books /\ StopHistory(b).redo = <<>> /\ StopHistory(b).pending = b.pending
           /\ \E stop : IsStop(stop) /\ StopHistory(b).undo = Append(b.undo, stop)
<1> DEFINE stop == [count |-> None, of |-> 0, states |-> None]
           u == Append(b.undo, stop)
<1>1. stop \in Entries /\ stop.of = 0 /\ stop.count = None
  BY HistoryAssumption DEF Entries, Counts, Recordings
<1>2. StopHistory(b) = [b EXCEPT !.undo = u, !.redo = <<>>]
  BY DEF StopHistory
<1> HIDE DEF stop
<1>3. b.undo \in Seq(Entries)
  BY DEF Books
<1>4. u \in Seq(Entries) /\ <<>> \in Seq(Entries)
  BY <1>1, <1>3
<1>5. IsStop(stop) /\ u = Append(b.undo, stop)
  BY <1>1 DEF IsStop
<1> HIDE DEF u
<1>6. /\ [b EXCEPT !.undo = u, !.redo = <<>>] \in Books
      /\ [b EXCEPT !.undo = u, !.redo = <<>>].undo = u /\ [b EXCEPT !.undo = u, !.redo = <<>>].redo = <<>>
      /\ [b EXCEPT !.undo = u, !.redo = <<>>].pending = b.pending
  BY <1>4 DEF Books
<1> QED BY <1>2, <1>5, <1>6

\* An end of one history moves to the other.
LEMMA HalvesAre ==
    ASSUME NEW s \in Contents, NEW t \in Contents, NEW k \in Nat, k <= Len(s)
    PROVE  /\ k \in 0..Len(s) /\ Rest(s, k) \in Contents /\ t \o Moved(s, k) \in Contents
           /\ SubSeq(s, 1, Len(s) - k) = Rest(s, k)
           /\ t \o Reverse(SubSeq(s, Len(s) - k + 1, Len(s))) = t \o Moved(s, k)
<1> DEFINE S == 1..MaxEdits
<1>1. s \in Seq(S) /\ t \in Seq(S) /\ k \in 0..Len(s)
  BY DEF Contents
<1> HIDE DEF S
<1>2. Rest(s, k) \in Seq(S) /\ Moved(s, k) \in Seq(S)
  BY <1>1, RestIs, MovedIs
<1>3. t \o Moved(s, k) \in Seq(S)
  BY <1>1, <1>2, JoinedIs
<1> QED BY <1>1, <1>2, <1>3 DEF Rest, Moved, Contents, S

\* The runtime after a history command.
LEMMA AfterType ==
    ASSUME ListTypes, NEW c, NEW content \in Contents, NEW modified \in BOOLEAN
    PROVE  AfterHistory(c, content, modified) \in Runtimes
<1> DEFINE settled == Settles(Admitted, modified /\ ~(Package(c) /\ CopyClears), Package(c))
           m == IF settled THEN [Admitted EXCEPT !.verified = Stale(@)] ELSE Marked(Admitted)
<1>1. m \in Runtimes
  BY AdmittedType, RuntimesAre
<1>2. AfterHistory(c, content, modified) = IF Package(c) THEN Recorded(m, content, modified) ELSE m
  BY DEF AfterHistory
<1> HIDE DEF m
<1> QED BY <1>1, <1>2, RuntimesAre

LEMMA RequestIs ==
    ASSUME ListTypes, NEW c \in Clients, req[c].op # "none"
    PROVE  /\ req[c].op \in {"undo", "redo"} /\ req[c].count \in 0..MaxNative /\ req[c].top \in Entries
           /\ req[c].count \in Nat /\ [req EXCEPT ![c] = Idle] \in [Clients -> Requests]
<1>1. req \in [Clients -> Requests]
  BY DEF ListTypes
<1>2. Idle \in Requests
  BY DEF Idle, Requests
<1>3. req[c] \in Requests
  BY <1>1
<1>4. req[c].op \in {"undo", "redo"} /\ req[c].count \in 0..MaxNative /\ req[c].top \in Entries
  BY <1>3 DEF Requests
<1>5. req[c].count \in Nat
  BY <1>4, HistoryAssumption
<1> QED BY <1>1, <1>2, <1>4, <1>5

LEMMA UndoIs ==
    ASSUME ListTypes, NEW c \in Clients, NEW match, UndoRuns(c, match)
    PROVE  /\ TakesBack(c) /\ book' \in Books /\ doc' \in Contents /\ ahead' \in Contents
           /\ flag' \in BOOLEAN /\ rt' \in Runtimes /\ measured' \in BOOLEAN /\ req' \in [Clients -> Requests]
<1>1. /\ session = "open" /\ req[c].op = "undo" /\ book.undo # <<>> /\ req[c].count <= Len(doc)
      /\ doc' = SubSeq(doc, 1, Len(doc) - req[c].count)
      /\ ahead' = ahead \o Reverse(SubSeq(doc, Len(doc) - req[c].count + 1, Len(doc)))
      /\ book' = IF match = "differs" THEN StopHistory(Undone(book)) ELSE Undone(book)
      /\ measured' = (measured /\ Last(book.undo) = req[c].top)
      /\ req' = [req EXCEPT ![c] = Idle]
  BY DEF UndoRuns
<1>2. PICK modified \in FlagAfter(doc') :
         flag' = (modified /\ ~(Package(c) /\ CopyClears)) /\ rt' = AfterHistory(c, doc', modified)
  BY DEF UndoRuns
<1>3. doc \in Contents /\ ahead \in Contents /\ req[c].count \in Nat /\ req' \in [Clients -> Requests]
  BY <1>1, RequestIs DEF ListTypes, HistoryTypeOK
<1>4. /\ req[c].count \in 0..Len(doc) /\ doc' = Rest(doc, req[c].count) /\ doc' \in Contents
      /\ ahead' = ahead \o Moved(doc, req[c].count) /\ ahead' \in Contents
  <2> DEFINE k == req[c].count
  <2>1. k \in Nat /\ k <= Len(doc)
    BY <1>1, <1>3
  <2>2. doc' = SubSeq(doc, 1, Len(doc) - k) /\ ahead' = ahead \o Reverse(SubSeq(doc, Len(doc) - k + 1, Len(doc)))
    BY <1>1
  <2> HIDE DEF k
  <2>3. /\ k \in 0..Len(doc) /\ Rest(doc, k) \in Contents /\ ahead \o Moved(doc, k) \in Contents
        /\ SubSeq(doc, 1, Len(doc) - k) = Rest(doc, k)
        /\ ahead \o Reverse(SubSeq(doc, Len(doc) - k + 1, Len(doc))) = ahead \o Moved(doc, k)
    BY <1>3, <2>1, HalvesAre
  <2> QED BY <2>2, <2>3 DEF k
<1>5. modified \in BOOLEAN /\ flag' \in BOOLEAN /\ measured' \in BOOLEAN
  <2>1. FlagAfter(doc') \subseteq BOOLEAN
    BY DEF FlagAfter
  <2>2. (modified /\ ~(Package(c) /\ CopyClears)) \in BOOLEAN /\ (measured /\ Last(book.undo) = req[c].top) \in BOOLEAN
    BY Zenon
  <2> QED BY <1>1, <1>2, <2>1, <2>2
<1>6. rt' \in Runtimes
  BY <1>2, <1>4, <1>5, AfterType
<1> DEFINE u == Front(book.undo)
           r == Append(book.redo, Last(book.undo))
           b == Undone(book)
<1>7. book.undo \in Seq(Entries) /\ book.redo \in Seq(Entries) /\ book \in Books
  BY BookIs DEF Books
<1>8. u \in Seq(Entries) /\ Last(book.undo) \in Entries
  BY <1>1, <1>7, EndsOf
<1>9. r \in Seq(Entries)
  BY <1>7, <1>8
<1>10. b = [book EXCEPT !.redo = r, !.undo = u, !.pending = None, !.dirty = TRUE]
  BY DEF Undone
<1> HIDE DEF b
<1>11. b \in Books /\ b.undo = u /\ b.redo = r /\ b.pending = None
  <2> HIDE DEF u, r
  <2> QED BY <1>7, <1>8, <1>9, <1>10 DEF Books
<1>12. CASE match = "differs"
  <2>1. book' = StopHistory(b)
    BY <1>1, <1>12 DEF b
  <2> QED BY <1>1, <1>3, <1>4, <1>5, <1>6, <1>11, <2>1, StopIs DEF TakesBack
<1>13. CASE match # "differs"
  <2>1. book' = b
    BY <1>1, <1>13 DEF b
  <2> QED BY <1>1, <1>3, <1>4, <1>5, <1>6, <1>11, <2>1 DEF TakesBack
<1> QED BY <1>12, <1>13

LEMMA RedoIs ==
    ASSUME ListTypes, NEW c \in Clients, NEW match, RedoRuns(c, match)
    PROVE  /\ DoesAgain(c) /\ book' \in Books /\ doc' \in Contents /\ ahead' \in Contents
           /\ flag' \in BOOLEAN /\ rt' \in Runtimes /\ measured' \in BOOLEAN /\ req' \in [Clients -> Requests]
<1>1. /\ session = "open" /\ req[c].op = "redo" /\ book.redo # <<>> /\ req[c].count <= Len(ahead)
      /\ ahead' = SubSeq(ahead, 1, Len(ahead) - req[c].count)
      /\ doc' = doc \o Reverse(SubSeq(ahead, Len(ahead) - req[c].count + 1, Len(ahead)))
      /\ book' = IF match = "differs" THEN StopHistory(Redone(book)) ELSE Redone(book)
      /\ measured' = (measured /\ Last(book.redo) = req[c].top)
      /\ req' = [req EXCEPT ![c] = Idle]
  BY DEF RedoRuns
<1>2. PICK modified \in FlagAfter(doc') :
         flag' = (modified /\ ~(Package(c) /\ CopyClears)) /\ rt' = AfterHistory(c, doc', modified)
  BY DEF RedoRuns
<1>3. doc \in Contents /\ ahead \in Contents /\ req[c].count \in Nat /\ req' \in [Clients -> Requests]
  BY <1>1, RequestIs DEF ListTypes, HistoryTypeOK
<1>4. /\ req[c].count \in 0..Len(ahead) /\ ahead' = Rest(ahead, req[c].count) /\ ahead' \in Contents
      /\ doc' = doc \o Moved(ahead, req[c].count) /\ doc' \in Contents
  <2> DEFINE k == req[c].count
  <2>1. k \in Nat /\ k <= Len(ahead)
    BY <1>1, <1>3
  <2>2. ahead' = SubSeq(ahead, 1, Len(ahead) - k) /\ doc' = doc \o Reverse(SubSeq(ahead, Len(ahead) - k + 1, Len(ahead)))
    BY <1>1
  <2> HIDE DEF k
  <2>3. /\ k \in 0..Len(ahead) /\ Rest(ahead, k) \in Contents /\ doc \o Moved(ahead, k) \in Contents
        /\ SubSeq(ahead, 1, Len(ahead) - k) = Rest(ahead, k)
        /\ doc \o Reverse(SubSeq(ahead, Len(ahead) - k + 1, Len(ahead))) = doc \o Moved(ahead, k)
    BY <1>3, <2>1, HalvesAre
  <2> QED BY <2>2, <2>3 DEF k
<1>5. modified \in BOOLEAN /\ flag' \in BOOLEAN /\ measured' \in BOOLEAN
  <2>1. FlagAfter(doc') \subseteq BOOLEAN
    BY DEF FlagAfter
  <2>2. (modified /\ ~(Package(c) /\ CopyClears)) \in BOOLEAN /\ (measured /\ Last(book.redo) = req[c].top) \in BOOLEAN
    BY Zenon
  <2> QED BY <1>1, <1>2, <2>1, <2>2
<1>6. rt' \in Runtimes
  BY <1>2, <1>4, <1>5, AfterType
<1> DEFINE r == Front(book.redo)
           u == Append(book.undo, Last(book.redo))
           b == Redone(book)
<1>7. book.undo \in Seq(Entries) /\ book.redo \in Seq(Entries) /\ book \in Books
  BY BookIs DEF Books
<1>8. r \in Seq(Entries) /\ Last(book.redo) \in Entries
  BY <1>1, <1>7, EndsOf
<1>9. u \in Seq(Entries)
  BY <1>7, <1>8
<1>10. b = [book EXCEPT !.undo = u, !.redo = r, !.dirty = TRUE]
  BY DEF Redone
<1> HIDE DEF b
<1>11. b \in Books /\ b.undo = u /\ b.redo = r /\ b.pending = book.pending
  <2> HIDE DEF u, r
  <2> QED BY <1>7, <1>8, <1>9, <1>10 DEF Books
<1>12. CASE match = "differs"
  <2>1. book' = StopHistory(b)
    BY <1>1, <1>12 DEF b
  <2> QED BY <1>1, <1>3, <1>4, <1>5, <1>6, <1>11, <2>1, StopIs DEF DoesAgain
<1>13. CASE match # "differs"
  <2>1. book' = b
    BY <1>1, <1>13 DEF b
  <2> QED BY <1>1, <1>3, <1>4, <1>5, <1>6, <1>11, <2>1 DEF DoesAgain
<1> QED BY <1>12, <1>13

-----------------------------------------------------------------------------
(* The lists. *)

\* The edits a list names.
EditsOf(list) == {list[i].of : i \in DOMAIN list} \ {0}

\* What an entry counts is what its edit took; Direct stands for one step.
Exact(entry, lg) ==
    /\ entry.count \in Int => entry.of # 0 /\ entry.count = lg[entry.of]
    /\ entry.count = Direct => entry.of # 0 /\ lg[entry.of] = 1

AllExact(list, lg) == \A i \in DOMAIN list : Exact(list[i], lg)
Countable(list)    == \A i \in DOMAIN list : list[i].count # None

LEMMA AppendNames ==
    ASSUME NEW list \in Seq(Entries), NEW entry \in Entries
    PROVE  /\ Append(list, entry) \in Seq(Entries)
           /\ EditsOf(Append(list, entry)) = EditsOf(list) \cup ({entry.of} \ {0})
           /\ Distinct(list) /\ entry.of \notin EditsOf(list) => Distinct(Append(list, entry))
           /\ Countable(list) /\ entry.count # None => Countable(Append(list, entry))
           /\ Append(list, entry) # <<>> /\ Last(Append(list, entry)) = entry
<1> DEFINE n == Len(list)
           l == Append(list, entry)
<1>1. /\ n \in Nat /\ DOMAIN list = 1..n /\ DOMAIN l = 1..(n + 1) /\ l \in Seq(Entries) /\ Len(l) = n + 1
      /\ l[n + 1] = entry /\ \A i \in 1..n : l[i] = list[i]
  OBVIOUS
<1>2. l # <<>> /\ Last(l) = entry
  BY <1>1 DEF Last
<1> HIDE DEF n, l
<1>3. 1..(n + 1) = (1..n) \cup {n + 1}
  BY <1>1
<1>4. EditsOf(l) = EditsOf(list) \cup ({entry.of} \ {0})
  <2>1. {l[i].of : i \in 1..(n + 1)} = {list[i].of : i \in 1..n} \cup {entry.of}
    BY <1>1, <1>3
  <2> QED BY <1>1, <2>1 DEF EditsOf
<1>5. Distinct(list) /\ entry.of \notin EditsOf(list) => Distinct(l)
  <2> SUFFICES ASSUME Distinct(list), entry.of \notin EditsOf(list),
                      NEW i \in 1..(n + 1), NEW j \in 1..(n + 1), l[i].of = l[j].of, l[i].of # 0
               PROVE  i = j
    BY <1>1 DEF Distinct
  <2>1. \A k \in 1..n : list[k].of # 0 => list[k].of # entry.of
    BY <1>1 DEF EditsOf
  <2>2. CASE i \in 1..n /\ j \in 1..n
    BY <1>1, <2>2 DEF Distinct
  <2>3. CASE i = n + 1 \/ j = n + 1
    BY <1>1, <1>3, <2>1, <2>3
  <2> QED BY <1>3, <2>2, <2>3
<1>6. Countable(list) /\ entry.count # None => Countable(l)
  BY <1>1, <1>3 DEF Countable
<1> QED BY <1>1, <1>2, <1>4, <1>5, <1>6 DEF l

LEMMA FrontNames ==
    ASSUME NEW list \in Seq(Entries), list # <<>>
    PROVE  /\ Front(list) \in Seq(Entries) /\ Last(list) \in Entries
           /\ EditsOf(list) = EditsOf(Front(list)) \cup ({Last(list).of} \ {0})
           /\ Distinct(list) => Distinct(Front(list)) /\ Last(list).of \notin EditsOf(Front(list))
           /\ Countable(list) => Countable(Front(list)) /\ Last(list).count # None
<1> DEFINE n == Len(list) - 1
           l == Front(list)
           e == Last(list)
<1>1. Front(list) = Rest(list, 1) /\ 1 \in 0..Len(list)
  BY DEF Front, Rest
<1>2. /\ n \in Nat /\ DOMAIN list = 1..(n + 1) /\ l \in Seq(Entries) /\ Len(l) = n
      /\ list[n + 1] = e /\ \A i \in 1..n : l[i] = list[i]
  BY <1>1, RestIs DEF Last
<1>3. e \in Entries
  BY EndsOf
<1>4. DOMAIN l = 1..n
  BY <1>2
<1> HIDE DEF n, l, e
<1>5. 1..(n + 1) = (1..n) \cup {n + 1}
  BY <1>2
<1>6. EditsOf(list) = EditsOf(l) \cup ({e.of} \ {0})
  <2>1. {list[i].of : i \in 1..(n + 1)} = {l[i].of : i \in 1..n} \cup {e.of}
    BY <1>2, <1>5
  <2> QED BY <1>2, <1>4, <2>1 DEF EditsOf
<1>7. Distinct(list) => Distinct(l) /\ e.of \notin EditsOf(l)
  <2> SUFFICES ASSUME Distinct(list) PROVE Distinct(l) /\ e.of \notin EditsOf(l)
    OBVIOUS
  <2>1. \A i, j \in 1..(n + 1) : list[i].of = list[j].of /\ list[i].of # 0 => i = j
    BY <1>2 DEF Distinct
  <2>2. Distinct(l)
    BY <1>2, <1>4, <1>5, <2>1 DEF Distinct
  <2>3. \A i \in 1..n : l[i].of # 0 => l[i].of # e.of
    <3> TAKE i \in 1..n
    <3>1. i # n + 1 /\ i \in 1..(n + 1) /\ n + 1 \in 1..(n + 1)
      BY <1>2
    <3> QED BY <1>2, <2>1, <3>1
  <2> QED BY <1>4, <2>2, <2>3 DEF EditsOf
<1>8. Countable(list) => Countable(l) /\ e.count # None
  <2>1. n + 1 \in 1..(n + 1) /\ \A i \in 1..n : i \in 1..(n + 1)
    BY <1>2
  <2> QED BY <1>2, <1>4, <2>1 DEF Countable
<1> QED BY <1>2, <1>3, <1>6, <1>7, <1>8 DEF l, e

LEMMA AppendExact ==
    ASSUME NEW list \in Seq(Entries), NEW entry \in Entries, NEW lg, AllExact(list, lg), Exact(entry, lg)
    PROVE  AllExact(Append(list, entry), lg)
<1> DEFINE n == Len(list)
           l == Append(list, entry)
<1>1. /\ n \in Nat /\ DOMAIN list = 1..n /\ DOMAIN l = 1..(n + 1)
      /\ l[n + 1] = entry /\ \A i \in 1..n : l[i] = list[i]
  OBVIOUS
<1> HIDE DEF n, l
<1>2. 1..(n + 1) = (1..n) \cup {n + 1}
  BY <1>1
<1> QED BY <1>1, <1>2 DEF AllExact, l

LEMMA FrontExact ==
    ASSUME NEW list \in Seq(Entries), list # <<>>, NEW lg, AllExact(list, lg)
    PROVE  AllExact(Front(list), lg) /\ Exact(Last(list), lg)
<1> DEFINE n == Len(list) - 1
           l == Front(list)
           e == Last(list)
<1>1. Front(list) = Rest(list, 1) /\ 1 \in 0..Len(list)
  BY DEF Front, Rest
<1>2. /\ n \in Nat /\ DOMAIN list = 1..(n + 1) /\ l \in Seq(Entries) /\ Len(l) = n
      /\ list[n + 1] = e /\ \A i \in 1..n : l[i] = list[i]
  BY <1>1, RestIs DEF Last
<1>3. DOMAIN l = 1..n
  BY <1>2
<1> HIDE DEF n, l, e
<1>4. n + 1 \in 1..(n + 1) /\ \A i \in 1..n : i \in 1..(n + 1)
  BY <1>2
<1> QED BY <1>2, <1>3, <1>4 DEF AllExact, l, e

\* A new edit in the log changes nothing about the edits before it.
LEMMA LogExact ==
    ASSUME NEW list \in Seq(Entries), NEW lg \in Seq(Nat), NEW k \in Nat,
           EditsOf(list) \subseteq 1..Len(lg), AllExact(list, lg)
    PROVE  AllExact(list, Append(lg, k)) /\ \A i \in 1..Len(list) : list[i].of <= Len(lg)
<1>1. \A i \in DOMAIN list : list[i].of # 0 => list[i].of \in 1..Len(lg)
  BY DEF EditsOf
<1>2. \A i \in DOMAIN list : list[i].of # 0 => Append(lg, k)[list[i].of] = lg[list[i].of]
  BY <1>1
<1>3. AllExact(list, Append(lg, k))
  BY <1>2 DEF AllExact, Exact
<1>4. \A i \in 1..Len(list) : list[i].of <= Len(lg)
  BY <1>1
<1> QED BY <1>3, <1>4

-----------------------------------------------------------------------------
(* The invariant. *)

\* The lists name different edits, all of them made; only an undo leaves one to redo.
Named ==
    /\ Distinct(book.undo) /\ Distinct(book.redo)
    /\ EditsOf(book.undo) \cap EditsOf(book.redo) = {}
    /\ EditsOf(book.undo) \cup EditsOf(book.redo) \subseteq 1..Len(log)
    /\ \A c \in Clients : req[c].op # "none" => req[c].top.of <= Len(log)
    /\ book.redo # <<>> => book.pending = None

\* The native steps are the listed edits, and what is counted is what they took:
\* in the lists, in the count a direct command leaves, and in what a request read.
Listed ==
    session = "open" /\ measured =>
        /\ Tiled(doc, book.undo, log)
        /\ book.redo # <<>> => Tiled(ahead, book.redo, log)
        /\ book.redo = <<>> /\ ahead # <<>> => book.undo # <<>> /\ Last(book.undo).count = None
        /\ AllExact(book.undo, log) /\ AllExact(book.redo, log) /\ Countable(book.redo)
        /\ book.pending # None /\ book.pending > 1 => book.undo # <<>> /\ Last(book.undo).count # Direct
        /\ \A c \in Clients :
              req[c].op # "none" => req[c].count = Size(req[c].top, log) /\ req[c].top.count # None

ListsInv == ListTypes /\ Named /\ Listed

LEMMA ListsMean == ASSUME ListsInv PROVE ListsAreDocument
<1>1. /\ HistoryTypeOK /\ doc \in Seq(1..MaxEdits) /\ ahead \in Seq(1..MaxEdits) /\ log \in Seq(0..MaxNative)
      /\ MaxEdits \in Nat /\ MaxNative \in Nat /\ book.undo \in Seq(Entries) /\ book.redo \in Seq(Entries)
  BY BookIs, HistoryAssumption DEF ListsInv, ListTypes, HistoryTypeOK, Contents, Books
<1>2. doc \in Seq(Nat) /\ ahead \in Seq(Nat)
  BY <1>1
<1>3. ASSUME NEW list \in Seq(Entries), EditsOf(list) \subseteq 1..Len(log)
      PROVE  \A i \in DOMAIN list : Size(list[i], log) \in Nat
  <2> TAKE i \in DOMAIN list
  <2>1. list[i].of # 0 => list[i].of \in 1..Len(log)
    BY <1>3 DEF EditsOf
  <2> QED BY <1>1, <2>1 DEF Size
<1>4. UndoListIsDocument
  <2> SUFFICES ASSUME session = "open", measured PROVE AreStepsOf(doc, book.undo)
    BY DEF UndoListIsDocument
  <2> QED BY <1>1, <1>2, <1>3, TiledMeans DEF ListsInv, Named, Listed
<1>5. RedoListIsAhead
  <2> SUFFICES ASSUME session = "open", measured, book.redo # <<>> PROVE AreStepsOf(ahead, book.redo)
    BY DEF RedoListIsAhead
  <2> QED BY <1>1, <1>2, <1>3, TiledMeans DEF ListsInv, Named, Listed
<1> QED BY <1>1, <1>4, <1>5 DEF ListsAreDocument

LEMMA ListsStart == HistoryInit => ListsInv
<1> SUFFICES ASSUME HistoryInit PROVE ListsInv
  OBVIOUS
<1>1. /\ doc = <<>> /\ ahead = <<>> /\ flag = FALSE /\ disk = <<>> /\ log = <<>>
      /\ book = [undo |-> <<>>, redo |-> <<>>, pending |-> None, marker |-> FALSE, dirty |-> FALSE]
      /\ rt = [debt |-> FALSE, cleared |-> FALSE, verified |-> None]
      /\ req = [c \in Clients |-> Idle] /\ measured = TRUE /\ session = "open"
  BY DEF HistoryInit
<1>2. book.undo = <<>> /\ book.redo = <<>> /\ book.pending = None /\ book \in Books
  BY <1>1 DEF Books
<1>3. ListTypes
  <2>0. <<>> \in Contents
    BY DEF Contents
  <2>1. doc \in Contents /\ ahead \in Contents /\ disk \in Contents /\ flag \in BOOLEAN /\ measured \in BOOLEAN
    BY <1>1, <2>0
  <2>2. log \in Seq(0..MaxNative) /\ Len(log) <= MaxEdits
    BY <1>1, HistoryAssumption
  <2>3. rt \in Runtimes /\ req \in [Clients -> Requests]
    BY <1>1 DEF Runtimes, Requests, Idle
  <2>4. rt.debt \in BOOLEAN /\ rt.cleared \in BOOLEAN /\ rt.verified \in {None} \cup [state : Contents, current : BOOLEAN]
    BY <2>3 DEF Runtimes
  <2>5. session \in {"open", "held", "closed"}
    BY <1>1
  <2> QED BY <1>2, <2>1, <2>2, <2>3, <2>4, <2>5 DEF ListTypes, HistoryTypeOK, Books
<1>4. \A c \in Clients : req[c].op = "none"
  BY <1>1 DEF Idle
<1>5. Named
  BY <1>1, <1>2, <1>4 DEF Named, Distinct, EditsOf
<1>6. Listed
  BY <1>1, <1>2, <1>4, TiledEmpty DEF Listed, AllExact, Countable
<1> QED BY <1>3, <1>5, <1>6 DEF ListsInv

-----------------------------------------------------------------------------
(* The steps. *)

LEMMA TypesFrom ==
    ASSUME doc' \in Contents, ahead' \in Contents, disk' \in Contents, flag' \in BOOLEAN, measured' \in BOOLEAN,
           log' \in Seq(0..MaxNative), Len(log') <= MaxEdits, book' \in Books, rt' \in Runtimes,
           req' \in [Clients -> Requests], session' \in {"open", "held", "closed"}
    PROVE  ListTypes'
<1>1. rt'.debt \in BOOLEAN /\ rt'.cleared \in BOOLEAN /\ rt'.verified \in {None} \cup [state : Contents, current : BOOLEAN]
  BY DEF Runtimes
<1>2. HistoryTypeOK'
  BY <1>1 DEF HistoryTypeOK, Books, Contents, Entries, Counts, Recordings
<1> QED BY <1>2 DEF ListTypes, Runtimes, Requests, Contents, Entries, Counts, Recordings

\* The types as facts.
LEMMA TypesAre ==
    ASSUME ListTypes
    PROVE  /\ doc \in Contents /\ ahead \in Contents /\ disk \in Contents /\ flag \in BOOLEAN
           /\ measured \in BOOLEAN /\ log \in Seq(0..MaxNative) /\ Len(log) <= MaxEdits
           /\ doc \in Seq(Nat) /\ ahead \in Seq(Nat) /\ log \in Seq(Nat)
           /\ book \in Books /\ book.undo \in Seq(Entries) /\ book.redo \in Seq(Entries)
           /\ rt \in Runtimes /\ req \in [Clients -> Requests] /\ session \in {"open", "held", "closed"}
<1>1. /\ doc \in Contents /\ ahead \in Contents /\ disk \in Contents /\ flag \in BOOLEAN
      /\ measured \in BOOLEAN /\ log \in Seq(0..MaxNative) /\ Len(log) <= MaxEdits
      /\ rt \in Runtimes /\ req \in [Clients -> Requests] /\ session \in {"open", "held", "closed"}
  BY DEF ListTypes, HistoryTypeOK
<1>2. book \in Books /\ book.undo \in Seq(Entries) /\ book.redo \in Seq(Entries)
  BY BookIs DEF Books
<1>3. doc \in Seq(1..MaxEdits) /\ ahead \in Seq(1..MaxEdits) /\ MaxEdits \in Nat /\ MaxNative \in Nat
  BY <1>1, HistoryAssumption DEF Contents
<1>4. doc \in Seq(Nat) /\ ahead \in Seq(Nat) /\ log \in Seq(Nat)
  BY <1>1, <1>3
<1> QED BY <1>1, <1>2, <1>4

\* A request that has read nothing, or what it had read.
Keeps == \A c \in Clients : req'[c] = req[c] \/ req'[c].op = "none"

\* What leaves the lists alone leaves them named.
LEMMA NamesKept ==
    ASSUME ListsInv, book'.undo = book.undo, book'.redo = book.redo, book'.pending \in {book.pending, None},
           Len(log') \in Nat, Len(log) <= Len(log'), Keeps
    PROVE  Named'
<1>1. Len(log) \in Nat /\ 1..Len(log) \subseteq 1..Len(log')
  BY TypesAre DEF ListsInv
<1>2. /\ Distinct(book'.undo) /\ Distinct(book'.redo)
      /\ EditsOf(book'.undo) \cap EditsOf(book'.redo) = {}
      /\ EditsOf(book'.undo) \cup EditsOf(book'.redo) \subseteq 1..Len(log')
      /\ book'.redo # <<>> => book'.pending = None
  BY <1>1 DEF ListsInv, Named
<1>3. \A c \in Clients : req'[c].op # "none" => req'[c].top.of <= Len(log')
  <2> SUFFICES ASSUME NEW c \in Clients, req'[c].op # "none" PROVE req'[c].top.of <= Len(log')
    OBVIOUS
  <2>1. req'[c] = req[c] /\ req[c].op # "none"
    BY DEF Keeps
  <2>2. req[c].top.of <= Len(log) /\ req[c].top \in Entries
    BY <2>1, RequestIs DEF ListsInv, Named
  <2>3. req[c].top.of \in Int
    BY <2>2, HistoryAssumption DEF Entries
  <2> QED BY <1>1, <2>1, <2>2, <2>3
<1> QED BY <1>2, <1>3 DEF Named, Distinct, EditsOf

LEMMA ListsKept ==
    ASSUME ListsInv, session = "open", book'.undo = book.undo, book'.redo = book.redo, book'.pending = book.pending,
           doc' = doc, ahead' = ahead, log' = log, measured' = measured, Keeps
    PROVE  Named' /\ Listed'
<1>1. Named'
  BY NamesKept, TypesAre DEF ListsInv
<1>2. SUFFICES ASSUME measured' PROVE
        /\ Tiled(doc', book'.undo, log')
        /\ book'.redo # <<>> => Tiled(ahead', book'.redo, log')
        /\ book'.redo = <<>> /\ ahead' # <<>> => book'.undo # <<>> /\ Last(book'.undo).count = None
        /\ AllExact(book'.undo, log') /\ AllExact(book'.redo, log') /\ Countable(book'.redo)
        /\ book'.pending # None /\ book'.pending > 1 => book'.undo # <<>> /\ Last(book'.undo).count # Direct
        /\ \A c \in Clients :
              req'[c].op # "none" => req'[c].count = Size(req'[c].top, log') /\ req'[c].top.count # None
  BY <1>1 DEF Listed, Tiled, Tiles, Size, AllExact, Exact, Countable, Last
<1>3. \A c \in Clients :
         req'[c].op # "none" => req'[c].count = Size(req'[c].top, log') /\ req'[c].top.count # None
  BY <1>2 DEF Keeps, ListsInv, Listed
<1> QED BY <1>2, <1>3 DEF ListsInv, Listed

\* What an edit, an undo or a redo has to show of the next state.
LEMMA ListsFrom ==
    ASSUME Distinct(book'.undo), Distinct(book'.redo), EditsOf(book'.undo) \cap EditsOf(book'.redo) = {},
           EditsOf(book'.undo) \cup EditsOf(book'.redo) \subseteq 1..Len(log'),
           \A c \in Clients : req'[c].op # "none" => req'[c].top.of <= Len(log'),
           book'.redo # <<>> => book'.pending = None,
           session' = "open" /\ measured' =>
             /\ Tiled(doc', book'.undo, log')
             /\ book'.redo # <<>> => Tiled(ahead', book'.redo, log')
             /\ book'.redo = <<>> /\ ahead' # <<>> => book'.undo # <<>> /\ Last(book'.undo).count = None
             /\ AllExact(book'.undo, log') /\ AllExact(book'.redo, log') /\ Countable(book'.redo)
             /\ book'.pending # None /\ book'.pending > 1 => book'.undo # <<>> /\ Last(book'.undo).count # Direct
             /\ \A c \in Clients :
                   req'[c].op # "none" => req'[c].count = Size(req'[c].top, log') /\ req'[c].top.count # None
    PROVE  Named' /\ Listed'
<1>1. Named'
  BY DEF Named, Distinct, EditsOf
<1>2. Listed'
  BY DEF Listed, Tiled, Tiles, Size, AllExact, Exact, Countable, Last
<1> QED BY <1>1, <1>2

\* An edit puts its entry on the list and its steps in the document.
LEMMA EditLists ==
    ASSUME ListsInv, session = "open", NEW kind, NEW n \in 0..MaxNative, Edits(kind, n), Tracked(kind, n)
    PROVE  Named' /\ Listed'
<1>1. PICK entry \in Entries :
        /\ entry.of = Edit /\ book'.undo = Append(book.undo, entry) /\ book'.redo = <<>>
        /\ book' \in Books /\ req' = req
        /\ kind \in MeasuredKinds =>
              /\ entry.count \in Int => entry.count = n
              /\ entry.count = Direct => n = 1 /\ (book'.pending # None => book'.pending = 1)
              /\ n = 0 => entry.count = None
  BY DEF Tracked
<1>2. /\ doc \in Seq(Nat) /\ ahead \in Seq(Nat) /\ log \in Seq(Nat) /\ n \in Nat
      /\ book.undo \in Seq(Entries) /\ book.redo \in Seq(Entries)
  BY TypesAre, HistoryAssumption DEF ListsInv
<1>3. /\ Edit = Len(log) + 1 /\ log' = Append(log, n) /\ doc' = doc \o Native(n)
      /\ ahead' = (IF n = 0 THEN ahead ELSE <<>>) /\ measured' = (measured /\ kind \in MeasuredKinds)
  BY DEF Edits, Edit
<1>4. Len(log) \in Nat /\ Len(log') = Edit /\ log'[Edit] = n /\ \A e \in 1..Len(log) : log'[e] = log[e]
  BY <1>2, <1>3
<1>5. Distinct(book.undo) /\ EditsOf(book.undo) \cup EditsOf(book.redo) \subseteq 1..Len(log)
  BY DEF ListsInv, Named
<1>6. Edit \notin EditsOf(book.undo) /\ 1..Len(log) \subseteq 1..Len(log') /\ Edit \in 1..Len(log') /\ Edit # 0
  BY <1>3, <1>4, <1>5
<1>7. /\ Distinct(book'.undo) /\ EditsOf(book'.undo) = EditsOf(book.undo) \cup {Edit}
      /\ book'.undo # <<>> /\ Last(book'.undo) = entry
  BY <1>1, <1>2, <1>5, <1>6, AppendNames
<1>8. Distinct(book'.redo) /\ EditsOf(book'.redo) = {} /\ Countable(book'.redo) /\ \A lg : AllExact(book'.redo, lg)
  BY <1>1 DEF Distinct, EditsOf, Countable, AllExact
<1>9. \A c \in Clients : req'[c].op # "none" => req[c].top.of \in Nat /\ req[c].top.of <= Len(log) /\ req'[c] = req[c]
  <2> SUFFICES ASSUME NEW c \in Clients, req'[c].op # "none"
               PROVE  req[c].top.of \in Nat /\ req[c].top.of <= Len(log) /\ req'[c] = req[c]
    OBVIOUS
  <2>1. req'[c] = req[c] /\ req[c].op # "none"
    BY <1>1
  <2>2. req[c].top \in Entries /\ req[c].top.of <= Len(log)
    BY <2>1, RequestIs DEF ListsInv, Named
  <2>3. req[c].top.of \in Nat
    BY <2>2, HistoryAssumption DEF Entries
  <2> QED BY <2>1, <2>2, <2>3
<1>10. \A c \in Clients : req'[c].op # "none" => req'[c].top.of <= Len(log')
  BY <1>3, <1>4, <1>9
<1>11. ASSUME measured'
       PROVE  /\ Tiled(doc', book'.undo, log')
              /\ ahead' # <<>> => Last(book'.undo).count = None
              /\ AllExact(book'.undo, log')
              /\ book'.pending # None /\ book'.pending > 1 => Last(book'.undo).count # Direct
              /\ \A c \in Clients :
                    req'[c].op # "none" => req'[c].count = Size(req'[c].top, log') /\ req'[c].top.count # None
  <2>1. measured /\ kind \in MeasuredKinds
    BY <1>3, <1>11
  <2>2. /\ Tiled(doc, book.undo, log) /\ AllExact(book.undo, log)
        /\ \A c \in Clients :
              req[c].op # "none" => req[c].count = Size(req[c].top, log) /\ req[c].top.count # None
    BY <2>1 DEF ListsInv, Listed
  <2>3. AllExact(book.undo, log') /\ \A i \in 1..Len(book.undo) : book.undo[i].of <= Len(log)
    BY <1>2, <1>3, <1>5, <2>2, LogExact
  <2>4. Tiled(doc, book.undo, log')
    BY <1>2, <1>3, <2>2, <2>3, TiledLog
  <2>5. Native(n) \in Seq(Nat) /\ Len(Native(n)) = n /\ \A i \in 1..n : Native(n)[i] = Edit
    <3>1. Edit \in Nat
      BY <1>3, <1>4
    <3> HIDE DEF Edit
    <3> QED BY <1>2, <3>1 DEF Native
  <2>6. Size(entry, log') = n
    BY <1>1, <1>4, <1>6 DEF Size
  <2>7. Tiled(doc', book'.undo, log')
    <3> DEFINE more == Native(n)
    <3>1. more \in Seq(Nat) /\ Len(more) = Size(entry, log') /\ \A i \in 1..Len(more) : more[i] = entry.of
      BY <1>1, <2>5, <2>6
    <3> HIDE DEF more
    <3>2. Tiled(doc \o more, Append(book.undo, entry), log')
      BY <1>1, <1>2, <2>4, <3>1, TiledAppend
    <3> QED BY <1>1, <1>3, <3>2 DEF more
  <2>8. Exact(entry, log')
    BY <1>1, <1>4, <1>6, <2>1 DEF Exact
  <2>9. AllExact(book'.undo, log')
    BY <1>1, <1>2, <2>3, <2>8, AppendExact
  <2>10. ahead' # <<>> => entry.count = None
    BY <1>1, <1>3, <2>1
  <2>11. book'.pending # None /\ book'.pending > 1 => entry.count # Direct
    BY <1>1, <2>1
  <2>12. \A c \in Clients :
            req'[c].op # "none" => req'[c].count = Size(req'[c].top, log') /\ req'[c].top.count # None
    <3> SUFFICES ASSUME NEW c \in Clients, req'[c].op # "none"
                 PROVE  req'[c].count = Size(req'[c].top, log') /\ req'[c].top.count # None
      OBVIOUS
    <3>1. req'[c] = req[c] /\ req[c].top.of \in Nat /\ req[c].top.of <= Len(log)
      BY <1>9
    <3>2. req[c].count = Size(req[c].top, log) /\ req[c].top.count # None
      BY <2>2, <3>1
    <3>3. req[c].top.of # 0 => log'[req[c].top.of] = log[req[c].top.of]
      BY <1>4, <3>1
    <3> QED BY <3>1, <3>2, <3>3 DEF Size
  <2> QED BY <1>7, <2>7, <2>9, <2>10, <2>11, <2>12
<1>12. EditsOf(book'.undo) \cap EditsOf(book'.redo) = {} /\ EditsOf(book'.undo) \cup EditsOf(book'.redo) \subseteq 1..Len(log')
  BY <1>5, <1>6, <1>7, <1>8
<1> QED BY <1>1, <1>7, <1>8, <1>10, <1>11, <1>12, ListsFrom

\* What a request decides is what its edit took.
LEMMA DecideLists ==
    ASSUME ListsInv, NEW c \in Clients, DecideUndo(c) \/ DecideRedo(c)
    PROVE  ListsInv'
<1>1. /\ session = "open" /\ doc' = doc /\ ahead' = ahead /\ flag' = flag /\ disk' = disk /\ log' = log
      /\ book' = book /\ rt' = rt /\ measured' = measured /\ session' = session
  BY DEF DecideUndo, DecideRedo, editorVars
<1>2. /\ book.undo \in Seq(Entries) /\ book.redo \in Seq(Entries) /\ req \in [Clients -> Requests] /\ book \in Books
      /\ log \in Seq(0..MaxNative) /\ MaxNative \in Nat \ {0} /\ None \notin Int /\ Direct \notin Int
  BY TypesAre, HistoryAssumption DEF ListsInv
<1>3. PICK op \in {"undo", "redo"}, top \in Entries, count \in 0..MaxNative :
        /\ req' = [req EXCEPT ![c] = [op |-> op, count |-> count, top |-> top]]
        /\ top.of <= Len(log)
        /\ measured => count = Size(top, log) /\ top.count # None
  <2>1. CASE DecideUndo(c)
    <3> DEFINE top == Last(book.undo)
               count == UndoCount(book)
    <3>1. /\ book.undo # <<>> /\ top.count # None /\ req' = [req EXCEPT ![c] = [op |-> "undo", count |-> count, top |-> top]]
      BY <2>1 DEF DecideUndo, Blocked
    <3>2. top \in Entries /\ EditsOf(book.undo) = EditsOf(Front(book.undo)) \cup ({top.of} \ {0})
      BY <1>2, <3>1, FrontNames
    <3>3. top.count \in Counts /\ top.of \in Nat /\ (top.of # 0 => top.of \in 1..Len(log))
      BY <3>2, HistoryAssumption DEF Entries, ListsInv, Named
    <3>4. top.of <= Len(log)
      BY <1>2, <3>3
    <3>5. book.pending \in 0..MaxNative \cup {None}
      BY <1>2 DEF Books
    <3>6. count = IF top.count # Direct THEN top.count ELSE IF book.pending # None /\ book.pending > 1 THEN book.pending ELSE 1
      BY DEF UndoCount
    <3> HIDE DEF top, count
    <3>7. count \in 0..MaxNative
      BY <1>2, <3>1, <3>3, <3>5, <3>6 DEF Counts
    <3>8. measured => count = Size(top, log)
      <4> SUFFICES ASSUME measured PROVE count = Size(top, log)
        OBVIOUS
      <4>1. /\ AllExact(book.undo, log)
            /\ book.pending # None /\ book.pending > 1 => top.count # Direct
        BY <1>1 DEF ListsInv, Listed, top
      <4>2. Exact(top, log)
        BY <1>2, <3>1, <4>1, FrontExact DEF top
      <4>3. CASE top.count = Direct
        BY <3>6, <4>1, <4>2, <4>3 DEF Exact, Size
      <4>4. CASE top.count # Direct
        <5>1. top.count \in Int
          BY <1>2, <3>1, <3>3, <4>4 DEF Counts
        <5> QED BY <3>6, <4>2, <4>4, <5>1 DEF Exact, Size
      <4> QED BY <4>3, <4>4
    <3> QED BY <3>1, <3>2, <3>4, <3>7, <3>8
  <2>2. CASE DecideRedo(c)
    <3> DEFINE top == Last(book.redo)
               count == RedoCount(book)
    <3>1. book.redo # <<>> /\ req' = [req EXCEPT ![c] = [op |-> "redo", count |-> count, top |-> top]]
      BY <2>2 DEF DecideRedo
    <3>2. /\ top \in Entries /\ EditsOf(book.redo) = EditsOf(Front(book.redo)) \cup ({top.of} \ {0})
          /\ Countable(book.redo) => top.count # None
      BY <1>2, <3>1, FrontNames
    <3>3. top.count \in Counts /\ top.of \in Nat /\ (top.of # 0 => top.of \in 1..Len(log))
      BY <3>2, HistoryAssumption DEF Entries, ListsInv, Named
    <3>4. top.of <= Len(log)
      BY <1>2, <3>3
    <3>6. count = IF top.count \in Int THEN top.count ELSE 1
      BY DEF RedoCount
    <3> HIDE DEF top, count
    <3>7. count \in 0..MaxNative
      BY <1>2, <3>3, <3>6 DEF Counts
    <3>8. measured => count = Size(top, log) /\ top.count # None
      <4> SUFFICES ASSUME measured PROVE count = Size(top, log) /\ top.count # None
        OBVIOUS
      <4>1. AllExact(book.redo, log) /\ Countable(book.redo)
        BY <1>1 DEF ListsInv, Listed
      <4>2. Exact(top, log) /\ top.count # None
        BY <1>2, <3>1, <3>2, <4>1, FrontExact DEF top
      <4>3. CASE top.count \in Int
        BY <3>6, <4>2, <4>3 DEF Exact, Size
      <4>4. CASE top.count \notin Int
        <5>1. top.count = Direct
          BY <1>2, <3>3, <4>2, <4>4 DEF Counts
        <5> QED BY <3>6, <4>2, <4>4, <5>1 DEF Exact, Size
      <4> QED BY <4>3, <4>4
    <3> QED BY <3>1, <3>2, <3>4, <3>7, <3>8
  <2> QED BY <2>1, <2>2
<1>4. [op |-> op, count |-> count, top |-> top] \in Requests
  BY <1>3 DEF Requests
<1>5. req' \in [Clients -> Requests]
  BY <1>2, <1>3, <1>4
<1>6. ListTypes'
  BY <1>1, <1>5, TypesFrom, TypesAre DEF ListsInv
<1>7. \A d \in Clients : req'[d].op # "none" =>
         \/ req'[d] = req[d]
         \/ req'[d].op = op /\ req'[d].count = count /\ req'[d].top = top
  BY <1>2, <1>3
<1>8. \A d \in Clients : req'[d].op # "none" => req'[d].top.of <= Len(log')
  BY <1>1, <1>3, <1>7 DEF ListsInv, Named
<1>9. measured => \A d \in Clients :
         req'[d].op # "none" => req'[d].count = Size(req'[d].top, log') /\ req'[d].top.count # None
  BY <1>1, <1>3, <1>7 DEF ListsInv, Listed
<1>10. Named' /\ Listed'
  BY <1>1, <1>8, <1>9, ListsFrom DEF ListsInv, Named, Listed
<1> QED BY <1>6, <1>10 DEF ListsInv

\* A stop entry, which names no edit, goes on a list.
LEMMA StopLists ==
    ASSUME NEW list \in Seq(Entries), NEW stop, IsStop(stop), NEW lg
    PROVE  /\ Append(list, stop) \in Seq(Entries) /\ EditsOf(Append(list, stop)) = EditsOf(list)
           /\ Distinct(list) => Distinct(Append(list, stop))
           /\ AllExact(list, lg) => AllExact(Append(list, stop), lg)
           /\ Append(list, stop) # <<>> /\ Last(Append(list, stop)).count = None
           /\ \A steps \in Seq(Nat) : Tiled(steps, list, lg) => Tiled(steps, Append(list, stop), lg)
<1>1. stop \in Entries /\ stop.of = 0 /\ stop.count = None /\ None \notin Int /\ None # Direct
  BY HistoryAssumption DEF IsStop
<1>2. /\ Append(list, stop) \in Seq(Entries) /\ EditsOf(Append(list, stop)) = EditsOf(list)
      /\ Distinct(list) => Distinct(Append(list, stop))
      /\ Append(list, stop) # <<>> /\ Last(Append(list, stop)).count = None
  <2>1. stop.of \notin EditsOf(list) /\ {stop.of} \ {0} = {}
    BY <1>1 DEF EditsOf
  <2>2. /\ Append(list, stop) \in Seq(Entries) /\ EditsOf(Append(list, stop)) = EditsOf(list) \cup ({stop.of} \ {0})
        /\ Distinct(list) => Distinct(Append(list, stop))
        /\ Append(list, stop) # <<>> /\ Last(Append(list, stop)) = stop
    BY <1>1, <2>1, AppendNames
  <2> QED BY <1>1, <2>1, <2>2
<1>3. AllExact(list, lg) => AllExact(Append(list, stop), lg)
  <2>1. Exact(stop, lg)
    BY <1>1 DEF Exact
  <2> QED BY <1>1, <2>1, AppendExact
<1>4. ASSUME NEW steps \in Seq(Nat), Tiled(steps, list, lg) PROVE Tiled(steps, Append(list, stop), lg)
  <2> DEFINE more == <<>>
  <2>1. more \in Seq(Nat) /\ Len(more) = Size(stop, lg) /\ \A i \in 1..Len(more) : more[i] = stop.of
    BY <1>1 DEF Size
  <2>2. steps \o more = steps
    OBVIOUS
  <2> HIDE DEF more
  <2>3. Tiled(steps \o more, Append(list, stop), lg)
    BY <1>1, <1>4, <2>1, TiledAppend
  <2> QED BY <2>2, <2>3
<1> QED BY <1>2, <1>3, <1>4

\* The last edit of one history moves to the other.
LEMMA TiledMoves ==
    ASSUME NEW s \in Seq(Nat), NEW t \in Seq(Nat), NEW from \in Seq(Entries), NEW to \in Seq(Entries), NEW lg,
           from # <<>>, Tiled(s, from, lg), Tiled(t, to, lg), NEW k \in Nat, k = Size(Last(from), lg)
    PROVE  Tiled(Rest(s, k), Front(from), lg) /\ Tiled(t \o Moved(s, k), Append(to, Last(from)), lg)
<1> DEFINE entry == Last(from)
           more == Moved(s, k)
<1>1. entry \in Entries
  BY EndsOf
<1> HIDE DEF entry, more
<1>2. /\ k \in 0..Len(s) /\ Tiled(Rest(s, k), Front(from), lg)
      /\ \A i \in 1..k : s[Len(s) + 1 - i] = entry.of
  <2>1. k \in 0..Len(s) /\ Tiled(Rest(s, k), Front(from), lg) /\ EndsWith(s, k, Last(from).of)
    BY TiledRest
  <2> QED BY <2>1 DEF entry, EndsWith
<1>3. more \in Seq(Nat) /\ Len(more) = k /\ \A i \in 1..k : more[i] = s[Len(s) + 1 - i]
  BY <1>2, MovedIs DEF more
<1>4. Len(more) = Size(entry, lg) /\ \A i \in 1..Len(more) : more[i] = entry.of
  BY <1>2, <1>3 DEF entry
<1>5. Tiled(t \o more, Append(to, entry), lg)
  BY <1>1, <1>3, <1>4, TiledAppend
<1> QED BY <1>2, <1>5 DEF entry, more

\* A request that has run is idle; the others have what they had read.
LEMMA RequestsAfter ==
    ASSUME ListsInv, NEW c \in Clients, req' = [req EXCEPT ![c] = Idle], log' = log
    PROVE  /\ Keeps
           /\ \A d \in Clients : req'[d].op # "none" => req'[d].top.of <= Len(log')
           /\ session = "open" /\ measured => \A d \in Clients :
                 req'[d].op # "none" => req'[d].count = Size(req'[d].top, log') /\ req'[d].top.count # None
<1>1. req \in [Clients -> Requests]
  BY TypesAre DEF ListsInv
<1>2. Keeps
  BY <1>1 DEF Keeps, Idle
<1>3. \A d \in Clients : req'[d].op # "none" => req'[d] = req[d]
  BY <1>2 DEF Keeps
<1> QED BY <1>2, <1>3 DEF ListsInv, Named, Listed

\* An undo takes the last edit back, whole, and leaves the others.
LEMMA UndoLists ==
    ASSUME ListsInv, NEW c \in Clients, NEW match, UndoRuns(c, match)
    PROVE  ListsInv'
<1> DEFINE k == req[c].count
           entry == Last(book.undo)
           rest == Front(book.undo)
<1>1. /\ TakesBack(c) /\ book' \in Books /\ doc' \in Contents /\ ahead' \in Contents
      /\ flag' \in BOOLEAN /\ rt' \in Runtimes /\ measured' \in BOOLEAN /\ req' \in [Clients -> Requests]
  BY UndoIs DEF ListsInv
<1>2. /\ session = "open" /\ req[c].op # "none" /\ req' = [req EXCEPT ![c] = Idle]
      /\ disk' = disk /\ log' = log /\ session' = session
  BY DEF UndoRuns
<1>3. ListTypes'
  BY <1>1, <1>2, TypesFrom, TypesAre DEF ListsInv
<1>4. /\ k \in 0..Len(doc) /\ book.undo # <<>>
      /\ doc' = Rest(doc, k) /\ ahead' = ahead \o Moved(doc, k) /\ book'.pending = None
      /\ measured' = (measured /\ entry = req[c].top)
  BY <1>1 DEF TakesBack
<1>5. /\ doc \in Seq(Nat) /\ ahead \in Seq(Nat) /\ log \in Seq(Nat) /\ k \in Nat
      /\ book.undo \in Seq(Entries) /\ book.redo \in Seq(Entries)
  BY <1>2, TypesAre, RequestIs DEF ListsInv
<1>6. /\ rest \in Seq(Entries) /\ entry \in Entries
      /\ EditsOf(book.undo) = EditsOf(rest) \cup ({entry.of} \ {0})
      /\ Distinct(rest) /\ entry.of \notin EditsOf(rest)
  BY <1>4, <1>5, FrontNames DEF ListsInv, Named
<1>7. /\ Distinct(book.redo) /\ EditsOf(book.undo) \cap EditsOf(book.redo) = {}
      /\ EditsOf(book.undo) \cup EditsOf(book.redo) \subseteq 1..Len(log)
  BY DEF ListsInv, Named
<1>8. 0 \notin EditsOf(book.redo)
  BY DEF EditsOf
<1>9. entry.of \notin EditsOf(book.redo)
  BY <1>6, <1>7, <1>8
<1>10. ASSUME measured'
       PROVE  /\ entry.count # None /\ Exact(entry, log)
              /\ AllExact(rest, log) /\ AllExact(book.redo, log) /\ Countable(book.redo)
              /\ Tiled(doc', rest, log') /\ Tiled(ahead', Append(book.redo, entry), log')
  <2>1. measured /\ entry = req[c].top
    BY <1>4, <1>10
  <2>2. /\ Tiled(doc, book.undo, log)
        /\ book.redo # <<>> => Tiled(ahead, book.redo, log)
        /\ book.redo = <<>> /\ ahead # <<>> => entry.count = None
        /\ AllExact(book.undo, log) /\ AllExact(book.redo, log) /\ Countable(book.redo)
        /\ k = Size(entry, log) /\ entry.count # None
    BY <1>2, <2>1 DEF ListsInv, Listed
  <2>3. Tiled(ahead, book.redo, log)
    BY <2>2, TiledEmpty
  <2>4. AllExact(rest, log) /\ Exact(entry, log)
    BY <1>4, <1>5, <2>2, FrontExact
  <2> HIDE DEF k
  <2>5. Tiled(Rest(doc, k), Front(book.undo), log) /\ Tiled(ahead \o Moved(doc, k), Append(book.redo, Last(book.undo)), log)
    BY <1>4, <1>5, <2>2, <2>3, TiledMoves
  <2> QED BY <1>2, <1>4, <2>2, <2>4, <2>5
<1>11. /\ \A d \in Clients : req'[d].op # "none" => req'[d].top.of <= Len(log')
       /\ measured => \A d \in Clients :
             req'[d].op # "none" => req'[d].count = Size(req'[d].top, log') /\ req'[d].top.count # None
  BY <1>2, RequestsAfter
<1> HIDE DEF k, entry, rest
<1>12. CASE book'.undo = rest /\ book'.redo = Append(book.redo, entry)
  <2>1. /\ Distinct(book'.redo) /\ EditsOf(book'.redo) = EditsOf(book.redo) \cup ({entry.of} \ {0}) /\ book'.redo # <<>>
        /\ Countable(book.redo) /\ entry.count # None => Countable(book'.redo)
    BY <1>5, <1>6, <1>7, <1>9, <1>12, AppendNames
  <2>2. Distinct(book'.undo) /\ EditsOf(book'.undo) = EditsOf(rest)
    BY <1>6, <1>12
  <2>3. EditsOf(book'.undo) \cap EditsOf(book'.redo) = {} /\ EditsOf(book'.undo) \cup EditsOf(book'.redo) \subseteq 1..Len(log')
    BY <1>2, <1>6, <1>7, <2>1, <2>2
  <2>4. ASSUME measured'
        PROVE  /\ Tiled(doc', book'.undo, log') /\ Tiled(ahead', book'.redo, log')
               /\ AllExact(book'.undo, log') /\ AllExact(book'.redo, log') /\ Countable(book'.redo)
    BY <1>2, <1>5, <1>6, <1>10, <1>12, <2>1, <2>4, AppendExact
  <2>5. Named' /\ Listed'
    BY <1>4, <1>11, <2>1, <2>2, <2>3, <2>4, ListsFrom
  <2> QED BY <1>3, <2>5 DEF ListsInv
<1>13. ASSUME NEW stop, IsStop(stop), book'.undo = Append(rest, stop), book'.redo = <<>>
       PROVE  ListsInv'
  <2>1. /\ Distinct(book'.undo) /\ EditsOf(book'.undo) = EditsOf(rest) /\ book'.undo # <<>>
        /\ Last(book'.undo).count = None
    BY <1>6, <1>13, StopLists
  <2>2. Distinct(book'.redo) /\ EditsOf(book'.redo) = {} /\ Countable(book'.redo) /\ \A lg : AllExact(book'.redo, lg)
    BY <1>13 DEF Distinct, EditsOf, Countable, AllExact
  <2>3. EditsOf(book'.undo) \cap EditsOf(book'.redo) = {} /\ EditsOf(book'.undo) \cup EditsOf(book'.redo) \subseteq 1..Len(log')
    BY <1>2, <1>6, <1>7, <2>1, <2>2
  <2>4. doc' \in Seq(Nat)
    BY <1>3, <1>4, <1>5, RestIs
  <2>5. ASSUME measured' PROVE Tiled(doc', book'.undo, log') /\ AllExact(book'.undo, log')
    BY <1>2, <1>6, <1>10, <1>13, <2>4, <2>5, StopLists
  <2>6. Named' /\ Listed'
    BY <1>4, <1>11, <1>13, <2>1, <2>2, <2>3, <2>5, ListsFrom
  <2> QED BY <1>3, <2>6 DEF ListsInv
<1> QED BY <1>1, <1>12, <1>13 DEF TakesBack, entry, rest

\* A redo puts the edit undone last back, whole.
LEMMA RedoLists ==
    ASSUME ListsInv, NEW c \in Clients, NEW match, RedoRuns(c, match)
    PROVE  ListsInv'
<1> DEFINE k == req[c].count
           entry == Last(book.redo)
           rest == Front(book.redo)
           more == Append(book.undo, entry)
<1>1. /\ DoesAgain(c) /\ book' \in Books /\ doc' \in Contents /\ ahead' \in Contents
      /\ flag' \in BOOLEAN /\ rt' \in Runtimes /\ measured' \in BOOLEAN /\ req' \in [Clients -> Requests]
  BY RedoIs DEF ListsInv
<1>2. /\ session = "open" /\ req[c].op # "none" /\ req' = [req EXCEPT ![c] = Idle]
      /\ disk' = disk /\ log' = log /\ session' = session
  BY DEF RedoRuns
<1>3. ListTypes'
  BY <1>1, <1>2, TypesFrom, TypesAre DEF ListsInv
<1>4. /\ k \in 0..Len(ahead) /\ book.redo # <<>>
      /\ ahead' = Rest(ahead, k) /\ doc' = doc \o Moved(ahead, k) /\ book'.pending = None
      /\ measured' = (measured /\ entry = req[c].top)
  BY <1>1 DEF DoesAgain, ListsInv, Named
<1>5. /\ doc \in Seq(Nat) /\ ahead \in Seq(Nat) /\ log \in Seq(Nat) /\ k \in Nat
      /\ book.undo \in Seq(Entries) /\ book.redo \in Seq(Entries)
  BY <1>2, TypesAre, RequestIs DEF ListsInv
<1>6. /\ rest \in Seq(Entries) /\ entry \in Entries
      /\ EditsOf(book.redo) = EditsOf(rest) \cup ({entry.of} \ {0})
      /\ Distinct(rest) /\ entry.of \notin EditsOf(rest)
      /\ Countable(book.redo) => Countable(rest) /\ entry.count # None
  BY <1>4, <1>5, FrontNames DEF ListsInv, Named
<1>7. /\ Distinct(book.undo) /\ EditsOf(book.undo) \cap EditsOf(book.redo) = {}
      /\ EditsOf(book.undo) \cup EditsOf(book.redo) \subseteq 1..Len(log)
  BY DEF ListsInv, Named
<1>8. 0 \notin EditsOf(book.undo)
  BY DEF EditsOf
<1>9. entry.of \notin EditsOf(book.undo)
  BY <1>6, <1>7, <1>8
<1>10. /\ more \in Seq(Entries) /\ Distinct(more) /\ EditsOf(more) = EditsOf(book.undo) \cup ({entry.of} \ {0})
       /\ more # <<>> /\ Last(more) = entry
  BY <1>5, <1>6, <1>7, <1>9, AppendNames
<1>11. EditsOf(more) \cap EditsOf(rest) = {} /\ EditsOf(more) \cup EditsOf(rest) \subseteq 1..Len(log')
  BY <1>2, <1>6, <1>7, <1>10
<1>12. ASSUME measured'
       PROVE  /\ AllExact(rest, log') /\ AllExact(more, log') /\ Countable(rest)
              /\ Tiled(ahead', rest, log') /\ Tiled(doc', more, log')
  <2>1. measured /\ entry = req[c].top
    BY <1>4, <1>12
  <2>2. /\ Tiled(doc, book.undo, log) /\ Tiled(ahead, book.redo, log)
        /\ AllExact(book.undo, log) /\ AllExact(book.redo, log) /\ Countable(book.redo)
        /\ k = Size(entry, log)
    BY <1>2, <1>4, <2>1 DEF ListsInv, Listed
  <2>3. AllExact(rest, log) /\ Exact(entry, log)
    BY <1>4, <1>5, <2>2, FrontExact
  <2>4. AllExact(more, log)
    BY <1>5, <1>6, <2>2, <2>3, AppendExact
  <2> HIDE DEF k
  <2>5. Tiled(Rest(ahead, k), Front(book.redo), log) /\ Tiled(doc \o Moved(ahead, k), Append(book.undo, Last(book.redo)), log)
    BY <1>4, <1>5, <2>2, TiledMoves
  <2> QED BY <1>2, <1>4, <1>6, <2>2, <2>3, <2>4, <2>5
<1>13. /\ \A d \in Clients : req'[d].op # "none" => req'[d].top.of <= Len(log')
       /\ measured => \A d \in Clients :
             req'[d].op # "none" => req'[d].count = Size(req'[d].top, log') /\ req'[d].top.count # None
  BY <1>2, RequestsAfter
<1>14. doc' \in Seq(Nat) /\ ahead' \in Seq(Nat)
  BY <1>4, <1>5, RestIs, MovedIs, JoinedIs
<1> HIDE DEF k, entry, rest, more
<1>15. CASE book'.undo = more /\ book'.redo = rest
  <2>1. ASSUME measured', rest = <<>>, ahead' # <<>> PROVE FALSE
    <3>1. PICK cut, own : Tiles(ahead', rest, log', cut, own)
      BY <1>12, <2>1 DEF Tiled
    <3>2. cut[0] = 0 /\ cut[Len(rest)] = Len(ahead') /\ Len(rest) = 0
      BY <2>1, <3>1 DEF Tiles
    <3> QED BY <1>14, <2>1, <3>2
  <2>2. Named' /\ Listed'
    BY <1>4, <1>6, <1>10, <1>11, <1>12, <1>13, <1>15, <2>1, ListsFrom
  <2> QED BY <1>3, <2>2 DEF ListsInv
<1>16. ASSUME NEW stop, IsStop(stop), book'.undo = Append(more, stop), book'.redo = <<>>
       PROVE  ListsInv'
  <2>1. /\ Distinct(book'.undo) /\ EditsOf(book'.undo) = EditsOf(more) /\ book'.undo # <<>>
        /\ Last(book'.undo).count = None
    BY <1>10, <1>16, StopLists
  <2>2. Distinct(book'.redo) /\ EditsOf(book'.redo) = {} /\ Countable(book'.redo) /\ \A lg : AllExact(book'.redo, lg)
    BY <1>16 DEF Distinct, EditsOf, Countable, AllExact
  <2>3. EditsOf(book'.undo) \cap EditsOf(book'.redo) = {} /\ EditsOf(book'.undo) \cup EditsOf(book'.redo) \subseteq 1..Len(log')
    BY <1>11, <2>1, <2>2
  <2>4. ASSUME measured' PROVE Tiled(doc', book'.undo, log') /\ AllExact(book'.undo, log')
    BY <1>10, <1>12, <1>14, <1>16, <2>4, StopLists
  <2>5. Named' /\ Listed'
    BY <1>4, <1>13, <1>16, <2>1, <2>2, <2>3, <2>4, ListsFrom
  <2> QED BY <1>3, <2>5 DEF ListsInv
<1> QED BY <1>1, <1>15, <1>16 DEF DoesAgain, entry, rest, more

\* The commands that edit.
LEMMA EditStep ==
    ASSUME ListsInv, NEW kind, NEW n \in 0..MaxNative, session = "open", Edits(kind, n), Tracked(kind, n),
           flag' \in BOOLEAN, rt' \in Runtimes, disk' = disk, session' = session
    PROVE  ListsInv'
<1>1. book' \in Books /\ req' = req
  BY DEF Tracked
<1>2. ListTypes'
  BY <1>1, EditsType, TypesFrom, TypesAre DEF ListsInv
<1> QED BY <1>2, EditLists DEF ListsInv

LEMMA EditSteps ==
    ASSUME ListsInv
    PROVE  /\ \A kind \in {"typed", "single", "section", "quiet", "media"}, n \in 0..MaxNative, reports \in BOOLEAN :
                 DirectEdit(kind, n, reports) => ListsInv'
           /\ \A n \in 1..MaxNative, lone \in BOOLEAN : BundleCounted(n, lone) => ListsInv'
           /\ \A n \in 0..MaxNative : BundleUncounted(n) \/ BundleUnlisted(n) \/ BundlePicture(n) => ListsInv'
<1>1. ListTypes /\ Admitted \in Runtimes /\ Marked(Admitted) \in Runtimes
  BY AdmittedType, RuntimesAre, TypesAre DEF ListsInv
<1>2. None \in Recordings
  BY DEF Recordings
<1>3. \A n \in 0..MaxNative : (flag \/ n > 0) \in BOOLEAN
  BY Zenon
<1>4. ASSUME NEW kind \in {"typed", "single", "section", "quiet", "media"}, NEW n \in 0..MaxNative,
             NEW reports \in BOOLEAN, DirectEdit(kind, n, reports)
      PROVE  ListsInv'
  <2>1. session = "open" /\ Edits(kind, n) /\ disk' = disk /\ session' = session
    BY <1>4 DEF DirectEdit
  <2> QED BY <1>1, <1>4, <2>1, DirectIs, EditStep
<1>5. ASSUME NEW n \in 1..MaxNative, NEW lone \in BOOLEAN, BundleCounted(n, lone) PROVE ListsInv'
  <2> DEFINE states == IF lone THEN States("document") ELSE None
  <2>1. /\ session = "open" /\ Edits("counted", n) /\ disk' = disk /\ session' = session /\ flag' = TRUE
        /\ book' = [Counted(book, n, states) EXCEPT !.dirty = TRUE] /\ req' = req /\ rt' = Marked(Admitted)
    BY <1>5 DEF BundleCounted
  <2>2. n \in 0..MaxNative /\ n > 0
    BY HistoryAssumption
  <2>3. doc \in Contents /\ doc' \in Contents
    BY <1>1, <2>1, <2>2, EditsType, TypesAre
  <2>4. states \in Recordings
    BY <2>3, RecordingsAre
  <2> HIDE DEF states
  <2>5. Tracked("counted", n)
    BY <1>1, <2>1, <2>2, <2>4, CountedIs
  <2> QED BY <1>1, <2>1, <2>2, <2>5, EditStep
<1>6. ASSUME NEW n \in 0..MaxNative, BundleUncounted(n) PROVE ListsInv'
  <2>1. /\ session = "open" /\ Edits("uncounted", n) /\ disk' = disk /\ session' = session /\ flag' = (flag \/ n > 0)
        /\ rt' = Marked(Admitted)
    BY <1>6 DEF BundleUncounted
  <2> QED BY <1>1, <1>3, <1>6, <2>1, UncountedIs, EditStep
<1>7. ASSUME NEW n \in 0..MaxNative, BundleUnlisted(n) PROVE ListsInv'
  <2>1. /\ session = "open" /\ Edits("unlisted", n) /\ disk' = disk /\ session' = session /\ flag' = (flag \/ n > 0)
        /\ book' = [Counted(book, 1, None) EXCEPT !.dirty = TRUE] /\ req' = req /\ rt' = Marked(Admitted)
    BY <1>7 DEF BundleUnlisted
  <2>2. 1 \in 0..MaxNative /\ "unlisted" \notin MeasuredKinds
    BY HistoryAssumption DEF MeasuredKinds
  <2>3. Tracked("unlisted", n)
    BY <1>1, <1>2, <2>1, <2>2, CountedIs
  <2> QED BY <1>1, <1>3, <2>1, <2>3, EditStep
<1>8. ASSUME NEW n \in 0..MaxNative, BundlePicture(n) PROVE ListsInv'
  <2>1. /\ session = "open" /\ Edits("picture", n) /\ disk' = disk /\ session' = session /\ flag' = ~CopyClears
        /\ book' = [Counted(book, n, States("package")) EXCEPT !.dirty = TRUE] /\ req' = req
        /\ rt' = Recorded(Marked(Admitted), doc', TRUE) /\ n \in 1..MaxNative
    BY <1>8 DEF BundlePicture
  <2>2. n > 0 /\ flag' \in BOOLEAN
    BY <2>1, HistoryAssumption
  <2>3. doc \in Contents /\ doc' \in Contents
    BY <1>1, <2>1, EditsType, TypesAre
  <2>4. States("package") \in Recordings /\ rt' \in Runtimes
    BY <1>1, <2>1, <2>3, RecordingsAre, RuntimesAre
  <2>5. Tracked("picture", n)
    BY <1>1, <2>1, <2>2, <2>4, CountedIs
  <2> QED BY <1>1, <2>1, <2>2, <2>4, <2>5, EditStep
<1> QED BY <1>4, <1>5, <1>6, <1>7, <1>8

\* An unknown outcome holds the session: nothing is claimed of its lists any more.
LEMMA HeldStep ==
    ASSUME ListsInv, NEW n \in 0..MaxNative, Held(n) PROVE ListsInv'
<1>1. /\ Edits("held", n) /\ disk' = disk /\ session' = "held" /\ flag' = (flag \/ n > 0) /\ req' = req
      /\ book' = [book EXCEPT !.pending = None, !.marker = TRUE, !.dirty = TRUE] /\ rt' = Marked(Admitted)
  BY DEF Held
<1>2. rt' \in Runtimes /\ flag' \in BOOLEAN
  <2>1. (flag \/ n > 0) \in BOOLEAN
    BY Zenon
  <2> QED BY <1>1, <2>1, AdmittedType, RuntimesAre, TypesAre DEF ListsInv
<1>3. book' \in Books /\ book'.undo = book.undo /\ book'.redo = book.redo /\ book'.pending = None
  BY <1>1, TypesAre DEF ListsInv, Books
<1>4. ListTypes'
  BY <1>1, <1>2, <1>3, EditsType, TypesFrom, TypesAre DEF ListsInv
<1>5. Len(log') \in Nat /\ Len(log) <= Len(log')
  <2>1. Len(log) \in Nat
    BY TypesAre DEF ListsInv
  <2> QED BY <1>1, <2>1, EditsType DEF ListsInv, Edit
<1>6. Named'
  BY <1>1, <1>3, <1>5, NamesKept DEF Keeps
<1>7. Listed'
  BY <1>1 DEF Listed
<1> QED BY <1>4, <1>6, <1>7 DEF ListsInv

LEMMA UnknownStep ==
    ASSUME ListsInv, NEW c \in Clients, NEW k \in 0..MaxNative, HistoryUnknown(c, k) PROVE ListsInv'
<1>1. /\ req[c].op # "none" /\ k \in Nat /\ flag' = (flag \/ k > 0) /\ rt' = Marked(Admitted) /\ session' = "held"
      /\ book' = [book EXCEPT !.dirty = TRUE]
      /\ req' = [req EXCEPT ![c] = Idle] /\ disk' = disk /\ log' = log /\ measured' = measured
  BY HistoryAssumption DEF HistoryUnknown
<1>2. doc \in Contents /\ ahead \in Contents
  BY TypesAre DEF ListsInv
<1>3. doc' \in Contents /\ ahead' \in Contents
  <2>1. CASE req[c].op = "undo"
    <3>1. /\ k <= Len(doc) /\ doc' = SubSeq(doc, 1, Len(doc) - k)
          /\ ahead' = ahead \o Reverse(SubSeq(doc, Len(doc) - k + 1, Len(doc)))
      BY <2>1 DEF HistoryUnknown
    <3> QED BY <1>1, <1>2, <3>1, HalvesAre
  <2>2. CASE req[c].op # "undo"
    <3>1. /\ k <= Len(ahead) /\ ahead' = SubSeq(ahead, 1, Len(ahead) - k)
          /\ doc' = doc \o Reverse(SubSeq(ahead, Len(ahead) - k + 1, Len(ahead)))
      BY <2>2 DEF HistoryUnknown
    <3> QED BY <1>1, <1>2, <3>1, HalvesAre
  <2> QED BY <2>1, <2>2
<1>4. rt' \in Runtimes /\ flag' \in BOOLEAN
  <2>1. (flag \/ k > 0) \in BOOLEAN
    BY Zenon
  <2> QED BY <1>1, <2>1, AdmittedType, RuntimesAre, TypesAre DEF ListsInv
<1>5. book' \in Books /\ book'.undo = book.undo /\ book'.redo = book.redo /\ book'.pending = book.pending
  BY <1>1, TypesAre DEF ListsInv, Books
<1>6. req' \in [Clients -> Requests]
  BY <1>1, RequestIs DEF ListsInv
<1>7. ListTypes'
  BY <1>1, <1>3, <1>4, <1>5, <1>6, TypesFrom, TypesAre DEF ListsInv
<1>8. Keeps /\ Len(log') \in Nat /\ Len(log) <= Len(log')
  <2>1. Keeps
    BY <1>1, RequestsAfter
  <2>2. Len(log) \in Nat
    BY TypesAre DEF ListsInv
  <2> QED BY <1>1, <2>1, <2>2
<1>9. Named'
  BY <1>5, <1>8, NamesKept
<1>10. Listed'
  BY <1>1 DEF Listed
<1> QED BY <1>7, <1>9, <1>10 DEF ListsInv

\* The commands that leave the document and its lists as they are.
LEMMA QuietStep ==
    ASSUME ListsInv, session = "open", doc' = doc, ahead' = ahead, log' = log, measured' = measured,
           book' \in Books, book'.undo = book.undo, book'.redo = book.redo, book'.pending = book.pending,
           flag' \in BOOLEAN, rt' \in Runtimes, disk' \in Contents, session' \in {"open", "held", "closed"},
           req' \in [Clients -> Requests], Keeps
    PROVE  ListsInv'
<1>1. ListTypes'
  BY TypesFrom, TypesAre DEF ListsInv
<1> QED BY <1>1, ListsKept DEF ListsInv

LEMMA RefusedStep ==
    ASSUME ListsInv, NEW c \in Clients, NEW copied \in BOOLEAN, HistoryRefused(c, copied) PROVE ListsInv'
<1> DEFINE settled == Settles(Admitted, flag', copied)
           r == IF settled THEN [Admitted EXCEPT !.verified = Stale(@)] ELSE Marked(Admitted)
<1>1. /\ session = "open" /\ req[c].op # "none" /\ flag' = (flag /\ ~(copied /\ CopyClears))
      /\ rt' = IF copied THEN Recorded(r, doc, flag) ELSE r
      /\ req' = [req EXCEPT ![c] = Idle]
      /\ doc' = doc /\ ahead' = ahead /\ disk' = disk /\ log' = log /\ book' = book
      /\ measured' = measured /\ session' = session
  BY DEF HistoryRefused
<1>2. r \in Runtimes
  BY AdmittedType, RuntimesAre, TypesAre DEF ListsInv
<1> HIDE DEF r
<1>3. rt' \in Runtimes
  BY <1>1, <1>2, RuntimesAre, TypesAre DEF ListsInv
<1>4. flag' \in BOOLEAN
  <2>1. (flag /\ ~(copied /\ CopyClears)) \in BOOLEAN
    BY Zenon
  <2> QED BY <1>1, <2>1
<1>5. req' \in [Clients -> Requests] /\ Keeps
  BY <1>1, RequestIs, RequestsAfter DEF ListsInv
<1> QED BY <1>1, <1>3, <1>4, <1>5, QuietStep, TypesAre DEF ListsInv

LEMMA ReadingSteps ==
    ASSUME ListsInv,
           \/ BundleChangesNothing \/ Look \/ \E content \in BOOLEAN : Travel(content)
           \/ SaveNothing \/ SaveOrdinary \/ SaveVerified \/ Close \/ CloseRefused
    PROVE  ListsInv'
<1>1. /\ Admitted \in Runtimes /\ Marked(Admitted) \in Runtimes /\ Saved(Admitted) \in Runtimes
      /\ \A b \in BOOLEAN : [Admitted EXCEPT !.debt = b] \in Runtimes
      /\ Recorded(Admitted, doc, FALSE) \in Runtimes
  BY AdmittedType, RuntimesAre, TypesAre DEF ListsInv
<1>2. \A b \in BOOLEAN : /\ [book EXCEPT !.dirty = b] \in Books
                         /\ [book EXCEPT !.dirty = b].undo = book.undo /\ [book EXCEPT !.dirty = b].redo = book.redo
                         /\ [book EXCEPT !.dirty = b].pending = book.pending
  BY TypesAre DEF ListsInv, Books
<1>3. session = "open" /\ doc' = doc /\ ahead' = ahead /\ log' = log /\ measured' = measured /\ req' = req
  BY DEF BundleChangesNothing, Look, Travel, SaveNothing, SaveOrdinary, SaveVerified, Close, CloseRefused, editorVars
<1>4. Keeps
  BY <1>3 DEF Keeps
<1>5. flag' \in BOOLEAN /\ disk' \in Contents /\ session' \in {"open", "held", "closed"}
  BY TypesAre
  DEF ListsInv, BundleChangesNothing, Look, Travel, SaveNothing, SaveOrdinary, SaveVerified, Close, CloseRefused,
      editorVars
<1>6. book' = book \/ book' = [book EXCEPT !.dirty = flag] \/ book' = [book EXCEPT !.dirty = FALSE]
  BY DEF BundleChangesNothing, Look, Travel, SaveNothing, SaveOrdinary, SaveVerified, Close, CloseRefused
<1>7. book' \in Books /\ book'.undo = book.undo /\ book'.redo = book.redo /\ book'.pending = book.pending
  BY <1>2, <1>6, TypesAre DEF ListsInv
<1>8. rt' \in Runtimes
  <2>1. CASE Look \/ SaveNothing \/ Close \/ CloseRefused \/ BundleChangesNothing
    BY <1>1, <2>1 DEF Look, SaveNothing, Close, CloseRefused, BundleChangesNothing
  <2>2. CASE SaveOrdinary
    BY <1>1, <2>2 DEF SaveOrdinary
  <2>3. CASE SaveVerified
    <3>1. Saved(Recorded(Admitted, doc, FALSE)) \in Runtimes
      BY <1>1, RuntimesAre, TypesAre DEF ListsInv
    <3> QED BY <1>1, <2>3, <3>1 DEF SaveVerified
  <2>4. ASSUME NEW content \in BOOLEAN, Travel(content) PROVE rt' \in Runtimes
    <3> DEFINE r == IF content THEN Marked(Admitted) ELSE [Admitted EXCEPT !.debt = TRUE]
    <3>1. r \in Runtimes
      BY <1>1
    <3>2. rt' = IF Settles(Admitted, flag, FALSE) THEN [r EXCEPT !.debt = FALSE] ELSE r
      BY <2>4 DEF Travel
    <3> HIDE DEF r
    <3>3. [r EXCEPT !.debt = FALSE] \in Runtimes
      BY <3>1, RuntimesAre, TypesAre DEF ListsInv
    <3> QED BY <3>1, <3>2, <3>3
  <2> QED BY <2>1, <2>2, <2>3, <2>4
<1> QED BY <1>3, <1>4, <1>5, <1>7, <1>8, QuietStep, TypesAre DEF ListsInv

LEMMA ListsStay == ListsInv /\ [HistoryNext]_historyVars => ListsInv'
<1> SUFFICES ASSUME ListsInv, [HistoryNext]_historyVars PROVE ListsInv'
  OBVIOUS
<1>1. CASE UNCHANGED historyVars
  <2>1. /\ doc' = doc /\ ahead' = ahead /\ flag' = flag /\ disk' = disk /\ log' = log /\ book' = book
        /\ rt' = rt /\ req' = req /\ measured' = measured /\ session' = session
    BY <1>1 DEF historyVars, editorVars
  <2>2. ListTypes'
    BY <2>1, TypesFrom, TypesAre DEF ListsInv
  <2>3. Named' /\ Listed'
    BY <2>1, ListsFrom DEF ListsInv, Named, Listed
  <2> QED BY <2>2, <2>3 DEF ListsInv
<1>2. CASE HistoryNext
  BY <1>2, EditSteps, HeldStep, UnknownStep, RefusedStep, ReadingSteps, DecideLists, UndoLists, RedoLists
  DEF HistoryNext
<1> QED BY <1>1, <1>2

\* While every edit was of a measured kind and every history command ran on the
\* list it had read, the edits undo and redo believe in are exactly the ones the
\* editor would take back and do again, in order and whole.
THEOREM ListsHold == HistorySpec => []ListsAreDocument
<1>1. HistorySpec => []ListsInv
  BY ListsStart, ListsStay, PTL DEF HistorySpec
<1> QED BY <1>1, ListsMean, PTL
=============================================================================
