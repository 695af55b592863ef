---------------------------- MODULE ProgramRules ----------------------------
(***************************************************************************)
(* The order of phases that the engines keep, whatever they edit: intent   *)
(* is published before the first edit, a judged refusal comes before the   *)
(* caret moves or after a restoration is armed, the proof comes after the  *)
(* last edit, and what is reported is what was issued.  Each rule is about *)
(* the programs of one command, a record of CommandPackages; none says     *)
(* what a run of a program does.                                           *)
(***************************************************************************)
EXTENDS StepPrograms

Homing   == {"home", "homeif"}          \* a phase that ends with the caret proven back
Drifting == {"move", "visit"}           \* a phase that may silently change something else
Moving   == Drifting \cup EditPhases    \* a phase that takes the caret away
Sameness == {"same", "verify"}          \* a phase that sees whether something else changed

Before(p, i, does) == \E j \in 1..(i - 1) : p[j].do \in does
After(p, i, does)  == \E j \in (i + 1)..Len(p) : p[j].do \in does
Never(p, does)     == \A i \in DOMAIN p : p[i].do \notin does

\* Before phase i each of those phases was made good by a later one.
MadeGood(p, i, does, cure) ==
    \A k \in 1..(i - 1) : p[k].do \in does => \E j \in (k + 1)..(i - 1) : p[j].do \in cure

\* The dispatcher or the runtime publishes for these families before the engine runs.
Premarked == {"legacy", "direct", "macro"}
Solo   == {"direct", "macro", "glance"}

\* What the handler may take for a judged refusal.
Refusals(c) == IF c.family = "deferred" THEN {"step"} ELSE {"refusal", "clean"}

WellFormed(c) ==
    \A p \in {c.body, c.still, c.back} :
        p \in Seq([do : STRING, raises : Classes, n : Nat])

\* Intent is published before the first edit; a restoration does not edit.
PublishesFirst(c) ==
    c.family \notin Premarked =>
        /\ \A i \in DOMAIN c.body : c.body[i].do \in EditPhases => Before(c.body, i, {"publish"})
        /\ Never(c.back, EditPhases)

\* An engine that finds nothing to change has changed nothing.
StopsFirst(c) ==
    /\ Never(c.still, EditPhases \cup {"stop"}) /\ Never(c.back, {"stop"})
    /\ \A i \in DOMAIN c.body : c.body[i].do = "stop" => ~Before(c.body, i, EditPhases)

\* A command that returns dirty = False does not edit, unless it is a macro.
Declared(c) ==
    c.edits \/ c.family = "macro" \/ (Never(c.body, EditPhases) /\ Never(c.back, EditPhases))

\* A command of its own returns a refusal only before its first edit.
ReturnsFirst(c) ==
    c.family \in Solo =>
        /\ Never(c.back, EditPhases)
        /\ \A i \in DOMAIN c.back : c.back[i].raises \notin Refusals(c)
        /\ \A i \in DOMAIN c.body : c.body[i].raises \in Refusals(c) =>
              c.body[i].do \notin EditPhases /\ ~Before(c.body, i, EditPhases)

\* Before phase i the caret is where it was found, and nothing else changed unseen.
Settled(c, p, i) ==
    /\ p[i].do \notin Moving /\ MadeGood(p, i, Moving, Homing)
    /\ c.family = "deferred" \/ MadeGood(p, i, Drifting, Sameness)

\* A restoration ends with the caret given back, and with a comparison.
Restores(c) ==
    /\ \E h \in DOMAIN c.back : c.back[h].do \in Homing /\ ~After(c.back, h, Moving)
    /\ \/ c.family = "deferred"
       \/ \E h \in DOMAIN c.back : c.back[h].do \in Sameness /\ ~After(c.back, h, Drifting)

\* What the handler takes for a judged refusal is raised before anything moved, after it was
\* made good, or where a restoration is armed; past the publication it is none any more.
RefusesSettled(c) ==
    (c.edits \/ c.family = "macro") /\ c.undo # "picture" /\ c.family \in {"guarded", "deferred"} \cup Solo =>
        /\ \A i \in DOMAIN c.body : c.body[i].raises \in Refusals(c) =>
              \/ c.family \in {"guarded", "deferred"} /\ Before(c.body, i, {"publish"})
              \/ c.body[i].raises # "clean" /\ Before(c.body, i, {"arm"})
              \/ Settled(c, c.body, i)
        /\ \A i \in DOMAIN c.still : c.still[i].raises \in Refusals(c) =>
              /\ c.still[i].raises # "clean"
              /\ \A k \in DOMAIN c.body : c.body[k].do = "stop" => Before(c.body, k, {"arm"})
        /\ \A i \in DOMAIN c.back : c.back[i].raises \notin Refusals(c)
        /\ (Never(c.body, {"arm"}) /\ Never(c.still, {"arm"})) \/ Restores(c)

\* After the last edit comes a phase that sees what the edits made.
SeenAfter(p, does) ==
    \/ Never(p, EditPhases)
    \/ \E v \in DOMAIN p : p[v].do \in does /\ ~After(p, v, EditPhases \cup {"revert"})

\* A guarded or deferred step is compared as a whole after its last edit.
VerifiesLast(c) ==
    c.family \in {"guarded", "deferred"} /\ c.undo # "one" => SeenAfter(c.body, {"verify"})

\* A step whose Undo calls are counted looks at its edits, and reports as many as it issued.
ReportsIssued(c) ==
    c.undo \in {"single", "counted", "any", "state"} =>
        /\ SeenAfter(c.body, {"verify", "peek"})
        /\ \A i \in DOMAIN c.body : c.body[i].do = "report" =>
              c.body[i].n \in {0, Acts(c.body)} \/ (c.undo = "single" /\ c.body[i].n # 1)

Orderly(c) ==
    /\ WellFormed(c) /\ PublishesFirst(c) /\ StopsFirst(c) /\ Declared(c) /\ ReturnsFirst(c)
    /\ RefusesSettled(c) /\ VerifiesLast(c) /\ ReportsIssued(c)
=============================================================================
