------------------------------- MODULE EditJob -------------------------------
(***************************************************************************)
(* One queued job, from its claim to its end (app/worker.py): handle_job   *)
(* in the worker, and the child process it launches, which drives a Hancom *)
(* instance of its own through the job's operations and writes the PDF and *)
(* the edited HWPX.  JobQueue has the row's side of the same story: who    *)
(* may claim, recover and record.                                          *)
(*                                                                         *)
(* A document, in memory or in a file, is what became of the operations    *)
(* applied to it.  The files outlive a run: what a failed run wrote is     *)
(* still there when the next one looks.  So do editors: one that was not   *)
(* quit is a process of its own, which the next run starts its own beside  *)
(* (new=True) and does not look for, and a save it was asked for by a      *)
(* child that has been killed may still reach the file.                    *)
(***************************************************************************)
EXTENDS Naturals, Sequences

CONSTANTS Jobs,         \* the jobs: [task, ops, proof, baseline], the ops as in EditOperations
          MaxAttempts,  \* max_attempts
          Primitives,   \* how many ways to export a PDF the editor offers
          MaxSilent,    \* saves that return without having written
          None

\* What became of an operation.
Dids == {"none", "short", "whole", "over", "odd", "failed"}

ASSUME EditJobAssumption ==
    /\ MaxAttempts \in Nat \ {0} /\ Primitives \in Nat \ {0} /\ MaxSilent \in Nat
    /\ \A j \in Jobs : /\ j.task \in {"convert", "edit_and_convert"}
                       /\ j.proof \in {"none", "file", "cell"}
                       /\ j.baseline \in BOOLEAN
                       /\ Len(j.ops) \in Nat
                       /\ j.task = "convert" => j.ops = <<>>
    /\ None \notin [run : Nat \X BOOLEAN, doc : Seq(Dids), marked : BOOLEAN]

VARIABLES
    job,
    status, attempts,    \* the row
    parent, retried,     \* handle_job: where it is, and has it used its cold retry
    point, hwp, doc, marked, tries, proved,   \* the child
    exit,                \* what the child left: its code, and does its output name a native error
    pdf, hwpx,           \* the files
    editors, faults,     \* the editors that run for this job; the runs that may not have quit theirs
    pending, landed,     \* saves in flight when their child was killed; has one reached its file since the launch
    silent

rowVars   == <<status, attempts>>
childVars == <<point, hwp, doc, marked, tries, proved>>
fileVars  == <<pdf, hwpx>>
appVars   == <<editors, faults, pending, landed>>
vars == <<job, rowVars, parent, retried, childVars, exit, fileVars, appVars, silent>>

Points == {"none", "preflight", "loading", "starting", "opening", "baseline", "editing", "matching",
           "saving", "reopening", "entering", "proving", "exporting", "finishing", "validating", "done"}

-----------------------------------------------------------------------------
\* Nothing that a child left.
NoExit == [code |-> 0, native |-> FALSE]

Init ==
    /\ job \in Jobs
    /\ status = "queued" /\ attempts = 0
    /\ parent = "idle" /\ retried = FALSE
    /\ point = "none" /\ hwp = "none" /\ doc = <<>> /\ marked = FALSE /\ tries = 0 /\ proved = None
    /\ exit = NoExit
    /\ pdf = None /\ hwpx = None
    /\ editors = 0 /\ faults = 0 /\ pending = {} /\ landed = FALSE /\ silent = 0

\* claim_next_job, and handle_job up to its first child
Claim ==
    /\ status = "queued" /\ attempts < MaxAttempts /\ parent = "idle"
    /\ status' = "running" /\ attempts' = attempts + 1
    /\ parent' = "launching" /\ retried' = FALSE
    /\ UNCHANGED <<job, childVars, exit, fileVars, appVars, silent>>

\* _run_child: process_one_command in a process of its own
Launch ==
    /\ parent = "launching"
    /\ parent' = "waiting"
    /\ point' = "preflight" /\ hwp' = "none" /\ doc' = <<>> /\ marked' = FALSE /\ tries' = 0 /\ proved' = None
    /\ exit' = NoExit /\ landed' = FALSE
    /\ UNCHANGED <<job, rowVars, retried, fileVars, editors, faults, pending, silent>>

\* The child goes on to its next point.
Goto(to) == point' = to /\ UNCHANGED <<job, rowVars, parent, retried, exit>>

\* The child ends and its memory with it.
Gone == point' = "none" /\ hwp' = "none" /\ doc' = <<>> /\ marked' = FALSE /\ tries' = 0 /\ proved' = None

\* The run a file is of: the attempt, and whether it is its cold retry.
Run == <<attempts, retried>>
File == [run |-> Run, doc |-> doc, marked |-> marked]

\* perform_native_export_preflight: an empty instance is started and quit; StartFails has its failures.
Preflight ==
    /\ point = "preflight" /\ Goto(IF job.task = "convert" THEN "starting" ELSE "loading")
    /\ UNCHANGED <<hwp, doc, marked, tries, proved, fileVars, appVars, silent>>

\* load_instruction_payload_from_file and require_queued_job_runtime_support
Load ==
    /\ point = "loading" /\ \A i \in DOMAIN job.ops : ~job.ops[i].refused
    /\ Goto("starting")
    /\ UNCHANGED <<hwp, doc, marked, tries, proved, fileVars, appVars, silent>>

\* create_hwp_instance_with_recovery: one attempt
CreateInstance ==
    /\ point = "starting" /\ Goto("opening") /\ hwp' = "open" /\ editors' = editors + 1
    /\ UNCHANGED <<doc, marked, tries, proved, fileVars, faults, pending, landed, silent>>

\* needs_source_pdf_validation
OpenDocument ==
    /\ point = "opening"
    /\ Goto(IF job.task = "convert" THEN "exporting" ELSE IF job.baseline THEN "baseline" ELSE "editing")
    /\ UNCHANGED <<hwp, doc, marked, tries, proved, fileVars, appVars, silent>>

SaveBaseline ==
    /\ point = "baseline" /\ Goto("editing")
    /\ UNCHANGED <<hwp, doc, marked, tries, proved, fileVars, appVars, silent>>

\* Mutant: a failed operation is recorded and the next one is tried.
ApplyOperation_GoesOn ==
    /\ point = "editing" /\ Len(doc) < Len(job.ops)
    /\ \E d \in job.ops[Len(doc) + 1].may \cup {"failed"} : doc' = Append(doc, d)
    /\ Goto("editing")
    /\ UNCHANGED <<hwp, marked, tries, proved, fileVars, appVars, silent>>

\* One turn of apply_edit_operations; an operation that raises ends the run (ChildFails).
ApplyOperation ==
    /\ point = "editing" /\ Len(doc) < Len(job.ops)
    /\ \E d \in Dids \ {"failed"} :
          d \in job.ops[Len(doc) + 1].may /\ doc' = Append(doc, d)
    /\ Goto("editing")
    /\ UNCHANGED <<hwp, marked, tries, proved, fileVars, appVars, silent>>

OperationsApplied ==
    /\ point = "editing" /\ Len(doc) = Len(job.ops)
    /\ Goto("matching")
    /\ UNCHANGED <<hwp, doc, marked, tries, proved, fileVars, appVars, silent>>

\* _collect_zero_match_blockers
ZeroMatch == \E i \in DOMAIN job.ops : job.ops[i].required /\ job.ops[i].n = 0

MatchBlockers ==
    /\ point = "matching" /\ ~ZeroMatch
    /\ Goto(IF job.proof = "none" THEN "exporting" ELSE "saving")
    /\ UNCHANGED <<hwp, doc, marked, tries, proved, fileVars, appVars, silent>>

-----------------------------------------------------------------------------
\* save_hwp_as: save_as and save_as_pdf return without the caller looking at what they say.
Saved(before, after) ==
    \/ after = File /\ silent' = silent
    \/ after = before /\ silent < MaxSilent /\ silent' = silent + 1

\* The HWPX that the proof reads; a file of that name must be there afterwards.
SaveForProof ==
    /\ point = "saving" /\ Saved(hwpx, hwpx') /\ hwpx' # None
    /\ Goto(IF job.proof = "cell" THEN "reopening" ELSE "proving")
    /\ UNCHANGED <<hwp, doc, marked, tries, proved, pdf, appVars>>

\* close_hwp_instance, then reopen_hwp_for_pdf_export; a quit that raises ends the run (ChildFails).
CloseForReopen ==
    /\ point = "reopening" /\ hwp = "open"
    /\ Goto("reopening") /\ hwp' = "closed" /\ editors' = editors - 1
    /\ UNCHANGED <<doc, marked, tries, proved, fileVars, faults, pending, landed, silent>>

Reopen ==
    /\ point = "reopening" /\ hwp = "closed"
    /\ Goto("proving") /\ hwp' = "open" /\ doc' = hwpx.doc /\ marked' = hwpx.marked
    /\ editors' = editors + 1
    /\ UNCHANGED <<tries, proved, fileVars, faults, pending, landed, silent>>

\* Where an instance is started that no variable of the run holds yet.
Unheld == point \in {"preflight", "starting"} \/ (point = "reopening" /\ hwp = "closed")

\* The constructor or what configures the instance raises, the preflight's quit does, or
\* the reopened document's open: nobody holds the instance, and if there is one it stays.
StartFails ==
    /\ Unheld
    /\ Gone /\ parent' = "judging"
    /\ editors' \in {editors, editors + 1} /\ faults' = faults + 1
    /\ \E native \in BOOLEAN : exit' = [code |-> 1, native |-> native]
    /\ UNCHANGED <<job, rowVars, retried, fileVars, pending, landed, silent>>

\* run_post_serialization_proof: the file, and with a cell the reopened document, into
\* which fill_addr_field writes the addresses.
Prove ==
    /\ point = "proving" /\ Goto("exporting") /\ proved' = hwpx
    /\ marked' = (marked \/ job.proof = "cell")
    /\ UNCHANGED <<hwp, doc, tries, fileVars, appVars, silent>>

\* save_hwp_as by one primitive: saved, or raised and on to the next.
ExportPdf ==
    /\ point = "exporting" /\ tries < Primitives
    /\ Saved(pdf, pdf') /\ pdf' # None
    /\ Goto(IF job.task = "convert" THEN "done" ELSE "finishing")
    /\ UNCHANGED <<hwp, doc, marked, tries, proved, hwpx, appVars>>

ExportRaises ==
    /\ point = "exporting" /\ tries + 1 < Primitives /\ job.task = "edit_and_convert"
    /\ tries' = tries + 1 /\ pdf' \in {pdf, File}
    /\ Goto("exporting")
    /\ UNCHANGED <<hwp, doc, marked, proved, hwpx, appVars, silent>>

\* Mutant: the HWPX is saved once more after its proof.
SaveFinal_Always ==
    /\ point = "finishing"
    /\ Saved(hwpx, hwpx') /\ hwpx' # None
    /\ Goto("validating")
    /\ UNCHANGED <<hwp, doc, marked, tries, proved, pdf, appVars>>

\* The HWPX that is delivered, unless a proof was made of the one that is there.
SaveFinal ==
    /\ point = "finishing"
    /\ IF job.proof = "none" THEN Saved(hwpx, hwpx') /\ hwpx' # None ELSE UNCHANGED <<hwpx, silent>>
    /\ Goto("validating")
    /\ UNCHANGED <<hwp, doc, marked, tries, proved, pdf, appVars>>

\* validate_pdf_outputs and the artifacts
Validate ==
    /\ point = "validating" /\ Goto("done")
    /\ UNCHANGED <<hwp, doc, marked, tries, proved, fileVars, appVars, silent>>

\* The finally of the run: the instance is quit, and a quit that raises is only logged.
QuitAtEnd ==
    IF hwp = "open"
    THEN \/ editors' = editors - 1 /\ faults' = faults
         \/ editors' = editors /\ faults' = faults + 1
    ELSE UNCHANGED <<editors, faults>>

\* process_one_command returns 0.
Finish ==
    /\ point = "done" /\ QuitAtEnd
    /\ point' = "none" /\ hwp' = "none" /\ parent' = "judging"
    /\ \E native \in BOOLEAN : exit' = [code |-> 0, native |-> native]
    /\ UNCHANGED <<job, rowVars, retried, doc, marked, tries, proved, fileVars, pending, landed, silent>>

\* An exception anywhere in the run: process_one_command returns 1.  The text goes to the
\* job's log; the parent sees what else was printed.
ChildFails ==
    /\ point # "none" /\ QuitAtEnd
    /\ Gone /\ parent' = "judging"
    /\ \E native \in BOOLEAN : exit' = [code |-> 1, native |-> native]
    /\ UNCHANGED <<job, rowVars, retried, fileVars, pending, landed, silent>>

\* The editors that run when the child is gone: it may have been starting one, or quitting.
Surviving == {editors} \cup (IF Unheld THEN {editors + 1} ELSE IF hwp = "open" THEN {editors - 1} ELSE {})

\* The save the child may have been waiting for.
InFlight ==
    IF point = "exporting" THEN {[to |-> "pdf", file |-> File]}
    ELSE IF point = "saving" \/ (point = "finishing" /\ job.proof = "none") THEN {[to |-> "hwpx", file |-> File]}
    ELSE {}

\* subprocess.TimeoutExpired: the child is killed, its Hancom is not (kill_hwp_runtime).
ChildTimesOut ==
    /\ point # "none"
    /\ Gone /\ parent' = "failing"
    /\ editors' \in Surviving /\ faults' = faults + 1
    /\ \E saves \in {{}, InFlight} : pending' = pending \cup saves
    /\ UNCHANGED <<job, rowVars, retried, exit, fileVars, landed, silent>>

\* An editor whose child is gone finishes the save it was asked for.
LateSave ==
    \E save \in pending :
        /\ pending' = pending \ {save} /\ landed' = TRUE
        /\ pdf'  = (IF save.to = "pdf"  THEN save.file ELSE pdf)
        /\ hwpx' = (IF save.to = "hwpx" THEN save.file ELSE hwpx)
        /\ UNCHANGED <<job, rowVars, parent, retried, childVars, exit, editors, faults, silent>>

-----------------------------------------------------------------------------
\* A run that named a native error and left no PDF is tried once more, cold.
ColdRetry ==
    /\ parent = "judging" /\ ~retried
    /\ exit.code # 0 /\ exit.native /\ pdf = None
    /\ retried' = TRUE /\ parent' = "launching"
    /\ UNCHANGED <<job, rowVars, childVars, exit, fileVars, appVars, silent>>

\* Mutant: the output file alone decides.
Delivered_ByFile == pdf # None
Delivered == exit.code = 0 /\ pdf # None

\* mark_succeeded_if_owned
Succeed ==
    /\ parent = "judging" /\ Delivered
    /\ status' = "succeeded" /\ parent' = "idle"
    /\ UNCHANGED <<job, attempts, retried, childVars, exit, fileVars, appVars, silent>>

GiveUp ==
    /\ parent = "judging" /\ ~Delivered
    /\ ~(exit.code # 0 /\ exit.native /\ pdf = None /\ ~retried)
    /\ parent' = "failing"
    /\ UNCHANGED <<job, rowVars, retried, childVars, exit, fileVars, appVars, silent>>

BudgetLeft == attempts < MaxAttempts

\* requeue_claimed_job_if_owned
Requeued == status' = "queued" /\ attempts' = attempts

\* The two except clauses of handle_job: requeue within the budget, or mark_failed_if_owned.
Fail ==
    /\ parent = "failing" /\ parent' = "idle"
    /\ IF BudgetLeft THEN Requeued ELSE status' = "failed" /\ attempts' = attempts
    /\ UNCHANGED <<job, retried, childVars, exit, fileVars, appVars, silent>>

Ended == status \in {"succeeded", "failed"} /\ parent = "idle"
Done == Ended /\ UNCHANGED vars

Child ==
    \/ Preflight \/ Load \/ CreateInstance \/ OpenDocument \/ SaveBaseline
    \/ ApplyOperation \/ OperationsApplied \/ MatchBlockers
    \/ SaveForProof \/ CloseForReopen \/ Reopen \/ StartFails \/ Prove
    \/ ExportPdf \/ ExportRaises \/ SaveFinal \/ Validate \/ Finish \/ ChildFails \/ ChildTimesOut

Next ==
    \/ Claim \/ Launch \/ Child \/ LateSave
    \/ ColdRetry \/ Succeed \/ GiveUp \/ Fail \/ Done

Spec == Init /\ [][Next]_vars

-----------------------------------------------------------------------------
Files == [run : (1..MaxAttempts) \X BOOLEAN, doc : Seq(Dids), marked : BOOLEAN]

\* The row and the child stay in their ranges: no attempt beyond the budget.
TypeOK ==
    /\ status \in {"queued", "running", "succeeded", "failed"} /\ attempts \in 0..MaxAttempts
    /\ parent \in {"idle", "launching", "waiting", "judging", "failing"} /\ retried \in BOOLEAN
    /\ point \in Points /\ hwp \in {"none", "open", "closed"}
    /\ doc \in Seq(Dids) /\ marked \in BOOLEAN /\ tries \in 0..(Primitives - 1) /\ proved \in Files \cup {None}
    /\ exit \in [code : {0, 1}, native : BOOLEAN]
    /\ pdf \in Files \cup {None} /\ hwpx \in Files \cup {None}
    /\ editors \in Nat /\ faults \in Nat /\ landed \in BOOLEAN /\ silent \in 0..MaxSilent
    /\ pending \subseteq [to : {"pdf", "hwpx"}, file : Files]

\* Every editor that runs is the one the child holds, or was left by a run of its own that
\* ended badly: killed, failed at the start of an editor, or refused the quit.  No run
\* leaves two, so an attempt, with its cold retry, leaves two at most.
InstancesAccounted ==
    /\ editors <= faults + (IF hwp = "open" THEN 1 ELSE 0)
    /\ faults <= 2 * attempts

\* The document of a file is one to which every operation of the job was applied to its
\* end, in order, and of which it can be said what the operation's own checks let pass.
Whole(f) ==
    f # None => Len(f.doc) = Len(job.ops) /\ \A i \in DOMAIN f.doc : f.doc[i] \in job.ops[i].may

\* The row is well formed and the editors are accounted for.  Whatever run wrote it and
\* however that run ended, a file in the job's output is never a document with part of
\* the operations: not after an operation that raised, not after a required match that was
\* missing, not after a kill in the middle, not by the late save of an editor left behind.
\* What an operation that raised nothing can have left undone is ReadBackIsDelivered's.
FilesAreWhole ==
    /\ TypeOK /\ InstancesAccounted
    /\ Whole(pdf) /\ Whole(hwpx)
    /\ hwpx # None \/ (pdf # None /\ job.task = "edit_and_convert") => ~ZeroMatch

\* The deletions and insertions an operation is made of report nothing when they do
\* nothing (edit_ops).  What the request's own text lets the operation read back is in
\* every file, whatever run wrote it: all of them, or one at least.
ReadBackIsDelivered ==
    \A f \in {pdf, hwpx} : f # None =>
        \A i \in DOMAIN f.doc :
            /\ job.ops[i].reads # "nothing" => f.doc[i] # "none"
            /\ job.ops[i].reads = "all" => f.doc[i] # "short"

\* A job that succeeded has its files, and both are of the run that succeeded: never a
\* PDF of one attempt beside the HWPX of another.  Excepted are a save that returned
\* without having written, and one that a killed run's editor finished since the launch.
DeliveredTogether ==
    status = "succeeded" =>
        /\ pdf # None
        /\ job.task = "edit_and_convert" => hwpx # None
        /\ silent = 0 /\ ~landed =>
              pdf.run = Run /\ (job.task = "edit_and_convert" => hwpx.run = Run /\ hwpx.doc = pdf.doc)

\* The HWPX of a job with a proof is the very file that was proved: nothing the run did
\* after the proof, the addresses it wrote into the reopened document included, is in it.
\* Only the late save of an editor left behind can take its place.
ProvedIsDelivered ==
    status = "succeeded" /\ job.task = "edit_and_convert" /\ job.proof # "none" /\ ~landed => hwpx = proved
=============================================================================
