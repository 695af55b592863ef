--------------------------- MODULE EditJobProofs ---------------------------
(***************************************************************************)
(* For any job, any number of attempts, export primitives and silent saves:*)
(* files are whole, a run leaves one editor at most, a job that succeeded  *)
(* delivers files of one run, and a proof is about the file delivered.     *)
(***************************************************************************)
EXTENDS EditJob, TLAPS

\* Who has the job: the row, the parent or the child; and when the child holds an editor.
ControlOK ==
    /\ point # "none" <=> parent = "waiting"
    /\ parent # "idle" => status = "running" /\ attempts >= 1
    /\ point \in {"none", "preflight", "loading", "starting"} => hwp = "none"
    /\ hwp = "open" => editors >= 1

\* The runs that have ended, by where the parent is.
Ran == IF parent = "idle" THEN 2 * attempts
       ELSE 2 * (attempts - 1) + (IF retried THEN 1 ELSE 0)
            + (IF parent \in {"judging", "failing"} THEN 1 ELSE 0)

\* Editors and the runs that left them; no run leaves two.
Accounted ==
    /\ editors <= faults + (IF hwp = "open" THEN 1 ELSE 0)
    /\ faults <= Ran

Full == {"matching", "saving", "reopening", "proving", "exporting", "finishing", "validating", "done"}

\* The document in the child: each operation did what it may do, and from the match check
\* on it has them all.
DocumentOK ==
    /\ \A i \in DOMAIN doc : doc[i] \in job.ops[i].may
    /\ Len(doc) <= Len(job.ops)
    /\ point \in Full => Len(doc) = Len(job.ops)
    /\ point \in Full \ {"matching"} => ~ZeroMatch
    /\ point = "reopening" => hwpx # None

\* What FilesAreWhole says of the files alone, and the same of the saves in flight.
WholeOK ==
    /\ Whole(pdf) /\ Whole(hwpx)
    /\ hwpx # None \/ (pdf # None /\ job.task = "edit_and_convert") => ~ZeroMatch
    /\ \A save \in pending : Whole(save.file) /\ ~ZeroMatch

\* Every save wrote, and when it was called.
Seen == silent = 0 /\ ~landed

\* A file that this run wrote, unless a save went unnoticed or came late.
Fresh(f) == f # None /\ (Seen => f.run = Run /\ f.doc = doc)

EditJobOf == job.task = "edit_and_convert"
Proved    == EditJobOf /\ job.proof # "none"

\* The points from which on the HWPX and the PDF are this run's.
FreshOK ==
    /\ point \in {"reopening", "proving", "validating"} => Fresh(hwpx)
    /\ point \in {"exporting", "finishing"} /\ Proved => Fresh(hwpx)
    /\ point = "done" /\ EditJobOf => Fresh(hwpx)
    /\ point \in {"finishing", "validating", "done"} => Fresh(pdf)
    /\ point \in {"finishing", "validating"} => EditJobOf

Together ==
    /\ pdf # None
    /\ EditJobOf => hwpx # None
    /\ Seen => pdf.run = Run /\ (EditJobOf => hwpx.run = Run /\ hwpx.doc = pdf.doc)

\* What a child that ended well left is what the row's success will stand for.
DeliveryOK ==
    /\ point \in {"exporting", "finishing", "validating", "done"} /\ Proved /\ ~landed => hwpx = proved
    /\ (parent = "judging" /\ exit.code = 0) \/ status = "succeeded" =>
          /\ Together
          /\ Proved /\ ~landed => hwpx = proved

Inv == TypeOK /\ ControlOK /\ Accounted /\ DocumentOK /\ WholeOK /\ FreshOK /\ DeliveryOK

-----------------------------------------------------------------------------
LEMMA FilesAreNotNone == None \notin Files
<1>1. Files \subseteq [run : Nat \X BOOLEAN, doc : Seq(Dids), marked : BOOLEAN]
  BY EditJobAssumption DEF Files
<1> QED  BY <1>1, EditJobAssumption

\* A file written now is one of the files there can be.
LEMMA FileType ==
    ASSUME TypeOK, attempts >= 1
    PROVE  File \in Files
BY DEF TypeOK, File, Files, Run

LEMMA SavedType ==
    ASSUME TypeOK, attempts >= 1, NEW f \in Files \cup {None}, NEW g, Saved(f, g)
    PROVE  g \in Files \cup {None} /\ silent' \in 0..MaxSilent
<1>1. File \in Files  BY FileType
<1> QED  BY <1>1, EditJobAssumption DEF TypeOK, Saved

\* Every step keeps the state well formed.
LEMMA TypeStep == TypeOK /\ ControlOK /\ DocumentOK /\ [Next]_vars => TypeOK'
<1> SUFFICES ASSUME TypeOK, ControlOK, DocumentOK, [Next]_vars PROVE TypeOK'
  OBVIOUS
<1> USE EditJobAssumption
<1>f. File \in Files \/ parent = "idle"  BY FileType DEF ControlOK
<1> USE DEF TypeOK, ControlOK, Goto, Gone, NoExit, Points, rowVars, childVars, fileVars, appVars
<1>1. CASE Claim
  <2>1. attempts' \in 0..MaxAttempts  BY <1>1 DEF Claim
  <2> QED  BY <1>1, <2>1 DEF Claim
<1>2. CASE Launch
  <2>1. doc' \in Seq(Dids)  BY <1>2 DEF Launch
  <2>2. tries' \in 0..(Primitives - 1)  BY <1>2 DEF Launch
  <2> QED  BY <1>2, <2>1, <2>2 DEF Launch
<1>3. CASE Preflight  BY <1>3 DEF Preflight
<1>4. CASE Load  BY <1>4 DEF Load
<1>5. CASE CreateInstance  BY <1>5 DEF CreateInstance
<1>6. CASE OpenDocument  BY <1>6 DEF OpenDocument
<1>7. CASE SaveBaseline  BY <1>7 DEF SaveBaseline
<1>8. CASE ApplyOperation
  <2>1. PICK d \in Dids : doc' = Append(doc, d)  BY <1>8 DEF ApplyOperation
  <2>2. doc' \in Seq(Dids)  BY <2>1
  <2> QED  BY <1>8, <2>2 DEF ApplyOperation
<1>9. CASE OperationsApplied  BY <1>9 DEF OperationsApplied
<1>10. CASE MatchBlockers  BY <1>10 DEF MatchBlockers
<1>11. CASE SaveForProof
  <2>1. hwpx' \in Files \cup {None} /\ silent' \in 0..MaxSilent
    BY <1>11, SavedType DEF SaveForProof
  <2> QED  BY <1>11, <2>1 DEF SaveForProof
<1>12. CASE CloseForReopen  BY <1>12 DEF CloseForReopen
<1>13. CASE Reopen
  <2>1. hwpx \in Files  BY <1>13 DEF Reopen, DocumentOK
  <2>2. doc' \in Seq(Dids) /\ marked' \in BOOLEAN  BY <1>13, <2>1 DEF Reopen, Files
  <2>3. editors' \in Nat  BY <1>13 DEF Reopen
  <2> QED  BY <1>13, <2>2, <2>3 DEF Reopen
<1>14. CASE StartFails
  <2>1. doc' \in Seq(Dids) /\ tries' \in 0..(Primitives - 1)  BY <1>14 DEF StartFails
  <2>2. editors' \in Nat /\ faults' \in Nat  BY <1>14 DEF StartFails
  <2>3. exit' \in [code : {0, 1}, native : BOOLEAN]  BY <1>14 DEF StartFails
  <2> QED  BY <1>14, <2>1, <2>2, <2>3 DEF StartFails
<1>15. CASE Prove  BY <1>15 DEF Prove
<1>16. CASE ExportPdf
  <2>1. pdf' \in Files \cup {None} /\ silent' \in 0..MaxSilent
    BY <1>16, SavedType DEF ExportPdf
  <2> QED  BY <1>16, <2>1 DEF ExportPdf
<1>17. CASE ExportRaises
  <2>1. pdf' \in Files \cup {None}  BY <1>17, <1>f DEF ExportRaises
  <2>2. tries' \in 0..(Primitives - 1)  BY <1>17 DEF ExportRaises
  <2> QED  BY <1>17, <2>1, <2>2 DEF ExportRaises
<1>18. CASE SaveFinal
  <2>1. hwpx' \in Files \cup {None} /\ silent' \in 0..MaxSilent
    BY <1>18, SavedType DEF SaveFinal
  <2> QED  BY <1>18, <2>1 DEF SaveFinal
<1>19. CASE Validate  BY <1>19 DEF Validate
<1>20. CASE Finish
  <2>1. editors' \in Nat /\ faults' \in Nat  BY <1>20 DEF Finish, QuitAtEnd
  <2> QED  BY <1>20, <2>1 DEF Finish
<1>21. CASE ChildFails
  <2>1. doc' \in Seq(Dids) /\ tries' \in 0..(Primitives - 1)  BY <1>21 DEF ChildFails
  <2>2. editors' \in Nat /\ faults' \in Nat  BY <1>21 DEF ChildFails, QuitAtEnd
  <2>3. exit' \in [code : {0, 1}, native : BOOLEAN]  BY <1>21 DEF ChildFails
  <2> QED  BY <1>21, <2>1, <2>2, <2>3 DEF ChildFails
<1>22. CASE ChildTimesOut
  <2>1. editors' \in Nat /\ faults' \in Nat  BY <1>22 DEF ChildTimesOut, Surviving
  <2>2. PICK saves \in {{}, InFlight} : pending' = pending \cup saves  BY <1>22 DEF ChildTimesOut
  <2>3. File \in Files  BY <1>22, <1>f DEF ChildTimesOut
  <2>4. saves \subseteq [to : {"pdf", "hwpx"}, file : Files]  BY <2>2, <2>3 DEF InFlight
  <2>5. pending' \subseteq [to : {"pdf", "hwpx"}, file : Files]  BY <2>2, <2>4
  <2>6. doc' \in Seq(Dids) /\ tries' \in 0..(Primitives - 1)  BY <1>22 DEF ChildTimesOut
  <2> QED  BY <1>22, <2>1, <2>5, <2>6 DEF ChildTimesOut
<1>23. CASE ColdRetry  BY <1>23 DEF ColdRetry
<1>24. CASE Succeed  BY <1>24 DEF Succeed
<1>25. CASE GiveUp  BY <1>25 DEF GiveUp
<1>26. CASE Fail  BY <1>26 DEF Fail, Requeued
<1>27. CASE UNCHANGED vars  BY <1>27 DEF vars
<1>28. CASE LateSave
  <2>1. PICK save \in pending :
          /\ pdf' = (IF save.to = "pdf" THEN save.file ELSE pdf)
          /\ hwpx' = (IF save.to = "hwpx" THEN save.file ELSE hwpx)
          /\ pending' = pending \ {save}
    BY <1>28 DEF LateSave
  <2>2. save.file \in Files  BY <2>1
  <2> QED  BY <1>28, <2>1, <2>2 DEF LateSave
<1> QED
  BY <1>1, <1>2, <1>3, <1>4, <1>5, <1>6, <1>7, <1>8, <1>9, <1>10, <1>11, <1>12, <1>13, <1>14,
     <1>15, <1>16, <1>17, <1>18, <1>19, <1>20, <1>21, <1>22, <1>23, <1>24, <1>25, <1>26, <1>27, <1>28
     DEF Next, Child, Done

-----------------------------------------------------------------------------
\* Row, parent and child hand the job to one another.
LEMMA ControlStep == TypeOK /\ ControlOK /\ [Next]_vars => ControlOK'
<1> SUFFICES ASSUME TypeOK, ControlOK, [Next]_vars PROVE ControlOK'
  OBVIOUS
<1> USE DEF ControlOK, Goto, Gone, rowVars, childVars, appVars
<1>t. editors \in Nat  BY DEF TypeOK
<1>1. CASE Claim
  <2>1. attempts' >= 1  BY <1>1 DEF Claim, TypeOK
  <2> QED  BY <1>1, <2>1 DEF Claim
<1>2. CASE Launch  BY <1>2 DEF Launch
<1>3. CASE Preflight \/ Load \/ CreateInstance \/ OpenDocument \/ SaveBaseline
  BY <1>3, <1>t DEF Preflight, Load, CreateInstance, OpenDocument, SaveBaseline
<1>4. CASE ApplyOperation \/ OperationsApplied \/ MatchBlockers
  BY <1>4 DEF ApplyOperation, OperationsApplied, MatchBlockers
<1>5. CASE SaveForProof \/ CloseForReopen \/ Reopen \/ Prove
  BY <1>5, <1>t DEF SaveForProof, CloseForReopen, Reopen, Prove
<1>6. CASE ExportPdf \/ ExportRaises \/ SaveFinal \/ Validate
  BY <1>6 DEF ExportPdf, ExportRaises, SaveFinal, Validate
<1>7. CASE StartFails \/ Finish \/ ChildFails \/ ChildTimesOut
  <2>1. point' = "none" /\ hwp' = "none" /\ parent' \in {"judging", "failing"} /\ parent = "waiting"
        /\ UNCHANGED rowVars
    BY <1>7 DEF StartFails, Unheld, Finish, ChildFails, ChildTimesOut
  <2> QED  BY <2>1
<1>8. CASE ColdRetry \/ Succeed \/ GiveUp \/ Fail
  BY <1>8 DEF ColdRetry, Succeed, GiveUp, Fail, Requeued
<1>9. CASE UNCHANGED vars \/ LateSave  BY <1>9 DEF vars, LateSave
<1> QED
  BY <1>1, <1>2, <1>3, <1>4, <1>5, <1>6, <1>7, <1>8, <1>9 DEF Next, Child, Done

\* The steps that start, quit or lose an editor keep the account.
LEMMA AccountStep == TypeOK /\ ControlOK /\ Accounted /\ [Next]_vars => Accounted'
<1> SUFFICES ASSUME TypeOK, ControlOK, Accounted, [Next]_vars PROVE Accounted'
  OBVIOUS
<1> USE DEF Accounted, Ran, ControlOK, Goto, Gone, rowVars, childVars, appVars
<1>t. editors \in Nat /\ faults \in Nat /\ attempts \in Nat
  BY EditJobAssumption DEF TypeOK
<1>1. CASE Claim  BY <1>1, <1>t DEF Claim
<1>2. CASE Launch  BY <1>2, <1>t DEF Launch
<1>3. CASE CreateInstance  BY <1>3, <1>t DEF CreateInstance
<1>4. CASE CloseForReopen \/ Reopen  BY <1>4, <1>t DEF CloseForReopen, Reopen
<1>5. CASE StartFails  BY <1>5, <1>t DEF StartFails, Unheld
<1>6. CASE Finish \/ ChildFails  BY <1>6, <1>t DEF Finish, ChildFails, QuitAtEnd
<1>7. CASE ChildTimesOut  BY <1>7, <1>t DEF ChildTimesOut, Surviving, Unheld
<1>8. CASE ColdRetry \/ Succeed \/ GiveUp \/ Fail
  BY <1>8, <1>t DEF ColdRetry, Succeed, GiveUp, Fail, Requeued
<1>9. CASE UNCHANGED <<editors, faults, hwp, parent, attempts, retried>>
  BY <1>9
<1>10. \/ Claim \/ Launch \/ CreateInstance \/ CloseForReopen \/ Reopen \/ StartFails
       \/ Finish \/ ChildFails \/ ChildTimesOut \/ ColdRetry \/ Succeed \/ GiveUp \/ Fail
       \/ UNCHANGED <<editors, faults, hwp, parent, attempts, retried>>
  BY DEF Next, Child, Done, vars, LateSave, Preflight, Load, OpenDocument, SaveBaseline,
         ApplyOperation, OperationsApplied, MatchBlockers, SaveForProof, Prove, ExportPdf,
         ExportRaises, SaveFinal, Validate
<1> QED  BY <1>1, <1>2, <1>3, <1>4, <1>5, <1>6, <1>7, <1>8, <1>9, <1>10

-----------------------------------------------------------------------------
\* What a save leaves is a whole document if the one in the child is whole.
LEMMA SavedWhole ==
    ASSUME DocumentOK, Len(doc) = Len(job.ops), NEW f, NEW g, Whole(f), Saved(f, g)
    PROVE  Whole(g)
BY DEF DocumentOK, Saved, File, Whole

\* No step changes the job.
LEMMA JobKept == [Next]_vars => job' = job
BY DEF Next, Child, Done, vars, Goto, Claim, Launch, Preflight, Load, CreateInstance,
       OpenDocument, SaveBaseline, ApplyOperation, OperationsApplied, MatchBlockers,
       LateSave, SaveForProof, CloseForReopen, Reopen, StartFails, Prove, ExportPdf, ExportRaises,
       SaveFinal, Validate, Finish, ChildFails, ChildTimesOut, ColdRetry, Succeed, GiveUp, Fail

\* The document gains one operation at a time, and never what the operation cannot have done.
LEMMA DocumentStep ==
    TypeOK /\ DocumentOK /\ WholeOK /\ job \in Jobs /\ [Next]_vars => DocumentOK'
<1> SUFFICES ASSUME TypeOK, DocumentOK, WholeOK, job \in Jobs, [Next]_vars PROVE DocumentOK'
  OBVIOUS
<1>0. job' = job /\ Len(job.ops) \in Nat  BY JobKept, EditJobAssumption
<1>z. ZeroMatch' = ZeroMatch  BY <1>0 DEF ZeroMatch
<1>n. (point' = "none" \/ (point' = point /\ (point = "reopening" => hwpx' = hwpx))) /\ doc' = doc
         => DocumentOK'
  BY <1>0, <1>z DEF DocumentOK, Full
<1> USE DEF Goto, rowVars, childVars, fileVars
<1>g. point' = "none" /\ doc' = <<>> => DocumentOK'
  BY <1>0 DEF DocumentOK, Full
<1>1. CASE Claim \/ ColdRetry \/ Succeed \/ GiveUp \/ Fail \/ UNCHANGED vars
  BY <1>1, <1>n DEF Claim, ColdRetry, Succeed, GiveUp, Fail, vars
<1>2. CASE Launch  BY <1>2, <1>0 DEF Launch, DocumentOK, Full
<1>3. CASE Preflight \/ Load \/ CreateInstance \/ SaveBaseline
  BY <1>3, <1>0, <1>z DEF Preflight, Load, CreateInstance, SaveBaseline, DocumentOK, Full
<1>4. CASE OpenDocument
  <2>1. CASE job.task = "convert"
    <3>1. job.ops = <<>>  BY <2>1, EditJobAssumption
    <3>2. Len(job.ops) = 0 /\ ~ZeroMatch  BY <3>1 DEF ZeroMatch
    <3>3. Len(doc) \in Nat  BY DEF TypeOK
    <3>4. Len(doc) = Len(job.ops)  BY <3>2, <3>3 DEF DocumentOK
    <3> QED  BY <1>0, <1>z, <1>4, <2>1, <3>2, <3>4 DEF OpenDocument, DocumentOK, Full
  <2>2. CASE job.task # "convert"
    BY <1>0, <1>z, <1>4, <2>2 DEF OpenDocument, DocumentOK, Full
  <2> QED  BY <2>1, <2>2
<1>5. CASE ApplyOperation
  <2>1. PICK d \in Dids : d \in job.ops[Len(doc) + 1].may /\ doc' = Append(doc, d)
    BY <1>5 DEF ApplyOperation
  <2>2. doc \in Seq(Dids)  BY DEF TypeOK
  <2>3. Len(doc') = Len(doc) + 1 /\ DOMAIN doc' = 1..(Len(doc) + 1)  BY <2>1, <2>2
  <2>4. \A i \in DOMAIN doc' : doc'[i] \in job.ops[i].may
    <3> TAKE i \in DOMAIN doc'
    <3>1. CASE i = Len(doc) + 1  BY <2>1, <2>2, <3>1
    <3>2. CASE i # Len(doc) + 1
      <4>1. i \in DOMAIN doc /\ doc'[i] = doc[i]  BY <2>1, <2>2, <2>3, <3>2
      <4> QED  BY <4>1 DEF DocumentOK
    <3> QED  BY <3>1, <3>2
  <2>5. Len(doc') <= Len(job'.ops)  BY <1>0, <1>5, <2>2, <2>3 DEF ApplyOperation
  <2>6. point' = "editing"  BY <1>5 DEF ApplyOperation
  <2> QED  BY <1>0, <2>4, <2>5, <2>6 DEF DocumentOK, Full
<1>6. CASE OperationsApplied  BY <1>6, <1>0 DEF OperationsApplied, DocumentOK, Full
<1>7. CASE MatchBlockers  BY <1>7, <1>0, <1>z DEF MatchBlockers, DocumentOK, Full
<1>8. CASE SaveForProof  BY <1>8, <1>0, <1>z DEF SaveForProof, DocumentOK, Full
<1>9. CASE CloseForReopen  BY <1>9, <1>n DEF CloseForReopen
<1>10. CASE Reopen
  <2>1. hwpx # None /\ doc' = hwpx.doc /\ point' = "proving" /\ point = "reopening"
    BY <1>10 DEF Reopen, DocumentOK
  <2>2. Len(doc') = Len(job.ops) /\ \A i \in DOMAIN doc' : doc'[i] \in job.ops[i].may
    BY <2>1 DEF WholeOK, Whole
  <2>3. ~ZeroMatch  BY <2>1 DEF DocumentOK, Full
  <2> QED  BY <1>0, <1>z, <2>1, <2>2, <2>3 DEF DocumentOK, Full
<1>11. CASE StartFails \/ Finish \/ ChildFails \/ ChildTimesOut
  BY <1>11, <1>n, <1>g DEF StartFails, Finish, ChildFails, ChildTimesOut, Gone
<1>12. CASE Prove \/ SaveFinal \/ Validate
  BY <1>12, <1>0, <1>z DEF Prove, SaveFinal, Validate, DocumentOK, Full
<1>13. CASE ExportPdf  BY <1>13, <1>0, <1>z DEF ExportPdf, DocumentOK, Full
<1>14. CASE ExportRaises  BY <1>14, <1>0, <1>z DEF ExportRaises, DocumentOK, Full
<1>15. CASE LateSave
  <2>1. point' = point /\ doc' = doc  BY <1>15 DEF LateSave
  <2>2. hwpx # None => hwpx' # None
    <3>1. PICK save \in pending : hwpx' = (IF save.to = "hwpx" THEN save.file ELSE hwpx)
      BY <1>15 DEF LateSave
    <3>2. save.file \in Files  BY <3>1 DEF TypeOK
    <3> QED  BY <3>1, <3>2, FilesAreNotNone
  <2> QED  BY <1>0, <1>z, <2>1, <2>2 DEF DocumentOK
<1> QED
  BY <1>1, <1>2, <1>3, <1>4, <1>5, <1>6, <1>7, <1>8, <1>9, <1>10, <1>11, <1>12, <1>13, <1>14, <1>15
     DEF Next, Child, Done

\* Only a whole document is written.
LEMMA WholeStep == TypeOK /\ DocumentOK /\ WholeOK /\ [Next]_vars => WholeOK'
<1> SUFFICES ASSUME TypeOK, DocumentOK, WholeOK, [Next]_vars PROVE WholeOK'
  OBVIOUS
<1>0. job' = job  BY JobKept
<1>z. ZeroMatch' = ZeroMatch  BY <1>0 DEF ZeroMatch
<1>w. /\ Whole(pdf') => Whole(pdf)'
      /\ Whole(hwpx') => Whole(hwpx)'
      /\ \A save : Whole(save.file) => Whole(save.file)'
  BY <1>0 DEF Whole
<1> USE DEF Goto, appVars
<1>1. CASE UNCHANGED <<fileVars, pending>>
  BY <1>1, <1>0, <1>z, <1>w DEF fileVars, WholeOK
<1>2. CASE SaveForProof
  <2>1. Len(doc) = Len(job.ops) /\ ~ZeroMatch  BY <1>2 DEF SaveForProof, DocumentOK, Full
  <2>2. Saved(hwpx, hwpx') /\ pdf' = pdf  BY <1>2 DEF SaveForProof
  <2>3. Whole(hwpx')  BY <2>1, <2>2, SavedWhole DEF WholeOK
  <2>4. pending' = pending  BY <1>2 DEF SaveForProof
  <2> QED  BY <1>0, <1>z, <1>w, <2>1, <2>2, <2>3, <2>4 DEF WholeOK
<1>3. CASE ExportPdf \/ ExportRaises
  <2>1. Len(doc) = Len(job.ops) /\ ~ZeroMatch
    BY <1>3 DEF ExportPdf, ExportRaises, DocumentOK, Full
  <2>2. hwpx' = hwpx  BY <1>3 DEF ExportPdf, ExportRaises, fileVars
  <2>3. Whole(File) /\ pending' = pending
    BY <1>3, <2>1 DEF DocumentOK, Whole, File, ExportPdf, ExportRaises
  <2>4. pdf' \in {pdf, File}  BY <1>3 DEF ExportPdf, ExportRaises, Saved
  <2>5. Whole(pdf')  BY <2>3, <2>4 DEF WholeOK
  <2> QED  BY <1>0, <1>z, <1>w, <2>1, <2>2, <2>3, <2>5 DEF WholeOK
<1>4. CASE SaveFinal
  <2>1. Len(doc) = Len(job.ops) /\ ~ZeroMatch  BY <1>4 DEF SaveFinal, DocumentOK, Full
  <2>2. pdf' = pdf  BY <1>4 DEF SaveFinal
  <2>3. hwpx' \in {hwpx, File}  BY <1>4 DEF SaveFinal, Saved
  <2>4. Whole(File) /\ pending' = pending
    BY <1>4, <2>1 DEF DocumentOK, Whole, File, SaveFinal
  <2>5. Whole(hwpx')  BY <2>3, <2>4 DEF WholeOK
  <2> QED  BY <1>0, <1>z, <1>w, <2>1, <2>2, <2>4, <2>5 DEF WholeOK
<1>5. CASE ChildTimesOut
  <2>1. PICK saves \in {{}, InFlight} : pending' = pending \cup saves  BY <1>5 DEF ChildTimesOut
  <2>2. ASSUME NEW save \in saves PROVE Whole(save.file) /\ ~ZeroMatch
    <3>1. save.file = File /\ point \in {"exporting", "saving", "finishing"}  BY <2>1, <2>2 DEF InFlight
    <3> QED  BY <3>1 DEF DocumentOK, Full, Whole, File
  <2>3. UNCHANGED fileVars  BY <1>5 DEF ChildTimesOut
  <2>4. \A save \in pending' : Whole(save.file) /\ ~ZeroMatch  BY <2>1, <2>2 DEF WholeOK
  <2> QED  BY <1>0, <1>z, <1>w, <2>3, <2>4 DEF WholeOK, fileVars
<1>6. CASE LateSave
  <2>1. PICK save \in pending :
          /\ pdf' = (IF save.to = "pdf" THEN save.file ELSE pdf)
          /\ hwpx' = (IF save.to = "hwpx" THEN save.file ELSE hwpx)
          /\ pending' = pending \ {save}
    BY <1>6 DEF LateSave
  <2>2. Whole(pdf') /\ Whole(hwpx') /\ ~ZeroMatch  BY <2>1 DEF WholeOK
  <2> QED  BY <1>0, <1>z, <1>w, <2>1, <2>2 DEF WholeOK
<1>7. \/ UNCHANGED <<fileVars, pending>>
      \/ SaveForProof \/ ExportPdf \/ ExportRaises \/ SaveFinal \/ ChildTimesOut \/ LateSave
  BY DEF Next, Child, Done, vars, fileVars, Claim, Launch, Preflight, Load, CreateInstance,
         OpenDocument, SaveBaseline, ApplyOperation, OperationsApplied, MatchBlockers,
         CloseForReopen, Reopen, StartFails, Prove, Validate, Finish, ChildFails,
         ColdRetry, Succeed, GiveUp, Fail
<1> QED  BY <1>1, <1>2, <1>3, <1>4, <1>5, <1>6, <1>7

-----------------------------------------------------------------------------
\* A save that the run noticed is of this run's document.
LEMMA SavedFresh ==
    ASSUME TypeOK, NEW f, NEW g, Saved(f, g), g # None, Run' = Run, doc' = doc
    PROVE  g # None /\ (Seen' => g.run = Run' /\ g.doc = doc')
<1>1. silent \in Nat  BY EditJobAssumption DEF TypeOK
<1>2. CASE g = File
  <2>1. g.run = Run /\ g.doc = doc  BY <1>2 DEF File
  <2> QED  BY <2>1
<1>3. CASE silent' = silent + 1
  <2>1. ~Seen'  BY <1>1, <1>3 DEF Seen
  <2> QED  BY <2>1
<1> QED  BY <1>2, <1>3 DEF Saved

\* A late save takes no file away.
LEMMA LateIsFile ==
    ASSUME TypeOK, LateSave PROVE (pdf # None => pdf' # None) /\ (hwpx # None => hwpx' # None)
<1>1. PICK save \in pending : /\ pdf' = (IF save.to = "pdf" THEN save.file ELSE pdf)
                              /\ hwpx' = (IF save.to = "hwpx" THEN save.file ELSE hwpx)
  BY DEF LateSave
<1>2. save.file \in Files  BY <1>1 DEF TypeOK
<1> QED  BY <1>1, <1>2, FilesAreNotNone

\* The files of a run that goes on are its own.
LEMMA FreshStep ==
    TypeOK /\ ControlOK /\ FreshOK /\ job \in Jobs /\ [Next]_vars => FreshOK'
<1> SUFFICES ASSUME TypeOK, ControlOK, FreshOK, job \in Jobs, [Next]_vars PROVE FreshOK'
  OBVIOUS
<1>0. job' = job /\ EditJobOf' = EditJobOf /\ Proved' = Proved  BY JobKept DEF EditJobOf, Proved
<1>1. job.task \in {"convert", "edit_and_convert"}  BY EditJobAssumption
<1> USE DEF Goto, appVars, Seen
<1>2. CASE UNCHANGED <<point, fileVars, silent, landed, doc, attempts, retried>>
  BY <1>0, <1>2 DEF fileVars, FreshOK, Fresh, Run
<1>3. CASE point' \in {"none", "preflight", "loading", "starting", "opening", "baseline", "editing",
                       "matching", "saving"}
  BY <1>3 DEF FreshOK
<1>4. CASE OpenDocument
  BY <1>0, <1>1, <1>4 DEF OpenDocument, FreshOK, Proved, EditJobOf
<1>5. CASE MatchBlockers  BY <1>0, <1>5 DEF MatchBlockers, FreshOK, Proved
<1>6. CASE SaveForProof
  <2>1. Run' = Run /\ doc' = doc  BY <1>6 DEF SaveForProof, Run, rowVars
  <2>2. Fresh(hwpx)'  BY <1>6, <2>1, SavedFresh DEF SaveForProof, Fresh
  <2>3. point' \in {"reopening", "proving"}  BY <1>6 DEF SaveForProof
  <2> QED  BY <2>2, <2>3 DEF FreshOK
<1>7. CASE Reopen
  <2>1. Fresh(hwpx)  BY <1>7 DEF Reopen, FreshOK
  <2>2. Run' = Run /\ doc' = hwpx.doc /\ hwpx' = hwpx /\ silent' = silent /\ landed' = landed
    BY <1>7 DEF Reopen, Run, rowVars, fileVars
  <2>3. Fresh(hwpx)'  BY <2>1, <2>2 DEF Fresh
  <2>4. point' = "proving"  BY <1>7 DEF Reopen
  <2> QED  BY <2>3, <2>4 DEF FreshOK
<1>8. CASE Prove
  <2>1. Fresh(hwpx)  BY <1>8 DEF Prove, FreshOK
  <2>2. Fresh(hwpx)'  BY <1>8, <2>1 DEF Prove, Fresh, Run, rowVars, fileVars
  <2> QED  BY <1>8, <2>2 DEF Prove, FreshOK
<1>9. CASE ExportPdf
  <2>1. Run' = Run /\ doc' = doc /\ hwpx' = hwpx /\ landed' = landed  BY <1>9 DEF ExportPdf, Run, rowVars
  <2>2. Fresh(pdf)'  BY <1>9, <2>1, SavedFresh DEF ExportPdf, Fresh
  <2>3. Proved => Fresh(hwpx)  BY <1>9 DEF ExportPdf, FreshOK
  <2>4. silent' = silent \/ silent' = silent + 1  BY <1>9 DEF ExportPdf, Saved
  <2>5. silent \in Nat  BY EditJobAssumption DEF TypeOK
  <2>6. Proved => Fresh(hwpx)'  BY <2>1, <2>3, <2>4, <2>5 DEF Fresh
  <2>7. CASE job.task = "convert"
    BY <1>0, <1>9, <2>2, <2>7 DEF ExportPdf, FreshOK, EditJobOf
  <2>8. CASE job.task # "convert"
    BY <1>0, <1>1, <1>9, <2>2, <2>6, <2>8 DEF ExportPdf, FreshOK, EditJobOf
  <2> QED  BY <2>7, <2>8
<1>10. CASE ExportRaises
  <2>1. Proved => Fresh(hwpx)  BY <1>10 DEF ExportRaises, FreshOK
  <2>2. Proved => Fresh(hwpx)'  BY <1>10, <2>1 DEF ExportRaises, Fresh, Run, rowVars
  <2>3. point' = "exporting"  BY <1>10 DEF ExportRaises
  <2> QED  BY <1>0, <2>2, <2>3 DEF FreshOK
<1>11. CASE SaveFinal
  <2>1. Run' = Run /\ doc' = doc /\ pdf' = pdf /\ landed' = landed /\ point = "finishing" /\ point' = "validating"
    BY <1>11 DEF SaveFinal, Run, rowVars
  <2>2. Fresh(pdf) /\ EditJobOf  BY <2>1 DEF FreshOK
  <2>3. silent \in Nat  BY EditJobAssumption DEF TypeOK
  <2>4. silent' = silent \/ silent' = silent + 1  BY <1>11 DEF SaveFinal, Saved
  <2>5. Fresh(pdf)'  BY <2>1, <2>2, <2>3, <2>4 DEF Fresh
  <2>6. job.proof = "none" => Fresh(hwpx)'
    BY <1>11, <2>1, SavedFresh DEF SaveFinal, Fresh
  <2>7. ASSUME job.proof # "none" PROVE Fresh(hwpx)'
    <3>1. Fresh(hwpx)  BY <2>1, <2>2, <2>7 DEF FreshOK, Proved
    <3>2. hwpx' = hwpx /\ silent' = silent  BY <1>11, <2>7 DEF SaveFinal
    <3> QED  BY <2>1, <3>1, <3>2 DEF Fresh
  <2>8. Fresh(hwpx)'  BY <2>6, <2>7 DEF Fresh
  <2> QED  BY <1>0, <2>1, <2>2, <2>5, <2>8 DEF FreshOK
<1>12. CASE Validate
  <2>1. Fresh(pdf) /\ Fresh(hwpx)  BY <1>12 DEF Validate, FreshOK
  <2>2. Fresh(pdf)' /\ Fresh(hwpx)'  BY <1>12, <2>1 DEF Validate, Fresh, Run, rowVars, fileVars
  <2>3. point' = "done"  BY <1>12 DEF Validate
  <2> QED  BY <2>2, <2>3 DEF FreshOK
<1>13. CASE Claim \/ Launch \/ ColdRetry
  BY <1>3, <1>13 DEF Claim, Launch, ColdRetry, ControlOK, childVars
<1>14. CASE Preflight \/ Load \/ CreateInstance \/ SaveBaseline \/ ApplyOperation \/ OperationsApplied
  BY <1>3, <1>14 DEF Preflight, Load, CreateInstance, SaveBaseline, ApplyOperation, OperationsApplied
<1>15. CASE StartFails \/ Finish \/ ChildFails \/ ChildTimesOut
  BY <1>3, <1>15 DEF StartFails, Finish, ChildFails, ChildTimesOut, Gone
<1>16. CASE CloseForReopen \/ Succeed \/ GiveUp \/ Fail \/ UNCHANGED vars
  BY <1>2, <1>16 DEF CloseForReopen, Succeed, GiveUp, Fail, Requeued, vars, rowVars, childVars, fileVars
<1>17. CASE LateSave
  <2>1. landed' = TRUE /\ point' = point  BY <1>17 DEF LateSave, childVars
  <2>2. (pdf # None => pdf' # None) /\ (hwpx # None => hwpx' # None)  BY <1>17, LateIsFile
  <2> QED  BY <1>0, <2>1, <2>2 DEF FreshOK, Fresh
<1> QED
  BY <1>4, <1>5, <1>6, <1>7, <1>8, <1>9, <1>10, <1>11, <1>12, <1>13, <1>14, <1>15, <1>16, <1>17
     DEF Next, Child, Done

-----------------------------------------------------------------------------
\* What a run that ended well leaves, and the row that succeeded by it.
LEMMA DeliveryStep ==
    TypeOK /\ ControlOK /\ FreshOK /\ DeliveryOK /\ job \in Jobs /\ [Next]_vars => DeliveryOK'
<1> SUFFICES ASSUME TypeOK, ControlOK, FreshOK, DeliveryOK, job \in Jobs, [Next]_vars
             PROVE  DeliveryOK'
  OBVIOUS
<1>0. job' = job /\ EditJobOf' = EditJobOf /\ Proved' = Proved  BY JobKept DEF EditJobOf, Proved
<1>1. job.task \in {"convert", "edit_and_convert"}  BY EditJobAssumption
<1>c. parent # "idle" => status = "running"  BY DEF ControlOK
<1> USE DEF Goto, Gone, appVars
<1>2. CASE UNCHANGED vars
  BY <1>0, <1>2 DEF vars, rowVars, fileVars, childVars, DeliveryOK, Together, Run, Seen
<1>3. CASE Claim \/ Launch \/ ColdRetry
  BY <1>c, <1>3 DEF Claim, Launch, ColdRetry, ControlOK, DeliveryOK, rowVars, childVars
<1>4. ASSUME point' \notin {"exporting", "finishing", "validating", "done"},
             parent' = "waiting", status' = status, point # "none"
      PROVE  DeliveryOK'
  BY <1>4, <1>c DEF DeliveryOK, ControlOK
<1>5. CASE Preflight \/ Load \/ CreateInstance \/ SaveBaseline \/ ApplyOperation \/ OperationsApplied
           \/ SaveForProof \/ CloseForReopen \/ Reopen
  BY <1>4, <1>5 DEF Preflight, Load, CreateInstance, SaveBaseline, ApplyOperation,
                    OperationsApplied, SaveForProof, CloseForReopen, Reopen, ControlOK, rowVars
<1>6. CASE OpenDocument \/ MatchBlockers
  BY <1>0, <1>1, <1>c, <1>6 DEF OpenDocument, MatchBlockers, DeliveryOK, ControlOK, rowVars, Proved,
                            EditJobOf
<1>7. CASE Prove
  BY <1>0, <1>c, <1>7 DEF Prove, DeliveryOK, ControlOK, rowVars, fileVars
<1>8. CASE ExportPdf \/ ExportRaises
  BY <1>0, <1>c, <1>8 DEF ExportPdf, ExportRaises, DeliveryOK, ControlOK, rowVars
<1>9. CASE SaveFinal \/ Validate
  BY <1>0, <1>c, <1>9 DEF SaveFinal, Validate, DeliveryOK, ControlOK, rowVars, fileVars, Proved
<1>10. CASE Finish
  <2>1. point = "done" /\ status' = status /\ status = "running" /\ point' = "none"
    BY <1>c, <1>10 DEF Finish, ControlOK, rowVars
  <2>2. UNCHANGED <<pdf, hwpx, proved, silent, landed, attempts, retried>>
    BY <1>10 DEF Finish, rowVars, fileVars
  <2>3. Fresh(pdf) /\ (EditJobOf => Fresh(hwpx))  BY <2>1 DEF FreshOK
  <2>4. Together  BY <2>3 DEF Together, Fresh
  <2>5. Together'  BY <1>0, <2>2, <2>4 DEF Together, Run, Seen
  <2>6. Proved /\ ~landed => hwpx = proved  BY <2>1 DEF DeliveryOK
  <2> QED  BY <1>0, <2>1, <2>2, <2>5, <2>6 DEF DeliveryOK
<1>11. CASE StartFails \/ ChildFails \/ ChildTimesOut
  <2>1. point' = "none" /\ status' = status /\ status = "running" /\ parent' \in {"judging", "failing"}
    BY <1>c, <1>11 DEF StartFails, Unheld, ChildFails, ChildTimesOut, ControlOK, rowVars
  <2>2. parent' = "judging" => exit'.code = 1
    BY <1>11 DEF StartFails, ChildFails, ChildTimesOut
  <2> QED  BY <2>1, <2>2 DEF DeliveryOK
<1>12. CASE Succeed
  <2>1. exit.code = 0 /\ pdf # None /\ parent = "judging"  BY <1>12 DEF Succeed, Delivered
  <2>2. Together /\ (Proved /\ ~landed => hwpx = proved)  BY <2>1 DEF DeliveryOK
  <2>3. UNCHANGED <<pdf, hwpx, proved, silent, landed, attempts, retried, exit, point>>
    BY <1>12 DEF Succeed, fileVars, childVars
  <2>4. Together' /\ (Proved /\ ~landed => hwpx = proved)'
    BY <1>0, <2>2, <2>3 DEF Together, Run, Seen
  <2>5. point' = "none"  BY <2>1, <2>3 DEF ControlOK
  <2> QED  BY <2>1, <2>3, <2>4, <2>5 DEF DeliveryOK
<1>13. CASE GiveUp \/ Fail
  BY <1>c, <1>13 DEF GiveUp, Fail, Requeued, DeliveryOK, ControlOK, rowVars, childVars
<1>14. CASE LateSave
  <2>1. landed' /\ UNCHANGED <<point, parent, status, exit>>
    BY <1>14 DEF LateSave, childVars, rowVars
  <2>2. (pdf # None => pdf' # None) /\ (hwpx # None => hwpx' # None)  BY <1>14, LateIsFile
  <2>3. Together => Together'  BY <1>0, <2>1, <2>2 DEF Together, Seen
  <2> QED  BY <1>0, <2>1, <2>3 DEF DeliveryOK
<1> QED
  BY <1>2, <1>3, <1>5, <1>6, <1>7, <1>8, <1>9, <1>10, <1>11, <1>12, <1>13, <1>14 DEF Next, Child, Done

-----------------------------------------------------------------------------
LEMMA Inductive == Spec => [](Inv /\ job \in Jobs)
<1>1. Init => Inv /\ job \in Jobs
  <2> SUFFICES ASSUME Init PROVE Inv /\ job \in Jobs
    OBVIOUS
  <2> USE EditJobAssumption DEF Init
  <2>1. doc \in Seq(Dids) /\ Len(doc) = 0 /\ DOMAIN doc = {}  OBVIOUS
  <2>2. tries \in 0..(Primitives - 1) /\ attempts \in 0..MaxAttempts /\ silent \in 0..MaxSilent
    OBVIOUS
  <2>3. TypeOK  BY <2>1, <2>2 DEF TypeOK, Points, NoExit
  <2>4. ControlOK /\ Accounted  BY DEF ControlOK, Accounted, Ran
  <2>5. DocumentOK  BY <2>1 DEF DocumentOK, Full
  <2>6. WholeOK  BY DEF WholeOK, Whole
  <2>7. FreshOK /\ DeliveryOK  BY DEF FreshOK, DeliveryOK
  <2> QED  BY <2>3, <2>4, <2>5, <2>6, <2>7 DEF Inv
<1>2. Inv /\ job \in Jobs /\ [Next]_vars => (Inv /\ job \in Jobs)'
  BY TypeStep, ControlStep, AccountStep, DocumentStep, WholeStep, FreshStep, DeliveryStep, JobKept
     DEF Inv
<1> QED  BY <1>1, <1>2, PTL DEF Spec

\* The job's row and the state of its child are well formed; a file in its output is the
\* whole document of some run, each operation as it may have ended; every editor that runs
\* is the child's or was left by a run that was killed, failed at the start of one or could
\* not quit it, two of an attempt at most.  For every job and number of attempts
\* (handle_job, convert and edit_and_convert with their finally, kill_hwp_runtime).
THEOREM OutputIsWhole == Spec => []FilesAreWhole
<1>1. Inv => InstancesAccounted
  <2> SUFFICES ASSUME Inv PROVE InstancesAccounted
    OBVIOUS
  <2>1. attempts \in Nat /\ faults \in Nat  BY EditJobAssumption DEF Inv, TypeOK
  <2> QED  BY <2>1 DEF Inv, Accounted, InstancesAccounted, Ran
<1>2. Inv => FilesAreWhole  BY <1>1 DEF Inv, FilesAreWhole, WholeOK
<1> QED  BY <1>2, Inductive, PTL

\* A job that succeeded delivers the files of the run that succeeded, unless a save went
\* unnoticed or the editor of a killed run finished one since (handle_job, _run_child).
THEOREM SuccessIsOneRun == Spec => []DeliveredTogether
<1>1. Inv => DeliveredTogether
  BY DEF Inv, DeliveryOK, Together, DeliveredTogether, EditJobOf, Seen
<1> QED  BY <1>1, Inductive, PTL

\* The HWPX of a job with a proof is the file that was proved, unless the editor of a killed
\* run replaced it (edit_and_convert).
THEOREM ProofIsOfTheFile == Spec => []ProvedIsDelivered
<1>1. Inv => ProvedIsDelivered  BY DEF Inv, DeliveryOK, Proved, EditJobOf, ProvedIsDelivered
<1> QED  BY <1>1, Inductive, PTL

-----------------------------------------------------------------------------
\* What 'reads' stands for: an operation whose request lets it see a silent failure does not
\* end with one.  EditOperations computes 'may' from the programs, with the readbacks in
\* them that the request asks for, and FilesAreWhole's run evaluates it for every operation.
ReadsBack ==
    \A j \in Jobs : \A i \in DOMAIN j.ops :
        /\ j.ops[i].reads # "nothing" => "none" \notin j.ops[i].may
        /\ j.ops[i].reads = "all" => "short" \notin j.ops[i].may

\* What was read back in the child is in every file, whatever run wrote it: no retry, kill,
\* silent or late save delivers a document in which it did not happen
\* (_safe_replace_matches, _selected_text_matches_expected, _apply_control_delete_by_anchor).
THEOREM ReadBackIsInFiles == ASSUME ReadsBack PROVE Spec => []ReadBackIsDelivered
<1>1. Inv /\ job \in Jobs => ReadBackIsDelivered
  <2> SUFFICES ASSUME Inv, job \in Jobs, NEW f \in {pdf, hwpx}, f # None, NEW i \in DOMAIN f.doc
               PROVE  /\ job.ops[i].reads # "nothing" => f.doc[i] # "none"
                      /\ job.ops[i].reads = "all" => f.doc[i] # "short"
    BY DEF ReadBackIsDelivered
  <2>1. Len(f.doc) = Len(job.ops) /\ f.doc[i] \in job.ops[i].may  BY DEF Inv, WholeOK, Whole
  <2>2. i \in DOMAIN job.ops
    <3>1. f \in Files  BY DEF Inv, TypeOK
    <3>2. f.doc \in Seq(Dids)  BY <3>1 DEF Files
    <3> QED  BY <2>1, <3>2
  <2> QED  BY <2>1, <2>2 DEF ReadsBack
<1> QED  BY <1>1, Inductive, PTL
=============================================================================
