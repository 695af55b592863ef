------------------------ MODULE SessionBindingProofs ------------------------
(***************************************************************************)
(* Proofs about SessionBinding for every set of request threads and        *)
(* sessions and any number of requests, failing writes and restarts:       *)
(* types, the two projections as one commit, that a closed session is gone *)
(* for good, that commits only advance, and that the result of a command   *)
(* that timed out survives: every record tells the truth about the late    *)
(* command, a late result that is committed as pending is named by every   *)
(* record of its session, and after a restart such a session can be        *)
(* reconciled or no longer saved at all, so no close takes its files away. *)
(***************************************************************************)
EXTENDS SessionBinding, TLAPS

-----------------------------------------------------------------------------
(* Types, names and the projections. *)

Publishing == {"publishing", "publishingLate"}
Starting == Publishing \cup {"uploading", "starting"}
Opening == Starting \cup {"abandoning", "dropping"}

\* Where a request holds the binding it read or made.
Bound == Saving \cup {"executing", "probing", "acknowledging", "releasing", "closing",
                      "removing", "forgetting", "burying"}
Of(r, s) == r # None => r.sid = s

\* The files and the locals of a request are about its session.
FilesNamed ==
    \A s \in Sessions : Of(sess[s], s) /\ Of(commit[s], s) /\ (sess[s] # None => s \in root)
LocalsNamed ==
    \A t \in Threads :
        /\ pc[t] \notin {"idle", "closingNothing"} => sid[t] \in Sessions
        /\ pc[t] = "idle" => sid[t] = None
        /\ pc[t] \in Bound => b[t] # None /\ b[t].sid = sid[t]
        /\ base[t] # None =>
              /\ pc[t] \in {"executing", "updating", "recordingTimeout", "recordingHold"}
              /\ base[t].sid = sid[t]
SaveNamed ==
    txn # None =>
        /\ pc[txn.by] \in Saving /\ txn.new.sid = sid[txn.by]
        /\ Of(txn.wasSess, txn.new.sid) /\ Of(txn.wasActive, txn.new.sid)
Named == FilesNamed /\ LocalsNamed /\ SaveNamed

\* What the requests write into a binding, and what they leave of it.
LEMMA BindingEdits ==
    ASSUME NEW r \in Binding, NEW n \in Nat
    PROVE  /\ r.gen \in Nat /\ r.seq \in Nat /\ r.pend \in Nat /\ r.sid \in Sessions
           /\ Pending(r, n) \in Binding /\ Pending(r, n).sid = r.sid
           /\ TimedOut(r, n) \in Binding /\ TimedOut(r, n).sid = r.sid
           /\ [TimedOut(r, n) EXCEPT !.live = TRUE] \in Binding
           /\ [TimedOut(r, n) EXCEPT !.live = TRUE].sid = r.sid
           /\ Completed(r, n) \in Binding /\ Completed(r, n).sid = r.sid
           /\ Holding(r, n) \in Binding /\ Holding(r, n).sid = r.sid
           /\ Probed(r, n) \in Binding /\ Probed(r, n).sid = r.sid
           /\ Stale(r) \in Binding /\ Stale(r).sid = r.sid
           /\ ClosedPending(r) \in Binding /\ ClosedPending(r).sid = r.sid
           /\ Reconciled(r) \in Binding /\ Reconciled(r).sid = r.sid
           /\ CleanupPending(r) \in Binding /\ CleanupPending(r).sid = r.sid
BY DEF Pending, TimedOut, Completed, Holding, Probed, Stale, ClosedPending, Reconciled,
       CleanupPending, Binding, Larger, DocState

\* The binding of a document that was just opened is about that document.
LEMMA NewBinding ==
    ASSUME NEW s \in Sessions
    PROVE  New(s) \in Binding /\ New(s).sid = s
BY DEF New, Binding, DocState

\* A reconciliation projects a binding of the same session.
LEMMA ProjectionIs ==
    ASSUME TypeOK, NEW r \in Binding
    PROVE  /\ Projection(r) \in Binding /\ Projection(r).sid = r.sid
<1>1. Alive(r.sid) \in BOOLEAN
  BY DEF Alive
<1>2. lateSeq[r.sid] \in Nat
  BY DEF TypeOK, RuntimeTyped, Binding
<1> QED BY <1>1, <1>2 DEF Projection, Binding

\* A merge stays with its session, and it empties pending_command only of a binding
\* that had none: a removed pending command is not a changed field.
LEMMA MergedIs ==
    ASSUME NEW cur \in Binding, NEW new \in Binding, NEW was \in Binding
    PROVE  /\ Merged(cur, new, was) \in Binding
           /\ cur.sid = new.sid => Merged(cur, new, was).sid = cur.sid
           /\ Merged(cur, new, was).pend \in {new.pend, cur.pend}
           /\ Merged(cur, new, was).pend = 0 => cur.pend = 0
           /\ Merged(cur, new, was).pend # new.pend => new.pend \in {0, was.pend}
<1>1. DOMAIN new = {"sid", "gen", "seq", "pend", "recon", "state", "live", "held"}
  BY DEF Binding
<1>2. Merged(cur, new, was) =
        [f \in {"sid", "gen", "seq", "pend", "recon", "state", "live", "held"} |->
            IF new[f] # was[f] /\ (f = "pend" => new[f] # 0) THEN new[f] ELSE cur[f]]
  BY <1>1 DEF Merged
<1> QED BY <1>2 DEF Binding

\* What a save that is not refused writes (_save_binding's checks and its merge).
LEMMA PayloadIs ==
    ASSUME TypeOK, Named, NEW t \in Threads, pc[t] \in Saving, ~SaveRefused(t)
    PROVE  /\ Payload(t) \in Binding
           /\ Payload(t).sid = sid[t]
           /\ Payload(t).seq = b[t].seq
           /\ sess[sid[t]] # None => Payload(t).gen = sess[sid[t]].gen + 1
           /\ sess[sid[t]] = None => exp[t].gen = 0 /\ Payload(t).gen = 1
           /\ active # None => active.sid = sid[t] /\ Payload(t).gen = active.gen + 1
           /\ \/ Payload(t).pend = b[t].pend
              \/ /\ sess[sid[t]] # None /\ base[t] # None
                 /\ Payload(t).pend = sess[sid[t]].pend
           /\ Payload(t).pend = 0 => b[t].pend = 0 \/ b[t].pend = base[t].pend
<1> DEFINE s == sid[t]
           cur == sess[s]
           new == IF cur # None /\ cur.gen # exp[t].gen THEN Merged(cur, b[t], base[t])
                  ELSE b[t]
           against == AgainstGen(t)
<1>1. /\ s \in Sessions /\ b[t] \in Binding /\ b[t].sid = s /\ cur \in Binding \cup {None}
      /\ active \in Binding \cup {None} /\ exp[t].gen \in Nat /\ (cur # None => cur.sid = s)
      /\ base[t] \in Binding \cup {None}
  BY DEF TypeOK, FilesTyped, RequestsTyped, RuntimeTyped, Named, FilesNamed, LocalsNamed,
     Of, Saving, Bound
<1>2. cur # None /\ cur.gen # exp[t].gen => base[t] # None
  BY DEF SaveRefused
<1>3. cur # None => cur.gen \in Nat
  BY <1>1 DEF Binding
<1>4. against \in Nat
  BY <1>1, <1>3 DEF AgainstGen
<1>5. Payload(t) = [new EXCEPT !.gen = against + 1, !.seq = b[t].seq]
  BY DEF Payload
<1>6. cur # None => against = cur.gen
  BY <1>1, <1>2 DEF AgainstGen
<1>7. cur = None => exp[t].gen = 0 /\ against = exp[t].gen
  BY DEF SaveRefused, AgainstGen
<1>8. active # None => active.sid = s /\ active.gen = against
  BY DEF SaveRefused
<1>9. /\ new \in Binding /\ new.sid = s
      /\ new.pend = b[t].pend \/ (cur # None /\ base[t] # None /\ new.pend = cur.pend)
      /\ new.pend = 0 => b[t].pend = 0 \/ b[t].pend = base[t].pend
  <2>1. CASE cur # None /\ cur.gen # exp[t].gen
    <3>1. new = Merged(cur, b[t], base[t]) /\ cur \in Binding /\ base[t] \in Binding
      BY <1>1, <1>2, <2>1
    <3> QED BY <1>1, <1>2, <2>1, <3>1, MergedIs
  <2>2. CASE ~(cur # None /\ cur.gen # exp[t].gen)
    BY <1>1, <2>2
  <2> QED BY <2>1, <2>2
<1> HIDE DEF new, against, cur
<1>10. /\ Payload(t) \in Binding /\ Payload(t).sid = new.sid /\ Payload(t).pend = new.pend
       /\ Payload(t).gen = against + 1 /\ Payload(t).seq = b[t].seq
  <2>1. b[t].seq \in Nat
    BY <1>1 DEF Binding
  <2>2. PICK r \in Binding : r = new
    BY <1>9
  <2>3. against + 1 \in Nat
    BY <1>4
  <2> DEFINE g == against + 1
             n == b[t].seq
  <2>4. g \in Nat /\ n \in Nat /\ Payload(t) = [r EXCEPT !.gen = g, !.seq = n]
    BY <2>1, <2>2, <2>3, <1>5
  <2> HIDE DEF g, n
  <2>5. /\ Payload(t) \in Binding /\ Payload(t).sid = r.sid
        /\ Payload(t).pend = r.pend /\ Payload(t).gen = g /\ Payload(t).seq = n
    BY <2>2, <2>4 DEF Binding
  <2> QED BY <2>2, <2>5 DEF g, n
<1> QED
  BY <1>1, <1>6, <1>7, <1>8, <1>9, <1>10 DEF cur

\* The steps that change the files or the save that holds the lock.
LEMMA FileSteps ==
    ASSUME [Next]_vars
    PROVE  \/ UNCHANGED <<sess, active, root, txn, commit, torn, closed>>
           \/ \E t \in Threads : SaveCheck(t) \/ SaveSession(t) \/ SaveActive(t) \/
                   SaveReadback(t) \/ SaveMismatch(t) \/ SaveUndoSession(t) \/
                   SaveUndoActive(t) \/ SaveUndoFails(t) \/ OpenAbandon(t) \/ OpenDrop(t)
                   \/ CloseCleared(t) \/ CloseRemoves(t) \/ CloseForgets(t) \/
                   CloseBuries(t) \/ (\E s \in Sessions : OpenCheck(t, s))
           \/ Crash
<1> USE DEF vars, fileVars, rtVars, localVars, histVars, Goto, Return, Prepare, Fault,
       Request, Quiet, ClearBinding
<1>1. ASSUME NEW t \in Threads, Save(t)
      PROVE  \/ UNCHANGED <<sess, active, root, txn, commit, torn, closed>>
             \/ SaveCheck(t) \/ SaveSession(t) \/ SaveActive(t) \/ SaveReadback(t) \/
                SaveMismatch(t) \/ SaveUndoSession(t) \/ SaveUndoActive(t) \/
                SaveUndoFails(t)
  BY <1>1 DEF Save, SaveConflict, SaveFails, OnFailure
<1>2. ASSUME NEW t \in Threads, Open(t)
      PROVE  \/ UNCHANGED <<sess, active, root, txn, commit, torn, closed>>
             \/ OpenAbandon(t) \/ OpenDrop(t) \/ (\E s \in Sessions : OpenCheck(t, s))
  BY <1>2 DEF Open, OpenRegister, OpenFails, OpenStart
<1>3. ASSUME NEW t \in Threads, Exec(t)
      PROVE  UNCHANGED <<sess, active, root, txn, commit, torn, closed>>
  BY <1>3 DEF Exec, ExecLoad, ExecAdmit, ExecSucceeds, ExecTimesOut, ExecHeld,
     ExecFails, Addressed
<1>4. ASSUME NEW t \in Threads, Status(t)
      PROVE  UNCHANGED <<sess, active, root, txn, commit, torn, closed>>
  BY <1>4 DEF Status, StatusRead, ProbeSucceeds, ProbeTimesOut, ProbeFails, StatusMark
<1>5. ASSUME NEW t \in Threads, Close(t)
      PROVE  \/ UNCHANGED <<sess, active, root, txn, commit, torn, closed>>
             \/ CloseCleared(t) \/ CloseRemoves(t) \/ CloseForgets(t) \/ CloseBuries(t)
  BY <1>5 DEF Close, CloseNothing, CloseRead, CloseReleases, CloseRefused,
     CloseTimesOut, CloseUnreported, CloseHeld, CloseKeepsRoot, Addressed, Releasable
<1>6. ASSUME NEW t \in Threads, Reconcile(t)
      PROVE  UNCHANGED <<sess, active, root, txn, commit, torn, closed>>
  BY <1>6 DEF Reconcile, ReconcileRead, ReconcileAcknowledges, ReconcileReleases,
     Addressed, Awaiting, Preserve, ReconcileClears, Releasable
<1>7. QED
  BY <1>1, <1>2, <1>3, <1>4, <1>5, <1>6 DEF Next, LateDone

\* The steps that change the runtime or the interactive store.
LEMMA RuntimeSteps ==
    ASSUME [Next]_vars
    PROVE  \/ UNCHANGED <<rt, seq, late, lateSeq, store>>
           \/ \E t \in Threads : SaveReadback(t) \/ OpenRegister(t) \/ OpenStart(t) \/
                   OpenAbandon(t) \/ ExecAdmit(t) \/ ExecTimesOut(t) \/ ExecHeld(t) \/
                   StatusRead(t) \/ ProbeTimesOut(t) \/ ProbeFails(t) \/ CloseReleases(t)
                   \/ CloseTimesOut(t) \/ CloseUnreported(t) \/ CloseHeld(t) \/
                   CloseRemoves(t) \/ ReconcileAcknowledges(t) \/ ReconcileReleases(t) \/
                   (\E rec \in Addressed : ReconcileRead(t, rec))
           \/ \E s \in Sessions : LateDone(s)
           \/ Crash
<1> USE DEF vars, fileVars, rtVars, localVars, histVars, Goto, Return, Prepare, Fault,
       Request, Quiet, ClearBinding
<1>1. ASSUME NEW t \in Threads, Save(t)
      PROVE  \/ UNCHANGED <<rt, seq, late, lateSeq, store>>
             \/ SaveReadback(t)
  BY <1>1 DEF Save, SaveConflict, SaveCheck, SaveSession, SaveActive, SaveMismatch,
     SaveUndoSession, SaveUndoActive, SaveUndoFails, SaveFails, OnFailure, In
<1>2. ASSUME NEW t \in Threads, Open(t)
      PROVE  \/ UNCHANGED <<rt, seq, late, lateSeq, store>>
             \/ OpenRegister(t) \/ OpenStart(t) \/ OpenAbandon(t)
  BY <1>2 DEF Open, OpenCheck, OpenFails, OpenDrop
<1>3. ASSUME NEW t \in Threads, Exec(t)
      PROVE  \/ UNCHANGED <<rt, seq, late, lateSeq, store>>
             \/ ExecAdmit(t) \/ ExecTimesOut(t) \/ ExecHeld(t)
  BY <1>3 DEF Exec, ExecLoad, ExecSucceeds, ExecFails, Addressed
<1>4. ASSUME NEW t \in Threads, Status(t)
      PROVE  \/ UNCHANGED <<rt, seq, late, lateSeq, store>>
             \/ StatusRead(t) \/ ProbeTimesOut(t) \/ ProbeFails(t)
  BY <1>4 DEF Status, ProbeSucceeds, StatusMark
<1>5. ASSUME NEW t \in Threads, Close(t)
      PROVE  \/ UNCHANGED <<rt, seq, late, lateSeq, store>>
             \/ CloseReleases(t) \/ CloseTimesOut(t) \/ CloseUnreported(t) \/
                CloseHeld(t) \/ CloseRemoves(t)
  BY <1>5 DEF Close, CloseNothing, CloseCleared, CloseRead, CloseRefused,
     CloseKeepsRoot, CloseForgets, CloseBuries, Addressed
<1>6. ASSUME NEW t \in Threads, Reconcile(t)
      PROVE  \/ UNCHANGED <<rt, seq, late, lateSeq, store>>
             \/ ReconcileAcknowledges(t) \/ ReconcileReleases(t) \/ (\E rec \in
                Addressed : ReconcileRead(t, rec))
  BY <1>6 DEF Reconcile
<1>7. QED
  BY <1>1, <1>2, <1>3, <1>4, <1>5, <1>6 DEF Next

\* Where a refused or failed save leaves its request, and one that returned.
LEMMA SaveFailsIs ==
    ASSUME NEW t \in Threads, pc[t] \in Saving, SaveFails(t)
    PROVE  \/ pc[t] \notin Publishing /\ Return(t)
           \/ pc[t] \in Publishing /\ Goto(t, "abandoning") /\ UNCHANGED <<sid, localVars>>
BY DEF SaveFails, OnFailure, Publishing

\* A save that returns hands its binding on, and ends or continues its request.
LEMMA ReadbackIs ==
    ASSUME NEW t \in Threads, SaveReadback(t)
    PROVE  \/ /\ pc[t] \notin {"publishingLate", "probeUpdating", "projecting", "clearing"}
              /\ Return(t)
           \/ /\ base' = [base EXCEPT ![t] = None] /\ UNCHANGED <<sid, cmd>>
              /\ \/ /\ pc[t] = "publishingLate"
                    /\ Prepare(t, txn.new, txn.new.gen, None, "abandoning")
                 \/ /\ pc[t] = "probeUpdating"
                    /\ Prepare(t, txn.new, txn.new.gen, None, "probeAgain")
                 \/ /\ pc[t] = "projecting"
                    /\ Prepare(t, txn.new, txn.new.gen, None, "acknowledging")
                 \/ /\ pc[t] = "clearing"
                    /\ Prepare(t, txn.new, txn.new.gen, None, "releasing")
BY DEF SaveReadback, OnSuccess

\* A request that ends, moves on, or hands a binding of its session to
\* _save_binding stays well formed and with its session.
Requests == RequestsTyped /\ LocalsNamed

\* A request that ends keeps the other requests well formed.
LEMMA ReturnKeeps ==
    ASSUME Requests, NEW t \in Threads, Return(t)
    PROVE  Requests'
BY DEF Return, Goto, Requests, RequestsTyped, LocalsNamed, Points, Saving, Bound

\* So does one that goes on with what it has.
LEMMA GotoKeeps ==
    ASSUME Requests, NEW t \in Threads, NEW p \in Points \ {"idle"}, Goto(t, p),
           pc[t] \notin {"idle", "closingNothing"}, p \in Bound => pc[t] \in Bound,
           base[t] = None, UNCHANGED <<sid, localVars>>
    PROVE  Requests'
BY DEF Goto, Requests, RequestsTyped, LocalsNamed, Bound, Saving, localVars

\* And one that hands a binding to _save_binding.
LEMMA PrepareKeeps ==
    ASSUME Requests, BindingAssumption, NEW t \in Threads, NEW r \in Binding, NEW g \in Nat,
           NEW n \in Nat \cup {None}, NEW p \in Points \ {"idle", "closingNothing"},
           Prepare(t, r, g, n, p), cmd' \in [Threads -> Nat],
           sid' \in [Threads -> Sessions \cup {None}], sid'[t] = r.sid,
           base' \in [Threads -> Binding \cup {None}],
           base'[t] # None =>
              /\ p \in {"executing", "updating", "recordingTimeout", "recordingHold"}
              /\ base'[t].sid = r.sid,
           \A u \in Threads \ {t} : sid'[u] = sid[u] /\ base'[u] = base[u]
    PROVE  Requests'
<1>1. r # None /\ r.sid \in Sessions
  BY DEF Binding
<1>2. RequestsTyped'
  BY <1>1 DEF Prepare, Goto, Requests, RequestsTyped
<1>3. LocalsNamed'
  BY <1>1 DEF Prepare, Goto, Requests, RequestsTyped, LocalsNamed, Bound, Saving
<1> QED BY <1>2, <1>3 DEF Requests

\* Every step keeps the files well formed and about their session.
LEMMA FilesStep ==
    ASSUME TypeOK, Named, [Next]_vars
    PROVE  FilesTyped' /\ FilesNamed'
<1> USE BindingAssumption DEF vars, fileVars, rtVars, localVars, histVars, Goto, Fault,
   Request, Quiet, ClearBinding
<1>1. ASSUME NEW t \in Threads, SaveCheck(t)
      PROVE  FilesTyped' /\ FilesNamed'
  BY <1>1, PayloadIs DEF SaveCheck, TypeOK, FilesTyped, RequestsTyped, RuntimeTyped,
     Named, FilesNamed, LocalsNamed, SaveNamed, Of, Saving, Bound, Transaction, Step
<1>2. ASSUME NEW t \in Threads, SaveSession(t)
      PROVE  FilesTyped' /\ FilesNamed'
  <2>1. txn \in Transaction /\ txn.by = t
    BY <1>2 DEF SaveSession, In, TypeOK, FilesTyped
  <2>2. sid[t] \in Sessions /\ txn.new.sid = sid[t]
    BY <1>2, <2>1 DEF SaveSession, In, Named, SaveNamed, LocalsNamed, Saving
  <2> QED
    BY <1>2, <2>1, <2>2 DEF SaveSession, In, TypeOK, FilesTyped, Named, FilesNamed, Of,
       Transaction, Step
<1>3. ASSUME NEW t \in Threads, SaveActive(t)
      PROVE  FilesTyped' /\ FilesNamed'
  <2>1. txn \in Transaction /\ txn.by = t
    BY <1>3 DEF SaveActive, In, TypeOK, FilesTyped
  <2>2. sid[t] \in Sessions /\ txn.new.sid = sid[t]
    BY <1>3, <2>1 DEF SaveActive, In, Named, SaveNamed, LocalsNamed, Saving
  <2> QED
    BY <1>3, <2>1, <2>2 DEF SaveActive, In, TypeOK, FilesTyped, Named, FilesNamed, Of,
       Transaction, Step
<1>4. ASSUME NEW t \in Threads, SaveReadback(t)
      PROVE  FilesTyped' /\ FilesNamed'
  BY <1>4 DEF SaveReadback, In, OnSuccess, Terminate, TypeOK, FilesTyped, RequestsTyped,
     RuntimeTyped, Named, FilesNamed, LocalsNamed, SaveNamed, Of, Saving, Bound,
     Transaction, Step
<1>5. ASSUME NEW t \in Threads, SaveMismatch(t)
      PROVE  FilesTyped' /\ FilesNamed'
  BY <1>5 DEF SaveMismatch, In, TypeOK, FilesTyped, RequestsTyped, RuntimeTyped, Named,
     FilesNamed, LocalsNamed, SaveNamed, Of, Saving, Bound, Transaction, Step
<1>6. ASSUME NEW t \in Threads, SaveUndoSession(t)
      PROVE  FilesTyped' /\ FilesNamed'
  BY SMTT(20), <1>6 DEF SaveUndoSession, In, TypeOK, FilesTyped, RequestsTyped,
     RuntimeTyped,
     Named, FilesNamed, LocalsNamed, SaveNamed, Of, Saving, Bound, Transaction, Step
<1>7. ASSUME NEW t \in Threads, SaveUndoActive(t)
      PROVE  FilesTyped' /\ FilesNamed'
  BY <1>7 DEF SaveUndoActive, In, SaveFails, OnFailure, TypeOK, FilesTyped,
     RequestsTyped, RuntimeTyped, Named, FilesNamed, LocalsNamed, SaveNamed, Of, Saving,
     Bound, Transaction, Step
<1>8. ASSUME NEW t \in Threads, SaveUndoFails(t)
      PROVE  FilesTyped' /\ FilesNamed'
  BY <1>8 DEF SaveUndoFails, In, SaveFails, OnFailure, TypeOK, FilesTyped,
     RequestsTyped, RuntimeTyped, Named, FilesNamed, LocalsNamed, SaveNamed, Of, Saving,
     Bound, Transaction, Step
<1>9. ASSUME NEW t \in Threads, NEW s \in Sessions, OpenCheck(t, s)
      PROVE  FilesTyped' /\ FilesNamed'
  BY <1>9 DEF OpenCheck, TypeOK, FilesTyped, RequestsTyped, RuntimeTyped, Named,
     FilesNamed, LocalsNamed, SaveNamed, Of, Saving, Bound, Transaction, Step
<1>10. ASSUME NEW t \in Threads, OpenAbandon(t)
      PROVE  FilesTyped' /\ FilesNamed'
  BY <1>10 DEF OpenAbandon, RecordClose, Terminate, TypeOK, FilesTyped, RequestsTyped,
     RuntimeTyped, Named, FilesNamed, LocalsNamed, SaveNamed, Of, Saving, Bound,
     Transaction, Step
<1>11. ASSUME NEW t \in Threads, OpenDrop(t)
      PROVE  FilesTyped' /\ FilesNamed'
  BY <1>11 DEF OpenDrop, TypeOK, FilesTyped, RequestsTyped, RuntimeTyped, Named,
     FilesNamed, LocalsNamed, SaveNamed, Of, Saving, Bound, Transaction, Step
<1>12. ASSUME NEW t \in Threads, CloseCleared(t)
      PROVE  FilesTyped' /\ FilesNamed'
  BY <1>12 DEF CloseCleared, TypeOK, FilesTyped, RequestsTyped, Named, FilesNamed, Of
<1>13. ASSUME NEW t \in Threads, CloseRemoves(t)
      PROVE  FilesTyped' /\ FilesNamed'
  BY <1>13 DEF CloseRemoves, RecordClose, Terminate, TypeOK, FilesTyped, RequestsTyped,
     RuntimeTyped, Named, FilesNamed, LocalsNamed, SaveNamed, Of, Saving, Bound,
     Transaction, Step
<1>14. ASSUME NEW t \in Threads, CloseForgets(t)
      PROVE  FilesTyped' /\ FilesNamed'
  BY <1>14 DEF CloseForgets, TypeOK, FilesTyped, RequestsTyped, RuntimeTyped, Named,
     FilesNamed, LocalsNamed, SaveNamed, Of, Saving, Bound, Transaction, Step
<1>15. ASSUME NEW t \in Threads, CloseBuries(t)
      PROVE  FilesTyped' /\ FilesNamed'
  BY <1>15 DEF CloseBuries, TypeOK, FilesTyped, RequestsTyped, RuntimeTyped, Named,
     FilesNamed, LocalsNamed, SaveNamed, Of, Saving, Bound, Transaction, Step
<1>16. CASE Crash
  BY <1>16 DEF Crash, TypeOK, FilesTyped, RequestsTyped, RuntimeTyped, Named,
     FilesNamed, LocalsNamed, SaveNamed, Of, Saving, Bound, Transaction, Step
<1>17. CASE UNCHANGED <<sess, active, root, txn, commit, torn, closed>>
  BY <1>17 DEF TypeOK, FilesTyped, RequestsTyped, RuntimeTyped, Named, FilesNamed,
     LocalsNamed, SaveNamed, Of, Saving, Bound, Transaction, Step
<1>18. QED
  BY <1>1, <1>2, <1>3, <1>4, <1>5, <1>6, <1>7, <1>8, <1>9, <1>10, <1>11, <1>12, <1>13,
     <1>14, <1>15, <1>16, <1>17, FileSteps

\* Every step keeps the runtime well formed.
LEMMA RuntimeStep ==
    ASSUME TypeOK, Named, [Next]_vars
    PROVE  RuntimeTyped'
<1> USE BindingAssumption DEF vars, fileVars, rtVars, localVars, histVars, Goto, Fault,
   Request, Quiet, ClearBinding
<1>1. ASSUME NEW t \in Threads, SaveReadback(t)
      PROVE  RuntimeTyped'
  BY <1>1 DEF SaveReadback, In, OnSuccess, Terminate, TypeOK, RequestsTyped,
     RuntimeTyped, Runtime, Late, Binding, Named, LocalsNamed, Saving
<1>2. ASSUME NEW t \in Threads, OpenRegister(t)
      PROVE  RuntimeTyped'
  BY <1>2 DEF OpenRegister, TypeOK, RequestsTyped, RuntimeTyped, Runtime, Late, Binding,
     Named, LocalsNamed, Saving
<1>3. ASSUME NEW t \in Threads, OpenStart(t)
      PROVE  RuntimeTyped'
  <2>1. sid[t] \in Sessions
    BY <1>3 DEF OpenStart, Named, LocalsNamed
  <2>2. rt' \in [Sessions -> Runtime]
    BY <1>3, <2>1 DEF OpenStart, TypeOK, RuntimeTyped, Runtime
  <2>3. late' \in [Sessions -> Late]
    BY <1>3, <2>1 DEF OpenStart, TypeOK, RuntimeTyped, Late
  <2> QED BY <1>3, <2>1, <2>2, <2>3 DEF OpenStart, TypeOK, RuntimeTyped
<1>4. ASSUME NEW t \in Threads, OpenAbandon(t)
      PROVE  RuntimeTyped'
  <2>1. sid[t] \in Sessions
    BY <1>4 DEF OpenAbandon, Named, LocalsNamed
  <2> QED
    BY SMTT(20), <1>4, <2>1 DEF OpenAbandon, RecordClose, Terminate, TypeOK, RequestsTyped,
       RuntimeTyped, Runtime, Late
<1>5. ASSUME NEW t \in Threads, ExecAdmit(t)
      PROVE  RuntimeTyped'
  BY <1>5 DEF ExecAdmit, TypeOK, RequestsTyped, RuntimeTyped, Runtime, Late, Binding,
     Named, LocalsNamed, Saving
<1>6. ASSUME NEW t \in Threads, ExecTimesOut(t)
      PROVE  RuntimeTyped'
  BY <1>6 DEF ExecTimesOut, TypeOK, RequestsTyped, RuntimeTyped, Runtime, Late, Binding,
     Named, LocalsNamed, Saving
<1>7. ASSUME NEW t \in Threads, ExecHeld(t)
      PROVE  RuntimeTyped'
  BY <1>7 DEF ExecHeld, TypeOK, RequestsTyped, RuntimeTyped, Runtime, Late, Binding,
     Named, LocalsNamed, Saving
<1>8. ASSUME NEW t \in Threads, StatusRead(t)
      PROVE  RuntimeTyped'
  <2>1. active.sid \in Sessions
    BY <1>8 DEF StatusRead, TypeOK, FilesTyped, Binding
  <2> QED
    BY <1>8, <2>1 DEF StatusRead, TypeOK, RequestsTyped, RuntimeTyped, Runtime, Late
<1>9. ASSUME NEW t \in Threads, ProbeTimesOut(t)
      PROVE  RuntimeTyped'
  BY <1>9 DEF ProbeTimesOut, TypeOK, RequestsTyped, RuntimeTyped, Runtime, Late,
     Binding, Named, LocalsNamed, Saving
<1>10. ASSUME NEW t \in Threads, ProbeFails(t)
      PROVE  RuntimeTyped'
  BY <1>10 DEF ProbeFails, TypeOK, RequestsTyped, RuntimeTyped, Runtime, Late, Binding,
     Named, LocalsNamed, Saving
<1>11. ASSUME NEW t \in Threads, CloseReleases(t)
      PROVE  RuntimeTyped'
  BY <1>11 DEF CloseReleases, Releasable, TypeOK, RequestsTyped, RuntimeTyped, Runtime,
     Late, Binding, Named, LocalsNamed, Saving
<1>12. ASSUME NEW t \in Threads, CloseTimesOut(t)
      PROVE  RuntimeTyped'
  BY <1>12 DEF CloseTimesOut, TypeOK, RequestsTyped, RuntimeTyped, Runtime, Late,
     Binding, Named, LocalsNamed, Saving
<1>13. ASSUME NEW t \in Threads, CloseUnreported(t)
      PROVE  RuntimeTyped'
  BY <1>13 DEF CloseUnreported, Releasable, TypeOK, RequestsTyped, RuntimeTyped,
     Runtime, Late, Binding, Named, LocalsNamed, Saving
<1>14. ASSUME NEW t \in Threads, CloseHeld(t)
      PROVE  RuntimeTyped'
  BY <1>14 DEF CloseHeld, Releasable, TypeOK, RequestsTyped, RuntimeTyped, Runtime,
     Late, Binding, Named, LocalsNamed, Saving
<1>15. ASSUME NEW t \in Threads, CloseRemoves(t)
      PROVE  RuntimeTyped'
  BY <1>15 DEF CloseRemoves, RecordClose, Terminate, TypeOK, RequestsTyped,
     RuntimeTyped, Runtime, Late, Binding, Named, LocalsNamed, Saving
<1>16. ASSUME NEW t \in Threads, NEW rec \in Addressed, ReconcileRead(t, rec)
      PROVE  RuntimeTyped'
  BY <1>16 DEF ReconcileRead, Addressed, Awaiting, Preserve, FilesTyped, FilesNamed, Of,
     TypeOK, RequestsTyped, RuntimeTyped, Runtime, Late, Binding, Named, LocalsNamed,
     Saving
<1>17. ASSUME NEW t \in Threads, ReconcileAcknowledges(t)
      PROVE  RuntimeTyped'
  BY <1>17 DEF ReconcileAcknowledges, ReconcileClears, TypeOK, RequestsTyped,
     RuntimeTyped, Runtime, Late, Binding, Named, LocalsNamed, Saving
<1>18. ASSUME NEW t \in Threads, ReconcileReleases(t)
      PROVE  RuntimeTyped'
  <2>1. sid[t] \in Sessions
    BY <1>18 DEF ReconcileReleases, Named, LocalsNamed
  <2> QED
    BY <1>18, <2>1 DEF ReconcileReleases, TypeOK, RuntimeTyped, Runtime
<1>19. ASSUME NEW s \in Sessions, LateDone(s)
      PROVE  RuntimeTyped'
  BY <1>19 DEF LateDone, TypeOK, RequestsTyped, RuntimeTyped, Runtime, Late, Binding,
     Named, LocalsNamed, Saving
<1>20. CASE Crash
  BY <1>20 DEF Crash, TypeOK, RequestsTyped, RuntimeTyped, Runtime, Late, Binding,
     Named, LocalsNamed, Saving
<1>21. CASE UNCHANGED <<rt, seq, late, lateSeq, store>>
  BY <1>21 DEF TypeOK, RequestsTyped, RuntimeTyped, Runtime, Late, Binding, Named,
     LocalsNamed, Saving
<1>22. QED
  BY <1>1, <1>2, <1>3, <1>4, <1>5, <1>6, <1>7, <1>8, <1>9, <1>10, <1>11, <1>12, <1>13,
     <1>14, <1>15, <1>16, <1>17, <1>18, <1>19, <1>20, <1>21, RuntimeSteps

\* Every step keeps its bounds.
LEMMA CountsStep ==
    ASSUME TypeOK, Named, [Next]_vars
    PROVE  CountsTyped'
<1> USE BindingAssumption DEF vars, fileVars, rtVars, localVars, histVars, Goto, Return,
   Prepare, Fault, Request, Quiet, ClearBinding
<1>1. ASSUME NEW t \in Threads, SaveConflict(t) \/ SaveUndoActive(t)
      PROVE  CountsTyped'
  BY <1>1 DEF SaveConflict, SaveFails, OnFailure, SaveNamed, SaveUndoActive, In, TypeOK,
     CountsTyped, Named, LocalsNamed, Saving
<1>2. ASSUME NEW t \in Threads, SaveCheck(t) \/ SaveMismatch(t) \/ SaveUndoSession(t)
      PROVE  CountsTyped'
  BY <1>2 DEF SaveCheck, SaveNamed, SaveMismatch, In, SaveUndoSession, TypeOK,
     CountsTyped, Named, LocalsNamed, Saving
<1>3. ASSUME NEW t \in Threads, SaveSession(t) \/ SaveActive(t)
      PROVE  CountsTyped'
  BY <1>3 DEF SaveSession, In, SaveNamed, SaveActive, TypeOK, CountsTyped, Named,
     LocalsNamed, Saving
<1>4. ASSUME NEW t \in Threads, SaveReadback(t)
      PROVE  CountsTyped'
  BY <1>4 DEF SaveReadback, In, OnSuccess, Terminate, SaveNamed, TypeOK, CountsTyped,
     Named, LocalsNamed, Saving
<1>5. ASSUME NEW t \in Threads, SaveUndoFails(t)
      PROVE  CountsTyped'
  BY <1>5 DEF SaveUndoFails, In, SaveFails, OnFailure, SaveNamed, TypeOK, CountsTyped,
     Named, LocalsNamed, Saving
<1>6. ASSUME NEW t \in Threads, NEW s \in Sessions, OpenCheck(t, s)
      PROVE  CountsTyped'
  BY <1>6 DEF OpenCheck, TypeOK, CountsTyped, Named, LocalsNamed, Saving
<1>7. ASSUME NEW t \in Threads, OpenRegister(t) \/ OpenFails(t) \/ OpenStart(t) \/
   OpenDrop(t)
      PROVE  CountsTyped'
  BY <1>7 DEF OpenRegister, OpenFails, OpenStart, OpenDrop, TypeOK, CountsTyped, Named,
     LocalsNamed, Saving
<1>8. ASSUME NEW t \in Threads, OpenAbandon(t)
      PROVE  CountsTyped'
  BY <1>8 DEF OpenAbandon, RecordClose, Terminate, TypeOK, CountsTyped, Named,
     LocalsNamed, Saving
<1>9. ASSUME NEW t \in Threads, NEW rec \in Addressed, ExecLoad(t, rec) \/ CloseRead(t,
   rec) \/ ReconcileRead(t, rec)
      PROVE  CountsTyped'
  BY <1>9 DEF ExecLoad, CloseRead, ReconcileRead, Awaiting, Preserve, TypeOK,
     CountsTyped, Named, LocalsNamed, Saving
<1>10. ASSUME NEW t \in Threads, StatusRead(t) \/ ExecAdmit(t) \/ ExecSucceeds(t) \/
   ExecTimesOut(t) \/ ExecHeld(t) \/ ExecFails(t) \/ ProbeSucceeds(t) \/
   ProbeTimesOut(t) \/ ProbeFails(t) \/ StatusMark(t)
      PROVE  CountsTyped'
  BY <1>10 DEF StatusRead, ExecAdmit, ExecSucceeds, ExecTimesOut, ExecHeld, ExecFails,
     ProbeSucceeds, ProbeTimesOut, ProbeFails, StatusMark, TypeOK, CountsTyped, Named,
     LocalsNamed, Saving
<1>11. ASSUME NEW t \in Threads, NEW s \in Sessions \cup {None}, CloseNothing(t, s)
      PROVE  CountsTyped'
  BY <1>11 DEF CloseNothing, TypeOK, CountsTyped, Named, LocalsNamed, Saving
<1>12. ASSUME NEW t \in Threads, CloseCleared(t) \/ CloseReleases(t) \/ CloseRefused(t)
   \/ CloseTimesOut(t) \/ CloseHeld(t) \/ CloseForgets(t)
      PROVE  CountsTyped'
  BY <1>12 DEF CloseCleared, CloseReleases, Releasable, CloseRefused, CloseTimesOut,
     CloseHeld, CloseForgets, TypeOK, CountsTyped, Named, LocalsNamed, Saving
<1>13. ASSUME NEW t \in Threads, CloseUnreported(t) \/ CloseKeepsRoot(t) \/
   ReconcileAcknowledges(t) \/ ReconcileReleases(t)
      PROVE  CountsTyped'
  BY <1>13 DEF CloseUnreported, Releasable, CloseKeepsRoot, ReconcileAcknowledges,
     ReconcileClears, ReconcileReleases, TypeOK, CountsTyped, Named, LocalsNamed, Saving
<1>14. ASSUME NEW t \in Threads, CloseRemoves(t)
      PROVE  CountsTyped'
  BY <1>14 DEF CloseRemoves, RecordClose, Terminate, TypeOK, CountsTyped, Named,
     LocalsNamed, Saving
<1>15. ASSUME NEW t \in Threads, CloseBuries(t)
      PROVE  CountsTyped'
  BY <1>15 DEF CloseBuries, TypeOK, CountsTyped, Named, LocalsNamed, Saving
<1>16. ASSUME NEW s \in Sessions, LateDone(s)
      PROVE  CountsTyped'
  BY <1>16 DEF LateDone, TypeOK, CountsTyped, Named, LocalsNamed, Saving
<1>17. CASE Crash
  BY <1>17 DEF Crash, TypeOK, CountsTyped, Named, LocalsNamed, Saving
<1>18. CASE UNCHANGED vars
  BY <1>18 DEF TypeOK, CountsTyped, Named, LocalsNamed, Saving
<1>19. QED
  BY <1>1, <1>2, <1>3, <1>4, <1>5, <1>6, <1>7, <1>8, <1>9, <1>10, <1>11, <1>12, <1>13,
     <1>14, <1>15, <1>16, <1>17, <1>18 DEF Next, Save, Open, Exec, Status, Close,
     Reconcile

\* A save that holds the lock keeps to its session.
LEMMA SaveNamedStep ==
    ASSUME TypeOK, Named, [Next]_vars
    PROVE  SaveNamed'
<1> USE BindingAssumption DEF vars, fileVars, rtVars, localVars, histVars, Goto, Return,
   Prepare, Fault, Request, Quiet, ClearBinding
<1>1. ASSUME NEW t \in Threads, SaveConflict(t)
      PROVE  SaveNamed'
  BY <1>1 DEF SaveConflict, SaveFails, OnFailure, TypeOK, FilesTyped, RequestsTyped,
     Named, LocalsNamed, FilesNamed, SaveNamed, Of, Saving, Transaction
<1>2. ASSUME NEW t \in Threads, SaveCheck(t)
      PROVE  SaveNamed'
  BY <1>2, PayloadIs DEF SaveCheck, TypeOK, FilesTyped, RequestsTyped, Named,
     LocalsNamed, FilesNamed, SaveNamed, Of, Saving, Transaction
<1>3. ASSUME NEW t \in Threads, SaveSession(t)
      PROVE  SaveNamed'
  <2>1. txn \in Transaction /\ txn' \in Transaction
    BY <1>3 DEF SaveSession, In, TypeOK, FilesTyped, Transaction, Step
  <2> QED BY <1>3, <2>1 DEF SaveSession, In, Named, SaveNamed, Of, Transaction
<1>4. ASSUME NEW t \in Threads, SaveActive(t)
      PROVE  SaveNamed'
  <2>1. txn \in Transaction /\ txn' \in Transaction
    BY <1>4 DEF SaveActive, In, TypeOK, FilesTyped, Transaction, Step
  <2> QED BY <1>4, <2>1 DEF SaveActive, In, Named, SaveNamed, Of, Transaction
<1>5. ASSUME NEW t \in Threads, SaveReadback(t)
      PROVE  SaveNamed'
  BY <1>5 DEF SaveReadback, In, OnSuccess, Terminate, TypeOK, FilesTyped, RequestsTyped,
     Named, LocalsNamed, FilesNamed, SaveNamed, Of, Saving, Transaction
<1>6. ASSUME NEW t \in Threads, SaveMismatch(t)
      PROVE  SaveNamed'
  BY <1>6 DEF SaveMismatch, In, TypeOK, FilesTyped, RequestsTyped, Named, LocalsNamed,
     FilesNamed, SaveNamed, Of, Saving, Transaction
<1>7. ASSUME NEW t \in Threads, SaveUndoSession(t)
      PROVE  SaveNamed'
  BY <1>7 DEF SaveUndoSession, In, TypeOK, FilesTyped, RequestsTyped, Named,
     LocalsNamed, FilesNamed, SaveNamed, Of, Saving, Transaction
<1>8. ASSUME NEW t \in Threads, SaveUndoActive(t)
      PROVE  SaveNamed'
  BY <1>8 DEF SaveUndoActive, In, SaveFails, OnFailure, TypeOK, FilesTyped,
     RequestsTyped, Named, LocalsNamed, FilesNamed, SaveNamed, Of, Saving, Transaction
<1>9. ASSUME NEW t \in Threads, SaveUndoFails(t)
      PROVE  SaveNamed'
  BY <1>9 DEF SaveUndoFails, In, SaveFails, OnFailure, TypeOK, FilesTyped,
     RequestsTyped, Named, LocalsNamed, FilesNamed, SaveNamed, Of, Saving, Transaction
<1>10. ASSUME NEW t \in Threads, NEW s \in Sessions, OpenCheck(t, s)
      PROVE  SaveNamed'
  BY <1>10 DEF OpenCheck, TypeOK, FilesTyped, RequestsTyped, Named, LocalsNamed,
     FilesNamed, SaveNamed, Of, Saving, Transaction
<1>11. ASSUME NEW t \in Threads, OpenRegister(t) \/ OpenFails(t) \/ OpenStart(t) \/
   OpenAbandon(t) \/ OpenDrop(t)
      PROVE  SaveNamed'
  BY <1>11 DEF OpenRegister, OpenFails, OpenStart, OpenAbandon, RecordClose, Terminate,
     OpenDrop, TypeOK, FilesTyped, RequestsTyped, Named, LocalsNamed, FilesNamed,
     SaveNamed, Of, Saving, Transaction
<1>12. ASSUME NEW t \in Threads, NEW rec \in Addressed, ExecLoad(t, rec) \/ CloseRead(t,
   rec) \/ ReconcileRead(t, rec)
      PROVE  SaveNamed'
  BY <1>12 DEF ExecLoad, Addressed, CloseRead, ReconcileRead, Awaiting, Preserve,
     TypeOK, FilesTyped, RequestsTyped, Named, LocalsNamed, FilesNamed, SaveNamed, Of,
     Saving, Transaction
<1>13. ASSUME NEW t \in Threads, ExecAdmit(t) \/ ExecSucceeds(t) \/ ExecTimesOut(t) \/
   ExecHeld(t) \/ ExecFails(t)
      PROVE  SaveNamed'
  BY <1>13 DEF ExecAdmit, ExecSucceeds, ExecTimesOut, ExecHeld, ExecFails, TypeOK,
     FilesTyped, RequestsTyped, Named, LocalsNamed, FilesNamed, SaveNamed, Of, Saving,
     Transaction
<1>14. ASSUME NEW t \in Threads, StatusRead(t) \/ ProbeSucceeds(t) \/ ProbeTimesOut(t)
   \/ ProbeFails(t)
      PROVE  SaveNamed'
  BY <1>14 DEF StatusRead, ProbeSucceeds, ProbeTimesOut, ProbeFails, TypeOK, FilesTyped,
     RequestsTyped, Named, LocalsNamed, FilesNamed, SaveNamed, Of, Saving, Transaction
<1>15. ASSUME NEW t \in Threads, StatusMark(t)
      PROVE  SaveNamed'
  BY <1>15 DEF StatusMark, TypeOK, FilesTyped, RequestsTyped, Named, LocalsNamed,
     FilesNamed, SaveNamed, Of, Saving, Transaction
<1>16. ASSUME NEW t \in Threads, NEW s \in Sessions \cup {None}, CloseNothing(t, s)
      PROVE  SaveNamed'
  BY <1>16 DEF CloseNothing, TypeOK, FilesTyped, RequestsTyped, Named, LocalsNamed,
     FilesNamed, SaveNamed, Of, Saving, Transaction
<1>17. ASSUME NEW t \in Threads, CloseCleared(t)
      PROVE  SaveNamed'
  BY <1>17 DEF CloseCleared, TypeOK, FilesTyped, RequestsTyped, Named, LocalsNamed,
     FilesNamed, SaveNamed, Of, Saving, Transaction
<1>18. ASSUME NEW t \in Threads, CloseReleases(t) \/ CloseRefused(t) \/ CloseTimesOut(t)
   \/ CloseUnreported(t) \/ CloseHeld(t)
      PROVE  SaveNamed'
  BY <1>18 DEF CloseReleases, Releasable, CloseRefused, CloseTimesOut, CloseUnreported,
     CloseHeld, TypeOK, FilesTyped, RequestsTyped, Named, LocalsNamed, FilesNamed,
     SaveNamed, Of, Saving, Transaction
<1>19. ASSUME NEW t \in Threads, CloseRemoves(t) \/ CloseKeepsRoot(t) \/ CloseForgets(t)
   \/ CloseBuries(t)
      PROVE  SaveNamed'
  BY <1>19 DEF CloseRemoves, RecordClose, Terminate, CloseKeepsRoot, CloseForgets,
     CloseBuries, TypeOK, FilesTyped, RequestsTyped, Named, LocalsNamed, FilesNamed,
     SaveNamed, Of, Saving, Transaction
<1>20. ASSUME NEW t \in Threads, ReconcileAcknowledges(t) \/ ReconcileReleases(t)
      PROVE  SaveNamed'
  BY <1>20 DEF ReconcileAcknowledges, ReconcileClears, ReconcileReleases, Releasable,
     TypeOK, FilesTyped, RequestsTyped, Named, LocalsNamed, FilesNamed, SaveNamed, Of,
     Saving, Transaction
<1>21. ASSUME NEW s \in Sessions, LateDone(s)
      PROVE  SaveNamed'
  BY <1>21 DEF LateDone, TypeOK, FilesTyped, RequestsTyped, Named, LocalsNamed,
     FilesNamed, SaveNamed, Of, Saving, Transaction
<1>22. CASE Crash
  BY <1>22 DEF Crash, TypeOK, FilesTyped, RequestsTyped, Named, LocalsNamed, FilesNamed,
     SaveNamed, Of, Saving, Transaction
<1>23. CASE UNCHANGED vars
  BY <1>23 DEF TypeOK, FilesTyped, RequestsTyped, Named, LocalsNamed, FilesNamed,
     SaveNamed, Of, Saving, Transaction
<1>24. QED
  BY <1>1, <1>2, <1>3, <1>4, <1>5, <1>6, <1>7, <1>8, <1>9, <1>10, <1>11, <1>12, <1>13,
     <1>14, <1>15, <1>16, <1>17, <1>18, <1>19, <1>20, <1>21, <1>22, <1>23 DEF Next,
     Save, Open, Exec, Status, Close, Reconcile

\* Every request stays well formed and with its session.
LEMMA RequestsStep ==
    ASSUME TypeOK, Named, Requests, [Next]_vars
    PROVE  Requests'
<1> USE BindingAssumption DEF vars, fileVars, rtVars, localVars, histVars, Goto, Fault,
   Request, Quiet, ClearBinding
<1>1. ASSUME NEW t \in Threads, SaveConflict(t)
      PROVE  Requests'
  <2>1. pc[t] \in Saving /\ SaveFails(t)
    BY <1>1 DEF SaveConflict, In, Named, SaveNamed
  <2>2. CASE Return(t)
    BY <2>2, ReturnKeeps
  <2>3. CASE /\ pc[t] \in Publishing /\ Goto(t, "abandoning")
             /\ UNCHANGED <<sid, localVars>>
    <3>1. base[t] = None
      BY <2>3 DEF Publishing, Requests, LocalsNamed
    <3> QED BY <2>3, <3>1, GotoKeeps DEF Publishing, Points, Bound, Saving
  <2> QED BY <2>1, <2>2, <2>3, SaveFailsIs
<1>2. ASSUME NEW t \in Threads, SaveCheck(t) \/ SaveSession(t) \/ SaveActive(t) \/
   SaveMismatch(t) \/ SaveUndoSession(t)
      PROVE  Requests'
  BY <1>2 DEF SaveCheck, SaveSession, In, SaveActive, SaveMismatch, SaveUndoSession,
     Requests, RequestsTyped, LocalsNamed, Saving, Bound, Points
<1>3. ASSUME NEW t \in Threads, SaveReadback(t)
      PROVE  Requests'
  <2>1. /\ txn.new \in Binding /\ txn.new.sid = sid[t] /\ txn.new.gen \in Nat
        /\ sid[t] \in Sessions
    BY <1>3 DEF SaveReadback, In, TypeOK, FilesTyped, Named, SaveNamed, Requests,
       LocalsNamed, Saving, Transaction, Binding
  <2>2. CASE Return(t)
    BY <2>2, ReturnKeeps
  <2>3. CASE base' = [base EXCEPT ![t] = None] /\ UNCHANGED <<sid, cmd>> /\ Prepare(t,
     txn.new, txn.new.gen, None, "abandoning")
    <3>1. /\ sid' \in [Threads -> Sessions \cup {None}] /\ cmd' \in [Threads -> Nat]
          /\ sid'[t] = txn.new.sid
          /\ base' \in [Threads -> Binding \cup {None}]
          /\ \A u \in Threads \ {t} : sid'[u] = sid[u] /\ base'[u] = base[u]
          /\ base'[t] # None => FALSE
      BY <2>1, <2>3 DEF In, Requests, RequestsTyped, LocalsNamed
    <3> QED
      BY <2>1, <2>3, <3>1, PrepareKeeps DEF Points, Saving
  <2>4. CASE base' = [base EXCEPT ![t] = None] /\ UNCHANGED <<sid, cmd>> /\ Prepare(t,
     txn.new, txn.new.gen, None, "probeAgain")
    <3>1. /\ sid' \in [Threads -> Sessions \cup {None}] /\ cmd' \in [Threads -> Nat]
          /\ sid'[t] = txn.new.sid
          /\ base' \in [Threads -> Binding \cup {None}]
          /\ \A u \in Threads \ {t} : sid'[u] = sid[u] /\ base'[u] = base[u]
          /\ base'[t] # None => FALSE
      BY <2>1, <2>4 DEF Requests, RequestsTyped, LocalsNamed
    <3> QED
      BY <2>1, <2>4, <3>1, PrepareKeeps DEF Points, Saving
  <2>5. CASE base' = [base EXCEPT ![t] = None] /\ UNCHANGED <<sid, cmd>> /\ Prepare(t,
     txn.new, txn.new.gen, None, "acknowledging")
    <3>1. /\ sid' \in [Threads -> Sessions \cup {None}] /\ cmd' \in [Threads -> Nat]
          /\ sid'[t] = txn.new.sid
          /\ base' \in [Threads -> Binding \cup {None}]
          /\ \A u \in Threads \ {t} : sid'[u] = sid[u] /\ base'[u] = base[u]
          /\ base'[t] # None => FALSE
      BY <2>1, <2>5 DEF Requests, RequestsTyped, LocalsNamed
    <3> QED
      BY <2>1, <2>5, <3>1, PrepareKeeps DEF Points, Saving
  <2>6. CASE base' = [base EXCEPT ![t] = None] /\ UNCHANGED <<sid, cmd>> /\ Prepare(t,
     txn.new, txn.new.gen, None, "releasing")
    <3>1. /\ sid' \in [Threads -> Sessions \cup {None}] /\ cmd' \in [Threads -> Nat]
          /\ sid'[t] = txn.new.sid
          /\ base' \in [Threads -> Binding \cup {None}]
          /\ \A u \in Threads \ {t} : sid'[u] = sid[u] /\ base'[u] = base[u]
          /\ base'[t] # None => FALSE
      BY <2>1, <2>6 DEF Requests, RequestsTyped, LocalsNamed
    <3> QED
      BY <2>1, <2>6, <3>1, PrepareKeeps DEF Points, Saving
  <2> QED
    BY <1>3, <2>2, <2>3, <2>4, <2>5, <2>6, ReadbackIs
<1>4. ASSUME NEW t \in Threads, SaveUndoActive(t)
      PROVE  Requests'
  <2>1. pc[t] \in Saving /\ SaveFails(t)
    BY <1>4 DEF SaveUndoActive, In, Named, SaveNamed
  <2>2. CASE Return(t)
    BY <2>2, ReturnKeeps
  <2>3. CASE /\ pc[t] \in Publishing /\ Goto(t, "abandoning")
             /\ UNCHANGED <<sid, localVars>>
    <3>1. base[t] = None
      BY <2>3 DEF Publishing, Requests, LocalsNamed
    <3> QED BY <2>3, <3>1, GotoKeeps DEF Publishing, Points, Bound, Saving
  <2> QED BY <2>1, <2>2, <2>3, SaveFailsIs
<1>5. ASSUME NEW t \in Threads, SaveUndoFails(t)
      PROVE  Requests'
  <2>1. pc[t] \in Saving /\ SaveFails(t)
    BY <1>5 DEF SaveUndoFails, In, Named, SaveNamed
  <2>2. CASE Return(t)
    BY <2>2, ReturnKeeps
  <2>3. CASE /\ pc[t] \in Publishing /\ Goto(t, "abandoning")
             /\ UNCHANGED <<sid, localVars>>
    <3>1. base[t] = None
      BY <2>3 DEF Publishing, Requests, LocalsNamed
    <3> QED BY <2>3, <3>1, GotoKeeps DEF Publishing, Points, Bound, Saving
  <2> QED BY <2>1, <2>2, <2>3, SaveFailsIs
<1>6. ASSUME NEW t \in Threads, NEW s \in Sessions, OpenCheck(t, s)
      PROVE  Requests'
  BY <1>6 DEF OpenCheck, Requests, RequestsTyped, LocalsNamed, Saving, Bound, Points
<1>7. ASSUME NEW t \in Threads, OpenRegister(t) \/ OpenFails(t) \/ CloseReleases(t) \/
   CloseRemoves(t) \/ CloseForgets(t)
      PROVE  Requests'
  <2>1. base[t] = None
    BY <1>7 DEF OpenRegister, OpenFails, CloseReleases, CloseRemoves, CloseForgets,
       Requests, LocalsNamed
  <2> QED
    BY <1>7, <2>1, GotoKeeps DEF OpenRegister, OpenFails, CloseReleases, CloseRemoves,
       CloseForgets, Points, Bound, Saving
<1>8. ASSUME NEW t \in Threads, OpenStart(t)
      PROVE  Requests'
  <2>1. /\ sid[t] \in Sessions /\ base[t] = None
        /\ New(sid[t]) \in Binding /\ New(sid[t]).sid = sid[t]
    BY <1>8, NewBinding DEF OpenStart, Requests, LocalsNamed
  <2>2. TimedOut(New(sid[t]), 1) \in Binding /\ TimedOut(New(sid[t]), 1).sid = sid[t]
    BY <2>1, BindingEdits
  <2>3. CASE Goto(t, "abandoning") /\ UNCHANGED <<b, exp>>
    BY <1>8, <2>3, <2>1, GotoKeeps DEF OpenStart, Bound, Saving, Points
  <2>4. CASE Prepare(t, New(sid[t]), 0, None, "publishing")
    <3>1. /\ sid' \in [Threads -> Sessions \cup {None}] /\ cmd' \in [Threads -> Nat]
          /\ sid'[t] = New(sid[t]).sid
          /\ base' \in [Threads -> Binding \cup {None}]
          /\ \A u \in Threads \ {t} : sid'[u] = sid[u] /\ base'[u] = base[u]
          /\ base'[t] # None => FALSE
      BY <1>8, <2>1, <2>2, <2>4 DEF OpenStart, Requests, RequestsTyped, LocalsNamed
    <3> QED
      BY <2>1, <2>2, <2>4, <3>1, PrepareKeeps DEF Points, Saving
  <2>5. CASE Prepare(t, TimedOut(New(sid[t]), 1), 0, None, "publishingLate")
    <3>1. /\ sid' \in [Threads -> Sessions \cup {None}] /\ cmd' \in [Threads -> Nat]
          /\ sid'[t] = TimedOut(New(sid[t]), 1).sid
          /\ base' \in [Threads -> Binding \cup {None}]
          /\ \A u \in Threads \ {t} : sid'[u] = sid[u] /\ base'[u] = base[u]
          /\ base'[t] # None => FALSE
      BY <1>8, <2>1, <2>2, <2>5 DEF OpenStart, Requests, RequestsTyped, LocalsNamed
    <3> QED
      BY <2>1, <2>2, <2>5, <3>1, PrepareKeeps DEF Points, Saving
  <2> QED
    BY <1>8, <2>3, <2>4, <2>5 DEF OpenStart
<1>9. ASSUME NEW t \in Threads, OpenAbandon(t)
      PROVE  Requests'
  <2>1. CASE Return(t)
    BY <2>1, ReturnKeeps
  <2>2. CASE ~Return(t)
    <3>1. sid[t] \in Sessions /\ base[t] = None
      BY <1>9 DEF OpenAbandon, Requests, LocalsNamed
    <3> QED BY <1>9, <2>2, <3>1, GotoKeeps DEF OpenAbandon, Points, Bound, Saving
  <2> QED BY <2>1, <2>2
<1>10. ASSUME NEW t \in Threads, OpenDrop(t) \/ ExecFails(t) \/ CloseCleared(t) \/
   CloseRefused(t) \/ CloseBuries(t)
      PROVE  Requests'
  BY <1>10, ReturnKeeps DEF OpenDrop, ExecFails, CloseCleared, CloseRefused, CloseBuries
<1>11. ASSUME NEW t \in Threads, NEW rec \in Addressed, ExecLoad(t, rec)
      PROVE  Requests'
  BY <1>11 DEF ExecLoad, Addressed, TypeOK, FilesTyped, Binding, Requests,
     RequestsTyped, LocalsNamed, Saving, Bound, Points
<1>12. ASSUME NEW t \in Threads, ExecAdmit(t)
      PROVE  Requests'
  <2>1. /\ sid[t] \in Sessions /\ pc[t] = "reading"
        /\ sess[sid[t]] # None => /\ sess[sid[t]] \in Binding /\ sess[sid[t]].sid = sid[t]
                              /\ sess[sid[t]].gen \in Nat /\ sess[sid[t]].seq \in Nat
        /\ lateSeq[sid[t]] \in Nat /\ seq[sid[t]] \in Nat /\ seq[sid[t]] + 1 \in Nat
    BY <1>12 DEF ExecAdmit, TypeOK, FilesTyped, RuntimeTyped, Requests, RequestsTyped,
       Named, FilesNamed, LocalsNamed, Of, Binding
  <2>2. /\ sess[sid[t]] # None => /\ Pending(sess[sid[t]], lateSeq[sid[t]]) \in Binding
                                  /\ Pending(sess[sid[t]], lateSeq[sid[t]]).sid = sid[t]
        /\ sess[sid[t]] # None => /\ Holding(sess[sid[t]], seq[sid[t]]) \in Binding
                                  /\ Holding(sess[sid[t]], seq[sid[t]]).sid = sid[t]
    BY <2>1, BindingEdits
  <2>3. CASE Return(t)
    BY <2>3, ReturnKeeps
  <2>4. CASE ~Return(t) /\ sess[sid[t]] # None /\ Prepare(t, sess[sid[t]],
     sess[sid[t]].gen, sess[sid[t]].seq, "executing")
    <3>1. /\ sid' \in [Threads -> Sessions \cup {None}] /\ cmd' \in [Threads -> Nat]
          /\ sid'[t] = sess[sid[t]].sid
          /\ base' \in [Threads -> Binding \cup {None}]
          /\ \A u \in Threads \ {t} : sid'[u] = sid[u] /\ base'[u] = base[u]
          /\ base'[t] # None => base'[t].sid = sess[sid[t]].sid
      BY <1>12, <2>1, <2>2, <2>4 DEF ExecAdmit, Requests, RequestsTyped, LocalsNamed
    <3> QED
      BY <2>1, <2>2, <2>4, <3>1, PrepareKeeps DEF Points, Saving
  <2>5. CASE ~Return(t) /\ sess[sid[t]] # None /\ Prepare(t, Pending(sess[sid[t]],
     lateSeq[sid[t]]), sess[sid[t]].gen, sess[sid[t]].seq, "recordingTimeout")
    <3>1. /\ sid' \in [Threads -> Sessions \cup {None}] /\ cmd' \in [Threads -> Nat]
          /\ sid'[t] = Pending(sess[sid[t]], lateSeq[sid[t]]).sid
          /\ base' \in [Threads -> Binding \cup {None}]
          /\ \A u \in Threads \ {t} : sid'[u] = sid[u] /\ base'[u] = base[u]
          /\ base'[t] # None => base'[t].sid = Pending(sess[sid[t]], lateSeq[sid[t]]).sid
      BY SMTT(20), <1>12, <2>1, <2>2, <2>5 DEF ExecAdmit, Requests, RequestsTyped,
         LocalsNamed
    <3> QED
      BY <2>1, <2>2, <2>5, <3>1, PrepareKeeps DEF Points, Saving
  <2>6. CASE ~Return(t) /\ sess[sid[t]] # None /\ Prepare(t, Holding(sess[sid[t]],
     seq[sid[t]]), sess[sid[t]].gen, sess[sid[t]].seq, "recordingHold")
    <3>1. /\ sid' \in [Threads -> Sessions \cup {None}] /\ cmd' \in [Threads -> Nat]
          /\ sid'[t] = Holding(sess[sid[t]], seq[sid[t]]).sid
          /\ base' \in [Threads -> Binding \cup {None}]
          /\ \A u \in Threads \ {t} : sid'[u] = sid[u] /\ base'[u] = base[u]
          /\ base'[t] # None => base'[t].sid = Holding(sess[sid[t]], seq[sid[t]]).sid
      BY <1>12, <2>1, <2>2, <2>6 DEF ExecAdmit, Requests, RequestsTyped, LocalsNamed
    <3> QED
      BY <2>1, <2>2, <2>6, <3>1, PrepareKeeps DEF Points, Saving
  <2> QED
    BY <1>12, <2>3, <2>4, <2>5, <2>6 DEF ExecAdmit
<1>13. ASSUME NEW t \in Threads, ExecSucceeds(t)
      PROVE  Requests'
  <2>1. /\ b[t] \in Binding /\ b[t].sid = sid[t] /\ sid[t] \in Sessions
        /\ b[t].gen \in Nat /\ b[t].seq \in Nat
        /\ exp[t].gen \in Nat /\ exp[t].seq \in Nat \cup {None}
        /\ cmd[t] \in Nat
    BY <1>13 DEF ExecSucceeds, TypeOK, RuntimeTyped, Requests, RequestsTyped, LocalsNamed,
       Saving, Bound, Binding
  <2>2. Completed(b[t], cmd[t]) \in Binding /\ Completed(b[t], cmd[t]).sid = sid[t]
    BY <2>1, BindingEdits
  <2>3. CASE Prepare(t, Completed(b[t], cmd[t]), exp[t].gen, exp[t].seq, "updating")
    <3>1. /\ sid' \in [Threads -> Sessions \cup {None}] /\ cmd' \in [Threads -> Nat]
          /\ sid'[t] = Completed(b[t], cmd[t]).sid
          /\ base' \in [Threads -> Binding \cup {None}]
          /\ \A u \in Threads \ {t} : sid'[u] = sid[u] /\ base'[u] = base[u]
          /\ base'[t] # None => base'[t].sid = Completed(b[t], cmd[t]).sid
      BY <1>13, <2>1, <2>2, <2>3 DEF ExecSucceeds, Requests, RequestsTyped, LocalsNamed
    <3> QED
      BY <2>1, <2>2, <2>3, <3>1, PrepareKeeps DEF Points, Saving
  <2> QED
    BY <1>13, <2>3 DEF ExecSucceeds
<1>14. ASSUME NEW t \in Threads, ExecTimesOut(t)
      PROVE  Requests'
  <2>1. /\ b[t] \in Binding /\ b[t].sid = sid[t] /\ sid[t] \in Sessions
        /\ b[t].gen \in Nat /\ b[t].seq \in Nat
        /\ exp[t].gen \in Nat /\ exp[t].seq \in Nat \cup {None}
        /\ cmd[t] \in Nat
    BY <1>14 DEF ExecTimesOut, TypeOK, RuntimeTyped, Requests, RequestsTyped, LocalsNamed,
       Saving, Bound, Binding
  <2>2. Pending(b[t], cmd[t]) \in Binding /\ Pending(b[t], cmd[t]).sid = sid[t]
    BY <2>1, BindingEdits
  <2>3. CASE Prepare(t, Pending(b[t], cmd[t]), exp[t].gen, exp[t].seq,
     "recordingTimeout")
    <3>1. /\ sid' \in [Threads -> Sessions \cup {None}] /\ cmd' \in [Threads -> Nat]
          /\ sid'[t] = Pending(b[t], cmd[t]).sid
          /\ base' \in [Threads -> Binding \cup {None}]
          /\ \A u \in Threads \ {t} : sid'[u] = sid[u] /\ base'[u] = base[u]
          /\ base'[t] # None => base'[t].sid = Pending(b[t], cmd[t]).sid
      BY <1>14, <2>1, <2>2, <2>3 DEF ExecTimesOut, Requests, RequestsTyped, LocalsNamed
    <3> QED
      BY <2>1, <2>2, <2>3, <3>1, PrepareKeeps DEF Points, Saving
  <2> QED
    BY <1>14, <2>3 DEF ExecTimesOut
<1>15. ASSUME NEW t \in Threads, ExecHeld(t)
      PROVE  Requests'
  <2>1. /\ b[t] \in Binding /\ b[t].sid = sid[t] /\ sid[t] \in Sessions
        /\ b[t].gen \in Nat /\ b[t].seq \in Nat
        /\ exp[t].gen \in Nat /\ exp[t].seq \in Nat \cup {None}
        /\ cmd[t] \in Nat
    BY <1>15 DEF ExecHeld, TypeOK, RuntimeTyped, Requests, RequestsTyped, LocalsNamed,
       Saving, Bound, Binding
  <2>2. Holding(b[t], cmd[t]) \in Binding /\ Holding(b[t], cmd[t]).sid = sid[t]
    BY <2>1, BindingEdits
  <2>3. CASE Prepare(t, Holding(b[t], cmd[t]), exp[t].gen, exp[t].seq, "recordingHold")
    <3>1. /\ sid' \in [Threads -> Sessions \cup {None}] /\ cmd' \in [Threads -> Nat]
          /\ sid'[t] = Holding(b[t], cmd[t]).sid
          /\ base' \in [Threads -> Binding \cup {None}]
          /\ \A u \in Threads \ {t} : sid'[u] = sid[u] /\ base'[u] = base[u]
          /\ base'[t] # None => base'[t].sid = Holding(b[t], cmd[t]).sid
      BY <1>15, <2>1, <2>2, <2>3 DEF ExecHeld, Requests, RequestsTyped, LocalsNamed
    <3> QED
      BY <2>1, <2>2, <2>3, <3>1, PrepareKeeps DEF Points, Saving
  <2> QED
    BY <1>15, <2>3 DEF ExecHeld
<1>16. ASSUME NEW t \in Threads, StatusRead(t)
      PROVE  Requests'
  <2>1. /\ active \in Binding
        /\ active.sid \in Sessions
        /\ active.gen \in Nat
        /\ active.seq \in Nat
        /\ lateSeq[active.sid] \in Nat /\ seq[active.sid] + 1 \in Nat
    BY <1>16 DEF StatusRead, TypeOK, FilesTyped, RuntimeTyped, Binding
  <2>2. /\ TimedOut(active, lateSeq[active.sid]) \in Binding
        /\ TimedOut(active, lateSeq[active.sid]).sid = active.sid
    BY <2>1, BindingEdits
  <2>3. CASE Goto(t, "rereading") /\ UNCHANGED <<b, exp, cmd>>
    BY <1>16, <2>1, <2>3 DEF StatusRead, Requests, RequestsTyped, LocalsNamed, Saving,
       Bound, Points
  <2>4. CASE Prepare(t, active, active.gen, active.seq, "probing")
    <3>1. /\ sid' \in [Threads -> Sessions \cup {None}] /\ cmd' \in [Threads -> Nat]
          /\ sid'[t] = active.sid
          /\ base' \in [Threads -> Binding \cup {None}]
          /\ \A u \in Threads \ {t} : sid'[u] = sid[u] /\ base'[u] = base[u]
          /\ base'[t] # None => FALSE
      BY <1>16, <2>1, <2>2, <2>4 DEF StatusRead, Requests, RequestsTyped, LocalsNamed
    <3> QED
      BY <2>1, <2>2, <2>4, <3>1, PrepareKeeps DEF Points, Saving
  <2>5. CASE Prepare(t, TimedOut(active, lateSeq[active.sid]), active.gen, None,
     "probeTimeout")
    <3>1. /\ sid' \in [Threads -> Sessions \cup {None}] /\ cmd' \in [Threads -> Nat]
          /\ sid'[t] = TimedOut(active, lateSeq[active.sid]).sid
          /\ base' \in [Threads -> Binding \cup {None}]
          /\ \A u \in Threads \ {t} : sid'[u] = sid[u] /\ base'[u] = base[u]
          /\ base'[t] # None => FALSE
      BY <1>16, <2>1, <2>2, <2>5 DEF StatusRead, Requests, RequestsTyped, LocalsNamed
    <3> QED
      BY <2>1, <2>2, <2>5, <3>1, PrepareKeeps DEF Points, Saving
  <2> QED
    BY <1>16, <2>3, <2>4, <2>5 DEF StatusRead
<1>17. ASSUME NEW t \in Threads, ProbeSucceeds(t)
      PROVE  Requests'
  <2>1. /\ b[t] \in Binding /\ b[t].sid = sid[t] /\ sid[t] \in Sessions
        /\ b[t].gen \in Nat /\ b[t].seq \in Nat
        /\ exp[t].gen \in Nat /\ exp[t].seq \in Nat \cup {None}
        /\ cmd[t] \in Nat
    BY <1>17 DEF ProbeSucceeds, TypeOK, RuntimeTyped, Requests, RequestsTyped, LocalsNamed,
       Saving, Bound, Binding
  <2>2. Probed(b[t], cmd[t]) \in Binding /\ Probed(b[t], cmd[t]).sid = sid[t]
    BY <2>1, BindingEdits
  <2>3. CASE Prepare(t, Probed(b[t], cmd[t]), exp[t].gen, exp[t].seq, "probeUpdating")
    <3>1. /\ sid' \in [Threads -> Sessions \cup {None}] /\ cmd' \in [Threads -> Nat]
          /\ sid'[t] = Probed(b[t], cmd[t]).sid
          /\ base' \in [Threads -> Binding \cup {None}]
          /\ \A u \in Threads \ {t} : sid'[u] = sid[u] /\ base'[u] = base[u]
          /\ base'[t] # None => FALSE
      BY <1>17, <2>1, <2>2, <2>3 DEF ProbeSucceeds, Requests, RequestsTyped, LocalsNamed
    <3> QED
      BY <2>1, <2>2, <2>3, <3>1, PrepareKeeps DEF Points, Saving
  <2> QED
    BY <1>17, <2>3 DEF ProbeSucceeds
<1>18. ASSUME NEW t \in Threads, ProbeTimesOut(t)
      PROVE  Requests'
  <2>1. /\ b[t] \in Binding /\ b[t].sid = sid[t] /\ sid[t] \in Sessions
        /\ b[t].gen \in Nat /\ b[t].seq \in Nat
        /\ exp[t].gen \in Nat /\ exp[t].seq \in Nat \cup {None}
        /\ cmd[t] \in Nat
    BY <1>18 DEF ProbeTimesOut, TypeOK, RuntimeTyped, Requests, RequestsTyped, LocalsNamed,
       Saving, Bound, Binding
  <2>2. TimedOut(b[t], cmd[t]) \in Binding /\ TimedOut(b[t], cmd[t]).sid = sid[t]
    BY <2>1, BindingEdits
  <2>3. CASE Prepare(t, TimedOut(b[t], cmd[t]), exp[t].gen, None, "probeTimeout")
    <3>1. /\ sid' \in [Threads -> Sessions \cup {None}] /\ cmd' \in [Threads -> Nat]
          /\ sid'[t] = TimedOut(b[t], cmd[t]).sid
          /\ base' \in [Threads -> Binding \cup {None}]
          /\ \A u \in Threads \ {t} : sid'[u] = sid[u] /\ base'[u] = base[u]
          /\ base'[t] # None => FALSE
      BY <1>18, <2>1, <2>2, <2>3 DEF ProbeTimesOut, Requests, RequestsTyped, LocalsNamed
    <3> QED
      BY <2>1, <2>2, <2>3, <3>1, PrepareKeeps DEF Points, Saving
  <2> QED
    BY <1>18, <2>3 DEF ProbeTimesOut
<1>19. ASSUME NEW t \in Threads, ProbeFails(t)
      PROVE  Requests'
  BY <1>19 DEF ProbeFails, Requests, RequestsTyped, LocalsNamed, Saving, Bound, Points
<1>20. ASSUME NEW t \in Threads, StatusMark(t)
      PROVE  Requests'
  <2>1. active # None => active \in Binding /\ active.sid \in Sessions /\ active.gen \in Nat
    BY <1>20 DEF TypeOK, FilesTyped, Binding
  <2>2. active # None => Stale(active) \in Binding /\ Stale(active).sid = active.sid
    BY <2>1, BindingEdits
  <2>3. CASE Return(t)
    BY <2>3, ReturnKeeps
  <2>4. CASE ~Return(t) /\ active # None /\ Prepare(t, Stale(active), active.gen, None,
     "marking")
    <3>1. /\ sid' \in [Threads -> Sessions \cup {None}] /\ cmd' \in [Threads -> Nat]
          /\ sid'[t] = Stale(active).sid
          /\ base' \in [Threads -> Binding \cup {None}]
          /\ \A u \in Threads \ {t} : sid'[u] = sid[u] /\ base'[u] = base[u]
          /\ base'[t] # None => FALSE
      BY <1>20, <2>1, <2>2, <2>4 DEF StatusMark, Requests, RequestsTyped, LocalsNamed
    <3> QED
      BY <2>1, <2>2, <2>4, <3>1, PrepareKeeps DEF Points, Saving
  <2> QED
    BY <1>20, <2>3, <2>4 DEF StatusMark
<1>21. ASSUME NEW t \in Threads, NEW s \in Sessions \cup {None}, CloseNothing(t, s)
      PROVE  Requests'
  BY <1>21 DEF CloseNothing, Requests, RequestsTyped, LocalsNamed, Saving, Bound, Points
<1>22. ASSUME NEW t \in Threads, NEW rec \in Addressed, CloseRead(t, rec)
      PROVE  Requests'
  <2>1. rec \in Binding /\ rec.sid \in Sessions /\ rec.gen \in Nat /\ rec.seq \in Nat
    BY <1>22 DEF CloseRead, TypeOK, FilesTyped, Addressed, Binding
  <2>2. CASE Prepare(t, rec, rec.gen, None, "closing")
    <3>1. /\ sid' \in [Threads -> Sessions \cup {None}] /\ cmd' \in [Threads -> Nat]
          /\ sid'[t] = rec.sid
          /\ base' \in [Threads -> Binding \cup {None}]
          /\ \A u \in Threads \ {t} : sid'[u] = sid[u] /\ base'[u] = base[u]
          /\ base'[t] # None => FALSE
      BY <1>22, <2>1, <2>2 DEF CloseRead, Requests, RequestsTyped, LocalsNamed
    <3> QED
      BY <2>1, <2>2, <3>1, PrepareKeeps DEF Points, Saving
  <2> QED
    BY <1>22, <2>2 DEF CloseRead
<1>23. ASSUME NEW t \in Threads, CloseTimesOut(t)
      PROVE  Requests'
  <2>1. /\ b[t] \in Binding /\ b[t].sid = sid[t] /\ sid[t] \in Sessions
        /\ b[t].gen \in Nat /\ b[t].seq \in Nat
        /\ exp[t].gen \in Nat /\ exp[t].seq \in Nat \cup {None}
        /\ seq[sid[t]] + 1 \in Nat
    BY <1>23 DEF CloseTimesOut, TypeOK, RuntimeTyped, Requests, RequestsTyped, LocalsNamed,
       Saving, Bound, Binding
  <2>2. /\ [TimedOut(b[t], seq[sid[t]] + 1) EXCEPT !.live = TRUE] \in Binding
        /\ [TimedOut(b[t], seq[sid[t]] + 1) EXCEPT !.live = TRUE].sid = sid[t]
    BY <2>1, BindingEdits
  <2>3. CASE Prepare(t, [TimedOut(b[t], seq[sid[t]] + 1) EXCEPT !.live = TRUE],
     b[t].gen, b[t].seq, "closeTimeout")
    <3>1. /\ sid' \in [Threads -> Sessions \cup {None}] /\ cmd' \in [Threads -> Nat]
          /\ sid'[t] = [TimedOut(b[t], seq[sid[t]] + 1) EXCEPT !.live = TRUE].sid
          /\ base' \in [Threads -> Binding \cup {None}]
          /\ \A u \in Threads \ {t} : sid'[u] = sid[u] /\ base'[u] = base[u]
          /\ base'[t] # None => FALSE
      BY <1>23, <2>1, <2>2, <2>3 DEF CloseTimesOut, Requests, RequestsTyped, LocalsNamed
    <3> QED
      BY <2>1, <2>2, <2>3, <3>1, PrepareKeeps DEF Points, Saving
  <2> QED
    BY <1>23, <2>3 DEF CloseTimesOut
<1>24. ASSUME NEW t \in Threads, CloseUnreported(t)
      PROVE  Requests'
  <2>1. /\ b[t] \in Binding /\ b[t].sid = sid[t] /\ sid[t] \in Sessions
        /\ b[t].gen \in Nat /\ b[t].seq \in Nat
        /\ exp[t].gen \in Nat /\ exp[t].seq \in Nat \cup {None}
    BY <1>24 DEF CloseUnreported, TypeOK, RuntimeTyped, Requests, RequestsTyped,
       LocalsNamed, Saving, Bound, Binding
  <2>2. ClosedPending(b[t]) \in Binding /\ ClosedPending(b[t]).sid = sid[t]
    BY <2>1, BindingEdits
  <2>3. CASE Prepare(t, ClosedPending(b[t]), b[t].gen, None, "retainingClosed")
    <3>1. /\ sid' \in [Threads -> Sessions \cup {None}] /\ cmd' \in [Threads -> Nat]
          /\ sid'[t] = ClosedPending(b[t]).sid
          /\ base' \in [Threads -> Binding \cup {None}]
          /\ \A u \in Threads \ {t} : sid'[u] = sid[u] /\ base'[u] = base[u]
          /\ base'[t] # None => FALSE
      BY <1>24, <2>1, <2>2, <2>3 DEF CloseUnreported, Requests, RequestsTyped, LocalsNamed
    <3> QED
      BY <2>1, <2>2, <2>3, <3>1, PrepareKeeps DEF Points, Saving
  <2> QED
    BY <1>24, <2>3 DEF CloseUnreported
<1>25. ASSUME NEW t \in Threads, CloseHeld(t)
      PROVE  Requests'
  <2>1. /\ b[t] \in Binding /\ b[t].sid = sid[t] /\ sid[t] \in Sessions
        /\ b[t].gen \in Nat /\ b[t].seq \in Nat
        /\ exp[t].gen \in Nat /\ exp[t].seq \in Nat \cup {None}
        /\ seq[sid[t]] \in Nat
    BY <1>25 DEF CloseHeld, TypeOK, RuntimeTyped, Requests, RequestsTyped, LocalsNamed,
       Saving, Bound, Binding
  <2>2. Holding(b[t], seq[sid[t]]) \in Binding /\ Holding(b[t], seq[sid[t]]).sid = sid[t]
    BY <2>1, BindingEdits
  <2>3. CASE Prepare(t, Holding(b[t], seq[sid[t]]), b[t].gen, b[t].seq, "holdingClosed")
    <3>1. /\ sid' \in [Threads -> Sessions \cup {None}] /\ cmd' \in [Threads -> Nat]
          /\ sid'[t] = Holding(b[t], seq[sid[t]]).sid
          /\ base' \in [Threads -> Binding \cup {None}]
          /\ \A u \in Threads \ {t} : sid'[u] = sid[u] /\ base'[u] = base[u]
          /\ base'[t] # None => FALSE
      BY <1>25, <2>1, <2>2, <2>3 DEF CloseHeld, Requests, RequestsTyped, LocalsNamed
    <3> QED
      BY <2>1, <2>2, <2>3, <3>1, PrepareKeeps DEF Points, Saving
  <2> QED
    BY <1>25, <2>3 DEF CloseHeld
<1>26. ASSUME NEW t \in Threads, CloseKeepsRoot(t)
      PROVE  Requests'
  <2>1. /\ b[t] \in Binding /\ b[t].sid = sid[t] /\ sid[t] \in Sessions
        /\ b[t].gen \in Nat /\ b[t].seq \in Nat
        /\ exp[t].gen \in Nat /\ exp[t].seq \in Nat \cup {None}
    BY <1>26 DEF CloseKeepsRoot, TypeOK, RuntimeTyped, Requests, RequestsTyped, LocalsNamed,
       Saving, Bound, Binding
  <2>2. ClosedPending(b[t]) \in Binding /\ ClosedPending(b[t]).sid = sid[t]
    BY <2>1, BindingEdits
  <2>3. CASE Prepare(t, ClosedPending(b[t]), b[t].gen, None, "retainingClosed")
    <3>1. /\ sid' \in [Threads -> Sessions \cup {None}] /\ cmd' \in [Threads -> Nat]
          /\ sid'[t] = ClosedPending(b[t]).sid
          /\ base' \in [Threads -> Binding \cup {None}]
          /\ \A u \in Threads \ {t} : sid'[u] = sid[u] /\ base'[u] = base[u]
          /\ base'[t] # None => FALSE
      BY <1>26, <2>1, <2>2, <2>3 DEF CloseKeepsRoot, Requests, RequestsTyped, LocalsNamed
    <3> QED
      BY <2>1, <2>2, <2>3, <3>1, PrepareKeeps DEF Points, Saving
  <2> QED
    BY <1>26, <2>3 DEF CloseKeepsRoot
<1>27. ASSUME NEW t \in Threads, NEW rec \in Addressed, ReconcileRead(t, rec)
      PROVE  Requests'
  <2>1. rec \in Binding /\ rec.sid \in Sessions /\ rec.gen \in Nat /\ rec.seq \in Nat
    BY <1>27 DEF ReconcileRead, TypeOK, FilesTyped, Addressed, Binding
  <2>2. Projection(rec) \in Binding /\ Projection(rec).sid = rec.sid
    BY <2>1, ProjectionIs
  <2>3. CASE Prepare(t, Projection(rec), rec.gen, rec.seq, "projecting")
    <3>1. /\ sid' \in [Threads -> Sessions \cup {None}] /\ cmd' \in [Threads -> Nat]
          /\ sid'[t] = Projection(rec).sid
          /\ base' \in [Threads -> Binding \cup {None}]
          /\ \A u \in Threads \ {t} : sid'[u] = sid[u] /\ base'[u] = base[u]
          /\ base'[t] # None => FALSE
      BY <1>27, <2>1, <2>2, <2>3 DEF ReconcileRead, Requests, RequestsTyped, LocalsNamed
    <3> QED
      BY <2>1, <2>2, <2>3, <3>1, PrepareKeeps DEF Points, Saving
  <2> QED
    BY <1>27, <2>3 DEF ReconcileRead
<1>28. ASSUME NEW t \in Threads, ReconcileAcknowledges(t)
      PROVE  Requests'
  <2>1. /\ b[t] \in Binding /\ b[t].sid = sid[t] /\ sid[t] \in Sessions
        /\ b[t].gen \in Nat /\ b[t].seq \in Nat
        /\ exp[t].gen \in Nat /\ exp[t].seq \in Nat \cup {None}
    BY <1>28 DEF ReconcileAcknowledges, TypeOK, RuntimeTyped, Requests, RequestsTyped,
       LocalsNamed, Saving, Bound, Binding
  <2>2. Reconciled(b[t]) \in Binding /\ Reconciled(b[t]).sid = sid[t]
    BY <2>1, BindingEdits
  <2>3. CASE Return(t)
    BY <2>3, ReturnKeeps
  <2>4. CASE ~Return(t) /\ Prepare(t, Reconciled(b[t]), b[t].gen, None, "clearing")
    <3>1. /\ sid' \in [Threads -> Sessions \cup {None}] /\ cmd' \in [Threads -> Nat]
          /\ sid'[t] = Reconciled(b[t]).sid
          /\ base' \in [Threads -> Binding \cup {None}]
          /\ \A u \in Threads \ {t} : sid'[u] = sid[u] /\ base'[u] = base[u]
          /\ base'[t] # None => FALSE
      BY <1>28, <2>1, <2>2, <2>4 DEF ReconcileAcknowledges, Requests, RequestsTyped,
         LocalsNamed
    <3> QED
      BY <2>1, <2>2, <2>4, <3>1, PrepareKeeps DEF Points, Saving
  <2> QED
    BY <1>28, <2>3, <2>4 DEF ReconcileAcknowledges, ReconcileClears
<1>29. ASSUME NEW t \in Threads, ReconcileReleases(t)
      PROVE  Requests'
  <2>1. /\ b[t] \in Binding /\ b[t].sid = sid[t] /\ sid[t] \in Sessions
        /\ b[t].gen \in Nat /\ b[t].seq \in Nat
        /\ exp[t].gen \in Nat /\ exp[t].seq \in Nat \cup {None}
    BY <1>29 DEF ReconcileReleases, TypeOK, RuntimeTyped, Requests, RequestsTyped,
       LocalsNamed, Saving, Bound, Binding
  <2>2. CleanupPending(b[t]) \in Binding /\ CleanupPending(b[t]).sid = sid[t]
    BY <2>1, BindingEdits
  <2>3. CASE Return(t)
    BY <2>3, ReturnKeeps
  <2>4. CASE ~Return(t) /\ Prepare(t, CleanupPending(b[t]), b[t].gen, None, "retaining")
    <3>1. /\ sid' \in [Threads -> Sessions \cup {None}] /\ cmd' \in [Threads -> Nat]
          /\ sid'[t] = CleanupPending(b[t]).sid
          /\ base' \in [Threads -> Binding \cup {None}]
          /\ \A u \in Threads \ {t} : sid'[u] = sid[u] /\ base'[u] = base[u]
          /\ base'[t] # None => FALSE
      BY <1>29, <2>1, <2>2, <2>4 DEF ReconcileReleases, Requests, RequestsTyped, LocalsNamed
    <3> QED
      BY <2>1, <2>2, <2>4, <3>1, PrepareKeeps DEF Points, Saving
  <2> QED
    BY <1>29, <2>3, <2>4 DEF ReconcileReleases
<1>30. ASSUME NEW s \in Sessions, LateDone(s)
      PROVE  Requests'
  BY <1>30 DEF LateDone, Requests, RequestsTyped, LocalsNamed, Saving, Bound, Points
<1>31. CASE Crash
  BY <1>31 DEF Crash, Requests, RequestsTyped, LocalsNamed, Saving, Bound, Points
<1>32. CASE UNCHANGED vars
  BY <1>32 DEF Requests, RequestsTyped, LocalsNamed, Saving, Bound, Points
<1>33. QED
  BY <1>1, <1>2, <1>3, <1>4, <1>5, <1>6, <1>7, <1>8, <1>9, <1>10, <1>11, <1>12, <1>13,
     <1>14, <1>15, <1>16, <1>17, <1>18, <1>19, <1>20, <1>21, <1>22, <1>23, <1>24, <1>25,
     <1>26, <1>27, <1>28, <1>29, <1>30, <1>31, <1>32 DEF Next, Save, Open, Exec, Status,
     Close, Reconcile

\* Together they are inductive.
LEMMA ShapeStep ==
    ASSUME TypeOK, Named, [Next]_vars
    PROVE  TypeOK' /\ Named'
BY FilesStep, RuntimeStep, CountsStep, RequestsStep, SaveNamedStep DEF TypeOK, Named,
   Requests

\* The empty service is well formed.
LEMMA ShapeInit ==
    ASSUME Init
    PROVE  TypeOK /\ Named
<1> USE BindingAssumption DEF Init
<1>1. FilesTyped
  BY DEF FilesTyped
<1>4. RuntimeTyped
  BY DEF RuntimeTyped, Runtime, Late
<1>5. CountsTyped
  <2>1. 0 \in 0..MaxOps /\ 0 \in 0..MaxFaults /\ 0 \in 0..MaxCrashes
    OBVIOUS
  <2> QED BY <2>1 DEF CountsTyped
<1>2. RequestsTyped
  BY DEF RequestsTyped, Points
<1>3. Named
  BY DEF Named, FilesNamed, LocalsNamed, SaveNamed, Of, Bound, Saving
<1> QED BY <1>1, <1>2, <1>3, <1>4, <1>5 DEF TypeOK

-----------------------------------------------------------------------------
\* How far a save that holds the lock has come, and what it found; a removal of the
\* session's root may take its projection away meanwhile.
Progress ==
    txn # None =>
        LET s == txn.new.sid
        IN  /\ txn.step = "session" => /\ sess[s] \in {txn.wasSess, None}
                                       /\ active = txn.wasActive
            /\ txn.step = "active" => sess[s] \in {txn.new, None} /\ active = txn.wasActive
            /\ txn.step = "readback" => sess[s] \in {txn.new, None} /\ active = txn.new
            /\ txn.step = "undoSession" =>
                  /\ sess[s] \in {txn.wasSess, txn.new, None}
                  /\ active \in {txn.wasActive, txn.new}
            /\ txn.step = "undoActive" =>
                  sess[s] \in {txn.wasSess, None} /\ active \in {txn.wasActive, txn.new}
\* Before a save the projections agree, unless an earlier one was torn.
Agree ==
    /\ txn = None /\ ~torn /\ active # None => sess[active.sid] \in {active, None}
    /\ txn # None /\ ~torn /\ txn.wasActive # None => txn.wasSess \in {txn.wasActive, None}

\* One step of a save that holds the lock: it keeps its records and goes on, writing at
\* most one projection.
LEMMA SaveMoves ==
    ASSUME TypeOK, Named, NEW t \in Threads,
           SaveSession(t) \/ SaveActive(t) \/ SaveMismatch(t) \/ SaveUndoSession(t)
    PROVE  /\ txn \in Transaction /\ txn # None /\ txn.by = t /\ sid[t] = txn.new.sid
           /\ txn' \in Transaction /\ txn' # None /\ txn'.by = t /\ txn'.new = txn.new
           /\ txn'.wasSess = txn.wasSess /\ txn'.wasActive = txn.wasActive
           /\ txn.step # "session" => txn'.step # "session"
           /\ UNCHANGED <<commit, torn, closed, pc, sid, localVars, rtVars, store, tomb>>
           /\ \/ /\ txn.step = "session" /\ txn'.step = "active"
                 /\ sess' = [sess EXCEPT ![txn.new.sid] = txn.new]
                 /\ root' = root \cup {txn.new.sid} /\ UNCHANGED active
              \/ txn.step = "session" /\ txn'.step = "undoSession" /\ UNCHANGED fileVars
              \/ /\ txn.step = "active" /\ txn'.step = "readback"
                 /\ active' = txn.new /\ UNCHANGED <<sess, root>>
              \/ txn.step = "active" /\ txn'.step = "undoSession" /\ UNCHANGED fileVars
              \/ txn.step = "readback" /\ txn'.step = "undoSession" /\ UNCHANGED fileVars
              \/ /\ txn.step = "undoSession" /\ txn'.step = "undoActive"
                 /\ sess' = [sess EXCEPT ![txn.new.sid] = txn.wasSess]
                 /\ root' = (IF txn.wasSess = None THEN root ELSE root \cup {txn.new.sid})
                 /\ UNCHANGED active
<1> USE BindingAssumption DEF vars, fileVars, rtVars, localVars, histVars, Fault
<1>1. txn \in Transaction /\ txn # None /\ txn.by = t /\ sid[t] = txn.new.sid
  BY DEF SaveSession, SaveActive, SaveMismatch, SaveUndoSession, In, TypeOK, FilesTyped,
     Named,
         SaveNamed
<1>2. txn' # None
  <2>1. \E p \in Step : /\ txn' = [txn EXCEPT !.step = p]
                        /\ [txn EXCEPT !.step = p] \in Transaction
    BY <1>1 DEF SaveSession, SaveActive, SaveMismatch, SaveUndoSession, Step, Transaction
  <2> QED BY <2>1
<1>3. CASE SaveSession(t)
  BY <1>1, <1>2, <1>3 DEF SaveSession, In, Transaction, Step
<1>4. CASE SaveActive(t)
  BY <1>1, <1>2, <1>4 DEF SaveActive, In, Transaction, Step
<1>5. CASE SaveMismatch(t)
  BY <1>1, <1>2, <1>5 DEF SaveMismatch, In, Transaction, Step
<1>6. CASE SaveUndoSession(t)
  BY <1>1, <1>2, <1>6 DEF SaveUndoSession, In, Transaction, Step
<1> QED BY <1>3, <1>4, <1>5, <1>6

\* A save and its rollback write one projection at a time.
LEMMA ProgressStep ==
    ASSUME TypeOK, Named, Progress, [Next]_vars
    PROVE  Progress'
<1> USE BindingAssumption DEF vars, fileVars, rtVars, localVars, histVars, Goto, Fault,
   Request, Quiet, ClearBinding
<1>1. ASSUME NEW t \in Threads, SaveCheck(t)
      PROVE  Progress'
  <2>1. Payload(t).sid = sid[t]
    BY <1>1, PayloadIs DEF SaveCheck
  <2> QED BY <1>1, <2>1 DEF SaveCheck, Progress, Transaction
<1>2. ASSUME NEW t \in Threads, SaveSession(t) \/ SaveActive(t) \/ SaveMismatch(t) \/
   SaveUndoSession(t)
      PROVE  Progress'
  BY <1>2, SaveMoves DEF Progress, TypeOK, FilesTyped, Binding, Transaction
<1>3. ASSUME NEW t \in Threads, SaveReadback(t)
      PROVE  Progress'
  BY <1>3 DEF SaveReadback, In, OnSuccess, Terminate, Progress, TypeOK, FilesTyped,
     Named, SaveNamed, Transaction
<1>4. ASSUME NEW t \in Threads, SaveUndoActive(t)
      PROVE  Progress'
  BY <1>4 DEF SaveUndoActive, In, SaveFails, OnFailure, Progress, TypeOK, FilesTyped,
     Named, SaveNamed, Transaction
<1>5. ASSUME NEW t \in Threads, SaveUndoFails(t)
      PROVE  Progress'
  BY <1>5 DEF SaveUndoFails, In, SaveFails, OnFailure, Progress, TypeOK, FilesTyped,
     Named, SaveNamed, Transaction
<1>6. ASSUME NEW t \in Threads, NEW s \in Sessions, OpenCheck(t, s)
      PROVE  Progress'
  BY <1>6 DEF OpenCheck, Progress, TypeOK, FilesTyped, Named, SaveNamed, Transaction
<1>7. ASSUME NEW t \in Threads, OpenAbandon(t)
      PROVE  Progress'
  <2>1. /\ sess' = sess \/ sess' = [sess EXCEPT ![sid[t]] = None]
        /\ UNCHANGED <<active, txn>>
    BY <1>7 DEF OpenAbandon
  <2> QED BY <2>1 DEF Progress, TypeOK, FilesTyped, Transaction, Binding
<1>8. ASSUME NEW t \in Threads, OpenDrop(t)
      PROVE  Progress'
  BY <1>8 DEF OpenDrop, Progress, TypeOK, FilesTyped, Named, SaveNamed, Transaction
<1>9. ASSUME NEW t \in Threads, CloseCleared(t)
      PROVE  Progress'
  BY <1>9 DEF CloseCleared, Progress, TypeOK, FilesTyped, Named, SaveNamed, Transaction
<1>10. ASSUME NEW t \in Threads, CloseRemoves(t)
      PROVE  Progress'
  BY <1>10 DEF CloseRemoves, RecordClose, Terminate, RequestsTyped, Progress, TypeOK,
     FilesTyped, Named, SaveNamed, Transaction
<1>11. ASSUME NEW t \in Threads, CloseForgets(t)
      PROVE  Progress'
  BY <1>11 DEF CloseForgets, Progress, TypeOK, FilesTyped, Named, SaveNamed, Transaction
<1>12. ASSUME NEW t \in Threads, CloseBuries(t)
      PROVE  Progress'
  BY <1>12 DEF CloseBuries, Progress, TypeOK, FilesTyped, Named, SaveNamed, Transaction
<1>13. CASE Crash
  BY <1>13 DEF Crash, Progress, TypeOK, FilesTyped, Named, SaveNamed, Transaction
<1>14. CASE UNCHANGED <<sess, active, root, txn, commit, torn, closed>>
  BY <1>14 DEF Progress, TypeOK, FilesTyped, Named, SaveNamed, Transaction
<1>15. QED
  BY <1>1, <1>2, <1>3, <1>4, <1>5, <1>6, <1>7, <1>8, <1>9, <1>10, <1>11, <1>12, <1>13,
     <1>14, FileSteps

\* A save that is not torn leaves the projections as one.
LEMMA AgreeStep ==
    ASSUME TypeOK, Named, Progress, Agree, [Next]_vars
    PROVE  Agree'
<1> USE BindingAssumption DEF vars, fileVars, rtVars, localVars, histVars, Goto, Fault,
   Request, Quiet, ClearBinding
<1>1. ASSUME NEW t \in Threads, SaveCheck(t)
      PROVE  Agree'
  BY <1>1 DEF SaveCheck, SaveRefused, Agree, Progress, TypeOK, FilesTyped, Named,
     SaveNamed, Transaction, Of, Binding
<1>2. ASSUME NEW t \in Threads, SaveSession(t) \/ SaveActive(t) \/ SaveMismatch(t) \/
   SaveUndoSession(t)
      PROVE  Agree'
  BY <1>2, SaveMoves DEF Agree
<1>3. ASSUME NEW t \in Threads, SaveReadback(t)
      PROVE  Agree'
  BY <1>3 DEF SaveReadback, In, OnSuccess, Terminate, Agree, Progress, TypeOK,
     FilesTyped, Named, SaveNamed, Transaction, Of, Binding
<1>4. ASSUME NEW t \in Threads, SaveUndoActive(t)
      PROVE  Agree'
  BY <1>4 DEF SaveUndoActive, In, SaveFails, OnFailure, Agree, Progress, TypeOK,
     FilesTyped, Named, SaveNamed, Transaction, Of, Binding
<1>5. ASSUME NEW t \in Threads, SaveUndoFails(t)
      PROVE  Agree'
  BY <1>5 DEF SaveUndoFails, In, SaveFails, OnFailure, Agree, Progress, TypeOK,
     FilesTyped, Named, SaveNamed, Transaction, Of, Binding
<1>6. ASSUME NEW t \in Threads, NEW s \in Sessions, OpenCheck(t, s)
      PROVE  Agree'
  BY <1>6 DEF OpenCheck, Agree, Progress, TypeOK, FilesTyped, Named, SaveNamed,
     Transaction, Of, Binding
<1>7. ASSUME NEW t \in Threads, OpenAbandon(t)
      PROVE  Agree'
  BY <1>7 DEF OpenAbandon, RecordClose, Terminate, Agree, Progress, TypeOK, FilesTyped,
     Named, SaveNamed, Transaction, Of, Binding
<1>8. ASSUME NEW t \in Threads, OpenDrop(t)
      PROVE  Agree'
  BY <1>8 DEF OpenDrop, Agree, Progress, TypeOK, FilesTyped, Named, SaveNamed,
     Transaction, Of, Binding
<1>9. ASSUME NEW t \in Threads, CloseCleared(t)
      PROVE  Agree'
  BY <1>9 DEF CloseCleared, Agree, Progress, TypeOK, FilesTyped, Named, SaveNamed,
     Transaction, Of, Binding
<1>10. ASSUME NEW t \in Threads, CloseRemoves(t)
      PROVE  Agree'
  BY <1>10 DEF CloseRemoves, RecordClose, Terminate, Agree, Progress, TypeOK,
     FilesTyped, Named, SaveNamed, Transaction, Of, Binding
<1>11. ASSUME NEW t \in Threads, CloseForgets(t)
      PROVE  Agree'
  BY <1>11 DEF CloseForgets, Agree, Progress, TypeOK, FilesTyped, Named, SaveNamed,
     Transaction, Of, Binding
<1>12. ASSUME NEW t \in Threads, CloseBuries(t)
      PROVE  Agree'
  BY <1>12 DEF CloseBuries, Agree, Progress, TypeOK, FilesTyped, Named, SaveNamed,
     Transaction, Of, Binding
<1>13. CASE Crash
  BY <1>13 DEF Crash, Agree, Progress, TypeOK, FilesTyped, Named, SaveNamed,
     Transaction, Of, Binding
<1>14. CASE UNCHANGED <<sess, active, root, txn, commit, torn, closed>>
  BY <1>14 DEF Agree, Progress, TypeOK, FilesTyped, Named, SaveNamed, Transaction, Of,
     Binding
<1>15. QED
  BY <1>1, <1>2, <1>3, <1>4, <1>5, <1>6, <1>7, <1>8, <1>9, <1>10, <1>11, <1>12, <1>13,
     <1>14, FileSteps

\* What the proofs of the projections rest on.
Projected == TypeOK /\ Named /\ Progress /\ Agree

\* Nothing is projected before the first open.
LEMMA InitProjected == Init => Projected
BY ShapeInit DEF Projected, Init, Progress, Agree

\* The conjuncts of Projected, each kept by a lemma above, are kept together.
LEMMA ProjectedStep == Projected /\ [Next]_vars => Projected'
BY ShapeStep, ProgressStep, AgreeStep DEF Projected

\* The invariant of the projections: a save that holds .binding-state.lock knows at
\* each of its steps what the two files hold (_save_binding).
THEOREM ProjectedHolds == Spec => []Projected
BY InitProjected, ProjectedStep, PTL DEF Spec

\* The bindings on disk and in the requests are well formed, whatever save, crash or
\* rollback wrote them.
THEOREM TypeCorrect == Spec => []TypeOK
BY ProjectedHolds, PTL DEF Projected

\* With no save under way and no rollback lost, active_binding.json is its session's own
\* binding.json, or that is gone (_save_binding, _clear_binding).
THEOREM ProjectionsAreOne == Spec => []ProjectionsAgree
<1>1. Projected => ProjectionsAgree
  BY DEF Projected, Agree, ProjectionsAgree
<1> QED BY <1>1, ProjectedHolds, PTL

-----------------------------------------------------------------------------
(* Generations, closed sessions and native sequences. *)

\* A binding that was saved once: its generation is no longer that of New.
Written == {r \in Binding : r.gen >= 1}
Records == Written \cup {None}
GenFiles == /\ sess \in [Sessions -> Records] /\ active \in Records
            /\ commit \in [Sessions -> Records]
            /\ txn # None => /\ txn.new \in Written /\ txn.wasSess \in Records
                             /\ txn.wasActive \in Records
GenLocals ==
    \A t \in Threads :
        /\ pc[t] \in Bound \ Publishing => b[t] \in Written
        /\ pc[t] \in (Saving \cup {"executing", "probing"}) \ Publishing => exp[t].gen >= 1
Gens == GenFiles /\ GenLocals

\* What a request makes of a saved binding has its generation.
LEMMA EditsWritten ==
    ASSUME NEW r \in Written, NEW n \in Nat
    PROVE  /\ Pending(r, n) \in Written /\ TimedOut(r, n) \in Written
           /\ [TimedOut(r, n) EXCEPT !.live = TRUE] \in Written
           /\ Completed(r, n) \in Written /\ Holding(r, n) \in Written
           /\ Probed(r, n) \in Written /\ Stale(r) \in Written
           /\ ClosedPending(r) \in Written /\ Reconciled(r) \in Written
           /\ CleanupPending(r) \in Written
<1>1. r \in Binding /\ r.gen >= 1
  BY DEF Written
<1>2. Pending(r, n).gen = r.gen
  BY <1>1 DEF Pending, Binding
<1>3. TimedOut(r, n).gen = r.gen
  BY <1>1 DEF TimedOut, Binding
<1>4. [TimedOut(r, n) EXCEPT !.live = TRUE].gen = r.gen
  BY <1>1 DEF TimedOut, Binding
<1>5. Completed(r, n).gen = r.gen
  BY <1>1 DEF Completed, Binding
<1>6. Holding(r, n).gen = r.gen
  BY <1>1 DEF Holding, Binding
<1>7. Probed(r, n).gen = r.gen
  BY <1>1 DEF Probed, Binding
<1>8. Stale(r).gen = r.gen
  BY <1>1 DEF Stale, Binding
<1>9. ClosedPending(r).gen = r.gen
  BY <1>1 DEF ClosedPending, Binding
<1>10. Reconciled(r).gen = r.gen
  BY <1>1 DEF Reconciled, Binding
<1>11. CleanupPending(r).gen = r.gen
  BY <1>1 DEF CleanupPending, Binding
<1> QED BY <1>1, <1>2, <1>3, <1>4, <1>5, <1>6, <1>7, <1>8, <1>9, <1>10, <1>11, BindingEdits
        DEF Written

\* Only a saved binding reaches a file.
LEMMA GenFilesStep ==
    ASSUME TypeOK, Named, GenFiles, [Next]_vars
    PROVE  GenFiles'
<1> USE BindingAssumption DEF vars, fileVars, rtVars, localVars, histVars, Goto, Fault,
   Request, Quiet, ClearBinding
<1>1. ASSUME NEW t \in Threads, SaveCheck(t)
      PROVE  GenFiles'
  <2>1. Payload(t) \in Written
    BY <1>1, PayloadIs DEF SaveCheck, TypeOK, FilesTyped, Binding, Written
  <2> QED BY <1>1, <2>1 DEF SaveCheck, GenFiles, Records, Named, LocalsNamed, Saving
<1>2. ASSUME NEW t \in Threads, SaveSession(t) \/ SaveActive(t) \/ SaveMismatch(t) \/
   SaveUndoSession(t)
      PROVE  GenFiles'
  BY <1>2, SaveMoves DEF GenFiles, Records
<1>3. ASSUME NEW t \in Threads, SaveReadback(t)
      PROVE  GenFiles'
  BY <1>3 DEF SaveReadback, In, OnSuccess, Terminate, GenFiles, Written, Records
<1>4. ASSUME NEW t \in Threads, SaveUndoActive(t)
      PROVE  GenFiles'
  BY <1>4 DEF SaveUndoActive, In, SaveFails, OnFailure, GenFiles, Written, Records
<1>5. ASSUME NEW t \in Threads, SaveUndoFails(t)
      PROVE  GenFiles'
  BY <1>5 DEF SaveUndoFails, In, SaveFails, OnFailure, GenFiles, Written, Records
<1>6. ASSUME NEW t \in Threads, NEW s \in Sessions, OpenCheck(t, s)
      PROVE  GenFiles'
  BY <1>6 DEF OpenCheck, GenFiles, Written, Records
<1>7. ASSUME NEW t \in Threads, OpenAbandon(t)
      PROVE  GenFiles'
  BY <1>7 DEF OpenAbandon, RecordClose, Terminate, GenFiles, Written, Records
<1>8. ASSUME NEW t \in Threads, OpenDrop(t)
      PROVE  GenFiles'
  BY <1>8 DEF OpenDrop, GenFiles, Written, Records
<1>9. ASSUME NEW t \in Threads, CloseCleared(t)
      PROVE  GenFiles'
  BY <1>9 DEF CloseCleared, GenFiles, Written, Records
<1>10. ASSUME NEW t \in Threads, CloseRemoves(t)
      PROVE  GenFiles'
  BY <1>10 DEF CloseRemoves, RecordClose, Terminate, GenFiles, Written, Records
<1>11. ASSUME NEW t \in Threads, CloseForgets(t)
      PROVE  GenFiles'
  BY <1>11 DEF CloseForgets, GenFiles, Written, Records
<1>12. ASSUME NEW t \in Threads, CloseBuries(t)
      PROVE  GenFiles'
  BY <1>12 DEF CloseBuries, GenFiles, Written, Records
<1>13. CASE Crash
  BY <1>13 DEF Crash, GenFiles, Written, Records
<1>14. CASE UNCHANGED <<sess, active, root, txn, commit, torn, closed>>
  BY <1>14 DEF GenFiles, Written, Records
<1>15. QED
  BY <1>1, <1>2, <1>3, <1>4, <1>5, <1>6, <1>7, <1>8, <1>9, <1>10, <1>11, <1>12, <1>13,
     <1>14, FileSteps

\* Every request but a publishing one holds a saved binding.
LEMMA GenLocalsStep ==
    ASSUME TypeOK, Named, Requests, Gens, [Next]_vars
    PROVE  GenLocals'
<1> USE BindingAssumption DEF vars, fileVars, rtVars, localVars, histVars, Goto, Return,
   Prepare, Fault, Request, Quiet, ClearBinding, Gens
<1>1. ASSUME NEW t \in Threads, SaveConflict(t)
      PROVE  GenLocals'
  BY <1>1 DEF SaveConflict, SaveFails, OnFailure, Gens, GenLocals, Requests,
     RequestsTyped, Bound, Saving, Publishing
<1>2. ASSUME NEW t \in Threads, SaveCheck(t) \/ SaveSession(t) \/ SaveActive(t) \/
   SaveMismatch(t) \/ SaveUndoSession(t)
      PROVE  GenLocals'
  BY <1>2 DEF SaveCheck, SaveSession, In, SaveActive, SaveMismatch, SaveUndoSession,
     Gens, GenLocals, Requests, RequestsTyped, Bound, Saving, Publishing
<1>3. ASSUME NEW t \in Threads, SaveReadback(t)
      PROVE  GenLocals'
  <2>1. txn.new \in Written
    BY <1>3 DEF SaveReadback, In, GenFiles
  <2> QED
    BY <1>3, <2>1 DEF SaveReadback, In, OnSuccess, Terminate, Requests, RequestsTyped,
       Written, GenLocals, Bound, Saving, Publishing
<1>4. ASSUME NEW t \in Threads, SaveUndoActive(t)
      PROVE  GenLocals'
  BY <1>4 DEF SaveUndoActive, In, SaveFails, OnFailure, Gens, GenLocals, Requests,
     RequestsTyped, Bound, Saving, Publishing
<1>5. ASSUME NEW t \in Threads, SaveUndoFails(t)
      PROVE  GenLocals'
  BY <1>5 DEF SaveUndoFails, In, SaveFails, OnFailure, Gens, GenLocals, Requests,
     RequestsTyped, Bound, Saving, Publishing
<1>6. ASSUME NEW t \in Threads, NEW s \in Sessions, OpenCheck(t, s)
      PROVE  GenLocals'
  BY <1>6 DEF OpenCheck, Gens, GenLocals, Requests, RequestsTyped, Bound, Saving,
     Publishing
<1>7. ASSUME NEW t \in Threads, OpenRegister(t)
      PROVE  GenLocals'
  BY <1>7 DEF OpenRegister, Gens, GenLocals, Requests, RequestsTyped, Bound, Saving,
     Publishing
<1>8. ASSUME NEW t \in Threads, OpenFails(t)
      PROVE  GenLocals'
  BY <1>8 DEF OpenFails, Gens, GenLocals, Requests, RequestsTyped, Bound, Saving,
     Publishing
<1>9. ASSUME NEW t \in Threads, OpenStart(t)
      PROVE  GenLocals'
  BY <1>9 DEF OpenStart, Gens, GenLocals, Requests, RequestsTyped, Bound, Saving,
     Publishing
<1>10. ASSUME NEW t \in Threads, OpenAbandon(t)
      PROVE  GenLocals'
  BY <1>10 DEF OpenAbandon, RecordClose, Terminate, Gens, GenLocals, Requests,
     RequestsTyped, Bound, Saving, Publishing
<1>11. ASSUME NEW t \in Threads, OpenDrop(t)
      PROVE  GenLocals'
  BY <1>11 DEF OpenDrop, Gens, GenLocals, Requests, RequestsTyped, Bound, Saving,
     Publishing
<1>12. ASSUME NEW t \in Threads, NEW rec \in Addressed, ExecLoad(t, rec)
      PROVE  GenLocals'
  BY <1>12 DEF ExecLoad, Addressed, Gens, GenLocals, Requests, RequestsTyped, Bound,
     Saving, Publishing
<1>13. ASSUME NEW t \in Threads, ExecAdmit(t)
      PROVE  GenLocals'
  <2>1. /\ sess[sid[t]] # None => sess[sid[t]] \in Written
        /\ lateSeq[sid[t]] \in Nat /\ seq[sid[t]] \in Nat
    BY <1>13 DEF ExecAdmit, GenFiles, Records, Requests, LocalsNamed, TypeOK, RuntimeTyped
  <2>2. /\ sess[sid[t]] # None => Pending(sess[sid[t]], lateSeq[sid[t]]) \in Written
        /\ sess[sid[t]] # None => Holding(sess[sid[t]], seq[sid[t]]) \in Written
    BY <2>1, EditsWritten
  <2> QED
    BY <1>13, <2>1, <2>2 DEF ExecAdmit, Requests, RequestsTyped, Written, GenLocals, Bound,
       Saving, Publishing
<1>14. ASSUME NEW t \in Threads, ExecSucceeds(t)
      PROVE  GenLocals'
  <2>1. /\ b[t] \in Written
        /\ (pc[t] \in {"executing", "probing"} => exp[t].gen >= 1)
        /\ cmd[t] \in Nat
    BY <1>14 DEF ExecSucceeds, GenLocals, Bound, Saving, Publishing, TypeOK, RuntimeTyped,
       RequestsTyped, Requests, LocalsNamed
  <2>2. Completed(b[t], cmd[t]) \in Written
    BY <2>1, EditsWritten
  <2> QED
    BY <1>14, <2>1, <2>2 DEF ExecSucceeds, Requests, RequestsTyped, Written, GenLocals,
       Bound, Saving, Publishing
<1>15. ASSUME NEW t \in Threads, ExecTimesOut(t)
      PROVE  GenLocals'
  <2>1. /\ b[t] \in Written
        /\ (pc[t] \in {"executing", "probing"} => exp[t].gen >= 1)
        /\ cmd[t] \in Nat
    BY <1>15 DEF ExecTimesOut, GenLocals, Bound, Saving, Publishing, TypeOK, RuntimeTyped,
       RequestsTyped, Requests, LocalsNamed
  <2>2. Pending(b[t], cmd[t]) \in Written
    BY <2>1, EditsWritten
  <2> QED
    BY <1>15, <2>1, <2>2 DEF ExecTimesOut, Requests, RequestsTyped, Written, GenLocals,
       Bound, Saving, Publishing
<1>16. ASSUME NEW t \in Threads, ExecHeld(t)
      PROVE  GenLocals'
  <2>1. /\ b[t] \in Written
        /\ (pc[t] \in {"executing", "probing"} => exp[t].gen >= 1)
        /\ cmd[t] \in Nat
    BY <1>16 DEF ExecHeld, GenLocals, Bound, Saving, Publishing, TypeOK, RuntimeTyped,
       RequestsTyped, Requests, LocalsNamed
  <2>2. Holding(b[t], cmd[t]) \in Written
    BY <2>1, EditsWritten
  <2> QED
    BY <1>16, <2>1, <2>2 DEF ExecHeld, Requests, RequestsTyped, Written, GenLocals, Bound,
       Saving, Publishing
<1>17. ASSUME NEW t \in Threads, ExecFails(t)
      PROVE  GenLocals'
  BY <1>17 DEF ExecFails, Gens, GenLocals, Requests, RequestsTyped, Bound, Saving,
     Publishing
<1>18. ASSUME NEW t \in Threads, StatusRead(t)
      PROVE  GenLocals'
  <2>1. /\ active \in Written
        /\ lateSeq[active.sid] \in Nat
    BY <1>18 DEF StatusRead, GenFiles, Records, Written, Binding, TypeOK, RuntimeTyped
  <2>2. TimedOut(active, lateSeq[active.sid]) \in Written
    BY <2>1, EditsWritten
  <2> QED
    BY <1>18, <2>1, <2>2 DEF StatusRead, Requests, RequestsTyped, Written, GenLocals, Bound,
       Saving, Publishing
<1>19. ASSUME NEW t \in Threads, ProbeSucceeds(t)
      PROVE  GenLocals'
  <2>1. /\ b[t] \in Written
        /\ (pc[t] \in {"executing", "probing"} => exp[t].gen >= 1)
        /\ cmd[t] \in Nat
    BY <1>19 DEF ProbeSucceeds, GenLocals, Bound, Saving, Publishing, TypeOK, RuntimeTyped,
       RequestsTyped, Requests, LocalsNamed
  <2>2. Probed(b[t], cmd[t]) \in Written
    BY <2>1, EditsWritten
  <2> QED
    BY <1>19, <2>1, <2>2 DEF ProbeSucceeds, Requests, RequestsTyped, Written, GenLocals,
       Bound, Saving, Publishing
<1>20. ASSUME NEW t \in Threads, ProbeTimesOut(t)
      PROVE  GenLocals'
  <2>1. /\ b[t] \in Written
        /\ (pc[t] \in {"executing", "probing"} => exp[t].gen >= 1)
        /\ cmd[t] \in Nat
    BY <1>20 DEF ProbeTimesOut, GenLocals, Bound, Saving, Publishing, TypeOK, RuntimeTyped,
       RequestsTyped, Requests, LocalsNamed
  <2>2. TimedOut(b[t], cmd[t]) \in Written
    BY <2>1, EditsWritten
  <2> QED
    BY <1>20, <2>1, <2>2 DEF ProbeTimesOut, Requests, RequestsTyped, Written, GenLocals,
       Bound, Saving, Publishing
<1>21. ASSUME NEW t \in Threads, ProbeFails(t)
      PROVE  GenLocals'
  BY <1>21 DEF ProbeFails, Gens, GenLocals, Requests, RequestsTyped, Bound, Saving,
     Publishing
<1>22. ASSUME NEW t \in Threads, StatusMark(t)
      PROVE  GenLocals'
  <2>1. active # None => active \in Written
    BY <1>22 DEF StatusMark, GenFiles, Records
  <2>2. active # None => Stale(active) \in Written
    BY <2>1, EditsWritten, 0 \in Nat
  <2> QED
    BY <1>22, <2>1, <2>2 DEF StatusMark, Requests, RequestsTyped, Written, GenLocals, Bound,
       Saving, Publishing
<1>23. ASSUME NEW t \in Threads, NEW s \in Sessions \cup {None}, CloseNothing(t, s)
      PROVE  GenLocals'
  BY <1>23 DEF CloseNothing, Gens, GenLocals, Requests, RequestsTyped, Bound, Saving,
     Publishing
<1>24. ASSUME NEW t \in Threads, CloseCleared(t)
      PROVE  GenLocals'
  BY <1>24 DEF CloseCleared, Gens, GenLocals, Requests, RequestsTyped, Bound, Saving,
     Publishing
<1>25. ASSUME NEW t \in Threads, NEW rec \in Addressed, CloseRead(t, rec)
      PROVE  GenLocals'
  <2>1. rec \in Written
    BY <1>25 DEF CloseRead, Addressed, GenFiles, Records
  <2> QED
    BY <1>25, <2>1 DEF CloseRead, Addressed, Requests, RequestsTyped, Written, GenLocals,
       Bound, Saving, Publishing
<1>26. ASSUME NEW t \in Threads, CloseReleases(t)
      PROVE  GenLocals'
  BY <1>26 DEF CloseReleases, Releasable, Gens, GenLocals, Requests, RequestsTyped,
     Bound, Saving, Publishing
<1>27. ASSUME NEW t \in Threads, CloseRefused(t)
      PROVE  GenLocals'
  BY <1>27 DEF CloseRefused, Gens, GenLocals, Requests, RequestsTyped, Bound, Saving,
     Publishing
<1>28. ASSUME NEW t \in Threads, CloseTimesOut(t)
      PROVE  GenLocals'
  <2>1. /\ b[t] \in Written
        /\ (pc[t] \in {"executing", "probing"} => exp[t].gen >= 1)
        /\ seq[sid[t]] + 1 \in Nat
    BY <1>28 DEF CloseTimesOut, GenLocals, Bound, Saving, Publishing, TypeOK, RuntimeTyped,
       RequestsTyped, Requests, LocalsNamed
  <2>2. [TimedOut(b[t], seq[sid[t]] + 1) EXCEPT !.live = TRUE] \in Written
    BY <2>1, EditsWritten
  <2> QED
    BY <1>28, <2>1, <2>2 DEF CloseTimesOut, Requests, RequestsTyped, Written, GenLocals,
       Bound, Saving, Publishing
<1>29. ASSUME NEW t \in Threads, CloseUnreported(t)
      PROVE  GenLocals'
  <2>1. /\ b[t] \in Written
        /\ (pc[t] \in {"executing", "probing"} => exp[t].gen >= 1)
    BY <1>29 DEF CloseUnreported, GenLocals, Bound, Saving, Publishing
  <2>2. ClosedPending(b[t]) \in Written
    BY <2>1, EditsWritten, 0 \in Nat
  <2> QED
    BY <1>29, <2>1, <2>2 DEF CloseUnreported, Releasable, Requests, RequestsTyped, Written,
       GenLocals, Bound, Saving, Publishing
<1>30. ASSUME NEW t \in Threads, CloseHeld(t)
      PROVE  GenLocals'
  <2>1. /\ b[t] \in Written
        /\ (pc[t] \in {"executing", "probing"} => exp[t].gen >= 1)
        /\ seq[sid[t]] \in Nat
    BY <1>30 DEF CloseHeld, GenLocals, Bound, Saving, Publishing, TypeOK, RuntimeTyped,
       RequestsTyped, Requests, LocalsNamed
  <2>2. Holding(b[t], seq[sid[t]]) \in Written
    BY <2>1, EditsWritten
  <2> QED
    BY <1>30, <2>1, <2>2 DEF CloseHeld, Releasable, Requests, RequestsTyped, Written,
       GenLocals, Bound, Saving, Publishing
<1>31. ASSUME NEW t \in Threads, CloseRemoves(t)
      PROVE  GenLocals'
  BY <1>31 DEF CloseRemoves, RecordClose, Terminate, Gens, GenLocals, Requests,
     RequestsTyped, Bound, Saving, Publishing
<1>32. ASSUME NEW t \in Threads, CloseKeepsRoot(t)
      PROVE  GenLocals'
  <2>1. /\ b[t] \in Written
        /\ (pc[t] \in {"executing", "probing"} => exp[t].gen >= 1)
    BY <1>32 DEF CloseKeepsRoot, GenLocals, Bound, Saving, Publishing
  <2>2. ClosedPending(b[t]) \in Written
    BY <2>1, EditsWritten, 0 \in Nat
  <2> QED
    BY <1>32, <2>1, <2>2 DEF CloseKeepsRoot, Requests, RequestsTyped, Written, GenLocals,
       Bound, Saving, Publishing
<1>33. ASSUME NEW t \in Threads, CloseForgets(t)
      PROVE  GenLocals'
  BY <1>33 DEF CloseForgets, Gens, GenLocals, Requests, RequestsTyped, Bound, Saving,
     Publishing
<1>34. ASSUME NEW t \in Threads, CloseBuries(t)
      PROVE  GenLocals'
  BY <1>34 DEF CloseBuries, Gens, GenLocals, Requests, RequestsTyped, Bound, Saving,
     Publishing
<1>35. ASSUME NEW t \in Threads, NEW rec \in Addressed, ReconcileRead(t, rec)
      PROVE  GenLocals'
  <2>1. rec \in Written
    BY <1>35 DEF ReconcileRead, Addressed, GenFiles, Records
  <2>2. Projection(rec) \in Written
    BY <2>1, ProjectionIs DEF Written, Projection, Binding
  <2> QED
    BY <1>35, <2>1, <2>2 DEF ReconcileRead, Addressed, Awaiting, Preserve, Requests,
       RequestsTyped, Written, GenLocals, Bound, Saving, Publishing
<1>36. ASSUME NEW t \in Threads, ReconcileAcknowledges(t)
      PROVE  GenLocals'
  <2>1. /\ b[t] \in Written
        /\ (pc[t] \in {"executing", "probing"} => exp[t].gen >= 1)
    BY <1>36 DEF ReconcileAcknowledges, GenLocals, Bound, Saving, Publishing
  <2>2. Reconciled(b[t]) \in Written
    BY <2>1, EditsWritten, 0 \in Nat
  <2> QED
    BY <1>36, <2>1, <2>2 DEF ReconcileAcknowledges, ReconcileClears, Requests,
       RequestsTyped, Written, GenLocals, Bound, Saving, Publishing
<1>37. ASSUME NEW t \in Threads, ReconcileReleases(t)
      PROVE  GenLocals'
  <2>1. /\ b[t] \in Written
        /\ (pc[t] \in {"executing", "probing"} => exp[t].gen >= 1)
    BY <1>37 DEF ReconcileReleases, GenLocals, Bound, Saving, Publishing
  <2>2. CleanupPending(b[t]) \in Written
    BY <2>1, EditsWritten, 0 \in Nat
  <2> QED
    BY <1>37, <2>1, <2>2 DEF ReconcileReleases, Releasable, Requests, RequestsTyped,
       Written, GenLocals, Bound, Saving, Publishing
<1>38. ASSUME NEW s \in Sessions, LateDone(s)
      PROVE  GenLocals'
  BY <1>38 DEF LateDone, Gens, GenLocals, Requests, RequestsTyped, Bound, Saving,
     Publishing
<1>39. CASE Crash
  BY <1>39 DEF Crash, Gens, GenLocals, Requests, RequestsTyped, Bound, Saving,
     Publishing
<1>40. CASE UNCHANGED vars
  BY <1>40 DEF Gens, GenLocals, Requests, RequestsTyped, Bound, Saving, Publishing
<1>41. QED
  BY <1>1, <1>2, <1>3, <1>4, <1>5, <1>6, <1>7, <1>8, <1>9, <1>10, <1>11, <1>12, <1>13,
     <1>14, <1>15, <1>16, <1>17, <1>18, <1>19, <1>20, <1>21, <1>22, <1>23, <1>24, <1>25,
     <1>26, <1>27, <1>28, <1>29, <1>30, <1>31, <1>32, <1>33, <1>34, <1>35, <1>36, <1>37,
     <1>38, <1>39, <1>40 DEF Next, Save, Open, Exec, Status, Close, Reconcile

-----------------------------------------------------------------------------
\* Where a request that keeps its session goes next.
Follows(p, q) ==
    \/ p = "uploading" /\ q = "abandoning"
    \/ p = "starting" /\ q \in {"publishing", "publishingLate", "abandoning"}
    \/ p \in Publishing /\ q = "abandoning"
    \/ p = "abandoning" /\ q = "dropping"
    \/ p = "reading" /\ q \in {"executing", "recordingTimeout", "recordingHold"}
    \/ p = "executing" /\ q \in {"updating", "recordingTimeout", "recordingHold"}
    \/ p = "probing" /\ q \in {"probeUpdating", "probeTimeout", "rereading"}
    \/ p = "probeUpdating" /\ q = "probeAgain"
    \/ p = "projecting" /\ q = "acknowledging"
    \/ p = "clearing" /\ q = "releasing"
    \/ p = "releasing" /\ q = "retaining"
    \/ p = "closing" /\ q = "removing"
    \/ p = "removing" /\ q \in {"forgetting", "retainingClosed"}

\* The points where a request arrives with the binding it addresses.
Arrived == {"reading", "probing", "probeTimeout", "rereading"}

\* A step of a request, as its place and its session show it.
Moves(u) ==
    \/ pc'[u] = pc[u] /\ sid'[u] = sid[u]
    \/ pc'[u] = "idle" /\ sid'[u] = None
    \/ /\ pc[u] = "idle"
       /\ pc'[u] = "uploading"
       /\ sid'[u] \in Sessions
       /\ OpenCheck(u, sid'[u])
    \/ pc[u] = "uploading" /\ pc'[u] = "starting" /\ sid'[u] = sid[u] /\ OpenRegister(u)
    \/ pc[u] = "forgetting" /\ pc'[u] = "burying" /\ sid'[u] = sid[u] /\ CloseForgets(u)
    \/ /\ /\ pc[u] = "closing"
       /\ pc'[u] \in {"closeTimeout", "retainingClosed", "holdingClosed"}
       /\ sid'[u] = sid[u] /\ rt[sid[u]] # "none"
    \/ /\ pc[u] = "acknowledging" /\ pc'[u] = "clearing" /\ sid'[u] = sid[u]
       /\ late' = [late EXCEPT ![sid[u]] = "acknowledged"]
    \/ pc[u] = "idle" /\ pc'[u] = "closingNothing"
    \/ /\ pc[u] = "idle" /\ pc'[u] \in Arrived
       /\ \E r \in Addressed : /\ sid'[u] = r.sid
                               /\ pc'[u] # "rereading" => rt[r.sid] # "none"
    \/ /\ pc[u] = "idle" /\ pc'[u] = "closing"
       /\ \E r \in Addressed : sid'[u] = r.sid /\ CloseRead(u, r)
    \/ /\ pc[u] = "idle" /\ pc'[u] = "projecting"
       /\ \E r \in Addressed : sid'[u] = r.sid /\ ReconcileRead(u, r)
    \/ pc[u] = "rereading" /\ pc'[u] = "marking" /\ \E r \in Addressed : sid'[u] = r.sid
    \/ sid'[u] = sid[u] /\ Follows(pc[u], pc'[u])

\* The steps of the requests are these moves.
LEMMA RequestMoves ==
    ASSUME TypeOK, Named, NEW u \in Threads, [Next]_vars
    PROVE  Moves(u)
<1>0. pc \in [Threads -> Points] /\ sid \in [Threads -> Sessions \cup {None}]
  BY DEF TypeOK, RequestsTyped
<1> USE BindingAssumption DEF vars, fileVars, rtVars, localVars, histVars, Goto, Return,
   Prepare, Fault, Request, Quiet, ClearBinding
<1>1. ASSUME NEW t \in Threads, SaveConflict(t)
      PROVE  Moves(u)
  BY <1>1, <1>0 DEF SaveConflict, SaveFails, OnFailure, Moves, Follows, Publishing
<1>2. ASSUME NEW t \in Threads, SaveCheck(t) \/ SaveSession(t) \/ SaveActive(t) \/
   SaveMismatch(t) \/ SaveUndoSession(t)
      PROVE  Moves(u)
  BY <1>2, <1>0 DEF SaveCheck, SaveSession, In, SaveActive, SaveMismatch,
     SaveUndoSession, Moves, Follows, Publishing
<1>3. ASSUME NEW t \in Threads, SaveReadback(t)
      PROVE  Moves(u)
  BY <1>3, <1>0 DEF SaveReadback, In, OnSuccess, Terminate, Moves, Follows, Publishing
<1>4. ASSUME NEW t \in Threads, SaveUndoActive(t)
      PROVE  Moves(u)
  BY <1>4, <1>0 DEF SaveUndoActive, In, SaveFails, OnFailure, Moves, Follows, Publishing
<1>5. ASSUME NEW t \in Threads, SaveUndoFails(t)
      PROVE  Moves(u)
  BY <1>5, <1>0 DEF SaveUndoFails, In, SaveFails, OnFailure, Moves, Follows, Publishing
<1>6. ASSUME NEW t \in Threads, NEW s \in Sessions, OpenCheck(t, s)
      PROVE  Moves(u)
  BY <1>6, <1>0 DEF OpenCheck, Moves, Follows, Publishing
<1>7. ASSUME NEW t \in Threads, OpenRegister(t)
      PROVE  Moves(u)
  BY <1>7, <1>0 DEF OpenRegister, Moves, Follows, Publishing
<1>8. ASSUME NEW t \in Threads, OpenFails(t)
      PROVE  Moves(u)
  BY <1>8, <1>0 DEF OpenFails, Moves, Follows, Publishing
<1>9. ASSUME NEW t \in Threads, OpenStart(t)
      PROVE  Moves(u)
  BY <1>9, <1>0 DEF OpenStart, Moves, Follows, Publishing
<1>10. ASSUME NEW t \in Threads, OpenAbandon(t)
      PROVE  Moves(u)
  BY <1>10, <1>0 DEF OpenAbandon, RecordClose, Terminate, Moves, Follows, Publishing
<1>11. ASSUME NEW t \in Threads, OpenDrop(t)
      PROVE  Moves(u)
  BY <1>11, <1>0 DEF OpenDrop, Moves, Follows, Publishing
<1>12. ASSUME NEW t \in Threads, NEW rec \in Addressed, ExecLoad(t, rec)
      PROVE  Moves(u)
  BY <1>12, <1>0 DEF ExecLoad, Addressed, Arrived, Alive, Moves, Follows, Publishing
<1>13. ASSUME NEW t \in Threads, ExecAdmit(t)
      PROVE  Moves(u)
  BY <1>13, <1>0 DEF ExecAdmit, Alive, Moves, Follows, Publishing
<1>14. ASSUME NEW t \in Threads, ExecSucceeds(t)
      PROVE  Moves(u)
  BY <1>14, <1>0 DEF ExecSucceeds, Moves, Follows, Publishing
<1>15. ASSUME NEW t \in Threads, ExecTimesOut(t)
      PROVE  Moves(u)
  BY <1>15, <1>0 DEF ExecTimesOut, Moves, Follows, Publishing
<1>16. ASSUME NEW t \in Threads, ExecHeld(t)
      PROVE  Moves(u)
  BY <1>16, <1>0 DEF ExecHeld, Moves, Follows, Publishing
<1>17. ASSUME NEW t \in Threads, ExecFails(t)
      PROVE  Moves(u)
  BY <1>17, <1>0 DEF ExecFails, Moves, Follows, Publishing
<1>18. ASSUME NEW t \in Threads, StatusRead(t)
      PROVE  Moves(u)
  BY <1>18, <1>0 DEF StatusRead, Addressed, Arrived, Moves, Follows, Publishing
<1>19. ASSUME NEW t \in Threads, ProbeSucceeds(t)
      PROVE  Moves(u)
  BY <1>19, <1>0 DEF ProbeSucceeds, Moves, Follows, Publishing
<1>20. ASSUME NEW t \in Threads, ProbeTimesOut(t)
      PROVE  Moves(u)
  BY <1>20, <1>0 DEF ProbeTimesOut, Moves, Follows, Publishing
<1>21. ASSUME NEW t \in Threads, ProbeFails(t)
      PROVE  Moves(u)
  BY <1>21, <1>0 DEF ProbeFails, Moves, Follows, Publishing
<1>22. ASSUME NEW t \in Threads, StatusMark(t)
      PROVE  Moves(u)
  BY <1>22, <1>0 DEF StatusMark, Addressed, Moves, Follows, Publishing
<1>23. ASSUME NEW t \in Threads, NEW s \in Sessions \cup {None}, CloseNothing(t, s)
      PROVE  Moves(u)
  BY <1>23, <1>0 DEF CloseNothing, Moves, Follows, Publishing
<1>24. ASSUME NEW t \in Threads, CloseCleared(t)
      PROVE  Moves(u)
  BY <1>24, <1>0 DEF CloseCleared, Moves, Follows, Publishing
<1>25. ASSUME NEW t \in Threads, NEW rec \in Addressed, CloseRead(t, rec)
      PROVE  Moves(u)
  BY <1>25, <1>0 DEF CloseRead, Addressed, Moves, Follows, Publishing
<1>26. ASSUME NEW t \in Threads, CloseReleases(t)
      PROVE  Moves(u)
  BY <1>26, <1>0 DEF CloseReleases, Releasable, Moves, Follows, Publishing
<1>27. ASSUME NEW t \in Threads, CloseRefused(t)
      PROVE  Moves(u)
  BY <1>27, <1>0 DEF CloseRefused, Moves, Follows, Publishing
<1>28. ASSUME NEW t \in Threads, CloseTimesOut(t)
      PROVE  Moves(u)
  BY <1>28, <1>0 DEF CloseTimesOut, Moves, Follows, Publishing
<1>29. ASSUME NEW t \in Threads, CloseUnreported(t)
      PROVE  Moves(u)
  BY <1>29, <1>0 DEF CloseUnreported, Releasable, Moves, Follows, Publishing
<1>30. ASSUME NEW t \in Threads, CloseHeld(t)
      PROVE  Moves(u)
  BY <1>30, <1>0 DEF CloseHeld, Releasable, Moves, Follows, Publishing
<1>31. ASSUME NEW t \in Threads, CloseRemoves(t)
      PROVE  Moves(u)
  BY <1>31, <1>0 DEF CloseRemoves, RecordClose, Terminate, Moves, Follows, Publishing
<1>32. ASSUME NEW t \in Threads, CloseKeepsRoot(t)
      PROVE  Moves(u)
  BY <1>32, <1>0 DEF CloseKeepsRoot, Moves, Follows, Publishing
<1>33. ASSUME NEW t \in Threads, CloseForgets(t)
      PROVE  Moves(u)
  BY <1>33, <1>0 DEF CloseForgets, Moves, Follows, Publishing
<1>34. ASSUME NEW t \in Threads, CloseBuries(t)
      PROVE  Moves(u)
  BY <1>34, <1>0 DEF CloseBuries, Moves, Follows, Publishing
<1>35. ASSUME NEW t \in Threads, NEW rec \in Addressed, ReconcileRead(t, rec)
      PROVE  Moves(u)
  BY <1>35, <1>0 DEF ReconcileRead, Addressed, Awaiting, Preserve, Arrived, Moves,
     Follows, Publishing
<1>36. ASSUME NEW t \in Threads, ReconcileAcknowledges(t)
      PROVE  Moves(u)
  BY <1>36, <1>0 DEF ReconcileAcknowledges, ReconcileClears, Moves, Follows, Publishing
<1>37. ASSUME NEW t \in Threads, ReconcileReleases(t)
      PROVE  Moves(u)
  BY <1>37, <1>0 DEF ReconcileReleases, Releasable, Moves, Follows, Publishing
<1>38. ASSUME NEW s \in Sessions, LateDone(s)
      PROVE  Moves(u)
  BY <1>38, <1>0 DEF LateDone, Moves, Follows, Publishing
<1>39. CASE Crash
  BY <1>39, <1>0 DEF Crash, Moves, Follows, Publishing
<1>40. CASE UNCHANGED vars
  BY <1>40, <1>0 DEF Moves, Follows, Publishing
<1>41. QED
  BY <1>1, <1>2, <1>3, <1>4, <1>5, <1>6, <1>7, <1>8, <1>9, <1>10, <1>11, <1>12, <1>13,
     <1>14, <1>15, <1>16, <1>17, <1>18, <1>19, <1>20, <1>21, <1>22, <1>23, <1>24, <1>25,
     <1>26, <1>27, <1>28, <1>29, <1>30, <1>31, <1>32, <1>33, <1>34, <1>35, <1>36, <1>37,
     <1>38, <1>39, <1>40 DEF Next, Save, Open, Exec, Status, Close, Reconcile

-----------------------------------------------------------------------------
\* A session something is left of: on disk, or in a request past its open.
Works(t, s) == sid[t] = s /\ pc[t] \notin Opening \cup {"closingNothing"}
OnRecord(s) == s \in closed \/ sess[s] # None \/ (active # None /\ active.sid = s)
Known == {s \in Sessions : OnRecord(s) \/ \E t \in Threads : Works(t, s)}

\* The save of a publishing request is past its check and its first write.
Publishes(t) == txn # None /\ txn.by = t /\ txn.step # "session"

\* Until it is published a session is its opener's alone.
PublisherAlone ==
    \A t \in Threads : pc[t] \in Starting =>
        /\ sid[t] \in Known => Publishes(t)
        /\ \A u \in Threads : pc[u] \in Opening /\ sid[u] = sid[t] => u = t
        /\ commit[sid[t]] = None

\* A session that the store does not hold was never published.
Registered ==
    /\ \A s \in Sessions : store[s] = "none" => commit[s] = None /\ s \notin Known
    /\ \A t \in Threads : pc[t] \in {"starting"} \cup Publishing => store[sid[t]] # "none"

\* A closed session is gone: nothing on disk names it, and no request can save it.
Gone == {s \in Sessions :
    /\ sess[s] = None /\ (active = None \/ active.sid # s)
    /\ txn = None \/ txn.new.sid # s
    /\ \A u \in Threads : pc[u] \in Starting => sid[u] # s}
ClosedGone ==
    /\ closed \subseteq Gone
    /\ \A t \in Threads : pc[t] = "burying" => sid[t] \in Gone

Lived == PublisherAlone /\ Registered /\ ClosedGone

\* Who works on a session found it on record, or worked on it before.
LEMMA WorksStep ==
    ASSUME TypeOK, Named, NEW u \in Threads, NEW s \in Sessions, Works(u, s)', [Next]_vars
    PROVE  s \in Known
<1>1. Moves(u)
  BY RequestMoves
<1>2. ASSUME NEW r \in Addressed, sid'[u] = r.sid
      PROVE  OnRecord(s)
  BY <1>2 DEF Addressed, OnRecord, Works, Named, FilesNamed, Of
<1>3. CASE pc'[u] = pc[u] /\ sid'[u] = sid[u]
  BY <1>3 DEF Works, Known
<1>4. CASE sid'[u] = sid[u] /\ Follows(pc[u], pc'[u])
  BY <1>4 DEF Works, Known, Follows, Opening, Starting, Publishing
<1>8. CASE sid'[u] = sid[u] /\ pc[u] \in {"forgetting", "closing", "acknowledging"}
  BY <1>8 DEF Works, Known, Opening, Starting, Publishing
<1>9. pc'[u] # "starting"
  BY DEF Works, Opening, Starting
<1>7. sid'[u] # None
  BY BindingAssumption DEF Works
<1>5. pc'[u] \notin {"uploading", "closingNothing"}
  BY DEF Works, Opening, Starting
<1>6. CASE \E r \in Addressed : sid'[u] = r.sid
  BY <1>2, <1>6 DEF Known
<1> QED BY <1>1, <1>3, <1>4, <1>5, <1>6, <1>7, <1>8, <1>9 DEF Moves

\* A save goes on past its check.
GoesOn == txn # None /\ txn' # None /\ txn'.by = txn.by /\ txn'.step # "session"

\* A session is put on record by a save of it.
LEMMA OnRecordStep ==
    ASSUME TypeOK, Named, Progress, NEW q \in Sessions, OnRecord(q)', [Next]_vars
    PROVE  q \in Known \/ (GoesOn /\ txn.new.sid = q)
<1> USE BindingAssumption DEF vars, fileVars, rtVars, localVars, histVars, Goto, Fault,
   Request, Quiet, ClearBinding
<1>1. ASSUME NEW t \in Threads, SaveCheck(t)
      PROVE  q \in Known \/ (GoesOn /\ txn.new.sid = q)
  BY <1>1 DEF SaveCheck, OnRecord, Known, GoesOn, TypeOK, FilesTyped, Named, SaveNamed,
     Transaction
<1>2. ASSUME NEW t \in Threads, SaveSession(t) \/ SaveActive(t) \/ SaveMismatch(t) \/
   SaveUndoSession(t)
      PROVE  q \in Known \/ (GoesOn /\ txn.new.sid = q)
  BY <1>2, SaveMoves DEF OnRecord, Known, GoesOn, TypeOK, FilesTyped
<1>3. ASSUME NEW t \in Threads, SaveReadback(t)
      PROVE  q \in Known \/ (GoesOn /\ txn.new.sid = q)
  BY <1>3 DEF SaveReadback, In, OnSuccess, Terminate, OnRecord, Known, GoesOn, TypeOK,
     FilesTyped, Named, SaveNamed, Transaction
<1>4. ASSUME NEW t \in Threads, SaveUndoActive(t)
      PROVE  q \in Known \/ (GoesOn /\ txn.new.sid = q)
  BY <1>4 DEF SaveUndoActive, In, SaveFails, OnFailure, Progress, Binding, Of, OnRecord,
     Known, GoesOn, TypeOK, FilesTyped, Named, SaveNamed, Transaction
<1>5. ASSUME NEW t \in Threads, SaveUndoFails(t)
      PROVE  q \in Known \/ (GoesOn /\ txn.new.sid = q)
  BY <1>5 DEF SaveUndoFails, In, SaveFails, OnFailure, OnRecord, Known, GoesOn, TypeOK,
     FilesTyped, Named, SaveNamed, Transaction
<1>6. ASSUME NEW t \in Threads, NEW s \in Sessions, OpenCheck(t, s)
      PROVE  q \in Known \/ (GoesOn /\ txn.new.sid = q)
  BY <1>6 DEF OpenCheck, OnRecord, Known, GoesOn, TypeOK, FilesTyped, Named, SaveNamed,
     Transaction
<1>7. ASSUME NEW t \in Threads, OpenAbandon(t)
      PROVE  q \in Known \/ (GoesOn /\ txn.new.sid = q)
  BY <1>7 DEF OpenAbandon, RecordClose, Terminate, OnRecord, Known, GoesOn, TypeOK,
     FilesTyped, Named, SaveNamed, Transaction
<1>8. ASSUME NEW t \in Threads, CloseCleared(t) \/ CloseForgets(t) \/ OpenDrop(t)
      PROVE  q \in Known \/ (GoesOn /\ txn.new.sid = q)
  BY <1>8 DEF CloseCleared, CloseForgets, OpenDrop, OnRecord, Known, GoesOn, TypeOK,
     FilesTyped, Named, SaveNamed, Transaction
<1>9. ASSUME NEW t \in Threads, CloseRemoves(t)
      PROVE  q \in Known \/ (GoesOn /\ txn.new.sid = q)
  BY <1>9 DEF CloseRemoves, RecordClose, Terminate, OnRecord, Known, GoesOn, TypeOK,
     FilesTyped, Named, SaveNamed, Transaction
<1>10. ASSUME NEW t \in Threads, CloseBuries(t)
      PROVE  q \in Known \/ (GoesOn /\ txn.new.sid = q)
  BY <1>10 DEF CloseBuries, Works, Opening, Starting, Publishing, OnRecord, Known,
     GoesOn, TypeOK, FilesTyped, Named, SaveNamed, Transaction
<1>11. CASE Crash
  BY <1>11 DEF Crash, OnRecord, Known, GoesOn, TypeOK, FilesTyped, Named, SaveNamed,
     Transaction
<1>12. CASE UNCHANGED <<sess, active, root, txn, commit, torn, closed>>
  BY <1>12 DEF OnRecord, Known, GoesOn, TypeOK, FilesTyped, Named, SaveNamed,
     Transaction
<1>13. QED
  BY <1>1, <1>2, <1>3, <1>4, <1>5, <1>6, <1>7, <1>8, <1>9, <1>10, <1>11, <1>12,
     FileSteps

\* A session becomes known only by the save that publishes it.
LEMMA KnownStep ==
    ASSUME TypeOK, Named, Progress, NEW q \in Known', [Next]_vars
    PROVE  q \in Known \/ (GoesOn /\ txn.new.sid = q)
BY WorksStep, OnRecordStep DEF Known

\* A save in progress goes on, or its request leaves.
LEMMA SaveStays ==
    ASSUME TypeOK, Named, txn # None, pc'[txn.by] \in Starting, [Next]_vars
    PROVE  txn' # None /\ txn'.by = txn.by /\ (txn.step # "session" => GoesOn)
<1> USE BindingAssumption DEF vars, fileVars, rtVars, localVars, histVars, Goto, Fault,
   Request, Quiet, ClearBinding
<1>1. ASSUME NEW t \in Threads, SaveCheck(t)
      PROVE  txn' # None /\ txn'.by = txn.by /\ (txn.step # "session" => GoesOn)
  BY <1>1 DEF SaveCheck, GoesOn, TypeOK, FilesTyped, RequestsTyped, Transaction,
     Starting, Publishing
<1>2. ASSUME NEW t \in Threads, SaveSession(t) \/ SaveActive(t) \/ SaveMismatch(t) \/
   SaveUndoSession(t)
      PROVE  txn' # None /\ txn'.by = txn.by /\ (txn.step # "session" => GoesOn)
  BY <1>2, SaveMoves DEF GoesOn
<1>3. ASSUME NEW t \in Threads, SaveReadback(t)
      PROVE  txn' # None /\ txn'.by = txn.by /\ (txn.step # "session" => GoesOn)
  <2>1. t \in Threads /\ txn # None /\ txn.by = t /\ pc[t] \in Saving
    BY <1>3 DEF SaveReadback, In, Named, SaveNamed
  <2>2. pc'[t] \notin Starting
    BY <1>3, <2>1, ReadbackIs DEF TypeOK, RequestsTyped, Starting, Publishing, Return,
       Prepare
  <2> QED BY <2>1, <2>2
<1>4. ASSUME NEW t \in Threads, SaveUndoActive(t) \/ SaveUndoFails(t)
      PROVE  txn' # None /\ txn'.by = txn.by /\ (txn.step # "session" => GoesOn)
  <2>1. t \in Threads /\ txn # None /\ txn.by = t /\ pc[t] \in Saving
    BY <1>4 DEF SaveUndoActive, SaveUndoFails, In, Named, SaveNamed
  <2>2. pc'[t] \notin Starting
    BY <1>4, <2>1, SaveFailsIs DEF SaveUndoActive, SaveUndoFails, TypeOK, RequestsTyped,
       Starting, Publishing, Return, Prepare
  <2> QED BY <2>1, <2>2
<1>5. ASSUME NEW t \in Threads, NEW s \in Sessions, OpenCheck(t, s)
      PROVE  txn' # None /\ txn'.by = txn.by /\ (txn.step # "session" => GoesOn)
  BY <1>5 DEF OpenCheck, GoesOn, TypeOK, FilesTyped, RequestsTyped, Transaction,
     Starting, Publishing
<1>6. ASSUME NEW t \in Threads, OpenAbandon(t)
      PROVE  txn' # None /\ txn'.by = txn.by /\ (txn.step # "session" => GoesOn)
  BY <1>6 DEF OpenAbandon, RecordClose, Terminate, GoesOn, TypeOK, FilesTyped,
     RequestsTyped, Transaction, Starting, Publishing
<1>7. ASSUME NEW t \in Threads, OpenDrop(t)
      PROVE  txn' # None /\ txn'.by = txn.by /\ (txn.step # "session" => GoesOn)
  BY <1>7 DEF OpenDrop, GoesOn, TypeOK, FilesTyped, RequestsTyped, Transaction,
     Starting, Publishing
<1>8. ASSUME NEW t \in Threads, CloseCleared(t)
      PROVE  txn' # None /\ txn'.by = txn.by /\ (txn.step # "session" => GoesOn)
  BY <1>8 DEF CloseCleared, GoesOn, TypeOK, FilesTyped, RequestsTyped, Transaction,
     Starting, Publishing
<1>9. ASSUME NEW t \in Threads, CloseRemoves(t)
      PROVE  txn' # None /\ txn'.by = txn.by /\ (txn.step # "session" => GoesOn)
  BY <1>9 DEF CloseRemoves, RecordClose, Terminate, GoesOn, TypeOK, FilesTyped,
     RequestsTyped, Transaction, Starting, Publishing
<1>10. ASSUME NEW t \in Threads, CloseForgets(t)
      PROVE  txn' # None /\ txn'.by = txn.by /\ (txn.step # "session" => GoesOn)
  BY <1>10 DEF CloseForgets, GoesOn, TypeOK, FilesTyped, RequestsTyped, Transaction,
     Starting, Publishing
<1>11. ASSUME NEW t \in Threads, CloseBuries(t)
      PROVE  txn' # None /\ txn'.by = txn.by /\ (txn.step # "session" => GoesOn)
  BY <1>11 DEF CloseBuries, GoesOn, TypeOK, FilesTyped, RequestsTyped, Transaction,
     Starting, Publishing
<1>12. CASE Crash
  BY <1>12 DEF Crash, GoesOn, TypeOK, FilesTyped, RequestsTyped, Transaction, Starting,
     Publishing
<1>13. CASE UNCHANGED <<sess, active, root, txn, commit, torn, closed>>
  BY <1>13 DEF GoesOn, TypeOK, FilesTyped, RequestsTyped, Transaction, Starting,
     Publishing
<1>14. QED
  BY <1>1, <1>2, <1>3, <1>4, <1>5, <1>6, <1>7, <1>8, <1>9, <1>10, <1>11, <1>12, <1>13,
     FileSteps

\* The save of q that is under way returns.
Answered(q) ==
    /\ txn # None
    /\ txn.new.sid = q
    /\ txn' = None
    /\ commit'[q] = txn.new
    /\ pc'[txn.by] \notin Starting

\* A commit is the answer of a save, and its request has published.
LEMMA CommitStep ==
    ASSUME TypeOK, Named, NEW q \in Sessions, commit'[q] # commit[q], [Next]_vars
    PROVE  Answered(q)
<1> USE BindingAssumption DEF Answered, vars, fileVars, rtVars, localVars, histVars, Goto,
       Fault,
   Request, Quiet, ClearBinding
<1>1. ASSUME NEW t \in Threads, SaveCheck(t)
      PROVE  Answered(q)
  BY <1>1 DEF SaveCheck, TypeOK, FilesTyped, RequestsTyped, Named, SaveNamed, Starting,
     Publishing
<1>2. ASSUME NEW t \in Threads, SaveSession(t) \/ SaveActive(t) \/ SaveMismatch(t) \/
   SaveUndoSession(t)
      PROVE  Answered(q)
  BY <1>2, SaveMoves
<1>3. ASSUME NEW t \in Threads, SaveReadback(t)
      PROVE  Answered(q)
  <2>1. t \in Threads /\ txn # None /\ txn.by = t /\ pc[t] \in Saving
    BY <1>3 DEF SaveReadback, In, Named, SaveNamed
  <2>2. pc'[t] \notin Starting
    BY <1>3, <2>1, ReadbackIs DEF TypeOK, RequestsTyped, Starting, Publishing, Return,
       Prepare
  <2> QED BY <1>3, <2>1, <2>2 DEF SaveReadback, TypeOK, FilesTyped, Named, SaveNamed
<1>4. ASSUME NEW t \in Threads, SaveUndoActive(t)
      PROVE  Answered(q)
  BY <1>4 DEF SaveUndoActive, In, SaveFails, OnFailure, TypeOK, FilesTyped,
     RequestsTyped, Named, SaveNamed, Starting, Publishing
<1>5. ASSUME NEW t \in Threads, SaveUndoFails(t)
      PROVE  Answered(q)
  BY <1>5 DEF SaveUndoFails, In, SaveFails, OnFailure, TypeOK, FilesTyped,
     RequestsTyped, Named, SaveNamed, Starting, Publishing
<1>6. ASSUME NEW t \in Threads, NEW s \in Sessions, OpenCheck(t, s)
      PROVE  Answered(q)
  BY <1>6 DEF OpenCheck, TypeOK, FilesTyped, RequestsTyped, Named, SaveNamed, Starting,
     Publishing
<1>7. ASSUME NEW t \in Threads, OpenAbandon(t)
      PROVE  Answered(q)
  BY <1>7 DEF OpenAbandon, RecordClose, Terminate, TypeOK, FilesTyped, RequestsTyped,
     Named, SaveNamed, Starting, Publishing
<1>8. ASSUME NEW t \in Threads, OpenDrop(t)
      PROVE  Answered(q)
  BY <1>8 DEF OpenDrop, TypeOK, FilesTyped, RequestsTyped, Named, SaveNamed, Starting,
     Publishing
<1>9. ASSUME NEW t \in Threads, CloseCleared(t)
      PROVE  Answered(q)
  BY <1>9 DEF CloseCleared, TypeOK, FilesTyped, RequestsTyped, Named, SaveNamed,
     Starting, Publishing
<1>10. ASSUME NEW t \in Threads, CloseRemoves(t)
      PROVE  Answered(q)
  BY <1>10 DEF CloseRemoves, RecordClose, Terminate, TypeOK, FilesTyped, RequestsTyped,
     Named, SaveNamed, Starting, Publishing
<1>11. ASSUME NEW t \in Threads, CloseForgets(t)
      PROVE  Answered(q)
  BY <1>11 DEF CloseForgets, TypeOK, FilesTyped, RequestsTyped, Named, SaveNamed,
     Starting, Publishing
<1>12. ASSUME NEW t \in Threads, CloseBuries(t)
      PROVE  Answered(q)
  BY <1>12 DEF CloseBuries, TypeOK, FilesTyped, RequestsTyped, Named, SaveNamed,
     Starting, Publishing
<1>13. CASE Crash
  BY <1>13 DEF Crash, TypeOK, FilesTyped, RequestsTyped, Named, SaveNamed, Starting,
     Publishing
<1>14. CASE UNCHANGED <<sess, active, root, txn, commit, torn, closed>>
  BY <1>14 DEF TypeOK, FilesTyped, RequestsTyped, Named, SaveNamed, Starting, Publishing
<1>15. QED
  BY <1>1, <1>2, <1>3, <1>4, <1>5, <1>6, <1>7, <1>8, <1>9, <1>10, <1>11, <1>12, <1>13,
     <1>14, FileSteps

\* No request meets the session of an open before it is published.
LEMMA AloneStep ==
    ASSUME TypeOK, Named, Progress, PublisherAlone, Registered, [Next]_vars
    PROVE  PublisherAlone'
<1> SUFFICES ASSUME NEW t \in Threads, pc'[t] \in Starting
             PROVE  /\ sid'[t] \in Known' => Publishes(t)'
                    /\ \A u \in Threads : pc'[u] \in Opening /\ sid'[u] = sid'[t] => u = t
                    /\ commit'[sid'[t]] = None
  BY DEF PublisherAlone
<1>1. CASE pc[t] \in Starting /\ sid'[t] = sid[t]
  <2>1. sid[t] \in Sessions
    BY <1>1 DEF Named, LocalsNamed, Starting, Publishing
  <2>2. txn # None /\ txn.new.sid = sid[t] => txn.by = t
    <3> SUFFICES ASSUME txn # None, txn.new.sid = sid[t], txn.by # t
                 PROVE  FALSE
      OBVIOUS
    <3>1. txn.by \in Threads /\ pc[txn.by] \in Saving /\ sid[txn.by] = sid[t]
      BY DEF TypeOK, FilesTyped, Transaction, Named, SaveNamed
    <3>2. CASE pc[txn.by] \in Publishing
      BY <1>1, <3>1, <3>2 DEF PublisherAlone, Opening, Starting
    <3>3. CASE pc[txn.by] \notin Publishing
      <4>1. sid[t] \in Known
        BY <2>1, <3>1, <3>3 DEF Known, Works, Saving, Opening, Starting, Publishing
      <4> QED BY <4>1, <1>1 DEF PublisherAlone, Publishes
    <3> QED BY <3>2, <3>3
  <2>3. Publishes(t) => Publishes(t)'
    BY SaveStays DEF Publishes, GoesOn
  <2>4. sid'[t] \in Known' => Publishes(t)'
    BY <1>1, <2>2, <2>3, KnownStep DEF PublisherAlone, Publishes, GoesOn
  <2>5. ASSUME NEW u \in Threads, pc'[u] \in Opening, sid'[u] = sid[t]
        PROVE  u = t
    <3>1. \/ pc[u] \in Opening /\ sid'[u] = sid[u]
          \/ OpenCheck(u, sid[t])
      BY <2>1, <2>5, RequestMoves, BindingAssumption
         DEF Moves, Follows, Opening, Starting, Publishing, Arrived
    <3> QED BY <1>1, <2>5, <3>1 DEF PublisherAlone, OpenCheck
  <2>6. commit'[sid[t]] = None
    BY <1>1, <2>1, <2>2, CommitStep DEF Answered, PublisherAlone
  <2> QED BY <1>1, <2>4, <2>5, <2>6
<1>2. CASE OpenCheck(t, sid'[t]) /\ sid'[t] \in Sessions
  <2> DEFINE s == sid'[t]
  <2>1. /\ store[s] = "none" /\ txn' = txn /\ commit' = commit
        /\ sess' = sess /\ active' = active /\ closed' = closed
        /\ \A u \in Threads : sid[u] # s
        /\ \A u \in Threads \ {t} : sid'[u] = sid[u]
    BY <1>2 DEF OpenCheck, TypeOK, RequestsTyped, fileVars, histVars
  <2>2. commit[s] = None /\ s \notin Known
    BY <1>2, <2>1 DEF Registered
  <2>3. s \notin Known'
    BY <1>2, <2>1, <2>2 DEF Known, OnRecord, Works, Starting, Opening
  <2> QED BY <2>1, <2>2, <2>3
<1> QED
  BY <1>1, <1>2, RequestMoves
     DEF Moves, Follows, Starting, Publishing, Arrived

\* The store never forgets a session.
LEMMA StoreStep ==
    ASSUME TypeOK, NEW q \in Sessions, store'[q] = "none", [Next]_vars
    PROVE  store[q] = "none"
<1> USE BindingAssumption DEF vars, fileVars, rtVars, localVars, histVars, Goto, Fault,
   Request, Quiet, ClearBinding
<1>1. ASSUME NEW t \in Threads, SaveReadback(t)
      PROVE  store[q] = "none"
  BY <1>1 DEF SaveReadback, In, OnSuccess, Terminate, TypeOK, RuntimeTyped
<1>2. ASSUME NEW t \in Threads, OpenRegister(t) \/ OpenStart(t) \/ ExecAdmit(t) \/
   ExecTimesOut(t) \/ ExecHeld(t) \/ StatusRead(t) \/ ProbeTimesOut(t) \/ ProbeFails(t)
   \/ CloseReleases(t) \/ CloseTimesOut(t) \/ CloseUnreported(t) \/ CloseHeld(t) \/
   ReconcileAcknowledges(t) \/ ReconcileReleases(t)
      PROVE  store[q] = "none"
  BY <1>2 DEF OpenRegister, OpenStart, ExecAdmit, ExecTimesOut, ExecHeld, StatusRead,
     ProbeTimesOut, ProbeFails, CloseReleases, Releasable, CloseTimesOut,
     CloseUnreported, CloseHeld, ReconcileAcknowledges, ReconcileClears,
     ReconcileReleases, TypeOK, RuntimeTyped
<1>3. ASSUME NEW t \in Threads, OpenAbandon(t)
      PROVE  store[q] = "none"
  BY <1>3 DEF OpenAbandon, RecordClose, Terminate, TypeOK, RuntimeTyped
<1>4. ASSUME NEW t \in Threads, CloseRemoves(t)
      PROVE  store[q] = "none"
  BY <1>4 DEF CloseRemoves, RecordClose, Terminate, TypeOK, RuntimeTyped
<1>5. ASSUME NEW t \in Threads, NEW rec \in Addressed, ReconcileRead(t, rec)
      PROVE  store[q] = "none"
  BY <1>5 DEF ReconcileRead, Addressed, Awaiting, Preserve, TypeOK, RuntimeTyped
<1>6. ASSUME NEW s \in Sessions, LateDone(s)
      PROVE  store[q] = "none"
  BY <1>6 DEF LateDone, TypeOK, RuntimeTyped
<1>7. CASE Crash
  BY <1>7 DEF Crash, TypeOK, RuntimeTyped
<1>8. CASE UNCHANGED <<rt, seq, late, lateSeq, store>>
  BY <1>8 DEF TypeOK, RuntimeTyped
<1>9. QED
  BY <1>1, <1>2, <1>3, <1>4, <1>5, <1>6, <1>7, <1>8, RuntimeSteps

\* A session with a save of its own was registered.
LEMMA SaverRegistered ==
    ASSUME TypeOK, Named, Registered, NEW q \in Sessions, txn # None, txn.new.sid = q
    PROVE  store[q] # "none"
<1>1. txn.by \in Threads /\ pc[txn.by] \in Saving /\ sid[txn.by] = q
  BY DEF TypeOK, FilesTyped, Transaction, Named, SaveNamed
<1>2. CASE pc[txn.by] \in Publishing
  BY <1>1, <1>2 DEF Registered
<1>3. CASE pc[txn.by] \notin Publishing
  BY <1>1, <1>3 DEF Registered, Known, Works, Saving, Opening, Starting, Publishing
<1> QED BY <1>2, <1>3

\* What the store does not know has no binding, no runtime command and no request.
LEMMA RegisteredStep ==
    ASSUME TypeOK, Named, Progress, Registered, [Next]_vars
    PROVE  Registered'
<1>1. ASSUME NEW q \in Sessions, store'[q] = "none"
      PROVE  commit'[q] = None /\ q \notin Known'
  <2>1. store[q] = "none" /\ ~(txn # None /\ txn.new.sid = q)
    BY <1>1, StoreStep, SaverRegistered
  <2> QED BY <2>1, CommitStep, KnownStep DEF Answered, Registered, GoesOn
<1>2. ASSUME NEW t \in Threads, pc'[t] \in {"starting"} \cup Publishing
      PROVE  store'[sid'[t]] # "none"
  <2>1. CASE pc[t] \in {"starting"} \cup Publishing /\ sid'[t] = sid[t]
    <3>1. sid[t] \in Sessions
      BY <2>1 DEF Named, LocalsNamed, Publishing
    <3> QED BY <2>1, <3>1, StoreStep DEF Registered
  <2>2. CASE OpenRegister(t)
    BY <2>2 DEF OpenRegister, TypeOK, RuntimeTyped, Named, LocalsNamed
  <2> QED BY <1>2, <2>1, <2>2, RequestMoves DEF Moves, Follows, Publishing, Arrived
<1> QED BY <1>1, <1>2 DEF Registered

\* A session is closed by the request that buries it.
LEMMA ClosedStep ==
    ASSUME NEW q \in closed', [Next]_vars
    PROVE  q \in closed \/ \E u \in Threads : pc[u] = "burying" /\ sid[u] = q
<1> USE BindingAssumption DEF vars, fileVars, rtVars, localVars, histVars, Goto, Fault,
   Request, Quiet, ClearBinding
<1>1. ASSUME NEW t \in Threads, SaveCheck(t)
      PROVE  q \in closed \/ \E u \in Threads : pc[u] = "burying" /\ sid[u] = q
  BY <1>1 DEF SaveCheck
<1>2. ASSUME NEW t \in Threads, SaveSession(t) \/ SaveActive(t) \/ SaveMismatch(t) \/
   SaveUndoSession(t)
      PROVE  q \in closed \/ \E u \in Threads : pc[u] = "burying" /\ sid[u] = q
  BY <1>2 DEF SaveSession, In, SaveActive, SaveMismatch, SaveUndoSession
<1>3. ASSUME NEW t \in Threads, SaveReadback(t) \/ SaveUndoActive(t) \/ SaveUndoFails(t)
      PROVE  q \in closed \/ \E u \in Threads : pc[u] = "burying" /\ sid[u] = q
  BY <1>3 DEF SaveReadback, In, OnSuccess, Terminate, SaveUndoActive, SaveFails,
     OnFailure, SaveUndoFails
<1>4. ASSUME NEW t \in Threads, NEW s \in Sessions, OpenCheck(t, s)
      PROVE  q \in closed \/ \E u \in Threads : pc[u] = "burying" /\ sid[u] = q
  BY <1>4 DEF OpenCheck
<1>5. ASSUME NEW t \in Threads, OpenAbandon(t) \/ OpenDrop(t) \/ CloseCleared(t) \/
   CloseRemoves(t) \/ CloseForgets(t)
      PROVE  q \in closed \/ \E u \in Threads : pc[u] = "burying" /\ sid[u] = q
  BY <1>5 DEF OpenAbandon, RecordClose, Terminate, OpenDrop, CloseCleared, CloseRemoves,
     CloseForgets
<1>6. ASSUME NEW t \in Threads, CloseBuries(t)
      PROVE  q \in closed \/ \E u \in Threads : pc[u] = "burying" /\ sid[u] = q
  BY <1>6 DEF CloseBuries
<1>7. CASE Crash
  BY <1>7 DEF Crash
<1>8. CASE UNCHANGED <<sess, active, root, txn, commit, torn, closed>>
  BY <1>8
<1>9. QED
  BY <1>1, <1>2, <1>3, <1>4, <1>5, <1>6, <1>7, <1>8, FileSteps

\* No file names q after the step, and no save but one just admitted.
StaysOff(q) ==
    /\ sess'[q] = None
    /\ (active' = None \/ active'.sid # q)
    /\ (txn' = None \/ txn'.new.sid # q \/ \E u \in Threads : SaveCheck(u) /\ sid[u] = q)

\* What names no session on disk goes on so, until a save of it is admitted.
LEMMA GoneFiles ==
    ASSUME TypeOK, Named, NEW q \in Sessions, sess[q] = None,
           active = None \/ active.sid # q, txn = None \/ txn.new.sid # q, [Next]_vars
    PROVE  StaysOff(q)
<1> USE BindingAssumption DEF StaysOff, vars, fileVars, rtVars, localVars, histVars, Goto,
       Fault,
   Request, Quiet, ClearBinding
<1>1. ASSUME NEW t \in Threads, SaveCheck(t)
      PROVE  StaysOff(q)
  <2>1. Payload(t).sid = sid[t]
    BY <1>1, PayloadIs DEF SaveCheck
  <2> QED BY <1>1, <2>1 DEF SaveCheck
<1>2. ASSUME NEW t \in Threads, SaveSession(t) \/ SaveActive(t) \/ SaveMismatch(t) \/
   SaveUndoSession(t)
      PROVE  StaysOff(q)
  BY <1>2, SaveMoves DEF TypeOK, FilesTyped
<1>3. ASSUME NEW t \in Threads, SaveReadback(t)
      PROVE  StaysOff(q)
  BY <1>3 DEF SaveReadback, In, OnSuccess, Terminate, TypeOK, FilesTyped, Named,
     SaveNamed, Of, Transaction, Binding
<1>4. ASSUME NEW t \in Threads, SaveUndoActive(t)
      PROVE  StaysOff(q)
  BY <1>4 DEF SaveUndoActive, In, SaveFails, OnFailure, TypeOK, FilesTyped, Named,
     SaveNamed, Of, Transaction, Binding
<1>5. ASSUME NEW t \in Threads, SaveUndoFails(t)
      PROVE  StaysOff(q)
  BY <1>5 DEF SaveUndoFails, In, SaveFails, OnFailure, TypeOK, FilesTyped, Named,
     SaveNamed, Of, Transaction, Binding
<1>6. ASSUME NEW t \in Threads, NEW s \in Sessions, OpenCheck(t, s)
      PROVE  StaysOff(q)
  BY <1>6 DEF OpenCheck, TypeOK, FilesTyped, Named, SaveNamed, Of, Transaction, Binding
<1>7. ASSUME NEW t \in Threads, OpenAbandon(t)
      PROVE  StaysOff(q)
  BY <1>7 DEF OpenAbandon, RecordClose, Terminate, TypeOK, FilesTyped, Named, SaveNamed,
     Of, Transaction, Binding
<1>8. ASSUME NEW t \in Threads, OpenDrop(t) \/ CloseCleared(t) \/ CloseForgets(t)
      PROVE  StaysOff(q)
  BY <1>8 DEF OpenDrop, CloseCleared, CloseForgets, TypeOK, FilesTyped, Named,
     SaveNamed, Of, Transaction, Binding
<1>9. ASSUME NEW t \in Threads, CloseRemoves(t)
      PROVE  StaysOff(q)
  BY <1>9 DEF CloseRemoves, RecordClose, Terminate, TypeOK, FilesTyped, Named,
     SaveNamed, Of, Transaction, Binding
<1>10. ASSUME NEW t \in Threads, CloseBuries(t)
      PROVE  StaysOff(q)
  BY <1>10 DEF CloseBuries, TypeOK, FilesTyped, Named, SaveNamed, Of, Transaction,
     Binding
<1>11. CASE Crash
  BY <1>11 DEF Crash, TypeOK, FilesTyped, Named, SaveNamed, Of, Transaction, Binding
<1>12. CASE UNCHANGED <<sess, active, root, txn, commit, torn, closed>>
  BY <1>12 DEF TypeOK, FilesTyped, Named, SaveNamed, Of, Transaction, Binding
<1>13. QED
  BY <1>1, <1>2, <1>3, <1>4, <1>5, <1>6, <1>7, <1>8, <1>9, <1>10, <1>11, <1>12,
     FileSteps

\* A session that is gone stays gone: a save finds no binding, a generation of at
\* least 1 in its hands, and refuses (_save_binding).
LEMMA GoneStep ==
    ASSUME TypeOK, Named, Gens, NEW q \in Gone, [Next]_vars,
           \A u \in Threads : ~OpenCheck(u, q)
    PROVE  q \in Gone'
<1>1. ASSUME NEW u \in Threads, SaveCheck(u), sid[u] = q
      PROVE  FALSE
  <2>1. exp[u].gen = 0 /\ pc[u] \in Saving
    BY <1>1, PayloadIs DEF SaveCheck, Gone
  <2> QED BY <1>1, <2>1 DEF Gens, GenLocals, Gone, Starting
<1>2. /\ sess'[q] = None /\ (active' = None \/ active'.sid # q)
      /\ txn' = None \/ txn'.new.sid # q
  BY <1>1, GoneFiles DEF StaysOff, Gone
<1>3. ASSUME NEW u \in Threads, pc'[u] \in Starting, sid'[u] = q
      PROVE  FALSE
  <2>1. pc[u] \in Starting /\ sid[u] = q
    BY <1>3, RequestMoves, BindingAssumption DEF Moves, Follows, Starting, Publishing,
       Arrived, Gone
  <2> QED BY <2>1 DEF Gone
<1> QED BY <1>2, <1>3 DEF Gone

\* A close answers success only when its session is gone.
LEMMA ClosedGoneStep ==
    ASSUME TypeOK, Named, Gens, PublisherAlone, ClosedGone, [Next]_vars
    PROVE  ClosedGone'
<1>1. ASSUME NEW u \in Threads, pc[u] = "burying"
      PROVE  sid[u] \in Gone'
  BY <1>1, GoneStep DEF ClosedGone, OpenCheck
<1>2. closed' \subseteq Gone'
  BY <1>1, ClosedStep, GoneStep DEF ClosedGone, OpenCheck
<1>3. ASSUME NEW t \in Threads, pc[t] = "forgetting", CloseForgets(t)
      PROVE  sid[t] \in Gone'
  <2> DEFINE s == sid[t]
  <2>1. s \in Sessions /\ s \in Known
    BY <1>3 DEF Named, LocalsNamed, Known, Works, Opening, Starting, Publishing
  <2>2. /\ txn = None /\ txn' = None /\ sid' = sid /\ pc' = [pc EXCEPT ![t] = "burying"]
        /\ sess'[s] = None /\ (active' = None \/ active'.sid # s)
    BY <1>3, <2>1 DEF CloseForgets, ClearBinding, Goto, TypeOK, FilesTyped
  <2>3. \A u \in Threads : pc[u] \in Starting => sid[u] # s
    BY <2>1, <2>2 DEF PublisherAlone, Publishes
  <2> QED BY <2>1, <2>2, <2>3 DEF Gone, Starting, Publishing, TypeOK, RequestsTyped
<1>4. ASSUME NEW t \in Threads, pc'[t] = "burying"
      PROVE  sid'[t] \in Gone'
  BY <1>1, <1>3, <1>4, RequestMoves DEF Moves, Follows, Publishing, Arrived
<1> QED BY <1>2, <1>4 DEF ClosedGone

-----------------------------------------------------------------------------
\* The records whose sequence the runtime has reached.
Behind == {r \in Binding : r.seq <= seq[r.sid]}
SeqFiles ==
    /\ sess \in [Sessions -> Behind \cup {None}] /\ active \in Behind \cup {None}
    /\ commit \in [Sessions -> Behind \cup {None}]
    /\ txn # None => /\ txn.new \in Behind /\ txn.wasSess \in Behind \cup {None}
                     /\ txn.wasActive \in Behind \cup {None}
SeqLocals ==
    \A t \in Threads :
        /\ pc[t] \in Bound => b[t] \in Behind
        /\ base[t] # None => base[t] \in Behind
        /\ pc[t] \in {"executing", "probing"} => cmd[t] >= 1 /\ cmd[t] <= seq[sid[t]]

\* A session that no runtime was started for.
Fresh == {s \in Sessions : rt[s] = "none" /\ late[s] = "none" /\ seq[s] = 0}
Decided == {"preserved", "acknowledged"}
SeqRuntime ==
    /\ \A s \in Sessions : store[s] = "none" => s \in Fresh
    /\ \A t \in Threads : pc[t] \in {"uploading", "starting"} => sid[t] \in Fresh
    /\ \A t \in Threads : pc[t] \in {"projecting", "acknowledging"} =>
          late[sid[t]] \in Decided

\* Only a session whose command timed out is quarantined, and it is while the result
\* of that command is not acknowledged.
Quarantine ==
    \A s \in Sessions :
        /\ rt[s] = "live" => late[s] = "none"
        /\ rt[s] = "quarantined" => late[s] # "none"
        /\ late[s] \in {"running", "done", "preserved"} => rt[s] \in {"quarantined", "none"}
        /\ lateSeq[s] <= seq[s] /\ (late[s] # "none" => lateSeq[s] >= 1)
Sequenced == SeqFiles /\ SeqLocals /\ SeqRuntime /\ Quarantine

\* Sequences only grow: a runtime starts once for a session.
LEMMA SeqGrows ==
    ASSUME TypeOK, SeqRuntime, NEW q \in Sessions, [Next]_vars
    PROVE  seq'[q] \in Nat /\ seq[q] \in Nat /\ seq'[q] >= seq[q]
<1> USE BindingAssumption DEF vars, fileVars, rtVars, localVars, histVars, Goto, Fault,
   Request, Quiet, ClearBinding
<1>1. ASSUME NEW t \in Threads, SaveReadback(t)
      PROVE  seq'[q] \in Nat /\ seq[q] \in Nat /\ seq'[q] >= seq[q]
  BY <1>1 DEF SaveReadback, In, OnSuccess, Terminate, TypeOK, RuntimeTyped, SeqRuntime
<1>2. ASSUME NEW t \in Threads, OpenRegister(t)
      PROVE  seq'[q] \in Nat /\ seq[q] \in Nat /\ seq'[q] >= seq[q]
  BY <1>2 DEF OpenRegister, TypeOK, RuntimeTyped, SeqRuntime
<1>3. ASSUME NEW t \in Threads, OpenStart(t)
      PROVE  seq'[q] \in Nat /\ seq[q] \in Nat /\ seq'[q] >= seq[q]
  BY <1>3 DEF OpenStart, Fresh, TypeOK, RuntimeTyped, SeqRuntime
<1>4. ASSUME NEW t \in Threads, OpenAbandon(t)
      PROVE  seq'[q] \in Nat /\ seq[q] \in Nat /\ seq'[q] >= seq[q]
  BY <1>4 DEF OpenAbandon, RecordClose, Terminate, TypeOK, RuntimeTyped, SeqRuntime
<1>5. ASSUME NEW t \in Threads, ExecAdmit(t)
      PROVE  seq'[q] \in Nat /\ seq[q] \in Nat /\ seq'[q] >= seq[q]
  BY <1>5 DEF ExecAdmit, TypeOK, RuntimeTyped, SeqRuntime
<1>6. ASSUME NEW t \in Threads, ExecTimesOut(t)
      PROVE  seq'[q] \in Nat /\ seq[q] \in Nat /\ seq'[q] >= seq[q]
  BY <1>6 DEF ExecTimesOut, TypeOK, RuntimeTyped, SeqRuntime
<1>7. ASSUME NEW t \in Threads, ExecHeld(t)
      PROVE  seq'[q] \in Nat /\ seq[q] \in Nat /\ seq'[q] >= seq[q]
  BY <1>7 DEF ExecHeld, TypeOK, RuntimeTyped, SeqRuntime
<1>8. ASSUME NEW t \in Threads, StatusRead(t)
      PROVE  seq'[q] \in Nat /\ seq[q] \in Nat /\ seq'[q] >= seq[q]
  BY <1>8 DEF StatusRead, TypeOK, RuntimeTyped, SeqRuntime
<1>9. ASSUME NEW t \in Threads, ProbeTimesOut(t)
      PROVE  seq'[q] \in Nat /\ seq[q] \in Nat /\ seq'[q] >= seq[q]
  BY <1>9 DEF ProbeTimesOut, TypeOK, RuntimeTyped, SeqRuntime
<1>10. ASSUME NEW t \in Threads, ProbeFails(t)
      PROVE  seq'[q] \in Nat /\ seq[q] \in Nat /\ seq'[q] >= seq[q]
  BY <1>10 DEF ProbeFails, TypeOK, RuntimeTyped, SeqRuntime
<1>11. ASSUME NEW t \in Threads, CloseReleases(t)
      PROVE  seq'[q] \in Nat /\ seq[q] \in Nat /\ seq'[q] >= seq[q]
  BY <1>11 DEF CloseReleases, Releasable, TypeOK, RuntimeTyped, SeqRuntime
<1>12. ASSUME NEW t \in Threads, CloseTimesOut(t)
      PROVE  seq'[q] \in Nat /\ seq[q] \in Nat /\ seq'[q] >= seq[q]
  BY <1>12 DEF CloseTimesOut, TypeOK, RuntimeTyped, SeqRuntime
<1>13. ASSUME NEW t \in Threads, CloseUnreported(t)
      PROVE  seq'[q] \in Nat /\ seq[q] \in Nat /\ seq'[q] >= seq[q]
  BY <1>13 DEF CloseUnreported, Releasable, TypeOK, RuntimeTyped, SeqRuntime
<1>14. ASSUME NEW t \in Threads, CloseHeld(t)
      PROVE  seq'[q] \in Nat /\ seq[q] \in Nat /\ seq'[q] >= seq[q]
  BY <1>14 DEF CloseHeld, Releasable, TypeOK, RuntimeTyped, SeqRuntime
<1>15. ASSUME NEW t \in Threads, CloseRemoves(t)
      PROVE  seq'[q] \in Nat /\ seq[q] \in Nat /\ seq'[q] >= seq[q]
  BY <1>15 DEF CloseRemoves, RecordClose, Terminate, TypeOK, RuntimeTyped, SeqRuntime
<1>16. ASSUME NEW t \in Threads, NEW rec \in Addressed, ReconcileRead(t, rec)
      PROVE  seq'[q] \in Nat /\ seq[q] \in Nat /\ seq'[q] >= seq[q]
  BY <1>16 DEF ReconcileRead, Addressed, Awaiting, Preserve, TypeOK, RuntimeTyped,
     SeqRuntime
<1>17. ASSUME NEW t \in Threads, ReconcileAcknowledges(t)
      PROVE  seq'[q] \in Nat /\ seq[q] \in Nat /\ seq'[q] >= seq[q]
  BY <1>17 DEF ReconcileAcknowledges, ReconcileClears, TypeOK, RuntimeTyped, SeqRuntime
<1>18. ASSUME NEW t \in Threads, ReconcileReleases(t)
      PROVE  seq'[q] \in Nat /\ seq[q] \in Nat /\ seq'[q] >= seq[q]
  BY <1>18 DEF ReconcileReleases, Releasable, TypeOK, RuntimeTyped, SeqRuntime
<1>19. ASSUME NEW s \in Sessions, LateDone(s)
      PROVE  seq'[q] \in Nat /\ seq[q] \in Nat /\ seq'[q] >= seq[q]
  BY <1>19 DEF LateDone, TypeOK, RuntimeTyped, SeqRuntime
<1>20. CASE Crash
  BY <1>20 DEF Crash, TypeOK, RuntimeTyped, SeqRuntime
<1>21. CASE UNCHANGED <<rt, seq, late, lateSeq, store>>
  BY <1>21 DEF TypeOK, RuntimeTyped, SeqRuntime
<1>22. QED
  BY <1>1, <1>2, <1>3, <1>4, <1>5, <1>6, <1>7, <1>8, <1>9, <1>10, <1>11, <1>12, <1>13,
     <1>14, <1>15, <1>16, <1>17, <1>18, <1>19, <1>20, <1>21, RuntimeSteps

\* What is behind the native sequence stays behind it.
LEMMA BehindStays ==
    ASSUME TypeOK, SeqRuntime, [Next]_vars
    PROVE  Behind \subseteq Behind'
<1> SUFFICES ASSUME NEW r \in Behind
             PROVE  r \in Behind'
  OBVIOUS
<1>1. r \in Binding /\ r.sid \in Sessions /\ r.seq \in Nat /\ r.seq <= seq[r.sid]
  BY DEF Behind, Binding
<1> QED BY <1>1, SeqGrows DEF Behind

\* What a request makes of a binding is behind the sequences it was made of.
LEMMA EditsBehind ==
    ASSUME NEW r \in Binding, NEW n \in Nat, NEW m \in Nat, r.seq <= m, n <= m
    PROVE  /\ Pending(r, n).seq <= m /\ TimedOut(r, n).seq <= m
           /\ [TimedOut(r, n) EXCEPT !.live = TRUE].seq <= m
           /\ Completed(r, n).seq <= m /\ Holding(r, n).seq <= m
           /\ Probed(r, n).seq <= m /\ Stale(r).seq <= m
           /\ ClosedPending(r).seq <= m /\ Reconciled(r).seq <= m
           /\ CleanupPending(r).seq <= m
BY DEF Pending, TimedOut, Completed, Holding, Probed, Stale, ClosedPending, Reconciled,
       CleanupPending, Binding, Larger

\* Only what was behind is written.
LEMMA SeqFilesStep ==
    ASSUME TypeOK, Named, SeqFiles, SeqLocals, SeqRuntime, [Next]_vars
    PROVE  SeqFiles'
<1>0. Behind \subseteq Behind'
  BY BehindStays
<1> USE BindingAssumption DEF vars, fileVars, rtVars, localVars, histVars, Goto, Fault,
   Request, Quiet, ClearBinding
<1>1. ASSUME NEW t \in Threads, SaveCheck(t)
      PROVE  SeqFiles'
  <2>1. /\ pc[t] \in Saving
        /\ Payload(t) \in Binding
        /\ Payload(t).sid = sid[t]
        /\ Payload(t).seq = b[t].seq
    BY <1>1, PayloadIs DEF SaveCheck
  <2>2. Payload(t) \in Behind
    BY <2>1 DEF SeqLocals, Behind, Bound, Named, LocalsNamed
  <2> QED BY <1>1, <1>0, <2>1, <2>2 DEF SaveCheck, SeqFiles, Named, LocalsNamed, Saving
<1>2. ASSUME NEW t \in Threads, SaveSession(t) \/ SaveActive(t) \/ SaveMismatch(t) \/
   SaveUndoSession(t)
      PROVE  SeqFiles'
  BY <1>2, <1>0, SaveMoves DEF SeqFiles
<1>3. ASSUME NEW t \in Threads, SaveReadback(t)
      PROVE  SeqFiles'
  BY <1>3, <1>0 DEF SaveReadback, In, OnSuccess, Terminate, SeqFiles
<1>4. ASSUME NEW t \in Threads, SaveUndoActive(t)
      PROVE  SeqFiles'
  BY <1>4, <1>0 DEF SaveUndoActive, In, SaveFails, OnFailure, SeqFiles
<1>5. ASSUME NEW t \in Threads, SaveUndoFails(t)
      PROVE  SeqFiles'
  BY <1>5, <1>0 DEF SaveUndoFails, In, SaveFails, OnFailure, SeqFiles
<1>6. ASSUME NEW t \in Threads, NEW s \in Sessions, OpenCheck(t, s)
      PROVE  SeqFiles'
  BY <1>6, <1>0 DEF OpenCheck, SeqFiles
<1>7. ASSUME NEW t \in Threads, OpenAbandon(t)
      PROVE  SeqFiles'
  BY <1>7, <1>0 DEF OpenAbandon, RecordClose, Terminate, SeqFiles
<1>8. ASSUME NEW t \in Threads, OpenDrop(t)
      PROVE  SeqFiles'
  BY <1>8, <1>0 DEF OpenDrop, SeqFiles
<1>9. ASSUME NEW t \in Threads, CloseCleared(t)
      PROVE  SeqFiles'
  BY <1>9, <1>0 DEF CloseCleared, SeqFiles
<1>10. ASSUME NEW t \in Threads, CloseRemoves(t)
      PROVE  SeqFiles'
  BY <1>10, <1>0 DEF CloseRemoves, RecordClose, Terminate, SeqFiles
<1>11. ASSUME NEW t \in Threads, CloseForgets(t)
      PROVE  SeqFiles'
  BY <1>11, <1>0 DEF CloseForgets, SeqFiles
<1>12. ASSUME NEW t \in Threads, CloseBuries(t)
      PROVE  SeqFiles'
  BY <1>12, <1>0 DEF CloseBuries, SeqFiles
<1>13. CASE Crash
  BY <1>13, <1>0 DEF Crash, SeqFiles
<1>14. CASE UNCHANGED <<sess, active, root, txn, commit, torn, closed>>
  BY <1>14, <1>0 DEF SeqFiles
<1>15. QED
  BY <1>1, <1>2, <1>3, <1>4, <1>5, <1>6, <1>7, <1>8, <1>9, <1>10, <1>11, <1>12, <1>13,
     <1>14, FileSteps

\* A command that times out quarantines its session until its result is acknowledged.
LEMMA QuarantineStep ==
    ASSUME TypeOK, Named, SeqLocals, SeqRuntime, Quarantine, [Next]_vars
    PROVE  Quarantine'
<1> USE BindingAssumption DEF vars, fileVars, rtVars, localVars, histVars, Goto, Fault,
   Request, Quiet, ClearBinding
<1>1. ASSUME NEW t \in Threads, SaveReadback(t)
      PROVE  Quarantine'
  BY <1>1 DEF SaveReadback, In, OnSuccess, Terminate, TypeOK, RuntimeTyped,
     RequestsTyped, Quarantine, Late
<1>2. ASSUME NEW t \in Threads, OpenRegister(t)
      PROVE  Quarantine'
  BY <1>2 DEF OpenRegister, TypeOK, RuntimeTyped, RequestsTyped, Quarantine, Late
<1>3. ASSUME NEW t \in Threads, OpenStart(t)
      PROVE  Quarantine'
  BY <1>3 DEF OpenStart, SeqRuntime, Fresh, TypeOK, RuntimeTyped, RequestsTyped,
     Quarantine, Late
<1>4. ASSUME NEW t \in Threads, OpenAbandon(t)
      PROVE  Quarantine'
  BY <1>4 DEF OpenAbandon, RecordClose, Terminate, TypeOK, RuntimeTyped, RequestsTyped,
     Quarantine, Late
<1>5. ASSUME NEW t \in Threads, ExecAdmit(t)
      PROVE  Quarantine'
  BY <1>5 DEF ExecAdmit, TypeOK, RuntimeTyped, RequestsTyped, Quarantine, Late
<1>6. ASSUME NEW t \in Threads, ExecTimesOut(t)
      PROVE  Quarantine'
  BY <1>6 DEF ExecTimesOut, SeqLocals, TypeOK, RuntimeTyped, RequestsTyped, Quarantine,
     Late
<1>7. ASSUME NEW t \in Threads, ExecHeld(t)
      PROVE  Quarantine'
  BY <1>7 DEF ExecHeld, TypeOK, RuntimeTyped, RequestsTyped, Quarantine, Late
<1>8. ASSUME NEW t \in Threads, StatusRead(t)
      PROVE  Quarantine'
  BY <1>8 DEF StatusRead, TypeOK, RuntimeTyped, RequestsTyped, Quarantine, Late
<1>9. ASSUME NEW t \in Threads, ProbeTimesOut(t)
      PROVE  Quarantine'
  BY <1>9 DEF ProbeTimesOut, SeqLocals, TypeOK, RuntimeTyped, RequestsTyped, Quarantine,
     Late
<1>10. ASSUME NEW t \in Threads, ProbeFails(t)
      PROVE  Quarantine'
  BY <1>10 DEF ProbeFails, TypeOK, RuntimeTyped, RequestsTyped, Quarantine, Late
<1>11. ASSUME NEW t \in Threads, CloseReleases(t)
      PROVE  Quarantine'
  BY <1>11 DEF CloseReleases, Releasable, TypeOK, RuntimeTyped, RequestsTyped,
     Quarantine, Late
<1>12. ASSUME NEW t \in Threads, CloseTimesOut(t)
      PROVE  Quarantine'
  BY <1>12 DEF CloseTimesOut, TypeOK, RuntimeTyped, RequestsTyped, Quarantine, Late
<1>13. ASSUME NEW t \in Threads, CloseUnreported(t)
      PROVE  Quarantine'
  BY <1>13 DEF CloseUnreported, Releasable, TypeOK, RuntimeTyped, RequestsTyped,
     Quarantine, Late
<1>14. ASSUME NEW t \in Threads, CloseHeld(t)
      PROVE  Quarantine'
  BY <1>14 DEF CloseHeld, Releasable, TypeOK, RuntimeTyped, RequestsTyped, Quarantine,
     Late
<1>15. ASSUME NEW t \in Threads, CloseRemoves(t)
      PROVE  Quarantine'
  BY <1>15 DEF CloseRemoves, RecordClose, Terminate, TypeOK, RuntimeTyped,
     RequestsTyped, Quarantine, Late
<1>16. ASSUME NEW t \in Threads, NEW rec \in Addressed, ReconcileRead(t, rec)
      PROVE  Quarantine'
  BY <1>16 DEF ReconcileRead, Addressed, Awaiting, Preserve, TypeOK, RuntimeTyped,
     RequestsTyped, Quarantine, Late
<1>17. ASSUME NEW t \in Threads, ReconcileAcknowledges(t)
      PROVE  Quarantine'
  BY <1>17 DEF ReconcileAcknowledges, ReconcileClears, SeqRuntime, Decided, TypeOK,
     RuntimeTyped, RequestsTyped, Quarantine, Late
<1>18. ASSUME NEW t \in Threads, ReconcileReleases(t)
      PROVE  Quarantine'
  BY <1>18 DEF ReconcileReleases, Releasable, TypeOK, RuntimeTyped, RequestsTyped,
     Quarantine, Late
<1>19. ASSUME NEW s \in Sessions, LateDone(s)
      PROVE  Quarantine'
  BY <1>19 DEF LateDone, TypeOK, RuntimeTyped, RequestsTyped, Quarantine, Late
<1>20. CASE Crash
  BY <1>20 DEF Crash, TypeOK, RuntimeTyped, RequestsTyped, Quarantine, Late
<1>21. CASE UNCHANGED <<rt, seq, late, lateSeq, store>>
  BY <1>21 DEF TypeOK, RuntimeTyped, RequestsTyped, Quarantine, Late
<1>22. QED
  BY <1>1, <1>2, <1>3, <1>4, <1>5, <1>6, <1>7, <1>8, <1>9, <1>10, <1>11, <1>12, <1>13,
     <1>14, <1>15, <1>16, <1>17, <1>18, <1>19, <1>20, <1>21, RuntimeSteps

\* A late result that is preserved stays so.
LEMMA DecidedStays ==
    ASSUME TypeOK, Named, SeqRuntime, Quarantine, NEW q \in Sessions, late[q] \in Decided,
           [Next]_vars
    PROVE  late'[q] \in Decided
<1> USE BindingAssumption DEF vars, fileVars, rtVars, localVars, histVars, Goto, Fault,
   Request, Quiet, ClearBinding
<1>1. ASSUME NEW t \in Threads, SaveReadback(t)
      PROVE  late'[q] \in Decided
  BY <1>1 DEF SaveReadback, In, OnSuccess, Terminate, TypeOK, RuntimeTyped, Quarantine,
     Decided
<1>2. ASSUME NEW t \in Threads, OpenRegister(t)
      PROVE  late'[q] \in Decided
  BY <1>2 DEF OpenRegister, TypeOK, RuntimeTyped, Quarantine, Decided
<1>3. ASSUME NEW t \in Threads, OpenStart(t)
      PROVE  late'[q] \in Decided
  BY <1>3 DEF OpenStart, SeqRuntime, Fresh, TypeOK, RuntimeTyped, Quarantine, Decided
<1>4. ASSUME NEW t \in Threads, OpenAbandon(t)
      PROVE  late'[q] \in Decided
  BY <1>4 DEF OpenAbandon, RecordClose, Terminate, TypeOK, RuntimeTyped, Quarantine,
     Decided
<1>5. ASSUME NEW t \in Threads, ExecAdmit(t)
      PROVE  late'[q] \in Decided
  BY <1>5 DEF ExecAdmit, TypeOK, RuntimeTyped, Quarantine, Decided
<1>6. ASSUME NEW t \in Threads, ExecTimesOut(t)
      PROVE  late'[q] \in Decided
  BY <1>6 DEF ExecTimesOut, TypeOK, RuntimeTyped, Quarantine, Decided
<1>7. ASSUME NEW t \in Threads, ExecHeld(t)
      PROVE  late'[q] \in Decided
  BY <1>7 DEF ExecHeld, TypeOK, RuntimeTyped, Quarantine, Decided
<1>8. ASSUME NEW t \in Threads, StatusRead(t)
      PROVE  late'[q] \in Decided
  BY <1>8 DEF StatusRead, TypeOK, RuntimeTyped, Quarantine, Decided
<1>9. ASSUME NEW t \in Threads, ProbeTimesOut(t)
      PROVE  late'[q] \in Decided
  BY <1>9 DEF ProbeTimesOut, TypeOK, RuntimeTyped, Quarantine, Decided
<1>10. ASSUME NEW t \in Threads, ProbeFails(t)
      PROVE  late'[q] \in Decided
  BY <1>10 DEF ProbeFails, TypeOK, RuntimeTyped, Quarantine, Decided
<1>11. ASSUME NEW t \in Threads, CloseReleases(t)
      PROVE  late'[q] \in Decided
  BY <1>11 DEF CloseReleases, Releasable, TypeOK, RuntimeTyped, Quarantine, Decided
<1>12. ASSUME NEW t \in Threads, CloseTimesOut(t)
      PROVE  late'[q] \in Decided
  BY <1>12 DEF CloseTimesOut, TypeOK, RuntimeTyped, Quarantine, Decided
<1>13. ASSUME NEW t \in Threads, CloseUnreported(t)
      PROVE  late'[q] \in Decided
  BY <1>13 DEF CloseUnreported, Releasable, TypeOK, RuntimeTyped, Quarantine, Decided
<1>14. ASSUME NEW t \in Threads, CloseHeld(t)
      PROVE  late'[q] \in Decided
  BY <1>14 DEF CloseHeld, Releasable, TypeOK, RuntimeTyped, Quarantine, Decided
<1>15. ASSUME NEW t \in Threads, CloseRemoves(t)
      PROVE  late'[q] \in Decided
  BY <1>15 DEF CloseRemoves, RecordClose, Terminate, TypeOK, RuntimeTyped, Quarantine,
     Decided
<1>16. ASSUME NEW t \in Threads, NEW rec \in Addressed, ReconcileRead(t, rec)
      PROVE  late'[q] \in Decided
  BY <1>16 DEF ReconcileRead, Addressed, Awaiting, Preserve, TypeOK, RuntimeTyped,
     Quarantine, Decided
<1>17. ASSUME NEW t \in Threads, ReconcileAcknowledges(t)
      PROVE  late'[q] \in Decided
  BY <1>17 DEF ReconcileAcknowledges, ReconcileClears, TypeOK, RuntimeTyped, Quarantine,
     Decided
<1>18. ASSUME NEW t \in Threads, ReconcileReleases(t)
      PROVE  late'[q] \in Decided
  BY <1>18 DEF ReconcileReleases, Releasable, TypeOK, RuntimeTyped, Quarantine, Decided
<1>19. ASSUME NEW s \in Sessions, LateDone(s)
      PROVE  late'[q] \in Decided
  BY <1>19 DEF LateDone, TypeOK, RuntimeTyped, Quarantine, Decided
<1>20. CASE Crash
  BY <1>20 DEF Crash, TypeOK, RuntimeTyped, Quarantine, Decided
<1>21. CASE UNCHANGED <<rt, seq, late, lateSeq, store>>
  BY <1>21 DEF TypeOK, RuntimeTyped, Quarantine, Decided
<1>22. QED
  BY <1>1, <1>2, <1>3, <1>4, <1>5, <1>6, <1>7, <1>8, <1>9, <1>10, <1>11, <1>12, <1>13,
     <1>14, <1>15, <1>16, <1>17, <1>18, <1>19, <1>20, <1>21, RuntimeSteps

\* Only its opener starts a runtime for a session.
LEMMA FreshStays ==
    ASSUME TypeOK, Named, SeqLocals, SeqRuntime, Quarantine, NEW q \in Fresh,
           \A v \in Threads : OpenStart(v) => sid[v] # q, [Next]_vars
    PROVE  q \in Fresh'
<1> USE BindingAssumption DEF vars, fileVars, rtVars, localVars, histVars, Goto, Fault,
   Request, Quiet, ClearBinding
<1>1. ASSUME NEW t \in Threads, SaveReadback(t)
      PROVE  q \in Fresh'
  BY <1>1 DEF SaveReadback, In, OnSuccess, Terminate, TypeOK, RuntimeTyped, Fresh
<1>2. ASSUME NEW t \in Threads, OpenRegister(t)
      PROVE  q \in Fresh'
  BY <1>2 DEF OpenRegister, TypeOK, RuntimeTyped, Fresh
<1>3. ASSUME NEW t \in Threads, OpenStart(t)
      PROVE  q \in Fresh'
  BY <1>3 DEF OpenStart, TypeOK, RuntimeTyped, Fresh
<1>4. ASSUME NEW t \in Threads, OpenAbandon(t)
      PROVE  q \in Fresh'
  BY <1>4 DEF OpenAbandon, RecordClose, Terminate, TypeOK, RuntimeTyped, Fresh
<1>5. ASSUME NEW t \in Threads, ExecAdmit(t)
      PROVE  q \in Fresh'
  BY <1>5 DEF ExecAdmit, TypeOK, RuntimeTyped, Fresh
<1>6. ASSUME NEW t \in Threads, ExecTimesOut(t)
      PROVE  q \in Fresh'
  BY <1>6 DEF ExecTimesOut, TypeOK, RuntimeTyped, Fresh
<1>7. ASSUME NEW t \in Threads, ExecHeld(t)
      PROVE  q \in Fresh'
  BY <1>7 DEF ExecHeld, TypeOK, RuntimeTyped, Fresh
<1>8. ASSUME NEW t \in Threads, StatusRead(t)
      PROVE  q \in Fresh'
  BY <1>8 DEF StatusRead, TypeOK, RuntimeTyped, Fresh
<1>9. ASSUME NEW t \in Threads, ProbeTimesOut(t)
      PROVE  q \in Fresh'
  BY <1>9 DEF ProbeTimesOut, TypeOK, RuntimeTyped, Fresh
<1>10. ASSUME NEW t \in Threads, ProbeFails(t)
      PROVE  q \in Fresh'
  BY <1>10 DEF ProbeFails, TypeOK, RuntimeTyped, Fresh
<1>11. ASSUME NEW t \in Threads, CloseReleases(t)
      PROVE  q \in Fresh'
  BY <1>11 DEF CloseReleases, Releasable, TypeOK, RuntimeTyped, Fresh
<1>12. ASSUME NEW t \in Threads, CloseTimesOut(t)
      PROVE  q \in Fresh'
  BY <1>12 DEF CloseTimesOut, TypeOK, RuntimeTyped, Fresh
<1>13. ASSUME NEW t \in Threads, CloseUnreported(t)
      PROVE  q \in Fresh'
  BY <1>13 DEF CloseUnreported, Releasable, TypeOK, RuntimeTyped, Fresh
<1>14. ASSUME NEW t \in Threads, CloseHeld(t)
      PROVE  q \in Fresh'
  BY <1>14 DEF CloseHeld, Releasable, TypeOK, RuntimeTyped, Fresh
<1>15. ASSUME NEW t \in Threads, CloseRemoves(t)
      PROVE  q \in Fresh'
  BY <1>15 DEF CloseRemoves, RecordClose, Terminate, TypeOK, RuntimeTyped, Fresh
<1>16. ASSUME NEW t \in Threads, NEW rec \in Addressed, ReconcileRead(t, rec)
      PROVE  q \in Fresh'
  BY <1>16 DEF ReconcileRead, Addressed, Awaiting, Preserve, TypeOK, RuntimeTyped, Fresh
<1>17. ASSUME NEW t \in Threads, ReconcileAcknowledges(t)
      PROVE  q \in Fresh'
  BY <1>17 DEF ReconcileAcknowledges, ReconcileClears, SeqRuntime, Decided, TypeOK,
     RuntimeTyped, Fresh
<1>18. ASSUME NEW t \in Threads, ReconcileReleases(t)
      PROVE  q \in Fresh'
  BY <1>18 DEF ReconcileReleases, Releasable, TypeOK, RuntimeTyped, Fresh
<1>19. ASSUME NEW s \in Sessions, LateDone(s)
      PROVE  q \in Fresh'
  BY <1>19 DEF LateDone, TypeOK, RuntimeTyped, Fresh
<1>20. CASE Crash
  BY <1>20 DEF Crash, TypeOK, RuntimeTyped, Fresh
<1>21. CASE UNCHANGED <<rt, seq, late, lateSeq, store>>
  BY <1>21 DEF TypeOK, RuntimeTyped, Fresh
<1>22. QED
  BY <1>1, <1>2, <1>3, <1>4, <1>5, <1>6, <1>7, <1>8, <1>9, <1>10, <1>11, <1>12, <1>13,
     <1>14, <1>15, <1>16, <1>17, <1>18, <1>19, <1>20, <1>21, RuntimeSteps

\* A session the store does not know yet has used no sequence number.
LEMMA SeqRuntimeStep ==
    ASSUME TypeOK, Named, Lived, SeqLocals, SeqRuntime, Quarantine, [Next]_vars
    PROVE  SeqRuntime'
<1>1. ASSUME NEW q \in Sessions, store'[q] = "none"
      PROVE  q \in Fresh'
  <2>1. store[q] = "none"
    BY <1>1, StoreStep
  <2>2. \A v \in Threads : OpenStart(v) => sid[v] # q
    BY <2>1 DEF OpenStart, Lived, Registered
  <2> QED BY <2>1, <2>2, FreshStays DEF SeqRuntime
<1>2. ASSUME NEW t \in Threads, pc'[t] \in {"uploading", "starting"}
      PROVE  sid'[t] \in Fresh'
  <2>1. CASE pc[t] \in {"uploading", "starting"} /\ sid'[t] = sid[t]
    <3>1. \A v \in Threads : OpenStart(v) => v # t
      BY <1>2 DEF OpenStart, Prepare, Goto, TypeOK, RequestsTyped
    <3>2. \A v \in Threads : OpenStart(v) => sid[v] # sid[t]
      BY <2>1, <3>1 DEF OpenStart, Lived, PublisherAlone, Opening, Starting
    <3> QED BY <2>1, <3>2, FreshStays DEF SeqRuntime
  <2>2. CASE sid'[t] \in Sessions /\ OpenCheck(t, sid'[t])
    BY <2>2 DEF OpenCheck, SeqRuntime, Fresh, rtVars
  <2> QED BY <1>2, <2>1, <2>2, RequestMoves DEF Moves, Follows, Publishing, Arrived
<1>3. ASSUME NEW t \in Threads, pc'[t] \in {"projecting", "acknowledging"}
      PROVE  late'[sid'[t]] \in Decided
  <2>1. CASE pc[t] \in {"projecting", "acknowledging"} /\ sid'[t] = sid[t]
    BY <2>1, DecidedStays DEF SeqRuntime, Named, LocalsNamed
  <2>2. CASE \E r \in Addressed : sid'[t] = r.sid /\ ReconcileRead(t, r)
    BY <2>2 DEF ReconcileRead, Preserve, Decided, Addressed, TypeOK, FilesTyped,
       RuntimeTyped, Binding
  <2> QED BY <1>3, <2>1, <2>2, RequestMoves DEF Moves, Follows, Publishing, Arrived
<1> QED BY <1>1, <1>2, <1>3 DEF SeqRuntime

\* A request holds what is behind the sequences, and a command its own number.
LEMMA SeqLocalsStep ==
    ASSUME TypeOK, Named, SeqFiles, SeqLocals, SeqRuntime, Quarantine, [Next]_vars
    PROVE  SeqLocals'
<1>0. Behind \subseteq Behind'
  BY BehindStays
<1>a. \A q \in Sessions : seq'[q] \in Nat /\ seq[q] \in Nat /\ seq'[q] >= seq[q]
  BY SeqGrows
<1> USE BindingAssumption DEF vars, fileVars, rtVars, localVars, histVars, Goto, Return,
   Prepare, Fault, Request, Quiet, ClearBinding
<1>1. ASSUME NEW t \in Threads, SaveConflict(t)
      PROVE  SeqLocals'
  BY <1>1, <1>0, <1>a DEF SaveConflict, SaveFails, OnFailure, SeqLocals, TypeOK,
     RuntimeTyped, RequestsTyped, Named, LocalsNamed, Bound, Saving
<1>2. ASSUME NEW t \in Threads, SaveCheck(t) \/ SaveSession(t) \/ SaveActive(t) \/
   SaveMismatch(t) \/ SaveUndoSession(t)
      PROVE  SeqLocals'
  BY <1>2, <1>0, <1>a DEF SaveCheck, SaveSession, In, SaveActive, SaveMismatch,
     SaveUndoSession, SeqLocals, TypeOK, RuntimeTyped, RequestsTyped, Named,
     LocalsNamed, Bound, Saving
<1>3. ASSUME NEW t \in Threads, SaveReadback(t)
      PROVE  SeqLocals'
  <2>1. /\ txn.new \in Behind /\ txn.new.sid = sid[t]
        /\ sid[t] \in Sessions
    BY <1>3 DEF SaveReadback, In, SeqFiles, Named, SaveNamed, LocalsNamed, Saving
  <2> QED
    BY <1>3, <1>0, <1>a, <2>1 DEF SaveReadback, In, OnSuccess, Terminate, TypeOK,
       RuntimeTyped, RequestsTyped, Named, LocalsNamed, SeqLocals, Bound, Saving
<1>4. ASSUME NEW t \in Threads, SaveUndoActive(t)
      PROVE  SeqLocals'
  BY <1>4, <1>0, <1>a DEF SaveUndoActive, In, SaveFails, OnFailure, SeqLocals, TypeOK,
     RuntimeTyped, RequestsTyped, Named, LocalsNamed, Bound, Saving
<1>5. ASSUME NEW t \in Threads, SaveUndoFails(t)
      PROVE  SeqLocals'
  BY SMTT(20), <1>5, <1>0, <1>a DEF SaveUndoFails, In, SaveFails, OnFailure, SeqLocals,
     TypeOK,
     RuntimeTyped, RequestsTyped, Named, LocalsNamed, Bound, Saving
<1>6. ASSUME NEW t \in Threads, NEW s \in Sessions, OpenCheck(t, s)
      PROVE  SeqLocals'
  BY <1>6, <1>0, <1>a DEF OpenCheck, SeqLocals, TypeOK, RuntimeTyped, RequestsTyped,
     Named, LocalsNamed, Bound, Saving
<1>7. ASSUME NEW t \in Threads, OpenRegister(t)
      PROVE  SeqLocals'
  BY <1>7, <1>0, <1>a DEF OpenRegister, SeqLocals, TypeOK, RuntimeTyped, RequestsTyped,
     Named, LocalsNamed, Bound, Saving
<1>8. ASSUME NEW t \in Threads, OpenFails(t)
      PROVE  SeqLocals'
  BY <1>8, <1>0, <1>a DEF OpenFails, SeqLocals, TypeOK, RuntimeTyped, RequestsTyped,
     Named, LocalsNamed, Bound, Saving
<1>9. ASSUME NEW t \in Threads, OpenStart(t)
      PROVE  SeqLocals'
  <2>1. sid[t] \in Sessions /\ seq[sid[t]] = 0 /\ base[t] = None
    BY <1>9 DEF OpenStart, SeqRuntime, Fresh, Named, LocalsNamed
  <2>2. New(sid[t]) \in Binding /\ New(sid[t]).sid = sid[t] /\ New(sid[t]).seq = 0
    BY <2>1, NewBinding DEF New
  <2>3. New(sid[t]) \in Behind'
    BY <1>a, <2>1, <2>2 DEF Behind
  <2>4. /\ TimedOut(New(sid[t]), 1) \in Binding /\ TimedOut(New(sid[t]), 1).sid = sid[t]
        /\ TimedOut(New(sid[t]), 1).seq <= 1
    <3> DEFINE r == New(sid[t])
    <3>1. r \in Binding /\ r.sid = sid[t] /\ r.seq <= 1
      BY <2>2
    <3> HIDE DEF r
    <3>2. /\ TimedOut(r, 1) \in Binding /\ TimedOut(r, 1).sid = sid[t]
          /\ TimedOut(r, 1).seq <= 1
      BY <3>1, BindingEdits, EditsBehind, 1 \in Nat, 1 <= 1
    <3> QED BY <3>2 DEF r
  <2>5. CASE /\ Prepare(t, TimedOut(New(sid[t]), 1), 0, None, "publishingLate")
             /\ seq'[sid[t]] = 1
    <3>1. TimedOut(New(sid[t]), 1) \in Behind'
      BY <2>4, <2>5 DEF Behind
    <3> QED
      BY <1>9, <1>0, <1>a, <2>1, <2>5, <3>1 DEF OpenStart, TypeOK, RuntimeTyped,
         RequestsTyped, Named,
         LocalsNamed, SeqLocals, Bound, Saving
  <2>6. CASE Prepare(t, New(sid[t]), 0, None, "publishing")
    BY <1>9, <1>0, <1>a, <2>1, <2>3, <2>6 DEF OpenStart, TypeOK, RuntimeTyped,
       RequestsTyped, Named,
       LocalsNamed, SeqLocals, Bound, Saving
  <2>7. CASE Goto(t, "abandoning") /\ UNCHANGED <<b, exp>>
    BY <1>9, <1>0, <1>a, <2>1, <2>7 DEF OpenStart, TypeOK, RuntimeTyped, RequestsTyped,
       Named,
       LocalsNamed, SeqLocals, Bound, Saving
  <2> QED BY <1>9, <2>1, <2>5, <2>6, <2>7 DEF OpenStart, TypeOK, RuntimeTyped
<1>10. ASSUME NEW t \in Threads, OpenAbandon(t)
      PROVE  SeqLocals'
  BY <1>10, <1>0, <1>a DEF OpenAbandon, RecordClose, Terminate, SeqLocals, TypeOK,
     RuntimeTyped, RequestsTyped, Named, LocalsNamed, Bound, Saving
<1>11. ASSUME NEW t \in Threads, OpenDrop(t)
      PROVE  SeqLocals'
  BY <1>11, <1>0, <1>a DEF OpenDrop, SeqLocals, TypeOK, RuntimeTyped, RequestsTyped,
     Named, LocalsNamed, Bound, Saving
<1>12. ASSUME NEW t \in Threads, NEW rec \in Addressed, ExecLoad(t, rec)
      PROVE  SeqLocals'
  BY <1>12, <1>0, <1>a DEF ExecLoad, Addressed, SeqLocals, TypeOK, RuntimeTyped,
     RequestsTyped, Named, LocalsNamed, Bound, Saving
<1>13. ASSUME NEW t \in Threads, ExecAdmit(t)
      PROVE  SeqLocals'
  <2>1. /\ sess[sid[t]] # None => sess[sid[t]] \in Behind /\ sess[sid[t]].sid = sid[t]
        /\ sid[t] \in Sessions
    BY <1>13 DEF ExecAdmit, SeqFiles, Named, FilesNamed, Of, LocalsNamed
  <2>2. /\ lateSeq[sid[t]] \in Nat /\ lateSeq[sid[t]] <= seq'[sid[t]] /\ seq[sid[t]] \in Nat
        /\ seq[sid[t]] <= seq'[sid[t]]
    BY <1>13, <1>a, <2>1 DEF ExecAdmit, TypeOK, RuntimeTyped, RequestsTyped, Quarantine
  <2>3. /\ sess[sid[t]] # None => Pending(sess[sid[t]], lateSeq[sid[t]]) \in Behind'
        /\ sess[sid[t]] # None => Holding(sess[sid[t]], seq[sid[t]]) \in Behind'
    <3> DEFINE m == seq'[sid[t]]
    <3>1. /\ m \in Nat
          /\ (sess[sid[t]] # None => sess[sid[t]] \in Binding /\ sess[sid[t]].seq <= m)
      BY <1>a, <2>1 DEF Behind, Binding
    <3> HIDE DEF m
    <3>2. /\ sess[sid[t]] # None => /\ Pending(sess[sid[t]], lateSeq[sid[t]]) \in Binding
                                    /\ Pending(sess[sid[t]], lateSeq[sid[t]]).sid = sid[t]
                                    /\ Pending(sess[sid[t]], lateSeq[sid[t]]).seq <= m
          /\ sess[sid[t]] # None => /\ Holding(sess[sid[t]], seq[sid[t]]) \in Binding
                                    /\ Holding(sess[sid[t]], seq[sid[t]]).sid = sid[t]
                                    /\ Holding(sess[sid[t]], seq[sid[t]]).seq <= m
      BY <2>1, <2>2, <3>1, EditsBehind, BindingEdits DEF m
    <3> QED BY <3>2 DEF Behind, m
  <2> QED
    BY SMTT(20), <1>13, <1>0, <1>a, <2>1, <2>2, <2>3 DEF ExecAdmit, TypeOK, RuntimeTyped,
       RequestsTyped, Named, LocalsNamed, SeqLocals, Bound, Saving
<1>14. ASSUME NEW t \in Threads, ExecSucceeds(t)
      PROVE  SeqLocals'
  <2>1. /\ b[t] \in Behind /\ b[t].sid = sid[t]
        /\ sid[t] \in Sessions
    BY <1>14 DEF ExecSucceeds, SeqLocals, Bound, Saving, Named, LocalsNamed
  <2>2. cmd[t] \in Nat /\ cmd[t] <= seq'[sid[t]]
    BY <1>14, <1>a, <2>1 DEF ExecSucceeds, TypeOK, RuntimeTyped, RequestsTyped, SeqLocals
  <2>3. Completed(b[t], cmd[t]) \in Behind'
    <3> DEFINE m == seq'[sid[t]]
    <3>1. m \in Nat /\ (b[t] \in Binding /\ b[t].seq <= m)
      BY <1>a, <2>1 DEF Behind, Binding
    <3> HIDE DEF m
    <3>2. /\ Completed(b[t], cmd[t]) \in Binding
          /\ Completed(b[t], cmd[t]).sid = sid[t]
          /\ Completed(b[t], cmd[t]).seq <= m
      BY <2>1, <2>2, <3>1, EditsBehind, BindingEdits DEF m
    <3> QED BY <3>2 DEF Behind, m
  <2> QED
    BY <1>14, <1>0, <1>a, <2>1, <2>2, <2>3 DEF ExecSucceeds, TypeOK, RuntimeTyped,
       RequestsTyped, Named, LocalsNamed, SeqLocals, Bound, Saving
<1>15. ASSUME NEW t \in Threads, ExecTimesOut(t)
      PROVE  SeqLocals'
  <2>1. /\ b[t] \in Behind /\ b[t].sid = sid[t]
        /\ sid[t] \in Sessions
    BY <1>15 DEF ExecTimesOut, SeqLocals, Bound, Saving, Named, LocalsNamed
  <2>2. cmd[t] \in Nat /\ cmd[t] <= seq'[sid[t]]
    BY <1>15, <1>a, <2>1 DEF ExecTimesOut, TypeOK, RuntimeTyped, RequestsTyped, SeqLocals
  <2>3. Pending(b[t], cmd[t]) \in Behind'
    <3> DEFINE m == seq'[sid[t]]
    <3>1. m \in Nat /\ (b[t] \in Binding /\ b[t].seq <= m)
      BY <1>a, <2>1 DEF Behind, Binding
    <3> HIDE DEF m
    <3>2. /\ Pending(b[t], cmd[t]) \in Binding
          /\ Pending(b[t], cmd[t]).sid = sid[t]
          /\ Pending(b[t], cmd[t]).seq <= m
      BY <2>1, <2>2, <3>1, EditsBehind, BindingEdits DEF m
    <3> QED BY <3>2 DEF Behind, m
  <2> QED
    BY <1>15, <1>0, <1>a, <2>1, <2>2, <2>3 DEF ExecTimesOut, TypeOK, RuntimeTyped,
       RequestsTyped, Named, LocalsNamed, SeqLocals, Bound, Saving
<1>16. ASSUME NEW t \in Threads, ExecHeld(t)
      PROVE  SeqLocals'
  <2>1. /\ b[t] \in Behind /\ b[t].sid = sid[t]
        /\ sid[t] \in Sessions
    BY <1>16 DEF ExecHeld, SeqLocals, Bound, Saving, Named, LocalsNamed
  <2>2. cmd[t] \in Nat /\ cmd[t] <= seq'[sid[t]]
    BY <1>16, <1>a, <2>1 DEF ExecHeld, TypeOK, RuntimeTyped, RequestsTyped, SeqLocals
  <2>3. Holding(b[t], cmd[t]) \in Behind'
    <3> DEFINE m == seq'[sid[t]]
    <3>1. m \in Nat /\ (b[t] \in Binding /\ b[t].seq <= m)
      BY <1>a, <2>1 DEF Behind, Binding
    <3> HIDE DEF m
    <3>2. /\ Holding(b[t], cmd[t]) \in Binding
          /\ Holding(b[t], cmd[t]).sid = sid[t]
          /\ Holding(b[t], cmd[t]).seq <= m
      BY <2>1, <2>2, <3>1, EditsBehind, BindingEdits DEF m
    <3> QED BY <3>2 DEF Behind, m
  <2> QED
    BY <1>16, <1>0, <1>a, <2>1, <2>2, <2>3 DEF ExecHeld, TypeOK, RuntimeTyped,
       RequestsTyped, Named, LocalsNamed, SeqLocals, Bound, Saving
<1>17. ASSUME NEW t \in Threads, ExecFails(t)
      PROVE  SeqLocals'
  BY <1>17, <1>0, <1>a DEF ExecFails, SeqLocals, TypeOK, RuntimeTyped, RequestsTyped,
     Named, LocalsNamed, Bound, Saving
<1>18. ASSUME NEW t \in Threads, StatusRead(t)
      PROVE  SeqLocals'
  <2>1. /\ active \in Behind
        /\ active.sid \in Sessions
    BY <1>18 DEF StatusRead, SeqFiles, Behind, Binding
  <2>2. lateSeq[active.sid] \in Nat /\ lateSeq[active.sid] <= seq'[active.sid]
    BY <1>18, <1>a, <2>1 DEF StatusRead, TypeOK, RuntimeTyped, RequestsTyped, Quarantine
  <2>3. TimedOut(active, lateSeq[active.sid]) \in Behind'
    <3> DEFINE m == seq'[active.sid]
    <3>1. m \in Nat /\ (active \in Binding /\ active.seq <= m)
      BY <1>a, <2>1 DEF Behind, Binding
    <3> HIDE DEF m
    <3>2. /\ TimedOut(active, lateSeq[active.sid]) \in Binding
          /\ TimedOut(active, lateSeq[active.sid]).sid = active.sid
          /\ TimedOut(active, lateSeq[active.sid]).seq <= m
      BY <2>1, <2>2, <3>1, EditsBehind, BindingEdits DEF m
    <3> QED BY <3>2 DEF Behind, m
  <2> QED
    BY <1>18, <1>0, <1>a, <2>1, <2>2, <2>3 DEF StatusRead, TypeOK, RuntimeTyped,
       RequestsTyped, Named, LocalsNamed, SeqLocals, Bound, Saving
<1>19. ASSUME NEW t \in Threads, ProbeSucceeds(t)
      PROVE  SeqLocals'
  <2>1. /\ b[t] \in Behind /\ b[t].sid = sid[t]
        /\ sid[t] \in Sessions
    BY <1>19 DEF ProbeSucceeds, SeqLocals, Bound, Saving, Named, LocalsNamed
  <2>2. cmd[t] \in Nat /\ cmd[t] <= seq'[sid[t]]
    BY <1>19, <1>a, <2>1 DEF ProbeSucceeds, TypeOK, RuntimeTyped, RequestsTyped, SeqLocals
  <2>3. Probed(b[t], cmd[t]) \in Behind'
    <3> DEFINE m == seq'[sid[t]]
    <3>1. m \in Nat /\ (b[t] \in Binding /\ b[t].seq <= m)
      BY <1>a, <2>1 DEF Behind, Binding
    <3> HIDE DEF m
    <3>2. /\ Probed(b[t], cmd[t]) \in Binding
          /\ Probed(b[t], cmd[t]).sid = sid[t]
          /\ Probed(b[t], cmd[t]).seq <= m
      BY <2>1, <2>2, <3>1, EditsBehind, BindingEdits DEF m
    <3> QED BY <3>2 DEF Behind, m
  <2> QED
    BY <1>19, <1>0, <1>a, <2>1, <2>2, <2>3 DEF ProbeSucceeds, TypeOK, RuntimeTyped,
       RequestsTyped, Named, LocalsNamed, SeqLocals, Bound, Saving
<1>20. ASSUME NEW t \in Threads, ProbeTimesOut(t)
      PROVE  SeqLocals'
  <2>1. /\ b[t] \in Behind /\ b[t].sid = sid[t]
        /\ sid[t] \in Sessions
    BY <1>20 DEF ProbeTimesOut, SeqLocals, Bound, Saving, Named, LocalsNamed
  <2>2. cmd[t] \in Nat /\ cmd[t] <= seq'[sid[t]]
    BY <1>20, <1>a, <2>1 DEF ProbeTimesOut, TypeOK, RuntimeTyped, RequestsTyped, SeqLocals
  <2>3. TimedOut(b[t], cmd[t]) \in Behind'
    <3> DEFINE m == seq'[sid[t]]
    <3>1. m \in Nat /\ (b[t] \in Binding /\ b[t].seq <= m)
      BY <1>a, <2>1 DEF Behind, Binding
    <3> HIDE DEF m
    <3>2. /\ TimedOut(b[t], cmd[t]) \in Binding
          /\ TimedOut(b[t], cmd[t]).sid = sid[t]
          /\ TimedOut(b[t], cmd[t]).seq <= m
      BY <2>1, <2>2, <3>1, EditsBehind, BindingEdits DEF m
    <3> QED BY <3>2 DEF Behind, m
  <2> QED
    BY <1>20, <1>0, <1>a, <2>1, <2>2, <2>3 DEF ProbeTimesOut, TypeOK, RuntimeTyped,
       RequestsTyped, Named, LocalsNamed, SeqLocals, Bound, Saving
<1>21. ASSUME NEW t \in Threads, ProbeFails(t)
      PROVE  SeqLocals'
  BY <1>21, <1>0, <1>a DEF ProbeFails, SeqLocals, TypeOK, RuntimeTyped, RequestsTyped,
     Named, LocalsNamed, Bound, Saving
<1>22. ASSUME NEW t \in Threads, StatusMark(t)
      PROVE  SeqLocals'
  <2>1. /\ active # None => active \in Behind
        /\ active # None => active.sid \in Sessions
    BY <1>22 DEF StatusMark, SeqFiles, Behind, Binding
  <2>2. active # None => Stale(active) \in Behind'
    <3>1. active # None => /\ Stale(active) \in Binding
                           /\ Stale(active).sid = active.sid
                           /\ Stale(active).seq = active.seq
      BY <2>1, BindingEdits, 0 \in Nat DEF Behind, Binding, Stale
    <3>2. active # None => active \in Binding /\ active.seq <= seq'[active.sid]
      BY <1>0, <2>1 DEF Behind
    <3> QED BY <2>1, <3>1, <3>2 DEF Behind
  <2> QED
    BY <1>22, <1>0, <1>a, <2>1, <2>2 DEF StatusMark, TypeOK, RuntimeTyped, RequestsTyped,
       Named, LocalsNamed, SeqLocals, Bound, Saving
<1>23. ASSUME NEW t \in Threads, NEW s \in Sessions \cup {None}, CloseNothing(t, s)
      PROVE  SeqLocals'
  BY <1>23, <1>0, <1>a DEF CloseNothing, SeqLocals, TypeOK, RuntimeTyped, RequestsTyped,
     Named, LocalsNamed, Bound, Saving
<1>24. ASSUME NEW t \in Threads, CloseCleared(t)
      PROVE  SeqLocals'
  BY <1>24, <1>0, <1>a DEF CloseCleared, SeqLocals, TypeOK, RuntimeTyped, RequestsTyped,
     Named, LocalsNamed, Bound, Saving
<1>25. ASSUME NEW t \in Threads, NEW rec \in Addressed, CloseRead(t, rec)
      PROVE  SeqLocals'
  <2>1. /\ rec \in Behind
        /\ rec.sid \in Sessions
    BY <1>25 DEF CloseRead, Addressed, SeqFiles, Behind, Binding
  <2> QED
    BY <1>25, <1>0, <1>a, <2>1 DEF CloseRead, TypeOK, RuntimeTyped, RequestsTyped, Named,
       LocalsNamed, SeqLocals, Bound, Saving
<1>26. ASSUME NEW t \in Threads, CloseReleases(t)
      PROVE  SeqLocals'
  BY <1>26, <1>0, <1>a DEF CloseReleases, Releasable, SeqLocals, TypeOK, RuntimeTyped,
     RequestsTyped, Named, LocalsNamed, Bound, Saving
<1>27. ASSUME NEW t \in Threads, CloseRefused(t)
      PROVE  SeqLocals'
  BY <1>27, <1>0, <1>a DEF CloseRefused, SeqLocals, TypeOK, RuntimeTyped, RequestsTyped,
     Named, LocalsNamed, Bound, Saving
<1>28. ASSUME NEW t \in Threads, CloseTimesOut(t)
      PROVE  SeqLocals'
  <2>1. /\ b[t] \in Behind /\ b[t].sid = sid[t]
        /\ sid[t] \in Sessions
    BY <1>28 DEF CloseTimesOut, SeqLocals, Bound, Saving, Named, LocalsNamed
  <2>2. seq[sid[t]] + 1 \in Nat /\ seq[sid[t]] + 1 <= seq'[sid[t]]
    BY <1>28, <1>a, <2>1 DEF CloseTimesOut, TypeOK, RuntimeTyped, RequestsTyped, Quarantine
  <2>3. [TimedOut(b[t], seq[sid[t]] + 1) EXCEPT !.live = TRUE] \in Behind'
    <3> DEFINE m == seq'[sid[t]]
    <3>1. m \in Nat /\ (b[t] \in Binding /\ b[t].seq <= m)
      BY <1>a, <2>1 DEF Behind, Binding
    <3> HIDE DEF m
    <3>2. /\ [TimedOut(b[t], seq[sid[t]] + 1) EXCEPT !.live = TRUE] \in Binding
          /\ [TimedOut(b[t], seq[sid[t]] + 1) EXCEPT !.live = TRUE].sid = sid[t]
          /\ [TimedOut(b[t], seq[sid[t]] + 1) EXCEPT !.live = TRUE].seq <= m
      BY <2>1, <2>2, <3>1, EditsBehind, BindingEdits DEF m
    <3> QED BY <3>2 DEF Behind, m
  <2> QED
    BY <1>28, <1>0, <1>a, <2>1, <2>2, <2>3 DEF CloseTimesOut, TypeOK, RuntimeTyped,
       RequestsTyped, Named, LocalsNamed, SeqLocals, Bound, Saving
<1>29. ASSUME NEW t \in Threads, CloseUnreported(t)
      PROVE  SeqLocals'
  <2>1. /\ b[t] \in Behind /\ b[t].sid = sid[t]
        /\ sid[t] \in Sessions
    BY <1>29 DEF CloseUnreported, SeqLocals, Bound, Saving, Named, LocalsNamed
  <2>2. ClosedPending(b[t]) \in Behind'
    <3>1. /\ ClosedPending(b[t]) \in Binding
          /\ ClosedPending(b[t]).sid = sid[t]
          /\ ClosedPending(b[t]).seq = b[t].seq
      BY <2>1, BindingEdits, 0 \in Nat DEF Behind, Binding, ClosedPending
    <3>2. b[t] \in Binding /\ b[t].seq <= seq'[sid[t]]
      BY <1>0, <2>1 DEF Behind
    <3> QED BY <2>1, <3>1, <3>2 DEF Behind
  <2> QED
    BY <1>29, <1>0, <1>a, <2>1, <2>2 DEF CloseUnreported, Releasable, TypeOK, RuntimeTyped,
       RequestsTyped, Named, LocalsNamed, SeqLocals, Bound, Saving
<1>30. ASSUME NEW t \in Threads, CloseHeld(t)
      PROVE  SeqLocals'
  <2>1. /\ b[t] \in Behind /\ b[t].sid = sid[t]
        /\ sid[t] \in Sessions
    BY <1>30 DEF CloseHeld, SeqLocals, Bound, Saving, Named, LocalsNamed
  <2>2. seq[sid[t]] \in Nat /\ seq[sid[t]] <= seq'[sid[t]]
    BY <1>30, <1>a, <2>1 DEF CloseHeld, TypeOK, RuntimeTyped, RequestsTyped, Quarantine
  <2>3. Holding(b[t], seq[sid[t]]) \in Behind'
    <3> DEFINE m == seq'[sid[t]]
    <3>1. m \in Nat /\ (b[t] \in Binding /\ b[t].seq <= m)
      BY <1>a, <2>1 DEF Behind, Binding
    <3> HIDE DEF m
    <3>2. /\ Holding(b[t], seq[sid[t]]) \in Binding
          /\ Holding(b[t], seq[sid[t]]).sid = sid[t]
          /\ Holding(b[t], seq[sid[t]]).seq <= m
      BY <2>1, <2>2, <3>1, EditsBehind, BindingEdits DEF m
    <3> QED BY <3>2 DEF Behind, m
  <2> QED
    BY <1>30, <1>0, <1>a, <2>1, <2>2, <2>3 DEF CloseHeld, Releasable, TypeOK, RuntimeTyped,
       RequestsTyped, Named, LocalsNamed, SeqLocals, Bound, Saving
<1>31. ASSUME NEW t \in Threads, CloseRemoves(t)
      PROVE  SeqLocals'
  BY <1>31, <1>0, <1>a DEF CloseRemoves, RecordClose, Terminate, SeqLocals, TypeOK,
     RuntimeTyped, RequestsTyped, Named, LocalsNamed, Bound, Saving
<1>32. ASSUME NEW t \in Threads, CloseKeepsRoot(t)
      PROVE  SeqLocals'
  <2>1. /\ b[t] \in Behind /\ b[t].sid = sid[t]
        /\ sid[t] \in Sessions
    BY <1>32 DEF CloseKeepsRoot, SeqLocals, Bound, Saving, Named, LocalsNamed
  <2>2. ClosedPending(b[t]) \in Behind'
    <3>1. /\ ClosedPending(b[t]) \in Binding
          /\ ClosedPending(b[t]).sid = sid[t]
          /\ ClosedPending(b[t]).seq = b[t].seq
      BY <2>1, BindingEdits, 0 \in Nat DEF Behind, Binding, ClosedPending
    <3>2. b[t] \in Binding /\ b[t].seq <= seq'[sid[t]]
      BY <1>0, <2>1 DEF Behind
    <3> QED BY <2>1, <3>1, <3>2 DEF Behind
  <2> QED
    BY <1>32, <1>0, <1>a, <2>1, <2>2 DEF CloseKeepsRoot, TypeOK, RuntimeTyped,
       RequestsTyped, Named, LocalsNamed, SeqLocals, Bound, Saving
<1>33. ASSUME NEW t \in Threads, CloseForgets(t)
      PROVE  SeqLocals'
  BY <1>33, <1>0, <1>a DEF CloseForgets, SeqLocals, TypeOK, RuntimeTyped, RequestsTyped,
     Named, LocalsNamed, Bound, Saving
<1>34. ASSUME NEW t \in Threads, CloseBuries(t)
      PROVE  SeqLocals'
  BY <1>34, <1>0, <1>a DEF CloseBuries, SeqLocals, TypeOK, RuntimeTyped, RequestsTyped,
     Named, LocalsNamed, Bound, Saving
<1>35. ASSUME NEW t \in Threads, NEW rec \in Addressed, ReconcileRead(t, rec)
      PROVE  SeqLocals'
  <2>1. rec \in Behind /\ rec \in Binding /\ rec.sid \in Sessions
    BY <1>35 DEF Addressed, SeqFiles, Behind, Binding
  <2>2. Projection(rec).seq = lateSeq[rec.sid]
    BY <2>1 DEF Projection, Binding
  <2>3. Projection(rec) \in Behind'
    BY <1>35, <1>a, <2>1, <2>2, ProjectionIs DEF Behind, ReconcileRead, Quarantine, TypeOK,
       RuntimeTyped
  <2> QED
    BY <1>35, <1>0, <1>a, <2>1, <2>3 DEF ReconcileRead, TypeOK, RuntimeTyped, RequestsTyped,
       Named, LocalsNamed,
       SeqLocals, Bound, Saving
<1>36. ASSUME NEW t \in Threads, ReconcileAcknowledges(t)
      PROVE  SeqLocals'
  <2>1. /\ b[t] \in Behind /\ b[t].sid = sid[t]
        /\ sid[t] \in Sessions
    BY <1>36 DEF ReconcileAcknowledges, SeqLocals, Bound, Saving, Named, LocalsNamed
  <2>2. Reconciled(b[t]) \in Behind'
    <3>1. /\ Reconciled(b[t]) \in Binding
          /\ Reconciled(b[t]).sid = sid[t]
          /\ Reconciled(b[t]).seq = b[t].seq
      BY <2>1, BindingEdits, 0 \in Nat DEF Behind, Binding, Reconciled
    <3>2. b[t] \in Binding /\ b[t].seq <= seq'[sid[t]]
      BY <1>0, <2>1 DEF Behind
    <3> QED BY <2>1, <3>1, <3>2 DEF Behind
  <2> QED
    BY <1>36, <1>0, <1>a, <2>1, <2>2 DEF ReconcileAcknowledges, ReconcileClears, TypeOK,
       RuntimeTyped, RequestsTyped, Named, LocalsNamed, SeqLocals, Bound, Saving
<1>37. ASSUME NEW t \in Threads, ReconcileReleases(t)
      PROVE  SeqLocals'
  <2>1. /\ b[t] \in Behind /\ b[t].sid = sid[t]
        /\ sid[t] \in Sessions
    BY <1>37 DEF ReconcileReleases, SeqLocals, Bound, Saving, Named, LocalsNamed
  <2>2. CleanupPending(b[t]) \in Behind'
    <3>1. /\ CleanupPending(b[t]) \in Binding
          /\ CleanupPending(b[t]).sid = sid[t]
          /\ CleanupPending(b[t]).seq = b[t].seq
      BY <2>1, BindingEdits, 0 \in Nat DEF Behind, Binding, CleanupPending
    <3>2. b[t] \in Binding /\ b[t].seq <= seq'[sid[t]]
      BY <1>0, <2>1 DEF Behind
    <3> QED BY <2>1, <3>1, <3>2 DEF Behind
  <2> QED
    BY <1>37, <1>0, <1>a, <2>1, <2>2 DEF ReconcileReleases, Releasable, TypeOK,
       RuntimeTyped, RequestsTyped, Named, LocalsNamed, SeqLocals, Bound, Saving
<1>38. ASSUME NEW s \in Sessions, LateDone(s)
      PROVE  SeqLocals'
  BY <1>38, <1>0, <1>a DEF LateDone, SeqLocals, TypeOK, RuntimeTyped, RequestsTyped,
     Named, LocalsNamed, Bound, Saving
<1>39. CASE Crash
  BY <1>39, <1>0, <1>a DEF Crash, SeqLocals, TypeOK, RuntimeTyped, RequestsTyped, Named,
     LocalsNamed, Bound, Saving
<1>40. CASE UNCHANGED vars
  BY <1>40, <1>0, <1>a DEF SeqLocals, TypeOK, RuntimeTyped, RequestsTyped, Named,
     LocalsNamed, Bound, Saving
<1>41. QED
  BY <1>1, <1>2, <1>3, <1>4, <1>5, <1>6, <1>7, <1>8, <1>9, <1>10, <1>11, <1>12, <1>13,
     <1>14, <1>15, <1>16, <1>17, <1>18, <1>19, <1>20, <1>21, <1>22, <1>23, <1>24, <1>25,
     <1>26, <1>27, <1>28, <1>29, <1>30, <1>31, <1>32, <1>33, <1>34, <1>35, <1>36, <1>37,
     <1>38, <1>39, <1>40 DEF Next, Save, Open, Exec, Status, Close, Reconcile

-----------------------------------------------------------------------------
\* What is on disk, and what a save is writing, is ahead of the last commit.
Ahead ==
    /\ \A s \in Sessions : commit[s] # None /\ sess[s] # None =>
          sess[s].gen >= commit[s].gen
    /\ txn # None /\ commit[txn.new.sid] # None =>
          /\ txn.new.gen > commit[txn.new.sid].gen /\ txn.new.seq >= commit[txn.new.sid].seq
          /\ txn.wasSess # None => txn.wasSess.gen >= commit[txn.new.sid].gen

\* A save is against the generation on disk and the sequence of the runtime.
LEMMA AheadStep ==
    ASSUME TypeOK, Named, Progress, Gens, Lived, SeqFiles, Ahead, [Next]_vars
    PROVE  Ahead'
<1> USE BindingAssumption DEF vars, fileVars, rtVars, localVars, histVars, Goto, Fault,
   Request, Quiet, ClearBinding
<1>1. ASSUME NEW t \in Threads, SaveCheck(t)
      PROVE  Ahead'
  <2> DEFINE s == sid[t]
  <2>1. /\ pc[t] \in Saving
        /\ s \in Sessions
        /\ txn'.new = Payload(t)
        /\ txn'.wasSess = sess[s]
        /\ UNCHANGED <<sess, commit>>
    BY <1>1 DEF SaveCheck, Named, LocalsNamed, Saving
  <2>2. Payload(t).sid = s /\ Payload(t).seq = b[t].seq /\ Payload(t) \in Binding
    BY <1>1, <2>1, PayloadIs DEF SaveCheck
  <2>3. ASSUME commit[s] # None
        PROVE  sess[s] # None /\ Payload(t).gen = sess[s].gen + 1
    <3>1. sess[s] = None => pc[t] \in Publishing
      BY <1>1, <2>1, PayloadIs DEF SaveCheck, Gens, GenLocals
    <3>2. pc[t] \notin Publishing
      BY <2>3 DEF Lived, PublisherAlone, Starting
    <3> QED BY <1>1, <2>1, <3>1, <3>2, PayloadIs DEF SaveCheck
  <2>4. sess[s] # None => LatestSequence(s) = seq[s]
    BY <2>1 DEF LatestSequence, Named, FilesNamed
  <2>5. LatestSequence(s) <= b[t].seq
    <3>1. b[t].seq \in Nat /\ LatestSequence(s) \in Nat
      BY <2>1 DEF TypeOK, RequestsTyped, RuntimeTyped, Named, LocalsNamed, Bound, Binding,
         LatestSequence
    <3> QED BY <1>1, <3>1 DEF SaveCheck, SaveRefused
  <2>6. commit[s] # None => /\ commit[s].seq <= seq[s]
                            /\ commit[s].seq \in Nat
                            /\ commit[s].gen \in Nat
    BY <2>1 DEF SeqFiles, Named, FilesNamed, Of, Behind, Binding
  <2>7. sess[s] # None => sess[s].gen \in Nat
    BY <2>1 DEF TypeOK, FilesTyped, Binding
  <2>8. seq[s] \in Nat /\ b[t].seq \in Nat
    BY <2>1 DEF TypeOK, RequestsTyped, RuntimeTyped, Named, LocalsNamed, Bound, Binding
  <2>9. commit[s] # None => /\ sess[s].gen >= commit[s].gen
                            /\ Payload(t).gen > commit[s].gen
                            /\ b[t].seq >= commit[s].seq
    BY <2>1, <2>3, <2>4, <2>5, <2>6, <2>7, <2>8 DEF Ahead
  <2> QED BY <2>1, <2>2, <2>9 DEF Ahead
<1>2. ASSUME NEW t \in Threads, SaveSession(t) \/ SaveActive(t) \/ SaveMismatch(t) \/
   SaveUndoSession(t)
      PROVE  Ahead'
  BY <1>2, SaveMoves DEF Ahead, TypeOK, FilesTyped, Transaction, Binding
<1>3. ASSUME NEW t \in Threads, SaveReadback(t)
      PROVE  Ahead'
  BY <1>3 DEF SaveReadback, In, Ahead, Named, SaveNamed, TypeOK, FilesTyped, Transaction,
     Binding
<1>4. ASSUME NEW t \in Threads, SaveUndoActive(t)
      PROVE  Ahead'
  BY <1>4 DEF SaveUndoActive, In, SaveFails, OnFailure, Ahead, TypeOK, FilesTyped,
     Transaction, Binding
<1>5. ASSUME NEW t \in Threads, SaveUndoFails(t)
      PROVE  Ahead'
  BY <1>5 DEF SaveUndoFails, In, SaveFails, OnFailure, Ahead, TypeOK, FilesTyped,
     Transaction, Binding
<1>6. ASSUME NEW t \in Threads, NEW s \in Sessions, OpenCheck(t, s)
      PROVE  Ahead'
  BY <1>6 DEF OpenCheck, Ahead, TypeOK, FilesTyped, Transaction, Binding
<1>7. ASSUME NEW t \in Threads, OpenAbandon(t)
      PROVE  Ahead'
  BY <1>7 DEF OpenAbandon, RecordClose, Terminate, Ahead, TypeOK, FilesTyped,
     Transaction, Binding
<1>8. ASSUME NEW t \in Threads, CloseCleared(t) \/ CloseForgets(t) \/ OpenDrop(t)
      PROVE  Ahead'
  BY <1>8 DEF CloseCleared, CloseForgets, OpenDrop, Ahead, TypeOK, FilesTyped,
     Transaction, Binding
<1>9. ASSUME NEW t \in Threads, CloseRemoves(t)
      PROVE  Ahead'
  BY <1>9 DEF CloseRemoves, RecordClose, Terminate, Ahead, TypeOK, FilesTyped,
     Transaction, Binding
<1>10. ASSUME NEW t \in Threads, CloseBuries(t)
      PROVE  Ahead'
  BY <1>10 DEF CloseBuries, Ahead, TypeOK, FilesTyped, Transaction, Binding
<1>11. CASE Crash
  BY <1>11 DEF Crash, Ahead, TypeOK, FilesTyped, Transaction, Binding
<1>12. CASE UNCHANGED <<sess, active, root, txn, commit, torn, closed>>
  BY <1>12 DEF Ahead, TypeOK, FilesTyped, Transaction, Binding
<1>13. QED
  BY <1>1, <1>2, <1>3, <1>4, <1>5, <1>6, <1>7, <1>8, <1>9, <1>10, <1>11, <1>12,
     FileSteps

\* What the proofs of the commits rest on.
Committing == Projected /\ Gens /\ Lived /\ Sequenced /\ Ahead

\* The invariant of the commits: the generations of saved bindings, the sessions that
\* are gone, and the native sequences a request may still bring.
THEOREM CommittingHolds == Spec => []Committing
<1>1. Init => Committing
  <2> SUFFICES ASSUME Init PROVE Gens /\ Lived /\ Sequenced /\ Ahead
    BY InitProjected DEF Committing
  <2> USE DEF Init
  <2>1. Gens
    BY DEF Gens, GenFiles, GenLocals, Records, Bound, Saving
  <2>2. PublisherAlone /\ ClosedGone
    BY DEF PublisherAlone, ClosedGone, Starting, Publishing
  <2>3. Registered
    BY BindingAssumption DEF Registered, Known, OnRecord, Works, Publishing
  <2>4. Sequenced
    <3>1. SeqFiles /\ SeqLocals
      BY DEF SeqFiles, SeqLocals, Bound, Saving
    <3>2. SeqRuntime /\ Quarantine
      BY DEF SeqRuntime, Quarantine, Fresh
    <3> QED BY <3>1, <3>2 DEF Sequenced
  <2>5. Ahead
    BY DEF Ahead
  <2> QED BY <2>1, <2>2, <2>3, <2>4, <2>5 DEF Lived
<1>2. Committing /\ [Next]_vars => Committing'
  BY ProjectedStep, GenFilesStep, GenLocalsStep, AloneStep, RegisteredStep, ClosedGoneStep,
     SeqFilesStep, SeqLocalsStep, SeqRuntimeStep, QuarantineStep, AheadStep
     DEF Committing, Projected, Gens, Lived, Sequenced, TypeOK, Named, Requests
<1> QED BY <1>1, <1>2, PTL DEF Spec

\* No late result, retry or publication brings a closed session back to disk, also after
\* a restart emptied the tombstones (_save_binding, close).
THEOREM ClosedIsGone == Spec => []ClosedStaysClosed
<1>1. Committing => ClosedStaysClosed
  BY DEF Committing, Lived, ClosedGone, Gone, ClosedStaysClosed
<1> QED BY <1>1, CommittingHolds, PTL

\* A save that returns never replaces a newer commit of its session: the generation grows
\* and the native sequence does not fall (_save_binding).
THEOREM CommitsGrow == Spec => CommitsAdvance
<1>1. ASSUME Committing, [Next]_vars, NEW s \in Sessions, commit[s] # None
      PROVE  \/ commit'[s] = commit[s]
             \/ commit'[s].gen > commit[s].gen /\ commit'[s].seq >= commit[s].seq
  BY <1>1, CommitStep DEF Answered, Committing, Projected, Ahead
<1>2. Committing /\ [Next]_vars
        => [\A s \in Sessions : commit[s] # None =>
              commit'[s] = commit[s] \/ (commit'[s].gen > commit[s].gen
                                          /\ commit'[s].seq >= commit[s].seq)]_vars
  BY <1>1
<1> QED BY <1>2, CommittingHolds, PTL DEF Spec, CommitsAdvance

-----------------------------------------------------------------------------
(* The records and the command that timed out. *)

\* The sessions whose late result is not acknowledged.
Unacknowledged == {s \in Sessions : late[s] \in {"running", "done", "preserved"}}
Outstanding(u, s) == pc[u] \in {"executing", "probing"} /\ sid[u] = s

\* A record tells the truth about the command that timed out: it names that command
\* as pending, or is older than it, or was written when its result was acknowledged.
\* And it is older than every command that may still time out.
Sound == {r \in Behind :
    /\ r.pend # 0 => late[r.sid] # "none" /\ r.pend = lateSeq[r.sid] /\ r.pend <= r.seq
    /\ r.pend = 0 /\ r.sid \in Unacknowledged => r.seq < lateSeq[r.sid]
    /\ rt[r.sid] = "live" => \A u \in Threads : Outstanding(u, r.sid) => r.seq < cmd[u]}

\* Every command of a session has a number of its own.
Distinct ==
    \A t, u \in Threads :
        /\ Outstanding(t, sid[t]) /\ Outstanding(u, sid[t]) /\ cmd[t] = cmd[u]
        => t = u

\* The invariants this module builds on.
Ground == TypeOK /\ Named /\ Progress /\ Gens /\ Lived /\ Sequenced

\* What the proofs below take from the invariants of the commits.
LEMMA GroundIs ==
    ASSUME Ground
    PROVE  /\ TypeOK /\ Named /\ Progress /\ Gens /\ Lived /\ Requests
           /\ SeqFiles /\ SeqLocals /\ SeqRuntime /\ Quarantine
BY DEF Ground, Sequenced, TypeOK, Named, Requests

\* A command stays outstanding, or is admitted by the only request that moves.
StaysOut(v) == pc[v] \in {"executing", "probing"} /\ sid'[v] = sid[v] /\ cmd'[v] = cmd[v]
Admitted(v) ==
    /\ sid'[v] \in Sessions /\ rt[sid'[v]] = "live" /\ cmd'[v] = seq[sid'[v]] + 1
    /\ \A w \in Threads \ {v} : pc'[w] = pc[w] /\ sid'[w] = sid[w] /\ cmd'[w] = cmd[w]

\* A command is admitted with the next number of its session.
LEMMA OutstandingStep ==
    ASSUME TypeOK, Named, NEW v \in Threads, pc'[v] \in {"executing", "probing"},
           [Next]_vars
    PROVE  StaysOut(v) \/ Admitted(v)
<1> USE BindingAssumption DEF vars, fileVars, rtVars, localVars, histVars, Goto, Return,
   Prepare, Fault, Request, Quiet, ClearBinding
<1>1. ASSUME NEW t \in Threads, SaveConflict(t)
      PROVE  StaysOut(v) \/ Admitted(v)
  BY <1>1 DEF SaveConflict, SaveFails, OnFailure, StaysOut, Admitted, TypeOK,
     FilesTyped, RequestsTyped, Named, LocalsNamed, Binding
<1>2. ASSUME NEW t \in Threads, SaveCheck(t) \/ SaveSession(t) \/ SaveActive(t) \/
   SaveMismatch(t) \/ SaveUndoSession(t)
      PROVE  StaysOut(v) \/ Admitted(v)
  BY <1>2 DEF SaveCheck, SaveSession, In, SaveActive, SaveMismatch, SaveUndoSession,
     StaysOut, Admitted, TypeOK, FilesTyped, RequestsTyped, Named, LocalsNamed, Binding
<1>3. ASSUME NEW t \in Threads, SaveReadback(t)
      PROVE  StaysOut(v) \/ Admitted(v)
  BY <1>3 DEF SaveReadback, In, OnSuccess, Terminate, StaysOut, Admitted, TypeOK,
     FilesTyped, RequestsTyped, Named, LocalsNamed, Binding
<1>4. ASSUME NEW t \in Threads, SaveUndoActive(t)
      PROVE  StaysOut(v) \/ Admitted(v)
  BY <1>4 DEF SaveUndoActive, In, SaveFails, OnFailure, StaysOut, Admitted, TypeOK,
     FilesTyped, RequestsTyped, Named, LocalsNamed, Binding
<1>5. ASSUME NEW t \in Threads, SaveUndoFails(t)
      PROVE  StaysOut(v) \/ Admitted(v)
  BY <1>5 DEF SaveUndoFails, In, SaveFails, OnFailure, StaysOut, Admitted, TypeOK,
     FilesTyped, RequestsTyped, Named, LocalsNamed, Binding
<1>6. ASSUME NEW t \in Threads, NEW s \in Sessions, OpenCheck(t, s)
      PROVE  StaysOut(v) \/ Admitted(v)
  BY <1>6 DEF OpenCheck, StaysOut, Admitted, TypeOK, FilesTyped, RequestsTyped, Named,
     LocalsNamed, Binding
<1>7. ASSUME NEW t \in Threads, OpenRegister(t)
      PROVE  StaysOut(v) \/ Admitted(v)
  BY <1>7 DEF OpenRegister, StaysOut, Admitted, TypeOK, FilesTyped, RequestsTyped,
     Named, LocalsNamed, Binding
<1>8. ASSUME NEW t \in Threads, OpenFails(t)
      PROVE  StaysOut(v) \/ Admitted(v)
  BY <1>8 DEF OpenFails, StaysOut, Admitted, TypeOK, FilesTyped, RequestsTyped, Named,
     LocalsNamed, Binding
<1>9. ASSUME NEW t \in Threads, OpenStart(t)
      PROVE  StaysOut(v) \/ Admitted(v)
  BY <1>9 DEF OpenStart, StaysOut, Admitted, TypeOK, FilesTyped, RequestsTyped, Named,
     LocalsNamed, Binding
<1>10. ASSUME NEW t \in Threads, OpenAbandon(t)
      PROVE  StaysOut(v) \/ Admitted(v)
  BY <1>10 DEF OpenAbandon, RecordClose, Terminate, StaysOut, Admitted, TypeOK,
     FilesTyped, RequestsTyped, Named, LocalsNamed, Binding
<1>11. ASSUME NEW t \in Threads, OpenDrop(t)
      PROVE  StaysOut(v) \/ Admitted(v)
  BY <1>11 DEF OpenDrop, StaysOut, Admitted, TypeOK, FilesTyped, RequestsTyped, Named,
     LocalsNamed, Binding
<1>12. ASSUME NEW t \in Threads, NEW rec \in Addressed, ExecLoad(t, rec)
      PROVE  StaysOut(v) \/ Admitted(v)
  BY <1>12 DEF ExecLoad, Addressed, StaysOut, Admitted, TypeOK, FilesTyped,
     RequestsTyped, Named, LocalsNamed, Binding
<1>13. ASSUME NEW t \in Threads, ExecAdmit(t)
      PROVE  StaysOut(v) \/ Admitted(v)
  BY <1>13 DEF ExecAdmit, StaysOut, Admitted, TypeOK, FilesTyped, RequestsTyped, Named,
     LocalsNamed, Binding
<1>14. ASSUME NEW t \in Threads, ExecSucceeds(t)
      PROVE  StaysOut(v) \/ Admitted(v)
  BY <1>14 DEF ExecSucceeds, StaysOut, Admitted, TypeOK, FilesTyped, RequestsTyped,
     Named, LocalsNamed, Binding
<1>15. ASSUME NEW t \in Threads, ExecTimesOut(t)
      PROVE  StaysOut(v) \/ Admitted(v)
  BY <1>15 DEF ExecTimesOut, StaysOut, Admitted, TypeOK, FilesTyped, RequestsTyped,
     Named, LocalsNamed, Binding
<1>16. ASSUME NEW t \in Threads, ExecHeld(t)
      PROVE  StaysOut(v) \/ Admitted(v)
  BY <1>16 DEF ExecHeld, StaysOut, Admitted, TypeOK, FilesTyped, RequestsTyped, Named,
     LocalsNamed, Binding
<1>17. ASSUME NEW t \in Threads, ExecFails(t)
      PROVE  StaysOut(v) \/ Admitted(v)
  BY <1>17 DEF ExecFails, StaysOut, Admitted, TypeOK, FilesTyped, RequestsTyped, Named,
     LocalsNamed, Binding
<1>18. ASSUME NEW t \in Threads, StatusRead(t)
      PROVE  StaysOut(v) \/ Admitted(v)
  BY <1>18 DEF StatusRead, StaysOut, Admitted, TypeOK, FilesTyped, RequestsTyped, Named,
     LocalsNamed, Binding
<1>19. ASSUME NEW t \in Threads, ProbeSucceeds(t)
      PROVE  StaysOut(v) \/ Admitted(v)
  BY <1>19 DEF ProbeSucceeds, StaysOut, Admitted, TypeOK, FilesTyped, RequestsTyped,
     Named, LocalsNamed, Binding
<1>20. ASSUME NEW t \in Threads, ProbeTimesOut(t)
      PROVE  StaysOut(v) \/ Admitted(v)
  BY <1>20 DEF ProbeTimesOut, StaysOut, Admitted, TypeOK, FilesTyped, RequestsTyped,
     Named, LocalsNamed, Binding
<1>21. ASSUME NEW t \in Threads, ProbeFails(t)
      PROVE  StaysOut(v) \/ Admitted(v)
  BY <1>21 DEF ProbeFails, StaysOut, Admitted, TypeOK, FilesTyped, RequestsTyped, Named,
     LocalsNamed, Binding
<1>22. ASSUME NEW t \in Threads, StatusMark(t)
      PROVE  StaysOut(v) \/ Admitted(v)
  BY <1>22 DEF StatusMark, StaysOut, Admitted, TypeOK, FilesTyped, RequestsTyped, Named,
     LocalsNamed, Binding
<1>23. ASSUME NEW t \in Threads, NEW s \in Sessions \cup {None}, CloseNothing(t, s)
      PROVE  StaysOut(v) \/ Admitted(v)
  BY <1>23 DEF CloseNothing, StaysOut, Admitted, TypeOK, FilesTyped, RequestsTyped,
     Named, LocalsNamed, Binding
<1>24. ASSUME NEW t \in Threads, CloseCleared(t)
      PROVE  StaysOut(v) \/ Admitted(v)
  BY <1>24 DEF CloseCleared, StaysOut, Admitted, TypeOK, FilesTyped, RequestsTyped,
     Named, LocalsNamed, Binding
<1>25. ASSUME NEW t \in Threads, NEW rec \in Addressed, CloseRead(t, rec)
      PROVE  StaysOut(v) \/ Admitted(v)
  BY <1>25 DEF CloseRead, Addressed, StaysOut, Admitted, TypeOK, FilesTyped,
     RequestsTyped, Named, LocalsNamed, Binding
<1>26. ASSUME NEW t \in Threads, CloseReleases(t)
      PROVE  StaysOut(v) \/ Admitted(v)
  BY <1>26 DEF CloseReleases, Releasable, StaysOut, Admitted, TypeOK, FilesTyped,
     RequestsTyped, Named, LocalsNamed, Binding
<1>27. ASSUME NEW t \in Threads, CloseRefused(t)
      PROVE  StaysOut(v) \/ Admitted(v)
  BY <1>27 DEF CloseRefused, StaysOut, Admitted, TypeOK, FilesTyped, RequestsTyped,
     Named, LocalsNamed, Binding
<1>28. ASSUME NEW t \in Threads, CloseTimesOut(t)
      PROVE  StaysOut(v) \/ Admitted(v)
  BY <1>28 DEF CloseTimesOut, StaysOut, Admitted, TypeOK, FilesTyped, RequestsTyped,
     Named, LocalsNamed, Binding
<1>29. ASSUME NEW t \in Threads, CloseUnreported(t)
      PROVE  StaysOut(v) \/ Admitted(v)
  BY <1>29 DEF CloseUnreported, Releasable, StaysOut, Admitted, TypeOK, FilesTyped,
     RequestsTyped, Named, LocalsNamed, Binding
<1>30. ASSUME NEW t \in Threads, CloseHeld(t)
      PROVE  StaysOut(v) \/ Admitted(v)
  BY <1>30 DEF CloseHeld, Releasable, StaysOut, Admitted, TypeOK, FilesTyped,
     RequestsTyped, Named, LocalsNamed, Binding
<1>31. ASSUME NEW t \in Threads, CloseRemoves(t)
      PROVE  StaysOut(v) \/ Admitted(v)
  BY <1>31 DEF CloseRemoves, RecordClose, Terminate, StaysOut, Admitted, TypeOK,
     FilesTyped, RequestsTyped, Named, LocalsNamed, Binding
<1>32. ASSUME NEW t \in Threads, CloseKeepsRoot(t)
      PROVE  StaysOut(v) \/ Admitted(v)
  BY <1>32 DEF CloseKeepsRoot, StaysOut, Admitted, TypeOK, FilesTyped, RequestsTyped,
     Named, LocalsNamed, Binding
<1>33. ASSUME NEW t \in Threads, CloseForgets(t)
      PROVE  StaysOut(v) \/ Admitted(v)
  BY <1>33 DEF CloseForgets, StaysOut, Admitted, TypeOK, FilesTyped, RequestsTyped,
     Named, LocalsNamed, Binding
<1>34. ASSUME NEW t \in Threads, CloseBuries(t)
      PROVE  StaysOut(v) \/ Admitted(v)
  BY <1>34 DEF CloseBuries, StaysOut, Admitted, TypeOK, FilesTyped, RequestsTyped,
     Named, LocalsNamed, Binding
<1>35. ASSUME NEW t \in Threads, NEW rec \in Addressed, ReconcileRead(t, rec)
      PROVE  StaysOut(v) \/ Admitted(v)
  BY <1>35 DEF ReconcileRead, Addressed, Awaiting, Preserve, StaysOut, Admitted, TypeOK,
     FilesTyped, RequestsTyped, Named, LocalsNamed, Binding
<1>36. ASSUME NEW t \in Threads, ReconcileAcknowledges(t)
      PROVE  StaysOut(v) \/ Admitted(v)
  BY <1>36 DEF ReconcileAcknowledges, ReconcileClears, StaysOut, Admitted, TypeOK,
     FilesTyped, RequestsTyped, Named, LocalsNamed, Binding
<1>37. ASSUME NEW t \in Threads, ReconcileReleases(t)
      PROVE  StaysOut(v) \/ Admitted(v)
  BY <1>37 DEF ReconcileReleases, Releasable, StaysOut, Admitted, TypeOK, FilesTyped,
     RequestsTyped, Named, LocalsNamed, Binding
<1>38. ASSUME NEW s \in Sessions, LateDone(s)
      PROVE  StaysOut(v) \/ Admitted(v)
  BY <1>38 DEF LateDone, StaysOut, Admitted, TypeOK, FilesTyped, RequestsTyped, Named,
     LocalsNamed, Binding
<1>39. CASE Crash
  BY <1>39 DEF Crash, StaysOut, Admitted, TypeOK, FilesTyped, RequestsTyped, Named,
     LocalsNamed, Binding
<1>40. CASE UNCHANGED vars
  BY <1>40 DEF StaysOut, Admitted, TypeOK, FilesTyped, RequestsTyped, Named,
     LocalsNamed, Binding
<1>41. QED
  BY <1>1, <1>2, <1>3, <1>4, <1>5, <1>6, <1>7, <1>8, <1>9, <1>10, <1>11, <1>12, <1>13,
     <1>14, <1>15, <1>16, <1>17, <1>18, <1>19, <1>20, <1>21, <1>22, <1>23, <1>24, <1>25,
     <1>26, <1>27, <1>28, <1>29, <1>30, <1>31, <1>32, <1>33, <1>34, <1>35, <1>36, <1>37,
     <1>38, <1>39, <1>40 DEF Next, Save, Open, Exec, Status, Close, Reconcile

\* A runtime comes alive when its session is opened.
LEMMA LiveStep ==
    ASSUME TypeOK, NEW q \in Sessions, rt'[q] = "live", [Next]_vars
    PROVE  rt[q] = "live" \/ \E v \in Threads : OpenStart(v) /\ sid[v] = q
<1> USE BindingAssumption DEF vars, fileVars, rtVars, localVars, histVars, Goto, Fault,
   Request, Quiet, ClearBinding
<1>1. ASSUME NEW t \in Threads, SaveReadback(t)
      PROVE  rt[q] = "live" \/ \E v \in Threads : OpenStart(v) /\ sid[v] = q
  BY <1>1 DEF SaveReadback, In, OnSuccess, Terminate, TypeOK, RuntimeTyped
<1>2. ASSUME NEW t \in Threads, OpenRegister(t)
      PROVE  rt[q] = "live" \/ \E v \in Threads : OpenStart(v) /\ sid[v] = q
  BY <1>2 DEF OpenRegister, TypeOK, RuntimeTyped
<1>3. ASSUME NEW t \in Threads, OpenStart(t)
      PROVE  rt[q] = "live" \/ \E v \in Threads : OpenStart(v) /\ sid[v] = q
  BY <1>3 DEF OpenStart, TypeOK, RuntimeTyped
<1>4. ASSUME NEW t \in Threads, OpenAbandon(t)
      PROVE  rt[q] = "live" \/ \E v \in Threads : OpenStart(v) /\ sid[v] = q
  BY <1>4 DEF OpenAbandon, RecordClose, Terminate, TypeOK, RuntimeTyped
<1>5. ASSUME NEW t \in Threads, ExecAdmit(t)
      PROVE  rt[q] = "live" \/ \E v \in Threads : OpenStart(v) /\ sid[v] = q
  BY <1>5 DEF ExecAdmit, TypeOK, RuntimeTyped
<1>6. ASSUME NEW t \in Threads, ExecTimesOut(t)
      PROVE  rt[q] = "live" \/ \E v \in Threads : OpenStart(v) /\ sid[v] = q
  BY <1>6 DEF ExecTimesOut, TypeOK, RuntimeTyped
<1>7. ASSUME NEW t \in Threads, ExecHeld(t)
      PROVE  rt[q] = "live" \/ \E v \in Threads : OpenStart(v) /\ sid[v] = q
  BY <1>7 DEF ExecHeld, TypeOK, RuntimeTyped
<1>8. ASSUME NEW t \in Threads, StatusRead(t)
      PROVE  rt[q] = "live" \/ \E v \in Threads : OpenStart(v) /\ sid[v] = q
  BY <1>8 DEF StatusRead, TypeOK, RuntimeTyped
<1>9. ASSUME NEW t \in Threads, ProbeTimesOut(t)
      PROVE  rt[q] = "live" \/ \E v \in Threads : OpenStart(v) /\ sid[v] = q
  BY <1>9 DEF ProbeTimesOut, TypeOK, RuntimeTyped
<1>10. ASSUME NEW t \in Threads, ProbeFails(t)
      PROVE  rt[q] = "live" \/ \E v \in Threads : OpenStart(v) /\ sid[v] = q
  BY <1>10 DEF ProbeFails, TypeOK, RuntimeTyped
<1>11. ASSUME NEW t \in Threads, CloseReleases(t)
      PROVE  rt[q] = "live" \/ \E v \in Threads : OpenStart(v) /\ sid[v] = q
  BY <1>11 DEF CloseReleases, Releasable, TypeOK, RuntimeTyped
<1>12. ASSUME NEW t \in Threads, CloseTimesOut(t)
      PROVE  rt[q] = "live" \/ \E v \in Threads : OpenStart(v) /\ sid[v] = q
  BY <1>12 DEF CloseTimesOut, TypeOK, RuntimeTyped
<1>13. ASSUME NEW t \in Threads, CloseUnreported(t)
      PROVE  rt[q] = "live" \/ \E v \in Threads : OpenStart(v) /\ sid[v] = q
  BY <1>13 DEF CloseUnreported, Releasable, TypeOK, RuntimeTyped
<1>14. ASSUME NEW t \in Threads, CloseHeld(t)
      PROVE  rt[q] = "live" \/ \E v \in Threads : OpenStart(v) /\ sid[v] = q
  BY <1>14 DEF CloseHeld, Releasable, TypeOK, RuntimeTyped
<1>15. ASSUME NEW t \in Threads, CloseRemoves(t)
      PROVE  rt[q] = "live" \/ \E v \in Threads : OpenStart(v) /\ sid[v] = q
  BY <1>15 DEF CloseRemoves, RecordClose, Terminate, TypeOK, RuntimeTyped
<1>16. ASSUME NEW t \in Threads, NEW rec \in Addressed, ReconcileRead(t, rec)
      PROVE  rt[q] = "live" \/ \E v \in Threads : OpenStart(v) /\ sid[v] = q
  BY <1>16 DEF ReconcileRead, Addressed, Awaiting, Preserve, TypeOK, RuntimeTyped
<1>17. ASSUME NEW t \in Threads, ReconcileAcknowledges(t)
      PROVE  rt[q] = "live" \/ \E v \in Threads : OpenStart(v) /\ sid[v] = q
  BY <1>17 DEF ReconcileAcknowledges, ReconcileClears, TypeOK, RuntimeTyped
<1>18. ASSUME NEW t \in Threads, ReconcileReleases(t)
      PROVE  rt[q] = "live" \/ \E v \in Threads : OpenStart(v) /\ sid[v] = q
  BY <1>18 DEF ReconcileReleases, Releasable, TypeOK, RuntimeTyped
<1>19. ASSUME NEW s \in Sessions, LateDone(s)
      PROVE  rt[q] = "live" \/ \E v \in Threads : OpenStart(v) /\ sid[v] = q
  BY <1>19 DEF LateDone, TypeOK, RuntimeTyped
<1>20. CASE Crash
  BY <1>20 DEF Crash, TypeOK, RuntimeTyped
<1>21. CASE UNCHANGED <<rt, seq, late, lateSeq, store>>
  BY <1>21 DEF TypeOK, RuntimeTyped
<1>22. QED
  BY <1>1, <1>2, <1>3, <1>4, <1>5, <1>6, <1>7, <1>8, <1>9, <1>10, <1>11, <1>12, <1>13,
     <1>14, <1>15, <1>16, <1>17, <1>18, <1>19, <1>20, <1>21, RuntimeSteps

FirstTimeout(q) ==
    /\ late[q] = "none"
    /\ \/ lateSeq'[q] > seq[q]
       \/ rt[q] = "live" /\ \E v \in Threads : Outstanding(v, q) /\ lateSeq'[q] = cmd[v]

\* What times out is a command of a live session, or newer than all of them.
LEMMA TimesOut ==
    ASSUME Ground, NEW q \in Sessions,
           lateSeq'[q] # lateSeq[q] \/ (q \in Unacknowledged' /\ q \notin Unacknowledged),
           [Next]_vars
    PROVE  FirstTimeout(q)
<1>0. TypeOK /\ Named /\ SeqLocals /\ SeqRuntime /\ Quarantine
  BY GroundIs
<1> USE BindingAssumption DEF vars, fileVars, rtVars, localVars, histVars, Goto, Fault,
   Request, Quiet, ClearBinding, FirstTimeout
<1>1. ASSUME NEW t \in Threads, SaveReadback(t)
      PROVE  FirstTimeout(q)
  BY <1>1, <1>0 DEF SaveReadback, In, OnSuccess, Terminate, TypeOK, RuntimeTyped,
     RequestsTyped, Quarantine, Unacknowledged
<1>2. ASSUME NEW t \in Threads, OpenRegister(t)
      PROVE  FirstTimeout(q)
  BY <1>2, <1>0 DEF OpenRegister, TypeOK, RuntimeTyped, RequestsTyped, Quarantine,
     Unacknowledged
<1>3. ASSUME NEW t \in Threads, OpenStart(t)
      PROVE  FirstTimeout(q)
  BY <1>3, <1>0 DEF OpenStart, SeqRuntime, Fresh, TypeOK, RuntimeTyped, RequestsTyped,
     Quarantine, Unacknowledged
<1>4. ASSUME NEW t \in Threads, OpenAbandon(t)
      PROVE  FirstTimeout(q)
  BY <1>4, <1>0 DEF OpenAbandon, RecordClose, Terminate, TypeOK, RuntimeTyped,
     RequestsTyped, Quarantine, Unacknowledged
<1>5. ASSUME NEW t \in Threads, ExecAdmit(t)
      PROVE  FirstTimeout(q)
  BY <1>5, <1>0 DEF ExecAdmit, TypeOK, RuntimeTyped, RequestsTyped, Quarantine,
     Unacknowledged
<1>6. ASSUME NEW t \in Threads, ExecTimesOut(t)
      PROVE  FirstTimeout(q)
  BY <1>6, <1>0 DEF ExecTimesOut, Outstanding, TypeOK, RuntimeTyped, RequestsTyped,
     Quarantine, Unacknowledged
<1>7. ASSUME NEW t \in Threads, ExecHeld(t)
      PROVE  FirstTimeout(q)
  BY <1>7, <1>0 DEF ExecHeld, TypeOK, RuntimeTyped, RequestsTyped, Quarantine,
     Unacknowledged
<1>8. ASSUME NEW t \in Threads, StatusRead(t)
      PROVE  FirstTimeout(q)
  BY <1>8, <1>0 DEF StatusRead, TypeOK, RuntimeTyped, RequestsTyped, Quarantine,
     Unacknowledged
<1>9. ASSUME NEW t \in Threads, ProbeTimesOut(t)
      PROVE  FirstTimeout(q)
  BY <1>9, <1>0 DEF ProbeTimesOut, Outstanding, TypeOK, RuntimeTyped, RequestsTyped,
     Quarantine, Unacknowledged
<1>10. ASSUME NEW t \in Threads, ProbeFails(t)
      PROVE  FirstTimeout(q)
  BY <1>10, <1>0 DEF ProbeFails, TypeOK, RuntimeTyped, RequestsTyped, Quarantine,
     Unacknowledged
<1>11. ASSUME NEW t \in Threads, CloseReleases(t)
      PROVE  FirstTimeout(q)
  BY <1>11, <1>0 DEF CloseReleases, Releasable, TypeOK, RuntimeTyped, RequestsTyped,
     Quarantine, Unacknowledged
<1>12. ASSUME NEW t \in Threads, CloseTimesOut(t)
      PROVE  FirstTimeout(q)
  BY <1>12, <1>0 DEF CloseTimesOut, TypeOK, RuntimeTyped, RequestsTyped, Quarantine,
     Unacknowledged
<1>13. ASSUME NEW t \in Threads, CloseUnreported(t)
      PROVE  FirstTimeout(q)
  BY <1>13, <1>0 DEF CloseUnreported, Releasable, TypeOK, RuntimeTyped, RequestsTyped,
     Quarantine, Unacknowledged
<1>14. ASSUME NEW t \in Threads, CloseHeld(t)
      PROVE  FirstTimeout(q)
  BY <1>14, <1>0 DEF CloseHeld, Releasable, TypeOK, RuntimeTyped, RequestsTyped,
     Quarantine, Unacknowledged
<1>15. ASSUME NEW t \in Threads, CloseRemoves(t)
      PROVE  FirstTimeout(q)
  BY <1>15, <1>0 DEF CloseRemoves, RecordClose, Terminate, TypeOK, RuntimeTyped,
     RequestsTyped, Quarantine, Unacknowledged
<1>16. ASSUME NEW t \in Threads, NEW rec \in Addressed, ReconcileRead(t, rec)
      PROVE  FirstTimeout(q)
  BY <1>16, <1>0 DEF ReconcileRead, Addressed, Awaiting, Preserve, TypeOK, RuntimeTyped,
     RequestsTyped, Quarantine, Unacknowledged
<1>17. ASSUME NEW t \in Threads, ReconcileAcknowledges(t)
      PROVE  FirstTimeout(q)
  BY <1>17, <1>0 DEF ReconcileAcknowledges, ReconcileClears, SeqRuntime, Decided, Named,
     LocalsNamed, TypeOK, RuntimeTyped, RequestsTyped, Quarantine, Unacknowledged
<1>18. ASSUME NEW t \in Threads, ReconcileReleases(t)
      PROVE  FirstTimeout(q)
  BY <1>18, <1>0 DEF ReconcileReleases, Releasable, TypeOK, RuntimeTyped, RequestsTyped,
     Quarantine, Unacknowledged
<1>19. ASSUME NEW s \in Sessions, LateDone(s)
      PROVE  FirstTimeout(q)
  BY <1>19, <1>0 DEF LateDone, TypeOK, RuntimeTyped, RequestsTyped, Quarantine,
     Unacknowledged
<1>20. CASE Crash
  BY <1>20, <1>0 DEF Crash, TypeOK, RuntimeTyped, RequestsTyped, Quarantine,
     Unacknowledged
<1>21. CASE UNCHANGED <<rt, seq, late, lateSeq, store>>
  BY <1>21, <1>0 DEF TypeOK, RuntimeTyped, RequestsTyped, Quarantine, Unacknowledged
<1>22. QED
  BY <1>1, <1>2, <1>3, <1>4, <1>5, <1>6, <1>7, <1>8, <1>9, <1>10, <1>11, <1>12, <1>13,
     <1>14, <1>15, <1>16, <1>17, <1>18, <1>19, <1>20, <1>21, RuntimeSteps

\* A session whose command timed out keeps that in mind.
LEMMA LateStays ==
    ASSUME Ground, NEW q \in Sessions, late[q] # "none", [Next]_vars
    PROVE  late'[q] # "none"
<1>0. TypeOK /\ SeqRuntime
  BY GroundIs
<1> USE BindingAssumption DEF vars, fileVars, rtVars, localVars, histVars, Goto, Fault,
   Request, Quiet, ClearBinding
<1>1. ASSUME NEW t \in Threads, SaveReadback(t)
      PROVE  late'[q] # "none"
  BY <1>1, <1>0 DEF SaveReadback, In, OnSuccess, Terminate, TypeOK, RuntimeTyped
<1>2. ASSUME NEW t \in Threads, OpenRegister(t)
      PROVE  late'[q] # "none"
  BY <1>2, <1>0 DEF OpenRegister, TypeOK, RuntimeTyped
<1>3. ASSUME NEW t \in Threads, OpenStart(t)
      PROVE  late'[q] # "none"
  BY <1>3, <1>0 DEF OpenStart, SeqRuntime, Fresh, TypeOK, RuntimeTyped
<1>4. ASSUME NEW t \in Threads, OpenAbandon(t)
      PROVE  late'[q] # "none"
  BY <1>4, <1>0 DEF OpenAbandon, RecordClose, Terminate, TypeOK, RuntimeTyped
<1>5. ASSUME NEW t \in Threads, ExecAdmit(t)
      PROVE  late'[q] # "none"
  BY <1>5, <1>0 DEF ExecAdmit, TypeOK, RuntimeTyped
<1>6. ASSUME NEW t \in Threads, ExecTimesOut(t)
      PROVE  late'[q] # "none"
  BY <1>6, <1>0 DEF ExecTimesOut, TypeOK, RuntimeTyped
<1>7. ASSUME NEW t \in Threads, ExecHeld(t)
      PROVE  late'[q] # "none"
  BY <1>7, <1>0 DEF ExecHeld, TypeOK, RuntimeTyped
<1>8. ASSUME NEW t \in Threads, StatusRead(t)
      PROVE  late'[q] # "none"
  BY <1>8, <1>0 DEF StatusRead, TypeOK, RuntimeTyped
<1>9. ASSUME NEW t \in Threads, ProbeTimesOut(t)
      PROVE  late'[q] # "none"
  BY <1>9, <1>0 DEF ProbeTimesOut, TypeOK, RuntimeTyped
<1>10. ASSUME NEW t \in Threads, ProbeFails(t)
      PROVE  late'[q] # "none"
  BY <1>10, <1>0 DEF ProbeFails, TypeOK, RuntimeTyped
<1>11. ASSUME NEW t \in Threads, CloseReleases(t)
      PROVE  late'[q] # "none"
  BY <1>11, <1>0 DEF CloseReleases, Releasable, TypeOK, RuntimeTyped
<1>12. ASSUME NEW t \in Threads, CloseTimesOut(t)
      PROVE  late'[q] # "none"
  BY <1>12, <1>0 DEF CloseTimesOut, TypeOK, RuntimeTyped
<1>13. ASSUME NEW t \in Threads, CloseUnreported(t)
      PROVE  late'[q] # "none"
  BY <1>13, <1>0 DEF CloseUnreported, Releasable, TypeOK, RuntimeTyped
<1>14. ASSUME NEW t \in Threads, CloseHeld(t)
      PROVE  late'[q] # "none"
  BY <1>14, <1>0 DEF CloseHeld, Releasable, TypeOK, RuntimeTyped
<1>15. ASSUME NEW t \in Threads, CloseRemoves(t)
      PROVE  late'[q] # "none"
  BY <1>15, <1>0 DEF CloseRemoves, RecordClose, Terminate, TypeOK, RuntimeTyped
<1>16. ASSUME NEW t \in Threads, NEW rec \in Addressed, ReconcileRead(t, rec)
      PROVE  late'[q] # "none"
  BY <1>16, <1>0 DEF ReconcileRead, Addressed, Awaiting, Preserve, TypeOK, RuntimeTyped
<1>17. ASSUME NEW t \in Threads, ReconcileAcknowledges(t)
      PROVE  late'[q] # "none"
  BY <1>17, <1>0 DEF ReconcileAcknowledges, ReconcileClears, TypeOK, RuntimeTyped
<1>18. ASSUME NEW t \in Threads, ReconcileReleases(t)
      PROVE  late'[q] # "none"
  BY <1>18, <1>0 DEF ReconcileReleases, Releasable, TypeOK, RuntimeTyped
<1>19. ASSUME NEW s \in Sessions, LateDone(s)
      PROVE  late'[q] # "none"
  BY <1>19, <1>0 DEF LateDone, TypeOK, RuntimeTyped
<1>20. CASE Crash
  BY <1>20, <1>0 DEF Crash, TypeOK, RuntimeTyped
<1>21. CASE UNCHANGED <<rt, seq, late, lateSeq, store>>
  BY <1>21, <1>0 DEF TypeOK, RuntimeTyped
<1>22. QED
  BY <1>1, <1>2, <1>3, <1>4, <1>5, <1>6, <1>7, <1>8, <1>9, <1>10, <1>11, <1>12, <1>13,
     <1>14, <1>15, <1>16, <1>17, <1>18, <1>19, <1>20, <1>21, RuntimeSteps

\* While a session is started no command of it is outstanding.
LEMMA StartIsQuiet ==
    ASSUME Ground, NEW v \in Threads, OpenStart(v), NEW u \in Threads,
           Outstanding(u, sid[v])
    PROVE  FALSE
<1>1. pc[v] = "starting" /\ sid[v] \in Sessions
  BY GroundIs DEF OpenStart, Named, LocalsNamed
<1>2. sid[v] \in Known
  BY <1>1 DEF Known, Works, Outstanding, Opening, Starting, Publishing
<1>3. Publishes(v)
  BY <1>1, <1>2, GroundIs DEF Lived, PublisherAlone, Starting
<1> QED BY <1>1, <1>3, GroundIs DEF Publishes, Named, SaveNamed, Saving

\* No step makes a record untrue: what times out is newer than every record, or still
\* outstanding when it was written.
LEMMA SoundStays ==
    ASSUME Ground, [Next]_vars
    PROVE  Sound \subseteq Sound'
<1> SUFFICES ASSUME NEW r \in Sound
             PROVE  r \in Sound'
  OBVIOUS
<1> DEFINE s == r.sid
<1>1. /\ r \in Binding /\ s \in Sessions /\ r.seq \in Nat /\ r.pend \in Nat
      /\ r.seq <= seq[s] /\ r \in Behind'
  BY GroundIs, BehindStays DEF Sound, Behind, Binding
<1>2. late[s] # "none" => lateSeq'[s] = lateSeq[s] /\ late'[s] # "none"
  BY <1>1, TimesOut, LateStays DEF FirstTimeout
<1>3. r.pend # 0 => late'[s] # "none" /\ r.pend = lateSeq'[s] /\ r.pend <= r.seq
  BY <1>2 DEF Sound
<1>4. ASSUME r.pend = 0, s \in Unacknowledged'
      PROVE  r.seq < lateSeq'[s]
  <2>1. CASE s \in Unacknowledged
    BY <1>2, <1>4, <2>1 DEF Sound, Unacknowledged
  <2>2. CASE s \notin Unacknowledged
    <3>1. \/ lateSeq'[s] > seq[s]
          \/ rt[s] = "live" /\ \E v \in Threads : Outstanding(v, s) /\ lateSeq'[s] = cmd[v]
      BY <1>1, <1>4, <2>2, TimesOut DEF FirstTimeout
    <3>2. lateSeq'[s] \in Nat /\ seq[s] \in Nat
      BY <1>1, GroundIs, ShapeStep DEF TypeOK, RuntimeTyped
    <3> QED BY <1>1, <3>1, <3>2 DEF Sound
  <2> QED BY <2>1, <2>2
<1>5. ASSUME rt'[s] = "live", NEW u \in Threads, Outstanding(u, s)'
      PROVE  r.seq < cmd'[u]
  <2>1. pc'[u] \in {"executing", "probing"} /\ sid'[u] = s
    BY <1>5 DEF Outstanding
  <2>2. CASE StaysOut(u)
    <3>1. Outstanding(u, s)
      BY <2>1, <2>2 DEF StaysOut, Outstanding
    <3>2. rt[s] = "live"
      BY <1>1, <1>5, <3>1, LiveStep, StartIsQuiet, GroundIs
    <3> QED BY <2>2, <3>1, <3>2 DEF Sound, StaysOut
  <2>3. CASE Admitted(u)
    BY <1>1, <2>1, <2>3, GroundIs DEF Admitted, TypeOK, RuntimeTyped
  <2> QED BY <2>1, <2>2, <2>3, OutstandingStep, GroundIs
<1> QED BY <1>1, <1>3, <1>4, <1>5 DEF Sound

\* A command is admitted under a number no other one of its session has.
LEMMA DistinctStep ==
    ASSUME Ground, Distinct, [Next]_vars
    PROVE  Distinct'
<1> SUFFICES ASSUME NEW t \in Threads, NEW u \in Threads, pc'[t] \in {"executing", "probing"},
                    pc'[u] \in {"executing", "probing"}, sid'[t] = sid'[u], cmd'[t] = cmd'[u],
                    t # u
             PROVE  FALSE
  BY DEF Distinct, Outstanding
<1>1. (StaysOut(t) \/ Admitted(t)) /\ (StaysOut(u) \/ Admitted(u))
  BY OutstandingStep, GroundIs
<1>2. ASSUME NEW v \in Threads, StaysOut(v)
      PROVE  cmd[v] <= seq[sid[v]] /\ cmd[v] \in Nat /\ seq[sid[v]] \in Nat
  BY <1>2, GroundIs
     DEF StaysOut, SeqLocals, TypeOK, RequestsTyped, RuntimeTyped, Named, LocalsNamed
<1>3. CASE StaysOut(t) /\ StaysOut(u)
  BY <1>3 DEF Distinct, Outstanding, StaysOut
<1>4. CASE StaysOut(t) /\ Admitted(u)
  <2>1. cmd[t] <= seq[sid[t]] /\ cmd[t] \in Nat /\ seq[sid[t]] \in Nat
    BY <1>2, <1>4
  <2>2. cmd[t] = seq[sid[t]] + 1
    BY <1>4 DEF StaysOut, Admitted
  <2> QED BY <2>1, <2>2
<1>5. CASE Admitted(t)
  <2>1. StaysOut(u)
    BY <1>5 DEF Admitted, StaysOut
  <2>2. cmd[u] <= seq[sid[u]] /\ cmd[u] \in Nat /\ seq[sid[u]] \in Nat
    BY <1>2, <2>1
  <2>3. cmd[u] = seq[sid[u]] + 1
    BY <1>5, <2>1 DEF StaysOut, Admitted
  <2> QED BY <2>2, <2>3
<1> QED BY <1>1, <1>3, <1>4, <1>5

-----------------------------------------------------------------------------
\* Every record on disk, in a save and in a request is sound.
SoundFiles ==
    /\ sess \in [Sessions -> Sound \cup {None}] /\ active \in Sound \cup {None}
    /\ commit \in [Sessions -> Sound \cup {None}]
    /\ txn # None => /\ txn.new \in Sound /\ txn.wasSess \in Sound \cup {None}
                     /\ txn.wasActive \in Sound \cup {None}
SoundLocals ==
    \A t \in Threads :
        /\ pc[t] \in Bound => b[t] \in Sound
        /\ base[t] # None => base[t] \in Sound /\ exp[t].seq = base[t].seq

\* A late command is what a reconciliation projects, and never what a close does away with.
Stages ==
    \A t \in Threads :
        /\ pc[t] = "projecting" =>
              b[t].pend # 0 /\ exp[t].seq # None /\ exp[t].seq >= lateSeq[sid[t]]
        /\ pc[t] \in {"marking", "closing", "removing", "retainingClosed"} => b[t].pend = 0
        /\ pc[t] = "removing" => rt[sid[t]] \in {"none", "gone"}
Truthful == Distinct /\ SoundFiles /\ SoundLocals /\ Stages

\* What a request makes of the pending command and of the sequence.
LEMMA EditsPend ==
    ASSUME NEW r \in Binding, NEW n \in Nat
    PROVE  /\ Pending(r, n).pend = n /\ Pending(r, n).seq >= n
           /\ TimedOut(r, n).pend = n /\ TimedOut(r, n).seq >= n
           /\ [TimedOut(r, n) EXCEPT !.live = TRUE].pend = n
           /\ [TimedOut(r, n) EXCEPT !.live = TRUE].seq >= n
           /\ Completed(r, n).pend = 0 /\ Completed(r, n).seq = n
           /\ Probed(r, n).pend = r.pend /\ Probed(r, n).seq = n
           /\ Holding(r, n).pend = r.pend /\ Holding(r, n).seq >= r.seq
           /\ Stale(r).pend = r.pend /\ Stale(r).seq = r.seq
           /\ ClosedPending(r).pend = r.pend /\ ClosedPending(r).seq = r.seq
           /\ CleanupPending(r).pend = r.pend /\ CleanupPending(r).seq = r.seq
           /\ Reconciled(r).pend = 0 /\ Projection(r).pend = r.pend
           /\ Projection(r).seq = lateSeq[r.sid]
BY DEF Pending, TimedOut, Completed, Holding, Probed, Stale, ClosedPending, Reconciled,
       CleanupPending, Projection, Binding, Larger

\* A record of the same session, sequence and pending command is as sound.
LEMMA SameIsSound ==
    ASSUME NEW r \in Sound, NEW n \in Binding, n.sid = r.sid, n.seq = r.seq, n.pend = r.pend
    PROVE  n \in Sound
BY DEF Sound, Behind

\* A record that names the command that timed out.
LEMMA LateIsSound ==
    ASSUME Quarantine', NEW r \in Behind', r.sid \in Sessions, r.pend = lateSeq'[r.sid],
           late'[r.sid] # "none", r.seq >= r.pend, r.pend \in Nat, r.seq \in Nat
    PROVE  r \in Sound'
BY DEF Quarantine, Sound

\* A record of a session whose late result is not awaited.
LEMMA OverIsSound ==
    ASSUME NEW r \in Behind', r.pend = 0, r.sid \notin Unacknowledged',
           rt'[r.sid] = "live" => \A u \in Threads : Outstanding(u, r.sid)' =>
                 r.seq < cmd'[u]
    PROVE  r \in Sound'
BY DEF Sound

\* A newer record of a session that is held.
LEMMA HeldIsSound ==
    ASSUME Quarantine', NEW r \in Sound', NEW n \in Behind', n.sid = r.sid, n.pend = r.pend,
           r.sid \in Sessions, n.seq >= r.seq, n.seq \in Nat, r.seq \in Nat, r.pend \in Nat,
           rt'[r.sid] = "held"
    PROVE  n \in Sound'
BY DEF Quarantine, Sound, Unacknowledged

\* A save that is not refused writes a sound record, and while a late result is not
\* acknowledged one that names its command (_save_binding's sequence check).
LEMMA PayloadSound ==
    ASSUME Ground, SoundFiles, SoundLocals, NEW t \in Threads, SaveCheck(t)
    PROVE  /\ Payload(t) \in Sound
           /\ sid[t] \in Unacknowledged /\ sid[t] \in root => Payload(t).pend # 0
<1> DEFINE s == sid[t]
           n == Payload(t)
<1>1. /\ pc[t] \in Saving /\ ~SaveRefused(t) /\ s \in Sessions
      /\ b[t] \in Sound /\ b[t] \in Binding /\ b[t].sid = s
  BY GroundIs DEF SaveCheck, SoundLocals, Bound, Named, LocalsNamed, Saving, Sound, Behind
<1>2. n \in Binding /\ n.sid = s /\ n.seq = b[t].seq
  BY <1>1, PayloadIs, GroundIs
<1>3. /\ seq[s] \in Nat /\ lateSeq[s] \in Nat /\ lateSeq[s] <= seq[s]
      /\ b[t].seq \in Nat /\ n.pend \in Nat /\ b[t].pend \in Nat
  BY <1>1, <1>2, GroundIs DEF TypeOK, RuntimeTyped, Quarantine, Binding
<1>4. s \in root => seq[s] <= b[t].seq
  BY <1>1, <1>3 DEF SaveRefused, LatestSequence
<1>5. n \in Sound
  <2>1. CASE n.pend = b[t].pend
    BY <1>1, <1>2, <2>1, SameIsSound
  <2>2. CASE n.pend # b[t].pend
    <3> DEFINE c == sess[s]
    <3>1. c # None /\ base[t] # None /\ n.pend = c.pend
      BY <1>1, <2>2, PayloadIs, GroundIs
    <3>2. /\ c \in Sound /\ c.sid = s /\ base[t] \in Sound /\ base[t].sid = s /\ s \in root
          /\ exp[t].seq = base[t].seq
      BY <1>1, <3>1, GroundIs DEF SoundFiles, SoundLocals, Named, FilesNamed, LocalsNamed,
         Of
    <3>3. c.seq \in Nat /\ base[t].seq \in Nat /\ c.pend \in Nat /\ base[t].pend \in Nat
      BY <3>2 DEF Sound, Behind, Binding
    <3>4. c.seq = base[t].seq
      BY <1>1, <3>1, <3>2, <3>3, BindingAssumption DEF SaveRefused, ExpectedSeq
    <3>5. n.pend # 0 => late[s] # "none" /\ n.pend = lateSeq[s] /\ n.pend <= n.seq
      BY <1>2, <1>3, <1>4, <3>1, <3>2 DEF Sound
    <3>6. n.pend = 0 /\ s \in Unacknowledged => n.seq < lateSeq[s]
      <4> SUFFICES ASSUME n.pend = 0, s \in Unacknowledged PROVE FALSE
        OBVIOUS
      <4>1. b[t].pend # 0 /\ b[t].pend = base[t].pend
        BY <1>1, <2>2, PayloadIs, GroundIs
      <4>2. base[t].pend <= base[t].seq /\ base[t].pend = lateSeq[s] /\ c.seq < lateSeq[s]
        BY <3>1, <3>2, <4>1 DEF Sound
      <4> QED BY <1>3, <3>3, <3>4, <4>2
    <3> HIDE DEF n
    <3> QED BY <1>1, <1>2, <3>5, <3>6 DEF Sound, Behind
  <2> QED BY <2>1, <2>2
<1>6. ASSUME s \in Unacknowledged, s \in root, n.pend = 0
      PROVE  FALSE
  <2>1. n.seq < lateSeq[s]
    BY <1>2, <1>5, <1>6 DEF Sound
  <2> QED BY <1>2, <1>3, <1>4, <1>6, <2>1
<1> QED BY <1>5, <1>6

\* Only what is sound is written.
LEMMA SoundFilesStep ==
    ASSUME Ground, SoundFiles, SoundLocals, [Next]_vars
    PROVE  SoundFiles'
<1>0. Sound \subseteq Sound'
  BY SoundStays
<1>a. TypeOK /\ Named
  BY GroundIs
<1> USE BindingAssumption DEF vars, fileVars, rtVars, localVars, histVars, Goto, Fault,
   Request, Quiet, ClearBinding
<1>1. ASSUME NEW t \in Threads, SaveCheck(t)
      PROVE  SoundFiles'
  <2>1. sid[t] \in Sessions /\ Payload(t) \in Sound
    BY <1>1, <1>a, PayloadSound DEF SaveCheck, Named, LocalsNamed, Saving
  <2> QED BY <1>1, <1>0, <2>1 DEF SaveCheck, SoundFiles
<1>2. ASSUME NEW t \in Threads, SaveSession(t) \/ SaveActive(t) \/ SaveMismatch(t) \/
   SaveUndoSession(t)
      PROVE  SoundFiles'
  BY <1>2, <1>0, <1>a, SaveMoves DEF SoundFiles
<1>3. ASSUME NEW t \in Threads, SaveReadback(t)
      PROVE  SoundFiles'
  BY <1>3, <1>0 DEF SaveReadback, In, OnSuccess, Terminate, SoundFiles
<1>4. ASSUME NEW t \in Threads, SaveUndoActive(t)
      PROVE  SoundFiles'
  BY <1>4, <1>0 DEF SaveUndoActive, In, SaveFails, OnFailure, SoundFiles
<1>5. ASSUME NEW t \in Threads, SaveUndoFails(t)
      PROVE  SoundFiles'
  BY <1>5, <1>0 DEF SaveUndoFails, In, SaveFails, OnFailure, SoundFiles
<1>6. ASSUME NEW t \in Threads, NEW s \in Sessions, OpenCheck(t, s)
      PROVE  SoundFiles'
  BY <1>6, <1>0 DEF OpenCheck, SoundFiles
<1>7. ASSUME NEW t \in Threads, OpenAbandon(t)
      PROVE  SoundFiles'
  BY <1>7, <1>0 DEF OpenAbandon, RecordClose, Terminate, SoundFiles
<1>8. ASSUME NEW t \in Threads, OpenDrop(t)
      PROVE  SoundFiles'
  BY <1>8, <1>0 DEF OpenDrop, SoundFiles
<1>9. ASSUME NEW t \in Threads, CloseCleared(t)
      PROVE  SoundFiles'
  BY <1>9, <1>0 DEF CloseCleared, SoundFiles
<1>10. ASSUME NEW t \in Threads, CloseRemoves(t)
      PROVE  SoundFiles'
  BY <1>10, <1>0 DEF CloseRemoves, RecordClose, Terminate, SoundFiles
<1>11. ASSUME NEW t \in Threads, CloseForgets(t)
      PROVE  SoundFiles'
  BY <1>11, <1>0 DEF CloseForgets, SoundFiles
<1>12. ASSUME NEW t \in Threads, CloseBuries(t)
      PROVE  SoundFiles'
  BY <1>12, <1>0 DEF CloseBuries, SoundFiles
<1>13. CASE Crash
  BY <1>13, <1>0 DEF Crash, SoundFiles
<1>14. CASE UNCHANGED <<sess, active, root, txn, commit, torn, closed>>
  BY <1>14, <1>0 DEF SoundFiles
<1>15. QED
  BY <1>1, <1>2, <1>3, <1>4, <1>5, <1>6, <1>7, <1>8, <1>9, <1>10, <1>11, <1>12, <1>13,
     <1>14, FileSteps

\* What a request goes on with is sound.
LEMMA MadeSound ==
    ASSUME Ground, Distinct, SoundFiles, SoundLocals, NEW v \in Threads, pc'[v] \in Bound,
           [Next]_vars
    PROVE  b'[v] \in Sound'
<1>0. Sound \subseteq Sound'
  BY SoundStays
<1>a. TypeOK /\ Named /\ SeqRuntime /\ Quarantine /\ Distinct
  BY GroundIs
<1>s. SoundFiles /\ SoundLocals /\ Named
  BY GroundIs
<1>q. Quarantine'
  BY QuarantineStep, GroundIs
<1>v. pc'[v] \in Bound
  OBVIOUS
<1>b. /\ b'[v] \in Behind' /\ b'[v].sid = sid'[v] /\ sid'[v] \in Sessions
      /\ b'[v].seq \in Nat /\ b'[v].pend \in Nat
  <2>1. SeqLocals' /\ Named' /\ TypeOK'
    BY SeqLocalsStep, ShapeStep, GroundIs
  <2> QED BY <1>v, <2>1 DEF SeqLocals, Named, LocalsNamed, Bound, Saving, Behind, Binding
<1> USE BindingAssumption DEF vars, fileVars, rtVars, localVars, histVars, Goto, Return,
   Prepare, Fault, Request, Quiet, ClearBinding
<1>1. ASSUME NEW t \in Threads, SaveConflict(t)
      PROVE  b'[v] \in Sound'
  BY <1>1, <1>0, <1>v, <1>a DEF SaveConflict, SaveFails, OnFailure, SoundLocals, TypeOK,
     RequestsTyped, Bound, Saving
<1>2. ASSUME NEW t \in Threads, SaveCheck(t) \/ SaveSession(t) \/ SaveActive(t) \/
   SaveMismatch(t) \/ SaveUndoSession(t)
      PROVE  b'[v] \in Sound'
  BY <1>2, <1>0, <1>v, <1>a DEF SaveCheck, SaveSession, In, SaveActive, SaveMismatch,
     SaveUndoSession, SoundLocals, TypeOK, RequestsTyped, Bound, Saving
<1>3. ASSUME NEW t \in Threads, SaveReadback(t)
      PROVE  b'[v] \in Sound'
  <2>1. txn.new \in Sound
    BY <1>3, <1>s DEF SaveReadback, In, SoundFiles
  <2> QED BY <1>3, <1>0, <1>v, <1>s, <1>a, <2>1, ReadbackIs DEF SaveReadback, In, Return,
             Prepare, SoundLocals, TypeOK, RequestsTyped, Bound, Saving
<1>4. ASSUME NEW t \in Threads, SaveUndoActive(t)
      PROVE  b'[v] \in Sound'
  BY <1>4, <1>0, <1>v, <1>a DEF SaveUndoActive, In, SaveFails, OnFailure, SoundLocals,
     TypeOK, RequestsTyped, Bound, Saving
<1>5. ASSUME NEW t \in Threads, SaveUndoFails(t)
      PROVE  b'[v] \in Sound'
  BY SMTT(20), <1>5, <1>0, <1>v, <1>a DEF SaveUndoFails, In, SaveFails, OnFailure,
     SoundLocals,
     TypeOK, RequestsTyped, Bound, Saving
<1>6. ASSUME NEW t \in Threads, NEW s \in Sessions, OpenCheck(t, s)
      PROVE  b'[v] \in Sound'
  BY <1>6, <1>0, <1>v, <1>a DEF OpenCheck, SoundLocals, TypeOK, RequestsTyped, Bound,
     Saving
<1>7. ASSUME NEW t \in Threads, OpenRegister(t)
      PROVE  b'[v] \in Sound'
  BY <1>7, <1>0, <1>v, <1>a DEF OpenRegister, SoundLocals, TypeOK, RequestsTyped, Bound,
     Saving
<1>8. ASSUME NEW t \in Threads, OpenFails(t)
      PROVE  b'[v] \in Sound'
  BY <1>8, <1>0, <1>v, <1>a DEF OpenFails, SoundLocals, TypeOK, RequestsTyped, Bound,
     Saving
<1>9. ASSUME NEW t \in Threads, OpenStart(t)
      PROVE  b'[v] \in Sound'
  <2>1. CASE v # t
    <3>1. pc'[v] = pc[v] /\ b'[v] = b[v]
      BY <1>9, <1>a, <2>1 DEF OpenStart, TypeOK, RequestsTyped
    <3> QED BY <1>0, <1>s, <1>v, <3>1 DEF SoundLocals
  <2>2. CASE v = t
    <3>1. /\ sid[t] \in Sessions /\ sid' = sid /\ late[sid[t]] = "none" /\ seq[sid[t]] = 0
          /\ New(sid[t]) \in Binding /\ New(sid[t]).seq = 0 /\ New(sid[t]).pend = 0
      BY <1>9, <1>a, NewBinding DEF OpenStart, SeqRuntime, Fresh, Named, LocalsNamed, New
    <3>2. CASE /\ Prepare(t, New(sid[t]), 0, None, "publishing")
               /\ UNCHANGED <<seq, late, lateSeq>>
      <4>1. b'[t] = New(sid[t]) /\ sid[t] \notin Unacknowledged'
        BY <1>a, <2>2, <3>1, <3>2 DEF Prepare, Unacknowledged, TypeOK, RequestsTyped
      <4>2. \A u \in Threads : ~Outstanding(u, sid[t])'
        BY <1>9, <1>a, <3>1, <3>2, StartIsQuiet DEF Prepare, Outstanding, TypeOK,
           RequestsTyped
      <4> QED BY <1>b, <2>2, <3>1, <4>1, <4>2, OverIsSound
    <3>3. CASE /\ Prepare(t, TimedOut(New(sid[t]), 1), 0, None, "publishingLate")
               /\ late' = [late EXCEPT ![sid[t]] = "running"]
               /\ lateSeq' = [lateSeq EXCEPT ![sid[t]] = 1]
      <4>1. b'[t] = TimedOut(New(sid[t]), 1)
        BY <1>a, <2>2, <3>3 DEF Prepare, TypeOK, RequestsTyped
      <4>2. lateSeq'[sid[t]] = 1 /\ late'[sid[t]] # "none"
        BY <1>a, <3>1, <3>3 DEF TypeOK, RuntimeTyped
      <4>3. /\ TimedOut(New(sid[t]), 1).pend = 1 /\ TimedOut(New(sid[t]), 1).seq >= 1
        BY <3>1, EditsPend, 1 \in Nat
      <4> QED BY <1>b, <1>q, <2>2, <3>1, <4>1, <4>2, <4>3, LateIsSound
    <3> QED BY <1>9, <1>a, <1>v, <2>2, <3>2, <3>3 DEF OpenStart, TypeOK, RequestsTyped,
               Bound, Saving
  <2> QED BY <2>1, <2>2
<1>10. ASSUME NEW t \in Threads, OpenAbandon(t)
      PROVE  b'[v] \in Sound'
  BY <1>10, <1>0, <1>v, <1>a DEF OpenAbandon, RecordClose, Terminate, SoundLocals,
     TypeOK, RequestsTyped, Bound, Saving
<1>11. ASSUME NEW t \in Threads, OpenDrop(t)
      PROVE  b'[v] \in Sound'
  BY <1>11, <1>0, <1>v, <1>a DEF OpenDrop, SoundLocals, TypeOK, RequestsTyped, Bound,
     Saving
<1>12. ASSUME NEW t \in Threads, NEW rec \in Addressed, ExecLoad(t, rec)
      PROVE  b'[v] \in Sound'
  BY <1>12, <1>0, <1>v, <1>a DEF ExecLoad, Addressed, SoundLocals, TypeOK,
     RequestsTyped, Bound, Saving
<1>13. ASSUME NEW t \in Threads, ExecAdmit(t)
      PROVE  b'[v] \in Sound'
  <2>1. CASE v # t
    <3>1. pc'[v] = pc[v] /\ b'[v] = b[v]
      BY <1>13, <1>a, <2>1 DEF ExecAdmit, TypeOK, RequestsTyped
    <3> QED BY <1>0, <1>s, <1>v, <3>1 DEF SoundLocals
  <2>2. CASE v = t
    <3>1. /\ sess[sid[t]] \in Sound
          /\ sess[sid[t]] \in Binding
          /\ sess[sid[t]].sid = sid[t]
          /\ sid[t] \in Sessions
      BY SMTT(20), <1>13, <1>a, <1>s, <1>v, <2>2 DEF ExecAdmit, Return, SoundFiles, Sound,
         Behind,
         Named, FilesNamed, LocalsNamed, Of, Bound, Saving, TypeOK, RequestsTyped
    <3>2. CASE Prepare(t, sess[sid[t]], sess[sid[t]].gen, sess[sid[t]].seq, "executing")
      BY <1>0, <1>a, <2>2, <3>1, <3>2 DEF Prepare, TypeOK, RequestsTyped
    <3>3. CASE /\ Prepare(t, Pending(sess[sid[t]], lateSeq[sid[t]]), sess[sid[t]].gen,
                          sess[sid[t]].seq, "recordingTimeout")
               /\ rt[sid[t]] = "quarantined" /\ sid' = sid
      <4>2. b'[t] = Pending(sess[sid[t]], lateSeq[sid[t]])
        BY <1>a, <2>2, <3>3 DEF Prepare, TypeOK, RequestsTyped
      <4>3. /\ lateSeq[sid[t]] \in Nat /\ lateSeq'[sid[t]] = lateSeq[sid[t]]
            /\ late'[sid[t]] # "none"
        BY <1>13, <1>a, <3>1, <3>3 DEF ExecAdmit, TypeOK, RuntimeTyped, Quarantine
      <4>4. /\ Pending(sess[sid[t]], lateSeq[sid[t]]).pend = lateSeq[sid[t]]
            /\ Pending(sess[sid[t]], lateSeq[sid[t]]).seq >= lateSeq[sid[t]]
        BY <3>1, <4>3, EditsPend
      <4> QED BY <1>b, <1>q, <2>2, <3>3, <4>2, <4>3, <4>4, LateIsSound
    <3>4. CASE /\ Prepare(t, Holding(sess[sid[t]], seq[sid[t]]), sess[sid[t]].gen,
                          sess[sid[t]].seq, "recordingHold")
               /\ rt[sid[t]] = "held" /\ sid' = sid
      <4>2. b'[t] = Holding(sess[sid[t]], seq[sid[t]])
        BY <1>a, <2>2, <3>4 DEF Prepare, TypeOK, RequestsTyped
      <4>3. seq[sid[t]] \in Nat /\ rt'[sid[t]] = "held"
        BY <1>13, <1>a, <3>1, <3>4 DEF ExecAdmit, TypeOK, RuntimeTyped
      <4>4. /\ Holding(sess[sid[t]], seq[sid[t]]).pend = sess[sid[t]].pend
            /\ Holding(sess[sid[t]], seq[sid[t]]).seq >= sess[sid[t]].seq
        BY <3>1, <4>3, EditsPend
      <4>5. sess[sid[t]].seq \in Nat /\ sess[sid[t]].pend \in Nat /\ sess[sid[t]] \in Sound'
        BY <1>0, <3>1 DEF Binding
      <4> QED BY <1>b, <1>q, <2>2, <3>1, <3>4, <4>2, <4>3, <4>4, <4>5, HeldIsSound
    <3> QED BY <1>13, <1>a, <1>v, <2>2, <3>2, <3>3, <3>4 DEF ExecAdmit, Return, TypeOK,
               RequestsTyped, Bound, Saving
  <2> QED BY <2>1, <2>2
<1>14. ASSUME NEW t \in Threads, ExecSucceeds(t)
      PROVE  b'[v] \in Sound'
  <2>1. CASE v # t
    <3>1. pc'[v] = pc[v] /\ b'[v] = b[v]
      BY <1>14, <1>a, <2>1 DEF ExecSucceeds, TypeOK, RequestsTyped
    <3> QED BY <1>0, <1>s, <1>v, <3>1 DEF SoundLocals
  <2>2. CASE v = t
    <3>1. b[t] \in Sound /\ b[t] \in Binding /\ b[t].sid = sid[t] /\ sid[t] \in Sessions
      BY <1>14, <1>a, <1>s, <1>v, <2>2 DEF ExecSucceeds, SoundLocals, Bound, Saving, Named,
         LocalsNamed, Sound, Behind
    <3>2. b'[t] = Completed(b[t], cmd[t]) /\ sid' = sid /\ cmd[t] \in Nat
      BY <1>14, <1>a, <2>2 DEF ExecSucceeds, TypeOK, RequestsTyped
    <3>3. b'[t].pend = 0 /\ b'[t].seq = cmd[t]
      BY <3>1, <3>2, EditsPend
    <3>4. sid[t] \notin Unacknowledged'
      BY <1>14, <1>a, <3>1 DEF ExecSucceeds, Quarantine, Unacknowledged
    <3>5. \A u \in Threads : Outstanding(u, sid[t])' => cmd[t] < cmd'[u]
      <4>1. ASSUME NEW u \in Threads, Outstanding(u, sid[t])'
            PROVE  u # t /\ Outstanding(u, sid[t]) /\ cmd' = cmd /\ Outstanding(t, sid[t])
        <5>1. /\ pc' = [pc EXCEPT ![t] = "updating"]
              /\ sid' = sid
              /\ cmd' = cmd
              /\ pc[t] = "executing"
          BY <1>14, <1>a DEF ExecSucceeds, TypeOK, RequestsTyped
        <5>2. pc \in [Threads -> Points]
          BY <1>a DEF TypeOK, RequestsTyped
        <5> QED BY <4>1, <5>1, <5>2 DEF Outstanding
      <4>2. ASSUME NEW u \in Threads, Outstanding(u, sid[t])'
            PROVE  cmd[t] < cmd'[u]
        <5>1. u # t /\ Outstanding(u, sid[t]) /\ cmd' = cmd /\ Outstanding(t, sid[t])
          BY <4>1, <4>2
        <5>2. cmd[u] >= cmd[t]
          BY <1>14, <5>1 DEF ExecSucceeds, Oldest, Outstanding
        <5>3. cmd[u] # cmd[t]
          <6> HIDE DEF Prepare, Goto, Return, Quiet
          <6> QED BY <1>a, <5>1 DEF Distinct, Outstanding
        <5>4. cmd[u] \in Nat /\ cmd[t] \in Nat
          BY <1>a DEF TypeOK, RequestsTyped
        <5> QED BY <5>1, <5>2, <5>3, <5>4
      <4> QED BY <4>2
    <3> QED BY <1>b, <2>2, <3>2, <3>3, <3>4, <3>5, OverIsSound
  <2> QED BY <2>1, <2>2
<1>15. ASSUME NEW t \in Threads, ExecTimesOut(t)
      PROVE  b'[v] \in Sound'
  <2>1. CASE v # t
    <3>1. pc'[v] = pc[v] /\ b'[v] = b[v]
      BY <1>15, <1>a, <2>1 DEF ExecTimesOut, TypeOK, RequestsTyped
    <3> QED BY <1>0, <1>s, <1>v, <3>1 DEF SoundLocals
  <2>2. CASE v = t
    <3>1. b[t] \in Sound /\ b[t] \in Binding /\ b[t].sid = sid[t] /\ sid[t] \in Sessions
      BY <1>15, <1>a, <1>s, <1>v, <2>2 DEF ExecTimesOut, SoundLocals, Bound, Saving, Named,
         LocalsNamed, Sound, Behind
    <3>2. b'[t] = Pending(b[t], cmd[t]) /\ sid'[t] = sid[t]
      BY <1>15, <1>a, <1>v, <2>2 DEF ExecTimesOut, TypeOK, RequestsTyped
    <3>3. cmd[t] \in Nat /\ lateSeq'[sid[t]] = cmd[t] /\ late'[sid[t]] # "none"
      BY <1>15, <1>a, <2>2, <3>1 DEF ExecTimesOut, TypeOK, RequestsTyped, RuntimeTyped,
         Quarantine
    <3>4. Pending(b[t], cmd[t]).pend = cmd[t] /\ Pending(b[t], cmd[t]).seq >= cmd[t]
      BY <3>1, <3>3, EditsPend
    <3> QED BY <1>b, <1>q, <2>2, <3>2, <3>3, <3>4, LateIsSound
  <2> QED BY <2>1, <2>2
<1>16. ASSUME NEW t \in Threads, ExecHeld(t)
      PROVE  b'[v] \in Sound'
  <2>1. CASE v # t
    <3>1. pc'[v] = pc[v] /\ b'[v] = b[v]
      BY <1>16, <1>a, <2>1 DEF ExecHeld, TypeOK, RequestsTyped
    <3> QED BY <1>0, <1>s, <1>v, <3>1 DEF SoundLocals
  <2>2. CASE v = t
    <3>1. b[t] \in Sound /\ b[t] \in Binding /\ b[t].sid = sid[t] /\ sid[t] \in Sessions
      BY <1>16, <1>a, <1>s, <1>v, <2>2 DEF ExecHeld, SoundLocals, Bound, Saving, Named,
         LocalsNamed, Sound, Behind
    <3>2. b'[t] = Holding(b[t], cmd[t]) /\ sid' = sid
      BY <1>16, <1>a, <2>2 DEF ExecHeld, TypeOK, RequestsTyped
    <3>3. cmd[t] \in Nat /\ rt'[sid[t]] = "held"
      BY <1>16, <1>a, <2>2, <3>1 DEF ExecHeld, TypeOK, RequestsTyped, RuntimeTyped
    <3>4. Holding(b[t], cmd[t]).pend = b[t].pend /\ Holding(b[t], cmd[t]).seq >= b[t].seq
      BY <3>1, <3>3, EditsPend
    <3>5. b[t].seq \in Nat /\ b[t].pend \in Nat /\ b[t] \in Sound'
      BY <1>0, <3>1 DEF Binding
    <3> QED BY <1>b, <1>q, <2>2, <3>1, <3>2, <3>3, <3>4, <3>5, HeldIsSound
  <2> QED BY <2>1, <2>2
<1>17. ASSUME NEW t \in Threads, ExecFails(t)
      PROVE  b'[v] \in Sound'
  BY <1>17, <1>0, <1>v, <1>a DEF ExecFails, SoundLocals, TypeOK, RequestsTyped, Bound,
     Saving
<1>18. ASSUME NEW t \in Threads, StatusRead(t)
      PROVE  b'[v] \in Sound'
  <2>1. CASE v # t
    <3>1. pc'[v] = pc[v] /\ b'[v] = b[v]
      BY <1>18, <1>a, <2>1 DEF StatusRead, TypeOK, RequestsTyped
    <3> QED BY <1>0, <1>s, <1>v, <3>1 DEF SoundLocals
  <2>2. CASE v = t
    <3>1. active \in Sound /\ active \in Binding /\ active.sid \in Sessions
      BY <1>18, <1>a, <1>s, <1>v, <2>2 DEF StatusRead, SoundFiles, Sound, Behind, Binding
    <3>2. CASE Prepare(t, active, active.gen, active.seq, "probing")
      BY <1>0, <1>a, <2>2, <3>1, <3>2 DEF Prepare, TypeOK, RequestsTyped
    <3>3. CASE /\ Prepare(t, TimedOut(active, lateSeq[active.sid]), active.gen,
                          None, "probeTimeout")
               /\ rt[active.sid] = "quarantined"
      <4>2. b'[t] = TimedOut(active, lateSeq[active.sid]) /\ sid'[t] = active.sid
        BY <1>18, <1>a, <2>2, <3>3 DEF StatusRead, Prepare, TypeOK, RequestsTyped
      <4>3. /\ lateSeq[active.sid] \in Nat /\ lateSeq'[active.sid] = lateSeq[active.sid]
            /\ late'[active.sid] # "none"
        BY <1>18, <1>a, <3>1, <3>3 DEF StatusRead, TypeOK, RuntimeTyped, Quarantine
      <4>4. /\ TimedOut(active, lateSeq[active.sid]).pend = lateSeq[active.sid]
            /\ TimedOut(active, lateSeq[active.sid]).seq >= lateSeq[active.sid]
        BY <3>1, <4>3, EditsPend
      <4> QED BY <1>b, <1>q, <2>2, <4>2, <4>3, <4>4, LateIsSound
    <3> QED BY <1>18, <1>a, <1>v, <2>2, <3>2, <3>3 DEF StatusRead, TypeOK, RequestsTyped,
               Bound, Saving
  <2> QED BY <2>1, <2>2
<1>19. ASSUME NEW t \in Threads, ProbeSucceeds(t)
      PROVE  b'[v] \in Sound'
  <2>1. CASE v # t
    <3>1. pc'[v] = pc[v] /\ b'[v] = b[v]
      BY <1>19, <1>a, <2>1 DEF ProbeSucceeds, TypeOK, RequestsTyped
    <3> QED BY <1>0, <1>s, <1>v, <3>1 DEF SoundLocals
  <2>2. CASE v = t
    <3>1. b[t] \in Sound /\ b[t] \in Binding /\ b[t].sid = sid[t] /\ sid[t] \in Sessions
      BY <1>19, <1>a, <1>s, <1>v, <2>2 DEF ProbeSucceeds, SoundLocals, Bound, Saving, Named,
         LocalsNamed, Sound, Behind
    <3>2. b'[t] = Probed(b[t], cmd[t]) /\ sid' = sid /\ cmd[t] \in Nat
      BY <1>19, <1>a, <2>2 DEF ProbeSucceeds, TypeOK, RequestsTyped
    <3>3. b'[t].pend = b[t].pend /\ b'[t].seq = cmd[t]
      BY <3>1, <3>2, EditsPend
    <3>4. sid[t] \notin Unacknowledged' /\ b[t].pend = 0
      BY <1>19, <1>a, <3>1 DEF ProbeSucceeds, Quarantine, Unacknowledged, Sound
    <3>5. \A u \in Threads : Outstanding(u, sid[t])' => cmd[t] < cmd'[u]
      <4>1. ASSUME NEW u \in Threads, Outstanding(u, sid[t])'
            PROVE  u # t /\ Outstanding(u, sid[t]) /\ cmd' = cmd /\ Outstanding(t, sid[t])
        <5>1. /\ pc' = [pc EXCEPT ![t] = "probeUpdating"]
              /\ sid' = sid
              /\ cmd' = cmd
              /\ pc[t] = "probing"
          BY <1>19, <1>a DEF ProbeSucceeds, TypeOK, RequestsTyped
        <5>2. pc \in [Threads -> Points]
          BY <1>a DEF TypeOK, RequestsTyped
        <5> QED BY <4>1, <5>1, <5>2 DEF Outstanding
      <4>2. ASSUME NEW u \in Threads, Outstanding(u, sid[t])'
            PROVE  cmd[t] < cmd'[u]
        <5>1. u # t /\ Outstanding(u, sid[t]) /\ cmd' = cmd /\ Outstanding(t, sid[t])
          BY <4>1, <4>2
        <5>2. cmd[u] >= cmd[t]
          BY <1>19, <5>1 DEF ProbeSucceeds, Oldest, Outstanding
        <5>3. cmd[u] # cmd[t]
          <6> HIDE DEF Prepare, Goto, Return, Quiet
          <6> QED BY <1>a, <5>1 DEF Distinct, Outstanding
        <5>4. cmd[u] \in Nat /\ cmd[t] \in Nat
          BY <1>a DEF TypeOK, RequestsTyped
        <5> QED BY <5>1, <5>2, <5>3, <5>4
      <4> QED BY <4>2
    <3> QED BY <1>b, <2>2, <3>2, <3>3, <3>4, <3>5, OverIsSound
  <2> QED BY <2>1, <2>2
<1>20. ASSUME NEW t \in Threads, ProbeTimesOut(t)
      PROVE  b'[v] \in Sound'
  <2>1. CASE v # t
    <3>1. pc'[v] = pc[v] /\ b'[v] = b[v]
      BY <1>20, <1>a, <2>1 DEF ProbeTimesOut, TypeOK, RequestsTyped
    <3> QED BY <1>0, <1>s, <1>v, <3>1 DEF SoundLocals
  <2>2. CASE v = t
    <3>1. b[t] \in Sound /\ b[t] \in Binding /\ b[t].sid = sid[t] /\ sid[t] \in Sessions
      BY <1>20, <1>a, <1>s, <1>v, <2>2 DEF ProbeTimesOut, SoundLocals, Bound, Saving, Named,
         LocalsNamed, Sound, Behind
    <3>2. b'[t] = TimedOut(b[t], cmd[t]) /\ sid'[t] = sid[t]
      BY <1>20, <1>a, <1>v, <2>2 DEF ProbeTimesOut, TypeOK, RequestsTyped
    <3>3. cmd[t] \in Nat /\ lateSeq'[sid[t]] = cmd[t] /\ late'[sid[t]] # "none"
      BY <1>20, <1>a, <2>2, <3>1 DEF ProbeTimesOut, TypeOK, RequestsTyped, RuntimeTyped,
         Quarantine
    <3>4. TimedOut(b[t], cmd[t]).pend = cmd[t] /\ TimedOut(b[t], cmd[t]).seq >= cmd[t]
      BY <3>1, <3>3, EditsPend
    <3> QED BY <1>b, <1>q, <2>2, <3>2, <3>3, <3>4, LateIsSound
  <2> QED BY <2>1, <2>2
<1>21. ASSUME NEW t \in Threads, ProbeFails(t)
      PROVE  b'[v] \in Sound'
  BY <1>21, <1>0, <1>v, <1>a DEF ProbeFails, SoundLocals, TypeOK, RequestsTyped, Bound,
     Saving
<1>22. ASSUME NEW t \in Threads, StatusMark(t)
      PROVE  b'[v] \in Sound'
  <2>1. CASE v # t
    <3>1. pc'[v] = pc[v] /\ b'[v] = b[v]
      BY <1>22, <1>a, <2>1 DEF StatusMark, TypeOK, RequestsTyped
    <3> QED BY <1>0, <1>s, <1>v, <3>1 DEF SoundLocals
  <2>2. CASE v = t
    <3>1. active \in Sound /\ active \in Binding /\ active.sid \in Sessions
      BY <1>22, <1>a, <1>s, <1>v, <2>2 DEF StatusMark, SoundFiles, Sound, Behind, Binding,
         Bound, Saving, TypeOK, RequestsTyped
    <3>2. b'[t] = Stale(active)
      BY <1>22, <1>a, <1>v, <2>2 DEF StatusMark, TypeOK, RequestsTyped, Bound, Saving
    <3>3. Stale(active) \in Binding /\ Stale(active).sid = active.sid
      BY <3>1, BindingEdits, 0 \in Nat
    <3>4. Stale(active).seq = active.seq /\ Stale(active).pend = active.pend
      BY <3>1, EditsPend, 0 \in Nat
    <3> QED BY <1>0, <2>2, <3>1, <3>2, <3>3, <3>4, SameIsSound
  <2> QED BY <2>1, <2>2
<1>23. ASSUME NEW t \in Threads, NEW s \in Sessions \cup {None}, CloseNothing(t, s)
      PROVE  b'[v] \in Sound'
  BY <1>23, <1>0, <1>v, <1>a DEF CloseNothing, SoundLocals, TypeOK, RequestsTyped,
     Bound, Saving
<1>24. ASSUME NEW t \in Threads, CloseCleared(t)
      PROVE  b'[v] \in Sound'
  BY <1>24, <1>0, <1>v, <1>a DEF CloseCleared, SoundLocals, TypeOK, RequestsTyped,
     Bound, Saving
<1>25. ASSUME NEW t \in Threads, NEW rec \in Addressed, CloseRead(t, rec)
      PROVE  b'[v] \in Sound'
  <2>1. CASE v # t
    <3>1. pc'[v] = pc[v] /\ b'[v] = b[v]
      BY <1>25, <1>a, <2>1 DEF CloseRead, TypeOK, RequestsTyped
    <3> QED BY <1>0, <1>s, <1>v, <3>1 DEF SoundLocals
  <2>2. CASE v = t
    <3>1. rec \in Sound /\ rec \in Binding /\ rec.sid \in Sessions
      BY <1>25, <1>a, <1>s, <1>v, <2>2 DEF CloseRead, Addressed, SoundFiles, Sound, Behind,
         Binding
    <3>2. b'[t] = rec
      BY <1>25, <1>a, <2>2 DEF CloseRead, TypeOK, RequestsTyped
    <3> QED BY <1>0, <2>2, <3>1, <3>2
  <2> QED BY <2>1, <2>2
<1>26. ASSUME NEW t \in Threads, CloseReleases(t)
      PROVE  b'[v] \in Sound'
  BY <1>26, <1>0, <1>v, <1>a DEF CloseReleases, Releasable, SoundLocals, TypeOK,
     RequestsTyped, Bound, Saving
<1>27. ASSUME NEW t \in Threads, CloseRefused(t)
      PROVE  b'[v] \in Sound'
  BY <1>27, <1>0, <1>v, <1>a DEF CloseRefused, SoundLocals, TypeOK, RequestsTyped,
     Bound, Saving
<1>28. ASSUME NEW t \in Threads, CloseTimesOut(t)
      PROVE  b'[v] \in Sound'
  <2>1. CASE v # t
    <3>1. pc'[v] = pc[v] /\ b'[v] = b[v]
      BY <1>28, <1>a, <2>1 DEF CloseTimesOut, TypeOK, RequestsTyped
    <3> QED BY <1>0, <1>s, <1>v, <3>1 DEF SoundLocals
  <2>2. CASE v = t
    <3>1. b[t] \in Sound /\ b[t] \in Binding /\ b[t].sid = sid[t] /\ sid[t] \in Sessions
      BY <1>28, <1>a, <1>s, <1>v, <2>2 DEF CloseTimesOut, SoundLocals, Bound, Saving, Named,
         LocalsNamed, Sound, Behind
    <3>2. b'[t] = [TimedOut(b[t], seq[sid[t]] + 1) EXCEPT !.live = TRUE] /\ sid'[t] = sid[t]
      BY <1>28, <1>a, <1>v, <2>2 DEF CloseTimesOut, TypeOK, RequestsTyped
    <3>3. /\ seq[sid[t]] + 1 \in Nat
          /\ lateSeq'[sid[t]] = seq[sid[t]] + 1
          /\ late'[sid[t]] # "none"
      BY <1>28, <1>a, <2>2, <3>1 DEF CloseTimesOut, TypeOK, RequestsTyped, RuntimeTyped,
         Quarantine
    <3>4. /\ [TimedOut(b[t], seq[sid[t]] + 1) EXCEPT !.live = TRUE].pend = seq[sid[t]] + 1
          /\ [TimedOut(b[t], seq[sid[t]] + 1) EXCEPT !.live = TRUE].seq >= seq[sid[t]] + 1
      BY <3>1, <3>3, EditsPend
    <3> QED BY <1>b, <1>q, <2>2, <3>2, <3>3, <3>4, LateIsSound
  <2> QED BY <2>1, <2>2
<1>29. ASSUME NEW t \in Threads, CloseUnreported(t)
      PROVE  b'[v] \in Sound'
  <2>1. CASE v # t
    <3>1. pc'[v] = pc[v] /\ b'[v] = b[v]
      BY <1>29, <1>a, <2>1 DEF CloseUnreported, Releasable, TypeOK, RequestsTyped
    <3> QED BY <1>0, <1>s, <1>v, <3>1 DEF SoundLocals
  <2>2. CASE v = t
    <3>1. b[t] \in Sound /\ b[t] \in Binding /\ b[t].sid = sid[t] /\ sid[t] \in Sessions
      BY <1>29, <1>a, <1>s, <1>v, <2>2 DEF CloseUnreported, SoundLocals, Bound, Saving,
         Named, LocalsNamed, Sound, Behind
    <3>2. b'[t] = ClosedPending(b[t])
      BY <1>29, <1>a, <1>v, <2>2 DEF CloseUnreported, Releasable, TypeOK, RequestsTyped,
         Bound, Saving
    <3>3. ClosedPending(b[t]) \in Binding /\ ClosedPending(b[t]).sid = b[t].sid
      BY <3>1, BindingEdits, 0 \in Nat
    <3>4. ClosedPending(b[t]).seq = b[t].seq /\ ClosedPending(b[t]).pend = b[t].pend
      BY <3>1, EditsPend, 0 \in Nat
    <3> QED BY <1>0, <2>2, <3>1, <3>2, <3>3, <3>4, SameIsSound
  <2> QED BY <2>1, <2>2
<1>30. ASSUME NEW t \in Threads, CloseHeld(t)
      PROVE  b'[v] \in Sound'
  <2>1. CASE v # t
    <3>1. pc'[v] = pc[v] /\ b'[v] = b[v]
      BY <1>30, <1>a, <2>1 DEF CloseHeld, Releasable, TypeOK, RequestsTyped
    <3> QED BY <1>0, <1>s, <1>v, <3>1 DEF SoundLocals
  <2>2. CASE v = t
    <3>1. b[t] \in Sound /\ b[t] \in Binding /\ b[t].sid = sid[t] /\ sid[t] \in Sessions
      BY <1>30, <1>a, <1>s, <1>v, <2>2 DEF CloseHeld, SoundLocals, Bound, Saving, Named,
         LocalsNamed, Sound, Behind
    <3>2. b'[t] = Holding(b[t], seq[sid[t]]) /\ sid' = sid
      BY <1>30, <1>a, <2>2 DEF CloseHeld, Releasable, TypeOK, RequestsTyped
    <3>3. seq[sid[t]] \in Nat /\ rt'[sid[t]] = "held"
      BY <1>30, <1>a, <2>2, <3>1 DEF CloseHeld, Releasable, TypeOK, RequestsTyped,
         RuntimeTyped
    <3>4. /\ Holding(b[t], seq[sid[t]]).pend = b[t].pend
          /\ Holding(b[t], seq[sid[t]]).seq >= b[t].seq
      BY <3>1, <3>3, EditsPend
    <3>5. b[t].seq \in Nat /\ b[t].pend \in Nat /\ b[t] \in Sound'
      BY <1>0, <3>1 DEF Binding
    <3> QED BY <1>b, <1>q, <2>2, <3>1, <3>2, <3>3, <3>4, <3>5, HeldIsSound
  <2> QED BY <2>1, <2>2
<1>31. ASSUME NEW t \in Threads, CloseRemoves(t)
      PROVE  b'[v] \in Sound'
  BY <1>31, <1>0, <1>v, <1>a DEF CloseRemoves, RecordClose, Terminate, SoundLocals,
     TypeOK, RequestsTyped, Bound, Saving
<1>32. ASSUME NEW t \in Threads, CloseKeepsRoot(t)
      PROVE  b'[v] \in Sound'
  <2>1. CASE v # t
    <3>1. pc'[v] = pc[v] /\ b'[v] = b[v]
      BY <1>32, <1>a, <2>1 DEF CloseKeepsRoot, TypeOK, RequestsTyped
    <3> QED BY <1>0, <1>s, <1>v, <3>1 DEF SoundLocals
  <2>2. CASE v = t
    <3>1. b[t] \in Sound /\ b[t] \in Binding /\ b[t].sid = sid[t] /\ sid[t] \in Sessions
      BY <1>32, <1>a, <1>s, <1>v, <2>2 DEF CloseKeepsRoot, SoundLocals, Bound, Saving,
         Named, LocalsNamed, Sound, Behind
    <3>2. b'[t] = ClosedPending(b[t])
      BY <1>32, <1>a, <1>v, <2>2 DEF CloseKeepsRoot, TypeOK, RequestsTyped, Bound, Saving
    <3>3. ClosedPending(b[t]) \in Binding /\ ClosedPending(b[t]).sid = b[t].sid
      BY <3>1, BindingEdits, 0 \in Nat
    <3>4. ClosedPending(b[t]).seq = b[t].seq /\ ClosedPending(b[t]).pend = b[t].pend
      BY <3>1, EditsPend, 0 \in Nat
    <3> QED BY <1>0, <2>2, <3>1, <3>2, <3>3, <3>4, SameIsSound
  <2> QED BY <2>1, <2>2
<1>33. ASSUME NEW t \in Threads, CloseForgets(t)
      PROVE  b'[v] \in Sound'
  BY <1>33, <1>0, <1>v, <1>a DEF CloseForgets, SoundLocals, TypeOK, RequestsTyped,
     Bound, Saving
<1>34. ASSUME NEW t \in Threads, CloseBuries(t)
      PROVE  b'[v] \in Sound'
  BY <1>34, <1>0, <1>v, <1>a DEF CloseBuries, SoundLocals, TypeOK, RequestsTyped, Bound,
     Saving
<1>35. ASSUME NEW t \in Threads, NEW rec \in Addressed, ReconcileRead(t, rec)
      PROVE  b'[v] \in Sound'
  <2>1. CASE v # t
    <3>1. pc'[v] = pc[v] /\ b'[v] = b[v]
      BY <1>35, <1>a, <2>1 DEF ReconcileRead, Addressed, Awaiting, Preserve, TypeOK,
         RequestsTyped
    <3> QED BY <1>0, <1>s, <1>v, <3>1 DEF SoundLocals
  <2>2. CASE v = t
    <3>1. rec \in Sound /\ rec \in Binding /\ rec.sid \in Sessions
      BY <1>35, <1>a, <1>s, <1>v, <2>2 DEF ReconcileRead, Addressed, SoundFiles, Sound,
         Behind, Binding
    <3>2. b'[t] = Projection(rec) /\ sid'[t] = rec.sid
      BY <1>35, <1>a, <2>2 DEF ReconcileRead, TypeOK, RequestsTyped
    <3>3. /\ rec.pend = lateSeq[rec.sid] /\ lateSeq'[rec.sid] = lateSeq[rec.sid]
          /\ lateSeq[rec.sid] \in Nat /\ late'[rec.sid] # "none"
      BY <1>35, <1>a, <3>1 DEF ReconcileRead, Awaiting, Preserve, TypeOK, RuntimeTyped
    <3>4. b'[t].pend = lateSeq[rec.sid] /\ b'[t].seq = lateSeq[rec.sid]
      BY <3>1, <3>2, <3>3, EditsPend
    <3> QED BY <1>b, <1>q, <2>2, <3>2, <3>3, <3>4, LateIsSound
  <2> QED BY <2>1, <2>2
<1>36. ASSUME NEW t \in Threads, ReconcileAcknowledges(t)
      PROVE  b'[v] \in Sound'
  <2>1. CASE v # t
    <3>1. pc'[v] = pc[v] /\ b'[v] = b[v]
      BY <1>36, <1>a, <2>1 DEF ReconcileAcknowledges, ReconcileClears, TypeOK, RequestsTyped
    <3> QED BY <1>0, <1>s, <1>v, <3>1 DEF SoundLocals
  <2>2. CASE v = t
    <3>1. b[t] \in Sound /\ b[t] \in Binding /\ b[t].sid = sid[t] /\ sid[t] \in Sessions
      BY <1>36, <1>a, <1>s, <1>v, <2>2 DEF ReconcileAcknowledges, SoundLocals, Bound,
         Saving, Named, LocalsNamed, Sound, Behind
    <3>2. b'[t] = Reconciled(b[t]) /\ sid'[t] = sid[t] /\ late'[sid[t]] = "acknowledged"
      BY <1>36, <1>a, <1>v, <2>2, <3>1 DEF ReconcileAcknowledges, ReconcileClears, TypeOK,
         RequestsTyped, RuntimeTyped, Bound, Saving
    <3>3. b'[t].pend = 0
      BY <3>1, <3>2, EditsPend, 0 \in Nat
    <3>4. sid[t] \notin Unacknowledged' /\ rt'[sid[t]] # "live"
      BY <1>q, <3>1, <3>2 DEF Unacknowledged, Quarantine
    <3> QED BY <1>b, <2>2, <3>2, <3>3, <3>4, OverIsSound
  <2> QED BY <2>1, <2>2
<1>37. ASSUME NEW t \in Threads, ReconcileReleases(t)
      PROVE  b'[v] \in Sound'
  <2>1. CASE v # t
    <3>1. pc'[v] = pc[v] /\ b'[v] = b[v]
      BY <1>37, <1>a, <2>1 DEF ReconcileReleases, Releasable, TypeOK, RequestsTyped
    <3> QED BY <1>0, <1>s, <1>v, <3>1 DEF SoundLocals
  <2>2. CASE v = t
    <3>1. b[t] \in Sound /\ b[t] \in Binding /\ b[t].sid = sid[t] /\ sid[t] \in Sessions
      BY <1>37, <1>a, <1>s, <1>v, <2>2 DEF ReconcileReleases, SoundLocals, Bound, Saving,
         Named, LocalsNamed, Sound, Behind
    <3>2. b'[t] = CleanupPending(b[t])
      BY <1>37, <1>a, <1>v, <2>2 DEF ReconcileReleases, Releasable, TypeOK, RequestsTyped,
         Bound, Saving
    <3>3. CleanupPending(b[t]) \in Binding /\ CleanupPending(b[t]).sid = b[t].sid
      BY <3>1, BindingEdits, 0 \in Nat
    <3>4. CleanupPending(b[t]).seq = b[t].seq /\ CleanupPending(b[t]).pend = b[t].pend
      BY <3>1, EditsPend, 0 \in Nat
    <3> QED BY <1>0, <2>2, <3>1, <3>2, <3>3, <3>4, SameIsSound
  <2> QED BY <2>1, <2>2
<1>38. ASSUME NEW s \in Sessions, LateDone(s)
      PROVE  b'[v] \in Sound'
  BY <1>38, <1>0, <1>v, <1>a DEF LateDone, SoundLocals, TypeOK, RequestsTyped, Bound,
     Saving
<1>39. CASE Crash
  BY <1>39, <1>0, <1>v, <1>a DEF Crash, SoundLocals, TypeOK, RequestsTyped, Bound,
     Saving
<1>40. CASE UNCHANGED vars
  BY <1>40, <1>0, <1>v, <1>a DEF SoundLocals, TypeOK, RequestsTyped, Bound, Saving
<1>41. QED
  BY <1>1, <1>2, <1>3, <1>4, <1>5, <1>6, <1>7, <1>8, <1>9, <1>10, <1>11, <1>12, <1>13,
     <1>14, <1>15, <1>16, <1>17, <1>18, <1>19, <1>20, <1>21, <1>22, <1>23, <1>24, <1>25,
     <1>26, <1>27, <1>28, <1>29, <1>30, <1>31, <1>32, <1>33, <1>34, <1>35, <1>36, <1>37,
     <1>38, <1>39, <1>40 DEF Next, Save, Open, Exec, Status, Close, Reconcile

\* A merge starts from what was sound, and expects its sequence.
LEMMA BaseSound ==
    ASSUME Ground, SoundFiles, SoundLocals, NEW v \in Threads, base'[v] # None, [Next]_vars
    PROVE  base'[v] \in Sound' /\ exp'[v].seq = base'[v].seq
<1>0. Sound \subseteq Sound'
  BY SoundStays
<1>a. TypeOK /\ Named
  BY GroundIs
<1> USE BindingAssumption DEF vars, fileVars, rtVars, localVars, histVars, Goto, Return,
   Prepare, Fault, Request, Quiet, ClearBinding
<1>1. ASSUME NEW t \in Threads, SaveConflict(t)
      PROVE  base'[v] \in Sound' /\ exp'[v].seq = base'[v].seq
  BY <1>1, <1>0, <1>a DEF SaveConflict, SaveFails, OnFailure, SoundLocals, TypeOK,
     RequestsTyped, Named, LocalsNamed
<1>2. ASSUME NEW t \in Threads, SaveCheck(t) \/ SaveSession(t) \/ SaveActive(t) \/
   SaveMismatch(t) \/ SaveUndoSession(t)
      PROVE  base'[v] \in Sound' /\ exp'[v].seq = base'[v].seq
  BY <1>2, <1>0, <1>a DEF SaveCheck, SaveSession, In, SaveActive, SaveMismatch,
     SaveUndoSession, SoundLocals, TypeOK, RequestsTyped, Named, LocalsNamed
<1>3. ASSUME NEW t \in Threads, SaveReadback(t)
      PROVE  base'[v] \in Sound' /\ exp'[v].seq = base'[v].seq
  BY <1>3, <1>0, <1>a, ReadbackIs DEF SaveReadback, In, Return, Prepare, SoundLocals,
     TypeOK, RequestsTyped, Named, LocalsNamed
<1>4. ASSUME NEW t \in Threads, SaveUndoActive(t)
      PROVE  base'[v] \in Sound' /\ exp'[v].seq = base'[v].seq
  BY <1>4, <1>0, <1>a DEF SaveUndoActive, In, SaveFails, OnFailure, SoundLocals, TypeOK,
     RequestsTyped, Named, LocalsNamed
<1>5. ASSUME NEW t \in Threads, SaveUndoFails(t)
      PROVE  base'[v] \in Sound' /\ exp'[v].seq = base'[v].seq
  BY <1>5, <1>0, <1>a DEF SaveUndoFails, In, SaveFails, OnFailure, SoundLocals, TypeOK,
     RequestsTyped, Named, LocalsNamed
<1>6. ASSUME NEW t \in Threads, NEW s \in Sessions, OpenCheck(t, s)
      PROVE  base'[v] \in Sound' /\ exp'[v].seq = base'[v].seq
  BY <1>6, <1>0, <1>a DEF OpenCheck, SoundLocals, TypeOK, RequestsTyped, Named,
     LocalsNamed
<1>7. ASSUME NEW t \in Threads, OpenRegister(t)
      PROVE  base'[v] \in Sound' /\ exp'[v].seq = base'[v].seq
  BY <1>7, <1>0, <1>a DEF OpenRegister, SoundLocals, TypeOK, RequestsTyped, Named,
     LocalsNamed
<1>8. ASSUME NEW t \in Threads, OpenFails(t)
      PROVE  base'[v] \in Sound' /\ exp'[v].seq = base'[v].seq
  BY <1>8, <1>0, <1>a DEF OpenFails, SoundLocals, TypeOK, RequestsTyped, Named,
     LocalsNamed
<1>9. ASSUME NEW t \in Threads, OpenStart(t)
      PROVE  base'[v] \in Sound' /\ exp'[v].seq = base'[v].seq
  BY <1>9, <1>0, <1>a DEF OpenStart, SoundLocals, TypeOK, RequestsTyped, Named,
     LocalsNamed
<1>10. ASSUME NEW t \in Threads, OpenAbandon(t)
      PROVE  base'[v] \in Sound' /\ exp'[v].seq = base'[v].seq
  BY <1>10, <1>0, <1>a DEF OpenAbandon, RecordClose, Terminate, SoundLocals, TypeOK,
     RequestsTyped, Named, LocalsNamed
<1>11. ASSUME NEW t \in Threads, OpenDrop(t)
      PROVE  base'[v] \in Sound' /\ exp'[v].seq = base'[v].seq
  BY <1>11, <1>0, <1>a DEF OpenDrop, SoundLocals, TypeOK, RequestsTyped, Named,
     LocalsNamed
<1>12. ASSUME NEW t \in Threads, NEW rec \in Addressed, ExecLoad(t, rec)
      PROVE  base'[v] \in Sound' /\ exp'[v].seq = base'[v].seq
  BY <1>12, <1>0, <1>a DEF ExecLoad, Addressed, SoundLocals, TypeOK, RequestsTyped,
     Named, LocalsNamed
<1>13. ASSUME NEW t \in Threads, ExecAdmit(t)
      PROVE  base'[v] \in Sound' /\ exp'[v].seq = base'[v].seq
  BY <1>13, <1>0, <1>a DEF ExecAdmit, SoundFiles, SoundLocals, TypeOK, RequestsTyped, Named,
     LocalsNamed
<1>14. ASSUME NEW t \in Threads, ExecSucceeds(t)
      PROVE  base'[v] \in Sound' /\ exp'[v].seq = base'[v].seq
  BY <1>14, <1>0, <1>a DEF ExecSucceeds, SoundLocals, TypeOK, RequestsTyped, Named,
     LocalsNamed
<1>15. ASSUME NEW t \in Threads, ExecTimesOut(t)
      PROVE  base'[v] \in Sound' /\ exp'[v].seq = base'[v].seq
  BY <1>15, <1>0, <1>a DEF ExecTimesOut, SoundLocals, TypeOK, RequestsTyped, Named,
     LocalsNamed
<1>16. ASSUME NEW t \in Threads, ExecHeld(t)
      PROVE  base'[v] \in Sound' /\ exp'[v].seq = base'[v].seq
  BY <1>16, <1>0, <1>a DEF ExecHeld, SoundLocals, TypeOK, RequestsTyped, Named,
     LocalsNamed
<1>17. ASSUME NEW t \in Threads, ExecFails(t)
      PROVE  base'[v] \in Sound' /\ exp'[v].seq = base'[v].seq
  BY <1>17, <1>0, <1>a DEF ExecFails, SoundLocals, TypeOK, RequestsTyped, Named,
     LocalsNamed
<1>18. ASSUME NEW t \in Threads, StatusRead(t)
      PROVE  base'[v] \in Sound' /\ exp'[v].seq = base'[v].seq
  BY <1>18, <1>0, <1>a DEF StatusRead, SoundLocals, TypeOK, RequestsTyped, Named,
     LocalsNamed
<1>19. ASSUME NEW t \in Threads, ProbeSucceeds(t)
      PROVE  base'[v] \in Sound' /\ exp'[v].seq = base'[v].seq
  BY <1>19, <1>0, <1>a DEF ProbeSucceeds, SoundLocals, TypeOK, RequestsTyped, Named,
     LocalsNamed
<1>20. ASSUME NEW t \in Threads, ProbeTimesOut(t)
      PROVE  base'[v] \in Sound' /\ exp'[v].seq = base'[v].seq
  BY <1>20, <1>0, <1>a DEF ProbeTimesOut, SoundLocals, TypeOK, RequestsTyped, Named,
     LocalsNamed
<1>21. ASSUME NEW t \in Threads, ProbeFails(t)
      PROVE  base'[v] \in Sound' /\ exp'[v].seq = base'[v].seq
  BY <1>21, <1>0, <1>a DEF ProbeFails, SoundLocals, TypeOK, RequestsTyped, Named,
     LocalsNamed
<1>22. ASSUME NEW t \in Threads, StatusMark(t)
      PROVE  base'[v] \in Sound' /\ exp'[v].seq = base'[v].seq
  BY <1>22, <1>0, <1>a DEF StatusMark, SoundLocals, TypeOK, RequestsTyped, Named,
     LocalsNamed
<1>23. ASSUME NEW t \in Threads, NEW s \in Sessions \cup {None}, CloseNothing(t, s)
      PROVE  base'[v] \in Sound' /\ exp'[v].seq = base'[v].seq
  BY <1>23, <1>0, <1>a DEF CloseNothing, SoundLocals, TypeOK, RequestsTyped, Named,
     LocalsNamed
<1>24. ASSUME NEW t \in Threads, CloseCleared(t)
      PROVE  base'[v] \in Sound' /\ exp'[v].seq = base'[v].seq
  BY <1>24, <1>0, <1>a DEF CloseCleared, SoundLocals, TypeOK, RequestsTyped, Named,
     LocalsNamed
<1>25. ASSUME NEW t \in Threads, NEW rec \in Addressed, CloseRead(t, rec)
      PROVE  base'[v] \in Sound' /\ exp'[v].seq = base'[v].seq
  BY <1>25, <1>0, <1>a DEF CloseRead, Addressed, SoundLocals, TypeOK, RequestsTyped,
     Named, LocalsNamed
<1>26. ASSUME NEW t \in Threads, CloseReleases(t)
      PROVE  base'[v] \in Sound' /\ exp'[v].seq = base'[v].seq
  BY <1>26, <1>0, <1>a DEF CloseReleases, Releasable, SoundLocals, TypeOK,
     RequestsTyped, Named, LocalsNamed
<1>27. ASSUME NEW t \in Threads, CloseRefused(t)
      PROVE  base'[v] \in Sound' /\ exp'[v].seq = base'[v].seq
  BY <1>27, <1>0, <1>a DEF CloseRefused, SoundLocals, TypeOK, RequestsTyped, Named,
     LocalsNamed
<1>28. ASSUME NEW t \in Threads, CloseTimesOut(t)
      PROVE  base'[v] \in Sound' /\ exp'[v].seq = base'[v].seq
  BY <1>28, <1>0, <1>a DEF CloseTimesOut, SoundLocals, TypeOK, RequestsTyped, Named,
     LocalsNamed
<1>29. ASSUME NEW t \in Threads, CloseUnreported(t)
      PROVE  base'[v] \in Sound' /\ exp'[v].seq = base'[v].seq
  BY <1>29, <1>0, <1>a DEF CloseUnreported, Releasable, SoundLocals, TypeOK,
     RequestsTyped, Named, LocalsNamed
<1>30. ASSUME NEW t \in Threads, CloseHeld(t)
      PROVE  base'[v] \in Sound' /\ exp'[v].seq = base'[v].seq
  BY <1>30, <1>0, <1>a DEF CloseHeld, Releasable, SoundLocals, TypeOK, RequestsTyped,
     Named, LocalsNamed
<1>31. ASSUME NEW t \in Threads, CloseRemoves(t)
      PROVE  base'[v] \in Sound' /\ exp'[v].seq = base'[v].seq
  BY <1>31, <1>0, <1>a DEF CloseRemoves, RecordClose, Terminate, SoundLocals, TypeOK,
     RequestsTyped, Named, LocalsNamed
<1>32. ASSUME NEW t \in Threads, CloseKeepsRoot(t)
      PROVE  base'[v] \in Sound' /\ exp'[v].seq = base'[v].seq
  BY <1>32, <1>0, <1>a DEF CloseKeepsRoot, SoundLocals, TypeOK, RequestsTyped, Named,
     LocalsNamed
<1>33. ASSUME NEW t \in Threads, CloseForgets(t)
      PROVE  base'[v] \in Sound' /\ exp'[v].seq = base'[v].seq
  BY <1>33, <1>0, <1>a DEF CloseForgets, SoundLocals, TypeOK, RequestsTyped, Named,
     LocalsNamed
<1>34. ASSUME NEW t \in Threads, CloseBuries(t)
      PROVE  base'[v] \in Sound' /\ exp'[v].seq = base'[v].seq
  BY <1>34, <1>0, <1>a DEF CloseBuries, SoundLocals, TypeOK, RequestsTyped, Named,
     LocalsNamed
<1>35. ASSUME NEW t \in Threads, NEW rec \in Addressed, ReconcileRead(t, rec)
      PROVE  base'[v] \in Sound' /\ exp'[v].seq = base'[v].seq
  BY <1>35, <1>0, <1>a DEF ReconcileRead, Addressed, Awaiting, Preserve, SoundLocals,
     TypeOK, RequestsTyped, Named, LocalsNamed
<1>36. ASSUME NEW t \in Threads, ReconcileAcknowledges(t)
      PROVE  base'[v] \in Sound' /\ exp'[v].seq = base'[v].seq
  BY <1>36, <1>0, <1>a DEF ReconcileAcknowledges, ReconcileClears, SoundLocals, TypeOK,
     RequestsTyped, Named, LocalsNamed
<1>37. ASSUME NEW t \in Threads, ReconcileReleases(t)
      PROVE  base'[v] \in Sound' /\ exp'[v].seq = base'[v].seq
  BY SMTT(20), <1>37, <1>0, <1>a DEF ReconcileReleases, Releasable, SoundLocals, TypeOK,
     RequestsTyped, Named, LocalsNamed
<1>38. ASSUME NEW s \in Sessions, LateDone(s)
      PROVE  base'[v] \in Sound' /\ exp'[v].seq = base'[v].seq
  BY <1>38, <1>0, <1>a DEF LateDone, SoundLocals, TypeOK, RequestsTyped, Named,
     LocalsNamed
<1>39. CASE Crash
  BY <1>39, <1>0, <1>a DEF Crash, SoundLocals, TypeOK, RequestsTyped, Named, LocalsNamed
<1>40. CASE UNCHANGED vars
  BY <1>40, <1>0, <1>a DEF SoundLocals, TypeOK, RequestsTyped, Named, LocalsNamed
<1>41. QED
  BY <1>1, <1>2, <1>3, <1>4, <1>5, <1>6, <1>7, <1>8, <1>9, <1>10, <1>11, <1>12, <1>13,
     <1>14, <1>15, <1>16, <1>17, <1>18, <1>19, <1>20, <1>21, <1>22, <1>23, <1>24, <1>25,
     <1>26, <1>27, <1>28, <1>29, <1>30, <1>31, <1>32, <1>33, <1>34, <1>35, <1>36, <1>37,
     <1>38, <1>39, <1>40 DEF Next, Save, Open, Exec, Status, Close, Reconcile

\* A request goes on with what is sound.
LEMMA SoundLocalsStep ==
    ASSUME Ground, Distinct, SoundFiles, SoundLocals, [Next]_vars
    PROVE  SoundLocals'
<1>1. ASSUME NEW v \in Threads, pc'[v] \in Bound
      PROVE  b'[v] \in Sound'
  BY <1>1, MadeSound
<1>2. ASSUME NEW v \in Threads, base'[v] # None
      PROVE  base'[v] \in Sound' /\ exp'[v].seq = base'[v].seq
  BY <1>2, BaseSound
<1>3. QED
  BY <1>1, <1>2 DEF SoundLocals

\* How a request comes to a stage.
Watched == {"projecting", "marking", "closing", "removing", "retainingClosed"}
Reaches(u) ==
    \/ pc'[u] = pc[u] /\ sid'[u] = sid[u] /\ b'[u] = b[u] /\ exp'[u] = exp[u]
    \/ pc[u] = "closing" /\ pc'[u] = "removing" /\ b'[u] = b[u] /\ CloseReleases(u)
    \/ pc[u] = "closing" /\ b'[u] = ClosedPending(b[u]) /\ CloseUnreported(u)
    \/ pc[u] = "removing" /\ b'[u] = ClosedPending(b[u]) /\ CloseKeepsRoot(u)
    \/ pc'[u] = "marking" /\ b'[u] = Stale(active) /\ StatusMark(u)
    \/ pc'[u] = "closing" /\ \E r \in Addressed : b'[u] = r /\ CloseRead(u, r)
    \/ pc'[u] = "projecting" /\ \E r \in Addressed :
          /\ b'[u] = Projection(r)
          /\ exp'[u].seq = r.seq
          /\ sid'[u] = r.sid
          /\ ReconcileRead(u, r)

\* A stage is reached in no other way.
LEMMA ReachesIs ==
    ASSUME TypeOK, NEW u \in Threads, pc'[u] \in Watched, [Next]_vars
    PROVE  Reaches(u)
<1> USE BindingAssumption DEF vars, fileVars, rtVars, localVars, histVars, Goto, Return,
   Prepare, Fault, Request, Quiet, ClearBinding
<1>1. ASSUME NEW t \in Threads, SaveConflict(t)
      PROVE  Reaches(u)
  BY <1>1 DEF SaveConflict, SaveFails, OnFailure, Reaches, Watched, TypeOK,
     RequestsTyped
<1>2. ASSUME NEW t \in Threads, SaveCheck(t) \/ SaveSession(t) \/ SaveActive(t) \/
   SaveMismatch(t) \/ SaveUndoSession(t)
      PROVE  Reaches(u)
  BY <1>2 DEF SaveCheck, SaveSession, In, SaveActive, SaveMismatch, SaveUndoSession,
     Reaches, Watched, TypeOK, RequestsTyped
<1>3. ASSUME NEW t \in Threads, SaveReadback(t)
      PROVE  Reaches(u)
  <2>1. CASE u # t
    BY <1>3, <2>1, ReadbackIs DEF Reaches, TypeOK, RequestsTyped
  <2>2. CASE u = t
    <3>1. pc'[t] \in {"idle", "abandoning", "probeAgain", "acknowledging", "releasing"}
      BY <1>3, ReadbackIs DEF TypeOK, RequestsTyped
    <3> QED BY <2>2, <3>1 DEF Watched
  <2> QED BY <2>1, <2>2
<1>4. ASSUME NEW t \in Threads, SaveUndoActive(t)
      PROVE  Reaches(u)
  BY <1>4 DEF SaveUndoActive, In, SaveFails, OnFailure, Reaches, Watched, TypeOK,
     RequestsTyped
<1>5. ASSUME NEW t \in Threads, SaveUndoFails(t)
      PROVE  Reaches(u)
  BY <1>5 DEF SaveUndoFails, In, SaveFails, OnFailure, Reaches, Watched, TypeOK,
     RequestsTyped
<1>6. ASSUME NEW t \in Threads, NEW s \in Sessions, OpenCheck(t, s)
      PROVE  Reaches(u)
  BY <1>6 DEF OpenCheck, Reaches, Watched, TypeOK, RequestsTyped
<1>7. ASSUME NEW t \in Threads, OpenRegister(t)
      PROVE  Reaches(u)
  BY <1>7 DEF OpenRegister, Reaches, Watched, TypeOK, RequestsTyped
<1>8. ASSUME NEW t \in Threads, OpenFails(t)
      PROVE  Reaches(u)
  BY <1>8 DEF OpenFails, Reaches, Watched, TypeOK, RequestsTyped
<1>9. ASSUME NEW t \in Threads, OpenStart(t)
      PROVE  Reaches(u)
  BY <1>9 DEF OpenStart, Reaches, Watched, TypeOK, RequestsTyped
<1>10. ASSUME NEW t \in Threads, OpenAbandon(t)
      PROVE  Reaches(u)
  BY <1>10 DEF OpenAbandon, RecordClose, Terminate, Reaches, Watched, TypeOK,
     RequestsTyped
<1>11. ASSUME NEW t \in Threads, OpenDrop(t)
      PROVE  Reaches(u)
  BY <1>11 DEF OpenDrop, Reaches, Watched, TypeOK, RequestsTyped
<1>12. ASSUME NEW t \in Threads, NEW rec \in Addressed, ExecLoad(t, rec)
      PROVE  Reaches(u)
  BY <1>12 DEF ExecLoad, Addressed, Reaches, Watched, TypeOK, RequestsTyped
<1>13. ASSUME NEW t \in Threads, ExecAdmit(t)
      PROVE  Reaches(u)
  BY <1>13 DEF ExecAdmit, Reaches, Watched, TypeOK, RequestsTyped
<1>14. ASSUME NEW t \in Threads, ExecSucceeds(t)
      PROVE  Reaches(u)
  BY <1>14 DEF ExecSucceeds, Reaches, Watched, TypeOK, RequestsTyped
<1>15. ASSUME NEW t \in Threads, ExecTimesOut(t)
      PROVE  Reaches(u)
  BY <1>15 DEF ExecTimesOut, Reaches, Watched, TypeOK, RequestsTyped
<1>16. ASSUME NEW t \in Threads, ExecHeld(t)
      PROVE  Reaches(u)
  BY <1>16 DEF ExecHeld, Reaches, Watched, TypeOK, RequestsTyped
<1>17. ASSUME NEW t \in Threads, ExecFails(t)
      PROVE  Reaches(u)
  BY <1>17 DEF ExecFails, Reaches, Watched, TypeOK, RequestsTyped
<1>18. ASSUME NEW t \in Threads, StatusRead(t)
      PROVE  Reaches(u)
  BY <1>18 DEF StatusRead, Reaches, Watched, TypeOK, RequestsTyped
<1>19. ASSUME NEW t \in Threads, ProbeSucceeds(t)
      PROVE  Reaches(u)
  BY <1>19 DEF ProbeSucceeds, Reaches, Watched, TypeOK, RequestsTyped
<1>20. ASSUME NEW t \in Threads, ProbeTimesOut(t)
      PROVE  Reaches(u)
  BY <1>20 DEF ProbeTimesOut, Reaches, Watched, TypeOK, RequestsTyped
<1>21. ASSUME NEW t \in Threads, ProbeFails(t)
      PROVE  Reaches(u)
  BY <1>21 DEF ProbeFails, Reaches, Watched, TypeOK, RequestsTyped
<1>22. ASSUME NEW t \in Threads, StatusMark(t)
      PROVE  Reaches(u)
  BY <1>22 DEF StatusMark, Reaches, Watched, TypeOK, RequestsTyped
<1>23. ASSUME NEW t \in Threads, NEW s \in Sessions \cup {None}, CloseNothing(t, s)
      PROVE  Reaches(u)
  BY <1>23 DEF CloseNothing, Reaches, Watched, TypeOK, RequestsTyped
<1>24. ASSUME NEW t \in Threads, CloseCleared(t)
      PROVE  Reaches(u)
  BY <1>24 DEF CloseCleared, Reaches, Watched, TypeOK, RequestsTyped
<1>25. ASSUME NEW t \in Threads, NEW rec \in Addressed, CloseRead(t, rec)
      PROVE  Reaches(u)
  BY <1>25 DEF CloseRead, Addressed, Reaches, Watched, TypeOK, RequestsTyped
<1>26. ASSUME NEW t \in Threads, CloseReleases(t)
      PROVE  Reaches(u)
  BY <1>26 DEF CloseReleases, Releasable, Reaches, Watched, TypeOK, RequestsTyped
<1>27. ASSUME NEW t \in Threads, CloseRefused(t)
      PROVE  Reaches(u)
  BY <1>27 DEF CloseRefused, Reaches, Watched, TypeOK, RequestsTyped
<1>28. ASSUME NEW t \in Threads, CloseTimesOut(t)
      PROVE  Reaches(u)
  BY <1>28 DEF CloseTimesOut, Reaches, Watched, TypeOK, RequestsTyped
<1>29. ASSUME NEW t \in Threads, CloseUnreported(t)
      PROVE  Reaches(u)
  BY <1>29 DEF CloseUnreported, Releasable, Reaches, Watched, TypeOK, RequestsTyped
<1>30. ASSUME NEW t \in Threads, CloseHeld(t)
      PROVE  Reaches(u)
  BY <1>30 DEF CloseHeld, Releasable, Reaches, Watched, TypeOK, RequestsTyped
<1>31. ASSUME NEW t \in Threads, CloseRemoves(t)
      PROVE  Reaches(u)
  BY <1>31 DEF CloseRemoves, RecordClose, Terminate, Reaches, Watched, TypeOK,
     RequestsTyped
<1>32. ASSUME NEW t \in Threads, CloseKeepsRoot(t)
      PROVE  Reaches(u)
  BY <1>32 DEF CloseKeepsRoot, Reaches, Watched, TypeOK, RequestsTyped
<1>33. ASSUME NEW t \in Threads, CloseForgets(t)
      PROVE  Reaches(u)
  BY <1>33 DEF CloseForgets, Reaches, Watched, TypeOK, RequestsTyped
<1>34. ASSUME NEW t \in Threads, CloseBuries(t)
      PROVE  Reaches(u)
  BY <1>34 DEF CloseBuries, Reaches, Watched, TypeOK, RequestsTyped
<1>35. ASSUME NEW t \in Threads, NEW rec \in Addressed, ReconcileRead(t, rec)
      PROVE  Reaches(u)
  BY <1>35 DEF ReconcileRead, Addressed, Awaiting, Preserve, Reaches, Watched, TypeOK,
     RequestsTyped
<1>36. ASSUME NEW t \in Threads, ReconcileAcknowledges(t)
      PROVE  Reaches(u)
  BY <1>36 DEF ReconcileAcknowledges, ReconcileClears, Reaches, Watched, TypeOK,
     RequestsTyped
<1>37. ASSUME NEW t \in Threads, ReconcileReleases(t)
      PROVE  Reaches(u)
  BY <1>37 DEF ReconcileReleases, Releasable, Reaches, Watched, TypeOK, RequestsTyped
<1>38. ASSUME NEW s \in Sessions, LateDone(s)
      PROVE  Reaches(u)
  BY <1>38 DEF LateDone, Reaches, Watched, TypeOK, RequestsTyped
<1>39. CASE Crash
  BY <1>39 DEF Crash, Reaches, Watched, TypeOK, RequestsTyped
<1>40. CASE UNCHANGED vars
  BY <1>40 DEF Reaches, Watched, TypeOK, RequestsTyped
<1>41. QED
  BY <1>1, <1>2, <1>3, <1>4, <1>5, <1>6, <1>7, <1>8, <1>9, <1>10, <1>11, <1>12, <1>13,
     <1>14, <1>15, <1>16, <1>17, <1>18, <1>19, <1>20, <1>21, <1>22, <1>23, <1>24, <1>25,
     <1>26, <1>27, <1>28, <1>29, <1>30, <1>31, <1>32, <1>33, <1>34, <1>35, <1>36, <1>37,
     <1>38, <1>39, <1>40 DEF Next, Save, Open, Exec, Status, Close, Reconcile

\* A runtime that let go of its session does not come back.
LEMMA DeadStays ==
    ASSUME Ground, NEW q \in Sessions, rt[q] \in {"none", "gone"},
           \A v \in Threads : OpenStart(v) => sid[v] # q, [Next]_vars
    PROVE  rt'[q] \in {"none", "gone"}
<1>0. TypeOK
  BY GroundIs
<1> USE BindingAssumption DEF vars, fileVars, rtVars, localVars, histVars, Goto, Fault,
   Request, Quiet, ClearBinding
<1>1. ASSUME NEW t \in Threads, SaveReadback(t)
      PROVE  rt'[q] \in {"none", "gone"}
  BY <1>1, <1>0 DEF SaveReadback, In, OnSuccess, Terminate, TypeOK, RuntimeTyped
<1>2. ASSUME NEW t \in Threads, OpenRegister(t)
      PROVE  rt'[q] \in {"none", "gone"}
  BY <1>2, <1>0 DEF OpenRegister, TypeOK, RuntimeTyped
<1>3. ASSUME NEW t \in Threads, OpenStart(t)
      PROVE  rt'[q] \in {"none", "gone"}
  BY <1>3, <1>0 DEF OpenStart, TypeOK, RuntimeTyped
<1>4. ASSUME NEW t \in Threads, OpenAbandon(t)
      PROVE  rt'[q] \in {"none", "gone"}
  BY <1>4, <1>0 DEF OpenAbandon, RecordClose, Terminate, TypeOK, RuntimeTyped
<1>5. ASSUME NEW t \in Threads, ExecAdmit(t)
      PROVE  rt'[q] \in {"none", "gone"}
  BY <1>5, <1>0 DEF ExecAdmit, TypeOK, RuntimeTyped
<1>6. ASSUME NEW t \in Threads, ExecTimesOut(t)
      PROVE  rt'[q] \in {"none", "gone"}
  BY <1>6, <1>0 DEF ExecTimesOut, TypeOK, RuntimeTyped
<1>7. ASSUME NEW t \in Threads, ExecHeld(t)
      PROVE  rt'[q] \in {"none", "gone"}
  BY <1>7, <1>0 DEF ExecHeld, TypeOK, RuntimeTyped
<1>8. ASSUME NEW t \in Threads, StatusRead(t)
      PROVE  rt'[q] \in {"none", "gone"}
  BY <1>8, <1>0 DEF StatusRead, TypeOK, RuntimeTyped
<1>9. ASSUME NEW t \in Threads, ProbeTimesOut(t)
      PROVE  rt'[q] \in {"none", "gone"}
  BY <1>9, <1>0 DEF ProbeTimesOut, TypeOK, RuntimeTyped
<1>10. ASSUME NEW t \in Threads, ProbeFails(t)
      PROVE  rt'[q] \in {"none", "gone"}
  BY <1>10, <1>0 DEF ProbeFails, TypeOK, RuntimeTyped
<1>11. ASSUME NEW t \in Threads, CloseReleases(t)
      PROVE  rt'[q] \in {"none", "gone"}
  BY <1>11, <1>0 DEF CloseReleases, Releasable, TypeOK, RuntimeTyped
<1>12. ASSUME NEW t \in Threads, CloseTimesOut(t)
      PROVE  rt'[q] \in {"none", "gone"}
  BY <1>12, <1>0 DEF CloseTimesOut, TypeOK, RuntimeTyped
<1>13. ASSUME NEW t \in Threads, CloseUnreported(t)
      PROVE  rt'[q] \in {"none", "gone"}
  BY <1>13, <1>0 DEF CloseUnreported, Releasable, TypeOK, RuntimeTyped
<1>14. ASSUME NEW t \in Threads, CloseHeld(t)
      PROVE  rt'[q] \in {"none", "gone"}
  BY <1>14, <1>0 DEF CloseHeld, Releasable, TypeOK, RuntimeTyped
<1>15. ASSUME NEW t \in Threads, CloseRemoves(t)
      PROVE  rt'[q] \in {"none", "gone"}
  BY <1>15, <1>0 DEF CloseRemoves, RecordClose, Terminate, TypeOK, RuntimeTyped
<1>16. ASSUME NEW t \in Threads, NEW rec \in Addressed, ReconcileRead(t, rec)
      PROVE  rt'[q] \in {"none", "gone"}
  BY <1>16, <1>0 DEF ReconcileRead, Addressed, Awaiting, Preserve, TypeOK, RuntimeTyped
<1>17. ASSUME NEW t \in Threads, ReconcileAcknowledges(t)
      PROVE  rt'[q] \in {"none", "gone"}
  BY <1>17, <1>0 DEF ReconcileAcknowledges, ReconcileClears, TypeOK, RuntimeTyped
<1>18. ASSUME NEW t \in Threads, ReconcileReleases(t)
      PROVE  rt'[q] \in {"none", "gone"}
  BY <1>18, <1>0 DEF ReconcileReleases, Releasable, TypeOK, RuntimeTyped
<1>19. ASSUME NEW s \in Sessions, LateDone(s)
      PROVE  rt'[q] \in {"none", "gone"}
  BY <1>19, <1>0 DEF LateDone, TypeOK, RuntimeTyped
<1>20. CASE Crash
  BY <1>20, <1>0 DEF Crash, TypeOK, RuntimeTyped
<1>21. CASE UNCHANGED <<rt, seq, late, lateSeq, store>>
  BY <1>21, <1>0 DEF TypeOK, RuntimeTyped
<1>22. QED
  BY <1>1, <1>2, <1>3, <1>4, <1>5, <1>6, <1>7, <1>8, <1>9, <1>10, <1>11, <1>12, <1>13,
     <1>14, <1>15, <1>16, <1>17, <1>18, <1>19, <1>20, <1>21, RuntimeSteps

\* Nobody starts a runtime for a session that another request works with.
LEMMA WorksAlone ==
    ASSUME Ground, NEW v \in Threads, pc[v] \notin Opening \cup {"closingNothing", "idle"}
    PROVE  \A u \in Threads : OpenStart(u) => sid[u] # sid[v]
<1> SUFFICES ASSUME NEW u \in Threads, OpenStart(u), sid[u] = sid[v]
             PROVE  FALSE
  OBVIOUS
<1>1. pc[u] = "starting" /\ sid[u] \in Sessions
  BY GroundIs DEF OpenStart, Named, LocalsNamed
<1>2. sid[u] \in Known
  BY <1>1 DEF Known, Works
<1>3. Publishes(u)
  BY <1>1, <1>2, GroundIs DEF Lived, PublisherAlone, Starting
<1> QED BY <1>1, <1>3, GroundIs DEF Publishes, Named, SaveNamed, Saving

\* A projection keeps its late command, and a close is of a binding that has none.
LEMMA StagesStep ==
    ASSUME Ground, SoundFiles, Stages, [Next]_vars
    PROVE  Stages'
<1>0. TypeOK /\ Named /\ SeqRuntime
  BY GroundIs
<1>1. ASSUME NEW v \in Threads, pc'[v] = "projecting"
      PROVE  b'[v].pend # 0 /\ exp'[v].seq # None /\ exp'[v].seq >= lateSeq'[sid'[v]]
  <2>1. Reaches(v)
    BY <1>0, <1>1, ReachesIs DEF Watched
  <2>2. CASE pc'[v] = pc[v] /\ sid'[v] = sid[v] /\ b'[v] = b[v] /\ exp'[v] = exp[v]
    <3>1. sid[v] \in Sessions /\ late[sid[v]] # "none"
      BY <1>0, <1>1, <2>2 DEF Named, LocalsNamed, SeqRuntime, Decided
    <3>2. lateSeq'[sid[v]] = lateSeq[sid[v]]
      BY <3>1, TimesOut DEF FirstTimeout
    <3> QED BY <1>1, <2>2, <3>2 DEF Stages
  <2>3. ASSUME NEW r \in Addressed, b'[v] = Projection(r), exp'[v].seq = r.seq,
               sid'[v] = r.sid,
               ReconcileRead(v, r)
        PROVE  b'[v].pend # 0 /\ exp'[v].seq # None /\ exp'[v].seq >= lateSeq'[sid'[v]]
    <3>1. r \in Sound /\ r \in Binding /\ r.seq \in Nat
      BY <1>0 DEF Addressed, SoundFiles, Sound, Behind, Binding
    <3>2. r.pend # 0 /\ r.pend = lateSeq[r.sid] /\ lateSeq' = lateSeq
      BY <2>3 DEF ReconcileRead, Awaiting
    <3>3. r.seq >= r.pend
      BY <3>1, <3>2 DEF Sound, Binding
    <3>4. b'[v].pend = r.pend
      BY <2>3, <3>1, EditsPend, 0 \in Nat
    <3> QED BY <2>3, <3>1, <3>2, <3>3, <3>4, BindingAssumption
  <2> QED BY <1>0, <1>1, <2>1, <2>2, <2>3 DEF Reaches, CloseUnreported, CloseKeepsRoot,
             TypeOK, RequestsTyped, Prepare, Goto
<1>2. ASSUME NEW v \in Threads,
             pc'[v] \in {"marking", "closing", "removing", "retainingClosed"}
      PROVE  b'[v].pend = 0
  <2>1. Reaches(v)
    BY <1>0, <1>2, ReachesIs DEF Watched
  <2>2. CASE b'[v] = b[v] /\ pc[v] \in {"marking", "closing", "removing", "retainingClosed"}
    BY <2>2 DEF Stages
  <2>3. CASE b'[v] = ClosedPending(b[v]) /\ pc[v] \in {"closing", "removing"}
    <3>1. b[v] \in Binding /\ b[v].pend = 0
      BY <1>0, <2>3 DEF Stages, TypeOK, RequestsTyped, Named, LocalsNamed, Bound
    <3> QED BY <2>3, <3>1, EditsPend, 0 \in Nat
  <2>4. CASE pc'[v] = "marking" /\ b'[v] = Stale(active) /\ StatusMark(v)
    <3>1. active \in Binding /\ active.pend = 0
      BY <1>0, <2>4 DEF StatusMark, Return, Goto, TypeOK, FilesTyped, RequestsTyped
    <3> QED BY <2>4, <3>1, EditsPend, 0 \in Nat
  <2>5. ASSUME NEW r \in Addressed, b'[v] = r, CloseRead(v, r)
        PROVE  b'[v].pend = 0
    BY <2>5 DEF CloseRead
  <2> QED BY <1>2, <2>1, <2>2, <2>3, <2>4, <2>5 DEF Reaches
<1>3. ASSUME NEW v \in Threads, pc'[v] = "removing"
      PROVE  rt'[sid'[v]] \in {"none", "gone"}
  <2>1. Reaches(v)
    BY <1>0, <1>3, ReachesIs DEF Watched
  <2>2. CASE pc[v] = "removing" /\ sid'[v] = sid[v]
    <3>1. sid[v] \in Sessions /\ rt[sid[v]] \in {"none", "gone"}
      BY <1>0, <2>2 DEF Named, LocalsNamed, Stages
    <3>2. \A u \in Threads : OpenStart(u) => sid[u] # sid[v]
      BY <2>2, WorksAlone DEF Opening, Starting, Publishing
    <3> QED BY <2>2, <3>1, <3>2, DeadStays
  <2>3. CASE CloseReleases(v) /\ pc[v] = "closing"
    BY <1>0, <2>3 DEF CloseReleases, Named, LocalsNamed, TypeOK, RuntimeTyped
  <2> QED BY <1>0, <1>3, <2>1, <2>2, <2>3 DEF Reaches, CloseUnreported, CloseKeepsRoot,
             Prepare, Goto, TypeOK, RequestsTyped
<1>4. QED
  BY <1>1, <1>2, <1>3 DEF Stages

-----------------------------------------------------------------------------
\* With no save in progress two projections of one generation are the same, and a save
\* is against what it found; a projecting one names the late command.
Split ==
    txn = None /\ active # None /\ sess[active.sid] # None =>
        (sess[active.sid].gen = active.gen => sess[active.sid] = active)
Against ==
    txn # None =>
        /\ txn.wasSess # None => txn.new.gen = txn.wasSess.gen + 1
        /\ txn.wasActive # None => txn.new.gen = txn.wasActive.gen + 1
        /\ txn.wasSess # None /\ txn.wasActive # None => txn.wasSess = txn.wasActive
        /\ pc[txn.by] = "projecting" => txn.new.pend # 0

\* A reconciliation holds the lock for the whole of its projecting save.
LEMMA SaverStays ==
    ASSUME TypeOK, Named, txn # None, txn' # None, txn'.by = txn.by, [Next]_vars
    PROVE  pc'[txn.by] = "projecting" <=> pc[txn.by] = "projecting"
<1>1. txn.by \in Threads /\ pc[txn.by] \in Saving /\ pc'[txn.by] \in Saving
  BY ShapeStep DEF Named, SaveNamed, TypeOK, FilesTyped, Transaction
<1>2. Moves(txn.by)
  BY <1>1, RequestMoves
<1> QED BY <1>1, <1>2 DEF Moves, Follows, Saving, Arrived, Publishing

\* A save in progress is the one there was, or one that was just admitted.
Carried ==
    /\ txn # None /\ txn'.by = txn.by /\ txn'.new = txn.new
    /\ txn'.wasSess = txn.wasSess /\ txn'.wasActive = txn.wasActive
Started(t) ==
    /\ txn = None /\ SaveCheck(t) /\ txn'.by = t /\ txn'.new = Payload(t)
    /\ txn'.wasSess = sess[sid[t]] /\ txn'.wasActive = active

\* A save holds the lock to its end.
LEMMA SaveGoesOn ==
    ASSUME TypeOK, Named, txn' # None, [Next]_vars
    PROVE  Carried \/ \E u \in Threads : Started(u)
<1> USE BindingAssumption DEF vars, fileVars, rtVars, localVars, histVars, Goto, Fault,
   Request, Quiet, ClearBinding
<1>1. ASSUME NEW t \in Threads, SaveCheck(t)
      PROVE  Carried \/ \E u \in Threads : Started(u)
  <2>1. Started(t)
    BY <1>1 DEF SaveCheck, Started
  <2> QED BY <2>1
<1>2. ASSUME NEW t \in Threads, SaveSession(t) \/ SaveActive(t) \/ SaveMismatch(t) \/
   SaveUndoSession(t)
      PROVE  Carried \/ \E u \in Threads : Started(u)
  BY <1>2, SaveMoves DEF Carried
<1>3. ASSUME NEW t \in Threads, SaveReadback(t)
      PROVE  Carried \/ \E u \in Threads : Started(u)
  BY <1>3 DEF SaveReadback, In, OnSuccess, Terminate, Carried
<1>4. ASSUME NEW t \in Threads, SaveUndoActive(t)
      PROVE  Carried \/ \E u \in Threads : Started(u)
  BY <1>4 DEF SaveUndoActive, In, SaveFails, OnFailure, Carried
<1>5. ASSUME NEW t \in Threads, SaveUndoFails(t)
      PROVE  Carried \/ \E u \in Threads : Started(u)
  BY <1>5 DEF SaveUndoFails, In, SaveFails, OnFailure, Carried
<1>6. ASSUME NEW t \in Threads, NEW s \in Sessions, OpenCheck(t, s)
      PROVE  Carried \/ \E u \in Threads : Started(u)
  BY <1>6 DEF OpenCheck, Carried
<1>7. ASSUME NEW t \in Threads, OpenAbandon(t)
      PROVE  Carried \/ \E u \in Threads : Started(u)
  BY <1>7 DEF OpenAbandon, RecordClose, Terminate, Carried
<1>8. ASSUME NEW t \in Threads, OpenDrop(t)
      PROVE  Carried \/ \E u \in Threads : Started(u)
  BY <1>8 DEF OpenDrop, Carried
<1>9. ASSUME NEW t \in Threads, CloseCleared(t)
      PROVE  Carried \/ \E u \in Threads : Started(u)
  BY <1>9 DEF CloseCleared, Carried
<1>10. ASSUME NEW t \in Threads, CloseRemoves(t)
      PROVE  Carried \/ \E u \in Threads : Started(u)
  BY <1>10 DEF CloseRemoves, RecordClose, Terminate, Carried
<1>11. ASSUME NEW t \in Threads, CloseForgets(t)
      PROVE  Carried \/ \E u \in Threads : Started(u)
  BY <1>11 DEF CloseForgets, Carried
<1>12. ASSUME NEW t \in Threads, CloseBuries(t)
      PROVE  Carried \/ \E u \in Threads : Started(u)
  BY <1>12 DEF CloseBuries, Carried
<1>13. CASE Crash
  BY <1>13 DEF Crash, Carried
<1>14. CASE UNCHANGED <<sess, active, root, txn, commit, torn, closed>>
  BY <1>14 DEF Carried
<1>15. QED
  BY <1>1, <1>2, <1>3, <1>4, <1>5, <1>6, <1>7, <1>8, <1>9, <1>10, <1>11, <1>12, <1>13,
     <1>14, FileSteps

\* A save is against the one record both projections held.
LEMMA AgainstStep ==
    ASSUME Ground, Stages, Split, Against, [Next]_vars
    PROVE  Against'
<1>0. TypeOK /\ Named /\ Gens
  BY GroundIs
<1> SUFFICES ASSUME txn' # None
             PROVE  Against'
  BY DEF Against
<1>1. CASE Carried
  <2>1. pc'[txn.by] = "projecting" <=> pc[txn.by] = "projecting"
    BY <1>0, <1>1, SaverStays DEF Carried
  <2> QED BY <1>1, <2>1 DEF Against, Carried
<1>2. ASSUME NEW t \in Threads, Started(t)
      PROVE  Against'
  <2>1. pc[t] \in Saving /\ ~SaveRefused(t) /\ txn = None /\ pc' = pc
    BY <1>2 DEF Started, SaveCheck
  <2>2. /\ sess[sid[t]] # None => Payload(t).gen = sess[sid[t]].gen + 1
        /\ active # None => active.sid = sid[t] /\ Payload(t).gen = active.gen + 1
        /\ Payload(t).pend = b[t].pend \/ base[t] # None
    BY <1>0, <2>1, PayloadIs
  <2>3. pc[t] = "projecting" => base[t] = None /\ b[t].pend # 0
    BY <1>0 DEF Named, LocalsNamed, Stages
  <2>4. active # None /\ sess[sid[t]] # None => sess[sid[t]] = active
    <3> SUFFICES ASSUME active # None, sess[sid[t]] # None
                 PROVE  sess[sid[t]] = active
      OBVIOUS
    <3>1. sid[t] \in Sessions /\ active.sid = sid[t]
      BY <1>0, <2>1, <2>2 DEF Named, LocalsNamed, Saving
    <3>2. active.gen \in Nat /\ sess[sid[t]].gen \in Nat
      BY <1>0, <3>1 DEF TypeOK, FilesTyped, Binding
    <3>3. sess[sid[t]].gen = active.gen
      BY <2>2, <3>2
    <3> QED BY <2>1, <3>1, <3>3 DEF Split
  <2>5. /\ txn'.by = t /\ txn'.new = Payload(t)
        /\ txn'.wasSess = sess[sid[t]] /\ txn'.wasActive = active
    BY <1>2 DEF Started
  <2> QED BY <2>1, <2>2, <2>3, <2>4, <2>5 DEF Against
<1> QED BY <1>0, <1>1, <1>2, SaveGoesOn

\* What a save leaves, however far it came, keeps the projections of one generation one.
LEMMA LeftSplit ==
    ASSUME TypeOK, Named, Progress, Against, txn # None, active # None,
           sess[active.sid] # None, sess[active.sid].gen = active.gen
    PROVE  sess[active.sid] = active
<1> DEFINE s == txn.new.sid
<1>1. /\ txn \in Transaction /\ txn.new \in Binding /\ s \in Sessions
      /\ txn.wasSess # None => txn.wasSess \in Binding
      /\ txn.wasActive # None => txn.wasActive \in Binding /\ txn.wasActive.sid = s
      /\ txn.step \in {"session", "active", "readback", "undoSession", "undoActive"}
  BY DEF TypeOK, FilesTyped, Transaction, Step, Binding, Named, SaveNamed, Of
<1>2. sess[s] \in {txn.wasSess, txn.new, None} /\ active \in {txn.wasActive, txn.new}
  BY <1>1 DEF Progress
<1>3. active.sid = s
  BY <1>1, <1>2
<1>4. /\ txn.new.gen \in Nat
      /\ txn.wasSess # None => txn.wasSess.gen \in Nat
      /\ txn.wasActive # None => txn.wasActive.gen \in Nat
  BY <1>1 DEF Binding
<1> QED BY <1>2, <1>3, <1>4 DEF Against

\* A save that ends leaves the projections whole, or tells them apart.
LEMMA SplitStep ==
    ASSUME TypeOK, Named, Progress, Split, Against, [Next]_vars
    PROVE  Split'
<1> USE BindingAssumption DEF vars, fileVars, rtVars, localVars, histVars, Goto, Fault,
   Request, Quiet, ClearBinding
<1>1. ASSUME NEW t \in Threads, SaveCheck(t)
      PROVE  Split'
  BY <1>1 DEF SaveCheck, Split
<1>2. ASSUME NEW t \in Threads, SaveSession(t) \/ SaveActive(t) \/ SaveMismatch(t) \/
   SaveUndoSession(t)
      PROVE  Split'
  BY <1>2, SaveMoves DEF Split
<1>3. ASSUME NEW t \in Threads, SaveReadback(t)
      PROVE  Split'
  BY <1>3 DEF SaveReadback, In, Split, Named, SaveNamed
<1>4. ASSUME NEW t \in Threads, SaveUndoActive(t)
      PROVE  Split'
  <2>1. /\ txn \in Transaction /\ txn # None /\ active' = txn.wasActive /\ sess' = sess
        /\ sess[txn.new.sid] \in {txn.wasSess, None} /\ Of(txn.wasActive, txn.new.sid)
    BY <1>4 DEF SaveUndoActive, In, Progress, Named, SaveNamed, TypeOK, FilesTyped
  <2> QED BY <2>1 DEF Split, Against, Of
<1>5. ASSUME NEW t \in Threads, SaveUndoFails(t)
      PROVE  Split'
  BY <1>5, LeftSplit DEF SaveUndoFails, In, Split
<1>6. ASSUME NEW t \in Threads, NEW s \in Sessions, OpenCheck(t, s)
      PROVE  Split'
  BY <1>6 DEF OpenCheck, Split, TypeOK, FilesTyped, Binding
<1>7. ASSUME NEW t \in Threads, OpenAbandon(t)
      PROVE  Split'
  BY <1>7 DEF OpenAbandon, RecordClose, Terminate, Split, TypeOK, FilesTyped, Binding
<1>8. ASSUME NEW t \in Threads, OpenDrop(t)
      PROVE  Split'
  BY <1>8 DEF OpenDrop, Split, TypeOK, FilesTyped, Binding
<1>9. ASSUME NEW t \in Threads, CloseCleared(t)
      PROVE  Split'
  BY <1>9 DEF CloseCleared, Split, TypeOK, FilesTyped, Binding
<1>10. ASSUME NEW t \in Threads, CloseRemoves(t)
      PROVE  Split'
  BY <1>10 DEF CloseRemoves, RecordClose, Terminate, Split, TypeOK, FilesTyped, Binding
<1>11. ASSUME NEW t \in Threads, CloseForgets(t)
      PROVE  Split'
  BY <1>11 DEF CloseForgets, Split, TypeOK, FilesTyped, Binding
<1>12. ASSUME NEW t \in Threads, CloseBuries(t)
      PROVE  Split'
  BY <1>12 DEF CloseBuries, Split, TypeOK, FilesTyped, Binding
<1>13. CASE Crash
  BY <1>13, LeftSplit DEF Crash, Split
<1>14. CASE UNCHANGED <<sess, active, root, txn, commit, torn, closed>>
  BY <1>14 DEF Split, TypeOK, FilesTyped, Binding
<1>15. QED
  BY <1>1, <1>2, <1>3, <1>4, <1>5, <1>6, <1>7, <1>8, <1>9, <1>10, <1>11, <1>12, <1>13,
     <1>14, FileSteps

-----------------------------------------------------------------------------
\* A late result is owed while the committed binding names its command as pending and
\* it is not acknowledged; every record of the session then names that command.
Owed == {s \in Sessions : commit[s] # None /\ commit[s].pend # 0 /\ s \in Unacknowledged}
Names(r, s) == r # None /\ r.sid = s => r.pend # 0
OwingAt(s) ==
    s \in Owed =>
        /\ s \in root /\ Names(sess[s], s) /\ Names(active, s)
        /\ txn # None /\ txn.new.sid = s =>
              txn.new.pend # 0 /\ Names(txn.wasSess, s) /\ Names(txn.wasActive, s)
Owing == \A s \in Sessions : OwingAt(s)
AckOwed ==
    \A t \in Threads :
        pc[t] = "acknowledging" /\ sid[t] \in Unacknowledged => sid[t] \in Owed

\* After a restart nobody runs the late command any more.
Stranded == {s \in Unacknowledged : rt[s] = "none"}
Restarted == {"rereading", "marking", "closing", "removing", "retainingClosed", "forgetting",
              "burying", "projecting", "acknowledging", "closingNothing"}
\* What is left of such a session can only be reconciled, or no longer saved at all.
Stuck(s) ==
    \/ sess[s] = None
    \/ sess[s].pend = 0
    \/ active # None /\ active.sid = s /\ active.pend = 0
StrandedAt(s) ==
    s \in Stranded =>
        /\ \A t \in Threads : sid[t] = s => pc[t] \in Restarted
        /\ txn # None /\ txn.new.sid = s =>
              /\ pc[txn.by] = "projecting" /\ txn.new.pend # 0
              /\ Names(txn.wasSess, s) /\ Names(txn.wasActive, s)
        /\ (\E t \in Threads : sid[t] = s /\ pc[t] \in {"closing", "removing"}) =>
              Stuck(s) /\ (txn = None \/ txn.new.sid # s) /\ s \notin Owed
        /\ ~Names(active, s) => \A t \in Threads : pc[t] = "closingNothing" => sid[t] # None
StrandedOK == \A s \in Sessions : StrandedAt(s)

Base == Ground /\ Truthful /\ Split /\ Against
\* The conjuncts the following proofs use.
LEMMA BaseIs ==
    ASSUME Base
    PROVE  /\ Ground /\ SoundFiles /\ SoundLocals /\ Stages /\ Split /\ Against
           /\ TypeOK /\ Named /\ Progress /\ Gens /\ Lived
           /\ SeqFiles /\ SeqLocals /\ SeqRuntime /\ Quarantine
BY GroundIs DEF Base, Truthful

\* A session becomes unacknowledged only when its first command times out.
LEMMA UnackFrom ==
    ASSUME Base, NEW q \in Unacknowledged', q \notin Unacknowledged, [Next]_vars
    PROVE  late[q] = "none"
BY BaseIs, TimesOut DEF FirstTimeout, Unacknowledged

\* A late result becomes owed by a commit.
LEMMA OwedFrom ==
    ASSUME Base, NEW q \in Owed', [Next]_vars
    PROVE  q \in Owed \/ (commit'[q] # commit[q] /\ commit'[q].pend # 0)
<1> SUFFICES ASSUME commit'[q] = commit[q]
             PROVE  q \in Owed
  BY DEF Owed
<1>1. q \in Sessions /\ commit[q] \in Sound /\ commit[q].pend # 0 /\ commit[q].sid = q
  BY BaseIs DEF Owed, SoundFiles, Named, FilesNamed, Of
<1>2. late[q] # "none"
  BY <1>1 DEF Sound
<1>3. q \in Unacknowledged
  BY <1>2, UnackFrom DEF Owed
<1> QED BY <1>1, <1>3, BaseIs, BindingAssumption DEF Owed

\* What a reconciliation or anything else saves for an owed late result names it.
LEMMA OwedSave ==
    ASSUME Base, NEW t \in Threads, SaveCheck(t), OwingAt(sid[t]), sid[t] \in Owed
    PROVE  Payload(t).pend # 0
BY BaseIs, PayloadSound DEF OwingAt, Owed

\* A commit is what the save that returns left in both projections.
Committed(q) ==
    /\ txn # None /\ txn.new.sid = q /\ txn' = None /\ commit'[q] = txn.new
    /\ sess'[q] = txn.new /\ active' = txn.new /\ q \in root'

\* Only the save that returns commits.
LEMMA CommitLeaves ==
    ASSUME TypeOK, Named, NEW q \in Sessions, commit'[q] # commit[q], [Next]_vars
    PROVE  Committed(q)
<1> USE BindingAssumption DEF vars, fileVars, rtVars, localVars, histVars, Goto, Fault,
   Request, Quiet, ClearBinding
<1>1. ASSUME NEW t \in Threads, SaveCheck(t)
      PROVE  Committed(q)
  BY <1>1 DEF SaveCheck, TypeOK, FilesTyped
<1>2. ASSUME NEW t \in Threads, SaveSession(t) \/ SaveActive(t) \/ SaveMismatch(t) \/
   SaveUndoSession(t)
      PROVE  Committed(q)
  BY <1>2, SaveMoves
<1>3. ASSUME NEW t \in Threads, SaveReadback(t)
      PROVE  Committed(q)
  <2>1. /\ txn \in Transaction
        /\ txn # None
        /\ sid[t] = txn.new.sid
        /\ txn.new.sid \in Sessions
        /\ txn.new # None
    BY <1>3 DEF SaveReadback, In, TypeOK, FilesTyped, Named, SaveNamed, Transaction, Binding
  <2>2. q = sid[t] /\ commit'[q] = txn.new
    BY <1>3, <2>1 DEF SaveReadback, TypeOK, FilesTyped
  <2> QED BY <1>3, <2>1, <2>2 DEF SaveReadback, In, Committed, Named, FilesNamed
<1>4. ASSUME NEW t \in Threads, SaveUndoActive(t)
      PROVE  Committed(q)
  BY <1>4 DEF SaveUndoActive, In, SaveFails, OnFailure, TypeOK, FilesTyped
<1>5. ASSUME NEW t \in Threads, SaveUndoFails(t)
      PROVE  Committed(q)
  BY <1>5 DEF SaveUndoFails, In, SaveFails, OnFailure, TypeOK, FilesTyped
<1>6. ASSUME NEW t \in Threads, NEW s \in Sessions, OpenCheck(t, s)
      PROVE  Committed(q)
  BY <1>6 DEF OpenCheck, TypeOK, FilesTyped
<1>7. ASSUME NEW t \in Threads, OpenAbandon(t)
      PROVE  Committed(q)
  BY <1>7 DEF OpenAbandon, RecordClose, Terminate, TypeOK, FilesTyped
<1>8. ASSUME NEW t \in Threads, OpenDrop(t)
      PROVE  Committed(q)
  BY <1>8 DEF OpenDrop, TypeOK, FilesTyped
<1>9. ASSUME NEW t \in Threads, CloseCleared(t)
      PROVE  Committed(q)
  BY <1>9 DEF CloseCleared, TypeOK, FilesTyped
<1>10. ASSUME NEW t \in Threads, CloseRemoves(t)
      PROVE  Committed(q)
  BY <1>10 DEF CloseRemoves, RecordClose, Terminate, TypeOK, FilesTyped
<1>11. ASSUME NEW t \in Threads, CloseForgets(t)
      PROVE  Committed(q)
  BY <1>11 DEF CloseForgets, TypeOK, FilesTyped
<1>12. ASSUME NEW t \in Threads, CloseBuries(t)
      PROVE  Committed(q)
  BY <1>12 DEF CloseBuries, TypeOK, FilesTyped
<1>13. CASE Crash
  BY <1>13 DEF Crash, TypeOK, FilesTyped
<1>14. CASE UNCHANGED <<sess, active, root, txn, commit, torn, closed>>
  BY <1>14 DEF TypeOK, FilesTyped
<1>15. QED
  BY <1>1, <1>2, <1>3, <1>4, <1>5, <1>6, <1>7, <1>8, <1>9, <1>10, <1>11, <1>12, <1>13,
     <1>14, FileSteps

\* What an owed late result keeps.
KeepsOwed(q) ==
    /\ q \in root' /\ Names(sess'[q], q) /\ Names(active', q)
    /\ txn' # None /\ txn'.new.sid = q =>
          txn'.new.pend # 0 /\ Names(txn'.wasSess, q) /\ Names(txn'.wasActive, q)

\* Nothing removes or overwrites what is owed.
LEMMA OwedKeeps ==
    ASSUME Base, NEW q \in Sessions, q \in Owed, OwingAt(q), StrandedAt(q), [Next]_vars
    PROVE  KeepsOwed(q)
<1>0. TypeOK /\ Named /\ Stages
  BY BaseIs
<1>o. /\ q \in root /\ Names(sess[q], q) /\ Names(active, q)
      /\ txn # None /\ txn.new.sid = q =>
            txn.new.pend # 0 /\ Names(txn.wasSess, q) /\ Names(txn.wasActive, q)
  BY DEF OwingAt
<1>r. /\ rt[q] \in {"quarantined", "none"} /\ (rt[q] = "none" => q \in Stranded)
  BY BaseIs DEF Owed, Stranded, Unacknowledged, Quarantine
<1> USE BindingAssumption DEF vars, fileVars, rtVars, localVars, histVars, Goto, Fault,
   Request, Quiet, ClearBinding
<1>1. ASSUME NEW t \in Threads, SaveCheck(t)
      PROVE  KeepsOwed(q)
  <2>1. txn' # None /\ txn'.new.sid = q => sid[t] = q
    BY <1>1, <1>0, PayloadIs DEF SaveCheck
  <2>2. txn' # None /\ txn'.new.sid = q => Payload(t).pend # 0
    BY <1>1, <2>1, OwedSave
  <2> QED BY <1>1, <1>o, <2>1, <2>2 DEF SaveCheck, KeepsOwed
<1>2. ASSUME NEW t \in Threads, SaveSession(t) \/ SaveActive(t) \/ SaveMismatch(t) \/
   SaveUndoSession(t)
      PROVE  KeepsOwed(q)
  BY <1>2, <1>0, <1>o, SaveMoves DEF KeepsOwed, TypeOK, FilesTyped, Names
<1>3. ASSUME NEW t \in Threads, SaveReadback(t)
      PROVE  KeepsOwed(q)
  BY <1>3, <1>0, <1>o DEF SaveReadback, In, OnSuccess, Terminate, KeepsOwed, TypeOK,
     FilesTyped
<1>4. ASSUME NEW t \in Threads, SaveUndoActive(t)
      PROVE  KeepsOwed(q)
  <2>1. /\ txn # None
        /\ txn' = None
        /\ active' = txn.wasActive
        /\ Of(txn.wasActive, txn.new.sid)
        /\ UNCHANGED <<sess, root>>
    BY <1>4, <1>0 DEF SaveUndoActive, In, Named, SaveNamed
  <2> QED BY <1>o, <2>1 DEF KeepsOwed, Names, Of
<1>5. ASSUME NEW t \in Threads, SaveUndoFails(t)
      PROVE  KeepsOwed(q)
  BY <1>5, <1>0, <1>o DEF SaveUndoFails, In, SaveFails, OnFailure, KeepsOwed, TypeOK,
     FilesTyped
<1>6. ASSUME NEW t \in Threads, NEW s \in Sessions, OpenCheck(t, s)
      PROVE  KeepsOwed(q)
  BY <1>6, <1>0, <1>o DEF OpenCheck, KeepsOwed, TypeOK, FilesTyped
<1>7. ASSUME NEW t \in Threads, OpenAbandon(t)
      PROVE  KeepsOwed(q)
  <2>1. sid[t] = q => rt[q] # "none"
    BY <1>7, <1>r DEF OpenAbandon, StrandedAt, Restarted
  <2> QED BY <1>7, <1>0, <1>o, <1>r, <2>1 DEF OpenAbandon, KeepsOwed, TypeOK, FilesTyped,
             Names
<1>8. ASSUME NEW t \in Threads, OpenDrop(t)
      PROVE  KeepsOwed(q)
  BY <1>8, <1>0, <1>o DEF OpenDrop, Names, KeepsOwed, TypeOK, FilesTyped
<1>9. ASSUME NEW t \in Threads, CloseCleared(t)
      PROVE  KeepsOwed(q)
  BY <1>9, <1>0, <1>o DEF CloseCleared, Names, KeepsOwed, TypeOK, FilesTyped
<1>10. ASSUME NEW t \in Threads, CloseRemoves(t)
      PROVE  KeepsOwed(q)
  <2>1. sid[t] # q
    BY <1>10, <1>0, <1>r DEF CloseRemoves, StrandedAt, Stages
  <2> QED BY <1>10, <1>0, <1>o, <2>1 DEF CloseRemoves, KeepsOwed, TypeOK, FilesTyped
<1>11. ASSUME NEW t \in Threads, CloseForgets(t)
      PROVE  KeepsOwed(q)
  BY <1>11, <1>0, <1>o DEF CloseForgets, Names, KeepsOwed, TypeOK, FilesTyped
<1>12. ASSUME NEW t \in Threads, CloseBuries(t)
      PROVE  KeepsOwed(q)
  BY <1>12, <1>0, <1>o DEF CloseBuries, KeepsOwed, TypeOK, FilesTyped
<1>13. CASE Crash
  BY <1>13, <1>0, <1>o DEF Crash, KeepsOwed, TypeOK, FilesTyped
<1>14. CASE UNCHANGED <<sess, active, root, txn, commit, torn, closed>>
  BY <1>14, <1>0, <1>o DEF KeepsOwed, TypeOK, FilesTyped
<1>15. QED
  BY <1>1, <1>2, <1>3, <1>4, <1>5, <1>6, <1>7, <1>8, <1>9, <1>10, <1>11, <1>12, <1>13,
     <1>14, FileSteps

\* A late result stays owed, and nothing that names its session forgets it.
LEMMA OwingStep ==
    ASSUME Base, Owing, StrandedOK, [Next]_vars
    PROVE  Owing'
<1> SUFFICES ASSUME NEW q \in Sessions, q \in Owed'
             PROVE  KeepsOwed(q)
  BY DEF Owing, OwingAt, KeepsOwed
<1>1. CASE commit'[q] # commit[q]
  <2>1. Committed(q)
    BY <1>1, BaseIs, CommitLeaves
  <2> QED BY <2>1 DEF Committed, KeepsOwed, Names, Owed
<1>2. CASE commit'[q] = commit[q]
  BY <1>2, OwedFrom, OwedKeeps DEF Owing, StrandedOK
<1> QED BY <1>1, <1>2

\* A reconciliation acknowledges once its projection is saved.
AckReached(u) ==
    \/ pc[u] = "acknowledging" /\ sid'[u] = sid[u]
    \/ pc[u] = "projecting" /\ sid'[u] = sid[u] /\ SaveReadback(u)

\* A result is acknowledged after its projection alone.
LEMMA AckFrom ==
    ASSUME TypeOK, NEW u \in Threads, pc'[u] = "acknowledging", [Next]_vars
    PROVE  AckReached(u)
<1> USE BindingAssumption DEF vars, fileVars, rtVars, localVars, histVars, Goto, Return,
   Prepare, Fault, Request, Quiet, ClearBinding
<1>1. ASSUME NEW t \in Threads, SaveConflict(t)
      PROVE  AckReached(u)
  BY <1>1 DEF SaveConflict, SaveFails, OnFailure, AckReached, TypeOK, RequestsTyped
<1>2. ASSUME NEW t \in Threads, SaveCheck(t) \/ SaveSession(t) \/ SaveActive(t) \/
   SaveMismatch(t) \/ SaveUndoSession(t)
      PROVE  AckReached(u)
  BY <1>2 DEF SaveCheck, SaveSession, In, SaveActive, SaveMismatch, SaveUndoSession,
     AckReached, TypeOK, RequestsTyped
<1>3. ASSUME NEW t \in Threads, SaveReadback(t)
      PROVE  AckReached(u)
  <2>1. CASE u # t
    BY <1>3, <2>1, ReadbackIs DEF AckReached, TypeOK, RequestsTyped
  <2>2. CASE u = t
    BY <1>3, <2>2, ReadbackIs DEF AckReached, TypeOK, RequestsTyped
  <2> QED BY <2>1, <2>2
<1>4. ASSUME NEW t \in Threads, SaveUndoActive(t)
      PROVE  AckReached(u)
  BY <1>4 DEF SaveUndoActive, In, SaveFails, OnFailure, AckReached, TypeOK,
     RequestsTyped
<1>5. ASSUME NEW t \in Threads, SaveUndoFails(t)
      PROVE  AckReached(u)
  BY <1>5 DEF SaveUndoFails, In, SaveFails, OnFailure, AckReached, TypeOK, RequestsTyped
<1>6. ASSUME NEW t \in Threads, NEW s \in Sessions, OpenCheck(t, s)
      PROVE  AckReached(u)
  BY <1>6 DEF OpenCheck, AckReached, TypeOK, RequestsTyped
<1>7. ASSUME NEW t \in Threads, OpenRegister(t)
      PROVE  AckReached(u)
  BY <1>7 DEF OpenRegister, AckReached, TypeOK, RequestsTyped
<1>8. ASSUME NEW t \in Threads, OpenFails(t)
      PROVE  AckReached(u)
  BY <1>8 DEF OpenFails, AckReached, TypeOK, RequestsTyped
<1>9. ASSUME NEW t \in Threads, OpenStart(t)
      PROVE  AckReached(u)
  BY <1>9 DEF OpenStart, AckReached, TypeOK, RequestsTyped
<1>10. ASSUME NEW t \in Threads, OpenAbandon(t)
      PROVE  AckReached(u)
  BY <1>10 DEF OpenAbandon, RecordClose, Terminate, AckReached, TypeOK, RequestsTyped
<1>11. ASSUME NEW t \in Threads, OpenDrop(t)
      PROVE  AckReached(u)
  BY <1>11 DEF OpenDrop, AckReached, TypeOK, RequestsTyped
<1>12. ASSUME NEW t \in Threads, NEW rec \in Addressed, ExecLoad(t, rec)
      PROVE  AckReached(u)
  BY <1>12 DEF ExecLoad, Addressed, AckReached, TypeOK, RequestsTyped
<1>13. ASSUME NEW t \in Threads, ExecAdmit(t)
      PROVE  AckReached(u)
  BY <1>13 DEF ExecAdmit, AckReached, TypeOK, RequestsTyped
<1>14. ASSUME NEW t \in Threads, ExecSucceeds(t)
      PROVE  AckReached(u)
  BY <1>14 DEF ExecSucceeds, AckReached, TypeOK, RequestsTyped
<1>15. ASSUME NEW t \in Threads, ExecTimesOut(t)
      PROVE  AckReached(u)
  BY <1>15 DEF ExecTimesOut, AckReached, TypeOK, RequestsTyped
<1>16. ASSUME NEW t \in Threads, ExecHeld(t)
      PROVE  AckReached(u)
  BY <1>16 DEF ExecHeld, AckReached, TypeOK, RequestsTyped
<1>17. ASSUME NEW t \in Threads, ExecFails(t)
      PROVE  AckReached(u)
  BY <1>17 DEF ExecFails, AckReached, TypeOK, RequestsTyped
<1>18. ASSUME NEW t \in Threads, StatusRead(t)
      PROVE  AckReached(u)
  BY <1>18 DEF StatusRead, AckReached, TypeOK, RequestsTyped
<1>19. ASSUME NEW t \in Threads, ProbeSucceeds(t)
      PROVE  AckReached(u)
  BY <1>19 DEF ProbeSucceeds, AckReached, TypeOK, RequestsTyped
<1>20. ASSUME NEW t \in Threads, ProbeTimesOut(t)
      PROVE  AckReached(u)
  BY <1>20 DEF ProbeTimesOut, AckReached, TypeOK, RequestsTyped
<1>21. ASSUME NEW t \in Threads, ProbeFails(t)
      PROVE  AckReached(u)
  BY <1>21 DEF ProbeFails, AckReached, TypeOK, RequestsTyped
<1>22. ASSUME NEW t \in Threads, StatusMark(t)
      PROVE  AckReached(u)
  BY <1>22 DEF StatusMark, AckReached, TypeOK, RequestsTyped
<1>23. ASSUME NEW t \in Threads, NEW s \in Sessions \cup {None}, CloseNothing(t, s)
      PROVE  AckReached(u)
  BY <1>23 DEF CloseNothing, AckReached, TypeOK, RequestsTyped
<1>24. ASSUME NEW t \in Threads, CloseCleared(t)
      PROVE  AckReached(u)
  BY <1>24 DEF CloseCleared, AckReached, TypeOK, RequestsTyped
<1>25. ASSUME NEW t \in Threads, NEW rec \in Addressed, CloseRead(t, rec)
      PROVE  AckReached(u)
  BY <1>25 DEF CloseRead, Addressed, AckReached, TypeOK, RequestsTyped
<1>26. ASSUME NEW t \in Threads, CloseReleases(t)
      PROVE  AckReached(u)
  BY <1>26 DEF CloseReleases, Releasable, AckReached, TypeOK, RequestsTyped
<1>27. ASSUME NEW t \in Threads, CloseRefused(t)
      PROVE  AckReached(u)
  BY <1>27 DEF CloseRefused, AckReached, TypeOK, RequestsTyped
<1>28. ASSUME NEW t \in Threads, CloseTimesOut(t)
      PROVE  AckReached(u)
  BY <1>28 DEF CloseTimesOut, AckReached, TypeOK, RequestsTyped
<1>29. ASSUME NEW t \in Threads, CloseUnreported(t)
      PROVE  AckReached(u)
  BY <1>29 DEF CloseUnreported, Releasable, AckReached, TypeOK, RequestsTyped
<1>30. ASSUME NEW t \in Threads, CloseHeld(t)
      PROVE  AckReached(u)
  BY <1>30 DEF CloseHeld, Releasable, AckReached, TypeOK, RequestsTyped
<1>31. ASSUME NEW t \in Threads, CloseRemoves(t)
      PROVE  AckReached(u)
  BY <1>31 DEF CloseRemoves, RecordClose, Terminate, AckReached, TypeOK, RequestsTyped
<1>32. ASSUME NEW t \in Threads, CloseKeepsRoot(t)
      PROVE  AckReached(u)
  BY <1>32 DEF CloseKeepsRoot, AckReached, TypeOK, RequestsTyped
<1>33. ASSUME NEW t \in Threads, CloseForgets(t)
      PROVE  AckReached(u)
  BY <1>33 DEF CloseForgets, AckReached, TypeOK, RequestsTyped
<1>34. ASSUME NEW t \in Threads, CloseBuries(t)
      PROVE  AckReached(u)
  BY <1>34 DEF CloseBuries, AckReached, TypeOK, RequestsTyped
<1>35. ASSUME NEW t \in Threads, NEW rec \in Addressed, ReconcileRead(t, rec)
      PROVE  AckReached(u)
  BY <1>35 DEF ReconcileRead, Addressed, Awaiting, Preserve, AckReached, TypeOK,
     RequestsTyped
<1>36. ASSUME NEW t \in Threads, ReconcileAcknowledges(t)
      PROVE  AckReached(u)
  BY <1>36 DEF ReconcileAcknowledges, ReconcileClears, AckReached, TypeOK, RequestsTyped
<1>37. ASSUME NEW t \in Threads, ReconcileReleases(t)
      PROVE  AckReached(u)
  BY <1>37 DEF ReconcileReleases, Releasable, AckReached, TypeOK, RequestsTyped
<1>38. ASSUME NEW s \in Sessions, LateDone(s)
      PROVE  AckReached(u)
  BY <1>38 DEF LateDone, AckReached, TypeOK, RequestsTyped
<1>39. CASE Crash
  BY <1>39 DEF Crash, AckReached, TypeOK, RequestsTyped
<1>40. CASE UNCHANGED vars
  BY <1>40 DEF AckReached, TypeOK, RequestsTyped
<1>41. QED
  BY <1>1, <1>2, <1>3, <1>4, <1>5, <1>6, <1>7, <1>8, <1>9, <1>10, <1>11, <1>12, <1>13,
     <1>14, <1>15, <1>16, <1>17, <1>18, <1>19, <1>20, <1>21, <1>22, <1>23, <1>24, <1>25,
     <1>26, <1>27, <1>28, <1>29, <1>30, <1>31, <1>32, <1>33, <1>34, <1>35, <1>36, <1>37,
     <1>38, <1>39, <1>40 DEF Next, Save, Open, Exec, Status, Close, Reconcile

\* Whoever acknowledges a late result still has it committed as pending.
LEMMA AckOwedStep ==
    ASSUME Base, Owing, AckOwed, [Next]_vars
    PROVE  AckOwed'
<1> SUFFICES ASSUME NEW t \in Threads, pc'[t] = "acknowledging", sid'[t] \in Unacknowledged'
             PROVE  sid'[t] \in Owed'
  BY DEF AckOwed
<1> DEFINE q == sid[t]
<1>0. TypeOK /\ Named /\ AckReached(t)
  BY BaseIs, AckFrom
<1>1. q \in Sessions /\ sid'[t] = q /\ late[q] \in Decided
  BY <1>0, BaseIs DEF AckReached, Named, LocalsNamed, SeqRuntime
<1>2. q \in Unacknowledged
  BY <1>1, UnackFrom DEF Decided
<1>3. CASE pc[t] = "acknowledging"
  <2>1. q \in Owed /\ OwingAt(q)
    BY <1>1, <1>2, <1>3 DEF AckOwed, Owing
  <2>2. CASE commit'[q] = commit[q]
    BY <1>1, <2>1, <2>2 DEF Owed
  <2>3. CASE commit'[q] # commit[q]
    <3>1. Committed(q)
      BY <1>0, <1>1, <2>3, CommitLeaves
    <3>2. txn.new # None
      BY <1>0, <3>1, BindingAssumption DEF Committed, TypeOK, FilesTyped, Transaction
    <3> QED BY <1>1, <2>1, <3>1, <3>2 DEF Owed, OwingAt, Committed
  <2> QED BY <2>2, <2>3
<1>4. CASE pc[t] = "projecting" /\ SaveReadback(t)
  <2>1. txn \in Transaction /\ txn # None /\ txn.by = t /\ commit'[q] = txn.new
    BY <1>0, <1>1, <1>4 DEF SaveReadback, In, TypeOK, FilesTyped
  <2>2. txn.new.pend # 0 /\ txn.new # None
    BY <1>4, <2>1, BaseIs, BindingAssumption DEF Against, Transaction
  <2> QED BY <1>1, <2>1, <2>2 DEF Owed
<1> QED BY <1>0, <1>3, <1>4 DEF AckReached

-----------------------------------------------------------------------------
\* A late command is stranded by a restart.
LEMMA StrandedFrom ==
    ASSUME Base, NEW q \in Sessions, q \in Stranded', [Next]_vars
    PROVE  q \in Stranded \/ Crash
<1>0. TypeOK /\ SeqRuntime /\ Quarantine
  BY BaseIs
<1> USE BindingAssumption DEF vars, fileVars, rtVars, localVars, histVars, Goto, Fault,
   Request, Quiet, ClearBinding
<1>1. ASSUME NEW t \in Threads, SaveReadback(t)
      PROVE  q \in Stranded \/ Crash
  BY <1>1, <1>0 DEF SaveReadback, In, OnSuccess, Terminate, Stranded, Unacknowledged,
     TypeOK, RuntimeTyped, Quarantine
<1>2. ASSUME NEW t \in Threads, OpenRegister(t)
      PROVE  q \in Stranded \/ Crash
  BY <1>2, <1>0 DEF OpenRegister, Stranded, Unacknowledged, TypeOK, RuntimeTyped,
     Quarantine
<1>3. ASSUME NEW t \in Threads, OpenStart(t)
      PROVE  q \in Stranded \/ Crash
  BY <1>3, <1>0 DEF OpenStart, SeqRuntime, Fresh, Stranded, Unacknowledged, TypeOK,
     RuntimeTyped, Quarantine
<1>4. ASSUME NEW t \in Threads, OpenAbandon(t)
      PROVE  q \in Stranded \/ Crash
  BY <1>4, <1>0 DEF OpenAbandon, RecordClose, Terminate, Stranded, Unacknowledged,
     TypeOK, RuntimeTyped, Quarantine
<1>5. ASSUME NEW t \in Threads, ExecAdmit(t)
      PROVE  q \in Stranded \/ Crash
  BY <1>5, <1>0 DEF ExecAdmit, Stranded, Unacknowledged, TypeOK, RuntimeTyped,
     Quarantine
<1>6. ASSUME NEW t \in Threads, ExecTimesOut(t)
      PROVE  q \in Stranded \/ Crash
  BY <1>6, <1>0 DEF ExecTimesOut, Stranded, Unacknowledged, TypeOK, RuntimeTyped,
     Quarantine
<1>7. ASSUME NEW t \in Threads, ExecHeld(t)
      PROVE  q \in Stranded \/ Crash
  BY <1>7, <1>0 DEF ExecHeld, Stranded, Unacknowledged, TypeOK, RuntimeTyped, Quarantine
<1>8. ASSUME NEW t \in Threads, StatusRead(t)
      PROVE  q \in Stranded \/ Crash
  BY <1>8, <1>0 DEF StatusRead, Stranded, Unacknowledged, TypeOK, RuntimeTyped,
     Quarantine
<1>9. ASSUME NEW t \in Threads, ProbeTimesOut(t)
      PROVE  q \in Stranded \/ Crash
  BY <1>9, <1>0 DEF ProbeTimesOut, Stranded, Unacknowledged, TypeOK, RuntimeTyped,
     Quarantine
<1>10. ASSUME NEW t \in Threads, ProbeFails(t)
      PROVE  q \in Stranded \/ Crash
  BY <1>10, <1>0 DEF ProbeFails, Stranded, Unacknowledged, TypeOK, RuntimeTyped,
     Quarantine
<1>11. ASSUME NEW t \in Threads, CloseReleases(t)
      PROVE  q \in Stranded \/ Crash
  BY <1>11, <1>0 DEF CloseReleases, Releasable, Stranded, Unacknowledged, TypeOK,
     RuntimeTyped, Quarantine
<1>12. ASSUME NEW t \in Threads, CloseTimesOut(t)
      PROVE  q \in Stranded \/ Crash
  BY <1>12, <1>0 DEF CloseTimesOut, Stranded, Unacknowledged, TypeOK, RuntimeTyped,
     Quarantine
<1>13. ASSUME NEW t \in Threads, CloseUnreported(t)
      PROVE  q \in Stranded \/ Crash
  BY <1>13, <1>0 DEF CloseUnreported, Releasable, Stranded, Unacknowledged, TypeOK,
     RuntimeTyped, Quarantine
<1>14. ASSUME NEW t \in Threads, CloseHeld(t)
      PROVE  q \in Stranded \/ Crash
  BY <1>14, <1>0 DEF CloseHeld, Releasable, Stranded, Unacknowledged, TypeOK,
     RuntimeTyped, Quarantine
<1>15. ASSUME NEW t \in Threads, CloseRemoves(t)
      PROVE  q \in Stranded \/ Crash
  BY <1>15, <1>0 DEF CloseRemoves, RecordClose, Terminate, Stranded, Unacknowledged,
     TypeOK, RuntimeTyped, Quarantine
<1>16. ASSUME NEW t \in Threads, NEW rec \in Addressed, ReconcileRead(t, rec)
      PROVE  q \in Stranded \/ Crash
  BY <1>16, <1>0 DEF ReconcileRead, Addressed, Awaiting, Preserve, Stranded,
     Unacknowledged, TypeOK, RuntimeTyped, Quarantine
<1>17. ASSUME NEW t \in Threads, ReconcileAcknowledges(t)
      PROVE  q \in Stranded \/ Crash
  BY <1>17, <1>0 DEF ReconcileAcknowledges, ReconcileClears, Stranded, Unacknowledged,
     TypeOK, RuntimeTyped, Quarantine
<1>18. ASSUME NEW t \in Threads, ReconcileReleases(t)
      PROVE  q \in Stranded \/ Crash
  BY <1>18, <1>0 DEF ReconcileReleases, Releasable, Stranded, Unacknowledged, TypeOK,
     RuntimeTyped, Quarantine
<1>19. ASSUME NEW s \in Sessions, LateDone(s)
      PROVE  q \in Stranded \/ Crash
  BY <1>19, <1>0 DEF LateDone, Stranded, Unacknowledged, TypeOK, RuntimeTyped,
     Quarantine
<1>20. CASE Crash
  BY <1>20
<1>21. CASE UNCHANGED <<rt, seq, late, lateSeq, store>>
  BY <1>21, <1>0 DEF Stranded, Unacknowledged, TypeOK, RuntimeTyped, Quarantine
<1>22. QED
  BY <1>1, <1>2, <1>3, <1>4, <1>5, <1>6, <1>7, <1>8, <1>9, <1>10, <1>11, <1>12, <1>13,
     <1>14, <1>15, <1>16, <1>17, <1>18, <1>19, <1>20, <1>21, RuntimeSteps

\* Of a stranded session a save is admitted only to project its late result.
LEMMA StrandedSave ==
    ASSUME Base, NEW t \in Threads, SaveCheck(t), sid[t] \in Stranded, StrandedAt(sid[t])
    PROVE  /\ pc[t] = "projecting" /\ Payload(t).pend # 0 /\ ~Stuck(sid[t])
           /\ Names(sess[sid[t]], sid[t]) /\ Names(active, sid[t])
<1> DEFINE q == sid[t]
<1>0. TypeOK /\ Named /\ Gens /\ Stages /\ Quarantine
  BY BaseIs
<1>1. /\ q \in Sessions /\ q \in Unacknowledged /\ txn = None /\ ~SaveRefused(t)
      /\ pc[t] \in {"marking", "retainingClosed", "projecting"}
  BY DEF SaveCheck, StrandedAt, Restarted, Saving, Stranded, Unacknowledged
<1>2. /\ exp[t].gen >= 1 /\ exp[t].gen \in Nat /\ b[t] \in Sound /\ b[t].sid = q
      /\ b[t] \in Binding /\ base[t] = None
  BY <1>0, <1>1, BaseIs DEF Gens, GenLocals, Publishing, Saving, SoundLocals, Bound, Named,
     LocalsNamed, TypeOK, RequestsTyped, Sound, Behind
<1>3. sess[q] # None
  BY <1>1, <1>2 DEF SaveRefused
<1>4. /\ sess[q] \in Sound /\ sess[q] \in Binding /\ sess[q].sid = q /\ q \in root
  BY <1>0, <1>1, <1>3, BaseIs DEF SoundFiles, Sound, Behind, Named, FilesNamed, Of
<1>5. /\ seq[q] <= b[t].seq /\ sess[q].gen = exp[t].gen /\ sess[q].seq = ExpectedSeq(t)
      /\ active # None => active.sid = q /\ active.gen = exp[t].gen
  <2>1. LatestSequence(q) = seq[q]
    BY <1>4 DEF LatestSequence
  <2>2. seq[q] \in Nat /\ b[t].seq \in Nat
    BY <1>0, <1>1, <1>2 DEF TypeOK, RuntimeTyped, Binding
  <2> QED BY <1>1, <1>2, <1>3, <2>1, <2>2 DEF SaveRefused, AgainstGen
<1>6. lateSeq[q] <= seq[q] /\ lateSeq[q] \in Nat /\ seq[q] \in Nat
  BY <1>0, <1>1 DEF Quarantine, TypeOK, RuntimeTyped
<1>7. b[t].pend # 0
  <2>1. b[t].seq \in Nat
    BY <1>2 DEF Binding
  <2> QED BY <1>1, <1>2, <1>5, <1>6, <2>1 DEF Sound
<1>8. pc[t] = "projecting"
  BY <1>0, <1>1, <1>7 DEF Stages
<1>9. sess[q].seq >= lateSeq[q]
  BY <1>0, <1>5, <1>8 DEF Stages, ExpectedSeq
<1>10. sess[q].pend # 0
  <2>1. sess[q].seq \in Nat
    BY <1>4 DEF Binding
  <2> QED BY <1>1, <1>4, <1>6, <1>9, <2>1 DEF Sound
<1>11. active # None => active = sess[q]
  BY <1>1, <1>3, <1>5, BaseIs DEF Split
<1>12. Payload(t).pend # 0
  BY <1>0, <1>1, <1>2, <1>7, PayloadIs DEF SaveCheck
<1> QED BY <1>3, <1>8, <1>10, <1>11, <1>12 DEF Stuck, Names

\* What nothing can save stays so.
LEMMA StuckStays ==
    ASSUME Base, NEW q \in Sessions, Stuck(q), txn = None \/ txn.new.sid # q,
           ~Names(active, q) => \A v \in Threads : pc[v] = "closingNothing" =>
                 sid[v] # None, [Next]_vars
    PROVE  Stuck(q)'
<1>0. TypeOK /\ Named /\ Progress
  BY BaseIs
<1>t. txn # None => /\ txn \in Transaction /\ txn.new.sid \in Sessions
                    /\ active # None => active.sid # q
                    /\ sess[q] = None \/ sess[q].pend = 0
  BY <1>0 DEF TypeOK, FilesTyped, Transaction, Step, Binding, Named, SaveNamed, Of,
     Progress, Stuck
<1> USE BindingAssumption DEF vars, fileVars, rtVars, localVars, histVars, Goto, Fault,
   Request, Quiet, ClearBinding
<1>1. ASSUME NEW t \in Threads, SaveCheck(t)
      PROVE  Stuck(q)'
  BY <1>1, <1>0 DEF SaveCheck, Stuck, TypeOK, FilesTyped
<1>2. ASSUME NEW t \in Threads, SaveSession(t) \/ SaveActive(t) \/ SaveMismatch(t) \/
   SaveUndoSession(t)
      PROVE  Stuck(q)'
  BY <1>2, <1>0, <1>t, SaveMoves DEF Stuck, TypeOK, FilesTyped
<1>3. ASSUME NEW t \in Threads, SaveReadback(t)
      PROVE  Stuck(q)'
  BY <1>3 DEF SaveReadback, Stuck
<1>4. ASSUME NEW t \in Threads, SaveUndoActive(t)
      PROVE  Stuck(q)'
  BY <1>4, <1>t DEF SaveUndoActive, In, Stuck
<1>5. ASSUME NEW t \in Threads, SaveUndoFails(t)
      PROVE  Stuck(q)'
  BY <1>5 DEF SaveUndoFails, Stuck
<1>6. ASSUME NEW t \in Threads, NEW s \in Sessions, OpenCheck(t, s)
      PROVE  Stuck(q)'
  BY <1>6, <1>0 DEF OpenCheck, Stuck, TypeOK, FilesTyped
<1>7. ASSUME NEW t \in Threads, OpenAbandon(t)
      PROVE  Stuck(q)'
  BY <1>7, <1>0 DEF OpenAbandon, RecordClose, Terminate, Stuck, TypeOK, FilesTyped
<1>8. ASSUME NEW t \in Threads, OpenDrop(t)
      PROVE  Stuck(q)'
  BY <1>8, <1>0 DEF OpenDrop, Stuck, TypeOK, FilesTyped
<1>9. ASSUME NEW t \in Threads, CloseCleared(t)
      PROVE  Stuck(q)'
  BY <1>9, <1>0 DEF CloseCleared, Names, Stuck, TypeOK, FilesTyped
<1>10. ASSUME NEW t \in Threads, CloseRemoves(t)
      PROVE  Stuck(q)'
  BY <1>10, <1>0 DEF CloseRemoves, RecordClose, Terminate, Stuck, TypeOK, FilesTyped
<1>11. ASSUME NEW t \in Threads, CloseForgets(t)
      PROVE  Stuck(q)'
  BY <1>11, <1>0 DEF CloseForgets, Stuck, TypeOK, FilesTyped
<1>12. ASSUME NEW t \in Threads, CloseBuries(t)
      PROVE  Stuck(q)'
  BY <1>12, <1>0 DEF CloseBuries, Stuck, TypeOK, FilesTyped
<1>13. CASE Crash
  BY <1>13, <1>0 DEF Crash, Stuck, TypeOK, FilesTyped
<1>14. CASE UNCHANGED <<sess, active, root, txn, commit, torn, closed>>
  BY <1>14, <1>0 DEF Stuck, TypeOK, FilesTyped
<1>15. QED
  BY <1>1, <1>2, <1>3, <1>4, <1>5, <1>6, <1>7, <1>8, <1>9, <1>10, <1>11, <1>12, <1>13,
     <1>14, FileSteps

\* The active projection of a stranded session goes on naming its late command.
LEMMA NamesStay ==
    ASSUME Base, NEW q \in Stranded, StrandedAt(q), Names(active, q), [Next]_vars
    PROVE  Names(active', q)
<1>0. /\ TypeOK /\ Named
      /\ txn # None /\ txn.new.sid = q => txn.new.pend # 0 /\ Names(txn.wasActive, q)
  BY BaseIs DEF StrandedAt
<1> USE BindingAssumption DEF vars, fileVars, rtVars, localVars, histVars, Goto, Fault,
   Request, Quiet, ClearBinding
<1>1. ASSUME NEW t \in Threads, SaveCheck(t)
      PROVE  Names(active', q)
  BY <1>1, <1>0 DEF SaveCheck, Names
<1>2. ASSUME NEW t \in Threads, SaveSession(t) \/ SaveActive(t) \/ SaveMismatch(t) \/
   SaveUndoSession(t)
      PROVE  Names(active', q)
  BY <1>2, <1>0, SaveMoves DEF Names
<1>3. ASSUME NEW t \in Threads, SaveReadback(t)
      PROVE  Names(active', q)
  BY <1>3 DEF SaveReadback
<1>4. ASSUME NEW t \in Threads, SaveUndoActive(t)
      PROVE  Names(active', q)
  <2>1. txn # None /\ active' = txn.wasActive /\ Of(txn.wasActive, txn.new.sid)
    BY <1>4, <1>0 DEF SaveUndoActive, In, Named, SaveNamed
  <2> QED BY <1>0, <2>1 DEF Names, Of
<1>5. ASSUME NEW t \in Threads, SaveUndoFails(t)
      PROVE  Names(active', q)
  BY <1>5 DEF SaveUndoFails
<1>6. ASSUME NEW t \in Threads, NEW s \in Sessions, OpenCheck(t, s)
      PROVE  Names(active', q)
  BY <1>6, <1>0 DEF OpenCheck, Names
<1>7. ASSUME NEW t \in Threads, OpenAbandon(t)
      PROVE  Names(active', q)
  BY <1>7, <1>0 DEF OpenAbandon, RecordClose, Terminate, Names
<1>8. ASSUME NEW t \in Threads, OpenDrop(t)
      PROVE  Names(active', q)
  BY <1>8, <1>0 DEF OpenDrop, Names
<1>9. ASSUME NEW t \in Threads, CloseCleared(t)
      PROVE  Names(active', q)
  BY <1>9, <1>0 DEF CloseCleared, Names
<1>10. ASSUME NEW t \in Threads, CloseRemoves(t)
      PROVE  Names(active', q)
  BY <1>10, <1>0 DEF CloseRemoves, RecordClose, Terminate, Names
<1>11. ASSUME NEW t \in Threads, CloseForgets(t)
      PROVE  Names(active', q)
  BY <1>11, <1>0 DEF CloseForgets, Names
<1>12. ASSUME NEW t \in Threads, CloseBuries(t)
      PROVE  Names(active', q)
  BY <1>12, <1>0 DEF CloseBuries, Names
<1>13. CASE Crash
  BY <1>13, <1>0 DEF Crash, Names
<1>14. CASE UNCHANGED <<sess, active, root, txn, commit, torn, closed>>
  BY <1>14, <1>0 DEF Names
<1>15. QED
  BY <1>1, <1>2, <1>3, <1>4, <1>5, <1>6, <1>7, <1>8, <1>9, <1>10, <1>11, <1>12, <1>13,
     <1>14, FileSteps

\* There is nothing to close without an id only while nothing is active.
LEMMA NothingFrom ==
    ASSUME TypeOK, NEW u \in Threads, pc'[u] = "closingNothing", sid'[u] = None, [Next]_vars
    PROVE  (pc[u] = "closingNothing" /\ sid[u] = None) \/ active = None
<1> USE BindingAssumption DEF vars, fileVars, rtVars, localVars, histVars, Goto, Return,
   Prepare, Fault, Request, Quiet, ClearBinding
<1>1. ASSUME NEW t \in Threads, SaveConflict(t)
      PROVE  (pc[u] = "closingNothing" /\ sid[u] = None) \/ active = None
  BY <1>1 DEF SaveConflict, SaveFails, OnFailure, TypeOK, RequestsTyped
<1>2. ASSUME NEW t \in Threads, SaveCheck(t) \/ SaveSession(t) \/ SaveActive(t) \/
   SaveMismatch(t) \/ SaveUndoSession(t)
      PROVE  (pc[u] = "closingNothing" /\ sid[u] = None) \/ active = None
  BY <1>2 DEF SaveCheck, SaveSession, In, SaveActive, SaveMismatch, SaveUndoSession,
     TypeOK, RequestsTyped
<1>3. ASSUME NEW t \in Threads, SaveReadback(t)
      PROVE  (pc[u] = "closingNothing" /\ sid[u] = None) \/ active = None
  BY <1>3, ReadbackIs DEF TypeOK, RequestsTyped
<1>4. ASSUME NEW t \in Threads, SaveUndoActive(t)
      PROVE  (pc[u] = "closingNothing" /\ sid[u] = None) \/ active = None
  BY <1>4 DEF SaveUndoActive, In, SaveFails, OnFailure, TypeOK, RequestsTyped
<1>5. ASSUME NEW t \in Threads, SaveUndoFails(t)
      PROVE  (pc[u] = "closingNothing" /\ sid[u] = None) \/ active = None
  BY <1>5 DEF SaveUndoFails, In, SaveFails, OnFailure, TypeOK, RequestsTyped
<1>6. ASSUME NEW t \in Threads, NEW s \in Sessions, OpenCheck(t, s)
      PROVE  (pc[u] = "closingNothing" /\ sid[u] = None) \/ active = None
  BY <1>6 DEF OpenCheck, TypeOK, RequestsTyped
<1>7. ASSUME NEW t \in Threads, OpenRegister(t)
      PROVE  (pc[u] = "closingNothing" /\ sid[u] = None) \/ active = None
  BY <1>7 DEF OpenRegister, TypeOK, RequestsTyped
<1>8. ASSUME NEW t \in Threads, OpenFails(t)
      PROVE  (pc[u] = "closingNothing" /\ sid[u] = None) \/ active = None
  BY <1>8 DEF OpenFails, TypeOK, RequestsTyped
<1>9. ASSUME NEW t \in Threads, OpenStart(t)
      PROVE  (pc[u] = "closingNothing" /\ sid[u] = None) \/ active = None
  BY <1>9 DEF OpenStart, TypeOK, RequestsTyped
<1>10. ASSUME NEW t \in Threads, OpenAbandon(t)
      PROVE  (pc[u] = "closingNothing" /\ sid[u] = None) \/ active = None
  BY <1>10 DEF OpenAbandon, RecordClose, Terminate, TypeOK, RequestsTyped
<1>11. ASSUME NEW t \in Threads, OpenDrop(t)
      PROVE  (pc[u] = "closingNothing" /\ sid[u] = None) \/ active = None
  BY <1>11 DEF OpenDrop, TypeOK, RequestsTyped
<1>12. ASSUME NEW t \in Threads, NEW rec \in Addressed, ExecLoad(t, rec)
      PROVE  (pc[u] = "closingNothing" /\ sid[u] = None) \/ active = None
  BY <1>12 DEF ExecLoad, Addressed, TypeOK, RequestsTyped
<1>13. ASSUME NEW t \in Threads, ExecAdmit(t)
      PROVE  (pc[u] = "closingNothing" /\ sid[u] = None) \/ active = None
  BY <1>13 DEF ExecAdmit, TypeOK, RequestsTyped
<1>14. ASSUME NEW t \in Threads, ExecSucceeds(t)
      PROVE  (pc[u] = "closingNothing" /\ sid[u] = None) \/ active = None
  BY <1>14 DEF ExecSucceeds, TypeOK, RequestsTyped
<1>15. ASSUME NEW t \in Threads, ExecTimesOut(t)
      PROVE  (pc[u] = "closingNothing" /\ sid[u] = None) \/ active = None
  BY <1>15 DEF ExecTimesOut, TypeOK, RequestsTyped
<1>16. ASSUME NEW t \in Threads, ExecHeld(t)
      PROVE  (pc[u] = "closingNothing" /\ sid[u] = None) \/ active = None
  BY <1>16 DEF ExecHeld, TypeOK, RequestsTyped
<1>17. ASSUME NEW t \in Threads, ExecFails(t)
      PROVE  (pc[u] = "closingNothing" /\ sid[u] = None) \/ active = None
  BY <1>17 DEF ExecFails, TypeOK, RequestsTyped
<1>18. ASSUME NEW t \in Threads, StatusRead(t)
      PROVE  (pc[u] = "closingNothing" /\ sid[u] = None) \/ active = None
  BY <1>18 DEF StatusRead, TypeOK, RequestsTyped
<1>19. ASSUME NEW t \in Threads, ProbeSucceeds(t)
      PROVE  (pc[u] = "closingNothing" /\ sid[u] = None) \/ active = None
  BY <1>19 DEF ProbeSucceeds, TypeOK, RequestsTyped
<1>20. ASSUME NEW t \in Threads, ProbeTimesOut(t)
      PROVE  (pc[u] = "closingNothing" /\ sid[u] = None) \/ active = None
  BY <1>20 DEF ProbeTimesOut, TypeOK, RequestsTyped
<1>21. ASSUME NEW t \in Threads, ProbeFails(t)
      PROVE  (pc[u] = "closingNothing" /\ sid[u] = None) \/ active = None
  BY <1>21 DEF ProbeFails, TypeOK, RequestsTyped
<1>22. ASSUME NEW t \in Threads, StatusMark(t)
      PROVE  (pc[u] = "closingNothing" /\ sid[u] = None) \/ active = None
  BY <1>22 DEF StatusMark, TypeOK, RequestsTyped
<1>23. ASSUME NEW t \in Threads, NEW s \in Sessions \cup {None}, CloseNothing(t, s)
      PROVE  (pc[u] = "closingNothing" /\ sid[u] = None) \/ active = None
  BY <1>23 DEF CloseNothing, TypeOK, RequestsTyped
<1>24. ASSUME NEW t \in Threads, CloseCleared(t)
      PROVE  (pc[u] = "closingNothing" /\ sid[u] = None) \/ active = None
  BY <1>24 DEF CloseCleared, TypeOK, RequestsTyped
<1>25. ASSUME NEW t \in Threads, NEW rec \in Addressed, CloseRead(t, rec)
      PROVE  (pc[u] = "closingNothing" /\ sid[u] = None) \/ active = None
  BY <1>25 DEF CloseRead, Addressed, TypeOK, RequestsTyped
<1>26. ASSUME NEW t \in Threads, CloseReleases(t)
      PROVE  (pc[u] = "closingNothing" /\ sid[u] = None) \/ active = None
  BY <1>26 DEF CloseReleases, Releasable, TypeOK, RequestsTyped
<1>27. ASSUME NEW t \in Threads, CloseRefused(t)
      PROVE  (pc[u] = "closingNothing" /\ sid[u] = None) \/ active = None
  BY <1>27 DEF CloseRefused, TypeOK, RequestsTyped
<1>28. ASSUME NEW t \in Threads, CloseTimesOut(t)
      PROVE  (pc[u] = "closingNothing" /\ sid[u] = None) \/ active = None
  BY <1>28 DEF CloseTimesOut, TypeOK, RequestsTyped
<1>29. ASSUME NEW t \in Threads, CloseUnreported(t)
      PROVE  (pc[u] = "closingNothing" /\ sid[u] = None) \/ active = None
  BY <1>29 DEF CloseUnreported, Releasable, TypeOK, RequestsTyped
<1>30. ASSUME NEW t \in Threads, CloseHeld(t)
      PROVE  (pc[u] = "closingNothing" /\ sid[u] = None) \/ active = None
  BY <1>30 DEF CloseHeld, Releasable, TypeOK, RequestsTyped
<1>31. ASSUME NEW t \in Threads, CloseRemoves(t)
      PROVE  (pc[u] = "closingNothing" /\ sid[u] = None) \/ active = None
  BY <1>31 DEF CloseRemoves, RecordClose, Terminate, TypeOK, RequestsTyped
<1>32. ASSUME NEW t \in Threads, CloseKeepsRoot(t)
      PROVE  (pc[u] = "closingNothing" /\ sid[u] = None) \/ active = None
  BY <1>32 DEF CloseKeepsRoot, TypeOK, RequestsTyped
<1>33. ASSUME NEW t \in Threads, CloseForgets(t)
      PROVE  (pc[u] = "closingNothing" /\ sid[u] = None) \/ active = None
  BY <1>33 DEF CloseForgets, TypeOK, RequestsTyped
<1>34. ASSUME NEW t \in Threads, CloseBuries(t)
      PROVE  (pc[u] = "closingNothing" /\ sid[u] = None) \/ active = None
  BY <1>34 DEF CloseBuries, TypeOK, RequestsTyped
<1>35. ASSUME NEW t \in Threads, NEW rec \in Addressed, ReconcileRead(t, rec)
      PROVE  (pc[u] = "closingNothing" /\ sid[u] = None) \/ active = None
  BY <1>35 DEF ReconcileRead, Addressed, Awaiting, Preserve, TypeOK, RequestsTyped
<1>36. ASSUME NEW t \in Threads, ReconcileAcknowledges(t)
      PROVE  (pc[u] = "closingNothing" /\ sid[u] = None) \/ active = None
  BY <1>36 DEF ReconcileAcknowledges, ReconcileClears, TypeOK, RequestsTyped
<1>37. ASSUME NEW t \in Threads, ReconcileReleases(t)
      PROVE  (pc[u] = "closingNothing" /\ sid[u] = None) \/ active = None
  BY <1>37 DEF ReconcileReleases, Releasable, TypeOK, RequestsTyped
<1>38. ASSUME NEW s \in Sessions, LateDone(s)
      PROVE  (pc[u] = "closingNothing" /\ sid[u] = None) \/ active = None
  BY <1>38 DEF LateDone, TypeOK, RequestsTyped
<1>39. CASE Crash
  BY <1>39 DEF Crash, TypeOK, RequestsTyped
<1>40. CASE UNCHANGED vars
  BY <1>40 DEF TypeOK, RequestsTyped
<1>41. QED
  BY <1>1, <1>2, <1>3, <1>4, <1>5, <1>6, <1>7, <1>8, <1>9, <1>10, <1>11, <1>12, <1>13,
     <1>14, <1>15, <1>16, <1>17, <1>18, <1>19, <1>20, <1>21, <1>22, <1>23, <1>24, <1>25,
     <1>26, <1>27, <1>28, <1>29, <1>30, <1>31, <1>32, <1>33, <1>34, <1>35, <1>36, <1>37,
     <1>38, <1>39, <1>40 DEF Next, Save, Open, Exec, Status, Close, Reconcile

\* After a restart a late result can be reconciled, or its session can no longer be saved.
LEMMA StrandedStep ==
    ASSUME Base, Owing, StrandedOK, NEW q \in Sessions, [Next]_vars
    PROVE  StrandedAt(q)'
<1> SUFFICES ASSUME q \in Stranded'
             PROVE  StrandedAt(q)'
  BY DEF StrandedAt
<1>0. /\ TypeOK /\ Named /\ Progress /\ Against /\ SeqRuntime /\ Quarantine
      /\ StrandedAt(q) /\ OwingAt(q) /\ q # None
  BY BaseIs, BindingAssumption DEF StrandedOK, Owing
<1>1. CASE Crash
  BY <1>0, <1>1 DEF Crash, StrandedAt
<1> SUFFICES ASSUME q \in Stranded
             PROVE  StrandedAt(q)'
  BY <1>1, StrandedFrom
<1>2. rt[q] = "none" /\ late[q] # "none" /\ late'[q] # "acknowledged"
  BY DEF Stranded, Unacknowledged
<1>3. ASSUME NEW t \in Threads, sid'[t] = q
      PROVE  pc'[t] \in Restarted
  <2>1. Moves(t) /\ (sid[t] = q => pc[t] \in Restarted)
    BY <1>0, RequestMoves DEF StrandedAt
  <2>2. ~OpenCheck(t, q)
    BY <1>0, <1>2 DEF OpenCheck, SeqRuntime, Fresh
  <2>3. late' # [late EXCEPT ![q] = "acknowledged"]
    BY <1>0, <1>2 DEF TypeOK, RuntimeTyped
  <2> QED BY <1>0, <1>2, <1>3, <2>1, <2>2, <2>3 DEF Moves, Follows, Restarted, Arrived,
        Publishing
<1>4. ASSUME txn' # None, txn'.new.sid = q
      PROVE  /\ pc'[txn'.by] = "projecting" /\ txn'.new.pend # 0
             /\ Names(txn'.wasSess, q) /\ Names(txn'.wasActive, q)
  <2>1. CASE Carried
    <3>1. pc[txn.by] = "projecting"
      BY <1>0, <1>4, <2>1 DEF Carried, StrandedAt
    <3>2. pc'[txn.by] = "projecting"
      BY <1>0, <1>4, <2>1, <3>1, SaverStays DEF Carried
    <3> QED BY <1>0, <1>4, <2>1, <3>2 DEF Carried, StrandedAt
  <2>2. ASSUME NEW t \in Threads, Started(t)
        PROVE  /\ pc'[txn'.by] = "projecting" /\ txn'.new.pend # 0
               /\ Names(txn'.wasSess, q) /\ Names(txn'.wasActive, q)
    <3>1. SaveCheck(t) /\ pc' = pc /\ sid[t] = q
      BY <1>0, <1>4, <2>2, PayloadIs DEF Started, SaveCheck
    <3> QED BY <1>0, <2>2, <3>1, StrandedSave DEF Started
  <2> QED BY <1>0, <1>4, <2>1, <2>2, SaveGoesOn
<1>5. ASSUME NEW t \in Threads, sid'[t] = q, pc'[t] \in {"closing", "removing"}
      PROVE  Stuck(q)' /\ (txn' = None \/ txn'.new.sid # q) /\ q \notin Owed'
  <2>1. CASE \E u \in Threads : sid[u] = q /\ pc[u] \in {"closing", "removing"}
    <3>1. Stuck(q) /\ (txn = None \/ txn.new.sid # q) /\ q \notin Owed
      BY <1>0, <2>1 DEF StrandedAt
    <3>2. Stuck(q)'
      BY <1>0, <3>1, StuckStays DEF StrandedAt
    <3>3. txn' = None \/ txn'.new.sid # q
      <4>1. ASSUME NEW u \in Threads, Started(u)
            PROVE  txn'.new.sid # q
        <5>1. SaveCheck(u) /\ txn'.new.sid = sid[u]
          BY <1>0, <4>1, PayloadIs DEF Started, SaveCheck
        <5> QED BY <1>0, <3>1, <5>1, StrandedSave
      <4> QED BY <1>0, <3>1, <4>1, SaveGoesOn DEF Carried
    <3>4. commit'[q] = commit[q]
      BY <1>0, <3>1, CommitLeaves DEF Committed
    <3> QED BY <3>1, <3>2, <3>3, <3>4, OwedFrom
  <2>2. CASE \A u \in Threads : sid[u] = q => pc[u] \notin {"closing", "removing"}
    <3>1. PICK r \in Addressed : CloseRead(t, r)
      <4>1. Reaches(t)
        BY <1>0, <1>5, ReachesIs DEF Watched
      <4>2. sid' = sid \/ ~CloseReleases(t)
        BY DEF CloseReleases
      <4> QED BY <1>0, <1>5, <2>2, <4>1, <4>2 DEF Reaches, CloseUnreported, CloseKeepsRoot,
            Prepare, Goto, TypeOK, RequestsTyped
    <3>2. /\ r.pend = 0 /\ r.sid = q /\ UNCHANGED <<fileVars, txn, commit, late>>
      BY <1>0, <1>5, <3>1 DEF CloseRead, Quiet, fileVars, rtVars, histVars, TypeOK,
         RequestsTyped
    <3>3. r = active \/ r = sess[q]
      BY <1>0, <3>2 DEF Addressed, Named, FilesNamed, Of
    <3>4. r # None
      BY DEF Addressed
    <3>5. Stuck(q)
      BY <3>2, <3>3, <3>4 DEF Stuck
    <3>6. q \notin Owed
      BY <1>0, <3>2, <3>3, <3>4 DEF OwingAt, Names
    <3>7. txn = None \/ txn.new.sid # q
      <4> SUFFICES ASSUME txn # None, txn.new.sid = q
                   PROVE  FALSE
        OBVIOUS
      <4>1. txn.new.pend # 0 /\ Names(txn.wasSess, q) /\ Names(txn.wasActive, q)
        BY <1>0 DEF StrandedAt
      <4>2. sess[q] \in {txn.wasSess, txn.new, None} /\ active \in {txn.wasActive, txn.new}
        BY <1>0 DEF Progress, TypeOK, FilesTyped, Transaction, Step
      <4> QED BY <3>2, <3>3, <3>4, <4>1, <4>2 DEF Names
    <3> QED BY <3>2, <3>5, <3>6, <3>7 DEF Stuck, Owed, Unacknowledged, fileVars
  <2> QED BY <2>1, <2>2
<1>6. ASSUME ~Names(active', q), NEW t \in Threads, pc'[t] = "closingNothing"
      PROVE  sid'[t] # None
  <2>1. ~Names(active, q)
    BY <1>0, <1>6, NamesStay
  <2> QED BY <1>0, <1>6, <2>1, NothingFrom DEF StrandedAt, Names
<1> QED BY <1>3, <1>4, <1>5, <1>6 DEF StrandedAt

-----------------------------------------------------------------------------
\* A live runtime has its managed root, and so has an open that will start one.
Sheltered ==
    /\ \A s \in Sessions : Alive(s) => s \in root
    /\ \A t \in Threads : pc[t] \in {"uploading", "starting"} => sid[t] \in root

\* Only a failing open and a close remove a root, of a session that nothing holds any more.
LEMMA RootLeaves ==
    ASSUME Base, NEW q \in root, q \notin root', [Next]_vars
    PROVE  /\ rt'[q] \in {"none", "gone"}
           /\ \A v \in Threads : pc'[v] \in {"uploading", "starting"} => sid'[v] # q
<1>0. TypeOK /\ Named /\ Stages /\ Lived /\ q \in Sessions
  BY BaseIs DEF TypeOK, CountsTyped
<1>1. PICK t \in Threads : (OpenAbandon(t) \/ CloseRemoves(t)) /\ sid[t] = q
  <2> USE DEF fileVars, Quiet, ClearBinding
  <2>1. ASSUME NEW t \in Threads, SaveCheck(t) \/ SaveSession(t) \/ SaveActive(t)
                 \/ SaveReadback(t) \/ SaveMismatch(t)
        PROVE  FALSE
    BY <2>1 DEF SaveCheck, SaveSession, SaveActive, SaveReadback, SaveMismatch
  <2>2. ASSUME NEW t \in Threads, SaveUndoSession(t) \/ SaveUndoActive(t) \/ SaveUndoFails(t)
        PROVE  FALSE
    BY <2>2 DEF SaveUndoSession, SaveUndoActive, SaveUndoFails
  <2>3. ASSUME NEW t \in Threads, OpenDrop(t) \/ CloseCleared(t) \/ CloseForgets(t)
                 \/ CloseBuries(t) \/ (\E s \in Sessions : OpenCheck(t, s))
        PROVE  FALSE
    BY <2>3 DEF OpenDrop, CloseCleared, CloseForgets, CloseBuries, OpenCheck
  <2>4. ASSUME NEW t \in Threads, OpenAbandon(t) \/ CloseRemoves(t)
        PROVE  sid[t] = q
    BY <2>4 DEF OpenAbandon, CloseRemoves
  <2>5. ~Crash
    BY DEF Crash
  <2> QED BY <2>1, <2>2, <2>3, <2>4, <2>5, FileSteps
<1>2. CASE OpenAbandon(t)
  <2>1. rt'[q] \in {"none", "gone"}
    BY <1>0, <1>1, <1>2 DEF OpenAbandon, fileVars, TypeOK, RuntimeTyped
  <2>2. ASSUME NEW v \in Threads, pc'[v] \in {"uploading", "starting"}, sid'[v] = q
        PROVE  FALSE
    <3>1. pc[t] = "abandoning" /\ pc'[t] \in {"dropping", "idle"}
      BY <1>0, <1>2 DEF OpenAbandon, Goto, Return, TypeOK, RequestsTyped
    <3>2. v # t /\ pc[v] = pc'[v] /\ sid[v] = q
      BY <1>0, <1>2, <2>2, <3>1 DEF OpenAbandon, Goto, Return, TypeOK, RequestsTyped
    <3> QED BY <1>0, <1>1, <2>2, <3>1, <3>2 DEF Lived, PublisherAlone, Opening, Starting
  <2> QED BY <2>1, <2>2
<1>3. CASE CloseRemoves(t)
  <2>1. rt'[q] \in {"none", "gone"}
    BY <1>0, <1>1, <1>3 DEF CloseRemoves, rtVars, Stages
  <2>2. ASSUME NEW v \in Threads, pc'[v] \in {"uploading", "starting"}, sid'[v] = q
        PROVE  FALSE
    <3>1. pc[t] = "removing" /\ pc'[t] = "forgetting"
      BY <1>0, <1>3 DEF CloseRemoves, Goto, TypeOK, RequestsTyped
    <3>2. pc[v] \in {"uploading", "starting"} /\ sid[v] = q
      BY <1>0, <1>3, <2>2, <3>1 DEF CloseRemoves, Goto, TypeOK, RequestsTyped
    <3>3. q \in Known
      BY <1>0, <1>1, <3>1 DEF Known, Works, Opening, Starting, Publishing
    <3>4. Publishes(v)
      BY <1>0, <3>2, <3>3 DEF Lived, PublisherAlone, Starting
    <3> QED BY <1>0, <3>2, <3>4 DEF Publishes, Named, SaveNamed, Saving
  <2> QED BY <2>1, <2>2
<1> QED BY <1>1, <1>2, <1>3

\* A live runtime keeps its root: it started in one, and whoever removes a root first
\* lets the runtime go.
LEMMA ShelteredStep ==
    ASSUME Base, Sheltered, [Next]_vars
    PROVE  Sheltered'
<1>0. TypeOK /\ Named /\ Ground
  BY BaseIs
<1>1. ASSUME NEW q \in Sessions, Alive(q)'
      PROVE  q \in root'
  <2>1. CASE q \in root
    BY <1>1, <2>1, RootLeaves DEF Alive
  <2>2. CASE q \notin root
    <3>1. rt[q] \in {"none", "gone"}
      BY <1>0, <2>2 DEF Sheltered, Alive, TypeOK, RuntimeTyped, Runtime
    <3>2. ~(\A v \in Threads : OpenStart(v) => sid[v] # q)
      BY <1>0, <1>1, <3>1, DeadStays DEF Alive
    <3> QED BY <2>2, <3>2 DEF Sheltered, OpenStart
  <2> QED BY <2>1, <2>2
<1>2. ASSUME NEW v \in Threads, pc'[v] \in {"uploading", "starting"}
      PROVE  sid'[v] \in root'
  <2>1. Moves(v)
    BY <1>0, RequestMoves
  <2>2. CASE OpenCheck(v, sid'[v])
    BY <2>2 DEF OpenCheck
  <2>3. CASE pc[v] \in {"uploading", "starting"} /\ sid'[v] = sid[v]
    BY <1>2, <2>3, RootLeaves DEF Sheltered
  <2> QED BY <1>2, <2>1, <2>2, <2>3 DEF Moves, Follows, Arrived, Publishing
<1> QED BY <1>1, <1>2 DEF Sheltered

-----------------------------------------------------------------------------
\* What the proof about late results adds to that about the commits.
Surviving ==
    Truthful /\ Split /\ Against /\ Owing /\ AckOwed /\ StrandedOK /\ Sheltered

\* Before the first open nothing is late.
LEMMA SurvivingInit == Init => Surviving
<1> SUFFICES ASSUME Init
             PROVE  Surviving
  OBVIOUS
<1> USE BindingAssumption DEF Init
<1>1. Truthful
  BY DEF Truthful, Distinct, Outstanding, SoundFiles, SoundLocals, Stages, Bound, Saving
<1>2. Split /\ Against
  BY DEF Split, Against
<1>3. Owing /\ AckOwed /\ StrandedOK
  BY DEF Owing, OwingAt, Owed, AckOwed, StrandedOK, StrandedAt, Stranded, Unacknowledged
<1>4. Sheltered
  BY DEF Sheltered, Alive
<1> QED BY <1>1, <1>2, <1>3, <1>4 DEF Surviving

\* The invariants above the base imply it.
LEMMA SurvivingBase ==
    ASSUME Committing, Surviving
    PROVE  Base
BY DEF Surviving, Base, Ground, Committing, Projected

\* The conjuncts of Surviving, each kept by a lemma above, are kept together.
LEMMA SurvivingStep ==
    ASSUME Committing, Surviving, [Next]_vars
    PROVE  Surviving'
<1>0. Base /\ Owing /\ AckOwed /\ StrandedOK
  BY SurvivingBase DEF Surviving
<1>1. /\ Ground /\ Distinct /\ SoundFiles /\ SoundLocals /\ Stages /\ Split /\ Against
      /\ TypeOK /\ Named /\ Progress
  BY <1>0, BaseIs DEF Surviving, Truthful
<1>2. Truthful'
  BY <1>1, DistinctStep, SoundFilesStep, SoundLocalsStep, StagesStep DEF Truthful
<1>3. Split' /\ Against'
  BY <1>1, SplitStep, AgainstStep
<1>4. Owing' /\ AckOwed'
  BY <1>0, OwingStep, AckOwedStep
<1>5. StrandedOK'
  BY <1>0, StrandedStep DEF StrandedOK
<1>6. Sheltered'
  BY <1>0, ShelteredStep DEF Surviving
<1> QED BY <1>2, <1>3, <1>4, <1>5, <1>6 DEF Surviving

\* The invariant of late results: records tell the truth about the command that timed out,
\* and what is owed is named wherever its session is (reconcile_command, close).
THEOREM SurvivingHolds == Spec => []Surviving
<1>1. Init => Surviving
  BY SurvivingInit
<1>2. Committing /\ Surviving /\ [Next]_vars => Surviving'
  BY SurvivingStep
<1> QED BY <1>1, <1>2, CommittingHolds, PTL DEF Spec

\* Only a reconciliation acknowledges a late result.
LEMMA AcknowledgedFrom ==
    ASSUME TypeOK, NEW q \in Sessions, late'[q] = "acknowledged", late[q] # "acknowledged",
           [Next]_vars
    PROVE  \E v \in Threads : pc[v] = "acknowledging" /\ sid[v] = q
<1> USE BindingAssumption DEF vars, fileVars, rtVars, localVars, histVars, Goto, Fault,
   Request, Quiet, ClearBinding
<1>1. ASSUME NEW t \in Threads, SaveReadback(t)
      PROVE  \E v \in Threads : pc[v] = "acknowledging" /\ sid[v] = q
  BY <1>1 DEF SaveReadback, In, OnSuccess, Terminate, TypeOK, RuntimeTyped
<1>2. ASSUME NEW t \in Threads, OpenRegister(t)
      PROVE  \E v \in Threads : pc[v] = "acknowledging" /\ sid[v] = q
  BY <1>2 DEF OpenRegister, TypeOK, RuntimeTyped
<1>3. ASSUME NEW t \in Threads, OpenStart(t)
      PROVE  \E v \in Threads : pc[v] = "acknowledging" /\ sid[v] = q
  BY <1>3 DEF OpenStart, TypeOK, RuntimeTyped
<1>4. ASSUME NEW t \in Threads, OpenAbandon(t)
      PROVE  \E v \in Threads : pc[v] = "acknowledging" /\ sid[v] = q
  BY <1>4 DEF OpenAbandon, RecordClose, Terminate, TypeOK, RuntimeTyped
<1>5. ASSUME NEW t \in Threads, ExecAdmit(t)
      PROVE  \E v \in Threads : pc[v] = "acknowledging" /\ sid[v] = q
  BY <1>5 DEF ExecAdmit, TypeOK, RuntimeTyped
<1>6. ASSUME NEW t \in Threads, ExecTimesOut(t)
      PROVE  \E v \in Threads : pc[v] = "acknowledging" /\ sid[v] = q
  BY <1>6 DEF ExecTimesOut, TypeOK, RuntimeTyped
<1>7. ASSUME NEW t \in Threads, ExecHeld(t)
      PROVE  \E v \in Threads : pc[v] = "acknowledging" /\ sid[v] = q
  BY <1>7 DEF ExecHeld, TypeOK, RuntimeTyped
<1>8. ASSUME NEW t \in Threads, StatusRead(t)
      PROVE  \E v \in Threads : pc[v] = "acknowledging" /\ sid[v] = q
  BY <1>8 DEF StatusRead, TypeOK, RuntimeTyped
<1>9. ASSUME NEW t \in Threads, ProbeTimesOut(t)
      PROVE  \E v \in Threads : pc[v] = "acknowledging" /\ sid[v] = q
  BY <1>9 DEF ProbeTimesOut, TypeOK, RuntimeTyped
<1>10. ASSUME NEW t \in Threads, ProbeFails(t)
      PROVE  \E v \in Threads : pc[v] = "acknowledging" /\ sid[v] = q
  BY <1>10 DEF ProbeFails, TypeOK, RuntimeTyped
<1>11. ASSUME NEW t \in Threads, CloseReleases(t)
      PROVE  \E v \in Threads : pc[v] = "acknowledging" /\ sid[v] = q
  BY <1>11 DEF CloseReleases, Releasable, TypeOK, RuntimeTyped
<1>12. ASSUME NEW t \in Threads, CloseTimesOut(t)
      PROVE  \E v \in Threads : pc[v] = "acknowledging" /\ sid[v] = q
  BY <1>12 DEF CloseTimesOut, TypeOK, RuntimeTyped
<1>13. ASSUME NEW t \in Threads, CloseUnreported(t)
      PROVE  \E v \in Threads : pc[v] = "acknowledging" /\ sid[v] = q
  BY <1>13 DEF CloseUnreported, Releasable, TypeOK, RuntimeTyped
<1>14. ASSUME NEW t \in Threads, CloseHeld(t)
      PROVE  \E v \in Threads : pc[v] = "acknowledging" /\ sid[v] = q
  BY <1>14 DEF CloseHeld, Releasable, TypeOK, RuntimeTyped
<1>15. ASSUME NEW t \in Threads, CloseRemoves(t)
      PROVE  \E v \in Threads : pc[v] = "acknowledging" /\ sid[v] = q
  BY <1>15 DEF CloseRemoves, RecordClose, Terminate, TypeOK, RuntimeTyped
<1>16. ASSUME NEW t \in Threads, NEW rec \in Addressed, ReconcileRead(t, rec)
      PROVE  \E v \in Threads : pc[v] = "acknowledging" /\ sid[v] = q
  BY <1>16 DEF ReconcileRead, Addressed, Awaiting, Preserve, TypeOK, RuntimeTyped
<1>17. ASSUME NEW t \in Threads, ReconcileAcknowledges(t)
      PROVE  \E v \in Threads : pc[v] = "acknowledging" /\ sid[v] = q
  BY <1>17 DEF ReconcileAcknowledges, ReconcileClears, TypeOK, RuntimeTyped
<1>18. ASSUME NEW t \in Threads, ReconcileReleases(t)
      PROVE  \E v \in Threads : pc[v] = "acknowledging" /\ sid[v] = q
  BY <1>18 DEF ReconcileReleases, Releasable, TypeOK, RuntimeTyped
<1>19. ASSUME NEW s \in Sessions, LateDone(s)
      PROVE  \E v \in Threads : pc[v] = "acknowledging" /\ sid[v] = q
  BY <1>19 DEF LateDone, TypeOK, RuntimeTyped
<1>20. CASE Crash
  BY <1>20 DEF Crash, TypeOK, RuntimeTyped
<1>21. CASE UNCHANGED <<rt, seq, late, lateSeq, store>>
  BY <1>21 DEF TypeOK, RuntimeTyped
<1>22. QED
  BY <1>1, <1>2, <1>3, <1>4, <1>5, <1>6, <1>7, <1>8, <1>9, <1>10, <1>11, <1>12, <1>13,
     <1>14, <1>15, <1>16, <1>17, <1>18, <1>19, <1>20, <1>21, RuntimeSteps

\* A record of a late result that is not acknowledged is owed.
LEMMA PendingIsOwed ==
    ASSUME Base, NEW s \in Sessions, commit[s] # None, commit[s].pend # 0
    PROVE  /\ commit[s].pend = lateSeq[s]
           /\ late[s] # "acknowledged" => s \in Owed
<1>1. commit[s] \in Sound /\ commit[s].sid = s
  BY BaseIs DEF SoundFiles, Named, FilesNamed, Of
<1>2. late[s] # "none" /\ commit[s].pend = lateSeq[s]
  BY <1>1 DEF Sound
<1> QED BY <1>2, BaseIs DEF Owed, Unacknowledged, TypeOK, RuntimeTyped, Late

\* A timeout that a save recorded stays pending, with its files, until its result is
\* acknowledged, and that happens only while the committed binding still names it; one that
\* no save recorded keeps its files while the process lives (reconcile_command, close,
\* _save_binding, open_upload).
THEOREM LateResultsHold == Spec => LateResultsSurvive
<1>1. ASSUME Committing, Surviving, [Next]_vars, NEW s \in Sessions
      PROVE  PendingKept(s) /\ AcknowledgedWhilePending(s)
  <2>0. Base /\ Named /\ TypeOK /\ SeqRuntime /\ OwingAt(s) /\ AckOwed
    BY <1>1, SurvivingBase, BaseIs DEF Surviving, Owing
  <2>1. ASSUME commit[s] # None, commit[s].pend # 0, commit'[s].pend = 0
        PROVE  late[s] = "acknowledged"
    <3>1. Committed(s)
      BY <1>1, <2>0, <2>1, CommitLeaves
    <3> QED BY <2>0, <2>1, <3>1, PendingIsOwed DEF Committed, OwingAt
  <2>2. ASSUME late'[s] = "acknowledged", late[s] # "acknowledged"
        PROVE  commit[s] # None /\ commit[s].pend = lateSeq[s]
    <3>1. PICK v \in Threads : pc[v] = "acknowledging" /\ sid[v] = s
      BY <1>1, <2>0, <2>2, AcknowledgedFrom
    <3>2. s \in Unacknowledged
      BY <2>0, <2>2, <3>1 DEF SeqRuntime, Decided, Unacknowledged
    <3>3. s \in Owed
      BY <2>0, <3>1, <3>2 DEF AckOwed
    <3> QED BY <2>0, <3>3, PendingIsOwed DEF Owed
  <2> QED BY <2>1, <2>2 DEF PendingKept, AcknowledgedWhilePending
<1>2. ASSUME Committing, Surviving, NEW s \in Sessions
      PROVE  FilesKept(s)
  BY <1>2, SurvivingBase, PendingIsOwed DEF FilesKept, Surviving, Owing,
     OwingAt, Sheltered
<1>3. Committing /\ Surviving => \A s \in Sessions : FilesKept(s)
  BY <1>2
<1>4. /\ Committing /\ Surviving /\ [Next]_vars
      /\ (\A s \in Sessions : FilesKept(s))'
      => [\A s \in Sessions :
             PendingKept(s) /\ AcknowledgedWhilePending(s) /\ FilesKept(s)']_vars
  BY <1>1
<1> QED BY <1>3, <1>4, CommittingHolds, SurvivingHolds, PTL DEF Spec, LateResultsSurvive
=============================================================================
