--------------------------- MODULE SessionBinding ---------------------------
(***************************************************************************)
(* The service's record of the open document.  Every session has a         *)
(* projection of its own (binding.json, inside its managed root) and the   *)
(* service one more (active_binding.json).  Request threads read them      *)
(* without a common lock, run a native command, and write both under       *)
(* `.binding-state.lock' against the generation and the native command     *)
(* sequence they read.  A write may fail, and the process may stop, at any *)
(* point; the files survive it, the tombstones and the live runtime do not.*)
(* The live runtime (module LiveSession) is seen through its manager.      *)
(***************************************************************************)
EXTENDS Naturals, FiniteSets

CONSTANTS
    Threads,     \* request threads of the API process
    Sessions,    \* session ids, each opened once (uuid4)
    None,
    MaxOps,      \* requests in all
    MaxFaults,   \* failing writes, removals and best-effort records
    MaxCrashes   \* restarts of the process


DocState == {"open", "timed_out_pending", "reconciled", "reconciled_cleanup_pending",
             "closed_cleanup_pending", "stale"}

\* The fields of a binding these properties tell apart; `pend' is the sequence
\* of pending_command, `recon' of last_reconciliation_command_id; 0 when there
\* is none.
Binding == [sid : Sessions, gen : Nat, seq : Nat, pend : Nat, recon : Nat, state : DocState,
            live : BOOLEAN, held : BOOLEAN]
\* A save that holds .binding-state.lock, and the files it found.
Step == {"session", "active", "readback", "undoSession", "undoActive"}
Transaction == [by : Threads, step : Step, new : Binding, wasSess : Binding \cup {None},
                wasActive : Binding \cup {None}]

ASSUME BindingAssumption ==
    /\ None \notin Threads \cup Sessions \cup Nat \cup Binding \cup Transaction
    /\ MaxOps \in Nat /\ MaxFaults \in Nat /\ MaxCrashes \in Nat

VARIABLES
    sess,      \* sess[s]: sessions/<s>/binding.json, or None
    active,    \* active_binding.json, or None
    root,      \* the managed roots that exist
    tomb,      \* _closed_session_ids
    txn,       \* the save that holds .binding-state.lock, or None
    store,     \* the interactive store's state of a session
    rt,        \* the runtime manager's session
    seq,       \* its latest command sequence
    late,      \* its timed-out command
    lateSeq,   \* and the sequence of that command
    pc, sid, b, base, exp, cmd,   \* locals of a request
    ops, faults, crashes,
    opened,    \* history: sessions whose open was answered with success
    closed,    \* history: sessions whose close was answered with success
    commit,    \* history: the last binding a save of s returned
    torn       \* history: a stop or a failed rollback split the projections

fileVars  == <<sess, active, root>>
rtVars    == <<rt, seq, late, lateSeq>>
localVars == <<b, base, exp, cmd>>
histVars  == <<opened, closed, commit, torn>>
vars == <<fileVars, tomb, txn, store, rtVars, pc, sid, localVars, ops, faults, crashes,
          histVars>>

Settled  == {"reconciled", "reconciled_cleanup_pending", "closed_cleanup_pending"}
Runtime  == {"none", "live", "quarantined", "held", "gone"}
Late     == {"none", "running", "done", "preserved", "acknowledged"}

\* Where a request stands when it calls _save_binding.
Saving == {"publishing", "publishingLate", "updating", "recordingTimeout", "recordingHold",
           "probeUpdating", "probeAgain", "probeTimeout", "marking", "projecting",
           "clearing", "retaining", "closeTimeout", "retainingClosed", "holdingClosed"}
Points == Saving \cup
          {"idle", "uploading", "starting", "abandoning", "dropping", "reading",
           "executing", "probing", "rereading", "acknowledging", "releasing", "closing",
           "removing", "forgetting", "burying", "closingNothing"}

\* The binding of a document that was just opened.
New(s) == [sid |-> s, gen |-> 0, seq |-> 0, pend |-> 0, recon |-> 0, state |-> "open",
           live |-> TRUE, held |-> FALSE]
Larger(m, n) == IF m >= n THEN m ELSE n

\* The command the runtime reports as timed out, projected as pending.
Pending(rec, n) == [rec EXCEPT !.pend = n, !.seq = Larger(rec.seq, n)]
TimedOut(rec, n) ==
    [rec EXCEPT !.pend = n, !.seq = Larger(rec.seq, n), !.state = "timed_out_pending"]

Init ==
    /\ sess = [s \in Sessions |-> None] /\ active = None /\ root = {}
    /\ tomb = {} /\ txn = None
    /\ store = [s \in Sessions |-> "none"]
    /\ rt = [s \in Sessions |-> "none"] /\ seq = [s \in Sessions |-> 0]
    /\ late = [s \in Sessions |-> "none"] /\ lateSeq = [s \in Sessions |-> 0]
    /\ pc = [t \in Threads |-> "idle"] /\ sid = [t \in Threads |-> None]
    /\ b = [t \in Threads |-> None] /\ base = [t \in Threads |-> None]
    /\ exp = [t \in Threads |-> [gen |-> 0, seq |-> None]]
    /\ cmd = [t \in Threads |-> 0]
    /\ ops = 0 /\ faults = 0 /\ crashes = 0
    /\ opened = {} /\ closed = {} /\ commit = [s \in Sessions |-> None] /\ torn = FALSE

\* has_session()
Alive(s) == rt[s] \in {"live", "quarantined", "held"}

Goto(t, p) == pc' = [pc EXCEPT ![t] = p]
Fault == faults < MaxFaults /\ faults' = faults + 1
Request(t) == pc[t] = "idle" /\ ops < MaxOps /\ ops' = ops + 1

\* A request that ends here forgets its locals.
Return(t) ==
    /\ Goto(t, "idle")
    /\ sid' = [sid EXCEPT ![t] = None]
    /\ b' = [b EXCEPT ![t] = None] /\ base' = [base EXCEPT ![t] = None]
    /\ exp' = [exp EXCEPT ![t] = [gen |-> 0, seq |-> None]]
    /\ cmd' = [cmd EXCEPT ![t] = 0]

\* Hand `rec' to _save_binding, expecting generation g and sequence n (None: the
\* one on disk).
Prepare(t, rec, g, n, p) ==
    /\ b' = [b EXCEPT ![t] = rec]
    /\ exp' = [exp EXCEPT ![t] = [gen |-> g, seq |-> n]]
    /\ Goto(t, p)

-----------------------------------------------------------------------------
(* _save_binding *)

\* latest_command_sequence(): the live session's, or else its journal's.
LatestSequence(s) == IF Alive(s) \/ s \in root THEN seq[s] ELSE 0

ExpectedSeq(t) ==
    IF exp[t].seq # None THEN exp[t].seq
    ELSE IF sess[sid[t]] = None THEN 0 ELSE sess[sid[t]].seq

\* The generation the write is against once a merge has caught up.
AgainstGen(t) ==
    IF sess[sid[t]] # None /\ base[t] # None THEN sess[sid[t]].gen ELSE exp[t].gen

SaveRefused_Revives(t) ==
    LET s == sid[t]  cur == sess[s]
    IN  \/ s \in tomb
        \/ cur # None /\ cur.seq # ExpectedSeq(t)
        \/ LatestSequence(s) > b[t].seq
        \/ cur # None /\ cur.gen # exp[t].gen /\ base[t] = None
        \/ active # None /\ (active.sid # s \/ active.gen # AgainstGen(t))
SaveRefused_NoSequence(t) ==
    LET s == sid[t]  cur == sess[s]
    IN  \/ s \in tomb
        \/ cur = None /\ (exp[t].gen # 0 \/ ExpectedSeq(t) # 0)
        \/ cur # None /\ cur.gen # exp[t].gen /\ base[t] = None
        \/ active # None /\ (active.sid # s \/ active.gen # AgainstGen(t))
SaveRefused(t) ==
    LET s == sid[t]  cur == sess[s]
    IN  \/ s \in tomb
        \/ cur = None /\ (exp[t].gen # 0 \/ ExpectedSeq(t) # 0)
        \/ cur # None /\ cur.seq # ExpectedSeq(t)
        \/ LatestSequence(s) > b[t].seq
        \/ cur # None /\ cur.gen # exp[t].gen /\ base[t] = None
        \/ active # None /\ (active.sid # s \/ active.gen # AgainstGen(t))

\* Only what the request changed lands on a newer generation; a removed
\* pending_command is not a changed field.
Merged(cur, new, was) ==
    [f \in DOMAIN new |->
        IF new[f] # was[f] /\ (f = "pend" => new[f] # 0) THEN new[f] ELSE cur[f]]

Payload(t) ==
    LET cur == sess[sid[t]]
        new == IF cur # None /\ cur.gen # exp[t].gen THEN Merged(cur, b[t], base[t])
               ELSE b[t]
    IN  [new EXCEPT !.gen = AgainstGen(t) + 1, !.seq = b[t].seq]

\* Where the caller goes on when the save raises, and when it returns.
OnFailure(p) ==
    CASE p \in {"publishing", "publishingLate"} -> "abandoning"
      [] OTHER -> "idle"
OnSuccess(p) ==
    CASE p = "publishingLate" -> "abandoning"   \* the 504 is raised inside the same try
      [] p = "probeUpdating" -> "probeAgain"
      [] p = "projecting" -> "acknowledging"
      [] p = "clearing" -> "releasing"
      [] OTHER -> "idle"

SaveFails(t) ==
    IF OnFailure(pc[t]) = "idle" THEN Return(t)
    ELSE Goto(t, OnFailure(pc[t])) /\ UNCHANGED <<sid, localVars>>

SaveConflict(t) ==
    /\ pc[t] \in Saving /\ txn = None
    /\ SaveRefused(t)
    /\ SaveFails(t)
    /\ UNCHANGED <<fileVars, tomb, txn, store, rtVars, ops, faults, crashes, histVars>>

SaveCheck(t) ==
    /\ pc[t] \in Saving /\ txn = None
    /\ ~SaveRefused(t)
    /\ txn' = [by |-> t, step |-> "session", new |-> Payload(t),
               wasSess |-> sess[sid[t]], wasActive |-> active]
    /\ UNCHANGED <<fileVars, tomb, store, rtVars, pc, sid, localVars, ops, faults, crashes,
                   histVars>>

In(t, step) == txn # None /\ txn.by = t /\ txn.step = step

\* The atomic write makes the parent directory again when it is missing.
SaveSession(t) ==
    /\ In(t, "session")
    /\ \/ /\ sess' = [sess EXCEPT ![sid[t]] = txn.new]
          /\ root' = root \cup {sid[t]}
          /\ txn' = [txn EXCEPT !.step = "active"]
          /\ UNCHANGED faults
       \/ /\ Fault
          /\ txn' = [txn EXCEPT !.step = "undoSession"]
          /\ UNCHANGED <<sess, root>>
    /\ UNCHANGED <<active, tomb, store, rtVars, pc, sid, localVars, ops, crashes, histVars>>

SaveActive(t) ==
    /\ In(t, "active")
    /\ \/ active' = txn.new /\ txn' = [txn EXCEPT !.step = "readback"] /\ UNCHANGED faults
       \/ Fault /\ txn' = [txn EXCEPT !.step = "undoSession"] /\ UNCHANGED active
    /\ UNCHANGED <<sess, root, tomb, store, rtVars, pc, sid, localVars, ops, crashes, histVars>>

\* record_command of a result that is not ok: the store's session is
\* `failed', which is terminal, while the document stays open.
Terminate(s) ==
    store' = [store EXCEPT ![s] = IF store[s] = "open" THEN "terminal" ELSE store[s]]

SaveReadback(t) ==
    /\ In(t, "readback")
    /\ sess[sid[t]] = txn.new /\ active = txn.new
    /\ txn' = None
    /\ commit' = [commit EXCEPT ![sid[t]] = txn.new]
    /\ opened' = IF pc[t] = "publishing" THEN opened \cup {sid[t]} ELSE opened
    /\ LET next == OnSuccess(pc[t])
       IN  IF next = "idle" THEN Return(t)
           ELSE /\ Prepare(t, txn.new, txn.new.gen, None, next)
                /\ base' = [base EXCEPT ![t] = None]
                /\ UNCHANGED <<sid, cmd>>
    /\ \/ UNCHANGED store
       \/ pc[t] = "updating" /\ Terminate(sid[t])
    /\ UNCHANGED <<fileVars, tomb, rtVars, ops, faults, crashes, closed, torn>>

SaveMismatch(t) ==
    /\ In(t, "readback")
    /\ sess[sid[t]] # txn.new
    /\ txn' = [txn EXCEPT !.step = "undoSession"]
    /\ UNCHANGED <<fileVars, tomb, store, rtVars, pc, sid, localVars, ops, faults, crashes,
                   histVars>>

SaveUndoSession_Keep(t) ==
    /\ In(t, "undoSession")
    /\ txn' = [txn EXCEPT !.step = "undoActive"]
    /\ UNCHANGED <<fileVars, tomb, store, rtVars, pc, sid, localVars, ops, faults, crashes,
                   histVars>>
SaveUndoSession(t) ==
    /\ In(t, "undoSession")
    /\ sess' = [sess EXCEPT ![sid[t]] = txn.wasSess]
    /\ root' = IF txn.wasSess = None THEN root ELSE root \cup {sid[t]}
    /\ txn' = [txn EXCEPT !.step = "undoActive"]
    /\ UNCHANGED <<active, tomb, store, rtVars, pc, sid, localVars, ops, faults, crashes,
                   histVars>>

SaveUndoActive(t) ==
    /\ In(t, "undoActive")
    /\ active' = txn.wasActive
    /\ txn' = None
    /\ SaveFails(t)
    /\ UNCHANGED <<sess, root, tomb, store, rtVars, ops, faults, crashes, histVars>>

SaveUndoFails(t) ==
    /\ In(t, "undoSession") \/ In(t, "undoActive")
    /\ Fault
    /\ txn' = None
    /\ torn' = TRUE
    /\ SaveFails(t)
    /\ UNCHANGED <<fileVars, tomb, store, rtVars, ops, crashes, opened, closed, commit>>

Save(t) == SaveConflict(t) \/ SaveCheck(t) \/ SaveSession(t) \/ SaveActive(t)
           \/ SaveReadback(t) \/ SaveMismatch(t) \/ SaveUndoSession(t) \/ SaveUndoActive(t)
           \/ SaveUndoFails(t)

\* _clear_binding for a session, with force or without an expected generation.
ClearBinding(s) ==
    /\ txn = None
    /\ sess' = [sess EXCEPT ![s] = None]
    /\ active' = IF active # None /\ active.sid = s THEN None ELSE active
    /\ UNCHANGED root

\* What a request that reads, decides and keeps everything on disk leaves alone.
Quiet == UNCHANGED <<fileVars, tomb, txn, store, crashes, histVars>>

-----------------------------------------------------------------------------
(* open_upload.  Every binding carries artifact_custody, so an active one is
   never cleaned up as stale: the request is refused and changes nothing. *)

OpenCheck(t, s) ==
    /\ Request(t)
    /\ active = None
    /\ store[s] = "none" /\ s \notin root \cup opened \cup closed
    /\ \A u \in Threads : sid[u] # s
    /\ root' = root \cup {s}
    /\ sid' = [sid EXCEPT ![t] = s]
    /\ Goto(t, "uploading")
    /\ UNCHANGED <<sess, active, tomb, txn, store, rtVars, localVars, faults, crashes, histVars>>

\* The interactive store admits one open session; a refusal and a failing
\* upload leave through the same handler.
OpenRegister(t) ==
    /\ pc[t] = "uploading"
    /\ \A s \in Sessions : store[s] # "open"
    /\ store' = [store EXCEPT ![sid[t]] = "open"]
    /\ Goto(t, "starting")
    /\ UNCHANGED <<fileVars, tomb, txn, rtVars, sid, localVars, ops, faults, crashes, histVars>>

OpenFails(t) ==
    /\ pc[t] = "uploading"
    /\ Goto(t, "abandoning")
    /\ Quiet /\ UNCHANGED <<rtVars, sid, localVars, ops, faults>>

OpenStart(t) ==
    LET s == sid[t]
    IN  /\ pc[t] = "starting"
        /\ \/ /\ rt' = [rt EXCEPT ![s] = "live"]
              /\ Prepare(t, New(s), 0, None, "publishing")
              /\ UNCHANGED <<seq, late, lateSeq>>
           \/ /\ rt' = [rt EXCEPT ![s] = "quarantined"]
              /\ seq' = [seq EXCEPT ![s] = 1]
              /\ late' = [late EXCEPT ![s] = "running"]
              /\ lateSeq' = [lateSeq EXCEPT ![s] = 1]
              /\ Prepare(t, TimedOut(New(s), 1), 0, None, "publishingLate")
           \/ \E r \in {"none", "held"} :
                 /\ rt' = [rt EXCEPT ![s] = r]
                 /\ Goto(t, "abandoning")
                 /\ UNCHANGED <<seq, late, lateSeq, b, exp>>
        /\ Quiet /\ UNCHANGED <<sid, base, cmd, ops, faults>>

\* _record_session_close: best effort.
RecordClose(s) ==
    \/ Terminate(s) /\ UNCHANGED faults
    \/ Fault /\ UNCHANGED store

\* The failing open closes its own runtime; only then its files may go.
OpenAbandon(t) ==
    LET s == sid[t]
    IN  /\ pc[t] = "abandoning"
        /\ \/ \* the runtime is released and the root with everything in it removed
              /\ rt[s] \in {"none", "gone", "live"} /\ s \in root
              /\ rt' = [rt EXCEPT ![s] = IF rt[s] = "live" THEN "gone" ELSE rt[s]]
              /\ root' = root \ {s}
              /\ sess' = [sess EXCEPT ![s] = None]
              /\ RecordClose(s)
              /\ Goto(t, "dropping")
              /\ UNCHANGED <<active, seq, late, lateSeq, sid, localVars>>
           \/ \* the runtime is released, its root is not
              /\ rt[s] \in {"none", "gone", "live"}
              /\ rt' = [rt EXCEPT ![s] = IF rt[s] = "live" THEN "gone" ELSE rt[s]]
              /\ \/ s \notin root /\ UNCHANGED faults
                 \/ Fault
              /\ Return(t)
              /\ UNCHANGED <<fileVars, store, seq, late, lateSeq>>
           \/ \* the runtime refuses, or its close fails: everything is retained
              /\ \/ rt[s] \in {"quarantined", "held"} /\ UNCHANGED faults
                 \/ rt[s] = "live" /\ Fault
              /\ Return(t)
              /\ UNCHANGED <<fileVars, store, rtVars>>
        /\ UNCHANGED <<tomb, txn, ops, crashes, histVars>>

OpenDrop(t) ==
    /\ pc[t] = "dropping"
    /\ ClearBinding(sid[t])
    /\ Return(t)
    /\ UNCHANGED <<tomb, txn, store, rtVars, ops, faults, crashes, histVars>>

Open(t) == (\E s \in Sessions : OpenCheck(t, s)) \/ OpenRegister(t) \/ OpenFails(t)
           \/ OpenStart(t) \/ OpenAbandon(t) \/ OpenDrop(t)

-----------------------------------------------------------------------------
(* _load_active_binding and _execute_live, with the save of the operation's
   result by _update_live_binding. *)

\* The binding a request addresses: the active one, or a session's own.
Addressed == ({active} \cup {sess[s] : s \in Sessions}) \ {None}

ExecLoad(t, rec) ==
    /\ Request(t)
    /\ rec.pend = 0 /\ rec.live /\ Alive(rec.sid)
    /\ sid' = [sid EXCEPT ![t] = rec.sid]
    /\ Goto(t, "reading")
    /\ Quiet /\ UNCHANGED <<rtVars, localVars, faults>>

\* What a command leaves in the binding: its success, or a hold.
Completed(rec, n) == [rec EXCEPT !.seq = n, !.pend = 0, !.state = "open", !.live = TRUE]
Holding(rec, n) == [rec EXCEPT !.held = TRUE, !.seq = Larger(rec.seq, n)]

ExecAdmit(t) ==
    LET s == sid[t]  rec == sess[s]
    IN  /\ pc[t] = "reading"
        /\ \/ /\ rec = None \/ ~Alive(s)
              /\ Return(t) /\ UNCHANGED seq
           \/ /\ rec # None /\ rt[s] = "live"
              /\ seq' = [seq EXCEPT ![s] = @ + 1]
              /\ cmd' = [cmd EXCEPT ![t] = seq[s] + 1]
              /\ base' = [base EXCEPT ![t] = rec]
              /\ Prepare(t, rec, rec.gen, rec.seq, "executing")
              /\ UNCHANGED sid
           \/ \* a terminal session raises its error again
              /\ rec # None /\ rt[s] = "quarantined"
              /\ base' = [base EXCEPT ![t] = rec]
              /\ Prepare(t, Pending(rec, lateSeq[s]), rec.gen, rec.seq, "recordingTimeout")
              /\ UNCHANGED <<seq, sid, cmd>>
           \/ /\ rec # None /\ rt[s] = "held"
              /\ base' = [base EXCEPT ![t] = rec]
              /\ Prepare(t, Holding(rec, seq[s]), rec.gen, rec.seq, "recordingHold")
              /\ UNCHANGED <<seq, sid, cmd>>
        /\ Quiet /\ UNCHANGED <<rt, late, lateSeq, ops, faults>>

\* One STA thread runs the commands of a session in the order they were admitted.
Oldest(t) == \A u \in Threads : sid[u] = sid[t] /\ pc[u] \in {"executing", "probing"}
                                => cmd[u] >= cmd[t]

ExecSucceeds(t) ==
    /\ pc[t] = "executing" /\ rt[sid[t]] = "live" /\ Oldest(t)
    /\ Prepare(t, Completed(b[t], cmd[t]), exp[t].gen, exp[t].seq, "updating")
    /\ Quiet /\ UNCHANGED <<rtVars, sid, base, cmd, ops, faults>>

ExecTimesOut(t) ==
    /\ pc[t] = "executing" /\ rt[sid[t]] = "live"
    /\ rt' = [rt EXCEPT ![sid[t]] = "quarantined"]
    /\ late' = [late EXCEPT ![sid[t]] = "running"]
    /\ lateSeq' = [lateSeq EXCEPT ![sid[t]] = cmd[t]]
    /\ Prepare(t, Pending(b[t], cmd[t]), exp[t].gen, exp[t].seq, "recordingTimeout")
    /\ Quiet /\ UNCHANGED <<seq, sid, base, cmd, ops, faults>>

ExecHeld(t) ==
    /\ pc[t] = "executing" /\ rt[sid[t]] = "live" /\ Oldest(t)
    /\ rt' = [rt EXCEPT ![sid[t]] = "held"]
    /\ Prepare(t, Holding(b[t], cmd[t]), exp[t].gen, exp[t].seq, "recordingHold")
    /\ Quiet /\ UNCHANGED <<seq, late, lateSeq, sid, base, cmd, ops, faults>>

\* The command failed, or the runtime dropped it with the rest of its queue.
ExecFails(t) ==
    /\ pc[t] = "executing"
    /\ Oldest(t) \/ rt[sid[t]] # "live"
    /\ Return(t)
    /\ Quiet /\ UNCHANGED <<rtVars, ops, faults>>

Exec(t) == (\E rec \in Addressed : ExecLoad(t, rec)) \/ ExecAdmit(t) \/ ExecSucceeds(t)
           \/ ExecTimesOut(t) \/ ExecHeld(t) \/ ExecFails(t)

\* The native call that timed out returns after all.
LateDone(s) ==
    /\ rt[s] = "quarantined" /\ late[s] = "running"
    /\ late' = [late EXCEPT ![s] = "done"]
    /\ Quiet /\ UNCHANGED <<rt, seq, lateSeq, pc, sid, localVars, ops, faults>>

-----------------------------------------------------------------------------
(* status and _probe_live_binding *)

\* A binding with a pending command, or a held one, is reported as it is.
StatusRead(t) ==
    /\ Request(t)
    /\ active # None /\ active.pend = 0 /\ ~active.held
    /\ sid' = [sid EXCEPT ![t] = active.sid]
    /\ LET s == active.sid
       IN  \/ /\ active.live /\ rt[s] = "live"
              /\ seq' = [seq EXCEPT ![s] = @ + 1]
              /\ cmd' = [cmd EXCEPT ![t] = seq[s] + 1]
              /\ Prepare(t, active, active.gen, active.seq, "probing")
           \/ /\ active.live /\ rt[s] = "quarantined"
              /\ Prepare(t, TimedOut(active, lateSeq[s]), active.gen, None, "probeTimeout")
              /\ UNCHANGED <<seq, cmd>>
           \/ /\ ~active.live \/ ~Alive(s) \/ rt[s] = "held"
              /\ Goto(t, "rereading")
              /\ UNCHANGED <<seq, cmd, b, exp>>
    /\ Quiet /\ UNCHANGED <<rt, late, lateSeq, base, faults>>

\* The location it read is saved, and the whole binding once more.
Probed(rec, n) == [rec EXCEPT !.seq = n, !.state = "open"]
ProbeSucceeds(t) ==
    /\ pc[t] = "probing" /\ rt[sid[t]] = "live" /\ Oldest(t)
    /\ Prepare(t, Probed(b[t], cmd[t]), exp[t].gen, exp[t].seq, "probeUpdating")
    /\ Quiet /\ UNCHANGED <<rtVars, sid, base, cmd, ops, faults>>

ProbeTimesOut(t) ==
    /\ pc[t] = "probing" /\ rt[sid[t]] = "live"
    /\ rt' = [rt EXCEPT ![sid[t]] = "quarantined"]
    /\ late' = [late EXCEPT ![sid[t]] = "running"]
    /\ lateSeq' = [lateSeq EXCEPT ![sid[t]] = cmd[t]]
    /\ Prepare(t, TimedOut(b[t], cmd[t]), exp[t].gen, None, "probeTimeout")
    /\ Quiet /\ UNCHANGED <<seq, sid, base, cmd, ops, faults>>

ProbeFails(t) ==
    /\ pc[t] = "probing"
    /\ \/ Oldest(t) /\ rt[sid[t]] = "live" /\ rt' \in {rt, [rt EXCEPT ![sid[t]] = "held"]}
       \/ rt[sid[t]] # "live" /\ UNCHANGED rt
    /\ Goto(t, "rereading")
    /\ Quiet /\ UNCHANGED <<seq, late, lateSeq, sid, localVars, ops, faults>>

\* A document that no longer answers is marked stale in the binding read again.
Stale(rec) == [rec EXCEPT !.live = FALSE, !.state = "stale"]
StatusMark(t) ==
    /\ pc[t] = "rereading"
    /\ IF active = None \/ active.pend # 0 \/ active.state \in Settled \/ sid[t] \in tomb
       THEN Return(t)
       ELSE /\ sid' = [sid EXCEPT ![t] = active.sid]
            /\ Prepare(t, Stale(active), active.gen, None, "marking")
            /\ UNCHANGED <<base, cmd>>
    /\ Quiet /\ UNCHANGED <<rtVars, ops, faults>>

Status(t) == StatusRead(t) \/ ProbeSucceeds(t) \/ ProbeTimesOut(t) \/ ProbeFails(t)
             \/ StatusMark(t)

-----------------------------------------------------------------------------
(* close *)

\* Nothing to close: with an id the session is buried, and what is left of it
\* cleared; without one the active projection itself goes.
CloseNothing(t, s) ==
    /\ Request(t)
    /\ IF s = None THEN active = None ELSE sess[s] = None
    /\ tomb' = IF s = None THEN tomb ELSE tomb \cup {s}
    /\ sid' = [sid EXCEPT ![t] = s]
    /\ Goto(t, "closingNothing")
    /\ UNCHANGED <<fileVars, txn, store, rtVars, localVars, faults, crashes, histVars>>

CloseCleared(t) ==
    /\ pc[t] = "closingNothing"
    /\ IF sid[t] = None THEN txn = None /\ active' = None /\ UNCHANGED <<sess, root>>
       ELSE ClearBinding(sid[t])
    /\ Return(t)
    /\ UNCHANGED <<tomb, txn, store, rtVars, ops, faults, crashes, histVars>>

CloseRead(t, rec) ==
    /\ Request(t)
    /\ rec.pend = 0
    /\ sid' = [sid EXCEPT ![t] = rec.sid]
    /\ Prepare(t, rec, rec.gen, None, "closing")
    /\ Quiet /\ UNCHANGED <<rtVars, base, cmd, faults>>

ClosedPending(rec) == [rec EXCEPT !.live = FALSE, !.state = "closed_cleanup_pending"]

\* The runtime lets go of the session: no command of it is outstanding.
Releasable(s) ==
    /\ \/ rt[s] = "live"
       \/ rt[s] = "quarantined" /\ late[s] = "acknowledged"
    /\ \A u \in Threads : sid[u] = s => pc[u] \notin {"executing", "probing"}

CloseReleases(t) ==
    LET s == sid[t]
    IN  /\ pc[t] = "closing"
        /\ \/ rt[s] \in {"none", "gone"} /\ UNCHANGED rt
           \/ Releasable(s) /\ rt' = [rt EXCEPT ![s] = "gone"]
        /\ Goto(t, "removing")
        /\ Quiet /\ UNCHANGED <<seq, late, lateSeq, sid, localVars, ops, faults>>

\* save_required, a quarantined session, a close already running, or a failure.
CloseRefused(t) ==
    /\ pc[t] = "closing" /\ rt[sid[t]] \in {"live", "quarantined"}
    /\ Return(t)
    /\ Quiet /\ UNCHANGED <<rtVars, ops, faults>>

CloseTimesOut(t) ==
    LET s == sid[t]
    IN  /\ pc[t] = "closing" /\ rt[s] = "live"
        /\ rt' = [rt EXCEPT ![s] = "quarantined"]
        /\ seq' = [seq EXCEPT ![s] = @ + 1]
        /\ late' = [late EXCEPT ![s] = "running"]
        /\ lateSeq' = [lateSeq EXCEPT ![s] = seq[s] + 1]
        /\ Prepare(t, [TimedOut(b[t], seq[s] + 1) EXCEPT !.live = TRUE], b[t].gen, b[t].seq,
                   "closeTimeout")
        /\ Quiet /\ UNCHANGED <<sid, base, cmd, ops, faults>>

\* The native close completed and reporting it failed.
CloseUnreported(t) ==
    /\ pc[t] = "closing" /\ Releasable(sid[t]) /\ Fault
    /\ rt' = [rt EXCEPT ![sid[t]] = "gone"]
    /\ Prepare(t, ClosedPending(b[t]), b[t].gen, None, "retainingClosed")
    /\ Quiet /\ UNCHANGED <<seq, late, lateSeq, sid, base, cmd, ops>>

CloseHeld(t) ==
    LET s == sid[t]
    IN  /\ pc[t] = "closing"
        /\ \/ rt[s] = "held" /\ UNCHANGED rt
           \/ Releasable(s) /\ rt' = [rt EXCEPT ![s] = "held"]
        /\ Prepare(t, Holding(b[t], seq[s]), b[t].gen, b[t].seq, "holdingClosed")
        /\ Quiet /\ UNCHANGED <<seq, late, lateSeq, sid, base, cmd, ops, faults>>

\* _cleanup_managed_session_root, with binding.json in the root.
CloseRemoves(t) ==
    LET s == sid[t]
    IN  /\ pc[t] = "removing" /\ s \in root
        /\ root' = root \ {s}
        /\ sess' = [sess EXCEPT ![s] = None]
        /\ RecordClose(s)
        /\ Goto(t, "forgetting")
        /\ UNCHANGED <<active, tomb, txn, rtVars, sid, localVars, ops, crashes, histVars>>

CloseKeepsRoot(t) ==
    /\ pc[t] = "removing"
    /\ \/ sid[t] \notin root /\ UNCHANGED faults
       \/ sid[t] \in root /\ Fault
    /\ Prepare(t, ClosedPending(b[t]), b[t].gen, None, "retainingClosed")
    /\ Quiet /\ UNCHANGED <<rtVars, sid, base, cmd, ops>>

CloseForgets(t) ==
    /\ pc[t] = "forgetting"
    /\ ClearBinding(sid[t])
    /\ Goto(t, "burying")
    /\ UNCHANGED <<tomb, txn, store, rtVars, sid, localVars, ops, faults, crashes, histVars>>

CloseBuries(t) ==
    /\ pc[t] = "burying"
    /\ tomb' = tomb \cup {sid[t]}
    /\ closed' = closed \cup {sid[t]}
    /\ Return(t)
    /\ UNCHANGED <<fileVars, txn, store, rtVars, ops, faults, crashes, opened, commit, torn>>

Close(t) == (\E s \in Sessions \cup {None} : CloseNothing(t, s)) \/ CloseCleared(t)
            \/ (\E rec \in Addressed : CloseRead(t, rec)) \/ CloseReleases(t)
            \/ CloseRefused(t) \/ CloseTimesOut(t) \/ CloseUnreported(t) \/ CloseHeld(t)
            \/ CloseRemoves(t) \/ CloseKeepsRoot(t) \/ CloseForgets(t) \/ CloseBuries(t)

-----------------------------------------------------------------------------
(* reconcile_command *)

\* The late command of this binding is over.
Awaiting(rec) == rec.pend # 0 /\ rec.pend = lateSeq[rec.sid] /\ rec.sid \in root

\* Its result is preserved by the live runtime, or already is; the custody that
\* recorded it must be that of this command.
Preserve(s) ==
    \/ late[s] = "done" /\ rt[s] = "quarantined" /\ late' = [late EXCEPT ![s] = "preserved"]
    \/ late[s] \in {"preserved", "acknowledged"} /\ UNCHANGED late

\* The artifacts and the outcome of the late command, in the binding that still
\* names it as pending.
Projection(rec) ==
    [rec EXCEPT !.seq = lateSeq[rec.sid], !.recon = lateSeq[rec.sid], !.live = Alive(rec.sid)]

ReconcileRead(t, rec) ==
    /\ Request(t)
    /\ Awaiting(rec) /\ Preserve(rec.sid)
    /\ sid' = [sid EXCEPT ![t] = rec.sid]
    /\ Prepare(t, Projection(rec), rec.gen, rec.seq, "projecting")
    /\ Quiet /\ UNCHANGED <<rt, seq, lateSeq, base, cmd, faults>>

\* The pending command is taken out, and what is left to release noted.
Reconciled(rec) == [rec EXCEPT !.pend = 0, !.live = FALSE, !.state = "reconciled"]
CleanupPending(rec) == [rec EXCEPT !.state = "reconciled_cleanup_pending"]

ReconcileClears(t) == Prepare(t, Reconciled(b[t]), b[t].gen, None, "clearing")

ReconcileAcknowledges_Anyway(t) ==
    /\ pc[t] = "acknowledging"
    /\ \/ late' = [late EXCEPT ![sid[t]] = "acknowledged"] /\ UNCHANGED faults
       \/ Fault /\ UNCHANGED late
    /\ ReconcileClears(t)
    /\ UNCHANGED <<sid, base, cmd>>
    /\ Quiet /\ UNCHANGED <<rt, seq, lateSeq, ops>>
ReconcileAcknowledges(t) ==
    /\ pc[t] = "acknowledging"
    /\ \/ /\ late' = [late EXCEPT ![sid[t]] = "acknowledged"]
          /\ ReconcileClears(t)
          /\ UNCHANGED <<sid, base, cmd, faults>>
       \/ Fault /\ Return(t) /\ UNCHANGED late
    /\ Quiet /\ UNCHANGED <<rt, seq, lateSeq, ops>>

ReconcileReleases(t) ==
    LET s == sid[t]
    IN  /\ pc[t] = "releasing"
        /\ \/ /\ rt[s] \in {"none", "gone"} \/ Releasable(s)
              /\ rt' = [rt EXCEPT ![s] = IF Releasable(s) THEN "gone" ELSE rt[s]]
              /\ Return(t)
              /\ UNCHANGED faults
           \/ /\ Alive(s) /\ Fault
              /\ Prepare(t, CleanupPending(b[t]), b[t].gen, None, "retaining")
              /\ UNCHANGED <<rt, sid, base, cmd>>
        /\ Quiet /\ UNCHANGED <<seq, late, lateSeq, ops>>

Reconcile(t) == (\E rec \in Addressed : ReconcileRead(t, rec)) \/ ReconcileAcknowledges(t)
                \/ ReconcileReleases(t)

-----------------------------------------------------------------------------
\* The process stops: requests, tombstones and the runtime are lost, files and
\* the runtime's journal stay.
Crash ==
    /\ crashes < MaxCrashes /\ crashes' = crashes + 1
    /\ pc' = [t \in Threads |-> "idle"] /\ sid' = [t \in Threads |-> None]
    /\ b' = [t \in Threads |-> None] /\ base' = [t \in Threads |-> None]
    /\ exp' = [t \in Threads |-> [gen |-> 0, seq |-> None]]
    /\ cmd' = [t \in Threads |-> 0]
    /\ rt' = [s \in Sessions |-> "none"]
    /\ tomb' = {}
    /\ txn' = None
    /\ torn' = (torn \/ txn # None)
    /\ UNCHANGED <<fileVars, store, seq, late, lateSeq, ops, faults, opened, closed, commit>>

Next == \/ \E t \in Threads : Save(t) \/ Open(t) \/ Exec(t) \/ Status(t) \/ Close(t)
                              \/ Reconcile(t)
        \/ \E s \in Sessions : LateDone(s)
        \/ Crash

Spec == Init /\ [][Next]_vars

-----------------------------------------------------------------------------

\* The state is well formed (local_cli_service.py, the binding's fields).
FilesTyped ==
    /\ sess \in [Sessions -> Binding \cup {None}] /\ active \in Binding \cup {None}
    /\ commit \in [Sessions -> Binding \cup {None}]
    /\ txn \in Transaction \cup {None}
RequestsTyped ==
    /\ pc \in [Threads -> Points] /\ sid \in [Threads -> Sessions \cup {None}]
    /\ b \in [Threads -> Binding \cup {None}] /\ base \in [Threads -> Binding \cup {None}]
    /\ exp \in [Threads -> [gen : Nat, seq : Nat \cup {None}]]
    /\ cmd \in [Threads -> Nat]
RuntimeTyped ==
    /\ rt \in [Sessions -> Runtime] /\ late \in [Sessions -> Late]
    /\ seq \in [Sessions -> Nat] /\ lateSeq \in [Sessions -> Nat]
    /\ store \in [Sessions -> {"none", "open", "terminal"}]
CountsTyped ==
    /\ root \subseteq Sessions /\ tomb \subseteq Sessions
    /\ ops \in 0..MaxOps /\ faults \in 0..MaxFaults /\ crashes \in 0..MaxCrashes
    /\ opened \subseteq Sessions /\ closed \subseteq Sessions /\ torn \in BOOLEAN
TypeOK == FilesTyped /\ RequestsTyped /\ RuntimeTyped /\ CountsTyped

\* "A local CLI document is already open": at most one document is live.  A
\* command that failed makes the store's record terminal, and an open admitted
\* before the first was published then starts a second one (open_upload,
\* record_command).  This does not hold; see README, "Known differences".
OneLiveDocument ==
    \A s, r \in Sessions : Alive(s) /\ Alive(r) => s = r

\* The state is well formed, and the two projections are one logical commit: with no
\* save in progress the active one is its session's own, or that is gone
\* (_save_binding's rollback).
ProjectionsAgree ==
    /\ TypeOK
    /\ txn = None /\ ~torn /\ active # None => sess[active.sid] \in {active, None}

\* A late result never brings a closed session back (_save_binding's tombstone
\* and its generation and sequence checks, close).
ClosedStaysClosed ==
    \A s \in closed : sess[s] = None /\ (active = None \/ active.sid # s)

\* What a save of a session returned is never overwritten by an older command's
\* result: generation and native sequence only grow (_save_binding).
CommitsAdvance ==
    [][\A s \in Sessions : commit[s] # None =>
          commit'[s] = commit[s] \/ (commit'[s].gen > commit[s].gen /\ commit'[s].seq >= commit[s].seq)]_vars

\* A pending command leaves the binding only after its late result has been
\* acknowledged durably (reconcile_command; every other save keeps it).
PendingKept(s) ==
    commit[s] # None /\ commit[s].pend # 0 /\ commit'[s].pend = 0
        => late[s] = "acknowledged"

\* The managed files stay while the process that holds the document lives, whether its
\* timeout could be recorded or not, and, once a save has recorded it, across restarts too
\* until the late result is acknowledged (close, open_upload's handler,
\* _cleanup_managed_session_root).
FilesKept(s) ==
    Alive(s) \/ (commit[s] # None /\ commit[s].pend # 0 /\ late[s] # "acknowledged")
        => s \in root

\* A late result is acknowledged only while the committed binding still names its
\* command as pending, so that a reconciliation can take it over again
\* (reconcile_command projects first and clears last).
AcknowledgedWhilePending(s) ==
    late'[s] = "acknowledged" /\ late[s] # "acknowledged"
        => commit[s] # None /\ commit[s].pend = lateSeq[s]

\* A timeout that a save recorded is pending, with its files, until its result is
\* acknowledged, and until then the committed binding names it; one that no save recorded
\* keeps its files as long as the process lives (reconcile_command, close, _save_binding).
\* After a restart nothing remembers the second; see README, "Known differences".
LateResultsSurvive ==
    [][\A s \in Sessions :
          PendingKept(s) /\ AcknowledgedWhilePending(s) /\ FilesKept(s)']_vars
=============================================================================
