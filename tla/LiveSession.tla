---------------------------- MODULE LiveSession ----------------------------
(***************************************************************************)
(* One live editing session of the local CLI runtime                       *)
(* (src/app/local_cli_runtime.py, class LocalCliLiveSession, and the part  *)
(* of LocalCliRuntimeManager that registers it).                           *)
(*                                                                         *)
(* One thread, the "owning STA", opens a native document and serves a FIFO *)
(* queue; any number of request threads admit commands, closes, recoveries *)
(* and acknowledgements, and give up waiting when their timeout expires.   *)
(* A section under `_state_lock' is one action.  Code that touches shared  *)
(* fields without the lock is cut wherever another thread can interleave,  *)
(* so `sta' names the point the owning thread has reached.                 *)
(*                                                                         *)
(* An "object" is one _LiveCommand: an ordinary command, one close attempt *)
(* or the synthetic record of a start that timed out.  The order of calls, *)
(* every refusal and every failure path is kept; results, journals,        *)
(* artifacts and SDK values are abstracted to what the guards read.        *)
(***************************************************************************)
EXTENDS Naturals, Sequences, FiniteSets

CONSTANTS
    Cmds,        \* ordinary commands, one per call of execute()
    Closes,      \* attempts to close, one per call of close()
    Ackers,      \* threads that may be inside acknowledge_reconciliation()
    Kinds,       \* the kinds of command callers issue, a subset of AllKinds
    PriorDirty,  \* the values callers pass as prior_dirty
    MaxFaults,   \* how many journal writes may fail
    Start,       \* the object of the start() call
    Recover,     \* the `__recover__' queue item
    None

(***************************************************************************)
(* The command names fall into six classes, by what _run does with them:   *)
(* "read"    audited reads: no intent, no debt                             *)
(* "bundle"  command-bundle: marks intent itself just before it edits      *)
(* "edit"    members of _MUTATING_COMMANDS; "other": unlisted, e.g. pycall *)
(* "history" undo/redo: exempt when exactly clean, and mutating            *)
(* "export"  export and navigation: exempt when exactly clean              *)
(***************************************************************************)
AllKinds    == {"read", "bundle", "edit", "other", "history", "export", "save"}
MarksDebt_NoEdit == {"other", "history", "export"}
MarksDebt   == {"edit", "other", "history", "export"}
ExactExempt == {"history", "export"}
FailureHolds == {"edit", "history", "save"}
MayEdit     == {"bundle", "edit", "other", "history"}

Obj   == Cmds \cup Closes \cup {Start}
Items == Cmds \cup Closes \cup {Recover}

ASSUME ConstantsAssumption ==
    /\ Kinds \subseteq AllKinds
    /\ PriorDirty \subseteq BOOLEAN
    /\ MaxFaults \in Nat
    /\ Cmds \cap Closes = {}
    /\ Start \notin Cmds \cup Closes
    /\ Recover \notin Obj
    /\ None \notin Obj \cup {Recover} \cup AllKinds

After == {"completed_after_timeout", "failed_after_timeout"}
CmdState == {"none", "queued", "running", "succeeded", "failed", "cancelled",
             "timed_out_pending"} \cup After
Recovery == {"none", "pending_execution", "quarantined", "saving", "failed",
             "preserved"}
StaPoint == {"opening", "opened", "started", "idle", "took", "running", "ran",
             "settling", "failing", "reporting", "recovering", "readingFlag",
             "deciding", "refusing", "finalizing", "checking", "quitting",
             "issuing", "exiting", "released", "unreleased", "heldLoop", "done"}

VARIABLES
    state, timedOut, reconciled, recovery, fut, kind,  \* the _LiveCommand objects
    caller,      \* where the thread that waits on an object stands
    queue,       \* _commands
    sta, cur,    \* the owning thread: its point and the object in its hands
    outcome, exempt,  \* locals of _run: what the handler did, clean_export
    closing, terminal, quarantined, allow, held, debt, closed,
    closeReg,    \* the object registered under the id ':close'
    recTarget,   \* _recovery_target_id while _recovery_future is set
    acker,       \* acknowledge_reconciliation() between its two lock sections
    registered,  \* the manager still holds the session
    faults,      \* journal failures so far
    app, flag,   \* the native editor and its IsModified
    unsaved,     \* history: edits that no proved save or recovery preserves
    owed,        \* history: a caller reported prior edits, not saved since
    ran          \* history: commands whose handler was entered

cmdVars    == <<state, timedOut, reconciled, recovery, fut, kind>>
localVars  == <<outcome, exempt>>
gateVars   == <<closing, terminal, quarantined, allow, held>>
nativeVars == <<app, flag, unsaved>>
vars == <<cmdVars, caller, queue, sta, cur, localVars, gateVars, debt, closed,
          closeReg, recTarget, acker, registered, faults, nativeVars, owed, ran>>

Queued == {queue[i] : i \in DOMAIN queue}

\* The objects _commands_by_id knows.
Registry == {c \in Cmds : state[c] # "none"} \cup ({closeReg} \ {None})
              \cup {o \in {Start} : state[o] # "none"}

\* has_unreconciled_reconciliation()
Unreconciled ==
    \/ held
    \/ \E o \in Registry : /\ o \in timedOut
                           /\ state[o] \in After \cup {"timed_out_pending"}
                           /\ o \notin reconciled

\* is_alive()
Alive == sta # "done" /\ ~closed

\* Set the future of o unless somebody already has.
Resolve(f, o, answer) == IF f[o] = "pending" THEN [f EXCEPT ![o] = answer] ELSE f

\* _cancel_pending_commands() on the futures and states of the drained objects.
DrainFut(f, S) ==
    [o \in Obj |-> IF o \in S \ timedOut /\ f[o] = "pending" THEN "refused" ELSE f[o]]
DrainState_AllPending(s, f, S) ==
    [o \in Obj |-> IF o \in Cmds /\ f[o] = "pending" THEN "cancelled" ELSE s[o]]
DrainState(s, f, S) ==
    [o \in Obj |-> IF \/ o \in S \ timedOut /\ f[o] = "pending"
                      \/ o \in S /\ f[o] # "pending" /\ s[o] = "queued"
                   THEN "cancelled" ELSE s[o]]

\* A journal write that fails.
JournalFault == faults < MaxFaults /\ faults' = faults + 1

\* _hold_native_custody(): published before any report can fail.
Hold == /\ held' = TRUE
        /\ quarantined' = TRUE
        /\ allow' = FALSE
        /\ terminal' = TRUE

-----------------------------------------------------------------------------
Init ==
    /\ state = [o \in Obj |-> "none"]
    /\ timedOut = {}
    /\ reconciled = {}
    /\ recovery = [o \in Obj |-> "none"]
    /\ fut = [o \in Obj |-> IF o = Start THEN "pending" ELSE "none"]
    /\ kind = [c \in Cmds |-> None]
    /\ caller = [o \in Obj |-> IF o = Start THEN "waiting" ELSE "idle"]
    /\ queue = <<>>
    /\ sta = "opening"
    /\ cur = None
    /\ outcome = "none"
    /\ exempt = FALSE
    /\ closing = FALSE
    /\ terminal = FALSE
    /\ quarantined = FALSE
    /\ allow = FALSE
    /\ held = FALSE
    /\ debt = FALSE
    /\ closed = FALSE
    /\ closeReg = None
    /\ recTarget = None
    /\ acker = [a \in Ackers |-> None]
    /\ registered = TRUE
    /\ faults = 0
    /\ app = "absent"
    /\ flag = FALSE
    /\ unsaved = FALSE
    /\ owed = FALSE
    /\ ran = {}

-----------------------------------------------------------------------------
(* Request threads: execute(), close(), waiting, and timing out. *)

\* The service knows the session only once open_session() has returned, and
\* reaches it through the manager.
Reachable == registered /\ caller[Start] = "returned"

Admits == ~closed /\ ~closing /\ ~terminal

\* execute(): admission and enqueueing under one lock.
ExecuteAdmit(c, k, prior) ==
    /\ caller[c] = "idle"
    /\ Reachable /\ sta # "done"
    /\ Admits
    /\ debt' = (debt \/ prior)
    /\ owed' = (owed \/ prior)
    /\ kind' = [kind EXCEPT ![c] = k]
    /\ state' = [state EXCEPT ![c] = "queued"]
    /\ fut' = [fut EXCEPT ![c] = "pending"]
    /\ \/ /\ queue' = Append(queue, c)
          /\ caller' = [caller EXCEPT ![c] = "waiting"]
          /\ UNCHANGED faults
       \/ /\ JournalFault           \* registered, never enqueued
          /\ caller' = [caller EXCEPT ![c] = "returned"]
          /\ UNCHANGED queue
    /\ UNCHANGED <<timedOut, reconciled, recovery, sta, cur, localVars, gateVars,
                   closed, closeReg, recTarget, acker, registered, nativeVars, ran>>

CloseFenced == (held \/ quarantined) /\ ~allow

\* close(): the sentinel is queued under the lock that sets _closing.
CloseAdmit(k, prior) ==
    /\ caller[k] = "idle"
    /\ Reachable
    /\ ~closed /\ ~CloseFenced /\ ~closing
    /\ debt' = (debt \/ prior)
    /\ owed' = (owed \/ prior)
    /\ closing' = TRUE
    /\ closeReg' = k
    /\ state' = [state EXCEPT ![k] = "queued"]
    /\ fut' = [fut EXCEPT ![k] = "pending"]
    /\ \/ /\ queue' = Append(queue, k)
          /\ caller' = [caller EXCEPT ![k] = "waiting"]
          /\ UNCHANGED faults
       \/ /\ JournalFault           \* _closing stays set, nothing is queued
          /\ caller' = [caller EXCEPT ![k] = "returned"]
          /\ UNCHANGED queue
    /\ UNCHANGED <<timedOut, reconciled, recovery, kind, sta, cur, localVars,
                   terminal, quarantined, allow, held, closed, recTarget, acker,
                   registered, nativeVars, ran>>

\* A close that is refused at admission still reports the binding's debt.
CloseRefused ==
    /\ Reachable
    /\ ~closed /\ (CloseFenced \/ closing)
    /\ TRUE \in PriorDirty
    /\ debt' = TRUE
    /\ owed' = TRUE
    /\ UNCHANGED <<cmdVars, caller, queue, sta, cur, localVars, gateVars, closed,
                   closeReg, recTarget, acker, registered, faults, nativeVars, ran>>

\* The waiting thread gets the answer.  open_session() forgets a session whose
\* start failed, unless it became terminal.
Return(o) ==
    /\ caller[o] = "waiting"
    /\ fut[o] # "pending"
    /\ caller' = [caller EXCEPT ![o] = "returned"]
    /\ registered' = (registered /\ ~(o = Start /\ fut[o] = "refused" /\ ~terminal))
    /\ UNCHANGED <<cmdVars, queue, sta, cur, localVars, gateVars, debt, closed,
                   closeReg, recTarget, acker, faults, nativeVars, owed, ran>>

\* future.result(timeout) gives up; the lock is taken only later.
Expire(o) ==
    /\ caller[o] = "waiting"
    /\ fut[o] = "pending"
    /\ caller' = [caller EXCEPT ![o] = "expired"]
    /\ UNCHANGED <<cmdVars, queue, sta, cur, localVars, gateVars, debt, closed,
                   closeReg, recTarget, acker, registered, faults, nativeVars, owed, ran>>

\* What _terminalize_timeout() makes of the state the object has by then.
LateState(s) ==
    CASE s \in {"succeeded", "completed_after_timeout"} -> "completed_after_timeout"
      [] s \in {"failed", "failed_after_timeout"}       -> "failed_after_timeout"
      [] OTHER                                          -> "timed_out_pending"

\* Only the first timeout quarantines.
FirstTimeout_Any == caller[Start] = "returned"
FirstTimeout == ~terminal

\* _terminalize_timeout() when the session is terminal already: nothing.
TerminalizeLate(o) ==
    /\ caller[o] = "expired"
    /\ terminal
    /\ caller' = [caller EXCEPT ![o] = "returned"]
    /\ UNCHANGED <<cmdVars, queue, sta, cur, localVars, gateVars, debt, closed,
                   closeReg, recTarget, acker, registered, faults, nativeVars, owed, ran>>

\* _terminalize_timeout(): the first timeout quarantines the session and drains
\* the queue.
Terminalize(o) ==
    LET late == LateState(state[o])
        f    == IF o # Start /\ late = "timed_out_pending"
                THEN Resolve(fut, o, "refused") ELSE fut
        s    == [state EXCEPT ![o] = late]
    IN  /\ caller[o] = "expired"
        /\ FirstTimeout
        /\ caller' = [caller EXCEPT ![o] = "returned"]
        /\ terminal' = TRUE
        /\ quarantined' = TRUE
        /\ allow' = FALSE
        /\ closing' = FALSE
        /\ timedOut' = timedOut \cup {o}
        /\ recovery' = [recovery EXCEPT ![o] = IF late = "timed_out_pending"
                                              THEN "pending_execution" ELSE "quarantined"]
        /\ fut' = DrainFut(f, Queued \ {o})
        /\ state' = DrainState(s, f, Queued \ {o})
        /\ queue' = <<>>
        /\ UNCHANGED <<reconciled, kind, sta, cur, localVars, held, debt, closed,
                       closeReg, recTarget, acker, registered, faults, nativeVars,
                       owed, ran>>

-----------------------------------------------------------------------------
(* Request threads: reconcile_command(), acknowledge_reconciliation() and the
   manager's reaping. *)

\* reconcile_command(): ask the owning thread for a recovery copy.
Reconcile(o) ==
    /\ registered
    /\ o \in Registry \ reconciled
    /\ ~held
    /\ state[o] \in After
    /\ recovery[o] # "preserved"
    /\ recTarget # o
    /\ IF sta = "done"
       THEN /\ recovery' = [recovery EXCEPT ![o] = "failed"]
            /\ UNCHANGED <<queue, recTarget>>
       ELSE /\ recovery' = [recovery EXCEPT ![o] = "saving"]
            /\ recTarget' = o
            /\ queue' = Append(queue, Recover)
    /\ UNCHANGED <<state, timedOut, reconciled, fut, kind, caller, sta, cur, localVars,
                   gateVars, debt, closed, closeReg, acker, registered, faults,
                   nativeVars, owed, ran>>

Preserved_OrSaving(o) == recovery[o] \in {"preserved", "saving"}
Preserved(o) == recovery[o] = "preserved"

\* acknowledge_reconciliation(), first section: mark, before the journal write.
AckMark(a, o) ==
    /\ acker[a] = None
    /\ registered
    /\ o \in Registry
    /\ ~held
    /\ Preserved(o)
    /\ acker' = [acker EXCEPT ![a] = o]
    /\ reconciled' = reconciled \cup {o}
    /\ UNCHANGED <<state, timedOut, recovery, fut, kind, caller, queue, sta, cur,
                   localVars, gateVars, debt, closed, closeReg, recTarget, registered,
                   faults, nativeVars, owed, ran>>

\* Second section: the journal write succeeded, native release is permitted.
AckAllow(a) ==
    /\ acker[a] # None
    /\ acker' = [acker EXCEPT ![a] = None]
    /\ allow' = TRUE
    /\ UNCHANGED <<cmdVars, caller, queue, sta, cur, localVars, closing, terminal,
                   quarantined, held, debt, closed, closeReg, recTarget, registered,
                   faults, nativeVars, owed, ran>>

\* Second section: the journal write failed, the mark is taken back.
AckRevert(a) ==
    /\ acker[a] # None
    /\ JournalFault
    /\ reconciled' = reconciled \ {acker[a]}
    /\ acker' = [acker EXCEPT ![a] = None]
    /\ UNCHANGED <<state, timedOut, recovery, fut, kind, caller, queue, sta, cur,
                   localVars, gateVars, debt, closed, closeReg, recTarget, registered,
                   nativeVars, owed, ran>>

\* close_session() and reap_settled_sessions() forget a session that is gone.
Reap ==
    /\ registered
    /\ ~Alive
    /\ ~Unreconciled
    /\ registered' = FALSE
    /\ UNCHANGED <<cmdVars, caller, queue, sta, cur, localVars, gateVars, debt, closed,
                   closeReg, recTarget, acker, faults, nativeVars, owed, ran>>

-----------------------------------------------------------------------------
(* The owning thread, _run(): startup. *)

\* Nothing native was constructed: the session ends without a hold.
StaStartFailsEarly ==
    /\ sta = "opening"
    /\ terminal' = TRUE
    /\ fut' = Resolve(fut, Start, "refused")
    /\ sta' = "finalizing"
    /\ UNCHANGED <<state, timedOut, reconciled, recovery, kind, caller, queue, cur,
                   localVars, closing, quarantined, allow, held, debt, closed, closeReg,
                   recTarget, acker, registered, faults, nativeVars, owed, ran>>

\* An error after the constructor was invoked, up to the main loop: held.
StaStartFailsLate ==
    /\ sta \in {"opening", "opened", "started"}
    /\ Hold
    /\ app' = "open"
    /\ fut' = Resolve(fut, Start, "refused")
    /\ sta' = "finalizing"
    /\ UNCHANGED <<state, timedOut, reconciled, recovery, kind, caller, queue, cur,
                   localVars, closing, debt, closed, closeReg, recTarget, acker,
                   registered, faults, flag, unsaved, owed, ran>>

\* The document is open; a timeout or a close may have come first.
StaOpened ==
    LET cancelled == terminal \/ closing
    IN  /\ sta = "opening"
        /\ app' = "open"
        /\ fut' = IF cancelled THEN Resolve(fut, Start, "refused") ELSE fut
        /\ sta' = IF cancelled /\ ~quarantined THEN "finalizing" ELSE "opened"
        /\ UNCHANGED <<state, timedOut, reconciled, recovery, kind, caller, queue, cur,
                       localVars, gateVars, debt, closed, closeReg, recTarget, acker,
                       registered, faults, flag, unsaved, owed, ran>>

StaStarted ==
    /\ sta = "opened"
    /\ fut' = Resolve(fut, Start, "answered")
    /\ sta' = "started"
    /\ UNCHANGED <<state, timedOut, reconciled, recovery, kind, caller, queue, cur,
                   localVars, gateVars, debt, closed, closeReg, recTarget, acker,
                   registered, faults, nativeVars, owed, ran>>

\* Settle the record of a start() that timed out, if it is there already.
StaSettleStart ==
    /\ sta = "started"
    /\ sta' = "idle"
    /\ IF state[Start] = "timed_out_pending"
       THEN /\ state' = [state EXCEPT ![Start] = "completed_after_timeout"]
            /\ recovery' = [recovery EXCEPT ![Start] = "quarantined"]
       ELSE UNCHANGED <<state, recovery>>
    /\ UNCHANGED <<timedOut, reconciled, fut, kind, caller, queue, cur, localVars,
                   gateVars, debt, closed, closeReg, recTarget, acker, registered,
                   faults, nativeVars, owed, ran>>

-----------------------------------------------------------------------------
(* The owning thread: the command loop. *)

\* _commands.get(); what follows takes the lock in a later step.
StaTake ==
    /\ sta = "idle"
    /\ queue # <<>>
    /\ queue' = Tail(queue)
    /\ cur' = Head(queue)
    /\ sta' = CASE Head(queue) \in Closes -> "readingFlag"
                [] Head(queue) = Recover   -> "recovering"
                [] OTHER                   -> "took"
    /\ UNCHANGED <<cmdVars, caller, localVars, gateVars, debt, closed, closeReg,
                   recTarget, acker, registered, faults, nativeVars, owed, ran>>

StaSkip_Silent ==
    /\ sta = "took"
    /\ state[cur] # "queued" \/ terminal
    /\ state' = IF state[cur] = "queued" THEN [state EXCEPT ![cur] = "cancelled"] ELSE state
    /\ sta' = "idle"
    /\ cur' = None
    /\ UNCHANGED <<timedOut, reconciled, recovery, fut, kind, caller, queue, localVars,
                   gateVars, debt, closed, closeReg, recTarget, acker, registered,
                   faults, nativeVars, owed, ran>>

\* The session became terminal, or the command was settled, before it ran.
StaSkip ==
    /\ sta = "took"
    /\ state[cur] # "queued" \/ terminal
    /\ IF state[cur] = "queued"
       THEN /\ state' = [state EXCEPT ![cur] = "cancelled"]
            /\ fut' = Resolve(fut, cur, "refused")
       ELSE UNCHANGED <<state, fut>>
    /\ sta' = "idle"
    /\ cur' = None
    /\ UNCHANGED <<timedOut, reconciled, recovery, kind, caller, queue, localVars,
                   gateVars, debt, closed, closeReg, recTarget, acker, registered,
                   faults, nativeVars, owed, ran>>

\* Mark running, decide the exact-clean exemption, record the edit intent.
StaBegin ==
    /\ sta = "took"
    /\ state[cur] = "queued" /\ ~terminal
    /\ state' = [state EXCEPT ![cur] = "running"]
    /\ exempt' = (kind[cur] \in ExactExempt /\ ~debt /\ ~flag)
    /\ debt' = (debt \/ kind[cur] \in MarksDebt)
    /\ ran' = ran \cup {cur}
    /\ sta' = "running"
    /\ UNCHANGED <<timedOut, reconciled, recovery, fut, kind, caller, queue, cur, outcome,
                   gateVars, closed, closeReg, recTarget, acker, registered, faults,
                   nativeVars, owed>>

\* The native call of a command: what it may do to the document.
NativeNothing == UNCHANGED <<unsaved, flag, debt, exempt>>
NativeEdit_Unmarked(k) == /\ unsaved' = TRUE
                          /\ flag' \in IF k = "history" THEN {TRUE} ELSE BOOLEAN
                          /\ UNCHANGED <<debt, exempt>>
NativeEdit(k) == /\ unsaved' = TRUE
                 /\ flag' \in IF k = "history" THEN {TRUE} ELSE BOOLEAN
                 /\ debt' = (debt \/ k = "bundle")
                 /\ UNCHANGED exempt
\* Writing a private copy clears IsModified and ends the command's exemption.
NativePrivateCopy == /\ flag' = FALSE
                     /\ exempt' = FALSE
                     /\ UNCHANGED <<unsaved, debt>>
NativeSave == /\ unsaved' = FALSE
              /\ flag' = FALSE
              /\ UNCHANGED <<debt, exempt>>

\* command.handler(handle): "proved" is an ok save with its confirmation.
StaHandler ==
    LET k == kind[cur]
    IN  /\ sta = "running"
        /\ \/ NativeNothing /\ outcome' \in {"ok", "fail", "raise"}
           \/ k \in MayEdit /\ NativeEdit(k) /\ outcome' \in {"ok", "fail", "raise"}
           \/ k = "export" /\ NativePrivateCopy /\ outcome' \in {"ok", "fail", "raise"}
           \/ k = "save" /\ NativeSave /\ outcome' = "proved"
        /\ sta' = "ran"
        /\ UNCHANGED <<cmdVars, caller, queue, cur, gateVars, closed, closeReg, recTarget,
                       acker, registered, faults, app, owed, ran>>

\* The exact-clean projection: exempt before and exactly clean after.
ProjectsClean == outcome # "raise" /\ exempt /\ ~flag

\* After the handler, without the lock: the projection, then the decision to hold
\* a failed mutator or a raised exception.
StaAssess ==
    /\ sta = "ran"
    /\ debt' = (debt /\ ~ProjectsClean)
    /\ sta' = IF \/ outcome = "raise"
                 \/ outcome = "fail" /\ kind[cur] \in FailureHolds
              THEN "failing" ELSE "settling"
    /\ UNCHANGED <<cmdVars, caller, queue, cur, localVars, gateVars, closed, closeReg,
                   recTarget, acker, registered, faults, nativeVars, owed, ran>>

\* The state a command settles in.
Settled_KeepsTimeout(o, ok) == IF o \in timedOut THEN "timed_out_pending"
                               ELSE IF ok THEN "succeeded" ELSE "failed"
Settled(o, ok) == IF o \in timedOut
                  THEN IF ok THEN "completed_after_timeout" ELSE "failed_after_timeout"
                  ELSE IF ok THEN "succeeded" ELSE "failed"

\* Terminal state, journal, debt and answer, under one lock.
StaSettle ==
    /\ sta = "settling"
    /\ state' = [state EXCEPT ![cur] = Settled(cur, outcome # "fail")]
    /\ recovery' = IF cur \in timedOut
                   THEN [recovery EXCEPT ![cur] = "quarantined"] ELSE recovery
    /\ \/ LET discharge == outcome = "proved" /\ cur \notin timedOut /\ ~quarantined
          IN  /\ debt' = (debt /\ ~discharge)
              /\ owed' = (owed /\ ~discharge)
              /\ fut' = Resolve(fut, cur, "answered")
              /\ sta' = "reporting"
              /\ UNCHANGED faults
       \/ /\ JournalFault
          /\ sta' = "failing"
          /\ UNCHANGED <<debt, owed, fut>>
    /\ UNCHANGED <<timedOut, reconciled, kind, caller, queue, cur, localVars, gateVars,
                   closed, closeReg, recTarget, acker, registered, nativeVars, ran>>

\* _hold_native_custody() and _settle_held_command().
StaHold ==
    /\ sta = "failing"
    /\ Hold
    /\ state' = [state EXCEPT ![cur] = Settled(cur, FALSE)]
    /\ recovery' = [recovery EXCEPT ![cur] = "quarantined"]
    /\ fut' = Resolve(fut, cur, IF outcome = "fail" THEN "answered" ELSE "refused")
    /\ sta' = "reporting"
    /\ UNCHANGED <<timedOut, reconciled, kind, caller, queue, cur, localVars, closing,
                   debt, closed, closeReg, recTarget, acker, registered, faults,
                   nativeVars, owed, ran>>

\* The final journal write; if it fails the session is held.
StaReport ==
    /\ sta = "reporting"
    /\ sta' = "idle"
    /\ cur' = None
    /\ outcome' = "none"
    /\ exempt' = FALSE
    /\ \/ UNCHANGED <<terminal, quarantined, allow, held, recovery, faults>>
       \/ /\ JournalFault
          /\ Hold
          /\ recovery' = [recovery EXCEPT ![cur] = "quarantined"]
    /\ UNCHANGED <<state, timedOut, reconciled, fut, kind, caller, queue, closing, debt,
                   closed, closeReg, recTarget, acker, registered, nativeVars, owed, ran>>

\* _perform_recovery(): save a copy of the document for the timed-out command.
StaRecover ==
    /\ sta = "recovering"
    /\ \/ /\ recTarget # None
          /\ recovery' = [recovery EXCEPT ![recTarget] = "preserved"]
          /\ unsaved' = FALSE
          /\ flag' \in {flag, FALSE}
       \/ /\ recovery' = IF recTarget # None /\ recovery[recTarget] # "preserved"
                         THEN [recovery EXCEPT ![recTarget] = "failed"] ELSE recovery
          /\ UNCHANGED <<unsaved, flag>>
    /\ recTarget' = None
    /\ sta' = "idle"
    /\ cur' = None
    /\ UNCHANGED <<state, timedOut, reconciled, fut, kind, caller, queue, localVars,
                   gateVars, debt, closed, closeReg, acker, registered, faults, app,
                   owed, ran>>

-----------------------------------------------------------------------------
(* The owning thread: a close sentinel, re-checked at dequeue. *)

\* Read IsModified, unless a hold or a permitted cleanup makes it irrelevant; a
\* read that raises holds the session.
StaReadFlag ==
    /\ sta = "readingFlag"
    /\ sta' = "deciding"
    /\ \/ /\ exempt' = (~held /\ ~allow /\ flag)     \* native_modified
          /\ UNCHANGED <<gateVars, recovery>>
       \/ /\ ~held /\ ~allow
          /\ Hold
          /\ recovery' = [recovery EXCEPT ![cur] = "quarantined"]
          /\ UNCHANGED <<closing, exempt>>
    /\ UNCHANGED <<state, timedOut, reconciled, fut, kind, caller, queue, cur, outcome,
                   debt, closed, closeReg, recTarget, acker, registered, faults,
                   nativeVars, owed, ran>>

CloseMustWait == ~allow /\ (held \/ debt \/ exempt)

StaRefuseClose_StaysClosing ==
    /\ sta = "deciding"
    /\ CloseMustWait
    /\ state' = [state EXCEPT ![cur] = "failed"]
    /\ sta' = "refusing"
    /\ UNCHANGED <<timedOut, reconciled, recovery, fut, kind, caller, queue, cur,
                   localVars, gateVars, debt, closed, closeReg,
                   recTarget, acker, registered, faults, nativeVars, owed, ran>>

\* Refuse before any teardown: the session stays usable.
StaRefuseClose ==
    /\ sta = "deciding"
    /\ CloseMustWait
    /\ state' = [state EXCEPT ![cur] = "failed"]
    /\ closing' = FALSE
    /\ sta' = "refusing"
    /\ UNCHANGED <<timedOut, reconciled, recovery, fut, kind, caller, queue, cur,
                   localVars, terminal, quarantined, allow, held, debt, closed, closeReg,
                   recTarget, acker, registered, faults, nativeVars, owed, ran>>

StaReplyRefused ==
    /\ sta = "refusing"
    /\ fut' = Resolve(fut, cur, "refused")
    /\ sta' = "idle"
    /\ cur' = None
    /\ exempt' = FALSE
    /\ UNCHANGED <<state, timedOut, reconciled, recovery, kind, caller, queue, outcome,
                   gateVars, debt, closed, closeReg, recTarget, acker, registered,
                   faults, nativeVars, owed, ran>>

\* Leave the command loop.
StaAcceptClose ==
    /\ sta = "deciding"
    /\ ~CloseMustWait
    /\ state' = [state EXCEPT ![cur] = "running"]
    /\ sta' = "finalizing"
    /\ exempt' = FALSE
    /\ UNCHANGED <<timedOut, reconciled, recovery, fut, kind, caller, queue, cur, outcome,
                   gateVars, debt, closed, closeReg, recTarget, acker, registered,
                   faults, nativeVars, owed, ran>>

-----------------------------------------------------------------------------
(* The owning thread: _finalize() and _close_original_native(). *)

\* `permitted' is evaluated once, before the watchdog is joined.
StaPermit ==
    /\ sta = "finalizing"
    /\ sta' = CASE quarantined /\ ~allow -> "unreleased"
                [] app = "absent"        -> "released"
                [] OTHER                 -> "checking"
    /\ UNCHANGED <<cmdVars, caller, queue, cur, localVars, gateVars, debt, closed,
                   closeReg, recTarget, acker, registered, faults, nativeVars, owed, ran>>

\* healthy()
Healthy == /\ ~held
           /\ ~quarantined \/ allow
           /\ closeReg \notin timedOut

\* Authority, debt, original identity and an exactly clean document.
StaCheckClean ==
    /\ sta = "checking"
    /\ Healthy
    /\ ~debt \/ allow
    /\ ~flag
    /\ sta' = "quitting"
    /\ UNCHANGED <<cmdVars, caller, queue, cur, localVars, gateVars, debt, closed,
                   closeReg, recTarget, acker, registered, faults, nativeVars, owed, ran>>

\* Authority once more, just before the call and outside the lock.
StaCheckAgain ==
    /\ sta = "quitting"
    /\ Healthy
    /\ sta' = "issuing"
    /\ UNCHANGED <<cmdVars, caller, queue, cur, localVars, gateVars, debt, closed,
                   closeReg, recTarget, acker, registered, faults, nativeVars, owed, ran>>

\* One raw Quit.
StaQuit ==
    /\ sta = "issuing"
    /\ app' = "quit"
    /\ sta' = "exiting"
    /\ UNCHANGED <<cmdVars, caller, queue, cur, localVars, gateVars, debt, closed,
                   closeReg, recTarget, acker, registered, faults, flag, unsaved, owed, ran>>

\* The process exited and both COM balances returned.
StaExited ==
    /\ sta = "exiting"
    /\ Healthy
    /\ sta' = "released"
    /\ UNCHANGED <<cmdVars, caller, queue, cur, localVars, gateVars, debt, closed,
                   closeReg, recTarget, acker, registered, faults, nativeVars, owed, ran>>

\* Any check or native call that fails, at any boundary: held.
StaTeardownFails ==
    /\ sta \in {"checking", "quitting", "issuing", "exiting"}
    /\ Hold
    /\ recovery' = IF closeReg = None THEN recovery
                   ELSE [recovery EXCEPT ![closeReg] = "quarantined"]
    /\ sta' = "unreleased"
    /\ UNCHANGED <<state, timedOut, reconciled, fut, kind, caller, queue, cur, localVars,
                   closing, debt, closed, closeReg, recTarget, acker, registered,
                   faults, nativeVars, owed, ran>>

\* Native completion: settle what is left, then answer the close.
StaComplete ==
    LET others == Registry \ {closeReg}
        f1 == [o \in Obj |-> IF o \in others /\ o # Start /\ fut[o] = "pending"
                             THEN "refused" ELSE fut[o]]
        f2 == DrainFut(f1, Queued)
        s1 == [o \in Obj |->
                 IF o = closeReg THEN Settled(o, TRUE)
                 ELSE IF /\ o \in others \cap timedOut
                         /\ state[o] = "timed_out_pending" THEN "failed_after_timeout"
                 ELSE state[o]]
    IN  /\ sta = "released"
        /\ closed' = TRUE
        /\ state' = DrainState(s1, f1, Queued)
        /\ fut' = IF closeReg = None THEN f2 ELSE Resolve(f2, closeReg, "answered")
        /\ queue' = <<>>
        /\ cur' = None
        /\ sta' = "done"
        /\ UNCHANGED <<timedOut, reconciled, recovery, kind, caller, localVars, gateVars,
                       debt, closeReg, recTarget, acker, registered, faults, nativeVars,
                       owed, ran>>

\* No native completion: the close failed, the queue is drained, and the thread
\* stays only if the session is held ("heldLoop": it blocks on the queue, which
\* nobody can add to any more).
StaUnreleased ==
    LET s1 == IF closeReg = None THEN state
              ELSE [state EXCEPT ![closeReg] = Settled(closeReg, FALSE)]
        f1 == DrainFut(fut, Queued)
    IN  /\ sta = "unreleased"
        /\ state' = DrainState(s1, fut, Queued)
        /\ fut' = IF closeReg = None THEN f1 ELSE Resolve(f1, closeReg, "refused")
        /\ queue' = <<>>
        /\ cur' = None
        /\ sta' = IF held /\ ~allow THEN "heldLoop" ELSE "done"
        /\ UNCHANGED <<timedOut, reconciled, recovery, kind, caller, localVars, gateVars,
                       debt, closed, closeReg, recTarget, acker, registered, faults,
                       nativeVars, owed, ran>>

-----------------------------------------------------------------------------
Sta ==
    \/ StaStartFailsEarly \/ StaStartFailsLate \/ StaOpened \/ StaStarted
    \/ StaSettleStart \/ StaTake \/ StaSkip \/ StaBegin \/ StaHandler \/ StaAssess
    \/ StaSettle \/ StaHold \/ StaReport \/ StaRecover \/ StaReadFlag
    \/ StaRefuseClose \/ StaReplyRefused \/ StaAcceptClose \/ StaPermit
    \/ StaCheckClean \/ StaCheckAgain \/ StaQuit \/ StaExited \/ StaTeardownFails \/ StaComplete
    \/ StaUnreleased

Callers ==
    \/ \E c \in Cmds, k \in Kinds, p \in PriorDirty : ExecuteAdmit(c, k, p)
    \/ \E c \in Closes, p \in PriorDirty : CloseAdmit(c, p)
    \/ CloseRefused
    \/ \E o \in Obj : Return(o) \/ Expire(o) \/ TerminalizeLate(o) \/ Terminalize(o)
    \/ \E o \in Obj : Reconcile(o)
    \/ \E a \in Ackers, o \in Obj : AckMark(a, o)
    \/ \E a \in Ackers : AckAllow(a) \/ AckRevert(a)
    \/ Reap

Next == Sta \/ Callers

Spec == Init /\ [][Next]_vars

(***************************************************************************)
(* Native calls return and the owning thread keeps being scheduled.        *)
(* Callers need not act, except where a property is about what they ask.   *)
(***************************************************************************)
FairSpec == Spec /\ WF_vars(Sta)
AskingSpec == FairSpec /\ \A o \in Obj : WF_vars(Reconcile(o) \/ Terminalize(o))

-----------------------------------------------------------------------------
ObjectsOK ==
    /\ state \in [Obj -> CmdState]
    /\ timedOut \subseteq Obj
    /\ reconciled \subseteq Obj
    /\ recovery \in [Obj -> Recovery]
    /\ fut \in [Obj -> {"none", "pending", "answered", "refused"}]
    /\ kind \in [Cmds -> AllKinds \cup {None}]
    /\ caller \in [Obj -> {"idle", "waiting", "expired", "returned"}]

ControlOK ==
    /\ queue \in Seq(Items)
    /\ sta \in StaPoint
    /\ cur \in Items \cup {None}
    /\ outcome \in {"none", "ok", "proved", "fail", "raise"}
    /\ closeReg \in Closes \cup {None}
    /\ recTarget \in Obj \cup {None}
    /\ acker \in [Ackers -> Obj \cup {None}]
    /\ faults \in 0 .. MaxFaults
    /\ app \in {"absent", "open", "quit"}
    /\ ran \subseteq Cmds

FlagsOK ==
    /\ exempt \in BOOLEAN /\ closing \in BOOLEAN /\ terminal \in BOOLEAN
    /\ quarantined \in BOOLEAN /\ allow \in BOOLEAN /\ held \in BOOLEAN
    /\ debt \in BOOLEAN /\ closed \in BOOLEAN /\ registered \in BOOLEAN
    /\ flag \in BOOLEAN /\ unsaved \in BOOLEAN /\ owed \in BOOLEAN

\* The types of the session's fields.
TypeOK == ObjectsOK /\ ControlOK /\ FlagsOK

-----------------------------------------------------------------------------
(* Safety. *)

\* The editor is told to quit only when every edit is in a file somebody can
\* use: a proved save, or the recovery copy of the timed-out command.
\* (_normal_close_requires_save, _close_original_native)
NeverDiscards == app = "quit" => ~unsaved

\* A hold lasts for the life of the process and no teardown starts under it,
\* whatever reconciliations, closes and timeouts are in flight.
\* (_hold_native_custody)
HeldIsFinal == [][held => held' /\ app' = app]_vars

\* A caller that was told "cancelled" may retry: its handler never ran and never
\* will.  (_cancel_pending_commands against the dequeue in _run)
CancelledNeverRan == \A c \in Cmds : state[c] = "cancelled" => c \notin ran

\* However many waits expire together, one object at most carries the
\* session's quarantine, so one recovery settles it.  (_terminalize_timeout)
OneTimedOut == \A o, p \in timedOut : o = p

\* Permission to release comes only from a preserved recovery copy of the
\* command that timed out.  (acknowledge_reconciliation)
ReleaseNeedsRecovery == allow => \E o \in timedOut : recovery[o] = "preserved"

-----------------------------------------------------------------------------
(* Liveness. *)

\* Whoever still waits on an admitted command or close is answered, even if its
\* timeout never fires: no future is left behind the close sentinel, a hold or
\* a failed startup.  (execute, _cancel_pending_commands, _finalize)
EveryWaiterAnswered ==
    \A o \in Obj : (caller[o] = "waiting") ~> (fut[o] # "pending" \/ caller[o] # "waiting")

\* A close that shut the gate reaches an end: reopened, released, or retained.
\* (_closing)
CloseConcludes == closing ~> (~closing \/ closed \/ held \/ sta = "done")

\* A command that timed out while it was running does settle, and its outcome
\* can then be reconciled or is held.  (_run after _terminalize_timeout)
RunningTimeoutSettles ==
    \A c \in Cmds : (state[c] = "timed_out_pending" /\ c \in ran)
                       ~> (state[c] \in After \/ held)

-----------------------------------------------------------------------------
(* Refinement. *)

Custody == CASE app = "quit"          -> "gone"
             [] app # "quit" /\ held  -> "held"
             [] app # "quit" /\ ~held /\ quarantined /\ allow  -> "cleared"
             [] app # "quit" /\ ~held /\ quarantined /\ ~allow -> "quarantined"
             [] OTHER                 -> "owned"

NC == INSTANCE NativeCustody WITH custody <- Custody, unpreserved <- unsaved

\* Every interleaving of commands, timeouts, recoveries and closes keeps the
\* custody promise: no release under a hold or with edits nobody preserved, and
\* a quarantine is lifted only once everything is preserved.
KeepsCustody == NC!Spec

-----------------------------------------------------------------------------
(* What the code's own words promise and the code does not keep: none of these three
   holds.  README, "Known differences", describes the traces. *)

\* "command outcome is reconcilable by command_id" (the timeout's message).
TimedOutBecomesReconcilable ==
    \A o \in Obj : (o \in timedOut) ~> (state[o] \in After \/ held)

\* "Earlier debt is never discharged here; only a proved ordinary Save does
\* that." (the exact-clean projection in _run)
PriorDebtKept == owed => debt

\* "Unknowns/errors preserve the original STA and registration": while the
\* native editor is open its owning thread is there.  (_finalize)
OwningThreadRetained == app = "open" => sta # "done"

=============================================================================
