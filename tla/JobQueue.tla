------------------------------ MODULE JobQueue ------------------------------
(***************************************************************************)
(* The batch queue (src/app/queue_db.py), the workers that drain it        *)
(* (worker_loop, claim_job_for_execution and handle_job of                 *)
(* src/app/worker.py) and the readiness snapshot that admits both          *)
(* (src/app/readiness.py).                                                 *)
(*                                                                         *)
(* A run is one life of a worker process.  Every run claims under the same *)
(* worker name, so a claim's token is the run alone; its candidate         *)
(* generation is fixed by the run.  Each SQL transaction is one action: the*)
(* places where a run reads the database or the snapshot and acts on it in *)
(* a later transaction are separate points of `pc'.                        *)
(*                                                                         *)
(* Not modelled: the payload of a job, the native child process beyond its *)
(* outcome, the failure artifacts, and the API's deletion of old jobs.     *)
(***************************************************************************)
EXTENDS Naturals, FiniteSets

CONSTANTS
    Jobs,         \* jobs that clients may submit
    Runs,         \* worker processes, each started at most once
    MaxAttempts,  \* max_attempts
    Overlap,      \* a worker may be started while another is still up
    Punctual,     \* no worker in good health lets a heartbeat grow stale
    None

ASSUME QueueAssumption ==
    /\ IsFiniteSet(Jobs)
    /\ MaxAttempts \in Nat \ {0}
    /\ Overlap \in BOOLEAN
    /\ Punctual \in BOOLEAN
    /\ None \notin Runs \cup Jobs

JobStatus == {"none", "queued", "running", "succeeded", "failed"}
Point == {"off", "probing", "confirming", "leasing", "selecting", "applying", "polling",
          "claiming", "claimed", "fenced", "touching", "child", "returned", "recording",
          "failing", "stopped", "dead"}
Down == {"off", "stopped", "dead"}
\* The points at which a run has a job in its hands.
Handling == {"claimed", "fenced", "touching", "child", "returned", "recording", "failing"}
Result == {"none", "ok", "bad", "retryable"}

VARIABLES
    status, attempts, owner, \* rows of `jobs': claim_run_id is the owner
    created,                 \* the order of created_at
    old,                     \* the row's heartbeat is older than job_stale_seconds
    upload,                  \* requests accepted but not enqueued yet
    lease,                   \* worker_leases: the run named by the only row
    readiness,               \* the snapshot: its run, ready, and whether it is fresh
    pc, job, result, retried,  \* each run: its point and the locals of handle_job()
    retryRows, spentRows,    \* each run: what its recovery has SELECTed
    attempt,                 \* history: which attempt the run's claim was
    children                 \* history: native children started for a job

jobVars == <<status, attempts, owner, created, old>>
runVars == <<pc, job, result, retried, retryRows, spentRows, attempt>>
vars == <<jobVars, upload, lease, readiness, runVars, children>>

Up(r) == pc[r] \notin Down

\* The row still carries this run's claim (every *_if_owned UPDATE).
Owned(r) == status[job[r]] = "running" /\ owner[job[r]] = r

\* readiness_matches_current_worker() without and with a run_id.
Ready == readiness.run # None /\ Up(readiness.run) /\ readiness.ready /\ readiness.fresh
Current(r) == Ready /\ readiness.run = r

Init ==
    /\ status = [j \in Jobs |-> "none"]
    /\ attempts = [j \in Jobs |-> 0]
    /\ owner = [j \in Jobs |-> None]
    /\ created = [j \in Jobs |-> 0]
    /\ old = {}
    /\ upload = {}
    /\ lease = None
    /\ readiness = [run |-> None, ready |-> FALSE, fresh |-> FALSE]
    /\ pc = [r \in Runs |-> "off"]
    /\ job = [r \in Runs |-> None]
    /\ result = [r \in Runs |-> "none"]
    /\ retried = {}
    /\ retryRows = [r \in Runs |-> {}]
    /\ spentRows = [r \in Runs |-> {}]
    /\ attempt = [r \in Runs |-> 0]
    /\ children = [j \in Jobs |-> 0]

-----------------------------------------------------------------------------
(* The API: readiness is checked, the file is stored, the row is inserted. *)

AcceptUngated(j) ==
    /\ status[j] = "none" /\ j \notin upload
    /\ upload' = upload \cup {j}
    /\ UNCHANGED <<jobVars, lease, readiness, runVars, children>>

\* require_runtime_readiness_or_503().  fill_placeholders_and_convert() and
\* author_and_convert() do not call it: theirs is the step above.
Accept(j) == Ready /\ AcceptUngated(j)

Enqueue(j) ==
    /\ j \in upload
    /\ upload' = upload \ {j}
    /\ status' = [status EXCEPT ![j] = "queued"]
    /\ created' = [created EXCEPT ![j] = 1 + Cardinality({k \in Jobs : created[k] # 0})]
    /\ UNCHANGED <<attempts, owner, old, lease, readiness, runVars, children>>

-----------------------------------------------------------------------------
(* worker_loop(): startup. *)

\* The probing snapshot replaces whatever snapshot there is.
StartRun(r) ==
    /\ pc[r] = "off"
    /\ Overlap \/ \A s \in Runs : ~Up(s)
    /\ readiness' = [run |-> r, ready |-> FALSE, fresh |-> TRUE]
    /\ pc' = [pc EXCEPT ![r] = "probing"]
    /\ UNCHANGED <<jobVars, upload, lease, job, result, retried, retryRows, spentRows,
                   attempt, children>>

\* write_runtime_readiness_snapshot(expected_run_id): only over its own.
OwnsSnapshot_Always(r) == readiness.run # None
OwnsSnapshot(r) == readiness.run = r

\* The probe ends and publishes its verdict.
Probed(r, ok) ==
    /\ pc[r] = "probing"
    /\ IF OwnsSnapshot(r)
       THEN /\ readiness' = [run |-> r, ready |-> ok, fresh |-> TRUE]
            /\ pc' = [pc EXCEPT ![r] = "confirming"]
       ELSE /\ pc' = [pc EXCEPT ![r] = "stopped"]
            /\ UNCHANGED readiness
    /\ UNCHANGED <<jobVars, upload, lease, job, result, retried, retryRows, spentRows,
                   attempt, children>>

Confirm(r) ==
    /\ pc[r] = "confirming"
    /\ pc' = [pc EXCEPT ![r] = IF Current(r) THEN "leasing" ELSE "stopped"]
    /\ UNCHANGED <<jobVars, upload, lease, readiness, job, result, retried, retryRows,
                   spentRows, attempt, children>>

\* acquire_worker_lease(): an unconditional upsert.
AcquireLease(r) ==
    /\ pc[r] = "leasing"
    /\ lease' = r
    /\ pc' = [pc EXCEPT ![r] = "selecting"]
    /\ UNCHANGED <<jobVars, upload, readiness, job, result, retried, retryRows, spentRows,
                   attempt, children>>

Stale_AnyStatus == old
Stale == {j \in old : status[j] = "running"}

Retriable(j) == attempts[j] < MaxAttempts

\* recover_stale_running_jobs(): the SELECT, in no transaction ...
RecoverSelect(r) ==
    /\ pc[r] = "selecting"
    /\ retryRows' = [retryRows EXCEPT ![r] = {j \in Stale : Retriable(j)}]
    /\ spentRows' = [spentRows EXCEPT ![r] = {j \in Stale : ~Retriable(j)}]
    /\ pc' = [pc EXCEPT ![r] = "applying"]
    /\ UNCHANGED <<jobVars, upload, lease, readiness, job, result, retried, attempt,
                   children>>

\* ... and the UPDATEs, which select by job_id alone.
RecoverApply_KeepsClaim(r) ==
    /\ pc[r] = "applying"
    /\ status' = [j \in Jobs |-> IF j \in spentRows[r] THEN "failed" ELSE status[j]]
    /\ pc' = [pc EXCEPT ![r] = "polling"]
    /\ UNCHANGED <<attempts, owner, created, old, upload, lease, readiness, job, result,
                   retried, retryRows, spentRows, attempt, children>>
RecoverApply(r) ==
    /\ pc[r] = "applying"
    /\ status' = [j \in Jobs |-> IF j \in retryRows[r] THEN "queued"
                                 ELSE IF j \in spentRows[r] THEN "failed" ELSE status[j]]
    /\ owner' = [j \in Jobs |-> IF j \in retryRows[r] THEN None ELSE owner[j]]
    /\ old' = old \ retryRows[r]
    /\ pc' = [pc EXCEPT ![r] = "polling"]
    /\ UNCHANGED <<attempts, created, upload, lease, readiness, job, result, retried,
                   retryRows, spentRows, attempt, children>>

-----------------------------------------------------------------------------
(* worker_loop(): polling, and the claim. *)

Poll(r) ==
    /\ pc[r] = "polling"
    /\ pc' = [pc EXCEPT ![r] = IF Current(r) THEN "claiming" ELSE "stopped"]
    /\ UNCHANGED <<jobVars, upload, lease, readiness, job, result, retried, retryRows,
                   spentRows, attempt, children>>

Claimable_OffByOne == {j \in Jobs : status[j] = "queued" /\ attempts[j] + 1 < MaxAttempts}
Claimable == {j \in Jobs : status[j] = "queued" /\ attempts[j] < MaxAttempts}

\* claim_next_job(): the oldest claimable row, if the lease is still this run's.
Claim(r) ==
    /\ pc[r] = "claiming"
    /\ lease = r
    /\ \E j \in Claimable :
          /\ \A k \in Claimable : created[j] <= created[k]
          /\ status' = [status EXCEPT ![j] = "running"]
          /\ attempts' = [attempts EXCEPT ![j] = @ + 1]
          /\ owner' = [owner EXCEPT ![j] = r]
          /\ old' = old \ {j}
          /\ job' = [job EXCEPT ![r] = j]
          /\ attempt' = [attempt EXCEPT ![r] = attempts[j] + 1]
    /\ pc' = [pc EXCEPT ![r] = "claimed"]
    /\ UNCHANGED <<created, upload, lease, readiness, result, retried, retryRows,
                   spentRows, children>>

ClaimNothing(r) ==
    /\ pc[r] = "claiming"
    /\ lease # r \/ Claimable = {}
    /\ pc' = [pc EXCEPT ![r] = "polling"]
    /\ UNCHANGED <<jobVars, upload, lease, readiness, job, result, retried, retryRows,
                   spentRows, attempt, children>>

-----------------------------------------------------------------------------
(* handle_job(). *)

\* requeue_claimed_job_if_owned()
Release(r) ==
    IF Owned(r)
    THEN /\ status' = [status EXCEPT ![job[r]] = "queued"]
         /\ owner' = [owner EXCEPT ![job[r]] = None]
         /\ old' = old \ {job[r]}
    ELSE UNCHANGED <<status, owner, old>>

\* Put the job down and go back to polling.
PutDown(r) ==
    /\ pc' = [pc EXCEPT ![r] = "polling"]
    /\ job' = [job EXCEPT ![r] = None]
    /\ result' = [result EXCEPT ![r] = "none"]
    /\ retried' = retried \ {r}

\* The lease is checked twice before native work, by two transactions.
Fence(r) ==
    /\ pc[r] \in {"claimed", "fenced"}
    /\ lease = r
    /\ pc' = [pc EXCEPT ![r] = IF pc[r] = "claimed" THEN "fenced" ELSE "touching"]
    /\ UNCHANGED <<jobVars, upload, lease, readiness, job, result, retried, retryRows,
                   spentRows, attempt, children>>

FencedOut_Forgets(r) ==
    /\ pc[r] \in {"claimed", "fenced"}
    /\ lease # r
    /\ PutDown(r)
    /\ UNCHANGED <<jobVars, upload, lease, readiness, retryRows, spentRows, attempt, children>>

\* The lease was replaced before native execution started: release the claim.
FencedOut(r) ==
    /\ pc[r] \in {"claimed", "fenced"}
    /\ lease # r
    /\ Release(r)
    /\ PutDown(r)
    /\ UNCHANGED <<attempts, created, upload, lease, readiness, retryRows, spentRows,
                   attempt, children>>

\* touch_heartbeat_if_owned(), then the child process is launched.
Launch(r) ==
    /\ pc[r] = "touching"
    /\ Owned(r)
    /\ old' = old \ {job[r]}
    /\ children' = [children EXCEPT ![job[r]] = @ + 1]
    /\ pc' = [pc EXCEPT ![r] = "child"]
    /\ UNCHANGED <<status, attempts, owner, created, upload, lease, readiness, job, result,
                   retried, retryRows, spentRows, attempt>>

\* The claim is gone: what the run holds, and its child's result, is discarded.
Discard(r) ==
    /\ pc[r] \in {"touching", "returned"}
    /\ ~Owned(r)
    /\ PutDown(r)
    /\ UNCHANGED <<jobVars, upload, lease, readiness, retryRows, spentRows, attempt, children>>

\* The child exits: "ok" is exit code 0 with an output file, "retryable" a
\* native startup failure without one.
ChildExits(r, res) ==
    /\ pc[r] = "child"
    /\ result' = [result EXCEPT ![r] = res]
    /\ pc' = [pc EXCEPT ![r] = "returned"]
    /\ UNCHANGED <<jobVars, upload, lease, readiness, job, retried, retryRows, spentRows,
                   attempt, children>>

\* subprocess.TimeoutExpired: no heartbeat, straight to the failure path.
ChildTimesOut(r) ==
    /\ pc[r] = "child"
    /\ pc' = [pc EXCEPT ![r] = "failing"]
    /\ UNCHANGED <<jobVars, upload, lease, readiness, job, result, retried, retryRows,
                   spentRows, attempt, children>>

MayRetry_Always(r) == result[r] = "retryable"
MayRetry(r) == result[r] = "retryable" /\ r \notin retried

\* Still owned: refresh the heartbeat, then retry once, record or fail.
Returned(r) ==
    /\ pc[r] = "returned"
    /\ Owned(r)
    /\ old' = old \ {job[r]}
    /\ IF MayRetry(r)
       THEN /\ retried' = retried \cup {r}
            /\ children' = [children EXCEPT ![job[r]] = @ + 1]
            /\ pc' = [pc EXCEPT ![r] = "child"]
       ELSE /\ pc' = [pc EXCEPT ![r] = IF result[r] = "ok" THEN "recording" ELSE "failing"]
            /\ UNCHANGED <<retried, children>>
    /\ UNCHANGED <<status, attempts, owner, created, upload, lease, readiness, job, result,
                   retryRows, spentRows, attempt>>

RecordSuccess_Unowned(r) ==
    /\ pc[r] = "recording"
    /\ status' = [status EXCEPT ![job[r]] = "succeeded"]
    /\ PutDown(r)
    /\ UNCHANGED <<attempts, owner, created, old, upload, lease, readiness, retryRows,
                   spentRows, attempt, children>>

\* mark_succeeded_if_owned()
RecordSuccess(r) ==
    /\ pc[r] = "recording"
    /\ status' = IF Owned(r) THEN [status EXCEPT ![job[r]] = "succeeded"] ELSE status
    /\ PutDown(r)
    /\ UNCHANGED <<attempts, owner, created, old, upload, lease, readiness, retryRows,
                   spentRows, attempt, children>>

\* The attempt budget, as read by get_job().  While the claim is this run's the
\* count cannot move, and otherwise the update below does nothing.
BudgetLeft(r) == attempts[job[r]] < MaxAttempts

\* The attempt failed or timed out: requeue within the budget, or mark_failed_if_owned().
RecordFailure(r) ==
    /\ pc[r] = "failing"
    /\ IF BudgetLeft(r)
       THEN Release(r)
       ELSE /\ status' = IF Owned(r) THEN [status EXCEPT ![job[r]] = "failed"] ELSE status
            /\ UNCHANGED <<owner, old>>
    /\ PutDown(r)
    /\ UNCHANGED <<attempts, created, upload, lease, readiness, retryRows, spentRows,
                   attempt, children>>

-----------------------------------------------------------------------------
(* What happens to a worker: death, and the passing of time. *)

Crash(r) ==
    /\ Up(r)
    /\ pc' = [pc EXCEPT ![r] = "dead"]
    /\ UNCHANGED <<jobVars, upload, lease, readiness, job, result, retried, retryRows,
                   spentRows, attempt, children>>

\* job_stale_seconds pass without a heartbeat on a row that was claimed once.
Age(j) ==
    /\ status[j] \notin {"none", "queued"} /\ j \notin old
    /\ Punctual /\ status[j] = "running" => ~Up(owner[j])
    /\ old' = old \cup {j}
    /\ UNCHANGED <<status, attempts, owner, created, upload, lease, readiness, runVars,
                   children>>

\* The snapshot's freshness window passes without a heartbeat.
Expire ==
    /\ readiness.run # None /\ readiness.fresh
    /\ Punctual => ~Up(readiness.run)
    /\ readiness' = [readiness EXCEPT !.fresh = FALSE]
    /\ UNCHANGED <<jobVars, upload, lease, runVars, children>>

\* readiness_heartbeat(), a thread of its own from the lease on.
Heartbeat(r) ==
    /\ Up(r) /\ pc[r] \notin {"probing", "confirming", "leasing"}
    /\ OwnsSnapshot(r)
    /\ ~readiness.fresh
    /\ readiness' = [readiness EXCEPT !.fresh = TRUE]
    /\ UNCHANGED <<jobVars, upload, lease, runVars, children>>

-----------------------------------------------------------------------------
\* The steps of a run's own thread.
Worker(r) ==
    \/ \E ok \in BOOLEAN : Probed(r, ok)
    \/ Confirm(r) \/ AcquireLease(r) \/ RecoverSelect(r) \/ RecoverApply(r)
    \/ Poll(r) \/ Claim(r) \/ ClaimNothing(r)
    \/ Fence(r) \/ FencedOut(r) \/ Launch(r) \/ Discard(r)
    \/ \E res \in Result \ {"none"} : ChildExits(r, res)
    \/ ChildTimesOut(r) \/ Returned(r) \/ RecordSuccess(r) \/ RecordFailure(r)

Next ==
    \/ \E j \in Jobs : Accept(j) \/ AcceptUngated(j) \/ Enqueue(j) \/ Age(j)
    \/ \E r \in Runs : StartRun(r) \/ Worker(r) \/ Crash(r) \/ Heartbeat(r)
    \/ Expire

Spec == Init /\ [][Next]_vars

(***************************************************************************)
(* A worker that is up keeps running: every native child returns or is     *)
(* killed by job_timeout_seconds.  Nobody is obliged to start a worker.    *)
(***************************************************************************)
FairSpec == Spec /\ \A r \in Runs : WF_vars(Worker(r))

-----------------------------------------------------------------------------
RowsOK ==
    /\ status \in [Jobs -> JobStatus]
    /\ attempts \in [Jobs -> 0 .. MaxAttempts]
    /\ owner \in [Jobs -> Runs \cup {None}]
    /\ created \in [Jobs -> Nat]
    /\ children \in [Jobs -> Nat]
    /\ old \subseteq Jobs
    /\ upload \subseteq Jobs

RunsOK ==
    /\ lease \in Runs \cup {None}
    /\ pc \in [Runs -> Point]
    /\ job \in [Runs -> Jobs \cup {None}]
    /\ result \in [Runs -> Result]
    /\ retried \subseteq Runs
    /\ retryRows \in [Runs -> SUBSET Jobs]
    /\ spentRows \in [Runs -> SUBSET Jobs]
    /\ attempt \in [Runs -> 0 .. MaxAttempts]

SnapshotOK == readiness \in [run : Runs \cup {None}, ready : BOOLEAN, fresh : BOOLEAN]

\* A claim never takes a job beyond max_attempts, and every row and run has its type.
TypeOK == RowsOK /\ RunsOK /\ SnapshotOK

-----------------------------------------------------------------------------
(* Safety. *)

\* A worker that is up never leaves a running job behind: whatever way its
\* handling ends, the claim was settled, released or lost.  (handle_job)
NoForgottenClaim ==
    \A j \in Jobs : LET r == owner[j]
                    IN  status[j] = "running" /\ r # None /\ Up(r) => job[r] = j

\* However often a job is lost, requeued and recovered, native work starts at
\* most twice per attempt.  (attempts, the bounded retry of handle_job)
AttemptBudget == \A j \in Jobs : children[j] <= 2 * MaxAttempts

\* A job fails only once its attempts are spent, whoever gives up on it.
FailsOnlyWhenSpent == \A j \in Jobs : status[j] = "failed" => attempts[j] = MaxAttempts

\* Success is recorded for the attempt whose child produced the output, never by
\* a run whose claim was recovered or released meanwhile.  (mark_succeeded_if_owned)
SucceedsByAttempt ==
    \A j \in Jobs : status'[j] = "succeeded" /\ status[j] # "succeeded" =>
        \E r \in Runs : /\ owner[j] = r /\ job[r] = j
                        /\ result[r] = "ok" /\ attempt[r] = attempts[j]
SuccessIsCurrent == [][SucceedsByAttempt]_vars

\* A finished job stays finished.  (recover_stale_running_jobs against a claim)
SucceededIsFinal ==
    [][\A j \in Jobs : status[j] = "succeeded" => status'[j] = "succeeded"]_vars

\* What is queued can be claimed: a claim that is handed back does not use up the
\* job's last attempt.  (requeue_claimed_job_if_owned)
QueuedIsClaimable == \A j \in Jobs : status[j] = "queued" => attempts[j] < MaxAttempts

\* The worker the API relies on is the one that can claim.  (worker_loop)
ReadyWorkerHasLease ==
    \A r \in Runs : Current(r) /\ pc[r] \in {"polling", "claiming"} => lease = r

-----------------------------------------------------------------------------
(* Liveness. *)

\* What is queued can be claimed, by the worker the API relies on, and is finished
\* unless its worker died with it or no worker is up.
JobsSettle ==
    /\ [](QueuedIsClaimable /\ ReadyWorkerHasLease)
    /\ \A j \in Jobs :
          (status[j] = "queued") ~>
              \/ status[j] \in {"succeeded", "failed"}
              \/ status[j] = "running" /\ ~Up(owner[j])
              \/ \A r \in Runs : ~Up(r)

\* A job whose worker died is handed on or failed by the first run whose recovery
\* finds it old enough.  (recover_stale_running_jobs, which runs only at startup)
LostIsRecovered ==
    \A j \in Jobs, r \in Runs :
        (pc[r] = "selecting" /\ j \in Stale /\ ~Up(owner[j])) ~>
            \/ status[j] \in {"queued", "succeeded", "failed"}
            \/ pc[r] = "dead"

=============================================================================
