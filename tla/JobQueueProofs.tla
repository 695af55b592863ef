--------------------------- MODULE JobQueueProofs ---------------------------
(***************************************************************************)
(* Proofs about JobQueue for every finite set of jobs, any number of       *)
(* workers that overlap and die as they please, and every max_attempts.    *)
(***************************************************************************)
EXTENDS JobQueue, FiniteSetTheorems, TLAPS

-----------------------------------------------------------------------------
(* The strengthening that makes the claim's properties inductive. *)

\* A run has a job in its hands exactly at the points of handle_job().
HandsOK == \A r \in Runs : pc[r] # "dead" => (job[r] # None <=> pc[r] \in Handling)

\* Only a run that was started is named by a claim.
OwnersStarted == \A j \in Jobs : owner[j] # None => pc[owner[j]] # "off"

\* A claim still on its row is the attempt the run counts it as.
ClaimIsCurrent ==
    \A r \in Runs : pc[r] \in Handling /\ Owned(r) => attempt[r] = attempts[job[r]]

\* What is about to be recorded as a success was one.
RecordingIsOk == \A r \in Runs : pc[r] = "recording" => result[r] = "ok"

\* What recovery gave up on stays out of attempts until it says so.
SpentIsSpent == \A r \in Runs : \A j \in spentRows[r] : attempts[j] = MaxAttempts

\* Children started for a job, against the attempts counted: a claim still on
\* its row has not started its own yet, or may start one more.
ChildrenBound == \A j \in Jobs : children[j] <= 2 * attempts[j]
ClaimedBound ==
    \A r \in Runs : pc[r] \in {"claimed", "fenced", "touching"} /\ Owned(r) =>
        children[job[r]] + 2 <= 2 * attempts[job[r]]
FirstChildBound ==
    \A r \in Runs : pc[r] \in {"child", "returned"} /\ r \notin retried /\ Owned(r) =>
        children[job[r]] + 1 <= 2 * attempts[job[r]]

ClaimsOK == HandsOK /\ OwnersStarted /\ NoForgottenClaim
OutcomeOK == ClaimIsCurrent /\ RecordingIsOk
FailuresOK == SpentIsSpent /\ FailsOnlyWhenSpent
ChildrenOK == ChildrenBound /\ ClaimedBound /\ FirstChildBound

QueueInv == TypeOK /\ ClaimsOK /\ OutcomeOK /\ FailuresOK /\ ChildrenOK

-----------------------------------------------------------------------------
(* Types. *)

LEMMA TypeInit == Init => TypeOK
<1> SUFFICES ASSUME Init PROVE TypeOK
  OBVIOUS
<1>1. RowsOK
  BY QueueAssumption DEF Init, RowsOK, JobStatus
<1>2. RunsOK
  BY QueueAssumption DEF Init, RunsOK, Point, Result
<1>3. SnapshotOK
  BY Zenon DEF Init, SnapshotOK
<1>4. QED
  BY <1>1, <1>2, <1>3 DEF TypeOK

\* (Zenon: SMT does not take a Boolean field as a value.)
LEMMA SnapshotStep == ASSUME TypeOK, [Next]_vars PROVE SnapshotOK'
<1> SnapshotOK
  BY DEF TypeOK
<1> USE DEF vars, jobVars, runVars
<1>1. ASSUME NEW j \in Jobs, AcceptUngated(j) PROVE SnapshotOK'
  BY <1>1, Zenon DEF AcceptUngated, SnapshotOK
<1>2. ASSUME NEW j \in Jobs, Enqueue(j) PROVE SnapshotOK'
  BY <1>2, Zenon DEF Enqueue, SnapshotOK
<1>3. ASSUME NEW j \in Jobs, Age(j) PROVE SnapshotOK'
  BY <1>3, Zenon DEF Age, SnapshotOK
<1>4. ASSUME NEW r \in Runs, Confirm(r) PROVE SnapshotOK'
  BY <1>4, Zenon DEF Confirm, SnapshotOK
<1>5. ASSUME NEW r \in Runs, AcquireLease(r) PROVE SnapshotOK'
  BY <1>5, Zenon DEF AcquireLease, SnapshotOK
<1>6. ASSUME NEW r \in Runs, RecoverSelect(r) PROVE SnapshotOK'
  BY <1>6, Zenon DEF RecoverSelect, SnapshotOK
<1>7. ASSUME NEW r \in Runs, RecoverApply(r) PROVE SnapshotOK'
  BY <1>7, Zenon DEF RecoverApply, SnapshotOK
<1>8. ASSUME NEW r \in Runs, Poll(r) PROVE SnapshotOK'
  BY <1>8, Zenon DEF Poll, SnapshotOK
<1>9. ASSUME NEW r \in Runs, Claim(r) PROVE SnapshotOK'
  BY <1>9, Zenon DEF Claim, SnapshotOK
<1>10. ASSUME NEW r \in Runs, ClaimNothing(r) PROVE SnapshotOK'
  BY <1>10, Zenon DEF ClaimNothing, SnapshotOK
<1>11. ASSUME NEW r \in Runs, Fence(r) PROVE SnapshotOK'
  BY <1>11, Zenon DEF Fence, SnapshotOK
<1>12. ASSUME NEW r \in Runs, FencedOut(r) PROVE SnapshotOK'
  BY <1>12, Zenon DEF FencedOut, SnapshotOK
<1>13. ASSUME NEW r \in Runs, Launch(r) PROVE SnapshotOK'
  BY <1>13, Zenon DEF Launch, SnapshotOK
<1>14. ASSUME NEW r \in Runs, Discard(r) PROVE SnapshotOK'
  BY <1>14, Zenon DEF Discard, SnapshotOK
<1>15. ASSUME NEW r \in Runs, ChildTimesOut(r) PROVE SnapshotOK'
  BY <1>15, Zenon DEF ChildTimesOut, SnapshotOK
<1>16. ASSUME NEW r \in Runs, Returned(r) PROVE SnapshotOK'
  BY <1>16, Zenon DEF Returned, SnapshotOK
<1>17. ASSUME NEW r \in Runs, RecordSuccess(r) PROVE SnapshotOK'
  BY <1>17, Zenon DEF RecordSuccess, SnapshotOK
<1>18. ASSUME NEW r \in Runs, RecordFailure(r) PROVE SnapshotOK'
  BY <1>18, Zenon DEF RecordFailure, SnapshotOK
<1>19. ASSUME NEW r \in Runs, StartRun(r) PROVE SnapshotOK'
  BY <1>19, Zenon DEF StartRun, SnapshotOK
<1>20. ASSUME NEW r \in Runs, Crash(r) PROVE SnapshotOK'
  BY <1>20, Zenon DEF Crash, SnapshotOK
<1>21. ASSUME NEW r \in Runs, Heartbeat(r) PROVE SnapshotOK'
  BY <1>21, Zenon DEF Heartbeat, SnapshotOK
<1>22. ASSUME NEW r \in Runs, NEW ok \in BOOLEAN, Probed(r, ok) PROVE SnapshotOK'
  <2>1. readiness' \in {readiness, [run |-> r, ready |-> ok, fresh |-> TRUE]}
    BY <1>22, Zenon DEF Probed
  <2>2. [run |-> r, ready |-> ok, fresh |-> TRUE]
           \in [run : Runs \cup {None}, ready : BOOLEAN, fresh : BOOLEAN]
    BY Zenon
  <2>3. QED
    BY <2>1, <2>2, Zenon DEF SnapshotOK
<1>23. ASSUME NEW r \in Runs, NEW res \in Result \ {"none"}, ChildExits(r, res)
      PROVE  SnapshotOK'
  BY <1>23, Zenon DEF ChildExits, SnapshotOK
<1>24. CASE Expire
  BY <1>24, Zenon DEF Expire, SnapshotOK
<1>25. CASE UNCHANGED vars
  BY <1>25, Zenon DEF SnapshotOK
<1>26. QED
  BY <1>1, <1>2, <1>3, <1>4, <1>5, <1>6, <1>7, <1>8, <1>9, <1>10, <1>11, <1>12, <1>13,
     <1>14, <1>15, <1>16, <1>17, <1>18, <1>19, <1>20, <1>21, <1>22, <1>23, <1>24, <1>25
     DEF Next, Worker, Accept

LEMMA RowsStep == ASSUME TypeOK, [Next]_vars PROVE RowsOK'
<1> RowsOK /\ RunsOK
  BY DEF TypeOK
<1> USE QueueAssumption DEF vars, jobVars, runVars
<1>1. ASSUME NEW j \in Jobs, AcceptUngated(j) PROVE RowsOK'
  BY <1>1 DEF AcceptUngated, RowsOK
<1>2. ASSUME NEW j \in Jobs, Enqueue(j) PROVE RowsOK'
  <2>1. Cardinality({k \in Jobs : created[k] # 0}) \in Nat
    BY FS_Subset, FS_CardinalityType
  <2>2. QED
    BY <1>2, <2>1 DEF Enqueue, RowsOK, JobStatus
<1>3. ASSUME NEW j \in Jobs, Age(j) PROVE RowsOK'
  BY <1>3 DEF Age, RowsOK
<1>4. ASSUME NEW r \in Runs, Confirm(r) PROVE RowsOK'
  BY <1>4 DEF Confirm, RowsOK
<1>5. ASSUME NEW r \in Runs, AcquireLease(r) PROVE RowsOK'
  BY <1>5 DEF AcquireLease, RowsOK
<1>6. ASSUME NEW r \in Runs, RecoverSelect(r) PROVE RowsOK'
  BY <1>6 DEF RecoverSelect, RowsOK
<1>7. ASSUME NEW r \in Runs, RecoverApply(r) PROVE RowsOK'
  BY <1>7 DEF RecoverApply, RowsOK, RunsOK, JobStatus
<1>8. ASSUME NEW r \in Runs, Poll(r) PROVE RowsOK'
  BY <1>8 DEF Poll, RowsOK
<1>9. ASSUME NEW r \in Runs, Claim(r) PROVE RowsOK'
  BY <1>9 DEF Claim, Claimable, RowsOK, JobStatus
<1>10. ASSUME NEW r \in Runs, ClaimNothing(r) PROVE RowsOK'
  BY <1>10 DEF ClaimNothing, RowsOK
<1>11. ASSUME NEW r \in Runs, Fence(r) PROVE RowsOK'
  BY <1>11 DEF Fence, RowsOK
<1>12. ASSUME NEW r \in Runs, FencedOut(r) PROVE RowsOK'
  BY <1>12 DEF FencedOut, Release, Owned, RowsOK, RunsOK, JobStatus
<1>13. ASSUME NEW r \in Runs, Launch(r) PROVE RowsOK'
  <2>1. children' \in [Jobs -> Nat]
    <3>1. children' = [children EXCEPT ![job[r]] = children[job[r]] + 1]
      BY <1>13 DEF Launch
    <3>2. children \in [Jobs -> Nat]
      BY DEF RowsOK
    <3>3. CASE job[r] \in Jobs
      <4>1. children[job[r]] + 1 \in Nat
        BY <3>2, <3>3
      <4>2. QED
        BY <3>1, <3>2, <4>1
    <3>4. CASE job[r] \notin Jobs
      BY <3>1, <3>2, <3>4
    <3>5. QED
      BY <3>3, <3>4
  <2>2. QED
    BY <1>13, <2>1 DEF Launch, RowsOK
<1>14. ASSUME NEW r \in Runs, Discard(r) PROVE RowsOK'
  BY <1>14 DEF Discard, RowsOK
<1>15. ASSUME NEW r \in Runs, ChildTimesOut(r) PROVE RowsOK'
  BY <1>15 DEF ChildTimesOut, RowsOK
<1>16. ASSUME NEW r \in Runs, Returned(r) PROVE RowsOK'
  BY <1>16 DEF Returned, RowsOK, RunsOK
<1>17. ASSUME NEW r \in Runs, RecordSuccess(r) PROVE RowsOK'
  BY <1>17 DEF RecordSuccess, Owned, RowsOK, RunsOK, JobStatus
<1>18. ASSUME NEW r \in Runs, RecordFailure(r) PROVE RowsOK'
  BY <1>18 DEF RecordFailure, Release, Owned, RowsOK, RunsOK, JobStatus
<1>19. ASSUME NEW r \in Runs, StartRun(r) PROVE RowsOK'
  BY <1>19 DEF StartRun, RowsOK
<1>20. ASSUME NEW r \in Runs, Crash(r) PROVE RowsOK'
  BY <1>20 DEF Crash, RowsOK
<1>21. ASSUME NEW r \in Runs, Heartbeat(r) PROVE RowsOK'
  BY <1>21 DEF Heartbeat, RowsOK
<1>22. ASSUME NEW r \in Runs, NEW ok \in BOOLEAN, Probed(r, ok) PROVE RowsOK'
  BY <1>22 DEF Probed, RowsOK
<1>23. ASSUME NEW r \in Runs, NEW res \in Result \ {"none"}, ChildExits(r, res)
      PROVE  RowsOK'
  BY <1>23 DEF ChildExits, RowsOK
<1>24. CASE Expire
  BY <1>24 DEF Expire, RowsOK
<1>25. CASE UNCHANGED vars
  BY <1>25 DEF RowsOK
<1>26. QED
  BY <1>1, <1>2, <1>3, <1>4, <1>5, <1>6, <1>7, <1>8, <1>9, <1>10, <1>11, <1>12, <1>13,
     <1>14, <1>15, <1>16, <1>17, <1>18, <1>19, <1>20, <1>21, <1>22, <1>23, <1>24, <1>25
     DEF Next, Worker, Accept

LEMMA RunsStep == ASSUME TypeOK, [Next]_vars PROVE RunsOK'
<1> RowsOK /\ RunsOK
  BY DEF TypeOK
<1> USE QueueAssumption DEF vars, jobVars, runVars
<1>1. ASSUME NEW j \in Jobs, AcceptUngated(j) PROVE RunsOK'
  BY <1>1 DEF AcceptUngated, RunsOK
<1>2. ASSUME NEW j \in Jobs, Enqueue(j) PROVE RunsOK'
  BY <1>2 DEF Enqueue, RunsOK
<1>3. ASSUME NEW j \in Jobs, Age(j) PROVE RunsOK'
  BY <1>3 DEF Age, RunsOK
<1>4. ASSUME NEW r \in Runs, Confirm(r) PROVE RunsOK'
  BY <1>4 DEF Confirm, RunsOK, Point
<1>5. ASSUME NEW r \in Runs, AcquireLease(r) PROVE RunsOK'
  BY <1>5 DEF AcquireLease, RunsOK, Point
<1>6. ASSUME NEW r \in Runs, RecoverSelect(r) PROVE RunsOK'
  BY <1>6 DEF RecoverSelect, Stale, RowsOK, RunsOK, Point
<1>7. ASSUME NEW r \in Runs, RecoverApply(r) PROVE RunsOK'
  BY <1>7 DEF RecoverApply, RunsOK, Point
<1>8. ASSUME NEW r \in Runs, Poll(r) PROVE RunsOK'
  BY <1>8 DEF Poll, RunsOK, Point
<1>9. ASSUME NEW r \in Runs, Claim(r) PROVE RunsOK'
  BY <1>9 DEF Claim, Claimable, RowsOK, RunsOK, Point
<1>10. ASSUME NEW r \in Runs, ClaimNothing(r) PROVE RunsOK'
  BY <1>10 DEF ClaimNothing, RunsOK, Point
<1>11. ASSUME NEW r \in Runs, Fence(r) PROVE RunsOK'
  BY <1>11 DEF Fence, RunsOK, Point
<1>12. ASSUME NEW r \in Runs, FencedOut(r) PROVE RunsOK'
  BY <1>12 DEF FencedOut, PutDown, RunsOK, Point, Result
<1>13. ASSUME NEW r \in Runs, Launch(r) PROVE RunsOK'
  BY <1>13 DEF Launch, RunsOK, Point
<1>14. ASSUME NEW r \in Runs, Discard(r) PROVE RunsOK'
  BY <1>14 DEF Discard, PutDown, RunsOK, Point, Result
<1>15. ASSUME NEW r \in Runs, ChildTimesOut(r) PROVE RunsOK'
  BY <1>15 DEF ChildTimesOut, RunsOK, Point
<1>16. ASSUME NEW r \in Runs, Returned(r) PROVE RunsOK'
  BY <1>16 DEF Returned, RunsOK, Point
<1>17. ASSUME NEW r \in Runs, RecordSuccess(r) PROVE RunsOK'
  BY <1>17 DEF RecordSuccess, PutDown, RunsOK, Point, Result
<1>18. ASSUME NEW r \in Runs, RecordFailure(r) PROVE RunsOK'
  BY <1>18 DEF RecordFailure, PutDown, RunsOK, Point, Result
<1>19. ASSUME NEW r \in Runs, StartRun(r) PROVE RunsOK'
  BY <1>19 DEF StartRun, RunsOK, Point
<1>20. ASSUME NEW r \in Runs, Crash(r) PROVE RunsOK'
  BY <1>20 DEF Crash, RunsOK, Point
<1>21. ASSUME NEW r \in Runs, Heartbeat(r) PROVE RunsOK'
  BY <1>21 DEF Heartbeat, RunsOK, Point
<1>22. ASSUME NEW r \in Runs, NEW ok \in BOOLEAN, Probed(r, ok) PROVE RunsOK'
  BY <1>22 DEF Probed, RunsOK, Point
<1>23. ASSUME NEW r \in Runs, NEW res \in Result \ {"none"}, ChildExits(r, res)
      PROVE  RunsOK'
  BY <1>23 DEF ChildExits, RunsOK, Point
<1>24. CASE Expire
  BY <1>24 DEF Expire, RunsOK
<1>25. CASE UNCHANGED vars
  BY <1>25 DEF RunsOK
<1>26. QED
  BY <1>1, <1>2, <1>3, <1>4, <1>5, <1>6, <1>7, <1>8, <1>9, <1>10, <1>11, <1>12, <1>13,
     <1>14, <1>15, <1>16, <1>17, <1>18, <1>19, <1>20, <1>21, <1>22, <1>23, <1>24, <1>25
     DEF Next, Worker, Accept

LEMMA TypeStep == TypeOK /\ [Next]_vars => TypeOK'
  BY SnapshotStep, RowsStep, RunsStep DEF TypeOK

-----------------------------------------------------------------------------
(* Claims. *)

LEMMA ClaimsStep == ASSUME TypeOK, ClaimsOK, [Next]_vars PROVE ClaimsOK'
<1> RowsOK /\ RunsOK
  BY DEF TypeOK
<1> USE QueueAssumption DEF vars, jobVars, runVars, ClaimsOK, HandsOK, OwnersStarted,
        NoForgottenClaim, Up, Down, Handling
<1>1. ASSUME NEW j \in Jobs, AcceptUngated(j) PROVE ClaimsOK'
  BY <1>1 DEF AcceptUngated, RowsOK
<1>2. ASSUME NEW j \in Jobs, Enqueue(j) PROVE ClaimsOK'
  BY <1>2 DEF Enqueue, RowsOK
<1>3. ASSUME NEW j \in Jobs, Age(j) PROVE ClaimsOK'
  BY <1>3 DEF Age, RowsOK
<1>4. ASSUME NEW r \in Runs, Confirm(r) PROVE ClaimsOK'
  BY <1>4 DEF Confirm, RowsOK, RunsOK
<1>5. ASSUME NEW r \in Runs, AcquireLease(r) PROVE ClaimsOK'
  BY <1>5 DEF AcquireLease, RowsOK, RunsOK
<1>6. ASSUME NEW r \in Runs, RecoverSelect(r) PROVE ClaimsOK'
  BY <1>6 DEF RecoverSelect, RowsOK, RunsOK
<1>7. ASSUME NEW r \in Runs, RecoverApply(r) PROVE ClaimsOK'
  BY <1>7 DEF RecoverApply, RowsOK, RunsOK
<1>8. ASSUME NEW r \in Runs, Poll(r) PROVE ClaimsOK'
  BY <1>8 DEF Poll, RowsOK, RunsOK
<1>9. ASSUME NEW r \in Runs, Claim(r) PROVE ClaimsOK'
  BY <1>9 DEF Claim, Claimable, RowsOK, RunsOK
<1>10. ASSUME NEW r \in Runs, ClaimNothing(r) PROVE ClaimsOK'
  BY <1>10 DEF ClaimNothing, RowsOK, RunsOK
<1>11. ASSUME NEW r \in Runs, Fence(r) PROVE ClaimsOK'
  BY <1>11 DEF Fence, RowsOK, RunsOK
<1>12. ASSUME NEW r \in Runs, FencedOut(r) PROVE ClaimsOK'
  BY <1>12 DEF FencedOut, PutDown, Release, Owned, RowsOK, RunsOK
<1>13. ASSUME NEW r \in Runs, Launch(r) PROVE ClaimsOK'
  BY <1>13 DEF Launch, RowsOK, RunsOK
<1>14. ASSUME NEW r \in Runs, Discard(r) PROVE ClaimsOK'
  BY <1>14 DEF Discard, PutDown, Release, Owned, RowsOK, RunsOK
<1>15. ASSUME NEW r \in Runs, ChildTimesOut(r) PROVE ClaimsOK'
  BY <1>15 DEF ChildTimesOut, RowsOK, RunsOK
<1>16. ASSUME NEW r \in Runs, Returned(r) PROVE ClaimsOK'
  BY <1>16 DEF Returned, RowsOK, RunsOK
<1>17. ASSUME NEW r \in Runs, RecordSuccess(r) PROVE ClaimsOK'
  BY <1>17 DEF RecordSuccess, PutDown, Release, Owned, RowsOK, RunsOK
<1>18. ASSUME NEW r \in Runs, RecordFailure(r) PROVE ClaimsOK'
  BY <1>18 DEF RecordFailure, PutDown, Release, Owned, RowsOK, RunsOK
<1>19. ASSUME NEW r \in Runs, StartRun(r) PROVE ClaimsOK'
  BY <1>19 DEF StartRun, RowsOK, RunsOK
<1>20. ASSUME NEW r \in Runs, Crash(r) PROVE ClaimsOK'
  BY <1>20 DEF Crash, RowsOK, RunsOK
<1>21. ASSUME NEW r \in Runs, Heartbeat(r) PROVE ClaimsOK'
  BY <1>21 DEF Heartbeat, RowsOK
<1>22. ASSUME NEW r \in Runs, NEW ok \in BOOLEAN, Probed(r, ok) PROVE ClaimsOK'
  BY <1>22 DEF Probed, RowsOK, RunsOK
<1>23. ASSUME NEW r \in Runs, NEW res \in Result \ {"none"}, ChildExits(r, res)
      PROVE  ClaimsOK'
  BY <1>23 DEF ChildExits, RowsOK, RunsOK
<1>24. CASE Expire
  BY <1>24 DEF Expire, RowsOK
<1>25. CASE UNCHANGED vars
  BY <1>25
<1>26. QED
  BY <1>1, <1>2, <1>3, <1>4, <1>5, <1>6, <1>7, <1>8, <1>9, <1>10, <1>11, <1>12, <1>13,
     <1>14, <1>15, <1>16, <1>17, <1>18, <1>19, <1>20, <1>21, <1>22, <1>23, <1>24, <1>25
     DEF Next, Worker, Accept

LEMMA OutcomeStep ==
    ASSUME TypeOK, HandsOK, OutcomeOK, [Next]_vars PROVE OutcomeOK'
<1> RowsOK /\ RunsOK
  BY DEF TypeOK
<1> USE QueueAssumption DEF vars, jobVars, runVars, OutcomeOK, ClaimIsCurrent, RecordingIsOk,
        Owned, Handling
<1>1. ASSUME NEW j \in Jobs, AcceptUngated(j) PROVE OutcomeOK'
  BY <1>1 DEF AcceptUngated, RowsOK, RunsOK
<1>2. ASSUME NEW j \in Jobs, Enqueue(j) PROVE OutcomeOK'
  BY <1>2 DEF Enqueue, RowsOK, RunsOK
<1>3. ASSUME NEW j \in Jobs, Age(j) PROVE OutcomeOK'
  BY <1>3 DEF Age, RowsOK, RunsOK
<1>4. ASSUME NEW r \in Runs, Confirm(r) PROVE OutcomeOK'
  BY <1>4 DEF Confirm, RowsOK, RunsOK
<1>5. ASSUME NEW r \in Runs, AcquireLease(r) PROVE OutcomeOK'
  BY <1>5 DEF AcquireLease, RowsOK, RunsOK
<1>6. ASSUME NEW r \in Runs, RecoverSelect(r) PROVE OutcomeOK'
  BY <1>6 DEF RecoverSelect, RowsOK, RunsOK
<1>7. ASSUME NEW r \in Runs, RecoverApply(r) PROVE OutcomeOK'
  BY <1>7 DEF RecoverApply, HandsOK, RowsOK, RunsOK
<1>8. ASSUME NEW r \in Runs, Poll(r) PROVE OutcomeOK'
  BY <1>8 DEF Poll, RowsOK, RunsOK
<1>9. ASSUME NEW r \in Runs, Claim(r) PROVE OutcomeOK'
  BY <1>9 DEF Claim, Claimable, HandsOK, RowsOK, RunsOK
<1>10. ASSUME NEW r \in Runs, ClaimNothing(r) PROVE OutcomeOK'
  BY <1>10 DEF ClaimNothing, RowsOK, RunsOK
<1>11. ASSUME NEW r \in Runs, Fence(r) PROVE OutcomeOK'
  BY <1>11 DEF Fence, RowsOK, RunsOK
<1>12. ASSUME NEW r \in Runs, FencedOut(r) PROVE OutcomeOK'
  BY <1>12 DEF FencedOut, PutDown, Release, HandsOK, RowsOK, RunsOK
<1>13. ASSUME NEW r \in Runs, Launch(r) PROVE OutcomeOK'
  BY <1>13 DEF Launch, RowsOK, RunsOK
<1>14. ASSUME NEW r \in Runs, Discard(r) PROVE OutcomeOK'
  BY <1>14 DEF Discard, PutDown, Release, HandsOK, RowsOK, RunsOK
<1>15. ASSUME NEW r \in Runs, ChildTimesOut(r) PROVE OutcomeOK'
  BY <1>15 DEF ChildTimesOut, RowsOK, RunsOK
<1>16. ASSUME NEW r \in Runs, Returned(r) PROVE OutcomeOK'
  BY <1>16 DEF Returned, RowsOK, RunsOK
<1>17. ASSUME NEW r \in Runs, RecordSuccess(r) PROVE OutcomeOK'
  BY <1>17 DEF RecordSuccess, PutDown, Release, HandsOK, RowsOK, RunsOK
<1>18. ASSUME NEW r \in Runs, RecordFailure(r) PROVE OutcomeOK'
  BY <1>18 DEF RecordFailure, PutDown, Release, HandsOK, RowsOK, RunsOK
<1>19. ASSUME NEW r \in Runs, StartRun(r) PROVE OutcomeOK'
  BY <1>19 DEF StartRun, RowsOK, RunsOK
<1>20. ASSUME NEW r \in Runs, Crash(r) PROVE OutcomeOK'
  BY <1>20 DEF Crash, RowsOK, RunsOK
<1>21. ASSUME NEW r \in Runs, Heartbeat(r) PROVE OutcomeOK'
  BY <1>21 DEF Heartbeat, RowsOK, RunsOK
<1>22. ASSUME NEW r \in Runs, NEW ok \in BOOLEAN, Probed(r, ok) PROVE OutcomeOK'
  BY <1>22 DEF Probed, RowsOK, RunsOK
<1>23. ASSUME NEW r \in Runs, NEW res \in Result \ {"none"}, ChildExits(r, res)
      PROVE  OutcomeOK'
  BY <1>23 DEF ChildExits, RowsOK, RunsOK
<1>24. CASE Expire
  BY <1>24 DEF Expire, RowsOK, RunsOK
<1>25. CASE UNCHANGED vars
  BY <1>25
<1>26. QED
  BY <1>1, <1>2, <1>3, <1>4, <1>5, <1>6, <1>7, <1>8, <1>9, <1>10, <1>11, <1>12, <1>13,
     <1>14, <1>15, <1>16, <1>17, <1>18, <1>19, <1>20, <1>21, <1>22, <1>23, <1>24, <1>25
     DEF Next, Worker, Accept

-----------------------------------------------------------------------------
(* Attempts. *)

LEMMA FailuresStep ==
    ASSUME TypeOK, HandsOK, FailuresOK, [Next]_vars PROVE FailuresOK'
<1> RowsOK /\ RunsOK
  BY DEF TypeOK
<1> USE QueueAssumption DEF vars, jobVars, runVars, FailuresOK, SpentIsSpent,
        FailsOnlyWhenSpent
<1>1. ASSUME NEW j \in Jobs, AcceptUngated(j) PROVE FailuresOK'
  BY <1>1 DEF AcceptUngated, RowsOK, RunsOK
<1>2. ASSUME NEW j \in Jobs, Enqueue(j) PROVE FailuresOK'
  BY <1>2 DEF Enqueue, RowsOK, RunsOK
<1>3. ASSUME NEW j \in Jobs, Age(j) PROVE FailuresOK'
  BY <1>3 DEF Age, RowsOK, RunsOK
<1>4. ASSUME NEW r \in Runs, Confirm(r) PROVE FailuresOK'
  BY <1>4 DEF Confirm, RowsOK, RunsOK
<1>5. ASSUME NEW r \in Runs, AcquireLease(r) PROVE FailuresOK'
  BY <1>5 DEF AcquireLease, RowsOK, RunsOK
<1>6. ASSUME NEW r \in Runs, RecoverSelect(r) PROVE FailuresOK'
  BY <1>6 DEF RecoverSelect, Stale, Retriable, RowsOK, RunsOK
<1>7. ASSUME NEW r \in Runs, RecoverApply(r) PROVE FailuresOK'
  BY <1>7 DEF RecoverApply, RowsOK, RunsOK
<1>8. ASSUME NEW r \in Runs, Poll(r) PROVE FailuresOK'
  BY <1>8 DEF Poll, RowsOK, RunsOK
<1>9. ASSUME NEW r \in Runs, Claim(r) PROVE FailuresOK'
  BY <1>9 DEF Claim, Claimable, RowsOK, RunsOK
<1>10. ASSUME NEW r \in Runs, ClaimNothing(r) PROVE FailuresOK'
  BY <1>10 DEF ClaimNothing, RowsOK, RunsOK
<1>11. ASSUME NEW r \in Runs, Fence(r) PROVE FailuresOK'
  BY <1>11 DEF Fence, RowsOK, RunsOK
<1>12. ASSUME NEW r \in Runs, FencedOut(r) PROVE FailuresOK'
  BY <1>12 DEF FencedOut, PutDown, Release, Owned, RowsOK, RunsOK
<1>13. ASSUME NEW r \in Runs, Launch(r) PROVE FailuresOK'
  BY <1>13 DEF Launch, RowsOK, RunsOK
<1>14. ASSUME NEW r \in Runs, Discard(r) PROVE FailuresOK'
  BY <1>14 DEF Discard, PutDown, Release, Owned, RowsOK, RunsOK
<1>15. ASSUME NEW r \in Runs, ChildTimesOut(r) PROVE FailuresOK'
  BY <1>15 DEF ChildTimesOut, RowsOK, RunsOK
<1>16. ASSUME NEW r \in Runs, Returned(r) PROVE FailuresOK'
  BY <1>16 DEF Returned, RowsOK, RunsOK
<1>17. ASSUME NEW r \in Runs, RecordSuccess(r) PROVE FailuresOK'
  BY <1>17 DEF RecordSuccess, PutDown, Release, Owned, RowsOK, RunsOK
<1>18. ASSUME NEW r \in Runs, RecordFailure(r) PROVE FailuresOK'
  BY <1>18 DEF RecordFailure, PutDown, BudgetLeft, Release, Owned, HandsOK, Handling,
     RowsOK, RunsOK
<1>19. ASSUME NEW r \in Runs, StartRun(r) PROVE FailuresOK'
  BY <1>19 DEF StartRun, RowsOK, RunsOK
<1>20. ASSUME NEW r \in Runs, Crash(r) PROVE FailuresOK'
  BY <1>20 DEF Crash, RowsOK, RunsOK
<1>21. ASSUME NEW r \in Runs, Heartbeat(r) PROVE FailuresOK'
  BY <1>21 DEF Heartbeat, RowsOK, RunsOK
<1>22. ASSUME NEW r \in Runs, NEW ok \in BOOLEAN, Probed(r, ok) PROVE FailuresOK'
  BY <1>22 DEF Probed, RowsOK, RunsOK
<1>23. ASSUME NEW r \in Runs, NEW res \in Result \ {"none"}, ChildExits(r, res)
      PROVE  FailuresOK'
  BY <1>23 DEF ChildExits, RowsOK, RunsOK
<1>24. CASE Expire
  BY <1>24 DEF Expire, RowsOK, RunsOK
<1>25. CASE UNCHANGED vars
  BY <1>25
<1>26. QED
  BY <1>1, <1>2, <1>3, <1>4, <1>5, <1>6, <1>7, <1>8, <1>9, <1>10, <1>11, <1>12, <1>13,
     <1>14, <1>15, <1>16, <1>17, <1>18, <1>19, <1>20, <1>21, <1>22, <1>23, <1>24, <1>25
     DEF Next, Worker, Accept

LEMMA ChildrenStep ==
    ASSUME TypeOK, HandsOK, ChildrenOK, [Next]_vars PROVE ChildrenOK'
<1> RowsOK /\ RunsOK
  BY DEF TypeOK
<1> USE QueueAssumption DEF vars, jobVars, runVars, ChildrenOK, ChildrenBound, ClaimedBound,
        FirstChildBound, Owned, Handling
<1>1. ASSUME NEW j \in Jobs, AcceptUngated(j) PROVE ChildrenOK'
  BY <1>1 DEF AcceptUngated, HandsOK, RowsOK, RunsOK
<1>2. ASSUME NEW j \in Jobs, Enqueue(j) PROVE ChildrenOK'
  BY <1>2 DEF Enqueue, HandsOK, RowsOK, RunsOK
<1>3. ASSUME NEW j \in Jobs, Age(j) PROVE ChildrenOK'
  BY <1>3 DEF Age, HandsOK, RowsOK, RunsOK
<1>4. ASSUME NEW r \in Runs, Confirm(r) PROVE ChildrenOK'
  BY <1>4 DEF Confirm, HandsOK, RowsOK, RunsOK
<1>5. ASSUME NEW r \in Runs, AcquireLease(r) PROVE ChildrenOK'
  BY <1>5 DEF AcquireLease, HandsOK, RowsOK, RunsOK
<1>6. ASSUME NEW r \in Runs, RecoverSelect(r) PROVE ChildrenOK'
  BY <1>6 DEF RecoverSelect, HandsOK, RowsOK, RunsOK
<1>7. ASSUME NEW r \in Runs, RecoverApply(r) PROVE ChildrenOK'
  BY <1>7 DEF RecoverApply, HandsOK, RowsOK, RunsOK
<1>8. ASSUME NEW r \in Runs, Poll(r) PROVE ChildrenOK'
  BY <1>8 DEF Poll, HandsOK, RowsOK, RunsOK
<1>9. ASSUME NEW r \in Runs, Claim(r) PROVE ChildrenOK'
  BY <1>9 DEF Claim, Claimable, HandsOK, RowsOK, RunsOK
<1>10. ASSUME NEW r \in Runs, ClaimNothing(r) PROVE ChildrenOK'
  BY <1>10 DEF ClaimNothing, HandsOK, RowsOK, RunsOK
<1>11. ASSUME NEW r \in Runs, Fence(r) PROVE ChildrenOK'
  BY <1>11 DEF Fence, HandsOK, RowsOK, RunsOK
<1>12. ASSUME NEW r \in Runs, FencedOut(r) PROVE ChildrenOK'
  BY <1>12 DEF FencedOut, PutDown, Release, HandsOK, RowsOK, RunsOK
<1>13. ASSUME NEW r \in Runs, Launch(r) PROVE ChildrenOK'
  BY <1>13 DEF Launch, HandsOK, RowsOK, RunsOK
<1>14. ASSUME NEW r \in Runs, Discard(r) PROVE ChildrenOK'
  BY <1>14 DEF Discard, PutDown, Release, HandsOK, RowsOK, RunsOK
<1>15. ASSUME NEW r \in Runs, ChildTimesOut(r) PROVE ChildrenOK'
  BY <1>15 DEF ChildTimesOut, HandsOK, RowsOK, RunsOK
<1>16. ASSUME NEW r \in Runs, Returned(r) PROVE ChildrenOK'
  BY <1>16 DEF Returned, MayRetry, HandsOK, RowsOK, RunsOK
<1>17. ASSUME NEW r \in Runs, RecordSuccess(r) PROVE ChildrenOK'
  BY <1>17 DEF RecordSuccess, PutDown, Release, HandsOK, RowsOK, RunsOK
<1>18. ASSUME NEW r \in Runs, RecordFailure(r) PROVE ChildrenOK'
  BY <1>18 DEF RecordFailure, PutDown, Release, HandsOK, RowsOK, RunsOK
<1>19. ASSUME NEW r \in Runs, StartRun(r) PROVE ChildrenOK'
  BY <1>19 DEF StartRun, HandsOK, RowsOK, RunsOK
<1>20. ASSUME NEW r \in Runs, Crash(r) PROVE ChildrenOK'
  BY <1>20 DEF Crash, HandsOK, RowsOK, RunsOK
<1>21. ASSUME NEW r \in Runs, Heartbeat(r) PROVE ChildrenOK'
  BY <1>21 DEF Heartbeat, HandsOK, RowsOK, RunsOK
<1>22. ASSUME NEW r \in Runs, NEW ok \in BOOLEAN, Probed(r, ok) PROVE ChildrenOK'
  BY <1>22 DEF Probed, HandsOK, RowsOK, RunsOK
<1>23. ASSUME NEW r \in Runs, NEW res \in Result \ {"none"}, ChildExits(r, res)
      PROVE  ChildrenOK'
  BY <1>23 DEF ChildExits, HandsOK, RowsOK, RunsOK
<1>24. CASE Expire
  BY <1>24 DEF Expire, HandsOK, RowsOK, RunsOK
<1>25. CASE UNCHANGED vars
  BY <1>25
<1>26. QED
  BY <1>1, <1>2, <1>3, <1>4, <1>5, <1>6, <1>7, <1>8, <1>9, <1>10, <1>11, <1>12, <1>13,
     <1>14, <1>15, <1>16, <1>17, <1>18, <1>19, <1>20, <1>21, <1>22, <1>23, <1>24, <1>25
     DEF Next, Worker, Accept

-----------------------------------------------------------------------------
(* The inductive invariant, and what it gives. *)

LEMMA QueueInit == Init => QueueInv
<1> SUFFICES ASSUME Init PROVE QueueInv
  OBVIOUS
<1>1. TypeOK
  BY TypeInit
<1>2. HandsOK /\ OwnersStarted /\ ClaimIsCurrent /\ RecordingIsOk
  BY DEF Init, HandsOK, OwnersStarted, ClaimIsCurrent, RecordingIsOk, Handling
<1>3. NoForgottenClaim /\ FailsOnlyWhenSpent
  BY DEF Init, NoForgottenClaim, FailsOnlyWhenSpent
<1>4. SpentIsSpent /\ ChildrenBound /\ ClaimedBound /\ FirstChildBound
  BY DEF Init, SpentIsSpent, ChildrenBound, ClaimedBound, FirstChildBound
<1>5. QED
  BY <1>1, <1>2, <1>3, <1>4 DEF QueueInv, ClaimsOK, OutcomeOK, FailuresOK, ChildrenOK

LEMMA QueueStep == QueueInv /\ [Next]_vars => QueueInv'
  BY TypeStep, ClaimsStep, OutcomeStep, FailuresStep, ChildrenStep
     DEF QueueInv, ClaimsOK

LEMMA QueueInvariant == Spec => []QueueInv
  BY QueueInit, QueueStep, PTL DEF Spec

\* A row, a run and the snapshot keep their types, and no claim takes a job
\* beyond max_attempts.  (claim_next_job)
THEOREM TypeCorrect == Spec => []TypeOK
<1>1. QueueInv => TypeOK
  BY DEF QueueInv
<1>2. QED
  BY <1>1, QueueInvariant, PTL

\* A worker that is up has in its hands every job its claim is on, however many
\* workers overlap.  (handle_job, requeue_claimed_job_if_owned)
THEOREM ClaimsAreNotForgotten == Spec => []NoForgottenClaim
<1>1. QueueInv => NoForgottenClaim
  BY DEF QueueInv, ClaimsOK
<1>2. QED
  BY <1>1, QueueInvariant, PTL

\* Native work starts at most twice per attempt, and attempts are bounded.
\* (attempts, the bounded retry of handle_job)
THEOREM NativeWorkIsBounded == Spec => []AttemptBudget
<1>1. QueueInv => AttemptBudget
  <2> SUFFICES ASSUME QueueInv, NEW j \in Jobs PROVE children[j] <= 2 * MaxAttempts
    BY DEF AttemptBudget
  <2>1. children[j] <= 2 * attempts[j]
    BY DEF QueueInv, ChildrenOK, ChildrenBound
  <2>2. children[j] \in Nat /\ attempts[j] \in 0 .. MaxAttempts /\ MaxAttempts \in Nat
    BY QueueAssumption DEF QueueInv, TypeOK, RowsOK
  <2>3. QED
    BY <2>1, <2>2
<1>2. QED
  BY <1>1, QueueInvariant, PTL

\* No job fails with attempts left, whoever gives up on it: its worker, after an
\* error or a timeout, or a recovery.  (handle_job, recover_stale_running_jobs)
THEOREM FailureIsSpent == Spec => []FailsOnlyWhenSpent
<1>1. QueueInv => FailsOnlyWhenSpent
  BY DEF QueueInv, FailuresOK
<1>2. QED
  BY <1>1, QueueInvariant, PTL

LEMMA SuccessStep == ASSUME QueueInv, [Next]_vars PROVE [SucceedsByAttempt]_vars
<1> RowsOK /\ RunsOK
  BY DEF QueueInv, TypeOK
<1> SUFFICES ASSUME NEW j \in Jobs, status'[j] = "succeeded", status[j] # "succeeded"
             PROVE  \E r \in Runs : /\ owner[j] = r /\ job[r] = j
                                    /\ result[r] = "ok" /\ attempt[r] = attempts[j]
  BY DEF SucceedsByAttempt
<1>1. PICK r \in Runs : RecordSuccess(r)
  <2> USE DEF vars, jobVars, runVars, RowsOK
  <2>1. CASE \E k \in Jobs : Accept(k) \/ AcceptUngated(k) \/ Enqueue(k) \/ Age(k)
    BY <2>1 DEF Accept, AcceptUngated, Enqueue, Age
  <2>2. CASE \E r \in Runs : StartRun(r) \/ Crash(r) \/ Heartbeat(r)
    BY <2>2 DEF StartRun, Crash, Heartbeat
  <2>3. CASE Expire
    BY <2>3 DEF Expire
  <2>4. CASE \E r \in Runs : \/ \E ok \in BOOLEAN : Probed(r, ok)
                             \/ \E res \in Result \ {"none"} : ChildExits(r, res)
    BY <2>4 DEF Probed, ChildExits
  <2>5. CASE \E r \in Runs : Confirm(r) \/ AcquireLease(r) \/ RecoverSelect(r) \/ Poll(r)
    BY <2>5 DEF Confirm, AcquireLease, RecoverSelect, Poll
  <2>6. CASE \E r \in Runs : RecoverApply(r)
    BY <2>6 DEF RecoverApply
  <2>7. CASE \E r \in Runs : Claim(r) \/ ClaimNothing(r) \/ Fence(r) \/ Launch(r)
    BY <2>7 DEF Claim, ClaimNothing, Fence, Launch
  <2>8. CASE \E r \in Runs : FencedOut(r) \/ Discard(r)
    BY <2>8 DEF FencedOut, Discard, Release
  <2>9. CASE \E r \in Runs : ChildTimesOut(r) \/ Returned(r)
    BY <2>9 DEF ChildTimesOut, Returned
  <2>10. CASE \E r \in Runs : RecordFailure(r)
    BY <2>10 DEF RecordFailure, Release
  <2>11. CASE \E r \in Runs : RecordSuccess(r)
    BY <2>11
  <2>12. CASE UNCHANGED vars
    BY <2>12
  <2>13. QED
    BY <2>1, <2>2, <2>3, <2>4, <2>5, <2>6, <2>7, <2>8, <2>9, <2>10, <2>11, <2>12, Zenon
       DEF Next, Worker
<1>2. Owned(r) /\ job[r] = j
  BY <1>1 DEF RecordSuccess, RowsOK
<1>3. result[r] = "ok" /\ attempt[r] = attempts[j]
  BY <1>1, <1>2 DEF RecordSuccess, QueueInv, OutcomeOK, RecordingIsOk, ClaimIsCurrent,
     Handling
<1>4. QED
  BY <1>2, <1>3 DEF Owned

\* A success is that of the attempt on the row, although recoveries UPDATE rows
\* by job_id alone.  (mark_succeeded_if_owned)
THEOREM SuccessIsOfTheAttempt == Spec => SuccessIsCurrent
<1>1. QueueInv /\ [Next]_vars => [SucceedsByAttempt]_vars
  BY SuccessStep
<1>2. QED
  BY QueueInvariant, <1>1, PTL DEF Spec, SuccessIsCurrent


-----------------------------------------------------------------------------
(* One worker at a time. *)

\* No worker is up beside another, and the one past its lease still has it.
OneWorker ==
    /\ \A r, s \in Runs : Up(r) /\ Up(s) => r = s
    /\ \A r \in Runs : Up(r) /\ pc[r] \notin {"probing", "confirming", "leasing"} =>
          lease = r

\* What recovery SELECTed is still as it was when the UPDATEs come.
SelectedStays ==
    \A r \in Runs : pc[r] = "applying" =>
        /\ \A j \in retryRows[r] : status[j] = "running" /\ Retriable(j)
        /\ \A j \in spentRows[r] : status[j] = "running"

\* A row is inserted once, and before that it has no attempts.
InsertedOnce == \A j \in Jobs : /\ j \in upload => status[j] = "none"
                                /\ status[j] = "none" => attempts[j] = 0

SerialInv == OneWorker /\ SelectedStays /\ InsertedOnce /\ QueuedIsClaimable

\* A worker starts when none is up, and only a start takes the lease of another.
LEMMA OneWorkerStep ==
    ASSUME TypeOK, OneWorker, ~Overlap, [Next]_vars
    PROVE  OneWorker'
<1> RowsOK /\ RunsOK
  BY DEF TypeOK
<1> USE QueueAssumption DEF vars, jobVars, runVars, Up, Down, Point, OneWorker
<1>1. ASSUME NEW j \in Jobs, AcceptUngated(j) PROVE OneWorker'
  BY <1>1 DEF AcceptUngated, RowsOK, RunsOK
<1>2. ASSUME NEW j \in Jobs, Enqueue(j) PROVE OneWorker'
  BY <1>2 DEF Enqueue, RowsOK, RunsOK
<1>3. ASSUME NEW j \in Jobs, Age(j) PROVE OneWorker'
  BY <1>3 DEF Age, RowsOK, RunsOK
<1>4. ASSUME NEW r \in Runs, Confirm(r) PROVE OneWorker'
  BY <1>4 DEF Confirm, RowsOK, RunsOK
<1>5. ASSUME NEW r \in Runs, AcquireLease(r) PROVE OneWorker'
  BY <1>5 DEF AcquireLease, RowsOK, RunsOK
<1>6. ASSUME NEW r \in Runs, RecoverSelect(r) PROVE OneWorker'
  BY <1>6 DEF RecoverSelect, Stale, Retriable, RowsOK, RunsOK
<1>7. ASSUME NEW r \in Runs, RecoverApply(r) PROVE OneWorker'
  BY <1>7 DEF RecoverApply, RowsOK, RunsOK
<1>8. ASSUME NEW r \in Runs, Poll(r) PROVE OneWorker'
  BY <1>8 DEF Poll, RowsOK, RunsOK
<1>9. ASSUME NEW r \in Runs, Claim(r) PROVE OneWorker'
  BY <1>9 DEF Claim, Claimable, RowsOK, RunsOK
<1>10. ASSUME NEW r \in Runs, ClaimNothing(r) PROVE OneWorker'
  BY <1>10 DEF ClaimNothing, RowsOK, RunsOK
<1>11. ASSUME NEW r \in Runs, Fence(r) PROVE OneWorker'
  BY <1>11 DEF Fence, RowsOK, RunsOK
<1>12. ASSUME NEW r \in Runs, FencedOut(r) PROVE OneWorker'
  BY <1>12 DEF FencedOut, PutDown, RowsOK, RunsOK
<1>13. ASSUME NEW r \in Runs, Launch(r) PROVE OneWorker'
  BY <1>13 DEF Launch, RowsOK, RunsOK
<1>14. ASSUME NEW r \in Runs, Discard(r) PROVE OneWorker'
  BY <1>14 DEF Discard, PutDown, RowsOK, RunsOK
<1>15. ASSUME NEW r \in Runs, ChildTimesOut(r) PROVE OneWorker'
  BY <1>15 DEF ChildTimesOut, RowsOK, RunsOK
<1>16. ASSUME NEW r \in Runs, Returned(r) PROVE OneWorker'
  BY <1>16 DEF Returned, RowsOK, RunsOK
<1>17. ASSUME NEW r \in Runs, RecordSuccess(r) PROVE OneWorker'
  BY <1>17 DEF RecordSuccess, PutDown, Owned, RowsOK, RunsOK
<1>18. ASSUME NEW r \in Runs, RecordFailure(r) PROVE OneWorker'
  BY <1>18 DEF RecordFailure, PutDown, BudgetLeft, Release, Owned, RowsOK, RunsOK
<1>19. ASSUME NEW r \in Runs, StartRun(r) PROVE OneWorker'
  BY <1>19 DEF StartRun, RowsOK, RunsOK
<1>20. ASSUME NEW r \in Runs, Crash(r) PROVE OneWorker'
  BY <1>20 DEF Crash, RowsOK, RunsOK
<1>21. ASSUME NEW r \in Runs, Heartbeat(r) PROVE OneWorker'
  BY <1>21 DEF Heartbeat, RowsOK, RunsOK
<1>22. ASSUME NEW r \in Runs, NEW ok \in BOOLEAN, Probed(r, ok) PROVE OneWorker'
  BY <1>22 DEF Probed, RowsOK, RunsOK
<1>23. ASSUME NEW r \in Runs, NEW res \in Result \ {"none"}, ChildExits(r, res) PROVE OneWorker'
  BY <1>23 DEF ChildExits, RowsOK, RunsOK
<1>24. CASE Expire
  BY <1>24 DEF Expire, RowsOK, RunsOK
<1>25. CASE UNCHANGED vars
  BY <1>25 DEF RowsOK, RunsOK
<1>26. QED
  BY <1>1, <1>2, <1>3, <1>4, <1>5, <1>6, <1>7, <1>8, <1>9, <1>10, <1>11, <1>12, <1>13, <1>14, <1>15, <1>16, <1>17, <1>18, <1>19, <1>20, <1>21, <1>22, <1>23, <1>24, <1>25
     DEF Next, Worker, Accept

\* Between recovery's SELECT and its UPDATEs nobody else is there to change a row.
LEMMA SelectedStep ==
    ASSUME TypeOK, HandsOK, OneWorker, SelectedStays, InsertedOnce, ~Overlap, [Next]_vars
    PROVE  SelectedStays'
<1> RowsOK /\ RunsOK
  BY DEF TypeOK
<1> USE QueueAssumption DEF vars, jobVars, runVars, Up, Down, Point, OneWorker, SelectedStays, InsertedOnce, Retriable, Handling, HandsOK
<1>1. ASSUME NEW j \in Jobs, AcceptUngated(j) PROVE SelectedStays'
  BY <1>1 DEF AcceptUngated, RowsOK, RunsOK
<1>2. ASSUME NEW j \in Jobs, Enqueue(j) PROVE SelectedStays'
  BY <1>2 DEF Enqueue, RowsOK, RunsOK
<1>3. ASSUME NEW j \in Jobs, Age(j) PROVE SelectedStays'
  BY <1>3 DEF Age, RowsOK, RunsOK
<1>4. ASSUME NEW r \in Runs, Confirm(r) PROVE SelectedStays'
  BY <1>4 DEF Confirm, RowsOK, RunsOK
<1>5. ASSUME NEW r \in Runs, AcquireLease(r) PROVE SelectedStays'
  BY <1>5 DEF AcquireLease, RowsOK, RunsOK
<1>6. ASSUME NEW r \in Runs, RecoverSelect(r) PROVE SelectedStays'
  BY <1>6 DEF RecoverSelect, Stale, Retriable, RowsOK, RunsOK
<1>7. ASSUME NEW r \in Runs, RecoverApply(r) PROVE SelectedStays'
  BY <1>7 DEF RecoverApply, RowsOK, RunsOK
<1>8. ASSUME NEW r \in Runs, Poll(r) PROVE SelectedStays'
  BY <1>8 DEF Poll, RowsOK, RunsOK
<1>9. ASSUME NEW r \in Runs, Claim(r) PROVE SelectedStays'
  BY <1>9 DEF Claim, Claimable, RowsOK, RunsOK
<1>10. ASSUME NEW r \in Runs, ClaimNothing(r) PROVE SelectedStays'
  BY <1>10 DEF ClaimNothing, RowsOK, RunsOK
<1>11. ASSUME NEW r \in Runs, Fence(r) PROVE SelectedStays'
  BY <1>11 DEF Fence, RowsOK, RunsOK
<1>12. ASSUME NEW r \in Runs, FencedOut(r) PROVE SelectedStays'
  BY <1>12 DEF FencedOut, PutDown, Release, Owned, RowsOK, RunsOK
<1>13. ASSUME NEW r \in Runs, Launch(r) PROVE SelectedStays'
  BY <1>13 DEF Launch, RowsOK, RunsOK
<1>14. ASSUME NEW r \in Runs, Discard(r) PROVE SelectedStays'
  BY <1>14 DEF Discard, PutDown, RowsOK, RunsOK
<1>15. ASSUME NEW r \in Runs, ChildTimesOut(r) PROVE SelectedStays'
  BY <1>15 DEF ChildTimesOut, RowsOK, RunsOK
<1>16. ASSUME NEW r \in Runs, Returned(r) PROVE SelectedStays'
  BY <1>16 DEF Returned, RowsOK, RunsOK
<1>17. ASSUME NEW r \in Runs, RecordSuccess(r) PROVE SelectedStays'
  BY <1>17 DEF RecordSuccess, PutDown, Owned, RowsOK, RunsOK
<1>18. ASSUME NEW r \in Runs, RecordFailure(r) PROVE SelectedStays'
  BY <1>18 DEF RecordFailure, PutDown, BudgetLeft, Release, Owned, RowsOK, RunsOK
<1>19. ASSUME NEW r \in Runs, StartRun(r) PROVE SelectedStays'
  BY <1>19 DEF StartRun, RowsOK, RunsOK
<1>20. ASSUME NEW r \in Runs, Crash(r) PROVE SelectedStays'
  BY <1>20 DEF Crash, RowsOK, RunsOK
<1>21. ASSUME NEW r \in Runs, Heartbeat(r) PROVE SelectedStays'
  BY <1>21 DEF Heartbeat, RowsOK, RunsOK
<1>22. ASSUME NEW r \in Runs, NEW ok \in BOOLEAN, Probed(r, ok) PROVE SelectedStays'
  BY <1>22 DEF Probed, RowsOK, RunsOK
<1>23. ASSUME NEW r \in Runs, NEW res \in Result \ {"none"}, ChildExits(r, res) PROVE SelectedStays'
  BY <1>23 DEF ChildExits, RowsOK, RunsOK
<1>24. CASE Expire
  BY <1>24 DEF Expire, RowsOK, RunsOK
<1>25. CASE UNCHANGED vars
  BY <1>25 DEF RowsOK, RunsOK
<1>26. QED
  BY <1>1, <1>2, <1>3, <1>4, <1>5, <1>6, <1>7, <1>8, <1>9, <1>10, <1>11, <1>12, <1>13, <1>14, <1>15, <1>16, <1>17, <1>18, <1>19, <1>20, <1>21, <1>22, <1>23, <1>24, <1>25
     DEF Next, Worker, Accept

\* Only the insertion makes a row, and only a claim counts an attempt.
LEMMA InsertedStep ==
    ASSUME TypeOK, HandsOK, OneWorker, SelectedStays, InsertedOnce, ~Overlap, [Next]_vars
    PROVE  InsertedOnce'
<1> RowsOK /\ RunsOK
  BY DEF TypeOK
<1> USE QueueAssumption DEF vars, jobVars, runVars, Up, Down, Point, OneWorker, SelectedStays, InsertedOnce, Retriable, Handling, HandsOK
<1>1. ASSUME NEW j \in Jobs, AcceptUngated(j) PROVE InsertedOnce'
  BY <1>1 DEF AcceptUngated, RowsOK, RunsOK
<1>2. ASSUME NEW j \in Jobs, Enqueue(j) PROVE InsertedOnce'
  BY <1>2 DEF Enqueue, RowsOK, RunsOK
<1>3. ASSUME NEW j \in Jobs, Age(j) PROVE InsertedOnce'
  BY <1>3 DEF Age, RowsOK, RunsOK
<1>4. ASSUME NEW r \in Runs, Confirm(r) PROVE InsertedOnce'
  BY <1>4 DEF Confirm, RowsOK, RunsOK
<1>5. ASSUME NEW r \in Runs, AcquireLease(r) PROVE InsertedOnce'
  BY <1>5 DEF AcquireLease, RowsOK, RunsOK
<1>6. ASSUME NEW r \in Runs, RecoverSelect(r) PROVE InsertedOnce'
  BY <1>6 DEF RecoverSelect, Stale, Retriable, RowsOK, RunsOK
<1>7. ASSUME NEW r \in Runs, RecoverApply(r) PROVE InsertedOnce'
  BY <1>7 DEF RecoverApply, RowsOK, RunsOK
<1>8. ASSUME NEW r \in Runs, Poll(r) PROVE InsertedOnce'
  BY <1>8 DEF Poll, RowsOK, RunsOK
<1>9. ASSUME NEW r \in Runs, Claim(r) PROVE InsertedOnce'
  BY <1>9 DEF Claim, Claimable, RowsOK, RunsOK
<1>10. ASSUME NEW r \in Runs, ClaimNothing(r) PROVE InsertedOnce'
  BY <1>10 DEF ClaimNothing, RowsOK, RunsOK
<1>11. ASSUME NEW r \in Runs, Fence(r) PROVE InsertedOnce'
  BY <1>11 DEF Fence, RowsOK, RunsOK
<1>12. ASSUME NEW r \in Runs, FencedOut(r) PROVE InsertedOnce'
  BY <1>12 DEF FencedOut, PutDown, Release, Owned, RowsOK, RunsOK
<1>13. ASSUME NEW r \in Runs, Launch(r) PROVE InsertedOnce'
  BY <1>13 DEF Launch, RowsOK, RunsOK
<1>14. ASSUME NEW r \in Runs, Discard(r) PROVE InsertedOnce'
  BY <1>14 DEF Discard, PutDown, RowsOK, RunsOK
<1>15. ASSUME NEW r \in Runs, ChildTimesOut(r) PROVE InsertedOnce'
  BY <1>15 DEF ChildTimesOut, RowsOK, RunsOK
<1>16. ASSUME NEW r \in Runs, Returned(r) PROVE InsertedOnce'
  BY <1>16 DEF Returned, RowsOK, RunsOK
<1>17. ASSUME NEW r \in Runs, RecordSuccess(r) PROVE InsertedOnce'
  BY <1>17 DEF RecordSuccess, PutDown, Owned, RowsOK, RunsOK
<1>18. ASSUME NEW r \in Runs, RecordFailure(r) PROVE InsertedOnce'
  BY <1>18 DEF RecordFailure, PutDown, BudgetLeft, Release, Owned, RowsOK, RunsOK
<1>19. ASSUME NEW r \in Runs, StartRun(r) PROVE InsertedOnce'
  BY <1>19 DEF StartRun, RowsOK, RunsOK
<1>20. ASSUME NEW r \in Runs, Crash(r) PROVE InsertedOnce'
  BY <1>20 DEF Crash, RowsOK, RunsOK
<1>21. ASSUME NEW r \in Runs, Heartbeat(r) PROVE InsertedOnce'
  BY <1>21 DEF Heartbeat, RowsOK, RunsOK
<1>22. ASSUME NEW r \in Runs, NEW ok \in BOOLEAN, Probed(r, ok) PROVE InsertedOnce'
  BY <1>22 DEF Probed, RowsOK, RunsOK
<1>23. ASSUME NEW r \in Runs, NEW res \in Result \ {"none"}, ChildExits(r, res) PROVE InsertedOnce'
  BY <1>23 DEF ChildExits, RowsOK, RunsOK
<1>24. CASE Expire
  BY <1>24 DEF Expire, RowsOK, RunsOK
<1>25. CASE UNCHANGED vars
  BY <1>25 DEF RowsOK, RunsOK
<1>26. QED
  BY <1>1, <1>2, <1>3, <1>4, <1>5, <1>6, <1>7, <1>8, <1>9, <1>10, <1>11, <1>12, <1>13, <1>14, <1>15, <1>16, <1>17, <1>18, <1>19, <1>20, <1>21, <1>22, <1>23, <1>24, <1>25
     DEF Next, Worker, Accept

\* A claim is handed back only with attempts left: no lease is lost before native work.
LEMMA ClaimableStep ==
    ASSUME TypeOK, HandsOK, OneWorker, SelectedStays, InsertedOnce, QueuedIsClaimable, ~Overlap, [Next]_vars
    PROVE  QueuedIsClaimable'
<1> RowsOK /\ RunsOK
  BY DEF TypeOK
<1> USE QueueAssumption DEF vars, jobVars, runVars, Up, Down, Point, OneWorker, SelectedStays, InsertedOnce, QueuedIsClaimable, Retriable, Handling, HandsOK
<1>1. ASSUME NEW j \in Jobs, AcceptUngated(j) PROVE QueuedIsClaimable'
  BY <1>1 DEF AcceptUngated, RowsOK, RunsOK
<1>2. ASSUME NEW j \in Jobs, Enqueue(j) PROVE QueuedIsClaimable'
  BY <1>2 DEF Enqueue, RowsOK, RunsOK
<1>3. ASSUME NEW j \in Jobs, Age(j) PROVE QueuedIsClaimable'
  BY <1>3 DEF Age, RowsOK, RunsOK
<1>4. ASSUME NEW r \in Runs, Confirm(r) PROVE QueuedIsClaimable'
  BY <1>4 DEF Confirm, RowsOK, RunsOK
<1>5. ASSUME NEW r \in Runs, AcquireLease(r) PROVE QueuedIsClaimable'
  BY <1>5 DEF AcquireLease, RowsOK, RunsOK
<1>6. ASSUME NEW r \in Runs, RecoverSelect(r) PROVE QueuedIsClaimable'
  BY <1>6 DEF RecoverSelect, Stale, Retriable, RowsOK, RunsOK
<1>7. ASSUME NEW r \in Runs, RecoverApply(r) PROVE QueuedIsClaimable'
  BY <1>7 DEF RecoverApply, RowsOK, RunsOK
<1>8. ASSUME NEW r \in Runs, Poll(r) PROVE QueuedIsClaimable'
  BY <1>8 DEF Poll, RowsOK, RunsOK
<1>9. ASSUME NEW r \in Runs, Claim(r) PROVE QueuedIsClaimable'
  BY <1>9 DEF Claim, Claimable, RowsOK, RunsOK
<1>10. ASSUME NEW r \in Runs, ClaimNothing(r) PROVE QueuedIsClaimable'
  BY <1>10 DEF ClaimNothing, RowsOK, RunsOK
<1>11. ASSUME NEW r \in Runs, Fence(r) PROVE QueuedIsClaimable'
  BY <1>11 DEF Fence, RowsOK, RunsOK
<1>12. ASSUME NEW r \in Runs, FencedOut(r) PROVE QueuedIsClaimable'
  BY <1>12 DEF FencedOut, PutDown, Release, Owned, RowsOK, RunsOK
<1>13. ASSUME NEW r \in Runs, Launch(r) PROVE QueuedIsClaimable'
  BY <1>13 DEF Launch, RowsOK, RunsOK
<1>14. ASSUME NEW r \in Runs, Discard(r) PROVE QueuedIsClaimable'
  BY <1>14 DEF Discard, PutDown, RowsOK, RunsOK
<1>15. ASSUME NEW r \in Runs, ChildTimesOut(r) PROVE QueuedIsClaimable'
  BY <1>15 DEF ChildTimesOut, RowsOK, RunsOK
<1>16. ASSUME NEW r \in Runs, Returned(r) PROVE QueuedIsClaimable'
  BY <1>16 DEF Returned, RowsOK, RunsOK
<1>17. ASSUME NEW r \in Runs, RecordSuccess(r) PROVE QueuedIsClaimable'
  BY <1>17 DEF RecordSuccess, PutDown, Owned, RowsOK, RunsOK
<1>18. ASSUME NEW r \in Runs, RecordFailure(r) PROVE QueuedIsClaimable'
  BY <1>18 DEF RecordFailure, PutDown, BudgetLeft, Release, Owned, RowsOK, RunsOK
<1>19. ASSUME NEW r \in Runs, StartRun(r) PROVE QueuedIsClaimable'
  BY <1>19 DEF StartRun, RowsOK, RunsOK
<1>20. ASSUME NEW r \in Runs, Crash(r) PROVE QueuedIsClaimable'
  BY <1>20 DEF Crash, RowsOK, RunsOK
<1>21. ASSUME NEW r \in Runs, Heartbeat(r) PROVE QueuedIsClaimable'
  BY <1>21 DEF Heartbeat, RowsOK, RunsOK
<1>22. ASSUME NEW r \in Runs, NEW ok \in BOOLEAN, Probed(r, ok) PROVE QueuedIsClaimable'
  BY <1>22 DEF Probed, RowsOK, RunsOK
<1>23. ASSUME NEW r \in Runs, NEW res \in Result \ {"none"}, ChildExits(r, res) PROVE QueuedIsClaimable'
  BY <1>23 DEF ChildExits, RowsOK, RunsOK
<1>24. CASE Expire
  BY <1>24 DEF Expire, RowsOK, RunsOK
<1>25. CASE UNCHANGED vars
  BY <1>25 DEF RowsOK, RunsOK
<1>26. QED
  BY <1>1, <1>2, <1>3, <1>4, <1>5, <1>6, <1>7, <1>8, <1>9, <1>10, <1>11, <1>12, <1>13, <1>14, <1>15, <1>16, <1>17, <1>18, <1>19, <1>20, <1>21, <1>22, <1>23, <1>24, <1>25
     DEF Next, Worker, Accept


\* The invariant of a queue that one worker at a time drains (worker_loop).
LEMMA SerialInvariant == ASSUME ~Overlap PROVE Spec => [](QueueInv /\ SerialInv)
<1>1. Init => SerialInv
  BY QueueAssumption DEF Init, SerialInv, OneWorker, SelectedStays, InsertedOnce,
     QueuedIsClaimable, Up, Down
<1>2. QueueInv /\ SerialInv /\ [Next]_vars => SerialInv'
  BY OneWorkerStep, SelectedStep, InsertedStep, ClaimableStep
     DEF QueueInv, ClaimsOK, SerialInv
<1>3. QED
  BY <1>1, <1>2, QueueInvariant, PTL DEF Spec

\* What is queued can be claimed: one worker at a time never hands back a claim that used
\* up the last attempt.  (requeue_claimed_job_if_owned)
THEOREM QueuedCanBeClaimed == ASSUME ~Overlap PROVE Spec => []QueuedIsClaimable
<1>1. SerialInv => QueuedIsClaimable
  BY DEF SerialInv
<1>2. QED
  BY <1>1, SerialInvariant, PTL

\* The worker the API relies on is the one that can claim.  (worker_loop)
THEOREM ReadyCanClaim == ASSUME ~Overlap PROVE Spec => []ReadyWorkerHasLease
<1>1. QueueInv /\ SerialInv => ReadyWorkerHasLease
  BY DEF SerialInv, OneWorker, ReadyWorkerHasLease, Current, Ready, Up, Down
<1>2. QED
  BY <1>1, SerialInvariant, PTL

\* A success stays on its row whatever is recovered, retried or restarted after it.
\* (recover_stale_running_jobs, the *_if_owned UPDATEs)
THEOREM SuccessStays == ASSUME ~Overlap PROVE Spec => SucceededIsFinal
<1>1. QueueInv /\ SerialInv /\ [Next]_vars =>
        [\A j \in Jobs : status[j] = "succeeded" => status'[j] = "succeeded"]_vars
  <2> SUFFICES ASSUME QueueInv, SerialInv, [Next]_vars, NEW j \in Jobs,
                      status[j] = "succeeded"
               PROVE  status'[j] = "succeeded"
    OBVIOUS
  <2> USE DEF vars, jobVars, runVars, RowsOK
  <2> RowsOK /\ RunsOK /\ HandsOK /\ SelectedStays /\ InsertedOnce
    BY DEF QueueInv, TypeOK, ClaimsOK, SerialInv
  <2>1. CASE \E k \in Jobs : Accept(k) \/ AcceptUngated(k) \/ Enqueue(k) \/ Age(k)
    BY <2>1 DEF Accept, AcceptUngated, Enqueue, Age, InsertedOnce
  <2>2. CASE \E r \in Runs : StartRun(r) \/ Crash(r) \/ Heartbeat(r)
    BY <2>2 DEF StartRun, Crash, Heartbeat
  <2>3. CASE Expire
    BY <2>3 DEF Expire
  <2>4. CASE \E r \in Runs : \/ \E ok \in BOOLEAN : Probed(r, ok)
                             \/ \E res \in Result \ {"none"} : ChildExits(r, res)
    BY <2>4 DEF Probed, ChildExits
  <2>5. CASE \E r \in Runs : Confirm(r) \/ AcquireLease(r) \/ RecoverSelect(r) \/ Poll(r)
    BY <2>5 DEF Confirm, AcquireLease, RecoverSelect, Poll
  <2>6. CASE \E r \in Runs : RecoverApply(r)
    BY <2>6 DEF RecoverApply, SelectedStays
  <2>7. CASE \E r \in Runs : Claim(r) \/ ClaimNothing(r) \/ Fence(r) \/ Launch(r)
    BY <2>7 DEF Claim, Claimable, ClaimNothing, Fence, Launch
  <2>8. CASE \E r \in Runs : FencedOut(r) \/ Discard(r)
    BY <2>8 DEF FencedOut, Discard, Release, Owned
  <2>9. CASE \E r \in Runs : ChildTimesOut(r) \/ Returned(r)
    BY <2>9 DEF ChildTimesOut, Returned
  <2>10. CASE \E r \in Runs : RecordFailure(r)
    BY <2>10 DEF RecordFailure, Release, Owned
  <2>11. CASE \E r \in Runs : RecordSuccess(r)
    BY <2>11 DEF RecordSuccess, Owned
  <2>12. CASE UNCHANGED vars
    BY <2>12
  <2>13. QED
    BY <2>1, <2>2, <2>3, <2>4, <2>5, <2>6, <2>7, <2>8, <2>9, <2>10, <2>11, <2>12, Zenon
       DEF Next, Worker
<1>2. QED
  BY <1>1, SerialInvariant, PTL DEF Spec, SucceededIsFinal
=============================================================================
