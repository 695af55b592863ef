# hwpx-editor-server: TLA+ models and proofs

The server edits Hancom documents by driving the real editor, one command at a
time from an operator or a whole job at a time from a queue. What can go wrong in
ways tests hardly reach is: edits are lost when the editor is closed at the wrong
moment; a command is reported as refused, done or undone and the document says
otherwise; a remembered place in the document is used after the document has
moved; state files of several threads and processes disagree; a batch job is lost,
run twice, or delivers a file that is not its own. The modules here model the code
that decides these questions and check it on small instances with TLC; every safety
property the passing runs check is also proved with TLAPS, for every value of the
constants (§5). What needs fairness stays with TLC.

## 1. The system

```
hwpx CLI, MCP adapter --HTTP--> API (api_server, local_cli_router)
      API --> LocalCliService (binding files, InteractiveSessionManager's store)
                 --> LocalCliRuntimeManager --> LocalCliLiveSession:
                       one owning STA thread --COM--> editor
                       commands and bundles --> engines, native libraries, packages
      API --> QueueDB (SQLite) <-- worker processes --> child processes --COM--> editor
      worker --> readiness snapshot (JSON, path lock) --> API
```

| component | state | operations | interacts through | what makes it correct |
|---|---|---|---|---|
| live session (`local_cli_runtime.py`) | command queue, quarantine, cleanup permission, hold, save debt, editor | start, execute, close, reconcile, acknowledge; the thread's loop and finalizer | `_state_lock`, a queue, futures, a journal | no unsaved edit is discarded; a hold is final; every waiter is answered |
| service and binding (`local_cli_service.py`) | two projections of the open document, tombstones, managed roots | open, execute, status, reconcile, close, cleanup | two files written in turn, the runtime | two files are one commit; a closed document stays closed; a recorded late result survives |
| path locks (`atomic_json.py`) | lock registry with counts, the lock file, the file | lock, read, update, replace | threads and processes | one writer; no lost update; never a torn file |
| interactive store (`interactive_session_manager.py`) | session files with generations, active pointer, frozen evidence, ledgers | open, record, close, prune, reap | two path locks | the pointer names the open session; what was recorded is kept up to its caps |
| bundles and engines (`local_cli_bundle_*.py`, `native_*.py`, `command_packages/`) | caret, selection, intent, undo count of a step | some hundred ops, each a program of reads, moves, edits, proofs | one command on the owning thread | refused means untouched; edited means owed; done means asked |
| undo, save, selection (`local_cli_service.py`) | undo and redo lists, debt, verified package; remembered selection | edit, undo, redo, save, copy, close; find, select, type, styles | the editor's own history and caret | the lists are the document; a remembered place is what was shown |
| job queue (`queue_db.py`), worker (`worker.py`), readiness (`readiness.py`) | `jobs` and lease rows, each worker's claim, one snapshot | enqueue, lease, claim, heartbeat, requeue, succeed, fail, recover | SQLite transactions, a JSON file | attempts are bounded; results belong to the claim; nothing is forgotten |
| batch edit (`worker.py`, `edit_ops.py`) | a child's document, the job's PDF and HWPX | preflight, edit, prove, export, validate; retry and verdict | a child process, files, exit codes | files are whole, of one run, and proved as delivered |
| template engine, evidence, CLI, MCP adapter, configuration, installer | none shared | translation, rendering, installation | HTTP, PowerShell | not modelled |

`PROJECT.json` lists every component with its status, and the hazards with the
line where they bite and the properties that would catch them.

## 2. Modules

| module | what it is |
|---|---|
| `LiveSession` | one session: every public call, the owning thread, the finalizer |
| `NativeCustody` | what a session promises about the editor, without threads or queues |
| `LiveSessionProofs` | types; the custody invariant; what was cancelled, timed out or permits release; `LiveSession` implements `NativeCustody` |
| `SessionBinding` | the service's two projections of the open document over requests, failing writes and restarts |
| `SessionBindingProofs` | its theorems: projections, commits, and the late result of a command that timed out |
| `PathLock`, `PathLockProofs` | one JSON file under the two-level lock, and its theorems |
| `InteractiveStore`, `InteractiveStoreProofs` | session files, active pointer, evidence and ledgers; its theorems |
| `StepPrograms` | the vocabulary in which an engine is described: phases and the ways they fail |
| `TextSteps`, `TableSteps`, `ParagraphSteps`, `NumberingSteps`, `AreaSteps`, `StyleSteps`, `PictureSteps`, `DeferredSteps`, `ControlSteps`, `LegacySteps` | the engines of the bundle ops, as programs |
| `DirectSteps` | the commands that are one request each, as programs |
| `CommandPackages` | every op with its engine, family and undo policy |
| `ProgramRules` | the order of phases that every program keeps |
| `CommandBundle` | the bundle handler, which runs the programs and judges their failures |
| `EditHistory` | undo, redo, debt, save and close over many commands |
| `CommandProofs` | extends `CommandBundle` and `EditHistory`: the theorems of both |
| `Selection`, `SelectionProofs` | what find, select, type, bold and the styles act on; its theorems |
| `EditOperations` | the operations of a queued job, as programs and possible outcomes |
| `EditJob`, `EditJobProofs` | one job in its child, and the parent's retry and verdict; its theorems |
| `JobQueue`, `JobQueueProofs` | queue rows, lease, snapshot, any number of worker processes; its theorems |
| `MC...` | the TLC instances |

The modules meet at the places where the code does. `SessionBinding` sees the live
runtime through the manager's answers that `LiveSession` can give; the files both
stores write are `PathLock`'s file, so a read and a write there are one action each;
`EditHistory` takes from `CommandBundle` what a step records (a count, none, or a
count of its own) and from `LiveSession` that debt is set before an edit;
`CommandBundle` takes its programs from the ten step modules through `CommandPackages`; `JobQueue`
has the row's side and `EditJob` the document's side of one claim.

A definition named `X_Suffix` stands before `X` and is `X` with a plausible bug;
`PROJECT.json` ("mutants") says which property detects it. Nothing else uses it.

### LiveSession

An *object* is one `_LiveCommand`: an ordinary command (`Cmds`), one call of
`close()` (`Closes`), or the record of a `start()` that timed out (`Start`).

| variables | code |
|---|---|
| `state`, `timedOut`, `reconciled`, `recovery`, `fut`, `kind` | fields of `_LiveCommand` and its future |
| `caller` | where each request thread is: waiting, expired, answered |
| `queue` | `_commands`, FIFO |
| `terminal`, `quarantined`, `allow`, `held`, `closing`, `closed`, `debt` | `_terminal_quarantine`, `_quarantined`, `_allow_native_cleanup`, `_native_custody_held`, `_closing`, `_closed`, `_normal_close_requires_save` |
| `sta`, `cur`, `outcome`, `exempt` | the point and locals of `_run` and `_finalize` |
| `app`, `flag`, `unsaved` | the editor: process, `IsModified`, and edits in no file |
| `owed`, `ran` | history: debt reported by callers, handlers that ran |

A section under `_state_lock` is one action. Where the code reads or writes a
shared field without the lock it is cut: `_run` between taking a command,
running it, assessing it and settling it; the dequeue of a close between the
modified flag, the decision and the reply; `_finalize` between its permission
test, the two health checks and `Quit`; `acknowledge_reconciliation` between its
two lock sections. Commands fall into classes by what `_run` does with them
(`AllKinds`). A handler may do nothing, edit, save, or write a private copy, and
then return, fail or raise. A journal write may fail at each place where the
code handles that (`JournalFault`, at most `MaxFaults`). The editor's `IsModified`
flag is *external*: an edit sets it, an ordinary save clears it, and anything that
leaves the document exactly as saved keeps it. A session is reachable by requests
once `open_session` has returned (`Reachable`): the service publishes the binding
after that.

### SessionBinding

`sess` and `active` are the two projections (`binding.json` in the session's root,
`active_binding.json`), `root` the managed roots on disk, `tomb` the tombstones,
`txn` the save under `.binding-state.lock` with the step it has reached
(`_save_binding` writes the session's, then the active one, reads both back and
rolls back in that order). `rt` and `late` are what the runtime manager answers
about a session and its late result; `store` is the interactive store's record.
`b`, `base`, `exp` are a request's locals: the binding it read, the one it prepared,
and the generation and sequence it expects. Every read of a file, every write and
every native call is a step of its own; the fields of a binding that only evidence
uses are left out. History variables: `opened`, `closed`, `commit` (the last
binding a save returned), `torn` (a crash in the middle of a save). A restart keeps
the files and loses runtime and tombstones; what it then finds is in the model,
including an active projection whose root is gone. `Alive` is what a restart takes from
a session: while it holds, the runtime itself refuses to let go of a session with a late
result, whether a save could record the timeout or not.

### PathLock

`reg` is `_LOCKS` of each process, `mine` the lock object a thread holds a reference
to, `flock` the lock file's holder. A call reserves (count up), takes the RLock, takes
the lock file, reads, writes, and gives all three back, each step apart. A write is cut
as `atomic_write_json` is: the temporary file is created, written, synced, renamed over
the destination, read back, and the directory synced where it can be opened. `temp` and
`form` say what there is of the bytes (`part`, `full` in the system's cache, `synced` on
the disk), `old` which versions the directory on disk may still name. Any step may
raise, a process may stop anywhere, and so may the machine (`PowerStop`, *external*): of
bytes that were not synced only some are then there, and a rename that was not synced
may be undone. No code calls `path_lock` on a path it already holds, so re-entrance is
left out.

### InteractiveStore

`st` are the session files, `pointer` the active one, `evid` the frozen frames,
`ledger` and `central` what retention wrote about removed ones, `lockA` and `lockS`
the two path locks. A request that looks up its session before it takes the locks
does so in the model, and looks again under them as the code does.
`command_history` and the ledgers keep their last 100 entries in the code; `MaxHistory`
and `MaxEntries` are those caps, and small enough in the run to be exceeded. A stop may
fall between any two steps: between the session file and the pointer, and between the
removal of frames and the log of it.

### StepPrograms, the step modules and CommandBundle

An engine is a straight program of phases: `Read`, `Check`, `Move`, `Intent`,
`Edit`, `Verify`, and so on, each with the class of error it raises when it fails;
its restoration after a refusal is a second program. What a phase compares or
parses is abstract: a proof's verdict is free, but it may accept only what it looks
at. `CommandBundle` interprets the programs and is the handler around them. It
keeps what really happened (`eff` native edits, `odd` something else was done,
`drift` the document differs from before, `away` the caret is elsewhere) apart from
what the code knows (`issued`, `intent`, `reported`, `raised`), and the properties
relate the two. Every native call may fail, fail after taking effect, or report
success and do something else, the last at most `MaxSilent` times. `Packages` is
the full list of ops: each is one record (engine, restoration, family, undo policy,
whether it edits), one record for each variant where a request's fields choose the
path.

### EditHistory

`doc` and `ahead` are the editor's native steps in effect and undone, each named by
the edit that made it; `log` how many native steps an edit took; `disk` what is
saved. `book` is the binding's side (`undo`, `redo`, the pending count, `marker`,
`dirty`), `rt` the runtime's (`debt`, the verified package). An edit is of one of
the kinds the code tells apart: counted and uncounted bundles, picture steps with
their own profile, ops that count one unit, and direct commands by what they leave in
`pending_logical_undo_count` (`DirectSizes`, `PendingAfter`). Two clients may read the list at once:
undo and redo decide on a list read before they wait for the owning thread, and one
that acts on a stale list turns `measured` off, as does an edit of a kind whose
native steps the code cannot count. `ListsAreDocument` is claimed while `measured`;
debt and baseline are claimed always.

### Selection

`doc` is a sequence of paragraphs with an identity that only the properties look
at, `sel` the live selection, `binding` the remembered match list, range, last
selection, `unsafe` and `consumed` marks. A remembered range is a position: it
means whatever is there when it is used. Histories: `shown` (which paragraph was
last reported as selected), `picked`, and `did` (how the last command found its
target). Commands are atomic, since their races are `SessionBinding`'s subject, and
those that raise are no steps, since they hold the session (`LiveSession`).
`select` and `bold` search differently: both try the search texts of
`_live_find_candidates` in turn and take the first that has the match they ask for, but
`bold` counts where the editor's Find stops (`Raw`), `select` what
`_capture_verified_live_match` accepts (`Verified`). Where a search text stops in a
paragraph, and which text another stands for, are parameters (`Stops`, `Within`,
`Anchors`).

### EditOperations and EditJob

An operation has `n` targets in the document, may be `required` to match, and has
the set of outcomes (`may`) that a run of it that raised nothing can have: everything
it should have done ("whole"), part of it, nothing, an edit done twice, or something
else. The set is computed from its program, and a readback takes out what it would
have seen. Where the request decides whether there is a readback
(`paragraph_replace_native` only with `expected_present_after` or
`expected_absent_after`) both kinds of operation are in the set of jobs. `EditJob` is `handle_job` and the child: preflight, open, the operations
in order, the required-match check, save, close, reopen, proof, export through each
primitive, final save, validation. The child may raise at each point, be killed by
the timeout, or save silently nothing (`MaxSilent`). `editors` counts the instances that
run: a start may fail before or after there is one, a quit at the end that raises is
only logged, a killed child leaves its own. `pending` are the saves such an editor was
asked for, which it may still finish (`LateSave`, *external*). The files outlive a run,
so a verdict may meet a file of the attempt before.

### JobQueue

A *run* is one life of a worker process. Each SQL transaction is one action and
`pc` names the points in between, so a run can be overtaken wherever the code
reads in one transaction and acts in another: readiness and lease, the two lease
checks before native work, the recovery's SELECT and UPDATEs, a child's return
and the record of its result. All runs claim under one worker name, as the
installation does, so a claim is named by its run alone. `Overlap` says whether
a worker may be started while another is up: the scheduled task ignores a second
start (`src/scripts/windows_install_common.psm1`:2774), and
the lease, the claim token and `src/tests/test_queue_worker_lease.py` exist for
the case that it happens anyway (a manual start, a reinstallation). `Punctual`
says whether a worker in good health may let a heartbeat grow stale
(suspension of the machine): a child is killed after 300 s and touched on
return, a row is stale after 900 s, a snapshot expires after 120 s and is
refreshed every 15 s. `Accept` and `AcceptUngated` are the API's endpoints: two of
them, `fill_placeholders_and_convert` and `author_and_convert`, do not check
readiness.

## 3. Runs

| run | instance | states | shows |
|---|---|---|---|
| `session_safety` | 2 commands of 4 kinds, 2 closes, 2 acknowledging threads, a journal failure anywhere | 3.6 M | nothing unsaved is discarded; a cancelled command never ran; one quarantine; release needs a recovery copy; the session implements `NativeCustody` |
| `session_liveness` | 2 commands, 1 close, fair owning thread | 0.35 M | waiters answered, closes conclude, running timeouts settle |
| `session_reconcilable` | as above, callers keep asking | 0.03 M | violation expected: a command that times out while queued never becomes reconcilable |
| `binding` | 2 request threads, 2 sessions, 5 requests, 2 failing steps, 1 restart | 3.4 M | the projections are one commit; closed stays closed; commits only advance; a recorded timeout and its files survive, an unrecorded one's files while the process lives |
| `path_lock` | 2 threads of one process, 1 of another, 3 calls, a process or the machine stops once | 0.60 M | exclusion, no lost update, one complete version at every stop, every call returns |
| `interactive_store` | 2 threads, 2 sessions, 4 commands, 1 stop, caps of 0 settled sessions, 2 history entries and 1 ledger entry | 0.42 M | pointer, evidence, records, every request ends |
| `bundle_steps` | every package, bundles of up to 3 steps, 1 silent misbehaviour | 0.75 M | a refusal is clean, an edit is owed, a success is what was asked, its undo count is exact |
| `history` | 2 clients, 2 edits of up to 2 native steps | 0.77 M | the lists are the document, no work is lost, a current baseline is the document |
| `selection` | 2 paragraphs, 3 texts of which one occurs in another, one with two search texts, 2 edits | 0.19 M | type overwrites what was shown, nothing slips to the caret, bold follows select where they count alike |
| `edit_job` | one job of every operation, and of pairs with every proof; 2 attempts, 2 export primitives, 1 silent save | 5.6 M | files are whole, read back, of one run, and proved as delivered; leftover editors are counted |
| `queue_overlap` | 2 jobs, 2 overlapping runs, stalls | 0.85 M | claims, attempts, success of the right attempt |
| `queue_serial` | 2 jobs, 2 successive runs, fair workers | 0.32 M | success is final, queued jobs settle, lost jobs are recovered |

Type invariants are conjuncts of a checked property (`ProjectionsAgree`,
`PointerNamesOpen`, `CountIsExact`, `ListsAreDocument`, `NeverSlips`,
`FilesAreWhole`) or proved (`LiveSession`, `SessionBinding`, `PathLock`,
`JobQueue`, `EditJob`, `InteractiveStore`, `Selection`).

**Bounds.** Session: two commands and two closes let one command run while another
is queued and both wait on a close, and let a second close meet a refused first one;
two acknowledging threads let one be overtaken between its two lock sections; the
proofs cover any number of journal failures. Binding: two threads give every
pairwise overlap, and five requests are an open, a command that times out, its
reconciliation, a close and a second open. PathLock: with three calls the registry's
entry is removed and made again under a waiting thread; two `Locks` suffice, since a
fresh one differs from the one in use. Three calls also let a rename be undone under a
later read. Store: `MaxSettled = 0` makes every terminal session a candidate of the
reaper; with four commands the history and the ledgers overflow. Bundle: three steps let a later refusal meet an
earlier edit and a clean step between; one silent misbehaviour shows whether a step
is verified, two could cancel out in ways no proof claims to see. History: an edit
of two native steps is the least that can be half undone, a second edit the least
that an undo can wrongly take back. Selection: two paragraphs with texts one of which
contains the other give an ambiguous match, the long text's head is tried first and
stops twice where `select` counts once, and two edits move a paragraph away and
put another in its place. Job: two attempts are a retry and a last attempt, and each
may have its cold retry; pairs of operations give a first that succeeded before a
second that fails. Operations that differ in their name alone are one. Queue: two runs give every pairwise overlap, two attempts a
retry and a last one.

Deadlock is checked for `bundle_steps`, `selection` and `edit_job`, whose ends are
explicit. A session, a store, a queue without a worker and a document at its bound
of edits may stop, so it is not checked there.

**Fairness.** `LiveSession!FairSpec` has weak fairness of the owning thread alone:
native calls return and the thread is scheduled; callers need not act.
`session_reconcilable` also lets callers keep asking (`AskingSpec`), so that its
counterexample is not just a caller that never asks. `PathLock!FairSpec` and
`InteractiveStore!FairSpec` have weak fairness of each thread inside a call: it runs
on when nothing blocks it, and the code has no step that waits for anything but the
two locks. That a waiter is served although others keep coming needs no strong
fairness here because the calls of a behaviour are finitely many. `JobQueue!FairSpec`
has weak fairness of each run's own thread: a native child returns or is killed by
`job_timeout_seconds`. Nobody is obliged to start a worker, to keep one alive or
to submit a job.

## 4. Known differences

Places where the code does not do what its own words say. The first is a run with a
finding in `PROJECT.json`; the others are stated in the modules as properties that do
not hold, with a comment that says so, and no run checks them.

* `TimedOutBecomesReconcilable` (`session_reconcilable`): `_terminalize_timeout`
  drains the queue with the timed-out object in it. If that was still queued (it
  waited behind a slow command), it stays `timed_out_pending_reconciliation`, which
  `reconcile_command` refuses, while the error the caller got says it is
  reconcilable. The session can then be neither reconciled nor closed.
* `PriorDebtKept` (`LiveSession`): the exact-clean projection assigns
  `_normal_close_requires_save = False` after the handler, and so clears debt that
  `execute(prior_dirty=True)` recorded while the handler ran
  (`local_cli_runtime.py`:2992).
* `OwningThreadRetained` (`LiveSession`): a timeout after the sentinel was dequeued
  sets `_quarantined` before `_finalize` evaluates `permitted`; then nothing is
  released, nothing is held, and the thread ends (2646).
* `SucceededIsFinal` and `QueuedIsClaimable` hold for one worker at a time. With two,
  `recover_stale_running_jobs` selects outside a transaction and updates by `job_id`
  alone (`queue_db.py`:495), so a finished job may be put back; and
  `requeue_claimed_job_if_owned` does not give the attempt back (295), so a job handed
  over on its last attempt stays queued for ever.
* `OneLiveDocument` (`SessionBinding`): a command that fails makes the store's record
  terminal while its document stays open; an `open_upload` that passed its check
  before the first document was published then starts a second one
  (`interactive_session_manager.py`:1445, `local_cli_service.py`:4451). No property
  covers that hazard: what the store does keep is one open record, which is one guarded
  write.
* A timeout that is not recorded does not survive a restart. `LateResultsSurvive`
  (`SessionBinding`) asks for the files of a late result while a committed binding names
  its command, or while the process lives. If the save after the timeout fails or is
  refused (`local_cli_service.py`:4344), and the process stops before a later command
  records it, nothing on disk names it: a close then removes the root with the result
  unacknowledged.
* A late result may be acknowledged although the committed binding does not have it
  yet. A save that is rolled back leaves its generation free (`local_cli_service.py`:735);
  a request that read the record before the rollback carries that generation, passes the
  generation check after another request has committed it again, and replays its whole
  record, which the merge is there to prevent: "never replay its stale full snapshot"
  (709). Nothing is lost: the command is pending again and can be reconciled again,
  which is why `AcknowledgedWhilePending` (`SessionBinding`) asks that the binding names
  the command, not that it has the result. It takes three overlapping requests, one more
  than the run has.
* `RefusalVerified` (`CommandBundle`): the handler says of every refused guarded edit
  "original state and preservation verified" (`local_cli_service.py`:7506), but a
  picture op may be refused after its selection was cleared, and restores nothing.
* `EditsAreWhole` (`EditHistory`): a figure section counts one step whatever it took
  (6585), and so do ops without a policy and direct commands that make two native
  edits; one undo then takes back part of the edit.

Smaller ones, without a property:

* Session: a second acknowledgement in flight sets `_allow_native_cleanup` again after
  a hold revoked it (the hold itself stays). A timeout between the last health check
  and `Quit` does not stop the `Quit` (nothing unsaved is lost). A journal write that
  fails in `close()` after `_closing` is set leaves the gate shut.
* Binding: a close with nothing open unlinks the `active_binding.json` that a
  concurrent open has just published. A crash between the deletion of a root and
  `_clear_binding` leaves an active binding whose every close fails with "root is
  missing". A refused close records no sequence. The tombstone of a session is
  redundant: the check for a cleared binding catches the same saves.
* Path lock: the directory is synced where it can be opened, and the call returns all the
  same where not, as on Windows; a stop of the machine may then undo updates that
  returned. `NoLostUpdate` after such a stop speaks of those that a sync followed.
* Store: a stop between the session file and the pointer leaves a session open that
  nothing names, closes or reaps, and nobody was told of (`Unpointed`); a stop between the
  removal of expired frames and the log of it leaves those of one session in no ledger
  (`Untraced`). The code has no recovery for either; the properties bound them by the
  number of stops. Ledgers and history drop what exceeds 100 entries
  (`interactive_session_manager.py`:431, 467, 523, 1470).
* Selection: where a search text stops at what `select` does not accept as a match, or
  stops twice in what it takes as one (`CountsAgree` is false), the k-th stop that `bold`
  counts (`local_cli_service.py`:6917) is not the k-th match that `select` counted (2445),
  and `bold` styles another paragraph; `BoldFollowsSelect` claims nothing there. The long
  and the short text of the run show it.
* Selection: `select n` resolves an old match number again; a type refusal is raised
  inside the handler and so holds the session; `bullet` deletes without looking at
  `unsafe_selection_for_type`; `bold` never sets the consumed mark.
* History: the runtime's debt stays when a look at the document has overwritten
  `working_copy_dirty`; undo and redo decide on a list that another request may have
  changed by the time they run.
* Job: the child writes an exception to its log only, so the parent never finds the
  texts that its cold retry looks for (`worker.py`:3267). A fingerprint mismatch is
  retried at the next table by a prefix that the error does not have
  (`edit_ops.py`:2171, 3716). The text to be cleared is compared with what is selected
  after the clear. A readback accepts a token overlap (1791), so old text left behind
  still proves. A document that cannot be reopened for its proof leaves its editor
  running, and so do a killed child, an instance whose configuration fails and a quit
  that raises (3066). The next attempt starts its own beside it and looks for none; a
  save that the killed child had asked for may still replace a file of the next run, and
  then the success is of two runs. Without `expected_present_after` and
  `expected_absent_after` a `paragraph_replace_native` that silently did nothing is
  delivered (`edit_ops.py`:4195). The addresses written into the reopened
  document are in the PDF and not in the HWPX.
* Queue: a worker paused before `acquire_worker_lease` takes the lease from a newer
  worker, which then stays ready and never claims.

## 5. Proofs

Every theorem is for all values of the constants. The assumptions are
`ConstantsAssumption` (the names of a session's objects are distinct, kinds come from
`AllKinds`), `QueueAssumption` (finitely many jobs, `max_attempts` positive, `None` is
no name), `LockAssumption` (finitely many threads, each in a process; calls and crashes are counted;
`None` is no thread, lock or registry entry),
`StoreAssumption` (finitely many sessions; `None` is no thread, session or session record;
the bounds are numbers, and the history and a ledger hold at least one entry),
`BindingAssumption` (`None` is no thread, session, number, binding or save; the bounds
are numbers),
`EditJobAssumption` (at least one attempt and one export primitive, well-formed jobs,
a conversion has no operations), `HistoryAssumption` (`None` and `Direct` are no
counts), `SelectionAssumption` (the typed text is a text, each text has a list of candidate
needles, the native search makes a number of stops for a needle in a paragraph, `None` is
nothing that is remembered) and `BundleAssumption` (there are commands, and the
programs of each keep `ProgramRules!Orderly`). TLC evaluates all of them on the instances
above, the last on the full list of packages.

**Session.** `TypeCorrect` needs `CurOK` beside the types: at each point of the
owning thread, what kind of object it has in its hands.
`CustodyNeverDiscards` (`Spec => []NeverDiscards`) rests on `CustodyInv`:

* `DebtInv`: unsaved edits imply debt (`DebtCovers`). That is inductive only with
  the reasons the debt is there: a marking command that runs has set it
  (`EditsAreMarked`), the exact-clean exemption starts from a clean document
  (`ExemptIsClean`) and a proved outcome leaves one (`ProvedIsClean`);
* `PreservedIsClean`: while a recovery copy is preserved the session is
  terminal, no handler runs and nothing is unsaved, so an acknowledgement that
  clears the debt loses nothing. It needs `LateIsTerminal` (late outcomes only in a
  terminal session) and `Admitted`, `CurAdmitted` (the thread only runs what
  was admitted);
* `QuitIsClean`: between the finalizer's clean check and `Quit` nothing is
  unsaved;
* `HeldStops`: where the thread can be under a hold.

`HoldIsForever` is the action property `HeldIsFinal` from the same invariant.
`SessionKeepsCustody` shows that the initial states map to initial states of
`NativeCustody` and each step to a step or a stutter.

Three more invariants rest on `ReleaseInv`. `RanInv` says that what ran was in the
owning thread's hands once (`HandsOK`) and that a caller waits for what has not
settled (`WaitOK`), so an object answered "cancelled" is neither queued nor in hand:
`CancelledIsRetryable`. `OneTimedOut` needs that every late outcome and every recovery
belongs to the one timeout (`LateTimed`): `TimeoutsAreOne`. A permission to release
(`Copies`) survives only while the copy it was given on does; for that nothing may run
after a recovery (`NotBusy`), and a close that is taken up is the registered one, which
has not timed out (`Sentinel`): `ReleaseIsEarned`.

**Binding.** `Projected` gives `TypeCorrect` and `ProjectionsAreOne`. The
two files are written and rolled back in several steps, so their agreement is
inductive only with `Progress`: at each step of a save, which of the old and the new
record each file holds, given that a removal may take the session's file away
meanwhile. `Named` says that what a request carries is of its own session.

`Committing` adds what generations and sequences mean: a saved binding has a
generation (`Gens`); a session that is opened is its opener's alone until it is
published, and one that is closed is gone from the files, from the tombstones or from
every request (`Lived`); the sequence in a file or in a request is no later than the
runtime's, and a late command's number lies between (`Sequenced`); what is on disk or
being written is ahead of the last commit (`Ahead`). It gives `ClosedIsGone`, also where
a restart has emptied the tombstones, and `CommitsGrow`.

`Surviving` is about the command that timed out: every record, on
disk or in a request, tells the truth about it (`Truthful`: it names that command, or is
older than it, or was written with its result); two projections of one generation are
the same record (`Split`, `Against`), or a save could be checked against one and replace
the other; a result that is owed is named by every record of its session (`Owing`,
`AckOwed`); and a session whose runtime a restart has taken can only be reconciled, or
is no longer saved at all (`StrandedOK`), so that no close removes its files; and a live runtime has its root, for
whoever removes one lets the runtime go first (`Sheltered`, with `RootLeaves`), which
covers a timeout that no save recorded. It gives `LateResultsHold`, for any number of
requests, failing writes and restarts.

**Path lock.** `IInv` has the types, the registry (`RegistryOK`: a lock's count is the
number of threads from reserving to giving back, and all of them hold the same
object), the lock file (`FlockOK`), exclusion, `UpdateOK` and `SyncedOK`. Exclusion is
inductive only with the registry: a count that reaches zero too early would let a second
lock object of the same path be made. `UpdateOK` says that what a thread read is still in
the file when it replaces it and that what it wrote is there when it reads it back
(`ReadOK`), that an update that returned is in the file (`NoLostUpdate`), and that each
version the machine may come back with has every update the last sync of the directory
covers (`DueOK`). `SyncedOK` says that only a flushed and synced temporary file is given
the file's name, and so none of those versions is torn. `PathLockType`, `RegistrySafe`,
`MutualExclusion`, `UpdatesSurvive` and `FileIsComplete` follow, with any number of
threads, processes, process deaths and machine stops.

**Interactive store.** `InteractiveStoreProofs!Inv` says what a lock protects:
`LocksOK` (who is inside holds the lock), `PresentOK` (the session a record found under
the lock is there when it saves), `FreshOK` (a session being opened is nobody else's and
nobody was told of it), `PointerOK` (an open_session is alone from its admission until it
has written the pointer), `ToldOK` (nobody was told of an open session that no pointer
names), `ReapOK` (what the reaper chose stays settled, and its ledger is merged before its
directory goes, unless the central ledger is full), `CapsOK` (no ledger is longer than
`MaxEntries`), `EvidenceOK` (a removed frame was of a session whose retention had run out)
and `HistoryOK` (a command is in the history, or `MaxHistory` later ones are, before
anyone is told).

The stops are counted and not excused. `Unpointed` is the set of open sessions that the
pointer does not name, and `Untraced` the set of sessions with a removed frame that neither
a ledger nor a request at work names although no ledger that could have is full. A step that is not a stop adds
to neither (`UnpointedShrinks`, `TraceStays`): what is between two files is in the hands of
the one request that has the locks. A stop loses the hands of all, but only one of them
can be between the files, and adds one at most (`UnpointedCrash`, `UntracedCrash`). So each
set has at most as many members as there were stops, which `PointerIsExact` and
`NoFrameIsLost` state for any number of them; with no stop the pointer is exact and
no frame is untraced. `NewestIs` says what truncation leaves in a ledger. `RecordsAreKept` is the
action property for histories capped at any `MaxHistory`.

**Bundle.** The theorems hold for any set of commands whose programs are orderly, any
number of steps and any number of native calls that silently misbehave. `ProgramRules`
states the order as plain facts about a program, none of which runs it: intent is
published before the first edit (`PublishesFirst`); an engine decides to stop before it
edits (`StopsFirst`); a refusal that the handler may take for a judged one is raised where
the caret and the comparison are settled, where a restoration is armed, or after the
publication, which makes it a mutation error (`RefusesSettled`, and the restoration ends
with the caret given back and a comparison: `Restores`); a command of its own returns a
refusal only before its first edit (`ReturnsFirst`); a whole-document comparison comes
after the last edit (`VerifiesLast`), and what is reported is what was issued
(`ReportsIssued`). TLC evaluates the rules on every package as `BundleAssumption`, so a
program that breaks one stops the run before its first state.

The invariant has three layers. `ProgressOK` says what the phases behind an engine have
done: published, armed, possibly moved or edited, and what a comparison saw stays so until
the next edit. It is inductive because one phase adds one (`BeforeNext`, `BodyAhead`), so
nothing recursive is needed. `LeavesOK` says what an engine may leave: an edit only with
intent (`IssuedOK`), an edit only of a command that says it edits (`DeclaredOK`), a refusal
only with the caret back and nothing else changed (`RefusedOK`). `EndsOK` is what the
handler makes of it. It gives `BundleEditsAreDebt`, `BundleRefusalIsClean`,
`BundleAskedIsDone` and `BundleCountIsExact`: the handler is right about every program of
that shape, the packages of this code among them.

**Edit history.** `CommandProofs!HistoryInv` needs none of the lists. What may change the
document leaves debt and a stale package (`MarkingSteps`); the exception is a history
command in a session that was exactly clean, and then the editor's modified flag is
false only where the document is what was saved (`HistoryRan`). It gives `WorkIsSafe`
and `PackageIsDocument`, for any number of requests, edits and native steps and for
either behaviour of a private copy (`CopyClears`).

`ListsHold` (the lists are the document) is not inductive alone: an undo makes a number of
native calls that was decided earlier, from a count, while the lists only name edits. So
`CommandProofs!ListsInv` adds, besides the types, two parts. `Named`: the two lists name
different edits, and there is something to redo only when no direct command's count is
pending. `Listed`, while `measured`: the native steps can be cut into the listed edits
(`Tiled`: which edit each step belongs to, and where each edit ends), and every count in
use - of an entry, of a pending direct command, of a request that has read the list and
not yet run - is what its edit took. An edit appends one piece (`TiledAppend`), an undo or
redo moves the last piece to the other history in reverse (`TiledMoves`), a stop entry is an
empty piece (`StopLists`), and an edit without native steps may leave steps ahead that no
list names only below an uncounted entry, where undo is refused. The cutting stands for
the concatenation of the listed edits, which would take an induction over the list;
`AreStepsOf` states the property by counting instead, and `TiledMeans` connects the two.

**Queue.** `QueueInv` in four groups: `ClaimsOK` (a run has a job exactly inside
`handle_job`, owners were started, claims are not forgotten), `OutcomeOK` (a claim
still on its row counts the row's current attempt; a success to record was one),
`FailuresOK` (what recovery selected as spent stays spent until it is failed) and
`ChildrenOK` (children against attempts: two more to come while a claim has
started none, one more before its retry). It gives `TypeCorrect`,
`ClaimsAreNotForgotten`, `NativeWorkIsBounded`, `FailureIsSpent` and
`SuccessIsOfTheAttempt`, with overlapping, stalling and dying workers.

Three theorems are about one worker at a time and assume `~Overlap`, the constant that
lets a second worker start beside the first; with two they are false (section 4).
`SerialInv` says that at most one worker is up and has the lease once it is past its
start (`OneWorker`), that what recovery SELECTed is still running when its UPDATEs come
(`SelectedStays`), and that a row is inserted once, without attempts (`InsertedOnce`).
`SuccessStays`, `QueuedCanBeClaimed` and `ReadyCanClaim` follow: the first is
`SucceededIsFinal`, the others are the safety half of `JobsSettle`.

**Batch edit.** `EditJobProofs!Inv` joins the types with what each point of the child
implies: `ControlOK` (which locals mean something there), `Accounted` (no more editors are left behind than faults, and
at most one fault for each run that has ended: `Ran`, two for an attempt), `DocumentOK` (what the document in memory may be), `WholeOK` (files of the
output, and saves still on their way, are whole: each operation of the job has had one of
the outcomes it may have), `FreshOK` (files of this run) and `DeliveryOK` (what a success or a
proof says of them). The files outlive a run, so wholeness must be kept across a kill
and a retry, and a success must be traced to the run that wrote its files. It gives
`OutputIsWhole`, `SuccessIsOneRun` and `ProofIsOfTheFile`; the last two speak of jobs
in which no leftover editor's save came late (`landed`), for such a save replaces a file
that was already judged. `ReadBackIsInFiles` adds `ReadsBack`, a hypothesis about the jobs
alone: an operation that reads everything back (`reads`) cannot have left out what it
deletes or types (`may`), and one whose request names no text to read back claims nothing.
`EditOperations` computes the outcomes of every operation from its program and the run
takes its jobs from there, so that `ReadBackIsDelivered` is checked from the programs on
in the run, and from the outcomes on for every job in the theorem.

**Selection.** `SelectionProofs!Inv` ties what the binding remembers to what was
reported. Until the next edit the remembered range is what was shown (`RangeOK`); as
long as the result of `select` counts it is on record, is no safer than the record says,
and is what searching for it again would find (`PickOK`); a style that used the
selection up has left its mark (`StyleOK`). A position stands for a paragraph only while
the paragraphs are what they were, so the types need that an edit gives out one new
identity and none twice (`Identified`, with the lemmas `InsertAtIs` and `RemoveAtIs` on
sequences). `select` and `bold` count differently, so each has its lemma: a step
without an edit leaves the candidate that `bold` settles on (`SameFirst`), the place of
its k-th native stop (`SamePlace`) and the k-th verified match of `select` (`SameMatch`).
It gives `OverwritesShown`, `SelectionNeverSlips` and `BoldFollows` for documents of any
length and any texts, candidates and stops; the last claims the same paragraph only where the two counts
agree (`CountsAgree`; section 4 says where they do not).

**Only model-checked:** everything under fairness (`EveryWaiterAnswered`,
`CloseConcludes`, `RunningTimeoutSettles`, `CallsReturn`, `RequestsEnd`, `JobsSettle`,
`LostIsRecovered`), which is beyond the prover.

## 6. Not modelled

* Session: the data race on an outcome's fields between the timeout thread and the
  assessing thread; the journal's files, ranks and restart; status files and
  pruning; a failing write in `reconcile_command`; process-identity probes (a
  failing one is `StaTeardownFails`). `CloseConcludes` is claimed without journal
  failures: if the write in `close()` fails after `_closing` is set, the gate stays
  shut.
* Binding: evidence fields of a binding, path checks, uploads as bytes.
* Store: directory names of older versions, the bytes of frames, the projections of
  a record that only format it.
* Bundles and engines: what a phase compares, parses or measures. Proofs of native
  XML and of saved packages are a free verdict, limited to what the code gives them to
  look at. Ops are run on one document with one caret; what an edit inserts is not
  told apart.
* Queue: a child that outlives its dead worker and the output path it shares with the
  next attempt; the failure files; deletion. A readback that differs because another
  worker wrote the snapshot raises and ends the worker: that is `Crash`. A row whose
  worker died less than `job_stale_seconds` before the next start stays `running`
  until a later start: `LostIsRecovered` speaks of rows that are old enough.
* Batch edit: how a match is found inside a paragraph and how a readback is
  normalised; the endpoints' validation of a request.
* The template engine and the renderer: sequential, without shared or persistent
  state; what they produce is an input of a job. Step evidence, observation and job
  artefacts: they format what no decision reads back. CLI and MCP adapter: argument and
  schema translation. Configuration, authentication, models, media guard: checks
  without state. Installer and bundle scripts: operating-system calls.

## 7. Plan

1. `CommandJournal`: records with ranks, snapshots taken before and written after a
   state change, merge, crash and restart; the outcome race; then composed with
   `LiveSession`'s persistence points.
2. Refinement: `SessionBinding` and `InteractiveStore` to one abstract "one open
   document with its history", over `PathLock`'s abstract file.
3. The failure artefacts and deletion of a job beside a child that outlives its worker.
