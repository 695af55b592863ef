------------------------------ MODULE PathLock ------------------------------
(***************************************************************************)
(* One JSON state file under path_lock (app/atomic_json.py).  A thread     *)
(* first takes the path's in-process lock, an RLock found in a registry    *)
(* with a reference count that is kept outside the lock, and then the lock *)
(* file, which excludes the threads of other processes.  Under both it     *)
(* reads, updates or overwrites the file: a temporary file is written,     *)
(* synced and renamed over it, read back, and the directory synced where   *)
(* it can be opened.  A process may stop at any point, which frees its     *)
(* locks; so may the machine, which may also cut off bytes that were not   *)
(* synced and undo renames that were not.                                  *)
(***************************************************************************)
EXTENDS Naturals, FiniteSets

CONSTANTS
    Threads,     \* threads that use the path
    Procs,       \* processes of the server and the worker
    ProcOf,      \* the process of a thread
    Locks,       \* RLock objects
    None,
    MaxOps,      \* calls in all
    MaxCrashes   \* processes, or machines, that stop

ASSUME LockAssumption ==
    /\ IsFiniteSet(Threads)
    /\ ProcOf \in [Threads -> Procs]
    /\ None \notin Threads \cup Locks
    /\ None \notin [lock : Locks, users : Nat]
    /\ MaxOps \in Nat /\ MaxCrashes \in Nat

VARIABLES
    pc,       \* where a thread stands
    kind,     \* its call
    reg,      \* reg[p]: the entry of _LOCKS for this path, or None
    mine,     \* the RLock a thread found there
    flock,    \* the thread that holds the lock file
    val,      \* the object in the file: how many updates it has taken
    form,     \* of the bytes in the file
    old,      \* the versions that the directory on disk may still name
    temp,     \* temp[t]: the bytes in the temporary file of a thread
    got,      \* the object an update read
    done,     \* history: updates that returned since the file was overwritten,
              \* less those that a stop of the machine may have undone
    kept,     \* history: those that the last sync of the directory covers
    ops, crashes

lockVars == <<reg, mine, flock>>
fileVars == <<val, form, old, done, kept>>
vars == <<pc, kind, lockVars, fileVars, temp, got, ops, crashes>>

Kinds == {"update", "write", "read"}

\* Inside `with lock': the RLock is held.
Held == {"holding", "locked", "computed", "writing", "flushed", "written", "replaced",
         "checked", "unlocking", "releasing"}
\* Inside the lock file's section.
Inside == {"locked", "computed", "writing", "flushed", "written", "replaced", "checked",
           "unlocking"}
\* Between the two visits to the registry.
Counted == Held \cup {"reserved", "unreserving"}
Points == Counted \cup {"idle"}

\* No file; some of its bytes; all of them, in the system's cache; on the disk.
Forms == {"none", "part", "full", "synced"}
Versions == [val : Nat, form : Forms]

Users(p) == {t \in Threads : ProcOf[t] = p /\ pc[t] \in Counted}

Init ==
    /\ pc = [t \in Threads |-> "idle"] /\ kind = [t \in Threads |-> "read"]
    /\ reg = [p \in Procs |-> None] /\ mine = [t \in Threads |-> None]
    /\ flock = None
    /\ val = 0 /\ form = "synced" /\ old = {} /\ temp = [t \in Threads |-> "none"]
    /\ got = [t \in Threads |-> 0] /\ done = 0 /\ kept = 0
    /\ ops = 0 /\ crashes = 0

Goto(t, p) == pc' = [pc EXCEPT ![t] = p]

\* A new RLock is none of those a thread of the process still refers to.
Fresh(p) == {l \in Locks : \A u \in Threads : ProcOf[u] = p => mine[u] # l}

\* _thread_lock, under _LOCKS_GUARD: find or make the lock, count this user.
Reserve(t, k) ==
    LET p == ProcOf[t]
    IN  /\ pc[t] = "idle" /\ ops < MaxOps
        /\ IF reg[p] = None
           THEN \E l \in Fresh(p) : /\ reg' = [reg EXCEPT ![p] = [lock |-> l, users |-> 1]]
                                    /\ mine' = [mine EXCEPT ![t] = l]
           ELSE /\ reg' = [reg EXCEPT ![p].users = @ + 1]
                /\ mine' = [mine EXCEPT ![t] = reg[p].lock]
        /\ kind' = [kind EXCEPT ![t] = k]
        /\ ops' = ops + 1
        /\ Goto(t, "reserved")
        /\ UNCHANGED <<flock, fileVars, temp, got, crashes>>

\* with lock:
Acquire_Free(t) ==
    /\ pc[t] = "reserved"
    /\ Goto(t, "holding")
    /\ UNCHANGED <<kind, lockVars, fileVars, temp, got, ops, crashes>>
Acquire(t) ==
    /\ pc[t] = "reserved"
    /\ \A u \in Threads : ProcOf[u] = ProcOf[t] /\ mine[u] = mine[t] => pc[u] \notin Held
    /\ Goto(t, "holding")
    /\ UNCHANGED <<kind, lockVars, fileVars, temp, got, ops, crashes>>

\* flock(LOCK_EX), msvcrt.locking(LK_LOCK) on a handle of the thread's own.
LockFile_Shared(t) ==
    /\ pc[t] = "holding"
    /\ flock' = t
    /\ Goto(t, "locked")
    /\ UNCHANGED <<kind, reg, mine, fileVars, temp, got, ops, crashes>>
LockFile(t) ==
    /\ pc[t] = "holding" /\ flock = None
    /\ flock' = t
    /\ Goto(t, "locked")
    /\ UNCHANGED <<kind, reg, mine, fileVars, temp, got, ops, crashes>>

\* LK_LOCK gives up after its retries, or the lock file cannot be opened.
LockFileFails(t) ==
    /\ pc[t] = "holding"
    /\ Goto(t, "releasing")
    /\ UNCHANGED <<kind, lockVars, fileVars, temp, got, ops, crashes>>

\* read_json_object returns what it parsed; an update computes from it, and
\* atomic_write_json reads nothing.  A parse error or the updater may raise.
ReadFile(t) ==
    /\ pc[t] = "locked"
    /\ got' = [got EXCEPT ![t] = IF kind[t] = "write" THEN 0 ELSE val]
    /\ \/ kind[t] # "read" /\ Goto(t, "computed")
       \/ kind[t] # "write" /\ Goto(t, "unlocking")
    /\ UNCHANGED <<kind, lockVars, fileVars, temp, ops, crashes>>

\* NamedTemporaryFile: a new name beside the destination, and its first bytes.
CreateTemp(t) ==
    /\ pc[t] = "computed"
    /\ temp' = [temp EXCEPT ![t] = "part"]
    /\ Goto(t, "writing")
    /\ UNCHANGED <<kind, lockVars, fileVars, got, ops, crashes>>

\* write and flush: the rest of them
WriteTemp(t) ==
    /\ pc[t] = "writing"
    /\ temp' = [temp EXCEPT ![t] = "full"]
    /\ Goto(t, "flushed")
    /\ UNCHANGED <<kind, lockVars, fileVars, got, ops, crashes>>

\* os.fsync
SyncTemp_Skips(t) ==
    /\ pc[t] = "flushed"
    /\ Goto(t, "written")
    /\ UNCHANGED <<kind, lockVars, fileVars, temp, got, ops, crashes>>
SyncTemp(t) ==
    /\ pc[t] = "flushed"
    /\ temp' = [temp EXCEPT ![t] = "synced"]
    /\ Goto(t, "written")
    /\ UNCHANGED <<kind, lockVars, fileVars, got, ops, crashes>>

\* The object an update made of the one it read; an overwritten file starts anew.
New(t) == IF kind[t] = "write" THEN 0 ELSE got[t] + 1

Version == [val |-> val, form |-> form]

\* os.replace
Replace(t) ==
    /\ pc[t] = "written"
    /\ val' = New(t) /\ form' = temp[t] /\ old' = old \cup {Version}
    /\ temp' = [temp EXCEPT ![t] = "none"]
    /\ done' = IF kind[t] = "write" THEN 0 ELSE done
    /\ kept' = IF kind[t] = "write" THEN 0 ELSE kept
    /\ Goto(t, "replaced")
    /\ UNCHANGED <<kind, lockVars, got, ops, crashes>>

\* The bytes and the object are read back, and must be what was written.
Readback(t) ==
    /\ pc[t] = "replaced"
    /\ IF val = New(t) /\ form \in {"full", "synced"} THEN Goto(t, "checked")
                                                       ELSE Goto(t, "unlocking")
    /\ UNCHANGED <<kind, lockVars, fileVars, temp, got, ops, crashes>>

\* Where the directory cannot be opened (never on Windows) it is not synced and
\* the call returns all the same.
SyncDirectory(t) ==
    /\ pc[t] = "checked"
    /\ done' = IF kind[t] = "update" THEN done + 1 ELSE done
    /\ \/ old' = {} /\ kept' = done'
       \/ UNCHANGED <<old, kept>>
    /\ Goto(t, "unlocking")
    /\ UNCHANGED <<kind, lockVars, val, form, temp, got, ops, crashes>>

\* Any of these may raise; on the way out a temporary file is removed.
WriteFails(t) ==
    /\ pc[t] \in {"computed", "writing", "flushed", "written", "replaced", "checked"}
    /\ temp' = [temp EXCEPT ![t] = "none"]
    /\ Goto(t, "unlocking")
    /\ UNCHANGED <<kind, lockVars, fileVars, got, ops, crashes>>

UnlockFile_Keeps(t) ==
    /\ pc[t] = "unlocking"
    /\ Goto(t, "releasing")
    /\ UNCHANGED <<kind, lockVars, fileVars, temp, got, ops, crashes>>
UnlockFile(t) ==
    /\ pc[t] = "unlocking"
    /\ flock' = None
    /\ Goto(t, "releasing")
    /\ UNCHANGED <<kind, reg, mine, fileVars, temp, got, ops, crashes>>

Release(t) ==
    /\ pc[t] = "releasing"
    /\ Goto(t, "unreserving")
    /\ UNCHANGED <<kind, lockVars, fileVars, temp, got, ops, crashes>>

\* Under _LOCKS_GUARD again: only the last user removes the entry, and only when
\* it still is the entry of this lock.
Unreserve(t) ==
    LET p == ProcOf[t]
    IN  /\ pc[t] = "unreserving"
        /\ reg' = IF reg[p] = None \/ reg[p].lock # mine[t] THEN reg
                  ELSE IF reg[p].users <= 1 THEN [reg EXCEPT ![p] = None]
                  ELSE [reg EXCEPT ![p].users = @ - 1]
        /\ mine' = [mine EXCEPT ![t] = None]
        /\ Goto(t, "idle")
        /\ UNCHANGED <<kind, flock, fileVars, temp, got, ops, crashes>>

\* A process stops: its threads, its registry and its lock on the file are gone.
\* A temporary file it leaves has a name of its own that nobody opens.
Crash(p) ==
    /\ crashes < MaxCrashes /\ crashes' = crashes + 1
    /\ pc' = [t \in Threads |-> IF ProcOf[t] = p THEN "idle" ELSE pc[t]]
    /\ mine' = [t \in Threads |-> IF ProcOf[t] = p THEN None ELSE mine[t]]
    /\ temp' = [t \in Threads |-> IF ProcOf[t] = p THEN "none" ELSE temp[t]]
    /\ reg' = [reg EXCEPT ![p] = None]
    /\ flock' = IF flock # None /\ ProcOf[flock] = p THEN None ELSE flock
    /\ UNCHANGED <<kind, fileVars, got, ops>>

\* The machine stops with all of them.  The directory then names the last version
\* or an earlier one that it was not synced since, and of bytes not synced only
\* some are there.
PowerStop ==
    /\ crashes < MaxCrashes /\ crashes' = crashes + 1
    /\ pc' = [t \in Threads |-> "idle"] /\ mine' = [t \in Threads |-> None]
    /\ temp' = [t \in Threads |-> "none"]
    /\ reg' = [p \in Procs |-> None] /\ flock' = None
    /\ \E v \in old \cup {Version} :
          /\ val' = v.val
          /\ form' = IF v.form = "synced" THEN "synced" ELSE "part"
    /\ old' = {} /\ done' = kept
    /\ UNCHANGED <<kind, got, kept, ops>>

Work(t) == Acquire(t) \/ LockFile(t) \/ ReadFile(t) \/ CreateTemp(t) \/ WriteTemp(t)
           \/ SyncTemp(t) \/ Replace(t) \/ Readback(t) \/ SyncDirectory(t) \/ WriteFails(t)
           \/ UnlockFile(t) \/ Release(t) \/ Unreserve(t)

Next == \/ \E t \in Threads : Work(t) \/ LockFileFails(t) \/ \E k \in Kinds : Reserve(t, k)
        \/ (\E p \in Procs : Crash(p)) \/ PowerStop

Spec == Init /\ [][Next]_vars

\* A thread that can go on does; the calls are finitely many.
FairSpec == Spec /\ \A t \in Threads : WF_vars(Work(t))

-----------------------------------------------------------------------------
\* The state is well formed (the tuple in _LOCKS, the steps of path_lock).
TypeOK ==
    /\ pc \in [Threads -> Points] /\ kind \in [Threads -> Kinds]
    /\ reg \in [Procs -> [lock : Locks, users : Nat] \cup {None}]
    /\ mine \in [Threads -> Locks \cup {None}]
    /\ flock \in Threads \cup {None}
    /\ val \in Nat /\ form \in Forms /\ old \in SUBSET Versions /\ temp \in [Threads -> Forms]
    /\ got \in [Threads -> Nat] /\ done \in Nat /\ kept \in Nat
    /\ ops \in Nat /\ crashes \in Nat

\* The registry counts exactly the threads between its two visits, and an entry
\* neither outlives the last of them nor vanishes before (_thread_lock).
RegistryExact ==
    \A p \in Procs : IF Users(p) = {} THEN reg[p] = None
                     ELSE reg[p] # None /\ reg[p].users = Cardinality(Users(p))

\* All of them wait for the same lock: none is left with an object that later
\* callers no longer find (_thread_lock).
SameLock ==
    \A p \in Procs : \A t \in Users(p) : reg[p] # None /\ mine[t] = reg[p].lock

\* In a process one thread at a time is past the lock, and among all processes
\* one at a time is at the file (path_lock).
Exclusive ==
    /\ \A t, u \in Threads :
          pc[t] \in Held /\ pc[u] \in Held /\ ProcOf[t] = ProcOf[u] => t = u
    /\ \A t, u \in Threads : pc[t] \in Inside /\ pc[u] \in Inside => t = u

\* No update that returned is overwritten by one that had read the file before
\* it, of whatever process (update_json_object).  After a stop of the machine this
\* holds of the updates that a sync of the directory followed: on Windows, where it
\* is never synced, the code promises nothing of them.
NoLostUpdate == done <= val

\* Whenever a process or the machine stops, between any two steps of a write, the
\* file and what the directory may fall back to are one complete version each
\* (atomic_write_json).
NeverTorn == \A v \in old \cup {Version} : v.form \in {"full", "synced"}

\* Every call ends: nobody waits for a lock that nobody will give back
\* (path_lock's two locks are always taken in the same order).
CallsReturn == \A t \in Threads : pc[t] = "reserved" ~> pc[t] = "idle"
=============================================================================
