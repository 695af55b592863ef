-------------------------- MODULE InteractiveStore --------------------------
(***************************************************************************)
(* The interactive session store (app/interactive_session_manager.py): one *)
(* state file per session, a pointer to the active one, frozen verify      *)
(* evidence and the ledgers of what retention removed.  Requests of every  *)
(* process share two path locks, `.active-session-mutation' and, inside    *)
(* it, `.session-state-mutation' (module PathLock).  A request finds its   *)
(* session before it takes a lock, and looks again under it.               *)
(***************************************************************************)
EXTENDS Naturals, FiniteSets

CONSTANTS
    Threads, Sessions,
    None,
    MaxCommands, \* bound on the commands of a behaviour
    MaxSettled,  \* MAX_SETTLED_INTERACTIVE_SESSIONS
    MaxHistory,  \* MAX_INTERACTIVE_COMMAND_HISTORY
    MaxEntries,  \* VERIFY_EVIDENCE_RETENTION_LEDGER_MAX_ENTRIES
    MaxCrashes

ASSUME StoreAssumption ==
    /\ IsFiniteSet(Sessions)
    /\ None \notin Threads \cup Sessions
    /\ None \notin [state : {"open", "ready", "closed", "failed"}, gen : Nat, pend : BOOLEAN,
                     hist : SUBSET (Nat \X Nat)]
    /\ MaxCommands \in Nat /\ MaxSettled \in Nat /\ MaxCrashes \in Nat
    /\ MaxHistory \in Nat \ {0} /\ MaxEntries \in Nat \ {0}

\* Commands are numbered as they are issued; a verify command freezes one frame.
Commands == 1..MaxCommands

VARIABLES
    st,        \* st[s]: the state file, or None
    evid,      \* evid[s]: the frames under verify_evidence/
    ledger,    \* ledger[s]: the frames its retention ledger names
    central,   \* the frames the central ledger names
    pointer,   \* active-session.json
    expired,   \* sessions whose evidence has outlived its retention
    lockA, lockS,
    pc, sid, cmd, kind,   \* locals of a request
    todo,      \* the sessions its sweep or its reaper still has to visit
    gone,      \* the frames its sweep removed and has not logged yet
    num,       \* the number of the entry it saved
    issued,    \* commands issued so far
    crashes,
    told,      \* history: answered records: their session, command and number
    frozen     \* history: the frames among them, with their session

fileVars  == <<st, evid, ledger, central, pointer>>
lockVars  == <<lockA, lockS>>
localVars == <<pc, sid, cmd, kind, todo, gone, num>>
histVars  == <<told, frozen>>
vars == <<fileVars, expired, lockVars, localVars, issued, crashes, histVars>>

Terminal == {"closed", "failed"}
Closing == {"close", "closeFail"}
Verifying == {"verify", "verifyFail"}
Kinds == {"work", "fail", "pend", "settle"} \cup Verifying \cup Closing
Points == {"idle", "sweeping", "logging", "reaping", "choosing", "merging",
           "removing", "admitting", "creating", "pointing", "closing", "entering", "freezing",
           "saving", "unpointing"}

IsTerminal(s) == st[s] # None /\ st[s].state \in Terminal

Init ==
    /\ st = [s \in Sessions |-> None] /\ evid = [s \in Sessions |-> {}]
    /\ ledger = [s \in Sessions |-> {}] /\ central = {} /\ pointer = None /\ expired = {}
    /\ lockA = None /\ lockS = None
    /\ pc = [t \in Threads |-> "idle"] /\ sid = [t \in Threads |-> None]
    /\ cmd = [t \in Threads |-> 0] /\ kind = [t \in Threads |-> None]
    /\ todo = [t \in Threads |-> {}] /\ gone = [t \in Threads |-> {}]
    /\ num = [t \in Threads |-> 0]
    /\ issued = 0 /\ crashes = 0
    /\ told = {} /\ frozen = {}

Goto(t, p) == pc' = [pc EXCEPT ![t] = p]
Return(t) ==
    /\ Goto(t, "idle")
    /\ sid' = [sid EXCEPT ![t] = None] /\ cmd' = [cmd EXCEPT ![t] = 0]
    /\ kind' = [kind EXCEPT ![t] = None] /\ num' = [num EXCEPT ![t] = 0]
    /\ UNCHANGED <<todo, gone>>

\* A request begins with a command of its own.
Issue(t, s) ==
    /\ pc[t] = "idle"
    /\ issued < MaxCommands /\ issued' = issued + 1
    /\ cmd' = [cmd EXCEPT ![t] = issued + 1]
    /\ sid' = [sid EXCEPT ![t] = s]

-----------------------------------------------------------------------------
(* open_session: the expiry sweep, the reaper, then the admission. *)

OpenStart(t, s) ==
    /\ Issue(t, s)
    /\ st[s] = None /\ evid[s] = {} /\ ledger[s] = {}
    /\ \A u \in Threads : sid[u] # s
    /\ \A x \in told : x[1] # s
    /\ todo' = [todo EXCEPT ![t] = {r \in Sessions : st[r] # None}]
    /\ Goto(t, "sweeping")
    /\ UNCHANGED <<fileVars, expired, lockVars, kind, gone, num, crashes, histVars>>

\* _prune_expired_verify_evidence looks at each directory again under the lock.
Prunable(r) == IsTerminal(r) /\ r \in expired /\ evid[r] # {}

SweepSkip(t) ==
    /\ pc[t] = "sweeping" /\ lockS = None
    /\ \E r \in todo[t] : ~Prunable(r) /\ todo' = [todo EXCEPT ![t] = @ \ {r}]
    /\ UNCHANGED <<fileVars, expired, lockVars, pc, sid, cmd, kind, gone, num, issued, crashes, histVars>>

\* Frames go one by one, and one that cannot be removed stays.
SweepPrune(t) ==
    /\ pc[t] = "sweeping" /\ lockS = None
    /\ \E r \in todo[t] : \E some \in (SUBSET evid[r]) \ {{}} :
          /\ Prunable(r)
          /\ evid' = [evid EXCEPT ![r] = @ \ some]
          /\ gone' = [gone EXCEPT ![t] = some]
          /\ kind' = [kind EXCEPT ![t] = r]
    /\ lockS' = t
    /\ Goto(t, "logging")
    /\ UNCHANGED <<st, ledger, central, pointer, expired, lockA, sid, cmd, todo, num, issued, crashes, histVars>>

\* A ledger keeps its last MaxEntries entries; which of the older ones go is left
\* open.
Newest(older, newer) ==
    LET all == older \cup newer
        added == newer \ older
    IN  {kept \in SUBSET all :
            /\ Cardinality(kept) = IF Cardinality(all) < MaxEntries THEN Cardinality(all)
                                                                   ELSE MaxEntries
            /\ added \subseteq kept \/ kept \subseteq added}

\* _save_verify_evidence_retention_ledger merges with what the file names, once all
\* frames of the session have gone.
SweepLog(t) ==
    /\ pc[t] = "logging"
    /\ LET r == kind[t]
       IN  /\ \E named \in Newest(ledger[r], gone[t]) : ledger' = [ledger EXCEPT ![r] = named]
           /\ todo' = [todo EXCEPT ![t] = @ \ {r}]
    /\ gone' = [gone EXCEPT ![t] = {}] /\ kind' = [kind EXCEPT ![t] = None]
    /\ lockS' = None
    /\ Goto(t, "sweeping")
    /\ UNCHANGED <<st, evid, central, pointer, expired, lockA, sid, cmd, num, issued, crashes, histVars>>

SweepDone(t) ==
    /\ pc[t] = "sweeping" /\ todo[t] = {}
    /\ Goto(t, "reaping")
    /\ UNCHANGED <<fileVars, expired, lockVars, sid, cmd, kind, todo, gone, num, issued, crashes, histVars>>

ReapStart(t) ==
    /\ pc[t] = "reaping" /\ lockA = None
    /\ lockA' = t
    /\ Goto(t, "choosing")
    /\ UNCHANGED <<fileVars, expired, lockS, sid, cmd, kind, todo, gone, num, issued, crashes, histVars>>

\* _reap_settled_sessions, _has_reconcilable_runtime
Settled == {r \in Sessions : IsTerminal(r) /\ r # pointer /\ ~st[r].pend /\ evid[r] = {}}

\* The oldest go; which those are is left open.
Choose(t) ==
    /\ todo' \in [Threads -> SUBSET Sessions]
    /\ \A u \in Threads \ {t} : todo'[u] = todo[u]
    /\ todo'[t] \subseteq Settled
    /\ Cardinality(todo'[t]) = IF Cardinality(Settled) > MaxSettled
                               THEN Cardinality(Settled) - MaxSettled ELSE 0
ReapChoose(t) ==
    /\ pc[t] = "choosing" /\ lockS = None
    /\ lockS' = t
    /\ Choose(t)
    /\ Goto(t, "merging")
    /\ UNCHANGED <<fileVars, expired, lockA, sid, cmd, kind, gone, num, issued, crashes, histVars>>

\* _merge_retention_ledger_to_central, before the directory goes.
ReapMerge_Skips(t) ==
    /\ pc[t] = "merging"
    /\ \E r \in todo[t] : kind' = [kind EXCEPT ![t] = r]
    /\ Goto(t, "removing")
    /\ UNCHANGED <<fileVars, lockVars, expired, sid, cmd, todo, gone, num, issued, crashes, histVars>>
ReapMerge(t) ==
    /\ pc[t] = "merging"
    /\ \E r \in todo[t] : kind' = [kind EXCEPT ![t] = r] /\ central' \in Newest(central, ledger[r])
    /\ Goto(t, "removing")
    /\ UNCHANGED <<st, evid, ledger, pointer, expired, lockVars, sid, cmd, todo, gone, num, issued,
                   crashes, histVars>>

ReapRemove(t) ==
    /\ pc[t] = "removing"
    /\ LET r == kind[t]
       IN  /\ \/ /\ st' = [st EXCEPT ![r] = None]
                 /\ evid' = [evid EXCEPT ![r] = {}] /\ ledger' = [ledger EXCEPT ![r] = {}]
              \/ UNCHANGED <<st, evid, ledger>>   \* the removal fails and is logged
           /\ todo' = [todo EXCEPT ![t] = @ \ {r}]
    /\ kind' = [kind EXCEPT ![t] = None]
    /\ Goto(t, "merging")
    /\ UNCHANGED <<central, pointer, expired, lockVars, sid, cmd, gone, num, issued, crashes, histVars>>

ReapDone(t) ==
    /\ pc[t] = "merging" /\ todo[t] = {}
    /\ lockA' = None /\ lockS' = None
    /\ Goto(t, "admitting")
    /\ UNCHANGED <<fileVars, expired, sid, cmd, kind, todo, gone, num, issued, crashes, histVars>>

\* The admission: one session that is not terminal.
Occupied == pointer # None /\ st[pointer] # None /\ ~IsTerminal(pointer)

OpenRefused(t) ==
    /\ pc[t] = "admitting" /\ lockA = None
    /\ Occupied
    /\ Return(t)
    /\ UNCHANGED <<fileVars, expired, lockVars, issued, crashes, histVars>>

OpenAdmit_Anyway(t) ==
    /\ pc[t] = "admitting" /\ lockA = None
    /\ lockA' = t
    /\ Goto(t, "creating")
    /\ UNCHANGED <<fileVars, expired, lockS, sid, cmd, kind, todo, gone, num, issued, crashes, histVars>>
OpenAdmit(t) ==
    /\ pc[t] = "admitting" /\ lockA = None
    /\ ~Occupied
    /\ lockA' = t
    /\ Goto(t, "creating")
    /\ UNCHANGED <<fileVars, expired, lockS, sid, cmd, kind, todo, gone, num, issued, crashes, histVars>>

OpenCreate(t) ==
    /\ pc[t] = "creating" /\ lockS = None
    /\ st' = [st EXCEPT ![sid[t]] = [state |-> "open", gen |-> 1, pend |-> FALSE,
                                     hist |-> {<<1, cmd[t]>>}]]
    /\ num' = [num EXCEPT ![t] = 1]
    /\ Goto(t, "pointing")
    /\ UNCHANGED <<evid, ledger, central, pointer, expired, lockVars, sid, cmd, kind, todo, gone,
                   issued, crashes, histVars>>

OpenPoint(t) ==
    /\ pc[t] = "pointing"
    /\ pointer' = sid[t]
    /\ told' = told \cup {<<sid[t], cmd[t], num[t]>>}
    /\ lockA' = None
    /\ Return(t)
    /\ UNCHANGED <<st, evid, ledger, central, expired, lockS, issued, crashes, frozen>>

Open(t) == (\E s \in Sessions : OpenStart(t, s)) \/ SweepSkip(t) \/ SweepPrune(t) \/ SweepLog(t)
           \/ SweepDone(t) \/ ReapStart(t) \/ ReapChoose(t) \/ ReapMerge(t) \/ ReapRemove(t)
           \/ ReapDone(t) \/ OpenRefused(t) \/ OpenAdmit(t) \/ OpenCreate(t) \/ OpenPoint(t)

-----------------------------------------------------------------------------
(* record_command, and update_session and get_status, which save the same way. *)

\* _require_session, before any lock.
RecordStart(t, s, k) ==
    /\ Issue(t, s)
    /\ st[s] # None
    /\ kind' = [kind EXCEPT ![t] = k]
    /\ Goto(t, IF k \in Closing THEN "closing" ELSE "entering")
    /\ UNCHANGED <<fileVars, expired, lockVars, todo, gone, num, crashes, histVars>>

\* A close also holds the active lock, and takes it first.
RecordClosing_StateLock(t) ==
    /\ pc[t] = "closing" /\ lockS = None
    /\ lockS' = t
    /\ Goto(t, "entering")
    /\ UNCHANGED <<fileVars, expired, lockA, sid, cmd, kind, todo, gone, num, issued, crashes, histVars>>
RecordClosing(t) ==
    /\ pc[t] = "closing" /\ lockA = None
    /\ lockA' = t
    /\ Goto(t, "entering")
    /\ UNCHANGED <<fileVars, expired, lockS, sid, cmd, kind, todo, gone, num, issued, crashes, histVars>>

\* Under the state lock the session is loaded again; it may be gone.
RecordEnter(t) ==
    /\ pc[t] = "entering" /\ lockS = None
    /\ IF st[sid[t]] = None
       THEN /\ lockA' = IF lockA = t THEN None ELSE lockA
            /\ Return(t) /\ UNCHANGED lockS
       ELSE /\ lockS' = t
            /\ Goto(t, IF kind[t] \in Verifying THEN "freezing" ELSE "saving")
            /\ UNCHANGED <<lockA, sid, cmd, kind, todo, gone, num>>
    /\ UNCHANGED <<fileVars, expired, issued, crashes, histVars>>

\* _bind_verify_step_gui_evidence
RecordFreeze(t) ==
    /\ pc[t] = "freezing"
    /\ evid' = [evid EXCEPT ![sid[t]] = @ \cup {cmd[t]}]
    /\ Goto(t, "saving")
    /\ UNCHANGED <<st, ledger, central, pointer, expired, lockVars, sid, cmd, kind, todo, gone,
                   num, issued, crashes, histVars>>

\* The state a command leaves: a failure is terminal, a terminal state stays.
After(s, k) ==
    CASE k \in {"fail", "verifyFail", "closeFail"} -> "failed"
      [] k = "close" -> "closed"
      [] OTHER -> IF IsTerminal(s) THEN st[s].state ELSE "ready"

\* The history keeps its last MaxHistory entries, numbered here by the generation
\* that saved them.
Entries(s, t) ==
    {e \in st[s].hist \cup {<<st[s].gen + 1, cmd[t]>>} : e[1] + MaxHistory > st[s].gen + 1}

RecordSave_FromHint(t) ==
    LET s == sid[t]
    IN  /\ pc[t] = "saving"
        /\ st' = [st EXCEPT ![s] = [state |-> After(s, kind[t]), gen |-> @.gen + 1,
                                    pend |-> @.pend, hist |-> {<<@.gen + 1, cmd[t]>>}]]
        /\ lockS' = None
        /\ told' = told \cup {<<s, cmd[t], st[s].gen + 1>>}
        /\ Return(t)
        /\ UNCHANGED <<evid, ledger, central, pointer, expired, lockA, issued, crashes, frozen>>
RecordSave(t) ==
    LET s == sid[t]
    IN  /\ pc[t] = "saving"
        /\ st' = [st EXCEPT ![s] =
                     [state |-> After(s, kind[t]), gen |-> @.gen + 1,
                      pend |-> IF kind[t] = "pend" THEN TRUE
                               ELSE IF kind[t] = "settle" THEN FALSE ELSE @.pend,
                      hist |-> Entries(s, t)]]
        /\ lockS' = None
        /\ IF kind[t] \in Closing
           THEN /\ num' = [num EXCEPT ![t] = st[s].gen + 1]
                /\ Goto(t, "unpointing") /\ UNCHANGED <<sid, cmd, kind, todo, gone, told, frozen>>
           ELSE /\ told' = told \cup {<<s, cmd[t], st[s].gen + 1>>}
                /\ frozen' = IF kind[t] \in Verifying THEN frozen \cup {<<s, cmd[t]>>} ELSE frozen
                /\ Return(t)
        /\ UNCHANGED <<evid, ledger, central, pointer, expired, lockA, issued, crashes>>

RecordUnpoint(t) ==
    /\ pc[t] = "unpointing"
    /\ pointer' = IF pointer = sid[t] THEN None ELSE pointer
    /\ told' = told \cup {<<sid[t], cmd[t], num[t]>>}
    /\ lockA' = None
    /\ Return(t)
    /\ UNCHANGED <<st, evid, ledger, central, expired, lockS, issued, crashes, frozen>>

Record(t) == (\E s \in Sessions, k \in Kinds : RecordStart(t, s, k)) \/ RecordClosing(t)
             \/ RecordEnter(t) \/ RecordFreeze(t) \/ RecordSave(t) \/ RecordUnpoint(t)

-----------------------------------------------------------------------------
\* The retention of a terminal session's evidence runs out.
Expire(s) ==
    /\ IsTerminal(s) /\ s \notin expired
    /\ expired' = expired \cup {s}
    /\ UNCHANGED <<fileVars, lockVars, localVars, issued, crashes, histVars>>

\* Every process stops; the files stay as they are.
Crash ==
    /\ crashes < MaxCrashes /\ crashes' = crashes + 1
    /\ pc' = [t \in Threads |-> "idle"] /\ sid' = [t \in Threads |-> None]
    /\ cmd' = [t \in Threads |-> 0] /\ kind' = [t \in Threads |-> None]
    /\ todo' = [t \in Threads |-> {}] /\ gone' = [t \in Threads |-> {}]
    /\ num' = [t \in Threads |-> 0]
    /\ lockA' = None /\ lockS' = None
    /\ UNCHANGED <<fileVars, expired, issued, told, frozen>>

Next == (\E t \in Threads : Open(t) \/ Record(t)) \/ (\E s \in Sessions : Expire(s)) \/ Crash

Spec == Init /\ [][Next]_vars

\* A request that can go on does.
FairSpec == Spec /\ \A t \in Threads : WF_vars(pc[t] # "idle" /\ (Open(t) \/ Record(t)))

-----------------------------------------------------------------------------
SessionState == [state : {"open", "ready"} \cup Terminal, gen : Nat, pend : BOOLEAN,
                 hist : SUBSET (Nat \X Commands)]

\* The state is well formed (the session file's fields, the two lock holders).
TypeOK ==
    /\ st \in [Sessions -> SessionState \cup {None}]
    /\ evid \in [Sessions -> SUBSET Commands] /\ ledger \in [Sessions -> SUBSET Commands]
    /\ central \subseteq Commands /\ pointer \in Sessions \cup {None} /\ expired \subseteq Sessions
    /\ lockA \in Threads \cup {None} /\ lockS \in Threads \cup {None}
    /\ pc \in [Threads -> Points] /\ sid \in [Threads -> Sessions \cup {None}]
    /\ cmd \in [Threads -> 0..MaxCommands]
    /\ kind \in [Threads -> Kinds \cup Sessions \cup {None}]
    /\ todo \in [Threads -> SUBSET Sessions] /\ gone \in [Threads -> SUBSET Commands]
    /\ num \in [Threads -> Nat]
    /\ issued \in 0..MaxCommands /\ crashes \in 0..MaxCrashes

\* A session that is not terminal and that the pointer neither names nor is about to.
Unpointed ==
    {s \in Sessions : /\ st[s] # None /\ ~IsTerminal(s) /\ pointer # s
                      /\ \A t \in Threads : ~(pc[t] = "pointing" /\ sid[t] = s)}

\* The state is well formed, and a session whose open was answered is the one the
\* pointer names as long as it is not terminal, so there is one at most.  A stop
\* between session file and pointer leaves one session behind that nobody was told
\* of and nothing closes: as many of them as there were stops (open_session).
PointerNamesOpen ==
    /\ TypeOK
    /\ \A x \in told : x[3] = 1 => x[1] \notin Unpointed
    /\ Cardinality(Unpointed) <= crashes

\* The reaper removes no session that a request made active, unsettled or
\* evidence-bearing after it was chosen (_reap_settled_sessions).
ReapedWasSettled(s) ==
    st[s] # None /\ st'[s] = None =>
        IsTerminal(s) /\ ~st[s].pend /\ evid[s] = {} /\ pointer # s

\* The frame of x is in its session or named by a ledger, or its sweep is about to
\* name it.
Named(x) ==
    \/ x[2] \in evid[x[1]] \cup ledger[x[1]] \cup central
    \/ \E t \in Threads : pc[t] = "logging" /\ kind[t] = x[1] /\ x[2] \in gone[t]

\* A ledger that may have named it is full.
Crowded(x) ==
    Cardinality(ledger[x[1]]) = MaxEntries \/ Cardinality(central) = MaxEntries

\* Sessions with a frame that is gone without a trace.
Untraced == {x[1] : x \in {y \in frozen : ~Named(y) /\ ~Crowded(y)}}

\* A frame whose record was answered goes only when the retention of its session has
\* run out, and then a ledger names it, also when the session itself is gone, until
\* the ledger is full.  A stop between removal and log loses the entries of the one
\* session being swept: of as many sessions as there were stops (the sweep, the
\* reaper's merge).
EvidenceAccounted ==
    /\ \A x \in frozen : x[2] \in evid[x[1]] \/ x[1] \in expired
    /\ Cardinality(Untraced) <= crashes

\* Every command whose record was answered is in its session's history, however
\* requests of several processes interleave, until MaxHistory later ones are
\* (record_command reloads under lock).
NoLostCommand ==
    \A x \in told : st[x[1]] # None =>
        <<x[3], x[2]>> \in st[x[1]].hist \/ x[3] + MaxHistory <= st[x[1]].gen

\* A session that was closed or failed is never open again (record_command).
TerminalStays(s) ==
    IsTerminal(s) => st'[s] = None \/ st'[s].state \in Terminal

\* What a session has recorded stays as long as the session does, no close is undone,
\* and only a session that nobody can still ask about goes.
RecordsStay ==
    [][NoLostCommand' /\ \A s \in Sessions : TerminalStays(s) /\ ReapedWasSettled(s)]_vars

\* Every request ends: the two locks are taken in one order everywhere.
RequestsEnd == \A t \in Threads : pc[t] # "idle" ~> pc[t] = "idle"
=============================================================================
