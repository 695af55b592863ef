----------------------- MODULE InteractiveStoreProofs -----------------------
(***************************************************************************)
(* For any number of requests, sessions, commands and stops and any caps:  *)
(* the pointer names the open session that anyone was told of, no frozen   *)
(* frame goes before its time, none without an entry but for a full ledger *)
(* or a stop, what was recorded stays until the cap, and the reaper takes  *)
(* only settled sessions.                                                  *)
(*                                                                         *)
(* All of it hangs on the two locks: what a request has read under a lock  *)
(* is still true when it acts, because nobody else can have changed it.    *)
(***************************************************************************)
EXTENDS InteractiveStore, FiniteSetTheorems, TLAPS

IsOpen(s) == st[s] # None /\ ~IsTerminal(s)

\* The points inside the state lock and inside the active lock, and the points of an
\* open_session that has not created its session.
InState  == {"logging", "merging", "removing", "freezing", "saving"}
InActive == {"choosing", "merging", "removing", "creating", "pointing", "unpointing"}
Opening  == {"sweeping", "logging", "reaping", "choosing", "merging", "removing", "admitting",
             "creating"}

LocalsOK ==
    \A t \in Threads :
        /\ pc[t] # "idle" => sid[t] \in Sessions /\ cmd[t] \in Commands
        /\ pc[t] \in {"logging", "removing"} => kind[t] \in Sessions

\* Who is inside holds the lock; a closing record holds the active one as well.
LocksOK ==
    \A t \in Threads :
        /\ pc[t] \in InState => lockS = t
        /\ pc[t] \in InActive => lockA = t
        /\ pc[t] \in {"entering", "freezing", "saving"} /\ kind[t] \in Closing => lockA = t

\* The session a record found under the lock is still there when it saves.
PresentOK ==
    \A t \in Threads : pc[t] \in {"freezing", "saving"} => st[sid[t]] # None

\* A session that is being opened is nobody else's.
FreshOK ==
    \A t \in Threads : pc[t] \in Opening =>
        /\ st[sid[t]] = None
        /\ \A u \in Threads \ {t} : sid[u] # sid[t]
        /\ \A x \in told : x[1] # sid[t]

\* Nobody was told of a session that is not terminal and that no pointer names.
ToldOK ==
    /\ \A x \in told : x[3] = 1 => x[1] \notin Unpointed
    /\ \A t \in Threads : pc[t] = "pointing" => \A x \in told : x[3] = 1 => x[1] # sid[t]

\* From its admission until it has written the pointer, an open_session strands no
\* session that the pointer names.
PointerOK ==
    \A t \in Threads :
        /\ pc[t] \in {"creating", "pointing"} =>
              pointer = None \/ pointer = sid[t] \/ ~IsOpen(pointer)
        /\ pc[t] = "unpointing" => ~IsOpen(sid[t])

\* What the reaper chose stays settled under its two locks.
ReapOK ==
    \A t \in Threads :
        /\ pc[t] \in {"merging", "removing"} => todo[t] \subseteq Settled
        /\ pc[t] = "removing" => kind[t] \in todo[t]
                                 /\ (ledger[kind[t]] \subseteq central
                                     \/ Cardinality(central) = MaxEntries)

\* No ledger is longer than its cap.
CapsOK ==
    /\ Cardinality(central) <= MaxEntries
    /\ \A s \in Sessions : Cardinality(ledger[s]) <= MaxEntries

\* A removed frame was of a session whose retention has run out.
EvidenceOK ==
    /\ \A t \in Threads : pc[t] = "saving" /\ kind[t] \in Verifying => cmd[t] \in evid[sid[t]]
    /\ \A x \in frozen : x[1] \in Sessions /\ (x[2] \in evid[x[1]] \/ x[1] \in expired)

\* A command is in the history before anyone is told.
HistoryOK ==
    /\ \A x \in told : x[1] \in Sessions /\ x[3] \in Nat
    /\ \A s \in Sessions : st[s] # None => st[s].gen # 0
    /\ NoLostCommand
    /\ \A t \in Threads : pc[t] \in {"pointing", "unpointing"} /\ st[sid[t]] # None =>
          <<num[t], cmd[t]>> \in st[sid[t]].hist \/ num[t] + MaxHistory <= st[sid[t]].gen

Inv == TypeOK /\ LocalsOK /\ LocksOK /\ PresentOK /\ FreshOK /\ PointerOK /\ ReapOK
       /\ CapsOK /\ EvidenceOK /\ HistoryOK /\ ToldOK /\ Cardinality(Unpointed) <= crashes
       /\ Cardinality(Untraced) <= crashes

-----------------------------------------------------------------------------
\* What a save does to the session file and to the request's place, without its record.
Saves(t) ==
    LET s == sid[t]
    IN  /\ pc[t] = "saving" /\ s \in Sessions /\ cmd[t] \in Commands /\ st[s] \in SessionState
        /\ st'[s] \in SessionState
        /\ st' = [st EXCEPT ![s] = st'[s]]
        /\ st'[s].hist = Entries(s, t) /\ st'[s].gen = st[s].gen + 1
        /\ IsTerminal(s) \/ kind[t] \in Closing => st'[s].state \in Terminal
        /\ lockS' = None
        /\ \/ /\ kind[t] \in Closing /\ pc' = [pc EXCEPT ![t] = "unpointing"]
              /\ num' = [num EXCEPT ![t] = st[s].gen + 1]
              /\ UNCHANGED <<sid, cmd, kind, told, frozen>>
           \/ /\ pc' = [pc EXCEPT ![t] = "idle"] /\ sid' = [sid EXCEPT ![t] = None]
              /\ cmd' = [cmd EXCEPT ![t] = 0] /\ kind' = [kind EXCEPT ![t] = None]
              /\ num' = [num EXCEPT ![t] = 0]
              /\ told' = told \cup {<<s, cmd[t], st[s].gen + 1>>}
              /\ frozen' = IF kind[t] \in Verifying THEN frozen \cup {<<s, cmd[t]>>} ELSE frozen
              /\ kind[t] \notin Closing
        /\ UNCHANGED <<evid, ledger, central, pointer, expired, lockA, todo, gone, issued, crashes>>

\* The save writes the whole record: a state, a count, a history that has grown.
LEMMA SaveIs ==
    ASSUME TypeOK, LocalsOK, PresentOK, NEW t \in Threads, RecordSave(t)
    PROVE  Saves(t)
<1> DEFINE s == sid[t]
           pending == IF kind[t] = "pend" THEN TRUE
                      ELSE IF kind[t] = "settle" THEN FALSE ELSE st[s].pend
           saved == [state |-> After(s, kind[t]), gen |-> st[s].gen + 1, pend |-> pending,
                     hist |-> Entries(s, t)]
<1>1. pc[t] = "saving" /\ s \in Sessions /\ cmd[t] \in Commands
  BY DEF RecordSave, LocalsOK
<1>2. st[s] \in SessionState  BY <1>1 DEF PresentOK, TypeOK
<1>3. /\ After(s, kind[t]) \in {"open", "ready"} \cup Terminal
      /\ IsTerminal(s) \/ kind[t] \in Closing => After(s, kind[t]) \in Terminal
  BY <1>2 DEF After, IsTerminal, Terminal, Closing, SessionState
<1>4. saved \in SessionState
  <2>1. st[s].gen + 1 \in Nat /\ st[s].pend \in BOOLEAN  BY <1>2 DEF SessionState
  <2>2. pending \in BOOLEAN  BY <2>1, Zenon
  <2>3. Entries(s, t) \subseteq Nat \X Commands  BY <1>1, <1>2 DEF SessionState, Entries
  <2> HIDE DEF pending
  <2> QED  BY <1>3, <2>1, <2>2, <2>3 DEF SessionState
<1>5. st' = [st EXCEPT ![s] = saved]  BY DEF RecordSave
<1>6. st'[s] = saved  BY <1>1, <1>5 DEF TypeOK
<1>7. /\ st'[s].hist = Entries(s, t) /\ st'[s].gen = st[s].gen + 1
      /\ st'[s].state = After(s, kind[t])
  BY <1>6
<1> HIDE DEF saved, s
<1>8. lockS' = None /\ UNCHANGED <<evid, ledger, central, pointer, expired, lockA, issued,
                                   crashes>>
  BY DEF RecordSave
<1>9. CASE kind[t] \in Closing
  BY <1>1, <1>2, <1>3, <1>4, <1>5, <1>6, <1>7, <1>8, <1>9 DEF RecordSave, Saves, Goto, s
<1>10. CASE kind[t] \notin Closing
  BY <1>1, <1>2, <1>3, <1>4, <1>5, <1>6, <1>7, <1>8, <1>10 DEF RecordSave, Saves, Goto,
     Return, s
<1> QED  BY <1>9, <1>10

-----------------------------------------------------------------------------
\* A ledger keeps everything or is full.
LEMMA NewestIs ==
    ASSUME NEW older \in SUBSET Commands, NEW newer \in SUBSET Commands,
           NEW kept \in Newest(older, newer)
    PROVE  /\ kept \in SUBSET Commands /\ kept \subseteq older \cup newer
           /\ Cardinality(kept) <= MaxEntries
           /\ kept = older \cup newer \/ Cardinality(kept) = MaxEntries
           /\ Cardinality(older) = MaxEntries => Cardinality(kept) = MaxEntries
<1> DEFINE all == older \cup newer
<1>1. IsFiniteSet(Commands)  BY FS_Interval, StoreAssumption DEF Commands
<1>2. IsFiniteSet(all) /\ Cardinality(all) \in Nat
  <2>1. all \in SUBSET Commands  OBVIOUS
  <2> QED  BY <1>1, <2>1, FS_Subset, FS_CardinalityType
<1>3. /\ kept \in SUBSET all
      /\ Cardinality(kept) = IF Cardinality(all) < MaxEntries THEN Cardinality(all)
                             ELSE MaxEntries
  BY DEF Newest
<1>4. Cardinality(older) <= Cardinality(all) /\ Cardinality(older) \in Nat
  <2>1. older \in SUBSET all  OBVIOUS
  <2> QED  BY <1>2, <2>1, FS_Subset, FS_CardinalityType
<1>5. Cardinality(all) = Cardinality(kept) => all = kept  BY <1>2, <1>3, FS_Subset
<1> HIDE DEF all
<1>6. Cardinality(kept) <= MaxEntries  BY <1>2, <1>3, StoreAssumption
<1>7. kept = all \/ Cardinality(kept) = MaxEntries  BY <1>3, <1>5
<1>8. Cardinality(older) = MaxEntries => Cardinality(kept) = MaxEntries
  BY <1>2, <1>3, <1>4, StoreAssumption
<1> QED  BY <1>3, <1>6, <1>7, <1>8 DEF all

\* What a ledger is after new entries.
Appended(older, newer, kept) ==
    /\ kept \subseteq Commands /\ kept \subseteq older \cup newer
    /\ Cardinality(kept) <= MaxEntries
    /\ kept = older \cup newer \/ Cardinality(kept) = MaxEntries
    /\ Cardinality(older) = MaxEntries => Cardinality(kept) = MaxEntries

\* The sweep appends what it removed to the ledger of its session.
LEMMA SweepLogIs ==
    ASSUME TypeOK, LocalsOK, NEW t \in Threads, SweepLog(t)
    PROVE  /\ kind[t] \in Sessions
           /\ \E kept : /\ Appended(ledger[kind[t]], gone[t], kept)
                        /\ ledger' = [ledger EXCEPT ![kind[t]] = kept]
<1>1. kind[t] \in Sessions  BY DEF SweepLog, LocalsOK
<1>2. ledger[kind[t]] \in SUBSET Commands /\ gone[t] \in SUBSET Commands  BY <1>1 DEF TypeOK
<1>3. PICK kept \in Newest(ledger[kind[t]], gone[t]) : ledger' = [ledger EXCEPT ![kind[t]] = kept]
  BY DEF SweepLog
<1>4. Appended(ledger[kind[t]], gone[t], kept)
  <2> DEFINE older == ledger[kind[t]]
             newer == gone[t]
  <2>1. older \in SUBSET Commands /\ newer \in SUBSET Commands /\ kept \in Newest(older, newer)
    BY <1>2, <1>3
  <2> HIDE DEF older, newer
  <2>2. Appended(older, newer, kept)
    <3> USE <2>1, NewestIs
    <3>1. kept \in SUBSET Commands /\ kept \subseteq older \cup newer  OBVIOUS
    <3>2. Cardinality(kept) <= MaxEntries  OBVIOUS
    <3>3. kept = older \cup newer \/ Cardinality(kept) = MaxEntries  OBVIOUS
    <3>4. Cardinality(older) = MaxEntries => Cardinality(kept) = MaxEntries  OBVIOUS
    <3> QED  BY <3>1, <3>2, <3>3, <3>4 DEF Appended
  <2> QED  BY <2>2 DEF older, newer
<1> QED  BY <1>1, <1>3, <1>4

\* The reaper appends the ledger of a session it chose to the central one.
LEMMA ReapMergeIs ==
    ASSUME TypeOK, NEW t \in Threads, ReapMerge(t)
    PROVE  \E r \in todo[t] : /\ r \in Sessions /\ kind' = [kind EXCEPT ![t] = r]
                              /\ Appended(central, ledger[r], central')
<1>1. PICK r \in todo[t] : kind' = [kind EXCEPT ![t] = r] /\ central' \in Newest(central, ledger[r])
  BY DEF ReapMerge
<1>2. r \in Sessions  BY DEF TypeOK
<1>3. ledger[r] \in SUBSET Commands /\ central \in SUBSET Commands  BY <1>2 DEF TypeOK
<1>4. Appended(central, ledger[r], central')  BY <1>1, <1>3, NewestIs DEF Appended
<1> QED  BY <1>1, <1>2, <1>4

(* The groups of the invariant, each kept by every step. *)

\* Every step keeps the types: a save finds a session file to change.
LEMMA TypeStep ==
    ASSUME TypeOK, LocalsOK, PresentOK, [Next]_vars
    PROVE  TypeOK'
<1> USE StoreAssumption DEF TypeOK, LocalsOK, PresentOK, SessionState, Points, Kinds, Closing, Verifying,
    Terminal, Commands, fileVars, lockVars, localVars, histVars
<1>1. ASSUME NEW t \in Threads, NEW s \in Sessions, OpenStart(t, s) PROVE TypeOK'
  BY <1>1 DEF OpenStart, Issue, Goto
<1>2. ASSUME NEW t \in Threads, SweepSkip(t) PROVE TypeOK'
  BY <1>2 DEF SweepSkip, Goto
<1>3. ASSUME NEW t \in Threads, SweepPrune(t) PROVE TypeOK'
  BY <1>3 DEF SweepPrune, Goto, Prunable
<1>4. ASSUME NEW t \in Threads, SweepLog(t) PROVE TypeOK'
  <2>1. PICK named : Appended(ledger[kind[t]], gone[t], named)
                     /\ ledger' = [ledger EXCEPT ![kind[t]] = named]
    BY <1>4, SweepLogIs
  <2>2. named \in SUBSET Commands  BY <2>1 DEF Appended
  <2>4. ledger' \in [Sessions -> SUBSET Commands]  BY <2>1, <2>2
  <2> QED  BY <1>4, <2>4 DEF SweepLog, Goto
<1>5. ASSUME NEW t \in Threads, SweepDone(t) PROVE TypeOK'
  BY <1>5 DEF SweepDone, Goto
<1>6. ASSUME NEW t \in Threads, ReapStart(t) PROVE TypeOK'
  BY <1>6 DEF ReapStart, Goto
<1>7. ASSUME NEW t \in Threads, ReapChoose(t) PROVE TypeOK'
  BY <1>7 DEF ReapChoose, Choose, Goto
<1>8. ASSUME NEW t \in Threads, ReapMerge(t) PROVE TypeOK'
  <2>1. PICK r \in Sessions : kind' = [kind EXCEPT ![t] = r] /\ Appended(central, ledger[r], central')
    BY <1>8, ReapMergeIs
  <2>3. kind' \in [Threads -> Kinds \cup Sessions \cup {None}]  BY <2>1
  <2>4. central' \subseteq Commands  BY <2>1 DEF Appended
  <2> QED  BY <1>8, <2>3, <2>4 DEF ReapMerge, Goto
<1>9. ASSUME NEW t \in Threads, ReapRemove(t) PROVE TypeOK'
  BY <1>9 DEF ReapRemove, Goto
<1>10. ASSUME NEW t \in Threads, ReapDone(t) PROVE TypeOK'
  BY <1>10 DEF ReapDone, Goto
<1>11. ASSUME NEW t \in Threads, OpenRefused(t) PROVE TypeOK'
  BY <1>11 DEF OpenRefused, Return, Goto
<1>12. ASSUME NEW t \in Threads, OpenAdmit(t) PROVE TypeOK'
  BY <1>12 DEF OpenAdmit, Goto
<1>13. ASSUME NEW t \in Threads, OpenCreate(t) PROVE TypeOK'
  BY <1>13 DEF OpenCreate, Goto
<1>14. ASSUME NEW t \in Threads, OpenPoint(t) PROVE TypeOK'
  BY <1>14 DEF OpenPoint, Return, Goto
<1>15. ASSUME NEW t \in Threads, NEW s \in Sessions, NEW k \in Kinds, RecordStart(t, s, k)
      PROVE TypeOK'
  BY <1>15 DEF RecordStart, Issue, Goto
<1>16. ASSUME NEW t \in Threads, RecordClosing(t) PROVE TypeOK'
  BY <1>16 DEF RecordClosing, Goto
<1>17. ASSUME NEW t \in Threads, RecordEnter(t) PROVE TypeOK'
  <2>1. lockA' \in Threads \cup {None} /\ lockS' \in Threads \cup {None}
    BY <1>17 DEF RecordEnter
  <2>2. pc' \in [Threads -> Points]  BY <1>17 DEF RecordEnter, Return, Goto
  <2>3. /\ sid' \in [Threads -> Sessions \cup {None}] /\ cmd' \in [Threads -> 0..MaxCommands]
        /\ num' \in [Threads -> Nat] /\ UNCHANGED <<todo, gone>>
    BY <1>17 DEF RecordEnter, Return
  <2>4. kind' \in [Threads -> Kinds \cup Sessions \cup {None}]
    BY <1>17 DEF RecordEnter, Return
  <2>5. UNCHANGED <<fileVars, expired, issued, crashes>>  BY <1>17 DEF RecordEnter
  <2> HIDE DEF SessionState
  <2> QED  BY <2>1, <2>2, <2>3, <2>4, <2>5
<1>18. ASSUME NEW t \in Threads, RecordFreeze(t) PROVE TypeOK'
  BY <1>18 DEF RecordFreeze, Goto
<1>19. ASSUME NEW t \in Threads, RecordSave(t) PROVE TypeOK'
  <2>1. Saves(t)  BY <1>19, SaveIs
  <2>2. st' \in [Sessions -> SessionState \cup {None}]
    <3>1. st' = [st EXCEPT ![sid[t]] = st'[sid[t]]] /\ st'[sid[t]] \in SessionState
      BY <2>1 DEF Saves
    <3> HIDE DEF SessionState
    <3> QED  BY <3>1
  <2>3. pc' \in [Threads -> Points] /\ sid' \in [Threads -> Sessions \cup {None}]
    <3> HIDE DEF SessionState, Kinds, Closing
    <3>1. pc' = [pc EXCEPT ![t] = "unpointing"] \/ pc' = [pc EXCEPT ![t] = "idle"]
      BY <2>1 DEF Saves
    <3>2. sid' = sid \/ sid' = [sid EXCEPT ![t] = None]  BY <2>1 DEF Saves
    <3> QED  BY <3>1, <3>2
  <2>4. cmd' \in [Threads -> 0..MaxCommands]  BY <2>1 DEF Saves
  <2>5. kind' \in [Threads -> Kinds \cup Sessions \cup {None}]  BY <2>1 DEF Saves
  <2>6. num' \in [Threads -> Nat]
    <3>1. st[sid[t]].gen + 1 \in Nat  BY <2>1 DEF Saves
    <3> QED  BY <2>1, <3>1 DEF Saves
  <2> HIDE DEF SessionState
  <2> QED  BY <2>1, <2>2, <2>3, <2>4, <2>5, <2>6 DEF Saves
<1>20. ASSUME NEW t \in Threads, RecordUnpoint(t) PROVE TypeOK'
  BY <1>20 DEF RecordUnpoint, Return, Goto
<1>21. ASSUME NEW s \in Sessions, Expire(s) PROVE TypeOK'
  BY <1>21 DEF Expire, IsTerminal
<1>22. CASE Crash
  BY <1>22 DEF Crash
<1>23. CASE UNCHANGED vars
  BY <1>23 DEF vars
<1> QED
  BY <1>1, <1>2, <1>3, <1>4, <1>5, <1>6, <1>7, <1>8, <1>9, <1>10, <1>11, <1>12, <1>13, <1>14,
     <1>15, <1>16, <1>17, <1>18, <1>19, <1>20, <1>21, <1>22, <1>23 DEF Next, Open, Record

\* A request under way has a session and a command.
LEMMA LocalsStep ==
    ASSUME TypeOK, LocalsOK, [Next]_vars
    PROVE  LocalsOK'
<1> USE StoreAssumption DEF TypeOK, LocalsOK, Commands, fileVars, lockVars, localVars, histVars
<1>1. ASSUME NEW t \in Threads, NEW s \in Sessions, OpenStart(t, s) PROVE LocalsOK'
  BY <1>1 DEF OpenStart, Issue, Goto
<1>2. ASSUME NEW t \in Threads, SweepSkip(t) PROVE LocalsOK'
  BY <1>2 DEF SweepSkip, Goto
<1>3. ASSUME NEW t \in Threads, SweepPrune(t) PROVE LocalsOK'
  BY <1>3 DEF SweepPrune, Goto, Prunable
<1>4. ASSUME NEW t \in Threads, SweepLog(t) PROVE LocalsOK'
  BY <1>4 DEF SweepLog, Goto
<1>5. ASSUME NEW t \in Threads, SweepDone(t) PROVE LocalsOK'
  BY <1>5 DEF SweepDone, Goto
<1>6. ASSUME NEW t \in Threads, ReapStart(t) PROVE LocalsOK'
  BY <1>6 DEF ReapStart, Goto
<1>7. ASSUME NEW t \in Threads, ReapChoose(t) PROVE LocalsOK'
  BY <1>7 DEF ReapChoose, Choose, Goto
<1>8. ASSUME NEW t \in Threads, ReapMerge(t) PROVE LocalsOK'
  BY <1>8 DEF ReapMerge, Goto
<1>9. ASSUME NEW t \in Threads, ReapRemove(t) PROVE LocalsOK'
  BY <1>9 DEF ReapRemove, Goto
<1>10. ASSUME NEW t \in Threads, ReapDone(t) PROVE LocalsOK'
  BY <1>10 DEF ReapDone, Goto
<1>11. ASSUME NEW t \in Threads, OpenRefused(t) PROVE LocalsOK'
  BY <1>11 DEF OpenRefused, Return, Goto
<1>12. ASSUME NEW t \in Threads, OpenAdmit(t) PROVE LocalsOK'
  BY <1>12 DEF OpenAdmit, Goto
<1>13. ASSUME NEW t \in Threads, OpenCreate(t) PROVE LocalsOK'
  BY <1>13 DEF OpenCreate, Goto
<1>14. ASSUME NEW t \in Threads, OpenPoint(t) PROVE LocalsOK'
  BY <1>14 DEF OpenPoint, Return, Goto
<1>15. ASSUME NEW t \in Threads, NEW s \in Sessions, NEW k \in Kinds, RecordStart(t, s, k)
      PROVE LocalsOK'
  BY <1>15 DEF RecordStart, Issue, Goto
<1>16. ASSUME NEW t \in Threads, RecordClosing(t) PROVE LocalsOK'
  BY <1>16 DEF RecordClosing, Goto
<1>17. ASSUME NEW t \in Threads, RecordEnter(t) PROVE LocalsOK'
  BY <1>17 DEF RecordEnter, Return, Goto
<1>18. ASSUME NEW t \in Threads, RecordFreeze(t) PROVE LocalsOK'
  BY <1>18 DEF RecordFreeze, Goto
<1>19. ASSUME NEW t \in Threads, RecordSave(t) PROVE LocalsOK'
  BY <1>19 DEF RecordSave, Return, Goto
<1>20. ASSUME NEW t \in Threads, RecordUnpoint(t) PROVE LocalsOK'
  BY <1>20 DEF RecordUnpoint, Return, Goto
<1>21. ASSUME NEW s \in Sessions, Expire(s) PROVE LocalsOK'
  BY <1>21 DEF Expire, IsTerminal
<1>22. CASE Crash
  BY <1>22 DEF Crash
<1>23. CASE UNCHANGED vars
  BY <1>23 DEF vars
<1> QED
  BY <1>1, <1>2, <1>3, <1>4, <1>5, <1>6, <1>7, <1>8, <1>9, <1>10, <1>11, <1>12, <1>13, <1>14,
     <1>15, <1>16, <1>17, <1>18, <1>19, <1>20, <1>21, <1>22, <1>23 DEF Next, Open, Record

\* A lock is taken only when free and given back only by its holder.
LEMMA LocksStep ==
    ASSUME TypeOK, LocksOK, [Next]_vars
    PROVE  LocksOK'
<1> USE StoreAssumption DEF TypeOK, LocksOK, InState, InActive, fileVars, lockVars, localVars,
    histVars
<1>1. ASSUME NEW t \in Threads, NEW s \in Sessions, OpenStart(t, s) PROVE LocksOK'
  BY <1>1 DEF OpenStart, Issue, Goto
<1>2. ASSUME NEW t \in Threads, SweepSkip(t) PROVE LocksOK'
  BY <1>2 DEF SweepSkip, Goto
<1>3. ASSUME NEW t \in Threads, SweepPrune(t) PROVE LocksOK'
  BY <1>3 DEF SweepPrune, Goto, Prunable
<1>4. ASSUME NEW t \in Threads, SweepLog(t) PROVE LocksOK'
  BY <1>4 DEF SweepLog, Goto
<1>5. ASSUME NEW t \in Threads, SweepDone(t) PROVE LocksOK'
  BY <1>5 DEF SweepDone, Goto
<1>6. ASSUME NEW t \in Threads, ReapStart(t) PROVE LocksOK'
  BY <1>6 DEF ReapStart, Goto
<1>7. ASSUME NEW t \in Threads, ReapChoose(t) PROVE LocksOK'
  BY <1>7 DEF ReapChoose, Choose, Goto
<1>8. ASSUME NEW t \in Threads, ReapMerge(t) PROVE LocksOK'
  BY <1>8 DEF ReapMerge, Goto
<1>9. ASSUME NEW t \in Threads, ReapRemove(t) PROVE LocksOK'
  BY <1>9 DEF ReapRemove, Goto
<1>10. ASSUME NEW t \in Threads, ReapDone(t) PROVE LocksOK'
  BY <1>10 DEF ReapDone, Goto
<1>11. ASSUME NEW t \in Threads, OpenRefused(t) PROVE LocksOK'
  BY <1>11 DEF OpenRefused, Return, Goto
<1>12. ASSUME NEW t \in Threads, OpenAdmit(t) PROVE LocksOK'
  BY <1>12 DEF OpenAdmit, Goto
<1>13. ASSUME NEW t \in Threads, OpenCreate(t) PROVE LocksOK'
  BY <1>13 DEF OpenCreate, Goto
<1>14. ASSUME NEW t \in Threads, OpenPoint(t) PROVE LocksOK'
  BY <1>14 DEF OpenPoint, Return, Goto
<1>15. ASSUME NEW t \in Threads, NEW s \in Sessions, NEW k \in Kinds, RecordStart(t, s, k)
      PROVE LocksOK'
  BY <1>15 DEF RecordStart, Issue, Goto
<1>16. ASSUME NEW t \in Threads, RecordClosing(t) PROVE LocksOK'
  BY <1>16 DEF RecordClosing, Goto
<1>17. ASSUME NEW t \in Threads, RecordEnter(t) PROVE LocksOK'
  BY <1>17 DEF RecordEnter, Return, Goto
<1>18. ASSUME NEW t \in Threads, RecordFreeze(t) PROVE LocksOK'
  BY <1>18 DEF RecordFreeze, Goto
<1>19. ASSUME NEW t \in Threads, RecordSave(t) PROVE LocksOK'
  BY <1>19 DEF RecordSave, Return, Goto
<1>20. ASSUME NEW t \in Threads, RecordUnpoint(t) PROVE LocksOK'
  BY <1>20 DEF RecordUnpoint, Return, Goto
<1>21. ASSUME NEW s \in Sessions, Expire(s) PROVE LocksOK'
  BY <1>21 DEF Expire, IsTerminal
<1>22. CASE Crash
  BY <1>22 DEF Crash
<1>23. CASE UNCHANGED vars
  BY <1>23 DEF vars
<1> QED
  BY <1>1, <1>2, <1>3, <1>4, <1>5, <1>6, <1>7, <1>8, <1>9, <1>10, <1>11, <1>12, <1>13, <1>14,
     <1>15, <1>16, <1>17, <1>18, <1>19, <1>20, <1>21, <1>22, <1>23 DEF Next, Open, Record

\* Sessions are removed only under the state lock.
LEMMA PresentStep ==
    ASSUME TypeOK, LocalsOK, LocksOK, PresentOK, [Next]_vars
    PROVE  PresentOK'
<1> USE StoreAssumption DEF TypeOK, LocalsOK, LocksOK, PresentOK, InState, fileVars, lockVars,
    localVars, histVars
<1>1. ASSUME NEW t \in Threads, NEW s \in Sessions, OpenStart(t, s) PROVE PresentOK'
  BY <1>1 DEF OpenStart, Issue, Goto
<1>2. ASSUME NEW t \in Threads, SweepSkip(t) PROVE PresentOK'
  BY <1>2 DEF SweepSkip, Goto
<1>3. ASSUME NEW t \in Threads, SweepPrune(t) PROVE PresentOK'
  BY <1>3 DEF SweepPrune, Goto, Prunable
<1>4. ASSUME NEW t \in Threads, SweepLog(t) PROVE PresentOK'
  BY <1>4 DEF SweepLog, Goto
<1>5. ASSUME NEW t \in Threads, SweepDone(t) PROVE PresentOK'
  BY <1>5 DEF SweepDone, Goto
<1>6. ASSUME NEW t \in Threads, ReapStart(t) PROVE PresentOK'
  BY <1>6 DEF ReapStart, Goto
<1>7. ASSUME NEW t \in Threads, ReapChoose(t) PROVE PresentOK'
  BY <1>7 DEF ReapChoose, Choose, Goto
<1>8. ASSUME NEW t \in Threads, ReapMerge(t) PROVE PresentOK'
  BY <1>8 DEF ReapMerge, Goto
<1>9. ASSUME NEW t \in Threads, ReapRemove(t) PROVE PresentOK'
  BY <1>9 DEF ReapRemove, Goto
<1>10. ASSUME NEW t \in Threads, ReapDone(t) PROVE PresentOK'
  BY <1>10 DEF ReapDone, Goto
<1>11. ASSUME NEW t \in Threads, OpenRefused(t) PROVE PresentOK'
  BY <1>11 DEF OpenRefused, Return, Goto
<1>12. ASSUME NEW t \in Threads, OpenAdmit(t) PROVE PresentOK'
  BY <1>12 DEF OpenAdmit, Goto
<1>13. ASSUME NEW t \in Threads, OpenCreate(t) PROVE PresentOK'
  BY <1>13 DEF OpenCreate, Goto
<1>14. ASSUME NEW t \in Threads, OpenPoint(t) PROVE PresentOK'
  BY <1>14 DEF OpenPoint, Return, Goto
<1>15. ASSUME NEW t \in Threads, NEW s \in Sessions, NEW k \in Kinds, RecordStart(t, s, k)
      PROVE PresentOK'
  BY <1>15 DEF RecordStart, Issue, Goto
<1>16. ASSUME NEW t \in Threads, RecordClosing(t) PROVE PresentOK'
  BY <1>16 DEF RecordClosing, Goto
<1>17. ASSUME NEW t \in Threads, RecordEnter(t) PROVE PresentOK'
  BY <1>17 DEF RecordEnter, Return, Goto
<1>18. ASSUME NEW t \in Threads, RecordFreeze(t) PROVE PresentOK'
  BY <1>18 DEF RecordFreeze, Goto
<1>19. ASSUME NEW t \in Threads, RecordSave(t) PROVE PresentOK'
  BY <1>19 DEF RecordSave, Return, Goto
<1>20. ASSUME NEW t \in Threads, RecordUnpoint(t) PROVE PresentOK'
  BY <1>20 DEF RecordUnpoint, Return, Goto
<1>21. ASSUME NEW s \in Sessions, Expire(s) PROVE PresentOK'
  BY <1>21 DEF Expire, IsTerminal
<1>22. CASE Crash
  BY <1>22 DEF Crash
<1>23. CASE UNCHANGED vars
  BY <1>23 DEF vars
<1> QED
  BY <1>1, <1>2, <1>3, <1>4, <1>5, <1>6, <1>7, <1>8, <1>9, <1>10, <1>11, <1>12, <1>13, <1>14,
     <1>15, <1>16, <1>17, <1>18, <1>19, <1>20, <1>21, <1>22, <1>23 DEF Next, Open, Record

\* Nobody finds a session that has no file yet.
LEMMA FreshStep ==
    ASSUME TypeOK, LocalsOK, PresentOK, FreshOK, [Next]_vars
    PROVE  FreshOK'
<1> USE StoreAssumption DEF TypeOK, LocalsOK, FreshOK, Opening, fileVars, lockVars, localVars,
    histVars
<1>1. ASSUME NEW t \in Threads, NEW s \in Sessions, OpenStart(t, s) PROVE FreshOK'
  BY <1>1 DEF OpenStart, Issue, Goto
<1>2. ASSUME NEW t \in Threads, SweepSkip(t) PROVE FreshOK'
  BY <1>2 DEF SweepSkip, Goto
<1>3. ASSUME NEW t \in Threads, SweepPrune(t) PROVE FreshOK'
  BY <1>3 DEF SweepPrune, Goto, Prunable
<1>4. ASSUME NEW t \in Threads, SweepLog(t) PROVE FreshOK'
  BY <1>4 DEF SweepLog, Goto
<1>5. ASSUME NEW t \in Threads, SweepDone(t) PROVE FreshOK'
  BY <1>5 DEF SweepDone, Goto
<1>6. ASSUME NEW t \in Threads, ReapStart(t) PROVE FreshOK'
  BY <1>6 DEF ReapStart, Goto
<1>7. ASSUME NEW t \in Threads, ReapChoose(t) PROVE FreshOK'
  BY <1>7 DEF ReapChoose, Choose, Goto
<1>8. ASSUME NEW t \in Threads, ReapMerge(t) PROVE FreshOK'
  BY <1>8 DEF ReapMerge, Goto
<1>9. ASSUME NEW t \in Threads, ReapRemove(t) PROVE FreshOK'
  BY <1>9 DEF ReapRemove, Goto
<1>10. ASSUME NEW t \in Threads, ReapDone(t) PROVE FreshOK'
  BY <1>10 DEF ReapDone, Goto
<1>11. ASSUME NEW t \in Threads, OpenRefused(t) PROVE FreshOK'
  BY <1>11 DEF OpenRefused, Return, Goto
<1>12. ASSUME NEW t \in Threads, OpenAdmit(t) PROVE FreshOK'
  BY <1>12 DEF OpenAdmit, Goto
<1>13. ASSUME NEW t \in Threads, OpenCreate(t) PROVE FreshOK'
  BY <1>13 DEF OpenCreate, Goto
<1>14. ASSUME NEW t \in Threads, OpenPoint(t) PROVE FreshOK'
  BY <1>14 DEF OpenPoint, Return, Goto
<1>15. ASSUME NEW t \in Threads, NEW s \in Sessions, NEW k \in Kinds, RecordStart(t, s, k)
      PROVE FreshOK'
  BY <1>15 DEF RecordStart, Issue, Goto
<1>16. ASSUME NEW t \in Threads, RecordClosing(t) PROVE FreshOK'
  BY <1>16 DEF RecordClosing, Goto
<1>17. ASSUME NEW t \in Threads, RecordEnter(t) PROVE FreshOK'
  BY <1>17 DEF RecordEnter, Return, Goto
<1>18. ASSUME NEW t \in Threads, RecordFreeze(t) PROVE FreshOK'
  BY <1>18 DEF RecordFreeze, Goto
<1>19. ASSUME NEW t \in Threads, RecordSave(t) PROVE FreshOK'
  BY <1>19, SaveIs DEF Saves
<1>20. ASSUME NEW t \in Threads, RecordUnpoint(t) PROVE FreshOK'
  BY <1>20 DEF RecordUnpoint, Return, Goto
<1>21. ASSUME NEW s \in Sessions, Expire(s) PROVE FreshOK'
  BY <1>21 DEF Expire, IsTerminal
<1>22. CASE Crash
  BY <1>22 DEF Crash
<1>23. CASE UNCHANGED vars
  BY <1>23 DEF vars
<1> QED
  BY <1>1, <1>2, <1>3, <1>4, <1>5, <1>6, <1>7, <1>8, <1>9, <1>10, <1>11, <1>12, <1>13, <1>14,
     <1>15, <1>16, <1>17, <1>18, <1>19, <1>20, <1>21, <1>22, <1>23 DEF Next, Open, Record

\* Sessions are created and the pointer is changed only under the active lock.
LEMMA PointerStep ==
    ASSUME TypeOK, LocalsOK, LocksOK, PresentOK, PointerOK, [Next]_vars
    PROVE  PointerOK'
<1> USE StoreAssumption DEF TypeOK, LocalsOK, LocksOK, PresentOK, PointerOK, InState,
    InActive, IsOpen, IsTerminal, fileVars, lockVars, localVars, histVars
<1>1. ASSUME NEW t \in Threads, NEW s \in Sessions, OpenStart(t, s) PROVE PointerOK'
  BY <1>1 DEF OpenStart, Issue, Goto
<1>2. ASSUME NEW t \in Threads, SweepSkip(t) PROVE PointerOK'
  BY <1>2 DEF SweepSkip, Goto
<1>3. ASSUME NEW t \in Threads, SweepPrune(t) PROVE PointerOK'
  BY <1>3 DEF SweepPrune, Goto, Prunable
<1>4. ASSUME NEW t \in Threads, SweepLog(t) PROVE PointerOK'
  BY <1>4 DEF SweepLog, Goto
<1>5. ASSUME NEW t \in Threads, SweepDone(t) PROVE PointerOK'
  BY <1>5 DEF SweepDone, Goto
<1>6. ASSUME NEW t \in Threads, ReapStart(t) PROVE PointerOK'
  BY <1>6 DEF ReapStart, Goto
<1>7. ASSUME NEW t \in Threads, ReapChoose(t) PROVE PointerOK'
  BY <1>7 DEF ReapChoose, Choose, Goto
<1>8. ASSUME NEW t \in Threads, ReapMerge(t) PROVE PointerOK'
  BY <1>8 DEF ReapMerge, Goto
<1>9. ASSUME NEW t \in Threads, ReapRemove(t) PROVE PointerOK'
  BY <1>9 DEF ReapRemove, Goto
<1>10. ASSUME NEW t \in Threads, ReapDone(t) PROVE PointerOK'
  BY <1>10 DEF ReapDone, Goto
<1>11. ASSUME NEW t \in Threads, OpenRefused(t) PROVE PointerOK'
  BY <1>11 DEF OpenRefused, Return, Goto
<1>12. ASSUME NEW t \in Threads, OpenAdmit(t) PROVE PointerOK'
  BY <1>12 DEF OpenAdmit, Goto, Occupied
<1>13. ASSUME NEW t \in Threads, OpenCreate(t) PROVE PointerOK'
  BY <1>13 DEF OpenCreate, Goto
<1>14. ASSUME NEW t \in Threads, OpenPoint(t) PROVE PointerOK'
  BY <1>14 DEF OpenPoint, Return, Goto
<1>15. ASSUME NEW t \in Threads, NEW s \in Sessions, NEW k \in Kinds, RecordStart(t, s, k)
      PROVE PointerOK'
  BY <1>15 DEF RecordStart, Issue, Goto
<1>16. ASSUME NEW t \in Threads, RecordClosing(t) PROVE PointerOK'
  BY <1>16 DEF RecordClosing, Goto
<1>17. ASSUME NEW t \in Threads, RecordEnter(t) PROVE PointerOK'
  BY <1>17 DEF RecordEnter, Return, Goto
<1>18. ASSUME NEW t \in Threads, RecordFreeze(t) PROVE PointerOK'
  BY <1>18 DEF RecordFreeze, Goto
<1>19. ASSUME NEW t \in Threads, RecordSave(t) PROVE PointerOK'
  BY <1>19, SaveIs DEF Saves, IsTerminal
<1>20. ASSUME NEW t \in Threads, RecordUnpoint(t) PROVE PointerOK'
  BY <1>20 DEF RecordUnpoint, Return, Goto
<1>21. ASSUME NEW s \in Sessions, Expire(s) PROVE PointerOK'
  BY <1>21 DEF Expire, IsTerminal
<1>22. CASE Crash
  BY <1>22 DEF Crash
<1>23. CASE UNCHANGED vars
  BY <1>23 DEF vars
<1> QED
  BY <1>1, <1>2, <1>3, <1>4, <1>5, <1>6, <1>7, <1>8, <1>9, <1>10, <1>11, <1>12, <1>13, <1>14,
     <1>15, <1>16, <1>17, <1>18, <1>19, <1>20, <1>21, <1>22, <1>23 DEF Next, Open, Record

\* The actions of the requests that create, close or point at a session, or the rest.
Quiet ==
    /\ UNCHANGED <<st, pointer>>
    /\ \A t \in Threads : pc[t] = "pointing" <=> pc'[t] = "pointing"
    /\ \A t \in Threads : pc[t] = "pointing" => sid'[t] = sid[t]

\* Only a stop strands a session: nobody else gives up a pointer to an open one.
LEMMA UnpointedShrinks ==
    ASSUME TypeOK, LocalsOK, LocksOK, PresentOK, PointerOK, Next, ~Crash
    PROVE  Unpointed' \subseteq Unpointed
<1> USE StoreAssumption DEF Unpointed, IsTerminal, IsOpen, fileVars, lockVars, localVars, histVars
<1>1. ASSUME NEW t \in Threads, OpenCreate(t) PROVE Unpointed' \subseteq Unpointed
  BY <1>1 DEF OpenCreate, Goto, TypeOK, LocksOK, InActive
<1>2. ASSUME NEW t \in Threads, OpenPoint(t) PROVE Unpointed' \subseteq Unpointed
  <2>1. pointer = None \/ pointer = sid[t] \/ ~IsOpen(pointer)
    BY <1>2 DEF OpenPoint, PointerOK
  <2>2. st' = st /\ pointer' = sid[t] /\ pc[t] = "pointing"  BY <1>2 DEF OpenPoint
  <2>3. \A u \in Threads : u # t => pc'[u] = pc[u] /\ sid'[u] = sid[u]
    BY <1>2 DEF OpenPoint, Return, Goto, TypeOK
  <2>4. \A u \in Threads : u # t => pc[u] # "pointing"
    BY <1>2 DEF OpenPoint, LocksOK, InActive
  <2> QED  BY <2>1, <2>2, <2>3, <2>4
<1>3. ASSUME NEW t \in Threads, RecordSave(t) PROVE Unpointed' \subseteq Unpointed
  <2>1. Saves(t)  BY <1>3, SaveIs
  <2>2. pointer' = pointer /\ st' = [st EXCEPT ![sid[t]] = st'[sid[t]]] /\ st[sid[t]] # None
    BY <2>1, <1>3 DEF Saves, PresentOK, RecordSave
  <2>3. IsTerminal(sid[t]) => st'[sid[t]].state \in Terminal  BY <2>1 DEF Saves
  <2>4. \A s \in Sessions : st'[s] # None /\ st'[s].state \notin Terminal
                              => st[s] # None /\ ~IsTerminal(s)
    BY <2>2, <2>3 DEF TypeOK
  <2>5. pc[t] = "saving"  BY <2>1 DEF Saves
  <2>6. \A u \in Threads : pc[u] = "pointing" => pc'[u] = "pointing" /\ sid'[u] = sid[u]
    BY <2>1, <2>5 DEF Saves, TypeOK
  <2> QED  BY <2>2, <2>4, <2>6
<1>4. ASSUME NEW t \in Threads, RecordUnpoint(t) PROVE Unpointed' \subseteq Unpointed
  <2>1. ~IsOpen(sid[t]) /\ st' = st  BY <1>4 DEF RecordUnpoint, PointerOK
  <2>2. pointer' = IF pointer = sid[t] THEN None ELSE pointer  BY <1>4 DEF RecordUnpoint
  <2>3. \A u \in Threads : pc[u] = "pointing" => pc'[u] = "pointing" /\ sid'[u] = sid[u]
    BY <1>4 DEF RecordUnpoint, Return, Goto, TypeOK
  <2> QED  BY <2>1, <2>2, <2>3
<1>5. ASSUME NEW t \in Threads, ReapRemove(t) PROVE Unpointed' \subseteq Unpointed
  BY <1>5 DEF ReapRemove, Goto, TypeOK
<1>6. CASE Quiet  BY <1>6 DEF Quiet
<1>7. ASSUME NEW t \in Threads,
             (\E s \in Sessions : OpenStart(t, s)) \/ SweepSkip(t) \/ SweepPrune(t) \/ SweepLog(t)
             \/ SweepDone(t) \/ ReapStart(t) \/ ReapChoose(t) \/ ReapMerge(t) \/ ReapDone(t)
      PROVE  Quiet
  BY <1>7 DEF Quiet, OpenStart, Issue, SweepSkip, SweepPrune, SweepLog, SweepDone, ReapStart,
     ReapChoose, Choose, ReapMerge, ReapDone, Goto, TypeOK
<1>8. ASSUME NEW t \in Threads,
             OpenRefused(t) \/ OpenAdmit(t) \/ RecordClosing(t) \/ RecordEnter(t)
             \/ RecordFreeze(t) \/ \E s \in Sessions, k \in Kinds : RecordStart(t, s, k)
      PROVE  Quiet
  BY <1>8 DEF Quiet, OpenRefused, OpenAdmit, RecordClosing, RecordEnter, RecordFreeze,
     RecordStart, Issue, Return, Goto, TypeOK
<1>9. ASSUME NEW s \in Sessions, Expire(s) PROVE Quiet  BY <1>9 DEF Quiet, Expire
<1> QED  BY <1>1, <1>2, <1>3, <1>4, <1>5, <1>6, <1>7, <1>8, <1>9 DEF Next, Open, Record

\* A stop strands at most the one session whose open holds the active lock.
LEMMA UnpointedCrash ==
    ASSUME TypeOK, LocksOK, Crash
    PROVE  \/ Unpointed' \subseteq Unpointed
           \/ \E t \in Threads : pc[t] = "pointing" /\ Unpointed' \subseteq Unpointed \cup {sid[t]}
<1> USE DEF Crash, fileVars
<1>1. UNCHANGED <<st, pointer>>  OBVIOUS
<1>2. CASE \E t \in Threads : pc[t] = "pointing"
  <2>1. PICK t \in Threads : pc[t] = "pointing"  BY <1>2
  <2>2. \A u \in Threads : pc[u] = "pointing" => u = t  BY <2>1 DEF LocksOK, InActive
  <2>3. Unpointed' \subseteq Unpointed \cup {sid[t]}
    BY <1>1, <2>2 DEF Unpointed, IsTerminal
  <2> QED  BY <2>1, <2>3
<1>3. CASE ~\E t \in Threads : pc[t] = "pointing"
  BY <1>1, <1>3 DEF Unpointed, IsTerminal
<1> QED  BY <1>2, <1>3

\* A stop adds one session at most to those that no pointer names.
LEMMA UnpointedStep ==
    ASSUME TypeOK, LocalsOK, LocksOK, PresentOK, PointerOK, Cardinality(Unpointed) <= crashes,
           [Next]_vars
    PROVE  Cardinality(Unpointed') <= crashes'
<1> USE StoreAssumption
<1>1. /\ IsFiniteSet(Unpointed) /\ IsFiniteSet(Unpointed')
      /\ Cardinality(Unpointed) \in Nat /\ Cardinality(Unpointed') \in Nat
  <2>1. Unpointed \in SUBSET Sessions /\ Unpointed' \in SUBSET Sessions  BY DEF Unpointed
  <2> QED  BY <2>1, FS_Subset, FS_CardinalityType
<1>2. crashes \in Nat  BY DEF TypeOK
<1>3. CASE UNCHANGED vars
  <2>1. Unpointed' = Unpointed /\ crashes' = crashes
    BY <1>3 DEF vars, fileVars, localVars, Unpointed, IsTerminal
  <2> QED  BY <2>1
<1>4. CASE Next /\ ~Crash
  <2>1. Unpointed' \subseteq Unpointed  BY <1>4, UnpointedShrinks
  <2>2. Cardinality(Unpointed') <= Cardinality(Unpointed)  BY <1>1, <2>1, FS_Subset
  <2>3. crashes' = crashes
    BY <1>4 DEF Next, Open, Record, OpenStart, Issue, SweepSkip, SweepPrune, SweepLog, SweepDone,
       ReapStart, ReapChoose, ReapMerge, ReapRemove, ReapDone, OpenRefused, OpenAdmit, OpenCreate,
       OpenPoint, RecordStart, RecordClosing, RecordEnter, RecordFreeze, RecordSave,
       RecordUnpoint, Expire
  <2> QED  BY <1>1, <1>2, <2>2, <2>3
<1>5. CASE Crash
  <2>1. crashes' = crashes + 1  BY <1>5 DEF Crash
  <2>2. CASE Unpointed' \subseteq Unpointed
    <3>1. Cardinality(Unpointed') <= Cardinality(Unpointed)  BY <1>1, <2>2, FS_Subset
    <3> QED  BY <1>1, <1>2, <2>1, <3>1
  <2>3. ASSUME NEW t \in Threads, Unpointed' \subseteq Unpointed \cup {sid[t]}
        PROVE  Cardinality(Unpointed') <= crashes'
    <3>1. /\ IsFiniteSet(Unpointed \cup {sid[t]})
          /\ Cardinality(Unpointed \cup {sid[t]}) <= Cardinality(Unpointed) + 1
      <4> DEFINE U == Unpointed
      <4>1. /\ IsFiniteSet(U \cup {sid[t]})
            /\ Cardinality(U \cup {sid[t]}) = IF sid[t] \in U THEN Cardinality(U)
                                                              ELSE Cardinality(U) + 1
        BY <1>1, FS_AddElement
      <4> HIDE DEF U
      <4>2. Cardinality(U) \in Nat  BY <1>1 DEF U
      <4>3. Cardinality(U \cup {sid[t]}) <= Cardinality(U) + 1  BY <4>1, <4>2
      <4> QED  BY <4>1, <4>3 DEF U
    <3>2. Cardinality(Unpointed') <= Cardinality(Unpointed \cup {sid[t]})
      BY <2>3, <3>1, FS_Subset
    <3>3. Cardinality(Unpointed \cup {sid[t]}) \in Nat  BY <3>1, FS_CardinalityType
    <3> QED  BY <1>1, <1>2, <2>1, <3>1, <3>2, <3>3
  <2> QED  BY <1>5, <2>2, <2>3, UnpointedCrash
<1> QED  BY <1>3, <1>4, <1>5

\* Nobody is told of a session before the pointer names it, nor after it does not
\* unless it is closed.
LEMMA ToldStep ==
    ASSUME TypeOK, LocalsOK, LocksOK, PresentOK, FreshOK, PointerOK, HistoryOK, ToldOK, [Next]_vars
    PROVE  ToldOK'
<1> USE StoreAssumption DEF fileVars, lockVars, localVars, histVars
<1>1. ASSUME NEW t \in Threads, OpenPoint(t) PROVE ToldOK'
  <2>1. ~Crash /\ Next
    <3>1. crashes' = crashes  BY <1>1 DEF OpenPoint
    <3>2. ~Crash  BY <3>1 DEF Crash, TypeOK
    <3> QED  BY <1>1, <3>2 DEF Next, Open
  <2>2. Unpointed' \subseteq Unpointed  BY <2>1, UnpointedShrinks
  <2>3. sid[t] \notin Unpointed'  BY <1>1 DEF OpenPoint, Unpointed
  <2>4. told' = told \cup {<<sid[t], cmd[t], num[t]>>}  BY <1>1 DEF OpenPoint
  <2>5. \A u \in Threads : pc'[u] # "pointing"
    BY <1>1 DEF OpenPoint, Return, Goto, TypeOK, LocksOK, InActive
  <2> QED  BY <2>2, <2>3, <2>4, <2>5 DEF ToldOK
<1>2. ASSUME NEW t \in Threads, RecordUnpoint(t) PROVE ToldOK'
  <2>1. ~Crash /\ Next
    <3>1. crashes' = crashes  BY <1>2 DEF RecordUnpoint
    <3>2. ~Crash  BY <3>1 DEF Crash, TypeOK
    <3> QED  BY <1>2, <3>2 DEF Next, Record
  <2>2. Unpointed' \subseteq Unpointed  BY <2>1, UnpointedShrinks
  <2>3. sid[t] \notin Unpointed'
    BY <1>2 DEF RecordUnpoint, Unpointed, PointerOK, IsOpen, IsTerminal
  <2>4. told' = told \cup {<<sid[t], cmd[t], num[t]>>}  BY <1>2 DEF RecordUnpoint
  <2>5. \A u \in Threads : pc'[u] # "pointing"
    BY <1>2 DEF RecordUnpoint, Return, Goto, TypeOK, LocksOK, InActive
  <2> QED  BY <2>2, <2>3, <2>4, <2>5 DEF ToldOK
<1>3. ASSUME NEW t \in Threads, RecordSave(t) PROVE ToldOK'
  <2>1. Saves(t)  BY <1>3, SaveIs
  <2>2. ~Crash /\ Next
    <3>1. crashes' = crashes  BY <1>3 DEF RecordSave
    <3>2. ~Crash  BY <3>1 DEF Crash, TypeOK
    <3> QED  BY <1>3, <3>2 DEF Next, Record
  <2>3. Unpointed' \subseteq Unpointed  BY <2>2, UnpointedShrinks
  <2>4. st[sid[t]].gen + 1 # 1
    <3>1. st[sid[t]] # None /\ st[sid[t]] \in SessionState /\ sid[t] \in Sessions
      BY <2>1, <1>3 DEF Saves, PresentOK, RecordSave
    <3> QED  BY <3>1 DEF HistoryOK, SessionState
  <2>5. \A x \in told' : x[3] = 1 => x \in told  BY <2>1, <2>4 DEF Saves
  <2>6. \A u \in Threads : pc'[u] = "pointing" => pc[u] = "pointing" /\ sid'[u] = sid[u]
    BY <2>1 DEF Saves, TypeOK
  <2> QED  BY <2>3, <2>5, <2>6 DEF ToldOK
<1>4. ASSUME NEW t \in Threads, OpenCreate(t) PROVE ToldOK'
  <2>1. ~Crash /\ Next
    <3>1. crashes' = crashes  BY <1>4 DEF OpenCreate
    <3>2. ~Crash  BY <3>1 DEF Crash, TypeOK
    <3> QED  BY <1>4, <3>2 DEF Next, Open
  <2>2. Unpointed' \subseteq Unpointed  BY <2>1, UnpointedShrinks
  <2>3. \A x \in told : x[1] # sid[t]  BY <1>4 DEF OpenCreate, FreshOK, Opening
  <2>4. \A u \in Threads : u # t => pc'[u] = pc[u]
    BY <1>4 DEF OpenCreate, Goto, TypeOK
  <2>5. UNCHANGED <<told, sid>>  BY <1>4 DEF OpenCreate
  <2> QED  BY <2>2, <2>3, <2>4, <2>5 DEF ToldOK
<1>5. ASSUME Quiet \/ (\E t \in Threads : ReapRemove(t)), Next, ~Crash, told' = told PROVE ToldOK'
  <2>1. Unpointed' \subseteq Unpointed  BY <1>5, UnpointedShrinks
  <2>2. \A u \in Threads : pc'[u] = "pointing" => pc[u] = "pointing" /\ sid'[u] = sid[u]
    BY <1>5 DEF Quiet, ReapRemove, Goto, TypeOK
  <2> QED  BY <1>5, <2>1, <2>2 DEF ToldOK
<1>6. CASE Crash
  <2>1. told' = told /\ \A u \in Threads : pc'[u] # "pointing"  BY <1>6 DEF Crash
  <2> QED  BY <1>6, <2>1, UnpointedCrash DEF ToldOK
<1>7. CASE UNCHANGED vars
  BY <1>7 DEF vars, ToldOK, Unpointed, IsTerminal
<1>8. ASSUME NEW t \in Threads,
             (\E s \in Sessions : OpenStart(t, s)) \/ SweepSkip(t) \/ SweepPrune(t) \/ SweepLog(t)
             \/ SweepDone(t) \/ ReapStart(t) \/ ReapChoose(t) \/ ReapMerge(t) \/ ReapDone(t)
      PROVE  Quiet /\ told' = told
  BY <1>8 DEF Quiet, OpenStart, Issue, SweepSkip, SweepPrune, SweepLog, SweepDone, ReapStart,
     ReapChoose, Choose, ReapMerge, ReapDone, Goto, TypeOK
<1>9. ASSUME NEW t \in Threads,
             OpenRefused(t) \/ OpenAdmit(t) \/ RecordClosing(t) \/ RecordEnter(t)
             \/ RecordFreeze(t) \/ \E s \in Sessions, k \in Kinds : RecordStart(t, s, k)
      PROVE  Quiet /\ told' = told
  BY <1>9 DEF Quiet, OpenRefused, OpenAdmit, RecordClosing, RecordEnter, RecordFreeze,
     RecordStart, Issue, Return, Goto, TypeOK
<1>10. ASSUME NEW s \in Sessions, Expire(s) PROVE Quiet /\ told' = told
  BY <1>10 DEF Quiet, Expire
<1>11. ASSUME NEW t \in Threads, ReapRemove(t) PROVE told' = told  BY <1>11 DEF ReapRemove
<1> QED  BY <1>1, <1>2, <1>3, <1>4, <1>5, <1>6, <1>7, <1>8, <1>9, <1>10, <1>11
            DEF Next, Open, Record

\* What makes a session settled changes only under one of the two locks.
LEMMA ReapStep ==
    ASSUME TypeOK, LocalsOK, LocksOK, PresentOK, ReapOK, [Next]_vars
    PROVE  ReapOK'
<1> USE StoreAssumption DEF TypeOK, LocalsOK, LocksOK, ReapOK, InState, InActive, Settled,
    IsTerminal, fileVars, lockVars, localVars, histVars
<1>1. ASSUME NEW t \in Threads, NEW s \in Sessions, OpenStart(t, s) PROVE ReapOK'
  BY <1>1 DEF OpenStart, Issue, Goto
<1>2. ASSUME NEW t \in Threads, SweepSkip(t) PROVE ReapOK'
  BY <1>2 DEF SweepSkip, Goto
<1>3. ASSUME NEW t \in Threads, SweepPrune(t) PROVE ReapOK'
  BY <1>3 DEF SweepPrune, Goto, Prunable
<1>4. ASSUME NEW t \in Threads, SweepLog(t) PROVE ReapOK'
  BY <1>4 DEF SweepLog, Goto
<1>5. ASSUME NEW t \in Threads, SweepDone(t) PROVE ReapOK'
  BY <1>5 DEF SweepDone, Goto
<1>6. ASSUME NEW t \in Threads, ReapStart(t) PROVE ReapOK'
  BY <1>6 DEF ReapStart, Goto
<1>7. ASSUME NEW t \in Threads, ReapChoose(t) PROVE ReapOK'
  BY <1>7 DEF ReapChoose, Choose, Goto
<1>8. ASSUME NEW t \in Threads, ReapMerge(t) PROVE ReapOK'
  <2>1. PICK r \in todo[t] : kind' = [kind EXCEPT ![t] = r] /\ Appended(central, ledger[r], central')
    BY <1>8, ReapMergeIs
  <2>2. ledger[r] \subseteq central' \/ Cardinality(central') = MaxEntries  BY <2>1 DEF Appended
  <2>3. \A u \in Threads \ {t} : pc[u] \notin {"merging", "removing"}
    BY <1>8 DEF ReapMerge
  <2> QED  BY <1>8, <2>1, <2>2, <2>3 DEF ReapMerge, Goto
<1>9. ASSUME NEW t \in Threads, ReapRemove(t) PROVE ReapOK'
  BY <1>9 DEF ReapRemove, Goto
<1>10. ASSUME NEW t \in Threads, ReapDone(t) PROVE ReapOK'
  BY <1>10 DEF ReapDone, Goto
<1>11. ASSUME NEW t \in Threads, OpenRefused(t) PROVE ReapOK'
  BY <1>11 DEF OpenRefused, Return, Goto
<1>12. ASSUME NEW t \in Threads, OpenAdmit(t) PROVE ReapOK'
  BY <1>12 DEF OpenAdmit, Goto
<1>13. ASSUME NEW t \in Threads, OpenCreate(t) PROVE ReapOK'
  BY <1>13 DEF OpenCreate, Goto
<1>14. ASSUME NEW t \in Threads, OpenPoint(t) PROVE ReapOK'
  BY <1>14 DEF OpenPoint, Return, Goto
<1>15. ASSUME NEW t \in Threads, NEW s \in Sessions, NEW k \in Kinds, RecordStart(t, s, k)
      PROVE ReapOK'
  BY <1>15 DEF RecordStart, Issue, Goto
<1>16. ASSUME NEW t \in Threads, RecordClosing(t) PROVE ReapOK'
  BY <1>16 DEF RecordClosing, Goto
<1>17. ASSUME NEW t \in Threads, RecordEnter(t) PROVE ReapOK'
  BY <1>17 DEF RecordEnter, Return, Goto
<1>18. ASSUME NEW t \in Threads, RecordFreeze(t) PROVE ReapOK'
  BY <1>18 DEF RecordFreeze, Goto
<1>19. ASSUME NEW t \in Threads, RecordSave(t) PROVE ReapOK'
  BY <1>19, SaveIs DEF Saves
<1>20. ASSUME NEW t \in Threads, RecordUnpoint(t) PROVE ReapOK'
  BY <1>20 DEF RecordUnpoint, Return, Goto
<1>21. ASSUME NEW s \in Sessions, Expire(s) PROVE ReapOK'
  BY <1>21 DEF Expire, IsTerminal
<1>22. CASE Crash
  BY <1>22 DEF Crash
<1>23. CASE UNCHANGED vars
  BY <1>23 DEF vars
<1> QED
  BY <1>1, <1>2, <1>3, <1>4, <1>5, <1>6, <1>7, <1>8, <1>9, <1>10, <1>11, <1>12, <1>13, <1>14,
     <1>15, <1>16, <1>17, <1>18, <1>19, <1>20, <1>21, <1>22, <1>23 DEF Next, Open, Record

\* Frames leave a session only after its retention.
LEMMA EvidenceStep ==
    ASSUME TypeOK, LocalsOK, LocksOK, ReapOK, EvidenceOK, [Next]_vars
    PROVE  EvidenceOK'
<1> USE StoreAssumption DEF TypeOK, LocalsOK, LocksOK, ReapOK, EvidenceOK, InState, Settled, Verifying,
    fileVars, lockVars, localVars, histVars
<1>1. ASSUME NEW t \in Threads, NEW s \in Sessions, OpenStart(t, s) PROVE EvidenceOK'
  BY <1>1 DEF OpenStart, Issue, Goto
<1>2. ASSUME NEW t \in Threads, SweepSkip(t) PROVE EvidenceOK'
  BY <1>2 DEF SweepSkip, Goto
<1>3. ASSUME NEW t \in Threads, SweepPrune(t) PROVE EvidenceOK'
  BY <1>3 DEF SweepPrune, Goto, Prunable
<1>4. ASSUME NEW t \in Threads, SweepLog(t) PROVE EvidenceOK'
  BY <1>4 DEF SweepLog, Goto
<1>5. ASSUME NEW t \in Threads, SweepDone(t) PROVE EvidenceOK'
  BY <1>5 DEF SweepDone, Goto
<1>6. ASSUME NEW t \in Threads, ReapStart(t) PROVE EvidenceOK'
  BY <1>6 DEF ReapStart, Goto
<1>7. ASSUME NEW t \in Threads, ReapChoose(t) PROVE EvidenceOK'
  BY <1>7 DEF ReapChoose, Choose, Goto
<1>8. ASSUME NEW t \in Threads, ReapMerge(t) PROVE EvidenceOK'
  BY <1>8 DEF ReapMerge, Goto
<1>9. ASSUME NEW t \in Threads, ReapRemove(t) PROVE EvidenceOK'
  BY <1>9 DEF ReapRemove, Goto
<1>10. ASSUME NEW t \in Threads, ReapDone(t) PROVE EvidenceOK'
  BY <1>10 DEF ReapDone, Goto
<1>11. ASSUME NEW t \in Threads, OpenRefused(t) PROVE EvidenceOK'
  BY <1>11 DEF OpenRefused, Return, Goto
<1>12. ASSUME NEW t \in Threads, OpenAdmit(t) PROVE EvidenceOK'
  BY <1>12 DEF OpenAdmit, Goto
<1>13. ASSUME NEW t \in Threads, OpenCreate(t) PROVE EvidenceOK'
  BY <1>13 DEF OpenCreate, Goto
<1>14. ASSUME NEW t \in Threads, OpenPoint(t) PROVE EvidenceOK'
  BY <1>14 DEF OpenPoint, Return, Goto
<1>15. ASSUME NEW t \in Threads, NEW s \in Sessions, NEW k \in Kinds, RecordStart(t, s, k)
      PROVE EvidenceOK'
  BY <1>15 DEF RecordStart, Issue, Goto
<1>16. ASSUME NEW t \in Threads, RecordClosing(t) PROVE EvidenceOK'
  BY <1>16 DEF RecordClosing, Goto
<1>17. ASSUME NEW t \in Threads, RecordEnter(t) PROVE EvidenceOK'
  BY <1>17 DEF RecordEnter, Return, Goto
<1>18. ASSUME NEW t \in Threads, RecordFreeze(t) PROVE EvidenceOK'
  BY <1>18 DEF RecordFreeze, Goto
<1>19. ASSUME NEW t \in Threads, RecordSave(t) PROVE EvidenceOK'
  BY <1>19 DEF RecordSave, Return, Goto
<1>20. ASSUME NEW t \in Threads, RecordUnpoint(t) PROVE EvidenceOK'
  BY <1>20 DEF RecordUnpoint, Return, Goto
<1>21. ASSUME NEW s \in Sessions, Expire(s) PROVE EvidenceOK'
  BY <1>21 DEF Expire, IsTerminal
<1>22. CASE Crash
  BY <1>22 DEF Crash
<1>23. CASE UNCHANGED vars
  BY <1>23 DEF vars
<1> QED
  BY <1>1, <1>2, <1>3, <1>4, <1>5, <1>6, <1>7, <1>8, <1>9, <1>10, <1>11, <1>12, <1>13, <1>14,
     <1>15, <1>16, <1>17, <1>18, <1>19, <1>20, <1>21, <1>22, <1>23 DEF Next, Open, Record

\* What changes no ledger leaves every ledger within its cap.
LEMMA CapsStep ==
    ASSUME TypeOK, LocalsOK, CapsOK, [Next]_vars
    PROVE  CapsOK'
<1> USE StoreAssumption DEF fileVars
<1>1. ASSUME NEW t \in Threads, SweepLog(t) PROVE CapsOK'
  <2>1. PICK named : Appended(ledger[kind[t]], gone[t], named)
                     /\ ledger' = [ledger EXCEPT ![kind[t]] = named]
    BY <1>1, SweepLogIs
  <2>2. Cardinality(named) <= MaxEntries  BY <2>1 DEF Appended
  <2>3. central' = central  BY <1>1 DEF SweepLog
  <2>4. \A s \in Sessions : ledger'[s] = ledger[s] \/ ledger'[s] = named  BY <2>1 DEF TypeOK
  <2> QED  BY <2>2, <2>3, <2>4 DEF CapsOK
<1>2. ASSUME NEW t \in Threads, ReapMerge(t) PROVE CapsOK'
  <2>1. Cardinality(central') <= MaxEntries  BY <1>2, ReapMergeIs DEF Appended
  <2> QED  BY <1>2, <2>1 DEF ReapMerge, CapsOK
<1>3. ASSUME NEW t \in Threads, ReapRemove(t) PROVE CapsOK'
  <2>1. \A s \in Sessions : ledger'[s] = ledger[s] \/ ledger'[s] = {}
    BY <1>3 DEF ReapRemove, TypeOK
  <2>2. Cardinality({}) <= MaxEntries  BY FS_EmptySet
  <2> QED  BY <1>3, <2>1, <2>2 DEF ReapRemove, CapsOK
<1>4. CASE UNCHANGED <<ledger, central>>  BY <1>4 DEF CapsOK
<1>5. \/ \E t \in Threads : SweepLog(t) \/ ReapMerge(t) \/ ReapRemove(t)
      \/ UNCHANGED <<ledger, central>>
  BY DEF vars, Next, Open, Record, Expire, Crash, OpenStart, SweepSkip, SweepPrune, SweepDone,
     ReapStart, ReapChoose, ReapDone, OpenRefused, OpenAdmit, OpenCreate, OpenPoint, RecordStart,
     RecordClosing, RecordEnter, RecordFreeze, RecordSave, RecordUnpoint
<1> QED  BY <1>1, <1>2, <1>3, <1>4, <1>5

-----------------------------------------------------------------------------
\* A frame with a trace keeps one, unless a stop cuts off the log.
Traced(x) == Named(x) \/ Crowded(x)

\* An action that touches no frame, no ledger and no sweep at its log.
Still ==
    /\ UNCHANGED <<evid, ledger, central, frozen>>
    /\ \A u \in Threads : pc[u] = "logging" => pc'[u] = "logging" /\ kind'[u] = kind[u]
                                               /\ gone'[u] = gone[u]

\* Every action of a request keeps the traces of the frames, and gives new ones one.
LEMMA TraceStays ==
    ASSUME TypeOK, LocalsOK, LocksOK, ReapOK, CapsOK, EvidenceOK, Next, ~Crash, NEW x \in frozen',
           x \in frozen => Traced(x)
    PROVE  Traced(x)'
<1> USE StoreAssumption DEF fileVars, lockVars, localVars, histVars
<1>1. ASSUME NEW t \in Threads, SweepPrune(t) PROVE Traced(x)'
  <2>1. x \in frozen /\ x[1] \in Sessions  BY <1>1 DEF SweepPrune, EvidenceOK
  <2>2. CASE Crowded(x)  BY <1>1, <2>2 DEF SweepPrune, Crowded, Traced
  <2>3. PICK r \in Sessions, some \in SUBSET Commands :
           /\ evid' = [evid EXCEPT ![r] = @ \ some] /\ gone' = [gone EXCEPT ![t] = some]
           /\ kind' = [kind EXCEPT ![t] = r]
    <3>1. \A r \in todo[t] : r \in Sessions /\ evid[r] \subseteq Commands
      BY DEF TypeOK
    <3>2. PICK r \in todo[t], some \in SUBSET Commands :
           /\ some \in (SUBSET evid[r]) \ {{}}
           /\ evid' = [evid EXCEPT ![r] = @ \ some] /\ gone' = [gone EXCEPT ![t] = some]
           /\ kind' = [kind EXCEPT ![t] = r]
      BY <1>1, <3>1 DEF SweepPrune
    <3> QED  BY <3>1, <3>2
  <2>4. \A u \in Threads : pc[u] # "logging"  BY <1>1 DEF SweepPrune, LocksOK, InState, TypeOK
  <2>5. CASE x[2] \in evid[x[1]] \cup ledger[x[1]] \cup central
    <3>1. x[2] \in evid'[x[1]] \cup ledger[x[1]] \cup central \/ (x[1] = r /\ x[2] \in some)
      BY <2>1, <2>3, <2>5 DEF TypeOK
    <3>2. pc'[t] = "logging" /\ kind'[t] = r /\ gone'[t] = some
      BY <1>1, <2>3 DEF SweepPrune, Goto, TypeOK
    <3>3. UNCHANGED <<ledger, central>>  BY <1>1 DEF SweepPrune
    <3>4. Named(x)'  BY <3>1, <3>2, <3>3 DEF Named
    <3> QED  BY <3>4 DEF Traced
  <2> QED  BY <2>1, <2>2, <2>4, <2>5 DEF Traced, Named
<1>2. ASSUME NEW t \in Threads, SweepLog(t) PROVE Traced(x)'
  <2>1. x \in frozen /\ x[1] \in Sessions  BY <1>2 DEF SweepLog, EvidenceOK
  <2> DEFINE r == kind[t]
  <2>2. r \in Sessions  BY <1>2, SweepLogIs
  <2>3. PICK kept : Appended(ledger[r], gone[t], kept) /\ ledger' = [ledger EXCEPT ![r] = kept]
    BY <1>2, SweepLogIs
  <2>4. UNCHANGED <<evid, central>>  BY <1>2 DEF SweepLog
  <2>5. ledger'[r] = kept /\ \A s \in Sessions \ {r} : ledger'[s] = ledger[s]
    BY <2>2, <2>3 DEF TypeOK
  <2>6. \A u \in Threads : pc[u] = "logging" => u = t  BY <1>2 DEF SweepLog, LocksOK, InState
  <2> HIDE DEF r
  <2>7. CASE x[1] # r
    <3>1. ledger'[x[1]] = ledger[x[1]]  BY <2>1, <2>5, <2>7
    <3>2. CASE Crowded(x)  BY <2>4, <3>1, <3>2 DEF Crowded, Traced
    <3>3. CASE Named(x)
      <4>1. x[2] \in evid[x[1]] \cup ledger[x[1]] \cup central
        BY <2>6, <2>7, <3>3 DEF Named, r
      <4> QED  BY <2>4, <3>1, <4>1 DEF Named, Traced
    <3> QED  BY <2>1, <3>2, <3>3 DEF Traced
  <2>8. CASE x[1] = r
    <3>1. CASE Cardinality(kept) = MaxEntries
      BY <2>5, <2>8, <3>1 DEF Crowded, Traced
    <3>2. CASE Cardinality(kept) # MaxEntries
      <4>1. kept = ledger[r] \cup gone[t] /\ Cardinality(ledger[r]) # MaxEntries
        BY <2>3, <3>2 DEF Appended
      <4>2. CASE Cardinality(central) = MaxEntries  BY <2>4, <4>2 DEF Crowded, Traced
      <4>3. CASE Named(x)
        <5>1. x[2] \in evid[r] \cup kept \cup central
          BY <2>6, <2>8, <4>1, <4>3 DEF Named, r
        <5> QED  BY <2>4, <2>5, <2>8, <5>1 DEF Named, Traced
      <4> QED  BY <2>1, <2>8, <4>1, <4>2, <4>3 DEF Traced, Crowded
    <3> QED  BY <3>1, <3>2
  <2> QED  BY <2>7, <2>8
<1>3. ASSUME NEW t \in Threads, ReapMerge(t) PROVE Traced(x)'
  <2>1. PICK r \in todo[t] : /\ r \in Sessions /\ kind' = [kind EXCEPT ![t] = r]
                             /\ Appended(central, ledger[r], central')
    BY <1>3, ReapMergeIs
  <2>2. UNCHANGED <<evid, ledger, frozen, gone>>  BY <1>3 DEF ReapMerge
  <2>3. \A u \in Threads : pc[u] # "logging"
    BY <1>3 DEF ReapMerge, LocksOK, InState
  <2>4. CASE Cardinality(central') = MaxEntries  BY <2>4 DEF Crowded, Traced
  <2>5. CASE Cardinality(central') # MaxEntries
    <3>1. central' = central \cup ledger[r] /\ Cardinality(central) # MaxEntries
      BY <2>1, <2>5 DEF Appended
    <3> QED  BY <2>2, <2>3, <3>1 DEF Traced, Named, Crowded
  <2> QED  BY <2>4, <2>5
<1>4. ASSUME NEW t \in Threads, ReapRemove(t) PROVE Traced(x)'
  <2> DEFINE r == kind[t]
  <2>1. /\ r \in todo[t] /\ r \in Sessions /\ evid[r] = {}
        /\ (ledger[r] \subseteq central \/ Cardinality(central) = MaxEntries)
    BY <1>4 DEF ReapRemove, ReapOK, Settled
  <2>2. UNCHANGED <<central, frozen, gone>>  BY <1>4 DEF ReapRemove
  <2>3. x[1] \in Sessions /\ x \in frozen  BY <2>2 DEF EvidenceOK
  <2>4. \A s \in Sessions \ {r} : evid'[s] = evid[s] /\ ledger'[s] = ledger[s]
    BY <1>4 DEF ReapRemove, TypeOK
  <2>5. \A u \in Threads : pc[u] # "logging"  BY <1>4 DEF ReapRemove, LocksOK, InState
  <2>6. CASE Cardinality(central) = MaxEntries  BY <2>2, <2>6 DEF Crowded, Traced
  <2>7. CASE Cardinality(central) # MaxEntries
    <3>1. ledger[r] \subseteq central  BY <2>1, <2>7
    <3>2. Cardinality(ledger[r]) # MaxEntries
      <4> SUFFICES ASSUME Cardinality(ledger[r]) = MaxEntries PROVE FALSE
        OBVIOUS
      <4>1. IsFiniteSet(central) /\ Cardinality(central) \in Nat
        <5>1. IsFiniteSet(Commands)  BY FS_Interval DEF Commands
        <5>2. central \in SUBSET Commands  BY DEF TypeOK
        <5> QED  BY <5>1, <5>2, FS_Subset, FS_CardinalityType
      <4>2. Cardinality(ledger[r]) <= Cardinality(central)  BY <3>1, <4>1, FS_Subset
      <4>3. Cardinality(central) <= MaxEntries  BY DEF CapsOK
      <4> QED  BY <4>1, <4>2, <4>3, <2>7
    <3> HIDE DEF r
    <3>3. CASE x[1] = r
      <4>1. x[2] \in central  BY <2>1, <2>3, <2>5, <2>7, <3>1, <3>2, <3>3 DEF Traced, Named, Crowded
      <4> QED  BY <2>2, <4>1 DEF Named, Traced
    <3>4. CASE x[1] # r
      <4>1. evid'[x[1]] = evid[x[1]] /\ ledger'[x[1]] = ledger[x[1]]  BY <2>3, <2>4, <3>4
      <4> QED  BY <2>2, <2>3, <2>5, <4>1 DEF Named, Crowded, Traced
    <3> QED  BY <3>3, <3>4
  <2> QED  BY <2>6, <2>7
<1>5. ASSUME NEW t \in Threads, RecordFreeze(t) PROVE Traced(x)'
  <2>1. UNCHANGED <<ledger, central, frozen, gone, kind>>  BY <1>5 DEF RecordFreeze
  <2>2. \A s \in Sessions : evid[s] \subseteq evid'[s]  BY <1>5 DEF RecordFreeze, TypeOK
  <2>3. \A u \in Threads : pc[u] # "logging"  BY <1>5 DEF RecordFreeze, LocksOK, InState
  <2>4. x \in frozen /\ x[1] \in Sessions  BY <2>1 DEF EvidenceOK
  <2> QED  BY <2>1, <2>2, <2>3, <2>4 DEF Traced, Named, Crowded
<1>6. ASSUME NEW t \in Threads, RecordSave(t) PROVE Traced(x)'
  <2>1. UNCHANGED <<evid, ledger, central>>  BY <1>6 DEF RecordSave
  <2>2. \A u \in Threads : pc[u] # "logging"  BY <1>6 DEF RecordSave, LocksOK, InState
  <2>3. x \in frozen \/ (x = <<sid[t], cmd[t]>> /\ kind[t] \in Verifying)
    BY <1>6 DEF RecordSave
  <2>4. CASE x \in frozen  BY <2>1, <2>2, <2>4 DEF Traced, Named, Crowded
  <2>5. CASE x = <<sid[t], cmd[t]>> /\ kind[t] \in Verifying
    <3>1. x[2] \in evid[x[1]]  BY <1>6, <2>5 DEF RecordSave, EvidenceOK
    <3> QED  BY <2>1, <3>1 DEF Traced, Named
  <2> QED  BY <2>3, <2>4, <2>5
<1>7. CASE Still  BY <1>7 DEF Still, Traced, Named, Crowded
<1>8. ASSUME NEW t \in Threads,
             (\E s \in Sessions : OpenStart(t, s)) \/ SweepSkip(t) \/ SweepDone(t) \/ ReapStart(t)
             \/ ReapChoose(t) \/ ReapDone(t) \/ OpenCreate(t)
      PROVE  Still
  BY <1>8 DEF Still, OpenStart, Issue, SweepSkip, SweepDone, ReapStart, ReapChoose, Choose,
     ReapDone, OpenCreate, Goto, TypeOK
<1>9. ASSUME NEW t \in Threads, OpenRefused(t) \/ OpenAdmit(t) \/ OpenPoint(t) \/ RecordUnpoint(t)
      PROVE  Still
  BY <1>9 DEF Still, OpenRefused, OpenAdmit, OpenPoint, RecordUnpoint, Return, Goto, TypeOK
<1>10. ASSUME NEW t \in Threads,
              RecordClosing(t) \/ RecordEnter(t)
              \/ \E s \in Sessions, k \in Kinds : RecordStart(t, s, k)
       PROVE  Still
  BY <1>10 DEF Still, RecordClosing, RecordEnter, RecordStart, Issue, Return, Goto, TypeOK
<1>11. ASSUME NEW s \in Sessions, Expire(s) PROVE Still  BY <1>11 DEF Still, Expire
<1> QED  BY <1>1, <1>2, <1>3, <1>4, <1>5, <1>6, <1>7, <1>8, <1>9, <1>10, <1>11
            DEF Next, Open, Record

\* A stop cuts off the log of at most the one session whose sweep holds the state lock.
LEMMA UntracedCrash ==
    ASSUME TypeOK, LocksOK, Crash
    PROVE  \/ Untraced' \subseteq Untraced
           \/ \E t \in Threads : Untraced' \subseteq Untraced \cup {kind[t]}
<1> USE DEF Crash, fileVars
<1>1. UNCHANGED <<evid, ledger, central, frozen>>  OBVIOUS
<1>2. \A x \in frozen : ~Named(x)' /\ ~Crowded(x)' =>
         \/ ~Named(x) /\ ~Crowded(x)
         \/ \E t \in Threads : pc[t] = "logging" /\ kind[t] = x[1]
  BY <1>1 DEF Named, Crowded
<1>3. CASE \E t \in Threads : pc[t] = "logging"
  <2>1. PICK t \in Threads : pc[t] = "logging"  BY <1>3
  <2>2. \A u \in Threads : pc[u] = "logging" => u = t  BY <2>1 DEF LocksOK, InState
  <2>3. Untraced' \subseteq Untraced \cup {kind[t]}  BY <1>1, <1>2, <2>2 DEF Untraced
  <2> QED  BY <2>3
<1>4. CASE ~\E t \in Threads : pc[t] = "logging"  BY <1>1, <1>2, <1>4 DEF Untraced
<1> QED  BY <1>3, <1>4

\* As many sessions have lost entries as there were stops, at most.
LEMMA UntracedStep ==
    ASSUME TypeOK, LocalsOK, LocksOK, ReapOK, CapsOK, EvidenceOK, EvidenceOK',
           Cardinality(Untraced) <= crashes, [Next]_vars
    PROVE  Cardinality(Untraced') <= crashes'
<1> USE StoreAssumption
<1>1. /\ IsFiniteSet(Untraced) /\ IsFiniteSet(Untraced')
      /\ Cardinality(Untraced) \in Nat /\ Cardinality(Untraced') \in Nat
  <2>1. Untraced \in SUBSET Sessions /\ Untraced' \in SUBSET Sessions
    BY DEF Untraced, EvidenceOK
  <2> QED  BY <2>1, FS_Subset, FS_CardinalityType
<1>2. crashes \in Nat  BY DEF TypeOK
<1>3. CASE UNCHANGED vars
  <2>1. Untraced' = Untraced /\ crashes' = crashes
    BY <1>3 DEF vars, fileVars, localVars, histVars, Untraced, Named, Crowded
  <2> QED  BY <2>1
<1>4. CASE Next /\ ~Crash
  <2>1. \A x \in frozen' : (x \in frozen => Traced(x)) => Traced(x)'
    BY <1>4, TraceStays
  <2>2. Untraced' \subseteq Untraced
    <3> SUFFICES ASSUME NEW x \in frozen', ~Named(x)', ~Crowded(x)'
                 PROVE  x[1] \in Untraced
      BY DEF Untraced
    <3>1. ~Traced(x)'  BY DEF Traced
    <3>2. x \in frozen /\ ~Traced(x)  BY <2>1, <3>1
    <3> QED  BY <3>2 DEF Traced, Untraced
  <2>3. Cardinality(Untraced') <= Cardinality(Untraced)  BY <1>1, <2>2, FS_Subset
  <2>4. crashes' = crashes
    BY <1>4 DEF Next, Open, Record, OpenStart, Issue, SweepSkip, SweepPrune, SweepLog, SweepDone,
       ReapStart, ReapChoose, ReapMerge, ReapRemove, ReapDone, OpenRefused, OpenAdmit, OpenCreate,
       OpenPoint, RecordStart, RecordClosing, RecordEnter, RecordFreeze, RecordSave,
       RecordUnpoint, Expire
  <2> QED  BY <1>1, <1>2, <2>3, <2>4
<1>5. CASE Crash
  <2>1. crashes' = crashes + 1  BY <1>5 DEF Crash
  <2>2. CASE Untraced' \subseteq Untraced
    <3>1. Cardinality(Untraced') <= Cardinality(Untraced)  BY <1>1, <2>2, FS_Subset
    <3> QED  BY <1>1, <1>2, <2>1, <3>1
  <2>3. ASSUME NEW t \in Threads, Untraced' \subseteq Untraced \cup {kind[t]}
        PROVE  Cardinality(Untraced') <= crashes'
    <3> DEFINE U == Untraced
    <3>1. /\ IsFiniteSet(U \cup {kind[t]})
          /\ Cardinality(U \cup {kind[t]}) = IF kind[t] \in U THEN Cardinality(U)
                                                              ELSE Cardinality(U) + 1
      BY <1>1, FS_AddElement
    <3>2. Cardinality(Untraced') <= Cardinality(U \cup {kind[t]})  BY <2>3, <3>1, FS_Subset
    <3>3. Cardinality(U) \in Nat /\ Cardinality(U) <= crashes  BY <1>1
    <3> HIDE DEF U
    <3>4. Cardinality(U \cup {kind[t]}) <= crashes + 1  BY <1>2, <3>1, <3>3
    <3>5. Cardinality(U \cup {kind[t]}) \in Nat  BY <3>1, FS_CardinalityType
    <3> QED  BY <1>1, <1>2, <2>1, <3>2, <3>4, <3>5
  <2> QED  BY <1>5, <2>2, <2>3, UntracedCrash
<1> QED  BY <1>3, <1>4, <1>5

-----------------------------------------------------------------------------
\* An entry leaves its history only for later ones, and a session is created once.
LEMMA HistoryStep ==
    ASSUME TypeOK, LocalsOK, LocksOK, PresentOK, FreshOK, HistoryOK, [Next]_vars
    PROVE  HistoryOK'
<1> USE StoreAssumption DEF TypeOK, LocalsOK, LocksOK, PresentOK, FreshOK, HistoryOK,
    NoLostCommand, InState, InActive, Opening, fileVars, lockVars, localVars, histVars
<1>1. ASSUME NEW t \in Threads, NEW s \in Sessions, OpenStart(t, s) PROVE HistoryOK'
  BY <1>1 DEF OpenStart, Issue, Goto
<1>2. ASSUME NEW t \in Threads, SweepSkip(t) PROVE HistoryOK'
  BY <1>2 DEF SweepSkip, Goto
<1>3. ASSUME NEW t \in Threads, SweepPrune(t) PROVE HistoryOK'
  BY <1>3 DEF SweepPrune, Goto, Prunable
<1>4. ASSUME NEW t \in Threads, SweepLog(t) PROVE HistoryOK'
  BY <1>4 DEF SweepLog, Goto
<1>5. ASSUME NEW t \in Threads, SweepDone(t) PROVE HistoryOK'
  BY <1>5 DEF SweepDone, Goto
<1>6. ASSUME NEW t \in Threads, ReapStart(t) PROVE HistoryOK'
  BY <1>6 DEF ReapStart, Goto
<1>7. ASSUME NEW t \in Threads, ReapChoose(t) PROVE HistoryOK'
  BY <1>7 DEF ReapChoose, Choose, Goto
<1>8. ASSUME NEW t \in Threads, ReapMerge(t) PROVE HistoryOK'
  BY <1>8 DEF ReapMerge, Goto
<1>9. ASSUME NEW t \in Threads, ReapRemove(t) PROVE HistoryOK'
  BY <1>9 DEF ReapRemove, Goto
<1>10. ASSUME NEW t \in Threads, ReapDone(t) PROVE HistoryOK'
  BY <1>10 DEF ReapDone, Goto
<1>11. ASSUME NEW t \in Threads, OpenRefused(t) PROVE HistoryOK'
  BY <1>11 DEF OpenRefused, Return, Goto
<1>12. ASSUME NEW t \in Threads, OpenAdmit(t) PROVE HistoryOK'
  BY <1>12 DEF OpenAdmit, Goto
<1>13. ASSUME NEW t \in Threads, OpenCreate(t) PROVE HistoryOK'
  BY <1>13 DEF OpenCreate, Goto
<1>14. ASSUME NEW t \in Threads, OpenPoint(t) PROVE HistoryOK'
  BY <1>14 DEF OpenPoint, Return, Goto
<1>15. ASSUME NEW t \in Threads, NEW s \in Sessions, NEW k \in Kinds, RecordStart(t, s, k)
      PROVE HistoryOK'
  BY <1>15 DEF RecordStart, Issue, Goto
<1>16. ASSUME NEW t \in Threads, RecordClosing(t) PROVE HistoryOK'
  BY <1>16 DEF RecordClosing, Goto
<1>17. ASSUME NEW t \in Threads, RecordEnter(t) PROVE HistoryOK'
  BY <1>17 DEF RecordEnter, Return, Goto
<1>18. ASSUME NEW t \in Threads, RecordFreeze(t) PROVE HistoryOK'
  BY <1>18 DEF RecordFreeze, Goto
<1>19. ASSUME NEW t \in Threads, RecordSave(t) PROVE HistoryOK'
  <2> DEFINE z == sid[t]
             g == st[z].gen
  <2>1. Saves(t)  BY <1>19, SaveIs
  <2>2. /\ z \in Sessions /\ st[z] \in SessionState /\ st[z] # None /\ pc[t] = "saving"
        /\ st' = [st EXCEPT ![z] = st'[z]] /\ st'[z].hist = Entries(z, t) /\ st'[z].gen = g + 1
    BY <2>1 DEF Saves
  <2>3. g \in Nat  BY <2>2 DEF SessionState
  <2>4. /\ Entries(z, t) = {e \in st[z].hist \cup {<<g + 1, cmd[t]>>} : e[1] + MaxHistory > g + 1}
        /\ <<g + 1, cmd[t]>> \in Entries(z, t)
    <3>1. Entries(z, t) = {e \in st[z].hist \cup {<<g + 1, cmd[t]>>} : e[1] + MaxHistory > g + 1}
      BY DEF Entries
    <3> QED  BY <3>1, <2>3
  <2>5. \A n \in Nat : \A c : <<n, c>> \in st[z].hist \/ n + MaxHistory <= g
                            => <<n, c>> \in st'[z].hist \/ n + MaxHistory <= st'[z].gen
    BY <2>2, <2>3, <2>4
  <2>6. \A s \in Sessions \ {z} : st'[s] = st[s]  BY <2>2
  <2>7. \A s \in Sessions : st'[s] # None => st[s] # None  BY <2>2, <2>6
  <2>8. \A s \in Sessions : st'[s] # None => st'[s].gen # 0  BY <2>2, <2>3, <2>6
  <2>9. \A s \in Sessions, n \in Nat : \A c :
           st[s] # None /\ (<<n, c>> \in st[s].hist \/ n + MaxHistory <= st[s].gen)
             => <<n, c>> \in st'[s].hist \/ n + MaxHistory <= st'[s].gen
    BY <2>5, <2>6
  <2>10. \A u \in Threads : pc[u] \in {"pointing", "unpointing"} => sid[u] \in Sessions
    OBVIOUS
  <2>11. \A x \in told : /\ x[1] \in Sessions /\ x[3] \in Nat
                         /\ st'[x[1]] # None => <<x[3], x[2]>> \in st'[x[1]].hist
                                                \/ x[3] + MaxHistory <= st'[x[1]].gen
    BY <2>7, <2>9
  <2>12. \A u \in Threads \ {t} :
           pc[u] \in {"pointing", "unpointing"} /\ st'[sid[u]] # None =>
             <<num[u], cmd[u]>> \in st'[sid[u]].hist \/ num[u] + MaxHistory <= st'[sid[u]].gen
    BY <2>7, <2>9, <2>10
  <2>13. \A u \in Threads \ {t} : pc'[u] = pc[u] /\ sid'[u] = sid[u] /\ cmd'[u] = cmd[u]
                                  /\ num'[u] = num[u]
    BY <2>1 DEF Saves
  <2>14. CASE kind[t] \in Closing
    <3>1. pc'[t] = "unpointing" /\ told' = told /\ sid'[t] = z /\ cmd'[t] = cmd[t] /\ num'[t] = g + 1
      BY <2>1, <2>14 DEF Saves
    <3> HIDE DEF z, g
    <3> QED  BY <2>2, <2>4, <2>8, <2>11, <2>12, <2>13, <3>1
  <2>15. CASE kind[t] \notin Closing
    <3>1. pc'[t] = "idle" /\ told' = told \cup {<<z, cmd[t], g + 1>>}
      BY <2>1, <2>15 DEF Saves
    <3> HIDE DEF z, g
    <3>2. \A x \in told' : x[1] \in Sessions /\ x[3] \in Nat
      BY <2>2, <2>3, <2>11, <3>1
    <3>3. NoLostCommand'
      BY <2>2, <2>4, <2>11, <3>1
    <3> QED  BY <2>8, <2>12, <2>13, <3>1, <3>2, <3>3
  <2> QED  BY <2>14, <2>15
<1>20. ASSUME NEW t \in Threads, RecordUnpoint(t) PROVE HistoryOK'
  BY <1>20 DEF RecordUnpoint, Return, Goto
<1>21. ASSUME NEW s \in Sessions, Expire(s) PROVE HistoryOK'
  BY <1>21 DEF Expire, IsTerminal
<1>22. CASE Crash
  BY <1>22 DEF Crash
<1>23. CASE UNCHANGED vars
  BY <1>23 DEF vars
<1> QED
  BY <1>1, <1>2, <1>3, <1>4, <1>5, <1>6, <1>7, <1>8, <1>9, <1>10, <1>11, <1>12, <1>13, <1>14,
     <1>15, <1>16, <1>17, <1>18, <1>19, <1>20, <1>21, <1>22, <1>23 DEF Next, Open, Record

-----------------------------------------------------------------------------
\* The invariant, for every value of the constants.
LEMMA Inductive == Spec => []Inv
<1>1. Init => Inv
  <2> SUFFICES ASSUME Init PROVE Inv
    OBVIOUS
  <2> USE StoreAssumption DEF Init
  <2>1. TypeOK  BY DEF TypeOK, Points
  <2>2. LocalsOK /\ LocksOK /\ PresentOK /\ FreshOK  
    BY DEF LocalsOK, LocksOK, PresentOK, FreshOK, InState, InActive, Opening
  <2>3. PointerOK /\ ReapOK /\ EvidenceOK /\ HistoryOK
    BY DEF PointerOK, IsOpen, IsTerminal, ReapOK, EvidenceOK, HistoryOK, NoLostCommand
  <2>4. CapsOK  BY FS_EmptySet DEF CapsOK
  <2>5. Unpointed = {} /\ Untraced = {}  BY DEF Unpointed, Untraced
  <2>6. ToldOK  BY DEF ToldOK
  <2>7. Cardinality(Unpointed) <= crashes /\ Cardinality(Untraced) <= crashes
    BY <2>5, FS_EmptySet
  <2> QED  BY <2>1, <2>2, <2>3, <2>4, <2>6, <2>7 DEF Inv
<1>2. Inv /\ [Next]_vars => Inv'
  <2> SUFFICES ASSUME Inv, [Next]_vars PROVE Inv'
    OBVIOUS
  <2> USE DEF Inv
  <2>1. TypeOK' /\ LocalsOK' /\ LocksOK' /\ PresentOK' /\ FreshOK'
    BY TypeStep, LocalsStep, LocksStep, PresentStep, FreshStep
  <2>2. PointerOK' /\ ReapOK' /\ CapsOK' /\ EvidenceOK' /\ HistoryOK' /\ ToldOK'
    BY PointerStep, ReapStep, CapsStep, EvidenceStep, HistoryStep, ToldStep
  <2>3. Cardinality(Unpointed') <= crashes'  BY UnpointedStep
  <2>4. Cardinality(Untraced') <= crashes'  BY <2>2, UntracedStep
  <2> QED  BY <2>1, <2>2, <2>3, <2>4
<1> QED  BY <1>1, <1>2, PTL DEF Spec

\* The store is well formed; of a session that is not terminal and that the pointer
\* does not name nobody was told, and there are as many as stops at most
\* (open_session, record_command).
THEOREM PointerIsExact == Spec => []PointerNamesOpen
<1>1. Inv => PointerNamesOpen  BY DEF Inv, ToldOK, PointerNamesOpen
<1> QED  BY <1>1, Inductive, PTL

\* A frozen frame goes only after its retention; then a ledger names it until it is
\* full, but for one session per stop (_prune_expired_verify_evidence,
\* _merge_retention_ledger_to_central).
THEOREM NoFrameIsLost == Spec => []EvidenceAccounted
<1>1. Inv => EvidenceAccounted  BY DEF Inv, EvidenceOK, EvidenceAccounted
<1> QED  BY <1>1, Inductive, PTL

\* What was answered stays in the history until MaxHistory later entries are in it,
\* a closed session stays closed, and only a
\* settled one is removed (record_command, _reap_settled_sessions).
THEOREM RecordsAreKept == Spec => RecordsStay
<1> DEFINE Step == NoLostCommand' /\ \A s \in Sessions : TerminalStays(s) /\ ReapedWasSettled(s)
<1>1. Inv /\ Inv' /\ [Next]_vars => [Step]_vars
  <2> SUFFICES ASSUME Inv, Inv', Next PROVE Step
    OBVIOUS
  <2>1. NoLostCommand'  BY DEF Inv, HistoryOK
  <2> SUFFICES ASSUME NEW s \in Sessions PROVE TerminalStays(s) /\ ReapedWasSettled(s)
    BY <2>1
  <2> USE DEF TerminalStays, ReapedWasSettled, IsTerminal
  <2>2. ASSUME NEW t \in Threads, RecordSave(t) PROVE TerminalStays(s) /\ ReapedWasSettled(s)
    <3>1. Saves(t)  BY <2>2, SaveIs DEF Inv
    <3>2. None \notin SessionState  BY StoreAssumption DEF SessionState, Terminal, Commands
    <3>3. st' = [st EXCEPT ![sid[t]] = st'[sid[t]]] /\ st'[sid[t]] # None
      BY <3>1, <3>2 DEF Saves
    <3>4. IsTerminal(sid[t]) => st'[sid[t]].state \in Terminal  BY <3>1 DEF Saves
    <3> QED  BY <3>3, <3>4 DEF Inv, TypeOK
  <2>3. ASSUME NEW t \in Threads, OpenCreate(t) PROVE TerminalStays(s) /\ ReapedWasSettled(s)
    BY <2>3 DEF OpenCreate, Inv, FreshOK, Opening, TypeOK
  <2>4. ASSUME NEW t \in Threads, ReapRemove(t) PROVE TerminalStays(s) /\ ReapedWasSettled(s)
    BY <2>4 DEF ReapRemove, Inv, ReapOK, Settled, TypeOK
  <2>5. \/ \E t \in Threads : RecordSave(t) \/ OpenCreate(t) \/ ReapRemove(t)
        \/ UNCHANGED st
    BY DEF Next, Open, Record, Expire, Crash, fileVars, OpenStart, SweepSkip, SweepPrune,
       SweepLog,
           SweepDone, ReapStart, ReapChoose, ReapMerge, ReapDone, OpenRefused, OpenAdmit,
           OpenPoint, RecordStart, RecordClosing, RecordEnter, RecordFreeze, RecordUnpoint
  <2>6. CASE UNCHANGED st  BY <2>6
  <2> QED  BY <2>2, <2>3, <2>4, <2>5, <2>6
<1> QED  BY <1>1, Inductive, PTL DEF Spec, RecordsStay
=============================================================================
