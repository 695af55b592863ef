--------------------------- MODULE PathLockProofs ---------------------------
(***************************************************************************)
(* For any number of threads and processes: the registry's count is exact, *)
(* all users of a path wait for one lock, the two locks exclude, no update *)
(* that returned is lost and no stop leaves a torn file.                   *)
(***************************************************************************)
EXTENDS PathLock, FiniteSetTheorems, TLAPS

\* The lock file is held by exactly the thread inside its section.
FlockOK == \A t \in Threads : pc[t] \in Inside <=> flock = t

\* What an update read is still in the file when it replaces it, and what it
\* wrote is there when it reads it back.
ReadOK ==
    /\ \A t \in Threads : pc[t] \in {"computed", "writing", "flushed", "written"}
                             /\ kind[t] # "write" => kind[t] = "update" /\ got[t] = val
    /\ \A t \in Threads : pc[t] \in {"replaced", "checked"} => val = New(t)
    /\ \A t \in Threads : pc[t] \in {"replaced", "checked"} /\ kind[t] = "update" => done < val

\* No version that a stop of the machine may bring back has fewer updates than
\* the last sync of the directory covers.
DueOK == kept <= done /\ \A v \in old : kept <= v.val

UpdateOK == ReadOK /\ NoLostUpdate /\ DueOK

\* Only synced bytes are given the file's name.
SyncedOK ==
    /\ form = "synced" /\ \A v \in old : v.form = "synced"
    /\ \A t \in Threads : pc[t] = "written" => temp[t] = "synced"

RegistryOK == RegistryExact /\ SameLock

-----------------------------------------------------------------------------
\* The count of users is a number (Threads is finite).
LEMMA UsersFinite ==
    ASSUME NEW p \in Procs
    PROVE  IsFiniteSet(Users(p)) /\ Cardinality(Users(p)) \in Nat
<1>1. Users(p) \subseteq Threads  BY DEF Users
<1>2. IsFiniteSet(Users(p))  BY <1>1, FS_Subset, LockAssumption
<1> QED  BY <1>2, FS_CardinalityType

\* Every step keeps the state well formed.
LEMMA TypeStep == TypeOK /\ [Next]_vars => TypeOK'
<1> SUFFICES ASSUME TypeOK, [Next]_vars PROVE TypeOK'
  OBVIOUS
<1> USE LockAssumption DEF TypeOK, Goto, Points, Counted, Held, Kinds, fileVars, lockVars
<1>1. ASSUME NEW t \in Threads, NEW k \in Kinds, Reserve(t, k) PROVE TypeOK'
  <2>1. reg' \in [Procs -> [lock : Locks, users : Nat] \cup {None}] /\ mine' \in [Threads -> Locks \cup {None}]
    <3>1. CASE reg[ProcOf[t]] = None  BY <1>1, <3>1 DEF Reserve, Fresh
    <3>2. CASE reg[ProcOf[t]] # None
      <4>1. reg[ProcOf[t]] \in [lock : Locks, users : Nat]  BY <3>2
      <4>2. reg' = [reg EXCEPT ![ProcOf[t]].users = @ + 1]
            /\ mine' = [mine EXCEPT ![t] = reg[ProcOf[t]].lock]  BY <1>1, <3>2 DEF Reserve
      <4> QED  BY <4>1, <4>2
    <3> QED  BY <3>1, <3>2
  <2> QED  BY <1>1, <2>1 DEF Reserve
<1>2. ASSUME NEW t \in Threads, Acquire(t) PROVE TypeOK'  BY <1>2 DEF Acquire
<1>3. ASSUME NEW t \in Threads, LockFile(t) PROVE TypeOK'  BY <1>3 DEF LockFile
<1>4. ASSUME NEW t \in Threads, LockFileFails(t) PROVE TypeOK'  BY <1>4 DEF LockFileFails
<1>5. ASSUME NEW t \in Threads, ReadFile(t) PROVE TypeOK'  BY <1>5 DEF ReadFile
<1>6. ASSUME NEW t \in Threads, CreateTemp(t) \/ WriteTemp(t) \/ SyncTemp(t) PROVE TypeOK'
  <2>1. PICK q \in Points, f \in Forms :
           /\ pc' = [pc EXCEPT ![t] = q] /\ temp' = [temp EXCEPT ![t] = f]
           /\ UNCHANGED <<kind, lockVars, fileVars, got, ops, crashes>>
    BY <1>6 DEF CreateTemp, WriteTemp, SyncTemp, Forms
  <2> QED  BY <2>1
<1>7. ASSUME NEW t \in Threads, WriteFails(t) PROVE TypeOK'  BY <1>7 DEF WriteFails, Forms
<1>8. ASSUME NEW t \in Threads, Replace(t) PROVE TypeOK'
  <2>1. Version \in Versions  BY DEF Version, Versions
  <2>2. old' \in SUBSET Versions  BY <1>8, <2>1 DEF Replace
  <2>3. val' \in Nat /\ form' \in Forms /\ done' \in Nat /\ kept' \in Nat
    BY <1>8 DEF Replace, New
  <2>4. temp' \in [Threads -> Forms]  BY <1>8 DEF Replace, Forms
  <2> QED  BY <1>8, <2>2, <2>3, <2>4 DEF Replace
<1>9. ASSUME NEW t \in Threads, Readback(t) \/ SyncDirectory(t) PROVE TypeOK'
  <2>1. CASE Readback(t)  BY <2>1 DEF Readback
  <2>2. CASE SyncDirectory(t)
    <3>1. old' \in SUBSET Versions  BY <2>2 DEF SyncDirectory
    <3>2. done' \in Nat /\ kept' \in Nat  BY <2>2 DEF SyncDirectory
    <3> QED  BY <2>2, <3>1, <3>2 DEF SyncDirectory
  <2> QED  BY <1>9, <2>1, <2>2
<1>10. ASSUME NEW t \in Threads, UnlockFile(t) PROVE TypeOK'  BY <1>10 DEF UnlockFile
<1>11. ASSUME NEW t \in Threads, Release(t) PROVE TypeOK'  BY <1>11 DEF Release
<1>12. ASSUME NEW t \in Threads, Unreserve(t) PROVE TypeOK'
  <2> DEFINE p == ProcOf[t]
  <2>1. p \in Procs  OBVIOUS
  <2>2. reg' \in [Procs -> [lock : Locks, users : Nat] \cup {None}]
    <3>1. CASE reg[p] = None \/ reg[p].lock # mine[t]  BY <1>12, <3>1 DEF Unreserve
    <3>2. CASE reg[p] # None /\ reg[p].lock = mine[t] /\ reg[p].users <= 1
      BY <1>12, <3>2 DEF Unreserve
    <3>3. CASE reg[p] # None /\ reg[p].lock = mine[t] /\ ~(reg[p].users <= 1)
      <4>1. reg[p] \in [lock : Locks, users : Nat]  BY <2>1, <3>3
      <4>2. reg' = [reg EXCEPT ![p].users = @ - 1]  BY <1>12, <3>3 DEF Unreserve
      <4>3. reg[p].users \in Nat /\ reg[p].users - 1 \in Nat  BY <4>1, <3>3
      <4> QED  BY <4>1, <4>2, <4>3
    <3> QED  BY <3>1, <3>2, <3>3
  <2> QED  BY <1>12, <2>2 DEF Unreserve
<1>13. ASSUME NEW p \in Procs, Crash(p) PROVE TypeOK'
  <2>1. temp' \in [Threads -> Forms]  BY <1>13 DEF Crash, Forms
  <2> QED  BY <1>13, <2>1 DEF Crash
<1>15. CASE PowerStop
  <2>1. Version \in Versions  BY DEF Version, Versions
  <2>2. PICK v \in old \cup {Version} :
           val' = v.val /\ form' = IF v.form = "synced" THEN "synced" ELSE "part"
    BY <1>15 DEF PowerStop
  <2>3. v \in Versions  BY <2>1
  <2>4. val' \in Nat /\ form' \in Forms  BY <2>2, <2>3 DEF Versions, Forms
  <2>5. temp' \in [Threads -> Forms] /\ old' \in SUBSET Versions  BY <1>15 DEF PowerStop, Forms
  <2>6. pc' \in [Threads -> Points] /\ mine' \in [Threads -> Locks \cup {None}]
    BY <1>15 DEF PowerStop
  <2>7. reg' \in [Procs -> [lock : Locks, users : Nat] \cup {None}] /\ flock' = None
    BY <1>15 DEF PowerStop
  <2>8. done' \in Nat /\ crashes' \in Nat /\ UNCHANGED <<kind, got, kept, ops>>
    BY <1>15 DEF PowerStop
  <2> HIDE DEF Points, Kinds
  <2> QED  BY <2>4, <2>5, <2>6, <2>7, <2>8
<1>14. CASE UNCHANGED vars  BY <1>14 DEF vars
<1> QED  BY <1>1, <1>2, <1>3, <1>4, <1>5, <1>6, <1>7, <1>8, <1>9, <1>10, <1>11, <1>12, <1>13,
            <1>14, <1>15 DEF Next, Work

-----------------------------------------------------------------------------
\* A step of a thread that is counted before and after it leaves the registry
\* as it is.
LEMMA RegistryKept ==
    ASSUME TypeOK, RegistryOK, NEW t \in Threads, NEW q \in Points,
           pc[t] \in Counted, q \in Counted, pc' = [pc EXCEPT ![t] = q],
           reg' = reg, mine' = mine
    PROVE  RegistryOK'
<1>1. \A p \in Procs : Users(p)' = Users(p)  BY DEF Users, TypeOK
<1> QED  BY <1>1 DEF RegistryOK, RegistryExact, SameLock

\* Every step keeps the registry exact and its users at one lock.
LEMMA RegistryStep == TypeOK /\ RegistryOK /\ [Next]_vars => RegistryOK'
<1> SUFFICES ASSUME TypeOK, RegistryOK, [Next]_vars PROVE RegistryOK'
  OBVIOUS
<1> USE LockAssumption DEF lockVars
<1>1. ASSUME NEW t \in Threads, NEW k \in Kinds, Reserve(t, k) PROVE RegistryOK'
  <2> DEFINE p == ProcOf[t]
  <2>1. p \in Procs /\ t \notin Users(p)  BY <1>1 DEF Reserve, Users, TypeOK, Counted, Held
  <2>2. Users(p)' = Users(p) \cup {t}
    BY <1>1 DEF Reserve, Goto, Users, TypeOK, Counted, Held
  <2>3. \A q \in Procs \ {p} : Users(q)' = Users(q)
    BY <1>1 DEF Reserve, Goto, Users, TypeOK
  <2>4. Cardinality(Users(p)') = Cardinality(Users(p)) + 1
    BY <2>1, <2>2, UsersFinite, FS_AddElement
  <2>5. CASE reg[p] = None
    <3>1. Users(p) = {}  BY <2>1, <2>5 DEF RegistryOK, RegistryExact
    <3>2. PICK l \in Locks : /\ reg' = [reg EXCEPT ![p] = [lock |-> l, users |-> 1]]
                             /\ mine' = [mine EXCEPT ![t] = l]
      BY <1>1, <2>5 DEF Reserve, Fresh
    <3>3. Users(p)' = {t} /\ Cardinality(Users(p)') = 1
      BY <2>2, <2>4, <3>1, FS_EmptySet
    <3>4. reg'[p] = [lock |-> l, users |-> 1] /\ mine'[t] = l
      BY <2>1, <3>2 DEF TypeOK
    <3>5. reg'[p] # None  BY <3>4
    <3>6. \A q \in Procs \ {p} : reg'[q] = reg[q]  BY <3>2 DEF TypeOK
    <3>7. \A u \in Threads \ {t} : mine'[u] = mine[u]  BY <3>2 DEF TypeOK
    <3>8. \A q \in Procs \ {p} : \A u \in Users(q) : u # t
      BY <2>1 DEF Users
    <3>9. RegistryExact'
      <4> SUFFICES ASSUME NEW q \in Procs
                   PROVE  IF Users(q)' = {} THEN reg'[q] = None
                          ELSE reg'[q] # None /\ reg'[q].users = Cardinality(Users(q)')
        BY DEF RegistryExact
      <4>1. CASE q = p  BY <4>1, <3>3, <3>4, <3>5
      <4>2. CASE q # p  BY <4>2, <2>3, <3>6 DEF RegistryOK, RegistryExact
      <4> QED  BY <4>1, <4>2
    <3>10. SameLock'
      <4> SUFFICES ASSUME NEW q \in Procs, NEW u \in Users(q)'
                   PROVE  reg'[q] # None /\ mine'[u] = reg'[q].lock
        BY DEF SameLock
      <4>1. CASE q = p  BY <4>1, <3>3, <3>4, <3>5
      <4>2. CASE q # p
        <5>1. u \in Users(q) /\ u # t /\ u \in Threads  BY <4>2, <2>3, <3>8 DEF Users
        <5> QED  BY <5>1, <4>2, <3>6, <3>7 DEF RegistryOK, SameLock
      <4> QED  BY <4>1, <4>2
    <3> QED  BY <3>9, <3>10 DEF RegistryOK
  <2>6. CASE reg[p] # None
    <3>1. reg[p] \in [lock : Locks, users : Nat]  BY <2>1, <2>6 DEF TypeOK
    <3>2. /\ reg' = [reg EXCEPT ![p].users = @ + 1]
          /\ mine' = [mine EXCEPT ![t] = reg[p].lock]
      BY <1>1, <2>6 DEF Reserve
    <3>3. Users(p) # {} /\ reg[p].users = Cardinality(Users(p))
      BY <2>1, <2>6 DEF RegistryOK, RegistryExact
    <3>4. reg'[p] = [reg[p] EXCEPT !.users = @ + 1]  BY <2>1, <3>2 DEF TypeOK
    <3>5. reg'[p].users = reg[p].users + 1 /\ reg'[p].lock = reg[p].lock  BY <3>1, <3>4
    <3>6. reg'[p] # None
      <4>1. reg'[p] \in [lock : Locks, users : Nat]  BY <3>1, <3>4
      <4> QED  BY <4>1
    <3>7. \A q \in Procs \ {p} : reg'[q] = reg[q]  BY <3>2 DEF TypeOK
    <3>8. \A u \in Threads \ {t} : mine'[u] = mine[u]  BY <3>2 DEF TypeOK
    <3>9. mine'[t] = reg[p].lock  BY <3>2 DEF TypeOK
    <3>10. RegistryExact'
      <4> SUFFICES ASSUME NEW q \in Procs
                   PROVE  IF Users(q)' = {} THEN reg'[q] = None
                          ELSE reg'[q] # None /\ reg'[q].users = Cardinality(Users(q)')
        BY DEF RegistryExact
      <4>1. CASE q = p  BY <4>1, <2>2, <2>4, <3>3, <3>5, <3>6
      <4>2. CASE q # p  BY <4>2, <2>3, <3>7 DEF RegistryOK, RegistryExact
      <4> QED  BY <4>1, <4>2
    <3>11. SameLock'
      <4> SUFFICES ASSUME NEW q \in Procs, NEW u \in Users(q)'
                   PROVE  reg'[q] # None /\ mine'[u] = reg'[q].lock
        BY DEF SameLock
      <4>1. CASE q = p
        <5>1. CASE u = t  BY <4>1, <5>1, <3>5, <3>6, <3>9
        <5>2. CASE u # t
          <6>1. u \in Users(p) /\ u \in Threads  BY <4>1, <5>2, <2>2 DEF Users
          <6> QED  BY <6>1, <4>1, <5>2, <2>1, <3>5, <3>6, <3>8 DEF RegistryOK, SameLock
        <5> QED  BY <5>1, <5>2
      <4>2. CASE q # p
        <5>1. u \in Users(q) /\ u \in Threads /\ u # t  BY <4>2, <2>3 DEF Users
        <5> QED  BY <5>1, <4>2, <3>7, <3>8 DEF RegistryOK, SameLock
      <4> QED  BY <4>1, <4>2
    <3> QED  BY <3>10, <3>11 DEF RegistryOK
  <2> QED  BY <2>5, <2>6
<1>2. ASSUME NEW t \in Threads, Unreserve(t) PROVE RegistryOK'
  <2> DEFINE p == ProcOf[t]
  <2>1. p \in Procs /\ t \in Users(p)  BY <1>2 DEF Unreserve, Users, TypeOK, Counted
  <2>2. Users(p)' = Users(p) \ {t}
    BY <1>2 DEF Unreserve, Goto, Users, TypeOK, Counted, Held
  <2>3. \A q \in Procs \ {p} : Users(q)' = Users(q)
    BY <1>2 DEF Unreserve, Goto, Users, TypeOK
  <2>4. Cardinality(Users(p)') = Cardinality(Users(p)) - 1 /\ IsFiniteSet(Users(p)')
    BY <2>1, <2>2, UsersFinite, FS_RemoveElement
  <2>5. /\ reg[p] # None /\ reg[p].lock = mine[t]
        /\ reg[p].users = Cardinality(Users(p)) /\ reg[p].users \in Nat
    BY <2>1, UsersFinite DEF RegistryOK, RegistryExact, SameLock
  <2>6. reg[p] \in [lock : Locks, users : Nat]  BY <2>1, <2>5 DEF TypeOK
  <2>7. Cardinality(Users(p)') \in Nat  BY <2>4, FS_CardinalityType
  <2>8. mine' = [mine EXCEPT ![t] = None]  BY <1>2 DEF Unreserve
  <2>9. \A u \in Threads \ {t} : mine'[u] = mine[u]  BY <2>8 DEF TypeOK
  <2>10. \A q \in Procs \ {p} : reg'[q] = reg[q]  BY <1>2 DEF Unreserve, TypeOK
  <2>11. IF Users(p)' = {} THEN reg'[p] = None
         ELSE reg'[p] # None /\ reg'[p].users = Cardinality(Users(p)') /\ reg'[p].lock = reg[p].lock
    <3>1. CASE reg[p].users <= 1
      <4>1. Cardinality(Users(p)') = 0  BY <2>4, <2>5, <2>7, <3>1
      <4>2. Users(p)' = {}  BY <4>1, <2>4, FS_EmptySet
      <4>3. reg' = [reg EXCEPT ![p] = None]  BY <1>2, <2>5, <3>1 DEF Unreserve
      <4> QED  BY <4>2, <4>3, <2>1 DEF TypeOK
    <3>2. CASE ~(reg[p].users <= 1)
      <4>1. Cardinality(Users(p)') # 0  BY <2>4, <2>5, <3>2
      <4>2. Users(p)' # {}  BY <4>1, FS_EmptySet
      <4>3. reg' = [reg EXCEPT ![p].users = @ - 1]  BY <1>2, <2>5, <3>2 DEF Unreserve
      <4>4. reg'[p] = [reg[p] EXCEPT !.users = @ - 1]  BY <4>3, <2>1 DEF TypeOK
      <4>5. reg'[p].users = reg[p].users - 1 /\ reg'[p].lock = reg[p].lock  BY <4>4, <2>6
      <4>6. reg[p].users - 1 \in Nat  BY <2>4, <2>5, <2>7
      <4>7. reg'[p] \in [lock : Locks, users : Nat]  BY <4>4, <4>6, <2>6
      <4>8. reg'[p] # None  BY <4>7
      <4> QED  BY <4>2, <4>5, <4>8, <2>4, <2>5
    <3> QED  BY <3>1, <3>2
  <2>12. RegistryExact'
    <3> SUFFICES ASSUME NEW q \in Procs
                 PROVE  IF Users(q)' = {} THEN reg'[q] = None
                        ELSE reg'[q] # None /\ reg'[q].users = Cardinality(Users(q)')
      BY DEF RegistryExact
    <3>1. CASE q = p  BY <3>1, <2>11
    <3>2. CASE q # p  BY <3>2, <2>3, <2>10 DEF RegistryOK, RegistryExact
    <3> QED  BY <3>1, <3>2
  <2>13. SameLock'
    <3> SUFFICES ASSUME NEW q \in Procs, NEW u \in Users(q)'
                 PROVE  reg'[q] # None /\ mine'[u] = reg'[q].lock
      BY DEF SameLock
    <3>1. u \in Threads /\ u \in Users(q) /\ u # t
      BY <2>1, <2>2, <2>3 DEF Users
    <3>2. mine'[u] = reg[q].lock /\ reg[q] # None  BY <3>1, <2>9 DEF RegistryOK, SameLock
    <3>3. CASE q = p  BY <3>2, <3>3, <2>11
    <3>4. CASE q # p  BY <3>2, <3>4, <2>10
    <3> QED  BY <3>3, <3>4
  <2> QED  BY <2>12, <2>13 DEF RegistryOK
<1>3. ASSUME NEW p \in Procs, Crash(p) PROVE RegistryOK'
  <2>1. Users(p)' = {}  BY <1>3 DEF Crash, Users, Counted, Held
  <2>2. \A q \in Procs \ {p} : Users(q)' = Users(q)  BY <1>3 DEF Crash, Users
  <2>3. reg'[p] = None /\ \A q \in Procs \ {p} : reg'[q] = reg[q]  BY <1>3 DEF Crash, TypeOK
  <2>4. \A q \in Procs \ {p} : \A u \in Users(q) : mine'[u] = mine[u]  BY <1>3 DEF Crash, Users
  <2>5. RegistryExact'  BY <2>1, <2>2, <2>3 DEF RegistryOK, RegistryExact
  <2>6. SameLock'
    <3> SUFFICES ASSUME NEW q \in Procs, NEW u \in Users(q)'
                 PROVE  reg'[q] # None /\ mine'[u] = reg'[q].lock
      BY DEF SameLock
    <3>1. q # p /\ u \in Users(q)  BY <2>1, <2>2
    <3> QED  BY <3>1, <2>3, <2>4 DEF RegistryOK, SameLock
  <2> QED  BY <2>5, <2>6 DEF RegistryOK
<1>4. ASSUME NEW t \in Threads,
             Acquire(t) \/ LockFile(t) \/ LockFileFails(t) \/ ReadFile(t) \/ CreateTemp(t)
             \/ WriteTemp(t) \/ SyncTemp(t) \/ WriteFails(t) \/ Replace(t) \/ Readback(t)
             \/ SyncDirectory(t) \/ UnlockFile(t) \/ Release(t)
      PROVE  RegistryOK'
  <2>1. PICK q \in Counted : pc[t] \in Counted /\ pc' = [pc EXCEPT ![t] = q]
    BY <1>4 DEF Acquire, LockFile, LockFileFails, ReadFile, CreateTemp, WriteTemp, SyncTemp,
                WriteFails, Replace, Readback, SyncDirectory, UnlockFile, Release, Goto,
                Counted, Held
  <2>2. reg' = reg /\ mine' = mine
    BY <1>4 DEF Acquire, LockFile, LockFileFails, ReadFile, CreateTemp, WriteTemp, SyncTemp,
                WriteFails, Replace, Readback, SyncDirectory, UnlockFile, Release
  <2> QED  BY <2>1, <2>2, RegistryKept DEF Points
<1>6. CASE PowerStop
  <2>1. \A p \in Procs : Users(p)' = {} /\ reg'[p] = None
    BY <1>6 DEF PowerStop, Users, Counted, Held
  <2> QED  BY <2>1 DEF RegistryOK, RegistryExact, SameLock
<1>5. CASE UNCHANGED vars
  <2>1. \A p \in Procs : Users(p)' = Users(p)  BY <1>5 DEF vars, Users
  <2> QED  BY <1>5, <2>1 DEF vars, RegistryOK, RegistryExact, SameLock
<1> QED  BY <1>1, <1>2, <1>3, <1>4, <1>5, <1>6 DEF Next, Work

-----------------------------------------------------------------------------
\* Every step keeps both locks exclusive: the users of a process share one RLock,
\* so whoever takes it finds none of them past it.
LEMMA ExclusiveStep ==
    TypeOK /\ RegistryOK /\ FlockOK /\ Exclusive /\ [Next]_vars => FlockOK' /\ Exclusive'
<1> SUFFICES ASSUME TypeOK, RegistryOK, FlockOK, Exclusive, [Next]_vars
             PROVE  FlockOK' /\ Exclusive'
  OBVIOUS
<1> USE LockAssumption DEF lockVars
<1>1. ASSUME NEW t \in Threads, Acquire(t) PROVE FlockOK' /\ Exclusive'
  <2>1. \A u \in Threads : ProcOf[u] = ProcOf[t] => pc[u] \notin Held
    <3> SUFFICES ASSUME NEW u \in Threads, ProcOf[u] = ProcOf[t], pc[u] \in Held PROVE FALSE
      OBVIOUS
    <3>1. t \in Users(ProcOf[t]) /\ u \in Users(ProcOf[t]) /\ ProcOf[t] \in Procs
      BY <1>1 DEF Acquire, Users, Counted
    <3>2. mine[u] = mine[t]  BY <3>1 DEF RegistryOK, SameLock
    <3> QED  BY <1>1, <3>2 DEF Acquire
  <2>2. pc' = [pc EXCEPT ![t] = "holding"] /\ flock' = flock /\ pc[t] = "reserved"
    BY <1>1 DEF Acquire, Goto
  <2> QED  BY <2>1, <2>2 DEF FlockOK, Exclusive, TypeOK, Inside, Held
<1>2. ASSUME NEW t \in Threads, LockFile(t) PROVE FlockOK' /\ Exclusive'
  BY <1>2 DEF LockFile, Goto, FlockOK, Exclusive, TypeOK, Inside, Held
<1>3. ASSUME NEW t \in Threads, UnlockFile(t) PROVE FlockOK' /\ Exclusive'
  BY <1>3 DEF UnlockFile, Goto, FlockOK, Exclusive, TypeOK, Inside, Held
<1>4. ASSUME NEW t \in Threads, LockFileFails(t) \/ Release(t) \/ Unreserve(t)
      PROVE  FlockOK' /\ Exclusive'
  <2>1. PICK q \in {"releasing", "unreserving", "idle"} :
            /\ pc' = [pc EXCEPT ![t] = q] /\ flock' = flock /\ pc[t] \notin Inside
            /\ q \in Held => pc[t] \in Held
    BY <1>4 DEF LockFileFails, Release, Unreserve, Goto, Inside, Held
  <2> QED  BY <2>1 DEF FlockOK, Exclusive, TypeOK, Inside, Held
<1>5. ASSUME NEW t \in Threads,
             ReadFile(t) \/ CreateTemp(t) \/ WriteTemp(t) \/ SyncTemp(t) \/ WriteFails(t)
             \/ Replace(t) \/ Readback(t) \/ SyncDirectory(t)
      PROVE  FlockOK' /\ Exclusive'
  <2>1. PICK q \in Inside : pc' = [pc EXCEPT ![t] = q] /\ flock' = flock /\ pc[t] \in Inside
    BY <1>5 DEF ReadFile, CreateTemp, WriteTemp, SyncTemp, WriteFails, Replace, Readback,
                SyncDirectory, Goto, Inside
  <2>2. Inside \subseteq Held  BY DEF Inside, Held
  <2> QED  BY <2>1, <2>2 DEF FlockOK, Exclusive, TypeOK
<1>6. ASSUME NEW t \in Threads, NEW k \in Kinds, Reserve(t, k) PROVE FlockOK' /\ Exclusive'
  <2>1. pc' = [pc EXCEPT ![t] = "reserved"] /\ flock' = flock /\ pc[t] = "idle"
    BY <1>6 DEF Reserve, Goto
  <2> QED  BY <2>1 DEF FlockOK, Exclusive, TypeOK, Inside, Held
<1>7. ASSUME NEW p \in Procs, Crash(p) PROVE FlockOK' /\ Exclusive'
  <2>1. \A t \in Threads : pc'[t] = (IF ProcOf[t] = p THEN "idle" ELSE pc[t])  BY <1>7 DEF Crash
  <2>2. flock' = IF flock # None /\ ProcOf[flock] = p THEN None ELSE flock  BY <1>7 DEF Crash
  <2>3. FlockOK'  BY <2>1, <2>2 DEF FlockOK, Inside, TypeOK
  <2>4. Exclusive'  BY <2>1 DEF Exclusive, Inside, Held
  <2> QED  BY <2>3, <2>4
<1>8. CASE UNCHANGED vars  BY <1>8 DEF vars, FlockOK, Exclusive
<1>9. CASE PowerStop  BY <1>9 DEF PowerStop, FlockOK, Exclusive, Inside, Held
<1> QED  BY <1>1, <1>2, <1>3, <1>4, <1>5, <1>6, <1>7, <1>8, <1>9 DEF Next, Work

-----------------------------------------------------------------------------
\* Every step keeps what a thread read current until it has replaced it, and what
\* was promised within what a stop of the machine leaves.
LEMMA UpdateStep == TypeOK /\ FlockOK /\ UpdateOK /\ [Next]_vars => UpdateOK'
<1> SUFFICES ASSUME TypeOK, FlockOK, UpdateOK, [Next]_vars PROVE UpdateOK'
  OBVIOUS
<1> USE LockAssumption DEF UpdateOK, fileVars, lockVars
<1>1. ASSUME NEW t \in Threads, ReadFile(t) PROVE UpdateOK'
  <2>1. UNCHANGED <<val, old, done, kept, kind>>  BY <1>1 DEF ReadFile
  <2>2. ReadOK'  BY <1>1, <2>1 DEF ReadFile, Goto, ReadOK, TypeOK, Kinds, New
  <2> QED  BY <2>1, <2>2 DEF NoLostUpdate, DueOK
<1>2. ASSUME NEW t \in Threads, Replace(t) PROVE UpdateOK'
  <2>1. \A u \in Threads : u # t => pc[u] \notin Inside
    BY <1>2 DEF Replace, FlockOK, Inside
  <2>2. val' = New(t) /\ New(t)' = New(t) /\ pc'[t] = "replaced" /\ kind' = kind
    BY <1>2 DEF Replace, New, Goto, TypeOK
  <2>3. kind[t] # "write" => kind[t] = "update" /\ got[t] = val  BY <1>2 DEF Replace, ReadOK
  <2>4. /\ done' = IF kind[t] = "write" THEN 0 ELSE done
        /\ kept' = IF kind[t] = "write" THEN 0 ELSE kept
    BY <1>2 DEF Replace
  <2>5. kind[t] # "write" => val' = val + 1 /\ done' = done  BY <2>2, <2>3, <2>4 DEF New
  <2>6. kind[t] = "write" => val' = 0 /\ done' = 0  BY <2>2, <2>4 DEF New
  <2>7. NoLostUpdate'  BY <2>5, <2>6 DEF NoLostUpdate, TypeOK
  <2>8. \A u \in Threads : u # t => pc'[u] \notin Inside  BY <1>2, <2>1 DEF Replace, Goto, TypeOK
  <2>9. ReadOK'
    BY <2>2, <2>5, <2>6, <2>8 DEF ReadOK, NoLostUpdate, TypeOK, Inside
  <2>10. DueOK'
    <3>1. kept' <= done'  BY <2>4 DEF DueOK, TypeOK
    <3>2. old' = old \cup {Version} /\ Version.val = val  BY <1>2 DEF Replace, Version
    <3>3. kept' <= kept /\ kept \in Nat /\ kept' \in Nat  BY <2>4 DEF TypeOK
    <3>4. kept <= val  BY DEF NoLostUpdate, DueOK, TypeOK
    <3>5. \A v \in old : v.val \in Nat /\ kept <= v.val  BY DEF DueOK, TypeOK, Versions
    <3>6. \A v \in old : kept' <= v.val  BY <3>3, <3>5
    <3>7. kept' <= val  BY <3>3, <3>4 DEF TypeOK
    <3> QED  BY <3>1, <3>2, <3>6, <3>7 DEF DueOK
  <2> QED  BY <2>7, <2>9, <2>10
<1>3. ASSUME NEW t \in Threads, SyncDirectory(t) PROVE UpdateOK'
  <2>1. \A u \in Threads : u # t => pc[u] \notin Inside
    BY <1>3 DEF SyncDirectory, FlockOK, Inside
  <2>2. \A u \in Threads : pc'[u] \notin {"computed", "writing", "flushed", "written",
                                          "replaced", "checked"}
    BY <1>3, <2>1 DEF SyncDirectory, Goto, TypeOK, Inside
  <2>3. NoLostUpdate'  BY <1>3 DEF SyncDirectory, ReadOK, NoLostUpdate, TypeOK
  <2>4. ReadOK'  BY <2>2 DEF ReadOK
  <2>5. DueOK'  BY <1>3 DEF SyncDirectory, DueOK, TypeOK
  <2> QED  BY <2>3, <2>4, <2>5
<1>4. ASSUME NEW t \in Threads, CreateTemp(t) \/ WriteTemp(t) \/ SyncTemp(t) \/ WriteFails(t)
      PROVE  UpdateOK'
  <2>1. PICK q \in {"writing", "flushed", "written", "unlocking"} :
           /\ pc' = [pc EXCEPT ![t] = q]
           /\ pc[t] \in {"computed", "writing", "flushed", "written"} \/ q = "unlocking"
           /\ UNCHANGED <<kind, got, val, old, done, kept>>
    BY <1>4 DEF CreateTemp, WriteTemp, SyncTemp, WriteFails, Goto
  <2>2. ReadOK'  BY <2>1 DEF ReadOK, TypeOK, New
  <2> QED  BY <2>1, <2>2 DEF NoLostUpdate, DueOK
<1>5. ASSUME NEW t \in Threads, NEW k \in Kinds, Reserve(t, k) PROVE UpdateOK'
  <2>1. UNCHANGED <<got, val, old, done, kept>>  BY <1>5 DEF Reserve
  <2>2. ReadOK'  BY <1>5, <2>1 DEF Reserve, Goto, ReadOK, TypeOK, New
  <2> QED  BY <2>1, <2>2 DEF NoLostUpdate, DueOK
<1>6. ASSUME NEW t \in Threads,
             Acquire(t) \/ LockFile(t) \/ LockFileFails(t) \/ UnlockFile(t) \/ Release(t)
             \/ Unreserve(t)
      PROVE  UpdateOK'
  <2>1. PICK q \in {"holding", "locked", "releasing", "unreserving", "idle"} :
           pc' = [pc EXCEPT ![t] = q] /\ UNCHANGED <<kind, got, val, old, done, kept>>
    BY <1>6 DEF Acquire, LockFile, LockFileFails, UnlockFile, Release, Unreserve, Goto
  <2>2. ReadOK'  BY <2>1 DEF ReadOK, TypeOK, New
  <2> QED  BY <2>1, <2>2 DEF NoLostUpdate, DueOK
<1>7. ASSUME NEW t \in Threads, Readback(t) PROVE UpdateOK'
  <2>1. PICK q \in {"checked", "unlocking"} :
           /\ pc' = [pc EXCEPT ![t] = q] /\ pc[t] = "replaced"
           /\ UNCHANGED <<kind, got, val, old, done, kept>>
    BY <1>7 DEF Readback, Goto
  <2>2. ReadOK'  BY <2>1 DEF ReadOK, TypeOK, New
  <2> QED  BY <2>1, <2>2 DEF NoLostUpdate, DueOK
<1>8. ASSUME NEW p \in Procs, Crash(p) PROVE UpdateOK'
  <2>1. UNCHANGED <<kind, got, val, old, done, kept>>  BY <1>8 DEF Crash
  <2>2. ReadOK'  BY <1>8, <2>1 DEF Crash, ReadOK, New
  <2> QED  BY <2>1, <2>2 DEF NoLostUpdate, DueOK
<1>9. CASE PowerStop
  <2>1. PICK v \in old \cup {Version} : val' = v.val  BY <1>9 DEF PowerStop
  <2>2. kept <= v.val
    BY DEF DueOK, NoLostUpdate, Version, TypeOK
  <2>3. done' = kept /\ kept' = kept /\ old' = {}  BY <1>9 DEF PowerStop
  <2>4. ReadOK'  BY <1>9 DEF PowerStop, ReadOK
  <2> QED  BY <2>1, <2>2, <2>3, <2>4 DEF NoLostUpdate, DueOK, TypeOK
<1>10. CASE UNCHANGED vars  BY <1>10 DEF vars, ReadOK, NoLostUpdate, DueOK, New
<1> QED  BY <1>1, <1>2, <1>3, <1>4, <1>5, <1>6, <1>7, <1>8, <1>9, <1>10 DEF Next, Work

-----------------------------------------------------------------------------
\* Every step keeps unsynced bytes out of the file.
LEMMA SyncedStep == TypeOK /\ SyncedOK /\ [Next]_vars => SyncedOK'
<1> SUFFICES ASSUME TypeOK, SyncedOK, [Next]_vars PROVE SyncedOK'
  OBVIOUS
<1> USE DEF fileVars, lockVars, Goto
<1>1. ASSUME NEW t \in Threads, CreateTemp(t) \/ WriteTemp(t) \/ SyncTemp(t) \/ WriteFails(t)
      PROVE  SyncedOK'
  BY <1>1 DEF CreateTemp, WriteTemp, SyncTemp, WriteFails, SyncedOK, TypeOK
<1>2. ASSUME NEW t \in Threads, Replace(t) PROVE SyncedOK'
  <2>1. Version.form = "synced"  BY DEF Version, SyncedOK
  <2>2. form' = "synced" /\ old' = old \cup {Version}  BY <1>2 DEF Replace, SyncedOK
  <2>3. \A u \in Threads : pc'[u] = "written" => temp'[u] = "synced"
    BY <1>2 DEF Replace, SyncedOK, TypeOK
  <2> QED  BY <2>1, <2>2, <2>3 DEF SyncedOK
<1>3. ASSUME NEW t \in Threads, SyncDirectory(t) PROVE SyncedOK'
  BY <1>3 DEF SyncDirectory, SyncedOK, TypeOK
<1>4. ASSUME NEW t \in Threads,
             Acquire(t) \/ LockFile(t) \/ LockFileFails(t) \/ ReadFile(t) \/ Readback(t)
             \/ UnlockFile(t) \/ Release(t) \/ Unreserve(t) \/ \E k \in Kinds : Reserve(t, k)
      PROVE  SyncedOK'
  <2>1. PICK q \in Points \ {"written"} :
           pc' = [pc EXCEPT ![t] = q] /\ UNCHANGED <<form, old, temp>>
    BY <1>4 DEF Acquire, LockFile, LockFileFails, ReadFile, Readback, UnlockFile, Release,
                Unreserve, Reserve, Points, Counted, Held
  <2> QED  BY <2>1 DEF SyncedOK, TypeOK
<1>5. ASSUME NEW p \in Procs, Crash(p) PROVE SyncedOK'  BY <1>5 DEF Crash, SyncedOK
<1>6. CASE PowerStop
  <2>1. \A v \in old \cup {Version} : v.form = "synced"  BY DEF Version, SyncedOK
  <2> QED  BY <1>6, <2>1 DEF PowerStop, SyncedOK
<1>7. CASE UNCHANGED vars  BY <1>7 DEF vars, SyncedOK
<1> QED  BY <1>1, <1>2, <1>3, <1>4, <1>5, <1>6, <1>7 DEF Next, Work

-----------------------------------------------------------------------------
IInv == TypeOK /\ RegistryOK /\ FlockOK /\ Exclusive /\ UpdateOK /\ SyncedOK

\* The invariant holds initially and every step keeps it.
LEMMA Inductive == Spec => []IInv
<1>1. Init => IInv
  <2> SUFFICES ASSUME Init PROVE IInv
    OBVIOUS
  <2> USE LockAssumption DEF Init
  <2>1. TypeOK  BY DEF TypeOK, Points, Kinds, Forms
  <2>2. \A p \in Procs : Users(p) = {}  BY DEF Users, Counted, Held
  <2>3. RegistryOK  BY <2>2 DEF RegistryOK, RegistryExact, SameLock
  <2>4. FlockOK /\ Exclusive  BY DEF FlockOK, Exclusive, Inside, Held
  <2>5. UpdateOK  BY DEF UpdateOK, ReadOK, NoLostUpdate, DueOK
  <2>6. SyncedOK  BY DEF SyncedOK
  <2> QED  BY <2>1, <2>3, <2>4, <2>5, <2>6 DEF IInv
<1>2. IInv /\ [Next]_vars => IInv'
  BY TypeStep, RegistryStep, ExclusiveStep, UpdateStep, SyncedStep DEF IInv
<1> QED  BY <1>1, <1>2, PTL DEF Spec

\* For any threads and processes the state of path_lock is well formed.
THEOREM PathLockType == Spec => []TypeOK
<1>1. IInv => TypeOK  BY DEF IInv
<1> QED  BY <1>1, Inductive, PTL

\* The reference count kept outside the lock is exact, and nobody waits for a
\* lock that later callers no longer find (_thread_lock).
THEOREM RegistrySafe == Spec => [](RegistryExact /\ SameLock)
<1>1. IInv => RegistryExact /\ SameLock  BY DEF IInv, RegistryOK
<1> QED  BY <1>1, Inductive, PTL

\* One thread of a process is past the in-process lock, and one of all processes
\* at the file (path_lock).
THEOREM MutualExclusion == Spec => []Exclusive
<1>1. IInv => Exclusive  BY DEF IInv
<1> QED  BY <1>1, Inductive, PTL

\* No update that returned is lost, whichever processes stop; when the machine
\* stops, none that a sync of the directory followed (update_json_object).
THEOREM UpdatesSurvive == Spec => []NoLostUpdate
<1>1. IInv => NoLostUpdate  BY DEF IInv, UpdateOK
<1> QED  BY <1>1, Inductive, PTL

\* A stop of a process or of the machine between any two steps of a write leaves
\* one complete version (atomic_write_json).
THEOREM FileIsComplete == Spec => []NeverTorn
<1>1. IInv => NeverTorn  BY DEF IInv, SyncedOK, NeverTorn, Version
<1> QED  BY <1>1, Inductive, PTL
=============================================================================
