------------------------- MODULE LiveSessionProofs --------------------------
(***************************************************************************)
(* Proofs about LiveSession for every set of commands, closes and          *)
(* acknowledging threads, and any number of journal faults: types, custody *)
(* of unsaved edits, what a timeout and a release rest on, and that the    *)
(* session keeps the promise of module NativeCustody.                      *)
(***************************************************************************)
EXTENDS LiveSession, TLAPS

Answers == {"none", "pending", "answered", "refused"}

\* What the owning thread holds in its hands at each point.
CommandPoint == {"took", "running", "ran", "settling", "failing", "reporting"}
ClosePoint == {"readingFlag", "deciding", "refusing"}
CurOK == /\ sta \in CommandPoint => cur \in Cmds
         /\ sta \in ClosePoint => cur \in Closes

-----------------------------------------------------------------------------
(* The helpers keep the types of what they rewrite. *)

\* An answer that is given to a future stays an answer.
LEMMA ResolveType ==
    ASSUME NEW f \in [Obj -> Answers], NEW o, NEW answer \in Answers
    PROVE  Resolve(f, o, answer) \in [Obj -> Answers]
  BY DEF Resolve, Answers

\* Draining the queue answers futures and nothing else.
LEMMA DrainFutType ==
    ASSUME NEW f \in [Obj -> Answers], NEW S
    PROVE  DrainFut(f, S) \in [Obj -> Answers]
  BY DEF DrainFut, Answers

\* Draining the queue leaves every object in one of its states.
LEMMA DrainStateType ==
    ASSUME NEW s \in [Obj -> CmdState], NEW f \in [Obj -> Answers], NEW S
    PROVE  DrainState(s, f, S) \in [Obj -> CmdState]
  BY DEF DrainState, Answers, CmdState

\* A settled object is in one of the states after its run.
LEMMA SettledType ==
    ASSUME NEW o, NEW ok
    PROVE  Settled(o, ok) \in CmdState
  BY DEF Settled, CmdState, After

\* A late settlement has a state for every state it can find.
LEMMA LateStateType ==
    ASSUME NEW s \in CmdState
    PROVE  LateState(s) \in CmdState
  BY DEF LateState, CmdState, After

\* An item joins the queue.
LEMMA AppendType ==
    ASSUME NEW q \in Seq(Items), NEW e \in Items
    PROVE  Append(q, e) \in Seq(Items)
  OBVIOUS

-----------------------------------------------------------------------------
(* Types. *)

\* A fresh session is well formed, and its thread holds nothing.
LEMMA TypeInit == Init => TypeOK /\ CurOK
<1> SUFFICES ASSUME Init PROVE TypeOK /\ CurOK
  OBVIOUS
<1>1. ObjectsOK
  BY DEF Init, ObjectsOK, Obj, CmdState, Recovery
<1>2. ControlOK
  BY ConstantsAssumption DEF Init, ControlOK, StaPoint
<1>3. FlagsOK
  BY Zenon DEF Init, FlagsOK
<1>4. CurOK
  BY DEF Init, CurOK, CommandPoint, ClosePoint
<1>5. QED
  BY <1>1, <1>2, <1>3, <1>4 DEF TypeOK

\* The Boolean fields.  (Zenon: SMT does not take a Boolean field as a value.)
LEMMA FlagsStep == ASSUME TypeOK, [Next]_vars PROVE FlagsOK'
<1> FlagsOK
  BY DEF TypeOK
<1> USE DEF vars, cmdVars, localVars, gateVars, nativeVars
<1>1. CASE StaStartFailsEarly
  BY <1>1, ZenonT(60) DEF StaStartFailsEarly, FlagsOK
<1>2. CASE StaStartFailsLate
  BY <1>2, ZenonT(60) DEF StaStartFailsLate, Hold, FlagsOK
<1>3. CASE StaOpened
  BY <1>3, ZenonT(60) DEF StaOpened, FlagsOK
<1>4. CASE StaStarted
  BY <1>4, ZenonT(60) DEF StaStarted, FlagsOK
<1>5. CASE StaSettleStart
  BY <1>5, ZenonT(60) DEF StaSettleStart, FlagsOK
<1>6. CASE StaTake
  BY <1>6, ZenonT(60) DEF StaTake, FlagsOK
<1>7. CASE StaSkip
  BY <1>7, ZenonT(60) DEF StaSkip, FlagsOK
<1>8. CASE StaBegin
  BY <1>8, ZenonT(60) DEF StaBegin, FlagsOK
<1>9. CASE StaHandler
  BY <1>9, ZenonT(60) DEF StaHandler, NativeNothing, NativeEdit, NativePrivateCopy,
     NativeSave, FlagsOK
<1>10. CASE StaAssess
  BY <1>10, ZenonT(60) DEF StaAssess, ProjectsClean, FlagsOK
<1>11. CASE StaSettle
  BY <1>11, ZenonT(60) DEF StaSettle, FlagsOK
<1>12. CASE StaHold
  BY <1>12, ZenonT(60) DEF StaHold, Hold, FlagsOK
<1>13. CASE StaReport
  BY <1>13, ZenonT(60) DEF StaReport, Hold, FlagsOK
<1>14. CASE StaRecover
  BY <1>14, ZenonT(60) DEF StaRecover, FlagsOK
<1>15. CASE StaReadFlag
  BY <1>15, ZenonT(60) DEF StaReadFlag, Hold, FlagsOK
<1>16. CASE StaRefuseClose
  BY <1>16, ZenonT(60) DEF StaRefuseClose, FlagsOK
<1>17. CASE StaReplyRefused
  BY <1>17, ZenonT(60) DEF StaReplyRefused, FlagsOK
<1>18. CASE StaAcceptClose
  BY <1>18, ZenonT(60) DEF StaAcceptClose, FlagsOK
<1>19. CASE StaPermit
  BY <1>19, ZenonT(60) DEF StaPermit, FlagsOK
<1>20. CASE StaCheckClean
  BY <1>20, ZenonT(60) DEF StaCheckClean, FlagsOK
<1>21. CASE StaCheckAgain
  BY <1>21, ZenonT(60) DEF StaCheckAgain, FlagsOK
<1>22. CASE StaQuit
  BY <1>22, ZenonT(60) DEF StaQuit, FlagsOK
<1>23. CASE StaExited
  BY <1>23, ZenonT(60) DEF StaExited, FlagsOK
<1>24. CASE StaTeardownFails
  BY <1>24, ZenonT(60) DEF StaTeardownFails, Hold, FlagsOK
<1>25. CASE StaComplete
  BY <1>25, ZenonT(60) DEF StaComplete, FlagsOK
<1>26. CASE StaUnreleased
  BY <1>26, ZenonT(60) DEF StaUnreleased, FlagsOK
<1>27. ASSUME NEW c \in Cmds, NEW k \in Kinds, NEW p \in PriorDirty, ExecuteAdmit(c, k, p)
      PROVE  FlagsOK'
  BY <1>27, ZenonT(60) DEF ExecuteAdmit, FlagsOK
<1>28. ASSUME NEW c \in Closes, NEW p \in PriorDirty, CloseAdmit(c, p)
      PROVE  FlagsOK'
  BY <1>28, ZenonT(60) DEF CloseAdmit, FlagsOK
<1>29. CASE CloseRefused
  BY <1>29, ZenonT(60) DEF CloseRefused, FlagsOK
<1>30. ASSUME NEW o \in Obj, Return(o)
      PROVE  FlagsOK'
  BY <1>30, ZenonT(60) DEF Return, FlagsOK
<1>31. ASSUME NEW o \in Obj, Expire(o)
      PROVE  FlagsOK'
  BY <1>31, ZenonT(60) DEF Expire, FlagsOK
<1>32. ASSUME NEW o \in Obj, TerminalizeLate(o)
      PROVE  FlagsOK'
  BY <1>32, ZenonT(60) DEF TerminalizeLate, FlagsOK
<1>33. ASSUME NEW o \in Obj, Terminalize(o)
      PROVE  FlagsOK'
  BY <1>33, ZenonT(60) DEF Terminalize, FlagsOK
<1>34. ASSUME NEW o \in Obj, Reconcile(o)
      PROVE  FlagsOK'
  BY <1>34, ZenonT(60) DEF Reconcile, FlagsOK
<1>35. ASSUME NEW a \in Ackers, NEW o \in Obj, AckMark(a, o)
      PROVE  FlagsOK'
  BY <1>35, ZenonT(60) DEF AckMark, FlagsOK
<1>36. ASSUME NEW a \in Ackers, AckAllow(a)
      PROVE  FlagsOK'
  BY <1>36, ZenonT(60) DEF AckAllow, FlagsOK
<1>37. ASSUME NEW a \in Ackers, AckRevert(a)
      PROVE  FlagsOK'
  BY <1>37, ZenonT(60) DEF AckRevert, FlagsOK
<1>38. CASE Reap
  BY <1>38, ZenonT(60) DEF Reap, FlagsOK
<1>39. CASE UNCHANGED vars
  BY <1>39, ZenonT(60) DEF FlagsOK
<1>40. QED
  BY <1>1, <1>2, <1>3, <1>4, <1>5, <1>6, <1>7, <1>8, <1>9, <1>10, <1>11, <1>12, <1>13,
     <1>14, <1>15, <1>16, <1>17, <1>18, <1>19, <1>20, <1>21, <1>22, <1>23, <1>24, <1>25,
     <1>26, <1>27, <1>28, <1>29, <1>30, <1>31, <1>32, <1>33, <1>34, <1>35, <1>36, <1>37,
     <1>38, <1>39 DEF Next, Sta, Callers

\* The owning thread, the queue, and who is in whose hands.
LEMMA ControlStep == ASSUME TypeOK, CurOK, [Next]_vars PROVE ControlOK' /\ CurOK'
<1> ControlOK /\ CurOK
  BY DEF TypeOK
<1> USE DEF StaPoint, CommandPoint, ClosePoint
<1> USE DEF vars, cmdVars, localVars, gateVars, nativeVars
<1>1. CASE StaStartFailsEarly
  BY <1>1 DEF StaStartFailsEarly, ControlOK, CurOK
<1>2. CASE StaStartFailsLate
  BY <1>2 DEF StaStartFailsLate, ControlOK, CurOK
<1>3. CASE StaOpened
  BY <1>3 DEF StaOpened, ControlOK, CurOK
<1>4. CASE StaStarted
  BY <1>4 DEF StaStarted, ControlOK, CurOK
<1>5. CASE StaSettleStart
  BY <1>5 DEF StaSettleStart, ControlOK, CurOK
<1>6. CASE StaTake
  BY <1>6, ConstantsAssumption DEF StaTake, Items, ControlOK, CurOK
<1>7. CASE StaSkip
  BY <1>7 DEF StaSkip, ControlOK, CurOK
<1>8. CASE StaBegin
  BY <1>8 DEF StaBegin, ControlOK, CurOK
<1>9. CASE StaHandler
  BY <1>9 DEF StaHandler, ControlOK, CurOK
<1>10. CASE StaAssess
  BY <1>10 DEF StaAssess, ControlOK, CurOK
<1>11. CASE StaSettle
  BY <1>11, ConstantsAssumption DEF StaSettle, JournalFault, ControlOK, CurOK
<1>12. CASE StaHold
  BY <1>12 DEF StaHold, ControlOK, CurOK
<1>13. CASE StaReport
  BY <1>13, ConstantsAssumption DEF StaReport, JournalFault, ControlOK, CurOK
<1>14. CASE StaRecover
  BY <1>14 DEF StaRecover, ControlOK, CurOK
<1>15. CASE StaReadFlag
  BY <1>15 DEF StaReadFlag, ControlOK, CurOK
<1>16. CASE StaRefuseClose
  BY <1>16 DEF StaRefuseClose, ControlOK, CurOK
<1>17. CASE StaReplyRefused
  BY <1>17 DEF StaReplyRefused, ControlOK, CurOK
<1>18. CASE StaAcceptClose
  BY <1>18 DEF StaAcceptClose, ControlOK, CurOK
<1>19. CASE StaPermit
  BY <1>19 DEF StaPermit, ControlOK, CurOK
<1>20. CASE StaCheckClean
  BY <1>20 DEF StaCheckClean, ControlOK, CurOK
<1>21. CASE StaCheckAgain
  BY <1>21 DEF StaCheckAgain, ControlOK, CurOK
<1>22. CASE StaQuit
  BY <1>22 DEF StaQuit, ControlOK, CurOK
<1>23. CASE StaExited
  BY <1>23 DEF StaExited, ControlOK, CurOK
<1>24. CASE StaTeardownFails
  BY <1>24 DEF StaTeardownFails, ControlOK, CurOK
<1>25. CASE StaComplete
  BY <1>25 DEF StaComplete, ControlOK, CurOK
<1>26. CASE StaUnreleased
  BY <1>26 DEF StaUnreleased, ControlOK, CurOK
<1>27. ASSUME NEW c \in Cmds, NEW k \in Kinds, NEW p \in PriorDirty, ExecuteAdmit(c, k, p)
      PROVE  ControlOK' /\ CurOK'
  <2>1. queue' \in Seq(Items)
    <3>1. queue' = Append(queue, c) \/ queue' = queue
      BY <1>27, Zenon DEF ExecuteAdmit
    <3>2. queue \in Seq(Items)
      BY Zenon DEF ControlOK
    <3>3. c \in Items
      BY Zenon DEF Items
    <3>4. Append(queue, c) \in Seq(Items)
      BY <3>2, <3>3, AppendType, Zenon
    <3>5. QED
      BY <3>1, <3>2, <3>4, Zenon
  <2>2. faults' \in 0 .. MaxFaults
    BY <1>27, ConstantsAssumption DEF ExecuteAdmit, JournalFault, ControlOK
  <2>3. closeReg' \in Closes \cup {None} /\ sta' = sta /\ cur' = cur
    BY <1>27 DEF ExecuteAdmit, ControlOK
  <2>4. QED
    BY <1>27, <2>1, <2>2, <2>3 DEF ExecuteAdmit, ControlOK, CurOK
<1>28. ASSUME NEW c \in Closes, NEW p \in PriorDirty, CloseAdmit(c, p)
      PROVE  ControlOK' /\ CurOK'
  <2>1. queue' \in Seq(Items)
    <3>1. queue' = Append(queue, c) \/ queue' = queue
      BY <1>28, Zenon DEF CloseAdmit
    <3>2. queue \in Seq(Items)
      BY Zenon DEF ControlOK
    <3>3. c \in Items
      BY Zenon DEF Items
    <3>4. Append(queue, c) \in Seq(Items)
      BY <3>2, <3>3, AppendType, Zenon
    <3>5. QED
      BY <3>1, <3>2, <3>4, Zenon
  <2>2. faults' \in 0 .. MaxFaults
    BY <1>28, ConstantsAssumption DEF CloseAdmit, JournalFault, ControlOK
  <2>3. closeReg' \in Closes \cup {None} /\ sta' = sta /\ cur' = cur
    BY <1>28 DEF CloseAdmit, ControlOK
  <2>4. QED
    BY <1>28, <2>1, <2>2, <2>3 DEF CloseAdmit, ControlOK, CurOK
<1>29. CASE CloseRefused
  BY <1>29 DEF CloseRefused, ControlOK, CurOK
<1>30. ASSUME NEW o \in Obj, Return(o)
      PROVE  ControlOK' /\ CurOK'
  BY <1>30 DEF Return, ControlOK, CurOK
<1>31. ASSUME NEW o \in Obj, Expire(o)
      PROVE  ControlOK' /\ CurOK'
  BY <1>31 DEF Expire, ControlOK, CurOK
<1>32. ASSUME NEW o \in Obj, TerminalizeLate(o)
      PROVE  ControlOK' /\ CurOK'
  BY <1>32 DEF TerminalizeLate, ControlOK, CurOK
<1>33. ASSUME NEW o \in Obj, Terminalize(o)
      PROVE  ControlOK' /\ CurOK'
  BY <1>33 DEF Terminalize, ControlOK, CurOK
<1>34. ASSUME NEW o \in Obj, Reconcile(o)
      PROVE  ControlOK' /\ CurOK'
  BY <1>34, ConstantsAssumption DEF Reconcile, Items, Obj, ControlOK, CurOK
<1>35. ASSUME NEW a \in Ackers, NEW o \in Obj, AckMark(a, o)
      PROVE  ControlOK' /\ CurOK'
  BY <1>35 DEF AckMark, ControlOK, CurOK
<1>36. ASSUME NEW a \in Ackers, AckAllow(a)
      PROVE  ControlOK' /\ CurOK'
  BY <1>36 DEF AckAllow, ControlOK, CurOK
<1>37. ASSUME NEW a \in Ackers, AckRevert(a)
      PROVE  ControlOK' /\ CurOK'
  BY <1>37, ConstantsAssumption DEF AckRevert, JournalFault, ControlOK, CurOK
<1>38. CASE Reap
  BY <1>38 DEF Reap, ControlOK, CurOK
<1>39. CASE UNCHANGED vars
  BY <1>39 DEF ControlOK, CurOK
<1>40. QED
  BY <1>1, <1>2, <1>3, <1>4, <1>5, <1>6, <1>7, <1>8, <1>9, <1>10, <1>11, <1>12, <1>13,
     <1>14, <1>15, <1>16, <1>17, <1>18, <1>19, <1>20, <1>21, <1>22, <1>23, <1>24, <1>25,
     <1>26, <1>27, <1>28, <1>29, <1>30, <1>31, <1>32, <1>33, <1>34, <1>35, <1>36, <1>37,
     <1>38, <1>39 DEF Next, Sta, Callers

\* The command objects.
LEMMA ObjectsStep == ASSUME TypeOK, CurOK, [Next]_vars PROVE ObjectsOK'
<1> ObjectsOK /\ ControlOK /\ CurOK
  BY DEF TypeOK
<1> USE DEF Answers, CommandPoint, ClosePoint
<1> USE DEF vars, cmdVars, localVars, gateVars, nativeVars
<1>1. CASE StaStartFailsEarly
  BY <1>1, ResolveType DEF StaStartFailsEarly, ObjectsOK
<1>2. CASE StaStartFailsLate
  BY <1>2, ResolveType DEF StaStartFailsLate, ObjectsOK
<1>3. CASE StaOpened
  BY <1>3, ResolveType DEF StaOpened, ObjectsOK
<1>4. CASE StaStarted
  BY <1>4, ResolveType DEF StaStarted, ObjectsOK
<1>5. CASE StaSettleStart
  BY <1>5 DEF StaSettleStart, CmdState, After, Recovery, ObjectsOK
<1>6. CASE StaTake
  BY <1>6 DEF StaTake, ObjectsOK
<1>7. CASE StaSkip
  BY <1>7, ResolveType DEF StaSkip, CmdState, ObjectsOK
<1>8. CASE StaBegin
  BY <1>8 DEF StaBegin, CmdState, ObjectsOK
<1>9. CASE StaHandler
  BY <1>9 DEF StaHandler, ObjectsOK
<1>10. CASE StaAssess
  BY <1>10 DEF StaAssess, ObjectsOK
<1>11. CASE StaSettle
  <2>1. state' \in [Obj -> CmdState]
    BY <1>11, SettledType DEF StaSettle, ObjectsOK
  <2>2. recovery' \in [Obj -> Recovery]
    BY <1>11 DEF StaSettle, ObjectsOK, Recovery
  <2>3. fut' = Resolve(fut, cur, "answered") \/ fut' = fut
    BY <1>11, Zenon DEF StaSettle
  <2>4. fut' \in [Obj -> Answers]
    BY <2>3, ResolveType DEF ObjectsOK
  <2>5. UNCHANGED <<timedOut, reconciled, kind, caller>>
    BY <1>11 DEF StaSettle
  <2>6. QED
    BY <2>1, <2>2, <2>4, <2>5 DEF ObjectsOK
<1>12. CASE StaHold
  BY <1>12, ResolveType, SettledType DEF StaHold, Recovery, ObjectsOK
<1>13. CASE StaReport
  BY <1>13 DEF StaReport, Recovery, ObjectsOK
<1>14. CASE StaRecover
  BY <1>14 DEF StaRecover, Recovery, ObjectsOK
<1>15. CASE StaReadFlag
  BY <1>15 DEF StaReadFlag, Recovery, ObjectsOK
<1>16. CASE StaRefuseClose
  BY <1>16 DEF StaRefuseClose, CmdState, ObjectsOK
<1>17. CASE StaReplyRefused
  BY <1>17, ResolveType DEF StaReplyRefused, ObjectsOK
<1>18. CASE StaAcceptClose
  BY <1>18 DEF StaAcceptClose, CmdState, ObjectsOK
<1>19. CASE StaPermit
  BY <1>19 DEF StaPermit, ObjectsOK
<1>20. CASE StaCheckClean
  BY <1>20 DEF StaCheckClean, ObjectsOK
<1>21. CASE StaCheckAgain
  BY <1>21 DEF StaCheckAgain, ObjectsOK
<1>22. CASE StaQuit
  BY <1>22 DEF StaQuit, ObjectsOK
<1>23. CASE StaExited
  BY <1>23 DEF StaExited, ObjectsOK
<1>24. CASE StaTeardownFails
  BY <1>24 DEF StaTeardownFails, Recovery, ObjectsOK
<1>25. CASE StaComplete
  BY <1>25, ResolveType, DrainFutType, DrainStateType, SettledType DEF StaComplete,
     CmdState, After, ObjectsOK
<1>26. CASE StaUnreleased
  BY <1>26, ResolveType, DrainFutType, DrainStateType, SettledType DEF StaUnreleased,
     ObjectsOK
<1>27. ASSUME NEW c \in Cmds, NEW k \in Kinds, NEW p \in PriorDirty, ExecuteAdmit(c, k, p)
      PROVE  ObjectsOK'
  BY <1>27, ConstantsAssumption DEF ExecuteAdmit, CmdState, ObjectsOK
<1>28. ASSUME NEW c \in Closes, NEW p \in PriorDirty, CloseAdmit(c, p)
      PROVE  ObjectsOK'
  BY <1>28 DEF CloseAdmit, CmdState, ObjectsOK
<1>29. CASE CloseRefused
  BY <1>29 DEF CloseRefused, ObjectsOK
<1>30. ASSUME NEW o \in Obj, Return(o)
      PROVE  ObjectsOK'
  BY <1>30 DEF Return, ObjectsOK
<1>31. ASSUME NEW o \in Obj, Expire(o)
      PROVE  ObjectsOK'
  BY <1>31 DEF Expire, ObjectsOK
<1>32. ASSUME NEW o \in Obj, TerminalizeLate(o)
      PROVE  ObjectsOK'
  BY <1>32 DEF TerminalizeLate, ObjectsOK
<1>33. ASSUME NEW o \in Obj, Terminalize(o)
      PROVE  ObjectsOK'
  BY <1>33, ResolveType, DrainFutType, DrainStateType, LateStateType DEF Terminalize,
     Recovery, ObjectsOK
<1>34. ASSUME NEW o \in Obj, Reconcile(o)
      PROVE  ObjectsOK'
  BY <1>34 DEF Reconcile, Recovery, ObjectsOK
<1>35. ASSUME NEW a \in Ackers, NEW o \in Obj, AckMark(a, o)
      PROVE  ObjectsOK'
  BY <1>35 DEF AckMark, ObjectsOK
<1>36. ASSUME NEW a \in Ackers, AckAllow(a)
      PROVE  ObjectsOK'
  BY <1>36 DEF AckAllow, ObjectsOK
<1>37. ASSUME NEW a \in Ackers, AckRevert(a)
      PROVE  ObjectsOK'
  BY <1>37 DEF AckRevert, ObjectsOK
<1>38. CASE Reap
  BY <1>38 DEF Reap, ObjectsOK
<1>39. CASE UNCHANGED vars
  BY <1>39 DEF ObjectsOK
<1>40. QED
  BY <1>1, <1>2, <1>3, <1>4, <1>5, <1>6, <1>7, <1>8, <1>9, <1>10, <1>11, <1>12, <1>13,
     <1>14, <1>15, <1>16, <1>17, <1>18, <1>19, <1>20, <1>21, <1>22, <1>23, <1>24, <1>25,
     <1>26, <1>27, <1>28, <1>29, <1>30, <1>31, <1>32, <1>33, <1>34, <1>35, <1>36, <1>37,
     <1>38, <1>39 DEF Next, Sta, Callers

\* The types of the session's fields, with what the owning thread holds in its
\* hands at each point: the strengthening TypeOK needs to be inductive.
LEMMA TypeInvariant == Spec => [](TypeOK /\ CurOK)
<1>1. TypeOK /\ CurOK /\ [Next]_vars => (TypeOK /\ CurOK)'
  BY FlagsStep, ControlStep, ObjectsStep DEF TypeOK
<1>2. QED
  BY TypeInit, <1>1, PTL DEF Spec

\* Every field of a session keeps its type, for any number of commands, closes
\* and threads.
THEOREM TypeCorrect == Spec => []TypeOK
  BY TypeInvariant, PTL

-----------------------------------------------------------------------------
(* Custody: why no unsaved edit is discarded. *)

-----------------------------------------------------------------------------
(* The inductive invariant behind the custody theorems.  It has to say why no
   edit can slip in between a fact about the document and its use: what is in
   the owning thread's hands, and which facts end the running of commands. *)

\* Only a call of execute() gives a command a state, a future and a kind.
Admitted == \A c \in Cmds : caller[c] = "idle" => state[c] = "none" /\ fut[c] = "none"
CurAdmitted == sta \in CommandPoint \ {"took"} => caller[cur] # "idle"

\* After a timeout no command starts: `_terminal' is set, for good.
Late == After \cup {"timed_out_pending"}
LateIsTerminal ==
    /\ timedOut # {} => terminal
    /\ \A o \in Obj : state[o] \in Late => terminal
    /\ recTarget # None => terminal

\* Edits nobody preserved are owed to the user, and whoever removes the debt
\* knows that the document is clean.
DebtCovers == unsaved => debt
EditsAreMarked == sta = "running" /\ kind[cur] \in MarksDebt => debt
ExemptIsClean ==
    /\ sta = "running" /\ exempt => kind[cur] \in ExactExempt /\ ~unsaved
    /\ sta = "ran" /\ exempt /\ ~flag => ~unsaved
ProvedIsClean == sta \in {"ran", "settling"} /\ outcome = "proved" => ~unsaved

\* A preserved recovery copy, its acknowledgement and the permission it gives
\* come after the last edit.
SomePreserved == \/ \E o \in Obj : recovery[o] = "preserved"
                 \/ \E a \in Ackers : acker[a] # None
                 \/ allow
PreservedIsClean == SomePreserved => terminal /\ ~unsaved /\ sta # "running"

\* Between the last check and the exit of the editor the document is clean.
QuitIsClean ==
    /\ sta \in {"quitting", "issuing"} => ~unsaved
    /\ app = "quit" => /\ ~unsaved
                       /\ sta \in {"exiting", "released", "unreleased", "heldLoop", "done"}

\* A hold and a quarantine end the running of commands; a hold stops a startup
\* and a teardown.
HeldStops ==
    /\ held => /\ terminal
               /\ sta \notin {"opening", "opened", "started", "running", "quitting", "issuing"}
    /\ quarantined => terminal

DebtInv == DebtCovers /\ EditsAreMarked /\ ExemptIsClean /\ ProvedIsClean

CustodyInv == /\ Admitted
              /\ CurAdmitted
              /\ LateIsTerminal
              /\ DebtInv
              /\ PreservedIsClean
              /\ QuitIsClean
              /\ HeldStops

-----------------------------------------------------------------------------
\* Who has been admitted stays admitted.
LEMMA AdmittedStep ==
    ASSUME TypeOK, CurOK, Admitted, CurAdmitted, [Next]_vars
    PROVE  Admitted' /\ CurAdmitted'
<1> ObjectsOK /\ ControlOK
  BY DEF TypeOK
<1> None \notin Cmds /\ Cmds \cap Closes = {} /\ Start \notin Cmds /\ Cmds \subseteq Obj
  BY ConstantsAssumption DEF Obj
<1> USE DEF CommandPoint, ClosePoint
<1> USE DEF vars, cmdVars, localVars, gateVars, nativeVars
<1>1. CASE StaStartFailsEarly
  BY <1>1 DEF StaStartFailsEarly, Resolve, Admitted, CurAdmitted, ObjectsOK, ControlOK,
     CurOK
<1>2. CASE StaStartFailsLate
  BY <1>2 DEF StaStartFailsLate, Resolve, Admitted, CurAdmitted, ObjectsOK, ControlOK,
     CurOK
<1>3. CASE StaOpened
  BY <1>3 DEF StaOpened, Resolve, Admitted, CurAdmitted, ObjectsOK, ControlOK, CurOK
<1>4. CASE StaStarted
  BY <1>4 DEF StaStarted, Resolve, Admitted, CurAdmitted, ObjectsOK, ControlOK, CurOK
<1>5. CASE StaSettleStart
  BY <1>5 DEF StaSettleStart, Admitted, CurAdmitted, ObjectsOK, ControlOK, CurOK
<1>6. CASE StaTake
  BY <1>6 DEF StaTake, Admitted, CurAdmitted, ObjectsOK, ControlOK, CurOK
<1>7. CASE StaSkip
  BY <1>7 DEF StaSkip, Resolve, Admitted, CurAdmitted, ObjectsOK, ControlOK, CurOK
<1>8. CASE StaBegin
  BY <1>8 DEF StaBegin, Admitted, CurAdmitted, ObjectsOK, ControlOK, CurOK
<1>9. CASE StaHandler
  BY <1>9 DEF StaHandler, Admitted, CurAdmitted, ObjectsOK, ControlOK, CurOK
<1>10. CASE StaAssess
  BY <1>10 DEF StaAssess, Admitted, CurAdmitted, ObjectsOK, ControlOK, CurOK
<1>11. CASE StaSettle
  BY <1>11 DEF StaSettle, Settled, Resolve, Admitted, CurAdmitted, ObjectsOK, ControlOK,
     CurOK
<1>12. CASE StaHold
  BY <1>12 DEF StaHold, Settled, Resolve, Admitted, CurAdmitted, ObjectsOK, ControlOK,
     CurOK
<1>13. CASE StaReport
  BY <1>13 DEF StaReport, Admitted, CurAdmitted, ObjectsOK, ControlOK, CurOK
<1>14. CASE StaRecover
  BY <1>14 DEF StaRecover, Admitted, CurAdmitted, ObjectsOK, ControlOK, CurOK
<1>15. CASE StaReadFlag
  BY <1>15 DEF StaReadFlag, Admitted, CurAdmitted, ObjectsOK, ControlOK, CurOK
<1>16. CASE StaRefuseClose
  BY <1>16 DEF StaRefuseClose, Admitted, CurAdmitted, ObjectsOK, ControlOK, CurOK
<1>17. CASE StaReplyRefused
  BY <1>17 DEF StaReplyRefused, Resolve, Admitted, CurAdmitted, ObjectsOK, ControlOK,
     CurOK
<1>18. CASE StaAcceptClose
  BY <1>18 DEF StaAcceptClose, Admitted, CurAdmitted, ObjectsOK, ControlOK, CurOK
<1>19. CASE StaPermit
  BY <1>19 DEF StaPermit, Admitted, CurAdmitted, ObjectsOK, ControlOK, CurOK
<1>20. CASE StaCheckClean
  BY <1>20 DEF StaCheckClean, Admitted, CurAdmitted, ObjectsOK, ControlOK, CurOK
<1>21. CASE StaCheckAgain
  BY <1>21 DEF StaCheckAgain, Admitted, CurAdmitted, ObjectsOK, ControlOK, CurOK
<1>22. CASE StaQuit
  BY <1>22 DEF StaQuit, Admitted, CurAdmitted, ObjectsOK, ControlOK, CurOK
<1>23. CASE StaExited
  BY <1>23 DEF StaExited, Admitted, CurAdmitted, ObjectsOK, ControlOK, CurOK
<1>24. CASE StaTeardownFails
  BY <1>24 DEF StaTeardownFails, Admitted, CurAdmitted, ObjectsOK, ControlOK, CurOK
<1>25. CASE StaComplete
  BY <1>25 DEF StaComplete, Settled, DrainFut, DrainState, Resolve, Admitted,
     CurAdmitted, ObjectsOK, ControlOK, CurOK
<1>26. CASE StaUnreleased
  BY <1>26 DEF StaUnreleased, Settled, DrainFut, DrainState, Resolve, Admitted,
     CurAdmitted, ObjectsOK, ControlOK, CurOK
<1>27. ASSUME NEW c \in Cmds, NEW k \in Kinds, NEW p \in PriorDirty, ExecuteAdmit(c, k, p)
      PROVE  Admitted' /\ CurAdmitted'
  BY <1>27 DEF ExecuteAdmit, Admitted, CurAdmitted, ObjectsOK, ControlOK, CurOK
<1>28. ASSUME NEW c \in Closes, NEW p \in PriorDirty, CloseAdmit(c, p)
      PROVE  Admitted' /\ CurAdmitted'
  BY <1>28 DEF CloseAdmit, Admitted, CurAdmitted, ObjectsOK, ControlOK, CurOK
<1>29. CASE CloseRefused
  BY <1>29 DEF CloseRefused, Admitted, CurAdmitted, ObjectsOK, ControlOK, CurOK
<1>30. ASSUME NEW o \in Obj, Return(o)
      PROVE  Admitted' /\ CurAdmitted'
  BY <1>30 DEF Return, Admitted, CurAdmitted, ObjectsOK, ControlOK, CurOK
<1>31. ASSUME NEW o \in Obj, Expire(o)
      PROVE  Admitted' /\ CurAdmitted'
  BY <1>31 DEF Expire, Admitted, CurAdmitted, ObjectsOK, ControlOK, CurOK
<1>32. ASSUME NEW o \in Obj, TerminalizeLate(o)
      PROVE  Admitted' /\ CurAdmitted'
  BY <1>32 DEF TerminalizeLate, Admitted, CurAdmitted, ObjectsOK, ControlOK, CurOK
<1>33. ASSUME NEW o \in Obj, Terminalize(o)
      PROVE  Admitted' /\ CurAdmitted'
  BY <1>33 DEF Terminalize, DrainFut, DrainState, Resolve, Admitted, CurAdmitted,
     ObjectsOK, ControlOK, CurOK
<1>34. ASSUME NEW o \in Obj, Reconcile(o)
      PROVE  Admitted' /\ CurAdmitted'
  BY <1>34 DEF Reconcile, Admitted, CurAdmitted, ObjectsOK, ControlOK, CurOK
<1>35. ASSUME NEW a \in Ackers, NEW o \in Obj, AckMark(a, o)
      PROVE  Admitted' /\ CurAdmitted'
  BY <1>35 DEF AckMark, Admitted, CurAdmitted, ObjectsOK, ControlOK, CurOK
<1>36. ASSUME NEW a \in Ackers, AckAllow(a)
      PROVE  Admitted' /\ CurAdmitted'
  BY <1>36 DEF AckAllow, Admitted, CurAdmitted, ObjectsOK, ControlOK, CurOK
<1>37. ASSUME NEW a \in Ackers, AckRevert(a)
      PROVE  Admitted' /\ CurAdmitted'
  BY <1>37 DEF AckRevert, Admitted, CurAdmitted, ObjectsOK, ControlOK, CurOK
<1>38. CASE Reap
  BY <1>38 DEF Reap, Admitted, CurAdmitted, ObjectsOK, ControlOK, CurOK
<1>39. CASE UNCHANGED vars
  BY <1>39 DEF Admitted, CurAdmitted, ObjectsOK, ControlOK, CurOK
<1>40. QED
  BY <1>1, <1>2, <1>3, <1>4, <1>5, <1>6, <1>7, <1>8, <1>9, <1>10, <1>11, <1>12, <1>13,
     <1>14, <1>15, <1>16, <1>17, <1>18, <1>19, <1>20, <1>21, <1>22, <1>23, <1>24, <1>25,
     <1>26, <1>27, <1>28, <1>29, <1>30, <1>31, <1>32, <1>33, <1>34, <1>35, <1>36, <1>37,
     <1>38, <1>39 DEF Next, Sta, Callers

\* A timeout leaves its mark in `_terminal'.
LEMMA LateStep ==
    ASSUME TypeOK, CurOK, LateIsTerminal, [Next]_vars
    PROVE  LateIsTerminal'
<1> ObjectsOK /\ ControlOK
  BY DEF TypeOK
<1> USE DEF Late, After
<1> USE DEF vars, cmdVars, localVars, gateVars, nativeVars
<1>1. CASE StaStartFailsEarly
  BY <1>1 DEF StaStartFailsEarly, LateIsTerminal, ObjectsOK, ControlOK
<1>2. CASE StaStartFailsLate
  BY <1>2 DEF StaStartFailsLate, Hold, LateIsTerminal, ObjectsOK, ControlOK
<1>3. CASE StaOpened
  BY <1>3 DEF StaOpened, LateIsTerminal, ObjectsOK, ControlOK
<1>4. CASE StaStarted
  BY <1>4 DEF StaStarted, LateIsTerminal, ObjectsOK, ControlOK
<1>5. CASE StaSettleStart
  BY <1>5 DEF StaSettleStart, LateIsTerminal, ObjectsOK, ControlOK
<1>6. CASE StaTake
  BY <1>6 DEF StaTake, LateIsTerminal, ObjectsOK, ControlOK
<1>7. CASE StaSkip
  BY <1>7 DEF StaSkip, LateIsTerminal, ObjectsOK, ControlOK
<1>8. CASE StaBegin
  BY <1>8 DEF StaBegin, LateIsTerminal, ObjectsOK, ControlOK
<1>9. CASE StaHandler
  BY <1>9 DEF StaHandler, LateIsTerminal, ObjectsOK, ControlOK
<1>10. CASE StaAssess
  BY <1>10 DEF StaAssess, LateIsTerminal, ObjectsOK, ControlOK
<1>11. CASE StaSettle
  BY <1>11 DEF StaSettle, Settled, LateIsTerminal, ObjectsOK, ControlOK
<1>12. CASE StaHold
  BY <1>12 DEF StaHold, Settled, Hold, LateIsTerminal, ObjectsOK, ControlOK
<1>13. CASE StaReport
  BY <1>13 DEF StaReport, Hold, LateIsTerminal, ObjectsOK, ControlOK
<1>14. CASE StaRecover
  BY <1>14 DEF StaRecover, LateIsTerminal, ObjectsOK, ControlOK
<1>15. CASE StaReadFlag
  BY <1>15 DEF StaReadFlag, Hold, LateIsTerminal, ObjectsOK, ControlOK
<1>16. CASE StaRefuseClose
  BY <1>16 DEF StaRefuseClose, LateIsTerminal, ObjectsOK, ControlOK
<1>17. CASE StaReplyRefused
  BY <1>17 DEF StaReplyRefused, LateIsTerminal, ObjectsOK, ControlOK
<1>18. CASE StaAcceptClose
  BY <1>18 DEF StaAcceptClose, LateIsTerminal, ObjectsOK, ControlOK
<1>19. CASE StaPermit
  BY <1>19 DEF StaPermit, LateIsTerminal, ObjectsOK, ControlOK
<1>20. CASE StaCheckClean
  BY <1>20 DEF StaCheckClean, LateIsTerminal, ObjectsOK, ControlOK
<1>21. CASE StaCheckAgain
  BY <1>21 DEF StaCheckAgain, LateIsTerminal, ObjectsOK, ControlOK
<1>22. CASE StaQuit
  BY <1>22 DEF StaQuit, LateIsTerminal, ObjectsOK, ControlOK
<1>23. CASE StaExited
  BY <1>23 DEF StaExited, LateIsTerminal, ObjectsOK, ControlOK
<1>24. CASE StaTeardownFails
  BY <1>24 DEF StaTeardownFails, Hold, LateIsTerminal, ObjectsOK, ControlOK
<1>25. CASE StaComplete
  BY <1>25 DEF StaComplete, Settled, DrainState, LateIsTerminal, ObjectsOK, ControlOK
<1>26. CASE StaUnreleased
  BY <1>26 DEF StaUnreleased, Settled, DrainState, LateIsTerminal, ObjectsOK, ControlOK
<1>27. ASSUME NEW c \in Cmds, NEW k \in Kinds, NEW p \in PriorDirty, ExecuteAdmit(c, k, p)
      PROVE  LateIsTerminal'
  BY <1>27 DEF ExecuteAdmit, LateIsTerminal, ObjectsOK, ControlOK
<1>28. ASSUME NEW c \in Closes, NEW p \in PriorDirty, CloseAdmit(c, p)
      PROVE  LateIsTerminal'
  BY <1>28 DEF CloseAdmit, LateIsTerminal, ObjectsOK, ControlOK
<1>29. CASE CloseRefused
  BY <1>29 DEF CloseRefused, LateIsTerminal, ObjectsOK, ControlOK
<1>30. ASSUME NEW o \in Obj, Return(o)
      PROVE  LateIsTerminal'
  BY <1>30 DEF Return, LateIsTerminal, ObjectsOK, ControlOK
<1>31. ASSUME NEW o \in Obj, Expire(o)
      PROVE  LateIsTerminal'
  BY <1>31 DEF Expire, LateIsTerminal, ObjectsOK, ControlOK
<1>32. ASSUME NEW o \in Obj, TerminalizeLate(o)
      PROVE  LateIsTerminal'
  BY <1>32 DEF TerminalizeLate, LateIsTerminal, ObjectsOK, ControlOK
<1>33. ASSUME NEW o \in Obj, Terminalize(o)
      PROVE  LateIsTerminal'
  BY <1>33 DEF Terminalize, LateIsTerminal, ObjectsOK, ControlOK
<1>34. ASSUME NEW o \in Obj, Reconcile(o)
      PROVE  LateIsTerminal'
  BY <1>34 DEF Reconcile, LateIsTerminal, ObjectsOK, ControlOK
<1>35. ASSUME NEW a \in Ackers, NEW o \in Obj, AckMark(a, o)
      PROVE  LateIsTerminal'
  BY <1>35 DEF AckMark, LateIsTerminal, ObjectsOK, ControlOK
<1>36. ASSUME NEW a \in Ackers, AckAllow(a)
      PROVE  LateIsTerminal'
  BY <1>36 DEF AckAllow, LateIsTerminal, ObjectsOK, ControlOK
<1>37. ASSUME NEW a \in Ackers, AckRevert(a)
      PROVE  LateIsTerminal'
  BY <1>37 DEF AckRevert, LateIsTerminal, ObjectsOK, ControlOK
<1>38. CASE Reap
  BY <1>38 DEF Reap, LateIsTerminal, ObjectsOK, ControlOK
<1>39. CASE UNCHANGED vars
  BY <1>39 DEF LateIsTerminal, ObjectsOK, ControlOK
<1>40. QED
  BY <1>1, <1>2, <1>3, <1>4, <1>5, <1>6, <1>7, <1>8, <1>9, <1>10, <1>11, <1>12, <1>13,
     <1>14, <1>15, <1>16, <1>17, <1>18, <1>19, <1>20, <1>21, <1>22, <1>23, <1>24, <1>25,
     <1>26, <1>27, <1>28, <1>29, <1>30, <1>31, <1>32, <1>33, <1>34, <1>35, <1>36, <1>37,
     <1>38, <1>39 DEF Next, Sta, Callers

\* Whoever removes the debt has proved the document clean.
LEMMA DebtStep ==
    ASSUME TypeOK, CurOK, CustodyInv, [Next]_vars
    PROVE  DebtInv'
<1> ObjectsOK /\ DebtInv /\ Admitted /\ CurAdmitted
  BY DEF TypeOK, CustodyInv
<1> USE DEF CommandPoint
<1> USE DEF vars, cmdVars, localVars, gateVars, nativeVars
<1>1. CASE StaStartFailsEarly
  BY <1>1 DEF StaStartFailsEarly, DebtInv, DebtCovers, EditsAreMarked, ExemptIsClean,
     ProvedIsClean
<1>2. CASE StaStartFailsLate
  BY <1>2 DEF StaStartFailsLate, Hold, DebtInv, DebtCovers, EditsAreMarked,
     ExemptIsClean, ProvedIsClean
<1>3. CASE StaOpened
  BY <1>3 DEF StaOpened, DebtInv, DebtCovers, EditsAreMarked, ExemptIsClean,
     ProvedIsClean
<1>4. CASE StaStarted
  BY <1>4 DEF StaStarted, DebtInv, DebtCovers, EditsAreMarked, ExemptIsClean,
     ProvedIsClean
<1>5. CASE StaSettleStart
  BY <1>5 DEF StaSettleStart, DebtInv, DebtCovers, EditsAreMarked, ExemptIsClean,
     ProvedIsClean
<1>6. CASE StaTake
  BY <1>6 DEF StaTake, DebtInv, DebtCovers, EditsAreMarked, ExemptIsClean, ProvedIsClean
<1>7. CASE StaSkip
  BY <1>7 DEF StaSkip, DebtInv, DebtCovers, EditsAreMarked, ExemptIsClean, ProvedIsClean
<1>8. CASE StaBegin
  BY <1>8 DEF StaBegin, MarksDebt, ExactExempt, DebtInv, DebtCovers, EditsAreMarked,
     ExemptIsClean, ProvedIsClean
<1>9. CASE StaHandler
  <2> DEFINE k == kind[cur]
  <2>1. UNCHANGED cur /\ sta = "running" /\ sta' = "ran"
    BY <1>9 DEF StaHandler
  <2>2. CASE NativeNothing /\ outcome' # "proved"
    BY <2>1, <2>2 DEF NativeNothing, DebtInv, DebtCovers, EditsAreMarked, ExemptIsClean,
       ProvedIsClean
  <2>3. CASE k \in MayEdit /\ NativeEdit(k) /\ outcome' # "proved"
    <3>1. debt' = (debt \/ k = "bundle") /\ UNCHANGED exempt /\ (k = "history" => flag')
      BY <2>3, Zenon DEF NativeEdit
    <3>2. debt'
      BY <2>1, <2>3, <3>1 DEF MayEdit, MarksDebt, DebtInv, EditsAreMarked
    <3>3. exempt => flag'
      BY <2>1, <2>3, <3>1 DEF MayEdit, ExactExempt, DebtInv, ExemptIsClean
    <3>4. QED
      BY <2>1, <2>3, <3>1, <3>2, <3>3 DEF DebtInv, DebtCovers, EditsAreMarked,
         ExemptIsClean,
         ProvedIsClean
  <2>4. CASE NativePrivateCopy /\ outcome' # "proved"
    BY <2>1, <2>4 DEF NativePrivateCopy, DebtInv, DebtCovers, EditsAreMarked,
       ExemptIsClean,
       ProvedIsClean
  <2>5. CASE NativeSave
    BY <2>1, <2>5 DEF NativeSave, DebtInv, DebtCovers, EditsAreMarked, ExemptIsClean,
       ProvedIsClean
  <2>6. QED
    BY <1>9, <2>2, <2>3, <2>4, <2>5 DEF StaHandler
<1>10. CASE StaAssess
  BY <1>10 DEF StaAssess, ProjectsClean, DebtInv, DebtCovers, EditsAreMarked,
     ExemptIsClean, ProvedIsClean
<1>11. CASE StaSettle
  BY <1>11 DEF StaSettle, DebtInv, DebtCovers, EditsAreMarked, ExemptIsClean,
     ProvedIsClean
<1>12. CASE StaHold
  BY <1>12 DEF StaHold, DebtInv, DebtCovers, EditsAreMarked, ExemptIsClean,
     ProvedIsClean
<1>13. CASE StaReport
  BY <1>13 DEF StaReport, DebtInv, DebtCovers, EditsAreMarked, ExemptIsClean,
     ProvedIsClean
<1>14. CASE StaRecover
  <2>1. UNCHANGED debt /\ sta' = "idle" /\ (~unsaved' \/ UNCHANGED unsaved)
    BY <1>14, Zenon DEF StaRecover
  <2>2. QED
    BY <2>1 DEF DebtInv, DebtCovers, EditsAreMarked, ExemptIsClean, ProvedIsClean
<1>15. CASE StaReadFlag
  BY <1>15 DEF StaReadFlag, DebtInv, DebtCovers, EditsAreMarked, ExemptIsClean,
     ProvedIsClean
<1>16. CASE StaRefuseClose
  BY <1>16 DEF StaRefuseClose, DebtInv, DebtCovers, EditsAreMarked, ExemptIsClean,
     ProvedIsClean
<1>17. CASE StaReplyRefused
  BY <1>17 DEF StaReplyRefused, DebtInv, DebtCovers, EditsAreMarked, ExemptIsClean,
     ProvedIsClean
<1>18. CASE StaAcceptClose
  BY <1>18 DEF StaAcceptClose, DebtInv, DebtCovers, EditsAreMarked, ExemptIsClean,
     ProvedIsClean
<1>19. CASE StaPermit
  BY <1>19 DEF StaPermit, DebtInv, DebtCovers, EditsAreMarked, ExemptIsClean,
     ProvedIsClean
<1>20. CASE StaCheckClean
  BY <1>20 DEF StaCheckClean, DebtInv, DebtCovers, EditsAreMarked, ExemptIsClean,
     ProvedIsClean
<1>21. CASE StaCheckAgain
  BY <1>21 DEF StaCheckAgain, DebtInv, DebtCovers, EditsAreMarked, ExemptIsClean,
     ProvedIsClean
<1>22. CASE StaQuit
  BY <1>22 DEF StaQuit, DebtInv, DebtCovers, EditsAreMarked, ExemptIsClean,
     ProvedIsClean
<1>23. CASE StaExited
  BY <1>23 DEF StaExited, DebtInv, DebtCovers, EditsAreMarked, ExemptIsClean,
     ProvedIsClean
<1>24. CASE StaTeardownFails
  BY <1>24 DEF StaTeardownFails, DebtInv, DebtCovers, EditsAreMarked, ExemptIsClean,
     ProvedIsClean
<1>25. CASE StaComplete
  BY <1>25 DEF StaComplete, DebtInv, DebtCovers, EditsAreMarked, ExemptIsClean,
     ProvedIsClean
<1>26. CASE StaUnreleased
  BY <1>26 DEF StaUnreleased, DebtInv, DebtCovers, EditsAreMarked, ExemptIsClean,
     ProvedIsClean
<1>27. ASSUME NEW c \in Cmds, NEW k \in Kinds, NEW p \in PriorDirty, ExecuteAdmit(c, k, p)
      PROVE  DebtInv'
  BY <1>27 DEF ExecuteAdmit, Admitted, CurAdmitted, CurOK, ObjectsOK, DebtInv,
     DebtCovers, EditsAreMarked, ExemptIsClean, ProvedIsClean
<1>28. ASSUME NEW c \in Closes, NEW p \in PriorDirty, CloseAdmit(c, p)
      PROVE  DebtInv'
  BY <1>28 DEF CloseAdmit, DebtInv, DebtCovers, EditsAreMarked, ExemptIsClean,
     ProvedIsClean
<1>29. CASE CloseRefused
  BY <1>29 DEF CloseRefused, DebtInv, DebtCovers, EditsAreMarked, ExemptIsClean,
     ProvedIsClean
<1>30. ASSUME NEW o \in Obj, Return(o)
      PROVE  DebtInv'
  BY <1>30 DEF Return, DebtInv, DebtCovers, EditsAreMarked, ExemptIsClean, ProvedIsClean
<1>31. ASSUME NEW o \in Obj, Expire(o)
      PROVE  DebtInv'
  BY <1>31 DEF Expire, DebtInv, DebtCovers, EditsAreMarked, ExemptIsClean, ProvedIsClean
<1>32. ASSUME NEW o \in Obj, TerminalizeLate(o)
      PROVE  DebtInv'
  BY <1>32 DEF TerminalizeLate, DebtInv, DebtCovers, EditsAreMarked, ExemptIsClean,
     ProvedIsClean
<1>33. ASSUME NEW o \in Obj, Terminalize(o)
      PROVE  DebtInv'
  BY <1>33 DEF Terminalize, DebtInv, DebtCovers, EditsAreMarked, ExemptIsClean,
     ProvedIsClean
<1>34. ASSUME NEW o \in Obj, Reconcile(o)
      PROVE  DebtInv'
  BY <1>34 DEF Reconcile, DebtInv, DebtCovers, EditsAreMarked, ExemptIsClean,
     ProvedIsClean
<1>35. ASSUME NEW a \in Ackers, NEW o \in Obj, AckMark(a, o)
      PROVE  DebtInv'
  BY <1>35 DEF AckMark, DebtInv, DebtCovers, EditsAreMarked, ExemptIsClean,
     ProvedIsClean
<1>36. ASSUME NEW a \in Ackers, AckAllow(a)
      PROVE  DebtInv'
  BY <1>36 DEF AckAllow, DebtInv, DebtCovers, EditsAreMarked, ExemptIsClean,
     ProvedIsClean
<1>37. ASSUME NEW a \in Ackers, AckRevert(a)
      PROVE  DebtInv'
  BY <1>37 DEF AckRevert, DebtInv, DebtCovers, EditsAreMarked, ExemptIsClean,
     ProvedIsClean
<1>38. CASE Reap
  BY <1>38 DEF Reap, DebtInv, DebtCovers, EditsAreMarked, ExemptIsClean, ProvedIsClean
<1>39. CASE UNCHANGED vars
  BY <1>39 DEF DebtInv, DebtCovers, EditsAreMarked, ExemptIsClean, ProvedIsClean
<1>40. QED
  BY <1>1, <1>2, <1>3, <1>4, <1>5, <1>6, <1>7, <1>8, <1>9, <1>10, <1>11, <1>12, <1>13,
     <1>14, <1>15, <1>16, <1>17, <1>18, <1>19, <1>20, <1>21, <1>22, <1>23, <1>24, <1>25,
     <1>26, <1>27, <1>28, <1>29, <1>30, <1>31, <1>32, <1>33, <1>34, <1>35, <1>36, <1>37,
     <1>38, <1>39 DEF Next, Sta, Callers

\* The last edit comes before the first recovery copy.
LEMMA PreservedStep ==
    ASSUME TypeOK, CurOK, CustodyInv, [Next]_vars
    PROVE  PreservedIsClean'
<1> ObjectsOK /\ ControlOK /\ PreservedIsClean /\ LateIsTerminal
  BY DEF TypeOK, CustodyInv
<1> USE DEF vars, cmdVars, localVars, gateVars, nativeVars
<1>1. CASE StaStartFailsEarly
  BY <1>1 DEF StaStartFailsEarly, PreservedIsClean, SomePreserved
<1>2. CASE StaStartFailsLate
  BY <1>2 DEF StaStartFailsLate, Hold, PreservedIsClean, SomePreserved
<1>3. CASE StaOpened
  BY <1>3 DEF StaOpened, PreservedIsClean, SomePreserved
<1>4. CASE StaStarted
  BY <1>4 DEF StaStarted, PreservedIsClean, SomePreserved
<1>5. CASE StaSettleStart
  BY <1>5 DEF StaSettleStart, ObjectsOK, PreservedIsClean, SomePreserved
<1>6. CASE StaTake
  BY <1>6 DEF StaTake, PreservedIsClean, SomePreserved
<1>7. CASE StaSkip
  BY <1>7 DEF StaSkip, PreservedIsClean, SomePreserved
<1>8. CASE StaBegin
  BY <1>8 DEF StaBegin, PreservedIsClean, SomePreserved
<1>9. CASE StaHandler
  BY <1>9 DEF StaHandler, NativeNothing, NativeEdit, NativePrivateCopy, NativeSave,
     PreservedIsClean, SomePreserved
<1>10. CASE StaAssess
  BY <1>10 DEF StaAssess, PreservedIsClean, SomePreserved
<1>11. CASE StaSettle
  BY <1>11 DEF StaSettle, ObjectsOK, PreservedIsClean, SomePreserved
<1>12. CASE StaHold
  BY <1>12 DEF StaHold, Hold, ObjectsOK, Obj, PreservedIsClean, SomePreserved
<1>13. CASE StaReport
  BY <1>13 DEF StaReport, Hold, ObjectsOK, Obj, PreservedIsClean, SomePreserved
<1>14. CASE StaRecover
  <2>1. /\ UNCHANGED <<terminal, allow, acker>>
        /\ sta = "recovering" /\ sta' = "idle"
        /\ \/ recTarget # None /\ ~unsaved'
           \/ /\ UNCHANGED unsaved
              /\ recovery' = IF recTarget # None /\ recovery[recTarget] # "preserved"
                             THEN [recovery EXCEPT ![recTarget] = "failed"] ELSE recovery
    BY <1>14, Zenon DEF StaRecover, gateVars
  <2>2. CASE recTarget # None /\ ~unsaved'
    BY <2>1, <2>2 DEF LateIsTerminal, PreservedIsClean
  <2>3. CASE /\ UNCHANGED unsaved
             /\ recovery' = IF recTarget # None /\ recovery[recTarget] # "preserved"
                            THEN [recovery EXCEPT ![recTarget] = "failed"] ELSE recovery
    BY <2>1, <2>3 DEF PreservedIsClean, SomePreserved, ObjectsOK
  <2>4. QED
    BY <2>1, <2>2, <2>3
<1>15. CASE StaReadFlag
  BY <1>15 DEF StaReadFlag, Hold, ObjectsOK, Obj, PreservedIsClean, SomePreserved
<1>16. CASE StaRefuseClose
  BY <1>16 DEF StaRefuseClose, PreservedIsClean, SomePreserved
<1>17. CASE StaReplyRefused
  BY <1>17 DEF StaReplyRefused, PreservedIsClean, SomePreserved
<1>18. CASE StaAcceptClose
  BY <1>18 DEF StaAcceptClose, PreservedIsClean, SomePreserved
<1>19. CASE StaPermit
  BY <1>19 DEF StaPermit, PreservedIsClean, SomePreserved
<1>20. CASE StaCheckClean
  BY <1>20 DEF StaCheckClean, PreservedIsClean, SomePreserved
<1>21. CASE StaCheckAgain
  BY <1>21 DEF StaCheckAgain, PreservedIsClean, SomePreserved
<1>22. CASE StaQuit
  BY <1>22 DEF StaQuit, PreservedIsClean, SomePreserved
<1>23. CASE StaExited
  BY <1>23 DEF StaExited, PreservedIsClean, SomePreserved
<1>24. CASE StaTeardownFails
  BY <1>24 DEF StaTeardownFails, Hold, ObjectsOK, Obj, PreservedIsClean, SomePreserved
<1>25. CASE StaComplete
  BY <1>25 DEF StaComplete, PreservedIsClean, SomePreserved
<1>26. CASE StaUnreleased
  BY <1>26 DEF StaUnreleased, PreservedIsClean, SomePreserved
<1>27. ASSUME NEW c \in Cmds, NEW k \in Kinds, NEW p \in PriorDirty, ExecuteAdmit(c, k, p)
      PROVE  PreservedIsClean'
  BY <1>27 DEF ExecuteAdmit, PreservedIsClean, SomePreserved
<1>28. ASSUME NEW c \in Closes, NEW p \in PriorDirty, CloseAdmit(c, p)
      PROVE  PreservedIsClean'
  BY <1>28 DEF CloseAdmit, PreservedIsClean, SomePreserved
<1>29. CASE CloseRefused
  BY <1>29 DEF CloseRefused, PreservedIsClean, SomePreserved
<1>30. ASSUME NEW o \in Obj, Return(o)
      PROVE  PreservedIsClean'
  BY <1>30 DEF Return, PreservedIsClean, SomePreserved
<1>31. ASSUME NEW o \in Obj, Expire(o)
      PROVE  PreservedIsClean'
  BY <1>31 DEF Expire, PreservedIsClean, SomePreserved
<1>32. ASSUME NEW o \in Obj, TerminalizeLate(o)
      PROVE  PreservedIsClean'
  BY <1>32 DEF TerminalizeLate, PreservedIsClean, SomePreserved
<1>33. ASSUME NEW o \in Obj, Terminalize(o)
      PROVE  PreservedIsClean'
  BY <1>33 DEF Terminalize, ObjectsOK, PreservedIsClean, SomePreserved
<1>34. ASSUME NEW o \in Obj, Reconcile(o)
      PROVE  PreservedIsClean'
  BY <1>34 DEF Reconcile, ObjectsOK, PreservedIsClean, SomePreserved
<1>35. ASSUME NEW a \in Ackers, NEW o \in Obj, AckMark(a, o)
      PROVE  PreservedIsClean'
  BY <1>35 DEF AckMark, ObjectsOK, Preserved, PreservedIsClean, SomePreserved
<1>36. ASSUME NEW a \in Ackers, AckAllow(a)
      PROVE  PreservedIsClean'
  BY <1>36 DEF AckAllow, ObjectsOK, PreservedIsClean, SomePreserved
<1>37. ASSUME NEW a \in Ackers, AckRevert(a)
      PROVE  PreservedIsClean'
  BY <1>37 DEF AckRevert, ObjectsOK, PreservedIsClean, SomePreserved
<1>38. CASE Reap
  BY <1>38 DEF Reap, PreservedIsClean, SomePreserved
<1>39. CASE UNCHANGED vars
  BY <1>39 DEF PreservedIsClean, SomePreserved
<1>40. QED
  BY <1>1, <1>2, <1>3, <1>4, <1>5, <1>6, <1>7, <1>8, <1>9, <1>10, <1>11, <1>12, <1>13,
     <1>14, <1>15, <1>16, <1>17, <1>18, <1>19, <1>20, <1>21, <1>22, <1>23, <1>24, <1>25,
     <1>26, <1>27, <1>28, <1>29, <1>30, <1>31, <1>32, <1>33, <1>34, <1>35, <1>36, <1>37,
     <1>38, <1>39 DEF Next, Sta, Callers

\* From the last check to the exit of the editor nothing changes the document,
\* and a hold keeps the owning thread away from it.
LEMMA QuitStep ==
    ASSUME TypeOK, CurOK, CustodyInv, [Next]_vars
    PROVE  QuitIsClean' /\ HeldStops'
<1> QuitIsClean /\ HeldStops /\ DebtInv /\ PreservedIsClean
  BY DEF CustodyInv
<1> USE DEF vars, cmdVars, localVars, gateVars, nativeVars
<1>1. CASE StaStartFailsEarly
  BY <1>1 DEF StaStartFailsEarly, QuitIsClean, HeldStops
<1>2. CASE StaStartFailsLate
  BY <1>2 DEF StaStartFailsLate, Hold, QuitIsClean, HeldStops
<1>3. CASE StaOpened
  BY <1>3 DEF StaOpened, QuitIsClean, HeldStops
<1>4. CASE StaStarted
  BY <1>4 DEF StaStarted, QuitIsClean, HeldStops
<1>5. CASE StaSettleStart
  BY <1>5 DEF StaSettleStart, QuitIsClean, HeldStops
<1>6. CASE StaTake
  BY <1>6 DEF StaTake, QuitIsClean, HeldStops
<1>7. CASE StaSkip
  BY <1>7 DEF StaSkip, QuitIsClean, HeldStops
<1>8. CASE StaBegin
  BY <1>8 DEF StaBegin, QuitIsClean, HeldStops
<1>9. CASE StaHandler
  BY <1>9 DEF StaHandler, NativeNothing, NativeEdit, NativePrivateCopy, NativeSave,
     QuitIsClean, HeldStops
<1>10. CASE StaAssess
  BY <1>10 DEF StaAssess, QuitIsClean, HeldStops
<1>11. CASE StaSettle
  BY <1>11 DEF StaSettle, QuitIsClean, HeldStops
<1>12. CASE StaHold
  BY <1>12 DEF StaHold, Hold, QuitIsClean, HeldStops
<1>13. CASE StaReport
  BY <1>13 DEF StaReport, Hold, QuitIsClean, HeldStops
<1>14. CASE StaRecover
  BY <1>14 DEF StaRecover, QuitIsClean, HeldStops
<1>15. CASE StaReadFlag
  BY <1>15 DEF StaReadFlag, Hold, QuitIsClean, HeldStops
<1>16. CASE StaRefuseClose
  BY <1>16 DEF StaRefuseClose, QuitIsClean, HeldStops
<1>17. CASE StaReplyRefused
  BY <1>17 DEF StaReplyRefused, QuitIsClean, HeldStops
<1>18. CASE StaAcceptClose
  BY <1>18 DEF StaAcceptClose, QuitIsClean, HeldStops
<1>19. CASE StaPermit
  BY <1>19 DEF StaPermit, QuitIsClean, HeldStops
<1>20. CASE StaCheckClean
  BY <1>20 DEF StaCheckClean, Healthy, DebtInv, DebtCovers, PreservedIsClean,
     SomePreserved, QuitIsClean, HeldStops
<1>21. CASE StaCheckAgain
  BY <1>21 DEF StaCheckAgain, Healthy, QuitIsClean, HeldStops
<1>22. CASE StaQuit
  BY <1>22 DEF StaQuit, QuitIsClean, HeldStops
<1>23. CASE StaExited
  BY <1>23 DEF StaExited, QuitIsClean, HeldStops
<1>24. CASE StaTeardownFails
  BY <1>24 DEF StaTeardownFails, Hold, QuitIsClean, HeldStops
<1>25. CASE StaComplete
  BY <1>25 DEF StaComplete, QuitIsClean, HeldStops
<1>26. CASE StaUnreleased
  BY <1>26 DEF StaUnreleased, QuitIsClean, HeldStops
<1>27. ASSUME NEW c \in Cmds, NEW k \in Kinds, NEW p \in PriorDirty, ExecuteAdmit(c, k, p)
      PROVE  QuitIsClean' /\ HeldStops'
  BY <1>27 DEF ExecuteAdmit, QuitIsClean, HeldStops
<1>28. ASSUME NEW c \in Closes, NEW p \in PriorDirty, CloseAdmit(c, p)
      PROVE  QuitIsClean' /\ HeldStops'
  BY <1>28 DEF CloseAdmit, QuitIsClean, HeldStops
<1>29. CASE CloseRefused
  BY <1>29 DEF CloseRefused, QuitIsClean, HeldStops
<1>30. ASSUME NEW o \in Obj, Return(o)
      PROVE  QuitIsClean' /\ HeldStops'
  BY <1>30 DEF Return, QuitIsClean, HeldStops
<1>31. ASSUME NEW o \in Obj, Expire(o)
      PROVE  QuitIsClean' /\ HeldStops'
  BY <1>31 DEF Expire, QuitIsClean, HeldStops
<1>32. ASSUME NEW o \in Obj, TerminalizeLate(o)
      PROVE  QuitIsClean' /\ HeldStops'
  BY <1>32 DEF TerminalizeLate, QuitIsClean, HeldStops
<1>33. ASSUME NEW o \in Obj, Terminalize(o)
      PROVE  QuitIsClean' /\ HeldStops'
  BY <1>33 DEF Terminalize, QuitIsClean, HeldStops
<1>34. ASSUME NEW o \in Obj, Reconcile(o)
      PROVE  QuitIsClean' /\ HeldStops'
  BY <1>34 DEF Reconcile, QuitIsClean, HeldStops
<1>35. ASSUME NEW a \in Ackers, NEW o \in Obj, AckMark(a, o)
      PROVE  QuitIsClean' /\ HeldStops'
  BY <1>35 DEF AckMark, QuitIsClean, HeldStops
<1>36. ASSUME NEW a \in Ackers, AckAllow(a)
      PROVE  QuitIsClean' /\ HeldStops'
  BY <1>36 DEF AckAllow, QuitIsClean, HeldStops
<1>37. ASSUME NEW a \in Ackers, AckRevert(a)
      PROVE  QuitIsClean' /\ HeldStops'
  BY <1>37 DEF AckRevert, QuitIsClean, HeldStops
<1>38. CASE Reap
  BY <1>38 DEF Reap, QuitIsClean, HeldStops
<1>39. CASE UNCHANGED vars
  BY <1>39 DEF QuitIsClean, HeldStops
<1>40. QED
  BY <1>1, <1>2, <1>3, <1>4, <1>5, <1>6, <1>7, <1>8, <1>9, <1>10, <1>11, <1>12, <1>13,
     <1>14, <1>15, <1>16, <1>17, <1>18, <1>19, <1>20, <1>21, <1>22, <1>23, <1>24, <1>25,
     <1>26, <1>27, <1>28, <1>29, <1>30, <1>31, <1>32, <1>33, <1>34, <1>35, <1>36, <1>37,
     <1>38, <1>39 DEF Next, Sta, Callers

\* A fresh session owes nothing.
LEMMA CustodyInit == Init => CustodyInv
  BY ConstantsAssumption DEF Init, CustodyInv, Admitted, CurAdmitted, CommandPoint,
     LateIsTerminal, Late, After, Obj, DebtInv, DebtCovers, EditsAreMarked, ExemptIsClean,
     ProvedIsClean, PreservedIsClean, SomePreserved, QuitIsClean, HeldStops

\* The conjuncts of custody, each kept by a lemma above, hold together.
LEMMA CustodyInvariant == Spec => [](TypeOK /\ CurOK /\ CustodyInv)
<1>1. TypeOK /\ CurOK /\ CustodyInv /\ [Next]_vars => CustodyInv'
  BY AdmittedStep, LateStep, DebtStep, PreservedStep, QuitStep DEF CustodyInv
<1>2. QED
  BY CustodyInit, TypeInvariant, <1>1, PTL DEF Spec

-----------------------------------------------------------------------------
\* The editor is told to quit only when every edit is in a file somebody can
\* use, whatever commands, timeouts, recoveries and closes are in flight.
\* (_normal_close_requires_save, _close_original_native)
THEOREM CustodyNeverDiscards == Spec => []NeverDiscards
<1>1. CustodyInv => NeverDiscards
  BY DEF CustodyInv, QuitIsClean, NeverDiscards
<1>2. QED
  BY CustodyInvariant, <1>1, PTL

-----------------------------------------------------------------------------
\* A step never ends a hold, and never touches the editor under one.
LEMMA HeldStep ==
    ASSUME CustodyInv, [Next]_vars, held
    PROVE  held' /\ app' = app
<1> HeldStops
  BY DEF CustodyInv
<1> USE DEF vars, cmdVars, localVars, gateVars, nativeVars
<1>1. CASE StaStartFailsEarly
  BY <1>1 DEF StaStartFailsEarly, HeldStops
<1>2. CASE StaStartFailsLate
  BY <1>2 DEF StaStartFailsLate, Hold, HeldStops
<1>3. CASE StaOpened
  BY <1>3 DEF StaOpened, HeldStops
<1>4. CASE StaStarted
  BY <1>4 DEF StaStarted, HeldStops
<1>5. CASE StaSettleStart
  BY <1>5 DEF StaSettleStart, HeldStops
<1>6. CASE StaTake
  BY <1>6 DEF StaTake, HeldStops
<1>7. CASE StaSkip
  BY <1>7 DEF StaSkip, HeldStops
<1>8. CASE StaBegin
  BY <1>8 DEF StaBegin, HeldStops
<1>9. CASE StaHandler
  BY <1>9 DEF StaHandler, HeldStops
<1>10. CASE StaAssess
  BY <1>10 DEF StaAssess, HeldStops
<1>11. CASE StaSettle
  BY <1>11 DEF StaSettle, HeldStops
<1>12. CASE StaHold
  BY <1>12 DEF StaHold, Hold, HeldStops
<1>13. CASE StaReport
  BY <1>13 DEF StaReport, Hold, HeldStops
<1>14. CASE StaRecover
  BY <1>14 DEF StaRecover, HeldStops
<1>15. CASE StaReadFlag
  BY <1>15 DEF StaReadFlag, Hold, HeldStops
<1>16. CASE StaRefuseClose
  BY <1>16 DEF StaRefuseClose, HeldStops
<1>17. CASE StaReplyRefused
  BY <1>17 DEF StaReplyRefused, HeldStops
<1>18. CASE StaAcceptClose
  BY <1>18 DEF StaAcceptClose, HeldStops
<1>19. CASE StaPermit
  BY <1>19 DEF StaPermit, HeldStops
<1>20. CASE StaCheckClean
  BY <1>20 DEF StaCheckClean, HeldStops
<1>21. CASE StaCheckAgain
  BY <1>21 DEF StaCheckAgain, HeldStops
<1>22. CASE StaQuit
  BY <1>22 DEF StaQuit, HeldStops
<1>23. CASE StaExited
  BY <1>23 DEF StaExited, HeldStops
<1>24. CASE StaTeardownFails
  BY <1>24 DEF StaTeardownFails, Hold, HeldStops
<1>25. CASE StaComplete
  BY <1>25 DEF StaComplete, HeldStops
<1>26. CASE StaUnreleased
  BY <1>26 DEF StaUnreleased, HeldStops
<1>27. ASSUME NEW c \in Cmds, NEW k \in Kinds, NEW p \in PriorDirty, ExecuteAdmit(c, k, p)
      PROVE  held' /\ app' = app
  BY <1>27 DEF ExecuteAdmit, HeldStops
<1>28. ASSUME NEW c \in Closes, NEW p \in PriorDirty, CloseAdmit(c, p)
      PROVE  held' /\ app' = app
  BY <1>28 DEF CloseAdmit, HeldStops
<1>29. CASE CloseRefused
  BY <1>29 DEF CloseRefused, HeldStops
<1>30. ASSUME NEW o \in Obj, Return(o)
      PROVE  held' /\ app' = app
  BY <1>30 DEF Return, HeldStops
<1>31. ASSUME NEW o \in Obj, Expire(o)
      PROVE  held' /\ app' = app
  BY <1>31 DEF Expire, HeldStops
<1>32. ASSUME NEW o \in Obj, TerminalizeLate(o)
      PROVE  held' /\ app' = app
  BY <1>32 DEF TerminalizeLate, HeldStops
<1>33. ASSUME NEW o \in Obj, Terminalize(o)
      PROVE  held' /\ app' = app
  BY <1>33 DEF Terminalize, HeldStops
<1>34. ASSUME NEW o \in Obj, Reconcile(o)
      PROVE  held' /\ app' = app
  BY <1>34 DEF Reconcile, HeldStops
<1>35. ASSUME NEW a \in Ackers, NEW o \in Obj, AckMark(a, o)
      PROVE  held' /\ app' = app
  BY <1>35 DEF AckMark, HeldStops
<1>36. ASSUME NEW a \in Ackers, AckAllow(a)
      PROVE  held' /\ app' = app
  BY <1>36 DEF AckAllow, HeldStops
<1>37. ASSUME NEW a \in Ackers, AckRevert(a)
      PROVE  held' /\ app' = app
  BY <1>37 DEF AckRevert, HeldStops
<1>38. CASE Reap
  BY <1>38 DEF Reap, HeldStops
<1>39. CASE UNCHANGED vars
  BY <1>39 DEF HeldStops
<1>40. QED
  BY <1>1, <1>2, <1>3, <1>4, <1>5, <1>6, <1>7, <1>8, <1>9, <1>10, <1>11, <1>12, <1>13,
     <1>14, <1>15, <1>16, <1>17, <1>18, <1>19, <1>20, <1>21, <1>22, <1>23, <1>24, <1>25,
     <1>26, <1>27, <1>28, <1>29, <1>30, <1>31, <1>32, <1>33, <1>34, <1>35, <1>36, <1>37,
     <1>38, <1>39 DEF Next, Sta, Callers

\* A hold lasts for the life of the process and no teardown starts under it.
\* (_hold_native_custody)
THEOREM HoldIsForever == Spec => HeldIsFinal
<1>1. TypeOK /\ CurOK /\ CustodyInv /\ [Next]_vars => [held => held' /\ app' = app]_vars
  BY HeldStep
<1>2. QED
  BY CustodyInvariant, <1>1, PTL DEF Spec, HeldIsFinal

-----------------------------------------------------------------------------
(* What ran, what timed out, and what permits a release. *)

\* A command is in one place at a time: once in the queue, or in the hands of the
\* owning thread, and its handler is entered from there only.
Begun == {"none", "queued", "cancelled"}
RanOK == \A c \in ran : state[c] \notin Begun
WaitOK == \A i \in DOMAIN queue : queue[i] \in Cmds =>
              /\ queue[i] \notin ran /\ caller[queue[i]] # "idle"
              /\ \A j \in DOMAIN queue : queue[i] = queue[j] => i = j
HandsOK == sta \in CommandPoint => /\ caller[cur] # "idle"
                                   /\ \A i \in DOMAIN queue : queue[i] # cur
                                   /\ sta # "took" => cur \in ran
RanInv == RanOK /\ WaitOK /\ HandsOK

\* An item joins the queue behind the others.
LEMMA Joined ==
    ASSUME NEW q \in Seq(Items), NEW e \in Items
    PROVE  /\ DOMAIN Append(q, e) = DOMAIN q \cup {Len(q) + 1}
           /\ Len(q) + 1 \notin DOMAIN q
           /\ Append(q, e)[Len(q) + 1] = e
           /\ \A i \in DOMAIN q : Append(q, e)[i] = q[i]
  OBVIOUS

\* Whatever joins the queue, the commands in it stay where they were and unique.
LEMMA JoinKeeps ==
    ASSUME TypeOK, WaitOK, HandsOK,
           NEW e \in Items, queue' \in {queue, Append(queue, e)},
           UNCHANGED <<ran, sta, cur>>,
           \A o \in Obj : caller[o] # "idle" => caller'[o] # "idle",
           e \in Cmds => caller[e] = "idle" /\ caller'[e] # "idle" /\ e \notin ran,
           sta \in CommandPoint => cur \in Cmds /\ cur # e
    PROVE  WaitOK' /\ HandsOK'
<1>1. ControlOK
  BY DEF TypeOK
<1>2. CASE queue' = queue
  BY <1>1, <1>2 DEF WaitOK, HandsOK, Obj, CommandPoint
<1>3. CASE queue' = Append(queue, e)
  <2>1. PICK n : /\ DOMAIN queue' = DOMAIN queue \cup {n}
                 /\ queue'[n] = e
                 /\ \A i \in DOMAIN queue : queue'[i] = queue[i]
    BY <1>1, <1>3, Joined DEF ControlOK
  <2>2. WaitOK'
    <3>1. \A i \in DOMAIN queue : e \in Cmds => queue[i] # e
      BY DEF WaitOK
    <3>2. QED
      BY <2>1, <3>1 DEF WaitOK, Obj
  <2>3. HandsOK'
    BY <2>1 DEF HandsOK, Obj, CommandPoint
  <2>4. QED
    BY <2>2, <2>3
<1>4. QED
  BY <1>2, <1>3

\* A step moves a command from its place to the next, or leaves it.
LEMMA RanStep ==
    ASSUME TypeOK, CurOK, Admitted, RanInv, [Next]_vars
    PROVE  RanInv'
<1> ObjectsOK /\ ControlOK
  BY DEF TypeOK
<1> None \notin Cmds /\ Cmds \cap Closes = {} /\ Start \notin Cmds /\ Recover \notin Cmds
  BY ConstantsAssumption DEF Obj
<1> USE DEF CommandPoint, ClosePoint, Begun, Items, Obj
<1> USE DEF vars, cmdVars, localVars, gateVars, nativeVars
<1>1. CASE StaStartFailsEarly
  BY <1>1 DEF StaStartFailsEarly, RanInv, RanOK, WaitOK, HandsOK, Admitted, ObjectsOK,
     ControlOK, CurOK
<1>2. CASE StaStartFailsLate
  BY <1>2 DEF StaStartFailsLate, Hold, RanInv, RanOK, WaitOK, HandsOK, Admitted,
     ObjectsOK, ControlOK, CurOK
<1>3. CASE StaOpened
  BY <1>3 DEF StaOpened, RanInv, RanOK, WaitOK, HandsOK, Admitted, ObjectsOK, ControlOK,
     CurOK
<1>4. CASE StaStarted
  BY <1>4 DEF StaStarted, RanInv, RanOK, WaitOK, HandsOK, Admitted, ObjectsOK,
     ControlOK, CurOK
<1>5. CASE StaSettleStart
  <2>1. RanOK'
    BY <1>5 DEF StaSettleStart, RanInv, RanOK, WaitOK, HandsOK, Admitted, ObjectsOK,
       ControlOK, CurOK
  <2>2. WaitOK'
    BY <1>5 DEF StaSettleStart, RanInv, RanOK, WaitOK, HandsOK, Admitted, ObjectsOK,
       ControlOK, CurOK
  <2>3. HandsOK'
    BY <1>5 DEF StaSettleStart, RanInv, RanOK, WaitOK, HandsOK, Admitted, ObjectsOK,
       ControlOK, CurOK
  <2>4. QED
    BY <2>1, <2>2, <2>3 DEF RanInv
<1>6. CASE StaTake
  BY <1>6 DEF StaTake, RanInv, RanOK, WaitOK, HandsOK, Admitted, ObjectsOK, ControlOK,
     CurOK
<1>7. CASE StaSkip
  <2>1. RanOK'
    BY <1>7 DEF StaSkip, RanInv, RanOK, WaitOK, HandsOK, Admitted, ObjectsOK, ControlOK,
       CurOK
  <2>2. WaitOK'
    BY <1>7 DEF StaSkip, RanInv, RanOK, WaitOK, HandsOK, Admitted, ObjectsOK, ControlOK,
       CurOK
  <2>3. HandsOK'
    BY <1>7 DEF StaSkip, RanInv, RanOK, WaitOK, HandsOK, Admitted, ObjectsOK, ControlOK,
       CurOK
  <2>4. QED
    BY <2>1, <2>2, <2>3 DEF RanInv
<1>8. CASE StaBegin
  <2>1. RanOK'
    BY <1>8 DEF StaBegin, RanInv, RanOK, WaitOK, HandsOK, Admitted, ObjectsOK, ControlOK,
       CurOK
  <2>2. WaitOK'
    BY <1>8 DEF StaBegin, RanInv, RanOK, WaitOK, HandsOK, Admitted, ObjectsOK, ControlOK,
       CurOK
  <2>3. HandsOK'
    BY <1>8 DEF StaBegin, RanInv, RanOK, WaitOK, HandsOK, Admitted, ObjectsOK, ControlOK,
       CurOK
  <2>4. QED
    BY <2>1, <2>2, <2>3 DEF RanInv
<1>9. CASE StaHandler
  BY <1>9 DEF StaHandler, RanInv, RanOK, WaitOK, HandsOK, Admitted, ObjectsOK,
     ControlOK, CurOK
<1>10. CASE StaAssess
  BY <1>10 DEF StaAssess, RanInv, RanOK, WaitOK, HandsOK, Admitted, ObjectsOK,
     ControlOK, CurOK
<1>11. CASE StaSettle
  BY <1>11 DEF StaSettle, Settled, After, RanInv, RanOK, WaitOK, HandsOK, Admitted,
     ObjectsOK, ControlOK, CurOK
<1>12. CASE StaHold
  BY <1>12 DEF StaHold, Hold, Settled, After, RanInv, RanOK, WaitOK, HandsOK, Admitted,
     ObjectsOK, ControlOK, CurOK
<1>13. CASE StaReport
  BY <1>13 DEF StaReport, Hold, RanInv, RanOK, WaitOK, HandsOK, Admitted, ObjectsOK,
     ControlOK, CurOK
<1>14. CASE StaRecover
  BY <1>14 DEF StaRecover, RanInv, RanOK, WaitOK, HandsOK, Admitted, ObjectsOK,
     ControlOK, CurOK
<1>15. CASE StaReadFlag
  BY <1>15 DEF StaReadFlag, Hold, RanInv, RanOK, WaitOK, HandsOK, Admitted, ObjectsOK,
     ControlOK, CurOK
<1>16. CASE StaRefuseClose
  BY <1>16 DEF StaRefuseClose, RanInv, RanOK, WaitOK, HandsOK, Admitted, ObjectsOK,
     ControlOK, CurOK
<1>17. CASE StaReplyRefused
  BY <1>17 DEF StaReplyRefused, RanInv, RanOK, WaitOK, HandsOK, Admitted, ObjectsOK,
     ControlOK, CurOK
<1>18. CASE StaAcceptClose
  BY <1>18 DEF StaAcceptClose, CloseMustWait, RanInv, RanOK, WaitOK, HandsOK, Admitted,
     ObjectsOK, ControlOK, CurOK
<1>19. CASE StaPermit
  BY <1>19 DEF StaPermit, RanInv, RanOK, WaitOK, HandsOK, Admitted, ObjectsOK,
     ControlOK, CurOK
<1>20. CASE StaCheckClean
  BY <1>20 DEF StaCheckClean, RanInv, RanOK, WaitOK, HandsOK, Admitted, ObjectsOK,
     ControlOK, CurOK
<1>21. CASE StaCheckAgain
  BY <1>21 DEF StaCheckAgain, RanInv, RanOK, WaitOK, HandsOK, Admitted, ObjectsOK,
     ControlOK, CurOK
<1>22. CASE StaQuit
  BY <1>22 DEF StaQuit, RanInv, RanOK, WaitOK, HandsOK, Admitted, ObjectsOK, ControlOK,
     CurOK
<1>23. CASE StaExited
  BY <1>23 DEF StaExited, RanInv, RanOK, WaitOK, HandsOK, Admitted, ObjectsOK,
     ControlOK, CurOK
<1>24. CASE StaTeardownFails
  BY <1>24 DEF StaTeardownFails, Hold, RanInv, RanOK, WaitOK, HandsOK, Admitted,
     ObjectsOK, ControlOK, CurOK
<1>25. CASE StaComplete
  <2>1. RanOK'
    BY <1>25 DEF StaComplete, Settled, DrainState, After, Queued, Registry, RanInv, RanOK,
       WaitOK, HandsOK, Admitted, ObjectsOK, ControlOK, CurOK
  <2>2. WaitOK'
    BY <1>25 DEF StaComplete, Settled, DrainState, After, Queued, Registry, RanInv, RanOK,
       WaitOK, HandsOK, Admitted, ObjectsOK, ControlOK, CurOK
  <2>3. HandsOK'
    BY <1>25 DEF StaComplete, Settled, DrainState, After, Queued, Registry, RanInv, RanOK,
       WaitOK, HandsOK, Admitted, ObjectsOK, ControlOK, CurOK
  <2>4. QED
    BY <2>1, <2>2, <2>3 DEF RanInv
<1>26. CASE StaUnreleased
  <2>1. RanOK'
    BY <1>26 DEF StaUnreleased, Settled, DrainState, After, Queued, RanInv, RanOK, WaitOK,
       HandsOK, Admitted, ObjectsOK, ControlOK, CurOK
  <2>2. WaitOK'
    BY <1>26 DEF StaUnreleased, Settled, DrainState, After, Queued, RanInv, RanOK, WaitOK,
       HandsOK, Admitted, ObjectsOK, ControlOK, CurOK
  <2>3. HandsOK'
    BY <1>26 DEF StaUnreleased, Settled, DrainState, After, Queued, RanInv, RanOK, WaitOK,
       HandsOK, Admitted, ObjectsOK, ControlOK, CurOK
  <2>4. QED
    BY <2>1, <2>2, <2>3 DEF RanInv
<1>27. ASSUME NEW c \in Cmds, NEW k \in Kinds, NEW p \in PriorDirty, ExecuteAdmit(c, k, p)
      PROVE  RanInv'
  <2>1. RanOK'
    BY <1>27 DEF ExecuteAdmit, RanInv, RanOK, Admitted, ObjectsOK, ControlOK
  <2>2. /\ queue' \in {queue, Append(queue, c)}
        /\ UNCHANGED <<ran, sta, cur>>
        /\ \A x \in Obj : caller[x] # "idle" => caller'[x] # "idle"
        /\ c \in Cmds => caller[c] = "idle" /\ caller'[c] # "idle"
                     /\ c \notin ran
        /\ sta \in CommandPoint => cur \in Cmds /\ cur # c
    BY <1>27 DEF ExecuteAdmit, RanInv, RanOK, HandsOK, Admitted, ObjectsOK, ControlOK, CurOK
  <2>3. QED
    BY <2>1, <2>2, JoinKeeps DEF RanInv
<1>28. ASSUME NEW c \in Closes, NEW p \in PriorDirty, CloseAdmit(c, p)
      PROVE  RanInv'
  <2>1. RanOK'
    BY <1>28 DEF CloseAdmit, RanInv, RanOK, Admitted, ObjectsOK, ControlOK
  <2>2. /\ queue' \in {queue, Append(queue, c)}
        /\ UNCHANGED <<ran, sta, cur>>
        /\ \A x \in Obj : caller[x] # "idle" => caller'[x] # "idle"
        /\ c \in Cmds => caller[c] = "idle" /\ caller'[c] # "idle"
                     /\ c \notin ran
        /\ sta \in CommandPoint => cur \in Cmds /\ cur # c
    BY <1>28 DEF CloseAdmit, RanInv, RanOK, HandsOK, Admitted, ObjectsOK, ControlOK, CurOK
  <2>3. QED
    BY <2>1, <2>2, JoinKeeps DEF RanInv
<1>29. CASE CloseRefused
  BY <1>29 DEF CloseRefused, RanInv, RanOK, WaitOK, HandsOK, Admitted, ObjectsOK,
     ControlOK, CurOK
<1>30. ASSUME NEW o \in Obj, Return(o)
      PROVE  RanInv'
  BY <1>30 DEF Return, RanInv, RanOK, WaitOK, HandsOK, Admitted, ObjectsOK, ControlOK,
     CurOK
<1>31. ASSUME NEW o \in Obj, Expire(o)
      PROVE  RanInv'
  BY <1>31 DEF Expire, RanInv, RanOK, WaitOK, HandsOK, Admitted, ObjectsOK, ControlOK,
     CurOK
<1>32. ASSUME NEW o \in Obj, TerminalizeLate(o)
      PROVE  RanInv'
  BY <1>32 DEF TerminalizeLate, RanInv, RanOK, WaitOK, HandsOK, Admitted, ObjectsOK,
     ControlOK, CurOK
<1>33. ASSUME NEW o \in Obj, Terminalize(o)
      PROVE  RanInv'
  <2>1. RanOK'
    BY <1>33 DEF Terminalize, LateState, DrainState, After, Queued, RanInv, RanOK, WaitOK,
       HandsOK, Admitted, ObjectsOK, ControlOK, CurOK
  <2>2. WaitOK'
    BY <1>33 DEF Terminalize, LateState, DrainState, After, Queued, RanInv, RanOK, WaitOK,
       HandsOK, Admitted, ObjectsOK, ControlOK, CurOK
  <2>3. HandsOK'
    BY <1>33 DEF Terminalize, LateState, DrainState, After, Queued, RanInv, RanOK, WaitOK,
       HandsOK, Admitted, ObjectsOK, ControlOK, CurOK
  <2>4. QED
    BY <2>1, <2>2, <2>3 DEF RanInv
<1>34. ASSUME NEW o \in Obj, Reconcile(o)
      PROVE  RanInv'
  <2>1. RanOK'
    BY <1>34 DEF Reconcile, RanInv, RanOK, Admitted, ObjectsOK, ControlOK
  <2>2. /\ queue' \in {queue, Append(queue, Recover)}
        /\ UNCHANGED <<ran, sta, cur>>
        /\ \A x \in Obj : caller[x] # "idle" => caller'[x] # "idle"
        /\ Recover \in Cmds => caller[Recover] = "idle" /\ caller'[Recover] # "idle"
                     /\ Recover \notin ran
        /\ sta \in CommandPoint => cur \in Cmds /\ cur # Recover
    BY <1>34 DEF Reconcile, RanInv, RanOK, HandsOK, Admitted, ObjectsOK, ControlOK, CurOK
  <2>3. QED
    BY <2>1, <2>2, JoinKeeps DEF RanInv
<1>35. ASSUME NEW a \in Ackers, NEW o \in Obj, AckMark(a, o)
      PROVE  RanInv'
  BY <1>35 DEF AckMark, RanInv, RanOK, WaitOK, HandsOK, Admitted, ObjectsOK, ControlOK,
     CurOK
<1>36. ASSUME NEW a \in Ackers, AckAllow(a)
      PROVE  RanInv'
  BY <1>36 DEF AckAllow, RanInv, RanOK, WaitOK, HandsOK, Admitted, ObjectsOK, ControlOK,
     CurOK
<1>37. ASSUME NEW a \in Ackers, AckRevert(a)
      PROVE  RanInv'
  BY <1>37 DEF AckRevert, RanInv, RanOK, WaitOK, HandsOK, Admitted, ObjectsOK,
     ControlOK, CurOK
<1>38. CASE Reap
  BY <1>38 DEF Reap, RanInv, RanOK, WaitOK, HandsOK, Admitted, ObjectsOK, ControlOK,
     CurOK
<1>39. CASE UNCHANGED vars
  BY <1>39 DEF RanInv, RanOK, WaitOK, HandsOK, Admitted, ObjectsOK, ControlOK, CurOK
<1>40. QED
  BY <1>1, <1>2, <1>3, <1>4, <1>5, <1>6, <1>7, <1>8, <1>9, <1>10, <1>11, <1>12, <1>13,
     <1>14, <1>15, <1>16, <1>17, <1>18, <1>19, <1>20, <1>21, <1>22, <1>23, <1>24, <1>25,
     <1>26, <1>27, <1>28, <1>29, <1>30, <1>31, <1>32, <1>33, <1>34, <1>35, <1>36, <1>37,
     <1>38, <1>39 DEF Next, Sta, Callers

-----------------------------------------------------------------------------
(* Why the recovery copy that a permission rests on is not taken away from it. *)

\* Only an object that timed out can settle late, and only such an object is
\* recovered.
LateTimed == /\ \A o \in Obj : state[o] \in Late => o \in timedOut
             /\ recTarget # None => recTarget \in timedOut
             /\ \A o \in timedOut : caller[o] # "idle"

\* A recovery waits for the owning thread, and no command is taken up after it.
NotBusy == SomePreserved =>
    sta \notin {"opening", "opened", "started", "running", "ran", "settling", "failing",
                "reporting"}

\* While the gate is shut there is one close sentinel at most; it stands for the
\* registered close, which has not timed out.
OneSentinel ==
    \A i \in DOMAIN queue : queue[i] \in Closes =>
        /\ closing /\ queue[i] = closeReg /\ queue[i] \notin timedOut
        /\ \A j \in DOMAIN queue : queue[j] \in Closes => i = j
InHand ==
    sta \in {"readingFlag", "deciding"} =>
        /\ \A i \in DOMAIN queue : queue[i] \notin Closes
        /\ closeReg = cur
        /\ (closing /\ cur \notin timedOut) \/ (quarantined /\ ~SomePreserved)
Leaving ==
    sta \in {"finalizing", "checking", "quitting", "issuing", "exiting"} /\ SomePreserved =>
        closeReg \notin timedOut
Sentinel == OneSentinel /\ InHand /\ Leaving

\* What is preserved belongs to a timeout; who acknowledges, and whoever was
\* permitted to release, did so on a copy that is still there.
Copies == /\ \A o \in Obj : recovery[o] = "preserved" => o \in timedOut
          /\ \A a \in Ackers : acker[a] # None => recovery[acker[a]] = "preserved"
          /\ allow => \E o \in Obj : recovery[o] = "preserved"

\* Something other than a close sentinel joins the queue.
LEMMA SentinelAlone ==
    ASSUME TypeOK, OneSentinel, NEW e \in Items \ Closes,
           queue' \in {queue, Append(queue, e)},
           UNCHANGED <<closing, closeReg, timedOut>>
    PROVE  /\ OneSentinel'
           /\ \A i \in DOMAIN queue' : queue'[i] \in Closes => /\ i \in DOMAIN queue
                                                               /\ queue[i] = queue'[i]
<1>1. ControlOK
  BY DEF TypeOK
<1>2. CASE queue' = queue
  BY <1>1, <1>2 DEF OneSentinel
<1>3. CASE queue' = Append(queue, e)
  <2>1. PICK n : /\ DOMAIN queue' = DOMAIN queue \cup {n}
                 /\ queue'[n] = e
                 /\ \A i \in DOMAIN queue : queue'[i] = queue[i]
    BY <1>1, <1>3, Joined DEF ControlOK
  <2>2. QED
    BY <2>1 DEF OneSentinel
<1>4. QED
  BY <1>2, <1>3

\* Only _terminalize_timeout makes an object late, and it records the timeout first.
LEMMA LateTimedStep ==
    ASSUME TypeOK, CurOK, LateTimed, [Next]_vars
    PROVE  LateTimed'
<1> ObjectsOK /\ ControlOK
  BY DEF TypeOK
<1> None \notin Obj /\ Cmds \cap Closes = {} /\ Recover \notin Obj
  BY ConstantsAssumption DEF Obj
<1> USE DEF CommandPoint, ClosePoint, Late, After
<1> USE DEF vars, cmdVars, localVars, gateVars, nativeVars
<1>1. CASE StaStartFailsEarly
  BY <1>1 DEF StaStartFailsEarly, LateTimed, ObjectsOK, ControlOK, CurOK
<1>2. CASE StaStartFailsLate
  BY <1>2 DEF StaStartFailsLate, LateTimed, ObjectsOK, ControlOK, CurOK
<1>3. CASE StaOpened
  BY <1>3 DEF StaOpened, LateTimed, ObjectsOK, ControlOK, CurOK
<1>4. CASE StaStarted
  BY <1>4 DEF StaStarted, LateTimed, ObjectsOK, ControlOK, CurOK
<1>5. CASE StaSettleStart
  BY <1>5 DEF StaSettleStart, LateTimed, ObjectsOK, ControlOK, CurOK
<1>6. CASE StaTake
  BY <1>6 DEF StaTake, LateTimed, ObjectsOK, ControlOK, CurOK
<1>7. CASE StaSkip
  BY <1>7 DEF StaSkip, LateTimed, ObjectsOK, ControlOK, CurOK
<1>8. CASE StaBegin
  BY <1>8 DEF StaBegin, LateTimed, ObjectsOK, ControlOK, CurOK
<1>9. CASE StaHandler
  BY <1>9 DEF StaHandler, LateTimed, ObjectsOK, ControlOK, CurOK
<1>10. CASE StaAssess
  BY <1>10 DEF StaAssess, LateTimed, ObjectsOK, ControlOK, CurOK
<1>11. CASE StaSettle
  BY <1>11 DEF StaSettle, Settled, LateTimed, ObjectsOK, ControlOK, CurOK
<1>12. CASE StaHold
  BY <1>12 DEF StaHold, Hold, Settled, LateTimed, ObjectsOK, ControlOK, CurOK
<1>13. CASE StaReport
  BY <1>13 DEF StaReport, LateTimed, ObjectsOK, ControlOK, CurOK
<1>14. CASE StaRecover
  BY <1>14 DEF StaRecover, LateTimed, ObjectsOK, ControlOK, CurOK
<1>15. CASE StaReadFlag
  BY <1>15 DEF StaReadFlag, LateTimed, ObjectsOK, ControlOK, CurOK
<1>16. CASE StaRefuseClose
  BY <1>16 DEF StaRefuseClose, LateTimed, ObjectsOK, ControlOK, CurOK
<1>17. CASE StaReplyRefused
  BY <1>17 DEF StaReplyRefused, LateTimed, ObjectsOK, ControlOK, CurOK
<1>18. CASE StaAcceptClose
  BY <1>18 DEF StaAcceptClose, LateTimed, ObjectsOK, ControlOK, CurOK
<1>19. CASE StaPermit
  BY <1>19 DEF StaPermit, LateTimed, ObjectsOK, ControlOK, CurOK
<1>20. CASE StaCheckClean
  BY <1>20 DEF StaCheckClean, LateTimed, ObjectsOK, ControlOK, CurOK
<1>21. CASE StaCheckAgain
  BY <1>21 DEF StaCheckAgain, LateTimed, ObjectsOK, ControlOK, CurOK
<1>22. CASE StaQuit
  BY <1>22 DEF StaQuit, LateTimed, ObjectsOK, ControlOK, CurOK
<1>23. CASE StaExited
  BY <1>23 DEF StaExited, LateTimed, ObjectsOK, ControlOK, CurOK
<1>24. CASE StaTeardownFails
  BY <1>24 DEF StaTeardownFails, LateTimed, ObjectsOK, ControlOK, CurOK
<1>25. CASE StaComplete
  BY <1>25 DEF StaComplete, Settled, DrainState, Registry, LateTimed, ObjectsOK,
     ControlOK, CurOK
<1>26. CASE StaUnreleased
  BY <1>26 DEF StaUnreleased, Settled, DrainState, LateTimed, ObjectsOK, ControlOK,
     CurOK
<1>27. ASSUME NEW c \in Cmds, NEW k \in Kinds, NEW p \in PriorDirty, ExecuteAdmit(c, k, p)
      PROVE  LateTimed'
  BY <1>27 DEF ExecuteAdmit, Obj, LateTimed, ObjectsOK, ControlOK, CurOK
<1>28. ASSUME NEW c \in Closes, NEW p \in PriorDirty, CloseAdmit(c, p)
      PROVE  LateTimed'
  BY <1>28 DEF CloseAdmit, Obj, LateTimed, ObjectsOK, ControlOK, CurOK
<1>29. CASE CloseRefused
  BY <1>29 DEF CloseRefused, LateTimed, ObjectsOK, ControlOK, CurOK
<1>30. ASSUME NEW o \in Obj, Return(o)
      PROVE  LateTimed'
  BY <1>30 DEF Return, LateTimed, ObjectsOK, ControlOK, CurOK
<1>31. ASSUME NEW o \in Obj, Expire(o)
      PROVE  LateTimed'
  BY <1>31 DEF Expire, LateTimed, ObjectsOK, ControlOK, CurOK
<1>32. ASSUME NEW o \in Obj, TerminalizeLate(o)
      PROVE  LateTimed'
  BY <1>32 DEF TerminalizeLate, LateTimed, ObjectsOK, ControlOK, CurOK
<1>33. ASSUME NEW o \in Obj, Terminalize(o)
      PROVE  LateTimed'
  BY <1>33 DEF Terminalize, LateState, DrainState, LateTimed, ObjectsOK, ControlOK,
     CurOK
<1>34. ASSUME NEW o \in Obj, Reconcile(o)
      PROVE  LateTimed'
  BY <1>34 DEF Reconcile, LateTimed, ObjectsOK, ControlOK, CurOK
<1>35. ASSUME NEW a \in Ackers, NEW o \in Obj, AckMark(a, o)
      PROVE  LateTimed'
  BY <1>35 DEF AckMark, LateTimed, ObjectsOK, ControlOK, CurOK
<1>36. ASSUME NEW a \in Ackers, AckAllow(a)
      PROVE  LateTimed'
  BY <1>36 DEF AckAllow, LateTimed, ObjectsOK, ControlOK, CurOK
<1>37. ASSUME NEW a \in Ackers, AckRevert(a)
      PROVE  LateTimed'
  BY <1>37 DEF AckRevert, LateTimed, ObjectsOK, ControlOK, CurOK
<1>38. CASE Reap
  BY <1>38 DEF Reap, LateTimed, ObjectsOK, ControlOK, CurOK
<1>39. CASE UNCHANGED vars
  BY <1>39 DEF LateTimed, ObjectsOK, ControlOK, CurOK
<1>40. QED
  BY <1>1, <1>2, <1>3, <1>4, <1>5, <1>6, <1>7, <1>8, <1>9, <1>10, <1>11, <1>12, <1>13,
     <1>14, <1>15, <1>16, <1>17, <1>18, <1>19, <1>20, <1>21, <1>22, <1>23, <1>24, <1>25,
     <1>26, <1>27, <1>28, <1>29, <1>30, <1>31, <1>32, <1>33, <1>34, <1>35, <1>36, <1>37,
     <1>38, <1>39 DEF Next, Sta, Callers

\* After a recovery the owning thread takes no command up: the session is terminal.
LEMMA NotBusyStep ==
    ASSUME TypeOK, PreservedIsClean, NotBusy, [Next]_vars
    PROVE  NotBusy'
<1> ObjectsOK /\ ControlOK
  BY DEF TypeOK
<1> None \notin Obj /\ Cmds \cap Closes = {} /\ Recover \notin Obj
  BY ConstantsAssumption DEF Obj
<1> USE DEF vars, cmdVars, localVars, gateVars, nativeVars
<1>1. CASE StaStartFailsEarly
  BY <1>1 DEF StaStartFailsEarly, NotBusy, SomePreserved, PreservedIsClean, ObjectsOK,
     ControlOK
<1>2. CASE StaStartFailsLate
  BY <1>2 DEF StaStartFailsLate, Hold, NotBusy, SomePreserved, PreservedIsClean,
     ObjectsOK, ControlOK
<1>3. CASE StaOpened
  BY <1>3 DEF StaOpened, NotBusy, SomePreserved, PreservedIsClean, ObjectsOK, ControlOK
<1>4. CASE StaStarted
  BY <1>4 DEF StaStarted, NotBusy, SomePreserved, PreservedIsClean, ObjectsOK, ControlOK
<1>5. CASE StaSettleStart
  BY <1>5 DEF StaSettleStart, NotBusy, SomePreserved, PreservedIsClean, ObjectsOK,
     ControlOK
<1>6. CASE StaTake
  BY <1>6 DEF StaTake, NotBusy, SomePreserved, PreservedIsClean, ObjectsOK, ControlOK
<1>7. CASE StaSkip
  BY <1>7 DEF StaSkip, NotBusy, SomePreserved, PreservedIsClean, ObjectsOK, ControlOK
<1>8. CASE StaBegin
  BY <1>8 DEF StaBegin, NotBusy, SomePreserved, PreservedIsClean, ObjectsOK, ControlOK
<1>9. CASE StaHandler
  BY <1>9 DEF StaHandler, NotBusy, SomePreserved, PreservedIsClean, ObjectsOK, ControlOK
<1>10. CASE StaAssess
  BY <1>10 DEF StaAssess, NotBusy, SomePreserved, PreservedIsClean, ObjectsOK, ControlOK
<1>11. CASE StaSettle
  BY <1>11 DEF StaSettle, NotBusy, SomePreserved, PreservedIsClean, ObjectsOK, ControlOK
<1>12. CASE StaHold
  BY <1>12 DEF StaHold, Hold, NotBusy, SomePreserved, PreservedIsClean, ObjectsOK,
     ControlOK
<1>13. CASE StaReport
  BY <1>13 DEF StaReport, Hold, NotBusy, SomePreserved, PreservedIsClean, ObjectsOK,
     ControlOK
<1>14. CASE StaRecover
  BY <1>14 DEF StaRecover, NotBusy, SomePreserved, PreservedIsClean, ObjectsOK,
     ControlOK
<1>15. CASE StaReadFlag
  BY <1>15 DEF StaReadFlag, Hold, NotBusy, SomePreserved, PreservedIsClean, ObjectsOK,
     ControlOK
<1>16. CASE StaRefuseClose
  BY <1>16 DEF StaRefuseClose, NotBusy, SomePreserved, PreservedIsClean, ObjectsOK,
     ControlOK
<1>17. CASE StaReplyRefused
  BY <1>17 DEF StaReplyRefused, NotBusy, SomePreserved, PreservedIsClean, ObjectsOK,
     ControlOK
<1>18. CASE StaAcceptClose
  BY <1>18 DEF StaAcceptClose, NotBusy, SomePreserved, PreservedIsClean, ObjectsOK,
     ControlOK
<1>19. CASE StaPermit
  BY <1>19 DEF StaPermit, NotBusy, SomePreserved, PreservedIsClean, ObjectsOK, ControlOK
<1>20. CASE StaCheckClean
  BY <1>20 DEF StaCheckClean, NotBusy, SomePreserved, PreservedIsClean, ObjectsOK,
     ControlOK
<1>21. CASE StaCheckAgain
  BY <1>21 DEF StaCheckAgain, NotBusy, SomePreserved, PreservedIsClean, ObjectsOK,
     ControlOK
<1>22. CASE StaQuit
  BY <1>22 DEF StaQuit, NotBusy, SomePreserved, PreservedIsClean, ObjectsOK, ControlOK
<1>23. CASE StaExited
  BY <1>23 DEF StaExited, NotBusy, SomePreserved, PreservedIsClean, ObjectsOK, ControlOK
<1>24. CASE StaTeardownFails
  BY <1>24 DEF StaTeardownFails, Hold, NotBusy, SomePreserved, PreservedIsClean,
     ObjectsOK, ControlOK
<1>25. CASE StaComplete
  BY <1>25 DEF StaComplete, NotBusy, SomePreserved, PreservedIsClean, ObjectsOK,
     ControlOK
<1>26. CASE StaUnreleased
  BY <1>26 DEF StaUnreleased, NotBusy, SomePreserved, PreservedIsClean, ObjectsOK,
     ControlOK
<1>27. ASSUME NEW c \in Cmds, NEW k \in Kinds, NEW p \in PriorDirty, ExecuteAdmit(c, k, p)
      PROVE  NotBusy'
  BY <1>27 DEF ExecuteAdmit, NotBusy, SomePreserved, PreservedIsClean, ObjectsOK,
     ControlOK
<1>28. ASSUME NEW c \in Closes, NEW p \in PriorDirty, CloseAdmit(c, p)
      PROVE  NotBusy'
  BY <1>28 DEF CloseAdmit, NotBusy, SomePreserved, PreservedIsClean, ObjectsOK,
     ControlOK
<1>29. CASE CloseRefused
  BY <1>29 DEF CloseRefused, NotBusy, SomePreserved, PreservedIsClean, ObjectsOK,
     ControlOK
<1>30. ASSUME NEW o \in Obj, Return(o)
      PROVE  NotBusy'
  BY <1>30 DEF Return, NotBusy, SomePreserved, PreservedIsClean, ObjectsOK, ControlOK
<1>31. ASSUME NEW o \in Obj, Expire(o)
      PROVE  NotBusy'
  BY <1>31 DEF Expire, NotBusy, SomePreserved, PreservedIsClean, ObjectsOK, ControlOK
<1>32. ASSUME NEW o \in Obj, TerminalizeLate(o)
      PROVE  NotBusy'
  BY <1>32 DEF TerminalizeLate, NotBusy, SomePreserved, PreservedIsClean, ObjectsOK,
     ControlOK
<1>33. ASSUME NEW o \in Obj, Terminalize(o)
      PROVE  NotBusy'
  BY <1>33 DEF Terminalize, NotBusy, SomePreserved, PreservedIsClean, ObjectsOK,
     ControlOK
<1>34. ASSUME NEW o \in Obj, Reconcile(o)
      PROVE  NotBusy'
  BY <1>34 DEF Reconcile, NotBusy, SomePreserved, PreservedIsClean, ObjectsOK, ControlOK
<1>35. ASSUME NEW a \in Ackers, NEW o \in Obj, AckMark(a, o)
      PROVE  NotBusy'
  BY <1>35 DEF AckMark, Preserved, NotBusy, SomePreserved, PreservedIsClean, ObjectsOK,
     ControlOK
<1>36. ASSUME NEW a \in Ackers, AckAllow(a)
      PROVE  NotBusy'
  BY <1>36 DEF AckAllow, NotBusy, SomePreserved, PreservedIsClean, ObjectsOK, ControlOK
<1>37. ASSUME NEW a \in Ackers, AckRevert(a)
      PROVE  NotBusy'
  BY <1>37 DEF AckRevert, NotBusy, SomePreserved, PreservedIsClean, ObjectsOK, ControlOK
<1>38. CASE Reap
  BY <1>38 DEF Reap, NotBusy, SomePreserved, PreservedIsClean, ObjectsOK, ControlOK
<1>39. CASE UNCHANGED vars
  BY <1>39 DEF NotBusy, SomePreserved, PreservedIsClean, ObjectsOK, ControlOK
<1>40. QED
  BY <1>1, <1>2, <1>3, <1>4, <1>5, <1>6, <1>7, <1>8, <1>9, <1>10, <1>11, <1>12, <1>13,
     <1>14, <1>15, <1>16, <1>17, <1>18, <1>19, <1>20, <1>21, <1>22, <1>23, <1>24, <1>25,
     <1>26, <1>27, <1>28, <1>29, <1>30, <1>31, <1>32, <1>33, <1>34, <1>35, <1>36, <1>37,
     <1>38, <1>39 DEF Next, Sta, Callers

\* close() enqueues its sentinel behind the gate it shut itself, so there is never a
\* second one.
LEMMA SentinelStep ==
    ASSUME TypeOK, CurOK, PreservedIsClean, LateTimed, NotBusy, Sentinel, [Next]_vars
    PROVE  Sentinel'
<1> ObjectsOK /\ ControlOK
  BY DEF TypeOK
<1> None \notin Obj /\ Cmds \cap Closes = {} /\ Recover \notin Obj
  BY ConstantsAssumption DEF Obj
<1> USE DEF vars, cmdVars, localVars, gateVars, nativeVars
<1>1. CASE StaStartFailsEarly
  BY <1>1 DEF StaStartFailsEarly, Sentinel, OneSentinel, InHand, Leaving, SomePreserved,
     NotBusy, LateTimed, PreservedIsClean, ObjectsOK, ControlOK, CurOK, CommandPoint,
     ClosePoint, Items
<1>2. CASE StaStartFailsLate
  BY <1>2 DEF StaStartFailsLate, Hold, Sentinel, OneSentinel, InHand, Leaving,
     SomePreserved, NotBusy, LateTimed, PreservedIsClean, ObjectsOK, ControlOK, CurOK,
     CommandPoint, ClosePoint, Items
<1>3. CASE StaOpened
  BY <1>3 DEF StaOpened, Sentinel, OneSentinel, InHand, Leaving, SomePreserved, NotBusy,
     LateTimed, PreservedIsClean, ObjectsOK, ControlOK, CurOK, CommandPoint, ClosePoint,
     Items
<1>4. CASE StaStarted
  BY <1>4 DEF StaStarted, Sentinel, OneSentinel, InHand, Leaving, SomePreserved,
     NotBusy, LateTimed, PreservedIsClean, ObjectsOK, ControlOK, CurOK, CommandPoint,
     ClosePoint, Items
<1>5. CASE StaSettleStart
  BY <1>5 DEF StaSettleStart, Sentinel, OneSentinel, InHand, Leaving, SomePreserved,
     NotBusy, LateTimed, PreservedIsClean, ObjectsOK, ControlOK, CurOK, CommandPoint,
     ClosePoint, Items
<1>6. CASE StaTake
  <2>1. /\ \A i \in DOMAIN queue' : /\ i + 1 \in DOMAIN queue
                                    /\ queue'[i] = queue[i + 1]
                                    /\ i + 1 # 1
        /\ 1 \in DOMAIN queue /\ cur' = queue[1]
        /\ \A i, j \in DOMAIN queue' : i + 1 = j + 1 => i = j
    BY <1>6 DEF StaTake, ControlOK
  <2>2. OneSentinel'
    BY <1>6, <2>1 DEF StaTake, Sentinel, OneSentinel
  <2>3. sta' \in {"readingFlag", "deciding"} => cur' \in Closes
    BY <1>6 DEF StaTake, ControlOK, Items
  <2>4. InHand'
    <3>1. ASSUME sta' \in {"readingFlag", "deciding"} PROVE queue[1] \in Closes
      BY <2>1, <2>3, <3>1
    <3>2. QED
      BY <1>6, <2>1, <3>1 DEF StaTake, Sentinel, OneSentinel, InHand
  <2>5. QED
    BY <1>6, <2>2, <2>4 DEF StaTake, Sentinel, Leaving
<1>7. CASE StaSkip
  BY <1>7 DEF StaSkip, Sentinel, OneSentinel, InHand, Leaving, SomePreserved, NotBusy,
     LateTimed, PreservedIsClean, ObjectsOK, ControlOK, CurOK, CommandPoint, ClosePoint,
     Items
<1>8. CASE StaBegin
  BY <1>8 DEF StaBegin, Sentinel, OneSentinel, InHand, Leaving, SomePreserved, NotBusy,
     LateTimed, PreservedIsClean, ObjectsOK, ControlOK, CurOK, CommandPoint, ClosePoint,
     Items
<1>9. CASE StaHandler
  BY <1>9 DEF StaHandler, Sentinel, OneSentinel, InHand, Leaving, SomePreserved,
     NotBusy, LateTimed, PreservedIsClean, ObjectsOK, ControlOK, CurOK, CommandPoint,
     ClosePoint, Items
<1>10. CASE StaAssess
  BY <1>10 DEF StaAssess, Sentinel, OneSentinel, InHand, Leaving, SomePreserved,
     NotBusy, LateTimed, PreservedIsClean, ObjectsOK, ControlOK, CurOK, CommandPoint,
     ClosePoint, Items
<1>11. CASE StaSettle
  BY <1>11 DEF StaSettle, Sentinel, OneSentinel, InHand, Leaving, SomePreserved,
     NotBusy, LateTimed, PreservedIsClean, ObjectsOK, ControlOK, CurOK, CommandPoint,
     ClosePoint, Items
<1>12. CASE StaHold
  BY <1>12 DEF StaHold, Hold, Sentinel, OneSentinel, InHand, Leaving, SomePreserved,
     NotBusy, LateTimed, PreservedIsClean, ObjectsOK, ControlOK, CurOK, CommandPoint,
     ClosePoint, Items
<1>13. CASE StaReport
  BY <1>13 DEF StaReport, Hold, Sentinel, OneSentinel, InHand, Leaving, SomePreserved,
     NotBusy, LateTimed, PreservedIsClean, ObjectsOK, ControlOK, CurOK, CommandPoint,
     ClosePoint, Items
<1>14. CASE StaRecover
  BY <1>14 DEF StaRecover, Sentinel, OneSentinel, InHand, Leaving, SomePreserved,
     NotBusy, LateTimed, PreservedIsClean, ObjectsOK, ControlOK, CurOK, CommandPoint,
     ClosePoint, Items
<1>15. CASE StaReadFlag
  BY <1>15 DEF StaReadFlag, Hold, Sentinel, OneSentinel, InHand, Leaving, SomePreserved,
     NotBusy, LateTimed, PreservedIsClean, ObjectsOK, ControlOK, CurOK, CommandPoint,
     ClosePoint, Items
<1>16. CASE StaRefuseClose
  BY <1>16 DEF StaRefuseClose, Sentinel, OneSentinel, InHand, Leaving, SomePreserved,
     NotBusy, LateTimed, PreservedIsClean, ObjectsOK, ControlOK, CurOK, CommandPoint,
     ClosePoint, Items
<1>17. CASE StaReplyRefused
  BY <1>17 DEF StaReplyRefused, Sentinel, OneSentinel, InHand, Leaving, SomePreserved,
     NotBusy, LateTimed, PreservedIsClean, ObjectsOK, ControlOK, CurOK, CommandPoint,
     ClosePoint, Items
<1>18. CASE StaAcceptClose
  BY <1>18 DEF StaAcceptClose, CloseMustWait, Sentinel, OneSentinel, InHand, Leaving,
     SomePreserved, NotBusy, LateTimed, PreservedIsClean, ObjectsOK, ControlOK, CurOK,
     CommandPoint, ClosePoint, Items
<1>19. CASE StaPermit
  BY <1>19 DEF StaPermit, Sentinel, OneSentinel, InHand, Leaving, SomePreserved,
     NotBusy, LateTimed, PreservedIsClean, ObjectsOK, ControlOK, CurOK, CommandPoint,
     ClosePoint, Items
<1>20. CASE StaCheckClean
  BY <1>20 DEF StaCheckClean, Sentinel, OneSentinel, InHand, Leaving, SomePreserved,
     NotBusy, LateTimed, PreservedIsClean, ObjectsOK, ControlOK, CurOK, CommandPoint,
     ClosePoint, Items
<1>21. CASE StaCheckAgain
  BY <1>21 DEF StaCheckAgain, Sentinel, OneSentinel, InHand, Leaving, SomePreserved,
     NotBusy, LateTimed, PreservedIsClean, ObjectsOK, ControlOK, CurOK, CommandPoint,
     ClosePoint, Items
<1>22. CASE StaQuit
  BY <1>22 DEF StaQuit, Sentinel, OneSentinel, InHand, Leaving, SomePreserved, NotBusy,
     LateTimed, PreservedIsClean, ObjectsOK, ControlOK, CurOK, CommandPoint, ClosePoint,
     Items
<1>23. CASE StaExited
  BY <1>23 DEF StaExited, Sentinel, OneSentinel, InHand, Leaving, SomePreserved,
     NotBusy, LateTimed, PreservedIsClean, ObjectsOK, ControlOK, CurOK, CommandPoint,
     ClosePoint, Items
<1>24. CASE StaTeardownFails
  BY <1>24 DEF StaTeardownFails, Hold, Sentinel, OneSentinel, InHand, Leaving,
     SomePreserved, NotBusy, LateTimed, PreservedIsClean, ObjectsOK, ControlOK, CurOK,
     CommandPoint, ClosePoint, Items
<1>25. CASE StaComplete
  BY <1>25 DEF StaComplete, Sentinel, OneSentinel, InHand, Leaving, SomePreserved,
     NotBusy, LateTimed, PreservedIsClean, ObjectsOK, ControlOK, CurOK, CommandPoint,
     ClosePoint, Items
<1>26. CASE StaUnreleased
  BY <1>26 DEF StaUnreleased, Sentinel, OneSentinel, InHand, Leaving, SomePreserved,
     NotBusy, LateTimed, PreservedIsClean, ObjectsOK, ControlOK, CurOK, CommandPoint,
     ClosePoint, Items
<1>27. ASSUME NEW c \in Cmds, NEW k \in Kinds, NEW p \in PriorDirty, ExecuteAdmit(c, k, p)
      PROVE  Sentinel'
  <2>1. c \in Items \ Closes /\ queue' \in {queue, Append(queue, c)}
    BY <1>27 DEF ExecuteAdmit, Items, Obj
  <2>2. UNCHANGED <<closing, closeReg, timedOut>>
    BY <1>27 DEF ExecuteAdmit
  <2>3. OneSentinel'
    BY <2>1, <2>2, SentinelAlone DEF Sentinel
  <2>4. \A i \in DOMAIN queue' : queue'[i] \in Closes => /\ i \in DOMAIN queue
                                                         /\ queue[i] = queue'[i]
    BY <2>1, <2>2, SentinelAlone DEF Sentinel
  <2>5. QED
    BY <1>27, <2>3, <2>4 DEF ExecuteAdmit, Sentinel, InHand, Leaving, SomePreserved,
       NotBusy, LateTimed, ObjectsOK, ControlOK, CurOK, ClosePoint
<1>28. ASSUME NEW c \in Closes, NEW p \in PriorDirty, CloseAdmit(c, p)
      PROVE  Sentinel'
  <2>1. \A i \in DOMAIN queue : queue[i] \notin Closes
    BY <1>28 DEF CloseAdmit, Sentinel, OneSentinel
  <2>2. PICK n : \A i \in DOMAIN queue' : \/ (i \in DOMAIN queue /\ queue'[i] = queue[i])
                                          \/ (i = n /\ queue'[i] = c)
    <3>1. CASE queue' = queue
      BY <3>1
    <3>2. CASE queue' = Append(queue, c)
      <4>1. PICK n : /\ DOMAIN queue' = DOMAIN queue \cup {n}
                     /\ queue'[n] = c
                     /\ \A i \in DOMAIN queue : queue'[i] = queue[i]
        BY <3>2, Joined DEF ControlOK, Items
      <4>2. QED
        BY <4>1
    <3>3. QED
      BY <1>28, <3>1, <3>2 DEF CloseAdmit
  <2>3. OneSentinel'
    BY <1>28, <2>1, <2>2 DEF CloseAdmit, OneSentinel, LateTimed, Obj
  <2>4. InHand'
    BY <1>28 DEF CloseAdmit, CloseFenced, Sentinel, InHand, SomePreserved
  <2>5. QED
    BY <1>28, <2>3, <2>4 DEF CloseAdmit, Sentinel, Leaving, LateTimed, Obj
<1>29. CASE CloseRefused
  BY <1>29 DEF CloseRefused, Sentinel, OneSentinel, InHand, Leaving, SomePreserved,
     NotBusy, LateTimed, PreservedIsClean, ObjectsOK, ControlOK, CurOK, CommandPoint,
     ClosePoint, Items
<1>30. ASSUME NEW o \in Obj, Return(o)
      PROVE  Sentinel'
  BY <1>30 DEF Return, Sentinel, OneSentinel, InHand, Leaving, SomePreserved, NotBusy,
     LateTimed, PreservedIsClean, ObjectsOK, ControlOK, CurOK, CommandPoint, ClosePoint,
     Items
<1>31. ASSUME NEW o \in Obj, Expire(o)
      PROVE  Sentinel'
  BY <1>31 DEF Expire, Sentinel, OneSentinel, InHand, Leaving, SomePreserved, NotBusy,
     LateTimed, PreservedIsClean, ObjectsOK, ControlOK, CurOK, CommandPoint, ClosePoint,
     Items
<1>32. ASSUME NEW o \in Obj, TerminalizeLate(o)
      PROVE  Sentinel'
  BY <1>32 DEF TerminalizeLate, Sentinel, OneSentinel, InHand, Leaving, SomePreserved,
     NotBusy, LateTimed, PreservedIsClean, ObjectsOK, ControlOK, CurOK, CommandPoint,
     ClosePoint, Items
<1>33. ASSUME NEW o \in Obj, Terminalize(o)
      PROVE  Sentinel'
  <2>1. ~SomePreserved /\ ~SomePreserved'
    BY <1>33 DEF Terminalize, FirstTimeout, PreservedIsClean, SomePreserved, ObjectsOK
  <2>2. queue' = <<>> /\ DOMAIN queue' = {}
    BY <1>33 DEF Terminalize
  <2>3. QED
    BY <1>33, <2>1, <2>2 DEF Terminalize, Sentinel, OneSentinel, InHand, Leaving
<1>34. ASSUME NEW o \in Obj, Reconcile(o)
      PROVE  Sentinel'
  <2>1. Recover \in Items \ Closes /\ queue' \in {queue, Append(queue, Recover)}
    BY <1>34 DEF Reconcile, Items, Obj
  <2>2. UNCHANGED <<closing, closeReg, timedOut>>
    BY <1>34 DEF Reconcile
  <2>3. OneSentinel'
    BY <2>1, <2>2, SentinelAlone DEF Sentinel
  <2>4. \A i \in DOMAIN queue' : queue'[i] \in Closes => /\ i \in DOMAIN queue
                                                         /\ queue[i] = queue'[i]
    BY <2>1, <2>2, SentinelAlone DEF Sentinel
  <2>5. QED
    BY <1>34, <2>3, <2>4 DEF Reconcile, Sentinel, InHand, Leaving, SomePreserved, NotBusy,
       LateTimed, ObjectsOK, ControlOK, CurOK, ClosePoint
<1>35. ASSUME NEW a \in Ackers, NEW o \in Obj, AckMark(a, o)
      PROVE  Sentinel'
  BY <1>35 DEF AckMark, Preserved, Sentinel, OneSentinel, InHand, Leaving,
     SomePreserved, NotBusy, LateTimed, PreservedIsClean, ObjectsOK, ControlOK, CurOK,
     CommandPoint, ClosePoint, Items
<1>36. ASSUME NEW a \in Ackers, AckAllow(a)
      PROVE  Sentinel'
  BY <1>36 DEF AckAllow, Sentinel, OneSentinel, InHand, Leaving, SomePreserved, NotBusy,
     LateTimed, PreservedIsClean, ObjectsOK, ControlOK, CurOK, CommandPoint, ClosePoint,
     Items
<1>37. ASSUME NEW a \in Ackers, AckRevert(a)
      PROVE  Sentinel'
  BY <1>37 DEF AckRevert, Sentinel, OneSentinel, InHand, Leaving, SomePreserved,
     NotBusy, LateTimed, PreservedIsClean, ObjectsOK, ControlOK, CurOK, CommandPoint,
     ClosePoint, Items
<1>38. CASE Reap
  BY <1>38 DEF Reap, Sentinel, OneSentinel, InHand, Leaving, SomePreserved, NotBusy,
     LateTimed, PreservedIsClean, ObjectsOK, ControlOK, CurOK, CommandPoint, ClosePoint,
     Items
<1>39. CASE UNCHANGED vars
  BY <1>39 DEF Sentinel, OneSentinel, InHand, Leaving, SomePreserved, NotBusy,
     LateTimed, PreservedIsClean, ObjectsOK, ControlOK, CurOK, CommandPoint, ClosePoint,
     Items
<1>40. QED
  BY <1>1, <1>2, <1>3, <1>4, <1>5, <1>6, <1>7, <1>8, <1>9, <1>10, <1>11, <1>12, <1>13,
     <1>14, <1>15, <1>16, <1>17, <1>18, <1>19, <1>20, <1>21, <1>22, <1>23, <1>24, <1>25,
     <1>26, <1>27, <1>28, <1>29, <1>30, <1>31, <1>32, <1>33, <1>34, <1>35, <1>36, <1>37,
     <1>38, <1>39 DEF Next, Sta, Callers

\* A preserved copy is given up only by the close that it permits.
LEMMA CopiesStep ==
    ASSUME TypeOK, CurOK, PreservedIsClean, LateTimed, NotBusy, Sentinel, Copies,
           [Next]_vars
    PROVE  Copies'
<1> ObjectsOK /\ ControlOK
  BY DEF TypeOK
<1> None \notin Obj /\ Cmds \cap Closes = {} /\ Recover \notin Obj
  BY ConstantsAssumption DEF Obj
<1> USE DEF vars, cmdVars, localVars, gateVars, nativeVars
<1>1. CASE StaStartFailsEarly
  BY <1>1 DEF StaStartFailsEarly, Copies, Sentinel, InHand, Leaving, SomePreserved,
     NotBusy, LateTimed, PreservedIsClean, ObjectsOK, ControlOK, CurOK, CommandPoint,
     ClosePoint
<1>2. CASE StaStartFailsLate
  BY <1>2 DEF StaStartFailsLate, Hold, Copies, Sentinel, InHand, Leaving, SomePreserved,
     NotBusy, LateTimed, PreservedIsClean, ObjectsOK, ControlOK, CurOK, CommandPoint,
     ClosePoint
<1>3. CASE StaOpened
  BY <1>3 DEF StaOpened, Copies, Sentinel, InHand, Leaving, SomePreserved, NotBusy,
     LateTimed, PreservedIsClean, ObjectsOK, ControlOK, CurOK, CommandPoint, ClosePoint
<1>4. CASE StaStarted
  BY <1>4 DEF StaStarted, Copies, Sentinel, InHand, Leaving, SomePreserved, NotBusy,
     LateTimed, PreservedIsClean, ObjectsOK, ControlOK, CurOK, CommandPoint, ClosePoint
<1>5. CASE StaSettleStart
  BY <1>5 DEF StaSettleStart, Copies, Sentinel, InHand, Leaving, SomePreserved, NotBusy,
     LateTimed, PreservedIsClean, ObjectsOK, ControlOK, CurOK, CommandPoint, ClosePoint
<1>6. CASE StaTake
  BY <1>6 DEF StaTake, Copies, Sentinel, InHand, Leaving, SomePreserved, NotBusy,
     LateTimed, PreservedIsClean, ObjectsOK, ControlOK, CurOK, CommandPoint, ClosePoint
<1>7. CASE StaSkip
  BY <1>7 DEF StaSkip, Copies, Sentinel, InHand, Leaving, SomePreserved, NotBusy,
     LateTimed, PreservedIsClean, ObjectsOK, ControlOK, CurOK, CommandPoint, ClosePoint
<1>8. CASE StaBegin
  BY <1>8 DEF StaBegin, Copies, Sentinel, InHand, Leaving, SomePreserved, NotBusy,
     LateTimed, PreservedIsClean, ObjectsOK, ControlOK, CurOK, CommandPoint, ClosePoint
<1>9. CASE StaHandler
  BY <1>9 DEF StaHandler, Copies, Sentinel, InHand, Leaving, SomePreserved, NotBusy,
     LateTimed, PreservedIsClean, ObjectsOK, ControlOK, CurOK, CommandPoint, ClosePoint
<1>10. CASE StaAssess
  BY <1>10 DEF StaAssess, Copies, Sentinel, InHand, Leaving, SomePreserved, NotBusy,
     LateTimed, PreservedIsClean, ObjectsOK, ControlOK, CurOK, CommandPoint, ClosePoint
<1>11. CASE StaSettle
  BY <1>11 DEF StaSettle, Copies, Sentinel, InHand, Leaving, SomePreserved, NotBusy,
     LateTimed, PreservedIsClean, ObjectsOK, ControlOK, CurOK, CommandPoint, ClosePoint
<1>12. CASE StaHold
  BY <1>12 DEF StaHold, Hold, Copies, Sentinel, InHand, Leaving, SomePreserved, NotBusy,
     LateTimed, PreservedIsClean, ObjectsOK, ControlOK, CurOK, CommandPoint, ClosePoint
<1>13. CASE StaReport
  BY <1>13 DEF StaReport, Hold, Copies, Sentinel, InHand, Leaving, SomePreserved,
     NotBusy, LateTimed, PreservedIsClean, ObjectsOK, ControlOK, CurOK, CommandPoint,
     ClosePoint
<1>14. CASE StaRecover
  BY <1>14 DEF StaRecover, Copies, Sentinel, InHand, Leaving, SomePreserved, NotBusy,
     LateTimed, PreservedIsClean, ObjectsOK, ControlOK, CurOK, CommandPoint, ClosePoint
<1>15. CASE StaReadFlag
  BY <1>15 DEF StaReadFlag, Hold, Copies, Sentinel, InHand, Leaving, SomePreserved,
     NotBusy, LateTimed, PreservedIsClean, ObjectsOK, ControlOK, CurOK, CommandPoint,
     ClosePoint
<1>16. CASE StaRefuseClose
  BY <1>16 DEF StaRefuseClose, Copies, Sentinel, InHand, Leaving, SomePreserved,
     NotBusy, LateTimed, PreservedIsClean, ObjectsOK, ControlOK, CurOK, CommandPoint,
     ClosePoint
<1>17. CASE StaReplyRefused
  BY <1>17 DEF StaReplyRefused, Copies, Sentinel, InHand, Leaving, SomePreserved,
     NotBusy, LateTimed, PreservedIsClean, ObjectsOK, ControlOK, CurOK, CommandPoint,
     ClosePoint
<1>18. CASE StaAcceptClose
  BY <1>18 DEF StaAcceptClose, Copies, Sentinel, InHand, Leaving, SomePreserved,
     NotBusy, LateTimed, PreservedIsClean, ObjectsOK, ControlOK, CurOK, CommandPoint,
     ClosePoint
<1>19. CASE StaPermit
  BY <1>19 DEF StaPermit, Copies, Sentinel, InHand, Leaving, SomePreserved, NotBusy,
     LateTimed, PreservedIsClean, ObjectsOK, ControlOK, CurOK, CommandPoint, ClosePoint
<1>20. CASE StaCheckClean
  BY <1>20 DEF StaCheckClean, Copies, Sentinel, InHand, Leaving, SomePreserved, NotBusy,
     LateTimed, PreservedIsClean, ObjectsOK, ControlOK, CurOK, CommandPoint, ClosePoint
<1>21. CASE StaCheckAgain
  BY <1>21 DEF StaCheckAgain, Copies, Sentinel, InHand, Leaving, SomePreserved, NotBusy,
     LateTimed, PreservedIsClean, ObjectsOK, ControlOK, CurOK, CommandPoint, ClosePoint
<1>22. CASE StaQuit
  BY <1>22 DEF StaQuit, Copies, Sentinel, InHand, Leaving, SomePreserved, NotBusy,
     LateTimed, PreservedIsClean, ObjectsOK, ControlOK, CurOK, CommandPoint, ClosePoint
<1>23. CASE StaExited
  BY <1>23 DEF StaExited, Copies, Sentinel, InHand, Leaving, SomePreserved, NotBusy,
     LateTimed, PreservedIsClean, ObjectsOK, ControlOK, CurOK, CommandPoint, ClosePoint
<1>24. CASE StaTeardownFails
  BY <1>24 DEF StaTeardownFails, Hold, Copies, Sentinel, InHand, Leaving, SomePreserved,
     NotBusy, LateTimed, PreservedIsClean, ObjectsOK, ControlOK, CurOK, CommandPoint,
     ClosePoint
<1>25. CASE StaComplete
  BY <1>25 DEF StaComplete, Copies, Sentinel, InHand, Leaving, SomePreserved, NotBusy,
     LateTimed, PreservedIsClean, ObjectsOK, ControlOK, CurOK, CommandPoint, ClosePoint
<1>26. CASE StaUnreleased
  BY <1>26 DEF StaUnreleased, Copies, Sentinel, InHand, Leaving, SomePreserved, NotBusy,
     LateTimed, PreservedIsClean, ObjectsOK, ControlOK, CurOK, CommandPoint, ClosePoint
<1>27. ASSUME NEW c \in Cmds, NEW k \in Kinds, NEW p \in PriorDirty, ExecuteAdmit(c, k, p)
      PROVE  Copies'
  BY <1>27 DEF ExecuteAdmit, Copies, Sentinel, InHand, Leaving, SomePreserved, NotBusy,
     LateTimed, PreservedIsClean, ObjectsOK, ControlOK, CurOK, CommandPoint, ClosePoint
<1>28. ASSUME NEW c \in Closes, NEW p \in PriorDirty, CloseAdmit(c, p)
      PROVE  Copies'
  BY <1>28 DEF CloseAdmit, Copies, Sentinel, InHand, Leaving, SomePreserved, NotBusy,
     LateTimed, PreservedIsClean, ObjectsOK, ControlOK, CurOK, CommandPoint, ClosePoint
<1>29. CASE CloseRefused
  BY <1>29 DEF CloseRefused, Copies, Sentinel, InHand, Leaving, SomePreserved, NotBusy,
     LateTimed, PreservedIsClean, ObjectsOK, ControlOK, CurOK, CommandPoint, ClosePoint
<1>30. ASSUME NEW o \in Obj, Return(o)
      PROVE  Copies'
  BY <1>30 DEF Return, Copies, Sentinel, InHand, Leaving, SomePreserved, NotBusy,
     LateTimed, PreservedIsClean, ObjectsOK, ControlOK, CurOK, CommandPoint, ClosePoint
<1>31. ASSUME NEW o \in Obj, Expire(o)
      PROVE  Copies'
  BY <1>31 DEF Expire, Copies, Sentinel, InHand, Leaving, SomePreserved, NotBusy,
     LateTimed, PreservedIsClean, ObjectsOK, ControlOK, CurOK, CommandPoint, ClosePoint
<1>32. ASSUME NEW o \in Obj, TerminalizeLate(o)
      PROVE  Copies'
  BY <1>32 DEF TerminalizeLate, Copies, Sentinel, InHand, Leaving, SomePreserved,
     NotBusy, LateTimed, PreservedIsClean, ObjectsOK, ControlOK, CurOK, CommandPoint,
     ClosePoint
<1>33. ASSUME NEW o \in Obj, Terminalize(o)
      PROVE  Copies'
  <2>1. ~SomePreserved /\ ~SomePreserved'
    BY <1>33 DEF Terminalize, FirstTimeout, PreservedIsClean, SomePreserved, ObjectsOK
  <2>2. QED
    BY <2>1 DEF Copies, SomePreserved
<1>34. ASSUME NEW o \in Obj, Reconcile(o)
      PROVE  Copies'
  BY <1>34 DEF Reconcile, Registry, Copies, Sentinel, InHand, Leaving, SomePreserved,
     NotBusy, LateTimed, PreservedIsClean, ObjectsOK, ControlOK, CurOK, CommandPoint,
     ClosePoint
<1>35. ASSUME NEW a \in Ackers, NEW o \in Obj, AckMark(a, o)
      PROVE  Copies'
  BY <1>35 DEF AckMark, Preserved, Copies, Sentinel, InHand, Leaving, SomePreserved,
     NotBusy, LateTimed, PreservedIsClean, ObjectsOK, ControlOK, CurOK, CommandPoint,
     ClosePoint
<1>36. ASSUME NEW a \in Ackers, AckAllow(a)
      PROVE  Copies'
  BY <1>36 DEF AckAllow, Copies, Sentinel, InHand, Leaving, SomePreserved, NotBusy,
     LateTimed, PreservedIsClean, ObjectsOK, ControlOK, CurOK, CommandPoint, ClosePoint
<1>37. ASSUME NEW a \in Ackers, AckRevert(a)
      PROVE  Copies'
  BY <1>37 DEF AckRevert, Copies, Sentinel, InHand, Leaving, SomePreserved, NotBusy,
     LateTimed, PreservedIsClean, ObjectsOK, ControlOK, CurOK, CommandPoint, ClosePoint
<1>38. CASE Reap
  BY <1>38 DEF Reap, Copies, Sentinel, InHand, Leaving, SomePreserved, NotBusy,
     LateTimed, PreservedIsClean, ObjectsOK, ControlOK, CurOK, CommandPoint, ClosePoint
<1>39. CASE UNCHANGED vars
  BY <1>39 DEF Copies, Sentinel, InHand, Leaving, SomePreserved, NotBusy, LateTimed,
     PreservedIsClean, ObjectsOK, ControlOK, CurOK, CommandPoint, ClosePoint
<1>40. QED
  BY <1>1, <1>2, <1>3, <1>4, <1>5, <1>6, <1>7, <1>8, <1>9, <1>10, <1>11, <1>12, <1>13,
     <1>14, <1>15, <1>16, <1>17, <1>18, <1>19, <1>20, <1>21, <1>22, <1>23, <1>24, <1>25,
     <1>26, <1>27, <1>28, <1>29, <1>30, <1>31, <1>32, <1>33, <1>34, <1>35, <1>36, <1>37,
     <1>38, <1>39 DEF Next, Sta, Callers

-----------------------------------------------------------------------------
\* Of the waits that expire together one finds the session live, and makes it
\* terminal.
LEMMA OneTimedOutStep ==
    ASSUME LateIsTerminal, OneTimedOut, [Next]_vars
    PROVE  OneTimedOut'
<1> USE DEF vars, cmdVars
<1>1. ASSUME NEW o \in Obj, Terminalize(o)
      PROVE  OneTimedOut'
  BY <1>1 DEF Terminalize, FirstTimeout, LateIsTerminal, OneTimedOut
<1>2. ASSUME ~\E p \in Obj : Terminalize(p)
      PROVE  timedOut' = timedOut
  BY <1>2, Zenon DEF Next, Sta, Callers, StaStartFailsEarly, StaStartFailsLate, StaOpened,
     StaStarted, StaSettleStart, StaTake, StaSkip, StaBegin, StaHandler, StaAssess, StaSettle,
     StaHold, StaReport, StaRecover, StaReadFlag, StaRefuseClose, StaReplyRefused,
     StaAcceptClose, StaPermit, StaCheckClean, StaCheckAgain, StaQuit, StaExited,
     StaTeardownFails, StaComplete, StaUnreleased, ExecuteAdmit, CloseAdmit, CloseRefused,
     Return, Expire, TerminalizeLate, Reconcile, AckMark, AckAllow, AckRevert, Reap
<1>3. QED
  BY <1>1, <1>2 DEF OneTimedOut

ReleaseInv == RanInv /\ OneTimedOut /\ LateTimed /\ NotBusy /\ Sentinel /\ Copies

\* A fresh session has no copy, no timeout and no permission.
LEMMA ReleaseInit == Init => ReleaseInv
  BY ConstantsAssumption DEF Init, ReleaseInv, RanInv, RanOK, WaitOK, HandsOK, CommandPoint,
     OneTimedOut, LateTimed, Late, After, Obj, NotBusy, SomePreserved, Sentinel, OneSentinel,
     InHand, Leaving, Copies

\* The conjuncts of release, each kept by a lemma above, hold together.
LEMMA ReleaseInvariant == Spec => []ReleaseInv
<1>1. TypeOK /\ CurOK /\ CustodyInv /\ ReleaseInv /\ [Next]_vars => ReleaseInv'
  BY RanStep, OneTimedOutStep, LateTimedStep, NotBusyStep, SentinelStep, CopiesStep
     DEF ReleaseInv, CustodyInv
<1>2. QED
  BY ReleaseInit, CustodyInvariant, <1>1, PTL DEF Spec

\* A caller that was told "cancelled" may retry: its handler never ran and never
\* will.  (_cancel_pending_commands against the dequeue in _run)
THEOREM CancelledIsRetryable == Spec => []CancelledNeverRan
<1>1. ReleaseInv => CancelledNeverRan
  BY DEF ReleaseInv, RanInv, RanOK, Begun, CancelledNeverRan
<1>2. QED
  BY ReleaseInvariant, <1>1, PTL

\* However many waits expire together, one object at most carries the session's
\* quarantine.  (_terminalize_timeout)
THEOREM TimeoutsAreOne == Spec => []OneTimedOut
<1>1. ReleaseInv => OneTimedOut
  BY DEF ReleaseInv
<1>2. QED
  BY ReleaseInvariant, <1>1, PTL

\* Permission to release comes only from a preserved recovery copy of the command
\* that timed out.  (acknowledge_reconciliation)
THEOREM ReleaseIsEarned == Spec => []ReleaseNeedsRecovery
<1>1. ReleaseInv => ReleaseNeedsRecovery
  BY DEF ReleaseInv, Copies, ReleaseNeedsRecovery
<1>2. QED
  BY ReleaseInvariant, <1>1, PTL

-----------------------------------------------------------------------------
(* The session implements NativeCustody. *)

Promise == [NC!Next]_(NC!vars)

\* What the promise is about stays as it was.
Quiet == UNCHANGED <<app, held, quarantined, allow, unsaved>>

\* A step that touches neither the document nor a permission is a stutter of the promise.
LEMMA QuietStutters == ASSUME Quiet PROVE Promise
  BY DEF Quiet, Promise, Custody, NC!vars

\* A hold, taken while the editor is still there.
LEMMA HoldKeeps ==
    ASSUME Hold, UNCHANGED unsaved, app # "quit", app' # "quit"
    PROVE  Promise
<1>1. Custody' = "held"
  BY DEF Hold, Custody
<1>2. Custody \in {"owned", "quarantined", "cleared", "held"}
  BY DEF Custody
<1>3. QED
  BY <1>1, <1>2 DEF Promise, NC!vars, NC!Next, NC!Hold

\* Every step of the session is a step of the promise, or none.
LEMMA PromiseStep ==
    ASSUME CustodyInv, [Next]_vars
    PROVE  Promise
<1> PreservedIsClean /\ QuitIsClean /\ HeldStops
  BY DEF CustodyInv
<1>1. CASE StaStartFailsEarly
  BY <1>1, QuietStutters DEF StaStartFailsEarly, Quiet, gateVars, nativeVars
<1>2. CASE StaStartFailsLate
  BY <1>2, HoldKeeps DEF StaStartFailsLate, QuitIsClean, nativeVars
<1>3. CASE StaOpened
  BY <1>3 DEF StaOpened, QuitIsClean, Custody, Promise, NC!vars, gateVars
<1>4. CASE StaStarted
  BY <1>4, QuietStutters DEF StaStarted, Quiet, gateVars, nativeVars
<1>5. CASE StaSettleStart
  BY <1>5, QuietStutters DEF StaSettleStart, Quiet, gateVars, nativeVars
<1>6. CASE StaTake
  BY <1>6, QuietStutters DEF StaTake, Quiet, gateVars, nativeVars
<1>7. CASE StaSkip
  BY <1>7, QuietStutters DEF StaSkip, Quiet, gateVars, nativeVars
<1>8. CASE StaBegin
  BY <1>8, QuietStutters DEF StaBegin, Quiet, gateVars, nativeVars
<1>9. CASE StaHandler
  <2>1. /\ Custody \in {"owned", "quarantined"}
        /\ Custody' = Custody
    BY <1>9 DEF StaHandler, QuitIsClean, PreservedIsClean, SomePreserved, HeldStops,
       Custody, gateVars
  <2>2. unsaved' \in {TRUE, FALSE, unsaved}
    BY <1>9, Zenon DEF StaHandler, NativeNothing, NativeEdit, NativePrivateCopy,
       NativeSave
  <2>3. QED
    BY <2>1, <2>2 DEF Promise, NC!vars, NC!Next, NC!Edit, NC!Preserve
<1>10. CASE StaAssess
  BY <1>10, QuietStutters DEF StaAssess, Quiet, gateVars, nativeVars
<1>11. CASE StaSettle
  BY <1>11, QuietStutters DEF StaSettle, Quiet, gateVars, nativeVars
<1>12. CASE StaHold
  BY <1>12, HoldKeeps DEF StaHold, QuitIsClean, nativeVars
<1>13. CASE StaReport
  <2>1. app # "quit"
    BY <1>13 DEF StaReport, QuitIsClean
  <2>2. CASE Hold /\ UNCHANGED <<app, unsaved>>
    BY <2>1, <2>2, HoldKeeps
  <2>3. CASE Quiet
    BY <2>3, QuietStutters
  <2>4. QED
    BY <1>13, <2>2, <2>3 DEF StaReport, Quiet, gateVars, nativeVars
<1>14. CASE StaRecover
  <2>1. /\ Custody # "gone"
        /\ Custody' = Custody
    BY <1>14 DEF StaRecover, QuitIsClean, Custody, gateVars
  <2>2. unsaved' = FALSE \/ UNCHANGED unsaved
    BY <1>14, Zenon DEF StaRecover
  <2>3. QED
    BY <2>1, <2>2 DEF Promise, NC!vars, NC!Next, NC!Preserve
<1>15. CASE StaReadFlag
  <2>1. app # "quit"
    BY <1>15 DEF StaReadFlag, QuitIsClean
  <2>2. CASE Hold /\ UNCHANGED <<app, unsaved>>
    BY <2>1, <2>2, HoldKeeps
  <2>3. CASE Quiet
    BY <2>3, QuietStutters
  <2>4. QED
    BY <1>15, <2>2, <2>3 DEF StaReadFlag, Quiet, gateVars, nativeVars
<1>16. CASE StaRefuseClose
  BY <1>16, QuietStutters DEF StaRefuseClose, Quiet, gateVars, nativeVars
<1>17. CASE StaReplyRefused
  BY <1>17, QuietStutters DEF StaReplyRefused, Quiet, gateVars, nativeVars
<1>18. CASE StaAcceptClose
  BY <1>18, QuietStutters DEF StaAcceptClose, Quiet, gateVars, nativeVars
<1>19. CASE StaPermit
  BY <1>19, QuietStutters DEF StaPermit, Quiet, gateVars, nativeVars
<1>20. CASE StaCheckClean
  BY <1>20, QuietStutters DEF StaCheckClean, Quiet, gateVars, nativeVars
<1>21. CASE StaCheckAgain
  BY <1>21, QuietStutters DEF StaCheckAgain, Quiet, gateVars, nativeVars
<1>22. CASE StaQuit
  <2>1. Custody \in {"owned", "quarantined", "cleared"} /\ ~unsaved
    BY <1>22 DEF StaQuit, QuitIsClean, HeldStops, Custody
  <2>2. Custody' = "gone" /\ UNCHANGED unsaved
    BY <1>22 DEF StaQuit, Custody
  <2>3. QED
    BY <2>1, <2>2 DEF Promise, NC!Next, NC!Release
<1>23. CASE StaExited
  BY <1>23, QuietStutters DEF StaExited, Quiet, gateVars, nativeVars
<1>24. CASE StaTeardownFails
  <2>1. Hold /\ UNCHANGED <<app, unsaved>>
    BY <1>24 DEF StaTeardownFails, nativeVars
  <2>2. CASE app # "quit"
    BY <2>1, <2>2, HoldKeeps
  <2>3. CASE app = "quit"
    BY <2>1, <2>3 DEF Custody, Promise, NC!vars
  <2>4. QED
    BY <2>2, <2>3
<1>25. CASE StaComplete
  BY <1>25, QuietStutters DEF StaComplete, Quiet, gateVars, nativeVars
<1>26. CASE StaUnreleased
  BY <1>26, QuietStutters DEF StaUnreleased, Quiet, gateVars, nativeVars
<1>27. ASSUME NEW c \in Cmds, NEW k \in Kinds, NEW p \in PriorDirty, ExecuteAdmit(c, k, p)
      PROVE  Promise
  BY <1>27, QuietStutters DEF ExecuteAdmit, Quiet, gateVars, nativeVars
<1>28. ASSUME NEW c \in Closes, NEW p \in PriorDirty, CloseAdmit(c, p)
      PROVE  Promise
  BY <1>28, QuietStutters DEF CloseAdmit, Quiet, gateVars, nativeVars
<1>29. CASE CloseRefused
  BY <1>29, QuietStutters DEF CloseRefused, Quiet, gateVars, nativeVars
<1>30. ASSUME NEW o \in Obj, Return(o)
      PROVE  Promise
  BY <1>30, QuietStutters DEF Return, Quiet, gateVars, nativeVars
<1>31. ASSUME NEW o \in Obj, Expire(o)
      PROVE  Promise
  BY <1>31, QuietStutters DEF Expire, Quiet, gateVars, nativeVars
<1>32. ASSUME NEW o \in Obj, TerminalizeLate(o)
      PROVE  Promise
  BY <1>32, QuietStutters DEF TerminalizeLate, Quiet, gateVars, nativeVars
<1>33. ASSUME NEW o \in Obj, Terminalize(o)
      PROVE  Promise
  <2>1. ~held /\ ~quarantined /\ quarantined' /\ ~allow'
    BY <1>33 DEF Terminalize, FirstTimeout, HeldStops
  <2>2. UNCHANGED <<app, held, unsaved>>
    BY <1>33 DEF Terminalize, nativeVars
  <2>3. CASE app = "quit"
    BY <2>2, <2>3 DEF Custody, Promise, NC!vars
  <2>4. CASE app # "quit"
    BY <2>1, <2>2, <2>4 DEF Custody, Promise, NC!Next, NC!Quarantine
  <2>5. QED
    BY <2>3, <2>4
<1>34. ASSUME NEW o \in Obj, Reconcile(o)
      PROVE  Promise
  BY <1>34, QuietStutters DEF Reconcile, Quiet, gateVars, nativeVars
<1>35. ASSUME NEW a \in Ackers, NEW o \in Obj, AckMark(a, o)
      PROVE  Promise
  BY <1>35, QuietStutters DEF AckMark, Quiet, gateVars, nativeVars
<1>36. ASSUME NEW a \in Ackers, AckAllow(a)
      PROVE  Promise
  <2>1. UNCHANGED <<app, held, quarantined, unsaved>> /\ allow'
    BY <1>36 DEF AckAllow, nativeVars
  <2>2. ~unsaved
    BY <1>36 DEF AckAllow, PreservedIsClean, SomePreserved
  <2>3. CASE app = "quit" \/ held \/ ~quarantined \/ allow
    BY <2>1, <2>3 DEF Custody, Promise, NC!vars
  <2>4. CASE app # "quit" /\ ~held /\ quarantined /\ ~allow
    BY <2>1, <2>2, <2>4 DEF Custody, Promise, NC!Next, NC!Clear
  <2>5. QED
    BY <2>3, <2>4
<1>37. ASSUME NEW a \in Ackers, AckRevert(a)
      PROVE  Promise
  BY <1>37, QuietStutters DEF AckRevert, Quiet, gateVars, nativeVars
<1>38. CASE Reap
  BY <1>38, QuietStutters DEF Reap, Quiet, gateVars, nativeVars
<1>39. CASE UNCHANGED vars
  BY <1>39, QuietStutters DEF vars, Quiet, gateVars, nativeVars
<1>40. QED
  BY <1>1, <1>2, <1>3, <1>4, <1>5, <1>6, <1>7, <1>8, <1>9, <1>10, <1>11, <1>12, <1>13,
     <1>14, <1>15, <1>16, <1>17, <1>18, <1>19, <1>20, <1>21, <1>22, <1>23, <1>24, <1>25,
     <1>26, <1>27, <1>28, <1>29, <1>30, <1>31, <1>32, <1>33, <1>34, <1>35, <1>36, <1>37,
     <1>38, <1>39 DEF Next, Sta, Callers

\* Every interleaving of commands, timeouts, recoveries and closes keeps the
\* custody promise.  (LocalCliLiveSession)
THEOREM SessionKeepsCustody == Spec => KeepsCustody
<1>1. Init => NC!Init
  BY DEF Init, NC!Init, Custody
<1>2. TypeOK /\ CurOK /\ CustodyInv /\ [Next]_vars => [NC!Next]_(NC!vars)
  BY PromiseStep DEF Promise
<1>3. QED
  BY CustodyInvariant, <1>1, <1>2, PTL DEF Spec, KeepsCustody, NC!Spec
=============================================================================
