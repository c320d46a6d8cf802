-------------------------- MODULE SupervisorProofs --------------------------
(***************************************************************************)
(* Proofs about the supervisor for every set of servers and callers and    *)
(* every restart limit.  IInv is inductive: each step of each goroutine    *)
(* preserves it, and the safety properties follow from it.                 *)
(***************************************************************************)
EXTENDS Supervisor, FiniteSetTheorems, TLAPS

LEMMA InitIInv == Init => IInv
  BY PersistentAssumption, RestartLimitAssumption, NoServerAssumption
  DEF Init, IInv, CallsHaveTarget, TypeOK, RunMatchesState, StopProgress, BudgetHeld, State,
      RunPc, CallPc, WarmPc, StopPc, StopOf, Ended

(* beginLocked writes values of the right types.                           *)
LEMMA BeginTypes ==
  ASSUME TypeOK, NEW s \in Servers, Begin(s)
  PROVE  /\ state' \in [Servers -> State]
         /\ attempts' \in [Servers -> Nat]
         /\ stopReq' \in [Servers -> BOOLEAN]
         /\ run' \in [Servers -> RunPc]
<1>1. CASE state[s] = "Stopped"
  <2>1. state' \in [Servers -> State] /\ run' \in [Servers -> RunPc]
    BY <1>1 DEF Begin, TypeOK, State, RunPc
  <2>2. attempts' \in [Servers -> Nat]
    BY <1>1 DEF Begin, TypeOK
  <2>3. stopReq' \in [Servers -> BOOLEAN]
    BY <1>1 DEF Begin, TypeOK
  <2>q. QED
    BY <2>1, <2>2, <2>3
<1>2. CASE state[s] # "Stopped"
  BY <1>2 DEF Begin, TypeOK
<1>q. QED
  BY <1>1, <1>2

LEMMA NextIInv == IInv /\ [Next]_vars => IInv'
<1> SUFFICES ASSUME IInv, [Next]_vars PROVE IInv'
  OBVIOUS
<1> USE PersistentAssumption, RestartLimitAssumption, NoServerAssumption
    DEF IInv, CallsHaveTarget, TypeOK, RunMatchesState, StopProgress, BudgetHeld, State, RunPc,
        CallPc, WarmPc, StopPc, StopOf, Ended, procVars, callVars, stopVars
<1>1. CASE CoreRun
  BY <1>1 DEF CoreRun
<1>2. CASE CancelRun
  BY <1>2 DEF CancelRun
<1>3. CASE ReaperEnds
  BY <1>3 DEF ReaperEnds
<1>4. CASE StopCalled
  BY <1>4 DEF StopCalled, stopFrame
<1>5. CASE LatchedAll
  BY <1>5 DEF LatchedAll, stopFrame
<1>6. CASE WarmingOver
  BY <1>6 DEF WarmingOver, stopFrame
<1>7. CASE StopReturns
  BY <1>7 DEF StopReturns, stopFrame
<1>8. ASSUME NEW c \in Callers, EnsureReady(c) PROVE IInv'
  <2>1. target[c] \in Servers
    BY <1>8 DEF EnsureReady
  <2>2. CASE stopping[target[c]]
    BY <1>8, <2>1, <2>2 DEF EnsureReady
  <2>3. CASE ~stopping[target[c]] /\ state[target[c]] = "Stopped"
    <3>1. TypeOK'
      BY <1>8, <2>1, <2>3, BeginTypes, SMTT(60) DEF EnsureReady
    <3>2. RunMatchesState'
      BY <1>8, <2>1, <2>3 DEF EnsureReady, Begin
    <3>3. StopProgress'
      BY <1>8, <2>1, <2>3 DEF EnsureReady, Begin
    <3>4. BudgetHeld'
      BY <1>8, <2>1, <2>3 DEF EnsureReady, Begin
    <3>5. CallsHaveTarget'
      BY <1>8, <2>1, <2>3 DEF EnsureReady, Begin
    <3>q. QED
      BY <3>1, <3>2, <3>3, <3>4, <3>5
  <2>4. CASE ~stopping[target[c]] /\ state[target[c]] # "Stopped"
    BY <1>8, <2>1, <2>4 DEF EnsureReady, Begin
  <2>q. QED
    BY <2>1, <2>2, <2>3, <2>4
<1>9. ASSUME NEW c \in Callers, PollAnswers(c) PROVE IInv'
  BY <1>9 DEF PollAnswers
<1>10. ASSUME NEW c \in Callers, Release(c) PROVE IInv'
  BY <1>10 DEF Release
<1>11. ASSUME NEW c \in Callers, PollCanceled(c) PROVE IInv'
  BY <1>11 DEF PollCanceled
<1>12. ASSUME NEW c \in Callers, CallReturns(c) PROVE IInv'
  BY <1>12 DEF CallReturns
<1>13. ASSUME NEW c \in Callers, NEW s \in Servers, Acquire(c, s) PROVE IInv'
  BY <1>13 DEF Acquire
<1>14. ASSUME NEW s \in Servers, Latch(s) PROVE IInv'
  BY <1>14 DEF Latch, stopFrame
<1>15. ASSUME NEW s \in Servers, LatchAsks(s) PROVE IInv'
  BY <1>15 DEF LatchAsks, stopFrame, RequestStop
<1>16. ASSUME NEW s \in Servers, StopAsks(s) PROVE IInv'
  BY <1>16 DEF StopAsks, stopFrame, RequestStop
<1>17. ASSUME NEW s \in Servers, StopSeesEnd(s) PROVE IInv'
  BY <1>17 DEF StopSeesEnd, stopFrame
<1>18. ASSUME NEW s \in Servers, StopGivesUp(s) PROVE IInv'
  BY <1>18 DEF StopGivesUp, stopFrame, StopBoundElapsed
<1>19. ASSUME NEW s \in Servers, StartSucceeds(s) PROVE IInv'
  BY <1>19 DEF StartSucceeds, runFrame
<1>20. ASSUME NEW s \in Servers, StartFails(s) PROVE IInv'
  BY <1>20 DEF StartFails, runFrame, SpawnFailed
<1>21. ASSUME NEW s \in Servers, AnswersReady(s) PROVE IInv'
  BY <1>21 DEF AnswersReady, runFrame
<1>22. ASSUME NEW s \in Servers, ExitsBeforeReady(s) PROVE IInv'
  BY <1>22, SMTT(60) DEF ExitsBeforeReady, runFrame, SpawnFailed
<1>23. ASSUME NEW s \in Servers, ReadyNeverCame(s) PROVE IInv'
  BY <1>23 DEF ReadyNeverCame, runFrame
<1>24. ASSUME NEW s \in Servers, StoppedBeforeReady(s) PROVE IInv'
  BY <1>24 DEF StoppedBeforeReady, runFrame
<1>25. ASSUME NEW s \in Servers, ExitsWhileServing(s) PROVE IInv'
  <2>1. PICK reset \in BOOLEAN : SpawnFailed(s, reset)
    BY <1>25 DEF ExitsWhileServing
  <2>2. CASE reset
    BY <1>25, <2>1, <2>2 DEF ExitsWhileServing, runFrame, SpawnFailed
  <2>3. CASE ~reset
    <3>1. TypeOK'
      BY <1>25, <2>1, <2>3 DEF ExitsWhileServing, runFrame, SpawnFailed
    <3>2. RunMatchesState'
      BY <1>25, <2>1, <2>3 DEF ExitsWhileServing, runFrame, SpawnFailed
    <3>3. StopProgress'
      BY <1>25, <2>1, <2>3 DEF ExitsWhileServing, runFrame, SpawnFailed
    <3>4. BudgetHeld'
      BY <1>25, <2>1, <2>3, SMTT(60) DEF ExitsWhileServing, runFrame, SpawnFailed
    <3>5. CallsHaveTarget'
      BY <1>25, <2>1, <2>3 DEF ExitsWhileServing, runFrame, SpawnFailed
    <3>q. QED
      BY <3>1, <3>2, <3>3, <3>4, <3>5
  <2>q. QED
    BY <2>2, <2>3
<1>26. ASSUME NEW s \in Servers, Terminate(s) PROVE IInv'
  BY <1>26 DEF Terminate, runFrame
<1>27. ASSUME NEW s \in Servers, StopGraceElapses(s) PROVE IInv'
  BY <1>27 DEF StopGraceElapses, runFrame
<1>28. ASSUME NEW s \in Servers, StopCompletes(s) PROVE IInv'
  BY <1>28 DEF StopCompletes, runFrame, SpawnDeliberate
<1>29. ASSUME NEW s \in Servers, KilledUnready(s) PROVE IInv'
  BY <1>29, SMTT(60) DEF KilledUnready, runFrame, SpawnFailed
<1>30. ASSUME NEW s \in Servers, DelayElapsed(s) PROVE IInv'
  BY <1>30 DEF DelayElapsed, runFrame
<1>31. ASSUME NEW s \in Servers, StoppedInDelay(s) PROVE IInv'
  BY <1>31 DEF StoppedInDelay, runFrame, SpawnDeliberate
<1>32. ASSUME NEW s \in Servers, ChildExits(s) PROVE IInv'
  BY <1>32 DEF ChildExits, runFrame
<1>33. ASSUME NEW s \in Servers, WarmEnters(s) PROVE IInv'
  <2>1. CASE stopping[s]
    BY <1>33, <2>1 DEF WarmEnters
  <2>2. CASE ~stopping[s] /\ state[s] = "Stopped"
    <3>1. TypeOK'
      BY <1>33, <2>2, BeginTypes, SMTT(60) DEF WarmEnters
    <3>2. RunMatchesState'
      BY <1>33, <2>2 DEF WarmEnters, Begin
    <3>3. StopProgress'
      BY <1>33, <2>2 DEF WarmEnters, Begin
    <3>4. BudgetHeld'
      BY <1>33, <2>2 DEF WarmEnters, Begin
    <3>5. CallsHaveTarget'
      BY <1>33, <2>2 DEF WarmEnters, Begin
    <3>q. QED
      BY <3>1, <3>2, <3>3, <3>4, <3>5
  <2>3. CASE ~stopping[s] /\ state[s] # "Stopped"
    BY <1>33, <2>3 DEF WarmEnters, Begin
  <2>q. QED
    BY <2>1, <2>2, <2>3
<1>34. ASSUME NEW s \in Servers, WarmLeaves(s) PROVE IInv'
  BY <1>34 DEF WarmLeaves
<1>35. ASSUME NEW s \in Servers, ReaperFindsIdle(s) PROVE IInv'
  BY <1>35 DEF ReaperFindsIdle
<1>36. ASSUME NEW s \in Servers, ReaperAsks(s) PROVE IInv'
  BY <1>36 DEF ReaperAsks, RequestStop
<1>37. CASE UNCHANGED vars
  BY <1>37 DEF vars
<1>q. QED
  BY <1>1, <1>2, <1>3, <1>4, <1>5, <1>6, <1>7, <1>8, <1>9, <1>10, <1>11, <1>12, <1>13, <1>14, <1>15, <1>16, <1>17, <1>18, <1>19, <1>20, <1>21, <1>22, <1>23, <1>24, <1>25, <1>26, <1>27, <1>28, <1>29, <1>30, <1>31, <1>32, <1>33, <1>34, <1>35, <1>36, <1>37
  DEF Next, StopStep, CallStep, RunStep, WarmStep

(* Type correctness and the inductive invariant, for the code of process.go *)
(* and supervisor.go as modelled.                                          *)
THEOREM InductiveInvariant == Spec => []IInv
<1>1. Init => IInv
  BY InitIInv
<1>2. IInv /\ [Next]_vars => IInv'
  BY NextIInv
<1>q. QED
  BY <1>1, <1>2, PTL DEF Spec

(* beginLocked's precondition: a stopped server has no run goroutine and   *)
(* no child, so an activation begins only when the previous one is over.   *)
THEOREM OneActivationHolds == Spec => []OneActivation
<1>1. IInv => OneActivation
  BY DEF IInv, TypeOK, RunMatchesState, StopProgress, OneActivation, Ended,
         RunPc, State
<1>q. QED
  BY <1>1, InductiveInvariant, PTL

(* Stop's promise: once it has returned, no goroutine is left where it     *)
(* could start or serve a child.                                           *)
THEOREM NothingRunsAfterStopHolds == Spec => []NothingRunsAfterStop
<1>1. IInv => NothingRunsAfterStop
  BY DEF IInv, TypeOK, RunMatchesState, StopProgress, NothingRunsAfterStop, RunPc, StopOf
<1>q. QED
  BY <1>1, InductiveInvariant, PTL

(* The restart budget is never overspent.                                  *)
THEOREM BudgetHolds == Spec => []BudgetHeld
<1>1. IInv => BudgetHeld
  BY DEF IInv
<1>q. QED
  BY <1>1, InductiveInvariant, PTL

(* shutdown's latch: whoever asks, and whatever was under way, a server    *)
(* that is latched and has no run goroutine never gets one again.          *)
THEOREM LatchedStaysDownHolds == Spec => LatchedStaysDown
<1> DEFINE Kept == \A s \in Servers : stopping[s] /\ run[s] = "off" => run'[s] = "off"
<1>1. ASSUME IInv, [Next]_vars PROVE Kept
  <2>1. run \in [Servers -> RunPc]
    BY <1>1 DEF IInv, TypeOK
  <2>2. CASE UNCHANGED run
    BY <2>2
  <2>3. ASSUME NEW c \in Callers, EnsureReady(c) PROVE Kept
    BY <2>1, <2>3 DEF EnsureReady, Begin
  <2>4. ASSUME NEW s \in Servers, WarmEnters(s) PROVE Kept
    BY <2>1, <2>4 DEF WarmEnters, Begin
  <2>5. ASSUME NEW s \in Servers, RunStep(s) PROVE Kept
    BY <2>1, <2>5
       DEF RunStep, StartSucceeds, StartFails, AnswersReady, ExitsBeforeReady,
           ReadyNeverCame, StoppedBeforeReady, ExitsWhileServing, Terminate,
           StopGraceElapses, StopCompletes, KilledUnready, DelayElapsed,
           StoppedInDelay, SpawnFailed, SpawnDeliberate
  <2>6. CASE CoreRun \/ CancelRun \/ ReaperEnds \/ StopCalled \/ StopStep
    BY <2>2, <2>6
       DEF CoreRun, CancelRun, ReaperEnds, StopCalled, StopStep, LatchedAll,
           WarmingOver, StopReturns, Latch, LatchAsks, StopAsks, StopSeesEnd,
           StopGivesUp, stopFrame, procVars
  <2>7. ASSUME NEW c \in Callers,
               \/ PollAnswers(c) \/ Release(c) \/ PollCanceled(c) \/ CallReturns(c)
               \/ \E s \in Servers : Acquire(c, s)
        PROVE  Kept
    BY <2>2, <2>7
       DEF PollAnswers, Release, PollCanceled, CallReturns, Acquire, procVars
  <2>8. ASSUME NEW s \in Servers,
               ChildExits(s) \/ WarmLeaves(s) \/ ReaperFindsIdle(s) \/ ReaperAsks(s)
        PROVE  Kept
    BY <2>2, <2>8
       DEF ChildExits, WarmLeaves, ReaperFindsIdle, ReaperAsks, procVars
  <2>9. CASE UNCHANGED vars
    BY <2>2, <2>9 DEF vars
  <2>q. QED
    BY <1>1, <2>3, <2>4, <2>5, <2>6, <2>7, <2>8, <2>9 DEF Next, CallStep, WarmStep
<1>2. IInv /\ [Next]_vars => [Kept]_vars
  BY <1>1
<1>q. QED
  BY <1>2, InductiveInvariant, PTL DEF Spec, LatchedStaysDown

-----------------------------------------------------------------------------
(* The calls between Acquire and Release on a server.                      *)
Users(s) == {c \in Callers : target[c] = s}

(* A step that leaves inflight and target alone leaves the count right.    *)
LEMMA CountFramed ==
  ASSUME InflightCountsCalls, UNCHANGED <<inflight, target>>
  PROVE  InflightCountsCalls'
  BY DEF InflightCountsCalls

LEMMA AcquireCounts ==
  ASSUME IInv, InflightCountsCalls, NEW c \in Callers, NEW s \in Servers, Acquire(c, s)
  PROVE  InflightCountsCalls'
<1>1. target[c] = NoServer
  BY DEF Acquire, IInv, CallsHaveTarget
<1>2. /\ target' = [target EXCEPT ![c] = s] /\ inflight' = [inflight EXCEPT ![s] = @ + 1]
      /\ target \in [Callers -> Servers \cup {NoServer}] /\ inflight \in [Servers -> Nat]
  BY DEF Acquire, IInv, TypeOK
<1> SUFFICES ASSUME NEW t \in Servers PROVE inflight'[t] = Cardinality(Users(t)')
  BY DEF InflightCountsCalls, Users
<1>3. IsFiniteSet(Users(t)) /\ Cardinality(Users(t)) = inflight[t]
  <2>1. Users(t) \subseteq Callers
    BY DEF Users
  <2>q. QED
    BY <2>1, CallersAssumption, FS_Subset DEF InflightCountsCalls, Users
<1>4. CASE t = s
  <2>1. Users(t)' = Users(t) \cup {c} /\ c \notin Users(t)
    BY <1>1, <1>2, <1>4, NoServerAssumption DEF Users
  <2>2. Cardinality(Users(t)') = Cardinality(Users(t)) + 1
    BY <1>3, <2>1, FS_AddElement
  <2>q. QED
    BY <1>2, <1>3, <1>4, <2>2
<1>5. CASE t # s
  <2>1. Users(t)' = Users(t)
    BY <1>1, <1>2, <1>5, NoServerAssumption DEF Users
  <2>q. QED
    BY <1>2, <1>3, <1>5, <2>1
<1>q. QED
  BY <1>4, <1>5

LEMMA ReleaseCounts ==
  ASSUME IInv, InflightCountsCalls, NEW c \in Callers, Release(c)
  PROVE  InflightCountsCalls'
<1> DEFINE s == target[c]
<1>1. s \in Servers
  BY DEF Release, IInv, CallsHaveTarget, TypeOK
<1>2. /\ target' = [target EXCEPT ![c] = NoServer]
      /\ inflight' = [inflight EXCEPT ![s] = IF @ > 0 THEN @ - 1 ELSE @]
      /\ target \in [Callers -> Servers \cup {NoServer}] /\ inflight \in [Servers -> Nat]
  BY DEF Release, IInv, TypeOK
<1> SUFFICES ASSUME NEW t \in Servers PROVE inflight'[t] = Cardinality(Users(t)')
  BY DEF InflightCountsCalls, Users
<1>3. IsFiniteSet(Users(t)) /\ Cardinality(Users(t)) = inflight[t]
  <2>1. Users(t) \subseteq Callers
    BY DEF Users
  <2>q. QED
    BY <2>1, CallersAssumption, FS_Subset DEF InflightCountsCalls, Users
<1>4. CASE t = s
  <2>1. Users(t)' = Users(t) \ {c} /\ c \in Users(t)
    BY <1>2, <1>4, NoServerAssumption DEF Users
  <2>2. Cardinality(Users(t)') = Cardinality(Users(t)) - 1
    BY <1>3, <2>1, FS_RemoveElement
  <2>3. Cardinality(Users(t)') \in Nat
    <3>1. IsFiniteSet(Users(t)')
      BY <1>3, <2>1, FS_RemoveElement
    <3>q. QED
      BY <3>1, FS_CardinalityType
  <2>4. inflight[t] \in Nat /\ inflight[t] > 0
    BY <1>2, <1>3, <2>2, <2>3
  <2>q. QED
    BY <1>2, <1>3, <1>4, <2>2, <2>4
<1>5. CASE t # s
  <2>1. Users(t)' = Users(t)
    BY <1>2, <1>5, NoServerAssumption DEF Users
  <2>q. QED
    BY <1>2, <1>3, <1>5, <2>1
<1>q. QED
  BY <1>4, <1>5

(* Acquire and Release bracket every guarded call: whatever refuses, fails *)
(* or cancels it, a server's inflight is the number of calls that have it, *)
(* so the reaper never takes a server in use for an idle one.              *)
THEOREM InflightCountsCallsHolds == Spec => []InflightCountsCalls
<1>1. Init => InflightCountsCalls
  <2> SUFFICES ASSUME Init, NEW s \in Servers PROVE inflight[s] = Cardinality(Users(s))
    BY DEF InflightCountsCalls, Users
  <2>1. Users(s) = {}
    BY NoServerAssumption DEF Init, Users
  <2>2. inflight[s] = 0
    BY DEF Init
  <2>q. QED
    BY <2>1, <2>2, FS_EmptySet
<1>2. ASSUME IInv, InflightCountsCalls, [Next]_vars PROVE InflightCountsCalls'
  <2>1. ASSUME NEW c \in Callers, NEW s \in Servers, Acquire(c, s)
        PROVE  InflightCountsCalls'
    BY <1>2, <2>1, AcquireCounts
  <2>2. ASSUME NEW c \in Callers, Release(c) PROVE InflightCountsCalls'
    BY <1>2, <2>2, ReleaseCounts
  <2>3. CASE UNCHANGED <<inflight, target>>
    BY <1>2, <2>3, CountFramed
  <2>4. ASSUME NEW s \in Servers, RunStep(s) \/ ChildExits(s) \/ WarmStep(s)
                                 \/ ReaperFindsIdle(s) \/ ReaperAsks(s)
        PROVE  UNCHANGED <<inflight, target>>
    BY <2>4
       DEF RunStep, StartSucceeds, StartFails, AnswersReady, ExitsBeforeReady,
           ReadyNeverCame, StoppedBeforeReady, ExitsWhileServing, Terminate,
           StopGraceElapses, StopCompletes, KilledUnready, DelayElapsed,
           StoppedInDelay, ChildExits, WarmStep, WarmEnters, WarmLeaves,
           ReaperFindsIdle, ReaperAsks, runFrame, procVars, callVars
  <2>5. ASSUME CoreRun \/ CancelRun \/ ReaperEnds \/ StopCalled \/ StopStep
        PROVE  UNCHANGED <<inflight, target>>
    BY <2>5
       DEF CoreRun, CancelRun, ReaperEnds, StopCalled, StopStep, LatchedAll,
           WarmingOver, StopReturns, Latch, LatchAsks, StopAsks, StopSeesEnd,
           StopGivesUp, stopFrame, procVars, callVars
  <2>6. ASSUME NEW c \in Callers, \/ EnsureReady(c) \/ PollAnswers(c)
                                  \/ PollCanceled(c) \/ CallReturns(c)
        PROVE  UNCHANGED <<inflight, target>>
    BY <2>6 DEF EnsureReady, PollAnswers, PollCanceled, CallReturns, procVars
  <2>7. CASE UNCHANGED vars
    BY <2>3, <2>7 DEF vars
  <2>q. QED
    BY <1>2, <2>1, <2>2, <2>3, <2>4, <2>5, <2>6, <2>7 DEF Next, CallStep
<1>q. QED
  BY <1>1, <1>2, InductiveInvariant, PTL DEF Spec

(* The three together, as the run checks them (beginLocked, requestStop,   *)
(* acquire and release).                                                   *)
THEOREM ServersHeldHolds == Spec => []ServersHeld
<1>1. OneActivation /\ NothingRunsAfterStop /\ InflightCountsCalls => ServersHeld
  BY DEF ServersHeld
<1>q. QED
  BY <1>1, OneActivationHolds, NothingRunsAfterStopHolds, InflightCountsCallsHolds, PTL
=============================================================================
