------------------------ MODULE CoreLifecycleProofs -------------------------
(* The inductive invariant of a stop, and what it gives a caller.          *)
EXTENDS CoreLifecycle, TLAPS

(* What the work, the connections and the clock of a running core keep.    *)
LEMMA WorkKeepsInv ==
    ASSUME LifecycleInv,
           \/ \E w \in Work : Enter(w) \/ Leave(w)
           \/ \E c \in Conns : ConnStep(c)
           \/ Beat \/ BeatEnds \/ BeatStops \/ Signal
    PROVE  LifecycleInv'
<1>1. CASE Signal
  BY <1>1 DEF LifecycleInv, TypeOK, Signal, workVars, stopVars, beatVars
<1>2. ASSUME NEW w \in Work, Enter(w) PROVE LifecycleInv'
  BY <1>2 DEF LifecycleInv, TypeOK, Enter, Work, TaskAt, coreVars, stopVars, beatVars
<1>3. ASSUME NEW w \in Work, Leave(w) PROVE LifecycleInv'
  BY <1>3 DEF LifecycleInv, TypeOK, Leave, Work, TaskAt, coreVars, stopVars, beatVars
<1>4. ASSUME NEW c \in Conns, Accept(c) PROVE LifecycleInv'
  BY <1>4 DEF LifecycleInv, TypeOK, Accept, ConnAt, coreVars, stopVars, beatVars
<1>5. ASSUME NEW c \in Conns, Register(c) PROVE LifecycleInv'
  BY <1>5 DEF LifecycleInv, TypeOK, Register, ConnAt, coreVars, stopVars, beatVars
<1>6. ASSUME NEW c \in Conns, Open(c) PROVE LifecycleInv'
  BY <1>6 DEF LifecycleInv, TypeOK, Open, coreVars, stopVars, beatVars
<1>7. ASSUME NEW c \in Conns, CloseTalk(c) PROVE LifecycleInv'
  BY <1>7 DEF LifecycleInv, TypeOK, CloseTalk, ConnAt, coreVars, stopVars, beatVars
<1>8. ASSUME NEW c \in Conns, ConnDone(c) PROVE LifecycleInv'
  BY <1>8 DEF LifecycleInv, TypeOK, ConnDone, ConnAt, coreVars, stopVars, beatVars
<1>9. CASE Beat \/ BeatEnds \/ BeatStops
  BY <1>9 DEF LifecycleInv, TypeOK, Beat, BeatEnds, BeatStops, coreVars, workVars, stopVars
<1>10. QED
  BY <1>1, <1>2, <1>3, <1>4, <1>5, <1>6, <1>7, <1>8, <1>9 DEF ConnStep

(* What the calls of Shutdown and the goroutine that waits keep.           *)
LEMMA CallersKeepInv ==
    ASSUME LifecycleInv,
           \/ \E s \in Stoppers : Shutdown(s) \/ WaiterStep(s)
           \/ DrainConns \/ DrainInflight
    PROVE  LifecycleInv'
<1>1. ASSUME NEW s \in Stoppers, Shutdown(s) PROVE LifecycleInv'
  BY <1>1, NobodyAssumption, ZenonT(60)
     DEF LifecycleInv, TypeOK, Shutdown, TeardownAt, StopAt, workVars, beatVars
<1>2. ASSUME NEW s \in Stoppers, WaiterWakes(s) PROVE LifecycleInv'
  BY <1>2 DEF LifecycleInv, TypeOK, WaiterWakes, StopAt, Answer, coreVars, workVars, beatVars
<1>3. ASSUME NEW s \in Stoppers, WaiterGivesUp(s) PROVE LifecycleInv'
  BY <1>3, ZenonT(60) DEF LifecycleInv, TypeOK, WaiterGivesUp, StopAt, Answer, coreVars, workVars, beatVars
<1>4. CASE DrainConns
  BY <1>4 DEF LifecycleInv, TypeOK, DrainConns, DrainAt, coreVars, workVars, beatVars
<1>5. CASE DrainInflight
  BY <1>5 DEF LifecycleInv, TypeOK, DrainInflight, DrainAt, coreVars, workVars, beatVars
<1>6. QED
  BY <1>1, <1>2, <1>3, <1>4, <1>5 DEF WaiterStep

(* What each stage of the teardown keeps.                                  *)
LEMMA TeardownKeepsInv ==
    ASSUME LifecycleInv, TeardownStep
    PROVE  LifecycleInv'
<1>1. CASE CloseSocket
  BY <1>1 DEF LifecycleInv, TypeOK, CloseSocket, TeardownAt, DrainAt, workVars, beatVars
<1>2. CASE Drained
  BY <1>2 DEF LifecycleInv, TypeOK, Drained, TeardownAt, coreVars, beatVars
<1>3. CASE Overran
  BY <1>3, ZenonT(60) DEF LifecycleInv, TypeOK, Overran, TeardownAt, Answer, coreVars, workVars, beatVars
<1>4. CASE StopChildren
  BY <1>4 DEF LifecycleInv, TypeOK, StopChildren, TeardownAt, coreVars, workVars
<1>5. CASE BeatsStopped
  BY <1>5 DEF LifecycleInv, TypeOK, BeatsStopped, TeardownAt, coreVars, workVars
<1>6. CASE FlushLast
  BY <1>6, ZenonT(60) DEF LifecycleInv, TypeOK, FlushLast, TeardownAt, Answer, coreVars, workVars, beatVars
<1>7. CASE Publish
  BY <1>7, ZenonT(60) DEF LifecycleInv, TypeOK, Publish, TeardownAt, StopAt, Answer, workVars, beatVars
<1>8. QED
  BY <1>1, <1>2, <1>3, <1>4, <1>5, <1>6, <1>7, TeardownStep DEF TeardownStep

(* The invariant of Core.Shutdown holds however many connections, tasks    *)
(* and callers there are.                                                  *)
THEOREM LifecycleInvariant == Spec => []LifecycleInv
<1>1. Init => LifecycleInv
  BY NobodyAssumption, ZenonT(60)
     DEF Init, LifecycleInv, TypeOK, ConnAt, TaskAt, DrainAt, TeardownAt, StopAt, Answer
<1>2. LifecycleInv /\ [Next]_vars => LifecycleInv'
  <2>1. SUFFICES ASSUME LifecycleInv, [Next]_vars PROVE LifecycleInv'
    OBVIOUS
  <2>2. CASE UNCHANGED vars
    BY <2>1, <2>2 DEF LifecycleInv, TypeOK, vars, coreVars, workVars, stopVars, beatVars
  <2>3. CASE Next
    BY <2>1, <2>3, WorkKeepsInv, CallersKeepInv, TeardownKeepsInv DEF Next
  <2>4. QED
    BY <2>1, <2>2, <2>3
<1>3. QED
  BY <1>1, <1>2, PTL DEF Spec

(* A stop that did not overrun leaves nobody connected, nothing running    *)
(* and no chat in the table.                                               *)
THEOREM CleanStopIsQuietHolds == Spec => []CleanStopIsQuiet
<1>1. LifecycleInv => CleanStopIsQuiet
  BY DEF LifecycleInv, CleanStopIsQuiet
<1>2. QED
  BY <1>1, LifecycleInvariant, PTL

(* No maintenance job runs after the upkeep claim went back.               *)
THEOREM TicksUnderClaimHolds == Spec => []TicksUnderClaim
<1>1. LifecycleInv => TicksUnderClaim
  BY DEF LifecycleInv, TicksUnderClaim
<1>2. QED
  BY <1>1, LifecycleInvariant, PTL

(* Neither WaitGroup grows once the stop waits on it.                      *)
THEOREM NoAddAfterWaitHolds == Spec => NoAddAfterWait
<1>1. ASSUME LifecycleInv, [Next]_vars, drain # "off"
      PROVE  conns' \subseteq conns /\ inflight' \subseteq inflight
  <2>1. stopping
    BY <1>1 DEF LifecycleInv
  <2>2. CASE UNCHANGED <<conns, inflight>>
    BY <2>2
  <2>3. ASSUME NEW w \in Work, Enter(w) \/ Leave(w)
        PROVE  conns' \subseteq conns /\ inflight' \subseteq inflight
    BY <2>1, <2>3 DEF Enter, Leave
  <2>4. ASSUME NEW c \in Conns, Register(c) \/ ConnDone(c)
        PROVE  conns' \subseteq conns /\ inflight' \subseteq inflight
    BY <2>1, <2>4 DEF Register, ConnDone
  <2>5. QED
    BY <1>1, <2>2, <2>3, <2>4
       DEF Next, vars, workVars, Signal, ConnStep, Accept, Open, CloseTalk,
           Beat, BeatEnds, BeatStops, Shutdown, WaiterStep, WaiterWakes,
           WaiterGivesUp, DrainConns, DrainInflight, TeardownStep, CloseSocket,
           Drained, Overran, StopChildren, BeatsStopped, FlushLast, Publish
<1>2. LifecycleInv /\ [Next]_vars
        => [drain # "off" => conns' \subseteq conns /\ inflight' \subseteq inflight]_vars
  BY <1>1
<1>3. QED
  BY <1>2, LifecycleInvariant, PTL DEF Spec, NoAddAfterWait

(* What a returned Shutdown may be told.                                   *)
THEOREM AnswersAgreeHolds == Spec => []AnswersAgree
<1>1. Init => AnswersAgree
  BY DEF Init, AnswersAgree
<1>2. LifecycleInv /\ AnswersAgree /\ [Next]_vars => AnswersAgree'
  <2>1. SUFFICES ASSUME LifecycleInv, AnswersAgree, [Next]_vars PROVE AnswersAgree'
    OBVIOUS
  <2>2. CASE UNCHANGED <<stop, answer, teardown, verdict, beat, upkeep>>
    BY <2>1, <2>2 DEF AnswersAgree
  <2>3. CASE Beat \/ BeatEnds \/ BeatStops
    BY <2>1, <2>3 DEF AnswersAgree, Beat, BeatEnds, BeatStops, stopVars
  <2>4. ASSUME NEW s \in Stoppers, Shutdown(s) PROVE AnswersAgree'
    BY <2>1, <2>4 DEF LifecycleInv, AnswersAgree, TypeOK, Shutdown, beatVars
  <2>5. ASSUME NEW s \in Stoppers, WaiterWakes(s) PROVE AnswersAgree'
    BY <2>1, <2>5 DEF LifecycleInv, AnswersAgree, TypeOK, WaiterWakes, beatVars
  <2>6. ASSUME NEW s \in Stoppers, WaiterGivesUp(s) PROVE AnswersAgree'
    BY <2>1, <2>6 DEF LifecycleInv, AnswersAgree, TypeOK, WaiterGivesUp, beatVars
  <2>7. CASE CloseSocket \/ Drained \/ Overran \/ StopChildren \/ BeatsStopped \/ FlushLast
    BY <2>1, <2>7 DEF AnswersAgree, CloseSocket, Drained, Overran, StopChildren,
                      BeatsStopped, FlushLast, beatVars
  <2>8. CASE Publish
    BY <2>1, <2>8 DEF LifecycleInv, AnswersAgree, TypeOK, Publish, beatVars
  <2>9. QED
    BY <2>1, <2>2, <2>3, <2>4, <2>5, <2>6, <2>7, <2>8
       DEF Next, vars, stopVars, beatVars, Signal, Enter, Leave, ConnStep, Accept,
           Register, Open, CloseTalk, ConnDone, WaiterStep, DrainConns, DrainInflight,
           TeardownStep
<1>3. QED
  BY <1>1, <1>2, LifecycleInvariant, PTL DEF Spec

(* A stop is orderly, as the run checks it (Shutdown, stopping the clock   *)
(* and giving back the claim).                                             *)
THEOREM StopIsOrderlyHolds == Spec => []StopIsOrderly
<1>1. CleanStopIsQuiet /\ TicksUnderClaim /\ AnswersAgree => StopIsOrderly
  BY DEF StopIsOrderly
<1>2. QED
  BY <1>1, CleanStopIsQuietHolds, TicksUnderClaimHolds, AnswersAgreeHolds, PTL
=============================================================================
