----------------------------- MODULE Supervisor -----------------------------
(***************************************************************************)
(* The process supervisor of internal/supervisor, with the callers that    *)
(* reach a managed server through internal/core's guardedRunner.           *)
(*                                                                         *)
(* Every server is one `process`: a state under a mutex, moved by at most  *)
(* one `run` goroutine per activation.  Around it run, interleaved in any  *)
(* order: guarded callers, the warm-up goroutines of Core.Run, the idle    *)
(* reaper, and one Supervisor.Stop.  A step below is one critical section  *)
(* of p.mu, or one branch of a select, of one of these goroutines.         *)
(*                                                                         *)
(* Time is abstracted: a timer may fire whenever it is armed.  Three facts *)
(* about durations are kept, each named where it is used: StopBoundElapsed,*)
(* DelayElapsed and StableExit.                                            *)
(***************************************************************************)
EXTENDS Naturals, FiniteSets

CONSTANTS
    Servers,        \* the registered specs
    Persistent,     \* those whose Lifecycle is Persistent; the others are OnDemand
    Callers,        \* concurrent guardedRunner.Run calls
    RestartLimit,   \* Spec.RestartLimit, the same for every server
    NoServer        \* stands for no server at all

ASSUME PersistentAssumption == Persistent \subseteq Servers
ASSUME RestartLimitAssumption == RestartLimit \in Nat
ASSUME CallersAssumption == IsFiniteSet(Callers)
ASSUME NoServerAssumption == NoServer \notin Servers

VARIABLES
    state,      \* process.state
    attempts,   \* process.attempts
    inflight,   \* process.inflight
    stopping,   \* process.stopping, the latch of shutdown()
    stopReq,    \* TRUE when the current activation's stopCh is closed
    run,        \* where the run goroutine is; "off" when there is none
    child,      \* the child: "none", "live", or "dead" (its exit is in `exited`)
    call,       \* call[c]: where a guarded call is
    target,     \* target[c]: the server that call needs
    warm,       \* warm[s]: where the warm-up goroutine of s is
    runCtx,     \* the context Core.Run was given: "live" or "canceled"
    reaper,     \* the idle reaper: "off" or "on"
    reapMark,   \* the server stopIfIdle found idle and is about to stop
    stopPc,     \* where Supervisor.Stop is
    stopOf      \* stopOf[s]: how far Stop has got with s

procVars == <<state, attempts, inflight, stopping, stopReq, run, child>>
callVars == <<call, target>>
stopVars == <<stopPc, stopOf>>
vars == <<state, attempts, inflight, stopping, stopReq, run, child, call,
          target, warm, runCtx, reaper, reapMark, stopPc, stopOf>>

State == {"Stopped", "Starting", "Ready", "Restarting", "Down"}
RunPc == {"off", "spawn", "await", "serve", "term", "killStop", "killFail", "delay"}
CallPc == {"idle", "acquired", "polling", "using", "leaving"}
WarmPc == {"no", "entering", "polling", "done"}
StopPc == {"idle", "latching", "warming", "stopping", "done"}
StopOf == {"none", "latched", "asked", "waiting", "done"}

(* Nothing is running in these two states, as far as the readers of state  *)
(* can tell.                                                               *)
Ended == {"Stopped", "Down"}

TypeOK ==
    /\ state \in [Servers -> State]
    /\ attempts \in [Servers -> Nat]
    /\ inflight \in [Servers -> Nat]
    /\ stopping \in [Servers -> BOOLEAN]
    /\ stopReq \in [Servers -> BOOLEAN]
    /\ run \in [Servers -> RunPc]
    /\ child \in [Servers -> {"none", "live", "dead"}]
    /\ call \in [Callers -> CallPc]
    /\ target \in [Callers -> Servers \cup {NoServer}]
    /\ warm \in [Servers -> WarmPc]
    /\ runCtx \in {"live", "canceled"}
    /\ reaper \in {"off", "on"}
    /\ reapMark \in Servers \cup {NoServer}
    /\ stopPc \in StopPc
    /\ stopOf \in [Servers -> StopOf]

(* New / newProcess: every server registered and stopped.                  *)
Init ==
    /\ state = [s \in Servers |-> "Stopped"]
    /\ attempts = [s \in Servers |-> 0]
    /\ inflight = [s \in Servers |-> 0]
    /\ stopping = [s \in Servers |-> FALSE]
    /\ stopReq = [s \in Servers |-> FALSE]
    /\ run = [s \in Servers |-> "off"]
    /\ child = [s \in Servers |-> "none"]
    /\ call = [c \in Callers |-> "idle"]
    /\ target = [c \in Callers |-> NoServer]
    /\ warm = [s \in Servers |-> "no"]
    /\ runCtx = "live"
    /\ reaper = "off"
    /\ reapMark = NoServer
    /\ stopPc = "idle"
    /\ stopOf = [s \in Servers |-> "none"]

-----------------------------------------------------------------------------
(* Helpers called with p.mu held.                                          *)

(* ensureReady's first critical section, once past the stopping check: a   *)
(* stopped process gets a fresh activation (beginLocked), any other is     *)
(* joined as it is.                                                        *)
Begin(s) ==
    IF state[s] = "Stopped"
    THEN /\ state' = [state EXCEPT ![s] = "Starting"]
         /\ attempts' = [attempts EXCEPT ![s] = 0]
         /\ stopReq' = [stopReq EXCEPT ![s] = FALSE]
         /\ run' = [run EXCEPT ![s] = "spawn"]
    ELSE UNCHANGED <<state, attempts, stopReq, run>>

(* requestStop: closes stopCh unless nothing is running to be asked.       *)
RequestStop(s) ==
    stopReq' = [stopReq EXCEPT ![s] = @ \/ state[s] \notin Ended]

-----------------------------------------------------------------------------
(* guardedRunner.Run: Acquire, EnsureReady, the call itself, Release.      *)

Acquire(c, s) ==
    /\ call[c] = "idle"
    /\ call' = [call EXCEPT ![c] = "acquired"]
    /\ target' = [target EXCEPT ![c] = s]
    /\ inflight' = [inflight EXCEPT ![s] = @ + 1]
    /\ UNCHANGED <<state, attempts, stopping, stopReq, run, child, warm,
                   runCtx, reaper, reapMark, stopVars>>

(* Mutant: the stopping latch is not consulted.                            *)
EnsureReadyUnlatched(c) ==
    /\ call[c] = "acquired"
    /\ call' = [call EXCEPT ![c] = "polling"]
    /\ Begin(target[c])
    /\ UNCHANGED <<inflight, stopping, child, target, warm, runCtx, reaper,
                   reapMark, stopVars>>

(* ensureReady, first critical section.                                    *)
EnsureReady(c) ==
    /\ call[c] = "acquired"
    /\ IF stopping[target[c]]
       THEN /\ call' = [call EXCEPT ![c] = "leaving"]
            /\ UNCHANGED <<state, attempts, stopReq, run>>
       ELSE /\ call' = [call EXCEPT ![c] = "polling"]
            /\ Begin(target[c])
    /\ UNCHANGED <<inflight, stopping, child, target, warm, runCtx, reaper,
                   reapMark, stopVars>>

(* Mutant: only Ready and Down end the loop, Stopped is waited out.        *)
PollIgnoresStopped(c) ==
    /\ call[c] = "polling"
    /\ \/ /\ state[target[c]] = "Ready"
          /\ call' = [call EXCEPT ![c] = "using"]
       \/ /\ state[target[c]] = "Down"
          /\ call' = [call EXCEPT ![c] = "leaving"]
    /\ UNCHANGED <<procVars, target, warm, runCtx, reaper, reapMark, stopVars>>

(* One poll of ensureReady's loop that ends it.                            *)
PollAnswers(c) ==
    /\ call[c] = "polling"
    /\ \/ /\ state[target[c]] = "Ready"
          /\ call' = [call EXCEPT ![c] = "using"]
       \/ /\ state[target[c]] \in Ended
          /\ call' = [call EXCEPT ![c] = "leaving"]
    /\ UNCHANGED <<procVars, target, warm, runCtx, reaper, reapMark, stopVars>>

(* Mutant: a canceled call returns without its Release.                    *)
PollCanceledUnreleased(c) ==
    /\ call[c] = "polling"
    /\ state[target[c]] \in {"Starting", "Restarting"}
    /\ call' = [call EXCEPT ![c] = "idle"]
    /\ target' = [target EXCEPT ![c] = NoServer]
    /\ UNCHANGED <<procVars, warm, runCtx, reaper, reapMark, stopVars>>

(* The caller's context ends while it polls.                               *)
PollCanceled(c) ==
    /\ call[c] = "polling"
    /\ state[target[c]] \in {"Starting", "Restarting"}
    /\ call' = [call EXCEPT ![c] = "leaving"]
    /\ UNCHANGED <<procVars, target, warm, runCtx, reaper, reapMark, stopVars>>

(* The wrapped Runner returns.                                             *)
CallReturns(c) ==
    /\ call[c] = "using"
    /\ call' = [call EXCEPT ![c] = "leaving"]
    /\ UNCHANGED <<procVars, target, warm, runCtx, reaper, reapMark, stopVars>>

(* The deferred Release.                                                   *)
Release(c) ==
    /\ call[c] = "leaving"
    /\ call' = [call EXCEPT ![c] = "idle"]
    /\ target' = [target EXCEPT ![c] = NoServer]
    /\ inflight' = [inflight EXCEPT ![target[c]] = IF @ > 0 THEN @ - 1 ELSE @]
    /\ UNCHANGED <<state, attempts, stopping, stopReq, run, child, warm,
                   runCtx, reaper, reapMark, stopVars>>

-----------------------------------------------------------------------------
(* Core.Run: WarmUp, then Start; and the end of the context it was given.  *)

CoreRun ==
    /\ runCtx = "live"
    /\ \A s \in Servers : warm[s] = "no"
    /\ reaper = "off"
    /\ stopPc = "idle"
    /\ warm' = [s \in Servers |-> IF s \in Persistent THEN "entering" ELSE "done"]
    /\ reaper' = IF Persistent = Servers THEN "off" ELSE "on"
    /\ UNCHANGED <<procVars, callVars, runCtx, reapMark, stopVars>>

CancelRun ==
    /\ runCtx = "live"
    /\ runCtx' = "canceled"
    /\ UNCHANGED <<procVars, callVars, warm, reaper, reapMark, stopVars>>

(* The warm-up goroutine of a persistent server enters ensureReady.        *)
WarmEnters(s) ==
    /\ warm[s] = "entering"
    /\ IF stopping[s]
       THEN /\ warm' = [warm EXCEPT ![s] = "done"]
            /\ UNCHANGED <<state, attempts, stopReq, run>>
       ELSE /\ warm' = [warm EXCEPT ![s] = "polling"]
            /\ Begin(s)
    /\ UNCHANGED <<inflight, stopping, child, callVars, runCtx, reaper,
                   reapMark, stopVars>>

(* It ends on any answer, or when the context of Core.Run is done.         *)
WarmLeaves(s) ==
    /\ warm[s] = "polling"
    /\ state[s] \in Ended \cup {"Ready"} \/ runCtx = "canceled"
    /\ warm' = [warm EXCEPT ![s] = "done"]
    /\ UNCHANGED <<procVars, callVars, runCtx, reaper, reapMark, stopVars>>

-----------------------------------------------------------------------------
(* The idle reaper.  stopIfIdle decides under p.mu, lets go of it, and     *)
(* only then calls requestStop: two steps.  How long a server has been     *)
(* unused is left open: any unused moment may be past IdleTimeout.         *)

(* Mutant: persistent servers are reaped too.                              *)
ReaperFindsAnyIdle(s) ==
    /\ reaper = "on"
    /\ reapMark = NoServer
    /\ state[s] = "Ready"
    /\ inflight[s] = 0
    /\ reapMark' = s
    /\ UNCHANGED <<procVars, callVars, warm, runCtx, reaper, stopVars>>

ReaperFindsIdle(s) ==
    /\ reaper = "on"
    /\ reapMark = NoServer
    /\ s \notin Persistent
    /\ state[s] = "Ready"
    /\ inflight[s] = 0
    /\ reapMark' = s
    /\ UNCHANGED <<procVars, callVars, warm, runCtx, reaper, stopVars>>

ReaperAsks(s) ==
    /\ reapMark = s
    /\ RequestStop(s)
    /\ reapMark' = NoServer
    /\ UNCHANGED <<state, attempts, inflight, stopping, run, child, callVars,
                   warm, runCtx, reaper, stopVars>>

(* Between two ticks the reaper leaves when the context ended or Stop      *)
(* closed s.stopped.                                                       *)
ReaperEnds ==
    /\ reaper = "on"
    /\ reapMark = NoServer
    /\ runCtx = "canceled" \/ stopPc # "idle"
    /\ reaper' = "off"
    /\ UNCHANGED <<procVars, callVars, warm, runCtx, reapMark, stopVars>>

-----------------------------------------------------------------------------
(* The run goroutine of one activation, and the child it owns.             *)

runFrame == <<inflight, stopping, stopReq, callVars, warm, runCtx, reaper,
              reapMark, stopVars>>

(* Mutant: one retry more than RestartLimit allows.                        *)
SpawnFailedOffByOne(s, reset) ==
    LET failures == (IF reset THEN 0 ELSE attempts[s]) + 1
        spent == failures > RestartLimit + 1
    IN  /\ attempts' = [attempts EXCEPT ![s] = failures]
        /\ state' = [state EXCEPT ![s] = IF spent THEN "Down" ELSE "Restarting"]
        /\ run' = [run EXCEPT ![s] = IF spent THEN "off" ELSE "delay"]
        /\ child' = [child EXCEPT ![s] = "none"]

(* spawnOnce returned a failure; reset is stableFor >= StableAfter.        *)
SpawnFailed(s, reset) ==
    LET failures == (IF reset THEN 0 ELSE attempts[s]) + 1
        spent == failures > RestartLimit
    IN  /\ attempts' = [attempts EXCEPT ![s] = failures]
        /\ state' = [state EXCEPT ![s] = IF spent THEN "Down" ELSE "Restarting"]
        /\ run' = [run EXCEPT ![s] = IF spent THEN "off" ELSE "delay"]
        /\ child' = [child EXCEPT ![s] = "none"]

(* spawnOnce returned deliberate: the activation is over.                  *)
SpawnDeliberate(s) ==
    /\ state' = [state EXCEPT ![s] = "Stopped"]
    /\ run' = [run EXCEPT ![s] = "off"]
    /\ child' = [child EXCEPT ![s] = "none"]
    /\ UNCHANGED attempts

(* cmd.Start.                                                              *)
StartSucceeds(s) ==
    /\ run[s] = "spawn"
    /\ child' = [child EXCEPT ![s] = "live"]
    /\ run' = [run EXCEPT ![s] = "await"]
    /\ UNCHANGED <<state, attempts, runFrame>>

StartFails(s) ==
    /\ run[s] = "spawn"
    /\ SpawnFailed(s, FALSE)
    /\ UNCHANGED runFrame

(* waitForReady / waitForHandshake, one action per way out.                *)
AnswersReady(s) ==
    /\ run[s] = "await"
    /\ child[s] = "live"
    /\ state' = [state EXCEPT ![s] = "Ready"]
    /\ run' = [run EXCEPT ![s] = "serve"]
    /\ UNCHANGED <<attempts, child, runFrame>>

ExitsBeforeReady(s) ==
    /\ run[s] = "await"
    /\ child[s] = "dead"
    /\ SpawnFailed(s, FALSE)
    /\ UNCHANGED runFrame

(* ready_timeout, or a handshake that failed: Kill, then wait for the exit.*)
ReadyNeverCame(s) ==
    /\ run[s] = "await"
    /\ run' = [run EXCEPT ![s] = "killFail"]
    /\ UNCHANGED <<state, attempts, child, runFrame>>

StoppedBeforeReady(s) ==
    /\ run[s] = "await"
    /\ stopReq[s]
    /\ run' = [run EXCEPT ![s] = "killStop"]
    /\ UNCHANGED <<state, attempts, child, runFrame>>

(* Time kept: a run long enough to be called stable is longer than the     *)
(* polling period of ensureReady, so nobody who was polling missed it.     *)
StableExit(s) ==
    /\ \A c \in Callers : ~(call[c] = "polling" /\ target[c] = s)
    /\ warm[s] # "polling"

(* The select of a ready server: the child's exit, or stopCh.              *)
ExitsWhileServing(s) ==
    /\ run[s] = "serve"
    /\ child[s] = "dead"
    /\ \E reset \in BOOLEAN : (reset => StableExit(s)) /\ SpawnFailed(s, reset)
    /\ UNCHANGED runFrame

(* gracefulStop: SIGTERM, StopGrace, SIGKILL, the exit.  The state stays   *)
(* Ready throughout.                                                       *)
Terminate(s) ==
    /\ run[s] = "serve"
    /\ stopReq[s]
    /\ run' = [run EXCEPT ![s] = "term"]
    /\ UNCHANGED <<state, attempts, child, runFrame>>

(* Mutant: gracefulStop does not wait for the exit after SIGKILL.          *)
StopGraceAbandons(s) ==
    /\ run[s] = "term"
    /\ child[s] = "live"
    /\ state' = [state EXCEPT ![s] = "Stopped"]
    /\ run' = [run EXCEPT ![s] = "off"]
    /\ UNCHANGED <<attempts, child, runFrame>>

StopGraceElapses(s) ==
    /\ run[s] = "term"
    /\ child[s] = "live"
    /\ run' = [run EXCEPT ![s] = "killStop"]
    /\ UNCHANGED <<state, attempts, child, runFrame>>

StopCompletes(s) ==
    /\ run[s] \in {"term", "killStop"}
    /\ child[s] = "dead"
    /\ SpawnDeliberate(s)
    /\ UNCHANGED runFrame

KilledUnready(s) ==
    /\ run[s] = "killFail"
    /\ child[s] = "dead"
    /\ SpawnFailed(s, FALSE)
    /\ UNCHANGED runFrame

(* The pause before a retry.  Time kept: RestartDelay has not elapsed yet  *)
(* when the select is entered, and the first of the two events wakes it,   *)
(* so a closed stopCh always wins over a timer still running.              *)
DelayElapsed(s) ==
    /\ run[s] = "delay"
    /\ ~stopReq[s]
    /\ state' = [state EXCEPT ![s] = "Starting"]
    /\ run' = [run EXCEPT ![s] = "spawn"]
    /\ UNCHANGED <<attempts, child, runFrame>>

StoppedInDelay(s) ==
    /\ run[s] = "delay"
    /\ stopReq[s]
    /\ SpawnDeliberate(s)
    /\ UNCHANGED runFrame

(* The child exits: on its own at any time, or because it was killed.      *)
ChildExits(s) ==
    /\ child[s] = "live"
    /\ child' = [child EXCEPT ![s] = "dead"]
    /\ UNCHANGED <<state, attempts, run, runFrame>>

RunStep(s) ==
    \/ StartSucceeds(s) \/ StartFails(s)
    \/ AnswersReady(s) \/ ExitsBeforeReady(s) \/ ReadyNeverCame(s)
    \/ StoppedBeforeReady(s)
    \/ ExitsWhileServing(s) \/ Terminate(s) \/ StopGraceElapses(s)
    \/ StopCompletes(s) \/ KilledUnready(s)
    \/ DelayElapsed(s) \/ StoppedInDelay(s)

-----------------------------------------------------------------------------
(* Supervisor.Stop, called once: Core.Shutdown lets only its first caller  *)
(* through to stopProcesses.                                               *)

stopFrame == <<attempts, inflight, run, child, callVars, warm, runCtx,
               reaper, reapMark>>

StopCalled ==
    /\ stopPc = "idle"
    /\ stopPc' = "latching"
    /\ UNCHANGED <<state, stopping, stopReq, stopOf, stopFrame>>

(* shutdown(), first critical section: one process at a time.              *)
Latch(s) ==
    /\ stopPc = "latching"
    /\ stopOf[s] = "none"
    /\ \A t \in Servers : stopOf[t] # "latched"
    /\ stopping' = [stopping EXCEPT ![s] = TRUE]
    /\ stopOf' = [stopOf EXCEPT ![s] = "latched"]
    /\ UNCHANGED <<state, stopReq, stopPc, stopFrame>>

(* shutdown(), the requestStop that follows.                               *)
LatchAsks(s) ==
    /\ stopPc = "latching"
    /\ stopOf[s] = "latched"
    /\ RequestStop(s)
    /\ stopOf' = [stopOf EXCEPT ![s] = "asked"]
    /\ UNCHANGED <<state, stopping, stopPc, stopFrame>>

LatchedAll ==
    /\ stopPc = "latching"
    /\ \A s \in Servers : stopOf[s] = "asked"
    /\ stopPc' = "warming"
    /\ UNCHANGED <<state, stopping, stopReq, stopOf, stopFrame>>

(* warming.Wait().                                                         *)
WarmingOver ==
    /\ stopPc = "warming"
    /\ \A s \in Servers : warm[s] \in {"no", "done"}
    /\ stopPc' = "stopping"
    /\ UNCHANGED <<state, stopping, stopReq, stopOf, stopFrame>>

(* stop(), one goroutine per process: ask, then wait.                      *)
StopAsks(s) ==
    /\ stopPc = "stopping"
    /\ stopOf[s] = "asked"
    /\ RequestStop(s)
    /\ stopOf' = [stopOf EXCEPT ![s] = "waiting"]
    /\ UNCHANGED <<state, stopping, stopPc, stopFrame>>

StopSeesEnd(s) ==
    /\ stopPc = "stopping"
    /\ stopOf[s] = "waiting"
    /\ state[s] \in Ended
    /\ stopOf' = [stopOf EXCEPT ![s] = "done"]
    /\ UNCHANGED <<state, stopping, stopReq, stopPc, stopFrame>>

(* Time kept: stopBound covers SIGTERM, StopGrace and SIGKILL twice over,  *)
(* so it elapses only on a child that outlives its SIGKILL.                *)
StopBoundElapsed(s) ==
    /\ run[s] \in {"killStop", "killFail"}
    /\ child[s] = "live"

(* Mutant: a straggler is marked Stopped, as if it had gone.               *)
StopPretends(s) ==
    /\ stopPc = "stopping"
    /\ stopOf[s] = "waiting"
    /\ state[s] \notin Ended
    /\ StopBoundElapsed(s)
    /\ state' = [state EXCEPT ![s] = "Stopped"]
    /\ stopOf' = [stopOf EXCEPT ![s] = "done"]
    /\ UNCHANGED <<stopping, stopReq, stopPc, stopFrame>>

(* Mutant: stop() polls without a bound.                                   *)
StopWaitsForever(s) ==
    /\ stopOf[s] = "waiting"
    /\ state[s] \notin Ended
    /\ UNCHANGED vars

StopGivesUp(s) ==
    /\ stopPc = "stopping"
    /\ stopOf[s] = "waiting"
    /\ state[s] \notin Ended
    /\ StopBoundElapsed(s)
    /\ state' = [state EXCEPT ![s] = "Down"]
    /\ stopOf' = [stopOf EXCEPT ![s] = "done"]
    /\ UNCHANGED <<stopping, stopReq, stopPc, stopFrame>>

StopReturns ==
    /\ stopPc = "stopping"
    /\ \A s \in Servers : stopOf[s] = "done"
    /\ stopPc' = "done"
    /\ UNCHANGED <<state, stopping, stopReq, stopOf, stopFrame>>

StopStep ==
    \/ LatchedAll \/ WarmingOver \/ StopReturns
    \/ \E s \in Servers : \/ Latch(s) \/ LatchAsks(s) \/ StopAsks(s)
                          \/ StopSeesEnd(s) \/ StopGivesUp(s)

-----------------------------------------------------------------------------
CallStep(c) ==
    \/ EnsureReady(c) \/ PollAnswers(c) \/ Release(c)

WarmStep(s) == WarmEnters(s) \/ WarmLeaves(s)

Next ==
    \/ CoreRun \/ CancelRun \/ ReaperEnds \/ StopCalled \/ StopStep
    \/ \E c \in Callers : \/ CallStep(c) \/ PollCanceled(c) \/ CallReturns(c)
                          \/ \E s \in Servers : Acquire(c, s)
    \/ \E s \in Servers : \/ RunStep(s) \/ ChildExits(s) \/ WarmStep(s)
                          \/ ReaperFindsIdle(s) \/ ReaperAsks(s)

Spec == Init /\ [][Next]_vars

(* Fairness.  The scheduler runs every goroutine that can move, and every  *)
(* armed timer fires.  Nothing is assumed of a child that was not killed,  *)
(* of a caller's own work, of Core.Run's context or of who calls Stop.     *)
GoroutinesRun ==
    /\ \A s \in Servers : /\ WF_vars(RunStep(s))
                          /\ WF_vars(WarmStep(s))
                          /\ WF_vars(ReaperAsks(s))
    /\ \A c \in Callers : WF_vars(CallStep(c))
    /\ WF_vars(StopStep)

(* SIGKILL ends a child (or procgroup's WaitDelay ends the wait for it).   *)
KillWorks == \A s \in Servers : WF_vars(run[s] \in {"killStop", "killFail"} /\ ChildExits(s))

FairSpec == Spec /\ GoroutinesRun

-----------------------------------------------------------------------------
(* Safety.                                                                 *)

(* beginLocked relies on it ("that precondition is what guarantees no run  *)
(* goroutine from a previous activation is still alive"): a Stopped server *)
(* has neither a run goroutine nor a child, and a Down one has neither     *)
(* unless Stop gave up on a child that outlives its SIGKILL.               *)
OneActivation ==
    \A s \in Servers :
        /\ run[s] = "off" <=> (state[s] \in Ended /\ child[s] = "none")
        /\ state[s] = "Stopped" => run[s] = "off"
        /\ state[s] = "Down" /\ run[s] # "off" =>
              stopOf[s] = "done" /\ run[s] \in {"killStop", "killFail"}

(* Supervisor.Stop: "nothing it owns is running when it returns, and       *)
(* nothing can be started through it afterwards".  Once it has returned    *)
(* the only child there can be is one already killed, and no goroutine is  *)
(* left in a place from which a child is started or served.                *)
NothingRunsAfterStop ==
    stopPc = "done" =>
        \A s \in Servers :
            /\ stopping[s]
            /\ run[s] \in {"off", "killStop", "killFail", "delay"}
            /\ child[s] # "none" => run[s] \in {"killStop", "killFail"}
            /\ run[s] # "off" => stopReq[s]

(* The restart budget: an activation under way has failed at most          *)
(* RestartLimit times in a row, and a server is down with no goroutine     *)
(* only when it has failed exactly once more than that.                    *)
BudgetHeld ==
    \A s \in Servers :
        IF state[s] = "Down" /\ run[s] = "off"
        THEN attempts[s] = RestartLimit + 1
        ELSE attempts[s] <= RestartLimit

(* Acquire/Release bracket every guarded call, refused and canceled ones   *)
(* too: inflight is the number of calls between the two, so a server whose *)
(* calls are over is idle again and one with calls never looks idle.       *)
InflightCountsCalls ==
    \A s \in Servers : inflight[s] = Cardinality({c \in Callers : target[c] = s})

(* The stopping latch: once set, no step begins an activation, whoever     *)
(* asks (a late warm-up, a caller that has not noticed the shutdown).      *)
LatchedStaysDown ==
    [][\A s \in Servers : stopping[s] /\ run[s] = "off" => run'[s] = "off"]_vars

(* Persistent: "The idle reaper never touches them".  Only a shutdown      *)
(* closes the stopCh of a persistent server.                               *)
PersistentStaysUp ==
    [][\A s \in Persistent : ~stopReq[s] /\ stopReq'[s] => stopping[s]]_vars

(* The strengthening that makes the safety properties inductive.           *)
RunMatchesState ==
    \A s \in Servers :
        LET gaveUp == state[s] = "Down" /\ stopOf[s] = "done" IN
        /\ run[s] = "off" => state[s] \in Ended /\ child[s] = "none"
        /\ run[s] = "spawn" => state[s] = "Starting" /\ child[s] = "none"
        /\ run[s] = "await" => state[s] = "Starting" /\ child[s] # "none"
        /\ run[s] \in {"serve", "term"} => state[s] = "Ready" /\ child[s] # "none"
        /\ run[s] = "killFail" => (state[s] = "Starting" \/ gaveUp) /\ child[s] # "none"
        /\ run[s] = "killStop" => (state[s] \in {"Starting", "Ready"} \/ gaveUp) /\ child[s] # "none"
        /\ run[s] = "delay" => state[s] = "Restarting" /\ child[s] = "none"

StopProgress ==
    /\ \A s \in Servers :
        /\ stopOf[s] # "none" => stopping[s]
        /\ stopOf[s] \in {"asked", "waiting", "done"} /\ run[s] # "off" => stopReq[s]
        /\ stopOf[s] = "done" => run[s] \in {"off", "killStop", "killFail", "delay"}
    /\ stopPc = "done" => \A s \in Servers : stopOf[s] = "done"

CallsHaveTarget == \A c \in Callers : call[c] = "idle" <=> target[c] = NoServer

IInv ==
    TypeOK /\ RunMatchesState /\ StopProgress /\ BudgetHeld /\ CallsHaveTarget

(* What the supervisor holds to: one activation at a time, no child and no *)
(* goroutine after a Stop that was waited for, and inflight exactly the    *)
(* calls in progress.                                                      *)
ServersHeld == OneActivation /\ NothingRunsAfterStop /\ InflightCountsCalls

-----------------------------------------------------------------------------
(* Liveness.                                                               *)

(* ensureReady "blocks until it answers ready, goes down, or ctx ends":    *)
(* even without its context ending, every poller is answered, because a    *)
(* start has a deadline and the restart budget is finite.  It takes        *)
(* SIGKILL to end the child: stop alone is bounded without that.           *)
CallerAnswered ==
    KillWorks => \A c \in Callers : call[c] = "polling" ~> call[c] # "polling"

(* Stop returns whatever the children do, a child that outlives its        *)
(* SIGKILL included, provided no warm-up goroutine can hold warming.Wait():*)
(* Core.Run's context has ended, as it has when Run itself calls Shutdown, *)
(* or no warm-up is under way.                                             *)
StopTerminates ==
    (/\ stopPc = "latching"
     /\ runCtx = "canceled" \/ \A s \in Servers : warm[s] \in {"no", "done"})
        ~> stopPc = "done"

(* Nobody who waits on the supervisor waits for ever (ensureReady, Stop).  *)
SupervisorAnswers == CallerAnswered /\ StopTerminates

-----------------------------------------------------------------------------
(* What comments in the source say and the code does not do.               *)

(* Acquire and Release: "so the idle reaper never stops a server while     *)
(* something is using it" (supervisor.go).                                 *)
ReaperSparesUsers ==
    [][\A s \in Servers :
          ~stopReq[s] /\ stopReq'[s] /\ ~stopping[s] => inflight[s] = 0]_vars

(* Stop: "Every process is waited for, but none of them indefinitely",     *)
(* whatever the child does: stopBound is there for a child that outlives   *)
(* its SIGKILL, but warming.Wait() comes first and has no bound.           *)
StopNeverWaitsForever == stopPc = "latching" ~> stopPc = "done"
=============================================================================
