--------------------------- MODULE CoreLifecycle ----------------------------
(***************************************************************************)
(* internal/core: what a stop does.  Core.Run and Core.Shutdown, the work  *)
(* and the connections a stop waits for (enter, register, accept, answer), *)
(* the chats they open (Open, Close), and the clock and the upkeep claim   *)
(* that settle gives back (internal/clock, internal/pidlock).              *)
(*                                                                         *)
(* A WaitGroup is the set of those who called Add and not yet Done.  What  *)
(* a piece of work does is left out: it ends, or it overruns the grace.    *)
(* The last flush of settle is module MetricsStore's flushLast.            *)
(***************************************************************************)
EXTENDS Naturals, FiniteSets

CONSTANTS
    Conns,      \* connections a client may make
    Tasks,      \* work that enters without a connection: a command's Ask
    Stoppers,   \* calls of Shutdown, Run's own among them
    Nobody      \* stands for no stopper

ASSUME NobodyAssumption == Nobody \notin Stoppers
ASSUME DistinctAssumption == Conns \cap Tasks = {}

Work == Conns \cup Tasks

VARIABLES
    signaled,   \* Run's context has been canceled
    stopping,   \* Core.stopping
    stopped,    \* Core.stopped: "nil", then a channel "open", then "closed"
    stopErr,    \* Core.stopErr
    listening,  \* the listener accepts
    conn,       \* where each connection is
    conns,      \* Core.conns
    task,       \* what each piece of work is doing
    inflight,   \* Core.inflight
    sessions,   \* Core.sessions: the chats, by the connection that holds them
    drain,      \* the goroutine that waits for conns, then for inflight
    teardown,   \* where the first Shutdown is
    verdict,    \* its local stopErr
    leader,     \* who runs it
    stop,       \* where each call of Shutdown is
    answer,     \* what it returned
    beat,       \* the clock's goroutine
    beatStop,   \* Clock.Stop has closed its channel
    upkeep      \* this process holds the upkeep claim

coreVars == <<signaled, stopping, stopped, stopErr, listening>>
workVars == <<conn, conns, task, inflight, sessions>>
stopVars == <<drain, teardown, verdict, leader, stop, answer>>
beatVars == <<beat, beatStop, upkeep>>
vars == <<coreVars, workVars, stopVars, beatVars>>

ConnAt == {"out", "accepted", "open", "closing", "gone"}
TaskAt == {"idle", "working"}
DrainAt == {"off", "conns", "inflight", "done"}
TeardownAt == {"off", "door", "waiting", "processes", "beats", "flush", "publish", "over"}
StopAt == {"idle", "leading", "waiting", "returned"}
Answer == {"none", "ok", "flush failed", "overran", "other overran"}

(* New has claimed the upkeep and Run has started the beats of a service;  *)
(* a command has neither.                                                  *)
Init ==
    /\ signaled = FALSE
    /\ stopping = FALSE /\ stopped = "nil" /\ stopErr = "none"
    /\ conn = [c \in Conns |-> "out"] /\ conns = {}
    /\ task = [w \in Work |-> "idle"] /\ inflight = {}
    /\ sessions = {}
    /\ drain = "off" /\ teardown = "off" /\ verdict = "none" /\ leader = Nobody
    /\ stop = [s \in Stoppers |-> "idle"] /\ answer = [s \in Stoppers |-> "none"]
    /\ beatStop = FALSE
    /\ \/ listening = TRUE /\ beat = "waiting" /\ upkeep = TRUE
       \/ listening = FALSE /\ beat = "ended" /\ upkeep = FALSE

(* SIGTERM, or whatever else cancels Run's context.                        *)
Signal ==
    /\ ~signaled
    /\ signaled' = TRUE
    /\ UNCHANGED <<stopping, stopped, stopErr, listening, workVars, stopVars, beatVars>>

-----------------------------------------------------------------------------
(* Work.                                                                   *)

(* Mutant: work is let in although a stop is under way.                    *)
EnterUnchecked(w) ==
    /\ task[w] = "idle"
    /\ w \in Conns => conn[w] = "open"
    /\ task' = [task EXCEPT ![w] = "working"]
    /\ inflight' = inflight \cup {w}
    /\ UNCHANGED <<coreVars, conn, conns, sessions, stopVars, beatVars>>

(* enter: the flag and the count under one lock; refused work does not     *)
(* change anything.                                                        *)
Enter(w) ==
    /\ task[w] = "idle"
    /\ w \in Conns => conn[w] = "open"
    /\ ~stopping
    /\ task' = [task EXCEPT ![w] = "working"]
    /\ inflight' = inflight \cup {w}
    /\ UNCHANGED <<coreVars, conn, conns, sessions, stopVars, beatVars>>

(* The deferred inflight.Done of Ask, Select and DetectServers.            *)
Leave(w) ==
    /\ task[w] = "working"
    /\ task' = [task EXCEPT ![w] = "idle"]
    /\ inflight' = inflight \ {w}
    /\ UNCHANGED <<coreVars, conn, conns, sessions, stopVars, beatVars>>

-----------------------------------------------------------------------------
(* Connections and chats.                                                  *)

Accept(c) ==
    /\ conn[c] = "out" /\ listening
    /\ conn' = [conn EXCEPT ![c] = "accepted"]
    /\ UNCHANGED <<coreVars, conns, task, inflight, sessions, stopVars, beatVars>>

(* Mutant: the handler is counted without looking at the flag.             *)
RegisterUnchecked(c) ==
    /\ conn[c] = "accepted"
    /\ conn' = [conn EXCEPT ![c] = "open"]
    /\ conns' = conns \cup {c}
    /\ UNCHANGED <<coreVars, task, inflight, sessions, stopVars, beatVars>>

(* register: counted, or hung up on because a stop has begun.              *)
Register(c) ==
    /\ conn[c] = "accepted"
    /\ \/ /\ ~stopping
          /\ conn' = [conn EXCEPT ![c] = "open"]
          /\ conns' = conns \cup {c}
       \/ /\ stopping
          /\ conn' = [conn EXCEPT ![c] = "gone"]
          /\ UNCHANGED conns
    /\ UNCHANGED <<coreVars, task, inflight, sessions, stopVars, beatVars>>

(* Open: refused once a stop is under way.                                 *)
Open(c) ==
    /\ conn[c] = "open" /\ task[c] = "idle"
    /\ c \notin sessions
    /\ ~stopping
    /\ sessions' = sessions \cup {c}
    /\ UNCHANGED <<coreVars, conn, conns, task, inflight, stopVars, beatVars>>

(* The client hangs up, or the context that ended closes the connection:   *)
(* the handler waits for its workers, then talk.close closes the chat.     *)
CloseTalk(c) ==
    /\ conn[c] = "open" /\ task[c] = "idle"
    /\ conn' = [conn EXCEPT ![c] = "closing"]
    /\ sessions' = sessions \ {c}
    /\ UNCHANGED <<coreVars, conns, task, inflight, stopVars, beatVars>>

(* The deferred conns.Done.                                                *)
ConnDone(c) ==
    /\ conn[c] = "closing"
    /\ conn' = [conn EXCEPT ![c] = "gone"]
    /\ conns' = conns \ {c}
    /\ UNCHANGED <<coreVars, task, inflight, sessions, stopVars, beatVars>>

-----------------------------------------------------------------------------
(* The clock.                                                              *)

(* A tick finds something due and takes the lane.                          *)
Beat ==
    /\ beat = "waiting"
    /\ beat' = "running"
    /\ UNCHANGED <<coreVars, workVars, stopVars, beatStop, upkeep>>

BeatEnds ==
    /\ beat = "running"
    /\ beat' = "waiting"
    /\ UNCHANGED <<coreVars, workVars, stopVars, beatStop, upkeep>>

(* tick returns: its context ended or Stop closed its channel.             *)
BeatStops ==
    /\ beat = "waiting"
    /\ signaled \/ beatStop
    /\ beat' = "ended"
    /\ UNCHANGED <<coreVars, workVars, stopVars, beatStop, upkeep>>

-----------------------------------------------------------------------------
(* Shutdown.                                                               *)

(* Mutant: a second call goes home at once.                                *)
ShutdownEarly(s) ==
    /\ stop[s] = "idle"
    /\ \/ /\ ~stopping
          /\ stopping' = TRUE
          /\ stopped' = "open"
          /\ leader' = s
          /\ teardown' = "door"
          /\ stop' = [stop EXCEPT ![s] = "leading"]
          /\ UNCHANGED answer
       \/ /\ stopping
          /\ stop' = [stop EXCEPT ![s] = "returned"]
          /\ answer' = [answer EXCEPT ![s] = "ok"]
          /\ UNCHANGED <<stopping, stopped, leader, teardown>>
    /\ UNCHANGED <<signaled, stopErr, listening, workVars, drain, verdict, beatVars>>

(* The first call tears down; any other waits for it.                      *)
Shutdown(s) ==
    /\ stop[s] = "idle"
    /\ \/ /\ ~stopping
          /\ stopping' = TRUE
          /\ stopped' = "open"
          /\ leader' = s
          /\ teardown' = "door"
          /\ stop' = [stop EXCEPT ![s] = "leading"]
       \/ /\ stopping
          /\ stop' = [stop EXCEPT ![s] = "waiting"]
          /\ UNCHANGED <<stopping, stopped, leader, teardown>>
    /\ UNCHANGED <<signaled, stopErr, listening, workVars, drain, verdict, answer, beatVars>>

(* The channel closed: the waiter takes the lock again and reads stopErr.  *)
WaiterWakes(s) ==
    /\ stop[s] = "waiting" /\ stopped = "closed"
    /\ stop' = [stop EXCEPT ![s] = "returned"]
    /\ answer' = [answer EXCEPT ![s] = stopErr]
    /\ UNCHANGED <<coreVars, workVars, drain, teardown, verdict, leader, beatVars>>

(* Its own grace ran out first.                                            *)
WaiterGivesUp(s) ==
    /\ stop[s] = "waiting"
    /\ stop' = [stop EXCEPT ![s] = "returned"]
    /\ answer' = [answer EXCEPT ![s] = "other overran"]
    /\ UNCHANGED <<coreVars, workVars, drain, teardown, verdict, leader, beatVars>>

(* closeSocket, and the goroutine that waits for the margin's sake.        *)
CloseSocket ==
    /\ teardown = "door"
    /\ listening' = FALSE
    /\ drain' = "conns"
    /\ teardown' = "waiting"
    /\ UNCHANGED <<signaled, stopping, stopped, stopErr, workVars, verdict, leader,
                   stop, answer, beatVars>>

(* conns.Wait returns, then inflight.Wait.                                 *)
DrainConns ==
    /\ drain = "conns" /\ conns = {}
    /\ drain' = "inflight"
    /\ UNCHANGED <<coreVars, workVars, teardown, verdict, leader, stop, answer, beatVars>>

DrainInflight ==
    /\ drain = "inflight" /\ inflight = {}
    /\ drain' = "done"
    /\ UNCHANGED <<coreVars, workVars, teardown, verdict, leader, stop, answer, beatVars>>

(* Everything ended within the grace: the chats left are inert.            *)
Drained ==
    /\ teardown = "waiting" /\ drain = "done"
    /\ teardown' = "processes"
    /\ sessions' = {}
    /\ UNCHANGED <<coreVars, conn, conns, task, inflight, drain, verdict, leader,
                   stop, answer, beatVars>>

(* Mutant: the margin is not bounded, the wait only ends with the work.    *)
OverranUnbounded ==
    /\ teardown = "waiting" /\ drain = "done"
    /\ teardown' = "processes"
    /\ verdict' = "overran"
    /\ UNCHANGED <<coreVars, workVars, drain, leader, stop, answer, beatVars>>

(* The grace ran out: the chats behind the work that overran stay.         *)
Overran ==
    /\ teardown = "waiting"
    /\ teardown' = "processes"
    /\ verdict' = "overran"
    /\ UNCHANGED <<coreVars, workVars, drain, leader, stop, answer, beatVars>>

(* stopProcesses and closeBackends, then settle's beats.Stop closes the    *)
(* clock's channel.                                                        *)
StopChildren ==
    /\ teardown = "processes"
    /\ teardown' = "beats"
    /\ beatStop' = TRUE
    /\ UNCHANGED <<coreVars, workVars, drain, verdict, leader, stop, answer, beat, upkeep>>

(* Mutant: Clock.Stop does not wait for the goroutine it stopped.          *)
BeatsStoppedUnwaited ==
    /\ teardown = "beats"
    /\ upkeep' = FALSE
    /\ teardown' = "flush"
    /\ UNCHANGED <<coreVars, workVars, drain, verdict, leader, stop, answer, beat, beatStop>>

(* Clock.Stop waits for the goroutine and for the lane; then the claim     *)
(* goes back.                                                              *)
BeatsStopped ==
    /\ teardown = "beats"
    /\ beat = "ended"
    /\ upkeep' = FALSE
    /\ teardown' = "flush"
    /\ UNCHANGED <<coreVars, workVars, drain, verdict, leader, stop, answer, beat, beatStop>>

(* flushLast; its error is what a clean stop returns.                      *)
FlushLast ==
    /\ teardown = "flush"
    /\ teardown' = "publish"
    /\ \E result \in {"ok", "flush failed"} :
           verdict' = IF verdict = "overran" THEN verdict ELSE result
    /\ UNCHANGED <<coreVars, workVars, drain, leader, stop, answer, beatVars>>

(* Mutant: the channel closes before the conclusion is published.          *)
PublishLate ==
    /\ teardown \in {"publish", "over"} /\ stop[leader] = "leading"
    /\ \/ /\ teardown = "publish"
          /\ stopped' = "closed"
          /\ teardown' = "over"
          /\ UNCHANGED <<stopErr, stop, answer>>
       \/ /\ teardown = "over"
          /\ stopErr' = verdict
          /\ stop' = [stop EXCEPT ![leader] = "returned"]
          /\ answer' = [answer EXCEPT ![leader] = verdict]
          /\ UNCHANGED <<stopped, teardown>>
    /\ UNCHANGED <<signaled, stopping, listening, workVars, drain, verdict, leader, beatVars>>

(* The deferred function: stopErr under the lock, then the channel, then   *)
(* the first call returns.                                                 *)
Publish ==
    /\ teardown \in {"publish", "over"} /\ stop[leader] = "leading"
    /\ \/ /\ teardown = "publish"
          /\ stopErr' = verdict
          /\ teardown' = "over"
          /\ UNCHANGED <<stopped, stop, answer>>
       \/ /\ teardown = "over"
          /\ stopped' = "closed"
          /\ stop' = [stop EXCEPT ![leader] = "returned"]
          /\ answer' = [answer EXCEPT ![leader] = verdict]
          /\ UNCHANGED <<stopErr, teardown>>
    /\ UNCHANGED <<signaled, stopping, listening, workVars, drain, verdict, leader, beatVars>>

-----------------------------------------------------------------------------
ConnStep(c) == Accept(c) \/ Register(c) \/ Open(c) \/ CloseTalk(c) \/ ConnDone(c)

WaiterStep(s) == WaiterWakes(s) \/ WaiterGivesUp(s)

TeardownStep ==
    \/ CloseSocket \/ Drained \/ Overran \/ StopChildren
    \/ BeatsStopped \/ FlushLast \/ Publish

Next ==
    \/ Signal
    \/ \E w \in Work : Enter(w) \/ Leave(w)
    \/ \E c \in Conns : ConnStep(c)
    \/ Beat \/ BeatEnds \/ BeatStops
    \/ \E s \in Stoppers : Shutdown(s) \/ WaiterStep(s)
    \/ DrainConns \/ DrainInflight
    \/ TeardownStep

Spec == Init /\ [][Next]_vars

(* The teardown and its timers run; a maintenance job ends; the clock's    *)
(* select does not starve a closed channel for ever.  Nothing is assumed   *)
(* of clients or of the work in flight, which may overrun.                 *)
FairSpec ==
    /\ Spec
    /\ WF_vars(TeardownStep) /\ WF_vars(BeatEnds) /\ SF_vars(BeatStops)
    /\ \A s \in Stoppers : WF_vars(WaiterStep(s))

-----------------------------------------------------------------------------
TypeOK ==
    /\ {signaled, stopping, listening, beatStop, upkeep} \subseteq BOOLEAN
    /\ stopped \in {"nil", "open", "closed"}
    /\ stopErr \in Answer /\ verdict \in Answer
    /\ conn \in [Conns -> ConnAt] /\ conns \subseteq Conns
    /\ task \in [Work -> TaskAt] /\ inflight \subseteq Work
    /\ sessions \subseteq Conns
    /\ drain \in DrainAt /\ teardown \in TeardownAt
    /\ leader \in Stoppers \cup {Nobody}
    /\ stop \in [Stoppers -> StopAt] /\ answer \in [Stoppers -> Answer]
    /\ beat \in {"waiting", "running", "ended"}

(* A stop that did not overrun is clean: "no work can slip in behind it".  *)
(* From the moment the processes are stopped nobody is connected, nothing  *)
(* is running and the table of chats is empty, and stays so.               *)
CleanStopIsQuiet ==
    teardown \notin {"off", "door", "waiting"} /\ verdict # "overran"
        => conns = {} /\ inflight = {} /\ sessions = {}

(* accept: "a WaitGroup requires that an Add taking the counter off zero   *)
(* happens before Wait".  Nobody is added once somebody waits.             *)
NoAddAfterWait ==
    [][drain # "off" => conns' \subseteq conns /\ inflight' \subseteq inflight]_vars

(* The claim is "the right to tick": no maintenance job of this process    *)
(* runs once the claim is back and another service may have taken it.      *)
TicksUnderClaim == beat = "running" => upkeep

(* Every call of Shutdown is "entitled to the same answer": one that       *)
(* waited returns what the teardown concluded and never before the writing *)
(* has stopped, or says that it gave up waiting.                           *)
AnswersAgree ==
    \A s \in Stoppers : stop[s] = "returned" /\ answer[s] # "other overran" =>
        /\ teardown = "over" /\ answer[s] = verdict
        /\ beat = "ended" /\ ~upkeep

(* A stop is orderly: clean when it did not overrun, its beats under the   *)
(* claim, the same answer for everybody who asked (Shutdown).              *)
StopIsOrderly == CleanStopIsQuiet /\ TicksUnderClaim /\ AnswersAgree

(* Who waits for whom, and what the teardown may rely on at each stage:    *)
(* the handlers and the work are the ones counted, work runs on an open    *)
(* connection, a chat belongs to one, the waits have seen what they waited *)
(* for, the clock is down before the claim goes, stopErr is written before *)
(* the channel closes, and the first caller alone tears down.              *)
LifecycleInv ==
    /\ TypeOK
    /\ conns = {c \in Conns : conn[c] \in {"open", "closing"}}
    /\ inflight = {w \in Work : task[w] = "working"}
    /\ sessions \subseteq {c \in Conns : conn[c] = "open"}
    /\ stopping <=> teardown # "off"
    /\ drain = "off" <=> teardown \in {"off", "door"}
    /\ drain \in {"inflight", "done"} => conns = {}
    /\ drain = "done" => inflight = {}
    /\ teardown \notin {"off", "door", "waiting"} /\ verdict # "overran"
           => drain = "done" /\ sessions = {}
    /\ beat # "ended" => upkeep
    /\ teardown \in {"flush", "publish", "over"} => beat = "ended" /\ ~upkeep
    /\ teardown = "over" => stopErr = verdict
    /\ stopped = "closed" => teardown = "over"
    /\ leader = Nobody <=> teardown = "off"
    /\ \A s \in Stoppers : stop[s] = "leading" => s = leader /\ stopped # "closed"
    /\ \A s \in Stoppers : stop[s] # "idle" => teardown # "off"

(* "Waiting forever is not an option": every call of Shutdown returns,     *)
(* even when the work in flight never does.                                *)
ShutdownReturns ==
    \A s \in Stoppers : stop[s] \in {"leading", "waiting"} ~> stop[s] = "returned"
=============================================================================
