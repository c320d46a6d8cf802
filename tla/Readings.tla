------------------------------ MODULE Readings ------------------------------
(* What the core believes of its MCP servers (internal/core/backendstate.go)
   and how it asks them (internal/mcpprobe): a sweep probes all the declared
   servers side by side and files the results when the last one is in, while
   calls and listings file what they proved; the readings are saved when one
   changes. A reading is a state, a reason (an error, or a
   note) and the protocol observed. *)
EXTENDS Naturals, FiniteSets
CONSTANTS Servers, Calls,
          MaxNoise,    \* lines a probe reads before it gives up: 64 in the code
          MaxSweeps,   \* bound: sweeps
          MaxCalls,    \* bound: calls and listings
          MaxFaults    \* bound: saves that fail, and restarts
VARIABLES mode,        \* per server, the protocol the settings ask for
          speaks,      \* per server, the protocols it answers
          probe,       \* per server, the probe under way
          sweep,       \* "idle", "asking", "filing"
          unfiled,     \* the servers whose result is not filed yet
          mem, file,   \* the readings, and what is saved of them
          saved,       \* history: the last save was not a failure
          call,        \* the calls and listings that read a reading and have not filed theirs
          sweeps, calls, faults,
          proved       \* history: per server, the states some answer or silence proved
vars == <<mode, speaks, probe, sweep, unfiled, mem, file, saved, call, sweeps, calls, faults, proved>>
setup == <<mode, speaks>>

Unknown == [state |-> "unknown", why |-> "", era |-> "unknown"]
Quiet == [at |-> "idle", noise |-> 0, asked |-> FALSE, result |-> Unknown]
Idle == [at |-> "idle", of |-> "", read |-> Unknown]
Init ==
  /\ mode \in [Servers -> {"legacy", "auto", "modern-pin"}]
  /\ speaks \in [Servers -> {{"legacy"}, {"modern"}, {"legacy", "modern"}}]
  /\ probe = [s \in Servers |-> Quiet] /\ sweep = "idle" /\ unfiled = {}
  /\ mem = [s \in Servers |-> Unknown] /\ file = mem /\ saved = TRUE
  /\ call = [c \in Calls |-> Idle] /\ sweeps = 0 /\ calls = 0 /\ faults = 0
  /\ proved = [s \in Servers |-> {"unknown"}]

-----------------------------------------------------------------------------
\* record, persistLocked: a reading that repeats the one before it is not
\* saved; a save that fails is not tried again, and every save is of them all.
RepeatsState(s, r) == mem[s].state = r.state
Repeats(s, r) == mem[s] = r
Record(s, r) ==
  /\ mem' = [mem EXCEPT ![s] = r]
  /\ IF Repeats(s, r) THEN UNCHANGED <<file, saved, faults>>
     ELSE \/ file' = mem' /\ saved' = TRUE /\ UNCHANGED faults
          \/ faults < MaxFaults /\ faults' = faults + 1 /\ saved' = FALSE /\ UNCHANGED file

\* probeDeclaredServers, ProbeAll: one probe a server, each with its first question.
First(s) == IF mode[s] = "legacy" THEN "legacy" ELSE "modern"
Sweep ==
  /\ sweep = "idle" /\ sweeps < MaxSweeps /\ sweeps' = sweeps + 1 /\ sweep' = "asking"
  /\ unfiled' = Servers /\ probe' = [s \in Servers |-> [Quiet EXCEPT !.at = First(s)]]
  /\ UNCHANGED <<setup, mem, file, saved, call, calls, faults, proved>>
Asking(s) == probe[s].at \in {"legacy", "modern"}
otherVars == <<setup, sweep, unfiled, mem, file, saved, call, sweeps, calls, faults>>
Ends(s, state, why, era) ==
  /\ probe' = [probe EXCEPT ![s] = [Quiet EXCEPT !.at = "done", !.result = [state |-> state, why |-> why, era |-> era]]]
  /\ proved' = [proved EXCEPT ![s] = @ \cup {state}]
Fails(s) == Ends(s, "failed", "error", "unknown")
\* probeHTTP, probeStdioAuto: what only says "not that protocol" is followed
\* by the older question, and only under auto.
FallsBack(s) ==
  IF probe[s].at = "modern" /\ mode[s] = "auto"
    THEN probe' = [probe EXCEPT ![s] = [Quiet EXCEPT !.at = "legacy"]] /\ UNCHANGED proved
    ELSE Fails(s)

\* probeStdio, and probeHTTPRequest with decode: the answer to the question.
\* A discovery that names the older protocol is a way of declining.
Answers(s) == Asking(s) /\ probe[s].at \in speaks[s] /\ Ends(s, "ok", "", probe[s].at) /\ UNCHANGED otherVars
Declines(s) == Asking(s) /\ probe[s].at \notin speaks[s] /\ FallsBack(s) /\ UNCHANGED otherVars
\* A discovery that does not parse, an error of its own, an HTTP status that
\* is not about the protocol, a command that does not start.
Errs(s) == Asking(s) /\ Fails(s) /\ UNCHANGED otherVars
\* Lines that are not the answer: logs, notifications, answers to others, and
\* requests of the server's own, which a modern probe remembers. Over HTTP
\* there are none: those probes are the ones in which this does not happen.
Noise(s, request) ==
  /\ Asking(s)
  /\ IF probe[s].noise + 1 = MaxNoise THEN Fails(s)
     ELSE /\ probe' = [probe EXCEPT ![s].noise = @ + 1, ![s].asked = @ \/ request] /\ UNCHANGED proved
  /\ UNCHANGED otherVars
\* The child exits: after a request of its own that is a way of declining.
Exits(s) ==
  /\ Asking(s)
  /\ IF probe[s].at = "modern" /\ probe[s].asked THEN FallsBack(s) ELSE Fails(s)
  /\ UNCHANGED otherVars
\* The deadline, or the sweep's own context: never a reason to ask again.
Expires(s) == Asking(s) /\ Fails(s) /\ UNCHANGED otherVars

\* The results, filed one by one when the last probe is in.
AllIn == /\ sweep = "asking" /\ \A s \in Servers : probe[s].at = "done" /\ sweep' = "filing"
         /\ UNCHANGED <<setup, probe, unfiled, mem, file, saved, call, sweeps, calls, faults, proved>>
File(s) ==
  /\ sweep = "filing" /\ s \in unfiled /\ unfiled' = unfiled \ {s}
  /\ Record(s, probe[s].result)
  /\ sweep' = IF unfiled' = {} THEN "idle" ELSE sweep
  /\ probe' = [probe EXCEPT ![s] = Quiet]
  /\ UNCHANGED <<setup, call, sweeps, calls, proved>>

-----------------------------------------------------------------------------
\* recordBackendListing, and recordBackendCall for an answer and for a server
\* that cannot be reached: the reading is the evidence.
Count == calls < MaxCalls /\ calls' = calls + 1
Reports(s, state, why) ==
  /\ Count /\ \E e \in speaks[s] \cup {"unknown"} : Record(s, [state |-> state, why |-> why, era |-> e])
  /\ proved' = [proved EXCEPT ![s] = @ \cup {state}]
  /\ UNCHANGED <<setup, probe, sweep, unfiled, call, sweeps>>
Proves(s) == Reports(s, "ok", "") \/ Reports(s, "failed", "error")
\* A neutral call, and a note on a listing that succeeded: the reading is
\* read, and filed again in another critical section.
Look(c, s, of) ==
  /\ call[c].at = "idle" /\ Count
  /\ call' = [call EXCEPT ![c] = [at |-> s, of |-> of, read |-> mem[s]]]
  /\ proved' = IF of = "note" THEN [proved EXCEPT ![s] = @ \cup {"ok"}] ELSE proved
  /\ UNCHANGED <<setup, probe, sweep, unfiled, mem, file, saved, sweeps, faults>>
Refiled(c, s) ==
  IF call[c].of = "note" THEN {[call[c].read EXCEPT !.state = "ok", !.why = "note"]}
  ELSE {[call[c].read EXCEPT !.era = e] : e \in speaks[s] \cup {"unknown"}}
Refile(c) ==
  /\ call[c].at # "idle"
  /\ \E r \in Refiled(c, call[c].at) : Record(call[c].at, r)
  /\ call' = [call EXCEPT ![c] = Idle]
  /\ UNCHANGED <<setup, probe, sweep, unfiled, sweeps, calls, proved>>
\* newBackendMemory: the service starts again from what was saved.
Restart ==
  /\ faults < MaxFaults /\ faults' = faults + 1
  /\ mem' = file /\ saved' = TRUE /\ sweep' = "idle" /\ unfiled' = {}
  /\ probe' = [s \in Servers |-> Quiet] /\ call' = [c \in Calls |-> Idle]
  /\ UNCHANGED <<setup, file, sweeps, calls, proved>>

Next ==
  \/ Sweep \/ AllIn \/ Restart
  \/ \E s \in Servers :
       \/ Answers(s) \/ Declines(s) \/ Errs(s) \/ Exits(s) \/ Expires(s) \/ File(s) \/ Proves(s)
       \/ \E b \in BOOLEAN : Noise(s, b)
  \/ \E c \in Calls : Refile(c) \/ \E s \in Servers, of \in {"neutral", "note"} : Look(c, s, of)
Spec == Init /\ [][Next]_vars

-----------------------------------------------------------------------------
\* serverStatus: with a reading, the reading.
Shown(s) == mem[s].state
\* What the status says of a server was proved by some answer, refusal or
\* silence of that server, however sweeps, calls and notes interleave and
\* whatever was loaded from an earlier life (record, recordBackendCall); a
\* server is never said to speak a protocol it does not; and what is saved is
\* what is shown unless the last save failed.
ReadingsAreEarned ==
  /\ \A s \in Servers : Shown(s) \in proved[s] /\ mem[s].era \in speaks[s] \cup {"unknown"}
  /\ saved => file = mem
=============================================================================
