----------------------------- MODULE AppServer ------------------------------
(* The client of Codex's app server (adapter/codex/appserver.go) under the
   identity gate that certifies a profile (codexcert/identity.go): calls over
   the child's pipes, each waiting for the answer with its number; a reader
   goroutine that hands out answers and applies notifications; and WaitTurn,
   which sleeps until a notification wakes it. The server notifies in the order
   it likes, before or after the answer a notification belongs to. *)
EXTENDS Naturals, Sequences
CONSTANTS Profiles,    \* number of RequiredProfiles
          MaxFaults,   \* bound: wrong answers and uncalled notifications
          MaxOnWire,   \* bound: messages the reader has not taken
          None
VARIABLES gate,     \* RunIdentityGate: where it is, for which profile, with which thread and turn
          next,     \* ProcessTransport.next
          pending,  \* ProcessTransport.pending: the call whose answer is awaited
          response, \* the answer put in its channel
          closed,   \* ProcessTransport.closed
          reader,   \* what the reader is about to do: nothing, or wake
          turns,    \* Client.turns
          receipt,  \* Client.receipt, Client.reroutes, and what had been certified by the first of them
          wake,     \* Client.turnWake
          ctx,      \* the gate's context
          certified, \* the ProfileReceipts
          server, wire, \* external: the child and its output
          said, faults  \* history
vars == <<gate, next, pending, response, closed, reader, turns, receipt, wake, ctx, certified, server, wire, said, faults>>
client == <<pending, response, closed, reader, turns, wake>>

Ids == 1 .. Profiles
Keys == Ids \X Ids
Kinds == {"usage", "item", "completed", "rerouted"}
\* What the gate calls, in order; at 7 it looks, at 8 it sleeps, at 9 it certifies.
Methods == <<"initialize", "account/read", "model/list", "thread/start", "turn/start", "thread/read">>
Fresh == [k \in {"usage", "item", "completed", "rerouted"} |-> FALSE]
NoReceipt == [thread |-> 0, turn |-> 0, observed |-> FALSE, rerouted |-> FALSE, routes |-> {}, before |-> 0]

Init ==
  /\ gate = [at |-> 1, calling |-> FALSE, profile |-> 1, thread |-> 0, turn |-> 0, obs |-> Fresh, verdict |-> "none"]
  /\ next = 0 /\ pending = None /\ response = None /\ closed = FALSE /\ reader = "reading"
  /\ turns = [k \in Keys |-> Fresh] /\ receipt = NoReceipt /\ wake = FALSE /\ ctx = TRUE /\ certified = <<>>
  /\ server = [asked |-> None, owes |-> {}, up |-> TRUE] /\ wire = <<>> /\ said = {} /\ faults = 0

-----------------------------------------------------------------------------
(* The server *)

Says(m) == wire' = Append(wire, m)
\* The right answer to a request: an identity that was asked for, a thread or a
\* turn of its own. It is free to have notified of the turn already.
Answer ==
  /\ server.up /\ server.asked # None /\ Len(wire) < MaxOnWire
  /\ Says([m |-> "answer", id |-> server.asked.id, right |-> TRUE, thread |-> server.asked.thread, turn |-> gate.profile])
  /\ server' = [server EXCEPT !.asked = None]
  /\ UNCHANGED <<gate, next, client, receipt, ctx, certified, said, faults>>
\* An error, somebody else's thread or turn, or another model.
AnswerWrongly(t, u) ==
  /\ server.up /\ server.asked # None /\ Len(wire) < MaxOnWire /\ faults < MaxFaults /\ faults' = faults + 1
  /\ \E right \in BOOLEAN : Says([m |-> "answer", id |-> server.asked.id, right |-> right, thread |-> t, turn |-> u])
  /\ server' = [server EXCEPT !.asked = None]
  /\ UNCHANGED <<gate, next, client, receipt, ctx, certified, said>>
Notify(note) ==
  /\ server.up /\ note \in server.owes /\ Len(wire) < MaxOnWire
  /\ Says([m |-> "note", kind |-> note[1], key |-> note[2]]) /\ said' = said \cup {note}
  /\ server' = [server EXCEPT !.owes = @ \ {note}]
  /\ UNCHANGED <<gate, next, client, receipt, ctx, certified, faults>>
NotifyUncalled(kind, key) ==
  /\ server.up /\ Len(wire) < MaxOnWire /\ faults < MaxFaults /\ faults' = faults + 1
  /\ Says([m |-> "note", kind |-> kind, key |-> key]) /\ said' = said \cup {<<kind, key>>}
  /\ UNCHANGED <<gate, next, client, receipt, ctx, certified, server>>
Dies == /\ server.up /\ server' = [server EXCEPT !.up = FALSE, !.asked = None, !.owes = {}]
        /\ UNCHANGED <<gate, next, client, receipt, ctx, certified, wire, said, faults>>

-----------------------------------------------------------------------------
(* ProcessTransport *)

\* Call: a number, a place in pending, and the request written.
Call ==
  /\ gate.at \in DOMAIN Methods /\ ~gate.calling /\ gate.verdict = "none"
  /\ next' = next + 1 /\ pending' = next + 1 /\ response' = None
  /\ gate' = [gate EXCEPT !.calling = TRUE]
  /\ server' = IF server.up
                 THEN [server EXCEPT !.asked = [id |-> next + 1, thread |-> IF gate.at = 4 THEN gate.profile ELSE gate.thread],
                                     !.owes = IF gate.at = 5 THEN {"usage", "item", "completed"} \X {<<gate.thread, gate.profile>>} ELSE @]
                 ELSE server
  /\ UNCHANGED <<closed, reader, turns, wake, receipt, ctx, certified, wire, said, faults>>

\* read: an answer goes to the call with its number, or nowhere.
ReadAnswer ==
  /\ reader = "reading" /\ wire # <<>> /\ Head(wire).m = "answer"
  /\ wire' = Tail(wire)
  /\ IF Head(wire).id = pending THEN pending' = None /\ response' = Head(wire) ELSE UNCHANGED <<pending, response>>
  /\ UNCHANGED <<gate, next, closed, reader, turns, wake, receipt, ctx, certified, server, said, faults>>
\* handleNotification: the turn's state under the lock, then the wake-up.
Wakes(kind) == kind \in Kinds
ReadNote ==
  /\ reader = "reading" /\ wire # <<>> /\ Head(wire).m = "note"
  /\ wire' = Tail(wire)
  /\ turns' = [turns EXCEPT ![Head(wire).key][Head(wire).kind] = TRUE]
  /\ receipt' = IF Head(wire).kind = "rerouted"
                  THEN [receipt EXCEPT !.rerouted = TRUE, !.routes = @ \cup {Head(wire).key},
                                       !.before = IF receipt.routes = {} THEN Len(certified) ELSE @]
                  ELSE receipt
  /\ reader' = IF Wakes(Head(wire).kind) THEN "waking" ELSE "reading"
  /\ UNCHANGED <<gate, next, pending, response, closed, wake, ctx, certified, server, said, faults>>
Wake == /\ reader = "waking" /\ reader' = "reading" /\ wake' = TRUE
        /\ UNCHANGED <<gate, next, pending, response, closed, turns, receipt, ctx, certified, server, wire, said, faults>>
\* The end of the output: closed first, then every call that waits is told.
ReadEnds ==
  /\ reader = "reading" /\ wire = <<>> /\ ~server.up /\ reader' = "ended" /\ closed' = TRUE
  /\ UNCHANGED <<gate, next, pending, response, turns, wake, receipt, ctx, certified, server, wire, said, faults>>
Sweep ==
  /\ reader = "ended" /\ pending # None /\ pending' = None
  /\ response' = [m |-> "answer", id |-> pending, right |-> FALSE, thread |-> 0, turn |-> 0]
  /\ UNCHANGED <<gate, next, closed, reader, turns, wake, receipt, ctx, certified, server, wire, said, faults>>

-----------------------------------------------------------------------------
(* The gate *)

Fails == gate' = [gate EXCEPT !.verdict = "failed", !.calling = FALSE]
\* Call's other two ends: the context, which takes the number out of pending,
\* and the transport's.
CallFails ==
  /\ gate.calling
  /\ ~(ctx /\ ~closed)
  /\ Fails /\ pending' = IF ctx THEN pending ELSE None
  /\ UNCHANGED <<next, response, closed, reader, turns, wake, receipt, ctx, certified, server, wire, said, faults>>

\* What each method makes of its answer: another thread than the one asked
\* about, another model or a malformed result is an error.
Accepts(r) == r.right /\ (gate.at \in {5, 6} => r.thread = gate.thread)
CallReturns ==
  /\ gate.calling /\ response # None
  /\ response' = None
  /\ IF Accepts(response)
       THEN /\ receipt' = IF gate.at = 4 THEN [receipt EXCEPT !.thread = response.thread, !.observed = TRUE]
                          ELSE IF gate.at = 5 THEN [receipt EXCEPT !.turn = response.turn, !.observed = FALSE]
                          ELSE IF gate.at = 6 THEN [receipt EXCEPT !.observed = TRUE] ELSE receipt
            /\ IF gate.at = 5 /\ <<gate.thread, response.turn>> \in receipt.routes
                 THEN Fails
                 ELSE gate' = [gate EXCEPT !.calling = FALSE, !.at = IF @ = 5 THEN 7 ELSE IF @ = 6 THEN 9 ELSE @ + 1,
                                           !.thread = IF gate.at = 4 THEN response.thread ELSE @,
                                           !.turn = IF gate.at = 5 THEN response.turn ELSE @]
       ELSE Fails /\ UNCHANGED receipt
  /\ UNCHANGED <<next, pending, closed, reader, turns, wake, ctx, certified, server, wire, said, faults>>

\* WaitTurn: a look under the lock, and a sleep until the next wake-up.
Mine == <<gate.thread, gate.turn>>
Look ==
  /\ gate.at = 7 /\ gate.verdict = "none"
  /\ IF turns[Mine].completed
       THEN /\ turns' = [turns EXCEPT ![Mine] = Fresh]
            /\ gate' = IF turns[Mine].rerouted THEN [gate EXCEPT !.verdict = "failed"]
                       ELSE [gate EXCEPT !.at = 6, !.obs = turns[Mine]]
       ELSE gate' = [gate EXCEPT !.at = 8] /\ UNCHANGED turns
  /\ UNCHANGED <<next, pending, response, closed, reader, wake, receipt, ctx, certified, server, wire, said, faults>>
Woken == /\ gate.at = 8 /\ gate.verdict = "none" /\ wake /\ wake' = FALSE /\ gate' = [gate EXCEPT !.at = 7]
         /\ UNCHANGED <<next, pending, response, closed, reader, turns, receipt, ctx, certified, server, wire, said, faults>>
WaitEnds == /\ gate.at = 8 /\ gate.verdict = "none" /\ ~ctx /\ Fails
            /\ UNCHANGED <<next, client, receipt, ctx, certified, server, wire, said, faults>>
ContextEnds == /\ ctx /\ gate.verdict = "none" /\ ctx' = FALSE
               /\ UNCHANGED <<gate, next, client, receipt, certified, server, wire, said, faults>>

\* Mutant: of the session's reroutes, only the turn's own counts.
CorrelatedOfTurn == /\ receipt.observed /\ Mine \notin receipt.routes /\ receipt.thread = gate.thread /\ receipt.turn = gate.turn
                    /\ gate.obs.completed /\ gate.obs.usage
\* The receipt against the profile, the thread, the turn and what was observed.
Correlated == /\ receipt.observed /\ ~receipt.rerouted /\ receipt.thread = gate.thread /\ receipt.turn = gate.turn
              /\ gate.obs.completed /\ gate.obs.usage
Certify ==
  /\ gate.at = 9 /\ gate.verdict = "none"
  /\ IF Correlated
       THEN /\ certified' = Append(certified, Mine)
            /\ gate' = [gate EXCEPT !.at = IF gate.profile = Profiles THEN @ ELSE 4, !.obs = Fresh,
                                    !.profile = IF @ = Profiles THEN @ ELSE @ + 1,
                                    !.verdict = IF gate.profile = Profiles THEN "passed" ELSE @]
       ELSE Fails /\ UNCHANGED certified
  /\ UNCHANGED <<next, client, receipt, ctx, server, wire, said, faults>>

Next == \/ Answer \/ Dies \/ Call \/ ReadAnswer \/ ReadNote \/ Wake \/ ReadEnds \/ Sweep \/ CallFails \/ CallReturns
        \/ Look \/ Woken \/ WaitEnds \/ ContextEnds \/ Certify
        \/ \E t, u \in Ids : AnswerWrongly(t, u)
        \/ \E note \in Kinds \X Keys : Notify(note) \/ NotifyUncalled(note[1], note[2])
Spec == Init /\ [][Next]_vars

-----------------------------------------------------------------------------
\* A gate asleep in WaitTurn whose turn is over has been woken or is about to
\* be; what it certified is a turn the server said was over and counted; nothing
\* is certified once a reroute of any turn has been read, and no turn is read
\* again of which WaitTurn had seen one (handleNotification, WaitTurn, RunIdentityGate).
TurnsAreWitnessed ==
  /\ gate.at = 8 /\ gate.verdict = "none" /\ turns[Mine].completed => wake \/ reader = "waking"
  /\ \A i \in 1 .. Len(certified) : {<<"usage", certified[i]>>, <<"completed", certified[i]>>} \subseteq said
  /\ receipt.routes # {} => Len(certified) = receipt.before
  /\ gate.at \in {6, 9} => ~gate.obs.rerouted
  /\ gate.verdict = "passed" => Len(certified) = Profiles
=============================================================================
