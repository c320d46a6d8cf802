-------------------------------- MODULE Chats -------------------------------
(* Conversations over the socket (core/mcp.go), the sessions they hold
   (core/session.go), the rule that a chat which has read the screen does not
   act (core/tainted.go), and the ownership of the device sessions of the
   agent-device backend (core/device_context.go, core/device_ownership.go).
   One connection handles one request at a time (dispatchMu); connections are
   concurrent, and a device call is several steps: a check under the lock, a
   listing of what the backend holds without it, the reservation under it,
   the call, the release. *)
EXTENDS Naturals, FiniteSets
CONSTANTS Conns,        \* connections
          Names,        \* names of device sessions
          Devices,      \* devices; each can be named by its id or by its label
          ClientFloor,  \* [orchestrator] client_effects, or None
          Standing,     \* [orchestrator] standing_effects
          LookThenAct,  \* [desktop] look_then_act
          Asks,         \* the grants an initialize may ask for; None: it asks for none
          MaxSessions,  \* bound: sessions ever opened
          None
VARIABLES chat,     \* per connection: the fields of its conversation that belong to a chat
          saved,    \* what a modern request put aside, or None
          req,      \* the request being dispatched, or Idle
          sessions, \* Core.sessions: the ids of the open sessions
          opened,   \* how many were ever opened
          owners,   \* Core.deviceOwners
          upstream, \* the device sessions the backend holds: name to device and who opened it
          stopping, \* Core.stopping
          looked,   \* history: sessions that were handed what is on the screen
          running   \* history: the sessions whose per-chat backend runs
vars == <<chat, saved, req, sessions, opened, owners, upstream, stopping, looked, running>>

Effects == {"read", "write", "device", "network"}
Capabilities == [inspect |-> {"read", "device"}, click |-> {"write", "device"}, edit |-> {"write"}]
Tools == {"open", "close", "press"}
\* A device is named by its id or by the label a person gave it.
DeviceNames == Devices \X {"id", "label"}
DeviceEffects == {"device"}
ASSUME ChatsAssumption == Standing \subseteq Effects /\ ClientFloor \in (SUBSET Effects) \cup {None}

\* What a floor allows: itself when it was set, what stands when it was not.
Or(floor) == IF floor = None THEN Standing ELSE floor
Held == Or(ClientFloor)
NoChat == [session |-> None, grant |-> {}, floor |-> None, read |-> FALSE, context |-> None, made |-> FALSE]
Idle == [kind |-> "idle"]
NoOwner == [session |-> None, device |-> None, busy |-> FALSE]

Init ==
  /\ chat = [c \in Conns |-> NoChat] /\ saved = [c \in Conns |-> None] /\ req = [c \in Conns |-> Idle]
  /\ sessions = {} /\ opened = 0 /\ stopping = FALSE
  /\ owners = [n \in Names |-> NoOwner] /\ upstream \in [Names -> {None} \cup [device : Devices, by : {None}]]
  /\ looked = {} /\ running = {}

-----------------------------------------------------------------------------
(* Sessions *)

\* A grant may narrow what the machine gives its clients, never widen it.
Grantable(asked) == asked # None => asked \ {"read"} \subseteq Held
Opens(asked) == ~stopping /\ Grantable(asked)
Granted(asked) == IF asked = None THEN Held ELSE asked
FloorFor(asked) == IF asked = None THEN ClientFloor ELSE asked
Allows(c, effect) == effect = "read" \/ effect \in chat[c].grant
Entitled(c, effects) == \A effect \in effects : Allows(c, effect)

\* conversation.close: the per-chat backends, then the session.
Closed(c) == /\ running' = running \ {chat[c].session}
             /\ sessions' = sessions \ {chat[c].session}

\* initialize closes the chat there was before it asks for another; a refusal
\* leaves the conversation without one. What was read stays read: the taint
\* belongs to the conversation.
Initialize(c, asked) ==
  /\ req[c] = Idle /\ saved[c] = None /\ opened < MaxSessions
  /\ IF Opens(asked)
       THEN /\ opened' = opened + 1
            /\ running' = running \ {chat[c].session}
            /\ sessions' = (sessions \ {chat[c].session}) \cup {opened + 1}
            /\ chat' = [chat EXCEPT ![c] = [@ EXCEPT !.session = opened + 1, !.grant = Granted(asked),
                                                    !.floor = FloorFor(asked), !.made = FALSE]]
       ELSE /\ Closed(c)
            /\ chat' = [chat EXCEPT ![c].session = None, ![c].made = FALSE]
            /\ UNCHANGED opened
  /\ UNCHANGED <<saved, req, owners, upstream, stopping, looked>>

\* The end of the connection, with no request left in it.
Disconnect(c) ==
  /\ req[c] = Idle /\ chat[c].session # None
  /\ Closed(c)
  /\ chat' = [chat EXCEPT ![c] = NoChat]
  /\ UNCHANGED <<saved, req, opened, owners, upstream, stopping, looked>>

\* A request that carries its own metadata runs on a session of its own; the
\* conversation's fields are put aside, and put back when it ends.
ModernBegins(c) ==
  /\ req[c] = Idle /\ saved[c] = None /\ opened < MaxSessions /\ Opens(None)
  /\ opened' = opened + 1 /\ sessions' = sessions \cup {opened + 1}
  /\ saved' = [saved EXCEPT ![c] = chat[c]]
  /\ chat' = [chat EXCEPT ![c] = [NoChat EXCEPT !.session = opened + 1, !.grant = Held, !.floor = ClientFloor]]
  /\ UNCHANGED <<req, owners, upstream, stopping, looked, running>>

ModernEnds(c) ==
  /\ saved[c] # None /\ req[c].kind = "done"
  /\ Closed(c)
  /\ chat' = [chat EXCEPT ![c] = saved[c]]
  /\ saved' = [saved EXCEPT ![c] = None] /\ req' = [req EXCEPT ![c] = Idle]
  /\ UNCHANGED <<opened, owners, upstream, stopping, looked>>

Stop == /\ ~stopping /\ stopping' = TRUE
        /\ UNCHANGED <<chat, saved, req, sessions, opened, owners, upstream, looked, running>>

\* A modern request asks for one thing, a chat for one at a time.
MayAsk(c) == req[c] = Idle /\ chat[c].session # None
Becomes(c, r) == req' = [req EXCEPT ![c] = r]
\* The answer is on its way; a modern request still has its fields to put back.
Done(c) == Becomes(c, IF saved[c] = None THEN Idle ELSE [kind |-> "done"])

-----------------------------------------------------------------------------
(* Tools *)

Observing(cap) == cap = "inspect"
Acting(cap) == {"write", "device"} \subseteq Capabilities[cap]
RefuseIfSeeing(c, cap) == ~LookThenAct /\ Acting(cap) /\ chat[c].read /\ saved[c] # None
RefuseIfTainted(c, cap) == ~LookThenAct /\ Acting(cap) /\ chat[c].read

\* atenea.command, the prompts, the list of repositories and the statistics
\* answer from what the core holds and change no chat.
Reads(c) == MayAsk(c) /\ Done(c)
            /\ UNCHANGED <<chat, saved, sessions, opened, owners, upstream, stopping, looked, running>>

\* tools/list reaches every backend, and makes the chat's own instance of the
\* ones declared per chat.
ToolsList(c) ==
  /\ MayAsk(c) /\ Done(c)
  /\ chat' = [chat EXCEPT ![c].made = TRUE] /\ running' = running \cup {chat[c].session}
  /\ UNCHANGED <<saved, sessions, opened, owners, upstream, stopping, looked>>

\* tools/call of a capability. A refused one changes nothing; a looking one
\* taints before it is known whether it answers. The session asks with its own
\* floor, and what the floor does not cover is refused before it runs.
ToolsCall(c, cap) ==
  /\ MayAsk(c)
  /\ IF RefuseIfTainted(c, cap)
       THEN Done(c) /\ UNCHANGED chat
       ELSE /\ chat' = [chat EXCEPT ![c].read = @ \/ Observing(cap)]
            /\ IF Capabilities[cap] \ {"read"} \subseteq Or(chat[c].floor)
                 THEN Becomes(c, [kind |-> "ask", cap |-> cap])
                 ELSE Done(c)
  /\ UNCHANGED <<saved, sessions, opened, owners, upstream, stopping, looked, running>>

Answered(c) ==
  /\ req[c].kind = "ask" /\ Done(c)
  /\ looked' = IF Observing(req[c].cap) THEN looked \cup {chat[c].session} ELSE looked
  /\ UNCHANGED <<chat, saved, sessions, opened, owners, upstream, stopping, running>>

-----------------------------------------------------------------------------
(* Device sessions *)

\* The first check and the second one, under deviceOwnersMu.
MayUse(c, r) == LET o == owners[r.name] IN
  IF o = NoOwner THEN r.tool = "open" ELSE o.session = chat[c].session /\ ~o.busy

\* rawCall up to the first check: the chat's instance, what the session may
\* authorise, the session remembered when none is given.
DeviceCall(c, tool, given, device) ==
  LET name == IF given # None \/ tool = "open" THEN given ELSE chat[c].context
      r == [kind |-> "device", at |-> "listing", tool |-> tool, name |-> name, device |-> device, seen |-> None] IN
  /\ MayAsk(c)
  /\ chat' = [chat EXCEPT ![c].made = TRUE] /\ running' = running \cup {chat[c].session}
  /\ IF Entitled(c, DeviceEffects) /\ name # None /\ (tool = "open" => device # None) /\ MayUse(c, r)
       THEN Becomes(c, r) ELSE Done(c)
  /\ UNCHANGED <<saved, sessions, opened, owners, upstream, stopping, looked>>

\* What the backend holds, read without the lock. A listing that fails ends the call.
ListSessions(c) ==
  /\ req[c].kind = "device" /\ req[c].at = "listing"
  /\ \/ Becomes(c, [req[c] EXCEPT !.at = "reserving", !.seen = upstream])
     \/ Done(c)
  /\ UNCHANGED <<chat, saved, sessions, opened, owners, upstream, stopping, looked, running>>

\* The device the call is about: the one its session is bound to, once there is one.
Meant(r) == IF r.seen[r.name] # None THEN <<r.seen[r.name].device, "id">> ELSE r.device
\* The listing against the call: a session that exists is used only by its
\* owner and on its device, no other session is on the device, and only open
\* goes without a session.
Agrees(r) ==
  /\ r.seen[r.name] # None => /\ owners[r.name] # NoOwner
                              /\ r.device = None \/ r.device[1] = r.seen[r.name].device
  /\ Meant(r) # None => \A n \in Names \ {r.name} : r.seen[n] = None \/ r.seen[n].device # Meant(r)[1]
  /\ r.seen[r.name] # None \/ r.tool = "open"
\* No other owner has reserved the device under the same name of it.
Free(r) == Meant(r) # None => \A n \in Names \ {r.name} : owners[n] = NoOwner \/ owners[n].device # Meant(r)

\* A reservation that trusts the check made before the listing.
ReserveUnchecked(c) ==
  LET r == req[c] IN
  /\ r.kind = "device" /\ r.at = "reserving"
  /\ IF Agrees(r) /\ Free(r)
       THEN /\ owners' = [owners EXCEPT ![r.name] = [session |-> chat[c].session, device |-> Meant(r), busy |-> TRUE]]
            /\ Becomes(c, [r EXCEPT !.at = "calling"])
       ELSE Done(c) /\ UNCHANGED owners
  /\ UNCHANGED <<chat, saved, sessions, opened, upstream, stopping, looked, running>>

Reserve(c) ==
  LET r == req[c] IN
  /\ r.kind = "device" /\ r.at = "reserving"
  /\ IF MayUse(c, r) /\ Agrees(r) /\ Free(r)
       THEN /\ owners' = [owners EXCEPT ![r.name] = [session |-> chat[c].session, device |-> Meant(r), busy |-> TRUE]]
            /\ Becomes(c, [r EXCEPT !.at = "calling"])
       ELSE Done(c) /\ UNCHANGED owners
  /\ UNCHANGED <<chat, saved, sessions, opened, upstream, stopping, looked, running>>

\* The backend: an open may be accepted on a device that another session is on;
\* a call may fail before or after it did what it was asked.
Upstream(c) ==
  LET r == req[c] IN
  /\ r.kind = "device" /\ r.at = "calling"
  /\ \E ok \in BOOLEAN : Becomes(c, [r EXCEPT !.at = IF ok THEN "answered" ELSE "failed"])
                         /\ (upstream' = IF r.tool = "open" /\ upstream[r.name] = None
                                           THEN [upstream EXCEPT ![r.name] = [device |-> Meant(r)[1], by |-> chat[c].session]]
                                         ELSE IF r.tool = "close" THEN [upstream EXCEPT ![r.name] = None]
                                         ELSE upstream)
  /\ UNCHANGED <<chat, saved, sessions, opened, owners, stopping, looked, running>>
UpstreamFails(c) ==
  /\ req[c].kind = "device" /\ req[c].at = "calling"
  /\ Becomes(c, [req[c] EXCEPT !.at = "failed"])
  /\ UNCHANGED <<chat, saved, sessions, opened, owners, upstream, stopping, looked, running>>

\* The end of rawCall: an answer is remembered, then the reservation ends. A
\* close forgets the owner only when it closed the session the conversation
\* remembers.
DeviceReturns(c) ==
  LET r == req[c]
      forgets == r.at = "answered" /\ r.tool = "close" /\ chat[c].context = r.name IN
  /\ r.kind = "device" /\ r.at \in {"answered", "failed"}
  /\ owners' = IF forgets THEN [owners EXCEPT ![r.name] = NoOwner]
               ELSE [owners EXCEPT ![r.name].busy = FALSE]
  /\ chat' = [chat EXCEPT ![c].context = IF forgets THEN None
                                         ELSE IF r.at = "answered" /\ r.tool = "open" THEN r.name ELSE @]
  /\ Done(c)
  /\ UNCHANGED <<saved, sessions, opened, upstream, stopping, looked, running>>

\* Somebody who does not come through Atenea ends a device session of theirs.
Outsider(n) ==
  /\ upstream[n] # None /\ upstream[n].by = None
  /\ upstream' = [upstream EXCEPT ![n] = None]
  /\ UNCHANGED <<chat, saved, req, sessions, opened, owners, stopping, looked, running>>

Next ==
  \/ Stop
  \/ \E n \in Names : Outsider(n)
  \/ \E c \in Conns :
       \/ \E asked \in Asks : Initialize(c, asked)
       \/ Disconnect(c) \/ ModernBegins(c) \/ ModernEnds(c) \/ ToolsList(c) \/ Reads(c)
       \/ \E cap \in DOMAIN Capabilities : ToolsCall(c, cap)
       \/ Answered(c)
       \/ \E tool \in Tools, given \in Names \cup {None}, device \in DeviceNames \cup {None} :
            DeviceCall(c, tool, given, device)
       \/ ListSessions(c) \/ Reserve(c) \/ Upstream(c) \/ UpstreamFails(c) \/ DeviceReturns(c)
Spec == Init /\ [][Next]_vars

-----------------------------------------------------------------------------
Chatting(c) == chat[c].session # None
Calling(c) == req[c].kind = "device" /\ req[c].at = "calling"

\* Two flows never act in one device session at a time, and never hold a device
\* under one name of it; a call in flight is in a session its own chat owns, and
\* never in one that another chat opened (reserveDeviceCall's two checks with
\* the listing between them).
FlowsStayApart ==
  /\ \A c \in Conns : Calling(c) =>
       LET r == req[c] IN
       /\ owners[r.name].session = chat[c].session /\ owners[r.name].busy
       /\ upstream[r.name] # None => upstream[r.name].by \in {None, chat[c].session}
       /\ \A d \in Conns \ {c} : Calling(d) => req[d].name # r.name
  /\ \A n, m \in Names : n # m /\ owners[n] # NoOwner /\ owners[m] # NoOwner /\ owners[n].device # None
                           => owners[n].device # owners[m].device

\* A chat authorises nothing the machine does not give its clients, does not act
\* after it has been handed the screen unless that was switched on, whatever
\* modern requests and new initializes come between; and neither a session nor
\* a per-chat backend outlives the chat or the request it was opened for.
ChatsKeepTheirBounds ==
  /\ \A c \in Conns : req[c].kind = "ask" =>
       /\ Capabilities[req[c].cap] \ {"read"} \subseteq Held
       /\ ~LookThenAct /\ Acting(req[c].cap) => chat[c].session \notin looked
  /\ \A c \in Conns : req[c].kind = "device" => DeviceEffects \subseteq Held
  /\ sessions = ({chat[c].session : c \in Conns} \cup {saved[c].session : c \in {d \in Conns : saved[d] # None}}) \ {None}
  /\ running \subseteq sessions

\* Chats do not reach into one another's devices, nor beyond what each was given.
ChatsStayApart == FlowsStayApart /\ ChatsKeepTheirBounds

\* What the refusals say of a device: it is free again once the flow that had it
\* is gone. It does not hold: a reservation outlives its chat.
OwnersAreAlive == \A n \in Names : owners[n] # NoOwner => owners[n].session \in sessions
=============================================================================
