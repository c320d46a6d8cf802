------------------------ MODULE ConversationsProofs ------------------------
(* What the systems of Conversations promise, for every value of their
   constants. There is a section for each, which ends in what its own
   specification promises: what a chat is given (Chats), an input of the Android
   runner (Frames), a search (Search), what a delegation spent (Delegate), and a
   certified turn of the app server (AppServer). Every section has the same
   form: what its records look like, the invariant as named parts, and a lemma
   for each action or group of actions. The last section carries the results
   over to the composition. *)
EXTENDS Conversations, Sequences, TLAPS

-----------------------------------------------------------------------------
(* Chats: the conversations and what was put aside, the requests, the owners. *)

Grants == {{}, Held} \cup Asks
Floors == {None, ClientFloor} \cup Asks
Chat == [session : Nat \cup {None}, grant : Grants, floor : Floors, read : BOOLEAN, context : Names \cup {None}, made : BOOLEAN]
Owned == [session : Nat \cup {None}, device : DeviceNames \cup {None}, busy : BOOLEAN]
Bound == [device : Devices, by : Nat \cup {None}]
Views == [Names -> Bound \cup {None}]
DeviceCalls == [kind : {"device"}, at : {"listing", "reserving", "calling", "answered", "failed"}, tool : Tools, name : Names,
                device : DeviceNames \cup {None}, seen : Views \cup {None}]
Plain == [kind : {"idle", "done"}] \cup [kind : {"ask"}, cap : DOMAIN Capabilities]
ChatTypes ==
  /\ chat \in [Conns -> Chat] /\ saved \in [Conns -> Chat \cup {None}] /\ opened \in Nat
  /\ req \in [Conns -> Plain \cup DeviceCalls] /\ owners \in [Names -> Owned] /\ upstream \in Views /\ looked \subseteq 1 .. opened
\* A conversation and what a modern request put aside are two places for a chat.
Slots == Conns \X {"chat", "saved"}
Kept(s) == IF s[2] = "chat" THEN chat[s[1]] ELSE saved[s[1]]
Alive == {s \in Slots : (s[2] = "chat" \/ saved[s[1]] # None) /\ Kept(s).session # None}
\* A chat was opened, was given what a client may be given, and has read what its session looked at.
SlotOK(s) == /\ Kept(s).session \in 1 .. opened
             /\ Kept(s).grant \ {"read"} \subseteq Held /\ Or(Kept(s).floor) \ {"read"} \subseteq Held
             /\ Kept(s).session \in looked => Kept(s).read
SlotsOK == /\ \A s \in Alive : SlotOK(s)
           /\ \A s, t \in Alive : s # t => Kept(s).session # Kept(t).session
           /\ sessions = {Kept(s).session : s \in Alive} /\ running \subseteq sessions
AskOK(c) == req[c].kind = "ask" =>
  /\ chat[c].session # None /\ Capabilities[req[c].cap] \ {"read"} \subseteq Held /\ (Observing(req[c].cap) => chat[c].read)
  /\ ~LookThenAct /\ Acting(req[c].cap) => chat[c].session \notin looked
\* From the reservation to its end a device session belongs to one call.
InCall(c) == req[c].kind = "device" /\ req[c].at \in {"calling", "answered", "failed"}
CallOK(c) == req[c].kind = "device" =>
  /\ chat[c].session # None /\ DeviceEffects \subseteq Held /\ (req[c].tool = "open" => req[c].device # None)
  /\ req[c].at # "listing" => req[c].seen \in Views
  /\ InCall(c) => owners[req[c].name].session = chat[c].session /\ owners[req[c].name].busy
  /\ req[c].at = "answered" /\ req[c].tool = "close" => upstream[req[c].name] = None
\* What was opened upstream for a chat is in the name of that chat, and no
\* device has two owners under one name of it.
OwnersOK == /\ \A n \in Names : upstream[n] # None /\ upstream[n].by # None => owners[n].session = upstream[n].by
            /\ \A n, m \in Names : n # m /\ owners[n].device # None => owners[n].device # owners[m].device
FlowsOK == /\ \A c \in Conns : AskOK(c) /\ CallOK(c)
           /\ \A c, d \in Conns : c # d /\ InCall(c) /\ InCall(d) => req[c].name # req[d].name
           /\ OwnersOK
ChatsInv == ChatTypes /\ SlotsOK /\ FlowsOK

\* Two places that hold one session are one place.
LEMMA OneChat ==
  ASSUME ChatsInv, NEW s \in Alive, NEW t \in Alive, Kept(s).session = Kept(t).session
  PROVE  s = t
BY DEF ChatsInv, SlotsOK

LEMMA ChatAlive ==
  ASSUME ChatsInv, NEW c \in Conns, chat[c].session # None
  PROVE  /\ <<c, "chat">> \in Alive /\ Kept(<<c, "chat">>) = chat[c] /\ chat[c].session \in sessions /\ chat[c].session \in 1 .. opened
         /\ chat[c].grant \ {"read"} \subseteq Held /\ Or(chat[c].floor) \ {"read"} \subseteq Held
         /\ (chat[c].session \in looked => chat[c].read)
<1>1. <<c, "chat">> \in Alive /\ Kept(<<c, "chat">>) = chat[c]
  BY DEF Alive, Slots, Kept
<1>2. SlotOK(<<c, "chat">>) /\ sessions = {Kept(s).session : s \in Alive}
  BY <1>1 DEF ChatsInv, SlotsOK
<1> QED BY <1>1, <1>2 DEF SlotOK

\* The chats stay, with what they have read besides.
LEMMA SlotsStay ==
  ASSUME ChatsInv, UNCHANGED <<saved, sessions, opened>>, running' \subseteq sessions,
         \A d \in Conns : /\ chat'[d].session = chat[d].session /\ chat'[d].grant = chat[d].grant /\ chat'[d].floor = chat[d].floor
                          /\ (chat[d].read => chat'[d].read),
         \/ looked' = looked
         \/ \E c \in Conns : chat[c].session # None /\ looked' = looked \cup {chat[c].session} /\ chat'[c].read
  PROVE  SlotsOK'
<1>1. Alive' = Alive
  BY DEF Alive, Slots, Kept
<1>2. ASSUME NEW s \in Alive
      PROVE  /\ Kept(s)'.session = Kept(s).session /\ Kept(s)'.grant = Kept(s).grant /\ Kept(s)'.floor = Kept(s).floor
             /\ (Kept(s).read => Kept(s)'.read)
  BY <1>2 DEF Alive, Slots, Kept
<1>3. ASSUME NEW s \in Alive PROVE SlotOK(s)'
  <2>1. SlotOK(s)
    BY DEF ChatsInv, SlotsOK
  <2>2. Kept(s).session \in looked' => Kept(s)'.read
    <3>1. CASE Kept(s).session \in looked
      BY <1>2, <2>1, <3>1 DEF SlotOK
    <3>2. ASSUME Kept(s).session \in looked', Kept(s).session \notin looked PROVE Kept(s)'.read
      <4>1. PICK c \in Conns : chat[c].session # None /\ chat[c].session = Kept(s).session /\ chat'[c].read
        BY <3>2
      <4>2. s = <<c, "chat">>
        BY <4>1, ChatAlive, OneChat, ZenonT(60)
      <4> QED BY <4>1, <4>2 DEF Kept
    <3> QED BY <3>1, <3>2
  <2> QED BY <1>2, <2>1, <2>2 DEF SlotOK, Or
<1>4. sessions' = {Kept(s)'.session : s \in Alive}
  BY <1>2 DEF ChatsInv, SlotsOK
<1>5. \A s, t \in Alive : s # t => Kept(s)'.session # Kept(t)'.session
  BY <1>2 DEF ChatsInv, SlotsOK
<1>6. \A s \in Alive' : SlotOK(s)'
  BY <1>1, <1>3
<1> QED BY <1>1, <1>4, <1>5, <1>6 DEF SlotsOK

\* One connection goes on; what the others' requests rest on is still there.
LEMMA FlowsMove ==
  ASSUME ChatsInv, NEW c \in Conns, NEW r, req' = [req EXCEPT ![c] = r], AskOK(c)', CallOK(c)', OwnersOK',
         \A d \in Conns \ {c} : /\ chat'[d].session = chat[d].session /\ (chat[d].read => chat'[d].read)
                                /\ (chat[d].session # None /\ chat[d].session \notin looked => chat[d].session \notin looked')
                                /\ (InCall(d) => owners'[req[d].name] = owners[req[d].name])
                                /\ (InCall(d) /\ upstream[req[d].name] = None => upstream'[req[d].name] = None)
                                /\ (InCall(c)' /\ InCall(d) => r.name # req[d].name)
  PROVE  FlowsOK'
<1>1. ChatTypes /\ FlowsOK
  BY DEF ChatsInv
<1>2. req'[c] = r /\ \A d \in Conns \ {c} : req'[d] = req[d]
  BY <1>1 DEF ChatTypes
<1>3. ASSUME NEW d \in Conns \ {c} PROVE AskOK(d)' /\ CallOK(d)' /\ InCall(d)' = InCall(d)
  <2>1. AskOK(d) /\ CallOK(d) /\ req'[d] = req[d]
    BY <1>1, <1>2 DEF FlowsOK
  <2>2. InCall(d)' = InCall(d)
    BY <2>1 DEF InCall
  <2>3. AskOK(d)'
    BY <2>1 DEF AskOK
  <2>4. CallOK(d)'
    <3>1. InCall(d) => owners'[req[d].name].session = chat'[d].session /\ owners'[req[d].name].busy
      BY <2>1 DEF CallOK, InCall
    <3>2. req[d].kind = "device" /\ req[d].at = "answered" /\ req[d].tool = "close" => upstream'[req[d].name] = None
      BY <2>1 DEF CallOK, InCall
    <3> QED BY <2>1, <2>2, <3>1, <3>2 DEF CallOK
  <2> QED BY <2>2, <2>3, <2>4
<1>4. ASSUME NEW d \in Conns, NEW e \in Conns, d # e, InCall(d)', InCall(e)' PROVE req'[d].name # req'[e].name
  <2>1. CASE d = c
    BY <1>2, <1>3, <1>4, <2>1
  <2>2. CASE e = c
    BY <1>2, <1>3, <1>4, <2>2
  <2>3. CASE d # c /\ e # c
    BY <1>1, <1>2, <1>3, <1>4, <2>3 DEF FlowsOK
  <2> QED BY <2>1, <2>2, <2>3
<1> QED BY <1>3, <1>4 DEF FlowsOK

\* A connection whose request ends, or goes on without touching an owner or the backend.
LEMMA RequestMoves ==
  ASSUME ChatsInv, NEW c \in Conns, NEW r \in Plain \cup DeviceCalls, req' = [req EXCEPT ![c] = r], AskOK(c)', CallOK(c)',
         UNCHANGED <<owners, upstream, saved, sessions, opened>>, running' \subseteq sessions, chat' \in [Conns -> Chat],
         \A d \in Conns : /\ chat'[d].session = chat[d].session /\ chat'[d].grant = chat[d].grant /\ chat'[d].floor = chat[d].floor
                          /\ (chat[d].read => chat'[d].read),
         \/ looked' = looked
         \/ chat[c].session # None /\ looked' = looked \cup {chat[c].session} /\ chat'[c].read,
         r.kind = "device" /\ r.at \notin {"listing", "reserving"} =>
            r.name = req[c].name /\ InCall(c)
  PROVE  ChatsInv'
<1>1. ChatTypes /\ FlowsOK /\ SlotsOK
  BY DEF ChatsInv
<1>2. ASSUME NEW d \in Conns \ {c}, chat[d].session # None, chat[d].session \notin looked PROVE chat[d].session \notin looked'
  <2>1. chat[c].session # None => chat[c].session # chat[d].session
    <3>1. SUFFICES ASSUME chat[c].session # None, chat[c].session = chat[d].session PROVE FALSE
      OBVIOUS
    <3>2. PICK s, t : s = <<c, "chat">> /\ t = <<d, "chat">>
      OBVIOUS
    <3>3. s \in Alive /\ Kept(s) = chat[c] /\ t \in Alive /\ Kept(t) = chat[d]
      BY <1>2, <3>1, <3>2, ChatAlive
    <3>4. s = t
      BY <3>1, <3>3, OneChat
    <3> QED BY <3>2, <3>4
  <2> QED BY <1>2, <2>1
<1>3. ASSUME NEW d \in Conns \ {c}, InCall(c)', InCall(d) PROVE r.name # req[d].name
  <2>1. req'[c] = r
    BY <1>1 DEF ChatTypes
  <2>2. r.name = req[c].name /\ InCall(c)
    BY <1>3, <2>1 DEF InCall
  <2> QED BY <1>1, <1>3, <2>2 DEF FlowsOK
<1>4. OwnersOK'
  BY <1>1 DEF FlowsOK, OwnersOK
<1>5. FlowsOK'
  BY <1>1, <1>2, <1>3, <1>4, FlowsMove
<1>6. SlotsOK'
  BY SlotsStay
<1>7. looked' \subseteq 1 .. opened
  BY <1>1, ChatAlive, ZenonT(60) DEF ChatTypes
<1>8. ChatTypes'
  BY <1>1, <1>7 DEF ChatTypes
<1> QED BY <1>5, <1>6, <1>8 DEF ChatsInv

\* The same, for the end of a request.
LEMMA RequestDone ==
  ASSUME ChatsInv, NEW c \in Conns, Done(c),
         UNCHANGED <<owners, upstream, saved, sessions, opened>>, running' \subseteq sessions, chat' \in [Conns -> Chat],
         \A d \in Conns : /\ chat'[d].session = chat[d].session /\ chat'[d].grant = chat[d].grant /\ chat'[d].floor = chat[d].floor
                          /\ (chat[d].read => chat'[d].read),
         \/ looked' = looked
         \/ chat[c].session # None /\ looked' = looked \cup {chat[c].session} /\ chat'[c].read
  PROVE  ChatsInv'
<1>1. PICK r : r = IF saved[c] = None THEN Idle ELSE [kind |-> "done"]
  OBVIOUS
<1>2. r \in Plain \cup DeviceCalls /\ r.kind \in {"idle", "done"}
  BY <1>1 DEF Plain, Idle
<1>3. req' = [req EXCEPT ![c] = r]
  BY <1>1 DEF Done, Becomes
<1>4. req'[c] = r
  BY <1>3 DEF ChatsInv, ChatTypes
<1>5. AskOK(c)' /\ CallOK(c)'
  BY <1>2, <1>4 DEF AskOK, CallOK
<1> QED BY <1>2, <1>3, <1>5, RequestMoves

\* A chat is used: its request begins, and with it its own backend.
LEMMA ChatUsed ==
  ASSUME ChatsInv, NEW c \in Conns, NEW made \in BOOLEAN, NEW read \in BOOLEAN, chat[c].read => read,
         chat' = [chat EXCEPT ![c] = [chat[c] EXCEPT !.made = made, !.read = read]]
  PROVE  /\ chat' \in [Conns -> Chat] /\ chat'[c].read = read
         /\ \A d \in Conns : /\ chat'[d].session = chat[d].session /\ chat'[d].grant = chat[d].grant /\ chat'[d].floor = chat[d].floor
                             /\ (chat[d].read => chat'[d].read)
<1>1. PICK n : n = [chat[c] EXCEPT !.made = made, !.read = read]
  OBVIOUS
<1>2. chat[c] \in Chat /\ chat \in [Conns -> Chat]
  BY DEF ChatsInv, ChatTypes
<1>3. n \in Chat /\ n.read = read /\ n.session = chat[c].session /\ n.grant = chat[c].grant /\ n.floor = chat[c].floor
  BY <1>1, <1>2 DEF Chat
<1>4. chat' = [chat EXCEPT ![c] = n]
  BY <1>1
<1> QED BY <1>2, <1>3, <1>4

\* What answers from the core's own state, the list of tools, and a capability.
LEMMA ToolSteps ==
  ASSUME ChatsInv, NEW c \in Conns,
         Reads(c) \/ ToolsList(c) \/ (\E cap \in DOMAIN Capabilities : ToolsCall(c, cap)) \/ Answered(c)
  PROVE  ChatsInv'
<1>1. chat \in [Conns -> Chat] /\ chat[c] \in Chat /\ running \subseteq sessions
  BY DEF ChatsInv, ChatTypes, SlotsOK
<1>2. CASE Reads(c)
  BY <1>1, <1>2, RequestDone DEF Reads
<1>3. CASE ToolsList(c)
  <2>1. /\ chat[c].session # None /\ Done(c) /\ running' = running \cup {chat[c].session}
        /\ UNCHANGED <<saved, sessions, opened, owners, upstream, looked>>
    BY <1>3 DEF ToolsList, MayAsk
  <2>2. chat[c].read \in BOOLEAN /\ chat' = [chat EXCEPT ![c] = [chat[c] EXCEPT !.made = TRUE, !.read = chat[c].read]]
    BY <1>1, <1>3 DEF ToolsList, Chat
  <2>3. /\ chat' \in [Conns -> Chat]
        /\ \A d \in Conns : /\ chat'[d].session = chat[d].session /\ chat'[d].grant = chat[d].grant /\ chat'[d].floor = chat[d].floor
                            /\ (chat[d].read => chat'[d].read)
    BY <2>2, ChatUsed
  <2>4. running' \subseteq sessions
    BY <1>1, <2>1, ChatAlive
  <2> QED BY <2>1, <2>3, <2>4, RequestDone
<1>4. ASSUME NEW cap \in DOMAIN Capabilities, ToolsCall(c, cap) PROVE ChatsInv'
  <2>1. chat[c].session # None /\ UNCHANGED <<saved, sessions, opened, owners, upstream, looked, running>>
    BY <1>4 DEF ToolsCall, MayAsk
  <2>2. CASE RefuseIfTainted(c, cap)
    BY <1>1, <1>4, <2>1, <2>2, RequestDone DEF ToolsCall
  <2>3. CASE ~RefuseIfTainted(c, cap)
    <3>1. PICK made \in BOOLEAN, read \in BOOLEAN : made = chat[c].made /\ read = (chat[c].read \/ Observing(cap))
      BY <1>1 DEF Chat
    <3>2. chat' = [chat EXCEPT ![c] = [chat[c] EXCEPT !.made = made, !.read = read]]
      BY <1>1, <1>4, <2>3, <3>1 DEF ToolsCall, Chat
    <3>3. /\ chat' \in [Conns -> Chat] /\ chat'[c].read = read
          /\ \A d \in Conns : /\ chat'[d].session = chat[d].session /\ chat'[d].grant = chat[d].grant /\ chat'[d].floor = chat[d].floor
                              /\ (chat[d].read => chat'[d].read)
      BY <3>1, <3>2, ChatUsed, ZenonT(60)
    <3>4. CASE Done(c)
      BY <1>1, <2>1, <3>3, <3>4, RequestDone
    <3>5. CASE ~Done(c)
      <4>1. Capabilities[cap] \ {"read"} \subseteq Or(chat[c].floor) /\ Becomes(c, [kind |-> "ask", cap |-> cap])
        BY <1>4, <2>3, <3>5 DEF ToolsCall
      <4>2. PICK r : r = [kind |-> "ask", cap |-> cap]
        OBVIOUS
      <4>3. r \in Plain /\ r.kind = "ask" /\ r.cap = cap /\ req' = [req EXCEPT ![c] = r]
        BY <4>1, <4>2 DEF Plain, Becomes
      <4>4. req'[c] = r
        BY <4>3 DEF ChatsInv, ChatTypes
      <4>5. Capabilities[cap] \ {"read"} \subseteq Held
        BY <2>1, <4>1, ChatAlive
      <4>6. ~LookThenAct /\ Acting(cap) => chat[c].session \notin looked
        BY <2>1, <2>3, ChatAlive DEF RefuseIfTainted
      <4>7. AskOK(c)' /\ CallOK(c)'
        BY <2>1, <3>1, <3>3, <4>3, <4>4, <4>5, <4>6 DEF AskOK, CallOK
      <4> QED BY <1>1, <2>1, <3>3, <4>3, <4>7, RequestMoves
    <3> QED BY <3>4, <3>5
  <2> QED BY <2>2, <2>3
<1>5. CASE Answered(c)
  <2>1. /\ req[c].kind = "ask" /\ Done(c) /\ UNCHANGED <<chat, saved, sessions, opened, owners, upstream, running>>
        /\ looked' = looked \/ (Observing(req[c].cap) /\ looked' = looked \cup {chat[c].session})
    BY <1>5 DEF Answered
  <2>2. chat[c].session # None /\ (Observing(req[c].cap) => chat[c].read)
    BY <2>1 DEF ChatsInv, FlowsOK, AskOK
  <2> QED BY <1>1, <2>1, <2>2, RequestDone
<1> QED BY <1>2, <1>3, <1>4, <1>5

LEMMA DeviceRequest ==
  ASSUME ChatsInv, NEW c \in Conns, req[c].kind = "device"
  PROVE  /\ req[c] \in DeviceCalls /\ req[c].name \in Names /\ req[c].device \in DeviceNames \cup {None} /\ CallOK(c)
         /\ chat[c].session # None /\ chat[c] \in Chat /\ req[c].tool \in Tools /\ req[c].seen \in Views \cup {None}
BY DEF ChatsInv, ChatTypes, FlowsOK, CallOK, Plain, DeviceCalls

\* The device a call is about.
LEMMA MeantType ==
  ASSUME ChatsInv, NEW c \in Conns, req[c].kind = "device", req[c].seen \in Views
  PROVE  Meant(req[c]) \in DeviceNames \cup {None} /\ (req[c].tool = "open" => Meant(req[c]) \in DeviceNames)
<1>1. req[c].name \in Names /\ req[c].device \in DeviceNames \cup {None} /\ (req[c].tool = "open" => req[c].device # None)
  BY DeviceRequest DEF CallOK
<1>2. CASE req[c].seen[req[c].name] = None
  BY <1>1, <1>2 DEF Meant
<1>3. CASE req[c].seen[req[c].name] # None
  <2>1. req[c].seen[req[c].name] \in Bound
    BY <1>1, <1>3 DEF Views
  <2>2. req[c].seen[req[c].name].device \in Devices
    BY <2>1 DEF Bound
  <2>3. Meant(req[c]) \in DeviceNames
    BY <1>3, <2>2 DEF Meant, DeviceNames
  <2> QED BY <2>3
<1> QED BY <1>2, <1>3

LEMMA DeviceCallSteps ==
  ASSUME ChatsInv, NEW c \in Conns,
         \/ \E tool \in Tools, given \in Names \cup {None}, device \in DeviceNames \cup {None} : DeviceCall(c, tool, given, device)
         \/ ListSessions(c)
  PROVE  ChatsInv'
<1>1. chat \in [Conns -> Chat] /\ chat[c] \in Chat /\ running \subseteq sessions /\ upstream \in Views
  BY DEF ChatsInv, ChatTypes, SlotsOK
<1>2. ASSUME NEW tool \in Tools, NEW given \in Names \cup {None}, NEW device \in DeviceNames \cup {None},
             DeviceCall(c, tool, given, device)
      PROVE  ChatsInv'
  <2>1. /\ chat[c].session # None /\ running' = running \cup {chat[c].session}
        /\ UNCHANGED <<saved, sessions, opened, owners, upstream, looked>>
    BY <1>2 DEF DeviceCall, MayAsk
  <2>2. chat[c].read \in BOOLEAN /\ chat' = [chat EXCEPT ![c] = [chat[c] EXCEPT !.made = TRUE, !.read = chat[c].read]]
    BY <1>1, <1>2 DEF DeviceCall, Chat
  <2>3. /\ chat' \in [Conns -> Chat]
        /\ \A d \in Conns : /\ chat'[d].session = chat[d].session /\ chat'[d].grant = chat[d].grant /\ chat'[d].floor = chat[d].floor
                            /\ (chat[d].read => chat'[d].read)
    BY <2>2, ChatUsed
  <2>4. running' \subseteq sessions
    BY <1>1, <2>1, ChatAlive
  <2>5. CASE Done(c)
    BY <2>1, <2>3, <2>4, <2>5, RequestDone
  <2>6. CASE ~Done(c)
    <3>1. PICK name : name = IF given # None \/ tool = "open" THEN given ELSE chat[c].context
      OBVIOUS
    <3>2. PICK r : r = [kind |-> "device", at |-> "listing", tool |-> tool, name |-> name, device |-> device, seen |-> None]
      OBVIOUS
    <3>3. Entitled(c, DeviceEffects) /\ name # None /\ (tool = "open" => device # None) /\ Becomes(c, r)
      BY <1>2, <2>6, <3>1, <3>2 DEF DeviceCall
    <3>4. name \in Names
      BY <1>1, <3>1, <3>3 DEF Chat
    <3>5. r \in DeviceCalls /\ r.kind = "device" /\ r.at = "listing" /\ r.tool = tool /\ r.device = device
      BY <3>2, <3>4 DEF DeviceCalls
    <3>6. DeviceEffects \subseteq Held
      <4>1. "device" \in chat[c].grant
        BY <3>3 DEF Entitled, Allows, DeviceEffects
      <4> QED BY <2>1, <4>1, ChatAlive DEF DeviceEffects
    <3>7. req' = [req EXCEPT ![c] = r] /\ req'[c] = r
      BY <3>3 DEF Becomes, ChatsInv, ChatTypes
    <3>8. AskOK(c)' /\ CallOK(c)'
      BY <2>1, <2>3, <3>3, <3>5, <3>6, <3>7 DEF AskOK, CallOK, InCall
    <3> QED BY <2>1, <2>3, <2>4, <3>5, <3>7, <3>8, RequestMoves
  <2> QED BY <2>5, <2>6
<1>3. CASE ListSessions(c)
  <2>1. /\ req[c].kind = "device" /\ req[c].at = "listing"
        /\ UNCHANGED <<chat, saved, sessions, opened, owners, upstream, looked, running>>
    BY <1>3 DEF ListSessions
  <2>2. CASE Done(c)
    BY <1>1, <2>1, <2>2, RequestDone
  <2>3. CASE ~Done(c)
    <3>1. PICK r : r = [req[c] EXCEPT !.at = "reserving", !.seen = upstream]
      OBVIOUS
    <3>2. req[c] \in DeviceCalls /\ CallOK(c)
      BY <2>1, DeviceRequest
    <3>3. /\ r \in DeviceCalls /\ r.kind = "device" /\ r.at = "reserving" /\ r.tool = req[c].tool /\ r.device = req[c].device
          /\ r.seen = upstream
      BY <1>1, <3>1, <3>2 DEF DeviceCalls
    <3>4. req' = [req EXCEPT ![c] = r] /\ req'[c] = r
      BY <1>3, <2>3, <3>1 DEF ListSessions, Becomes, ChatsInv, ChatTypes
    <3>5. AskOK(c)' /\ CallOK(c)'
      BY <1>1, <2>1, <3>2, <3>3, <3>4 DEF AskOK, CallOK, InCall
    <3> QED BY <1>1, <2>1, <3>3, <3>4, <3>5, RequestMoves
  <2> QED BY <2>2, <2>3
<1> QED BY <1>2, <1>3

\* The reservation: under the lock, and after the check is made again.
LEMMA Reserves ==
  ASSUME None \notin Nat, ChatsInv, NEW c \in Conns, Reserve(c)
  PROVE  ChatsInv'
<1>1. /\ req[c].kind = "device" /\ req[c].at = "reserving" /\ chat \in [Conns -> Chat] /\ running \subseteq sessions /\ owners \in [Names -> Owned]
      /\ UNCHANGED <<chat, saved, sessions, opened, upstream, looked, running>>
  BY DEF Reserve, ChatsInv, ChatTypes, SlotsOK
<1>2. /\ req[c] \in DeviceCalls /\ req[c].name \in Names /\ chat[c].session # None /\ chat[c].session \in Nat /\ req[c].seen \in Views
      /\ CallOK(c)
  BY <1>1, DeviceRequest DEF CallOK, Chat
<1>3. CASE ~(MayUse(c, req[c]) /\ Agrees(req[c]) /\ Free(req[c]))
  <2>1. Done(c) /\ UNCHANGED owners
    BY <1>3 DEF Reserve
  <2> QED BY <1>1, <2>1, RequestDone
<1>4. CASE MayUse(c, req[c]) /\ Agrees(req[c]) /\ Free(req[c])
  <2>1. PICK name, o, r : /\ name = req[c].name /\ o = [session |-> chat[c].session, device |-> Meant(req[c]), busy |-> TRUE]
                          /\ r = [req[c] EXCEPT !.at = "calling"]
    OBVIOUS
  <2>2. owners' = [owners EXCEPT ![name] = o] /\ req' = [req EXCEPT ![c] = r]
    BY <1>4, <2>1 DEF Reserve, Becomes
  <2>3. o \in Owned /\ o.session = chat[c].session /\ o.device = Meant(req[c]) /\ o.busy
    BY <1>1, <1>2, <2>1, MeantType DEF Owned
  <2>4. /\ r \in DeviceCalls /\ r.kind = "device" /\ r.at = "calling" /\ r.name = name /\ r.tool = req[c].tool
        /\ r.device = req[c].device /\ r.seen = req[c].seen
    BY <1>2, <2>1 DEF DeviceCalls
  <2>5. name \in Names /\ owners'[name] = o /\ (\A n \in Names \ {name} : owners'[n] = owners[n]) /\ owners' \in [Names -> Owned]
    BY <1>1, <1>2, <2>1, <2>2, <2>3
  <2>6. owners[name].session = None \/ (owners[name].session = chat[c].session /\ ~owners[name].busy)
    BY <1>4, <2>1 DEF MayUse, NoOwner
  <2>7. ASSUME NEW d \in Conns \ {c}, InCall(d) PROVE req[d].name # name /\ req[d].name \in Names
    <3>1. owners[req[d].name].session # None /\ owners[req[d].name].busy /\ req[d].name \in Names
      BY <2>7, DeviceRequest DEF CallOK, InCall
    <3> QED BY <2>6, <3>1
  <2>8. \A n \in Names \ {name} : o.device # None => owners[n].device # o.device
    BY <1>4, <2>1, <2>3 DEF Free, NoOwner
  <2>9. OwnersOK'
    <3>1. ASSUME NEW n \in Names, upstream[n] # None, upstream[n].by # None PROVE owners'[n].session = upstream[n].by
      <4>1. owners[n].session = upstream[n].by
        BY <3>1 DEF ChatsInv, FlowsOK, OwnersOK
      <4> QED BY <2>3, <2>5, <2>6, <3>1, <4>1
    <3>2. ASSUME NEW n \in Names, NEW m \in Names, n # m, owners'[n].device # None PROVE owners'[n].device # owners'[m].device
      <4>1. CASE n = name
        BY <2>5, <2>8, <3>2, <4>1
      <4>2. CASE m = name
        BY <2>5, <2>8, <3>2, <4>2
      <4>3. CASE n # name /\ m # name
        BY <2>5, <3>2, <4>3 DEF ChatsInv, FlowsOK, OwnersOK
      <4> QED BY <4>1, <4>2, <4>3
    <3> QED BY <1>1, <3>1, <3>2 DEF OwnersOK
  <2>10. req'[c] = r
    BY <2>2 DEF ChatsInv, ChatTypes
  <2>11. AskOK(c)' /\ CallOK(c)'
    BY <1>1, <1>2, <2>3, <2>4, <2>5, <2>10 DEF AskOK, CallOK, InCall
  <2>12. FlowsOK'
    <3>1. ASSUME NEW d \in Conns \ {c}
          PROVE  /\ (InCall(d) => owners'[req[d].name] = owners[req[d].name])
                 /\ (InCall(c)' /\ InCall(d) => r.name # req[d].name)
      BY <2>4, <2>5, <2>7
    <3> QED BY <1>1, <2>2, <2>9, <2>11, <3>1, FlowsMove, ZenonT(60)
  <2>13. SlotsOK' /\ ChatTypes'
    BY <1>1, <2>2, <2>4, <2>5, SlotsStay DEF ChatsInv, ChatTypes
  <2> QED BY <2>12, <2>13 DEF ChatsInv
<1> QED BY <1>3, <1>4

\* The backend does what it is asked, or fails before or after it.
LEMMA UpstreamSteps ==
  ASSUME None \notin Nat, ChatsInv, NEW c \in Conns, Upstream(c) \/ UpstreamFails(c)
  PROVE  ChatsInv'
<1>1. /\ req[c].kind = "device" /\ req[c].at = "calling" /\ chat \in [Conns -> Chat] /\ upstream \in Views
      /\ UNCHANGED <<chat, saved, sessions, opened, owners, looked, running>> /\ running \subseteq sessions
  BY DEF Upstream, UpstreamFails, ChatsInv, ChatTypes, SlotsOK
<1>2. /\ req[c] \in DeviceCalls /\ req[c].name \in Names /\ chat[c].session # None /\ chat[c].session \in Nat /\ req[c].seen \in Views
      /\ CallOK(c) /\ InCall(c)
  BY <1>1, DeviceRequest DEF CallOK, InCall, Chat
<1>3. PICK at \in {"answered", "failed"} : req' = [req EXCEPT ![c] = [req[c] EXCEPT !.at = at]]
  BY DEF Upstream, UpstreamFails, Becomes
<1>4. \/ upstream' = upstream /\ (at = "answered" => req[c].tool # "close")
      \/ upstream' = [upstream EXCEPT ![req[c].name] = None]
      \/ /\ req[c].tool = "open"
         /\ upstream' = [upstream EXCEPT ![req[c].name] = [device |-> Meant(req[c])[1], by |-> chat[c].session]]
  <2>1. CASE Upstream(c)
    BY <2>1 DEF Upstream
  <2>2. CASE UpstreamFails(c)
    <3>1. req' = [req EXCEPT ![c] = [req[c] EXCEPT !.at = "failed"]] /\ upstream' = upstream
      BY <2>2 DEF UpstreamFails, Becomes
    <3>2. req'[c].at = at /\ req'[c].at = "failed"
      BY <1>2, <1>3, <3>1 DEF DeviceCalls, ChatsInv, ChatTypes
    <3> QED BY <3>1, <3>2
  <2> QED BY <2>1, <2>2
<1>5. PICK name, r : name = req[c].name /\ r = [req[c] EXCEPT !.at = at]
  OBVIOUS
<1>6. /\ r \in DeviceCalls /\ r.kind = "device" /\ r.at = at /\ r.name = name /\ r.tool = req[c].tool
      /\ r.device = req[c].device /\ r.seen = req[c].seen
  BY <1>2, <1>5 DEF DeviceCalls
<1>7. req' = [req EXCEPT ![c] = r] /\ req'[c] = r
  BY <1>3, <1>5 DEF ChatsInv, ChatTypes
<1>8. /\ upstream' \in Views /\ (\A n \in Names \ {name} : upstream'[n] = upstream[n])
      /\ upstream'[name] = upstream[name] \/ upstream'[name] = None \/ upstream'[name].by = chat[c].session
      /\ at = "answered" /\ req[c].tool = "close" => upstream'[name] = None
  <2>1. CASE req[c].tool = "open" /\ upstream' = [upstream EXCEPT ![req[c].name] = [device |-> Meant(req[c])[1], by |-> chat[c].session]]
    <3>1. Meant(req[c])[1] \in Devices
      BY <1>1, <1>2, <2>1, MeantType DEF DeviceNames
    <3>2. PICK b : b = [device |-> Meant(req[c])[1], by |-> chat[c].session]
      OBVIOUS
    <3>3. b \in Bound /\ b.by = chat[c].session
      BY <1>2, <3>1, <3>2 DEF Bound
    <3>4. upstream' = [upstream EXCEPT ![name] = b]
      BY <1>5, <2>1, <3>2
    <3> QED BY <1>1, <1>2, <1>5, <2>1, <3>3, <3>4 DEF Views
  <2>2. CASE upstream' = upstream /\ (at = "answered" => req[c].tool # "close")
    BY <1>1, <2>2
  <2>3. CASE upstream' = [upstream EXCEPT ![req[c].name] = None]
    BY <1>1, <1>2, <1>5, <2>3 DEF Views
  <2> QED BY <1>4, <2>1, <2>2, <2>3
<1>9. owners[name].session = chat[c].session
  BY <1>1, <1>2, <1>5 DEF CallOK
<1>10. OwnersOK'
  <2>1. OwnersOK
    BY DEF ChatsInv, FlowsOK
  <2>2. ASSUME NEW n \in Names, upstream'[n] # None, upstream'[n].by # None PROVE owners[n].session = upstream'[n].by
    <3>1. CASE n = name
      <4>1. CASE upstream'[name] = upstream[name]
        BY <2>1, <2>2, <3>1, <4>1 DEF OwnersOK
      <4>2. CASE upstream'[name].by = chat[c].session
        BY <1>9, <3>1, <4>2
      <4> QED BY <1>8, <2>2, <3>1, <4>1, <4>2
    <3>2. CASE n # name
      BY <1>8, <2>1, <2>2, <3>2 DEF OwnersOK
    <3> QED BY <3>1, <3>2
  <2> QED BY <1>1, <2>1, <2>2 DEF OwnersOK
<1>11. AskOK(c)' /\ CallOK(c)'
  BY <1>1, <1>2, <1>5, <1>6, <1>7, <1>8 DEF AskOK, CallOK, InCall
<1>12. FlowsOK'
  <2>1. ASSUME NEW d \in Conns \ {c}, InCall(d) PROVE r.name # req[d].name /\ req[d].name \in Names
    BY <1>2, <1>5, <1>6, <2>1, DeviceRequest DEF InCall, ChatsInv, FlowsOK
  <2>2. ASSUME NEW d \in Conns \ {c}
        PROVE  /\ (InCall(d) /\ upstream[req[d].name] = None => upstream'[req[d].name] = None)
               /\ (InCall(c)' /\ InCall(d) => r.name # req[d].name)
    BY <1>6, <1>8, <2>1
  <2> QED BY <1>1, <1>7, <1>10, <1>11, <2>2, FlowsMove
<1>13. SlotsOK' /\ ChatTypes'
  BY <1>1, <1>6, <1>7, <1>8, SlotsStay DEF ChatsInv, ChatTypes
<1> QED BY <1>12, <1>13 DEF ChatsInv

\* The end of a device call.
LEMMA DeviceReturnSteps ==
  ASSUME None \notin Nat, ChatsInv, NEW c \in Conns, DeviceReturns(c)
  PROVE  ChatsInv'
<1>1. /\ req[c].kind = "device" /\ req[c].at \in {"answered", "failed"} /\ chat \in [Conns -> Chat] /\ owners \in [Names -> Owned]
      /\ UNCHANGED <<saved, sessions, opened, upstream, looked, running>> /\ running \subseteq sessions
  BY DEF DeviceReturns, ChatsInv, ChatTypes, SlotsOK
<1>2. req[c] \in DeviceCalls /\ req[c].name \in Names /\ chat[c].session # None /\ chat[c] \in Chat /\ CallOK(c) /\ InCall(c)
  BY <1>1, DeviceRequest DEF InCall
<1>3. PICK name, forgets : name = req[c].name /\ forgets = (req[c].at = "answered" /\ req[c].tool = "close" /\ chat[c].context = name)
  OBVIOUS
<1>4. PICK o : o = IF forgets THEN NoOwner ELSE [owners[name] EXCEPT !.busy = FALSE]
  OBVIOUS
<1>5. owners[name] \in Owned /\ name \in Names
  BY <1>1, <1>2, <1>3
<1>6. /\ o \in Owned /\ (o.device = owners[name].device \/ o.device = None)
      /\ (o.session = owners[name].session \/ upstream[name] = None)
  <2>1. CASE forgets
    BY <1>1, <1>2, <1>3, <1>4, <2>1 DEF NoOwner, Owned, CallOK
  <2>2. CASE ~forgets
    BY <1>4, <1>5, <2>2 DEF Owned
  <2> QED BY <2>1, <2>2
<1>7. owners' = [owners EXCEPT ![name] = o]
  BY <1>3, <1>4 DEF DeviceReturns
<1>8. PICK context : context = IF forgets THEN None ELSE IF req[c].at = "answered" /\ req[c].tool = "open" THEN name ELSE chat[c].context
  OBVIOUS
<1>9. PICK n : n = [chat[c] EXCEPT !.context = context]
  OBVIOUS
<1>10. context \in Names \cup {None}
  BY <1>2, <1>5, <1>8 DEF Chat
<1>11. n \in Chat /\ n.session = chat[c].session /\ n.grant = chat[c].grant /\ n.floor = chat[c].floor /\ n.read = chat[c].read
  BY <1>2, <1>9, <1>10 DEF Chat
<1>12. chat' = [chat EXCEPT ![c] = n]
  BY <1>2, <1>3, <1>8, <1>9 DEF DeviceReturns
<1>13. /\ chat' \in [Conns -> Chat]
       /\ \A d \in Conns : /\ chat'[d].session = chat[d].session /\ chat'[d].grant = chat[d].grant /\ chat'[d].floor = chat[d].floor
                           /\ (chat[d].read => chat'[d].read)
  BY <1>1, <1>11, <1>12
<1>14. OwnersOK'
  <2>1. OwnersOK /\ owners'[name] = o /\ \A m \in Names \ {name} : owners'[m] = owners[m]
    BY <1>1, <1>5, <1>7 DEF ChatsInv, FlowsOK
  <2>2. ASSUME NEW m \in Names, upstream[m] # None, upstream[m].by # None PROVE owners'[m].session = upstream[m].by
    BY <1>6, <2>1, <2>2 DEF OwnersOK
  <2>3. ASSUME NEW m \in Names, NEW k \in Names, m # k, owners'[m].device # None PROVE owners'[m].device # owners'[k].device
    BY <1>5, <1>6, <2>1, <2>3 DEF OwnersOK
  <2> QED BY <1>1, <2>2, <2>3 DEF OwnersOK
<1>15. PICK r : r = IF saved[c] = None THEN Idle ELSE [kind |-> "done"]
  OBVIOUS
<1>16. r \in Plain /\ r.kind \in {"idle", "done"}
  BY <1>15 DEF Plain, Idle
<1>17. req' = [req EXCEPT ![c] = r] /\ req'[c] = r
  BY <1>15 DEF DeviceReturns, Done, Becomes, ChatsInv, ChatTypes
<1>18. AskOK(c)' /\ CallOK(c)' /\ ~InCall(c)'
  BY <1>16, <1>17 DEF AskOK, CallOK, InCall
<1>19. FlowsOK'
  <2>1. ASSUME NEW d \in Conns \ {c}, InCall(d) PROVE owners'[req[d].name] = owners[req[d].name]
    <3>1. req[d].name # name /\ req[d].name \in Names
      BY <1>2, <1>3, <2>1, DeviceRequest DEF InCall, ChatsInv, FlowsOK
    <3> QED BY <1>1, <1>7, <3>1
  <2> QED BY <1>1, <1>13, <1>14, <1>17, <1>18, <2>1, FlowsMove
<1>20. SlotsOK'
  BY <1>1, <1>13, SlotsStay
<1>21. ChatTypes'
  BY <1>1, <1>6, <1>7, <1>13, <1>16, <1>17 DEF ChatsInv, ChatTypes
<1> QED BY <1>19, <1>20, <1>21 DEF ChatsInv

\* The sessions of a connection: of its conversation, and of what it put aside.
SessionsOf(k, p) == ({k.session} \cup (IF p = None THEN {} ELSE {p.session})) \ {None}
\* A chat just opened, with no more than a client may be given.
JustOpened(k) == /\ k.session = opened + 1 /\ opened' = opened + 1
                 /\ k.grant \ {"read"} \subseteq Held /\ Or(k.floor) \ {"read"} \subseteq Held

\* A connection gets a chat, loses it, puts it aside or takes it back.
LEMMA ChatChanges ==
  ASSUME None \notin Nat, None \notin Chat, ChatsInv, NEW c \in Conns, NEW k \in Chat, NEW p \in {None, chat[c], saved[c]},
         NEW r \in Plain, r.kind \in {"idle", "done"},
         chat' = [chat EXCEPT ![c] = k], saved' = [saved EXCEPT ![c] = p], req' = [req EXCEPT ![c] = r],
         UNCHANGED <<owners, upstream, looked>>, opened' \in {opened, opened + 1},
         k.session # None => JustOpened(k) \/ k = saved[c],
         k.session # None /\ p # None => k.session # p.session,
         sessions' = (sessions \ SessionsOf(chat[c], saved[c])) \cup SessionsOf(k, p), running' \subseteq sessions'
  PROVE  ChatsInv'
<1>1. ChatTypes /\ SlotsOK /\ FlowsOK
  BY DEF ChatsInv
<1>2. /\ chat'[c] = k /\ saved'[c] = p /\ req'[c] = r /\ opened \in Nat /\ opened' \in Nat
      /\ \A d \in Conns \ {c} : chat'[d] = chat[d] /\ saved'[d] = saved[d]
  BY <1>1 DEF ChatTypes
<1>3. /\ chat' \in [Conns -> Chat] /\ saved' \in [Conns -> Chat \cup {None}]
      /\ chat[c] \in Chat /\ saved[c] \in Chat \cup {None}
  BY <1>1 DEF ChatTypes
<1>4. ASSUME NEW s \in Slots, s[1] # c PROVE (s \in Alive' <=> s \in Alive) /\ Kept(s)' = Kept(s)
  BY <1>2, <1>4 DEF Slots, Alive, Kept
<1>5. ASSUME NEW s \in Alive', s[1] = c
      PROVE  \/ s[2] = "chat" /\ Kept(s)' = k /\ JustOpened(k)
             \/ \E t \in Alive : t[1] = c /\ Kept(t) = Kept(s)'
  <2>1. s = <<c, "chat">> \/ s = <<c, "saved">>
    BY <1>5 DEF Alive, Slots
  <2>2. CASE s = <<c, "chat">>
    <3>1. Kept(s)' = k /\ k.session # None
      BY <1>2, <2>2 DEF Alive, Kept
    <3>2. CASE k = saved[c]
      <4>1. saved[c] # None
        BY <3>2
      <4>2. <<c, "saved">> \in Alive /\ Kept(<<c, "saved">>) = k
        BY <3>1, <3>2, <4>1 DEF Alive, Slots, Kept
      <4> QED BY <3>1, <4>2
    <3> QED BY <2>2, <3>1, <3>2
  <2>3. CASE s = <<c, "saved">>
    <3>1. Kept(s)' = p /\ p # None /\ p.session # None
      BY <1>2, <2>3 DEF Alive, Kept
    <3>2. CASE p = chat[c]
      <4>1. <<c, "chat">> \in Alive /\ Kept(<<c, "chat">>) = p
        BY <3>1, <3>2 DEF Alive, Slots, Kept
      <4> QED BY <3>1, <4>1
    <3>3. CASE p = saved[c]
      <4>1. <<c, "saved">> \in Alive /\ Kept(<<c, "saved">>) = p
        BY <3>1, <3>3 DEF Alive, Slots, Kept
      <4> QED BY <3>1, <4>1
    <3> QED BY <3>1, <3>2, <3>3
  <2> QED BY <2>1, <2>2, <2>3
<1>6. Alive \subseteq Slots /\ Alive' \subseteq Slots /\ \A s \in Alive : SlotOK(s)
  BY <1>1 DEF Alive, Slots, SlotsOK
<1>7. ASSUME NEW s \in Alive' PROVE SlotOK(s)'
  <2>1. ASSUME NEW t \in Alive, Kept(t) = Kept(s)' PROVE SlotOK(s)'
    BY <1>2, <1>6, <2>1 DEF SlotOK, Or
  <2>2. CASE s[1] # c
    BY <1>4, <1>6, <2>1, <2>2
  <2>3. CASE Kept(s)' = k /\ JustOpened(k)
    <3>1. k.session \in 1 .. opened' /\ k.session \notin looked'
      BY <1>1, <1>2, <2>3 DEF JustOpened, ChatTypes
    <3> QED BY <2>3, <3>1 DEF SlotOK, JustOpened, Or
  <2> QED BY <1>5, <2>1, <2>2, <2>3
<1>8. ASSUME NEW s \in Alive', NEW t \in Alive', s[1] = c, t[1] # c PROVE Kept(s)'.session # Kept(t)'.session
  <2>1. t \in Alive /\ Kept(t)' = Kept(t) /\ Kept(t).session \in 1 .. opened
    BY <1>4, <1>6, <1>8 DEF SlotOK
  <2>2. CASE JustOpened(k) /\ Kept(s)' = k
    BY <1>2, <2>1, <2>2 DEF JustOpened
  <2>3. ASSUME NEW u \in Alive, u[1] = c, Kept(u) = Kept(s)' PROVE Kept(s)'.session # Kept(t)'.session
    BY <1>1, <1>8, <2>1, <2>3 DEF SlotsOK
  <2> QED BY <1>5, <1>8, <2>2, <2>3
<1>9. ASSUME NEW s \in Alive', NEW t \in Alive', s # t PROVE Kept(s)'.session # Kept(t)'.session
  <2>1. CASE s[1] # c /\ t[1] # c
    BY <1>1, <1>4, <1>6, <1>9, <2>1 DEF SlotsOK
  <2>2. CASE s[1] = c /\ t[1] = c
    <3>1. s \in {<<c, "chat">>, <<c, "saved">>} /\ t \in {<<c, "chat">>, <<c, "saved">>}
      BY <1>6, <2>2 DEF Slots
    <3>2. k.session # None /\ p # None
      BY <1>2, <1>9, <3>1 DEF Alive, Kept
    <3>3. {Kept(s)', Kept(t)'} = {k, p}
      BY <1>2, <1>9, <3>1 DEF Kept
    <3>4. k.session # p.session
      BY <3>2
    <3>5. CASE s = <<c, "chat">> /\ t = <<c, "saved">>
      BY <1>2, <3>4, <3>5 DEF Kept
    <3>6. CASE t = <<c, "chat">> /\ s = <<c, "saved">>
      BY <1>2, <3>4, <3>6 DEF Kept
    <3> QED BY <1>9, <3>1, <3>5, <3>6
  <2> QED BY <1>8, <2>1, <2>2
<1>10. ASSUME NEW x PROVE x \in SessionsOf(chat[c], saved[c]) <=> \E s \in Alive : s[1] = c /\ Kept(s).session = x
  <2>1. ASSUME x \in SessionsOf(chat[c], saved[c]) PROVE \E s \in Alive : s[1] = c /\ Kept(s).session = x
    <3>1. CASE x = chat[c].session
      <4>1. <<c, "chat">> \in Alive /\ Kept(<<c, "chat">>) = chat[c]
        BY <2>1, <3>1 DEF SessionsOf, Alive, Slots, Kept
      <4> QED BY <3>1, <4>1
    <3>2. CASE saved[c] # None /\ x = saved[c].session
      <4>1. <<c, "saved">> \in Alive /\ Kept(<<c, "saved">>) = saved[c]
        BY <2>1, <3>2 DEF SessionsOf, Alive, Slots, Kept
      <4> QED BY <3>2, <4>1
    <3> QED BY <2>1, <3>1, <3>2 DEF SessionsOf
  <2>2. ASSUME NEW s \in Alive, s[1] = c, Kept(s).session = x PROVE x \in SessionsOf(chat[c], saved[c])
    BY <2>2 DEF SessionsOf, Alive, Slots, Kept
  <2> QED BY <2>1, <2>2
<1>11. ASSUME NEW x PROVE x \in SessionsOf(k, p) <=> \E s \in Alive' : s[1] = c /\ Kept(s)'.session = x
  <2>1. ASSUME x \in SessionsOf(k, p) PROVE \E s \in Alive' : s[1] = c /\ Kept(s)'.session = x
    <3>1. CASE x = k.session
      <4>1. <<c, "chat">> \in Alive' /\ Kept(<<c, "chat">>)' = k
        BY <1>2, <2>1, <3>1 DEF SessionsOf, Alive, Slots, Kept
      <4> QED BY <3>1, <4>1
    <3>2. CASE p # None /\ x = p.session
      <4>1. <<c, "saved">> \in Alive' /\ Kept(<<c, "saved">>)' = p
        BY <1>2, <2>1, <3>2 DEF SessionsOf, Alive, Slots, Kept
      <4> QED BY <3>2, <4>1
    <3> QED BY <2>1, <3>1, <3>2 DEF SessionsOf
  <2>2. ASSUME NEW s \in Alive', s[1] = c, Kept(s)'.session = x PROVE x \in SessionsOf(k, p)
    BY <1>2, <2>2 DEF SessionsOf, Alive, Slots, Kept
  <2> QED BY <2>1, <2>2
<1>12. sessions' = {Kept(s)'.session : s \in Alive'}
  <2>1. ASSUME NEW x \in sessions' PROVE \E s \in Alive' : Kept(s)'.session = x
    <3>1. CASE x \in SessionsOf(k, p)
      BY <1>11, <3>1
    <3>2. CASE x \in sessions /\ x \notin SessionsOf(chat[c], saved[c])
      <4>1. PICK s \in Alive : Kept(s).session = x /\ s[1] # c
        BY <1>1, <1>10, <3>2 DEF SlotsOK
      <4> QED BY <1>4, <1>6, <4>1
    <3> QED BY <2>1, <3>1, <3>2
  <2>2. ASSUME NEW s \in Alive' PROVE Kept(s)'.session \in sessions'
    <3>1. CASE s[1] = c
      BY <1>11, <3>1
    <3>2. CASE s[1] # c
      <4>1. s \in Alive /\ Kept(s)' = Kept(s)
        BY <1>4, <1>6, <3>2
      <4>2. Kept(s).session \in sessions
        BY <1>1, <4>1 DEF SlotsOK
      <4>3. Kept(s).session \notin SessionsOf(chat[c], saved[c])
        BY <1>1, <1>10, <3>2, <4>1 DEF SlotsOK
      <4> QED BY <4>1, <4>2, <4>3
    <3> QED BY <3>1, <3>2
  <2> QED BY <2>1, <2>2
<1>13. SlotsOK'
  BY <1>7, <1>9, <1>12 DEF SlotsOK
<1>14. AskOK(c)' /\ CallOK(c)' /\ ~InCall(c)'
  BY <1>2 DEF AskOK, CallOK, InCall
<1>15. OwnersOK'
  BY <1>1 DEF FlowsOK, OwnersOK
<1>16. FlowsOK'
  BY <1>2, <1>14, <1>15, FlowsMove, ZenonT(60)
<1>17. ChatTypes'
  BY <1>1, <1>2, <1>3 DEF ChatTypes
<1> QED BY <1>13, <1>16, <1>17 DEF ChatsInv

LEMMA ChatSteps ==
  ASSUME None \notin Nat, None \notin Chat, ChatsInv, NEW c \in Conns,
         (\E asked \in Asks : Initialize(c, asked)) \/ Disconnect(c) \/ ModernBegins(c) \/ ModernEnds(c)
  PROVE  ChatsInv'
<1>1. /\ chat[c] \in Chat /\ saved[c] \in Chat \cup {None} /\ opened \in Nat /\ sessions \subseteq 1 .. opened /\ running \subseteq sessions
      /\ chat \in [Conns -> Chat] /\ saved \in [Conns -> Chat \cup {None}] /\ req \in [Conns -> Plain \cup DeviceCalls]
  BY DEF ChatsInv, ChatTypes, SlotsOK, SlotOK
<1>2. Idle \in Plain /\ Idle.kind \in {"idle", "done"} /\ (req[c] = Idle => req = [req EXCEPT ![c] = Idle])
  BY <1>1 DEF Idle, Plain
<1>3. opened + 1 \in Nat /\ None \notin sessions /\ opened + 1 \notin sessions
  <2>1. opened \in Nat /\ sessions \subseteq 1 .. opened
    BY <1>1
  <2>2. \A x \in sessions : x \in Nat /\ x <= opened
    BY <2>1
  <2>3. None \notin sessions
    BY <2>2
  <2>4. opened + 1 \in Nat /\ ~(opened + 1 <= opened)
    BY <2>1
  <2> QED BY <2>2, <2>3, <2>4
<1>4. chat[c].session # None /\ saved[c] # None => chat[c].session # saved[c].session
  <2>1. SUFFICES ASSUME chat[c].session # None, saved[c] # None, chat[c].session = saved[c].session PROVE FALSE
    OBVIOUS
  <2>2. PICK s, t : s = <<c, "chat">> /\ t = <<c, "saved">>
    OBVIOUS
  <2>3. s \in Alive /\ Kept(s) = chat[c] /\ t \in Alive /\ Kept(t) = saved[c]
    BY <2>1, <2>2 DEF Alive, Slots, Kept
  <2>4. s = t
    BY <2>1, <2>3, OneChat
  <2> QED BY <2>2, <2>4
<1>5. chat[c].session # None => chat[c].session \in 1 .. opened /\ chat[c].session \in sessions
  BY ChatAlive
<1>6. saved = [saved EXCEPT ![c] = saved[c]]
  BY <1>1
<1>7. ASSUME NEW asked \in Asks, Initialize(c, asked) PROVE ChatsInv'
  <2>1. req[c] = Idle /\ saved[c] = None /\ UNCHANGED <<saved, req, owners, upstream, looked>>
    BY <1>7 DEF Initialize
  <2>2. CASE Opens(asked)
    <3>1. PICK session, grant, floor : session \in Nat /\ session = opened + 1 /\ grant = Granted(asked) /\ floor = FloorFor(asked)
      BY <1>3
    <3>2. grant \in Grants /\ floor \in Floors
      BY <3>1 DEF Grants, Floors, Granted, FloorFor
    <3>3. grant \ {"read"} \subseteq Held /\ Or(floor) \ {"read"} \subseteq Held
      BY <2>2, <3>1 DEF Opens, Grantable, Granted, FloorFor, Or, Held
    <3>4. PICK k : k = [chat[c] EXCEPT !.session = session, !.grant = grant, !.floor = floor, !.made = FALSE]
      OBVIOUS
    <3>5. k \in Chat /\ k.session = session /\ k.grant = grant /\ k.floor = floor
      BY <1>1, <3>1, <3>2, <3>4 DEF Chat
    <3>6. /\ chat' = [chat EXCEPT ![c] = k] /\ opened' = opened + 1 /\ running' = running \ {chat[c].session}
          /\ sessions' = (sessions \ {chat[c].session}) \cup {session}
      BY <1>7, <2>2, <3>1, <3>4 DEF Initialize
    <3>7. JustOpened(k)
      BY <3>1, <3>3, <3>5, <3>6 DEF JustOpened
    <3>8. sessions' = (sessions \ SessionsOf(chat[c], saved[c])) \cup SessionsOf(k, saved[c])
      BY <1>3, <2>1, <3>1, <3>5, <3>6 DEF SessionsOf
    <3>9. running' \subseteq sessions'
      BY <1>1, <3>6
    <3> QED BY <1>2, <1>6, <2>1, <3>5, <3>6, <3>7, <3>8, <3>9, ChatChanges
  <2>3. CASE ~Opens(asked)
    <3>1. PICK k : k = [chat[c] EXCEPT !.session = None, !.made = FALSE]
      OBVIOUS
    <3>2. k \in Chat /\ k.session = None
      BY <1>1, <3>1 DEF Chat
    <3>3. chat' = [chat EXCEPT ![c] = k]
      BY <1>1, <1>7, <2>3, <3>1 DEF Initialize, Chat
    <3>4. opened' = opened /\ running' = running \ {chat[c].session} /\ sessions' = sessions \ {chat[c].session}
      BY <1>7, <2>3 DEF Initialize, Closed
    <3>5. sessions' = (sessions \ SessionsOf(chat[c], saved[c])) \cup SessionsOf(k, saved[c])
      BY <1>3, <2>1, <3>2, <3>4 DEF SessionsOf
    <3>6. running' \subseteq sessions'
      BY <1>1, <3>4
    <3> QED BY <1>2, <1>6, <2>1, <3>2, <3>3, <3>4, <3>5, <3>6, ChatChanges
  <2> QED BY <2>2, <2>3
<1>8. CASE Disconnect(c)
  <2>1. /\ req[c] = Idle /\ UNCHANGED <<saved, req, opened, owners, upstream, looked>> /\ chat' = [chat EXCEPT ![c] = NoChat]
        /\ chat[c].session # None /\ running' = running \ {chat[c].session} /\ sessions' = sessions \ {chat[c].session}
    BY <1>8 DEF Disconnect, Closed
  <2>2. NoChat \in Chat /\ NoChat.session = None
    BY DEF NoChat, Chat, Grants, Floors
  <2>3. saved[c] # None /\ saved[c].session # None => saved[c].session \in sessions
    <3>1. SUFFICES ASSUME saved[c] # None, saved[c].session # None PROVE saved[c].session \in sessions
      OBVIOUS
    <3>2. <<c, "saved">> \in Alive /\ Kept(<<c, "saved">>) = saved[c]
      BY <3>1 DEF Alive, Slots, Kept
    <3> QED BY <3>2 DEF ChatsInv, SlotsOK
  <2>4. sessions' = (sessions \ SessionsOf(chat[c], saved[c])) \cup SessionsOf(NoChat, saved[c])
    BY <1>3, <1>4, <2>1, <2>2, <2>3 DEF SessionsOf
  <2>5. running' \subseteq sessions'
    BY <1>1, <2>1
  <2> QED BY <1>2, <1>6, <2>1, <2>2, <2>4, <2>5, ChatChanges
<1>9. CASE ModernBegins(c)
  <2>1. /\ req[c] = Idle /\ saved[c] = None /\ UNCHANGED <<req, owners, upstream, looked, running>>
        /\ opened' = opened + 1 /\ sessions' = sessions \cup {opened + 1} /\ saved' = [saved EXCEPT ![c] = chat[c]]
    BY <1>9 DEF ModernBegins
  <2>2. PICK session, grant, floor : session \in Nat /\ session = opened + 1 /\ grant = Held /\ floor = ClientFloor
    BY <1>3
  <2>3. PICK k : k = [NoChat EXCEPT !.session = session, !.grant = grant, !.floor = floor]
    OBVIOUS
  <2>4. k \in Chat /\ k.session = session /\ k.grant = Held /\ k.floor = ClientFloor
    BY <1>1, <2>2, <2>3, ZenonT(60) DEF NoChat, Chat, Grants, Floors
  <2>5. chat' = [chat EXCEPT ![c] = k]
    BY <1>9, <2>2, <2>3 DEF ModernBegins
  <2>6. JustOpened(k)
    BY <2>1, <2>2, <2>4 DEF JustOpened, Or, Held
  <2>7. sessions' = (sessions \ SessionsOf(chat[c], saved[c])) \cup SessionsOf(k, chat[c])
    <3>1. SessionsOf(chat[c], saved[c]) = {chat[c].session} \ {None}
      BY <2>1 DEF SessionsOf
    <3>2. SessionsOf(k, chat[c]) = {session} \cup ({chat[c].session} \ {None})
      BY <1>1, <1>3, <2>2, <2>4 DEF SessionsOf
    <3> QED BY <1>5, <2>1, <2>2, <3>1, <3>2
  <2>8. chat[c] # None /\ k.session # chat[c].session
    <3>1. chat[c].session = None \/ chat[c].session \in sessions
      BY <1>5
    <3>2. k.session \notin sessions /\ k.session \in Nat
      BY <1>3, <2>2, <2>4
    <3>3. k.session # chat[c].session
      BY <3>1, <3>2
    <3> QED BY <1>1, <3>3
  <2>9. running' \subseteq sessions'
    BY <1>1, <2>1
  <2> QED BY <1>2, <2>1, <2>4, <2>5, <2>6, <2>7, <2>8, <2>9, ChatChanges
<1>10. CASE ModernEnds(c)
  <2>1. /\ saved[c] # None /\ UNCHANGED <<opened, owners, upstream, looked>>
        /\ chat' = [chat EXCEPT ![c] = saved[c]] /\ saved' = [saved EXCEPT ![c] = None] /\ req' = [req EXCEPT ![c] = Idle]
        /\ running' = running \ {chat[c].session} /\ sessions' = sessions \ {chat[c].session}
    BY <1>10 DEF ModernEnds, Closed
  <2>2. saved[c].session # None => saved[c].session \in sessions
    <3>1. SUFFICES ASSUME saved[c].session # None PROVE saved[c].session \in sessions
      OBVIOUS
    <3>2. <<c, "saved">> \in Alive /\ Kept(<<c, "saved">>) = saved[c]
      BY <2>1, <3>1 DEF Alive, Slots, Kept
    <3> QED BY <3>2 DEF ChatsInv, SlotsOK
  <2>3. sessions' = (sessions \ SessionsOf(chat[c], saved[c])) \cup SessionsOf(saved[c], None)
    BY <1>3, <1>4, <2>1, <2>2 DEF SessionsOf
  <2>4. saved[c] \in Chat /\ running' \subseteq sessions'
    BY <1>1, <2>1
  <2> QED BY <1>2, <2>1, <2>3, <2>4, ChatChanges
<1> QED BY <1>7, <1>8, <1>9, <1>10

LEMMA ChatsNext ==
  ASSUME None \notin Nat, None \notin Chat, ChatsInv, [Next]_vars
  PROVE  ChatsInv'
<1>1. CASE UNCHANGED vars \/ Stop
  <2>1. UNCHANGED <<chat, saved, req, sessions, opened, owners, upstream, looked, running>>
    BY <1>1 DEF vars, Stop
  <2>2. ChatTypes' /\ SlotsOK'
    BY <2>1, SlotsStay DEF ChatsInv, ChatTypes, SlotsOK
  <2>3. FlowsOK'
    BY <2>1 DEF ChatsInv, FlowsOK, AskOK, CallOK, InCall, OwnersOK
  <2> QED BY <2>2, <2>3 DEF ChatsInv
<1>2. ASSUME NEW n \in Names, Outsider(n) PROVE ChatsInv'
  <2>1. /\ UNCHANGED <<chat, saved, req, sessions, opened, owners, looked, running>> /\ upstream \in Views
        /\ upstream' = [upstream EXCEPT ![n] = None]
    BY <1>2 DEF Outsider, ChatsInv, ChatTypes
  <2>2. upstream' \in Views /\ \A m \in Names : upstream'[m] = None \/ upstream'[m] = upstream[m]
    BY <2>1 DEF Views
  <2>3. ChatTypes' /\ SlotsOK'
    BY <2>1, <2>2, SlotsStay DEF ChatsInv, ChatTypes, SlotsOK
  <2>4. ASSUME NEW d \in Conns PROVE AskOK(d)' /\ CallOK(d)' /\ (InCall(d)' <=> InCall(d))
    <3>1. AskOK(d) /\ CallOK(d)
      BY DEF ChatsInv, FlowsOK
    <3>2. AskOK(d)' /\ (InCall(d)' <=> InCall(d))
      BY <2>1, <3>1 DEF AskOK, InCall
    <3>3. req[d].kind = "device" => req[d].name \in Names
      BY DeviceRequest
    <3> QED BY <2>1, <2>2, <3>1, <3>2, <3>3 DEF CallOK, InCall
  <2>5. OwnersOK'
    BY <2>1, <2>2 DEF ChatsInv, FlowsOK, OwnersOK
  <2>6. FlowsOK'
    BY <2>1, <2>4, <2>5 DEF ChatsInv, FlowsOK
  <2> QED BY <2>3, <2>6 DEF ChatsInv
<1>3. ASSUME NEW c \in Conns, \/ (\E asked \in Asks : Initialize(c, asked)) \/ Disconnect(c) \/ ModernBegins(c) \/ ModernEnds(c)
      PROVE  ChatsInv'
  BY <1>3, ChatSteps
<1>4. ASSUME NEW c \in Conns, ToolsList(c) \/ Reads(c) \/ (\E cap \in DOMAIN Capabilities : ToolsCall(c, cap)) \/ Answered(c)
      PROVE  ChatsInv'
  BY <1>4, ToolSteps
<1>5. ASSUME NEW c \in Conns,
             \/ \E tool \in Tools, given \in Names \cup {None}, device \in DeviceNames \cup {None} : DeviceCall(c, tool, given, device)
             \/ ListSessions(c) \/ Reserve(c) \/ Upstream(c) \/ UpstreamFails(c) \/ DeviceReturns(c)
      PROVE  ChatsInv'
  BY <1>5, DeviceCallSteps, Reserves, UpstreamSteps, DeviceReturnSteps
<1> QED BY <1>1, <1>2, <1>3, <1>4, <1>5 DEF Next

LEMMA ChatsInit == Init => ChatsInv
<1> SUFFICES ASSUME Init PROVE ChatsInv
  OBVIOUS
<1>1. NoChat \in Chat /\ NoChat.session = None /\ NoOwner \in Owned /\ Idle \in Plain /\ Idle.kind = "idle"
  BY DEF NoChat, Chat, Grants, Floors, NoOwner, Owned, Idle, Plain
<1>2. upstream \in Views /\ \A n \in Names : upstream[n] # None => upstream[n].by = None
  BY DEF Init, Views, Bound
<1>3. ChatTypes
  BY <1>1, <1>2 DEF Init, ChatTypes
<1>4. Alive = {}
  BY <1>1 DEF Init, Alive, Slots, Kept
<1>5. SlotsOK
  BY <1>4 DEF Init, SlotsOK
<1>6. OwnersOK
  BY <1>2 DEF Init, OwnersOK, NoOwner
<1>7. FlowsOK
  BY <1>1, <1>6 DEF Init, FlowsOK, AskOK, CallOK, InCall
<1> QED BY <1>3, <1>5, <1>7 DEF ChatsInv

\* What the invariant says of devices and of chats is what the property says.
LEMMA ApartByInvariant ==
  ASSUME ChatsInv, None \notin Nat
  PROVE  ChatsStayApart
<1>1. ChatTypes /\ SlotsOK /\ FlowsOK
  BY DEF ChatsInv
<1>2. FlowsStayApart
  <2>1. ASSUME NEW c \in Conns, Calling(c)
        PROVE  /\ owners[req[c].name].session = chat[c].session /\ owners[req[c].name].busy
               /\ upstream[req[c].name] # None => upstream[req[c].name].by \in {None, chat[c].session}
               /\ \A d \in Conns \ {c} : Calling(d) => req[d].name # req[c].name
    <3>1. InCall(c) /\ req[c].name \in Names /\ CallOK(c) /\ req[c].kind = "device"
      BY <2>1, DeviceRequest DEF Calling, InCall
    <3>2. owners[req[c].name].session = chat[c].session /\ owners[req[c].name].busy
      BY <3>1 DEF CallOK
    <3>3. upstream[req[c].name] # None => upstream[req[c].name].by \in {None, chat[c].session}
      BY <1>1, <3>1, <3>2 DEF FlowsOK, OwnersOK
    <3>4. \A d \in Conns \ {c} : Calling(d) => req[d].name # req[c].name
      BY <1>1, <3>1 DEF FlowsOK, Calling, InCall
    <3> QED BY <3>2, <3>3, <3>4
  <2>2. \A n, m \in Names : n # m /\ owners[n] # NoOwner /\ owners[m] # NoOwner /\ owners[n].device # None
                              => owners[n].device # owners[m].device
    BY <1>1 DEF FlowsOK, OwnersOK
  <2> QED BY <2>1, <2>2 DEF FlowsStayApart
<1>3. ASSUME NEW x
      PROVE  x \in sessions <=> x \in ({chat[c].session : c \in Conns} \cup {saved[c].session : c \in {d \in Conns : saved[d] # None}}) \ {None}
  <2>1. ASSUME NEW s \in Alive
        PROVE  Kept(s).session \in ({chat[c].session : c \in Conns} \cup {saved[c].session : c \in {d \in Conns : saved[d] # None}}) \ {None}
    <3>1. s[1] \in Conns /\ Kept(s).session # None
      BY DEF Alive, Slots
    <3>2. CASE s[2] = "chat"
      BY <3>1, <3>2 DEF Kept
    <3>3. CASE s[2] = "saved"
      BY <3>1, <3>3 DEF Kept, Alive
    <3> QED BY <3>2, <3>3 DEF Alive, Slots
  <2>2. ASSUME NEW c \in Conns, chat[c].session # None PROVE chat[c].session \in sessions
    BY <2>2, ChatAlive
  <2>3. ASSUME NEW c \in Conns, saved[c] # None, saved[c].session # None PROVE saved[c].session \in sessions
    <3>1. <<c, "saved">> \in Alive /\ Kept(<<c, "saved">>) = saved[c]
      BY <2>3 DEF Alive, Slots, Kept
    <3> QED BY <1>1, <3>1 DEF SlotsOK
  <2>4. x \in sessions => \E s \in Alive : Kept(s).session = x
    BY <1>1 DEF SlotsOK
  <2> QED BY <2>1, <2>2, <2>3, <2>4
<1>4. ChatsKeepTheirBounds
  <2>1. \A c \in Conns : AskOK(c) /\ CallOK(c)
    BY <1>1 DEF FlowsOK
  <2>2. running \subseteq sessions
    BY <1>1 DEF SlotsOK
  <2>3. sessions = ({chat[c].session : c \in Conns} \cup {saved[c].session : c \in {d \in Conns : saved[d] # None}}) \ {None}
    BY <1>3
  <2>4. \A c \in Conns : req[c].kind = "ask" =>
          Capabilities[req[c].cap] \ {"read"} \subseteq Held /\ (~LookThenAct /\ Acting(req[c].cap) => chat[c].session \notin looked)
    BY <2>1 DEF AskOK
  <2>5. \A c \in Conns : req[c].kind = "device" => DeviceEffects \subseteq Held
    BY <2>1 DEF CallOK
  <2> QED BY <2>2, <2>3, <2>4, <2>5 DEF ChatsKeepTheirBounds
<1> QED BY <1>2, <1>4 DEF ChatsStayApart

\* Chats do not reach into one another's devices, nor beyond what each was
\* given, however many connections there are and however their requests, their
\* modern requests and the two checks of a reservation (core/device_ownership.go)
\* come between one another.
THEOREM ChatsStayApartHolds ==
  ASSUME None \notin Nat, None \notin Chat
  PROVE  Spec => []ChatsStayApart
<1>1. Init => ChatsInv
  BY ChatsInit
<1>2. ChatsInv /\ [Next]_vars => ChatsInv'
  BY ChatsNext
<1>3. ChatsInv => ChatsStayApart
  BY ApartByInvariant
<1> QED BY <1>1, <1>2, <1>3, PTL DEF Spec

-----------------------------------------------------------------------------
(* Frames: an input lands on what its caller was shown. *)

\* A look holds the number of its call, which its frame will have; an input
\* holds the frame it took.
LookSteps == {"serial", "helper", "probe", "capture", "note", "window", "dump", "start"}
HeldSteps == {"check", "window1", "resolve", "window2", "send"}
ActSteps == {"lock", "serial", "frame"} \cup HeldSteps
Busy(k) == k.pc \notin {"idle", "kill"}
Looking(k) == Busy(k) /\ k.op \in P!Looks
Acts(k) == Busy(k) /\ k.op \in P!Actions
Holding(k) == k.pc \in HeldSteps
AFrame(f) == f = [id |-> f.id, serial |-> f.serial, generation |-> f.generation, expires |-> f.expires, shot |-> f.shot,
                  window |-> f.window, turn |-> f.turn]
ACall(k) == k = [pc |-> k.pc, n |-> k.n, op |-> k.op, d |-> k.d, id |-> k.id, seen |-> k.seen, frame |-> k.frame, at |-> k.at, moved |-> k.moved]
\* The call of a caller.
LookOK(k) == Looking(k) =>
  /\ k.pc \in LookSteps /\ k.n \in Nat /\ (k.pc \in {"helper", "probe"} => k.op # "mirror")
  /\ (k.pc \in {"window", "dump"} /\ k.op = "semantic") => (AFrame(k.frame) /\ k.frame.id = k.n)
\* What reached the device since an input's look at it had been given up before.
SinceLook(k) == inputs[k.d].landed \subseteq k.at.landed \cup k.at.late /\ inputs[k.d].late \subseteq k.at.late
\* The window of the frame is the one that is focused, or something has changed
\* since it was; when the control was looked for in another one, that came and
\* has gone, or will be seen.
WindowOK(k) ==
  /\ k.moved \in Nat /\ (k.pc \notin {"resolve", "window2", "send"} => k.moved = 0)
  /\ k.pc \in {"resolve", "window2"} => k.moved <= changes
  /\ k.pc = "resolve" => screen[k.d].window = k.frame.window \/ changes >= k.moved + 1
  /\ k.pc = "window2" => \/ k.seen.window = k.frame.window
                         \/ changes >= k.moved + 1 /\ (screen[k.d].window = k.seen.window \/ changes >= k.moved + 2)
  /\ (k.pc = "send" /\ k.op = "select") => k.seen.window = k.frame.window \/ k.moved >= 2
\* An input holds the lock of its device; from the second look on it knows what
\* the device had been sent, and its look answers to its frame.
ActOK(c, k) == Acts(k) =>
  /\ k.pc \in ActSteps /\ (k.pc # "lock" => lock[k.d] = c)
  /\ Holding(k) => k.frame.serial = k.d
  /\ k.pc \in HeldSteps \ {"check"} => SinceLook(k)
  /\ WindowOK(k)
  /\ (k.pc = "send" /\ k.op = "act") => k.seen = k.frame.shot
  /\ k.pc \in {"window1", "resolve", "window2"} => k.op = "select"
  /\ (k.pc \in {"window2", "send"} /\ k.op = "select") => (k.seen.turn = k.frame.turn /\ P!Resolved(k.seen))
CallerOK(c) == /\ Busy(call[c]) => ACall(call[c]) /\ call[c].d \in Serials /\ call[c].op \in P!Looks \cup P!Actions
               /\ LookOK(call[c]) /\ ActOK(c, call[c])
\* Where the number of a frame can be: in a look that may still store it, in the
\* runner's map, in an input that took it, in an input that went out.
Places == {<<"look", c>> : c \in {d \in Callers : Looking(call[d])}} \cup {<<"frame", f>> : f \in frames}
          \cup {<<"held", c>> : c \in {d \in Callers : Holding(call[d])}} \cup {<<"sent", x>> : x \in sent}
Number(p) == IF p[1] = "look" THEN call[p[2]].n ELSE IF p[1] = "frame" THEN p[2].id
             ELSE IF p[1] = "held" THEN call[p[2]].frame.id ELSE p[2].frame.id
OncePlaced == /\ \A p \in Places : Number(p) \in 1 .. calls
              /\ \A p, q \in Places : Number(p) = Number(q) => p = q
MirrorsOK == /\ mirrors = [d \in Serials |-> mirrors[d]] /\ (\A d \in Serials : mirrors[d] \in Nat \cup {None})
             /\ mirroring \subseteq [d : Serials, n : Nat, left : BOOLEAN] /\ P!MirrorsAreKept
FrameTypes == /\ call = [c \in Callers |-> call[c]] /\ calls \in Nat
              /\ lock \in [Serials -> Callers \cup {None}] /\ changes \in Nat
              /\ inputs = [d \in Serials |-> [landed |-> inputs[d].landed, late |-> inputs[d].late]]
FramesInv == /\ FrameTypes /\ (\A c \in Callers : CallerOK(c)) /\ OncePlaced
             /\ P!NobodyBetween /\ P!OnWhatWasSeen /\ MirrorsOK

\* A number stays where it is, moves to another place, or is given out.
LEMMA PlacesStay ==
  ASSUME OncePlaced, calls \in Nat, calls' \in Nat, calls <= calls', Places' \subseteq Places, \A p \in Places' : Number(p)' = Number(p)
  PROVE  OncePlaced'
BY DEF OncePlaced

LEMMA PlaceMoves ==
  ASSUME OncePlaced, UNCHANGED calls, NEW p \in Places, NEW q, Places' \subseteq (Places \ {p}) \cup {q}, Number(q)' = Number(p),
         \A r \in Places' : r # q => Number(r)' = Number(r)
  PROVE  OncePlaced'
<1>1. ASSUME NEW r \in Places', r # q PROVE r \in Places /\ r # p /\ Number(r)' = Number(r) /\ Number(r) # Number(q)'
  BY <1>1 DEF OncePlaced
<1>2. ASSUME NEW r \in Places' PROVE Number(r)' \in 1 .. calls
  BY <1>1, <1>2 DEF OncePlaced
<1>3. ASSUME NEW r \in Places', NEW s \in Places', Number(r)' = Number(s)' PROVE r = s
  BY <1>1, <1>3 DEF OncePlaced
<1> QED BY <1>2, <1>3 DEF OncePlaced

LEMMA PlaceOpens ==
  ASSUME OncePlaced, calls \in Nat, calls' = calls + 1, NEW q, Places' \subseteq Places \cup {q}, q \notin Places, Number(q)' = calls + 1,
         \A r \in Places' : r # q => Number(r)' = Number(r)
  PROVE  OncePlaced'
<1>1. ASSUME NEW r \in Places', r # q PROVE r \in Places /\ Number(r)' = Number(r) /\ Number(r) \in 1 .. calls /\ Number(r)' # Number(q)'
  BY <1>1 DEF OncePlaced
<1>2. ASSUME NEW r \in Places' PROVE Number(r)' \in 1 .. calls'
  BY <1>1, <1>2
<1>3. ASSUME NEW r \in Places', NEW s \in Places', Number(r)' = Number(s)' PROVE r = s
  BY <1>1, <1>3 DEF OncePlaced
<1> QED BY <1>2, <1>3 DEF OncePlaced

\* When one call changes, its own places may change; the others', the runner's
\* map's and the inputs' are what they were, or what the step made of them.
LEMMA PlacesAfter ==
  ASSUME FramesInv, NEW c \in Callers, NEW k, call' = [call EXCEPT ![c] = k], NEW p \in Places'
  PROVE  \/ p = <<"look", c>> /\ Looking(k) /\ Number(p)' = k.n
         \/ p = <<"held", c>> /\ Holding(k) /\ Number(p)' = k.frame.id
         \/ \E f \in frames' : p = <<"frame", f>> /\ Number(p)' = f.id
         \/ \E x \in sent' : p = <<"sent", x>> /\ Number(p)' = x.frame.id
         \/ p \in Places /\ p \notin {<<"look", c>>, <<"held", c>>} /\ p[1] \in {"look", "held"} /\ Number(p)' = Number(p)
<1>1. call'[c] = k /\ \A d \in Callers \ {c} : call'[d] = call[d]
  BY DEF FramesInv, FrameTypes
<1>2. ASSUME NEW d \in Callers, p = <<"look", d>>, Looking(call'[d])
      PROVE  \/ p = <<"look", c>> /\ Looking(k) /\ Number(p)' = k.n
             \/ p \in Places /\ p \notin {<<"look", c>>, <<"held", c>>} /\ p[1] \in {"look", "held"} /\ Number(p)' = Number(p)
  <2>1. Number(p)' = call'[d].n
    BY <1>2 DEF Number
  <2>2. CASE d = c
    BY <1>1, <1>2, <2>1, <2>2
  <2>3. CASE d # c
    BY <1>1, <1>2, <2>1, <2>3 DEF Places, Number
  <2> QED BY <2>2, <2>3
<1>3. ASSUME NEW d \in Callers, p = <<"held", d>>, Holding(call'[d])
      PROVE  \/ p = <<"held", c>> /\ Holding(k) /\ Number(p)' = k.frame.id
             \/ p \in Places /\ p \notin {<<"look", c>>, <<"held", c>>} /\ p[1] \in {"look", "held"} /\ Number(p)' = Number(p)
  <2>1. Number(p)' = call'[d].frame.id
    BY <1>3 DEF Number
  <2>2. CASE d = c
    BY <1>1, <1>3, <2>1, <2>2
  <2>3. CASE d # c
    BY <1>1, <1>3, <2>1, <2>3 DEF Places, Number
  <2> QED BY <2>2, <2>3
<1>4. ASSUME NEW f \in frames', p = <<"frame", f>> PROVE Number(p)' = f.id
  BY <1>4 DEF Number
<1>5. ASSUME NEW x \in sent', p = <<"sent", x>> PROVE Number(p)' = x.frame.id
  BY <1>5 DEF Number
<1>6. \/ \E d \in Callers : p = <<"look", d>> /\ Looking(call'[d])
      \/ \E d \in Callers : p = <<"held", d>> /\ Holding(call'[d])
      \/ \E f \in frames' : p = <<"frame", f>>
      \/ \E x \in sent' : p = <<"sent", x>>
  BY DEF Places, Looking, Busy, Holding
<1> QED BY <1>2, <1>3, <1>4, <1>5, <1>6

\* One call changes: the others keep their devices, and know their inputs.
LEMMA OthersKeep ==
  ASSUME FramesInv, NEW c \in Callers, NEW k, call' = [call EXCEPT ![c] = k],
         \A d \in Serials : (lock[d] # c => lock'[d] = lock[d]) \/ lock[d] = None,
         \A d \in Serials : lock[d] # c => inputs'[d] = inputs[d], UNCHANGED <<screen, changes>>, CallerOK(c)', None \notin Callers
  PROVE  \A e \in Callers : CallerOK(e)'
<1> SUFFICES ASSUME NEW e \in Callers \ {c} PROVE CallerOK(e)'
  OBVIOUS
<1>1. call'[e] = call[e] /\ CallerOK(e)
  BY DEF FramesInv, FrameTypes
<1>2. CASE Acts(call[e]) /\ call[e].pc # "lock"
  <2>1. lock[call[e].d] = e /\ call[e].d \in Serials
    BY <1>1, <1>2 DEF CallerOK, ActOK, Acts
  <2>2. lock'[call[e].d] = lock[call[e].d] /\ inputs'[call[e].d] = inputs[call[e].d]
    BY <2>1
  <2>3. ActOK(e, call[e])'
    BY <1>1, <2>1, <2>2 DEF CallerOK, ActOK, Acts, Holding, Busy, SinceLook, WindowOK
  <2> QED BY <1>1, <2>3 DEF CallerOK, LookOK, Looking, Busy, ACall, AFrame
<1>3. CASE ~(Acts(call[e]) /\ call[e].pc # "lock")
  <2>1. ActOK(e, call[e])'
    BY <1>1, <1>3 DEF CallerOK, ActOK, Acts, Holding, Busy, HeldSteps, WindowOK
  <2> QED BY <1>1, <2>1 DEF CallerOK, LookOK, Looking, Busy, ACall, AFrame
<1> QED BY <1>2, <1>3

\* What a call keeps of what was started.
LEMMA MirrorsStay ==
  ASSUME FramesInv, UNCHANGED mirrors, mirroring' \subseteq mirroring,
         call' = call \/ \E c \in Callers : call[c].pc # "kill" /\ \E k : call' = [call EXCEPT ![c] = k]
  PROVE  MirrorsOK'
<1>1. MirrorsOK /\ call = [c \in Callers |-> call[c]]
  BY DEF FramesInv, FrameTypes
<1>2. \A c \in Callers : call[c].pc = "kill" => call'[c] = call[c]
  BY <1>1
<1>3. P!MirrorsAreKept'
  BY <1>1, <1>2 DEF MirrorsOK, P!MirrorsAreKept
<1> QED BY <1>1, <1>3 DEF MirrorsOK

\* A call goes on, with the number or the frame it has, or ends.
LEMMA CallMoves ==
  ASSUME None \notin Callers, FramesInv, NEW c \in Callers, NEW k, call' = [call EXCEPT ![c] = k], CallerOK(c)',
         frames' \subseteq frames, UNCHANGED <<sent, calls, inputs, screen, changes>>, MirrorsOK',
         lock' \in [Serials -> Callers \cup {None}], \A d \in Serials : (lock[d] # c => lock'[d] = lock[d]) \/ lock[d] = None,
         Looking(k) => Looking(call[c]) /\ k.n = call[c].n, Holding(k) => Holding(call[c]) /\ k.frame = call[c].frame
  PROVE  FramesInv'
<1>1. FrameTypes /\ OncePlaced
  BY DEF FramesInv
<1>2. \A e \in Callers : CallerOK(e)'
  BY <1>1, OthersKeep
<1>3. ASSUME NEW p \in Places' PROVE p \in Places /\ Number(p)' = Number(p)
  BY <1>3, PlacesAfter DEF Places, Number
<1>4. OncePlaced'
  BY <1>1, <1>3, PlacesStay DEF FrameTypes
<1>5. FrameTypes'
  BY <1>1 DEF FrameTypes
<1> QED BY <1>2, <1>4, <1>5 DEF FramesInv, P!NobodyBetween, P!OnWhatWasSeen

LEMMA CallEnds ==
  ASSUME None \notin Callers, FramesInv, NEW c \in Callers, P!Ends(c), frames' \subseteq frames, UNCHANGED <<sent, calls, inputs, screen, changes>>, MirrorsOK'
  PROVE  FramesInv'
<1>1. FrameTypes
  BY DEF FramesInv
<1>2. call' = [call EXCEPT ![c] = P!Idle] /\ call'[c] = P!Idle /\ lock' = [d \in Serials |-> IF lock[d] = c THEN None ELSE lock[d]]
  BY <1>1 DEF P!Ends, P!Unlocked, FrameTypes
<1>3. P!Idle.pc = "idle"
  BY DEF P!Idle
<1>4. CallerOK(c)' /\ ~Looking(P!Idle) /\ ~Holding(P!Idle)
  BY <1>2, <1>3 DEF CallerOK, LookOK, ActOK, Looking, Acts, Busy, Holding, HeldSteps
<1>5. lock' \in [Serials -> Callers \cup {None}] /\ \A d \in Serials : lock[d] # c => lock'[d] = lock[d]
  BY <1>1, <1>2 DEF FrameTypes
<1> QED BY <1>2, <1>4, <1>5, CallMoves

\* The devices, the clock, an input that lands late, and a mirror that somebody closes.
LEMMA DeviceMoves ==
  ASSUME FramesInv, UNCHANGED <<frames, lock, call, sent, calls, mirrors>>, mirroring' \subseteq mirroring,
         changes' = changes + 1 \/ UNCHANGED <<screen, changes>>,
         UNCHANGED inputs \/ \E d \in Serials : \E n : P!Lands(d, n)
  PROVE  FramesInv'
<1>1. MirrorsOK'
  BY MirrorsStay
<1>2. Places' = Places /\ \A p \in Places : Number(p)' = Number(p)
  BY DEF Places, Number, Looking, Busy, Holding
<1>3. changes \in Nat /\ changes' \in Nat
  BY DEF FramesInv, FrameTypes
<1>4. /\ \A d \in Serials : /\ inputs'[d].landed \cup inputs'[d].late \subseteq inputs[d].landed \cup inputs[d].late
                            /\ inputs'[d].late \subseteq inputs[d].late
      /\ inputs' = [d \in Serials |-> [landed |-> inputs'[d].landed, late |-> inputs'[d].late]]
  <2>1. \A d \in Serials : inputs[d] = [landed |-> inputs[d].landed, late |-> inputs[d].late]
    BY DEF FramesInv, FrameTypes
  <2>2. CASE UNCHANGED inputs
    BY <2>1, <2>2 DEF FramesInv, FrameTypes
  <2>3. CASE ~UNCHANGED inputs
    <3>1. PICK e, n, r : /\ e \in Serials /\ inputs' = [inputs EXCEPT ![e] = r] /\ n \in inputs[e].late
                         /\ r = [landed |-> inputs[e].landed \cup {n}, late |-> inputs[e].late \ {n}]
      BY <2>3 DEF P!Lands
    <3>2. inputs'[e] = r /\ (\A d \in Serials \ {e} : inputs'[d] = inputs[d]) /\ inputs' = [d \in Serials |-> inputs'[d]]
      BY <3>1 DEF FramesInv, FrameTypes
    <3>3. r = [landed |-> r.landed, late |-> r.late] /\ r.landed \cup r.late \subseteq inputs[e].landed \cup inputs[e].late
          /\ r.late \subseteq inputs[e].late
      BY <3>1
    <3>4. ASSUME NEW d \in Serials
          PROVE  /\ inputs'[d] = [landed |-> inputs'[d].landed, late |-> inputs'[d].late]
                 /\ inputs'[d].landed \cup inputs'[d].late \subseteq inputs[d].landed \cup inputs[d].late
                 /\ inputs'[d].late \subseteq inputs[d].late
      BY <2>1, <3>2, <3>3
    <3> QED BY <3>2, <3>4
  <2> QED BY <2>2, <2>3
<1>5. OncePlaced' /\ FrameTypes'
  BY <1>2, <1>3, <1>4 DEF FramesInv, OncePlaced, FrameTypes
<1>6. ASSUME NEW c \in Callers PROVE CallerOK(c)'
  <2>1. call'[c] = call[c] /\ CallerOK(c)
    BY DEF FramesInv
  <2>2. CASE Acts(call[c])
    <3>1. ActOK(c, call[c]) /\ call[c].d \in Serials
      BY <2>1, <2>2 DEF CallerOK, Acts
    <3>2. WindowOK(call[c])'
      BY <1>3, <2>2, <3>1 DEF ActOK, WindowOK
    <3>3. SinceLook(call[c]) => SinceLook(call[c])'
      BY <1>4, <3>1 DEF SinceLook
    <3>4. ActOK(c, call[c])'
      BY <2>1, <2>2, <3>1, <3>2, <3>3 DEF ActOK, Acts, Busy, Holding
    <3> QED BY <2>1, <3>4 DEF CallerOK, LookOK, Looking, Busy, ACall, AFrame
  <2>3. CASE ~Acts(call[c])
    BY <2>1, <2>3 DEF CallerOK, LookOK, ActOK, Acts, Looking, Busy, ACall, AFrame
  <2> QED BY <2>2, <2>3
<1> QED BY <1>1, <1>5, <1>6 DEF FramesInv, P!NobodyBetween, P!OnWhatWasSeen

LEMMA CallerFields ==
  ASSUME FramesInv, NEW c \in Callers
  PROVE  /\ call = [d \in Callers |-> call[d]] /\ CallerOK(c) /\ LookOK(call[c]) /\ ActOK(c, call[c])
         /\ Busy(call[c]) => ACall(call[c]) /\ call[c].d \in Serials /\ (Looking(call[c]) \/ Acts(call[c]))
BY DEF FramesInv, FrameTypes, CallerOK, Looking, Acts

\* The next step of a look.
LooksOn(c, k) ==
  /\ ACall(k) /\ k.pc \in LookSteps /\ k.n = call[c].n /\ k.op = call[c].op /\ k.d = call[c].d
  /\ k.pc \in {"helper", "probe"} => k.op # "mirror"
  /\ (k.pc \in {"window", "dump"} /\ k.op = "semantic") => (AFrame(k.frame) /\ k.frame.id = k.n)
LEMMA LookGoes ==
  ASSUME None \notin Callers, FramesInv, NEW c \in Callers, Looking(call[c]), NEW k, LooksOn(c, k),
         call' = [call EXCEPT ![c] = k], frames' \subseteq frames, lock' = lock, UNCHANGED <<sent, calls, inputs, mirrors, mirroring, screen, changes>>
  PROVE  FramesInv'
<1>1. Busy(call[c]) /\ call[c].d \in Serials /\ call[c].op \in P!Looks /\ call[c].n \in Nat /\ call[c].pc # "kill"
  BY CallerFields DEF Looking, Busy, LookOK
<1>2. call'[c] = k
  BY DEF FramesInv, FrameTypes
<1>3. ~Acts(k) /\ ~Holding(k)
  BY <1>1 DEF LooksOn, Acts, Holding, LookSteps, HeldSteps, P!Looks, P!Actions
<1>4. CallerOK(c)'
  BY <1>1, <1>2, <1>3 DEF LooksOn, CallerOK, LookOK, ActOK, Acts, Looking, Busy, ACall, AFrame
<1>5. MirrorsOK'
  BY <1>1, MirrorsStay
<1>6. k.n = call[c].n
  BY DEF LooksOn
<1> QED BY <1>3, <1>4, <1>5, <1>6, CallMoves DEF FramesInv, FrameTypes

\* A look puts its frame into the runner's map, under the number of its call.
LEMMA Stores ==
  ASSUME None \notin Callers, FramesInv, NEW c \in Callers, Looking(call[c]), NEW f, f.id = call[c].n, P!Store(c, f),
         UNCHANGED <<sent, calls, inputs, mirrors, mirroring, screen, changes>>
  PROVE  FramesInv'
<1>1. FrameTypes /\ OncePlaced /\ call[c].pc # "kill"
  BY DEF FramesInv, Looking, Busy
<1>2. call' = [call EXCEPT ![c] = P!Idle] /\ call'[c] = P!Idle /\ lock' = [d \in Serials |-> IF lock[d] = c THEN None ELSE lock[d]]
  BY <1>1 DEF P!Store, P!Ends, P!Unlocked, FrameTypes
<1>3. P!Idle.pc = "idle"
  BY DEF P!Idle
<1>4. CallerOK(c)' /\ ~Looking(P!Idle) /\ ~Holding(P!Idle)
  BY <1>2, <1>3 DEF CallerOK, LookOK, ActOK, Looking, Acts, Busy, Holding, HeldSteps
<1>5. lock' \in [Serials -> Callers \cup {None}] /\ \A d \in Serials : lock[d] # c => lock'[d] = lock[d]
  BY <1>1, <1>2 DEF FrameTypes
<1>6. \A e \in Callers : CallerOK(e)'
  BY <1>2, <1>4, <1>5, OthersKeep
<1>7. \A g \in frames' : g \in frames \/ g = f
  BY DEF P!Store, P!Live
<1>8. PICK p, q : p = <<"look", c>> /\ q = <<"frame", f>>
  OBVIOUS
<1>9. p \in Places /\ Number(p) = call[c].n /\ Number(q)' = f.id
  BY <1>8 DEF Places, Number
<1>10. ASSUME NEW r \in Places', r # q PROVE r \in Places \ {p} /\ Number(r)' = Number(r)
  <2>1. CASE \E g \in frames' : r = <<"frame", g>> /\ Number(r)' = g.id
    BY <1>7, <1>8, <1>10, <2>1 DEF Places, Number
  <2>2. CASE \E x \in sent' : r = <<"sent", x>> /\ Number(r)' = x.frame.id
    BY <1>8, <2>2 DEF Places, Number
  <2>3. CASE r \in Places /\ r \notin {<<"look", c>>, <<"held", c>>} /\ Number(r)' = Number(r)
    BY <1>8, <2>3
  <2> QED BY <1>2, <1>4, <2>1, <2>2, <2>3, PlacesAfter
<1>11. OncePlaced'
  BY <1>1, <1>9, <1>10, PlaceMoves
<1>12. MirrorsOK'
  BY <1>1, <1>2, MirrorsStay
<1>13. FrameTypes'
  BY <1>1, <1>2, <1>5 DEF FrameTypes
<1> QED BY <1>6, <1>11, <1>12, <1>13 DEF FramesInv, P!NobodyBetween, P!OnWhatWasSeen

\* selectHelper, screenshot, the window and the hierarchy.
LEMMA LookActions ==
  ASSUME None \notin Callers, FramesInv, NEW c \in Callers,
         P!SelectHelper(c) \/ (\E ok \in BOOLEAN : P!ProbeHelper(c, ok)) \/ P!Capture(c) \/ P!Note(c) \/ P!FocusedWindow(c) \/ P!DumpHierarchy(c)
  PROVE  FramesInv'
<1>1. call[c].pc \in {"helper", "probe", "capture", "note", "window", "dump"} /\ UNCHANGED <<sent, calls, inputs, mirrors, mirroring, screen, changes>>
  BY DEF P!SelectHelper, P!ProbeHelper, P!Capture, P!Note, P!FocusedWindow, P!DumpHierarchy, P!device
<1>2. Busy(call[c]) /\ Looking(call[c]) /\ ACall(call[c]) /\ LookOK(call[c]) /\ call[c].op \in P!Looks /\ call[c].pc # "kill"
  <2>1. Busy(call[c])
    BY <1>1 DEF Busy
  <2>2. ~Acts(call[c])
    BY <1>1, <2>1, CallerFields DEF ActOK, ActSteps, HeldSteps
  <2> QED BY <1>1, <2>1, <2>2, CallerFields DEF Looking
<1>3. MirrorsOK' \/ ~\E k : call' = [call EXCEPT ![c] = k]
  BY <1>1, <1>2, MirrorsStay
<1>4. ASSUME P!Ends(c), frames' = frames PROVE FramesInv'
  BY <1>1, <1>3, <1>4, CallEnds DEF P!Ends
<1>5. call = [call EXCEPT ![c] = call[c]]
  BY CallerFields
<1>6. ASSUME NEW ok, P!Chosen(c, ok), frames' = frames, call[c].op # "mirror" PROVE FramesInv'
  <2>1. CASE P!Ends(c)
    BY <1>4, <1>6, <2>1
  <2>2. CASE ~P!Ends(c)
    <3>1. PICK pc : pc = P!Served[call[c].op]
      OBVIOUS
    <3>2. pc \in {"dump", "capture"} /\ (call[c].op = "semantic" => pc = "capture") /\ P!Goes(c, pc)
      BY <1>2, <1>6, <2>2, <3>1 DEF P!Chosen, P!Served, P!Looks
    <3>3. PICK k : k = [call[c] EXCEPT !.pc = pc]
      OBVIOUS
    <3>4. call' = [call EXCEPT ![c] = k] /\ lock' = lock
      BY <1>5, <3>2, <3>3 DEF P!Goes
    <3>5. LooksOn(c, k)
      BY <1>2, <3>2, <3>3 DEF LooksOn, ACall, LookSteps
    <3> QED BY <1>1, <1>2, <1>6, <3>4, <3>5, LookGoes
  <2> QED BY <2>1, <2>2
<1>7. CASE P!SelectHelper(c)
  <2>1. call[c].pc = "helper" /\ call[c].op # "mirror" /\ frames' = frames
    BY <1>2, <1>7 DEF P!SelectHelper, LookOK
  <2>2. CASE \E ok : P!Chosen(c, ok)
    BY <1>6, <2>1, <2>2
  <2>3. CASE ~\E ok : P!Chosen(c, ok)
    <3>1. call' = [call EXCEPT ![c].pc = "probe", ![c].at = generations[call[c].d]] /\ lock' = lock
      BY <1>7, <2>3 DEF P!SelectHelper
    <3>2. PICK k : k = [call[c] EXCEPT !.pc = "probe", !.at = generations[call[c].d]]
      OBVIOUS
    <3>3. call' = [call EXCEPT ![c] = k]
      BY <1>2, <1>5, <3>1, <3>2 DEF ACall
    <3>4. LooksOn(c, k)
      BY <1>2, <2>1, <3>2 DEF LooksOn, ACall, LookSteps
    <3> QED BY <1>1, <1>2, <2>1, <3>1, <3>3, <3>4, LookGoes
  <2> QED BY <2>2, <2>3
<1>8. ASSUME NEW ok \in BOOLEAN, P!ProbeHelper(c, ok) PROVE FramesInv'
  <2>1. call[c].op # "mirror" /\ frames' = frames /\ P!Chosen(c, ok)
    BY <1>2, <1>8 DEF P!ProbeHelper, LookOK
  <2> QED BY <1>6, <2>1
<1>9. CASE P!Capture(c)
  <2>1. /\ call[c].pc = "capture" /\ UNCHANGED <<lock, frames>>
        /\ call' = [call EXCEPT ![c].pc = "note", ![c].seen = screen[call[c].d]]
    BY <1>9 DEF P!Capture
  <2>2. PICK k : k = [call[c] EXCEPT !.pc = "note", !.seen = screen[call[c].d]]
    OBVIOUS
  <2>3. call' = [call EXCEPT ![c] = k]
    BY <1>2, <1>5, <2>1, <2>2 DEF ACall
  <2>4. LooksOn(c, k)
    BY <1>2, <2>2 DEF LooksOn, ACall, LookSteps
  <2> QED BY <1>1, <1>2, <2>1, <2>3, <2>4, LookGoes
<1>10. CASE P!Note(c)
  <2>1. PICK expires, f : /\ expires = now + FrameTTL
                          /\ f = [id |-> call[c].n, serial |-> call[c].d, generation |-> generations[call[c].d], expires |-> expires,
                                  shot |-> call[c].seen, window |-> None, turn |-> None]
    OBVIOUS
  <2>2. AFrame(f) /\ f.id = call[c].n
    BY <2>1 DEF AFrame
  <2>3. IF call[c].op = "semantic"
          THEN call' = [call EXCEPT ![c].pc = "window", ![c].frame = f] /\ UNCHANGED <<frames, lock>>
          ELSE P!Store(c, f)
    BY <1>10, <2>1 DEF P!Note
  <2>4. CASE call[c].op = "semantic"
    <3>1. PICK k : k = [call[c] EXCEPT !.pc = "window", !.frame = f]
      OBVIOUS
    <3>2. call' = [call EXCEPT ![c] = k]
      BY <1>2, <1>5, <2>3, <2>4, <3>1 DEF ACall
    <3>3. LooksOn(c, k)
      BY <1>2, <2>2, <3>1 DEF LooksOn, ACall, LookSteps
    <3> QED BY <1>1, <1>2, <2>3, <2>4, <3>2, <3>3, LookGoes
  <2>5. CASE call[c].op # "semantic"
    BY <1>1, <1>2, <2>2, <2>3, <2>5, Stores
  <2> QED BY <2>4, <2>5
<1>11. CASE P!FocusedWindow(c)
  <2>1. /\ call[c].pc = "window" /\ UNCHANGED <<lock, frames>>
        /\ call' = [call EXCEPT ![c].pc = "dump", ![c].frame.window = screen[call[c].d].window]
    BY <1>11 DEF P!FocusedWindow
  <2>2. PICK f : f = [call[c].frame EXCEPT !.window = screen[call[c].d].window]
    OBVIOUS
  <2>3. call[c].op = "semantic" => AFrame(f) /\ f.id = call[c].n
    <3>1. call[c].op = "semantic" => AFrame(call[c].frame) /\ call[c].frame.id = call[c].n
      BY <1>2, <2>1 DEF LookOK
    <3> QED BY <2>2, <3>1 DEF AFrame
  <2>4. PICK k : k = [call[c] EXCEPT !.pc = "dump", !.frame = f]
    OBVIOUS
  <2>5. call' = [call EXCEPT ![c] = k]
    BY <2>1, <2>2, <2>4
  <2>6. LooksOn(c, k)
    BY <1>2, <2>3, <2>4 DEF LooksOn, ACall, LookSteps
  <2> QED BY <1>1, <1>2, <2>1, <2>5, <2>6, LookGoes
<1>12. CASE P!DumpHierarchy(c)
  <2>1. /\ call[c].pc = "dump"
        /\ IF call[c].op = "semantic" THEN P!Store(c, [call[c].frame EXCEPT !.turn = screen[call[c].d].turn])
           ELSE P!Ends(c) /\ frames' = frames
    BY <1>12 DEF P!DumpHierarchy
  <2>2. CASE call[c].op = "semantic"
    <3>1. PICK f : f = [call[c].frame EXCEPT !.turn = screen[call[c].d].turn]
      OBVIOUS
    <3>2. AFrame(call[c].frame) /\ call[c].frame.id = call[c].n
      BY <1>2, <2>1, <2>2 DEF LookOK
    <3>3. f.id = call[c].n
      BY <3>1, <3>2 DEF AFrame
    <3> QED BY <1>1, <1>2, <2>1, <2>2, <3>1, <3>3, Stores
  <2>3. CASE call[c].op # "semantic"
    BY <1>4, <2>1, <2>3
  <2> QED BY <2>2, <2>3
<1> QED BY <1>7, <1>8, <1>9, <1>10, <1>11, <1>12

\* The next step of an input, with the frame it took.
ActsOn(c, k) ==
  /\ ACall(k) /\ k.pc \in HeldSteps /\ k.op = call[c].op /\ k.d = call[c].d /\ k.frame = call[c].frame
  /\ k.pc # "check" => SinceLook(k)
  /\ WindowOK(k)
  /\ (k.pc = "send" /\ k.op = "act") => k.seen = k.frame.shot
  /\ k.pc \in {"window1", "resolve", "window2"} => k.op = "select"
  /\ (k.pc \in {"window2", "send"} /\ k.op = "select") => (k.seen.turn = k.frame.turn /\ P!Resolved(k.seen))
LEMMA ActGoes ==
  ASSUME None \notin Callers, FramesInv, NEW c \in Callers, Holding(call[c]), NEW k, ActsOn(c, k), call' = [call EXCEPT ![c] = k],
         lock' = lock, UNCHANGED <<frames, sent, calls, inputs, mirrors, mirroring, screen, changes>>
  PROVE  FramesInv'
<1>1. /\ Busy(call[c]) /\ call[c].d \in Serials /\ call[c].op \in P!Actions /\ call[c].pc \notin {"kill", "lock"}
      /\ lock[call[c].d] = c /\ call[c].frame.serial = call[c].d
  <2>1. Busy(call[c]) /\ call[c].pc \notin {"kill", "lock"} /\ call[c].pc \in HeldSteps
    BY DEF Holding, HeldSteps, Busy
  <2>2. Acts(call[c])
    BY <2>1, CallerFields DEF LookOK, LookSteps, HeldSteps
  <2> QED BY <2>1, <2>2, CallerFields DEF ActOK, Acts, Holding
<1>2. call'[c] = k
  BY DEF FramesInv, FrameTypes
<1>3. ~Looking(k) /\ k.frame = call[c].frame
  BY <1>1 DEF ActsOn, Looking, P!Looks, P!Actions
<1>4. ActOK(c, k)'
  BY <1>1 DEF ActsOn, ActOK, ActSteps, HeldSteps, Holding, SinceLook, WindowOK
<1>5. CallerOK(c)'
  BY <1>1, <1>2, <1>3, <1>4 DEF ActsOn, CallerOK, LookOK, ActOK, Acts, Looking, Busy, ACall, Holding
<1>6. MirrorsOK'
  BY <1>1, MirrorsStay
<1> QED BY <1>3, <1>5, <1>6, CallMoves DEF FramesInv, FrameTypes

\* The second look, the window and the control.
LEMMA CheckActions ==
  ASSUME None \notin Callers, FramesInv, NEW c \in Callers, P!Recapture(c) \/ P!SameWindow(c) \/ P!Resolve(c)
  PROVE  FramesInv'
<1>1. /\ call[c].pc \in {"check", "window1", "resolve", "window2"} /\ UNCHANGED <<frames, sent, calls, inputs, mirrors, mirroring, screen, changes>>
  BY DEF P!Recapture, P!SameWindow, P!Resolve, P!device
<1>2. /\ Holding(call[c]) /\ Busy(call[c]) /\ ACall(call[c]) /\ Acts(call[c]) /\ ActOK(c, call[c])
      /\ call[c].pc # "kill" /\ call = [call EXCEPT ![c] = call[c]]
  <2>1. Busy(call[c]) /\ Holding(call[c])
    BY <1>1 DEF Busy, Holding, HeldSteps
  <2>2. ~Looking(call[c])
    BY <1>1, <2>1, CallerFields DEF LookOK, LookSteps
  <2> QED BY <1>1, <2>1, <2>2, CallerFields
<1>3. CASE P!Ends(c)
  <2>1. MirrorsOK'
    BY <1>1, <1>2, <1>3, MirrorsStay DEF P!Ends
  <2> QED BY <1>1, <1>3, <2>1, CallEnds
<1>4. CASE P!Recapture(c) /\ ~P!Ends(c)
  <2>1. /\ call[c].pc = "check" /\ P!SameScreen(c) /\ lock' = lock
        /\ call' = [call EXCEPT ![c].pc = IF call[c].op = "select" THEN "window1" ELSE "send",
                                ![c].seen = screen[call[c].d], ![c].at = inputs[call[c].d]]
    BY <1>4 DEF P!Recapture
  <2>2. PICK pc : pc = IF call[c].op = "select" THEN "window1" ELSE "send"
    OBVIOUS
  <2>3. PICK k : k = [call[c] EXCEPT !.pc = pc, !.seen = screen[call[c].d], !.at = inputs[call[c].d]]
    OBVIOUS
  <2>4. call' = [call EXCEPT ![c] = k]
    BY <1>2, <2>1, <2>2, <2>3 DEF ACall
  <2>5. call[c].op = "act" => screen[call[c].d] = call[c].frame.shot
    BY <2>1 DEF P!SameScreen
  <2>6. k.at = inputs[k.d] /\ k.d = call[c].d
    BY <1>2, <2>3 DEF ACall
  <2>7. SinceLook(k) /\ WindowOK(k)
    BY <1>2, <2>1, <2>2, <2>3, <2>6 DEF SinceLook, WindowOK, ActOK, ACall
  <2>8. ActsOn(c, k)
    BY <1>2, <2>2, <2>3, <2>5, <2>7 DEF ActsOn, ACall, HeldSteps
  <2> QED BY <1>1, <1>2, <2>1, <2>4, <2>8, ActGoes
<1>5. CASE P!SameWindow(c) /\ ~P!Ends(c)
  <2>1. PICK pc, moved : pc = (IF call[c].pc = "window1" THEN "resolve" ELSE "send") /\ moved = changes - call[c].moved
    OBVIOUS
  <2>2. /\ call[c].pc \in {"window1", "window2"} /\ lock' = lock /\ call' = [call EXCEPT ![c].pc = pc, ![c].moved = moved]
        /\ screen[call[c].d].window = call[c].frame.window
    BY <1>5, <2>1 DEF P!SameWindow
  <2>3. PICK k : k = [call[c] EXCEPT !.pc = pc, !.moved = moved]
    OBVIOUS
  <2>4. call' = [call EXCEPT ![c] = k]
    BY <1>2, <2>2, <2>3 DEF ACall
  <2>5. /\ SinceLook(call[c]) /\ WindowOK(call[c]) /\ call[c].op = "select" /\ pc \in {"resolve", "send"}
        /\ pc = "send" => (call[c].seen.turn = call[c].frame.turn /\ P!Resolved(call[c].seen))
    BY <1>2, <2>1, <2>2 DEF ActOK, HeldSteps
  <2>6. SinceLook(k)
    BY <1>2, <2>3, <2>5 DEF SinceLook, ACall
  <2>7. /\ k.pc = pc /\ k.moved = moved /\ k.d = call[c].d /\ k.op = call[c].op
        /\ k.frame = call[c].frame /\ k.seen = call[c].seen
    BY <1>2, <2>3 DEF ACall
  <2>8. changes \in Nat /\ call[c].moved \in Nat
    BY <2>5 DEF FramesInv, FrameTypes, WindowOK
  <2>9. WindowOK(k)
    <3>1. CASE call[c].pc = "window1"
      BY <2>1, <2>2, <2>5, <2>7, <2>8, <3>1 DEF WindowOK
    <3>2. CASE call[c].pc = "window2"
      BY <2>1, <2>2, <2>5, <2>7, <2>8, <3>2 DEF WindowOK
    <3> QED BY <2>2, <3>1, <3>2
  <2>10. ActsOn(c, k)
    BY <1>2, <2>3, <2>5, <2>6, <2>9 DEF ActsOn, ACall, HeldSteps
  <2> QED BY <1>1, <1>2, <2>2, <2>4, <2>10, ActGoes
<1>6. CASE P!Resolve(c) /\ ~P!Ends(c)
  <2>1. /\ call[c].pc = "resolve" /\ lock' = lock /\ screen[call[c].d].turn = call[c].frame.turn /\ P!Resolved(screen[call[c].d])
        /\ call' = [call EXCEPT ![c].pc = "window2", ![c].seen = screen[call[c].d]]
    BY <1>6 DEF P!Resolve
  <2>2. PICK k : k = [call[c] EXCEPT !.pc = "window2", !.seen = screen[call[c].d]]
    OBVIOUS
  <2>3. call' = [call EXCEPT ![c] = k]
    BY <1>2, <2>1, <2>2 DEF ACall
  <2>4. SinceLook(call[c]) /\ WindowOK(call[c]) /\ call[c].op = "select"
    BY <1>2, <2>1 DEF ActOK, HeldSteps
  <2>5. /\ k.pc = "window2" /\ k.moved = call[c].moved /\ k.d = call[c].d /\ k.at = call[c].at /\ k.op = call[c].op
        /\ k.frame = call[c].frame /\ k.seen = screen[call[c].d]
    BY <1>2, <2>2 DEF ACall
  <2>6. SinceLook(k) /\ WindowOK(k)
    BY <2>1, <2>4, <2>5 DEF SinceLook, WindowOK, FramesInv, FrameTypes
  <2>7. ActsOn(c, k)
    BY <1>2, <2>1, <2>2, <2>4, <2>6 DEF ActsOn, ACall, HeldSteps
  <2> QED BY <1>1, <1>2, <2>1, <2>3, <2>7, ActGoes
<1> QED BY <1>3, <1>4, <1>5, <1>6

\* get-state, and a call that takes the lock of its device.
LEMMA SerialActions ==
  ASSUME None \notin Callers, FramesInv, NEW c \in Callers, P!Serial(c)
  PROVE  FramesInv'
<1>1. call[c].pc = "serial" /\ UNCHANGED <<sent, calls, inputs, mirrors, mirroring, screen, changes>> /\ frames' \subseteq frames
  BY DEF P!Serial, P!Drop, P!device
<1>2. Busy(call[c]) /\ ACall(call[c]) /\ call[c].d \in Serials /\ call[c].pc # "kill" /\ call = [call EXCEPT ![c] = call[c]]
  BY <1>1, CallerFields DEF Busy
<1>3. CASE P!Ends(c)
  <2>1. MirrorsOK'
    BY <1>1, <1>2, <1>3, MirrorsStay DEF P!Ends
  <2> QED BY <1>1, <1>3, <2>1, CallEnds
<1>4. CASE ~P!Ends(c)
  <2>1. PICK pc : pc = P!After(call[c].op)
    OBVIOUS
  <2>2. call' = [call EXCEPT ![c].pc = pc] /\ lock' = lock
    BY <1>4, <2>1 DEF P!Serial, P!Goes
  <2>3. PICK k : k = [call[c] EXCEPT !.pc = pc]
    OBVIOUS
  <2>4. call' = [call EXCEPT ![c] = k]
    BY <2>2, <2>3
  <2>5. CASE Looking(call[c])
    <3>1. call[c].op \in P!Looks
      BY <2>5 DEF Looking
    <3>2. pc \in {"start", "helper"} /\ (pc = "helper" => call[c].op # "mirror")
      BY <2>1, <3>1 DEF P!After, P!Looks, P!Actions
    <3>3. LooksOn(c, k)
      BY <1>2, <2>3, <3>2 DEF LooksOn, ACall, LookSteps
    <3> QED BY <1>1, <2>2, <2>4, <2>5, <3>3, LookGoes
  <2>6. CASE Acts(call[c])
    <3>1. call[c].op \in P!Actions /\ pc = "frame" /\ lock[call[c].d] = c
      BY <1>1, <2>1, <2>6, CallerFields DEF Acts, ActOK, P!After
    <3>2. ACall(k) /\ k.pc = "frame" /\ k.op = call[c].op /\ k.d = call[c].d
      BY <1>2, <2>3, <3>1 DEF ACall
    <3>3. ~Looking(k) /\ ~Holding(k)
      BY <3>1, <3>2 DEF Looking, Holding, HeldSteps, P!Looks, P!Actions
    <3>4. CallerOK(c)'
      <4>1. call'[c] = k
        BY <2>4 DEF FramesInv, FrameTypes
      <4>2. WindowOK(k)'
        BY <1>1, <1>2, <2>3, <2>6, <3>1, <3>2, CallerFields DEF ActOK, WindowOK, ACall
      <4>3. ActOK(c, k)'
        BY <2>2, <3>1, <3>2, <4>2 DEF ActOK, ActSteps, HeldSteps, Holding
      <4> QED BY <1>2, <3>1, <3>2, <3>3, <4>1, <4>3 DEF CallerOK, LookOK, ActOK, Acts, Looking, Busy, ACall, Holding
    <3>5. MirrorsOK'
      BY <1>1, <1>2, <2>4, MirrorsStay
    <3> QED BY <1>1, <2>2, <2>4, <3>3, <3>4, <3>5, CallMoves DEF FramesInv, FrameTypes
  <2> QED BY <1>2, <2>5, <2>6, CallerFields
<1> QED BY <1>3, <1>4

LEMMA LockActions ==
  ASSUME None \notin Callers, FramesInv, NEW c \in Callers, P!ActionLock(c)
  PROVE  FramesInv'
<1>1. /\ call[c].pc = "lock" /\ UNCHANGED <<frames, sent, calls, inputs, mirrors, mirroring, screen, changes>> /\ lock[call[c].d] = None
      /\ lock' = [lock EXCEPT ![call[c].d] = c] /\ call' = [call EXCEPT ![c].pc = "serial"]
  BY DEF P!ActionLock, P!device
<1>2. Busy(call[c]) /\ ACall(call[c]) /\ call[c].d \in Serials /\ call[c].pc # "kill" /\ call = [call EXCEPT ![c] = call[c]]
  BY <1>1, CallerFields DEF Busy
<1>3. call[c].op \in P!Actions
  BY <1>1, <1>2, CallerFields DEF LookOK, LookSteps, Acts
<1>4. PICK k : k = [call[c] EXCEPT !.pc = "serial"]
  OBVIOUS
<1>5. call' = [call EXCEPT ![c] = k] /\ ACall(k) /\ k.pc = "serial" /\ k.op = call[c].op /\ k.d = call[c].d
  BY <1>1, <1>2, <1>4 DEF ACall
<1>6. ~Looking(k) /\ ~Holding(k)
  BY <1>3, <1>5 DEF Looking, Holding, HeldSteps, P!Looks, P!Actions
<1>7. lock' \in [Serials -> Callers \cup {None}] /\ lock'[call[c].d] = c /\ (\A d \in Serials : lock'[d] = lock[d] \/ lock[d] = None)
  BY <1>1, <1>2 DEF FramesInv, FrameTypes
<1>8. CallerOK(c)'
  <2>1. call'[c] = k
    BY <1>5 DEF FramesInv, FrameTypes
  <2>2. WindowOK(k)'
    BY <1>1, <1>2, <1>3, <1>4, <1>5, CallerFields DEF Acts, ActOK, WindowOK, ACall
  <2>3. ActOK(c, k)'
    BY <1>5, <1>7, <2>2 DEF ActOK, ActSteps, HeldSteps, Holding
  <2> QED BY <1>2, <1>3, <1>5, <1>6, <2>1, <2>3 DEF CallerOK, LookOK, ActOK, Acts, Looking, Busy, ACall, Holding
<1>9. MirrorsOK'
  BY <1>1, <1>2, <1>5, MirrorsStay
<1> QED BY <1>1, <1>5, <1>6, <1>7, <1>8, <1>9, CallMoves

LEMMA FailActions ==
  ASSUME None \notin Callers, FramesInv, NEW c \in Callers, P!Fails(c)
  PROVE  FramesInv'
<1>1. /\ call[c].pc # "kill" /\ P!Ends(c) /\ UNCHANGED <<frames, sent, calls, inputs, mirrors, mirroring, screen, changes>>
  BY DEF P!Fails, P!device
<1>2. MirrorsOK'
  BY <1>1, MirrorsStay DEF P!Ends
<1> QED BY <1>1, <1>2, CallEnds

\* validateFrame: the number of the frame leaves the map for the input that took it.
LEMMA FrameIsTaken ==
  ASSUME None \notin Callers, FramesInv, NEW c \in Callers, P!ValidateFrame(c)
  PROVE  FramesInv'
<1>1. /\ call[c].pc = "frame" /\ UNCHANGED <<sent, calls, inputs, mirrors, mirroring, screen, changes>> /\ frames' = P!Taken(call[c].id)
      /\ frames' \subseteq frames
  BY DEF P!ValidateFrame, P!Taken, P!Live, P!device
<1>2. Busy(call[c]) /\ ACall(call[c]) /\ call[c].d \in Serials /\ call[c].pc # "kill" /\ call = [call EXCEPT ![c] = call[c]]
  BY <1>1, CallerFields DEF Busy
<1>3. CASE P!Ends(c)
  <2>1. MirrorsOK'
    BY <1>1, <1>2, <1>3, MirrorsStay DEF P!Ends
  <2> QED BY <1>1, <1>3, <2>1, CallEnds
<1>4. CASE ~P!Ends(c)
  <2>1. PICK f : f = P!Frame(call[c].id)
    OBVIOUS
  <2>2. /\ P!Known(call[c].id) /\ f.serial = call[c].d /\ lock' = lock
        /\ call' = [call EXCEPT ![c].pc = "check", ![c].frame = f]
    BY <1>4, <2>1 DEF P!ValidateFrame
  <2>3. f \in frames /\ f.id = call[c].id
    BY <2>1, <2>2 DEF P!Known, P!Frame, P!Live
  <2>4. PICK k : k = [call[c] EXCEPT !.pc = "check", !.frame = f]
    OBVIOUS
  <2>5. call' = [call EXCEPT ![c] = k]
    BY <1>2, <2>2, <2>4 DEF ACall
  <2>6. ACall(k) /\ k.pc = "check" /\ k.op = call[c].op /\ k.d = call[c].d /\ k.frame = f
    BY <1>2, <2>4 DEF ACall
  <2>7. call[c].op \in P!Actions /\ lock[call[c].d] = c
    BY <1>1, <1>2, CallerFields DEF LookOK, LookSteps, Acts, ActOK
  <2>8. ~Looking(k) /\ Holding(k) /\ call'[c] = k
    BY <2>5, <2>6, <2>7 DEF Looking, Holding, HeldSteps, P!Looks, P!Actions, FramesInv, FrameTypes
  <2>9. CallerOK(c)'
    <3>1. k.moved = 0
      BY <1>1, <1>2, <2>4, <2>7, CallerFields DEF Acts, ActOK, WindowOK, ACall
    <3>2. ActOK(c, k)'
      BY <2>2, <2>6, <2>7, <3>1 DEF ActOK, ActSteps, HeldSteps, Holding, WindowOK
    <3> QED BY <1>2, <2>6, <2>7, <2>8, <3>2 DEF CallerOK, LookOK, ActOK, Acts, Looking, Busy, ACall, Holding
  <2>10. \A e \in Callers : CallerOK(e)'
    BY <1>1, <2>2, <2>5, <2>9, OthersKeep
  <2>11. PICK p, q : p = <<"frame", f>> /\ q = <<"held", c>>
    OBVIOUS
  <2>12. p \in Places /\ Number(p) = f.id /\ Number(q)' = f.id
    BY <2>3, <2>6, <2>8, <2>11 DEF Places, Number
  <2>13. ASSUME NEW r \in Places', r # q PROVE r \in Places \ {p} /\ Number(r)' = Number(r)
    <3>1. CASE \E g \in frames' : r = <<"frame", g>> /\ Number(r)' = g.id
      BY <1>1, <2>3, <2>11, <3>1 DEF Places, Number, P!Taken
    <3>2. CASE \E x \in sent' : r = <<"sent", x>> /\ Number(r)' = x.frame.id
      BY <1>1, <2>11, <3>2 DEF Places, Number
    <3>3. CASE r \in Places /\ r[1] \in {"look", "held"} /\ Number(r)' = Number(r)
      BY <2>11, <3>3
    <3> QED BY <2>5, <2>8, <2>11, <2>13, <3>1, <3>2, <3>3, PlacesAfter
  <2>14. OncePlaced'
    BY <1>1, <2>12, <2>13, PlaceMoves DEF FramesInv
  <2>15. MirrorsOK'
    BY <1>1, <1>2, <2>5, MirrorsStay
  <2>16. FrameTypes'
    BY <1>1, <2>2, <2>5 DEF FramesInv, FrameTypes
  <2> QED BY <1>1, <2>10, <2>14, <2>15, <2>16 DEF FramesInv, P!NobodyBetween, P!OnWhatWasSeen
<1> QED BY <1>3, <1>4

\* An input goes out, and reaches the device at once, or adb has failed of it.
LEMMA InputGoes ==
  ASSUME None \notin Callers, FramesInv, NEW c \in Callers, P!Send(c) \/ P!SendFails(c), sent' # sent
  PROVE  FramesInv'
<1>1. call[c].pc = "send" /\ UNCHANGED <<frames, calls, mirrors, mirroring, screen, changes>> /\ P!Ends(c)
  BY DEF P!Send, P!SendFails, P!device
<1>2. Busy(call[c]) /\ ACall(call[c]) /\ call[c].d \in Serials /\ call[c].pc # "kill" /\ Holding(call[c])
  BY <1>1, CallerFields DEF Busy, Holding, HeldSteps
<1>3. Acts(call[c]) /\ ActOK(c, call[c])
  BY <1>1, <1>2, CallerFields DEF LookOK, LookSteps
<1>4. FrameTypes
  BY DEF FramesInv
<1>5. PICK x : x = P!Out(c)
  OBVIOUS
<1>6. /\ sent' = sent \cup {x} /\ inputs' = [d \in Serials |-> [landed |-> inputs'[d].landed, late |-> inputs'[d].late]]
      /\ \A d \in Serials \ {call[c].d} : inputs'[d] = inputs[d]
  BY <1>2, <1>4, <1>5 DEF P!Send, P!SendFails, FrameTypes
<1>7. call' = [call EXCEPT ![c] = P!Idle] /\ call'[c] = P!Idle /\ lock' = [d \in Serials |-> IF lock[d] = c THEN None ELSE lock[d]]
  BY <1>1, <1>4 DEF P!Ends, P!Unlocked, FrameTypes
<1>8. P!Idle.pc = "idle"
  BY DEF P!Idle
<1>9. CallerOK(c)' /\ ~Looking(P!Idle) /\ ~Holding(P!Idle)
  BY <1>7, <1>8 DEF CallerOK, LookOK, ActOK, Looking, Acts, Busy, Holding, HeldSteps
<1>10. /\ lock' \in [Serials -> Callers \cup {None}] /\ \A d \in Serials : lock[d] # c => lock'[d] = lock[d]
  BY <1>4, <1>7 DEF FrameTypes
<1>11. \A d \in Serials : lock[d] # c => inputs'[d] = inputs[d]
  BY <1>1, <1>3, <1>4, <1>6 DEF ActOK, FrameTypes
<1>12. \A e \in Callers : CallerOK(e)'
  BY <1>1, <1>7, <1>9, <1>10, <1>11, OthersKeep
<1>13. PICK p, q : p = <<"held", c>> /\ q = <<"sent", x>>
  OBVIOUS
<1>14. p \in Places /\ Number(p) = call[c].frame.id /\ Number(q)' = call[c].frame.id
  BY <1>2, <1>5, <1>13 DEF Places, Number, P!Out
<1>15. ASSUME NEW r \in Places', r # q PROVE r \in Places \ {p} /\ Number(r)' = Number(r)
  <2>1. CASE \E g \in frames' : r = <<"frame", g>> /\ Number(r)' = g.id
    BY <1>1, <1>13, <2>1 DEF Places, Number
  <2>2. CASE \E y \in sent' : r = <<"sent", y>> /\ Number(r)' = y.frame.id
    BY <1>6, <1>13, <1>15, <2>2 DEF Places, Number
  <2>3. CASE r \in Places /\ r \notin {<<"look", c>>, <<"held", c>>} /\ Number(r)' = Number(r)
    BY <1>13, <2>3
  <2> QED BY <1>7, <1>9, <2>1, <2>2, <2>3, PlacesAfter
<1>16. OncePlaced'
  BY <1>1, <1>14, <1>15, PlaceMoves DEF FramesInv
<1>17. MirrorsOK'
  BY <1>1, <1>2, <1>7, MirrorsStay
<1>18. P!NobodyBetween'
  <2>1. SinceLook(call[c])
    BY <1>1, <1>3 DEF ActOK, HeldSteps
  <2>2. x.between \subseteq x.strays
    BY <1>5, <2>1 DEF SinceLook, P!Out
  <2> QED BY <1>6, <2>2 DEF FramesInv, P!NobodyBetween
<1>19. P!OnWhatWasSeen'
  <2>1. x.d = x.frame.serial /\ x.op \in P!Actions
    BY <1>2, <1>3, <1>5 DEF ActOK, Acts, P!Out
  <2>2. x.op = "act" => x.seen = x.frame.shot
    BY <1>1, <1>3, <1>5 DEF ActOK, P!Out
  <2>3. x.op = "select" => /\ x.seen.turn = x.frame.turn /\ P!Resolved(x.seen)
                           /\ x.seen.window = x.frame.window \/ x.moved >= 2
    BY <1>1, <1>3, <1>5 DEF ActOK, WindowOK, P!Out
  <2> QED BY <1>6, <2>1, <2>2, <2>3 DEF FramesInv, P!OnWhatWasSeen, P!Actions, P!Resolved
<1>20. FrameTypes'
  BY <1>1, <1>4, <1>6, <1>7, <1>10 DEF FrameTypes
<1> QED BY <1>12, <1>16, <1>17, <1>18, <1>19, <1>20 DEF FramesInv

\* An input of which adb fails, and which went nowhere.
LEMMA InputFails ==
  ASSUME None \notin Callers, FramesInv, NEW c \in Callers, P!Send(c) \/ P!SendFails(c), sent' = sent
  PROVE  FramesInv'
<1>1. /\ call[c].pc = "send" /\ UNCHANGED <<frames, calls, mirrors, mirroring, screen, changes>> /\ P!Ends(c)
      /\ P!Out(c) \in sent \/ UNCHANGED inputs
  BY DEF P!Send, P!SendFails, P!device
<1>2. Busy(call[c]) /\ call[c].pc # "kill" /\ Holding(call[c])
  BY <1>1, CallerFields DEF Busy, Holding, HeldSteps
<1>3. P!Out(c) \notin sent
  <2>1. SUFFICES ASSUME P!Out(c) \in sent PROVE FALSE
    OBVIOUS
  <2>2. PICK p, q : p = <<"sent", P!Out(c)>> /\ q = <<"held", c>>
    OBVIOUS
  <2>3. p \in Places /\ q \in Places /\ Number(p) = Number(q)
    BY <1>2, <2>1, <2>2 DEF Places, Number, P!Out
  <2> QED BY <2>2, <2>3 DEF FramesInv, OncePlaced
<1>4. MirrorsOK'
  BY <1>1, <1>2, MirrorsStay DEF P!Ends
<1> QED BY <1>1, <1>3, <1>4, CallEnds

\* A call begins: a look with a number nobody has had, an input with none.
LEMMA CallOpens ==
  ASSUME None \notin Callers, FramesInv, NEW c \in Callers, NEW op, NEW d \in Serials, NEW id, NEW pc, P!Ask(c, op, d, id, pc),
         (op \in P!Looks /\ pc = "serial") \/ (op \in P!Actions /\ pc = "lock"),
         frames' = frames, lock' = lock, UNCHANGED <<sent, inputs, mirrors, mirroring, screen, changes>>
  PROVE  FramesInv'
<1>1. FrameTypes /\ OncePlaced
  BY DEF FramesInv
<1>2. PICK n : n = calls + 1
  OBVIOUS
<1>3. n \in Nat /\ n > calls /\ calls' = n /\ call[c].pc = "idle" /\ call[c].pc # "kill"
  BY <1>1, <1>2 DEF P!Ask, FrameTypes
<1>4. PICK k : k = [pc |-> pc, n |-> n, op |-> op, d |-> d, id |-> id, seen |-> None, frame |-> None, at |-> None, moved |-> 0]
  OBVIOUS
<1>5. call' = [call EXCEPT ![c] = k] /\ call'[c] = k
  BY <1>1, <1>2, <1>4 DEF P!Ask, FrameTypes
<1>6. ACall(k) /\ k.pc = pc /\ k.n = n /\ k.op = op /\ k.d = d /\ k.moved = 0
  BY <1>4 DEF ACall
<1>7. ~Holding(k)
  BY <1>6 DEF Holding, HeldSteps
<1>8. CallerOK(c)'
  <2>1. CASE op \in P!Looks /\ pc = "serial"
    <3>1. ~Acts(k)
      BY <1>6, <2>1 DEF Acts, P!Looks, P!Actions
    <3> QED BY <1>3, <1>5, <1>6, <1>7, <2>1, <3>1 DEF CallerOK, LookOK, ActOK, Acts, Looking, Busy, ACall, LookSteps
  <2>2. CASE op \in P!Actions /\ pc = "lock"
    <3>1. ~Looking(k)
      BY <1>6, <2>2 DEF Looking, P!Looks, P!Actions
    <3>2. ActOK(c, k)'
      BY <1>6, <1>7, <2>2 DEF ActOK, ActSteps, HeldSteps, Holding, WindowOK
    <3> QED BY <1>5, <1>6, <2>2, <3>1, <3>2 DEF CallerOK, LookOK, ActOK, Acts, Looking, Busy, ACall, Holding
  <2> QED BY <2>1, <2>2
<1>9. \A e \in Callers : CallerOK(e)'
  BY <1>5, <1>8, OthersKeep
<1>10. PICK q : q = <<"look", c>>
  OBVIOUS
<1>11. q \notin Places
  BY <1>3, <1>10 DEF Places, Looking, Busy
<1>12. ASSUME NEW r \in Places', r # q PROVE r \in Places /\ Number(r)' = Number(r)
  <2>1. CASE \E g \in frames' : r = <<"frame", g>> /\ Number(r)' = g.id
    BY <2>1 DEF Places, Number
  <2>2. CASE \E y \in sent' : r = <<"sent", y>> /\ Number(r)' = y.frame.id
    BY <2>2 DEF Places, Number
  <2> QED BY <1>5, <1>7, <1>10, <1>12, <2>1, <2>2, PlacesAfter
<1>13. Number(q)' = calls + 1
  BY <1>2, <1>5, <1>6, <1>10 DEF Number
<1>14. OncePlaced'
  BY <1>1, <1>2, <1>3, <1>11, <1>12, <1>13, PlaceOpens DEF FrameTypes
<1>15. MirrorsOK'
  BY <1>3, <1>5, MirrorsStay
<1>16. FrameTypes'
  BY <1>1, <1>3, <1>5 DEF FrameTypes
<1> QED BY <1>9, <1>14, <1>15, <1>16 DEF FramesInv, P!NobodyBetween, P!OnWhatWasSeen

\* The mirror: it starts, it is taken out of the map to be killed, it is killed.
LEMMA MirrorStarts ==
  ASSUME None \notin Callers, None \notin Nat, FramesInv, NEW c \in Callers, P!Mirror(c)
  PROVE  FramesInv'
<1>1. call[c].pc = "start" /\ UNCHANGED <<frames, sent, calls, inputs, screen, changes>> /\ P!Ends(c)
  BY DEF P!Mirror, P!device
<1>2. call[c].d \in Serials /\ call[c].n \in Nat /\ MirrorsOK
  BY <1>1, CallerFields DEF Busy, LookOK, ActOK, ActSteps, HeldSteps, FramesInv
<1>3. call'  = [call EXCEPT ![c] = P!Idle] /\ \A e \in Callers : call[e].pc = "kill" => call'[e] = call[e]
  BY <1>1 DEF P!Ends, FramesInv, FrameTypes
<1>4. CASE UNCHANGED <<mirrors, mirroring>>
  BY <1>1, <1>3, <1>4, MirrorsStay, CallEnds
<1>5. CASE ~UNCHANGED <<mirrors, mirroring>>
  <2>1. PICK d, n : d = call[c].d /\ n = call[c].n
    OBVIOUS
  <2>2. mirrors[d] = None /\ mirrors' = [mirrors EXCEPT ![d] = n] /\ mirroring' = mirroring \cup {[d |-> d, n |-> n, left |-> FALSE]}
    BY <1>5, <2>1 DEF P!Mirror
  <2>3. /\ mirrors' = [e \in Serials |-> mirrors'[e]] /\ (\A e \in Serials : mirrors'[e] \in Nat \cup {None})
        /\ mirrors'[d] = n /\ (\A e \in Serials \ {d} : mirrors'[e] = mirrors[e]) /\ mirroring' \subseteq [d : Serials, n : Nat, left : BOOLEAN]
    <3>1. [d |-> d, n |-> n, left |-> FALSE] \in [d : Serials, n : Nat, left : BOOLEAN]
      BY <1>2, <2>1
    <3>2. mirroring \subseteq [d : Serials, n : Nat, left : BOOLEAN]
      BY <1>2 DEF MirrorsOK
    <3> QED BY <1>2, <2>1, <2>2, <3>1, <3>2 DEF MirrorsOK
  <2>4. P!MirrorsAreKept'
    <3> SUFFICES ASSUME NEW p \in mirroring'
                 PROVE  p.left \/ mirrors'[p.d] = p.n \/ \E e \in Callers : call'[e].pc = "kill" /\ call'[e].d = p.d /\ call'[e].n = p.n
      BY DEF P!MirrorsAreKept
    <3>1. CASE p = [d |-> d, n |-> n, left |-> FALSE]
      BY <2>3, <3>1
    <3>2. CASE p \in mirroring
      <4>1. p.d \in Serials /\ p.n \in Nat
        BY <1>2, <3>2 DEF MirrorsOK
      <4>2. p.left \/ mirrors[p.d] = p.n \/ \E e \in Callers : call[e].pc = "kill" /\ call[e].d = p.d /\ call[e].n = p.n
        BY <1>2, <3>2 DEF MirrorsOK, P!MirrorsAreKept
      <4>3. CASE mirrors[p.d] = p.n
        BY <2>2, <2>3, <4>1, <4>3
      <4>4. CASE \E e \in Callers : call[e].pc = "kill" /\ call[e].d = p.d /\ call[e].n = p.n
        BY <1>3, <4>4
      <4>5. CASE p.left
        BY <4>5
      <4> QED BY <4>2, <4>3, <4>4, <4>5
    <3> QED BY <2>2, <3>1, <3>2
  <2>5. MirrorsOK'
    BY <2>3, <2>4 DEF MirrorsOK
  <2> QED BY <1>1, <2>5, CallEnds
<1> QED BY <1>4, <1>5

LEMMA MirrorStops ==
  ASSUME None \notin Callers, FramesInv, NEW c \in Callers, NEW d \in Serials, P!Unmirror(c, d)
  PROVE  FramesInv'
<1>1. FrameTypes /\ OncePlaced /\ MirrorsOK
  BY DEF FramesInv
<1>2. PICK k, n : k = [pc |-> "kill", d |-> d, n |-> mirrors[d]] /\ n = calls + 1
  OBVIOUS
<1>3. /\ call[c].pc = "idle" /\ calls' = n /\ call' = [call EXCEPT ![c] = k] /\ mirrors' = [mirrors EXCEPT ![d] = None]
      /\ frames' = frames /\ lock' = lock /\ UNCHANGED <<mirroring, inputs, sent, screen, changes>>
  BY <1>2 DEF P!Unmirror, P!device
<1>4. n \in Nat /\ calls <= n /\ calls \in Nat
  BY <1>1, <1>2 DEF FrameTypes
<1>5. k.pc = "kill" /\ k.d = d /\ k.n = mirrors[d] /\ ~Busy(k) /\ ~Looking(k) /\ ~Holding(k) /\ ~Acts(k)
  BY <1>2 DEF Busy, Looking, Holding, Acts, HeldSteps
<1>6. call'[c] = k /\ \A e \in Callers \ {c} : call'[e] = call[e]
  BY <1>1, <1>3 DEF FrameTypes
<1>7. \A e \in Callers : CallerOK(e)'
  <2>1. CallerOK(c)'
    BY <1>5, <1>6 DEF CallerOK, LookOK, ActOK, Acts, Looking, Busy
  <2> QED BY <1>3, <2>1, OthersKeep
<1>8. ASSUME NEW r \in Places' PROVE r \in Places /\ Number(r)' = Number(r)
  <2>1. CASE \E g \in frames' : r = <<"frame", g>> /\ Number(r)' = g.id
    BY <1>3, <2>1 DEF Places, Number
  <2>2. CASE \E y \in sent' : r = <<"sent", y>> /\ Number(r)' = y.frame.id
    BY <1>3, <2>2 DEF Places, Number
  <2> QED BY <1>3, <1>5, <1>8, <2>1, <2>2, PlacesAfter
<1>9. OncePlaced'
  BY <1>1, <1>3, <1>4, <1>8, PlacesStay
<1>10. /\ mirrors' = [e \in Serials |-> mirrors'[e]] /\ (\A e \in Serials : mirrors'[e] \in Nat \cup {None})
       /\ (\A e \in Serials \ {d} : mirrors'[e] = mirrors[e]) /\ mirroring' \subseteq [d : Serials, n : Nat, left : BOOLEAN]
  BY <1>1, <1>3 DEF MirrorsOK
<1>11. P!MirrorsAreKept'
  <2> SUFFICES ASSUME NEW p \in mirroring
               PROVE  p.left \/ mirrors'[p.d] = p.n \/ \E e \in Callers : call'[e].pc = "kill" /\ call'[e].d = p.d /\ call'[e].n = p.n
    BY <1>3 DEF P!MirrorsAreKept
  <2>1. p.d \in Serials
    BY <1>1 DEF MirrorsOK
  <2>2. p.left \/ mirrors[p.d] = p.n \/ \E e \in Callers : call[e].pc = "kill" /\ call[e].d = p.d /\ call[e].n = p.n
    BY <1>1 DEF MirrorsOK, P!MirrorsAreKept
  <2>3. CASE mirrors[p.d] = p.n /\ p.d # d
    BY <1>10, <2>1, <2>3
  <2>4. CASE mirrors[p.d] = p.n /\ p.d = d
    BY <1>5, <1>6, <2>1, <2>4
  <2>5. CASE \E e \in Callers : call[e].pc = "kill" /\ call[e].d = p.d /\ call[e].n = p.n
    BY <1>3, <1>6, <2>5
  <2>6. CASE p.left
    BY <2>6
  <2> QED BY <2>2, <2>3, <2>4, <2>5, <2>6
<1>12. MirrorsOK'
  BY <1>10, <1>11 DEF MirrorsOK
<1>13. FrameTypes'
  BY <1>1, <1>3, <1>4 DEF FrameTypes
<1> QED BY <1>3, <1>7, <1>9, <1>12, <1>13 DEF FramesInv, P!NobodyBetween, P!OnWhatWasSeen

LEMMA MirrorDies ==
  ASSUME None \notin Callers, FramesInv, NEW c \in Callers, P!Kill(c)
  PROVE  FramesInv'
<1>1. PICK old : old = [d |-> call[c].d, n |-> call[c].n, left |-> FALSE]
  OBVIOUS
<1>2. /\ call[c].pc = "kill" /\ UNCHANGED <<frames, sent, calls, inputs, mirrors, screen, changes>> /\ P!Ends(c)
      /\ old \notin mirroring' /\ \A p \in mirroring' : p \in mirroring \/ (old \in mirroring /\ p = [old EXCEPT !.left = TRUE])
  BY <1>1 DEF P!Kill, P!device
<1>3. \A e \in Callers \ {c} : call'[e] = call[e]
  BY <1>2 DEF P!Ends, FramesInv, FrameTypes
<1>4. MirrorsOK
  BY DEF FramesInv
<1>5. mirroring' \subseteq [d : Serials, n : Nat, left : BOOLEAN]
  BY <1>1, <1>2, <1>4 DEF MirrorsOK
<1>6. P!MirrorsAreKept'
  <2> SUFFICES ASSUME NEW p \in mirroring', ~p.left
               PROVE  mirrors'[p.d] = p.n \/ \E e \in Callers : call'[e].pc = "kill" /\ call'[e].d = p.d /\ call'[e].n = p.n
    BY DEF P!MirrorsAreKept
  <2>1. p \in mirroring /\ p = [d |-> p.d, n |-> p.n, left |-> FALSE] /\ p # old
    BY <1>1, <1>2, <1>5
  <2>2. mirrors[p.d] = p.n \/ \E e \in Callers : call[e].pc = "kill" /\ call[e].d = p.d /\ call[e].n = p.n
    BY <1>4, <2>1 DEF MirrorsOK, P!MirrorsAreKept
  <2>3. ~(call[c].d = p.d /\ call[c].n = p.n)
    BY <1>1, <2>1
  <2> QED BY <1>2, <1>3, <2>2, <2>3
<1>7. MirrorsOK'
  BY <1>2, <1>4, <1>5, <1>6 DEF MirrorsOK
<1> QED BY <1>2, <1>7, CallEnds

LEMMA FramesNext ==
  ASSUME None \notin Callers, None \notin Nat, FramesInv, [P!Next]_P!vars
  PROVE  FramesInv'
<1>1. CASE \/ P!Tick \/ (\E d \in Serials : P!Redraw(d) \/ P!Relink(d) \/ \E n \in 1 .. calls : P!Lands(d, n))
           \/ (\E p \in mirroring : P!Exits(p)) \/ UNCHANGED P!vars
  <2>1. /\ UNCHANGED <<frames, lock, call, sent, calls, mirrors>> /\ mirroring' \subseteq mirroring
        /\ changes' = changes + 1 \/ UNCHANGED <<screen, changes>>
        /\ UNCHANGED inputs \/ \E d \in Serials : \E n : P!Lands(d, n)
    BY <1>1 DEF P!Tick, P!Redraw, P!Relink, P!Exits, P!Lands, P!Changes, P!vars
  <2> QED BY <2>1, DeviceMoves
<1>2. ASSUME NEW c \in Callers, NEW d \in Serials, P!Unmirror(c, d) PROVE FramesInv'
  BY <1>2, MirrorStops
<1>3. ASSUME NEW c \in Callers, NEW d \in Serials, NEW op \in P!Looks, P!Look(c, op, d) PROVE FramesInv'
  <2>1. P!Ask(c, op, d, 0, "serial") /\ frames' = frames /\ lock' = lock /\ UNCHANGED <<sent, inputs, mirrors, mirroring, screen, changes>>
    BY <1>3 DEF P!Look, P!device
  <2> QED BY <1>3, <2>1, CallOpens
<1>4. ASSUME NEW c \in Callers, NEW d \in Serials, NEW op \in P!Actions, NEW id \in 1 .. calls, P!Act(c, op, d, id) PROVE FramesInv'
  <2>1. P!Ask(c, op, d, id, "lock") /\ frames' = frames /\ lock' = lock /\ UNCHANGED <<sent, inputs, mirrors, mirroring, screen, changes>>
    BY <1>4 DEF P!Act, P!device
  <2> QED BY <1>4, <2>1, CallOpens
<1>5. ASSUME NEW c \in Callers,
             \/ P!SelectHelper(c) \/ \E ok \in BOOLEAN : P!ProbeHelper(c, ok)
             \/ P!Capture(c) \/ P!Note(c) \/ P!FocusedWindow(c) \/ P!DumpHierarchy(c)
      PROVE  FramesInv'
  BY <1>5, LookActions
<1>6. ASSUME NEW c \in Callers, P!Recapture(c) \/ P!SameWindow(c) \/ P!Resolve(c) PROVE FramesInv'
  BY <1>6, CheckActions
<1>7. ASSUME NEW c \in Callers,
             P!ActionLock(c) \/ P!Fails(c) \/ P!Serial(c) \/ P!ValidateFrame(c) \/ P!Send(c) \/ P!SendFails(c) \/ P!Mirror(c) \/ P!Kill(c)
      PROVE  FramesInv'
  BY <1>7, LockActions, FailActions, SerialActions, FrameIsTaken, InputGoes, InputFails, MirrorStarts, MirrorDies
<1> QED BY <1>1, <1>2, <1>3, <1>4, <1>5, <1>6, <1>7 DEF P!Next

LEMMA FramesInit == ASSUME P!Init PROVE FramesInv
<1>1. /\ call = [c \in Callers |-> P!Idle] /\ frames = {} /\ sent = {} /\ mirroring = {} /\ calls = 0
      /\ mirrors = [d \in Serials |-> None] /\ lock = [d \in Serials |-> None] /\ changes = 0
      /\ inputs = [d \in Serials |-> [landed |-> {}, late |-> {}]]
  BY DEF P!Init
<1>2. \A c \in Callers : call[c].pc = "idle"
  BY <1>1 DEF P!Idle
<1>3. Places = {}
  BY <1>1, <1>2 DEF Places, Looking, Busy, Holding, HeldSteps
<1>4. \A c \in Callers : CallerOK(c)
  BY <1>2 DEF CallerOK, LookOK, ActOK, Looking, Acts, Busy
<1>5. FrameTypes /\ MirrorsOK
  BY <1>1 DEF FrameTypes, MirrorsOK, P!MirrorsAreKept
<1> QED BY <1>1, <1>3, <1>4, <1>5 DEF FramesInv, OncePlaced, P!NobodyBetween, P!OnWhatWasSeen

LEMMA FramesByInvariant == ASSUME FramesInv PROVE P!ActsOnWhatWasSeen
<1>1. ASSUME NEW x \in sent, NEW y \in sent, x.frame.id = y.frame.id PROVE x = y
  <2>1. PICK p, q : p = <<"sent", x>> /\ q = <<"sent", y>>
    OBVIOUS
  <2>2. p \in Places /\ q \in Places /\ Number(p) = Number(q)
    BY <1>1, <2>1 DEF Places, Number
  <2>3. p = q
    BY <2>2 DEF FramesInv, OncePlaced
  <2> QED BY <2>1, <2>3
<1> QED BY <1>1 DEF FramesInv, MirrorsOK, P!ActsOnWhatWasSeen, P!OneInputPerFrame

LEMMA FramesHold == ASSUME None \notin Callers, None \notin Nat PROVE P!Spec => []P!ActsOnWhatWasSeen
<1>1. P!Spec => []FramesInv
  BY FramesInit, FramesNext, PTL DEF P!Spec
<1> QED BY <1>1, FramesByInvariant, PTL

-----------------------------------------------------------------------------
(* Search: what the local runner opens, and what it does not leave out. *)

Opening(o) == o = [at |-> o.at, path |-> o.path, info |-> o.info, root |-> o.root] /\ o.path \in E!Paths
SearchTypes ==
  /\ dir \in E!Entry(E!Dirs) /\ files \in [E!Dirs -> [E!Paths -> E!Entry(E!Nodes)]]
  /\ plain = [dirs |-> plain.dirs, files |-> plain.files] /\ Opening(opening)
\* What there is has been seen where it is, and what was looked at was there.
Seen ==
  /\ E!Plain(dir) => dir.to \in plain.dirs
  /\ \A d \in E!Dirs, p \in E!Paths : E!Plain(files[d][p]) => <<d, p, files[d][p].to>> \in plain.files
  /\ opening.at = "opening directory" => opening.info \in plain.dirs \cap E!Dirs
  /\ opening.at \in {"name", "opening name"} => opening.root \in plain.dirs \cap E!Dirs
  /\ opening.at = "opening name" => <<opening.root, opening.path, opening.info>> \in plain.files
  /\ engine = "local" => \A m \in found : m \in plain.files /\ m[1] \in plain.dirs
\* A file nobody touched is found, or still to be visited, or in hand.
Found(p) == \E m \in found : m[2] = p
Listed(p) == p \in DOMAIN entries /\ entries[p] = TRUE
InHand(p) == /\ opening.path = p
             /\ opening.at = "opening directory" => opening.info = "home"
             /\ opening.at \in {"name", "opening name"} => opening.root = "home"
             /\ opening.at = "opening name" => opening.info = files["home"][p].to
NotLost(p) ==
  /\ dir = [to |-> "home", link |-> FALSE] /\ E!Plain(files["home"][p])
  /\ stage = "root" /\ left = 0 => Found(p)
  /\ stage = "visiting" => Found(p) \/ Listed(p)
  /\ stage = "reading" => Found(p) \/ Listed(p) \/ InHand(p)
  /\ outcome.verdict = "ok" => Found(p)
NoneLost == engine = "local" => \A p \in E!Paths \ touched : NotLost(p)
Told == /\ missed => cut
        /\ outcome.verdict = "ok" => stage = "done" /\ (missed => outcome.partial)
SearchInv == SearchTypes /\ Seen /\ Told /\ NoneLost

LEMMA SearchEntries ==
  /\ E!Gone \in E!Entry(E!Dirs) /\ E!Gone \in E!Entry(E!Nodes) /\ Opening(E!NotReading) /\ E!NotReading.at = "nowhere"
  /\ \A entry : E!Plain(entry) => ~entry.link /\ entry # E!Gone /\ entry # E!Outside
  /\ \A entry \in E!Entry(E!Dirs) : entry \notin {E!Gone, E!Outside} => entry.to \in E!Dirs
<1>1. /\ E!Gone \in E!Entry(E!Dirs) /\ E!Gone \in E!Entry(E!Nodes)
  BY DEF E!Entry
<1>2. Opening(E!NotReading) /\ E!NotReading.at = "nowhere"
  BY DEF E!NotReading, E!Paths, Opening
<1>3. \A entry : E!Plain(entry) => ~entry.link /\ entry # E!Gone /\ entry # E!Outside
  BY DEF E!Plain, E!Outside
<1>4. \A entry \in E!Entry(E!Dirs) : entry \notin {E!Gone, E!Outside} => entry.to \in E!Dirs
  BY DEF E!Entry
<1> QED BY <1>1, <1>2, <1>3, <1>4

\* Somebody changes what is being searched.
LEMMA Swapped ==
  ASSUME SearchInv,
         (\E d \in E!Dirs, p \in E!Paths, entry \in E!Entry(E!Nodes) : E!SwapFile(d, p, entry))
           \/ \E entry \in E!Entry(E!Dirs) : E!SwapDir(entry)
  PROVE  SearchInv'
<1>1. SearchTypes /\ Seen /\ Told /\ NoneLost
  BY DEF SearchInv
<1>2. ASSUME NEW entry \in E!Entry(E!Dirs), E!SwapDir(entry) PROVE SearchInv'
  <2>1. /\ dir' = entry /\ touched' = touched \cup E!Paths /\ stage # "done"
        /\ UNCHANGED <<engine, files, stage, left, entries, opening, found, cut, outcome, missed>>
    BY <1>2 DEF E!SwapDir
  <2>2. plain' = IF E!Plain(entry) THEN [plain EXCEPT !.dirs = plain.dirs \cup {entry.to}] ELSE plain
    BY <1>2 DEF E!SwapDir
  <2>3. /\ plain' = [dirs |-> plain'.dirs, files |-> plain'.files] /\ plain.dirs \subseteq plain'.dirs /\ plain'.files = plain.files
        /\ E!Plain(entry) => entry.to \in plain'.dirs
    BY <1>1, <2>2 DEF SearchTypes
  <2>4. SearchTypes'
    BY <1>1, <2>1, <2>3 DEF SearchTypes, Opening
  <2>5. Seen'
    BY <1>1, <2>1, <2>3 DEF Seen, E!Plain
  <2>6. NoneLost' /\ Told'
    BY <1>1, <2>1 DEF NoneLost, Told
  <2> QED BY <2>4, <2>5, <2>6 DEF SearchInv
<1>3. ASSUME NEW d \in E!Dirs, NEW p \in E!Paths, NEW entry \in E!Entry(E!Nodes), E!SwapFile(d, p, entry) PROVE SearchInv'
  <2>1. /\ touched' = touched \cup {p} /\ stage # "done" /\ files' = [files EXCEPT ![d] = [files[d] EXCEPT ![p] = entry]]
        /\ UNCHANGED <<engine, dir, stage, left, entries, opening, found, cut, outcome, missed>>
    BY <1>3 DEF E!SwapFile
  <2>2. plain' = IF E!Plain(entry) THEN [plain EXCEPT !.files = plain.files \cup {<<d, p, entry.to>>}] ELSE plain
    BY <1>3 DEF E!SwapFile
  <2>3. /\ plain' = [dirs |-> plain'.dirs, files |-> plain'.files] /\ plain.files \subseteq plain'.files /\ plain'.dirs = plain.dirs
        /\ E!Plain(entry) => <<d, p, entry.to>> \in plain'.files
    BY <1>1, <2>2 DEF SearchTypes
  <2>4. PICK inside : inside = [files[d] EXCEPT ![p] = entry]
    OBVIOUS
  <2>5. inside \in [E!Paths -> E!Entry(E!Nodes)] /\ inside[p] = entry /\ \A q \in E!Paths \ {p} : inside[q] = files[d][q]
    BY <1>1, <2>4 DEF SearchTypes
  <2>6. files' \in [E!Dirs -> [E!Paths -> E!Entry(E!Nodes)]] /\ files'[d] = inside /\ \A e \in E!Dirs \ {d} : files'[e] = files[e]
    BY <1>1, <2>1, <2>4, <2>5 DEF SearchTypes
  <2>7. /\ \A e \in E!Dirs, q \in E!Paths \ {p} : files'[e][q] = files[e][q]
        /\ \A e \in E!Dirs : files'[e][p] = files[e][p] \/ (e = d /\ files'[e][p] = entry)
    BY <2>5, <2>6
  <2>8. SearchTypes'
    BY <1>1, <2>1, <2>3, <2>6 DEF SearchTypes, Opening
  <2>9. ASSUME NEW e \in E!Dirs, NEW q \in E!Paths, E!Plain(files'[e][q]) PROVE <<e, q, files'[e][q].to>> \in plain'.files
    <3>1. CASE files'[e][q] = files[e][q]
      BY <1>1, <2>3, <2>9, <3>1 DEF Seen
    <3>2. CASE e = d /\ q = p /\ files'[e][q] = entry
      BY <2>3, <2>9, <3>2
    <3> QED BY <2>7, <3>1, <3>2
  <2>10. Seen'
    BY <1>1, <2>1, <2>3, <2>9 DEF Seen, E!Plain
  <2>11. ASSUME engine = "local", NEW q \in E!Paths \ touched' PROVE NotLost(q)'
    <3>1. q # p /\ q \in E!Paths \ touched
      BY <2>1
    <3>2. files'["home"][q] = files["home"][q]
      BY <2>7, <3>1 DEF E!Dirs
    <3>3. NotLost(q)
      BY <1>1, <2>11, <3>1 DEF NoneLost
    <3> QED BY <2>1, <3>2, <3>3 DEF NotLost, E!Plain, Found, Listed, InHand
  <2>12. NoneLost' /\ Told'
    BY <1>1, <2>1, <2>11 DEF NoneLost, Told
  <2> QED BY <2>8, <2>10, <2>12 DEF SearchInv
<1> QED BY <1>2, <1>3

\* What it means that the tree is left alone while the search goes on.
LEMMA SearchGoesOn ==
  ASSUME SearchInv, UNCHANGED <<engine, dir, files, touched, plain>>, Opening(opening)',
         opening'.at = "opening directory" => opening'.info \in plain.dirs \cap E!Dirs,
         opening'.at \in {"name", "opening name"} => opening'.root \in plain.dirs \cap E!Dirs,
         opening'.at = "opening name" => <<opening'.root, opening'.path, opening'.info>> \in plain.files,
         engine = "local" => \A m \in found' \ found : m \in plain.files /\ m[1] \in plain.dirs,
         engine = "local" => \A p \in E!Paths \ touched : NotLost(p)',
         Told'
  PROVE  SearchInv'
<1>1. SearchTypes /\ Seen
  BY DEF SearchInv
<1>2. SearchTypes'
  BY <1>1 DEF SearchTypes
<1>3. Seen'
  BY <1>1 DEF Seen, E!Plain
<1>4. NoneLost'
  BY DEF NoneLost
<1> QED BY <1>2, <1>3, <1>4 DEF SearchInv

\* The request ends without an answer, or with what it found.
LEMMA SearchEnds ==
  ASSUME SearchInv, E!Refuse \/ E!Finish \/ E!Stopped \/ E!ChildFails \/ E!ContextEnds \/ UNCHANGED E!vars
  PROVE  SearchInv'
<1>1. SearchTypes /\ Seen /\ Told /\ NoneLost
  BY DEF SearchInv
<1>2. CASE E!ContextEnds \/ UNCHANGED E!vars
  <2>1. UNCHANGED <<engine, dir, files, stage, left, entries, opening, found, cut, outcome, touched, plain, missed>>
    BY <1>2 DEF E!ContextEnds, E!vars, E!tree
  <2>2. Told' /\ (engine = "local" => \A p \in E!Paths \ touched : NotLost(p)')
    BY <1>1, <2>1 DEF Told, NoneLost, NotLost, Found, Listed, InHand, E!Plain
  <2> QED BY <1>1, <2>1, <2>2, SearchGoesOn DEF SearchTypes, Seen, Opening
<1>3. ASSUME stage' = "done", UNCHANGED <<engine, dir, files, touched, plain, left, opening, entries, found, cut, missed>>,
             outcome'.verdict = "ok" => outcome'.partial = cut,
             outcome'.verdict = "ok" /\ engine = "local" => \A p \in E!Paths \ touched : Found(p)
      PROVE  SearchInv'
  <2>1. Told'
    BY <1>1, <1>3 DEF Told
  <2>2. ASSUME NEW p \in E!Paths \ touched, engine = "local" PROVE NotLost(p)'
    <3>1. NotLost(p)
      BY <1>1, <2>2 DEF NoneLost
    <3> QED BY <1>3, <2>2, <3>1 DEF NotLost, E!Plain, Found
  <2> QED BY <1>1, <1>3, <2>1, <2>2, SearchGoesOn DEF SearchTypes, Seen, Opening
<1>4. CASE E!Refuse \/ E!Stopped \/ E!ChildFails
  <2>1. /\ stage' = "done" /\ UNCHANGED <<engine, dir, files, touched, plain, left, opening, entries, found, cut, missed>>
        /\ outcome'.verdict # "ok"
    BY <1>4 DEF E!Refuse, E!Stopped, E!ChildFails, E!Ends, E!tree
  <2> QED BY <1>3, <2>1
<1>5. CASE E!Finish
  <2>1. /\ stage' = "done" /\ UNCHANGED <<engine, dir, files, touched, plain, left, opening, entries, found, cut, missed>>
        /\ outcome'.partial = cut /\ stage = "root" /\ left = 0
    BY <1>5 DEF E!Finish, E!Ends, E!tree
  <2>2. engine = "local" => \A p \in E!Paths \ touched : Found(p)
    BY <1>1, <2>1 DEF NoneLost, NotLost
  <2> QED BY <1>3, <2>1, <2>2
<1> QED BY <1>2, <1>4, <1>5

\* The scopes are checked, a child is asked about one, a walk begins or ends.
LEMMA SearchScopes ==
  ASSUME SearchInv, (\E scopes \in 0 .. 2 : E!Begin(scopes)) \/ E!SearchOne \/ E!WalkEnds
  PROVE  SearchInv'
<1>1. SearchTypes /\ Seen /\ Told /\ NoneLost
  BY DEF SearchInv
<1>2. ASSUME NEW scopes \in 0 .. 2, E!Begin(scopes) PROVE SearchInv'
  <2>1. /\ UNCHANGED <<engine, dir, files, touched, plain, opening, entries, found, cut, missed>> /\ stage = "idle"
        /\ \/ stage' = "done" /\ left' = left /\ outcome'.verdict # "ok"
           \/ stage' = "root" /\ left' # 0 /\ outcome' = outcome
    <3>1. /\ UNCHANGED <<engine, dir, files, touched, plain, opening, entries, found, cut, missed>> /\ stage = "idle"
          /\ \/ stage' = "done" /\ left' = left /\ outcome'.verdict # "ok"
             \/ stage' = "root" /\ left' = (IF scopes = 0 THEN 1 ELSE scopes) /\ outcome' = outcome
      BY <1>2 DEF E!Begin, E!Ends, E!tree
    <3> QED BY <3>1
  <2>2. Told'
    BY <1>1, <2>1 DEF Told
  <2>3. ASSUME NEW p \in E!Paths \ touched, engine = "local" PROVE NotLost(p)'
    <3>1. NotLost(p)
      BY <1>1, <2>3 DEF NoneLost
    <3> QED BY <2>1, <3>1 DEF NotLost, E!Plain, Found
  <2> QED BY <1>1, <2>1, <2>2, <2>3, SearchGoesOn DEF SearchTypes, Seen, Opening
<1>3. CASE E!SearchOne
  <2>1. engine = "omp" /\ UNCHANGED <<engine, dir, files, touched, plain, entries, opening>> /\ stage = "root"
    BY <1>3 DEF E!SearchOne, E!tree
  <2>2. PICK report \in E!Reports :
          IF E!Coherent(report)
            THEN /\ found' = found \cup report.hits /\ cut' = (cut \/ report.limit) /\ left' = left - 1
                 /\ missed' = (missed \/ report.limit) /\ UNCHANGED <<stage, outcome>>
            ELSE E!Ends("unavailable", FALSE) /\ UNCHANGED <<left, found, cut, missed>>
    BY <1>3 DEF E!SearchOne
  <2>3. (missed' => cut') /\ (outcome'.verdict = "ok" => outcome' = outcome /\ stage' = stage)
    <3>1. missed => cut
      BY <1>1 DEF Told
    <3>2. CASE E!Coherent(report)
      <4>1. cut' = (cut \/ report.limit) /\ missed' = (missed \/ report.limit) /\ UNCHANGED <<stage, outcome>>
        BY <2>2, <3>2
      <4>2. missed' => missed \/ report.limit
        BY <4>1
      <4>3. cut \/ report.limit => cut'
        BY <4>1
      <4> QED BY <3>1, <4>1, <4>2, <4>3
    <3>3. CASE ~E!Coherent(report)
      BY <2>2, <3>1, <3>3 DEF E!Ends
    <3> QED BY <3>2, <3>3
  <2>4. Told'
    BY <1>1, <2>1, <2>3 DEF Told
  <2> QED BY <1>1, <2>1, <2>4, SearchGoesOn DEF SearchTypes, Seen, Opening
<1>4. CASE E!WalkEnds
  <2>1. /\ UNCHANGED <<engine, dir, files, touched, plain, opening, entries, found, cut, missed, outcome>>
        /\ stage = "visiting" /\ DOMAIN entries = {} /\ stage' = "root"
    BY <1>4 DEF E!WalkEnds, E!tree
  <2>2. Told'
    BY <1>1, <2>1 DEF Told
  <2>3. ASSUME NEW p \in E!Paths \ touched, engine = "local" PROVE NotLost(p)'
    <3>1. NotLost(p)
      BY <1>1, <2>3 DEF NoneLost
    <3> QED BY <2>1, <3>1 DEF NotLost, E!Plain, Found, Listed
  <2> QED BY <1>1, <2>1, <2>2, <2>3, SearchGoesOn DEF SearchTypes, Seen, Opening
<1> QED BY <1>2, <1>3, <1>4

\* A scope is walked, and what the walk listed visited: what nobody touched is
\* found, listed or in hand.
LEMMA SearchVisits ==
  ASSUME SearchInv, E!Walk \/ \E p \in E!Paths : E!Visit(p)
  PROVE  SearchInv'
<1>1. SearchTypes /\ Seen /\ Told /\ NoneLost
  BY DEF SearchInv
<1>2. CASE E!Walk
  <2>1. /\ UNCHANGED <<engine, dir, files, touched, plain, left, opening, found, cut, missed>> /\ stage = "root"
        /\ \/ dir = E!Gone /\ stage' = "done" /\ outcome'.verdict # "ok"
           \/ /\ stage' = "visiting" /\ outcome' = outcome
              /\ E!Plain(dir) => entries' = [p \in {q \in E!Paths : files[dir.to][q] # E!Gone} |-> E!Plain(files[dir.to][p])]
    BY <1>2 DEF E!Walk, E!Ends, E!tree
  <2>2. Told'
    BY <1>1, <2>1 DEF Told
  <2>3. ASSUME NEW p \in E!Paths \ touched, engine = "local" PROVE NotLost(p)'
    <3>1. NotLost(p)
      BY <1>1, <2>3 DEF NoneLost
    <3>2. dir.to = "home" /\ E!Plain(dir) /\ dir # E!Gone
      BY <3>1 DEF NotLost, E!Plain, E!Gone
    <3>3. E!Plain(files["home"][p]) /\ files["home"][p] # E!Gone
      BY <3>1 DEF NotLost, E!Plain
    <3>4. entries' = [r \in {q \in E!Paths : files["home"][q] # E!Gone} |-> E!Plain(files["home"][r])] /\ stage' = "visiting" /\ outcome' = outcome
      BY <2>1, <3>2
    <3>5. p \in DOMAIN entries' /\ entries'[p] = E!Plain(files["home"][p])
      BY <2>3, <3>3, <3>4
    <3>6. Listed(p)'
      BY <3>3, <3>5 DEF Listed, E!Plain
    <3> QED BY <2>1, <3>1, <3>4, <3>6 DEF NotLost, E!Plain, Found
  <2> QED BY <1>1, <2>1, <2>2, <2>3, SearchGoesOn DEF SearchTypes, Seen, Opening
<1>3. ASSUME NEW q \in E!Paths, E!Visit(q) PROVE SearchInv'
  <2>1. /\ UNCHANGED <<engine, dir, files, touched, plain, left, found, cut, missed, outcome>> /\ stage = "visiting"
        /\ entries' = [r \in DOMAIN entries \ {q} |-> entries[r]]
        /\ \/ stage' = "reading" /\ opening' = [E!NotReading EXCEPT !.at = "directory", !.path = q]
           \/ ~entries[q] /\ UNCHANGED <<stage, opening>>
    BY <1>3 DEF E!Visit, E!tree
  <2>2. Opening(opening)' /\ (opening' = opening \/ (opening'.at = "directory" /\ opening'.path = q))
    <3>1. CASE opening' = opening
      BY <1>1, <3>1 DEF SearchTypes, Opening
    <3>2. CASE opening' = [E!NotReading EXCEPT !.at = "directory", !.path = q]
      <4>1. opening' = [at |-> "directory", path |-> q, info |-> E!NotReading.info, root |-> E!NotReading.root]
        BY <3>2 DEF E!NotReading
      <4>2. opening'.at = "directory" /\ opening'.path = q /\ opening'.info = E!NotReading.info /\ opening'.root = E!NotReading.root
        BY <4>1
      <4>3. Opening(opening)'
        BY <4>1, <4>2 DEF Opening
      <4> QED BY <4>2, <4>3
    <3> QED BY <2>1, <3>1, <3>2
  <2>3. Told'
    BY <1>1, <2>1 DEF Told
  <2>4. ASSUME NEW p \in E!Paths \ touched, engine = "local" PROVE NotLost(p)'
    <3>1. NotLost(p)
      BY <1>1, <2>4 DEF NoneLost
    <3>2. p # q /\ Listed(p) => Listed(p)'
      BY <2>1 DEF Listed
    <3>3. p = q /\ Listed(p) => InHand(p)' /\ stage' = "reading"
      <4>1. SUFFICES ASSUME p = q, Listed(p) PROVE InHand(p)' /\ stage' = "reading"
        OBVIOUS
      <4>2. stage' = "reading" /\ opening' = [E!NotReading EXCEPT !.at = "directory", !.path = q]
        BY <2>1, <4>1 DEF Listed
      <4>3. opening'.at = "directory" /\ opening'.path = p
        BY <4>1, <4>2 DEF E!NotReading
      <4> QED BY <4>2, <4>3 DEF InHand
    <3>4. stage' \in {"visiting", "reading"}
      BY <2>1
    <3>5. (Found(p) <=> Found(p)') /\ (outcome' = outcome) /\ dir' = dir /\ files' = files
      BY <2>1 DEF Found
    <3>6. Found(p)' \/ Listed(p)' \/ (InHand(p)' /\ stage' = "reading")
      BY <2>1, <3>1, <3>2, <3>3, <3>5 DEF NotLost
    <3> QED BY <3>1, <3>4, <3>5, <3>6 DEF NotLost, E!Plain
  <2> QED BY <1>1, <2>1, <2>2, <2>3, <2>4, SearchGoesOn DEF SearchTypes, Seen
<1> QED BY <1>2, <1>3

\* openNoFollow: the entry is looked at, then opened and compared with what
\* was looked at, for the directory and for the name below it.
LEMMA SearchOpens ==
  ASSUME SearchInv, E!LstatPart \/ E!LstatName \/ E!OpenPart \/ E!OpenName
  PROVE  SearchInv'
<1>1. SearchTypes /\ Seen /\ Told /\ NoneLost /\ opening.path \in E!Paths
  BY DEF SearchInv, SearchTypes, Opening
<1>2. /\ UNCHANGED <<engine, dir, files, touched, plain, left, entries, cut, missed, outcome>> /\ stage = "reading"
      /\ stage' \in {"reading", "visiting"} /\ found \subseteq found'
  BY DEF E!LstatPart, E!LstatName, E!OpenPart, E!OpenName, E!Lstat, E!LeaveOut, E!tree
<1>3. Told'
  BY <1>1, <1>2 DEF Told
<1>4. ASSUME NEW p \in E!Paths \ touched, engine = "local",
             NotLost(p) /\ InHand(p) => Found(p)' \/ (InHand(p)' /\ stage' = "reading")
      PROVE  NotLost(p)'
  <2>1. NotLost(p)
    BY <1>1, <1>4 DEF NoneLost
  <2>2. (Found(p) => Found(p)') /\ (Listed(p) <=> Listed(p)')
    BY <1>2 DEF Found, Listed
  <2>3. Found(p)' \/ Listed(p)' \/ (InHand(p)' /\ stage' = "reading")
    BY <1>2, <1>4, <2>1, <2>2 DEF NotLost
  <2> QED BY <1>2, <2>1, <2>2, <2>3 DEF NotLost, E!Plain
<1>5. ASSUME E!LeaveOut, engine = "local" => \A m \in found' \ found : m \in plain.files /\ m[1] \in plain.dirs,
             \A p \in E!Paths \ touched : engine = "local" /\ NotLost(p) /\ InHand(p) => Found(p)'
      PROVE  SearchInv'
  <2>1. Opening(opening)' /\ opening'.at = "nowhere"
    BY <1>5, SearchEntries DEF E!LeaveOut, Opening
  <2> QED BY <1>2, <1>3, <1>4, <1>5, <2>1, SearchGoesOn
<1>6. CASE E!LstatPart
  <2>1. /\ found' = found /\ opening.at = "directory"
        /\ IF E!Plain(dir) THEN opening' = [opening EXCEPT !.at = "opening directory", !.info = dir.to] /\ stage' = stage ELSE E!LeaveOut
    BY <1>6 DEF E!LstatPart, E!Lstat
  <2>2. CASE E!Plain(dir)
    <3>1. /\ Opening(opening)' /\ opening'.at = "opening directory" /\ opening'.info = dir.to /\ opening'.path = opening.path
      BY <1>1, <2>1, <2>2 DEF SearchTypes, Opening
    <3>2. dir.to \in plain.dirs \cap E!Dirs
      BY <1>1, <2>2, SearchEntries DEF Seen, SearchTypes
    <3>3. ASSUME NEW p \in E!Paths \ touched, NotLost(p), InHand(p) PROVE InHand(p)' /\ stage' = "reading"
      BY <1>2, <2>1, <2>2, <3>1, <3>3 DEF NotLost, InHand
    <3> QED BY <1>2, <1>3, <1>4, <2>1, <3>1, <3>2, <3>3, SearchGoesOn
  <2>3. CASE ~E!Plain(dir)
    <3>1. ASSUME NEW p \in E!Paths \ touched, NotLost(p) PROVE FALSE
      BY <2>3, <3>1 DEF NotLost, E!Plain, E!Gone
    <3> QED BY <1>5, <2>1, <2>3, <3>1
  <2> QED BY <2>2, <2>3
<1>7. CASE E!OpenPart
  <2>1. /\ found' = found /\ opening.at = "opening directory"
        /\ IF E!Opens(dir) /\ dir.to = opening.info THEN opening' = [opening EXCEPT !.at = "name", !.root = dir.to] /\ stage' = stage ELSE E!LeaveOut
    BY <1>7 DEF E!OpenPart, E!SameFile
  <2>2. CASE E!Opens(dir) /\ dir.to = opening.info
    <3>1. Opening(opening)' /\ opening'.at = "name" /\ opening'.root = dir.to /\ opening'.path = opening.path
      BY <1>1, <2>1, <2>2 DEF SearchTypes, Opening
    <3>2. dir.to \in plain.dirs \cap E!Dirs
      BY <1>1, <2>1, <2>2 DEF Seen
    <3>3. ASSUME NEW p \in E!Paths \ touched, NotLost(p), InHand(p) PROVE InHand(p)' /\ stage' = "reading"
      BY <1>2, <2>1, <2>2, <3>1, <3>3 DEF NotLost, InHand
    <3> QED BY <1>2, <1>3, <1>4, <2>1, <3>1, <3>2, <3>3, SearchGoesOn
  <2>3. CASE ~(E!Opens(dir) /\ dir.to = opening.info)
    <3>1. ASSUME NEW p \in E!Paths \ touched, NotLost(p), InHand(p) PROVE FALSE
      BY <2>1, <2>3, <3>1 DEF NotLost, InHand, E!Opens, E!Gone, E!Outside
    <3> QED BY <1>5, <2>1, <2>3, <3>1
  <2> QED BY <2>2, <2>3
<1>8. CASE E!LstatName
  <2>1. PICK entry : entry = files[opening.root][opening.path]
    OBVIOUS
  <2>2. /\ found' = found /\ opening.at = "name"
        /\ IF E!Plain(entry) THEN opening' = [opening EXCEPT !.at = "opening name", !.info = entry.to] /\ stage' = stage ELSE E!LeaveOut
    BY <1>8, <2>1 DEF E!LstatName, E!Lstat
  <2>3. opening.root \in plain.dirs \cap E!Dirs
    BY <1>1, <2>2 DEF Seen
  <2>4. CASE E!Plain(entry)
    <3>1. /\ Opening(opening)' /\ opening'.at = "opening name" /\ opening'.info = entry.to /\ opening'.path = opening.path
          /\ opening'.root = opening.root
      BY <1>1, <2>2, <2>4 DEF SearchTypes, Opening
    <3>2. <<opening.root, opening.path, entry.to>> \in plain.files
      BY <1>1, <2>1, <2>3, <2>4 DEF Seen
    <3>3. ASSUME NEW p \in E!Paths \ touched, NotLost(p), InHand(p) PROVE InHand(p)' /\ stage' = "reading"
      <4>1. opening'.info = files["home"][p].to
        BY <2>1, <2>2, <3>1, <3>3 DEF InHand
      <4> QED BY <1>2, <2>2, <2>4, <3>1, <3>3, <4>1 DEF InHand
    <3> QED BY <1>2, <1>3, <1>4, <2>2, <2>3, <3>1, <3>2, <3>3, SearchGoesOn
  <2>5. CASE ~E!Plain(entry)
    <3>1. ASSUME NEW p \in E!Paths \ touched, NotLost(p), InHand(p) PROVE FALSE
      BY <2>1, <2>2, <2>5, <3>1 DEF NotLost, InHand
    <3> QED BY <1>5, <2>2, <2>5, <3>1
  <2> QED BY <2>4, <2>5
<1>9. CASE E!OpenName
  <2>1. PICK entry : entry = files[opening.root][opening.path]
    OBVIOUS
  <2>2. /\ opening.at = "opening name" /\ E!LeaveOut
        /\ found' = IF E!Opens(entry) /\ entry.to = opening.info THEN found \cup {<<opening.root, opening.path, entry.to>>} ELSE found
    BY <1>9, <2>1 DEF E!OpenName, E!SameFile
  <2>3. ASSUME NEW m \in found' \ found PROVE m \in plain.files /\ m[1] \in plain.dirs
    <3>1. m = <<opening.root, opening.path, opening.info>>
      BY <2>2, <2>3
    <3> QED BY <1>1, <2>2, <3>1 DEF Seen
  <2>4. ASSUME NEW p \in E!Paths \ touched, NotLost(p), InHand(p) PROVE Found(p)'
    <3>1. entry = files["home"][p] /\ opening.info = entry.to /\ E!Plain(entry)
      BY <2>1, <2>2, <2>4 DEF NotLost, InHand
    <3>2. E!Opens(entry)
      BY <3>1, SearchEntries DEF E!Opens
    <3>3. <<opening.root, opening.path, entry.to>> \in found' /\ opening.path = p
      BY <2>2, <2>4, <3>1, <3>2 DEF InHand
    <3> QED BY <3>3 DEF Found
  <2> QED BY <1>5, <2>2, <2>3, <2>4
<1> QED BY <1>6, <1>7, <1>8, <1>9

LEMMA SearchHolds == E!Spec => []E!SearchesAreHonest
<1>1. E!Init => SearchInv
  <2> SUFFICES ASSUME E!Init PROVE SearchInv
    OBVIOUS
  <2>1. PICK home, other \in [E!Paths -> E!Entry(E!Nodes)] :
          /\ files = [d \in E!Dirs |-> IF d = "home" THEN home ELSE other]
          /\ home = [p \in E!Paths |-> [to |-> IF p = "a" THEN "fa" ELSE "fb", link |-> FALSE]]
          /\ other = [p \in E!Paths |-> IF p = "a" THEN [to |-> "secret", link |-> FALSE] ELSE E!Gone]
    BY DEF E!Init, E!Entry, E!Nodes
  <2>2. files["home"] = home /\ files["other"] = other /\ \A d \in E!Dirs : d = "home" \/ d = "other"
    BY <2>1 DEF E!Dirs
  <2>3. files \in [E!Dirs -> [E!Paths -> E!Entry(E!Nodes)]]
    BY <2>1
  <2>4. /\ plain = [dirs |-> {"home"}, files |-> {<<"home", "a", "fa">>, <<"home", "b", "fb">>, <<"other", "a", "secret">>}]
        /\ dir = [to |-> "home", link |-> FALSE] /\ opening = E!NotReading /\ found = {} /\ stage = "idle"
        /\ outcome = E!Unanswered /\ missed = FALSE
    BY DEF E!Init
  <2>5. dir \in E!Entry(E!Dirs) /\ dir.to = "home"
    BY <2>4 DEF E!Entry, E!Dirs
  <2>6. SearchTypes
    BY <2>3, <2>4, <2>5, SearchEntries DEF SearchTypes
  <2>7. ASSUME NEW p \in E!Paths PROVE /\ E!Plain(home[p]) /\ <<"home", p, home[p].to>> \in plain.files
                                       /\ E!Plain(other[p]) => <<"other", p, other[p].to>> \in plain.files
    <3>1. p = "a" \/ p = "b"
      BY DEF E!Paths
    <3> QED BY <2>1, <2>4, <3>1 DEF E!Plain, E!Gone
  <2>8. Seen
    BY <2>2, <2>4, <2>5, <2>7, SearchEntries DEF Seen
  <2>9. outcome.verdict # "ok"
    BY <2>4 DEF E!Unanswered
  <2>10. NoneLost /\ Told
    BY <2>2, <2>4, <2>7, <2>9 DEF NoneLost, NotLost, Told
  <2> QED BY <2>6, <2>8, <2>10 DEF SearchInv
<1>2. SearchInv /\ [E!Next]_(E!vars) => SearchInv'
  BY Swapped, SearchEnds, SearchScopes, SearchVisits, SearchOpens DEF E!Next
<1>3. SearchInv => E!SearchesAreHonest
  <2> SUFFICES ASSUME SearchInv PROVE E!SearchesAreHonest
    OBVIOUS
  <2>1. engine = "local" => \A m \in found : m \in plain.files /\ m[1] \in plain.dirs
    BY DEF SearchInv, Seen
  <2>2. ASSUME outcome.verdict = "ok", engine = "local", NEW p \in E!Paths \ touched PROVE p \in {m[2] : m \in found}
    BY <2>2 DEF SearchInv, NoneLost, NotLost, Found
  <2>3. outcome.verdict = "ok" => (missed => outcome.partial)
    BY DEF SearchInv, Told
  <2> QED BY <2>1, <2>2, <2>3 DEF E!SearchesAreHonest
<1> QED BY <1>1, <1>2, <1>3, PTL DEF E!Spec

-----------------------------------------------------------------------------
(* Delegate: what was read, what the observer made of it, and the outcome. *)

Prices == [price : D!Prices, has : BOOLEAN, err : BOOLEAN]
DelegateInv ==
  /\ client \in {"claude-code", "codex"} /\ out \in Prices
  /\ phase = "idle" => child = "none"
  /\ phase # "done" => out.price = last
  /\ phase # "done" /\ D!TooMuch(peak) => over
  /\ ~parsed /\ phase # "done" => last = Unpriced /\ peak = Unpriced
  /\ D!SpendIsTold

\* The call ends without an answer.
LEMMA EndsUnanswered ==
  ASSUME DelegateInv, phase = "idle", D!Ends("refused"),
         UNCHANGED <<client, out, child, over, parsed, last, peak>>
  PROVE  DelegateInv'
<1>1. answer'.price = last' /\ answer'.verdict # "ok"
  BY DEF D!Ends, D!NoAnswer, DelegateInv
<1> QED BY <1>1 DEF D!Ends, DelegateInv, D!SpendIsTold

\* A price the adapter keeps is the last one read.
LEMMA AbsorbKeeps ==
  ASSUME NEW o \in Prices, o = out, NEW event \in D!Events
  PROVE  /\ D!Absorb(event) \in Prices
         /\ D!Absorb(event).price = IF event.price = Unpriced THEN out.price ELSE event.price
<1>1. PICK n : n = [price |-> event.price, has |-> TRUE, err |-> event.err]
  OBVIOUS
<1>2. n \in Prices /\ n.price = event.price
  BY <1>1 DEF Prices, D!Events
<1>3. /\ D!CarryCost(out, n) \in Prices
      /\ D!CarryCost(out, n).price = IF event.price = Unpriced THEN out.price ELSE event.price
  BY <1>2 DEF D!CarryCost, Prices
<1>4. event.price \in D!Prices
  BY DEF D!Events
<1>5. CASE event.type = "result"
  BY <1>1, <1>3, <1>5 DEF D!Absorb
<1>6. CASE event.type # "result"
  BY <1>4, <1>6 DEF D!Absorb, Prices
<1> QED BY <1>5, <1>6

LEMMA DelegateReads ==
  ASSUME DelegateInv, NEW event \in D!Events, D!Read(event)
  PROVE  DelegateInv'
<1>1. /\ out \in Prices /\ out.price = last /\ (D!TooMuch(peak) => over) /\ phase = "streaming"
      /\ client \in {"claude-code", "codex"}
  BY DEF DelegateInv, D!Read
<1>2. out' = D!Absorb(event) /\ parsed' /\ UNCHANGED <<client, phase, child, answer>>
  BY DEF D!Read
<1>3. out' \in Prices /\ out'.price = IF event.price = Unpriced THEN last ELSE event.price
  BY <1>1, <1>2, AbsorbKeeps
<1>4. last' = out'.price
  BY <1>3 DEF D!Read, D!Seen
<1>5. PICK price : price = IF client = "codex" THEN out'.price ELSE event.price
  OBVIOUS
<1>6. D!Observe(price) /\ (event.price # Unpriced => price = event.price)
  BY <1>3, <1>5 DEF D!Read
<1>7. over => over'
  BY <1>6 DEF D!Observe
<1>8. event.price # Unpriced /\ D!TooMuch(event.price) => over'
  BY <1>6 DEF D!Observe
<1>9. peak' = peak \/ (event.price # Unpriced /\ peak' = event.price)
  BY DEF D!Read, D!Seen
<1>10. D!TooMuch(peak') => over'
  BY <1>1, <1>7, <1>8, <1>9 DEF D!TooMuch
<1> QED BY <1>1, <1>2, <1>3, <1>4, <1>10 DEF DelegateInv, D!SpendIsTold, D!TooMuch

LEMMA DelegateFinishes ==
  ASSUME DelegateInv, D!Finish
  PROVE  DelegateInv'
<1>1. /\ out \in Prices /\ out.price = last /\ (D!TooMuch(peak) => over)
      /\ (~parsed => last = Unpriced /\ peak = Unpriced) /\ client \in {"claude-code", "codex"}
  BY DEF DelegateInv, D!Finish
<1>2. PICK usable \in BOOLEAN, hits \in SUBSET D!Hits,
           o \in (IF D!Legacy THEN [price : D!Prices, has : {TRUE}, err : BOOLEAN] ELSE {}) \cup {out} :
         /\ answer' = IF D!Settle(o, usable) = "answered"
                        THEN [verdict |-> "ok", price |-> o.price, notices |-> D!Notices(hits),
                              lost |-> (hits \ D!Kept(hits)) \cup (IF phase = "cut" THEN {"stream"} ELSE {})]
                        ELSE [D!NoAnswer EXCEPT !.verdict = D!Settle(o, usable), !.price = o.price]
         /\ out' = o /\ phase' = "done"
         /\ IF o = out THEN UNCHANGED <<last, peak>> ELSE D!Seen(o.price)
  BY DEF D!Finish
<1>3. o \in Prices /\ (o # out => D!Legacy)
  BY <1>1, <1>2 DEF Prices
<1>4. answer'.price = o.price
  BY <1>2 DEF D!NoAnswer
<1>5. last' = o.price
  <2>1. CASE o = out
    BY <1>1, <1>2, <2>1
  <2>2. CASE o # out
    BY <1>1, <1>2, <1>3, <2>2 DEF D!Legacy, D!Seen
  <2> QED BY <2>1, <2>2
<1>6. UNCHANGED <<client, child, parsed, over>> /\ child # "up"
  BY DEF D!Finish
<1>7. D!Settle(o, usable) # "ok"
  BY <1>1 DEF D!Settle, D!Invoked
<1>8. ASSUME answer'.verdict = "ok"
      PROVE  D!Settle(o, usable) = "answered"
  BY <1>2, <1>7, <1>8 DEF D!NoAnswer
<1>9. ASSUME answer'.verdict = "ok"
      PROVE  ~D!TooMuch(peak')
  <2>1. ~over /\ ~D!TooMuch(o.price)
    BY <1>8, <1>9 DEF D!Settle
  <2>2. peak' = peak \/ peak' = o.price
    BY <1>2 DEF D!Seen
  <2> QED BY <1>1, <2>1, <2>2 DEF D!TooMuch
<1>10. ASSUME answer'.verdict = "ok"
       PROVE  answer'.lost \ {"sensitive"} \subseteq answer'.notices \cup (IF client = "codex" THEN {"malformed"} ELSE {})
  <2>1. /\ answer'.lost = (hits \ D!Kept(hits)) \cup (IF phase = "cut" THEN {"stream"} ELSE {})
        /\ answer'.notices = D!Notices(hits)
    BY <1>2, <1>8, <1>10
  <2>2. hits \ D!Kept(hits) \subseteq {"outside", "sensitive", "malformed"}
    BY DEF D!Hits, D!Kept
  <2> QED BY <1>1, <2>1, <2>2 DEF D!Notices, D!Counted, D!Kept
<1>11. D!SpendIsTold'
  BY <1>2, <1>4, <1>5, <1>6, <1>9, <1>10 DEF D!SpendIsTold, D!TooMuch
<1> QED BY <1>1, <1>2, <1>3, <1>6, <1>11 DEF DelegateInv, D!TooMuch

LEMMA DelegateHolds == D!Spec => []D!SpendIsTold
<1>1. D!Init => DelegateInv
  BY DEF D!Init, D!Nothing, D!Prices, D!TooMuch, DelegateInv, Prices, D!SpendIsTold
<1>2. DelegateInv /\ [D!Next]_D!vars => DelegateInv'
  <2> SUFFICES ASSUME DelegateInv, [D!Next]_D!vars PROVE DelegateInv'
    OBVIOUS
  <2>1. CASE D!Refuse
    BY <2>1, EndsUnanswered DEF D!Refuse
  <2>2. CASE D!Start
    BY <2>2 DEF D!Start, DelegateInv, D!SpendIsTold, D!TooMuch
  <2>3. CASE D!Skip
    BY <2>3 DEF D!Skip, DelegateInv, D!SpendIsTold, D!TooMuch
  <2>4. CASE D!TooLong
    BY <2>4 DEF D!TooLong, DelegateInv, D!SpendIsTold, D!TooMuch
  <2>5. CASE D!Flood
    BY <2>5 DEF D!Flood, DelegateInv, D!SpendIsTold, D!TooMuch
  <2>6. CASE D!Exit
    BY <2>6 DEF D!Exit, DelegateInv, D!SpendIsTold, D!TooMuch
  <2>7. CASE D!Killed
    BY <2>7 DEF D!Killed, DelegateInv, D!SpendIsTold, D!TooMuch
  <2>8. CASE D!ContextEnds
    BY <2>8 DEF D!ContextEnds, DelegateInv, D!SpendIsTold, D!TooMuch
  <2>9. CASE D!Finish
    BY <2>9, DelegateFinishes
  <2>10. CASE \E event \in D!Events : D!Read(event)
    BY <2>10, DelegateReads
  <2>11. CASE UNCHANGED D!vars
    BY <2>11 DEF D!vars, DelegateInv, D!SpendIsTold, D!TooMuch
  <2> QED BY <2>1, <2>2, <2>3, <2>4, <2>5, <2>6, <2>7, <2>8, <2>9, <2>10, <2>11 DEF D!Next
<1>3. DelegateInv => D!SpendIsTold
  BY DEF DelegateInv
<1> QED BY <1>1, <1>2, <1>3, PTL DEF D!Spec

-----------------------------------------------------------------------------
(* AppServer: the lines on the wire, the turns they tell of, and the gate. *)

Numbers == A!Ids \cup {0}
Gates == [at : 1 .. 9, calling : BOOLEAN, profile : A!Ids, thread : Numbers, turn : Numbers,
          obs : [A!Kinds -> BOOLEAN], verdict : {"none", "failed", "passed"}]
Requests == [id : Nat, thread : Numbers]
Answers == [m : {"answer"}, id : Nat, right : BOOLEAN, thread : Numbers, turn : Numbers]
Notes == [m : {"note"}, kind : A!Kinds, key : A!Keys]
Children == [asked : Requests \cup {None}, owes : SUBSET (A!Kinds \X (Numbers \X Numbers)), up : BOOLEAN]
TurnStates == [A!Keys -> [A!Kinds -> BOOLEAN]]
AppTypes ==
  /\ gate \in Gates /\ next \in Nat /\ pending \in {None, next} /\ turns \in TurnStates
  /\ certified \in Seq(A!Keys) /\ server \in Children
\* A gate that waits for an answer has not ended; past thread/start and
\* turn/start it knows which thread and which turn it is about; what it observed
\* was said of that turn; and it certified each profile before the present one.
GateOK ==
  /\ gate.calling => gate.at \in 1 .. 6 /\ gate.verdict = "none"
  /\ gate.at \in 5 .. 9 => gate.thread \in A!Ids
  /\ gate.at \in 6 .. 9 => gate.turn \in A!Ids
  /\ \A kind \in A!Kinds : gate.obs[kind] => gate.at \in {6, 9} /\ <<kind, A!Mine>> \in said
  /\ Len(certified) = IF gate.verdict = "passed" THEN Profiles ELSE gate.profile - 1
\* An answer to the call the gate waits in is about a thread when that call starts one.
Fits(id, thread) == id <= next /\ (id = next /\ gate.calling /\ gate.at = 4 => thread \in A!Ids)
Lines == {m \in Answers : Fits(m.id, m.thread) /\ (m.right => m.turn \in A!Ids)} \cup {m \in Notes : <<m.kind, m.key>> \in said}
Responds == response # None => response.m = "answer" /\ response.id = next /\ (response.right => response \in Lines)
Asked == server.asked # None => Fits(server.asked.id, server.asked.thread)
WireOK == wire \in Seq(Lines) /\ Asked /\ Responds
TurnsOK == \A k \in A!Keys, kind \in A!Kinds : turns[k][kind] => <<kind, k>> \in said
RoutesOK == {"rerouted", "routes", "before"} \subseteq DOMAIN receipt /\ (receipt.routes # {} => receipt.rerouted)
AppInv == AppTypes /\ GateOK /\ WireOK /\ TurnsOK /\ RoutesOK /\ A!TurnsAreWitnessed
SameRoutes == RoutesOK' /\ receipt'.routes = receipt.routes /\ receipt'.before = receipt.before

LEMMA ReceiptStays == ASSUME AppInv, receipt' = receipt PROVE SameRoutes
BY DEF AppInv, RoutesOK, SameRoutes

\* While the gate is in the same call, or in none, a line keeps what it was.
LEMMA LinesStay ==
  ASSUME said \subseteq said', next' = next, gate'.calling /\ gate'.at = 4 => gate.calling /\ gate.at = 4
  PROVE  (\A id, thread : Fits(id, thread) => Fits(id, thread)') /\ Lines \subseteq Lines'
<1>1. \A id, thread : Fits(id, thread) => Fits(id, thread)'
  BY DEF Fits
<1> QED BY <1>1 DEF Lines

LEMMA SeqOfMore ==
  ASSUME NEW S1, NEW T1, S1 \subseteq T1, NEW w \in Seq(S1)
  PROVE  w \in Seq(T1)
OBVIOUS

\* The server speaks, or dies; nothing on this side of the pipes moves.
LEMMA ServerMoves ==
  ASSUME AppInv, UNCHANGED <<gate, next, pending, response, closed, reader, turns, wake, receipt, certified>>,
         said \subseteq said', server' \in Children, server'.asked \in {server.asked, None},
         \/ wire' = wire
         \/ \E m \in Lines' : wire' = Append(wire, m)
  PROVE  AppInv'
<1>1. AppTypes /\ GateOK /\ WireOK /\ TurnsOK /\ RoutesOK' /\ A!TurnsAreWitnessed
  BY ReceiptStays DEF AppInv, SameRoutes
<1>2. (\A id, thread : Fits(id, thread) => Fits(id, thread)') /\ Lines \subseteq Lines'
  BY LinesStay
<1>3. wire \in Seq(Lines')
  BY <1>1, <1>2, SeqOfMore DEF WireOK
<1>4. wire' \in Seq(Lines')
  BY <1>3
<1>5. AppTypes'
  BY <1>1 DEF AppTypes
<1>6. GateOK'
  BY <1>1 DEF GateOK, A!Mine
<1>7. Asked' /\ Responds'
  BY <1>1, <1>2 DEF WireOK, Asked, Responds
<1>8. TurnsOK' /\ A!TurnsAreWitnessed'
  BY <1>1 DEF TurnsOK, A!TurnsAreWitnessed, A!Mine
<1> QED BY <1>1, <1>4, <1>5, <1>6, <1>7, <1>8 DEF AppInv, WireOK

\* The reader takes a line, or tells the calls that wait.
LEMMA ReaderMoves ==
  ASSUME AppInv, UNCHANGED <<gate, next, certified, server, said>>,
         wire' = wire \/ (wire # <<>> /\ wire' = Tail(wire)),
         pending' \in {None, next}, Responds', turns' \in TurnStates, TurnsOK',
         gate.at = 8 /\ gate.verdict = "none" /\ turns'[A!Mine].completed => wake' \/ reader' = "waking",
         RoutesOK', receipt'.routes # {} => Len(certified) = receipt'.before
  PROVE  AppInv'
<1>1. AppTypes /\ GateOK /\ WireOK /\ A!TurnsAreWitnessed
  BY DEF AppInv
<1>2. (\A id, thread : Fits(id, thread) => Fits(id, thread)') /\ Lines \subseteq Lines'
  BY LinesStay
<1>3. wire \in Seq(Lines')
  BY <1>1, <1>2, SeqOfMore DEF WireOK
<1>4. wire' \in Seq(Lines')
  BY <1>3
<1>5. AppTypes'
  BY <1>1 DEF AppTypes
<1>6. GateOK' /\ Asked'
  BY <1>1, <1>2 DEF GateOK, A!Mine, WireOK, Asked
<1>7. A!TurnsAreWitnessed'
  BY <1>1 DEF A!TurnsAreWitnessed, A!Mine
<1> QED BY <1>4, <1>5, <1>6, <1>7 DEF AppInv, WireOK

\* The gate goes on; the pipes and the server do not move.
LEMMA GateMoves ==
  ASSUME AppInv, UNCHANGED <<next, wire, server, said>>, gate' \in Gates, GateOK',
         gate'.calling /\ gate'.at = 4 => gate.calling /\ gate.at = 4,
         pending' \in {None, pending}, response' \in {None, response}, turns' \in TurnStates, TurnsOK',
         certified' \in Seq(A!Keys), RoutesOK', A!TurnsAreWitnessed'
  PROVE  AppInv'
<1>1. AppTypes /\ WireOK
  BY DEF AppInv
<1>2. (\A id, thread : Fits(id, thread) => Fits(id, thread)') /\ Lines \subseteq Lines'
  BY LinesStay
<1>3. AppTypes'
  BY <1>1 DEF AppTypes
<1>4. wire' \in Seq(Lines')
  BY <1>1, <1>2, SeqOfMore DEF WireOK
<1>5. WireOK'
  BY <1>1, <1>2, <1>4 DEF WireOK, Asked, Responds
<1> QED BY <1>3, <1>5 DEF AppInv

LEMMA ServerSteps ==
  ASSUME AppInv,
         \/ A!Answer \/ A!Dies \/ (\E t, u \in A!Ids : A!AnswerWrongly(t, u))
         \/ \E note \in A!Kinds \X A!Keys : A!Notify(note) \/ A!NotifyUncalled(note[1], note[2])
  PROVE  AppInv'
<1>1. /\ gate \in Gates /\ server \in Children /\ gate.profile \in A!Ids
      /\ server.asked # None => server.asked \in Requests /\ Fits(server.asked.id, server.asked.thread)
  BY DEF AppInv, AppTypes, Gates, Children, WireOK, Asked
<1>2. CASE A!Answer \/ \E t, u \in A!Ids : A!AnswerWrongly(t, u)
  <2>1. PICK t \in Numbers, u \in A!Ids, right \in BOOLEAN :
          /\ t = server.asked.thread \/ t \in A!Ids
          /\ wire' = Append(wire, [m |-> "answer", id |-> server.asked.id, right |-> right, thread |-> t, turn |-> u])
    BY <1>1, <1>2 DEF A!Answer, A!AnswerWrongly, A!Says, Requests, Numbers
  <2>2. PICK m : m = [m |-> "answer", id |-> server.asked.id, right |-> right, thread |-> t, turn |-> u]
    OBVIOUS
  <2>3. /\ server.asked # None /\ server' = [server EXCEPT !.asked = None]
        /\ UNCHANGED <<gate, next, A!client, receipt, open, certified, said>>
    BY <1>2 DEF A!Answer, A!AnswerWrongly
  <2>4. m \in Answers /\ Fits(m.id, m.thread) /\ m.turn \in A!Ids
    BY <1>1, <2>1, <2>2, <2>3 DEF Answers, Fits, Requests, Numbers
  <2>5. m \in Lines
    BY <2>4 DEF Lines
  <2>6. m \in Lines'
    BY <2>3, <2>5, LinesStay
  <2>7. server' \in Children /\ server'.asked = None
    BY <1>1, <2>3 DEF Children
  <2> QED BY <2>1, <2>2, <2>3, <2>6, <2>7, ServerMoves DEF A!client
<1>3. CASE A!Dies
  <2>1. server' \in Children /\ server'.asked = None
    BY <1>1, <1>3 DEF A!Dies, Children
  <2> QED BY <1>3, <2>1, ServerMoves DEF A!Dies, A!client
<1>4. ASSUME NEW note \in A!Kinds \X A!Keys, A!Notify(note) \/ A!NotifyUncalled(note[1], note[2])
      PROVE  AppInv'
  <2>1. PICK m : m = [m |-> "note", kind |-> note[1], key |-> note[2]]
    OBVIOUS
  <2>2. m \in Notes /\ <<m.kind, m.key>> = note
    BY <2>1 DEF Notes
  <2>3. said' = said \cup {note} /\ wire' = Append(wire, m) /\ UNCHANGED <<gate, next, A!client, receipt, certified>>
    BY <1>4, <2>1, <2>2 DEF A!Notify, A!NotifyUncalled, A!Says
  <2>4. m \in Lines'
    BY <2>2, <2>3 DEF Lines
  <2>5. server' \in Children /\ server'.asked = server.asked
    BY <1>1, <1>4 DEF A!Notify, A!NotifyUncalled, Children
  <2> QED BY <2>3, <2>4, <2>5, ServerMoves DEF A!client
<1> QED BY <1>2, <1>3, <1>4

LEMMA ReaderSteps ==
  ASSUME None \notin Nat, AppInv, A!ReadAnswer \/ A!ReadNote \/ A!Wake \/ A!ReadEnds \/ A!Sweep
  PROVE  AppInv'
<1>1. /\ next \in Nat /\ pending \in {None, next} /\ turns \in TurnStates /\ wire \in Seq(Lines) /\ Responds /\ TurnsOK
      /\ gate.at = 8 /\ gate.verdict = "none" /\ turns[A!Mine].completed => wake \/ reader = "waking"
      /\ receipt.routes # {} => Len(certified) = receipt.before
      /\ receipt' = receipt => RoutesOK'
  BY ReceiptStays DEF AppInv, AppTypes, WireOK, A!TurnsAreWitnessed, SameRoutes
<1>2. wire # <<>> => Head(wire) \in Lines
  BY <1>1
<1>3. CASE A!ReadAnswer
  <2>1. Head(wire) \in Lines /\ Head(wire).m = "answer" /\ UNCHANGED <<gate, next, certified, server, said, turns, wake, reader, receipt>>
    BY <1>2, <1>3 DEF A!ReadAnswer
  <2>2. Head(wire).id \in Nat
    BY <2>1 DEF Lines, Answers, Notes
  <2>3. Lines' = Lines
    BY <2>1 DEF Lines, Fits
  <2>4. pending' \in {None, next} /\ Responds'
    BY <1>1, <1>3, <2>1, <2>2, <2>3 DEF A!ReadAnswer, Responds
  <2> QED BY <1>1, <1>3, <2>1, <2>4, ReaderMoves DEF A!ReadAnswer, TurnsOK
<1>4. CASE A!ReadNote
  <2>1. /\ Head(wire) \in Lines /\ Head(wire).m = "note" /\ wire # <<>> /\ wire' = Tail(wire)
        /\ turns' = [turns EXCEPT ![Head(wire).key][Head(wire).kind] = TRUE]
        /\ reader' = IF A!Wakes(Head(wire).kind) THEN "waking" ELSE "reading"
        /\ UNCHANGED <<gate, next, certified, server, said, pending, response, wake>>
    BY <1>2, <1>4 DEF A!ReadNote
  <2>2. PICK key \in A!Keys, kind \in A!Kinds : key = Head(wire).key /\ kind = Head(wire).kind /\ <<kind, key>> \in said
    BY <2>1 DEF Lines, Answers, Notes
  <2>3. reader' = "waking"
    BY <2>1, <2>2 DEF A!Wakes
  <2>4. turns' = [turns EXCEPT ![key][kind] = TRUE]
    BY <2>1, <2>2
  <2>5. turns' \in TurnStates
    <3>1. turns[key] \in [A!Kinds -> BOOLEAN]
      BY <1>1 DEF TurnStates
    <3>2. [turns[key] EXCEPT ![kind] = TRUE] \in [A!Kinds -> BOOLEAN]
      BY <3>1
    <3>3. turns' = [turns EXCEPT ![key] = [turns[key] EXCEPT ![kind] = TRUE]]
      BY <2>4
    <3> QED BY <1>1, <3>2, <3>3 DEF TurnStates
  <2>6. TurnsOK'
    <3>1. ASSUME NEW k \in A!Keys, NEW x \in A!Kinds, turns'[k][x] PROVE <<x, k>> \in said
      <4>1. (k = key /\ x = kind) \/ turns'[k][x] = turns[k][x]
        BY <1>1, <2>4 DEF TurnStates
      <4> QED BY <1>1, <2>2, <3>1, <4>1 DEF TurnsOK
    <3> QED BY <2>1, <3>1 DEF TurnsOK
  <2>7. Lines' = Lines
    BY <2>1 DEF Lines, Fits
  <2>8. pending' \in {None, next} /\ Responds'
    BY <1>1, <2>1, <2>7 DEF Responds
  <2>9. RoutesOK' /\ (receipt'.routes # {} => Len(certified) = receipt'.before)
    <3>1. CASE Head(wire).kind = "rerouted"
      <4>1. receipt' = [receipt EXCEPT !.rerouted = TRUE, !.routes = @ \cup {Head(wire).key},
                                       !.before = IF receipt.routes = {} THEN Len(certified) ELSE @]
        BY <1>4, <3>1 DEF A!ReadNote
      <4>2. {"rerouted", "routes", "before"} \subseteq DOMAIN receipt
        BY DEF AppInv, RoutesOK
      <4>3. /\ DOMAIN receipt' = DOMAIN receipt /\ receipt'.rerouted
            /\ receipt'.before = IF receipt.routes = {} THEN Len(certified) ELSE receipt.before
        BY <4>1, <4>2
      <4> QED BY <1>1, <4>2, <4>3 DEF RoutesOK
    <3>2. CASE Head(wire).kind # "rerouted"
      BY <1>1, <1>4, <3>2 DEF A!ReadNote
    <3> QED BY <3>1, <3>2
  <2> QED BY <2>1, <2>3, <2>5, <2>6, <2>8, <2>9, ReaderMoves
<1>5. CASE A!Wake \/ A!ReadEnds \/ A!Sweep
  <2>1. /\ UNCHANGED <<gate, next, certified, server, said, turns, wire, receipt>> /\ pending' \in {None, pending}
        /\ (wake \/ reader = "waking" => wake' \/ reader' = "waking")
    BY <1>5 DEF A!Wake, A!ReadEnds, A!Sweep
  <2>2. Lines' = Lines
    BY <2>1 DEF Lines, Fits
  <2>3. Responds'
    <3>1. CASE A!Wake \/ A!ReadEnds
      BY <1>1, <2>1, <2>2, <3>1 DEF Responds, A!Wake, A!ReadEnds
    <3>2. CASE A!Sweep
      <4>1. response' = [m |-> "answer", id |-> pending, right |-> FALSE, thread |-> 0, turn |-> 0] /\ pending = next /\ next' = next
        BY <1>1, <3>2 DEF A!Sweep
      <4> QED BY <4>1 DEF Responds
    <3> QED BY <1>5, <3>1, <3>2
  <2>4. turns' \in TurnStates /\ TurnsOK'
    BY <1>1, <2>1 DEF TurnsOK
  <2> QED BY <1>1, <2>1, <2>3, <2>4, ReaderMoves
<1> QED BY <1>3, <1>4, <1>5

\* What certified says of the turns stays said.
LEMMA WitnessedStill ==
  ASSUME A!TurnsAreWitnessed, certified' = certified, said' = said, gate'.verdict = "passed" => gate.verdict = "passed",
         ~(gate'.at = 8 /\ gate'.verdict = "none"), SameRoutes,
         gate'.at \in {6, 9} => ~gate'.obs.rerouted
  PROVE  A!TurnsAreWitnessed'
BY DEF A!TurnsAreWitnessed, SameRoutes

LEMMA GateFails ==
  ASSUME AppInv, A!Fails, gate.verdict = "none", UNCHANGED <<next, wire, server, said, turns, certified>>, SameRoutes,
         pending' \in {None, pending}, response' \in {None, response}
  PROVE  AppInv'
<1>1. AppTypes /\ gate \in Gates /\ GateOK /\ TurnsOK /\ A!TurnsAreWitnessed /\ turns' \in TurnStates /\ certified' \in Seq(A!Keys)
  BY DEF AppInv, AppTypes
<1>2. PICK g : g = [gate EXCEPT !.verdict = "failed", !.calling = FALSE]
  OBVIOUS
<1>3. /\ g \in Gates /\ g.verdict = "failed" /\ ~g.calling /\ g.at = gate.at /\ g.thread = gate.thread /\ g.turn = gate.turn
      /\ g.obs = gate.obs /\ g.profile = gate.profile
  BY <1>1, <1>2 DEF Gates
<1>4. gate' = g
  BY <1>2 DEF A!Fails
<1>5. GateOK'
  BY <1>1, <1>3, <1>4 DEF GateOK, A!Mine
<1>6. RoutesOK'
  BY DEF SameRoutes
<1>7. gate'.at \in {6, 9} => ~gate'.obs.rerouted
  BY <1>1, <1>3, <1>4 DEF A!TurnsAreWitnessed
<1>8. A!TurnsAreWitnessed' /\ TurnsOK'
  BY <1>1, <1>3, <1>4, <1>6, <1>7, WitnessedStill DEF TurnsOK
<1> QED BY <1>1, <1>3, <1>4, <1>5, <1>6, <1>8, GateMoves

LEMMA GateCalls ==
  ASSUME Profiles \in Nat \ {0}, AppInv, A!Call
  PROVE  AppInv'
<1>1. /\ AppTypes /\ gate \in Gates /\ next \in Nat /\ server \in Children /\ wire \in Seq(Lines)
      /\ GateOK /\ WireOK /\ TurnsOK /\ A!TurnsAreWitnessed
  BY DEF AppInv, AppTypes, WireOK
<1>2. PICK g : g = [gate EXCEPT !.calling = TRUE]
  OBVIOUS
<1>3. /\ g \in Gates /\ g.calling /\ g.verdict = gate.verdict /\ g.at = gate.at /\ g.thread = gate.thread /\ g.turn = gate.turn
      /\ g.obs = gate.obs /\ g.profile = gate.profile
  BY <1>1, <1>2 DEF Gates
<1>4. /\ gate' = g /\ gate.verdict = "none" /\ gate.at \in 1 .. 6 /\ next' = next + 1 /\ pending' = next' /\ response' = None
      /\ UNCHANGED <<turns, wake, reader, receipt, certified, wire, said>>
  BY <1>2 DEF A!Call, A!Methods
<1>5. GateOK'
  BY <1>1, <1>3, <1>4 DEF GateOK, A!Mine
<1>6. \A id \in Nat : \A thread : id <= next => Fits(id, thread)'
  BY <1>1, <1>4 DEF Fits
<1>7. Lines \subseteq Lines'
  BY <1>1, <1>4, <1>6 DEF Lines, Answers, Fits
<1>8. wire' \in Seq(Lines')
  BY <1>1, <1>4, <1>7, SeqOfMore
<1>9. server' \in Children /\ Asked'
  <2>1. CASE ~server.up
    <3>1. server' = server
      BY <2>1 DEF A!Call
    <3>2. server.asked # None => server.asked.id \in Nat /\ server.asked.id <= next
      BY <1>1 DEF Children, Requests, WireOK, Asked, Fits
    <3> QED BY <1>1, <1>6, <3>1, <3>2 DEF Asked
  <2>2. CASE server.up
    <3>1. PICK r, owes : /\ r = [id |-> next + 1, thread |-> IF gate.at = 4 THEN gate.profile ELSE gate.thread]
                         /\ owes = IF gate.at = 5 THEN {"usage", "item", "completed"} \X {<<gate.thread, gate.profile>>} ELSE server.owes
      OBVIOUS
    <3>2. server' = [server EXCEPT !.asked = r, !.owes = owes]
      BY <2>2, <3>1 DEF A!Call
    <3>3. gate.profile \in A!Ids /\ gate.thread \in Numbers /\ gate.profile \in Numbers
      BY <1>1 DEF Gates, Numbers
    <3>4. r \in Requests /\ r.id = next + 1 /\ (gate.at = 4 => r.thread \in A!Ids)
      BY <1>1, <3>1, <3>3 DEF Requests
    <3>5. owes \in SUBSET (A!Kinds \X (Numbers \X Numbers))
      BY <1>1, <3>1, <3>3 DEF Children, A!Kinds
    <3>6. server' \in Children /\ server'.asked = r
      BY <1>1, <3>2, <3>4, <3>5 DEF Children
    <3> QED BY <1>1, <1>3, <1>4, <3>4, <3>6 DEF Asked, Fits
  <2> QED BY <2>1, <2>2
<1>10. AppTypes'
  BY <1>1, <1>3, <1>4, <1>9 DEF AppTypes
<1>11. A!TurnsAreWitnessed' /\ TurnsOK' /\ Responds'
  BY <1>1, <1>3, <1>4 DEF A!TurnsAreWitnessed, TurnsOK, Responds
<1>12. RoutesOK'
  BY <1>4, ReceiptStays DEF SameRoutes
<1> QED BY <1>5, <1>8, <1>9, <1>10, <1>11, <1>12 DEF AppInv, WireOK

LEMMA Returns ==
  ASSUME Profiles \in Nat \ {0}, AppInv, A!CallReturns
  PROVE  AppInv'
<1>1. /\ AppTypes /\ gate \in Gates /\ GateOK /\ TurnsOK /\ Responds /\ A!TurnsAreWitnessed
      /\ turns' \in TurnStates /\ certified' \in Seq(A!Keys)
  BY DEF AppInv, AppTypes, WireOK, A!CallReturns
<1>2. /\ gate.calling /\ gate.at \in 1 .. 6 /\ gate.verdict = "none" /\ response # None /\ response' = None
      /\ UNCHANGED <<next, pending, turns, certified, server, wire, said>>
  BY <1>1 DEF A!CallReturns, GateOK
<1>21. SameRoutes /\ RoutesOK'
  <2>1. \/ receipt' = receipt
        \/ receipt' = [receipt EXCEPT !.thread = response.thread, !.observed = TRUE]
        \/ receipt' = [receipt EXCEPT !.turn = response.turn, !.observed = FALSE]
        \/ receipt' = [receipt EXCEPT !.observed = TRUE]
    BY DEF A!CallReturns
  <2>2. {"rerouted", "routes", "before"} \subseteq DOMAIN receipt /\ (receipt.routes # {} => receipt.rerouted)
    BY DEF AppInv, RoutesOK
  <2>3. /\ DOMAIN receipt' = DOMAIN receipt /\ receipt'.rerouted = receipt.rerouted /\ receipt'.routes = receipt.routes
        /\ receipt'.before = receipt.before
    BY <2>1, <2>2
  <2> QED BY <2>2, <2>3 DEF SameRoutes, RoutesOK
<1>3. CASE A!Fails
  BY <1>2, <1>21, <1>3, GateFails
<1>4. CASE ~A!Fails
  <2>1. A!Accepts(response)
    BY <1>4 DEF A!CallReturns
  <2>2. response \in Lines /\ response.m = "answer" /\ response.id = next /\ response.right
    BY <1>1, <1>2, <2>1 DEF Responds, A!Accepts
  <2>3. response.turn \in A!Ids /\ response.thread \in Numbers /\ (gate.at = 4 => response.thread \in A!Ids)
    BY <1>2, <2>2 DEF Lines, Answers, Notes, Fits
  <2>4. PICK at, thread, turn : /\ at = IF gate.at = 5 THEN 7 ELSE IF gate.at = 6 THEN 9 ELSE gate.at + 1
                                /\ thread = IF gate.at = 4 THEN response.thread ELSE gate.thread
                                /\ turn = IF gate.at = 5 THEN response.turn ELSE gate.turn
    OBVIOUS
  <2>5. at \in 1 .. 9 /\ thread \in Numbers /\ turn \in Numbers
    BY <1>1, <1>2, <2>3, <2>4 DEF Gates, Numbers
  <2>51. PICK g : g = [gate EXCEPT !.calling = FALSE, !.at = at, !.thread = thread, !.turn = turn]
    OBVIOUS
  <2>52. gate' = g
    BY <1>4, <2>1, <2>4, <2>51 DEF A!CallReturns
  <2>6. /\ g \in Gates /\ ~g.calling /\ g.verdict = gate.verdict /\ g.obs = gate.obs /\ g.profile = gate.profile
        /\ g.at = at /\ g.thread = thread /\ g.turn = turn
    BY <1>1, <2>5, <2>51 DEF Gates
  <2>7. GateOK'
    <3>1. gate'.at \in 5 .. 9 => gate'.thread \in A!Ids
      BY <1>1, <1>2, <2>3, <2>4, <2>52, <2>6 DEF GateOK
    <3>2. gate'.at \in 6 .. 9 => gate'.turn \in A!Ids
      BY <1>1, <1>2, <2>3, <2>4, <2>52, <2>6 DEF GateOK
    <3>3. ASSUME NEW kind \in A!Kinds, gate'.obs[kind] PROVE gate'.at \in {6, 9} /\ <<kind, A!Mine'>> \in said'
      <4>1. gate.obs[kind]
        BY <2>52, <2>6, <3>3
      <4>2. gate.at = 6 /\ <<kind, A!Mine>> \in said
        BY <1>1, <1>2, <4>1 DEF GateOK
      <4> QED BY <1>2, <2>4, <2>52, <2>6, <4>2 DEF A!Mine
    <3> QED BY <1>1, <1>2, <2>52, <2>6, <3>1, <3>2, <3>3 DEF GateOK
  <2>8. A!TurnsAreWitnessed' /\ TurnsOK'
    <3>1. gate'.at # 8 /\ gate'.verdict # "passed"
      BY <1>2, <2>4, <2>52, <2>6
    <3>2. gate'.at \in {6, 9} => ~gate'.obs.rerouted
      <4>1. gate'.at = 6 => gate.at = 5
        BY <1>2, <2>4, <2>52, <2>6
      <4>2. gate.at = 5 => ~gate.obs.rerouted
        BY <1>1 DEF GateOK, A!Kinds
      <4>3. gate'.at = 9 => gate.at = 6
        BY <1>2, <2>4, <2>52, <2>6
      <4> QED BY <1>1, <2>52, <2>6, <4>1, <4>2, <4>3 DEF A!TurnsAreWitnessed
    <3> QED BY <1>1, <1>2, <1>21, <3>1, <3>2, WitnessedStill DEF TurnsOK
  <2>9. ~(gate'.calling /\ gate'.at = 4)
    BY <2>52, <2>6
  <2> QED BY <1>1, <1>2, <1>21, <2>52, <2>6, <2>7, <2>8, <2>9, GateMoves
<1> QED BY <1>3, <1>4

\* WaitTurn: the look, the sleep and the waking.
LEMMA Waits ==
  ASSUME Profiles \in Nat \ {0}, AppInv, A!Look \/ A!Woken \/ A!WaitEnds \/ A!ContextEnds \/ A!CallFails
  PROVE  AppInv'
<1>1. AppTypes /\ gate \in Gates /\ GateOK /\ TurnsOK /\ A!TurnsAreWitnessed /\ turns \in TurnStates /\ certified \in Seq(A!Keys)
  BY DEF AppInv, AppTypes
<1>11. receipt' = receipt
  BY DEF A!Look, A!Woken, A!WaitEnds, A!ContextEnds, A!CallFails
<1>12. SameRoutes /\ RoutesOK'
  BY <1>11, ReceiptStays DEF SameRoutes
<1>2. CASE A!Look
  <2>1. /\ gate.at = 7 /\ gate.verdict = "none" /\ ~gate.calling
        /\ UNCHANGED <<next, pending, response, reader, wake, certified, server, wire, said>>
    BY <1>1, <1>2 DEF A!Look, GateOK
  <2>2. A!Mine \in A!Keys /\ turns[A!Mine] \in [A!Kinds -> BOOLEAN]
    BY <1>1, <2>1 DEF GateOK, A!Mine, A!Keys, TurnStates
  <2>3. A!Fresh \in [A!Kinds -> BOOLEAN] /\ \A kind \in A!Kinds : ~A!Fresh[kind]
    BY DEF A!Fresh, A!Kinds
  <2>4. CASE turns[A!Mine].completed
    <3>1. turns' = [turns EXCEPT ![A!Mine] = A!Fresh]
      BY <1>2, <2>4 DEF A!Look
    <3>2. turns' \in TurnStates /\ TurnsOK'
      BY <1>1, <2>1, <2>2, <2>3, <3>1 DEF TurnStates, TurnsOK
    <3>3. PICK g : g = IF turns[A!Mine].rerouted THEN [gate EXCEPT !.verdict = "failed"]
                       ELSE [gate EXCEPT !.at = 6, !.obs = turns[A!Mine]]
      OBVIOUS
    <3>4. gate' = g
      BY <1>2, <2>4, <3>3 DEF A!Look
    <3>5. /\ g \in Gates /\ ~g.calling /\ g.profile = gate.profile /\ g.thread = gate.thread /\ g.turn = gate.turn
          /\ \/ g.verdict = "failed" /\ g.at = gate.at /\ g.obs = gate.obs
             \/ g.verdict = gate.verdict /\ g.at = 6 /\ g.obs = turns[A!Mine]
      <4>1. CASE turns[A!Mine].rerouted
        BY <1>1, <2>1, <3>3, <4>1 DEF Gates
      <4>2. CASE ~turns[A!Mine].rerouted
        <5>1. PICK o, at : o = turns[A!Mine] /\ at = 6
          OBVIOUS
        <5>2. o \in [A!Kinds -> BOOLEAN] /\ at \in 1 .. 9 /\ g = [gate EXCEPT !.at = at, !.obs = o]
          BY <2>2, <3>3, <4>2, <5>1
        <5>3. /\ g \in Gates /\ g.calling = gate.calling /\ g.profile = gate.profile /\ g.thread = gate.thread
              /\ g.turn = gate.turn /\ g.verdict = gate.verdict /\ g.at = at /\ g.obs = o
          BY <1>1, <5>2 DEF Gates
        <5> QED BY <2>1, <5>1, <5>3
      <4> QED BY <4>1, <4>2
    <3>6. ASSUME NEW kind \in A!Kinds, g.obs[kind] PROVE g.at = 6 /\ <<kind, A!Mine>> \in said
      <4>1. ~gate.obs[kind]
        BY <1>1, <2>1 DEF GateOK
      <4>2. g.at = 6 /\ turns[A!Mine][kind]
        BY <3>5, <3>6, <4>1
      <4> QED BY <1>1, <2>2, <4>2 DEF TurnsOK
    <3>7. A!Mine' = A!Mine
      BY <3>4, <3>5 DEF A!Mine
    <3>8. GateOK'
      <4>1. \A kind \in A!Kinds : gate'.obs[kind] => gate'.at \in {6, 9} /\ <<kind, A!Mine'>> \in said'
        BY <2>1, <3>4, <3>6, <3>7
      <4>2. gate'.thread \in A!Ids /\ gate'.turn \in A!Ids /\ ~gate'.calling
        BY <1>1, <2>1, <3>4, <3>5 DEF GateOK
      <4>3. Len(certified') = IF gate'.verdict = "passed" THEN Profiles ELSE gate'.profile - 1
        BY <1>1, <2>1, <3>4, <3>5 DEF GateOK
      <4> QED BY <4>1, <4>2, <4>3 DEF GateOK
    <3>9. gate'.at \in {6, 9} => ~gate'.obs.rerouted
      <4>1. CASE turns[A!Mine].rerouted
        <5>1. gate' = [gate EXCEPT !.verdict = "failed"]
          BY <3>3, <3>4, <4>1
        <5>2. gate'.at = gate.at
          BY <1>1, <5>1 DEF Gates
        <5> QED BY <2>1, <5>2
      <4>2. CASE ~turns[A!Mine].rerouted
        <5>1. gate' = [gate EXCEPT !.at = 6, !.obs = turns[A!Mine]]
          BY <3>3, <3>4, <4>2
        <5>2. gate'.obs = turns[A!Mine]
          BY <1>1, <5>1 DEF Gates
        <5> QED BY <4>2, <5>2
      <4> QED BY <4>1, <4>2
    <3>10. A!TurnsAreWitnessed'
      BY <1>1, <1>12, <2>1, <3>4, <3>5, <3>9, WitnessedStill
    <3> QED BY <1>1, <1>12, <2>1, <3>10, <3>2, <3>4, <3>5, <3>8, GateMoves
  <2>5. CASE ~turns[A!Mine].completed
    <3>1. PICK g : g = [gate EXCEPT !.at = 8]
      OBVIOUS
    <3>2. /\ g \in Gates /\ ~g.calling /\ g.profile = gate.profile /\ g.thread = gate.thread /\ g.turn = gate.turn
          /\ g.at = 8 /\ g.obs = gate.obs /\ g.verdict = gate.verdict
      BY <1>1, <2>1, <3>1 DEF Gates
    <3>3. gate' = g /\ turns' = turns
      BY <1>2, <2>5, <3>1 DEF A!Look
    <3>4. GateOK' /\ TurnsOK' /\ A!Mine' = A!Mine
      BY <1>1, <2>1, <3>2, <3>3 DEF GateOK, TurnsOK, A!Mine
    <3>5. A!TurnsAreWitnessed'
      BY <1>1, <1>11, <2>1, <2>5, <3>2, <3>3, <3>4 DEF A!TurnsAreWitnessed
    <3> QED BY <1>1, <1>12, <2>1, <3>2, <3>3, <3>4, <3>5, GateMoves
  <2> QED BY <2>4, <2>5
<1>3. CASE A!Woken
  <2>1. PICK g : g = [gate EXCEPT !.at = 7]
    OBVIOUS
  <2>2. /\ gate' = g /\ gate.at = 8 /\ gate.verdict = "none" /\ ~gate.calling
        /\ UNCHANGED <<next, pending, response, turns, certified, server, wire, said>>
    BY <1>1, <1>3, <2>1 DEF A!Woken, GateOK
  <2>3. /\ g \in Gates /\ ~g.calling /\ g.profile = gate.profile /\ g.thread = gate.thread /\ g.turn = gate.turn
        /\ g.at = 7 /\ g.obs = gate.obs /\ g.verdict = gate.verdict
    BY <1>1, <2>1, <2>2 DEF Gates
  <2>4. GateOK' /\ TurnsOK'
    BY <1>1, <2>2, <2>3 DEF GateOK, TurnsOK, A!Mine
  <2>5. A!TurnsAreWitnessed'
    BY <1>1, <1>12, <2>2, <2>3, WitnessedStill
  <2> QED BY <1>1, <1>12, <2>2, <2>3, <2>4, <2>5, GateMoves
<1>4. CASE A!WaitEnds
  BY <1>4, <1>12, GateFails DEF A!WaitEnds, A!client
<1>5. CASE A!ContextEnds
  <2>1. UNCHANGED <<gate, next, A!client, certified, server, wire, said>>
    BY <1>5 DEF A!ContextEnds
  <2>2. GateOK' /\ TurnsOK' /\ A!TurnsAreWitnessed'
    BY <1>1, <1>11, <2>1 DEF A!client, GateOK, TurnsOK, A!TurnsAreWitnessed, A!Mine
  <2> QED BY <1>1, <1>12, <2>1, <2>2, GateMoves DEF A!client
<1>6. CASE A!CallFails
  <2>1. gate.verdict = "none"
    BY <1>1, <1>6 DEF A!CallFails, GateOK
  <2> QED BY <1>6, <1>12, <2>1, GateFails DEF A!CallFails
<1> QED BY <1>2, <1>3, <1>4, <1>5, <1>6

LEMMA Certifies ==
  ASSUME Profiles \in Nat \ {0}, AppInv, A!Certify
  PROVE  AppInv'
<1>1. AppTypes /\ gate \in Gates /\ GateOK /\ TurnsOK /\ A!TurnsAreWitnessed /\ turns' \in TurnStates /\ certified \in Seq(A!Keys)
  BY DEF AppInv, AppTypes, A!Certify, A!client
<1>2. /\ gate.at = 9 /\ gate.verdict = "none" /\ ~gate.calling
      /\ UNCHANGED <<next, pending, response, turns, closed, reader, wake, server, wire, said>>
  BY <1>1 DEF A!Certify, A!client, GateOK
<1>21. receipt' = receipt /\ SameRoutes /\ RoutesOK'
  BY ReceiptStays DEF A!Certify, SameRoutes
<1>3. CASE ~A!Correlated
  BY <1>2, <1>21, <1>3, GateFails DEF A!Certify
<1>4. CASE A!Correlated
  <2>1. A!Mine \in A!Keys /\ <<"usage", A!Mine>> \in said /\ <<"completed", A!Mine>> \in said
    BY <1>1, <1>2, <1>4 DEF GateOK, A!Correlated, A!Mine, A!Keys, A!Kinds
  <2>2. certified' = Append(certified, A!Mine)
    BY <1>4 DEF A!Certify
  <2>3. PICK at, profile, verdict : /\ at = IF gate.profile = Profiles THEN gate.at ELSE 4
                                    /\ profile = IF gate.profile = Profiles THEN gate.profile ELSE gate.profile + 1
                                    /\ verdict = IF gate.profile = Profiles THEN "passed" ELSE gate.verdict
    OBVIOUS
  <2>4. PICK g : g = [gate EXCEPT !.at = at, !.obs = A!Fresh, !.profile = profile, !.verdict = verdict]
    OBVIOUS
  <2>5. gate' = g
    BY <1>4, <2>3, <2>4 DEF A!Certify
  <2>6. A!Fresh \in [A!Kinds -> BOOLEAN] /\ \A kind \in A!Kinds : ~A!Fresh[kind]
    BY DEF A!Fresh, A!Kinds
  <2>7. at \in 1 .. 9 /\ profile \in A!Ids /\ verdict \in {"none", "failed", "passed"}
    BY <1>1, <1>2, <2>3 DEF Gates, A!Ids
  <2>8. /\ g \in Gates /\ ~g.calling /\ g.at = at /\ g.obs = A!Fresh /\ g.profile = profile /\ g.verdict = verdict
        /\ g.thread = gate.thread /\ g.turn = gate.turn
    BY <1>1, <1>2, <2>4, <2>6, <2>7 DEF Gates
  <2>9. Len(certified) = gate.profile - 1 /\ gate.profile \in 1 .. Profiles
    BY <1>1, <1>2 DEF GateOK, Gates, A!Ids
  <2>10. /\ certified' \in Seq(A!Keys) /\ Len(certified') = gate.profile /\ certified'[gate.profile] = A!Mine
         /\ \A i \in 1 .. gate.profile - 1 : certified'[i] = certified[i]
    BY <1>1, <2>1, <2>2, <2>9
  <2>11. GateOK'
    BY <1>1, <1>2, <2>3, <2>5, <2>6, <2>8, <2>9, <2>10 DEF GateOK
  <2>12. A!TurnsAreWitnessed'
    <3>1. ASSUME NEW i \in 1 .. Len(certified') PROVE {<<"usage", certified'[i]>>, <<"completed", certified'[i]>>} \subseteq said'
      <4>1. CASE i = gate.profile
        BY <1>2, <2>1, <2>10, <4>1
      <4>2. CASE i # gate.profile
        <5>1. i \in 1 .. Len(certified) /\ certified'[i] = certified[i]
          BY <2>9, <2>10, <4>2
        <5> QED BY <1>1, <1>2, <5>1 DEF A!TurnsAreWitnessed
      <4> QED BY <4>1, <4>2
    <3>2. gate'.at # 8 /\ (gate'.verdict = "passed" => Len(certified') = Profiles)
      BY <1>2, <2>3, <2>5, <2>8, <2>10
    <3>3. receipt'.routes = {}
      BY <1>4, <1>21 DEF A!Correlated, AppInv, RoutesOK
    <3>4. ~gate'.obs.rerouted
      BY <2>5, <2>6, <2>8 DEF A!Kinds
    <3> QED BY <3>1, <3>2, <3>3, <3>4 DEF A!TurnsAreWitnessed
  <2>13. TurnsOK' /\ ~gate'.calling
    BY <1>1, <1>2, <2>5, <2>8 DEF TurnsOK
  <2> QED BY <1>1, <1>2, <1>21, <2>5, <2>8, <2>10, <2>11, <2>12, <2>13, GateMoves
<1> QED BY <1>3, <1>4

LEMMA AppServerHolds ==
  ASSUME Profiles \in Nat \ {0}, None \notin Nat
  PROVE  A!Spec => []A!TurnsAreWitnessed
<1>1. A!Init => AppInv
  <2> SUFFICES ASSUME A!Init PROVE AppInv
    OBVIOUS
  <2>1. A!Fresh \in [A!Kinds -> BOOLEAN] /\ \A kind \in A!Kinds : ~A!Fresh[kind]
    BY DEF A!Fresh, A!Kinds
  <2>2. 1 \in A!Ids /\ 0 \in Numbers
    BY DEF A!Ids, Numbers
  <2>3. PICK g : g = [at |-> 1, calling |-> FALSE, profile |-> 1, thread |-> 0, turn |-> 0, obs |-> A!Fresh, verdict |-> "none"]
    OBVIOUS
  <2>4. gate = g /\ g \in Gates /\ ~g.calling /\ g.at = 1 /\ g.verdict = "none" /\ g.obs = A!Fresh /\ g.profile = 1
    BY <2>1, <2>2, <2>3 DEF A!Init, Gates
  <2>5. server \in Children /\ server.asked = None
    BY DEF A!Init, Children
  <2>6. AppTypes
    <3>1. next = 0 /\ pending = None /\ certified = <<>> /\ turns = [k \in A!Keys |-> A!Fresh]
      BY DEF A!Init
    <3>2. turns \in TurnStates
      BY <2>1, <3>1 DEF TurnStates
    <3> QED BY <2>4, <2>5, <3>1, <3>2 DEF AppTypes
  <2>7. GateOK /\ TurnsOK
    BY <2>1, <2>4 DEF A!Init, GateOK, TurnsOK
  <2>8. WireOK /\ A!TurnsAreWitnessed
    BY <2>4, <2>5 DEF A!Init, A!NoReceipt, WireOK, Asked, Responds, A!TurnsAreWitnessed
  <2>9. RoutesOK
    BY DEF A!Init, A!NoReceipt, RoutesOK
  <2> QED BY <2>6, <2>7, <2>8, <2>9 DEF AppInv
<1>2. AppInv /\ [A!Next]_A!vars => AppInv'
  <2> SUFFICES ASSUME AppInv, [A!Next]_A!vars PROVE AppInv'
    OBVIOUS
  <2>1. CASE UNCHANGED A!vars
    <3>1. UNCHANGED <<gate, next, pending, response, closed, reader, turns, wake, receipt, certified, server, wire, said>>
      BY <2>1 DEF A!vars
    <3>2. AppTypes' /\ GateOK' /\ TurnsOK'
      BY <3>1 DEF AppInv, AppTypes, GateOK, A!Mine, TurnsOK
    <3>3. Lines' = Lines
      BY <3>1 DEF Lines, Fits
    <3>4. WireOK' /\ A!TurnsAreWitnessed'
      BY <3>1, <3>3 DEF AppInv, WireOK, Fits, Asked, Responds, A!TurnsAreWitnessed, A!Mine
    <3>5. RoutesOK'
      BY <3>1, ReceiptStays DEF SameRoutes
    <3> QED BY <3>2, <3>4, <3>5 DEF AppInv
  <2> QED BY <2>1, ServerSteps, ReaderSteps, GateCalls, Returns, Waits, Certifies DEF A!Next
<1>3. AppInv => A!TurnsAreWitnessed
  BY DEF AppInv
<1> QED BY <1>1, <1>2, <1>3, PTL DEF A!Spec

-----------------------------------------------------------------------------
(* In the composition, too, each keeps its word. *)

\* The focus stays where it is, and what is in focus takes a step of its own or none.
LEMMA OneMoves ==
  [ConversationsNext]_allVars =>
     /\ (focus = "phone" <=> (focus = "phone")') /\ (focus = "phone" => [P!Next]_P!vars)
     /\ (focus = "find" <=> (focus = "find")') /\ (focus = "find" => [E!Next]_E!vars)
     /\ (focus = "paid" <=> (focus = "paid")') /\ (focus = "paid" => [D!Next]_D!vars)
     /\ (focus = "gate" <=> (focus = "gate")') /\ (focus = "gate" => [A!Next]_A!vars)
BY DEF ConversationsNext, InChats, InPaid, InFind, InGate, InPhone, allVars,
   vars, paidVars, findVars, gateVars, phoneVars, P!vars, E!vars, D!vars, A!vars

\* The runner moves a device only on what was seen of it: one input for one
\* picture, on the picture and in the window the frame was of, and nobody in
\* between but an input that was given up before the look; and a mirror it
\* started can be stopped, or its caller was told that it could not.
THEOREM ActsOnWhatWasSeenHolds ==
  ASSUME None \notin Callers, None \notin Nat
  PROVE  ConversationsSpec => []ActsOnWhatWasSeen
<1>1. ConversationsInit /\ focus = "phone" => P!Init
  BY DEF ConversationsInit
<1>2. P!Spec => []P!ActsOnWhatWasSeen
  BY FramesHold
<1> QED BY <1>1, <1>2, OneMoves, PTL DEF ConversationsSpec, P!Spec, ActsOnWhatWasSeen

\* The local runner reads a file only where it was at its path without a link;
\* a file nobody touched is in its answer, and an answer some scope of which was
\* cut short says so, however many entries are changed during the search
\* (openNoFollow and search of runner/local, Run of adapter/omp).
THEOREM SearchesAreHonestHolds == ConversationsSpec => []SearchesAreHonest
<1>1. ConversationsInit /\ focus = "find" => E!Init
  BY DEF ConversationsInit
<1>2. E!Spec => []E!SearchesAreHonest
  BY SearchHolds
<1> QED BY <1>1, <1>2, OneMoves, PTL DEF ConversationsSpec, E!Spec, SearchesAreHonest

\* What a paid client spent is told however its call ended, and no answer is
\* taken from one that ever said it had spent more than was permitted:
\* claudecode's and codex's streams under the commission's observer.
THEOREM SpendIsToldHolds == ConversationsSpec => []SpendIsTold
<1>1. ConversationsInit /\ focus = "paid" => D!Init
  BY DEF ConversationsInit
<1>2. D!Spec => []D!SpendIsTold
  BY DelegateHolds
<1> QED BY <1>1, <1>2, OneMoves, PTL DEF ConversationsSpec, D!Spec, SpendIsTold

\* A gate asleep whose turn is over is woken; what it certified is a turn the
\* server said was over and counted, and nothing once a reroute was read: appserver.go's reader and WaitTurn
\* under identity.go's gate, whatever the server says and in whatever order.
THEOREM TurnsAreWitnessedHolds ==
  ASSUME Profiles \in Nat \ {0}, None \notin Nat
  PROVE  ConversationsSpec => []TurnsAreWitnessed
<1>1. ConversationsInit /\ focus = "gate" => A!Init
  BY DEF ConversationsInit
<1>2. A!Spec => []A!TurnsAreWitnessed
  BY AppServerHolds
<1> QED BY <1>1, <1>2, OneMoves, PTL DEF ConversationsSpec, A!Spec, TurnsAreWitnessed
=============================================================================
