--------------------------- MODULE Conversations ----------------------------
(* The chats with their device sessions, a call handed to a paid client, a
   search, the app server's client under its gate, and the Android runner: five
   systems that share nothing, of which one is in focus and moves. The others
   stay where they began: the chats with nothing open, the rest at 0. *)
EXTENDS Chats
CONSTANTS Budget, MaxEvents, Unpriced, MaxSwaps, Profiles, MaxFaults, MaxOnWire,
          Serials, Callers, Screens, HelperMode, FrameTTL, MaxCalls, MaxChanges
VARIABLES focus,
  client, phase, lines, parsed, out, child, ctx, over, answer, last, peak,
  engine, dir, files, stage, left, entries, opening, found, cut, live, outcome, swaps, touched, plain, missed,
  gate, next, pending, response, closed, reader, turns, receipt, wake, open, certified, server, wire, said, faults,
  now, screen, link, states, generations, frames, helper, mirrors, lock, call, mirroring, inputs, sent, calls, changes

P == INSTANCE Frames WITH running <- mirroring
E == INSTANCE Search WITH phase <- stage, read <- opening, ctx <- live, answer <- outcome
D == INSTANCE Delegate
A == INSTANCE AppServer WITH ctx <- open

paidVars == <<client, phase, lines, parsed, out, child, ctx, over, answer, last, peak>>
findVars == <<engine, dir, files, stage, left, entries, opening, found, cut, live, outcome, swaps, touched, plain, missed>>
gateVars == <<gate, next, pending, response, closed, reader, turns, receipt, wake, open, certified, server, wire, said, faults>>
phoneVars == <<now, screen, link, states, generations, frames, helper, mirrors, lock, call, mirroring, inputs, sent, calls, changes>>
allVars == <<vars, paidVars, findVars, gateVars, phoneVars, focus>>

NoPaid == client = 0 /\ phase = 0 /\ lines = 0 /\ parsed = 0 /\ out = 0 /\ child = 0 /\ ctx = 0 /\ over = 0 /\ answer = 0 /\ last = 0 /\ peak = 0
NoFind == engine = 0 /\ dir = 0 /\ files = 0 /\ stage = 0 /\ left = 0 /\ entries = 0 /\ opening = 0 /\ found = 0 /\ cut = 0 /\ live = 0 /\ outcome = 0 /\ swaps = 0 /\ touched = 0 /\ plain = 0 /\ missed = 0
NoGate == gate = 0 /\ next = 0 /\ pending = 0 /\ response = 0 /\ closed = 0 /\ reader = 0 /\ turns = 0 /\ receipt = 0 /\ wake = 0 /\ open = 0 /\ certified = 0 /\ server = 0 /\ wire = 0 /\ said = 0 /\ faults = 0
NoPhone == now = 0 /\ screen = 0 /\ link = 0 /\ states = 0 /\ generations = 0 /\ frames = 0 /\ helper = 0 /\ mirrors = 0 /\ lock = 0 /\ call = 0 /\ mirroring = 0 /\ inputs = 0 /\ sent = 0 /\ calls = 0 /\ changes = 0
ConversationsInit ==
  /\ focus \in {"chats", "paid", "find", "gate", "phone"}
  /\ Init /\ (focus # "chats" => upstream = [n \in Names |-> None])
  /\ IF focus = "paid" THEN D!Init ELSE NoPaid
  /\ IF focus = "find" THEN E!Init ELSE NoFind
  /\ IF focus = "gate" THEN A!Init ELSE NoGate
  /\ IF focus = "phone" THEN P!Init ELSE NoPhone
InChats == focus = "chats" /\ Next /\ UNCHANGED <<paidVars, findVars, gateVars, phoneVars, focus>>
InPaid == focus = "paid" /\ D!Next /\ UNCHANGED <<vars, findVars, gateVars, phoneVars, focus>>
InFind == focus = "find" /\ E!Next /\ UNCHANGED <<vars, paidVars, gateVars, phoneVars, focus>>
InGate == focus = "gate" /\ A!Next /\ UNCHANGED <<vars, paidVars, findVars, phoneVars, focus>>
InPhone == focus = "phone" /\ P!Next /\ UNCHANGED <<vars, paidVars, findVars, gateVars, focus>>
ConversationsNext == InChats \/ InPaid \/ InFind \/ InGate \/ InPhone
ConversationsSpec == ConversationsInit /\ [][ConversationsNext]_allVars

\* What a paid client spent is told, whatever ends its call (Delegate).
SpendIsTold == focus = "paid" => D!SpendIsTold
\* A search reads what is in the repository and says when it is partial (Search).
SearchesAreHonest == focus = "find" => E!SearchesAreHonest
\* What the identity gate certified is a turn the server said was over, in a
\* session of which no reroute had been read by then (AppServer).
TurnsAreWitnessed == focus = "gate" => A!TurnsAreWitnessed
\* An Android input lands on what its caller was shown, and what the runner started
\* can be ended, or its caller was told that it could not (Frames).
ActsOnWhatWasSeen == focus = "phone" => P!ActsOnWhatWasSeen
=============================================================================
