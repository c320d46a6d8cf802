------------------------------- MODULE Frames -------------------------------
(* The Android runner (internal/adapter/android): an input is bound to a frame,
   a picture of one device that is good for one input, and the screen is looked
   at again before the input goes out. Every look is a call of adb, and the
   screen, the connection and the other calls move between two of them. A
   picture is what the checks tell apart: its display (size and orientation),
   its focused window and the places of the control a selector names. *)
EXTENDS Naturals, FiniteSets
CONSTANTS Serials,     \* the devices of allowed_serials
          Callers, Screens,
          HelperMode,  \* "adb", "auto" or "helper"
          FrameTTL,
          MaxCalls, MaxChanges,  \* bounds: calls; what time, the devices and people do meanwhile
          None
VARIABLES now,
          screen,      \* per device, the picture it shows
          link,        \* per device, what adb's get-state says: "gone" makes it fail
          states, generations, frames, helper, mirrors,   \* the runner's own maps
          lock,        \* per device, the caller that holds its action lock
          call,        \* per caller, the call it is in
          running,     \* the scrcpy processes that run, each named by its call, and whether Kill has failed on it
          inputs,      \* per device, the inputs that reached it, and those that failed and still may
          sent,        \* the inputs that went out, with what was known of each
          calls, changes
vars == <<now, screen, link, states, generations, frames, helper, mirrors, lock, call, running, inputs, sent, calls, changes>>
device == <<now, screen, link, changes>>

Looks == {"diagnose", "inspect", "screenshot", "semantic", "mirror"}
Actions == {"act", "select"}
Idle == [pc |-> "idle"]
Frame(id) == CHOOSE f \in frames : f.id = id
Drop(d) == {f \in frames : f.serial # d}
Live == {f \in frames : f.expires > now}

Init ==
  /\ now = 0 /\ screen \in [Serials -> Screens] /\ link = [d \in Serials |-> "device"]
  /\ states = [d \in Serials |-> None] /\ generations = [d \in Serials |-> 0]
  /\ frames = {} /\ helper = [d \in Serials |-> None] /\ mirrors = [d \in Serials |-> None]
  /\ lock = [d \in Serials |-> None] /\ call = [c \in Callers |-> Idle]
  /\ running = {} /\ inputs = [d \in Serials |-> [landed |-> {}, late |-> {}]] /\ sent = {} /\ calls = 0 /\ changes = 0

(* The device and the clock *)
Changes == changes < MaxChanges /\ changes' = changes + 1
Redraw(d) == /\ Changes /\ screen' \in {[screen EXCEPT ![d] = s] : s \in Screens \ {screen[d]}}
             /\ UNCHANGED <<now, link, states, generations, frames, helper, mirrors, lock, call, running, inputs, sent, calls>>
Relink(d) == /\ Changes /\ link' \in {[link EXCEPT ![d] = s] : s \in {"device", "offline", "gone"} \ {link[d]}}
             /\ UNCHANGED <<now, screen, states, generations, frames, helper, mirrors, lock, call, running, inputs, sent, calls>>
Tick == /\ Changes /\ now' = now + 1
        /\ UNCHANGED <<screen, link, states, generations, frames, helper, mirrors, lock, call, running, inputs, sent, calls>>

-----------------------------------------------------------------------------
(* Run: the allow-list, and for an input the lock of its device. *)
Ask(c, op, d, id, pc) ==
  /\ call[c].pc = "idle" /\ calls < MaxCalls /\ calls' = calls + 1
  /\ call' = [call EXCEPT ![c] = [pc |-> pc, n |-> calls + 1, op |-> op, d |-> d, id |-> id, seen |-> None, frame |-> None, at |-> None, moved |-> 0]]
Look(c, op, d) == /\ Ask(c, op, d, 0, "serial")
                  /\ UNCHANGED <<device, states, generations, frames, helper, mirrors, lock, running, inputs, sent>>
Act(c, op, d, id) == /\ Ask(c, op, d, id, "lock")
                     /\ UNCHANGED <<device, states, generations, frames, helper, mirrors, lock, running, inputs, sent>>
\* Mutant: the lock of a device does not exclude.
ActionLockShared(c) ==
  /\ call[c].pc = "lock" /\ call' = [call EXCEPT ![c].pc = "serial"]
  /\ UNCHANGED <<device, states, generations, frames, helper, mirrors, lock, running, inputs, sent, calls>>
ActionLock(c) ==
  /\ call[c].pc = "lock" /\ lock[call[c].d] = None
  /\ lock' = [lock EXCEPT ![call[c].d] = c] /\ call' = [call EXCEPT ![c].pc = "serial"]
  /\ UNCHANGED <<device, states, generations, frames, helper, mirrors, running, inputs, sent, calls>>

\* A call is over, and its lock with it.
Unlocked(c) == [d \in Serials |-> IF lock[d] = c THEN None ELSE lock[d]]
Ends(c) == call' = [call EXCEPT ![c] = Idle] /\ lock' = Unlocked(c)
Goes(c, pc) == call' = [call EXCEPT ![c].pc = pc] /\ UNCHANGED lock
\* Any command of adb may fail or run into the timeout: the call says so.
Fails(c) == /\ call[c].pc \in {"probe", "capture", "window", "dump", "check", "window1", "resolve", "window2"}
            /\ Ends(c)
            /\ UNCHANGED <<device, states, generations, frames, helper, mirrors, running, inputs, sent, calls>>

After(op) == IF op \in Actions THEN "frame" ELSE IF op = "mirror" THEN "start" ELSE "helper"
\* serial: get-state, and a state that is not the remembered one begins a new
\* generation, whose frames are none. A get-state that fails changes nothing.
Serial(c) ==
  LET d == call[c].d
      new == states[d] # link[d] IN
  /\ call[c].pc = "serial"
  /\ IF link[d] = "gone"
       THEN Ends(c) /\ UNCHANGED <<states, generations, frames, helper>>
       ELSE /\ states' = [states EXCEPT ![d] = link[d]]
            /\ generations' = [generations EXCEPT ![d] = IF new THEN @ + 1 ELSE @]
            /\ frames' = IF new THEN Drop(d) ELSE frames
            /\ helper' = [helper EXCEPT ![d] = IF new THEN None ELSE @]
            /\ IF link[d] = "device" THEN Goes(c, After(call[c].op)) ELSE Ends(c)
  /\ UNCHANGED <<device, mirrors, running, inputs, sent, calls>>

\* selectHelper: the cached selection of this generation, or a probe that is
\* filed under the generation that held before it.
Served == [diagnose |-> "done", inspect |-> "dump", screenshot |-> "capture", semantic |-> "capture"]
Chosen(c, ok) == IF HelperMode = "helper" /\ ~ok THEN Ends(c)
                 ELSE IF Served[call[c].op] = "done" THEN Ends(c) ELSE Goes(c, Served[call[c].op])
SelectHelper(c) ==
  LET d == call[c].d
      hit == helper[d] # None /\ helper[d].generation = generations[d] /\ call[c].op # "diagnose" IN
  /\ call[c].pc = "helper"
  /\ IF HelperMode = "adb" THEN Chosen(c, TRUE)
     ELSE IF hit THEN Chosen(c, helper[d].ok)
     ELSE call' = [call EXCEPT ![c].pc = "probe", ![c].at = generations[d]] /\ UNCHANGED lock
  /\ UNCHANGED <<device, states, generations, frames, helper, mirrors, running, inputs, sent, calls>>
ProbeHelper(c, ok) ==
  /\ call[c].pc = "probe" /\ (ok => link[call[c].d] = "device")
  /\ helper' = [helper EXCEPT ![call[c].d] = [generation |-> call[c].at, ok |-> ok]]
  /\ Chosen(c, ok)
  /\ UNCHANGED <<device, states, generations, frames, mirrors, running, inputs, sent, calls>>

\* screenshot: the picture and then the generation and the expiry; a semantic
\* one asks for the window and the hierarchy after it, and is stored last.
Online(c) == link[call[c].d] = "device"
Store(c, f) == frames' = Live \cup {f} /\ Ends(c)
Capture(c) ==
  /\ call[c].pc = "capture" /\ Online(c)
  /\ call' = [call EXCEPT ![c].pc = "note", ![c].seen = screen[call[c].d]] /\ UNCHANGED lock
  /\ UNCHANGED <<device, states, generations, frames, helper, mirrors, running, inputs, sent, calls>>
Note(c) ==
  LET f == [id |-> call[c].n, serial |-> call[c].d, generation |-> generations[call[c].d], expires |-> now + FrameTTL,
            shot |-> call[c].seen, window |-> None, turn |-> None] IN
  /\ call[c].pc = "note"
  /\ IF call[c].op = "semantic"
       THEN call' = [call EXCEPT ![c].pc = "window", ![c].frame = f] /\ UNCHANGED <<frames, lock>>
       ELSE Store(c, f)
  /\ UNCHANGED <<device, states, generations, helper, mirrors, running, inputs, sent, calls>>
FocusedWindow(c) ==
  /\ call[c].pc = "window" /\ Online(c)
  /\ call' = [call EXCEPT ![c].pc = "dump", ![c].frame.window = screen[call[c].d].window] /\ UNCHANGED lock
  /\ UNCHANGED <<device, states, generations, frames, helper, mirrors, running, inputs, sent, calls>>
DumpHierarchy(c) ==
  /\ call[c].pc = "dump" /\ Online(c)
  /\ IF call[c].op = "semantic"
       THEN Store(c, [call[c].frame EXCEPT !.turn = screen[call[c].d].turn])
       ELSE Ends(c) /\ UNCHANGED frames
  /\ UNCHANGED <<device, states, generations, helper, mirrors, running, inputs, sent, calls>>

-----------------------------------------------------------------------------
(* An input *)
Known(id) == \E f \in Live : f.id = id
Taken(id) == {f \in Live : f.id # id}
\* validateFrame: the frame goes whatever follows. A selector the payload may
\* not hold, and coordinates outside of the frame, end in Fails.
ValidateFrame(c) ==
  LET d == call[c].d
      id == call[c].id IN
  /\ call[c].pc = "frame" /\ frames' = Taken(id)
  /\ IF Known(id) /\ Frame(id).serial = d /\ Frame(id).generation = generations[d]
          /\ (call[c].op = "select" => Frame(id).window # None)
       THEN call' = [call EXCEPT ![c].pc = "check", ![c].frame = Frame(id)] /\ UNCHANGED lock
       ELSE Ends(c)
  /\ UNCHANGED <<device, states, generations, helper, mirrors, running, inputs, sent, calls>>
\* The second capture: the same picture, or for a selector the same size.
SameScreen(c) == LET s == screen[call[c].d] f == call[c].frame IN
                 IF call[c].op = "select" THEN s.size = f.shot.size ELSE s = f.shot
Recapture(c) ==
  /\ call[c].pc = "check" /\ Online(c)
  /\ IF ~SameScreen(c) THEN Ends(c)
     ELSE /\ call' = [call EXCEPT ![c].pc = IF call[c].op = "select" THEN "window1" ELSE "send",
                                  ![c].seen = screen[call[c].d], ![c].at = inputs[call[c].d]]
          /\ UNCHANGED lock
  /\ UNCHANGED <<device, states, generations, frames, helper, mirrors, running, inputs, sent, calls>>
\* validateSemanticFrame: the window, the orientation and the one control, and
\* the window again (moved: what changed between the first of them and the last).
SameWindow(c) ==
  /\ call[c].pc \in {"window1", "window2"} /\ Online(c)
  /\ IF screen[call[c].d].window = call[c].frame.window
       THEN /\ call' = [call EXCEPT ![c].pc = IF @ = "window1" THEN "resolve" ELSE "send", ![c].moved = changes - @]
            /\ UNCHANGED lock
       ELSE Ends(c)
  /\ UNCHANGED <<device, states, generations, frames, helper, mirrors, running, inputs, sent, calls>>
Resolved(s) == Cardinality(s.controls) = 1
Resolve(c) ==
  LET s == screen[call[c].d] IN
  /\ call[c].pc = "resolve" /\ Online(c)
  /\ IF s.turn = call[c].frame.turn /\ Resolved(s)
       THEN call' = [call EXCEPT ![c].pc = "window2", ![c].seen = s] /\ UNCHANGED lock ELSE Ends(c)
  /\ UNCHANGED <<device, states, generations, frames, helper, mirrors, running, inputs, sent, calls>>
\* tap, swipe, typeText and key; strays are the inputs given up before the look.
Out(c) == LET d == call[c].d IN
          [n |-> call[c].n, op |-> call[c].op, d |-> d, frame |-> call[c].frame, seen |-> call[c].seen, moved |-> call[c].moved,
           between |-> inputs[d].landed \ call[c].at.landed, strays |-> call[c].at.late]
Send(c) ==
  /\ call[c].pc = "send" /\ Online(c)
  /\ inputs' = [inputs EXCEPT ![call[c].d].landed = @ \cup {call[c].n}]
  /\ sent' = sent \cup {Out(c)} /\ Ends(c)
  /\ UNCHANGED <<device, states, generations, frames, helper, mirrors, running, calls>>
\* adb failed or was killed by the timeout: the device never had it, has taken
\* it, or will when the lock is another's.
SendFails(c) ==
  /\ call[c].pc = "send" /\ Ends(c)
  /\ \/ UNCHANGED <<inputs, sent>>
     \/ /\ sent' = sent \cup {Out(c)}
        /\ \E fate \in {"landed", "late"} : inputs' = [inputs EXCEPT ![call[c].d][fate] = @ \cup {call[c].n}]
  /\ UNCHANGED <<device, states, generations, frames, helper, mirrors, running, calls>>
Lands(d, n) ==
  /\ Changes /\ n \in inputs[d].late
  /\ inputs' = [inputs EXCEPT ![d] = [landed |-> @.landed \cup {n}, late |-> @.late \ {n}]]
  /\ UNCHANGED <<now, screen, link, states, generations, frames, helper, mirrors, lock, call, running, sent, calls>>

-----------------------------------------------------------------------------
(* The mirror: one that runs is enough, and scrcpy may not start. *)
Mirror(c) ==
  LET d == call[c].d IN
  /\ call[c].pc = "start" /\ Ends(c)
  /\ \/ UNCHANGED <<mirrors, running>>
     \/ /\ mirrors[d] = None
        /\ mirrors' = [mirrors EXCEPT ![d] = call[c].n] /\ running' = running \cup {[d |-> d, n |-> call[c].n, left |-> FALSE]}
  /\ UNCHANGED <<device, states, generations, frames, helper, inputs, sent, calls>>
Unmirror(c, d) ==
  /\ call[c].pc = "idle" /\ calls < MaxCalls /\ calls' = calls + 1 /\ mirrors[d] # None
  /\ call' = [call EXCEPT ![c] = [pc |-> "kill", d |-> d, n |-> mirrors[d]]]
  /\ mirrors' = [mirrors EXCEPT ![d] = None]
  /\ UNCHANGED <<device, states, generations, frames, helper, lock, running, inputs, sent>>
\* When it fails the process is left running, and nothing but the answer knows of it.
Kill(c) ==
  LET p == [d |-> call[c].d, n |-> call[c].n, left |-> FALSE] IN
  /\ call[c].pc = "kill" /\ Ends(c)
  /\ \/ running' = running \ {p}
     \/ p \in running /\ running' = (running \ {p}) \cup {[p EXCEPT !.left = TRUE]}
  /\ UNCHANGED <<device, states, generations, frames, helper, mirrors, inputs, sent, calls>>
\* A person closes the window: nobody tells the runner.
Exits(p) == /\ p \in running /\ Changes /\ running' = running \ {p}
            /\ UNCHANGED <<now, screen, link, states, generations, frames, helper, mirrors, lock, call, inputs, sent, calls>>

Next ==
  \/ Tick \/ \E p \in running : Exits(p)
  \/ \E d \in Serials : Redraw(d) \/ Relink(d) \/ \E n \in 1 .. calls : Lands(d, n)
  \/ \E c \in Callers :
       \/ \E d \in Serials : \/ Unmirror(c, d)
                             \/ \E op \in Looks : Look(c, op, d)
                             \/ \E op \in Actions, id \in 1 .. calls : Act(c, op, d, id)
       \/ ActionLock(c) \/ Fails(c) \/ Serial(c) \/ SelectHelper(c) \/ \E ok \in BOOLEAN : ProbeHelper(c, ok)
       \/ Capture(c) \/ Note(c) \/ FocusedWindow(c) \/ DumpHierarchy(c)
       \/ ValidateFrame(c) \/ Recapture(c) \/ SameWindow(c) \/ Resolve(c) \/ Send(c) \/ SendFails(c)
       \/ Mirror(c) \/ Kill(c)
Spec == Init /\ [][Next]_vars

-----------------------------------------------------------------------------
\* A frame moves a device once: no two inputs rest on one picture.
OneInputPerFrame == \A x, y \in sent : x.frame.id = y.frame.id => x = y
\* Between the last look at the device and the input nothing reached it but an
\* input of which adb had failed, and its caller been told so, before that look.
NobodyBetween == \A x \in sent : x.between \subseteq x.strays
\* An input without a selector went to the device of its frame when it showed
\* that picture; one with a selector met one control, on a display turned as its
\* frame's was, and in the window of its frame unless that went and came back
\* between the two looks at it.
OnWhatWasSeen ==
  \A x \in sent :
    /\ x.d = x.frame.serial
    /\ IF x.op = "act" THEN x.seen = x.frame.shot
       ELSE /\ x.seen.turn = x.frame.turn /\ Cardinality(x.seen.controls) = 1
            /\ x.seen.window = x.frame.window \/ x.moved >= 2
\* A mirror that runs is remembered, so that it can be stopped, or a call is
\* about to kill it, or has told its caller that it could not.
MirrorsAreKept ==
  \A p \in running : \/ p.left \/ mirrors[p.d] = p.n
                     \/ \E c \in Callers : call[c].pc = "kill" /\ call[c].d = p.d /\ call[c].n = p.n
\* The runner moves a device only on what was seen of it, and keeps what it
\* started or says that it could not end it.
ActsOnWhatWasSeen == OneInputPerFrame /\ NobodyBetween /\ OnWhatWasSeen /\ MirrorsAreKept
=============================================================================
