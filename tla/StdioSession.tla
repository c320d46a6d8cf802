---------------------------- MODULE StdioSession ----------------------------
(***************************************************************************)
(* internal/mcpstdio: one JSON-RPC session over a child's pipes, shared by *)
(* every caller.  The session owns no process; it has a reader goroutine,  *)
(* a gate for the handshake, a gate for the pipe's write end (held by the  *)
(* goroutine that writes, also after its caller has left) and the table of *)
(* requests waiting for an answer.  A frame is its method and its id; an   *)
(* answer is the id it carries and whether it is a result, a refusal or    *)
(* the child saying it speaks the legacy protocol.                         *)
(***************************************************************************)
EXTENDS Naturals, Sequences

CONSTANTS
  Callers,
  Modes,      \* subset of {"legacy", "auto", "modern"}
  MaxCalls,   \* bound on calls per caller
  MaxSaid,    \* bound on lines the child ever prints
  None, Reader

VARIABLES
  mode,
  modern, initialized, dead,   \* the Session's fields
  initGate,                    \* who is inside Initialize
  pipe,                        \* the frame being written, and for whom
  seq, pending,                \* last id given; ids waiting for an answer
  th, reader,
  out,                         \* lines printed and not yet read
  child                        \* the process at the other end, external

vars == <<mode, modern, initialized, dead, initGate, pipe, seq, pending, th, reader, out, child>>

Methods == {"initialize", "initialized", "discover", "tools/call", "canceled"}
Kinds == {"result", "refused", "legacy"}
Idle == [pc |-> "idle", m |-> "tools/call", id |-> 0, ans |-> None, calls |-> 0]
NoFrame == [by |-> None, m |-> "tools/call", id |-> 0]

TypeOK ==
  /\ mode \in Modes /\ modern \in BOOLEAN /\ initialized \in BOOLEAN /\ dead \in BOOLEAN
  /\ initGate \in Callers \cup {None}
  /\ pipe.by \in Callers \cup {None, Reader}
  /\ seq \in Nat /\ pending \subseteq Nat
  /\ \A c \in Callers : /\ th[c].pc \in {"idle", "init", "gate", "write", "await"}
                        /\ th[c].m \in Methods
  /\ reader \in {"scan", "gate", "write", "ended"}
  /\ child.said \in 0..MaxSaid

Init ==
  /\ mode \in Modes /\ modern = (mode # "legacy")
  /\ initialized = FALSE /\ dead = FALSE /\ initGate = None
  /\ pipe = NoFrame /\ seq = 0 /\ pending = {}
  /\ th = [c \in Callers |-> Idle] /\ reader = "scan" /\ out = <<>>
  /\ child = [up |-> TRUE, reads |-> TRUE, asked |-> {}, said |-> 0, greeted |-> FALSE, hellos |-> 0]

At(c, pc) == th[c].pc = pc
Leaves(c, table) ==
  /\ th' = [th EXCEPT ![c] = [Idle EXCEPT !.calls = th[c].calls]]
  /\ pending' = table \ {th[c].id}
  /\ initGate' = IF initGate = c THEN None ELSE initGate
\* rpc: the id enters the table before the frame is written.
Asks(c, m) ==
  /\ seq' = seq + 1
  /\ pending' = (pending \ {th[c].id}) \cup {seq + 1}
  /\ th' = [th EXCEPT ![c] = [@ EXCEPT !.pc = "gate", !.m = m, !.id = seq + 1, !.ans = None]]
Notifies(c, m) == th' = [th EXCEPT ![c].pc = "gate", ![c].m = m] /\ UNCHANGED <<seq, pending>>

-----------------------------------------------------------------------------
Call(c) ==
  /\ At(c, "idle") /\ th[c].calls < MaxCalls
  /\ th' = [th EXCEPT ![c] = [Idle EXCEPT !.pc = "init", !.calls = th[c].calls + 1]]
  /\ UNCHANGED <<mode, modern, initialized, dead, initGate, pipe, seq, pending, reader, out, child>>

\* Initialize: one caller at a time inside; a session already greeted lets the
\* caller through to its tools/call.
Initialize(c) ==
  /\ At(c, "init") /\ initGate = None
  /\ IF initialized THEN Asks(c, "tools/call") /\ UNCHANGED initGate
     ELSE initGate' = c /\ Asks(c, IF modern THEN "discover" ELSE "initialize")
  /\ UNCHANGED <<mode, modern, initialized, dead, pipe, reader, out, child>>

\* Every wait of a caller also ends with its context or with the session: at the
\* handshake's gate and at the write gate.
GivesUpWaiting(c) ==
  /\ th[c].pc \in {"init", "gate"}
  /\ Leaves(c, pending)
  /\ UNCHANGED <<mode, modern, initialized, dead, pipe, seq, reader, out, child>>

TakesPipe(c) ==
  /\ At(c, "gate") /\ pipe.by = None
  /\ pipe' = [by |-> c, m |-> th[c].m, id |-> th[c].id]
  /\ th' = [th EXCEPT ![c].pc = "write"]
  /\ UNCHANGED <<mode, modern, initialized, dead, initGate, seq, pending, reader, out, child>>

\* What the child makes of a frame.
Heard(m, id) ==
  [child EXCEPT !.asked = IF m \in {"initialize", "discover", "tools/call"} THEN @ \cup {[m |-> m, id |-> id]} ELSE @,
                !.greeted = @ \/ m = "initialized",
                !.hellos = IF m = "initialize" /\ @ < 2 THEN @ + 1 ELSE @]

\* The write ends well: the frame is with the child, and its caller (which would
\* have closed the session had it left) waits for the answer or goes on after
\* its notification.
Written ==
  /\ pipe.by # None /\ child.up /\ child.reads /\ ~dead
  /\ pipe' = NoFrame
  /\ child' = Heard(pipe.m, pipe.id)
  /\ IF pipe.by = Reader
     THEN reader' = "scan" /\ UNCHANGED <<th, seq, pending, initialized, initGate>>
     ELSE LET c == pipe.by IN
          /\ UNCHANGED reader
          /\ CASE pipe.m = "initialized" -> initialized' = TRUE /\ initGate' = None /\ Asks(c, "tools/call")
               [] pipe.m = "canceled"    -> Leaves(c, pending) /\ UNCHANGED <<seq, initialized>>
               [] OTHER -> th' = [th EXCEPT ![c].pc = "await"] /\ UNCHANGED <<seq, pending, initialized, initGate>>
  /\ UNCHANGED <<mode, modern, dead, out>>

\* markDead, once: everybody waiting is told, the table is emptied.
Cleared == IF dead THEN pending ELSE {}
MarkDead == dead' = TRUE /\ pending' = Cleared

\* The write fails (the child left, or the pipe was closed): the session is dead.
\* The writing goroutine gives the gate back in either case.
WriteFails ==
  /\ pipe.by # None /\ (~child.up \/ dead)
  /\ pipe' = NoFrame /\ dead' = TRUE
  /\ reader' = IF pipe.by = Reader /\ reader = "write" THEN "scan" ELSE reader
  /\ IF pipe.by # Reader /\ At(pipe.by, "write") /\ th[pipe.by].id = pipe.id
     THEN Leaves(pipe.by, Cleared) ELSE pending' = Cleared /\ UNCHANGED <<th, initGate>>
  /\ UNCHANGED <<mode, modern, initialized, seq, out, child>>

\* The context ends with half a frame in the pipe: the session is closed, and the
\* goroutine keeps the gate until its write returns.
CancelledMidWrite(c) ==
  /\ At(c, "write")
  /\ Leaves(c, Cleared)
  /\ dead' = TRUE
  /\ UNCHANGED <<mode, modern, initialized, pipe, seq, reader, out, child>>

\* The answer in the caller's channel. Only an explicit fallback of an auto
\* session turns it legacy, for good.
Answered(c) ==
  /\ At(c, "await") /\ th[c].ans # None
  /\ LET k == th[c].ans.kind IN
     CASE th[c].m = "tools/call" -> Leaves(c, pending) /\ UNCHANGED <<modern, initialized, seq>>
       [] th[c].m = "initialize" /\ k # "refused" -> Notifies(c, "initialized") /\ UNCHANGED <<modern, initialized, initGate>>
       [] th[c].m = "discover" /\ k = "result" ->
            initialized' = TRUE /\ initGate' = None /\ Asks(c, "tools/call") /\ UNCHANGED modern
       [] th[c].m = "discover" /\ k # "result" /\ mode = "auto" ->
            modern' = FALSE /\ Asks(c, "initialize") /\ UNCHANGED <<initialized, initGate>>
       [] OTHER -> Leaves(c, pending) /\ UNCHANGED <<modern, initialized, seq>>
  /\ UNCHANGED <<mode, dead, pipe, reader, out, child>>

ToldDead(c) ==
  /\ At(c, "await") /\ dead
  /\ Leaves(c, pending)
  /\ UNCHANGED <<mode, modern, initialized, dead, pipe, seq, reader, out, child>>

\* The context ends with the request out: a call still in the table is cancelled
\* in a bounded write of its own, a handshake is just left.
ContextEnds(c) ==
  /\ At(c, "await")
  /\ IF th[c].m = "tools/call" /\ th[c].id \in pending
     THEN Notifies(c, "canceled") /\ UNCHANGED initGate
     ELSE Leaves(c, pending) /\ UNCHANGED seq
  /\ UNCHANGED <<mode, modern, initialized, dead, pipe, reader, out, child>>

-----------------------------------------------------------------------------
(* The reader: route, refuse, and the end of the pipe. *)

\* Mutant: whoever is waiting gets the line.
DeliverToAnybody(line) ==
  /\ pending' = pending \ {line.id}
  /\ th' = [c \in Callers |-> IF At(c, "await") /\ th[c].id \in pending
                              THEN [th[c] EXCEPT !.ans = [id |-> line.id, kind |-> line.kind]] ELSE th[c]]
\* pending.deliver: the waiter of that id leaves the table and has the answer;
\* an answer nobody waits for is dropped.
Deliver(line) ==
  /\ pending' = pending \ {line.id}
  /\ th' = [c \in Callers |-> IF line.id \in pending /\ th[c].id = line.id
                              THEN [th[c] EXCEPT !.ans = [id |-> line.id, kind |-> line.kind]] ELSE th[c]]

Route ==
  /\ reader = "scan" /\ out # <<>>
  /\ out' = Tail(out)
  /\ IF Head(out).kind = "request"
     THEN reader' = "gate" /\ UNCHANGED <<pending, th>>
     ELSE Deliver(Head(out)) /\ UNCHANGED reader
  /\ UNCHANGED <<mode, modern, initialized, dead, initGate, pipe, seq, child>>

RefuseTakesPipe ==
  /\ reader = "gate" /\ pipe.by = None
  /\ pipe' = [by |-> Reader, m |-> "canceled", id |-> 0] /\ reader' = "write"
  /\ UNCHANGED <<mode, modern, initialized, dead, initGate, seq, pending, th, out, child>>

\* Mutant: the write of a refusal has no bound.
RefuseTimesOutAtGate ==
  /\ reader = "gate" /\ reader' = "scan"
  /\ UNCHANGED <<mode, modern, initialized, dead, pending, initGate, pipe, seq, th, out, child>>
\* The refusal's five seconds: at the gate it is given up, in the write the
\* session is closed.
RefuseTimesOut ==
  /\ reader \in {"gate", "write"} /\ reader' = "scan"
  /\ IF reader = "write" THEN MarkDead ELSE UNCHANGED <<dead, pending>>
  /\ UNCHANGED <<mode, modern, initialized, initGate, pipe, seq, th, out, child>>

ReadEnds ==
  /\ reader = "scan" /\ out = <<>> /\ ~child.up
  /\ reader' = "ended" /\ MarkDead
  /\ UNCHANGED <<mode, modern, initialized, initGate, pipe, seq, th, out, child>>

\* Close, by the supervisor that owns the process.
Close ==
  /\ ~dead /\ MarkDead
  /\ UNCHANGED <<mode, modern, initialized, initGate, pipe, seq, th, reader, out, child>>

-----------------------------------------------------------------------------
(* The child, external: it answers in any order, late or twice, asks questions
   of its own, stops reading, and leaves. *)

Says(line) ==
  /\ child.up /\ child.said < MaxSaid /\ out' = Append(out, line)
ChildAnswers(r, k) ==
  /\ r \in child.asked
  /\ k = "legacy" => r.m = "discover"
  /\ Says([kind |-> k, id |-> r.id])
  /\ child' = [child EXCEPT !.said = @ + 1, !.greeted = @ \/ (r.m = "discover" /\ k = "result")]
  /\ UNCHANGED <<mode, modern, initialized, dead, initGate, pipe, seq, pending, th, reader>>
ChildAsks ==
  /\ Says([kind |-> "request", id |-> 0])
  /\ child' = [child EXCEPT !.said = @ + 1]
  /\ UNCHANGED <<mode, modern, initialized, dead, initGate, pipe, seq, pending, th, reader>>
ChildStalls ==
  /\ child.up /\ child.reads /\ child' = [child EXCEPT !.reads = FALSE]
  /\ UNCHANGED <<mode, modern, initialized, dead, initGate, pipe, seq, pending, th, reader, out>>
ChildLeaves ==
  /\ child.up /\ child' = [child EXCEPT !.up = FALSE]
  /\ UNCHANGED <<mode, modern, initialized, dead, initGate, pipe, seq, pending, th, reader, out>>

Caller(c) == Initialize(c) \/ GivesUpWaiting(c) \/ TakesPipe(c) \/ CancelledMidWrite(c)
             \/ Answered(c) \/ ToldDead(c) \/ ContextEnds(c)
Reads == Route \/ RefuseTakesPipe \/ RefuseTimesOut \/ ReadEnds
Child == (\E r \in child.asked, k \in Kinds : ChildAnswers(r, k)) \/ ChildAsks \/ ChildStalls \/ ChildLeaves
Next == (\E c \in Callers : Call(c) \/ Caller(c)) \/ Written \/ WriteFails \/ Reads \/ Close \/ Child

\* Every caller has a deadline and every refusal five seconds, goroutines that can
\* run do; the child owes nothing.
Fairness == (\A c \in Callers : WF_vars(Caller(c))) /\ WF_vars(Reads) /\ WF_vars(WriteFails)
Spec == Init /\ [][Next]_vars /\ Fairness

-----------------------------------------------------------------------------
\* An answer is handed to the request that carries its id, however late it comes
\* and whoever has asked since (mcpstdio.go route, pending.deliver); and a
\* tools/call is in the pipe only of a child that has been greeted, whichever
\* caller's handshake was abandoned half way (Initialize, legacyInitialize).
AnswersReachTheirRequest ==
  /\ \A c \in Callers : th[c].ans # None => th[c].ans.id = th[c].id
  /\ pipe.by # None /\ pipe.m = "tools/call" => child.greeted

\* Every call returns and the reader never stays in a refusal: no child, however
\* it stalls, keeps a caller past its deadline or the reader past its five
\* seconds (writeContext, refuse, cancelRequest).
NobodyStaysBlocked ==
  /\ \A c \in Callers : ~At(c, "idle") ~> At(c, "idle")
  /\ reader \in {"gate", "write"} ~> reader \in {"scan", "ended"}

\* What the package comment promises of Initialize: callers can invoke it
\* "without a second one ever reaching the wire".
OneInitialize == child.hellos < 2
=============================================================================
