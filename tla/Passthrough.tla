---------------------------- MODULE Passthrough ----------------------------
(***************************************************************************)
(* internal/passthrough: one upstream MCP server that every chat shares.   *)
(* Init picks the transport: a child process on a pipe (stdio.go) or a     *)
(* server at an address (passthrough.go).  An "instance" numbers what      *)
(* ensure produced: a child process, or an HTTP session; "gone" is a child *)
(* that exited, or a session the server no longer knows.                   *)
(*                                                                         *)
(* Callers are the chats' goroutines.  b.mu is held by ensure for the      *)
(* whole spawn and handshake, so it is a variable; the short critical      *)
(* sections that only read or write a few fields are single steps guarded  *)
(* by mu = None.  Payloads are abstracted to who wrote and who answered;   *)
(* a tool outside the allow list is refused before any state is touched.   *)
(***************************************************************************)
EXTENDS Naturals, FiniteSets, Sequences

CONSTANTS
  Callers,     \* goroutines asking something of the backend
  Links,       \* the links considered: a transport in {"stdio", "http"}, a mode in
               \* {"legacy", "auto", "modern"} and its bounds on processes / sessions and on calls of Close
  MaxAsks,     \* bound on operations per caller
  None, Reader

ASSUME PassthroughAssumption ==
  /\ None \notin Callers \cup Nat /\ Reader \notin Callers
  /\ \A l \in Links : l.insts \in Nat /\ l.closes \in Nat

VARIABLES
  transport, mode,
  mu,          \* holder of b.mu across steps
  cur,         \* b.proc, or the open session: 0 is none
  inst,        \* every instance ever created
  activeModern, gen,
  cat,         \* catalogCache
  th,          \* the callers
  closing,     \* instance a Close has taken and not yet stopped; None: no Close under way
  closes       \* calls of Close still to come

vars == <<transport, mode, mu, cur, inst, activeModern, gen, cat, th, closing, closes>>
fixed == <<transport, mode>>

Inst == DOMAIN inst
Ops == {"tools", "call", "device"}
Pcs == {"idle", "lock", "spawn", "hand", "inval", "bump", "check", "get",
        "wait", "era", "write", "blocked", "await", "cancel", "lease", "validate"}

Idle == [pc |-> "idle", op |-> "tools", stage |-> "first", want |-> FALSE, probe |-> FALSE,
         p |-> 0, g |-> 0, modern |-> FALSE, retry |-> FALSE, from |-> 0, ran |-> {}, asks |-> 0]

TypeOK ==
  /\ \E l \in Links : transport = l.transport /\ mode = l.mode
  /\ mu \in Callers \cup {None}
  /\ cur \in 0..Len(inst)
  /\ inst \in [Inst -> [st : {"none", "up", "gone", "stopped"}, modern : BOOLEAN,
                        stalled : BOOLEAN, wmu : Callers \cup {None, Reader}]]
  /\ activeModern \in BOOLEAN /\ gen \in Nat
  /\ cat \in [loaded : BOOLEAN, fresh : BOOLEAN, gen : Nat, from : 0..Len(inst), wait : Callers \cup {None}]
  /\ \A c \in Callers : /\ th[c].pc \in Pcs /\ th[c].op \in Ops
                        /\ th[c].p \in 0..Len(inst) /\ th[c].from \in 0..Len(inst)
                        /\ th[c].ran \subseteq Inst \X (0..1)
  /\ closing \in 0..Len(inst) \cup {None} /\ closes \in Nat

Fresh(i) == inst[i].st = "none"
Live(i) == i # 0 /\ inst[i].st = "up"
NextInst == CHOOSE i \in Inst : Fresh(i) /\ \A j \in Inst : Fresh(j) => i <= j
Unborn == [st |-> "none", modern |-> FALSE, stalled |-> FALSE, wmu |-> None]
Stopped(i) == IF i = 0 THEN inst
              ELSE [inst EXCEPT ![i] = [@ EXCEPT !.st = "stopped", !.stalled = FALSE, !.wmu = None]]
Empty == [loaded |-> FALSE, fresh |-> FALSE, gen |-> 0, from |-> 0, wait |-> None]
\* catalogCache.invalidate: the catalogue goes, the load under way stays.
Forgotten == [Empty EXCEPT !.wait = cat.wait]

Init ==
  /\ \E l \in Links : /\ transport = l.transport /\ mode = l.mode
                      /\ inst = [i \in 1..l.insts |-> Unborn] /\ closes = l.closes
  /\ mu = None /\ cur = 0 /\ activeModern = FALSE /\ gen = 0
  /\ cat = Empty
  /\ th = [c \in Callers |-> Idle]
  /\ closing = None

At(c, pc) == th[c].pc = pc
Go(c, pc) == th' = [th EXCEPT ![c].pc = pc]

\* Returns from the operation. A leader of the catalogue load releases its
\* waiters, and they look at the catalogue again.
Done(c) == [Idle EXCEPT !.asks = th[c].asks]
Woken(c) == [d \in Callers |-> IF At(d, "wait") /\ cat.wait = c THEN [th[d] EXCEPT !.pc = "get"] ELSE th[d]]
Leave(c) == th' = [Woken(c) EXCEPT ![c] = Done(c)]
Released(c, C) == IF C.wait = c THEN [C EXCEPT !.wait = None] ELSE C
\* An operation that failed in ensure or in its request: Tools also forgets the
\* catalogue, whether or not it was leading a load.
Fails(c) ==
  /\ Leave(c)
  /\ cat' = Released(c, IF th[c].op = "tools" THEN Forgotten ELSE cat)

-----------------------------------------------------------------------------
(* The operations a chat begins: Tools, Call, and ContractTools followed by
   CallContract ("device"). *)

Begin(c, op) ==
  /\ At(c, "idle") /\ th[c].asks < MaxAsks
  /\ op = "device" => transport = "stdio"
  /\ th' = [th EXCEPT ![c] = [Idle EXCEPT !.pc = "lock", !.op = op, !.asks = th[c].asks + 1]]
  /\ UNCHANGED <<fixed, mu, cur, inst, activeModern, gen, cat, closing, closes>>

\* What follows ensure: the capability check the first time, the request the second.
AfterEnsure(c) == IF th[c].stage = "first" THEN "check" ELSE "era"

\* ensure: a live process is returned as it is, a gone one is reaped. An open
\* HTTP session is believed until the server refuses it.
Ensure(c) ==
  /\ At(c, "lock") /\ mu = None
  /\ IF (transport = "http" /\ cur # 0) \/ Live(cur)
     THEN /\ th' = [th EXCEPT ![c].pc = AfterEnsure(c), ![c].p = cur]
          /\ UNCHANGED <<mu, cur, inst>>
     ELSE /\ mu' = c /\ cur' = 0 /\ inst' = Stopped(cur)
          /\ th' = [th EXCEPT ![c].pc = "spawn", ![c].want = (mode # "legacy"),
                              ![c].probe = (mode = "auto")]
  /\ UNCHANGED <<fixed, activeModern, gen, cat, closing, closes>>

\* spawn: the era is assigned before the command is started, and stays assigned
\* when it cannot be started.
Spawn(c) ==
  /\ At(c, "spawn")
  /\ \/ /\ \E i \in Inst : Fresh(i)
        /\ inst' = [inst EXCEPT ![NextInst] = [Unborn EXCEPT !.st = "up", !.modern = th[c].want]]
        /\ th' = [th EXCEPT ![c].pc = "hand", ![c].p = NextInst]
        /\ activeModern' = th[c].want /\ UNCHANGED <<mu, cat>>
     \/ /\ mu' = None /\ Fails(c) /\ UNCHANGED inst
        /\ activeModern' = (th[c].want /\ ~(transport = "http" /\ th[c].probe))
  /\ UNCHANGED <<fixed, cur, gen, closing, closes>>

\* startLocked publishes what it started, under a generation of its own.
\* Mutant: the generation stays.
PublishSameGeneration(c) == cur' = th[c].p /\ gen' = gen
Publish(c) == cur' = th[c].p /\ gen' = gen + 1

\* The handshake is answered. A stdio probe is stopped and a fresh process
\* started in the era it proved; anything else becomes the backend's instance.
HandshakeOK(c) ==
  /\ At(c, "hand") /\ Live(th[c].p)
  /\ IF th[c].probe /\ transport = "stdio"
     THEN /\ inst' = Stopped(th[c].p)
          /\ th' = [th EXCEPT ![c].pc = "spawn", ![c].p = 0, ![c].probe = FALSE]
          /\ UNCHANGED <<mu, cur, gen>>
     ELSE /\ Publish(c) /\ mu' = None
          /\ Go(c, AfterEnsure(c)) /\ UNCHANGED inst
  /\ UNCHANGED <<fixed, activeModern, cat, closing, closes>>

\* Mutant: the probe is left running.
HandshakeFallbackLeaks(c) ==
  /\ At(c, "hand") /\ th[c].probe
  /\ activeModern' = FALSE
  /\ th' = [th EXCEPT ![c].pc = "spawn", ![c].p = 0, ![c].probe = FALSE, ![c].want = FALSE]
  /\ UNCHANGED <<fixed, mu, cur, inst, gen, cat, closing, closes>>
\* Discovery answered with "method not found" or a legacy version: auto falls
\* back to the legacy handshake, on a fresh process over stdio.
HandshakeFallback(c) ==
  /\ At(c, "hand") /\ th[c].probe
  /\ inst' = Stopped(th[c].p)
  /\ activeModern' = FALSE
  /\ th' = [th EXCEPT ![c].pc = "spawn", ![c].p = 0, ![c].probe = FALSE, ![c].want = FALSE]
  /\ UNCHANGED <<fixed, mu, cur, gen, cat, closing, closes>>

\* Mutant: the lock is not released on this path.
HandshakeFailsHolding(c) ==
  /\ At(c, "hand")
  /\ inst' = Stopped(th[c].p) /\ Fails(c)
  /\ activeModern' = IF th[c].probe THEN FALSE ELSE activeModern
  /\ UNCHANGED <<fixed, mu, cur, gen, closing, closes>>
\* A refusal, an unreadable answer, the server leaving after the request was
\* written, or the handshake's own timeout.
HandshakeFails(c) ==
  /\ At(c, "hand")
  /\ inst' = Stopped(th[c].p) /\ mu' = None /\ Fails(c)
  /\ activeModern' = IF th[c].probe THEN FALSE ELSE activeModern
  /\ UNCHANGED <<fixed, cur, gen, closing, closes>>

\* The child left before the handshake's bytes were in its pipe: sendWithMode
\* answers a failed write with invalidate, here with b.mu held by the caller.
HandshakeWriteFails(c) ==
  /\ At(c, "hand") /\ transport = "stdio" /\ ~Live(th[c].p)
  /\ Go(c, "inval")
  /\ UNCHANGED <<fixed, mu, cur, inst, activeModern, gen, cat, closing, closes>>

-----------------------------------------------------------------------------
(* Tools, Call and ContractTools between ensure and the request. *)

\* A modern server that did not advertise tools is refused; ContractTools takes
\* its lease in the same critical section, and refuses a process already replaced.
Check(c) ==
  /\ At(c, "check") /\ mu = None
  /\ LET stale == th[c].op = "device" /\ (th[c].p # cur \/ ~Live(cur)) IN
     \/ (activeModern \/ stale) /\ Leave(c) /\ UNCHANGED cat
     \/ /\ ~stale /\ UNCHANGED cat
        /\ th' = [th EXCEPT ![c] = [@ EXCEPT !.stage = "again",
                    !.pc = IF th[c].op = "call" THEN "lock" ELSE "get",
                    !.g = gen, !.modern = activeModern]]
  /\ UNCHANGED <<fixed, mu, cur, inst, activeModern, gen, closing, closes>>

Hit(c) == cat.loaded /\ cat.fresh /\ cat.gen = th[c].g
\* What happens once a catalogue is in hand: Tools returns it, a device call
\* goes on to validate its lease again.
Listed(c, from) ==
  IF th[c].op = "tools" THEN Leave(c)
  ELSE th' = [Woken(c) EXCEPT ![c].pc = "lease", ![c].from = from]

\* catalogCache.get: a hit, a load to wait for, or the lead of a new one.
CatalogGet(c) ==
  /\ At(c, "get")
  /\ \/ Hit(c) /\ Listed(c, cat.from) /\ UNCHANGED cat
     \/ ~Hit(c) /\ cat.wait # None /\ Go(c, "wait") /\ UNCHANGED cat
     \/ /\ ~Hit(c) /\ cat.wait = None
        /\ cat' = [cat EXCEPT !.wait = c]
        /\ Go(c, IF th[c].op = "device" THEN "write" ELSE "lock")
  /\ UNCHANGED <<fixed, mu, cur, inst, activeModern, gen, closing, closes>>

WaitCancelled(c) ==
  /\ At(c, "wait") /\ Leave(c)
  /\ UNCHANGED <<fixed, mu, cur, inst, activeModern, gen, cat, closing, closes>>

\* A modern listing's ttlMs runs out.
Expire ==
  /\ cat.loaded /\ cat.fresh /\ cat.from # 0 /\ inst[cat.from].modern
  /\ cat' = [cat EXCEPT !.fresh = FALSE]
  /\ UNCHANGED <<fixed, mu, cur, inst, activeModern, gen, th, closing, closes>>

\* ContractTools checks its lease again once the catalogue is there, and
\* CallContract once more before it writes.
LeaseCurrent(c) == th[c].p = cur /\ Live(cur) /\ th[c].g = gen /\ th[c].modern = activeModern
CheckLease(c) ==
  /\ th[c].pc \in {"lease", "validate"} /\ mu = None
  /\ IF LeaseCurrent(c)
     THEN Go(c, IF At(c, "lease") THEN "validate" ELSE "write")
     ELSE Leave(c)
  /\ UNCHANGED <<fixed, mu, cur, inst, activeModern, gen, cat, closing, closes>>

-----------------------------------------------------------------------------
(* One request: attempt, send, sendWithMode. *)

\* The era, and over HTTP the session, are read under the lock after ensure has
\* released it.
ReadLink(c) ==
  /\ At(c, "era") /\ mu = None
  /\ th' = [th EXCEPT ![c].pc = "write", ![c].modern = activeModern,
                      ![c].p = IF transport = "http" THEN cur ELSE @]
  /\ UNCHANGED <<fixed, mu, cur, inst, activeModern, gen, cat, closing, closes>>

\* Is this request a tools/call, which may have an effect?
IsCall(c) == th[c].op = "call" \/ (th[c].op = "device" /\ th[c].from # 0)
Ran(c) == IF IsCall(c) THEN th[c].ran \cup {<<th[c].p, IF th[c].retry THEN 1 ELSE 0>>} ELSE th[c].ran

\* writeContext: the frame reaches the pipe of a child that reads it; a child that
\* left fails the write; one that does not read keeps the writer and its lock.
Write(c) ==
  /\ At(c, "write")
  /\ \/ /\ transport = "http"
        /\ th' = [th EXCEPT ![c].pc = "await"] /\ UNCHANGED inst
     \/ /\ transport = "stdio" /\ inst[th[c].p].wmu = None
        /\ LET i == inst[th[c].p] IN
           \/ i.st = "up" /\ ~i.stalled /\ UNCHANGED inst
              /\ th' = [th EXCEPT ![c].pc = "await", ![c].ran = Ran(c)]
           \/ i.st = "up" /\ i.stalled /\ Go(c, "blocked")
              /\ inst' = [inst EXCEPT ![th[c].p].wmu = c]
           \/ i.st # "up" /\ Go(c, "inval") /\ UNCHANGED inst
  /\ UNCHANGED <<fixed, mu, cur, activeModern, gen, cat, closing, closes>>

\* The caller's context was over before its bytes could enter the pipe: the
\* process is kept.
CancelledBeforeWrite(c) ==
  /\ At(c, "write") /\ (transport = "stdio" => inst[th[c].p].wmu = None)
  /\ Fails(c)
  /\ UNCHANGED <<fixed, mu, cur, inst, activeModern, gen, closing, closes>>

\* A write in progress ends: the child read it, or it failed (the context ended
\* and stdin was closed, or the child left).
Unblock(c) ==
  /\ At(c, "blocked")
  /\ \/ /\ Live(th[c].p) /\ inst' = [inst EXCEPT ![th[c].p].wmu = None, ![th[c].p].stalled = FALSE]
        /\ th' = [th EXCEPT ![c].pc = "await", ![c].ran = Ran(c)]
     \/ /\ inst' = [inst EXCEPT ![th[c].p].wmu = IF @ = c THEN None ELSE @]
        /\ Go(c, "inval")
  /\ UNCHANGED <<fixed, mu, cur, activeModern, gen, cat, closing, closes>>

\* invalidate, and Close: the instance is taken under the lock, the generation
\* and the catalogue follow after it is released. Over HTTP this is the Close a
\* refused session brings.
Invalidate(c) ==
  /\ At(c, "inval") /\ mu = None
  /\ Go(c, "bump")
  /\ IF transport = "http" \/ cur = th[c].p
     THEN cur' = 0 /\ activeModern' = FALSE ELSE UNCHANGED <<cur, activeModern>>
  /\ UNCHANGED <<fixed, mu, inst, gen, cat, closing, closes>>

\* Only a listing is asked again, once, and only of a process that left; an HTTP
\* request is asked again after the server refused its session.
\* Mutant: any request is asked again.
MayRetryAnything(c) == ~th[c].retry
MayRetry(c) == ~th[c].retry /\ (th[c].op = "tools" \/ transport = "http")
Bump(c, again) ==
  /\ At(c, "bump")
  /\ gen' = gen + 1
  /\ inst' = IF transport = "http" THEN inst ELSE Stopped(th[c].p)
  /\ again => MayRetry(c)
  /\ transport = "http" => again
  /\ IF again
     THEN /\ th' = [th EXCEPT ![c].pc = "lock", ![c].retry = TRUE, ![c].p = 0]
          /\ cat' = Forgotten
     ELSE Leave(c) /\ cat' = Released(c, Forgotten)
  /\ UNCHANGED <<fixed, mu, cur, activeModern, closing, closes>>

\* A reply with the request's id: read off the pipe by the reader, or found in
\* the HTTP body among its events.
ReplyArrives(c) == At(c, "await") /\ (transport = "stdio" => Live(th[c].p) /\ inst[th[c].p].wmu # Reader)

\* A complete listing is stored under the generation read before the load; one
\* that may not be cached replaces what was there with nothing.
Catalogue(c, cache) ==
  [loaded |-> cache, fresh |-> cache, gen |-> th[c].g, from |-> th[c].p, wait |-> None]
Answered(c, cache) ==
  /\ ReplyArrives(c)
  /\ IF cat.wait = c
     THEN /\ cat' = Catalogue(c, cache)
          /\ Listed(c, th[c].p)
     ELSE Leave(c) /\ UNCHANGED cat
  /\ UNCHANGED <<fixed, mu, cur, inst, activeModern, gen, closing, closes>>

\* An error answer, or a result the era's contract does not allow.
AnsweredError(c) ==
  /\ ReplyArrives(c)
  /\ Fails(c)
  /\ UNCHANGED <<fixed, mu, cur, inst, activeModern, gen, closing, closes>>

\* The child left with the request unanswered. A listing is asked again once; a
\* call is not, and its catalogue is dropped.
Gone(c) ==
  /\ At(c, "await") /\ transport = "stdio" /\ inst[th[c].p].st \in {"gone", "stopped"}
  /\ IF MayRetry(c)
     THEN th' = [th EXCEPT ![c].pc = "lock", ![c].retry = TRUE, ![c].p = 0] /\ UNCHANGED cat
     ELSE IF th[c].op = "call" THEN Leave(c) /\ cat' = Forgotten ELSE Fails(c)
  /\ UNCHANGED <<fixed, mu, cur, inst, activeModern, gen, closing, closes>>

\* 404 to a session the server no longer knows: close and ask again, once.
StaleSession(c) ==
  /\ At(c, "await") /\ transport = "http" /\ ~th[c].modern /\ th[c].p # 0 /\ ~Live(th[c].p)
  /\ IF th[c].retry THEN Fails(c) ELSE Go(c, "inval") /\ UNCHANGED cat
  /\ UNCHANGED <<fixed, mu, cur, inst, activeModern, gen, closing, closes>>

\* The request's own timeout, or its caller leaving: the server is told, in a
\* write that waits for the write lock, and a late answer finds nobody.
TimesOut(c) ==
  /\ At(c, "await") /\ Go(c, "cancel")
  /\ UNCHANGED <<fixed, mu, cur, inst, activeModern, gen, cat, closing, closes>>
Cancel(c) ==
  /\ At(c, "cancel") /\ (transport = "stdio" => inst[th[c].p].wmu = None)
  /\ Fails(c)
  /\ UNCHANGED <<fixed, mu, cur, inst, activeModern, gen, closing, closes>>

-----------------------------------------------------------------------------
(* The server's side, external, and Close. *)

\* The child exits, or the HTTP server forgets the session.
Dies(i) ==
  /\ inst[i].st = "up"
  /\ inst' = [inst EXCEPT ![i] = [@ EXCEPT !.st = "gone", !.stalled = FALSE, !.wmu = None]]
  /\ UNCHANGED <<fixed, mu, cur, activeModern, gen, cat, th, closing, closes>>

\* The child stops reading its stdin: it matters once somebody is about to write.
Stall(i) ==
  /\ transport = "stdio" /\ i = cur /\ Live(i) /\ ~inst[i].stalled
  /\ \E c \in Callers : th[c].p = i /\ th[c].pc \in {"write", "await"}
  /\ inst' = [inst EXCEPT ![i].stalled = TRUE]
  /\ UNCHANGED <<fixed, mu, cur, activeModern, gen, cat, th, closing, closes>>

\* The child asks something of its client: route has the reader refuse it, in a
\* write without a deadline. A child that reads has the refusal at once.
Asks(i) ==
  /\ inst[i].st = "up" /\ inst[i].stalled /\ inst[i].wmu = None
  /\ inst' = [inst EXCEPT ![i].wmu = Reader]
  /\ UNCHANGED <<fixed, mu, cur, activeModern, gen, cat, th, closing, closes>>

\* Close takes the process under the lock and stops it after.
Close ==
  /\ mu = None /\ closing = None /\ closes > 0
  /\ closing' = cur /\ cur' = 0 /\ activeModern' = FALSE /\ closes' = closes - 1
  /\ UNCHANGED <<fixed, mu, inst, gen, cat, th>>
CloseStops ==
  /\ closing # None
  /\ gen' = gen + 1 /\ cat' = Forgotten
  /\ inst' = IF transport = "http" THEN inst ELSE Stopped(closing)
  /\ closing' = None
  /\ UNCHANGED <<fixed, mu, cur, activeModern, th, closes>>

Ensures(c) == Ensure(c) \/ Spawn(c) \/ HandshakeOK(c) \/ HandshakeFallback(c)
              \/ HandshakeFails(c) \/ HandshakeWriteFails(c)
Lists(c) == Check(c) \/ CatalogGet(c) \/ WaitCancelled(c) \/ CheckLease(c)
Sends(c) == ReadLink(c) \/ Write(c) \/ CancelledBeforeWrite(c) \/ Unblock(c)
            \/ Invalidate(c) \/ (\E again \in BOOLEAN : Bump(c, again))
Receives(c) == (\E cache \in BOOLEAN : Answered(c, cache)) \/ AnsweredError(c) \/ Gone(c)
               \/ StaleSession(c) \/ TimesOut(c) \/ Cancel(c)
Step(c) == Ensures(c) \/ Lists(c) \/ Sends(c) \/ Receives(c)
Server(i) == Dies(i) \/ Stall(i) \/ Asks(i)

Next ==
  \/ \E c \in Callers : (\E op \in Ops : Begin(c, op)) \/ Step(c)
  \/ \E i \in Inst : Server(i)
  \/ Expire \/ Close \/ CloseStops

\* Go schedules a runnable goroutine, every wait of a request has a timer, and a
\* caller that took a lock goes on; nothing is assumed of servers or of callers.
Fairness == (\A c \in Callers : WF_vars(Step(c))) /\ WF_vars(CloseStops)
Spec == Init /\ [][Next]_vars /\ Fairness

-----------------------------------------------------------------------------
\* The lock every chat needs is held by somebody who is waiting for it.
SelfLocked == \E c \in Callers : At(c, "inval") /\ mu = c
\* The reader is writing a refusal that the child does not take.
ReaderStuck == \E i \in Inst : inst[i].wmu = Reader

\* Every child that runs is the backend's, or in the hands of somebody about to
\* publish or to stop it: a probe, a lost race or a Close leaves none behind; and
\* with the lock free, requests are framed in the era the running child was
\* started in (stdio.go ensure, startAutoLocked, invalidate, Close).
NoOrphans ==
  /\ transport = "stdio" => \A i \in Inst : Live(i) =>
       i \in {cur, closing} \/ \E c \in Callers : th[c].p = i /\ th[c].pc \in {"hand", "inval", "bump"}
  /\ mu = None /\ cur # 0 => activeModern = inst[cur].modern

\* A catalogue that would be served now was listed by the instance now in use,
\* and a device call is written only to the process whose catalogue validated it
\* (catalogCache.get, contract_stdio.go), whoever restarts or closes in between.
CatalogueIsOfItsProcess ==
  /\ cat.loaded /\ cat.gen = gen /\ cur # 0 => cat.from = cur
  /\ \A c \in Callers : th[c].op = "device" => \A r \in th[c].ran : r[1] = th[c].from

\* One tools/call of a chat is written at most once, also when the child leaves
\* with it unanswered (stdio.go request: a listing is asked again, a call is not).
CallsRunOnce == \A c \in Callers : Cardinality(th[c].ran) <= 1

\* Unless the lock's holder waits for itself or the reader is stuck, every
\* operation returns: each wait is bounded or ended by somebody who goes on.
EveryCallReturns == \A c \in Callers : ~At(c, "idle") ~> (At(c, "idle") \/ SelfLocked \/ ReaderStuck)

\* What stdioBackend.mu's comment promises: "a second arrival waits up to
\* b.timeout, the handshake's own bound".
SecondArrivalIsBounded == ~SelfLocked
=============================================================================
