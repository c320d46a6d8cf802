------------------------- MODULE PassthroughProofs -------------------------
(***************************************************************************)
(* What Passthrough keeps, for any callers, links and number of processes: *)
(* no child is left behind, a catalogue served is of the process in use,   *)
(* and a call is written once.                                             *)
(***************************************************************************)
EXTENDS Passthrough, FiniteSetTheorems, WellFoundedInduction, TLAPS

Instances == [st : {"none", "up", "gone", "stopped"}, modern : BOOLEAN, stalled : BOOLEAN, wmu : Callers \cup {None, Reader}]
Requests == [pc : Pcs, op : Ops, stage : {"first", "again"}, want : BOOLEAN, probe : BOOLEAN, p : Nat, g : Nat,
             modern : BOOLEAN, retry : BOOLEAN, from : Nat, ran : SUBSET (Nat \X (0..1)), asks : Nat]
Catalogues == [loaded : BOOLEAN, fresh : BOOLEAN, gen : Nat, from : Nat, wait : Callers \cup {None}]

-----------------------------------------------------------------------------
(* The inductive invariant. *)

Types ==
  /\ \E n \in Nat : inst \in [1..n -> Instances]
  /\ th \in [Callers -> Requests] /\ cat \in Catalogues
  /\ cur \in Nat /\ gen \in Nat /\ mu \in Callers \cup {None} /\ closing \in Nat \cup {None}
  /\ activeModern \in BOOLEAN

\* What was read under generation g is of instance p, or of a generation that is
\* over: within one generation the backend has one instance, or none any more.
Honest(g, p) == g <= gen /\ (g = gen /\ cur # 0 => p = cur)

\* Who starts a process holds b.mu throughout, and nothing is published meanwhile.
HoldsLock(c) ==
  th[c].pc \in {"spawn", "hand"} =>
    /\ mu = c /\ cur = 0
    /\ th[c].pc = "hand" => th[c].p \in Inst /\ inst[th[c].p].modern = th[c].want /\ activeModern = th[c].want

\* What a request carries was true together when it was read.
PairOK(c) ==
  /\ th[c].g <= gen
  /\ th[c].pc \in {"era", "write", "blocked", "await"} => Honest(th[c].g, th[c].p)
  /\ th[c].op = "device" /\ th[c].pc \in {"get", "wait", "lease", "validate"} => Honest(th[c].g, th[c].p)

\* A device call's catalogue is of the process it is written to.
LeaseOK(c) ==
  /\ th[c].op = "device" => transport = "stdio"
  /\ th[c].from # 0 =>
       /\ th[c].op = "device"
       /\ th[c].pc \in {"lease", "validate", "write", "blocked", "await", "cancel", "inval", "bump"}
       /\ th[c].pc # "lease" => th[c].p = th[c].from
  /\ th[c].pc = "lease" => th[c].op = "device" /\ Honest(th[c].g, th[c].from)
  /\ th[c].pc = "validate" => th[c].op = "device"

\* A call that was written is waiting for its answer, and was written once.
RanOK(c) ==
  /\ th[c].pc = "blocked" => transport = "stdio"
  /\ th[c].ran # {} => /\ th[c].pc \in {"await", "cancel"} /\ IsCall(c) /\ transport = "stdio"
                       /\ \E x \in 0..1 : th[c].ran = {<<th[c].p, x>>}

\* The caller that leads a load of the catalogue is asking for a listing.
LeadOK(c) ==
  /\ th[c].pc \in {"get", "wait"} => th[c].stage = "again" /\ th[c].op # "call"
  /\ cat.wait = c => /\ th[c].stage = "again" /\ th[c].op # "call" /\ th[c].from = 0
                     /\ th[c].pc \notin {"idle", "check", "get", "wait", "lease", "validate"}

CallerOK(c) == HoldsLock(c) /\ PairOK(c) /\ LeaseOK(c) /\ RanOK(c) /\ LeadOK(c)
CatalogueOK == cat.loaded => Honest(cat.gen, cat.from)

PassthroughInv == Types /\ cur \in Inst \cup {0} /\ NoOrphans /\ CatalogueOK /\ \A c \in Callers : CallerOK(c)

-----------------------------------------------------------------------------
(* What a step of c, or of nobody, leaves to everybody else. *)

\* The other callers rest, or are woken from waiting for the catalogue.
OthersRest(c) ==
  \A d \in Callers \ {c} : \/ th'[d] = th[d]
                           \/ th[d].pc = "wait" /\ th'[d] = [th[d] EXCEPT !.pc = "get"]
\* Who does not hold the lock changes nothing of what it protects while it is held.
LockRespected(c) ==
  \/ mu \in {c, None}
  \/ mu' = mu /\ cur' = cur /\ activeModern' = activeModern /\ \A i \in Inst : inst'[i].modern = inst[i].modern
\* Another instance comes only under a new generation.
GenerationMoves == \/ gen' = gen /\ cur' \in {cur, 0}
                   \/ gen' = gen + 1 /\ cur' \in Inst \cup {0}
Beside(c) ==
  /\ OthersRest(c) /\ LockRespected(c) /\ GenerationMoves
  /\ Inst' = Inst /\ transport' = transport /\ cat'.wait \in {cat.wait, None, c}

Keeps(c, i) == th[c].p = i /\ th[c].pc \in {"hand", "inval", "bump"}
\* Every child that runs after the step was somebody else's to stop, or is still
\* the backend's, Close's or c's own.
NoneLost(c) ==
  transport = "stdio" => \A i \in Inst : Live(i)' =>
    \/ Live(i) /\ i \notin {cur, closing} /\ ~(c \in Callers /\ Keeps(c, i))
    \/ i \in {cur', closing'}
    \/ c \in Callers /\ Keeps(c, i)'

LEMMA HonestStays ==
  ASSUME NEW g \in Nat, NEW p \in Nat, Types, GenerationMoves, Honest(g, p)
  PROVE  Honest(g, p)'
BY DEF Honest, GenerationMoves, Types

LEMMA OthersKeep ==
  ASSUME PassthroughInv, NEW c \in Callers \cup {None}, NEW d \in Callers \ {c}, Beside(c)
  PROVE  CallerOK(d)'
<1>1. CallerOK(d) /\ Types /\ d # None /\ th[d] \in Requests
  BY PassthroughAssumption DEF PassthroughInv, Types
<1>2. /\ \A x : th'[d].pc = x => th[d].pc = x \/ (x = "get" /\ th[d].pc = "wait")
      /\ th'[d].op = th[d].op /\ th'[d].stage = th[d].stage /\ th'[d].p = th[d].p /\ th'[d].g = th[d].g
      /\ th'[d].from = th[d].from /\ th'[d].ran = th[d].ran /\ th'[d].want = th[d].want
  BY <1>1, ZenonT(60) DEF Beside, OthersRest, Requests
<1>3. \A g, p \in Nat : Honest(g, p) => Honest(g, p)'
  BY <1>1, HonestStays DEF Beside
<1>4. HoldsLock(d)'
  <2>1. th'[d].pc \in {"spawn", "hand"} => th[d].pc = th'[d].pc
    BY <1>2
  <2> QED BY <1>1, <1>2, <2>1 DEF CallerOK, HoldsLock, Beside, LockRespected
<1>5. PairOK(d)'
  <2>1. gen \in Nat /\ gen' \in Nat /\ gen <= gen' /\ th[d].g \in Nat /\ th[d].p \in Nat
    BY <1>1, SMTT(60) DEF Beside, GenerationMoves, Types, Requests
  <2> QED BY <1>1, <1>2, <1>3, <2>1 DEF CallerOK, PairOK
<1>6. LeaseOK(d)'
  BY <1>1, <1>2, <1>3 DEF CallerOK, LeaseOK, Requests, Beside
<1>7. RanOK(d)'
  BY <1>1, <1>2 DEF CallerOK, RanOK, IsCall, Beside
<1>8. LeadOK(d)'
  BY <1>1, <1>2 DEF CallerOK, LeadOK, Beside, OthersRest
<1> QED BY <1>4, <1>5, <1>6, <1>7, <1>8 DEF CallerOK

LEMMA OrphansStay ==
  ASSUME PassthroughInv, NEW c \in Callers \cup {None}, Beside(c), NoneLost(c),
         mu' = None /\ cur' # 0 => activeModern' = inst'[cur'].modern
  PROVE  NoOrphans'
<1> SUFFICES ASSUME transport' = "stdio", NEW i \in Inst, Live(i)', i \notin {cur', closing'}
             PROVE  \E d \in Callers : Keeps(d, i)'
  BY DEF NoOrphans, Keeps, Beside
<1>1. CASE c \in Callers /\ Keeps(c, i)'
  BY <1>1
<1>2. CASE Live(i) /\ i \notin {cur, closing} /\ ~(c \in Callers /\ Keeps(c, i))
  <2>1. PICK d \in Callers : Keeps(d, i)
    BY <1>2 DEF PassthroughInv, NoOrphans, Keeps, Beside
  <2>2. d # c /\ th[d].pc # "wait"
    BY <1>2, <2>1 DEF Keeps
  <2>3. th'[d] = th[d]
    BY <2>2 DEF Beside, OthersRest
  <2> QED BY <2>1, <2>3 DEF Keeps
<1> QED BY <1>1, <1>2 DEF NoneLost, Beside

\* What is left to show of a step, given what it leaves to the others.
LEMMA StepKeeps ==
  ASSUME PassthroughInv, NEW c \in Callers \cup {None}, Beside(c), NoneLost(c), Types',
         mu' = None /\ cur' # 0 => activeModern' = inst'[cur'].modern,
         CatalogueOK', c \in Callers => CallerOK(c)'
  PROVE  PassthroughInv'
<1>1. cur' \in Inst' \cup {0}
  BY DEF PassthroughInv, Beside, GenerationMoves
<1> QED BY <1>1, OthersKeep, OrphansStay DEF PassthroughInv

-----------------------------------------------------------------------------
(* How a caller goes on, and how it leaves. *)

LEMMA Moves ==
  ASSUME Types, NEW c \in Callers, NEW n \in Requests, th' = [th EXCEPT ![c] = n]
  PROVE  th' \in [Callers -> Requests] /\ th'[c] = n /\ OthersRest(c)
BY DEF Types, OthersRest

LEMMA Goes ==
  ASSUME Types, NEW c \in Callers, NEW pc \in Pcs, Go(c, pc)
  PROVE  /\ th' \in [Callers -> Requests] /\ OthersRest(c) /\ th'[c].pc = pc
         /\ th'[c].op = th[c].op /\ th'[c].stage = th[c].stage /\ th'[c].p = th[c].p /\ th'[c].g = th[c].g
         /\ th'[c].from = th[c].from /\ th'[c].ran = th[c].ran /\ th'[c].want = th[c].want
         /\ th'[c].retry = th[c].retry /\ th'[c].modern = th[c].modern
BY ZenonT(60) DEF Types, OthersRest, Go, Requests

Left(c) == /\ th' \in [Callers -> Requests] /\ OthersRest(c)
           /\ th'[c].pc = "idle" /\ th'[c].op = "tools" /\ th'[c].g = 0 /\ th'[c].from = 0 /\ th'[c].ran = {}

LEMMA IdleFields ==
  ASSUME NEW c \in Callers, Types
  PROVE  /\ Idle \in Requests /\ Idle.pc = "idle" /\ Idle.op = "tools" /\ Idle.g = 0 /\ Idle.from = 0 /\ Idle.ran = {}
         /\ Done(c) \in Requests /\ Done(c).pc = "idle" /\ Done(c).op = "tools" /\ Done(c).g = 0
         /\ Done(c).from = 0 /\ Done(c).ran = {}
<1>1. th[c].asks \in Nat
  BY DEF Types, Requests
<1> QED BY <1>1 DEF Idle, Done, Requests, Pcs, Ops

LEMMA WokenRest ==
  ASSUME Types, NEW c \in Callers
  PROVE  /\ Woken(c) \in [Callers -> Requests]
         /\ \A d \in Callers : \/ Woken(c)[d] = th[d]
                               \/ th[d].pc = "wait" /\ Woken(c)[d] = [th[d] EXCEPT !.pc = "get"]
         /\ th[c].pc # "wait" => Woken(c)[c] = th[c]
<1>1. ASSUME NEW d \in Callers
      PROVE  [th[d] EXCEPT !.pc = "get"] \in Requests /\ th[d] \in Requests
  <2>1. "get" \in Pcs /\ th[d] \in Requests
    BY DEF Pcs, Types
  <2> QED BY <2>1 DEF Requests
<1>2. ASSUME NEW d \in Callers
      PROVE  \/ Woken(c)[d] = th[d]
             \/ th[d].pc = "wait" /\ Woken(c)[d] = [th[d] EXCEPT !.pc = "get"]
  BY DEF Woken, At
<1>3. th[c].pc # "wait" => Woken(c)[c] = th[c]
  BY DEF Woken, At
<1>4. Woken(c) \in [Callers -> Requests]
  <2>1. Woken(c) = [d \in Callers |-> Woken(c)[d]]
    BY DEF Woken
  <2> QED BY <1>1, <1>2, <2>1
<1> QED BY <1>2, <1>3, <1>4

LEMMA LeaveLeaves ==
  ASSUME Types, NEW c \in Callers, Leave(c)
  PROVE  Left(c)
<1>1. Done(c) \in Requests /\ Woken(c) \in [Callers -> Requests]
  BY IdleFields, WokenRest
<1>2. th' \in [Callers -> Requests] /\ th'[c] = Done(c) /\ \A d \in Callers \ {c} : th'[d] = Woken(c)[d]
  BY <1>1 DEF Leave
<1>3. OthersRest(c)
  BY <1>2, WokenRest DEF OthersRest
<1> QED BY <1>2, <1>3, IdleFields DEF Left

\* Who has left has nothing to keep.
LEMMA LeftIsOK ==
  ASSUME NEW c \in Callers, Left(c), gen' \in Nat, cat'.wait # c
  PROVE  CallerOK(c)'
<1>1. th'[c].pc = "idle" /\ th'[c].op = "tools" /\ th'[c].g = 0 /\ th'[c].from = 0 /\ th'[c].ran = {}
  BY DEF Left
<1>2. HoldsLock(c)' /\ PairOK(c)'
  BY <1>1 DEF HoldsLock, PairOK
<1>3. LeaseOK(c)'
  BY <1>1 DEF LeaseOK
<1>4. RanOK(c)' /\ LeadOK(c)'
  BY <1>1 DEF RanOK, LeadOK
<1> QED BY <1>2, <1>3, <1>4 DEF CallerOK

LEMMA Forgetting ==
  ASSUME Types
  PROVE  Forgotten \in Catalogues /\ Forgotten.loaded = FALSE /\ Forgotten.wait = cat.wait
BY DEF Types, Catalogues, Forgotten, Empty

LEMMA Releasing ==
  ASSUME NEW c \in Callers, NEW C \in Catalogues
  PROVE  /\ Released(c, C) \in Catalogues /\ Released(c, C).loaded = C.loaded /\ Released(c, C).gen = C.gen
         /\ Released(c, C).from = C.from /\ Released(c, C).wait \in {C.wait, None} /\ Released(c, C).wait # c
BY PassthroughAssumption DEF Released, Catalogues

LEMMA FailsLeaves ==
  ASSUME Types, CatalogueOK, NEW c \in Callers, Fails(c), GenerationMoves
  PROVE  Left(c) /\ cat' \in Catalogues /\ cat'.wait \in {cat.wait, None} /\ cat'.wait # c /\ CatalogueOK'
<1>1. Left(c)
  BY LeaveLeaves DEF Fails
<1>2. PICK C \in {cat, Forgotten} : cat' = Released(c, C)
  BY DEF Fails
<1>3. C \in Catalogues /\ C.wait = cat.wait
  BY <1>2, Forgetting DEF Types
<1>4. cat' \in Catalogues /\ cat'.wait \in {cat.wait, None} /\ cat'.wait # c /\ cat'.loaded = C.loaded /\ cat'.gen = C.gen /\ cat'.from = C.from
  BY <1>2, <1>3, Releasing
<1>5. CatalogueOK'
  <2>1. CASE C = Forgotten
    BY <1>4, <2>1, Forgetting DEF CatalogueOK
  <2>2. CASE C = cat
    <3>1. cat.gen \in Nat /\ cat.from \in Nat
      BY DEF Types, Catalogues
    <3> QED BY <1>4, <2>2, <3>1, HonestStays DEF CatalogueOK
  <2> QED BY <1>2, <2>1, <2>2
<1> QED BY <1>1, <1>4, <1>5

\* A catalogue that is left alone stays as good as it was.
LEMMA CatalogueStays ==
  ASSUME Types, CatalogueOK, GenerationMoves, cat' = cat
  PROVE  CatalogueOK'
<1>1. cat.gen \in Nat /\ cat.from \in Nat
  BY DEF Types, Catalogues
<1> QED BY <1>1, HonestStays DEF CatalogueOK

-----------------------------------------------------------------------------
(* The instances. *)

\* There is a first one among some numbers.
LEMMA FirstOne ==
  ASSUME NEW S \in SUBSET Nat, S # {}
  PROVE  \E x \in S : \A y \in S : x <= y
<1>1. \A x, y \in Nat : <<x, y>> \in OpToRel(<, Nat) <=> x < y
  BY Zenon DEF OpToRel
<1>2. \E x \in S : \A y \in S : ~(<<y, x>> \in OpToRel(<, Nat))
  BY NatLessThanWellFounded, WFMin
<1>3. \E x \in S : \A y \in S : ~(y < x)
  BY <1>1, <1>2, Zenon
<1> QED BY <1>3

LEMMA InstTyped ==
  ASSUME Types, inst' \in [Inst -> Instances]
  PROVE  Inst' = Inst /\ (\E n \in Nat : inst \in [1..n -> Instances])'
BY DEF Types, Inst

LEMMA NextIsFresh ==
  ASSUME Types, NEW j \in Inst, Fresh(j)
  PROVE  NextInst \in Inst /\ Fresh(NextInst) /\ NextInst # 0
<1> DEFINE S == {i \in Inst : Fresh(i)}
<1>1. S \in SUBSET Nat /\ S # {} /\ 0 \notin Inst
  BY DEF Types, Inst
<1>2. \E i \in S : \A k \in S : i <= k
  BY <1>1, FirstOne
<1>3. \E i \in Inst : Fresh(i) /\ \A k \in Inst : Fresh(k) => i <= k
  BY <1>2
<1> QED BY <1>1, <1>3 DEF NextInst

\* Stopping one instance leaves the others as they were.
LEMMA Stops ==
  ASSUME Types, NEW i, inst' = Stopped(i)
  PROVE  /\ inst' \in [Inst -> Instances] /\ Inst' = Inst
         /\ \A j \in Inst : inst'[j].modern = inst[j].modern
         /\ \A j \in Inst : Live(j)' => Live(j) /\ j # i
<1>1. \A j \in Inst : inst[j] \in Instances /\ j # 0
  BY DEF Types, Inst
<1>2. inst \in [Inst -> Instances]
  BY DEF Types, Inst
<1>3. CASE i = 0 \/ i \notin Inst
  <2>1. inst' = inst
    BY <1>2, <1>3 DEF Stopped
  <2> QED BY <1>1, <1>2, <1>3, <2>1 DEF Live, Inst
<1>4. CASE i # 0 /\ i \in Inst
  <2> DEFINE m == [inst[i] EXCEPT !.st = "stopped", !.stalled = FALSE, !.wmu = None]
  <2>1. m \in Instances /\ m.st = "stopped" /\ m.modern = inst[i].modern
    BY <1>1, <1>4 DEF Instances
  <2>2. inst' = [inst EXCEPT ![i] = m]
    BY <1>4 DEF Stopped
  <2> HIDE DEF m
  <2>3. inst' \in [Inst -> Instances] /\ inst'[i] = m /\ \A j \in Inst \ {i} : inst'[j] = inst[j]
    BY <1>2, <1>4, <2>1, <2>2
  <2> QED BY <1>2, <1>4, <2>1, <2>3 DEF Live, Inst
<1> QED BY <1>3, <1>4

-----------------------------------------------------------------------------
(* Each step. *)

LEMMA Known ==
  ASSUME PassthroughInv, NEW c \in Callers
  PROVE  /\ Types /\ CatalogueOK /\ NoOrphans /\ CallerOK(c) /\ th[c] \in Requests /\ c # None
         /\ inst \in [Inst -> Instances] /\ Inst \in SUBSET (Nat \ {0})
BY PassthroughAssumption DEF PassthroughInv, Types, Inst

\* A step of c in which nothing happens to the backend.
LEMMA QuietStep ==
  ASSUME PassthroughInv, NEW c \in Callers, th' \in [Callers -> Requests], OthersRest(c),
         UNCHANGED <<transport, mu, cur, inst, activeModern, gen, closing>>,
         cat' \in Catalogues, cat'.wait \in {cat.wait, None, c}, CatalogueOK',
         th[c].pc \in {"hand", "inval", "bump"} => th'[c].p = th[c].p /\ th'[c].pc \in {"hand", "inval", "bump"},
         CallerOK(c)'
  PROVE  PassthroughInv'
<1>1. Types /\ CatalogueOK /\ NoOrphans
  BY Known
<1>2. Types'
  BY <1>1 DEF Types
<1>3. Beside(c)
  BY DEF Beside, LockRespected, GenerationMoves, Inst
<1>4. NoneLost(c)
  BY DEF NoneLost, Live, Keeps
<1>5. mu' = None /\ cur' # 0 => activeModern' = inst'[cur'].modern
  BY <1>1 DEF NoOrphans
<1> QED BY <1>2, <1>3, <1>4, <1>5, StepKeeps

\* A step in which c fails, or leaves with what it has.
LEMMA QuietLeave ==
  ASSUME PassthroughInv, NEW c \in Callers, UNCHANGED <<transport, mu, cur, inst, activeModern, gen, closing>>,
         th[c].pc \notin {"hand", "inval", "bump"}, Fails(c) \/ (Leave(c) /\ cat' = cat /\ cat.wait # c)
  PROVE  PassthroughInv'
<1>1. Types /\ CatalogueOK
  BY Known
<1>2. GenerationMoves
  BY DEF GenerationMoves
<1>3. Left(c) /\ cat' \in Catalogues /\ cat'.wait \in {cat.wait, None} /\ cat'.wait # c /\ CatalogueOK'
  <2>1. CASE Fails(c)
    BY <1>1, <1>2, <2>1, FailsLeaves
  <2>2. CASE Leave(c) /\ cat' = cat /\ cat.wait # c
    BY <1>1, <1>2, <2>2, LeaveLeaves, CatalogueStays DEF Types
  <2> QED BY <2>1, <2>2
<1>4. CallerOK(c)'
  <2>1. gen' \in Nat
    BY <1>1 DEF Types
  <2> QED BY <1>3, <2>1, LeftIsOK
<1> QED BY <1>3, <1>4, QuietStep DEF Left

LEMMA BeginStep ==
  ASSUME PassthroughInv, NEW c \in Callers, NEW op \in Ops, Begin(c, op)
  PROVE  PassthroughInv'
<1>1. /\ Types /\ CatalogueOK /\ th[c].pc = "idle" /\ cat.wait # c /\ (op = "device" => transport = "stdio")
      /\ UNCHANGED <<transport, mu, cur, inst, activeModern, gen, cat, closing>>
  BY Known DEF CallerOK, LeadOK, Begin, At, fixed
<1>2. PICK n : n = [Idle EXCEPT !.pc = "lock", !.op = op, !.asks = th[c].asks + 1]
  OBVIOUS
<1>3. n \in Requests /\ n.pc = "lock" /\ n.op = op /\ n.g = 0 /\ n.from = 0 /\ n.ran = {}
  <2>1. th[c].asks + 1 \in Nat
    BY <1>1 DEF Types, Requests
  <2> QED BY <1>2, <2>1, <1>1, IdleFields, ZenonT(60) DEF Requests, Pcs
<1>4. th' \in [Callers -> Requests] /\ th'[c] = n /\ OthersRest(c)
  <2>1. th' = [th EXCEPT ![c] = n]
    BY <1>2 DEF Begin
  <2> QED BY <1>1, <1>3, <2>1, Moves
<1>5. CallerOK(c)'
  BY <1>1, <1>3, <1>4 DEF CallerOK, HoldsLock, PairOK, LeaseOK, RanOK, LeadOK, Types
<1>6. CatalogueOK' /\ cat' \in Catalogues
  BY <1>1, CatalogueStays DEF GenerationMoves, Types
<1> QED BY <1>1, <1>4, <1>5, <1>6, QuietStep

LEMMA EnsureStep ==
  ASSUME PassthroughInv, NEW c \in Callers, Ensure(c)
  PROVE  PassthroughInv'
<1>1. /\ Types /\ CatalogueOK /\ NoOrphans /\ CallerOK(c) /\ th[c] \in Requests /\ th[c].pc = "lock" /\ mu = None /\ c # None
      /\ UNCHANGED <<transport, activeModern, gen, cat, closing>>
  BY Known DEF Ensure, At, fixed
<1>2. GenerationMoves /\ CatalogueOK' /\ cat' \in Catalogues
  <2>1. GenerationMoves
    BY <1>1 DEF GenerationMoves, Ensure
  <2> QED BY <1>1, <2>1, CatalogueStays DEF Types
<1>3. CASE (transport = "http" /\ cur # 0) \/ Live(cur)
  <2>1. PICK n : n = [th[c] EXCEPT !.pc = AfterEnsure(c), !.p = cur]
    OBVIOUS
  <2>2. /\ n \in Requests /\ n.pc \in {"check", "era"} /\ (n.pc = "check" => th[c].stage = "first")
        /\ n.p = cur /\ n.g = th[c].g /\ n.op = th[c].op
        /\ n.from = th[c].from /\ n.ran = th[c].ran /\ n.stage = th[c].stage
    <3>1. /\ AfterEnsure(c) \in {"check", "era"} /\ (AfterEnsure(c) = "check" => th[c].stage = "first")
          /\ AfterEnsure(c) \in Pcs /\ cur \in Nat
      BY <1>1 DEF AfterEnsure, Pcs, Types
    <3> QED BY <1>1, <2>1, <3>1 DEF Requests
  <2> HIDE DEF AfterEnsure
  <2>3. th' \in [Callers -> Requests] /\ th'[c] = n /\ OthersRest(c)
    <3>1. th' = [th EXCEPT ![c] = n]
      BY <1>3, <2>1 DEF Ensure
    <3> QED BY <1>1, <2>2, <3>1, Moves
  <2>4. UNCHANGED <<mu, cur, inst>>
    BY <1>3 DEF Ensure
  <2>5. CallerOK(c)'
    BY <1>1, <2>2, <2>3, <2>4 DEF CallerOK, HoldsLock, PairOK, LeaseOK, RanOK, LeadOK, Honest
  <2> QED BY <1>1, <1>2, <2>3, <2>4, <2>5, QuietStep
<1>4. CASE ~((transport = "http" /\ cur # 0) \/ Live(cur))
  <2>1. mu' = c /\ cur' = 0 /\ inst' = Stopped(cur)
    BY <1>4 DEF Ensure
  <2>2. PICK n : n = [th[c] EXCEPT !.pc = "spawn", !.want = (mode # "legacy"), !.probe = (mode = "auto")]
    OBVIOUS
  <2>3. /\ n \in Requests /\ n.pc = "spawn" /\ n.g = th[c].g /\ n.op = th[c].op
        /\ n.from = th[c].from /\ n.ran = th[c].ran /\ n.stage = th[c].stage
    BY <1>1, <2>2, ZenonT(60) DEF Requests, Pcs
  <2>4. th' \in [Callers -> Requests] /\ th'[c] = n /\ OthersRest(c)
    <3>1. th' = [th EXCEPT ![c] = n]
      BY <1>4, <2>2 DEF Ensure
    <3> QED BY <1>1, <2>3, <3>1, Moves
  <2>5. /\ inst' \in [Inst -> Instances] /\ Inst' = Inst
        /\ \A j \in Inst : Live(j)' => Live(j) /\ j # cur
    BY <1>1, <2>1, Stops
  <2>6. Types'
    BY <1>1, <1>2, <2>1, <2>4, <2>5, InstTyped DEF Types
  <2>7. Beside(c)
    BY <1>1, <1>2, <2>4, <2>5 DEF Beside, LockRespected
  <2>8. NoneLost(c)
    BY <1>1, <2>1, <2>5 DEF NoneLost, Keeps
  <2>9. CallerOK(c)'
    BY <1>1, <2>1, <2>3, <2>4 DEF CallerOK, HoldsLock, PairOK, LeaseOK, RanOK, LeadOK
  <2> QED BY <1>1, <1>2, <2>1, <2>6, <2>7, <2>8, <2>9, StepKeeps
<1> QED BY <1>3, <1>4

\* Who is in the middle of a start holds the lock, and nothing is published.
LEMMA Starting ==
  ASSUME PassthroughInv, NEW c \in Callers, th[c].pc \in {"spawn", "hand"}
  PROVE  mu = c /\ cur = 0
BY Known DEF CallerOK, HoldsLock

\* A start that fails: what was started is stopped, and the lock is free again.
LEMMA StartFails ==
  ASSUME PassthroughInv, NEW c \in Callers, th[c].pc \in {"spawn", "hand"}, Fails(c), mu' = None,
         UNCHANGED <<transport, cur, gen, closing>>, activeModern' \in BOOLEAN,
         inst' = Stopped(th[c].p) \/ (inst' = inst /\ th[c].pc = "spawn")
  PROVE  PassthroughInv'
<1>1. Types /\ CatalogueOK /\ NoOrphans /\ c # None /\ mu = c /\ cur = 0 /\ inst \in [Inst -> Instances]
  BY Known, Starting
<1>2. GenerationMoves
  BY DEF GenerationMoves
<1>3. Left(c) /\ cat' \in Catalogues /\ cat'.wait \in {cat.wait, None} /\ cat'.wait # c /\ CatalogueOK'
  BY <1>1, <1>2, FailsLeaves
<1>4. /\ inst' \in [Inst -> Instances] /\ Inst' = Inst /\ \A j \in Inst : Live(j)' => Live(j)
      /\ th[c].pc = "hand" => \A j \in Inst : Live(j)' => j # th[c].p
  BY <1>1, Stops DEF Live, Inst
<1>5. Types'
  BY <1>1, <1>3, <1>4, InstTyped DEF Types, Left
<1>6. Beside(c)
  BY <1>1, <1>2, <1>3, <1>4 DEF Beside, LockRespected, Left
<1>7. NoneLost(c)
  BY <1>1, <1>4 DEF NoneLost, Keeps
<1>8. CallerOK(c)'
  BY <1>3, <1>5, LeftIsOK DEF Types
<1> QED BY <1>1, <1>3, <1>5, <1>6, <1>7, <1>8, StepKeeps

LEMMA SpawnStep ==
  ASSUME PassthroughInv, NEW c \in Callers, Spawn(c)
  PROVE  PassthroughInv'
<1>1. /\ Types /\ CatalogueOK /\ NoOrphans /\ CallerOK(c) /\ th[c] \in Requests /\ th[c].pc = "spawn" /\ c # None
      /\ mu = c /\ cur = 0 /\ inst \in [Inst -> Instances] /\ Inst \in SUBSET (Nat \ {0})
      /\ UNCHANGED <<transport, cur, gen, closing>>
  BY Known, Starting DEF Spawn, At, fixed
<1>2. CASE mu' = None
  <2>1. Fails(c) /\ inst' = inst /\ activeModern' \in BOOLEAN
    <3>1. mu # None
      BY <1>1
    <3>2. Fails(c) /\ inst' = inst /\ activeModern' = (th[c].want /\ ~(transport = "http" /\ th[c].probe))
      BY <1>2, <3>1 DEF Spawn
    <3> QED BY <3>2
  <2> QED BY <1>1, <1>2, <2>1, StartFails
<1>3. CASE mu' = mu
  <2>1. /\ \E i \in Inst : Fresh(i)
        /\ inst' = [inst EXCEPT ![NextInst] = [Unborn EXCEPT !.st = "up", !.modern = th[c].want]]
        /\ th' = [th EXCEPT ![c].pc = "hand", ![c].p = NextInst]
        /\ activeModern' = th[c].want /\ cat' = cat
    BY <1>1, <1>3 DEF Spawn
  <2>2. PICK k : k = NextInst
    OBVIOUS
  <2>3. k \in Inst /\ k \in Nat
    BY <1>1, <2>1, <2>2, NextIsFresh
  <2>4. PICK m : m = [Unborn EXCEPT !.st = "up", !.modern = th[c].want]
    OBVIOUS
  <2>5. m \in Instances /\ m.modern = th[c].want
    BY <1>1, <2>4 DEF Unborn, Instances, Requests
  <2>6. inst' = [inst EXCEPT ![k] = m]
    BY <2>1, <2>2, <2>4
  <2>7. /\ inst' \in [Inst -> Instances] /\ Inst' = Inst /\ inst'[k] = m
        /\ \A j \in Inst : j # k => inst'[j] = inst[j]
    BY <1>1, <2>3, <2>5, <2>6 DEF Inst
  <2>8. PICK n : n = [th[c] EXCEPT !.pc = "hand", !.p = k]
    OBVIOUS
  <2>9. /\ n \in Requests /\ n.pc = "hand" /\ n.p = k /\ n.g = th[c].g /\ n.op = th[c].op /\ n.want = th[c].want
        /\ n.from = th[c].from /\ n.ran = th[c].ran /\ n.stage = th[c].stage
    BY <1>1, <2>3, <2>8 DEF Requests, Pcs
  <2>10. th' \in [Callers -> Requests] /\ th'[c] = n /\ OthersRest(c)
    <3>1. th' = [th EXCEPT ![c] = n]
      BY <2>1, <2>2, <2>8
    <3> QED BY <1>1, <2>9, <3>1, Moves
  <2>11. GenerationMoves /\ CatalogueOK'
    BY <1>1, <2>1, CatalogueStays DEF GenerationMoves
  <2>12. Types'
    <3>1. th[c].want \in BOOLEAN
      BY <1>1 DEF Requests
    <3> QED BY <1>1, <1>3, <2>1, <2>7, <2>10, <3>1, InstTyped DEF Types
  <2>13. Beside(c)
    BY <1>1, <2>1, <2>7, <2>10, <2>11 DEF Beside, LockRespected
  <2>14. NoneLost(c)
    BY <1>1, <2>3, <2>7, <2>9, <2>10 DEF NoneLost, Keeps, Live
  <2>15. CallerOK(c)'
    <3>1. HoldsLock(c)'
      BY <1>1, <1>3, <2>1, <2>3, <2>5, <2>7, <2>9, <2>10 DEF HoldsLock
    <3> QED BY <1>1, <2>1, <2>9, <2>10, <3>1 DEF CallerOK, PairOK, LeaseOK, RanOK, LeadOK
  <2> QED BY <1>1, <2>11, <2>12, <2>13, <2>14, <2>15, StepKeeps
<1>4. mu' \in {mu, None}
  BY DEF Spawn
<1> QED BY <1>2, <1>3, <1>4

LEMMA HandshakeOKStep ==
  ASSUME PassthroughInv, NEW c \in Callers, HandshakeOK(c)
  PROVE  PassthroughInv'
<1>1. /\ Types /\ CatalogueOK /\ NoOrphans /\ CallerOK(c) /\ th[c] \in Requests /\ th[c].pc = "hand" /\ c # None
      /\ mu = c /\ cur = 0 /\ inst \in [Inst -> Instances] /\ Inst \in SUBSET (Nat \ {0})
      /\ UNCHANGED <<transport, activeModern, cat, closing>>
  BY Known, Starting DEF HandshakeOK, At, fixed
<1>2. th[c].p \in Inst /\ inst[th[c].p].modern = th[c].want /\ activeModern = th[c].want
  BY <1>1 DEF CallerOK, HoldsLock
<1>3. CASE th[c].probe /\ transport = "stdio"
  <2>1. inst' = Stopped(th[c].p) /\ UNCHANGED <<mu, cur, gen>>
    BY <1>3 DEF HandshakeOK
  <2>2. PICK n : n = [th[c] EXCEPT !.pc = "spawn", !.p = 0, !.probe = FALSE]
    OBVIOUS
  <2>3. /\ n \in Requests /\ n.pc = "spawn" /\ n.g = th[c].g /\ n.op = th[c].op
        /\ n.from = th[c].from /\ n.ran = th[c].ran /\ n.stage = th[c].stage
    BY <1>1, <2>2 DEF Requests, Pcs
  <2>4. th' \in [Callers -> Requests] /\ th'[c] = n /\ OthersRest(c)
    <3>1. th' = [th EXCEPT ![c] = n]
      BY <1>3, <2>2 DEF HandshakeOK
    <3> QED BY <1>1, <2>3, <3>1, Moves
  <2>5. /\ inst' \in [Inst -> Instances] /\ Inst' = Inst
        /\ \A j \in Inst : Live(j)' => Live(j) /\ j # th[c].p
    BY <1>1, <2>1, Stops
  <2>6. GenerationMoves /\ CatalogueOK'
    BY <1>1, <2>1, CatalogueStays DEF GenerationMoves
  <2>7. Types'
    BY <1>1, <2>1, <2>4, <2>5, InstTyped DEF Types
  <2>8. Beside(c)
    BY <1>1, <2>1, <2>4, <2>5, <2>6 DEF Beside, LockRespected
  <2>9. NoneLost(c)
    BY <1>1, <2>5 DEF NoneLost, Keeps
  <2>10. CallerOK(c)'
    BY <1>1, <2>1, <2>3, <2>4 DEF CallerOK, HoldsLock, PairOK, LeaseOK, RanOK, LeadOK
  <2> QED BY <1>1, <2>1, <2>6, <2>7, <2>8, <2>9, <2>10, StepKeeps
<1>4. CASE ~(th[c].probe /\ transport = "stdio")
  <2>1. cur' = th[c].p /\ gen' = gen + 1 /\ mu' = None /\ inst' = inst /\ Go(c, AfterEnsure(c))
    BY <1>4 DEF HandshakeOK, Publish
  <2>2. AfterEnsure(c) \in Pcs /\ AfterEnsure(c) \in {"check", "era"} /\ (AfterEnsure(c) = "check" => th[c].stage = "first")
    BY <1>1 DEF AfterEnsure, Pcs, Requests
  <2>3. /\ th' \in [Callers -> Requests] /\ OthersRest(c) /\ th'[c].pc = AfterEnsure(c)
        /\ th'[c].op = th[c].op /\ th'[c].stage = th[c].stage /\ th'[c].p = th[c].p /\ th'[c].g = th[c].g
        /\ th'[c].from = th[c].from /\ th'[c].ran = th[c].ran
    BY <1>1, <2>1, <2>2, Goes
  <2> HIDE DEF AfterEnsure
  <2>4. GenerationMoves /\ CatalogueOK'
    BY <1>1, <1>2, <2>1, CatalogueStays DEF GenerationMoves
  <2>5. Types'
    BY <1>1, <1>2, <2>1, <2>3 DEF Types
  <2>6. Beside(c)
    BY <1>1, <2>1, <2>3, <2>4 DEF Beside, LockRespected, Inst
  <2>7. NoneLost(c)
    BY <1>1, <2>1 DEF NoneLost, Keeps, Live
  <2>8. CallerOK(c)'
    <3>1. gen \in Nat /\ th[c].g <= gen /\ th[c].g \in Nat
      BY <1>1 DEF Types, CallerOK, PairOK, Requests
    <3> QED BY <1>1, <2>1, <2>2, <2>3, <3>1 DEF CallerOK, HoldsLock, PairOK, LeaseOK, RanOK, LeadOK, Honest
  <2>9. activeModern' = inst'[cur'].modern
    BY <1>1, <1>2, <2>1
  <2> QED BY <1>1, <2>4, <2>5, <2>6, <2>7, <2>8, <2>9, StepKeeps
<1> QED BY <1>3, <1>4

LEMMA HandshakeFallbackStep ==
  ASSUME PassthroughInv, NEW c \in Callers, HandshakeFallback(c)
  PROVE  PassthroughInv'
<1>1. /\ Types /\ CatalogueOK /\ NoOrphans /\ CallerOK(c) /\ th[c] \in Requests /\ th[c].pc = "hand" /\ c # None
      /\ mu = c /\ cur = 0 /\ inst' = Stopped(th[c].p) /\ activeModern' = FALSE
      /\ UNCHANGED <<transport, mu, cur, gen, cat, closing>>
  BY Known, Starting DEF HandshakeFallback, At, fixed
<1>2. PICK n : n = [th[c] EXCEPT !.pc = "spawn", !.p = 0, !.probe = FALSE, !.want = FALSE]
  OBVIOUS
<1>3. /\ n \in Requests /\ n.pc = "spawn" /\ n.g = th[c].g /\ n.op = th[c].op
      /\ n.from = th[c].from /\ n.ran = th[c].ran /\ n.stage = th[c].stage
  BY <1>1, <1>2, ZenonT(60) DEF Requests, Pcs
<1>4. th' \in [Callers -> Requests] /\ th'[c] = n /\ OthersRest(c)
  <2>1. th' = [th EXCEPT ![c] = n]
    BY <1>2 DEF HandshakeFallback
  <2> QED BY <1>1, <1>3, <2>1, Moves
<1>5. /\ inst' \in [Inst -> Instances] /\ Inst' = Inst
      /\ \A j \in Inst : Live(j)' => Live(j) /\ j # th[c].p
  BY <1>1, Stops
<1>6. GenerationMoves /\ CatalogueOK'
  BY <1>1, CatalogueStays DEF GenerationMoves
<1>7. Types'
  BY <1>1, <1>4, <1>5, InstTyped DEF Types
<1>8. Beside(c)
  BY <1>1, <1>4, <1>5, <1>6 DEF Beside, LockRespected
<1>9. NoneLost(c)
  BY <1>1, <1>5 DEF NoneLost, Keeps
<1>10. CallerOK(c)'
  BY <1>1, <1>3, <1>4 DEF CallerOK, HoldsLock, PairOK, LeaseOK, RanOK, LeadOK
<1> QED BY <1>1, <1>6, <1>7, <1>8, <1>9, <1>10, StepKeeps

LEMMA HandshakeFailsStep ==
  ASSUME PassthroughInv, NEW c \in Callers, HandshakeFails(c)
  PROVE  PassthroughInv'
<1>1. activeModern' \in BOOLEAN
  BY Known DEF HandshakeFails, Types
<1> QED BY <1>1, StartFails DEF HandshakeFails, At, fixed

LEMMA HandshakeWriteFailsStep ==
  ASSUME PassthroughInv, NEW c \in Callers, HandshakeWriteFails(c)
  PROVE  PassthroughInv'
<1>1. /\ Types /\ CatalogueOK /\ CallerOK(c) /\ th[c].pc = "hand" /\ Go(c, "inval")
      /\ UNCHANGED <<transport, mu, cur, inst, activeModern, gen, cat, closing>>
  BY Known DEF HandshakeWriteFails, At, fixed
<1>2. /\ th' \in [Callers -> Requests] /\ OthersRest(c) /\ th'[c].pc = "inval"
      /\ th'[c].op = th[c].op /\ th'[c].stage = th[c].stage /\ th'[c].p = th[c].p /\ th'[c].g = th[c].g
      /\ th'[c].from = th[c].from /\ th'[c].ran = th[c].ran
  BY <1>1, Goes DEF Pcs
<1>3. CatalogueOK' /\ cat' \in Catalogues
  BY <1>1, CatalogueStays DEF GenerationMoves, Types
<1>4. CallerOK(c)'
  BY <1>1, <1>2 DEF CallerOK, HoldsLock, PairOK, LeaseOK, RanOK, LeadOK
<1> QED BY <1>1, <1>2, <1>3, <1>4, QuietStep

-----------------------------------------------------------------------------
(* The catalogue and the leases. *)

LEMMA CheckStep ==
  ASSUME PassthroughInv, NEW c \in Callers, Check(c)
  PROVE  PassthroughInv'
<1>1. /\ Types /\ CatalogueOK /\ CallerOK(c) /\ th[c] \in Requests /\ th[c].pc = "check"
      /\ UNCHANGED <<transport, mu, cur, inst, activeModern, gen, cat, closing>>
  BY Known DEF Check, At, fixed
<1>2. CASE Leave(c)
  BY <1>1, <1>2, QuietLeave DEF CallerOK, LeadOK
<1>3. CASE ~Leave(c)
  <2>1. PICK n : n = [th[c] EXCEPT !.stage = "again", !.pc = IF th[c].op = "call" THEN "lock" ELSE "get",
                                   !.g = gen, !.modern = activeModern]
    OBVIOUS
  <2>2. /\ n \in Requests /\ n.stage = "again" /\ n.pc \in {"lock", "get"} /\ (n.pc = "get" => th[c].op # "call")
        /\ n.g = gen /\ n.p = th[c].p /\ n.op = th[c].op /\ n.from = th[c].from /\ n.ran = th[c].ran
    <3>1. gen \in Nat /\ activeModern \in BOOLEAN /\ {"lock", "get"} \subseteq Pcs
      BY <1>1 DEF Types, Pcs
    <3> QED BY <1>1, <2>1, <3>1, ZenonT(60) DEF Requests
  <2>3. th' \in [Callers -> Requests] /\ th'[c] = n /\ OthersRest(c)
    <3>1. th' = [th EXCEPT ![c] = n]
      BY <1>3, <2>1 DEF Check
    <3> QED BY <1>1, <2>2, <3>1, Moves
  <2>4. th[c].op = "device" => th[c].p = cur
    BY <1>3 DEF Check
  <2>5. CatalogueOK' /\ cat' \in Catalogues
    BY <1>1, CatalogueStays DEF GenerationMoves, Types
  <2>6. CallerOK(c)'
    BY <1>1, <2>2, <2>3, <2>4 DEF CallerOK, HoldsLock, PairOK, LeaseOK, RanOK, LeadOK, Honest, Types
  <2> QED BY <1>1, <2>3, <2>5, <2>6, QuietStep
<1> QED BY <1>2, <1>3

\* A device call goes on with the catalogue it was given.
LEMMA ListedMoves ==
  ASSUME Types, NEW c \in Callers, NEW from \in Nat, th[c].pc # "wait", th[c].op # "tools", Listed(c, from)
  PROVE  /\ th' \in [Callers -> Requests] /\ OthersRest(c) /\ th'[c].pc = "lease" /\ th'[c].from = from
         /\ th'[c].op = th[c].op /\ th'[c].stage = th[c].stage /\ th'[c].p = th[c].p /\ th'[c].g = th[c].g
         /\ th'[c].ran = th[c].ran
<1>1. /\ Woken(c) \in [Callers -> Requests] /\ Woken(c)[c] = th[c] /\ th[c] \in Requests
      /\ \A d \in Callers : \/ Woken(c)[d] = th[d]
                            \/ th[d].pc = "wait" /\ Woken(c)[d] = [th[d] EXCEPT !.pc = "get"]
  BY WokenRest DEF Types
<1>2. PICK n : n = [th[c] EXCEPT !.pc = "lease", !.from = from]
  OBVIOUS
<1>3. /\ n \in Requests /\ n.pc = "lease" /\ n.from = from
      /\ n.op = th[c].op /\ n.stage = th[c].stage /\ n.p = th[c].p /\ n.g = th[c].g /\ n.ran = th[c].ran
  BY <1>1, <1>2 DEF Requests, Pcs
<1>4. th' = [Woken(c) EXCEPT ![c] = n]
  BY <1>1, <1>2 DEF Listed
<1>5. th' \in [Callers -> Requests] /\ th'[c] = n /\ \A d \in Callers \ {c} : th'[d] = Woken(c)[d]
  BY <1>1, <1>3, <1>4
<1>6. OthersRest(c)
  BY <1>1, <1>5 DEF OthersRest
<1> QED BY <1>3, <1>5, <1>6

LEMMA CatalogGetStep ==
  ASSUME PassthroughInv, NEW c \in Callers, CatalogGet(c)
  PROVE  PassthroughInv'
<1>1. /\ Types /\ CatalogueOK /\ CallerOK(c) /\ th[c] \in Requests /\ th[c].pc = "get" /\ c # None
      /\ UNCHANGED <<transport, mu, cur, inst, activeModern, gen, closing>>
  BY Known DEF CatalogGet, At, fixed
<1>2. /\ th[c].stage = "again" /\ th[c].op \in {"tools", "device"} /\ cat.wait # c
      /\ th[c].from = 0 /\ th[c].ran = {} /\ (th[c].op = "device" => Honest(th[c].g, th[c].p))
  BY <1>1 DEF CallerOK, LeadOK, LeaseOK, RanOK, PairOK, Requests, Ops
<1>3. GenerationMoves
  BY <1>1 DEF GenerationMoves
<1>4. CASE Hit(c) /\ Listed(c, cat.from) /\ cat' = cat
  <2>1. CASE th[c].op = "tools"
    BY <1>1, <1>2, <1>4, <2>1, QuietLeave DEF Listed
  <2>2. CASE th[c].op = "device"
    <3>1. Honest(th[c].g, cat.from) /\ cat.from \in Nat
      BY <1>1, <1>4 DEF Hit, CatalogueOK, Types, Catalogues
    <3>2. /\ th' \in [Callers -> Requests] /\ OthersRest(c) /\ th'[c].pc = "lease" /\ th'[c].from = cat.from
          /\ th'[c].op = th[c].op /\ th'[c].stage = th[c].stage /\ th'[c].p = th[c].p /\ th'[c].g = th[c].g
          /\ th'[c].ran = th[c].ran
      BY <1>1, <1>4, <2>2, <3>1, ListedMoves
    <3>3. CatalogueOK' /\ cat' \in Catalogues
      BY <1>1, <1>3, <1>4, CatalogueStays DEF Types
    <3>4. CallerOK(c)'
      BY <1>1, <1>2, <1>4, <2>2, <3>1, <3>2 DEF CallerOK, HoldsLock, PairOK, LeaseOK, RanOK, LeadOK, Honest
    <3> QED BY <1>1, <1>4, <3>2, <3>3, <3>4, QuietStep
  <2> QED BY <1>2, <2>1, <2>2
<1>5. CASE Go(c, "wait") /\ cat' = cat
  <2>1. /\ th' \in [Callers -> Requests] /\ OthersRest(c) /\ th'[c].pc = "wait"
        /\ th'[c].op = th[c].op /\ th'[c].stage = th[c].stage /\ th'[c].p = th[c].p /\ th'[c].g = th[c].g
        /\ th'[c].from = th[c].from /\ th'[c].ran = th[c].ran
    BY <1>1, <1>5, Goes DEF Pcs
  <2>2. CatalogueOK' /\ cat' \in Catalogues
    BY <1>1, <1>3, <1>5, CatalogueStays DEF Types
  <2>3. CallerOK(c)'
    BY <1>1, <1>2, <1>5, <2>1 DEF CallerOK, HoldsLock, PairOK, LeaseOK, RanOK, LeadOK, Honest
  <2> QED BY <1>1, <1>5, <2>1, <2>2, <2>3, QuietStep
<1>6. CASE cat' = [cat EXCEPT !.wait = c] /\ Go(c, IF th[c].op = "device" THEN "write" ELSE "lock")
  <2>1. PICK pc \in Pcs : pc = IF th[c].op = "device" THEN "write" ELSE "lock"
    BY DEF Pcs
  <2>2. /\ th' \in [Callers -> Requests] /\ OthersRest(c) /\ th'[c].pc = pc
        /\ th'[c].op = th[c].op /\ th'[c].stage = th[c].stage /\ th'[c].p = th[c].p /\ th'[c].g = th[c].g
        /\ th'[c].from = th[c].from /\ th'[c].ran = th[c].ran
    BY <1>1, <1>6, <2>1, Goes
  <2>3. cat' \in Catalogues /\ cat'.wait = c /\ cat'.loaded = cat.loaded /\ cat'.gen = cat.gen /\ cat'.from = cat.from
    BY <1>1, <1>6 DEF Types, Catalogues
  <2>4. CatalogueOK'
    BY <1>1, <2>3 DEF CatalogueOK, Honest
  <2>5. CallerOK(c)'
    BY <1>1, <1>2, <2>1, <2>2, <2>3 DEF CallerOK, HoldsLock, PairOK, LeaseOK, RanOK, LeadOK, Honest
  <2> QED BY <1>1, <2>2, <2>3, <2>4, <2>5, QuietStep
<1> QED BY <1>4, <1>5, <1>6 DEF CatalogGet

LEMMA WaitCancelledStep ==
  ASSUME PassthroughInv, NEW c \in Callers, WaitCancelled(c)
  PROVE  PassthroughInv'
<1>1. cat.wait # c /\ th[c].pc = "wait"
  BY Known DEF CallerOK, LeadOK, WaitCancelled, At
<1> QED BY <1>1, QuietLeave DEF WaitCancelled, fixed

LEMMA ExpireStep ==
  ASSUME PassthroughInv, Expire
  PROVE  PassthroughInv'
<1>1. /\ Types /\ CatalogueOK /\ NoOrphans /\ cat' = [cat EXCEPT !.fresh = FALSE]
      /\ UNCHANGED <<transport, mu, cur, inst, activeModern, gen, th, closing>>
  BY DEF PassthroughInv, Expire, fixed
<1>2. cat' \in Catalogues /\ cat'.wait = cat.wait /\ cat'.loaded = cat.loaded /\ cat'.gen = cat.gen /\ cat'.from = cat.from
  BY <1>1 DEF Types, Catalogues
<1>3. CatalogueOK' /\ Types'
  BY <1>1, <1>2 DEF CatalogueOK, Honest, Types
<1>4. Beside(None)
  BY <1>1, <1>2 DEF Beside, OthersRest, LockRespected, GenerationMoves, Inst
<1>5. NoneLost(None)
  BY <1>1, PassthroughAssumption DEF NoneLost, Live
<1>6. mu' = None /\ cur' # 0 => activeModern' = inst'[cur'].modern
  BY <1>1 DEF NoOrphans
<1> QED BY <1>3, <1>4, <1>5, <1>6, StepKeeps, PassthroughAssumption

LEMMA CheckLeaseStep ==
  ASSUME PassthroughInv, NEW c \in Callers, CheckLease(c)
  PROVE  PassthroughInv'
<1>1. /\ Types /\ CatalogueOK /\ CallerOK(c) /\ th[c] \in Requests /\ th[c].pc \in {"lease", "validate"}
      /\ UNCHANGED <<transport, mu, cur, inst, activeModern, gen, cat, closing>>
  BY Known DEF CheckLease, At, fixed
<1>2. cat.wait # c
  BY <1>1 DEF CallerOK, LeadOK
<1>3. CASE ~LeaseCurrent(c)
  BY <1>1, <1>2, <1>3, QuietLeave DEF CheckLease
<1>4. CASE LeaseCurrent(c)
  <2>1. th[c].p = cur /\ cur # 0 /\ th[c].g = gen
    BY <1>4 DEF LeaseCurrent, Live
  <2>2. PICK pc \in Pcs : pc = IF At(c, "lease") THEN "validate" ELSE "write"
    BY DEF Pcs
  <2>3. /\ th' \in [Callers -> Requests] /\ OthersRest(c) /\ th'[c].pc = pc
        /\ th'[c].op = th[c].op /\ th'[c].stage = th[c].stage /\ th'[c].p = th[c].p /\ th'[c].g = th[c].g
        /\ th'[c].from = th[c].from /\ th'[c].ran = th[c].ran
    BY <1>1, <1>4, <2>2, Goes DEF CheckLease
  <2>4. pc \in {"validate", "write"}
    BY <2>2
  <2>5. th[c].op = "device" /\ (th[c].from # 0 => th[c].from = th[c].p) /\ Honest(th[c].g, th[c].p)
    BY <1>1, <2>1 DEF CallerOK, LeaseOK, PairOK, Honest
  <2>6. CatalogueOK' /\ cat' \in Catalogues
    BY <1>1, CatalogueStays DEF GenerationMoves, Types
  <2>7. CallerOK(c)'
    BY <1>1, <1>2, <2>3, <2>4, <2>5 DEF CallerOK, HoldsLock, PairOK, LeaseOK, RanOK, LeadOK, Honest
  <2> QED BY <1>1, <2>3, <2>6, <2>7, QuietStep
<1> QED BY <1>3, <1>4

-----------------------------------------------------------------------------
(* One request. *)

\* Writing, a server that leaves, stalls or asks: the same instances, and none
\* comes to life.
Touched == /\ inst' \in [Inst -> Instances] /\ Inst' = Inst
           /\ \A j \in Inst : inst'[j].modern = inst[j].modern /\ (Live(j)' => Live(j))

LEMMA SameInst ==
  ASSUME Types, inst' = inst
  PROVE  Touched
BY DEF Types, Touched, Inst, Live

LEMMA OneTouched ==
  ASSUME Types, NEW i, NEW m, inst' = [inst EXCEPT ![i] = m],
         i \in Inst => m \in Instances /\ m.modern = inst[i].modern /\ m.st \in {inst[i].st, "gone"}
  PROVE  Touched
<1>1. inst \in [Inst -> Instances]
  BY DEF Types, Inst
<1>2. CASE i \notin Inst
  <2>1. inst' = inst
    BY <1>1, <1>2
  <2> QED BY <2>1, SameInst
<1>3. CASE i \in Inst
  <2>1. inst' \in [Inst -> Instances] /\ inst'[i] = m /\ \A j \in Inst : j # i => inst'[j] = inst[j]
    BY <1>1, <1>3
  <2> QED BY <1>3, <2>1 DEF Touched, Inst, Live
<1> QED BY <1>2, <1>3

\* A step of c, or of a server, that touches an instance and nothing else.
LEMMA WireStep ==
  ASSUME PassthroughInv, NEW c \in Callers \cup {None}, th' \in [Callers -> Requests], OthersRest(c), Touched,
         UNCHANGED <<transport, mu, cur, activeModern, gen, cat, closing>>,
         c \in Callers => th[c].pc \notin {"hand", "inval", "bump"} /\ CallerOK(c)'
  PROVE  PassthroughInv'
<1>1. Types /\ CatalogueOK /\ NoOrphans /\ cur \in Inst \cup {0}
  BY DEF PassthroughInv
<1>2. Types' /\ CatalogueOK'
  <2>1. GenerationMoves
    BY DEF GenerationMoves
  <2> QED BY <1>1, <2>1, InstTyped, CatalogueStays DEF Types, Touched
<1>3. Beside(c)
  BY DEF Beside, LockRespected, GenerationMoves, Touched
<1>4. NoneLost(c)
  BY DEF NoneLost, Keeps, Touched
<1>5. mu' = None /\ cur' # 0 => activeModern' = inst'[cur'].modern
  <2>1. CASE cur \in Inst
    BY <1>1, <2>1 DEF NoOrphans, Touched
  <2>2. CASE cur = 0
    BY <2>2
  <2> QED BY <1>1, <2>1, <2>2
<1> QED BY <1>2, <1>3, <1>4, <1>5, StepKeeps

LEMMA ReadLinkStep ==
  ASSUME PassthroughInv, NEW c \in Callers, ReadLink(c)
  PROVE  PassthroughInv'
<1>1. /\ Types /\ CatalogueOK /\ CallerOK(c) /\ th[c] \in Requests /\ th[c].pc = "era"
      /\ UNCHANGED <<transport, mu, cur, inst, activeModern, gen, cat, closing>>
  BY Known DEF ReadLink, At, fixed
<1>2. PICK p \in Nat : p = IF transport = "http" THEN cur ELSE th[c].p
  BY <1>1 DEF Types, Requests
<1>3. PICK n : n = [th[c] EXCEPT !.pc = "write", !.modern = activeModern, !.p = p]
  OBVIOUS
<1>4. /\ n \in Requests /\ n.pc = "write" /\ n.p = p
      /\ n.g = th[c].g /\ n.op = th[c].op /\ n.from = th[c].from /\ n.ran = th[c].ran /\ n.stage = th[c].stage
  <2>1. activeModern \in BOOLEAN /\ "write" \in Pcs
    BY <1>1 DEF Types, Pcs
  <2> QED BY <1>1, <1>2, <1>3, <2>1 DEF Requests
<1>5. th' \in [Callers -> Requests] /\ th'[c] = n /\ OthersRest(c)
  <2>1. th' = [th EXCEPT ![c] = n]
    BY <1>1, <1>2, <1>3 DEF ReadLink, Types
  <2> QED BY <1>1, <1>4, <2>1, Moves
<1>6. CatalogueOK' /\ cat' \in Catalogues
  BY <1>1, CatalogueStays DEF GenerationMoves, Types
<1>7. Honest(th[c].g, p)
  BY <1>1, <1>2 DEF CallerOK, PairOK, Honest
<1>8. CallerOK(c)'
  BY <1>1, <1>4, <1>5, <1>7 DEF CallerOK, HoldsLock, PairOK, LeaseOK, RanOK, LeadOK, Honest
<1> QED BY <1>1, <1>5, <1>6, <1>8, QuietStep

\* The bytes are with the server: a call has run, for the first time.
LEMMA WrittenStep ==
  ASSUME PassthroughInv, NEW c \in Callers, th[c].pc \in {"write", "blocked"}, transport = "stdio", Touched,
         th' = [th EXCEPT ![c].pc = "await", ![c].ran = Ran(c)],
         UNCHANGED <<transport, mu, cur, activeModern, gen, cat, closing>>
  PROVE  PassthroughInv'
<1>1. Types /\ CallerOK(c) /\ th[c] \in Requests /\ th[c].ran = {}
  BY Known DEF CallerOK, RanOK
<1>2. /\ Ran(c) \in SUBSET (Nat \X (0..1))
      /\ Ran(c) # {} => IsCall(c) /\ \E x \in 0..1 : Ran(c) = {<<th[c].p, x>>}
  <2>1. PICK x \in 0..1 : x = IF th[c].retry THEN 1 ELSE 0
    OBVIOUS
  <2>2. th[c].p \in Nat
    BY <1>1 DEF Requests
  <2>3. Ran(c) = IF IsCall(c) THEN {<<th[c].p, x>>} ELSE {}
    BY <1>1, <2>1 DEF Ran
  <2> QED BY <2>2, <2>3
<1> HIDE DEF Ran
<1>3. PICK n : n = [th[c] EXCEPT !.pc = "await", !.ran = Ran(c)]
  OBVIOUS
<1>4. /\ n \in Requests /\ n.pc = "await" /\ n.ran = Ran(c) /\ n.p = th[c].p
      /\ n.g = th[c].g /\ n.op = th[c].op /\ n.from = th[c].from /\ n.stage = th[c].stage
  BY <1>1, <1>2, <1>3 DEF Requests, Pcs
<1>5. th' \in [Callers -> Requests] /\ th'[c] = n /\ OthersRest(c)
  <2>1. th' = [th EXCEPT ![c] = n]
    BY <1>3
  <2> QED BY <1>1, <1>4, <2>1, Moves
<1>6. RanOK(c)'
  BY <1>2, <1>4, <1>5 DEF RanOK, IsCall
<1>7. CallerOK(c)'
  BY <1>1, <1>4, <1>5, <1>6 DEF CallerOK, HoldsLock, PairOK, LeaseOK, LeadOK, Honest
<1> QED BY <1>5, <1>7, WireStep

\* A request that goes on without having written.
LEMMA WireGoes ==
  ASSUME PassthroughInv, NEW c \in Callers, NEW pc \in {"await", "blocked", "inval", "cancel"}, Go(c, pc), Touched,
         \/ th[c].pc \in {"write", "blocked"}
         \/ th[c].pc = "await" /\ (pc = "cancel" \/ (pc = "inval" /\ transport = "http")),
         pc = "blocked" => transport = "stdio",
         UNCHANGED <<transport, mu, cur, activeModern, gen, cat, closing>>
  PROVE  PassthroughInv'
<1>1. Types /\ CallerOK(c) /\ pc \in Pcs
  BY Known DEF Pcs
<1>2. /\ th' \in [Callers -> Requests] /\ OthersRest(c) /\ th'[c].pc = pc
      /\ th'[c].op = th[c].op /\ th'[c].stage = th[c].stage /\ th'[c].p = th[c].p /\ th'[c].g = th[c].g
      /\ th'[c].from = th[c].from /\ th'[c].ran = th[c].ran
  BY <1>1, Goes
<1>3. RanOK(c)' /\ LeaseOK(c)'
  BY <1>1, <1>2 DEF CallerOK, RanOK, IsCall, LeaseOK
<1>4. CallerOK(c)'
  BY <1>1, <1>2, <1>3 DEF CallerOK, HoldsLock, PairOK, LeadOK, Honest
<1> QED BY <1>2, <1>4, WireStep

LEMMA WriteStep ==
  ASSUME PassthroughInv, NEW c \in Callers, Write(c)
  PROVE  PassthroughInv'
<1>1. Types /\ th[c].pc = "write" /\ UNCHANGED <<transport, mu, cur, activeModern, gen, cat, closing>>
  BY Known DEF Write, At, fixed
<1>2. CASE inst' = inst /\ Go(c, "await")
  BY <1>1, <1>2, SameInst, WireGoes
<1>3. CASE transport = "stdio" /\ inst' = inst /\ th' = [th EXCEPT ![c].pc = "await", ![c].ran = Ran(c)]
  BY <1>1, <1>3, SameInst, WrittenStep
<1>4. CASE transport = "stdio" /\ Go(c, "blocked") /\ inst' = [inst EXCEPT ![th[c].p].wmu = c]
  <2>1. PICK m : m = [inst[th[c].p] EXCEPT !.wmu = c]
    OBVIOUS
  <2>2. th[c].p \in Inst => m \in Instances /\ m.modern = inst[th[c].p].modern /\ m.st = inst[th[c].p].st
    BY <2>1, Known DEF Instances
  <2>3. inst' = [inst EXCEPT ![th[c].p] = m]
    BY <1>4, <2>1
  <2>4. Touched
    BY <1>1, <2>2, <2>3, OneTouched
  <2> QED BY <1>1, <1>4, <2>4, WireGoes
<1>5. CASE inst' = inst /\ Go(c, "inval")
  BY <1>1, <1>5, SameInst, WireGoes
<1>6. \/ inst' = inst /\ th' = [th EXCEPT ![c] = [th[c] EXCEPT !.pc = "await"]]
      \/ transport = "stdio" /\ inst' = inst /\ th' = [th EXCEPT ![c].pc = "await", ![c].ran = Ran(c)]
      \/ transport = "stdio" /\ Go(c, "blocked") /\ inst' = [inst EXCEPT ![th[c].p].wmu = c]
      \/ inst' = inst /\ Go(c, "inval")
  BY DEF Write, Go
<1> QED BY <1>2, <1>3, <1>4, <1>5, <1>6 DEF Go

LEMMA CancelledBeforeWriteStep ==
  ASSUME PassthroughInv, NEW c \in Callers, CancelledBeforeWrite(c)
  PROVE  PassthroughInv'
BY QuietLeave DEF CancelledBeforeWrite, At, fixed

LEMMA UnblockStep ==
  ASSUME PassthroughInv, NEW c \in Callers, Unblock(c)
  PROVE  PassthroughInv'
<1>1. /\ Types /\ th[c].pc = "blocked" /\ transport = "stdio"
      /\ UNCHANGED <<transport, mu, cur, activeModern, gen, cat, closing>>
  BY Known DEF Unblock, At, fixed, CallerOK, RanOK
<1>2. PICK i : i = th[c].p
  OBVIOUS
<1>3. ASSUME inst' = [inst EXCEPT ![i].wmu = None, ![i].stalled = FALSE]
      PROVE  Touched
  <2>1. PICK m : m = [inst[i] EXCEPT !.wmu = None, !.stalled = FALSE]
    OBVIOUS
  <2>2. i \in Inst => m \in Instances /\ m.modern = inst[i].modern /\ m.st = inst[i].st
    BY <2>1, Known DEF Instances
  <2>3. inst' = [inst EXCEPT ![i] = m]
    BY <1>3, <2>1
  <2> QED BY <1>1, <2>2, <2>3, OneTouched
<1>4. ASSUME inst' = [inst EXCEPT ![i].wmu = IF @ = c THEN None ELSE @]
      PROVE  Touched
  <2>1. PICK w : w = IF inst[i].wmu = c THEN None ELSE inst[i].wmu
    OBVIOUS
  <2>2. PICK m : m = [inst[i] EXCEPT !.wmu = w]
    OBVIOUS
  <2>3. i \in Inst => m \in Instances /\ m.modern = inst[i].modern /\ m.st = inst[i].st
    BY <2>1, <2>2, Known DEF Instances
  <2>4. inst' = [inst EXCEPT ![i] = m]
    BY <1>4, <2>1, <2>2
  <2> QED BY <1>1, <2>3, <2>4, OneTouched
<1>5. CASE th' = [th EXCEPT ![c].pc = "await", ![c].ran = Ran(c)] /\ Touched
  BY <1>1, <1>5, WrittenStep
<1>6. CASE Go(c, "inval") /\ Touched
  BY <1>1, <1>6, WireGoes
<1> QED BY <1>2, <1>3, <1>4, <1>5, <1>6 DEF Unblock

LEMMA InvalidateStep ==
  ASSUME PassthroughInv, NEW c \in Callers, Invalidate(c)
  PROVE  PassthroughInv'
<1>1. /\ Types /\ CatalogueOK /\ NoOrphans /\ CallerOK(c) /\ th[c].pc = "inval" /\ mu = None /\ Go(c, "bump")
      /\ UNCHANGED <<transport, mu, inst, gen, cat, closing>>
  BY Known DEF Invalidate, At, fixed
<1>2. /\ cur' \in {cur, 0} /\ activeModern' \in BOOLEAN
      /\ cur' = cur \/ transport = "http" \/ cur = th[c].p
      /\ cur' # 0 => cur' = cur /\ activeModern' = activeModern
  BY <1>1 DEF Invalidate, Types
<1>3. /\ th' \in [Callers -> Requests] /\ OthersRest(c) /\ th'[c].pc = "bump"
      /\ th'[c].op = th[c].op /\ th'[c].stage = th[c].stage /\ th'[c].p = th[c].p /\ th'[c].g = th[c].g
      /\ th'[c].from = th[c].from /\ th'[c].ran = th[c].ran
  BY <1>1, Goes DEF Pcs
<1>4. GenerationMoves /\ CatalogueOK'
  BY <1>1, <1>2, CatalogueStays DEF GenerationMoves
<1>5. Types'
  BY <1>1, <1>2, <1>3 DEF Types
<1>6. Beside(c)
  BY <1>1, <1>3, <1>4 DEF Beside, LockRespected, Inst
<1>7. NoneLost(c)
  BY <1>1, <1>2, <1>3 DEF NoneLost, Live, Keeps
<1>8. CallerOK(c)'
  BY <1>1, <1>2, <1>3 DEF CallerOK, HoldsLock, PairOK, LeaseOK, RanOK, LeadOK, Honest
<1>9. mu' = None /\ cur' # 0 => activeModern' = inst'[cur'].modern
  BY <1>1, <1>2 DEF NoOrphans
<1> QED BY <1>4, <1>5, <1>6, <1>7, <1>8, <1>9, StepKeeps

\* A process is stopped, and the generation moves on: the end of invalidate and
\* of Close.
LEMMA StopStep ==
  ASSUME PassthroughInv, NEW c \in Callers \cup {None}, NEW i \in Nat,
         th' \in [Callers -> Requests], OthersRest(c),
         gen' = gen + 1, inst' = IF transport = "http" THEN inst ELSE Stopped(i),
         UNCHANGED <<transport, mu, cur, activeModern>>, closing' \in {closing, None},
         closing' # closing => i = closing, c \in Callers => th[c].p = i,
         cat' \in Catalogues, cat'.wait \in {cat.wait, None, c}, cat'.loaded = FALSE,
         c \in Callers => CallerOK(c)'
  PROVE  PassthroughInv'
<1>1. Types /\ NoOrphans /\ cur \in Inst \cup {0}
  BY DEF PassthroughInv
<1>2. /\ inst' \in [Inst -> Instances] /\ Inst' = Inst
      /\ \A j \in Inst : inst'[j].modern = inst[j].modern
      /\ transport = "stdio" => \A j \in Inst : Live(j)' => Live(j) /\ j # i
  <2>1. CASE transport = "http"
    BY <1>1, <2>1, SameInst DEF Touched
  <2>2. CASE transport # "http"
    BY <1>1, <2>2, Stops
  <2> QED BY <2>1, <2>2
<1>3. GenerationMoves /\ CatalogueOK'
  BY <1>1 DEF GenerationMoves, CatalogueOK
<1>4. Types'
  BY <1>1, <1>2, InstTyped DEF Types
<1>5. Beside(c)
  BY <1>2, <1>3 DEF Beside, LockRespected
<1>6. NoneLost(c)
  BY <1>2 DEF NoneLost, Keeps
<1>7. mu' = None /\ cur' # 0 => activeModern' = inst'[cur'].modern
  BY <1>1, <1>2 DEF NoOrphans
<1> QED BY <1>3, <1>4, <1>5, <1>6, <1>7, StepKeeps

LEMMA BumpStep ==
  ASSUME PassthroughInv, NEW c \in Callers, NEW again \in BOOLEAN, Bump(c, again)
  PROVE  PassthroughInv'
<1>1. /\ Types /\ CatalogueOK /\ CallerOK(c) /\ th[c] \in Requests /\ th[c].pc = "bump" /\ c # None /\ th[c].p \in Nat
      /\ gen' = gen + 1 /\ inst' = IF transport = "http" THEN inst ELSE Stopped(th[c].p)
      /\ UNCHANGED <<transport, mu, cur, activeModern, closing>>
  BY Known DEF Bump, At, fixed, Requests
<1>2. CASE again
  <2>1. PICK n : n = [th[c] EXCEPT !.pc = "lock", !.retry = TRUE, !.p = 0]
    OBVIOUS
  <2>2. /\ n \in Requests /\ n.pc = "lock" /\ n.g = th[c].g /\ n.op = th[c].op
        /\ n.from = th[c].from /\ n.ran = th[c].ran /\ n.stage = th[c].stage
    BY <1>1, <2>1 DEF Requests, Pcs
  <2>3. th' \in [Callers -> Requests] /\ th'[c] = n /\ OthersRest(c)
    <3>1. th' = [th EXCEPT ![c] = n]
      BY <1>2, <2>1 DEF Bump
    <3> QED BY <1>1, <2>2, <3>1, Moves
  <2>4. cat' \in Catalogues /\ cat'.wait = cat.wait /\ cat'.loaded = FALSE
    BY <1>1, <1>2, Forgetting DEF Bump
  <2>5. th[c].from = 0 /\ th[c].ran = {} /\ th[c].g <= gen /\ th[c].g \in Nat /\ gen \in Nat
    <3>1. th[c].op = "tools" \/ transport = "http"
      BY <1>2 DEF Bump, MayRetry
    <3> QED BY <1>1, <3>1 DEF CallerOK, LeaseOK, RanOK, PairOK, Requests, Types
  <2>6. CallerOK(c)'
    BY <1>1, <2>2, <2>3, <2>4, <2>5 DEF CallerOK, HoldsLock, PairOK, LeaseOK, RanOK, LeadOK
  <2> QED BY <1>1, <2>3, <2>4, <2>6, StopStep
<1>3. CASE ~again
  <2>1. Left(c)
    BY <1>1, <1>3, LeaveLeaves DEF Bump
  <2>2. cat' \in Catalogues /\ cat'.wait \in {cat.wait, None} /\ cat'.wait # c /\ cat'.loaded = FALSE
    <3>1. cat' = Released(c, Forgotten)
      BY <1>3 DEF Bump
    <3>2. PICK C : C = Forgotten
      OBVIOUS
    <3>3. C \in Catalogues /\ C.loaded = FALSE /\ C.wait = cat.wait
      BY <1>1, <3>2, Forgetting
    <3> QED BY <3>1, <3>2, <3>3, Releasing
  <2>3. CallerOK(c)'
    <3>1. gen' \in Nat
      BY <1>1 DEF Types
    <3> QED BY <2>1, <2>2, <3>1, LeftIsOK
  <2> QED BY <1>1, <2>1, <2>2, <2>3, StopStep DEF Left
<1> QED BY <1>2, <1>3

LEMMA AnsweredStep ==
  ASSUME PassthroughInv, NEW c \in Callers, NEW cache \in BOOLEAN, Answered(c, cache)
  PROVE  PassthroughInv'
<1>1. /\ Types /\ CatalogueOK /\ CallerOK(c) /\ th[c] \in Requests /\ th[c].pc = "await" /\ c # None
      /\ UNCHANGED <<transport, mu, cur, inst, activeModern, gen, closing>>
  BY Known DEF Answered, ReplyArrives, At, fixed
<1>2. CASE cat.wait # c
  BY <1>1, <1>2, QuietLeave DEF Answered
<1>3. CASE cat.wait = c
  <2>1. /\ th[c].op \in {"tools", "device"} /\ th[c].ran = {} /\ Honest(th[c].g, th[c].p)
        /\ th[c].g \in Nat /\ th[c].p \in Nat
    BY <1>1, <1>3 DEF CallerOK, LeadOK, RanOK, PairOK, IsCall, Requests, Ops
  <2>2. cat' \in Catalogues /\ cat'.wait = None /\ cat'.gen = th[c].g /\ cat'.from = th[c].p
    BY <1>1, <1>3, <2>1 DEF Answered, Catalogue, Catalogues
  <2>3. CatalogueOK'
    BY <1>1, <2>1, <2>2 DEF CatalogueOK, Honest
  <2>4. CASE th[c].op = "tools"
    <3>1. Left(c)
      BY <1>1, <1>3, <2>4, LeaveLeaves DEF Answered, Listed
    <3>2. CallerOK(c)'
      <4>1. gen' \in Nat
        BY <1>1 DEF Types
      <4> QED BY <1>1, <2>2, <3>1, <4>1, LeftIsOK
    <3> QED BY <1>1, <2>2, <2>3, <3>1, <3>2, QuietStep DEF Left
  <2>5. CASE th[c].op = "device"
    <3>1. Listed(c, th[c].p)
      BY <1>3 DEF Answered
    <3>2. /\ th' \in [Callers -> Requests] /\ OthersRest(c) /\ th'[c].pc = "lease" /\ th'[c].from = th[c].p
          /\ th'[c].op = th[c].op /\ th'[c].stage = th[c].stage /\ th'[c].p = th[c].p /\ th'[c].g = th[c].g
          /\ th'[c].ran = th[c].ran
      BY <1>1, <2>1, <2>5, <3>1, ListedMoves
    <3>3. CallerOK(c)'
      BY <1>1, <2>1, <2>2, <2>5, <3>2 DEF CallerOK, HoldsLock, PairOK, LeaseOK, RanOK, LeadOK, Honest
    <3> QED BY <1>1, <2>2, <2>3, <3>2, <3>3, QuietStep
  <2> QED BY <2>1, <2>4, <2>5
<1> QED BY <1>2, <1>3

LEMMA AnsweredErrorStep ==
  ASSUME PassthroughInv, NEW c \in Callers, AnsweredError(c)
  PROVE  PassthroughInv'
BY QuietLeave DEF AnsweredError, ReplyArrives, At, fixed

LEMMA GoneStep ==
  ASSUME PassthroughInv, NEW c \in Callers, Gone(c)
  PROVE  PassthroughInv'
<1>1. /\ Types /\ CatalogueOK /\ CallerOK(c) /\ th[c] \in Requests /\ th[c].pc = "await" /\ transport = "stdio"
      /\ UNCHANGED <<transport, mu, cur, inst, activeModern, gen, closing>>
  BY Known DEF Gone, At, fixed
<1>2. CASE MayRetry(c)
  <2>1. th[c].op = "tools" /\ th[c].from = 0 /\ th[c].ran = {}
    BY <1>1, <1>2 DEF MayRetry, CallerOK, LeaseOK, RanOK, IsCall
  <2>2. PICK n : n = [th[c] EXCEPT !.pc = "lock", !.retry = TRUE, !.p = 0]
    OBVIOUS
  <2>3. /\ n \in Requests /\ n.pc = "lock" /\ n.g = th[c].g /\ n.op = th[c].op
        /\ n.from = th[c].from /\ n.ran = th[c].ran /\ n.stage = th[c].stage
    BY <1>1, <2>2 DEF Requests, Pcs
  <2>4. th' \in [Callers -> Requests] /\ th'[c] = n /\ OthersRest(c)
    <3>1. th' = [th EXCEPT ![c] = n]
      BY <1>2, <2>2 DEF Gone
    <3> QED BY <1>1, <2>3, <3>1, Moves
  <2>5. cat' = cat /\ CatalogueOK' /\ cat' \in Catalogues
    BY <1>1, <1>2, CatalogueStays DEF GenerationMoves, Types, Gone
  <2>6. CallerOK(c)'
    BY <1>1, <2>1, <2>3, <2>4, <2>5 DEF CallerOK, HoldsLock, PairOK, LeaseOK, RanOK, LeadOK
  <2> QED BY <1>1, <2>4, <2>5, <2>6, QuietStep
<1>3. CASE ~MayRetry(c) /\ th[c].op = "call"
  <2>1. Leave(c) /\ cat' = Forgotten /\ cat.wait # c
    BY <1>1, <1>3 DEF Gone, CallerOK, LeadOK
  <2>2. Left(c)
    BY <1>1, <2>1, LeaveLeaves
  <2>3. cat' \in Catalogues /\ cat'.wait = cat.wait /\ CatalogueOK'
    BY <1>1, <2>1, Forgetting DEF CatalogueOK
  <2>4. CallerOK(c)'
    <3>1. gen' \in Nat
      BY <1>1 DEF Types
    <3> QED BY <2>1, <2>2, <2>3, <3>1, LeftIsOK
  <2> QED BY <1>1, <2>2, <2>3, <2>4, QuietStep DEF Left
<1>4. CASE ~MayRetry(c) /\ th[c].op # "call"
  BY <1>1, <1>4, QuietLeave DEF Gone
<1> QED BY <1>2, <1>3, <1>4

LEMMA StaleSessionStep ==
  ASSUME PassthroughInv, NEW c \in Callers, StaleSession(c)
  PROVE  PassthroughInv'
<1>1. /\ Types /\ th[c].pc = "await" /\ transport = "http"
      /\ UNCHANGED <<transport, mu, cur, inst, activeModern, gen, closing>>
  BY Known DEF StaleSession, At, fixed
<1>2. CASE Fails(c)
  BY <1>1, <1>2, QuietLeave
<1>3. CASE Go(c, "inval") /\ cat' = cat
  BY <1>1, <1>3, SameInst, WireGoes
<1> QED BY <1>2, <1>3 DEF StaleSession

LEMMA TimesOutStep ==
  ASSUME PassthroughInv, NEW c \in Callers, TimesOut(c)
  PROVE  PassthroughInv'
<1>1. /\ Types /\ th[c].pc = "await" /\ Go(c, "cancel")
      /\ UNCHANGED <<transport, mu, cur, inst, activeModern, gen, cat, closing>>
  BY Known DEF TimesOut, At, fixed
<1> QED BY <1>1, SameInst, WireGoes

LEMMA CancelStep ==
  ASSUME PassthroughInv, NEW c \in Callers, Cancel(c)
  PROVE  PassthroughInv'
BY QuietLeave DEF Cancel, At, fixed

-----------------------------------------------------------------------------
(* The server's side, and Close. *)

LEMMA ServerStep ==
  ASSUME PassthroughInv, NEW i \in Inst, Server(i)
  PROVE  PassthroughInv'
<1>1. Types /\ inst \in [Inst -> Instances] /\ inst[i] \in Instances
  BY DEF PassthroughInv, Types, Inst
<1>2. /\ UNCHANGED <<transport, mu, cur, activeModern, gen, cat, th, closing>>
      /\ \/ inst' = [inst EXCEPT ![i] = [inst[i] EXCEPT !.st = "gone", !.stalled = FALSE, !.wmu = None]]
         \/ inst' = [inst EXCEPT ![i] = [inst[i] EXCEPT !.stalled = TRUE]]
         \/ inst' = [inst EXCEPT ![i] = [inst[i] EXCEPT !.wmu = Reader]]
  BY DEF Server, Dies, Stall, Asks, fixed
<1>3. PICK m \in {[inst[i] EXCEPT !.st = "gone", !.stalled = FALSE, !.wmu = None],
                  [inst[i] EXCEPT !.stalled = TRUE], [inst[i] EXCEPT !.wmu = Reader]} :
        inst' = [inst EXCEPT ![i] = m]
  BY <1>2
<1>4. m \in Instances /\ m.modern = inst[i].modern /\ m.st \in {inst[i].st, "gone"}
  BY <1>1, <1>3 DEF Instances
<1>5. Touched
  BY <1>1, <1>3, <1>4, OneTouched
<1>6. th' \in [Callers -> Requests] /\ OthersRest(None)
  BY <1>1, <1>2 DEF Types, OthersRest
<1> QED BY <1>2, <1>5, <1>6, WireStep, PassthroughAssumption

LEMMA CloseStep ==
  ASSUME PassthroughInv, Close
  PROVE  PassthroughInv'
<1>1. /\ Types /\ CatalogueOK /\ mu = None /\ closing = None /\ closing' = cur /\ cur' = 0 /\ activeModern' = FALSE
      /\ UNCHANGED <<transport, mu, inst, gen, cat, th>>
  BY DEF PassthroughInv, Close, fixed
<1>2. GenerationMoves /\ CatalogueOK'
  BY <1>1, CatalogueStays DEF GenerationMoves
<1>3. Types'
  BY <1>1 DEF Types
<1>4. Beside(None)
  BY <1>1, <1>2 DEF Beside, OthersRest, LockRespected, Inst
<1>5. NoneLost(None)
  <2>1. Inst \in SUBSET Nat
    BY <1>1 DEF Types, Inst
  <2> QED BY <1>1, <2>1, PassthroughAssumption DEF NoneLost, Live
<1> QED BY <1>1, <1>2, <1>3, <1>4, <1>5, StepKeeps, PassthroughAssumption

LEMMA CloseStopsStep ==
  ASSUME PassthroughInv, CloseStops
  PROVE  PassthroughInv'
<1>1. /\ Types /\ closing # None /\ gen' = gen + 1 /\ cat' = Forgotten /\ closing' = None
      /\ inst' = IF transport = "http" THEN inst ELSE Stopped(closing)
      /\ UNCHANGED <<transport, mu, cur, activeModern, th>>
  BY DEF PassthroughInv, CloseStops, fixed
<1>2. closing \in Nat /\ th' \in [Callers -> Requests] /\ OthersRest(None)
  BY <1>1 DEF Types, OthersRest
<1>3. cat' \in Catalogues /\ cat'.wait = cat.wait /\ cat'.loaded = FALSE
  BY <1>1, Forgetting
<1> QED BY <1>1, <1>2, <1>3, StopStep, PassthroughAssumption

-----------------------------------------------------------------------------
(* The theorems. *)

LEMMA PassthroughInit == Init => PassthroughInv
<1> SUFFICES ASSUME Init PROVE PassthroughInv
  OBVIOUS
<1>1. PICK l \in Links : inst = [i \in 1..l.insts |-> Unborn]
  BY DEF Init
<1>2. l.insts \in Nat /\ Unborn \in Instances /\ Unborn.st = "none"
  BY PassthroughAssumption DEF Unborn, Instances
<1>3. inst \in [1..l.insts -> Instances] /\ \A i \in Inst : inst[i].st = "none"
  BY <1>1, <1>2 DEF Inst
<1>4. /\ Idle \in Requests /\ Idle.pc = "idle" /\ Idle.op = "tools" /\ Idle.g = 0 /\ Idle.from = 0 /\ Idle.ran = {}
  BY DEF Idle, Requests, Pcs, Ops
<1>5. Empty \in Catalogues /\ Empty.wait = None /\ Empty.loaded = FALSE
  BY DEF Empty, Catalogues
<1>6. Types
  BY <1>2, <1>3, <1>4, <1>5 DEF Init, Types
<1>7. NoOrphans /\ CatalogueOK /\ cur \in Inst \cup {0}
  BY <1>3, <1>5 DEF Init, NoOrphans, Live, CatalogueOK
<1>8. ASSUME NEW c \in Callers PROVE CallerOK(c)
  <2>1. th[c] = Idle /\ cat.wait # c /\ gen = 0
    BY <1>5, PassthroughAssumption DEF Init
  <2> QED BY <1>4, <2>1 DEF CallerOK, HoldsLock, PairOK, LeaseOK, RanOK, LeadOK
<1> QED BY <1>6, <1>7, <1>8 DEF PassthroughInv

LEMMA PassthroughNext == PassthroughInv /\ [Next]_vars => PassthroughInv'
<1> SUFFICES ASSUME PassthroughInv, [Next]_vars PROVE PassthroughInv'
  OBVIOUS
<1>1. ASSUME NEW c \in Callers, NEW op \in Ops, Begin(c, op) PROVE PassthroughInv'
  BY <1>1, BeginStep
<1>2. ASSUME NEW c \in Callers, Ensures(c) PROVE PassthroughInv'
  BY <1>2, EnsureStep, SpawnStep, HandshakeOKStep, HandshakeFallbackStep, HandshakeFailsStep, HandshakeWriteFailsStep DEF Ensures
<1>3. ASSUME NEW c \in Callers, Lists(c) PROVE PassthroughInv'
  BY <1>3, CheckStep, CatalogGetStep, WaitCancelledStep, CheckLeaseStep DEF Lists
<1>4. ASSUME NEW c \in Callers, Sends(c) PROVE PassthroughInv'
  BY <1>4, ReadLinkStep, WriteStep, CancelledBeforeWriteStep, UnblockStep, InvalidateStep, BumpStep DEF Sends
<1>5. ASSUME NEW c \in Callers, Receives(c) PROVE PassthroughInv'
  BY <1>5, AnsweredStep, AnsweredErrorStep, GoneStep, StaleSessionStep, TimesOutStep, CancelStep DEF Receives
<1>6. ASSUME NEW i \in Inst, Server(i) PROVE PassthroughInv'
  BY <1>6, ServerStep
<1>7. CASE Expire \/ Close \/ CloseStops
  BY <1>7, ExpireStep, CloseStep, CloseStopsStep
<1>8. CASE UNCHANGED vars
  BY <1>8 DEF vars, PassthroughInv, Types, Inst, NoOrphans, Live, CatalogueOK, Honest, CallerOK, HoldsLock, PairOK,
              LeaseOK, RanOK, IsCall, LeadOK
<1> QED BY <1>1, <1>2, <1>3, <1>4, <1>5, <1>6, <1>7, <1>8 DEF Next, Step

\* What every state keeps of the lock, the generation, the catalogue and the
\* requests under way.
THEOREM PassthroughInvariant == Spec => []PassthroughInv
BY PassthroughInit, PassthroughNext, PTL DEF Spec

\* No child is left behind by a probe, a lost race or a Close, and with the lock
\* free requests are framed in the era of the child that runs (stdio.go ensure,
\* startAutoLocked, invalidate, Close).
THEOREM NoOrphansHolds == Spec => []NoOrphans
<1>1. PassthroughInv => NoOrphans
  BY DEF PassthroughInv
<1> QED BY <1>1, PassthroughInvariant, PTL

\* A catalogue that would be served is of the instance in use, and a device call is
\* written only to the process whose catalogue validated it (catalogCache.get,
\* contract_stdio.go).
THEOREM CatalogueIsOfItsProcessHolds == Spec => []CatalogueIsOfItsProcess
<1>1. PassthroughInv => CatalogueIsOfItsProcess
  <2> SUFFICES ASSUME PassthroughInv PROVE CatalogueIsOfItsProcess
    OBVIOUS
  <2>1. cat.loaded /\ cat.gen = gen /\ cur # 0 => cat.from = cur
    BY DEF PassthroughInv, CatalogueOK, Honest
  <2>2. ASSUME NEW c \in Callers, th[c].op = "device", NEW r \in th[c].ran PROVE r[1] = th[c].from
    BY <2>2, Known DEF CallerOK, RanOK, LeaseOK, IsCall
  <2> QED BY <2>1, <2>2 DEF CatalogueIsOfItsProcess
<1> QED BY <1>1, PassthroughInvariant, PTL

\* One tools/call of a chat is written at most once, whatever happens to the child
\* (stdio.go request).
THEOREM CallsRunOnceHolds == Spec => []CallsRunOnce
<1>1. PassthroughInv => CallsRunOnce
  <2> SUFFICES ASSUME PassthroughInv, NEW c \in Callers PROVE Cardinality(th[c].ran) <= 1
    BY DEF CallsRunOnce
  <2>1. CASE th[c].ran = {}
    BY <2>1, FS_EmptySet
  <2>2. CASE th[c].ran # {}
    <3>1. PICK x : th[c].ran = {x}
      BY <2>2, Known DEF CallerOK, RanOK
    <3> QED BY <3>1, FS_Singleton, SMTT(60)
  <2> QED BY <2>1, <2>2
<1> QED BY <1>1, PassthroughInvariant, PTL
=============================================================================
