-------------------------- MODULE PaperworkProofs --------------------------
(* What Dispatch and Checkpoint keep, for any runs, plans, grant and ceiling: a
   receipt that Save said yes to stays on the disk, a wave runs what may run and
   spends what it may, and a receipt that says ok is of a plan that was carried
   out. The last two sections are about instances of Paperwork: the session with a
   child (StdioSession) and the crash notebook. *)
EXTENDS Paperwork, Sequences, FiniteSetTheorems, WellFoundedInduction, TLAPS

-----------------------------------------------------------------------------
(* The shapes of the records. *)

StepRecords == [id : Nat, v : {"ok", "failed", "canceled"}, ran : BOOLEAN]
Verdicts == {"none", "ok", "failed", "canceled"}
Bodies == [steps : SUBSET StepRecords, closed : BOOLEAN, verdict : Verdicts]
Documents == [kind : {"none", "whole", "torn"}, body : Bodies]
Saves == [at : {"idle", "asked", "written", "synced", "renamed", "ok", "error"}, body : Bodies]
Places == {"queued", "blocked", "running", "ok", "failed", "canceled"}
Waves == UNION {[S -> Places] : S \in SUBSET Nat}
RunRecords ==
  [pc : Live \cup {"idle", "done", "dead"}, plan : Plans \cup {AskPlan}, steps : SUBSET StepRecords, wave : Waves,
   left : Nat, share : Nat, spent : Nat, over : BOOLEAN, ctx : BOOLEAN, err : BOOLEAN, lost : BOOLEAN, verdict : Verdicts]

-----------------------------------------------------------------------------
(* The inductive invariant: what every run's own record keeps, and what ties
   the record to the paper. *)

AtWork(m) == {s \in DOMAIN m.wave : m.wave[s] = "running"}
Open(m) == {s \in DOMAIN m.wave : m.wave[s] \in {"queued", "running"}}

\* A wave that runs: its steps are new, what they need has passed, and what is
\* left pays the share of every step that has not ended.
WaveOK(m) ==
  /\ DOMAIN m.wave # {} /\ DOMAIN m.wave \cap StepIds(m.steps) = {}
  /\ \A s \in DOMAIN m.wave : m.wave[s] # "blocked" =>
       m.plan[s] \subseteq StepIds(m.steps) /\ m.plan[s] \cap NotOK(m.steps) = {}
  /\ Cardinality(AtWork(m)) <= Limit
  /\ ~m.over => m.share * Cardinality(Open(m)) <= m.left

\* What is filed is of the plan, and a run that went to its end filed all of it.
FilingOK(m) ==
  /\ StepIds(m.steps) \subseteq DOMAIN m.plan /\ DOMAIN m.wave \subseteq DOMAIN m.plan
  /\ \A x \in m.steps : x.v = "ok" => x.ran
  /\ m.pc \in {"wave", "run", "record", "saving"} => Validates(m.plan)
  /\ m.pc \in {"record", "saving"} => \A s \in DOMAIN m.wave : m.wave[s] \notin {"queued", "running"}
  /\ m.pc = "record" => DOMAIN m.wave \ StepIds(m.steps) # {}
  /\ m.pc = "close" /\ ~m.lost /\ ~m.ctx /\ m.steps # {} => DOMAIN m.plan \subseteq StepIds(m.steps)
  /\ m.verdict # "none" => m.pc \in {"closing", "done", "dead"}
  /\ m.lost => m.err
  /\ m.verdict = "ok" => /\ ~m.ctx /\ m.steps # {} /\ NotOK(m.steps) = {}
                         /\ ~m.lost => DOMAIN m.plan \subseteq StepIds(m.steps)

RunOK(m) == /\ FilingOK(m)
            /\ m.pc = "run" => WaveOK(m)
            /\ ~m.over => m.spent + m.left = Budget

\* A Save carries the run's own record; what it said yes to is in the run, and
\* on the disk twice over; between its rename and its answer the file is its own.
PaperOK(r) ==
  /\ run[r].pc \in Live => r \in up
  /\ run[r].pc \in {"saving", "closing"} => /\ save[r].at # "idle" /\ save[r].body.steps = run[r].steps
                                            /\ save[r].body.closed <=> run[r].pc = "closing"
  /\ run[r].pc \notin {"saving", "closing"} => save[r].at = "idle"
  /\ acked[r].kind # "torn" /\ (run[r].pc = "idle" => acked[r].kind = "none")
  /\ acked[r].kind = "whole" => /\ acked[r].body.steps \subseteq run[r].steps
                                /\ acked[r].body.closed => run[r].pc \in {"closing", "done", "dead"}
  /\ r \notin damaged =>
       /\ file[r].kind # "torn" /\ durable[r].kind # "torn"
       /\ acked[r].kind = "whole" => \/ Covers(file[r], acked[r]) /\ Covers(durable[r], acked[r])
                                     \/ <<r, TRUE>> \in pruned
       /\ save[r].at \in {"renamed", "ok"} => file[r] = Whole(save[r].body) /\ r \notin old

DiskTyped == /\ file \in [Runs -> Documents] /\ durable \in [Runs -> Documents] /\ acked \in [Runs -> Documents]
             /\ save \in [Runs -> Saves]
RunsOK == run \in [Runs -> RunRecords] /\ \A r \in Runs : RunOK(run[r])
DispatchInv == DiskTyped /\ RunsOK /\ \A r \in Runs : PaperOK(r)

-----------------------------------------------------------------------------
(* Facts about numbers and sets. *)

\* The ids of a wave have a first one (slices.SortFunc in dispatch).
LEMMA MinIsFirst ==
  ASSUME NEW S \in SUBSET Nat, S # {}
  PROVE  Min(S) \in S /\ \A y \in S : Min(S) <= y
<1>1. \A x, y \in Nat : <<x, y>> \in OpToRel(<, Nat) <=> x < y
  BY Zenon DEF OpToRel
<1>2. \E x \in S : \A y \in S : ~(<<y, x>> \in OpToRel(<, Nat))
  BY NatLessThanWellFounded, WFMin
<1>3. \E x \in S : \A y \in S : ~(y < x)
  BY <1>1, <1>2, Zenon
<1>4. \E x \in S : \A y \in S : x <= y
  BY <1>3
<1> QED BY <1>4 DEF Min

\* Equal shares of what is left come to no more than what is left.
LEMMA SharesFit ==
  ASSUME NEW a \in Nat, NEW n \in Nat, n # 0
  PROVE  a \div n \in Nat /\ (a \div n) * n <= a
OBVIOUS

\* A step that ends within its share leaves the shares of the others.
LEMMA OneShareLess ==
  ASSUME NEW share \in Nat, NEW n \in Nat, NEW left \in Nat, NEW usd \in Nat,
         share * (n + 1) <= left, usd <= share
  PROVE  usd <= left /\ share * n <= left - usd
<1>1. share * (n + 1) = share * n + share
  OBVIOUS
<1>2. share * n \in Nat
  OBVIOUS
<1> QED BY <1>1, <1>2

LEMMA WaveAt ==
  ASSUME NEW w \in Waves, NEW s \in DOMAIN w, NEW p \in Places
  PROVE  /\ [w EXCEPT ![s] = p] \in Waves /\ DOMAIN [w EXCEPT ![s] = p] = DOMAIN w
         /\ \A t \in DOMAIN w : w[t] \in Places /\ [w EXCEPT ![s] = p][t] = IF t = s THEN p ELSE w[t]
BY DEF Waves

\* Plan.Validate, for dispatch: a plan that passed it has a next wave until all
\* of it is filed.
LEMMA PlansDrain ==
  ASSUME NEW plan, NEW done, Validates(plan), Layer(plan, done) = {}
  PROVE  DOMAIN plan \subseteq done
<1> SUFFICES ASSUME DOMAIN plan \ done # {} PROVE FALSE
  OBVIOUS
<1>1. PICK s \in DOMAIN plan \ done : plan[s] \cap (DOMAIN plan \ done) = {}
  BY DEF Validates
<1>2. s \in Layer(plan, done)
  BY <1>1 DEF Layer, Validates
<1> QED BY <1>2

-----------------------------------------------------------------------------
(* What each step of a run does to the record. *)

LEMMA BeginKeeps ==
  ASSUME NEW m \in RunRecords, RunOK(m), m.pc = "wave",
         NEW wave, wave = Layer(m.plan, StepIds(m.steps)), wave # {},
         NEW runnable \in SUBSET wave, \A s \in runnable : m.plan[s] \cap NotOK(m.steps) = {},
         NEW w, DOMAIN w = wave, w \in Waves, \A s \in wave : w[s] = IF s \in runnable THEN "queued" ELSE "blocked",
         NEW n, n = [m EXCEPT !.pc = "run", !.wave = w,
                        !.share = IF runnable = {} THEN 0 ELSE Share(m.left, Cardinality(runnable))]
  PROVE  n \in RunRecords /\ RunOK(n)
<1>1. /\ wave \subseteq DOMAIN m.plan /\ wave \cap StepIds(m.steps) = {} /\ runnable \subseteq wave
      /\ \A s \in wave : m.plan[s] \subseteq StepIds(m.steps)
  BY DEF Layer
<1>2. IsFiniteSet(runnable)
  BY <1>1, DispatchAssumption, FS_Subset DEF RunRecords
<1>3. n.wave = w
  BY DEF RunRecords
<1>4. Open(n) = runnable /\ AtWork(n) = {}
  BY <1>1, <1>3 DEF Open, AtWork
<1>5. /\ n.share \in Nat /\ n.share * Cardinality(runnable) <= m.left
  <2> m.left \in Nat
    BY DEF RunRecords
  <2>1. CASE runnable = {}
    <3>1. n.share = 0
      BY <2>1 DEF RunRecords
    <3> QED BY <2>1, <3>1, FS_EmptySet
  <2>2. CASE runnable # {}
    <3>1. Cardinality(runnable) \in Nat /\ Cardinality(runnable) # 0
      BY <1>2, <2>2, FS_CardinalityType, FS_EmptySet
    <3>2. n.share = m.left \div Cardinality(runnable)
      BY <2>2 DEF Share, RunRecords
    <3> QED BY <3>1, <3>2, SharesFit
  <2> QED BY <2>1, <2>2
<1>6. n \in RunRecords
  BY <1>3, <1>5 DEF RunRecords, Live
<1>7. /\ n.pc = "run" /\ n.plan = m.plan /\ n.steps = m.steps /\ n.over = m.over /\ n.left = m.left
      /\ n.spent = m.spent /\ n.verdict = m.verdict /\ n.lost = m.lost /\ n.err = m.err
  BY DEF RunRecords
<1>8. WaveOK(n)
  <2>1. Cardinality(AtWork(n)) <= Limit
    <3>1. Cardinality({}) = 0
      BY FS_EmptySet
    <3>2. Limit \in Nat
      BY DispatchAssumption
    <3>3. Cardinality(AtWork(n)) = 0
      BY <1>4, <3>1
    <3> QED BY <3>2, <3>3
  <2>2. \A s \in wave : n.wave[s] # "blocked" => m.plan[s] \cap NotOK(m.steps) = {}
    BY <1>3
  <2> QED BY <1>1, <1>3, <1>4, <1>5, <1>7, <2>1, <2>2 DEF WaveOK
<1>9. FilingOK(n)
  BY <1>1, <1>3, <1>7 DEF RunOK, FilingOK
<1> QED BY <1>6, <1>7, <1>8, <1>9 DEF RunOK

LEMMA WavesAreFinite ==
  ASSUME NEW m \in RunRecords, RunOK(m)
  PROVE  IsFiniteSet(AtWork(m)) /\ IsFiniteSet(Open(m))
<1>1. IsFiniteSet(DOMAIN m.plan)
  BY DispatchAssumption DEF RunRecords
<1>2. AtWork(m) \subseteq DOMAIN m.plan /\ Open(m) \subseteq DOMAIN m.plan
  BY DEF RunOK, FilingOK, AtWork, Open
<1> QED BY <1>1, <1>2, FS_Subset

LEMMA StartKeeps ==
  ASSUME NEW m \in RunRecords, RunOK(m), m.pc = "run", NEW s \in DOMAIN m.wave, m.wave[s] = "queued",
         Cardinality(AtWork(m)) < Limit,
         NEW n, n = [m EXCEPT !.wave[s] = "running"]
  PROVE  n \in RunRecords /\ RunOK(n)
<1>1. /\ n.wave \in Waves /\ DOMAIN n.wave = DOMAIN m.wave
      /\ \A t \in DOMAIN m.wave : n.wave[t] = IF t = s THEN "running" ELSE m.wave[t]
  <2>1. n.wave = [m.wave EXCEPT ![s] = "running"] /\ m.wave \in Waves
    BY DEF RunRecords
  <2>2. "running" \in Places
    BY DEF Places
  <2> QED BY <2>1, <2>2, WaveAt
<1>2. /\ n.pc = "run" /\ n.plan = m.plan /\ n.steps = m.steps /\ n.over = m.over /\ n.left = m.left /\ n.share = m.share
      /\ n.spent = m.spent /\ n.verdict = m.verdict /\ n.lost = m.lost /\ n.err = m.err /\ n \in RunRecords
  BY <1>1 DEF RunRecords
<1>3. IsFiniteSet(AtWork(m)) /\ Open(n) = Open(m) /\ AtWork(n) = AtWork(m) \cup {s} /\ s \notin AtWork(m)
  <2>1. Open(n) = Open(m) /\ AtWork(n) = AtWork(m) \cup {s} /\ s \notin AtWork(m)
    BY <1>1 DEF AtWork, Open
  <2> QED BY <2>1, WavesAreFinite
<1>4. Cardinality(AtWork(n)) <= Limit
  <2>1. Limit \in Nat /\ Cardinality(AtWork(m)) \in Nat
    BY <1>3, FS_CardinalityType, DispatchAssumption
  <2>2. Cardinality(AtWork(n)) = Cardinality(AtWork(m)) + 1
    BY <1>3, FS_AddElement
  <2> QED BY <2>1, <2>2
<1>5. WaveOK(n)
  BY <1>1, <1>2, <1>3, <1>4 DEF RunOK, WaveOK
<1>6. FilingOK(n)
  BY <1>1, <1>2 DEF RunOK, FilingOK
<1> QED BY <1>2, <1>5, <1>6 DEF RunOK

LEMMA EndKeeps ==
  ASSUME NEW m \in RunRecords, RunOK(m), m.pc = "run", NEW s \in AtWork(m),
         NEW v \in {"ok", "failed", "canceled"}, NEW usd \in Nat,
         NEW n \in RunRecords, n.pc = "run", n.plan = m.plan, n.steps = m.steps, n.share = m.share, n.verdict = m.verdict,
         n.lost = m.lost, n.err = m.err,
         DOMAIN n.wave = DOMAIN m.wave, \A t \in DOMAIN m.wave : n.wave[t] = IF t = s THEN v ELSE m.wave[t],
         n.spent = m.spent + usd,
         n.left = (IF m.left > usd THEN m.left - usd ELSE 0), ~n.over => ~m.over /\ usd <= m.share
  PROVE  RunOK(n)
<1> s \in DOMAIN m.wave /\ m.wave[s] = "running" /\ m.left \in Nat /\ m.share \in Nat /\ m.spent \in Nat
  BY DEF AtWork, RunRecords
<1>1. /\ IsFiniteSet(AtWork(m)) /\ IsFiniteSet(Open(m)) /\ s \in Open(m)
      /\ AtWork(n) = AtWork(m) \ {s} /\ Open(n) = Open(m) \ {s}
  <2>1. s \in Open(m) /\ AtWork(n) = AtWork(m) \ {s} /\ Open(n) = Open(m) \ {s}
    BY DEF AtWork, Open
  <2> QED BY <2>1, WavesAreFinite
<1>2. Cardinality(AtWork(n)) <= Limit
  <2>1. Limit \in Nat /\ Cardinality(AtWork(m)) \in Nat /\ Cardinality(AtWork(m)) <= Limit
    BY <1>1, FS_CardinalityType, DispatchAssumption DEF RunOK, WaveOK
  <2>2. Cardinality(AtWork(n)) = Cardinality(AtWork(m)) - 1
    BY <1>1, FS_RemoveElement
  <2> QED BY <2>1, <2>2
<1>3. ~n.over => n.share * Cardinality(Open(n)) <= n.left /\ n.spent + n.left = Budget
  <2> SUFFICES ASSUME ~n.over PROVE n.share * Cardinality(Open(n)) <= n.left /\ n.spent + n.left = Budget
    OBVIOUS
  <2>1. ~m.over /\ usd <= m.share
    OBVIOUS
  <2>2. m.share * Cardinality(Open(m)) <= m.left /\ m.spent + m.left = Budget
    BY <2>1 DEF RunOK, WaveOK
  <2>3. Cardinality(Open(m)) \in Nat /\ Cardinality(Open(m)) # 0 /\ Cardinality(Open(n)) = Cardinality(Open(m)) - 1
    <3>1. Cardinality(Open(m)) \in Nat /\ Cardinality(Open(m)) # 0
      BY <1>1, FS_CardinalityType, FS_EmptySet
    <3>2. Cardinality(Open(n)) = Cardinality(Open(m)) - 1
      BY <1>1, FS_RemoveElement
    <3> QED BY <3>1, <3>2
  <2>4. Cardinality(Open(n)) \in Nat /\ m.share * (Cardinality(Open(n)) + 1) <= m.left
    BY <2>2, <2>3
  <2>5. usd <= m.left /\ m.share * Cardinality(Open(n)) <= m.left - usd
    BY <2>1, <2>4, OneShareLess
  <2> QED BY <2>2, <2>5
<1>4. WaveOK(n)
  BY <1>2, <1>3 DEF RunOK, WaveOK
<1>5. FilingOK(n)
  BY DEF RunOK, FilingOK
<1> QED BY <1>3, <1>4, <1>5 DEF RunOK

LEMMA IdsOfOneMore ==
  ASSUME NEW S, NEW x
  PROVE  StepIds(S \cup {x}) = StepIds(S) \cup {x.id}
BY Zenon DEF StepIds

LEMMA FileKeeps ==
  ASSUME NEW m \in RunRecords, RunOK(m), m.pc = "record",
         NEW s, s = Min(DOMAIN m.wave \ StepIds(m.steps)),
         NEW x, x = [id |-> s, v |-> IF m.wave[s] = "blocked" THEN "failed" ELSE m.wave[s], ran |-> m.wave[s] # "blocked"],
         NEW n, n = [m EXCEPT !.pc = "saving", !.steps = @ \cup {x}]
  PROVE  n \in RunRecords /\ RunOK(n)
<1>1. s \in DOMAIN m.wave \ StepIds(m.steps) /\ s \in Nat /\ s \in DOMAIN m.plan
  <2>1. DOMAIN m.plan \subseteq Nat
    BY DispatchAssumption DEF RunRecords
  <2>2. DOMAIN m.wave \subseteq DOMAIN m.plan /\ DOMAIN m.wave \ StepIds(m.steps) # {}
    BY DEF RunOK, FilingOK
  <2> QED BY <2>1, <2>2, MinIsFirst
<1>2. m.wave[s] \in {"blocked", "ok", "failed", "canceled"}
  <2>1. m.wave[s] \in Places
    BY <1>1 DEF RunRecords, Waves
  <2> QED BY <1>1, <2>1 DEF RunOK, FilingOK, Places
<1>3. x \in StepRecords /\ (x.v = "ok" => x.ran) /\ x.id = s
  BY <1>1, <1>2 DEF StepRecords
<1>4. /\ n.pc = "saving" /\ n.plan = m.plan /\ n.steps = m.steps \cup {x} /\ n.wave = m.wave /\ n.verdict = m.verdict
      /\ n.over = m.over /\ n.spent = m.spent /\ n.left = m.left /\ n.lost = m.lost /\ n.err = m.err
  BY DEF RunRecords
<1>5. n \in RunRecords
  BY <1>3, ZenonT(60) DEF RunRecords, Live
<1>6. StepIds(n.steps) = StepIds(m.steps) \cup {s}
  <2>1. StepIds(m.steps \cup {x}) = StepIds(m.steps) \cup {x.id}
    BY ONLY IdsOfOneMore
  <2>2. n.steps = m.steps \cup {x} /\ x.id = s
    BY <1>3, <1>4
  <2> QED BY ONLY <2>1, <2>2
<1>7. FilingOK(n)
  BY <1>1, <1>3, <1>4, <1>6 DEF RunOK, FilingOK
<1> QED BY <1>4, <1>5, <1>7 DEF RunOK

LEMMA CloseKeeps ==
  ASSUME NEW m \in RunRecords, RunOK(m), m.pc = "close", NEW v \in {"ok", "failed", "canceled"},
         v = "ok" => m.steps # {} /\ ~m.ctx /\ \A x \in m.steps : x.v = "ok",
         NEW n, n = [m EXCEPT !.pc = "closing", !.verdict = v]
  PROVE  n \in RunRecords /\ RunOK(n)
<1>1. n \in RunRecords
  BY DEF RunRecords, Live, Verdicts
<1>2. /\ n.pc = "closing" /\ n.plan = m.plan /\ n.steps = m.steps /\ n.wave = m.wave /\ n.verdict = v /\ n.lost = m.lost
      /\ n.over = m.over /\ n.spent = m.spent /\ n.left = m.left /\ n.err = m.err /\ n.ctx = m.ctx
  BY DEF RunRecords
<1>3. v = "ok" => NotOK(m.steps) = {}
  BY DEF NotOK
<1> QED BY <1>1, <1>2, <1>3 DEF RunOK, FilingOK

\* A record that goes on to another place of the program with its steps, its
\* money and its verdict as they were.
LEMMA GoesOn ==
  ASSUME NEW m \in RunRecords, RunOK(m), NEW n \in RunRecords,
         n.plan = m.plan, n.steps = m.steps, n.verdict = m.verdict, n.spent = m.spent, n.left = m.left, n.over = m.over,
         n.pc # "run", DOMAIN n.wave \subseteq DOMAIN m.plan,
         m.lost => n.lost, n.err \/ (n.err = m.err /\ n.lost = m.lost), m.verdict # "none" => n.ctx = m.ctx,
         m.verdict # "none" => n.pc \in {"closing", "done", "dead"},
         n.pc = "wave" => Validates(m.plan),
         n.pc \in {"record", "saving"} => /\ Validates(m.plan)
                                         /\ \A s \in DOMAIN n.wave : n.wave[s] \notin {"queued", "running"},
         n.pc = "record" => DOMAIN n.wave \ StepIds(m.steps) # {},
         n.pc = "close" => n.lost \/ n.ctx \/ m.steps = {} \/ DOMAIN m.plan \subseteq StepIds(m.steps)
  PROVE  RunOK(n)
BY DEF RunOK, FilingOK

-----------------------------------------------------------------------------
(* Every step keeps the invariant. *)

LEMMA EmptyWave == << >> \in Waves /\ DOMAIN << >> = {}
<1>1. << >> \in [{} -> Places] /\ DOMAIN << >> = {}
  OBVIOUS
<1> QED BY <1>1 DEF Waves

LEMMA FreshRuns ==
  ASSUME NEW p \in Plans \cup {AskPlan}, NEW pc \in {"idle", "wave", "close"}, NEW err \in BOOLEAN,
         pc = "wave" => Validates(p),
         NEW n, n = [NoRun EXCEPT !.plan = p, !.pc = pc, !.err = err]
  PROVE  n \in RunRecords /\ RunOK(n) /\ n.pc = pc /\ n.steps = {}
<1>1. Budget \in Nat
  BY DispatchAssumption
<1>2. PICK w : w = << >>
  OBVIOUS
<1>3. n = [pc |-> pc, plan |-> p, steps |-> {}, wave |-> w, left |-> Budget, share |-> 0, spent |-> 0, over |-> FALSE,
           ctx |-> FALSE, err |-> err, lost |-> FALSE, verdict |-> "none"]
  BY <1>2 DEF NoRun
<1>4. w \in Waves /\ DOMAIN w = {}
  BY <1>2, EmptyWave
<1>5. n \in RunRecords
  BY ONLY <1>1, <1>3, <1>4, p \in Plans \cup {AskPlan}, pc \in {"idle", "wave", "close"}, err \in BOOLEAN
    DEF RunRecords, Live, Verdicts
<1>6. /\ n.pc = pc /\ n.plan = p /\ n.steps = {} /\ n.wave = w /\ n.left = Budget /\ n.spent = 0 /\ ~n.lost
      /\ n.verdict = "none"
  BY ONLY <1>3
<1>7. StepIds({}) = {}
  BY DEF StepIds
<1>8. FilingOK(n)
  BY <1>4, <1>6, <1>7 DEF FilingOK
<1>9. n.spent + n.left = Budget
  BY <1>1, <1>6
<1> QED BY <1>5, <1>6, <1>8, <1>9 DEF RunOK

LEMMA RunMoves ==
  ASSUME RunsOK, NEW r \in Runs, NEW n \in RunRecords, RunOK(n), run' = [run EXCEPT ![r] = n]
  PROVE  RunsOK' /\ run'[r] = n /\ \A q \in Runs \ {r} : run'[q] = run[q]
BY DEF RunsOK

\* A step of the run that leaves the disk alone and saves nothing.
LEMMA PaperRests ==
  ASSUME DispatchInv, NEW r \in Runs, UNCHANGED diskVars,
         RunsOK', \A q \in Runs \ {r} : run'[q] = run[q],
         run[r].pc \notin {"saving", "closing"}, run'[r].pc \notin {"saving", "closing"},
         run'[r].pc # "idle", run'[r].pc \in Live => r \in up,
         acked[r].kind = "whole" => run[r].steps \subseteq run'[r].steps,
         run[r].pc \in {"done", "dead"} => run'[r].pc \in {"done", "dead"}
  PROVE  DispatchInv'
<1>1. DiskTyped'
  BY DEF DispatchInv, DiskTyped, diskVars
<1>2. ASSUME NEW q \in Runs PROVE PaperOK(q)'
  <2>1. CASE q = r
    BY <2>1 DEF DispatchInv, PaperOK, diskVars
  <2>2. CASE q # r
    BY <2>2, ZenonT(60) DEF DispatchInv, PaperOK, diskVars
  <2> QED BY <2>1, <2>2
<1> QED BY <1>1, <1>2 DEF DispatchInv

LEMMA AskStep ==
  ASSUME DispatchInv, NEW r \in Runs, Ask(r)
  PROVE  DispatchInv'
<1>1. PICK p \in Plans \cup {AskPlan} :
        run' = [run EXCEPT ![r] = [NoRun EXCEPT !.plan = p, !.pc = IF Validates(p) THEN "wave" ELSE "close", !.err = ~Validates(p)]]
  BY DEF Ask
<1>2. PICK pc, err : pc = (IF Validates(p) THEN "wave" ELSE "close") /\ err = ~Validates(p)
  OBVIOUS
<1>3. PICK n : n = [NoRun EXCEPT !.plan = p, !.pc = pc, !.err = err]
  OBVIOUS
<1>4. pc \in {"idle", "wave", "close"} /\ err \in BOOLEAN /\ (pc = "wave" => Validates(p))
  BY <1>2
<1>5. n \in RunRecords /\ RunOK(n) /\ n.pc = pc
  BY <1>3, <1>4, FreshRuns, ZenonT(60)
<1>6. run' = [run EXCEPT ![r] = n]
  BY <1>1, <1>2, <1>3
<1>7. RunsOK' /\ run'[r] = n /\ \A q \in Runs \ {r} : run'[q] = run[q]
  BY <1>5, <1>6, RunMoves DEF DispatchInv
<1>8. run[r].pc = "idle" /\ r \in up /\ UNCHANGED diskVars /\ acked[r].kind = "none"
  BY DEF Ask, DispatchInv, PaperOK
<1>9. run'[r].pc \in {"wave", "close"}
  BY <1>2, <1>5, <1>7
<1> QED BY <1>7, <1>8, <1>9, PaperRests DEF Live

LEMMA BeginWaveStep ==
  ASSUME DispatchInv, NEW r \in Runs, BeginWave(r)
  PROVE  DispatchInv'
<1> DEFINE m == run[r]
           wave == Layer(m.plan, StepIds(m.steps))
           runnable == {s \in wave : ~BlockedBy(r, s)}
<1>1. m \in RunRecords /\ RunOK(m) /\ m.pc = "wave" /\ UNCHANGED diskVars /\ r \in up
  BY DEF DispatchInv, RunsOK, BeginWave, PaperOK, Live
<1>2. \E n \in RunRecords : /\ RunOK(n) /\ run' = [run EXCEPT ![r] = n] /\ n.steps = m.steps
                            /\ n.pc \in {"run", "close"}
  <2>1. CASE wave = {}
    <3>1. PICK n : n = [m EXCEPT !.pc = "close"]
      OBVIOUS
    <3>2. run' = [run EXCEPT ![r] = n]
      BY <2>1, <3>1 DEF BeginWave
    <3>3. /\ n \in RunRecords /\ n.pc = "close" /\ n.plan = m.plan /\ n.steps = m.steps /\ n.wave = m.wave
          /\ n.verdict = m.verdict /\ n.spent = m.spent /\ n.left = m.left /\ n.over = m.over /\ n.lost = m.lost
          /\ n.err = m.err
      BY <1>1, <3>1 DEF RunRecords, Live
    <3>4. DOMAIN m.plan \subseteq StepIds(m.steps) /\ DOMAIN m.wave \subseteq DOMAIN m.plan /\ m.verdict = "none"
      BY <1>1, <2>1, PlansDrain DEF RunOK, FilingOK
    <3>5. RunOK(n)
      BY <1>1, <3>3, <3>4, GoesOn
    <3> QED BY <3>2, <3>3, <3>5
  <2>2. CASE wave # {} /\ m.ctx
    <3>1. PICK n : n = [m EXCEPT !.pc = "close", !.err = TRUE]
      OBVIOUS
    <3>2. run' = [run EXCEPT ![r] = n]
      BY <2>2, <3>1 DEF BeginWave
    <3>3. /\ n \in RunRecords /\ n.pc = "close" /\ n.plan = m.plan /\ n.steps = m.steps /\ n.wave = m.wave /\ n.ctx = m.ctx
          /\ n.verdict = m.verdict /\ n.spent = m.spent /\ n.left = m.left /\ n.over = m.over /\ n.lost = m.lost
          /\ n.err
      BY <1>1, <3>1 DEF RunRecords, Live
    <3>4. DOMAIN m.wave \subseteq DOMAIN m.plan /\ m.verdict = "none"
      BY <1>1 DEF RunOK, FilingOK
    <3>5. RunOK(n)
      BY <1>1, <2>2, <3>3, <3>4, GoesOn
    <3> QED BY <3>2, <3>3, <3>5
  <2>3. CASE wave # {} /\ ~m.ctx
    <3>1. PICK n : n = [m EXCEPT !.pc = "run", !.wave = [s \in wave |-> IF s \in runnable THEN "queued" ELSE "blocked"],
                          !.share = IF runnable = {} THEN 0 ELSE Share(m.left, Cardinality(runnable))]
      OBVIOUS
    <3>2. run' = [run EXCEPT ![r] = n]
      BY <2>3, <3>1 DEF BeginWave
    <3>3. runnable \subseteq wave /\ \A s \in runnable : m.plan[s] \cap NotOK(m.steps) = {}
      BY DEF BlockedBy
    <3>4. n \in RunRecords /\ RunOK(n)
      <4>1. PICK w : w = [s \in wave |-> IF s \in runnable THEN "queued" ELSE "blocked"]
        OBVIOUS
      <4>2. wave \subseteq Nat
        BY <1>1, DispatchAssumption DEF Layer, RunRecords
      <4>3. /\ DOMAIN w = wave /\ w \in Waves
            /\ \A s \in wave : w[s] = IF s \in runnable THEN "queued" ELSE "blocked"
        BY <4>1, <4>2 DEF Waves, Places
      <4>4. n = [m EXCEPT !.pc = "run", !.wave = w,
                   !.share = IF runnable = {} THEN 0 ELSE Share(m.left, Cardinality(runnable))]
        BY <3>1, <4>1
      <4>5. wave = Layer(m.plan, StepIds(m.steps))
        OBVIOUS
      <4> HIDE DEF wave, runnable, m
      <4> QED BY <1>1, <2>3, <3>3, <4>3, <4>4, <4>5, BeginKeeps
    <3>5. n.pc = "run" /\ n.steps = m.steps
      BY <1>1, <3>1 DEF RunRecords
    <3> QED BY <3>2, <3>4, <3>5
  <2> QED BY <2>1, <2>2, <2>3
<1>3. PICK n \in RunRecords : RunOK(n) /\ run' = [run EXCEPT ![r] = n] /\ n.steps = m.steps /\ n.pc \in {"run", "close"}
  BY <1>2
<1>4. RunsOK' /\ run'[r] = n /\ \A q \in Runs \ {r} : run'[q] = run[q]
  BY <1>3, RunMoves DEF DispatchInv
<1> QED BY <1>1, <1>3, <1>4, PaperRests DEF Live

LEMMA StepStartsStep ==
  ASSUME DispatchInv, NEW r \in Runs, NEW s, StepStarts(r, s)
  PROVE  DispatchInv'
<1> DEFINE m == run[r]
<1>1. m \in RunRecords /\ RunOK(m) /\ m.pc = "run" /\ UNCHANGED diskVars /\ r \in up
  BY DEF DispatchInv, RunsOK, StepStarts, PaperOK, Live
<1>2. s \in DOMAIN m.wave /\ m.wave[s] = "queued" /\ Cardinality(AtWork(m)) < Limit
  BY DEF StepStarts, Running, AtWork
<1>3. PICK n : n = [m EXCEPT !.wave[s] = "running"]
  OBVIOUS
<1>4. run' = [run EXCEPT ![r] = n]
  BY <1>3 DEF StepStarts
<1>5. n.pc = "run" /\ n.steps = m.steps
  BY <1>1, <1>3 DEF RunRecords
<1> HIDE DEF m
<1>6. n \in RunRecords /\ RunOK(n)
  BY <1>1, <1>2, <1>3, StartKeeps
<1>7. RunsOK' /\ run'[r] = n /\ \A q \in Runs \ {r} : run'[q] = run[q]
  BY <1>4, <1>6, RunMoves DEF DispatchInv
<1> QED BY <1>1, <1>5, <1>7, PaperRests DEF Live, m

LEMMA StepEndsStep ==
  ASSUME DispatchInv, NEW r \in Runs, NEW s, NEW o \in Outcomes(run[r].share), StepEnds(r, s, o[1], o[2])
  PROVE  DispatchInv'
<1> DEFINE m == run[r]
<1>1. m \in RunRecords /\ RunOK(m) /\ m.pc = "run" /\ UNCHANGED diskVars /\ r \in up
  BY DEF DispatchInv, RunsOK, StepEnds, PaperOK, Live
<1>2. s \in AtWork(m) /\ o[1] \in {"ok", "failed", "canceled"} /\ o[2] \in Nat
  <2>1. m.share \in Nat
    BY <1>1 DEF RunRecords
  <2> QED BY <2>1 DEF StepEnds, Running, AtWork, Outcomes
<1>3. PICK n : n = [m EXCEPT !.wave[s] = o[1], !.spent = @ + o[2], !.left = IF @ > o[2] THEN @ - o[2] ELSE 0,
                      !.over = @ \/ o[2] > m.share]
  OBVIOUS
<1>4. run' = [run EXCEPT ![r] = n]
  BY <1>3 DEF StepEnds
<1>5. /\ n.pc = "run" /\ n.plan = m.plan /\ n.steps = m.steps /\ n.share = m.share /\ n.verdict = m.verdict
      /\ n.lost = m.lost /\ n.err = m.err
      /\ n.wave = [m.wave EXCEPT ![s] = o[1]] /\ n.spent = m.spent + o[2]
      /\ n.left = (IF m.left > o[2] THEN m.left - o[2] ELSE 0) /\ n.over = (m.over \/ o[2] > m.share)
  BY <1>1, <1>3 DEF RunRecords
<1>6. /\ n.wave \in Waves /\ DOMAIN n.wave = DOMAIN m.wave
      /\ \A t \in DOMAIN m.wave : n.wave[t] = IF t = s THEN o[1] ELSE m.wave[t]
  <2>1. m.wave \in Waves /\ o[1] \in Places /\ s \in DOMAIN m.wave
    BY <1>1, <1>2 DEF RunRecords, Places, AtWork
  <2> QED BY <1>5, <2>1, WaveAt
<1>7. n \in RunRecords
  <2>1. n.wave \in Waves
    BY <1>5, <1>6
  <2>2. n.left \in Nat /\ n.spent \in Nat /\ n.over \in BOOLEAN
    BY <1>1, <1>2, <1>5 DEF RunRecords
  <2> QED BY <1>1, <1>3, <2>1, <2>2 DEF RunRecords
<1>8. ~n.over => ~m.over /\ o[2] <= m.share
  <2>1. ~n.over => ~m.over /\ ~(o[2] > m.share)
    BY <1>5, Zenon
  <2>2. m.share \in Nat
    BY <1>1 DEF RunRecords
  <2> QED BY <1>2, <2>1, <2>2
<1> HIDE DEF m
<1>9. RunOK(n)
  BY <1>1, <1>2, <1>5, <1>6, <1>7, <1>8, EndKeeps
<1>10. RunsOK' /\ run'[r] = n /\ \A q \in Runs \ {r} : run'[q] = run[q]
  BY <1>4, <1>7, <1>9, RunMoves DEF DispatchInv
<1> QED BY <1>1, <1>5, <1>10, PaperRests DEF Live, m

LEMMA WaveEndsStep ==
  ASSUME DispatchInv, NEW r \in Runs, WaveEnds(r)
  PROVE  DispatchInv'
<1> DEFINE m == run[r]
<1>1. m \in RunRecords /\ RunOK(m) /\ m.pc = "run" /\ UNCHANGED diskVars /\ r \in up
  BY DEF DispatchInv, RunsOK, WaveEnds, PaperOK, Live
<1>2. PICK n : n = [m EXCEPT !.pc = "record"]
  OBVIOUS
<1>3. run' = [run EXCEPT ![r] = n]
  BY <1>2 DEF WaveEnds
<1>4. /\ n \in RunRecords /\ n.pc = "record" /\ n.plan = m.plan /\ n.steps = m.steps /\ n.wave = m.wave
      /\ n.verdict = m.verdict /\ n.spent = m.spent /\ n.left = m.left /\ n.over = m.over /\ n.lost = m.lost
      /\ n.err = m.err
  BY <1>1, <1>2 DEF RunRecords, Live
<1>5. /\ Validates(m.plan) /\ DOMAIN m.wave \subseteq DOMAIN m.plan /\ m.verdict = "none"
      /\ DOMAIN m.wave \ StepIds(m.steps) # {} /\ \A s \in DOMAIN m.wave : m.wave[s] \notin {"queued", "running"}
  BY <1>1 DEF RunOK, FilingOK, WaveOK, WaveEnds
<1>6. RunOK(n)
  BY <1>1, <1>4, <1>5, GoesOn
<1>7. RunsOK' /\ run'[r] = n /\ \A q \in Runs \ {r} : run'[q] = run[q]
  BY <1>3, <1>4, <1>6, RunMoves DEF DispatchInv
<1> QED BY <1>1, <1>4, <1>7, PaperRests DEF Live

\* Asking for a Save of the run's record, and having its answer.
LEMMA PaperAsked ==
  ASSUME DispatchInv, NEW r \in Runs, NEW closed \in BOOLEAN, NEW verdict \in Verdicts,
         Asked(r, Receipt(r, closed, verdict)),
         UNCHANGED <<file, durable, aside, temp, acked, old, due, pruned, damaged, up, crashes>>,
         RunsOK', \A q \in Runs \ {r} : run'[q] = run[q], run[r].steps \subseteq run'[r].steps,
         run[r].pc \in {"record", "close"}, run'[r].pc = (IF closed THEN "closing" ELSE "saving")
  PROVE  DispatchInv'
<1>1. run'[r].steps \in SUBSET StepRecords
  BY DEF RunsOK, RunRecords
<1>2. PICK b : b = [steps |-> run'[r].steps, closed |-> closed, verdict |-> verdict]
  OBVIOUS
<1>3. b \in Bodies /\ b.steps = run'[r].steps /\ b.closed = closed
  BY <1>1, <1>2 DEF Bodies
<1>4. save' = [save EXCEPT ![r] = [at |-> "asked", body |-> b]]
  BY <1>2 DEF Asked, Receipt
<1>5. DiskTyped'
  BY <1>3, <1>4 DEF DispatchInv, DiskTyped, Saves
<1>6. save'[r].at = "asked" /\ save'[r].body = b /\ \A q \in Runs \ {r} : save'[q] = save[q]
  BY <1>4 DEF DispatchInv, DiskTyped
<1>7. ASSUME NEW q \in Runs PROVE PaperOK(q)'
  <2>1. CASE q = r
    BY <1>3, <1>6, <2>1 DEF DispatchInv, PaperOK, Live
  <2>2. CASE q # r
    BY <1>6, <2>2, ZenonT(60) DEF DispatchInv, PaperOK
  <2> QED BY <2>1, <2>2
<1> QED BY <1>5, <1>7 DEF DispatchInv

LEMMA PaperAnswered ==
  ASSUME DispatchInv, NEW r \in Runs, save' = [save EXCEPT ![r] = Idle],
         UNCHANGED <<file, durable, aside, temp, acked, old, due, pruned, damaged, up, crashes>>,
         RunsOK', \A q \in Runs \ {r} : run'[q] = run[q], run'[r].steps = run[r].steps,
         \/ run[r].pc = "saving" /\ run'[r].pc \in {"wave", "record", "close"}
         \/ run[r].pc = "closing" /\ run'[r].pc = "done"
  PROVE  DispatchInv'
<1>1. Idle \in Saves
  BY DEF Idle, Blank, Saves, Bodies, Verdicts
<1>2. DiskTyped'
  BY <1>1 DEF DispatchInv, DiskTyped
<1>3. save'[r].at = "idle" /\ \A q \in Runs \ {r} : save'[q] = save[q]
  BY DEF DispatchInv, DiskTyped, Idle
<1>4. ASSUME NEW q \in Runs PROVE PaperOK(q)'
  <2>1. CASE q = r
    BY <1>3, <2>1 DEF DispatchInv, PaperOK, Live
  <2>2. CASE q # r
    BY <1>3, <2>2, ZenonT(60) DEF DispatchInv, PaperOK
  <2> QED BY <2>1, <2>2
<1> QED BY <1>2, <1>4 DEF DispatchInv

LEMMA FileStepStep ==
  ASSUME DispatchInv, NEW r \in Runs, FileStep(r)
  PROVE  DispatchInv'
<1> DEFINE m == run[r]
           s == Min(Unfiled(r))
<1>1. m \in RunRecords /\ RunOK(m) /\ m.pc = "record"
  BY DEF DispatchInv, RunsOK, FileStep
<1>2. PICK x : x = [id |-> s, v |-> IF m.wave[s] = "blocked" THEN "failed" ELSE m.wave[s], ran |-> m.wave[s] # "blocked"]
  OBVIOUS
<1>3. PICK n : n = [m EXCEPT !.pc = "saving", !.steps = m.steps \cup {x}]
  OBVIOUS
<1>4. run' = [run EXCEPT ![r] = n]
  BY <1>2, <1>3 DEF FileStep, DispatchInv, RunsOK
<1>5. n.pc = "saving" /\ n.steps = m.steps \cup {x}
  BY <1>1, <1>3 DEF RunRecords
<1>6. s = Min(DOMAIN m.wave \ StepIds(m.steps))
  BY DEF Unfiled
<1>7. n \in RunRecords /\ RunOK(n)
  <2> HIDE DEF m, s
  <2> QED BY <1>1, <1>2, <1>3, <1>6, FileKeeps
<1>8. RunsOK' /\ run'[r] = n /\ \A q \in Runs \ {r} : run'[q] = run[q]
  BY <1>4, <1>7, RunMoves DEF DispatchInv
<1>9. /\ Asked(r, Receipt(r, FALSE, "none")) /\ "none" \in Verdicts
      /\ UNCHANGED <<file, durable, aside, temp, acked, old, due, pruned, damaged, up, crashes>>
  BY DEF FileStep, Verdicts
<1> QED BY <1>1, <1>5, <1>8, <1>9, PaperAsked

LEMMA FiledStep ==
  ASSUME DispatchInv, NEW r \in Runs, Filed(r)
  PROVE  DispatchInv'
<1> DEFINE m == run[r]
<1>1. m \in RunRecords /\ RunOK(m) /\ m.pc = "saving"
  BY DEF DispatchInv, RunsOK, Filed
<1>2. /\ Validates(m.plan) /\ DOMAIN m.wave \subseteq DOMAIN m.plan /\ m.verdict = "none"
      /\ \A s \in DOMAIN m.wave : m.wave[s] \notin {"queued", "running"}
  BY <1>1 DEF RunOK, FilingOK
<1>3. \E n \in RunRecords : /\ RunOK(n) /\ run' = [run EXCEPT ![r] = n] /\ n.steps = m.steps
                            /\ n.pc \in {"wave", "record", "close"}
  <2>1. CASE save[r].at = "error"
    <3>1. PICK n : n = [m EXCEPT !.pc = "close", !.err = TRUE, !.lost = TRUE]
      OBVIOUS
    <3>2. run' = [run EXCEPT ![r] = n]
      BY <2>1, <3>1 DEF Filed
    <3>3. /\ n \in RunRecords /\ n.pc = "close" /\ n.plan = m.plan /\ n.steps = m.steps /\ n.wave = m.wave /\ n.lost /\ n.err
          /\ n.verdict = m.verdict /\ n.spent = m.spent /\ n.left = m.left /\ n.over = m.over
      BY <1>1, <3>1 DEF RunRecords, Live
    <3>4. RunOK(n)
      BY <1>1, <1>2, <3>3, GoesOn
    <3> QED BY <3>2, <3>3, <3>4
  <2>2. CASE save[r].at # "error" /\ Unfiled(r) # {}
    <3>1. PICK n : n = [m EXCEPT !.pc = "record"]
      OBVIOUS
    <3>2. run' = [run EXCEPT ![r] = n]
      BY <2>2, <3>1 DEF Filed
    <3>3. /\ n \in RunRecords /\ n.pc = "record" /\ n.plan = m.plan /\ n.steps = m.steps /\ n.wave = m.wave /\ n.lost = m.lost
          /\ n.verdict = m.verdict /\ n.spent = m.spent /\ n.left = m.left /\ n.over = m.over /\ n.err = m.err
      BY <1>1, <3>1 DEF RunRecords, Live
    <3>4. RunOK(n)
      BY <1>1, <1>2, <2>2, <3>3, GoesOn DEF Unfiled
    <3> QED BY <3>2, <3>3, <3>4
  <2>3. CASE save[r].at # "error" /\ Unfiled(r) = {}
    <3>1. PICK w : w = << >>
      OBVIOUS
    <3>2. w \in Waves /\ DOMAIN w = {}
      BY <3>1, EmptyWave
    <3>3. PICK n : n = [m EXCEPT !.pc = "wave", !.wave = w, !.share = 0]
      OBVIOUS
    <3>4. run' = [run EXCEPT ![r] = n]
      BY <2>3, <3>1, <3>3 DEF Filed
    <3>5. /\ n \in RunRecords /\ n.pc = "wave" /\ n.plan = m.plan /\ n.steps = m.steps /\ n.wave = w /\ n.lost = m.lost
          /\ n.verdict = m.verdict /\ n.spent = m.spent /\ n.left = m.left /\ n.over = m.over /\ n.err = m.err
      BY <1>1, <3>2, <3>3 DEF RunRecords, Live
    <3>6. RunOK(n)
      BY <1>1, <1>2, <3>2, <3>5, GoesOn
    <3> QED BY <3>4, <3>5, <3>6
  <2> QED BY <2>1, <2>2, <2>3
<1>4. PICK n \in RunRecords : /\ RunOK(n) /\ run' = [run EXCEPT ![r] = n] /\ n.steps = m.steps
                             /\ n.pc \in {"wave", "record", "close"}
  BY <1>3
<1>5. RunsOK' /\ run'[r] = n /\ \A q \in Runs \ {r} : run'[q] = run[q]
  BY <1>4, RunMoves DEF DispatchInv
<1>6. /\ save' = [save EXCEPT ![r] = Idle]
      /\ UNCHANGED <<file, durable, aside, temp, acked, old, due, pruned, damaged, up, crashes>>
  BY DEF Filed
<1> QED BY <1>1, <1>4, <1>5, <1>6, PaperAnswered

\* overallVerdict says ok only of steps that all are, and of a run nobody stopped.
LEMMA OKIsEarned ==
  ASSUME NEW r, run[r].steps \in SUBSET StepRecords
  PROVE  /\ OverallVerdict(r) \in {"ok", "failed", "canceled"}
         /\ OverallVerdict(r) = "ok" => run[r].steps # {} /\ ~run[r].ctx /\ \A x \in run[r].steps : x.v = "ok"
<1> DEFINE verdicts == {s.v : s \in run[r].steps}
<1>1. \A x \in run[r].steps : x.v \in verdicts
  OBVIOUS
<1>2. verdicts # {} => run[r].steps # {}
  OBVIOUS
<1>3. OverallVerdict(r) = CASE verdicts \ {"ok", "canceled"} # {} -> "failed"
    [] verdicts \subseteq {"ok", "canceled"} /\ (run[r].ctx \/ "canceled" \in verdicts) -> "canceled"
    [] verdicts = {} /\ ~run[r].ctx -> "failed"
    [] OTHER -> "ok"
  BY DEF OverallVerdict
<1> HIDE DEF verdicts
<1>4. CASE verdicts \ {"ok", "canceled"} # {}
  BY <1>3, <1>4
<1>5. CASE verdicts \ {"ok", "canceled"} = {} /\ (run[r].ctx \/ "canceled" \in verdicts)
  BY <1>3, <1>5
<1>6. CASE verdicts \ {"ok", "canceled"} = {} /\ ~run[r].ctx /\ "canceled" \notin verdicts
  BY <1>1, <1>2, <1>3, <1>6
<1> QED BY <1>4, <1>5, <1>6

LEMMA CloseRunStep ==
  ASSUME DispatchInv, NEW r \in Runs, CloseRun(r)
  PROVE  DispatchInv'
<1> DEFINE m == run[r]
<1>1. m \in RunRecords /\ RunOK(m) /\ m.pc = "close"
  BY DEF DispatchInv, RunsOK, CloseRun
<1>2. PICK v : v = OverallVerdict(r)
  OBVIOUS
<1>3. v \in {"ok", "failed", "canceled"} /\ (v = "ok" => m.steps # {} /\ ~m.ctx /\ \A x \in m.steps : x.v = "ok")
  BY <1>1, <1>2, OKIsEarned DEF RunRecords
<1>4. PICK n : n = [m EXCEPT !.pc = "closing", !.verdict = v]
  OBVIOUS
<1>5. run' = [run EXCEPT ![r] = n]
  BY <1>2, <1>4 DEF CloseRun, DispatchInv, RunsOK
<1>6. n.pc = "closing" /\ n.steps = m.steps
  BY <1>1, <1>4 DEF RunRecords
<1>7. n \in RunRecords /\ RunOK(n)
  <2> HIDE DEF m
  <2> QED BY <1>1, <1>3, <1>4, CloseKeeps
<1>8. RunsOK' /\ run'[r] = n /\ \A q \in Runs \ {r} : run'[q] = run[q]
  BY <1>5, <1>7, RunMoves DEF DispatchInv
<1>9. /\ Asked(r, Receipt(r, TRUE, v)) /\ v \in Verdicts
      /\ UNCHANGED <<file, durable, aside, temp, acked, old, due, pruned, damaged, up, crashes>>
  BY <1>2, <1>3 DEF CloseRun, Verdicts
<1> QED BY <1>1, <1>6, <1>8, <1>9, PaperAsked

LEMMA ClosedStep ==
  ASSUME DispatchInv, NEW r \in Runs, Closed(r)
  PROVE  DispatchInv'
<1> DEFINE m == run[r]
<1>1. m \in RunRecords /\ RunOK(m) /\ m.pc = "closing"
  BY DEF DispatchInv, RunsOK, Closed
<1>2. PICK e \in BOOLEAN : e = (m.err \/ save[r].at = "error")
  OBVIOUS
<1>3. PICK n : n = [m EXCEPT !.pc = "done", !.err = e]
  OBVIOUS
<1>4. run' = [run EXCEPT ![r] = n]
  BY <1>2, <1>3 DEF Closed, DispatchInv, RunsOK
<1>5. /\ n \in RunRecords /\ n.pc = "done" /\ n.plan = m.plan /\ n.steps = m.steps /\ n.wave = m.wave /\ n.lost = m.lost
      /\ n.verdict = m.verdict /\ n.spent = m.spent /\ n.left = m.left /\ n.over = m.over /\ n.ctx = m.ctx
      /\ (n.err \/ n.err = m.err)
  BY <1>1, <1>2, <1>3 DEF RunRecords
<1>6. DOMAIN m.wave \subseteq DOMAIN m.plan
  BY <1>1 DEF RunOK, FilingOK
<1>7. RunOK(n)
  BY <1>1, <1>5, <1>6, GoesOn
<1>8. RunsOK' /\ run'[r] = n /\ \A q \in Runs \ {r} : run'[q] = run[q]
  BY <1>4, <1>5, <1>7, RunMoves DEF DispatchInv
<1>9. /\ save' = [save EXCEPT ![r] = Idle]
      /\ UNCHANGED <<file, durable, aside, temp, acked, old, due, pruned, damaged, up, crashes>>
  BY DEF Closed
<1> QED BY <1>1, <1>5, <1>8, <1>9, PaperAnswered

LEMMA CancelStep ==
  ASSUME DispatchInv, NEW r \in Runs, Cancel(r)
  PROVE  DispatchInv'
<1> DEFINE m == run[r]
<1>1. m \in RunRecords /\ RunOK(m) /\ UNCHANGED diskVars /\ m.pc \in Live \ {"closing"}
  BY DEF DispatchInv, RunsOK, Cancel
<1>2. PICK n : n = [m EXCEPT !.ctx = TRUE]
  OBVIOUS
<1>3. run' = [run EXCEPT ![r] = n]
  BY <1>2 DEF Cancel, DispatchInv, RunsOK
<1>4. /\ n \in RunRecords /\ n.pc = m.pc /\ n.plan = m.plan /\ n.steps = m.steps /\ n.wave = m.wave /\ n.lost = m.lost
      /\ n.verdict = m.verdict /\ n.spent = m.spent /\ n.left = m.left /\ n.over = m.over /\ n.share = m.share /\ n.ctx
      /\ n.err = m.err
  BY <1>1, <1>2 DEF RunRecords
<1>5. RunOK(n)
  <2>1. m.verdict = "none"
    BY <1>1 DEF RunOK, FilingOK, Live
  <2> QED BY <1>1, <1>4, <2>1 DEF RunOK, FilingOK, WaveOK, Open, AtWork
<1>6. RunsOK' /\ run'[r] = n /\ \A q \in Runs \ {r} : run'[q] = run[q]
  BY <1>3, <1>4, <1>5, RunMoves DEF DispatchInv
<1>7. DiskTyped'
  BY <1>1 DEF DispatchInv, DiskTyped, diskVars
<1>8. ASSUME NEW q \in Runs PROVE PaperOK(q)'
  <2>1. run'[q].pc = run[q].pc /\ run'[q].steps = run[q].steps
    BY <1>4, <1>6
  <2> QED BY <1>1, <2>1 DEF DispatchInv, PaperOK, diskVars
<1> QED BY <1>6, <1>7, <1>8 DEF DispatchInv

-----------------------------------------------------------------------------
(* The disk. *)

LEMMA RunsRest ==
  ASSUME RunsOK, UNCHANGED run
  PROVE  RunsOK'
BY DEF RunsOK

LEMMA WholeIs ==
  ASSUME NEW b
  PROVE  Whole(b).kind = "whole" /\ Whole(b).body = b
BY DEF Whole

LEMMA SavingStep ==
  ASSUME DispatchInv, NEW r \in Runs, Saving(r), UNCHANGED run
  PROVE  DispatchInv'
<1>1. RunsOK'
  BY RunsRest DEF DispatchInv
<1>2. save[r] \in Saves /\ Whole(save[r].body) \in Documents
  BY DEF DispatchInv, DiskTyped, Saves, Documents, Whole
<1>3. DiskTyped'
  <2>1. CASE SaveWrites(r) \/ SaveSyncs(r) \/ SaveFails(r)
    BY <1>2, <2>1 DEF SaveWrites, SaveSyncs, SaveFails, Moves, DispatchInv, DiskTyped, Saves
  <2>2. CASE SaveRenames(r)
    BY <1>2, <2>2 DEF SaveRenames, Moves, DispatchInv, DiskTyped, Saves
  <2>3. CASE SaveReturns(r)
    BY <1>2, <2>3 DEF SaveReturns, Moves, DispatchInv, DiskTyped, Saves
  <2> QED BY <2>1, <2>2, <2>3 DEF Saving
<1>4. ASSUME NEW q \in Runs PROVE PaperOK(q)'
  <2>1. CASE SaveWrites(r) \/ SaveSyncs(r) \/ SaveFails(r)
    <3>1. /\ save'[q].body = save[q].body /\ (save[q].at = "idle" <=> save'[q].at = "idle")
          /\ (save'[q].at \in {"renamed", "ok"} => save[q].at = save'[q].at)
      BY <1>2, <2>1 DEF SaveWrites, SaveSyncs, SaveFails, Moves, DispatchInv, DiskTyped, Saves
    <3>2. UNCHANGED <<file, durable, acked, old, pruned, damaged, up, run>>
      BY <2>1 DEF SaveWrites, SaveSyncs, SaveFails
    <3> QED BY <3>1, <3>2, ZenonT(60) DEF DispatchInv, PaperOK
  <2>2. CASE SaveRenames(r)
    <3>1. CASE q # r
      <4>1. save'[q] = save[q] /\ file'[q] = file[q] /\ (q \in old' <=> q \in old)
        BY <2>2, <3>1 DEF SaveRenames, Moves, DispatchInv, DiskTyped
      <4> QED BY <2>2, <4>1, ZenonT(60) DEF SaveRenames, DispatchInv, PaperOK
    <3>2. CASE q = r
      <4>1. /\ save'[r].at = "renamed" /\ save'[r].body = save[r].body /\ file'[r] = Whole(save[r].body)
            /\ r \notin old' /\ save[r].at = "synced"
        BY <1>2, <2>2 DEF SaveRenames, Moves, DispatchInv, DiskTyped, Saves
      <4>2. acked[r].kind = "whole" => Covers(file'[r], acked[r])
        <5>1. run[r].pc \in {"saving", "closing"}
          BY <4>1 DEF DispatchInv, PaperOK
        <5>2. /\ save[r].body.steps = run[r].steps /\ (run[r].pc = "closing" => save[r].body.closed)
              /\ acked[r].kind = "whole" => /\ acked[r].body.steps \subseteq run[r].steps
                                            /\ acked[r].body.closed => run[r].pc = "closing"
          BY <5>1 DEF DispatchInv, PaperOK
        <5>3. file'[r].kind = "whole" /\ file'[r].body = save[r].body
          BY <4>1, WholeIs
        <5> QED BY <5>2, <5>3 DEF Covers
      <4>3. UNCHANGED <<durable, acked, pruned, damaged, up, run>>
        BY <2>2 DEF SaveRenames
      <4>4. file'[r].kind = "whole"
        BY <4>1, WholeIs
      <4> QED BY <3>2, <4>1, <4>2, <4>3, <4>4, ZenonT(60) DEF DispatchInv, PaperOK
    <3> QED BY <3>1, <3>2
  <2>3. CASE SaveReturns(r)
    <3>1. UNCHANGED <<file, pruned, damaged, up, run, old>> /\ durable' = file
      BY <2>3 DEF SaveReturns
    <3>2. CASE q # r
      <4>1. save'[q] = save[q] /\ acked'[q] = acked[q]
        BY <2>3, <3>2 DEF SaveReturns, Moves, DispatchInv, DiskTyped
      <4> QED BY <3>1, <4>1, ZenonT(60) DEF DispatchInv, PaperOK
    <3>3. CASE q = r
      <4>1. /\ save'[r].at = "ok" /\ save'[r].body = save[r].body /\ acked'[r] = Whole(save[r].body)
            /\ save[r].at = "renamed"
        BY <1>2, <2>3 DEF SaveReturns, Moves, DispatchInv, DiskTyped, Saves
      <4>2. acked'[r].kind = "whole" /\ acked'[r].body = save[r].body
        BY <4>1, WholeIs
      <4>3. run[r].pc \in {"saving", "closing"}
        BY <4>1 DEF DispatchInv, PaperOK
      <4>4. r \notin damaged => file[r] = acked'[r]
        BY <4>1 DEF DispatchInv, PaperOK
      <4>5. r \notin damaged => Covers(file[r], acked'[r])
        BY <4>2, <4>4 DEF Covers
      <4> QED BY <3>1, <3>3, <4>1, <4>2, <4>3, <4>5, ZenonT(60) DEF DispatchInv, PaperOK
    <3> QED BY <3>2, <3>3
  <2> QED BY <2>1, <2>2, <2>3 DEF Saving
<1> QED BY <1>1, <1>3, <1>4 DEF DispatchInv

\* A process goes, and its run and its Save with it; the power takes several and
\* may take back what the directory was not synced after.
LEMMA RunsEnd ==
  ASSUME RunsOK, NEW ps, run' = Ended(ps)
  PROVE  /\ RunsOK'
         /\ \A q \in Runs : /\ run'[q].steps = run[q].steps
                            /\ run'[q].pc = IF q \in ps /\ run[q].pc \in Live THEN "dead" ELSE run[q].pc
<1>1. ASSUME NEW q \in Runs
      PROVE  /\ run'[q] \in RunRecords /\ RunOK(run'[q]) /\ run'[q].steps = run[q].steps
             /\ run'[q].pc = IF q \in ps /\ run[q].pc \in Live THEN "dead" ELSE run[q].pc
  <2>1. CASE q \in ps /\ run[q].pc \in Live
    <3>1. PICK m : m = run[q]
      OBVIOUS
    <3>2. PICK n : n = [m EXCEPT !.pc = "dead"]
      OBVIOUS
    <3>3. run'[q] = n
      BY <2>1, <3>1, <3>2 DEF Ended
    <3>4. m \in RunRecords /\ RunOK(m)
      BY <3>1 DEF RunsOK
    <3>5. /\ n \in RunRecords /\ n.pc = "dead" /\ n.plan = m.plan /\ n.steps = m.steps /\ n.wave = m.wave /\ n.lost = m.lost
          /\ n.verdict = m.verdict /\ n.spent = m.spent /\ n.left = m.left /\ n.over = m.over
          /\ n.err = m.err /\ n.ctx = m.ctx
      BY <3>2, <3>4 DEF RunRecords
    <3>6. DOMAIN m.wave \subseteq DOMAIN m.plan
      BY <3>4 DEF RunOK, FilingOK
    <3>7. RunOK(n)
      BY <3>4, <3>5, <3>6, GoesOn
    <3> QED BY <2>1, <3>1, <3>3, <3>5, <3>7
  <2>2. CASE ~(q \in ps /\ run[q].pc \in Live)
    BY <2>2 DEF Ended, RunsOK
  <2> QED BY <2>1, <2>2
<1>2. run' \in [Runs -> RunRecords]
  <2>1. run' = [q \in Runs |-> run'[q]]
    BY DEF Ended
  <2> QED BY <1>1, <2>1
<1> QED BY <1>1, <1>2 DEF RunsOK

DiskAfter(ps) ==
  \A q \in Runs : \/ file'[q] = file[q] /\ durable'[q] = durable[q]
                  \/ ps = up /\ file'[q] \in {file[q], durable[q]} /\ durable'[q] = file'[q]

LEMMA StoppedStep ==
  ASSUME DispatchInv, NEW ps \in SUBSET up, Stopped(ps), run' = Ended(ps), acked' = acked, old' = old, pruned' = pruned,
         damaged' = damaged, file' \in [Runs -> Documents], durable' \in [Runs -> Documents],
         DiskAfter(ps)
  PROVE  DispatchInv'
<1>1. /\ RunsOK'
      /\ \A q \in Runs : /\ run'[q].steps = run[q].steps
                         /\ run'[q].pc = IF q \in ps /\ run[q].pc \in Live THEN "dead" ELSE run[q].pc
  BY RunsEnd DEF DispatchInv
<1>2. Idle \in Saves /\ Idle.at = "idle"
  BY DEF Idle, Blank, Saves, Bodies, Verdicts
<1>3. DiskTyped'
  BY <1>2 DEF Stopped, DispatchInv, DiskTyped
<1>4. ASSUME NEW q \in Runs PROVE PaperOK(q)'
  <2>1. up' = up \ ps /\ save'[q] = IF q \in ps THEN Idle ELSE save[q]
    BY DEF Stopped
  <2>2. PaperOK(q)
    BY DEF DispatchInv
  <2>3. CASE q \in ps
    <3>1. save'[q].at = "idle" /\ run'[q].pc \notin {"saving", "closing"} /\ run'[q].pc \notin Live
      BY <1>1, <1>2, <2>1, <2>3 DEF Live
    <3>2. /\ run'[q].pc = "dead" \/ run'[q].pc = run[q].pc
          /\ run'[q].pc = "idle" => run[q].pc = "idle"
          /\ run[q].pc \in {"closing", "done", "dead"} => run'[q].pc \in {"closing", "done", "dead"}
          /\ run'[q].steps = run[q].steps
      BY <1>1, <2>3 DEF Live
    <3>3. file'[q] \in {file[q], durable[q]} /\ durable'[q] \in {file[q], durable[q]}
      BY DEF DiskAfter
    <3>4. q \notin damaged' => /\ file'[q].kind # "torn" /\ durable'[q].kind # "torn"
                               /\ acked'[q].kind = "whole" =>
                                    \/ Covers(file'[q], acked'[q]) /\ Covers(durable'[q], acked'[q])
                                    \/ <<q, TRUE>> \in pruned'
      BY <2>2, <3>3 DEF PaperOK
    <3> QED BY <2>2, <3>1, <3>2, <3>4 DEF PaperOK
  <2>4. CASE q \notin ps
    <3>1. save'[q] = save[q] /\ run'[q].pc = run[q].pc /\ run'[q].steps = run[q].steps
      BY <1>1, <2>1, <2>4
    <3>2. CASE file'[q] = file[q] /\ durable'[q] = durable[q]
      BY <2>1, <2>2, <2>4, <3>1, <3>2 DEF PaperOK
    <3>3. CASE ps = up /\ file'[q] \in {file[q], durable[q]} /\ durable'[q] = file'[q]
      <4>1. run[q].pc \notin Live /\ save[q].at = "idle"
        BY <2>2, <2>4, <3>3 DEF PaperOK, Live
      <4> QED BY <2>1, <2>2, <2>4, <3>1, <3>3, <4>1 DEF PaperOK, Live
    <3> QED BY <3>2, <3>3 DEF DiskAfter
  <2> QED BY <2>3, <2>4
<1> QED BY <1>1, <1>3, <1>4 DEF DispatchInv

LEMMA KillStep ==
  ASSUME DispatchInv, NEW r \in Runs, Kill(r), run' = Ended({r})
  PROVE  DispatchInv'
<1>1. r \in up /\ Stopped({r}) /\ UNCHANGED <<file, durable, acked, old, pruned, damaged>>
  BY DEF Kill
<1>2. file' \in [Runs -> Documents] /\ durable' \in [Runs -> Documents]
  BY <1>1 DEF DispatchInv, DiskTyped
<1>3. PICK ps \in SUBSET up : ps = {r}
  BY <1>1
<1>4. Stopped(ps) /\ run' = Ended(ps) /\ DiskAfter(ps)
  BY <1>1, <1>3 DEF DiskAfter
<1>5. acked' = acked /\ old' = old /\ pruned' = pruned /\ damaged' = damaged
  BY <1>1
<1> QED BY <1>2, <1>4, <1>5, StoppedStep

LEMMA PanicIsDeath ==
  ASSUME DispatchInv, NEW r \in Runs, NEW s, StepPanics(r, s)
  PROVE  Kill(r) /\ run' = Ended({r})
BY DEF StepPanics, Ended, Live, DispatchInv, RunsOK

LEMMA LosesPowerStep ==
  ASSUME DispatchInv, LosesPower
  PROVE  DispatchInv'
<1>1. Stopped(up) /\ run' = Ended(up) /\ UNCHANGED <<acked, old, pruned, damaged>> /\ durable' = file'
  BY DEF LosesPower, PowerCut
<1>2. PICK lost \in SUBSET Runs : file' = [r \in Runs |-> IF r \in lost THEN durable[r] ELSE file[r]]
  BY DEF LosesPower, PowerCut
<1>3. file' \in [Runs -> Documents] /\ durable' \in [Runs -> Documents]
  BY <1>1, <1>2 DEF DispatchInv, DiskTyped
<1>4. DiskAfter(up)
  BY <1>1, <1>2 DEF DiskAfter
<1> QED BY <1>1, <1>3, <1>4, StoppedStep

LEMMA RecoverStep ==
  ASSUME DispatchInv, Recover, UNCHANGED run
  PROVE  DispatchInv'
<1>1. RunsOK'
  BY RunsRest DEF DispatchInv
<1>2. UNCHANGED <<durable, save, acked, old, pruned, damaged>> /\ up' = up \cup {Service}
  BY DEF Recover
<1>3. \A q \in Runs : file'[q] = IF file[q].kind = "torn" THEN None ELSE file[q]
  BY DEF Recover
<1>4. None \in Documents /\ None.kind = "none"
  BY DEF None, Blank, Documents, Bodies, Verdicts
<1>5. DiskTyped'
  <2>1. file' \in [Runs -> Documents]
    BY <1>4 DEF Recover, DispatchInv, DiskTyped
  <2> QED BY <1>2, <2>1 DEF DispatchInv, DiskTyped
<1>6. ASSUME NEW q \in Runs PROVE PaperOK(q)'
  <2>1. q \notin damaged => file'[q] = file[q]
    BY <1>3 DEF DispatchInv, PaperOK
  <2> QED BY <1>2, <2>1 DEF DispatchInv, PaperOK
<1> QED BY <1>1, <1>5, <1>6 DEF DispatchInv

LEMMA PruneStep ==
  ASSUME DispatchInv, Prune, UNCHANGED run
  PROVE  DispatchInv'
<1> DEFINE gone == {r \in Runs : Prunable(r)}
<1>1. RunsOK'
  BY RunsRest DEF DispatchInv
<1>2. /\ UNCHANGED <<save, acked, old, damaged, up>> /\ file' = [r \in Runs |-> IF r \in gone THEN None ELSE file[r]]
      /\ durable' = (IF gone = {} THEN durable ELSE file') /\ pruned' = pruned \cup {<<r, file[r].body.closed>> : r \in gone}
  BY DEF Prune
<1>3. None \in Documents /\ None.kind = "none"
  BY DEF None, Blank, Documents, Bodies, Verdicts
<1>4. DiskTyped'
  <2>1. file' \in [Runs -> Documents]
    BY <1>2, <1>3 DEF DispatchInv, DiskTyped
  <2> QED BY <1>2, <2>1 DEF DispatchInv, DiskTyped
<1>5. ASSUME NEW q \in Runs PROVE PaperOK(q)'
  <2>1. pruned \subseteq pruned' /\ (q \in gone => <<q, TRUE>> \in pruned')
    <3>1. q \in gone => file[q].body.closed = TRUE
      BY DEF Prunable, DispatchInv, DiskTyped, Documents, Bodies
    <3> QED BY <1>2, <3>1
  <2>2. CASE q \in gone
    <3>1. file'[q] = None /\ durable'[q] = None /\ q \in old
      BY <1>2, <2>2 DEF Prunable
    <3> QED BY <1>2, <1>3, <2>1, <2>2, <3>1 DEF DispatchInv, PaperOK
  <2>3. CASE q \notin gone
    <3>1. file'[q] = file[q] /\ durable'[q] \in {durable[q], file[q]}
      BY <1>2, <2>3
    <3> QED BY <1>2, <2>1, <3>1, ZenonT(60) DEF DispatchInv, PaperOK
  <2> QED BY <2>2, <2>3
<1> QED BY <1>1, <1>4, <1>5 DEF DispatchInv

LEMMA TimePassesStep ==
  ASSUME DispatchInv, TimePasses, UNCHANGED run
  PROVE  DispatchInv'
<1>1. RunsOK'
  BY RunsRest DEF DispatchInv
<1>2. /\ UNCHANGED <<file, durable, save, acked, pruned, damaged, up>>
      /\ \A q \in Runs : q \in old' => q \in old \/ save[q].at = "idle"
  BY DEF TimePasses
<1>3. DiskTyped'
  BY <1>2 DEF DispatchInv, DiskTyped
<1>4. ASSUME NEW q \in Runs PROVE PaperOK(q)'
  BY <1>2 DEF DispatchInv, PaperOK
<1> QED BY <1>1, <1>3, <1>4 DEF DispatchInv

LEMMA CommandStartsStep ==
  ASSUME DispatchInv, NEW r \in Runs, CommandStarts(r), UNCHANGED run
  PROVE  DispatchInv'
<1>1. RunsOK'
  BY RunsRest DEF DispatchInv
<1>2. UNCHANGED <<file, durable, save, acked, old, pruned, damaged>> /\ up \subseteq up'
  BY DEF CommandStarts
<1>3. DiskTyped'
  BY <1>2 DEF DispatchInv, DiskTyped
<1>4. ASSUME NEW q \in Runs PROVE PaperOK(q)'
  BY <1>2 DEF DispatchInv, PaperOK
<1> QED BY <1>1, <1>3, <1>4 DEF DispatchInv

LEMMA DamageStep ==
  ASSUME DispatchInv, NEW r \in Runs, Damage(r), UNCHANGED run
  PROVE  DispatchInv'
<1>1. RunsOK'
  BY RunsRest DEF DispatchInv
<1>2. /\ UNCHANGED <<save, acked, old, pruned, up>> /\ damaged = {} /\ damaged' = {r}
      /\ file' = [file EXCEPT ![r] = Torn] /\ durable' = [durable EXCEPT ![r] = Torn]
  BY DEF Damage
<1>3. DiskTyped'
  <2>1. Torn \in Documents
    BY DEF Torn, Blank, Documents, Bodies, Verdicts
  <2> QED BY <1>2, <2>1 DEF DispatchInv, DiskTyped
<1>4. ASSUME NEW q \in Runs PROVE PaperOK(q)'
  <2>1. q \notin damaged' => q \notin damaged /\ file'[q] = file[q] /\ durable'[q] = durable[q]
    BY <1>2 DEF DispatchInv, DiskTyped
  <2> QED BY <1>2, <2>1, ZenonT(60) DEF DispatchInv, PaperOK
<1> QED BY <1>1, <1>3, <1>4 DEF DispatchInv

-----------------------------------------------------------------------------
(* The theorems. *)

LEMMA DispatchInit == Init => DispatchInv
<1> SUFFICES ASSUME Init PROVE DispatchInv
  OBVIOUS
<1>1. None \in Documents /\ Idle \in Saves /\ None.kind = "none" /\ Idle.at = "idle"
  BY DEF None, Idle, Blank, Documents, Saves, Bodies, Verdicts
<1>2. DiskTyped
  BY <1>1 DEF Init, DiskInit, DiskTyped
<1>3. RunsOK /\ \A r \in Runs : run[r].pc = "idle"
  <2>1. PICK n : n = [NoRun EXCEPT !.plan = AskPlan, !.pc = "idle", !.err = FALSE]
    OBVIOUS
  <2>2. n = NoRun
    BY <2>1 DEF NoRun
  <2>3. n \in RunRecords /\ RunOK(n) /\ n.pc = "idle"
    BY <2>1, FreshRuns
  <2> QED BY <2>2, <2>3 DEF Init, RunsOK
<1>4. ASSUME NEW r \in Runs PROVE PaperOK(r)
  BY <1>1, <1>3 DEF Init, DiskInit, PaperOK, Live
<1> QED BY <1>2, <1>3, <1>4 DEF DispatchInv

LEMMA DispatchNext == DispatchInv /\ [Next]_vars => DispatchInv'
<1> SUFFICES ASSUME DispatchInv, [Next]_vars PROVE DispatchInv'
  OBVIOUS
<1>1. CASE UNCHANGED vars
  BY <1>1, ZenonT(60) DEF vars, DispatchInv, DiskTyped, RunsOK, PaperOK
<1>2. ASSUME NEW r \in Runs, Works(r) PROVE DispatchInv'
  BY <1>2, AskStep, BeginWaveStep, WaveEndsStep, FileStepStep, FiledStep, CloseRunStep, ClosedStep DEF Works
<1>3. ASSUME NEW r \in Runs, Steps(r) PROVE DispatchInv'
  BY <1>3, StepStartsStep, PanicIsDeath, KillStep, StepEndsStep DEF Steps
<1>4. ASSUME NEW r \in Runs, Cancel(r) \/ Dies(r) \/ (Saving(r) /\ UNCHANGED run) PROVE DispatchInv'
  BY <1>4, CancelStep, KillStep, SavingStep DEF Dies
<1>5. ASSUME NEW r \in Runs, CommandStarts(r) \/ Damage(r), UNCHANGED run PROVE DispatchInv'
  BY <1>5, CommandStartsStep, DamageStep
<1>6. ASSUME Recover \/ Prune \/ TimePasses, UNCHANGED run PROVE DispatchInv'
  BY <1>6, RecoverStep, PruneStep, TimePassesStep
<1> QED BY <1>1, <1>2, <1>3, <1>4, <1>5, <1>6, LosesPowerStep DEF Next

\* The run's record and its paper agree at every moment: what a Save carries is
\* the record, what it said yes to is on the disk, shown and durable, and the
\* wave, the money and the filing of the run are in order (Agent.Ask,
\* Agent.dispatch, Store.Save, Store.Recover, Store.Prune).
THEOREM DispatchInvariant == Spec => []DispatchInv
BY DispatchInit, DispatchNext, PTL DEF Spec

\* What a Save said yes to survives every kill and every power cut, until
\* retention takes a closed receipt (Store.Save, Store.Prune).
THEOREM ReceiptsSurviveHolds == Spec => []ReceiptsSurvive
<1>1. DispatchInv => ReceiptsSurvive
  BY DEF DispatchInv, PaperOK, ReceiptsSurvive
<1> QED BY <1>1, DispatchInvariant, PTL

\* A step runs only on what passed review, no more at once than maxParallel, and
\* a run whose steps keep to their shares keeps to its grant (blockedBy, runWave,
\* grant.shares, grant.spend).
THEOREM WavesKeepTheirWordHolds == Spec => []WavesKeepTheirWord
<1>1. DispatchInv => WavesKeepTheirWord
  <2> SUFFICES ASSUME DispatchInv, NEW r \in Runs, run[r].pc = "run"
               PROVE  /\ \A s \in Running(r) : \A n \in run[r].plan[s] : \E x \in run[r].steps : x.id = n /\ x.v = "ok" /\ x.ran
                      /\ Cardinality(Running(r)) <= Limit
                      /\ ~run[r].over => run[r].spent <= Budget
    BY DEF WavesKeepTheirWord
  <2>1. run[r] \in RunRecords /\ FilingOK(run[r]) /\ WaveOK(run[r]) /\ (~run[r].over => run[r].spent + run[r].left = Budget)
    BY DEF DispatchInv, RunsOK, RunOK
  <2>2. Running(r) = AtWork(run[r])
    BY DEF Running, AtWork
  <2>3. ASSUME NEW s \in Running(r), NEW n \in run[r].plan[s]
        PROVE  \E x \in run[r].steps : x.id = n /\ x.v = "ok" /\ x.ran
    <3>1. n \in StepIds(run[r].steps) /\ n \notin NotOK(run[r].steps)
      BY <2>1 DEF Running, WaveOK
    <3>2. PICK x \in run[r].steps : x.id = n
      BY <3>1 DEF StepIds
    <3>3. x.v = "ok"
      BY <3>1, <3>2 DEF NotOK
    <3> QED BY <2>1, <3>2, <3>3 DEF FilingOK
  <2>4. Cardinality(Running(r)) <= Limit
    BY <2>1, <2>2 DEF WaveOK
  <2>5. ~run[r].over => run[r].spent <= Budget
    BY <2>1 DEF RunRecords
  <2> QED BY <2>3, <2>4, <2>5
<1> QED BY <1>1, DispatchInvariant, PTL

\* A run closed as ok was stopped by nobody, no step of it went wrong, and all of its
\* plan was carried out, unless a Save failed within a plan of several steps, which
\* is the error its caller is given (Agent.Ask, overallVerdict).
THEOREM OKMeansCarriedOutHolds == Spec => []OKMeansCarriedOut
<1>1. ASSUME DispatchInv, NEW r \in Runs, run[r].verdict = "ok"
      PROVE  /\ ~run[r].ctx /\ NotOK(run[r].steps) = {}
             /\ \/ StepIds(run[r].steps) = DOMAIN run[r].plan
                \/ run[r].lost /\ run[r].err /\ \E s, t \in DOMAIN run[r].plan : s # t
  <2>1. FilingOK(run[r])
    BY <1>1 DEF DispatchInv, RunsOK, RunOK
  <2>2. PICK x : x \in run[r].steps
    BY <1>1, <2>1 DEF FilingOK
  <2>3. x.id \in StepIds(run[r].steps) /\ StepIds(run[r].steps) \subseteq DOMAIN run[r].plan
    BY <2>1, <2>2 DEF StepIds, FilingOK
  <2>4. CASE \A s, t \in DOMAIN run[r].plan : s = t
    BY <1>1, <2>1, <2>3, <2>4 DEF FilingOK
  <2>5. CASE \E s, t \in DOMAIN run[r].plan : s # t
    BY <1>1, <2>1, <2>5 DEF FilingOK
  <2> QED BY <2>4, <2>5
<1>2. DispatchInv => OKMeansCarriedOut
  BY <1>1 DEF OKMeansCarriedOut
<1> QED BY <1>2, DispatchInvariant, PTL

-----------------------------------------------------------------------------
(* StdioSession: which request a line answers, and what has been greeted. *)

Demands == {"initialize", "discover", "tools/call"}
Replies == [id : Nat, kind : Session!Kinds]
Threads == [pc : {"idle", "init", "gate", "write", "await"}, m : Session!Methods, id : Nat, ans : Replies \cup {Nobody}, calls : Nat]
PipeFrames == [by : Callers \cup {Nobody, Reader}, m : Session!Methods, id : Nat]
Peers == [up : BOOLEAN, reads : BOOLEAN, asked : SUBSET [m : Demands, id : Nat], said : Nat, greeted : BOOLEAN, hellos : Nat]
Prints == [kind : Session!Kinds \cup {"request"}, id : Nat]
LEMMA SeqOfMore ==
  ASSUME NEW S1, NEW T1, S1 \subseteq T1, NEW w \in Seq(S1)
  PROVE  w \in Seq(T1)
OBVIOUS

\* The ids of the server/discover requests whose callers are still there.
Awaited == {th[c].id : c \in {d \in Callers : th[d].m = "discover"}}
ThreadOK(c) ==
  /\ th[c].id <= seq /\ (th[c].ans # Nobody => th[c].ans.id = th[c].id) /\ (th[c].m = "discover" => th[c].id >= 1)
  /\ th[c].pc = "gate" /\ th[c].m = "tools/call" => peer.greeted
  /\ th[c].m = "discover" /\ th[c].ans # Nobody /\ th[c].ans.kind = "result" => peer.greeted
\* No two callers wait for one id.
ThreadsOK == /\ th \in [Callers -> Threads] /\ \A c \in Callers : ThreadOK(c)
             /\ \A c, d \in Callers : c # d => th[c].id # th[d].id \/ th[c].id = 0
\* What carries the id of a discover is the discover: in the child's hands, in
\* the pipe, and as the result that says it was greeted.
AskedOK == \A r \in peer.asked : r.id <= seq /\ (r.id \in Awaited => r.m = "discover")
PipeOK == /\ pipe \in PipeFrames /\ pipe.id <= seq
          /\ pipe.by # Nobody /\ pipe.m \in Demands /\ pipe.id \in Awaited => pipe.m = "discover"
          /\ pipe.by # Nobody /\ pipe.m = "tools/call" => peer.greeted
Printed == {l \in Prints : l.id <= seq /\ (l.kind = "result" /\ l.id \in Awaited => peer.greeted)}
SessionInv == /\ seq \in Nat /\ peer \in Peers /\ (initialized => peer.greeted)
              /\ ThreadsOK /\ AskedOK /\ PipeOK /\ printed \in Seq(Printed)

\* One caller goes on, with the request it had, with a new one or with none.
LEMMA CallerGoesOn ==
  ASSUME SessionInv, NEW c \in Callers, NEW n \in Threads, th' = [th EXCEPT ![c] = n],
         seq' \in {seq, seq + 1}, peer.greeted => peer'.greeted,
         n.ans # Nobody => n.ans = th[c].ans /\ n.id = th[c].id,
         n.id = 0 \/ n.id = th[c].id \/ (n.id = seq + 1 /\ seq' = seq + 1),
         n.m = "discover" => (n.id = seq + 1 /\ seq' = seq + 1 /\ n.ans = Nobody) \/ (th[c].m = "discover" /\ n.id = th[c].id),
         n.pc = "gate" /\ n.m = "tools/call" => peer'.greeted
  PROVE  ThreadsOK' /\ \A id \in Nat : id <= seq /\ id \in Awaited' => id \in Awaited
<1>1. seq \in Nat /\ th \in [Callers -> Threads] /\ (\A d \in Callers : ThreadOK(d) /\ th[d].id \in Nat /\ n.id \in Nat)
  BY DEF SessionInv, ThreadsOK, Threads
<1>2. th' \in [Callers -> Threads] /\ th'[c] = n /\ \A d \in Callers \ {c} : th'[d] = th[d]
  BY <1>1
<1>3. ThreadOK(c)'
  <2>1. n.id <= seq' /\ (n.ans # Nobody => n.ans.id = n.id) /\ (n.m = "discover" => n.id >= 1)
    BY <1>1 DEF ThreadOK
  <2>2. n.m = "discover" /\ n.ans # Nobody /\ n.ans.kind = "result" => peer'.greeted
    BY <1>1 DEF ThreadOK
  <2> QED BY <1>2, <2>1, <2>2 DEF ThreadOK
<1>4. ASSUME NEW d \in Callers \ {c} PROVE ThreadOK(d)'
  <2>1. th'[d] = th[d] /\ ThreadOK(d) /\ th[d].id \in Nat
    BY <1>1, <1>2
  <2> QED BY <1>1, <2>1 DEF ThreadOK
<1>5. ASSUME NEW d, NEW e \in Callers, d \in Callers, d # e PROVE th'[d].id # th'[e].id \/ th'[d].id = 0
  <2>1. th[d].id # th[e].id \/ th[d].id = 0
    BY <1>5 DEF SessionInv, ThreadsOK
  <2>2. th[d].id <= seq /\ th[e].id <= seq /\ th[d].id \in Nat /\ th[e].id \in Nat
    BY <1>1, <1>5 DEF ThreadOK
  <2>3. th[c].id <= seq
    BY <1>1 DEF ThreadOK
  <2> QED BY <1>1, <1>2, <1>5, <2>1, <2>2
<1>6. ASSUME NEW id \in Nat, id <= seq, id \in Awaited' PROVE id \in Awaited
  <2>1. PICK d \in Callers : th'[d].m = "discover" /\ th'[d].id = id
    BY <1>6 DEF Awaited
  <2>2. th[d].m = "discover" /\ th[d].id = id
    BY <1>1, <1>2, <1>6, <2>1
  <2> QED BY <2>2 DEF Awaited
<1> QED BY <1>2, <1>3, <1>4, <1>5, <1>6 DEF ThreadsOK

\* The lines on their way keep what they were as long as no request takes an id they carry.
LEMMA LinesKeep ==
  ASSUME SessionInv, seq' \in {seq, seq + 1}, peer.greeted => peer'.greeted,
         \A id \in Nat : id <= seq /\ id \in Awaited' => id \in Awaited
  PROVE  /\ Printed \subseteq Printed' /\ seq' \in Nat
         /\ \A r \in peer.asked : r.id <= seq' /\ (r.id \in Awaited' => r.m = "discover")
         /\ pipe' = pipe => PipeOK'
<1>1. seq \in Nat /\ seq' \in Nat /\ seq <= seq' /\ AskedOK /\ PipeOK /\ peer \in Peers
  BY DEF SessionInv
<1>2. Printed \subseteq Printed'
  <2>1. ASSUME NEW l \in Printed PROVE l \in Printed'
    <3>1. l \in Prints /\ l.id \in Nat /\ l.id <= seq
      BY DEF Printed, Prints
    <3>2. l.kind = "result" /\ l.id \in Awaited => peer.greeted
      BY DEF Printed
    <3>3. l.id <= seq' /\ (l.kind = "result" /\ l.id \in Awaited' => peer'.greeted)
      BY <1>1, <3>1, <3>2
    <3> QED BY <3>1, <3>3 DEF Printed
  <2> QED BY <2>1
<1>3. ASSUME NEW r \in peer.asked PROVE r.id <= seq' /\ (r.id \in Awaited' => r.m = "discover")
  <2>1. r.id \in Nat /\ r.id <= seq /\ (r.id \in Awaited => r.m = "discover")
    BY <1>1 DEF AskedOK, Peers
  <2> QED BY <1>1, <2>1
<1>4. ASSUME pipe' = pipe PROVE PipeOK'
  <2>1. pipe.id \in Nat
    BY <1>1 DEF PipeOK, PipeFrames
  <2> QED BY <1>1, <1>4, <2>1 DEF PipeOK
<1> QED BY <1>1, <1>2, <1>3, <1>4

LEMMA SessionMoves ==
  ASSUME SessionInv, seq' \in {seq, seq + 1}, peer.greeted => peer'.greeted, ThreadsOK',
         \A id \in Nat : id <= seq /\ id \in Awaited' => id \in Awaited,
         peer' \in Peers, initialized' => peer'.greeted,
         \A r \in peer'.asked : r \in peer.asked \/ (r.id <= seq' /\ (r.id \in Awaited' => r.m = "discover")),
         pipe' = pipe \/ PipeOK', printed' = printed \/ (printed # <<>> /\ printed' = Tail(printed))
  PROVE  SessionInv'
<1>1. /\ Printed \subseteq Printed' /\ seq' \in Nat
      /\ \A r \in peer.asked : r.id <= seq' /\ (r.id \in Awaited' => r.m = "discover")
      /\ pipe' = pipe => PipeOK'
  BY LinesKeep
<1>2. AskedOK' /\ PipeOK'
  BY <1>1 DEF AskedOK
<1>3. printed \in Seq(Printed')
  BY <1>1, SeqOfMore DEF SessionInv
<1>4. printed' \in Seq(Printed')
  BY <1>3
<1> QED BY <1>1, <1>2, <1>4 DEF SessionInv

LEMMA NobodyMoves ==
  ASSUME SessionInv, UNCHANGED <<seq, th, initialized>>, peer' \in Peers, peer'.greeted = peer.greeted, peer'.asked = peer.asked,
         pipe' = pipe \/ PipeOK', printed' = printed \/ (printed # <<>> /\ printed' = Tail(printed))
  PROVE  SessionInv'
<1>1. ThreadsOK' /\ Awaited' = Awaited /\ (initialized' => peer'.greeted)
  BY DEF SessionInv, ThreadsOK, ThreadOK, Awaited
<1> QED BY <1>1, SessionMoves

\* The four ways a caller goes on.
LEMMA CallerLeaves ==
  ASSUME SessionInv, NEW c \in Callers, th' = [th EXCEPT ![c] = [Session!Idle EXCEPT !.calls = th[c].calls]],
         seq' = seq, peer.greeted => peer'.greeted
  PROVE  ThreadsOK' /\ \A id \in Nat : id <= seq /\ id \in Awaited' => id \in Awaited
<1>1. PICK n : n = [Session!Idle EXCEPT !.calls = th[c].calls]
  OBVIOUS
<1>2. th[c] \in Threads
  BY DEF SessionInv, ThreadsOK
<1>3. n \in Threads /\ n.m = "tools/call" /\ n.pc = "idle" /\ n.id = 0 /\ n.ans = Nobody
  BY <1>1, <1>2 DEF Threads, Session!Idle, Session!Methods
<1>4. th' = [th EXCEPT ![c] = n]
  BY <1>1
<1> QED BY <1>3, <1>4, CallerGoesOn

LEMMA CallerAsks ==
  ASSUME SessionInv, NEW c \in Callers, NEW m \in Demands, Session!Asks(c, m), m = "tools/call" => peer'.greeted,
         peer.greeted => peer'.greeted
  PROVE  seq' = seq + 1 /\ ThreadsOK' /\ \A id \in Nat : id <= seq /\ id \in Awaited' => id \in Awaited
<1>1. PICK n, id : id = seq + 1 /\ n = [th[c] EXCEPT !.pc = "gate", !.m = m, !.id = id, !.ans = Nobody]
  OBVIOUS
<1>2. th[c] \in Threads /\ seq \in Nat /\ id \in Nat /\ m \in Session!Methods
  BY <1>1 DEF SessionInv, ThreadsOK, Demands, Session!Methods
<1>3. n \in Threads /\ n.m = m /\ n.pc = "gate" /\ n.id = id /\ n.ans = Nobody
  BY <1>1, <1>2 DEF Threads
<1>4. th' = [th EXCEPT ![c] = n] /\ seq' = seq + 1
  BY <1>1 DEF Session!Asks
<1> QED BY <1>1, <1>2, <1>3, <1>4, CallerGoesOn

LEMMA CallerNotifies ==
  ASSUME SessionInv, NEW c \in Callers, NEW m \in {"initialized", "canceled"}, Session!Notifies(c, m), peer.greeted => peer'.greeted
  PROVE  seq' = seq /\ ThreadsOK' /\ \A id \in Nat : id <= seq /\ id \in Awaited' => id \in Awaited
<1>1. PICK n : n = [th[c] EXCEPT !.pc = "gate", !.m = m]
  OBVIOUS
<1>2. th[c] \in Threads /\ m \in Session!Methods /\ th \in [Callers -> Threads]
  BY DEF SessionInv, ThreadsOK, Session!Methods
<1>3. n \in Threads /\ n.m = m /\ n.pc = "gate" /\ n.id = th[c].id /\ n.ans = th[c].ans
  BY <1>1, <1>2 DEF Threads
<1>4. th' = [th EXCEPT ![c] = n] /\ seq' = seq
  BY <1>1, <1>2 DEF Session!Notifies
<1> QED BY <1>3, <1>4, CallerGoesOn

LEMMA CallerTurns ==
  ASSUME SessionInv, NEW c \in Callers, NEW pc \in {"write", "await"}, th' = [th EXCEPT ![c].pc = pc], seq' = seq,
         peer.greeted => peer'.greeted
  PROVE  ThreadsOK' /\ \A id \in Nat : id <= seq /\ id \in Awaited' => id \in Awaited
<1>1. PICK n : n = [th[c] EXCEPT !.pc = pc]
  OBVIOUS
<1>2. th[c] \in Threads
  BY DEF SessionInv, ThreadsOK
<1>3. n \in Threads /\ n.m = th[c].m /\ n.pc = pc /\ n.id = th[c].id /\ n.ans = th[c].ans
  BY <1>1, <1>2 DEF Threads
<1>4. th' = [th EXCEPT ![c] = n]
  BY <1>1
<1> QED BY <1>3, <1>4, CallerGoesOn, ZenonT(60)

LEMMA NoFrameOK ==
  ASSUME seq' \in Nat, pipe' = Session!NoFrame
  PROVE  PipeOK'
BY DEF Session!NoFrame, PipeOK, PipeFrames, Session!Methods

\* A caller that asks, leaves, takes the pipe or has its answer.
LEMMA CallerSteps ==
  ASSUME SessionInv, NEW c \in Callers, Session!Call(c) \/ Session!Caller(c)
  PROVE  SessionInv'
<1>1. /\ seq \in Nat /\ peer \in Peers /\ (initialized => peer.greeted) /\ th[c] \in Threads /\ ThreadOK(c) /\ PipeOK
      /\ th \in [Callers -> Threads]
  BY DEF SessionInv, ThreadsOK
<1>2. ASSUME UNCHANGED <<peer, printed, pipe>>, seq' \in {seq, seq + 1}, ThreadsOK', initialized' => peer.greeted,
             \A id \in Nat : id <= seq /\ id \in Awaited' => id \in Awaited
      PROVE  SessionInv'
  BY <1>1, <1>2, SessionMoves
<1>3. CASE Session!Call(c)
  <2>0. PICK k \in Nat : k = th[c].calls + 1
    BY <1>1 DEF Threads
  <2>1. PICK n : n = [Session!Idle EXCEPT !.pc = "init", !.calls = k]
    OBVIOUS
  <2>2. n \in Threads /\ n.m = "tools/call" /\ n.pc = "init" /\ n.id = 0 /\ n.ans = Nobody
    BY <1>1, <2>1 DEF Threads, Session!Idle, Session!Methods
  <2>3. th' = [th EXCEPT ![c] = n] /\ UNCHANGED <<peer, printed, pipe, seq, initialized>>
    BY <1>3, <2>0, <2>1 DEF Session!Call
  <2> QED BY <1>1, <1>2, <2>2, <2>3, CallerGoesOn
<1>4. CASE Session!Initialize(c)
  <2>1. UNCHANGED <<peer, printed, pipe, initialized>>
    BY <1>4 DEF Session!Initialize
  <2>2. PICK m \in Demands : Session!Asks(c, m) /\ (m = "tools/call" => initialized)
    BY <1>4 DEF Session!Initialize, Demands
  <2> QED BY <1>1, <1>2, <2>1, <2>2, CallerAsks
<1>5. ASSUME NEW tab, Session!Leaves(c, tab), UNCHANGED <<peer, printed, pipe, seq, initialized>>
      PROVE  SessionInv'
  BY <1>1, <1>2, <1>5, CallerLeaves DEF Session!Leaves
<1>6. CASE Session!GivesUpWaiting(c) \/ Session!CancelledMidWrite(c) \/ Session!ToldDead(c)
  BY <1>5, <1>6 DEF Session!GivesUpWaiting, Session!CancelledMidWrite, Session!ToldDead
<1>7. CASE Session!TakesPipe(c)
  <2>1. /\ th' = [th EXCEPT ![c].pc = "write"] /\ pipe' = [by |-> c, m |-> th[c].m, id |-> th[c].id] /\ th[c].pc = "gate"
        /\ UNCHANGED <<peer, printed, seq, initialized>>
    BY <1>7 DEF Session!TakesPipe, Session!At
  <2>2. ThreadsOK' /\ \A id \in Nat : id <= seq /\ id \in Awaited' => id \in Awaited
    BY <2>1, CallerTurns
  <2>3. PICK f : f = [by |-> c, m |-> th[c].m, id |-> th[c].id]
    OBVIOUS
  <2>4. f \in PipeFrames /\ f.by = c /\ f.m = th[c].m /\ f.id = th[c].id /\ f.id <= seq /\ f.id \in Nat
    BY <1>1, <2>3 DEF PipeFrames, Threads, ThreadOK
  <2>5. ASSUME f.m \in Demands, f.id \in Awaited' PROVE f.m = "discover"
    <3>1. f.id \in Awaited
      BY <2>2, <2>4, <2>5
    <3>2. PICK d \in Callers : th[d].m = "discover" /\ th[d].id = th[c].id
      BY <2>4, <3>1 DEF Awaited
    <3>3. th[d].id # 0
      BY <3>2 DEF SessionInv, ThreadsOK, ThreadOK
    <3>4. d = c
      BY <3>2, <3>3 DEF SessionInv, ThreadsOK
    <3> QED BY <2>4, <3>2, <3>4
  <2>6. f.m = "tools/call" => peer.greeted
    BY <1>1, <2>1, <2>4 DEF ThreadOK
  <2>7. PipeOK'
    BY <2>1, <2>3, <2>4, <2>5, <2>6 DEF PipeOK
  <2> QED BY <1>1, <2>1, <2>2, <2>7, SessionMoves
<1>8. CASE Session!Answered(c)
  <2>1. UNCHANGED <<peer, printed, pipe>> /\ th[c].ans # Nobody
    BY <1>8 DEF Session!Answered
  <2>2. \/ Session!Leaves(c, table) /\ UNCHANGED <<initialized, seq>>
        \/ Session!Notifies(c, "initialized") /\ UNCHANGED initialized
        \/ Session!Asks(c, "initialize") /\ UNCHANGED initialized
        \/ th[c].m = "discover" /\ th[c].ans.kind = "result" /\ Session!Asks(c, "tools/call")
    BY <1>8 DEF Session!Answered
  <2>3. CASE Session!Leaves(c, table) /\ UNCHANGED <<initialized, seq>>
    BY <1>5, <2>1, <2>3
  <2>4. CASE Session!Notifies(c, "initialized") /\ UNCHANGED initialized
    BY <1>1, <1>2, <2>1, <2>4, CallerNotifies
  <2>5. CASE Session!Asks(c, "initialize") /\ UNCHANGED initialized
    BY <1>1, <1>2, <2>1, <2>5, CallerAsks DEF Demands
  <2>6. CASE th[c].m = "discover" /\ th[c].ans.kind = "result" /\ Session!Asks(c, "tools/call")
    <3>1. peer.greeted
      BY <1>1, <2>1, <2>6 DEF ThreadOK
    <3> QED BY <1>1, <1>2, <2>1, <2>6, <3>1, CallerAsks DEF Demands
  <2> QED BY <2>2, <2>3, <2>4, <2>5, <2>6
<1>9. CASE Session!ContextEnds(c)
  <2>1. UNCHANGED <<peer, printed, pipe, initialized>>
    BY <1>9 DEF Session!ContextEnds
  <2>2. CASE Session!Notifies(c, "canceled")
    BY <1>1, <1>2, <2>1, <2>2, CallerNotifies
  <2>3. CASE Session!Leaves(c, table) /\ UNCHANGED seq
    BY <1>5, <2>1, <2>3
  <2> QED BY <1>9, <2>2, <2>3 DEF Session!ContextEnds
<1> QED BY <1>3, <1>4, <1>6, <1>7, <1>8, <1>9 DEF Session!Caller

\* The write that ends well gives the frame to the child.
LEMMA FrameWritten ==
  ASSUME SessionInv, Session!Written
  PROVE  SessionInv'
<1>1. /\ seq \in Nat /\ peer \in Peers /\ PipeOK /\ pipe.by # Nobody /\ pipe.by \in Callers \cup {Nobody, Reader} /\ pipe.id \in Nat
      /\ (initialized => peer.greeted) /\ pipe.m \in Session!Methods
  BY DEF SessionInv, Session!Written, PipeOK, PipeFrames
<1>2. peer' = Session!Heard(pipe.m, pipe.id) /\ pipe' = Session!NoFrame /\ UNCHANGED printed
  BY DEF Session!Written
<1>3. PICK asked, greeted, hellos :
        /\ asked = IF pipe.m \in {"initialize", "discover", "tools/call"} THEN peer.asked \cup {[m |-> pipe.m, id |-> pipe.id]} ELSE peer.asked
        /\ greeted = (peer.greeted \/ pipe.m = "initialized")
        /\ hellos = IF pipe.m = "initialize" /\ peer.hellos < 2 THEN peer.hellos + 1 ELSE peer.hellos
  OBVIOUS
<1>4. peer' = [peer EXCEPT !.asked = asked, !.greeted = greeted, !.hellos = hellos]
  BY <1>1, <1>2, <1>3 DEF Session!Heard, Peers
<1>5. asked \in SUBSET [m : Demands, id : Nat] /\ hellos \in Nat
  BY <1>1, <1>3 DEF Peers, Demands
<1>6. greeted \in BOOLEAN /\ (peer.greeted => greeted) /\ (pipe.m = "initialized" => greeted)
  BY <1>1, <1>3 DEF Peers
<1>7. peer' \in Peers /\ peer'.asked = asked /\ peer'.greeted = greeted
  BY <1>1, <1>4, <1>5, <1>6 DEF Peers
<1>8. ASSUME seq' \in {seq, seq + 1}, ThreadsOK', initialized' => peer'.greeted,
             \A id \in Nat : id <= seq /\ id \in Awaited' => id \in Awaited
      PROVE  SessionInv'
  <2>1. PipeOK'
    BY <1>1, <1>2, <1>8, NoFrameOK
  <2>2. ASSUME NEW r \in peer'.asked, r \notin peer.asked PROVE r.id <= seq' /\ (r.id \in Awaited' => r.m = "discover")
    <3>1. r = [m |-> pipe.m, id |-> pipe.id] /\ pipe.m \in Demands
      BY <1>3, <1>7, <2>2 DEF Demands
    <3>2. r.m = pipe.m /\ r.id = pipe.id /\ pipe.id <= seq
      BY <1>1, <3>1 DEF PipeOK
    <3> QED BY <1>1, <1>8, <3>1, <3>2 DEF PipeOK
  <2> QED BY <1>2, <1>6, <1>7, <1>8, <2>1, <2>2, SessionMoves
<1>9. CASE pipe.by = Reader
  <2>1. UNCHANGED <<th, seq, initialized>>
    BY <1>9 DEF Session!Written
  <2>2. ThreadsOK' /\ Awaited' = Awaited
    BY <1>6, <1>7, <2>1 DEF SessionInv, ThreadsOK, ThreadOK, Awaited
  <2> QED BY <1>1, <1>6, <1>7, <1>8, <2>1, <2>2
<1>10. CASE pipe.by # Reader
  <2>1. PICK c \in Callers : c = pipe.by
    BY <1>1, <1>10
  <2>2. CASE pipe.m = "initialized"
    <3>1. Session!Asks(c, "tools/call")
      BY <1>10, <2>1, <2>2 DEF Session!Written
    <3> QED BY <1>6, <1>7, <1>8, <2>2, <3>1, CallerAsks DEF Demands
  <2>3. CASE pipe.m = "canceled"
    <3>1. Session!Leaves(c, table) /\ UNCHANGED <<seq, initialized>>
      BY <1>10, <2>1, <2>3 DEF Session!Written
    <3> QED BY <1>1, <1>6, <1>7, <1>8, <3>1, CallerLeaves DEF Session!Leaves
  <2>4. CASE pipe.m \notin {"initialized", "canceled"}
    <3>1. th' = [th EXCEPT ![c].pc = "await"] /\ UNCHANGED <<seq, initialized>>
      BY <1>10, <2>1, <2>4 DEF Session!Written
    <3> QED BY <1>1, <1>6, <1>7, <1>8, <3>1, CallerTurns
  <2> QED BY <2>2, <2>3, <2>4
<1> QED BY <1>9, <1>10

LEMMA FrameLost ==
  ASSUME SessionInv, Session!WriteFails
  PROVE  SessionInv'
<1>1. pipe' = Session!NoFrame /\ UNCHANGED <<seq, initialized, printed, peer>> /\ seq \in Nat /\ peer \in Peers
  BY DEF Session!WriteFails, SessionInv
<1>2. PipeOK'
  BY <1>1, NoFrameOK
<1>3. CASE pipe.by # Reader /\ Session!At(pipe.by, "write") /\ th[pipe.by].id = pipe.id
  <2>1. PICK c \in Callers : c = pipe.by
    BY <1>3 DEF SessionInv, PipeOK, PipeFrames, Session!WriteFails
  <2>2. Session!Leaves(c, Session!Cleared)
    BY <1>3, <2>1 DEF Session!WriteFails
  <2>3. ThreadsOK' /\ \A id \in Nat : id <= seq /\ id \in Awaited' => id \in Awaited
    BY <1>1, <2>2, CallerLeaves DEF Session!Leaves
  <2> QED BY <1>1, <1>2, <2>3, SessionMoves DEF SessionInv
<1>4. CASE ~(pipe.by # Reader /\ Session!At(pipe.by, "write") /\ th[pipe.by].id = pipe.id)
  <2>1. UNCHANGED th
    BY <1>4 DEF Session!WriteFails
  <2> QED BY <1>1, <1>2, <2>1, NobodyMoves
<1> QED BY <1>3, <1>4

\* The reader hands a line to the caller whose request it answers.
LEMMA LineRouted ==
  ASSUME SessionInv, Session!Route
  PROVE  SessionInv'
<1>1. /\ printed # <<>> /\ printed' = Tail(printed) /\ UNCHANGED <<initialized, pipe, seq, peer>>
      /\ seq \in Nat /\ peer \in Peers /\ Head(printed) \in Printed /\ th \in [Callers -> Threads]
  BY DEF Session!Route, SessionInv, ThreadsOK
<1>2. CASE Head(printed).kind = "request"
  <2>1. UNCHANGED th
    BY <1>2 DEF Session!Route
  <2> QED BY <1>1, <2>1, NobodyMoves
<1>3. CASE Head(printed).kind # "request"
  <2>1. PICK line : line = Head(printed)
    OBVIOUS
  <2>2. line.id \in Nat /\ line.kind \in Session!Kinds /\ (line.kind = "result" /\ line.id \in Awaited => peer.greeted)
    BY <1>1, <1>3, <2>1 DEF Printed, Prints
  <2>3. PICK a : a = [id |-> line.id, kind |-> line.kind]
    OBVIOUS
  <2>4. a \in Replies /\ a.id = line.id /\ a.kind = line.kind
    BY <2>2, <2>3 DEF Replies
  <2>5. th' = [c \in Callers |-> IF line.id \in table /\ th[c].id = line.id THEN [th[c] EXCEPT !.ans = a] ELSE th[c]]
    BY <1>3, <2>1, <2>3 DEF Session!Route, Session!Deliver
  <2>6. ASSUME NEW c \in Callers
        PROVE  /\ th'[c] \in Threads /\ th'[c].pc = th[c].pc /\ th'[c].m = th[c].m /\ th'[c].id = th[c].id
               /\ th'[c].ans = th[c].ans \/ (th'[c].ans = a /\ th[c].id = line.id)
    <3>1. th[c] \in Threads
      BY <1>1
    <3>2. PICK n : n = [th[c] EXCEPT !.ans = a]
      OBVIOUS
    <3>3. n \in Threads /\ n.pc = th[c].pc /\ n.m = th[c].m /\ n.id = th[c].id /\ n.ans = a
      BY <2>4, <3>1, <3>2 DEF Threads
    <3>4. th'[c] = IF line.id \in table /\ th[c].id = line.id THEN n ELSE th[c]
      BY <2>5, <3>2
    <3> QED BY <3>1, <3>3, <3>4
  <2>7. Awaited' = Awaited
    BY <2>6 DEF Awaited
  <2>8. ASSUME NEW c \in Callers PROVE ThreadOK(c)'
    <3>1. ThreadOK(c)
      BY DEF SessionInv, ThreadsOK
    <3>2. CASE th'[c].ans = th[c].ans
      BY <1>1, <2>6, <3>1, <3>2 DEF ThreadOK
    <3>3. CASE th'[c].ans = a /\ th[c].id = line.id
      <4>1. th[c].m = "discover" => line.id \in Awaited
        BY <3>3 DEF Awaited
      <4> QED BY <1>1, <2>2, <2>4, <2>6, <3>1, <3>3, <4>1 DEF ThreadOK
    <3> QED BY <2>6, <3>2, <3>3
  <2>9. ThreadsOK'
    <3>1. th' \in [Callers -> Threads]
      BY <2>5, <2>6
    <3>2. ASSUME NEW c \in Callers, NEW d \in Callers, c # d PROVE th'[c].id # th'[d].id \/ th'[c].id = 0
      BY <2>6, <3>2 DEF SessionInv, ThreadsOK
    <3> QED BY <2>8, <3>1, <3>2 DEF ThreadsOK
  <2> QED BY <1>1, <2>7, <2>9, SessionMoves DEF SessionInv
<1> QED BY <1>2, <1>3

LEMMA ReaderGoesOn ==
  ASSUME SessionInv, Session!RefuseTakesPipe \/ Session!RefuseTimesOut \/ Session!ReadEnds \/ Session!Close
  PROVE  SessionInv'
<1>1. UNCHANGED <<th, initialized, seq, peer, printed>> /\ peer \in Peers /\ seq \in Nat
  BY DEF SessionInv, Session!RefuseTakesPipe, Session!RefuseTimesOut, Session!ReadEnds, Session!Close
<1>2. CASE Session!RefuseTakesPipe
  <2>1. pipe' = [by |-> Reader, m |-> "canceled", id |-> 0]
    BY <1>2 DEF Session!RefuseTakesPipe
  <2>2. PipeOK'
    BY <1>1, <2>1 DEF PipeOK, PipeFrames, Session!Methods, Demands
  <2> QED BY <1>1, <2>2, NobodyMoves
<1>3. CASE Session!RefuseTimesOut \/ Session!ReadEnds \/ Session!Close
  <2>1. UNCHANGED pipe
    BY <1>3 DEF Session!RefuseTimesOut, Session!ReadEnds, Session!Close
  <2> QED BY <1>1, <2>1, NobodyMoves
<1> QED BY <1>2, <1>3

LEMMA ChildSteps ==
  ASSUME SessionInv, Session!Child
  PROVE  SessionInv'
<1>1. /\ seq \in Nat /\ peer \in Peers /\ peer.said \in Nat /\ AskedOK /\ printed \in Seq(Printed) /\ (initialized => peer.greeted)
  BY DEF SessionInv, Peers
<1>2. UNCHANGED <<initialized, pipe, seq, th>>
  BY DEF Session!Child, Session!ChildAnswers, Session!ChildAsks, Session!ChildStalls, Session!ChildLeaves
<1>3. Awaited' = Awaited
  BY <1>2 DEF Awaited
<1>4. ASSUME NEW l \in Prints, printed' = Append(printed, l), l.id <= seq, peer' \in Peers, peer'.asked = peer.asked,
             peer.greeted => peer'.greeted, l.kind = "result" /\ l.id \in Awaited => peer'.greeted
      PROVE  SessionInv'
  <2>1. ThreadsOK'
    BY <1>2, <1>4 DEF SessionInv, ThreadsOK, ThreadOK
  <2>2. /\ Printed \subseteq Printed' /\ seq' \in Nat /\ PipeOK'
        /\ \A r \in peer.asked : r.id <= seq' /\ (r.id \in Awaited' => r.m = "discover")
    BY <1>2, <1>3, <1>4, LinesKeep
  <2>3. l \in Printed'
    BY <1>2, <1>3, <1>4 DEF Printed
  <2>4. printed \in Seq(Printed')
    BY <1>1, <2>2, SeqOfMore
  <2>5. printed' \in Seq(Printed')
    BY <1>4, <2>3, <2>4
  <2>6. AskedOK'
    BY <1>4, <2>2 DEF AskedOK
  <2> QED BY <1>1, <1>2, <1>4, <2>1, <2>2, <2>5, <2>6 DEF SessionInv
<1>5. PICK more \in Nat : more = peer.said + 1
  BY <1>1
<1>6. ASSUME NEW r \in peer.asked, NEW k \in Session!Kinds, Session!ChildAnswers(r, k) PROVE SessionInv'
  <2>1. PICK l : l = [kind |-> k, id |-> r.id]
    OBVIOUS
  <2>2. r.id \in Nat /\ r.id <= seq /\ (r.id \in Awaited => r.m = "discover")
    BY <1>1 DEF AskedOK, Peers
  <2>3. l \in Prints /\ l.kind = k /\ l.id = r.id /\ printed' = Append(printed, l)
    BY <1>6, <2>1, <2>2 DEF Prints, Session!ChildAnswers, Session!Says
  <2>4. PICK greeted : greeted = (peer.greeted \/ (r.m = "discover" /\ k = "result"))
    OBVIOUS
  <2>5. peer' = [peer EXCEPT !.said = more, !.greeted = greeted]
    BY <1>1, <1>5, <1>6, <2>4 DEF Session!ChildAnswers, Peers
  <2>6. greeted \in BOOLEAN /\ (peer.greeted => greeted) /\ (k = "result" /\ r.m = "discover" => greeted)
    BY <1>1, <2>4 DEF Peers
  <2>7. peer' \in Peers /\ peer'.asked = peer.asked /\ peer'.greeted = greeted
    BY <1>1, <2>5, <2>6 DEF Peers
  <2> QED BY <1>4, <2>2, <2>3, <2>6, <2>7
<1>7. CASE Session!ChildAsks
  <2>1. PICK l : l = [kind |-> "request", id |-> 0]
    OBVIOUS
  <2>2. l \in Prints /\ l.kind = "request" /\ l.id = 0 /\ printed' = Append(printed, l)
    BY <1>7, <2>1 DEF Prints, Session!ChildAsks, Session!Says
  <2>3. peer' = [peer EXCEPT !.said = more]
    BY <1>5, <1>7 DEF Session!ChildAsks
  <2>4. peer' \in Peers /\ peer'.asked = peer.asked /\ peer'.greeted = peer.greeted
    BY <1>1, <2>3 DEF Peers
  <2> QED BY <1>1, <1>4, <2>2, <2>4
<1>8. CASE Session!ChildStalls \/ Session!ChildLeaves
  <2>1. peer' \in Peers /\ peer'.asked = peer.asked /\ peer'.greeted = peer.greeted /\ UNCHANGED printed
    BY <1>1, <1>8 DEF Session!ChildStalls, Session!ChildLeaves, Peers
  <2> QED BY <1>2, <2>1, NobodyMoves
<1> QED BY <1>6, <1>7, <1>8 DEF Session!Child

LEMMA SessionHolds == Session!Init /\ [][Session!Next]_Session!vars => []Session!AnswersReachTheirRequest
<1>1. Session!Init => SessionInv
  <2> SUFFICES ASSUME Session!Init PROVE SessionInv
    OBVIOUS
  <2>1. Session!Idle \in Threads /\ Session!Idle.pc = "idle" /\ Session!Idle.m = "tools/call" /\ Session!Idle.id = 0 /\ Session!Idle.ans = Nobody
    BY DEF Session!Idle, Threads, Session!Methods
  <2>2. ThreadsOK /\ Awaited = {}
    BY <2>1 DEF Session!Init, ThreadsOK, ThreadOK, Awaited
  <2>3. peer \in Peers /\ peer.asked = {} /\ ~initialized /\ seq = 0 /\ printed = <<>> /\ pipe = Session!NoFrame
    BY DEF Session!Init, Peers
  <2>4. AskedOK /\ PipeOK
    BY <2>2, <2>3 DEF AskedOK, PipeOK, PipeFrames, Session!NoFrame, Session!Methods
  <2> QED BY <2>2, <2>3, <2>4 DEF SessionInv
<1>2. SessionInv /\ [Session!Next]_Session!vars => SessionInv'
  <2> SUFFICES ASSUME SessionInv, [Session!Next]_Session!vars PROVE SessionInv'
    OBVIOUS
  <2>1. CASE UNCHANGED Session!vars
    BY <2>1, NobodyMoves DEF Session!vars, SessionInv
  <2> QED BY <2>1, CallerSteps, FrameWritten, FrameLost, LineRouted, ReaderGoesOn, ChildSteps DEF Session!Next, Session!Reads
<1>3. SessionInv => Session!AnswersReachTheirRequest
  BY DEF SessionInv, ThreadsOK, ThreadOK, PipeOK, Session!AnswersReachTheirRequest
<1> QED BY <1>1, <1>2, <1>3, PTL

\* An answer reaches the request that carries its id, and a tools/call goes only
\* to a child that was greeted: mcpstdio.go's route and Initialize, whoever left
\* half way, whatever the child prints and in whatever order.
THEOREM AnswersReachTheirRequestHolds == PaperworkSpec => []AnswersReachTheirRequest
<1>1. PaperworkInit => Session!Init
  BY DEF PaperworkInit
<1>2. [PaperworkNext]_allVars => [Session!Next]_Session!vars
  BY DEF PaperworkNext, InReceipts, InNotebook, InSession, allVars, sessVars, Session!vars
<1> QED BY SessionHolds, <1>1, <1>2, PTL DEF PaperworkSpec, AnswersReachTheirRequest

-----------------------------------------------------------------------------
(* Notebook: a page only grows but where a line without its end is written on,
   and that leaves two texts in one line; a mark is the end of some beginning
   of the page. *)

Lines == [cut : SUBSET Nat, whole : Nat]
Pages == [lines : Seq(Lines), ended : BOOLEAN]
PCs == {"idle", "full", "turned", "open", "opened", "checked", "written"}
Writers == [pc : PCs, n : Nat, file : Nat, apart : BOOLEAN]
Texts(l) == l.cut \cup ({l.whole} \ {0})
InPages(ps, g) == \E p \in DOMAIN ps : \E l \in DOMAIN ps[p].lines : g \in Texts(ps[p].lines[l])
\* f ends a line that nothing more is written on.
Safe(p, all, f) ==
  \E l \in DOMAIN p.lines : /\ p.lines[l].whole = f /\ \A g \in p.lines[l].cut : <<f, g>> \in all
                            /\ p.ended \/ l < Len(p.lines)
Grows(p, q) ==
  /\ q \in Pages /\ Len(p.lines) <= Len(q.lines)
  /\ \A i \in 1..Len(p.lines) : q.lines[i] = p.lines[i]

NoteTypes ==
  /\ pages \in Seq(Pages) /\ live \in Nat /\ rotations \in Nat
  /\ mark \in Nat /\ reader.count \in Nat /\ faults \in Nat
  /\ writer \in [Recorders -> Writers]
FileInv ==
  /\ Len(pages) = rotations + (IF live = 0 THEN 0 ELSE 1)
  /\ live # 0 => live = Len(pages)
  /\ prior = rotations
\* An incident is one Record's, and not in a page before that wrote.
NumberInv ==
  /\ \A r \in Recorders : writer[r].pc # "idle" =>
       /\ writer[r].n >= 1 /\ writer[r].n <= faults
       /\ writer[r].pc # "written" => ~InPages(pages, writer[r].n)
  /\ \A r, q \in Recorders : r # q /\ writer[r].pc # "idle" /\ writer[q].pc # "idle" => writer[r].n # writer[q].n
  /\ \A g \in Nat : InPages(pages, g) => g <= faults
EndInv ==
  \A p \in DOMAIN pages : pages[p].ended \/ (Len(pages[p].lines) > 0 /\ Texts(pages[p].lines[Len(pages[p].lines)]) # {})
KeptInv ==
  /\ \A r \in Recorders :
       /\ writer[r].pc \in {"opened", "checked", "written"} => writer[r].file \in DOMAIN pages
       /\ writer[r].pc = "checked" /\ ~writer[r].apart /\ ~pages[writer[r].file].ended =>
            \A g \in Texts(pages[writer[r].file].lines[Len(pages[writer[r].file].lines)]) : <<writer[r].n, g>> \in beside
       /\ writer[r].pc = "written" => Safe(pages[writer[r].file], beside, writer[r].n)
  /\ \A f \in kept : \E p \in DOMAIN pages : Safe(pages[p], beside, f)
\* So many lines were read up to some place, and these were the incidents.
ReadUpto(p, count, what) ==
  \E b \in 0..Len(p.lines) : count = N!Entries(p, b) /\ N!Incidents(p, N!Readable(p, b)) \subseteq what
MarkInv ==
  rotations = 0 /\ ~N!Glued => /\ ReadUpto(N!Notes, mark, seen)
                               /\ reader.on => ReadUpto(N!Notes, reader.count, reader.what)
NoteInv == NoteTypes /\ FileInv /\ NumberInv /\ EndInv /\ KeptInv /\ MarkInv

LEMMA PageShape ==
  ASSUME NEW p \in Pages
  PROVE  /\ p.lines \in Seq(Lines) /\ Len(p.lines) \in Nat /\ DOMAIN p.lines = 1..Len(p.lines) /\ p.ended \in BOOLEAN
         /\ \A i \in 1..Len(p.lines) : p.lines[i] \in Lines
BY DEF Pages

LEMMA OneReplaced ==
  ASSUME NEW S, NEW s \in Seq(S), NEW i \in 1..Len(s), NEW v \in S
  PROVE  LET t == [s EXCEPT ![i] = v]
         IN  t \in Seq(S) /\ Len(t) = Len(s) /\ DOMAIN t = DOMAIN s /\ t[i] = v /\ \A j \in 1..Len(s) : j # i => t[j] = s[j]
OBVIOUS

LEMMA CountIsCardinality == ASSUME NEW C PROVE N!Cardinality(C) = Cardinality(C)
BY DEF N!Cardinality, Cardinality

LEMMA ReadableIsFinite ==
  ASSUME NEW p \in Pages, NEW b \in Nat
  PROVE  IsFiniteSet(N!Readable(p, b)) /\ N!Entries(p, b) = Cardinality(N!Readable(p, b)) /\ N!Entries(p, b) \in Nat
<1>1. DOMAIN p.lines = 1..Len(p.lines) /\ Len(p.lines) \in Nat
  BY DEF Pages
<1>2. N!Readable(p, b) \in SUBSET (1..Len(p.lines))
  BY <1>1 DEF N!Readable
<1>3. IsFiniteSet(1..Len(p.lines))
  BY <1>1, FS_Interval
<1>4. IsFiniteSet(N!Readable(p, b))
  BY <1>2, <1>3, FS_Subset
<1> QED BY <1>4, CountIsCardinality, FS_CardinalityType DEF N!Entries

\* What was read of a page that has grown since is still what it was.
LEMMA GrownPageKeeps ==
  ASSUME NEW p \in Pages, NEW q, Grows(p, q)
  PROVE  \A count, what : ReadUpto(p, count, what) => ReadUpto(q, count, what)
<1>1. /\ DOMAIN p.lines = 1..Len(p.lines) /\ DOMAIN q.lines = 1..Len(q.lines) /\ Len(p.lines) \in Nat /\ Len(q.lines) \in Nat
      /\ Len(p.lines) <= Len(q.lines) /\ \A i \in 1..Len(p.lines) : q.lines[i] = p.lines[i]
  BY DEF Pages, Grows
<1>2. SUFFICES ASSUME NEW count, NEW what, ReadUpto(p, count, what) PROVE ReadUpto(q, count, what)
  OBVIOUS
<1>3. PICK b \in 0..Len(p.lines) : count = N!Entries(p, b) /\ N!Incidents(p, N!Readable(p, b)) \subseteq what
  BY <1>2 DEF ReadUpto
<1>4. N!Readable(q, b) = N!Readable(p, b)
  BY <1>1, SMTT(60) DEF N!Readable
<1>5. N!Readable(p, b) \subseteq 1..Len(p.lines)
  BY <1>1 DEF N!Readable
<1>6. N!Incidents(q, N!Readable(p, b)) = N!Incidents(p, N!Readable(p, b))
  BY <1>1, <1>5, SMTT(60) DEF N!Incidents
<1>7. b \in 0..Len(q.lines)
  BY <1>1
<1> QED BY <1>3, <1>4, <1>6, <1>7 DEF ReadUpto, N!Entries

LEMMA NotesIsAPage == ASSUME NoteInv PROVE N!Notes \in Pages
<1>1. N!Blank \in Pages
  BY DEF N!Blank, Pages
<1>2. live # 0 => pages[live] \in Pages
  BY DEF NoteInv, NoteTypes, FileInv
<1> QED BY <1>1, <1>2 DEF N!Notes

\* Nobody moves the mark; the notebook is what it was, or has grown.
LEMMA MarkStays ==
  ASSUME NoteInv, UNCHANGED <<mark, reader, seen>>,
         rotations' = 0 /\ ~N!Glued' => /\ rotations = 0 /\ ~N!Glued
                                        /\ N!Notes' = N!Notes \/ Grows(N!Notes, N!Notes')
  PROVE  MarkInv'
<1>1. N!Notes \in Pages
  BY NotesIsAPage
<1>2. SUFFICES ASSUME rotations' = 0, ~N!Glued'
               PROVE  /\ ReadUpto(N!Notes', mark, seen)
                      /\ reader.on => ReadUpto(N!Notes', reader.count, reader.what)
  BY DEF MarkInv
<1>3. ReadUpto(N!Notes, mark, seen) /\ (reader.on => ReadUpto(N!Notes, reader.count, reader.what))
  BY <1>2 DEF NoteInv, MarkInv
<1>4. CASE N!Notes' = N!Notes
  BY <1>3, <1>4
<1>5. CASE Grows(N!Notes, N!Notes')
  BY <1>1, <1>3, <1>5, GrownPageKeeps
<1> QED BY <1>2, <1>4, <1>5

\* The pages stay, but for a blank one more; the incidents stay with their Records.
LEMMA PagesStay ==
  ASSUME NoteInv, NoteTypes', beside' = beside,
         \A p \in DOMAIN pages : p \in DOMAIN pages' /\ pages'[p] = pages[p],
         \A p \in DOMAIN pages' : p \in DOMAIN pages \/ pages'[p] = N!Blank,
         \A r \in Recorders :
           \/ writer'[r] = writer[r]
           \/ writer'[r].pc \in {"idle", "full", "turned", "open"}
           \/ writer'[r].pc = "opened" /\ writer'[r].file \in DOMAIN pages'
           \/ /\ writer'[r].pc = "checked" /\ writer'[r].file \in DOMAIN pages
              /\ writer'[r].apart = ~pages[writer'[r].file].ended,
         \A f \in kept' : f \in kept \/ \E r \in Recorders : writer[r].pc = "written" /\ writer[r].n = f
  PROVE  EndInv' /\ KeptInv' /\ (\A g : InPages(pages', g) <=> InPages(pages, g)) /\ (N!Glued' <=> N!Glued)
<1> USE DEF NoteInv
<1>1. N!Blank.lines = <<>> /\ N!Blank.ended = TRUE /\ DOMAIN N!Blank.lines = {}
  BY DEF N!Blank
<1>2. EndInv'
  BY <1>1 DEF EndInv
<1>3. KeptInv'
  <2>1. \A f \in kept' : \E p \in DOMAIN pages' : Safe(pages'[p], beside', f)
    BY DEF KeptInv
  <2>2. ASSUME NEW r \in Recorders
        PROVE  /\ writer'[r].pc \in {"opened", "checked", "written"} => writer'[r].file \in DOMAIN pages'
               /\ writer'[r].pc = "checked" /\ ~writer'[r].apart /\ ~pages'[writer'[r].file].ended =>
                    \A g \in Texts(pages'[writer'[r].file].lines[Len(pages'[writer'[r].file].lines)]) : <<writer'[r].n, g>> \in beside'
               /\ writer'[r].pc = "written" => Safe(pages'[writer'[r].file], beside', writer'[r].n)
    <3>1. CASE writer'[r] = writer[r]
      BY <3>1 DEF KeptInv
    <3>2. CASE writer'[r] # writer[r]
      BY <3>2
    <3> QED BY <3>1, <3>2
  <2> QED BY <2>1, <2>2 DEF KeptInv
<1>4. ASSUME NEW g PROVE InPages(pages', g) <=> InPages(pages, g)
  BY <1>1 DEF InPages
<1>5. N!Glued' <=> N!Glued
  BY <1>1 DEF N!Glued
<1> QED BY <1>2, <1>3, <1>4, <1>5

\* A Record goes on with its incident, or ends.
LEMMA NumbersStay ==
  ASSUME NoteInv, \A g : InPages(pages', g) <=> InPages(pages, g), faults' \in Nat, faults' >= faults,
         \A r \in Recorders :
           \/ writer'[r].pc = "idle"
           \/ /\ writer[r].pc # "idle" /\ writer'[r].n = writer[r].n
              /\ writer[r].pc = "written" => writer'[r].pc = "written"
  PROVE  NumberInv'
<1>1. NoteTypes /\ NumberInv /\ \A r \in Recorders : writer[r].n \in Nat
  BY DEF NoteInv, NoteTypes, Writers
<1>2. ASSUME NEW r \in Recorders, writer'[r].pc # "idle"
      PROVE  /\ writer'[r].n >= 1 /\ writer'[r].n <= faults'
             /\ writer'[r].pc # "written" => ~InPages(pages', writer'[r].n)
  BY <1>1, <1>2 DEF NumberInv, NoteTypes
<1>3. ASSUME NEW g \in Nat, InPages(pages', g) PROVE g <= faults'
  BY <1>1, <1>3 DEF NumberInv, NoteTypes
<1>4. ASSUME NEW r \in Recorders, NEW q \in Recorders, r # q, writer'[r].pc # "idle", writer'[q].pc # "idle"
      PROVE  writer'[r].n # writer'[q].n
  BY <1>1, <1>4 DEF NumberInv
<1> QED BY <1>2, <1>3, <1>4 DEF NumberInv

\* A step of one Record that writes nothing.
LEMMA OneMoves ==
  ASSUME NoteInv, NEW r \in Recorders, NEW w \in Writers, writer' = [writer EXCEPT ![r] = w],
         writer[r].pc # "idle", w.pc = "idle" \/ (w.n = writer[r].n /\ (writer[r].pc = "written" => w.pc = "written")),
         \/ w.pc \in {"idle", "full", "turned", "open"}
         \/ w.pc = "opened" /\ w.file \in DOMAIN pages'
         \/ w.pc = "checked" /\ w.file \in DOMAIN pages /\ w.apart = ~pages[w.file].ended,
         \A f \in kept' : f \in kept \/ (writer[r].pc = "written" /\ writer[r].n = f),
         pages' \in Seq(Pages), live' \in Nat, rotations' \in Nat, mark' \in Nat, UNCHANGED <<reader, faults, beside>>,
         \A p \in DOMAIN pages : p \in DOMAIN pages' /\ pages'[p] = pages[p],
         \A p \in DOMAIN pages' : p \in DOMAIN pages \/ pages'[p] = N!Blank
  PROVE  NoteTypes' /\ NumberInv' /\ EndInv' /\ KeptInv' /\ (N!Glued' <=> N!Glued)
<1>1. NoteTypes /\ writer \in [Recorders -> Writers]
  BY DEF NoteInv, NoteTypes
<1>2. writer'[r] = w /\ \A q \in Recorders : q # r => writer'[q] = writer[q]
  BY <1>1
<1>3. NoteTypes'
  BY <1>1 DEF NoteTypes
<1>4. \A q \in Recorders :
        \/ writer'[q] = writer[q]
        \/ writer'[q].pc \in {"idle", "full", "turned", "open"}
        \/ writer'[q].pc = "opened" /\ writer'[q].file \in DOMAIN pages'
        \/ /\ writer'[q].pc = "checked" /\ writer'[q].file \in DOMAIN pages
           /\ writer'[q].apart = ~pages[writer'[q].file].ended
  BY <1>2
<1>5. \A f \in kept' : f \in kept \/ \E q \in Recorders : writer[q].pc = "written" /\ writer[q].n = f
  OBVIOUS
<1>6. EndInv' /\ KeptInv' /\ (\A g : InPages(pages', g) <=> InPages(pages, g)) /\ (N!Glued' <=> N!Glued)
  BY <1>3, <1>4, <1>5, PagesStay
<1>7. \A q \in Recorders :
        \/ writer'[q].pc = "idle"
        \/ /\ writer[q].pc # "idle" /\ writer'[q].n = writer[q].n
           /\ writer[q].pc = "written" => writer'[q].pc = "written"
  BY <1>2
<1>8. NumberInv'
  BY <1>1, <1>6, <1>7, NumbersStay DEF NoteTypes
<1> QED BY <1>3, <1>6, <1>8

LEMMA NotesSame == ASSUME pages' = pages, live' = live PROVE N!Notes' = N!Notes
BY DEF N!Notes

LEMMA RecordBegins == ASSUME NoteInv, NEW r \in Recorders, N!Record(r) PROVE NoteInv'
<1>1. NoteTypes /\ FileInv /\ NumberInv /\ writer \in [Recorders -> Writers] /\ faults \in Nat
  BY DEF NoteInv, NoteTypes
<1>2. PICK pc \in {"open", "full"} : writer' = [writer EXCEPT ![r] = [N!Quiet EXCEPT !.pc = pc, !.n = faults + 1]]
  BY DEF N!Record
<1>3. UNCHANGED <<pages, live, prior, rotations, mark, reader, seen, kept, beside>> /\ faults' = faults + 1 /\ writer[r].pc = "idle"
  BY DEF N!Record, N!fileVars, N!readVars
<1>4. /\ writer'[r] = [pc |-> pc, n |-> faults + 1, file |-> 0, apart |-> FALSE]
      /\ \A q \in Recorders : q # r => writer'[q] = writer[q]
  BY <1>1, <1>2 DEF N!Quiet
<1>5. writer' \in [Recorders -> Writers]
  <2>1. writer' = [writer EXCEPT ![r] = writer'[r]]
    BY <1>1, <1>2, <1>4
  <2>2. [pc |-> pc, n |-> faults + 1, file |-> 0, apart |-> FALSE] \in Writers
    BY <1>1 DEF Writers, PCs
  <2> QED BY <1>1, <1>4, <2>1, <2>2
<1>6. NoteTypes' /\ FileInv'
  BY <1>1, <1>3, <1>5 DEF NoteTypes, FileInv
<1>7. \A q \in Recorders : writer'[q] = writer[q] \/ writer'[q].pc \in {"idle", "full", "turned", "open"}
  BY <1>4
<1>8. EndInv' /\ KeptInv' /\ (\A g : InPages(pages', g) <=> InPages(pages, g)) /\ (N!Glued' <=> N!Glued)
  BY <1>3, <1>6, <1>7, PagesStay
<1>9. NumberInv'
  <2>1. \A q \in Recorders : writer[q].n \in Nat
    BY <1>1 DEF Writers
  <2>2. ASSUME NEW q \in Recorders, writer'[q].pc # "idle"
        PROVE  /\ writer'[q].n >= 1 /\ writer'[q].n <= faults'
               /\ writer'[q].pc # "written" => ~InPages(pages', writer'[q].n)
    <3>1. CASE q = r
      <4>1. ~InPages(pages, faults + 1)
        <5>1. faults + 1 \in Nat /\ ~(faults + 1 <= faults)
          BY <1>1
        <5> QED BY <1>1, <5>1 DEF NumberInv
      <4> QED BY <1>1, <1>3, <1>4, <3>1, <4>1
    <3>2. CASE q # r
      BY <1>1, <1>3, <1>4, <2>1, <2>2, <3>2 DEF NumberInv
    <3> QED BY <3>1, <3>2
  <2>3. ASSUME NEW q \in Recorders, NEW t \in Recorders, q # t, writer'[q].pc # "idle", writer'[t].pc # "idle"
        PROVE  writer'[q].n # writer'[t].n
    <3>1. \A u \in Recorders : u # r /\ writer[u].pc # "idle" => writer[u].n # faults + 1
      BY <1>1, <2>1 DEF NumberInv
    <3> QED BY <1>1, <1>4, <2>3, <3>1 DEF NumberInv
  <2>4. ASSUME NEW g \in Nat, InPages(pages', g) PROVE g <= faults'
    BY <1>1, <1>3, <2>4 DEF NumberInv
  <2> QED BY <2>2, <2>3, <2>4 DEF NumberInv
<1>10. MarkInv'
  BY <1>3, <1>8, NotesSame, MarkStays
<1> QED BY <1>6, <1>8, <1>9, <1>10 DEF NoteInv

LEMMA NothingIsRead == ASSUME NEW p \in Pages, NEW what PROVE ReadUpto(p, 0, what)
<1>1. N!Readable(p, 0) = {} /\ Len(p.lines) \in Nat
  BY DEF N!Readable, Pages
<1>2. N!Entries(p, 0) = 0 /\ N!Incidents(p, N!Readable(p, 0)) = {}
  BY <1>1, CountIsCardinality, FS_EmptySet DEF N!Entries, N!Incidents
<1> QED BY <1>1, <1>2 DEF ReadUpto

LEMMA NothingWritten ==
  ASSUME NoteInv, NEW r \in Recorders, N!Turn(r) \/ N!ResetMark(r) \/ N!Opens(r) \/ N!CheckEnd(r) \/ N!Sync(r) \/ N!GivesUp(r)
  PROVE  NoteInv'
<1> USE DEF N!fileVars, N!readVars, N!restVars
<1>1. NoteTypes /\ FileInv /\ NumberInv /\ KeptInv /\ MarkInv /\ writer \in [Recorders -> Writers] /\ writer[r] \in Writers
      /\ pages \in Seq(Pages) /\ live \in Nat /\ rotations \in Nat /\ mark \in Nat
  BY DEF NoteInv, NoteTypes
<1>2. N!Quiet \in Writers /\ N!Quiet.pc = "idle"
  BY DEF N!Quiet, Writers, PCs
<1>3. ASSUME NEW pc \in PCs, N!Goes(r, pc)
      PROVE  \E w \in Writers : writer' = [writer EXCEPT ![r] = w] /\ w.pc = pc /\ w.n = writer[r].n
  <2>1. writer' = [writer EXCEPT ![r] = [writer[r] EXCEPT !.pc = pc]]
    BY <1>3, <1>1 DEF N!Goes
  <2>2. [writer[r] EXCEPT !.pc = pc] \in Writers /\ [writer[r] EXCEPT !.pc = pc].pc = pc
        /\ [writer[r] EXCEPT !.pc = pc].n = writer[r].n
    BY <1>1 DEF Writers
  <2> QED BY <2>1, <2>2
<1>4. CASE N!Turn(r)
  <2>1. UNCHANGED <<pages, mark, reader, seen, faults, kept, beside>> /\ writer[r].pc = "full"
    BY <1>4 DEF N!Turn
  <2>2. \/ live # 0 /\ prior' = live /\ live' = 0 /\ rotations' = rotations + 1 /\ N!Goes(r, "turned")
        \/ N!Goes(r, "open") /\ UNCHANGED <<live, prior, rotations>>
    BY <1>4 DEF N!Turn
  <2>3. PICK w \in Writers : writer' = [writer EXCEPT ![r] = w] /\ w.pc \in {"turned", "open"} /\ w.n = writer[r].n
    BY <1>3, <2>2 DEF PCs
  <2>4. live' \in Nat /\ rotations' \in Nat /\ FileInv'
    BY <1>1, <2>1, <2>2 DEF FileInv
  <2>5. NoteTypes' /\ NumberInv' /\ EndInv' /\ KeptInv' /\ (N!Glued' <=> N!Glued)
    BY <1>1, <2>1, <2>3, <2>4, OneMoves
  <2>6. rotations' = 0 => rotations = 0 /\ live' = live
    BY <1>1, <2>2
  <2>7. MarkInv'
    BY <2>1, <2>5, <2>6, NotesSame, MarkStays
  <2> QED BY <2>4, <2>5, <2>7 DEF NoteInv
<1>5. CASE N!ResetMark(r)
  <2>1. UNCHANGED <<pages, live, prior, rotations, reader, seen, faults, kept, beside>> /\ writer[r].pc = "turned" /\ mark' = 0 /\ N!Goes(r, "open")
    BY <1>5 DEF N!ResetMark
  <2>2. PICK w \in Writers : writer' = [writer EXCEPT ![r] = w] /\ w.pc = "open" /\ w.n = writer[r].n
    BY <1>3, <2>1 DEF PCs
  <2>3. NoteTypes' /\ NumberInv' /\ EndInv' /\ KeptInv' /\ (N!Glued' <=> N!Glued)
    BY <1>1, <2>1, <2>2, OneMoves
  <2>4. MarkInv'
    <3>1. N!Notes' = N!Notes /\ N!Notes \in Pages
      BY <2>1, NotesSame, NotesIsAPage
    <3>2. ReadUpto(N!Notes, 0, seen)
      BY <3>1, NothingIsRead
    <3> QED BY <1>1, <2>1, <2>3, <3>1, <3>2 DEF MarkInv
  <2> QED BY <1>1, <2>1, <2>3, <2>4 DEF NoteInv, FileInv
<1>6. CASE N!Opens(r)
  <2>1. UNCHANGED <<prior, rotations, mark, reader, seen, faults, kept, beside>> /\ writer[r].pc = "open"
        /\ writer' = [writer EXCEPT ![r].pc = "opened", ![r].file = live']
    BY <1>6 DEF N!Opens
  <2>2. \/ live # 0 /\ UNCHANGED <<pages, live>>
        \/ live = 0 /\ pages' = Append(pages, N!Blank) /\ live' = Len(pages) + 1
    BY <1>6 DEF N!Opens
  <2>3. N!Blank \in Pages
    BY DEF N!Blank, Pages
  <2>4. /\ pages' \in Seq(Pages) /\ live' \in Nat /\ FileInv' /\ live' \in DOMAIN pages'
        /\ \A p \in DOMAIN pages : p \in DOMAIN pages' /\ pages'[p] = pages[p]
        /\ \A p \in DOMAIN pages' : p \in DOMAIN pages \/ pages'[p] = N!Blank
    <3>1. CASE live # 0 /\ UNCHANGED <<pages, live>>
      BY <1>1, <2>1, <3>1 DEF FileInv
    <3>2. CASE live = 0 /\ pages' = Append(pages, N!Blank) /\ live' = Len(pages) + 1
      <4>1. /\ pages' \in Seq(Pages) /\ Len(pages') = Len(pages) + 1 /\ pages'[Len(pages) + 1] = N!Blank
            /\ \A p \in 1..Len(pages) : pages'[p] = pages[p]
        BY <1>1, <2>3, <3>2
      <4>2. DOMAIN pages = 1..Len(pages) /\ DOMAIN pages' = 1..(Len(pages) + 1) /\ Len(pages) \in Nat
        BY <1>1, <4>1
      <4> QED BY <1>1, <2>1, <3>2, <4>1, <4>2 DEF FileInv
    <3> QED BY <2>2, <3>1, <3>2
  <2>5. PICK w \in Writers : writer' = [writer EXCEPT ![r] = w] /\ w.pc = "opened" /\ w.file = live' /\ w.n = writer[r].n
    <3> DEFINE w == [writer[r] EXCEPT !.pc = "opened", !.file = live']
    <3>1. writer' = [writer EXCEPT ![r] = w]
      BY <1>1, <2>1
    <3>2. w \in Writers /\ w.pc = "opened" /\ w.file = live' /\ w.n = writer[r].n
      BY <1>1, <2>4 DEF Writers, PCs
    <3> QED BY <3>1, <3>2
  <2>6. NoteTypes' /\ NumberInv' /\ EndInv' /\ KeptInv' /\ (N!Glued' <=> N!Glued)
    BY <1>1, <2>1, <2>4, <2>5, OneMoves
  <2>7. N!Notes' = N!Notes
    <3>1. CASE live # 0 /\ UNCHANGED <<pages, live>>
      BY <3>1, NotesSame
    <3>2. CASE live = 0 /\ pages' = Append(pages, N!Blank) /\ live' = Len(pages) + 1
      BY <1>1, <2>3, <3>2 DEF N!Notes
    <3> QED BY <2>2, <3>1, <3>2
  <2>8. MarkInv'
    BY <1>1, <2>1, <2>6, <2>7, MarkStays
  <2> QED BY <2>4, <2>6, <2>8 DEF NoteInv
<1>7. CASE N!CheckEnd(r)
  <2>1. UNCHANGED <<pages, live, prior, rotations, mark, reader, seen, faults, kept, beside>> /\ writer[r].pc = "opened"
        /\ writer' = [writer EXCEPT ![r].pc = "checked", ![r].apart = ~pages[writer[r].file].ended]
    BY <1>7 DEF N!CheckEnd
  <2>2. writer[r].file \in DOMAIN pages /\ pages[writer[r].file] \in Pages
    BY <1>1, <2>1 DEF KeptInv
  <2>3. PICK w \in Writers : /\ writer' = [writer EXCEPT ![r] = w] /\ w.pc = "checked" /\ w.file = writer[r].file /\ w.n = writer[r].n
                             /\ w.apart = ~pages[w.file].ended
    <3> DEFINE w == [writer[r] EXCEPT !.pc = "checked", !.apart = ~pages[writer[r].file].ended]
    <3>1. writer' = [writer EXCEPT ![r] = w]
      BY <1>1, <2>1
    <3>2. w \in Writers /\ w.pc = "checked" /\ w.file = writer[r].file /\ w.n = writer[r].n /\ w.apart = ~pages[w.file].ended
      BY <1>1, <2>2 DEF Writers, PCs, Pages
    <3> QED BY <3>1, <3>2
  <2>4. NoteTypes' /\ NumberInv' /\ EndInv' /\ KeptInv' /\ (N!Glued' <=> N!Glued)
    BY <1>1, <2>1, <2>2, <2>3, OneMoves
  <2>5. MarkInv'
    BY <2>1, <2>4, NotesSame, MarkStays
  <2> QED BY <1>1, <2>1, <2>4, <2>5 DEF NoteInv, FileInv
<1>8. CASE N!Sync(r)
  <2>1. UNCHANGED <<pages, live, prior, rotations, mark, reader, seen, faults, beside>> /\ writer[r].pc = "written"
        /\ kept' = kept \cup {writer[r].n} /\ writer' = [writer EXCEPT ![r] = N!Quiet]
    BY <1>8 DEF N!Sync
  <2>2. NoteTypes' /\ NumberInv' /\ EndInv' /\ KeptInv' /\ (N!Glued' <=> N!Glued)
    BY <1>1, <1>2, <2>1, OneMoves
  <2>3. MarkInv'
    BY <2>1, <2>2, NotesSame, MarkStays
  <2> QED BY <1>1, <2>1, <2>2, <2>3 DEF NoteInv, FileInv
<1>9. CASE N!GivesUp(r)
  <2>1. UNCHANGED <<pages, live, prior, rotations, mark, reader, seen, faults, kept, beside>> /\ writer[r].pc # "idle"
        /\ writer' = [writer EXCEPT ![r] = N!Quiet]
    BY <1>9 DEF N!GivesUp
  <2>2. NoteTypes' /\ NumberInv' /\ EndInv' /\ KeptInv' /\ (N!Glued' <=> N!Glued)
    BY <1>1, <1>2, <2>1, OneMoves
  <2>3. MarkInv'
    BY <2>1, <2>2, NotesSame, MarkStays
  <2> QED BY <1>1, <2>1, <2>2, <2>3 DEF NoteInv, FileInv
<1> QED BY <1>4, <1>5, <1>6, <1>7, <1>8, <1>9

\* What a write leaves: a line more, or two texts in one line.
LEMMA LinePut ==
  ASSUME NoteInv, NEW r \in Recorders, writer[r].pc = "checked", NEW all \in BOOLEAN, NEW ended \in BOOLEAN, N!Puts(r, all, ended)
  PROVE  LET k == writer[r].file  n == writer[r].n  p == pages[k]
             fresh == [cut |-> IF all THEN {} ELSE {n}, whole |-> IF all THEN n ELSE 0]
             m == Len(p.lines)
         IN  /\ k \in DOMAIN pages /\ p \in Pages /\ n \in Nat /\ n # 0 /\ fresh \in Lines /\ pages' \in Seq(Pages)
             /\ DOMAIN pages' = DOMAIN pages /\ \A q \in DOMAIN pages : q # k => pages'[q] = pages[q]
             /\ pages'[k].ended = ended
             /\ \/ (p.ended \/ writer[r].apart) /\ pages'[k].lines = Append(p.lines, fresh)
                \/ /\ ~p.ended /\ ~writer[r].apart /\ m > 0 /\ Len(pages'[k].lines) = m
                   /\ pages'[k].lines[m] = [cut |-> fresh.cut \cup Texts(p.lines[m]), whole |-> fresh.whole]
                   /\ \A i \in 1..m : i # m => pages'[k].lines[i] = p.lines[i]
<1> DEFINE k == writer[r].file
           n == writer[r].n
           p == pages[k]
           fresh == [cut |-> IF all THEN {} ELSE {n}, whole |-> IF all THEN n ELSE 0]
           m == Len(p.lines)
           new == [lines |-> N!Appended(p, writer[r], all), ended |-> ended]
<1>1. NoteTypes /\ NumberInv /\ EndInv /\ KeptInv /\ writer[r] \in Writers /\ pages \in Seq(Pages)
  BY DEF NoteInv, NoteTypes
<1>2. k \in DOMAIN pages /\ p \in Pages /\ n \in Nat /\ n # 0 /\ fresh \in Lines
  <2>1. k \in DOMAIN pages /\ n >= 1 /\ n \in Nat
    BY <1>1 DEF KeptInv, NumberInv, Writers
  <2> QED BY <1>1, <2>1 DEF Lines
<1>3. p.lines \in Seq(Lines) /\ m \in Nat /\ p.ended \in BOOLEAN /\ DOMAIN p.lines = 1..m
  BY <1>2, PageShape
<1>4. pages' = [pages EXCEPT ![k] = new]
  BY <1>1 DEF N!Puts
<1>5. CASE p.ended \/ writer[r].apart
  <2>1. new.lines = Append(p.lines, fresh) /\ new \in Pages /\ new.ended = ended
    BY <1>2, <1>3, <1>5 DEF N!Appended, Pages
  <2> QED BY <1>1, <1>2, <1>4, <1>5, <2>1
<1>6. CASE ~p.ended /\ ~writer[r].apart
  <2>1. m > 0
    BY <1>1, <1>2, <1>6 DEF EndInv
  <2> DEFINE line == [cut |-> fresh.cut \cup Texts(p.lines[m]), whole |-> fresh.whole]
  <2>2. p.lines[m] \in Lines /\ line \in Lines
    <3>1. p.lines[m] \in Lines
      BY <1>2, <1>3, <2>1, PageShape
    <3>2. Texts(p.lines[m]) \in SUBSET Nat /\ fresh.cut \in SUBSET Nat /\ fresh.whole \in Nat
      BY <1>2, <3>1 DEF Lines, Texts
    <3>3. fresh.cut \cup Texts(p.lines[m]) \in SUBSET Nat
      BY <3>2
    <3> QED BY <3>1, <3>2, <3>3 DEF Lines
  <2>3. [fresh EXCEPT !.cut = @ \cup p.lines[m].cut \cup ({p.lines[m].whole} \ {0})] = line
    <3>1. fresh.cut \cup p.lines[m].cut \cup ({p.lines[m].whole} \ {0}) = fresh.cut \cup Texts(p.lines[m])
      BY DEF Texts
    <3>2. ASSUME NEW X PROVE [fresh EXCEPT !.cut = X] = [cut |-> X, whole |-> fresh.whole]
      OBVIOUS
    <3> HIDE DEF fresh, m, p
    <3> QED BY <3>1, <3>2
  <2>4. N!Appended(p, writer[r], all) = [p.lines EXCEPT ![m] = line]
    BY <1>6, <2>3 DEF N!Appended
  <2>5. new.lines = [p.lines EXCEPT ![m] = line] /\ new.ended = ended
    BY <2>4
  <2>6. new.lines \in Seq(Lines) /\ Len(new.lines) = m /\ new.lines[m] = line /\ \A i \in 1..m : i # m => new.lines[i] = p.lines[i]
    <3>1. m \in 1..Len(p.lines)
      BY <1>3, <2>1
    <3> HIDE DEF line, new, m
    <3> QED BY <1>3, <2>2, <2>5, <3>1, OneReplaced
  <2>7. new \in Pages
    BY <2>5, <2>6 DEF Pages
  <2> HIDE DEF line, new
  <2>8. pages' \in Seq(Pages) /\ DOMAIN pages' = DOMAIN pages /\ pages'[k] = new /\ \A q \in DOMAIN pages : q # k => pages'[q] = pages[q]
    BY <1>1, <1>2, <1>4, <2>7
  <2> QED BY <1>2, <1>6, <2>1, <2>5, <2>6, <2>8 DEF line
<1> QED BY <1>5, <1>6

\* Where nothing more is written on the line, what it says stays.
LEMMA SafeStays ==
  ASSUME NoteInv, NEW r \in Recorders, writer[r].pc = "checked", NEW all \in BOOLEAN, NEW ended \in BOOLEAN, N!Puts(r, all, ended),
         beside \subseteq beside'
  PROVE  \A f : \A q \in DOMAIN pages : Safe(pages[q], beside, f) => q \in DOMAIN pages' /\ Safe(pages'[q], beside', f)
<1> SUFFICES ASSUME NEW q \in DOMAIN pages, NEW f, Safe(pages[q], beside, f) PROVE q \in DOMAIN pages' /\ Safe(pages'[q], beside', f)
  OBVIOUS
<1> DEFINE k == writer[r].file
           n == writer[r].n
           p == pages[k]
           fresh == [cut |-> IF all THEN {} ELSE {n}, whole |-> IF all THEN n ELSE 0]
           m == Len(p.lines)
<1>1. /\ k \in DOMAIN pages /\ p \in Pages /\ DOMAIN pages' = DOMAIN pages
      /\ \A t \in DOMAIN pages : t # k => pages'[t] = pages[t]
      /\ \/ (p.ended \/ writer[r].apart) /\ pages'[k].lines = Append(p.lines, fresh)
         \/ /\ ~p.ended /\ ~writer[r].apart /\ m > 0 /\ Len(pages'[k].lines) = m
            /\ \A i \in 1..m : i # m => pages'[k].lines[i] = p.lines[i]
      /\ fresh \in Lines /\ pages' \in Seq(Pages)
  BY LinePut
<1>2. PICK l \in DOMAIN pages[q].lines : /\ pages[q].lines[l].whole = f /\ \A g \in pages[q].lines[l].cut : <<f, g>> \in beside
                                         /\ pages[q].ended \/ l < Len(pages[q].lines)
  BY DEF Safe
<1>3. CASE q # k
  BY <1>1, <1>2, <1>3 DEF Safe
<1>4. CASE q = k
  <2>1. p.lines \in Seq(Lines) /\ m \in Nat /\ DOMAIN p.lines = 1..m /\ pages'[k] \in Pages
    BY <1>1, PageShape
  <2>2. DOMAIN pages'[k].lines = 1..Len(pages'[k].lines) /\ Len(pages'[k].lines) \in Nat
    BY <2>1, PageShape
  <2>3. CASE (p.ended \/ writer[r].apart) /\ pages'[k].lines = Append(p.lines, fresh)
    <3>1. Len(pages'[k].lines) = m + 1 /\ \A i \in 1..m : pages'[k].lines[i] = p.lines[i]
      BY <1>1, <2>1, <2>3
    <3>2. l \in 1..m /\ l < m + 1 /\ l \in DOMAIN pages'[k].lines
      BY <1>2, <1>4, <2>1, <2>2, <3>1
    <3> QED BY <1>1, <1>2, <1>4, <3>1, <3>2 DEF Safe
  <2>4. CASE ~p.ended /\ Len(pages'[k].lines) = m /\ \A i \in 1..m : i # m => pages'[k].lines[i] = p.lines[i]
    <3>1. l \in 1..m /\ l < m /\ l \in DOMAIN pages'[k].lines
      BY <1>2, <1>4, <2>1, <2>2, <2>4
    <3>2. pages'[k].lines[l] = p.lines[l] /\ l < Len(pages'[k].lines)
      BY <2>1, <2>4, <3>1
    <3> QED BY <1>1, <1>2, <1>4, <3>1, <3>2 DEF Safe
  <2> QED BY <1>1, <2>3, <2>4
<1> QED BY <1>3, <1>4

\* Two texts in a line show; otherwise the page has grown by a line.
LEMMA GluedOrGrown ==
  ASSUME NoteInv, NEW r \in Recorders, writer[r].pc = "checked", NEW all \in BOOLEAN, NEW ended \in BOOLEAN, N!Puts(r, all, ended),
         live' = live, ~N!Glued'
  PROVE  ~N!Glued /\ (N!Notes' = N!Notes \/ Grows(N!Notes, N!Notes'))
<1> DEFINE k == writer[r].file
           n == writer[r].n
           p == pages[k]
           fresh == [cut |-> IF all THEN {} ELSE {n}, whole |-> IF all THEN n ELSE 0]
           m == Len(p.lines)
<1>1. /\ k \in DOMAIN pages /\ p \in Pages /\ n \in Nat /\ n # 0 /\ DOMAIN pages' = DOMAIN pages
      /\ \A t \in DOMAIN pages : t # k => pages'[t] = pages[t]
      /\ \/ (p.ended \/ writer[r].apart) /\ pages'[k].lines = Append(p.lines, fresh)
         \/ /\ ~p.ended /\ m > 0 /\ Len(pages'[k].lines) = m
            /\ pages'[k].lines[m] = [cut |-> fresh.cut \cup Texts(p.lines[m]), whole |-> fresh.whole]
      /\ fresh \in Lines /\ pages' \in Seq(Pages)
  BY LinePut
<1>2. p.lines \in Seq(Lines) /\ m \in Nat /\ DOMAIN p.lines = 1..m /\ pages'[k] \in Pages /\ pages'[k].lines \in Seq(Lines)
      /\ DOMAIN pages'[k].lines = 1..Len(pages'[k].lines)
  <2>1. pages'[k] \in Pages
    BY <1>1
  <2> QED BY <1>1, <2>1, PageShape
<1>3. pages'[k].lines = Append(p.lines, fresh)
  <2> SUFFICES ASSUME ~p.ended, m > 0, Len(pages'[k].lines) = m,
                      pages'[k].lines[m] = [cut |-> fresh.cut \cup Texts(p.lines[m]), whole |-> fresh.whole]
               PROVE  FALSE
    BY <1>1
  <2>1. Texts(p.lines[m]) # {} /\ ~InPages(pages, n) /\ m \in DOMAIN p.lines
    <3>1. m \in DOMAIN p.lines
      BY <1>2
    <3>2. Texts(p.lines[m]) # {}
      BY <1>1 DEF NoteInv, EndInv
    <3>3. ~InPages(pages, n)
      BY DEF NoteInv, NumberInv
    <3> QED BY <3>1, <3>2, <3>3
  <2>2. n \notin Texts(p.lines[m])
    BY <1>1, <2>1 DEF InPages
  <2>3. PICK g \in Texts(p.lines[m]) : g # n
    BY <2>1, <2>2
  <2>4. g \in pages'[k].lines[m].cut /\ (pages'[k].lines[m].whole # 0 \/ n \in pages'[k].lines[m].cut)
    BY <1>1, <2>3
  <2>5. k \in DOMAIN pages' /\ m \in DOMAIN pages'[k].lines /\ (pages'[k].lines[m].cut # {g} \/ pages'[k].lines[m].whole # 0)
    BY <1>1, <1>2, <2>1, <2>3, <2>4
  <2> QED BY <2>4, <2>5 DEF N!Glued
<1>4. Len(pages'[k].lines) = m + 1 /\ \A i \in 1..m : pages'[k].lines[i] = p.lines[i]
  BY <1>1, <1>2, <1>3
<1>5. Grows(p, pages'[k])
  BY <1>2, <1>4 DEF Grows
<1>6. ~N!Glued
  <2>1. ASSUME NEW q \in DOMAIN pages, NEW l \in DOMAIN pages[q].lines
        PROVE  q \in DOMAIN pages' /\ l \in DOMAIN pages'[q].lines /\ pages'[q].lines[l] = pages[q].lines[l]
    <3>1. CASE q = k
      <4>1. l \in 1..m /\ l \in 1..(m + 1) /\ k \in DOMAIN pages'
        BY <1>1, <1>2, <2>1, <3>1
      <4> QED BY <1>2, <1>4, <3>1, <4>1
    <3>2. CASE q # k
      BY <1>1, <2>1, <3>2
    <3> QED BY <3>1, <3>2
  <2> QED BY <2>1 DEF N!Glued
<1>7. N!Notes' = N!Notes \/ Grows(N!Notes, N!Notes')
  <2>1. live # 0 => live \in DOMAIN pages
    BY DEF NoteInv, NoteTypes, FileInv
  <2> QED BY <1>1, <1>5, <2>1 DEF N!Notes
<1> QED BY <1>6, <1>7

LEMMA LineWritten == ASSUME NoteInv, NEW r \in Recorders, N!Write(r) \/ N!CutShort(r) PROVE NoteInv'
<1> DEFINE k == writer[r].file
           n == writer[r].n
           p == pages[k]
           m == Len(p.lines)
<1>1. NoteTypes /\ FileInv /\ NumberInv /\ EndInv /\ KeptInv /\ writer \in [Recorders -> Writers] /\ writer[r] \in Writers
      /\ \A q \in Recorders : writer[q].n \in Nat
  BY DEF NoteInv, NoteTypes, Writers
<1>2. UNCHANGED <<live, prior, rotations, mark, reader, seen, faults, kept>> /\ writer[r].pc = "checked"
  BY DEF N!Write, N!CutShort, N!readVars, N!restVars
<1>3. PICK all \in BOOLEAN, ended \in BOOLEAN :
        /\ N!Puts(r, all, ended)
        /\ \/ all /\ ended /\ beside' = beside /\ writer' = [writer EXCEPT ![r] = [writer[r] EXCEPT !.pc = "written"]]
           \/ ~ended /\ writer' = [writer EXCEPT ![r] = N!Quiet]
              /\ beside' = beside \cup {<<writer[q].n, n>> : q \in {q \in Recorders \ {r} : writer[q].pc = "checked"}}
  <2>1. CASE N!Write(r)
    BY <1>1, <2>1 DEF N!Write, N!Goes, N!restVars
  <2>2. CASE N!CutShort(r)
    <3>1. PICK all \in BOOLEAN : N!Puts(r, all, FALSE)
      BY <2>2 DEF N!CutShort
    <3> QED BY <2>2, <3>1 DEF N!CutShort
  <2> QED BY <2>1, <2>2
<1> DEFINE fresh == [cut |-> IF all THEN {} ELSE {n}, whole |-> IF all THEN n ELSE 0]
<1>4. /\ k \in DOMAIN pages /\ p \in Pages /\ n \in Nat /\ n # 0 /\ fresh \in Lines /\ pages' \in Seq(Pages)
      /\ DOMAIN pages' = DOMAIN pages /\ \A q \in DOMAIN pages : q # k => pages'[q] = pages[q]
      /\ pages'[k].ended = ended
      /\ \/ (p.ended \/ writer[r].apart) /\ pages'[k].lines = Append(p.lines, fresh)
         \/ /\ ~p.ended /\ ~writer[r].apart /\ m > 0 /\ Len(pages'[k].lines) = m
            /\ pages'[k].lines[m] = [cut |-> fresh.cut \cup Texts(p.lines[m]), whole |-> fresh.whole]
            /\ \A i \in 1..m : i # m => pages'[k].lines[i] = p.lines[i]
  BY <1>2, <1>3, LinePut
<1>5. /\ p.lines \in Seq(Lines) /\ m \in Nat /\ DOMAIN p.lines = 1..m /\ pages'[k] \in Pages
      /\ DOMAIN pages'[k].lines = 1..Len(pages'[k].lines) /\ Len(pages'[k].lines) \in Nat
  <2>1. pages'[k] \in Pages
    BY <1>4
  <2> QED BY <1>4, <2>1, PageShape
<1>6. beside \subseteq beside'
  BY <1>3
<1>7. /\ \A q \in Recorders : q # r => writer'[q] = writer[q]
      /\ \/ writer'[r] = [writer[r] EXCEPT !.pc = "written"] /\ all /\ ended
         \/ writer'[r] = N!Quiet /\ ~ended
  BY <1>1, <1>3
<1>8. NoteTypes' /\ FileInv'
  <2>1. writer' \in [Recorders -> Writers]
    <3>1. N!Quiet \in Writers /\ [writer[r] EXCEPT !.pc = "written"] \in Writers
      BY <1>1 DEF Writers, PCs, N!Quiet
    <3> QED BY <1>1, <1>3, <3>1
  <2> QED BY <1>1, <1>2, <1>4, <2>1 DEF NoteTypes, FileInv
\* The texts of the line written, last of the page, are those before and the new one.
<1>9. LET z == Len(pages'[k].lines)
          was == IF p.ended \/ writer[r].apart THEN {} ELSE Texts(p.lines[m])
      IN  /\ z > 0 /\ z \in DOMAIN pages'[k].lines /\ Texts(pages'[k].lines[z]) = was \cup {n}
          /\ pages'[k].lines[z].whole = fresh.whole /\ pages'[k].lines[z].cut = was \cup fresh.cut
          /\ \A l \in DOMAIN pages'[k].lines : l # z => l \in DOMAIN p.lines /\ pages'[k].lines[l] = p.lines[l]
  <2>1. ASSUME NEW l, NEW T, l.whole = fresh.whole, l.cut = T \cup fresh.cut PROVE Texts(l) = T \cup {n}
    <3>1. CASE all
      BY <1>4, <2>1, <3>1 DEF Texts
    <3>2. CASE ~all
      BY <1>4, <2>1, <3>2 DEF Texts
    <3> QED BY <3>1, <3>2
  <2>2. CASE (p.ended \/ writer[r].apart) /\ pages'[k].lines = Append(p.lines, fresh)
    <3>1. Len(pages'[k].lines) = m + 1 /\ pages'[k].lines[m + 1] = fresh /\ \A i \in 1..m : pages'[k].lines[i] = p.lines[i]
      BY <1>4, <1>5, <2>2
    <3>2. fresh.cut = {} \cup fresh.cut
      OBVIOUS
    <3>3. Texts(fresh) = {} \cup {n}
      BY <2>1, <3>2
    <3> HIDE DEF fresh, k, n, p, m
    <3> QED BY <1>5, <2>2, <3>1, <3>2, <3>3
  <2>3. CASE /\ ~p.ended /\ ~writer[r].apart /\ m > 0 /\ Len(pages'[k].lines) = m
             /\ pages'[k].lines[m] = [cut |-> fresh.cut \cup Texts(p.lines[m]), whole |-> fresh.whole]
             /\ \A i \in 1..m : i # m => pages'[k].lines[i] = p.lines[i]
    <3>1. pages'[k].lines[m].cut = Texts(p.lines[m]) \cup fresh.cut /\ pages'[k].lines[m].whole = fresh.whole
      BY <2>3
    <3> HIDE DEF fresh, k, n, p, m
    <3>2. Texts(pages'[k].lines[m]) = Texts(p.lines[m]) \cup {n}
      BY <2>1, <3>1
    <3>3. m \in DOMAIN p.lines /\ m \in DOMAIN pages'[k].lines /\ \A l \in DOMAIN pages'[k].lines : l \in DOMAIN p.lines
      BY <1>5, <2>3
    <3>4. \A l \in DOMAIN pages'[k].lines : l # m => pages'[k].lines[l] = p.lines[l]
      BY <1>5, <2>3
    <3> QED BY <2>3, <3>1, <3>2, <3>3, <3>4
  <2> HIDE DEF fresh, k, n, p, m
  <2> QED BY <1>4, <2>2, <2>3
<1>10. \A g : InPages(pages', g) => InPages(pages, g) \/ g = n
  <2> SUFFICES ASSUME NEW g, NEW q \in DOMAIN pages', NEW l \in DOMAIN pages'[q].lines, g \in Texts(pages'[q].lines[l]), g # n
               PROVE  InPages(pages, g)
    BY DEF InPages
  <2>1. CASE q # k
    BY <1>4, <2>1 DEF InPages
  <2>2. CASE q = k /\ l # Len(pages'[k].lines)
    <3>1. l \in DOMAIN p.lines /\ pages'[k].lines[l] = p.lines[l]
      BY <1>9, <2>2
    <3> QED BY <1>4, <2>2, <3>1 DEF InPages
  <2>3. CASE q = k /\ l = Len(pages'[k].lines)
    <3>1. g \in Texts(p.lines[m]) /\ ~p.ended /\ ~writer[r].apart
      BY <1>9, <2>3
    <3>2. m \in DOMAIN p.lines
      BY <1>4, <1>5, <3>1
    <3> QED BY <1>4, <3>1, <3>2 DEF InPages
  <2> QED BY <2>1, <2>2, <2>3
<1>11. NumberInv'
  <2>1. n >= 1 /\ n <= faults
    BY <1>1, <1>2 DEF NumberInv
  <2>2. ASSUME NEW q \in Recorders, writer'[q].pc # "idle"
        PROVE  /\ writer'[q].n >= 1 /\ writer'[q].n <= faults' /\ writer'[q].n = writer[q].n /\ writer[q].pc # "idle"
               /\ writer'[q].pc # "written" => ~InPages(pages', writer'[q].n)
    <3>1. CASE q = r
      <4>1. writer'[r] = [writer[r] EXCEPT !.pc = "written"]
        BY <1>7, <2>2, <3>1 DEF N!Quiet
      <4> QED BY <1>1, <1>2, <2>1, <3>1, <4>1 DEF Writers
    <3>2. CASE q # r
      <4>1. writer'[q] = writer[q] /\ writer[q].n # n
        BY <1>1, <1>2, <1>7, <2>2, <3>2 DEF NumberInv
      <4> QED BY <1>1, <1>2, <1>10, <2>2, <4>1 DEF NumberInv
    <3> QED BY <3>1, <3>2
  <2>3. ASSUME NEW g \in Nat, InPages(pages', g) PROVE g <= faults'
    BY <1>1, <1>2, <1>10, <2>1, <2>3 DEF NumberInv
  <2>4. ASSUME NEW q \in Recorders, NEW t \in Recorders, q # t, writer'[q].pc # "idle", writer'[t].pc # "idle"
        PROVE  writer'[q].n # writer'[t].n
    BY <1>1, <2>2, <2>4 DEF NumberInv
  <2> QED BY <2>2, <2>3, <2>4 DEF NumberInv
<1>12. EndInv'
  <2> SUFFICES ASSUME NEW q \in DOMAIN pages'
               PROVE  pages'[q].ended \/ (Len(pages'[q].lines) > 0 /\ Texts(pages'[q].lines[Len(pages'[q].lines)]) # {})
    BY DEF EndInv
  <2>1. CASE q = k
    BY <1>9, <2>1
  <2>2. CASE q # k
    BY <1>1, <1>4, <2>2 DEF EndInv
  <2> QED BY <2>1, <2>2
<1>13. KeptInv'
  <2>1. \A f : \A q \in DOMAIN pages : Safe(pages[q], beside, f) => q \in DOMAIN pages' /\ Safe(pages'[q], beside', f)
    BY <1>2, <1>3, <1>6, SafeStays
  <2>2. \A f \in kept' : \E q \in DOMAIN pages' : Safe(pages'[q], beside', f)
    BY <1>1, <1>2, <2>1 DEF KeptInv
  <2>3. ASSUME NEW q \in Recorders, writer'[q].pc \in {"opened", "checked", "written"}
        PROVE  /\ writer'[q].file \in DOMAIN pages' /\ writer'[q].file = writer[q].file /\ writer'[q].n = writer[q].n
               /\ q # r => writer'[q] = writer[q]
               /\ q = r => all /\ ended /\ writer'[r].pc = "written"
    <3>1. CASE q = r
      <4>1. writer'[r] = [writer[r] EXCEPT !.pc = "written"] /\ all /\ ended
        BY <1>7, <2>3, <3>1 DEF N!Quiet
      <4> QED BY <1>1, <1>4, <3>1, <4>1 DEF Writers
    <3>2. CASE q # r
      BY <1>1, <1>4, <1>7, <2>3, <3>2 DEF KeptInv
    <3> QED BY <3>1, <3>2
  <2>4. ASSUME NEW q \in Recorders, writer'[q].pc = "checked", ~writer'[q].apart, ~pages'[writer'[q].file].ended,
               NEW g \in Texts(pages'[writer'[q].file].lines[Len(pages'[writer'[q].file].lines)])
        PROVE  <<writer'[q].n, g>> \in beside'
    <3>1. q # r /\ writer'[q] = writer[q] /\ writer[q].file \in DOMAIN pages
      BY <1>4, <2>3, <2>4
    <3>2. CASE writer[q].file # k
      BY <1>1, <1>4, <1>6, <2>4, <3>1, <3>2 DEF KeptInv
    <3>3. CASE writer[q].file = k
      <4>1. ~ended /\ <<writer[q].n, n>> \in beside'
        BY <1>3, <1>4, <2>4, <3>1, <3>3
      <4>2. g = n \/ (~p.ended /\ g \in Texts(p.lines[m]))
        BY <1>9, <2>4, <3>1, <3>3
      <4> QED BY <1>1, <1>6, <2>4, <3>1, <3>3, <4>1, <4>2 DEF KeptInv
    <3> QED BY <3>2, <3>3
  <2>5. ASSUME NEW q \in Recorders, writer'[q].pc = "written"
        PROVE  Safe(pages'[writer'[q].file], beside', writer'[q].n)
    <3>1. CASE q = r
      <4>1. all /\ ended /\ writer'[r].file = k /\ writer'[r].n = n
        BY <2>3, <2>5, <3>1
      <4> DEFINE z == Len(pages'[k].lines)
      <4>2. z \in DOMAIN pages'[k].lines /\ pages'[k].lines[z].whole = n
        BY <1>9, <4>1
      <4>3. \A g \in pages'[k].lines[z].cut : ~p.ended /\ ~writer[r].apart /\ g \in Texts(p.lines[m])
        BY <1>9, <4>1
      <4>4. \A g \in pages'[k].lines[z].cut : <<n, g>> \in beside'
        BY <1>1, <1>2, <1>6, <4>3 DEF KeptInv
      <4>5. pages'[k].ended
        BY <1>4, <4>1
      <4> QED BY <3>1, <4>1, <4>2, <4>4, <4>5 DEF Safe
    <3>2. CASE q # r
      <4>1. writer'[q] = writer[q] /\ writer[q].file \in DOMAIN pages /\ Safe(pages[writer[q].file], beside, writer[q].n)
        BY <1>1, <2>3, <2>5, <3>2 DEF KeptInv
      <4> QED BY <2>1, <4>1
    <3> QED BY <3>1, <3>2
  <2> QED BY <2>2, <2>3, <2>4, <2>5 DEF KeptInv
<1>14. MarkInv'
  <2>1. ~N!Glued' => ~N!Glued /\ (N!Notes' = N!Notes \/ Grows(N!Notes, N!Notes'))
    BY <1>2, <1>3, GluedOrGrown
  <2> QED BY <1>2, <2>1, MarkStays
<1> QED BY <1>8, <1>11, <1>12, <1>13, <1>14 DEF NoteInv

LEMMA ReceiptFails == ASSUME NoteInv, N!FileRawReceiptFails PROVE NoteInv'
<1>1. UNCHANGED <<pages, live, prior, rotations, mark, reader, seen, writer, kept, beside>> /\ faults' = faults + 1
  BY DEF N!FileRawReceiptFails, N!fileVars, N!readVars
<1>2. faults \in Nat /\ NoteTypes /\ FileInv /\ NumberInv /\ EndInv /\ KeptInv
  BY DEF NoteInv, NoteTypes
<1>3. \A q \in Recorders : writer[q].n \in Nat
  BY <1>2 DEF NoteTypes, Writers
<1>4. NoteTypes' /\ FileInv' /\ EndInv' /\ KeptInv'
  BY <1>1, <1>2 DEF NoteTypes, FileInv, EndInv, KeptInv
<1>5. NumberInv'
  BY <1>1, <1>2, <1>3 DEF NumberInv
<1>6. MarkInv'
  <2>1. N!Glued' <=> N!Glued
    BY <1>1 DEF N!Glued
  <2> QED BY <1>1, <2>1, NotesSame, MarkStays
<1> QED BY <1>4, <1>5, <1>6 DEF NoteInv

LEMMA ReaderSteps == ASSUME NoteInv, N!ClearReads \/ N!ClearMarks PROVE NoteInv'
<1>1. NoteTypes /\ FileInv /\ NumberInv /\ EndInv /\ KeptInv /\ MarkInv /\ N!Notes \in Pages /\ Len(N!Notes.lines) \in Nat
  <2>1. N!Notes \in Pages
    BY NotesIsAPage
  <2> QED BY <2>1 DEF NoteInv, Pages
<1>2. UNCHANGED <<pages, live, prior, rotations, writer, faults, kept, beside>>
  BY DEF N!ClearReads, N!ClearMarks, N!fileVars, N!restVars
<1>3. FileInv' /\ NumberInv' /\ EndInv' /\ KeptInv' /\ N!Notes' = N!Notes /\ (N!Glued' <=> N!Glued)
  BY <1>1, <1>2, NotesSame DEF FileInv, NumberInv, EndInv, KeptInv, N!Glued
<1>4. CASE N!ClearReads
  <2>1. /\ reader' = [on |-> TRUE, what |-> N!Incidents(N!Notes, N!Readable(N!Notes, Len(N!Notes.lines))),
                      count |-> N!Entries(N!Notes, Len(N!Notes.lines))]
        /\ mark' = mark /\ seen' = seen
    BY <1>4 DEF N!ClearReads, N!Entries
  <2>2. ReadUpto(N!Notes, reader'.count, reader'.what)
    BY <1>1, <2>1 DEF ReadUpto
  <2>3. reader'.count \in Nat
    BY <1>1, <2>1, ReadableIsFinite
  <2> QED BY <1>1, <1>2, <1>3, <2>1, <2>2, <2>3 DEF NoteInv, NoteTypes, MarkInv
<1>5. CASE N!ClearMarks
  <2>1. reader' = N!NotReading /\ ~reader'.on /\ reader'.count \in Nat /\ reader.on
    BY <1>5 DEF N!ClearMarks, N!NotReading
  <2>2. CASE mark' = reader.count /\ seen' = seen \cup reader.what
    <3>1. mark' \in Nat
      BY <1>1, <2>2 DEF NoteTypes
    <3>2. rotations = 0 /\ ~N!Glued => ReadUpto(N!Notes, reader.count, seen \cup reader.what)
      BY <1>1, <2>1 DEF MarkInv, ReadUpto
    <3> QED BY <1>1, <1>2, <1>3, <2>1, <2>2, <3>1, <3>2 DEF NoteInv, NoteTypes, MarkInv
  <2>3. CASE UNCHANGED <<mark, seen>>
    BY <1>1, <1>2, <1>3, <2>1, <2>3 DEF NoteInv, NoteTypes, MarkInv
  <2> QED BY <1>5, <2>2, <2>3 DEF N!ClearMarks
<1> QED BY <1>4, <1>5

LEMMA NoteBegins == N!Init => NoteInv
<1> SUFFICES ASSUME N!Init PROVE NoteInv
  OBVIOUS
<1>1. /\ pages = <<>> /\ live = 0 /\ prior = 0 /\ mark = 0 /\ writer = [r \in Recorders |-> N!Quiet]
      /\ reader = N!NotReading /\ faults = 0 /\ kept = {} /\ rotations = 0
  BY DEF N!Init
<1>2. DOMAIN pages = {} /\ Len(pages) = 0 /\ pages \in Seq(Pages)
  BY <1>1
<1>3. ~reader.on /\ reader.count \in Nat
  BY <1>1 DEF N!NotReading
<1>4. \A r \in Recorders : writer[r].pc = "idle" /\ writer[r] \in Writers
  BY <1>1 DEF N!Quiet, Writers, PCs
<1>5. NoteTypes /\ FileInv /\ NumberInv /\ EndInv /\ KeptInv
  BY <1>1, <1>2, <1>3, <1>4 DEF NoteTypes, FileInv, NumberInv, EndInv, KeptInv, InPages
<1>6. ReadUpto(N!Notes, mark, seen)
  <2>1. N!Notes \in Pages
    BY <1>1 DEF N!Notes, N!Blank, Pages
  <2> QED BY <1>1, <2>1, NothingIsRead
<1> QED BY <1>3, <1>5, <1>6 DEF NoteInv, MarkInv

LEMMA NoteNext == NoteInv /\ [N!Next]_N!vars => NoteInv'
<1> SUFFICES ASSUME NoteInv, [N!Next]_N!vars PROVE NoteInv'
  OBVIOUS
<1>1. ASSUME NEW r \in Recorders, N!Recording(r) PROVE NoteInv'
  BY <1>1, RecordBegins, NothingWritten, LineWritten DEF N!Recording
<1>2. CASE N!FileRawReceiptFails \/ N!ClearReads \/ N!ClearMarks
  BY <1>2, ReceiptFails, ReaderSteps
<1>3. CASE UNCHANGED N!vars
  <2>1. UNCHANGED <<pages, live, prior, rotations, mark, reader, seen, writer, faults, kept, beside>>
    BY <1>3 DEF N!vars
  <2>2. N!Notes' = N!Notes /\ (N!Glued' <=> N!Glued)
    BY <2>1, NotesSame DEF N!Glued
  <2>3. MarkInv'
    BY <2>1, <2>2, MarkStays
  <2> QED BY <2>1, <2>3 DEF NoteInv, NoteTypes, FileInv, NumberInv, EndInv, KeptInv
<1> QED BY <1>1, <1>2, <1>3 DEF N!Next

\* What the mark says was read is within the place up to which it was.
LEMMA MarkedIsRead == ASSUME NoteInv, rotations = 0, ~N!Glued PROVE N!MarkedRead \subseteq seen
<1> DEFINE p == N!Notes
<1>1. p \in Pages /\ DOMAIN p.lines = 1..Len(p.lines) /\ Len(p.lines) \in Nat
  <2>1. p \in Pages
    BY NotesIsAPage
  <2> QED BY <2>1 DEF Pages
<1>2. PICK b \in 0..Len(p.lines) : mark = N!Entries(p, b) /\ N!Incidents(p, N!Readable(p, b)) \subseteq seen
  BY DEF NoteInv, MarkInv, ReadUpto
<1> HIDE DEF p
<1>3. ASSUME NEW i \in N!Readable(p, Len(p.lines)), N!Entries(p, i) <= mark
      PROVE  i \in N!Readable(p, b)
  <2>1. i \in 1..Len(p.lines) /\ i \in N!Readable(p, i)
    BY <1>1 DEF N!Readable
  <2>2. SUFFICES ASSUME i > b PROVE FALSE
    BY <1>1, <1>2, <2>1 DEF N!Readable
  <2>3. N!Readable(p, b) \subseteq N!Readable(p, i) /\ i \notin N!Readable(p, b)
    BY <1>1, <1>2, <2>1, <2>2 DEF N!Readable
  <2>4. /\ IsFiniteSet(N!Readable(p, i)) /\ N!Entries(p, i) = Cardinality(N!Readable(p, i)) /\ N!Entries(p, i) \in Nat
        /\ N!Entries(p, b) = Cardinality(N!Readable(p, b)) /\ N!Entries(p, b) \in Nat
    BY <1>1, <1>2, <2>1, ReadableIsFinite
  <2>5. N!Readable(p, b) # N!Readable(p, i)
    BY <2>1, <2>3
  <2>6. Cardinality(N!Readable(p, b)) < Cardinality(N!Readable(p, i))
    BY <2>3, <2>4, <2>5, FS_Subset
  <2> QED BY <1>2, <1>3, <2>4, <2>6
<1>4. N!MarkedRead \subseteq N!Incidents(p, N!Readable(p, b))
  BY <1>3 DEF N!MarkedRead, N!Incidents, p
<1> QED BY <1>2, <1>4

LEMMA NoteHolds == N!Spec => []N!IncidentsSurvive
<1>1. NoteInv => N!IncidentsSurvive
  <2> SUFFICES ASSUME NoteInv PROVE N!IncidentsSurvive
    OBVIOUS
  <2>1. ASSUME NEW f \in kept PROVE \E p \in DOMAIN pages : N!Told(pages[p], f) /\ (rotations <= p => p \in {live, prior})
    <3>1. PICK p \in DOMAIN pages : Safe(pages[p], beside, f)
      BY DEF NoteInv, KeptInv
    <3>2. N!Told(pages[p], f)
      BY <3>1 DEF Safe, N!Told
    <3>3. rotations <= p => p \in {live, prior}
      BY DEF NoteInv, NoteTypes, FileInv
    <3> QED BY <3>2, <3>3
  <2> QED BY <2>1, MarkedIsRead DEF N!IncidentsSurvive
<1> QED BY <1>1, NoteBegins, NoteNext, PTL DEF N!Spec

\* What Record returned for is a line of its page, behind nothing but what was cut
\* short beside it, and its page stays until a second rotation; nothing is marked
\* read before a rotation that no Clear has read, unless two writes ran together:
\* the crash notebook's Record, unterminated, rotateIfFull and Clear, for any
\* number of Records at once, any of them killed anywhere.
THEOREM IncidentsSurviveHolds == PaperworkSpec => []IncidentsSurvive
<1>1. PaperworkInit => N!Init
  BY DEF PaperworkInit
<1>2. [PaperworkNext]_allVars => [N!Next]_N!vars
  BY DEF PaperworkNext, InReceipts, InNotebook, InSession, allVars, noteVars, N!vars
<1> QED BY NoteHolds, <1>1, <1>2, PTL DEF PaperworkSpec, N!Spec, IncidentsSurvive
=============================================================================
