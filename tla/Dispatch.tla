------------------------------ MODULE Dispatch ------------------------------
(***************************************************************************)
(* internal/orchestrator: Ask and dispatch.  A plan is walked in waves; a  *)
(* wave's steps run side by side, each with an equal share of the money    *)
(* that is left; then every step is filed, one Save each, and the run is   *)
(* closed by a last Save.  What one step does is Selection's subject: here *)
(* it ends ok, failed or canceled and costs something.  A plan gives every *)
(* step the steps it needs; Ask makes plans of one step, the longer ones   *)
(* are those the orchestrator's own tests dispatch.                        *)
(***************************************************************************)
EXTENDS Checkpoint, FiniteSetsExt

CONSTANTS
  Plans, AskPlan,   \* functions from step numbers to the steps they need
  Budget,           \* the grant
  Limit,            \* maxParallel
  MaxRuns           \* bound on runs asked for

\* The steps of a plan are a list; a number stands for the rank of an id.
ASSUME DispatchAssumption ==
  /\ Budget \in Nat /\ Limit \in Nat \ {0}
  /\ \A p \in Plans \cup {AskPlan} : DOMAIN p \subseteq Nat /\ IsFiniteSet(DOMAIN p)

VARIABLES run

vars == <<file, durable, aside, temp, save, acked, old, due, pruned, damaged, up, crashes, run>>

NoRun == [pc |-> "idle", plan |-> AskPlan, steps |-> {}, wave |-> <<>>, left |-> Budget, share |-> 0,
          spent |-> 0, over |-> FALSE, ctx |-> FALSE, err |-> FALSE, lost |-> FALSE, verdict |-> "none"]
Live == {"wave", "run", "record", "saving", "close", "closing"}

TypeOK ==
  /\ DiskTypeOK
  /\ \A r \in Runs : /\ run[r].pc \in Live \cup {"idle", "done", "dead"}
                     /\ run[r].left \in 0..Budget
                     /\ run[r].verdict \in {"none", "ok", "failed", "canceled"}

Init == DiskInit /\ run = [r \in Runs |-> NoRun]

StepIds(steps) == {s.id : s \in steps}
NotOK(steps) == {s.id : s \in {x \in steps : x.v # "ok"}}
\* Plan.Validate: there are steps, they need steps of the plan, and no step of a
\* set of steps waits, in the end, for itself.
Validates(plan) ==
  /\ DOMAIN plan # {} /\ \A s \in DOMAIN plan : plan[s] \subseteq DOMAIN plan
  /\ \A S \in SUBSET DOMAIN plan : S # {} => \E s \in S : plan[s] \cap S = {}
\* Plan.LayersAfter: the next wave, whatever the verdicts.
Layer(plan, done) == {s \in DOMAIN plan \ done : plan[s] \subseteq done}
\* Mutant: a step that was itself blocked blocks nobody.
BlockedByRun(r, s) == \E x \in run[r].steps : x.id \in run[r].plan[s] /\ x.v # "ok" /\ x.ran
BlockedBy(r, s) == run[r].plan[s] \cap NotOK(run[r].steps) # {}
\* Mutant: every step is granted all that is left.
WholeShare(left, n) == left
Share(left, n) == left \div n

Ask(r) ==
  /\ r \in up /\ run[r].pc = "idle" /\ Cardinality({q \in Runs : run[q].pc # "idle"}) < MaxRuns
  /\ \E p \in (IF r = Service THEN Plans ELSE {AskPlan}) :
       run' = [run EXCEPT ![r] = [NoRun EXCEPT !.plan = p, !.pc = IF Validates(p) THEN "wave" ELSE "close",
                                               !.err = ~Validates(p)]]
  /\ UNCHANGED diskVars

\* The top of the loop: a stopped run goes no further; the blocked are closed
\* unrun, the others share what is left.
BeginWave(r) ==
  /\ run[r].pc = "wave"
  /\ LET me == run[r]
         wave == Layer(me.plan, StepIds(me.steps))
         runnable == {s \in wave : ~BlockedBy(r, s)}
     IN run' = [run EXCEPT ![r] =
          CASE wave = {} -> [me EXCEPT !.pc = "close"]
            [] wave # {} /\ me.ctx -> [me EXCEPT !.pc = "close", !.err = TRUE]
            [] OTHER -> [me EXCEPT !.pc = "run",
                           !.wave = [s \in wave |-> IF s \in runnable THEN "queued" ELSE "blocked"],
                           !.share = IF runnable = {} THEN 0 ELSE Share(me.left, Cardinality(runnable))]]
  /\ UNCHANGED diskVars

Running(r) == {s \in DOMAIN run[r].wave : run[r].wave[s] = "running"}
StepStarts(r, s) ==
  /\ run[r].pc = "run" /\ s \in DOMAIN run[r].wave /\ run[r].wave[s] = "queued"
  /\ Cardinality(Running(r)) < Limit
  /\ run' = [run EXCEPT ![r].wave[s] = "running"]
  /\ UNCHANGED diskVars
\* runStep returns, and the purse is charged, never below nothing.
StepEnds(r, s, v, usd) ==
  /\ run[r].pc = "run" /\ s \in Running(r)
  /\ v = "canceled" => run[r].ctx
  /\ LET me == run[r] IN
     run' = [run EXCEPT ![r] = [me EXCEPT !.wave[s] = v, !.spent = me.spent + usd,
                                          !.left = IF me.left > usd THEN me.left - usd ELSE 0,
                                          !.over = me.over \/ usd > me.share]]
  /\ UNCHANGED diskVars
\* The notebook takes the panic down and the process goes.
StepPanics(r, s) ==
  /\ run[r].pc = "run" /\ s \in Running(r)
  /\ Kill(r) /\ run' = [run EXCEPT ![r].pc = "dead"]
WaveEnds(r) ==
  /\ run[r].pc = "run" /\ \A s \in DOMAIN run[r].wave : run[r].wave[s] \notin {"queued", "running"}
  /\ run' = [run EXCEPT ![r].pc = "record"]
  /\ UNCHANGED diskVars

Unfiled(r) == DOMAIN run[r].wave \ StepIds(run[r].steps)
Receipt(r, closed, verdict) == [steps |-> run'[r].steps, closed |-> closed, verdict |-> verdict]
\* One step of the wave, in the order of their ids, joins the result and the
\* record, and the record is saved.
FileStep(r) ==
  /\ run[r].pc = "record"
  /\ LET s == Min(Unfiled(r))  w == run[r].wave[s] IN
     run' = [run EXCEPT ![r].pc = "saving",
               ![r].steps = @ \cup {[id |-> s, v |-> IF w = "blocked" THEN "failed" ELSE w, ran |-> w # "blocked"]}]
  /\ Asked(r, Receipt(r, FALSE, "none"))
  /\ UNCHANGED <<file, durable, aside, temp, acked, old, due, pruned, damaged, up, crashes>>
\* A Save that fails ends dispatch there and then.
Filed(r) ==
  /\ run[r].pc = "saving" /\ save[r].at \in {"ok", "error"}
  /\ run' = [run EXCEPT ![r] =
       IF save[r].at = "error" THEN [@ EXCEPT !.pc = "close", !.err = TRUE, !.lost = TRUE]
       ELSE IF Unfiled(r) # {} THEN [@ EXCEPT !.pc = "record"]
       ELSE [@ EXCEPT !.pc = "wave", !.wave = <<>>, !.share = 0]]
  /\ save' = [save EXCEPT ![r] = Idle]
  /\ UNCHANGED <<file, durable, aside, temp, acked, old, due, pruned, damaged, up, crashes>>

\* Mutant: only the steps are asked, not whether somebody stopped the run.
OverallVerdictOfSteps(r) ==
  IF run[r].steps = {} \/ NotOK(run[r].steps) # {} THEN "failed" ELSE "ok"
\* overallVerdict: a failure outranks a cancellation, a cancellation success.
OverallVerdict(r) ==
  LET verdicts == {s.v : s \in run[r].steps} IN
  CASE verdicts \ {"ok", "canceled"} # {} -> "failed"
    [] verdicts \subseteq {"ok", "canceled"} /\ (run[r].ctx \/ "canceled" \in verdicts) -> "canceled"
    [] verdicts = {} /\ ~run[r].ctx -> "failed"
    [] OTHER -> "ok"
\* Ask's deferred close.
CloseRun(r) ==
  /\ run[r].pc = "close"
  /\ run' = [run EXCEPT ![r].pc = "closing", ![r].verdict = OverallVerdict(r)]
  /\ Asked(r, Receipt(r, TRUE, OverallVerdict(r)))
  /\ UNCHANGED <<file, durable, aside, temp, acked, old, due, pruned, damaged, up, crashes>>
Closed(r) ==
  /\ run[r].pc = "closing" /\ save[r].at \in {"ok", "error"}
  /\ run' = [run EXCEPT ![r].pc = "done", ![r].err = @ \/ save[r].at = "error"]
  /\ save' = [save EXCEPT ![r] = Idle]
  /\ UNCHANGED <<file, durable, aside, temp, acked, old, due, pruned, damaged, up, crashes>>
\* The caller stops waiting.
Cancel(r) ==
  /\ run[r].pc \in Live \ {"closing"} /\ ~run[r].ctx
  /\ run' = [run EXCEPT ![r].ctx = TRUE]
  /\ UNCHANGED diskVars

\* A run goes with its process: nothing resumes it.
Ended(ps) == [r \in Runs |-> IF r \in ps /\ run[r].pc \in Live THEN [run[r] EXCEPT !.pc = "dead"] ELSE run[r]]
Dies(r) == Kill(r) /\ run' = Ended({r})
LosesPower == PowerCut /\ run' = Ended(up)

Works(r) == Ask(r) \/ BeginWave(r) \/ WaveEnds(r) \/ FileStep(r) \/ Filed(r) \/ CloseRun(r) \/ Closed(r)
Outcomes(share) == {<<"ok", 0>>, <<"ok", share>>, <<"ok", share + 1>>, <<"failed", share>>, <<"canceled", 0>>}
Steps(r) == \E s \in DOMAIN run[r].plan : \/ StepStarts(r, s) \/ StepPanics(r, s)
              \/ \E o \in Outcomes(run[r].share) : StepEnds(r, s, o[1], o[2])
Next ==
  \/ \E r \in Runs : Works(r) \/ Steps(r) \/ Cancel(r) \/ Dies(r) \/ (Saving(r) /\ UNCHANGED run)
  \/ LosesPower
  \/ (Recover \/ Prune \/ TimePasses \/ (\E r \in Runs : CommandStarts(r) \/ Damage(r))) /\ UNCHANGED run
Spec == Init /\ [][Next]_vars

-----------------------------------------------------------------------------
\* A step runs only when everything it needs has passed review, through any
\* number of blocked steps, no more at once than maxParallel, and as long as no
\* step outspends its share the run spends no more than its grant (blockedBy,
\* runWave, grant.shares, grant.spend).
WavesKeepTheirWord ==
  \A r \in Runs : run[r].pc = "run" =>
     /\ \A s \in Running(r) : \A n \in run[r].plan[s] : \E x \in run[r].steps : x.id = n /\ x.v = "ok" /\ x.ran
     /\ Cardinality(Running(r)) <= Limit
     /\ ~run[r].over => run[r].spent <= Budget

\* A run closed as ok is one that nobody had stopped by then and of which no step
\* went wrong, and it carried out all of its plan.  The one exception: a Save failed
\* before the end of a plan of several steps; the caller is then given that error
\* with the verdict (Ask, dispatch, overallVerdict).
OKMeansCarriedOut ==
  \A r \in Runs : run[r].verdict = "ok" =>
     /\ ~run[r].ctx /\ NotOK(run[r].steps) = {}
     /\ \/ StepIds(run[r].steps) = DOMAIN run[r].plan
        \/ run[r].lost /\ run[r].err /\ \E s, t \in DOMAIN run[r].plan : s # t

\* What overallVerdict's comment says without that exception: "calling it ok
\* would promise a plan was carried out when part of it never ran".
OKMeansAllOfIt == \A r \in Runs : run[r].verdict = "ok" => StepIds(run[r].steps) = DOMAIN run[r].plan
=============================================================================
