------------------------------ MODULE Quality -------------------------------
(* The quality ledger on disk (internal/selector/quality.go): processes that
   each keep a book in memory and what they have not filed yet, and a file
   they rewrite in turn, under a lock, from what is in it and what is pending.
   A row is its counters and the flags that repeat them. *)
EXTENDS Naturals, FiniteSets, Functions
CONSTANTS Procs, Keys,
          MaxSeen,   \* bound: observations recorded
          MaxFails,  \* bound: writes that fail
          MaxKills   \* bound: processes killed
VARIABLES file,      \* the rows on disk
          holder,    \* the processes that hold the lock of the file: at most one
          proc,      \* per process, where it is, its book, what is pending and what it is about to write
          fails, kills,
          recorded   \* history: observations recorded, less the ones that died pending with their process
vars == <<file, holder, proc, fails, kills, recorded>>

Counters == {"samples", "total", "valid", "accepted", "complete", "partial", "truncated", "failure"}
Empty == [n \in Counters |-> 0]
NoRows == [k \in Keys |-> Empty]
Minimum == 2   \* MinimumSamples: a book that is given no minimum

\* Observe: a run either failed or answered; an answer may be cut short by the
\* provider, or in its shape, and may stray out of scope.
One(b) == IF b THEN 1 ELSE 0
Outcomes == [ok : BOOLEAN, shape : BOOLEAN, cut : BOOLEAN, said : BOOLEAN, scoped : BOOLEAN]
Observe(o) ==
  LET truncated == o.ok /\ (o.shape \/ o.cut)
      complete == o.ok /\ ~o.shape /\ ~o.said /\ ~truncated
  IN [samples |-> 1, total |-> 1, valid |-> One(o.ok), accepted |-> One(complete /\ o.scoped),
      complete |-> One(complete), partial |-> One(o.ok /\ ~complete), truncated |-> One(truncated), failure |-> One(~o.ok)]
Observed == {Observe(o) : o \in Outcomes}
\* normalize and mergeQuality: the counters add up, but for a row that had none.
Normal(q) == [q EXCEPT !.partial = IF q.partial = 0 /\ q.valid > 0 /\ q.complete = 0 THEN q.valid ELSE @]
Merge(a, b) == LET d == Normal(b) IN [n \in Counters |-> IF n = "samples" THEN a.total + d.total ELSE a[n] + d[n]]
MergeAll(a, b) == [k \in Keys |-> IF b[k] = Empty THEN a[k] ELSE Merge(a[k], b[k])]
\* validateQualityObservation: the rows readQualityRows lets in. The flags it
\* compares are functions of the counters in every row that was merged.
Validates(q) ==
  /\ q.total > 0 /\ q.samples = q.total /\ \A n \in Counters : q[n] <= q.total
  /\ q.accepted <= q.valid /\ q.accepted <= q.complete
  /\ q.valid + q.failure = q.total /\ q.complete + q.partial = q.valid
  /\ q.truncated <= q.valid /\ q.truncated <= q.partial
Readable(rows) == \A k \in Keys : rows[k] # Empty => Validates(rows[k])
\* Tested: a row is evidence once it has enough samples and a good one.
Tested(q) == q.total >= Minimum /\ q.complete > 0 /\ q.valid > 0

Out == [at |-> "out", book |-> NoRows, pending |-> NoRows, rows |-> NoRows]
Init == /\ file = NoRows /\ holder = {} /\ proc = [p \in Procs |-> Out]
        /\ fails = 0 /\ kills = 0 /\ recorded = [k \in Keys |-> 0]
Seen == SumFunction(recorded)

-----------------------------------------------------------------------------
\* OpenQualityBookWithPath, load: a ledger that does not read is refused.
Open(p) ==
  /\ proc[p].at = "out" /\ Readable(file)
  /\ proc' = [proc EXCEPT ![p] = [Out EXCEPT !.at = "idle", !.book = file]]
  /\ UNCHANGED <<file, holder, fails, kills, recorded>>
\* Record up to persistLocked.
Record(p, k, seen) ==
  /\ proc[p].at = "idle" /\ Seen < MaxSeen
  /\ LET q == Normal(seen)
     IN proc' = [proc EXCEPT ![p].at = "lock", ![p].book[k] = Merge(Normal(@), q), ![p].pending[k] = Merge(@, q)]
  /\ recorded' = [recorded EXCEPT ![k] = @ + 1]
  /\ UNCHANGED <<file, holder, fails, kills>>
\* acquireQualityFileLock: the lock, or two seconds of trying.
Claim(p) ==
  /\ proc[p].at = "lock" /\ holder = {} /\ holder' = {p}
  /\ proc' = [proc EXCEPT ![p].at = "read"]
  /\ UNCHANGED <<file, fails, kills, recorded>>
GiveUp(p) ==
  /\ proc[p].at = "lock" /\ holder # {}
  /\ proc' = [proc EXCEPT ![p].at = "idle"]
  /\ UNCHANGED <<file, holder, fails, kills, recorded>>
\* persistLocked: the rows on disk with what is pending merged in; they are
\* the book's now, whether or not they reach the disk.
Read(p) ==
  /\ proc[p].at = "read" /\ Readable(file)
  /\ LET rows == MergeAll(file, proc[p].pending)
     IN proc' = [proc EXCEPT ![p].at = "write", ![p].rows = rows, ![p].book = [k \in Keys |-> IF rows[k] = Empty THEN @[k] ELSE rows[k]]]
  /\ UNCHANGED <<file, holder, fails, kills, recorded>>
Rename(p) ==
  /\ proc[p].at = "write" /\ file' = proc[p].rows
  /\ proc' = [proc EXCEPT ![p].at = "clear"]
  /\ UNCHANGED <<holder, fails, kills, recorded>>
Clear(p) ==
  /\ proc[p].at = "clear" /\ holder' = holder \ {p}
  /\ proc' = [proc EXCEPT ![p] = [@ EXCEPT !.at = "idle", !.pending = NoRows, !.rows = NoRows]]
  /\ UNCHANGED <<file, fails, kills, recorded>>
\* Any step before the rename may fail: what is pending stays pending.
KeptForgotten(p) == NoRows
Kept(p) == proc[p].pending
Fail(p) ==
  /\ proc[p].at \in {"read", "write"} /\ fails < MaxFails /\ fails' = fails + 1
  /\ holder' = holder \ {p}
  /\ proc' = [proc EXCEPT ![p] = [@ EXCEPT !.at = "idle", !.rows = NoRows, !.pending = Kept(p)]]
  /\ UNCHANGED <<file, kills, recorded>>
\* A killed process takes what it had not filed; its lock falls to the next.
Filed(p) == proc[p].at = "clear"
Kill(p) ==
  /\ proc[p].at # "out" /\ kills < MaxKills /\ kills' = kills + 1
  /\ recorded' = [k \in Keys |-> recorded[k] - (IF Filed(p) THEN 0 ELSE proc[p].pending[k].total)]
  /\ holder' = holder \ {p} /\ proc' = [proc EXCEPT ![p] = Out]
  /\ UNCHANGED <<file, fails>>

Next == \E p \in Procs :
  \/ Open(p) \/ Claim(p) \/ GiveUp(p) \/ Read(p) \/ Rename(p) \/ Clear(p) \/ Fail(p) \/ Kill(p)
  \/ \E k \in Keys, q \in Observed : Record(p, k, q)
Spec == Init /\ [][Next]_vars

-----------------------------------------------------------------------------
\* However processes take turns, fail to write and die (persistLocked), the
\* ledger and what is pending count every observation once, but for the ones
\* that died with their process; the book never writes a row it would refuse
\* to read back, and no process is shown more than was recorded, so nothing
\* counts as tested on fewer runs than it had.
LedgerCountsOnce ==
  /\ \A k \in Keys :
       file[k].total + SumFunction([p \in Procs |-> IF Filed(p) THEN 0 ELSE proc[p].pending[k].total]) = recorded[k]
  /\ Readable(file) /\ \A p \in Procs : Readable(proc[p].book) /\ Readable(proc[p].pending)
  /\ \A p \in Procs, k \in Keys :
       /\ proc[p].pending[k].total <= proc[p].book[k].total /\ proc[p].book[k].total <= recorded[k]
       /\ Tested(proc[p].book[k]) => recorded[k] >= Minimum
=============================================================================
