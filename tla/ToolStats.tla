------------------------------ MODULE ToolStats -----------------------------
(* The statistics of tool calls (internal/toolstats): several processes write
   one SQLite file, each under an owner of its own whose lock file it holds
   while it is open. A call is a row that Begin inserts and Finish closes;
   every so often Begin folds the closed rows of old days into one row per day
   and closes the rows of owners whose lock nobody holds. Readers take the
   locks of dead owners, shared, before their transaction.

   A tick is a part of a day; SQLite's transactions are single steps. *)
EXTENDS Integers, FiniteSets, FiniteSetsExt, Functions
CONSTANTS Procs,     \* processes with a store
          Day,       \* ticks in a day
          Detail,    \* ticks that rows are kept for, then days
          MaxNow,    \* bound: ticks
          MaxCalls,  \* bound: calls
          MaxOwners, \* bound: times a store is opened
          MaxFaults, \* bound: statements that fail and processes that die
          None
VARIABLES now,    \* the clock
          db,     \* the file: owners, events, rollups and the counts of meta
          proc,   \* per process: whether it lives, its owner, drops not yet written, maintenance due
          calls,  \* the calls under way: id to process, or None
          given,  \* ids handed out
          owned,  \* owners handed out
          files,  \* lock files of owners
          reader, \* the dead owners whose lock a reader holds, or None
          pager,  \* a walk through the failures, page by page, or None; one reader at a time is followed
          faults, \* faults so far
          log     \* history: every call that was recorded, and what is recorded of it
vars == <<now, db, proc, calls, given, owned, files, reader, pager, faults, log>>


Ids == 1 .. MaxCalls
Open == -1
Bucket(t) == t - (t % Day)
Buckets == {Bucket(t) : t \in 0 .. MaxNow}
NoRoll == [calls |-> 0, ok |-> 0, maxEnded |-> 0]
Down == [up |-> FALSE, owner |-> 0, dropped |-> 0, due |-> TRUE]
Events == {id \in Ids : db.events[id] # None}
\* A row of an owner from before owners were kept has owner 0.
Row(at, owner) == [at |-> at, owner |-> owner, ended |-> Open, outcome |-> "none"]
\* What a row of events can hold; "cut" is a failure whose code says that recording was interrupted.
Rows == [at : 0 .. MaxNow, owner : Nat, ended : {Open} \cup 0 .. MaxNow, outcome : {"none", "ok", "fail", "cut"}]

Init ==
  /\ now = 0 /\ given = 1 /\ owned = 0 /\ files = {} /\ reader = None /\ pager = None /\ faults = 0
  /\ proc = [p \in Procs |-> [Down EXCEPT !.up = TRUE]]
  /\ calls = [id \in Ids |-> None]
  /\ \E old \in {None, Row(0, 0)} :
       /\ db = [owners |-> {}, events |-> [id \in Ids |-> IF id = 1 THEN old ELSE None],
                rolls |-> [b \in Buckets |-> NoRoll], dropped |-> 0, recovered |-> 0]
       /\ log = [id \in Ids |-> IF id = 1 THEN old ELSE None]

\* Somebody else's lock: flock is per open file, so a process's own counts too.
Alive(o) == \E p \in Procs : proc[p].up /\ proc[p].owner = o
Held(o) == Alive(o) \/ (reader # None /\ o \in reader)

-----------------------------------------------------------------------------
(* Maintenance *)

Cut == IF now < Detail THEN 0 ELSE Bucket(now - Detail)
\* recoverOwners: the open rows of owners whose lock can be taken are closed as
\* interrupted, and so are old ones that never had an owner. An owner that is
\* just being opened is held by who opens it.
Recoverable(d) == {o \in d.owners : o <= owned /\ ~Held(o)}
Interrupted(d, row) ==
  row # None /\ row.ended = Open /\ (row.owner \in Recoverable(d) \/ (row.owner = 0 /\ row.at < Cut))
Recovered(d) ==
  [d EXCEPT !.owners = @ \ Recoverable(d),
            !.events = [id \in Ids |-> IF Interrupted(d, @[id]) THEN [@[id] EXCEPT !.ended = now, !.outcome = "cut"] ELSE @[id]],
            !.recovered = @ + Cardinality({id \in Ids : Interrupted(d, d.events[id])})]
\* compact: whole days that are over, closed rows only.
Old(row) == row # None /\ row.at < Cut /\ row.ended # Open
OldIn(d, b) == {id \in Ids : Old(d.events[id]) /\ Bucket(d.events[id].at) = b}
Folded(d) ==
  [d EXCEPT !.rolls = [b \in Buckets |->
                [calls |-> @[b].calls + Cardinality(OldIn(d, b)),
                 ok |-> @[b].ok + Cardinality({id \in OldIn(d, b) : d.events[id].outcome = "ok"}),
                 maxEnded |-> Max({@[b].maxEnded} \cup {d.events[id].ended : id \in OldIn(d, b)})]],
            !.events = [id \in Ids |-> IF Old(@[id]) THEN None ELSE @[id]]]
Compacted(d) == Folded(Recovered(d))

-----------------------------------------------------------------------------
(* Writers *)

\* writer: the lock file first, then the owner's row; the store keeps both.
Opened(p) == IF proc[p].owner # 0 THEN proc[p].owner ELSE owned + 1
WithOwner(p) == [db EXCEPT !.owners = @ \cup {Opened(p)}]
Opens(p) == /\ Opened(p) <= MaxOwners /\ owned' = Max({owned, Opened(p)})
Logged(d) == [id \in Ids |-> IF d.events[id] # None THEN d.events[id] ELSE log[id]]

\* What Begin has committed by the time it inserts a row: the owner, and the
\* maintenance that was due. Maintenance that fails is rolled back, but not the
\* lock files it removed before it failed.
Prepared(p, kept) == IF proc[p].due /\ kept THEN Compacted(WithOwner(p)) ELSE WithOwner(p)
Readies(p, kept, gone) ==
  /\ Opens(p) /\ files' = (files \cup {Opened(p)}) \ gone
  /\ IF ~proc[p].due THEN kept /\ gone = {} ELSE IF kept THEN gone = Recoverable(db) ELSE faults < MaxFaults
Begin(p) ==
  /\ proc[p].up /\ given < MaxCalls /\ given' = given + 1
  /\ \E kept \in BOOLEAN, gone \in SUBSET Recoverable(db) :
       LET row == Row(now, Opened(p)) IN
       /\ Readies(p, kept, gone)
       /\ db' = [Prepared(p, kept) EXCEPT !.events[given'] = row]
       /\ log' = [Logged(Prepared(p, kept)) EXCEPT ![given'] = row]
       /\ faults' = IF kept THEN faults ELSE faults + 1
  /\ proc' = [proc EXCEPT ![p].owner = Opened(p), ![p].due = FALSE]
  /\ calls' = [calls EXCEPT ![given'] = p]
  /\ UNCHANGED <<now, reader, pager>>
\* The store cannot be opened, or the insert fails after all that: the call goes
\* on, and is counted as dropped.
BeginFails(p) ==
  /\ proc[p].up /\ given < MaxCalls /\ given' = given + 1 /\ faults < MaxFaults /\ faults' = faults + 1
  /\ \/ proc[p].owner = 0 /\ proc' = [proc EXCEPT ![p].dropped = @ + 1] /\ UNCHANGED <<db, owned, files, log>>
     \/ \E kept \in BOOLEAN, gone \in SUBSET Recoverable(db) :
          /\ Readies(p, kept, gone) /\ db' = Prepared(p, kept) /\ log' = Logged(db')
          /\ proc' = [proc EXCEPT ![p].owner = Opened(p), ![p].due = FALSE, ![p].dropped = @ + 1]
  /\ calls' = [calls EXCEPT ![given'] = p]
  /\ UNCHANGED <<now, reader, pager>>

\* Finish: the row that is still there, whoever closed it meanwhile, and then
\* the drops of this process into meta.
Finish(id, outcome) ==
  LET p == calls[id]
      there == db.events[id] # None
      drops == proc[p].dropped + (IF there THEN 0 ELSE 1)
      row == [db.events[id] EXCEPT !.ended = now, !.outcome = outcome]
      d == [WithOwner(p) EXCEPT !.dropped = @ + drops] IN
  /\ p # None /\ Opens(p)
  /\ db' = IF there THEN [d EXCEPT !.events[id] = row] ELSE d
  /\ log' = IF there THEN [log EXCEPT ![id] = row] ELSE log
  /\ files' = files \cup {Opened(p)}
  /\ proc' = [proc EXCEPT ![p].owner = Opened(p), ![p].dropped = 0]
  /\ calls' = [calls EXCEPT ![id] = None]
  /\ UNCHANGED <<now, given, reader, pager, faults>>
\* The store cannot be opened, or the update fails; then the drops may still be told.
FinishFails(id) ==
  LET p == calls[id]
      drops == proc[p].dropped + 1 IN
  /\ p # None /\ faults < MaxFaults /\ faults' = faults + 1
  /\ \/ proc[p].owner = 0 /\ proc' = [proc EXCEPT ![p].dropped = drops] /\ UNCHANGED <<db, owned, files>>
     \/ /\ Opens(p) /\ files' = files \cup {Opened(p)}
        /\ \E told \in {0, drops} :
             /\ db' = [WithOwner(p) EXCEPT !.dropped = @ + told]
             /\ proc' = [proc EXCEPT ![p].owner = Opened(p), ![p].dropped = drops - told]
  /\ calls' = [calls EXCEPT ![id] = None]
  /\ UNCHANGED <<now, given, reader, pager, log>>

\* Close gives up the lock; a call under way opens the store again, as another owner.
Close(p) ==
  /\ proc[p].up /\ proc[p].owner # 0 /\ proc' = [proc EXCEPT ![p].owner = 0]
  /\ UNCHANGED <<now, db, calls, given, owned, files, reader, pager, faults, log>>
Kill(p) ==
  /\ proc[p].up /\ faults < MaxFaults /\ faults' = faults + 1 /\ proc' = [proc EXCEPT ![p] = Down]
  /\ calls' = [id \in Ids |-> IF calls[id] = p THEN None ELSE calls[id]]
  /\ UNCHANGED <<now, db, given, owned, files, reader, pager, log>>
Restart(p) ==
  /\ ~proc[p].up /\ owned < MaxOwners /\ proc' = [proc EXCEPT ![p].up = TRUE]
  /\ UNCHANGED <<now, db, calls, given, owned, files, reader, pager, faults, log>>
Tick ==
  /\ now < MaxNow /\ now' = now + 1 /\ proc' = [p \in Procs |-> [proc[p] EXCEPT !.due = TRUE]]
  /\ UNCHANGED <<db, calls, given, owned, files, reader, pager, faults, log>>

-----------------------------------------------------------------------------
(* Readers *)

\* deadOwners: of the owners of open rows, those whose lock can be shared; one
\* whose lock file is gone is passed over.
Look ==
  /\ reader = None /\ pager = None
  /\ reader' = {o \in 1 .. owned : ~Alive(o) /\ o \in files
                                    /\ \E id \in Events : db.events[id].owner = o /\ db.events[id].ended = Open}
  /\ UNCHANGED <<now, db, proc, calls, given, owned, files, pager, faults, log>>
Answered == reader # None /\ reader' = None
            /\ UNCHANGED <<now, db, proc, calls, given, owned, files, pager, faults, log>>

\* Read: the rows of the interval, complete when closed by its end or when
\* their owner is dead, and the days that lie in it whole.
In(row, since, until) == row.at >= since /\ row.at <= until
Shown(since, until) == {id \in Events : In(db.events[id], since, until)}
Complete(id, until) ==
  LET row == db.events[id] IN (row.ended # Open /\ row.ended <= until) \/ (row.ended = Open /\ row.owner \in reader)
Touched(since, until) == {b \in Buckets : db.rolls[b].calls > 0 /\ b + Day > since /\ b <= until}
OmitPartDays(b, since, until) == b < since \/ b + Day > until
Omit(b, since, until) == b < since \/ b + Day > until \/ db.rolls[b].maxEnded > until
Used(since, until) == {b \in Touched(since, until) : ~Omit(b, since, until)}
Rolled(days) == SumFunctionOnSet([b \in Buckets |-> db.rolls[b].calls], days)
RolledOKs(days) == SumFunctionOnSet([b \in Buckets |-> db.rolls[b].ok], days)
Calls(since, until) ==
  Cardinality({id \in Shown(since, until) : Complete(id, until)}) + Rolled(Used(since, until))
OKs(since, until) ==
  Cardinality({id \in Shown(since, until) : Complete(id, until) /\ db.events[id].outcome = "ok"})
    + RolledOKs(Used(since, until))
Active(since, until) == Cardinality({id \in Shown(since, until) : ~Complete(id, until)})
Partial(since, until) ==
  \/ Used(since, until) # Touched(since, until)
  \/ db.dropped > 0 \/ db.recovered > 0
  \/ \E id \in Shown(since, until) : db.events[id].ended = Open /\ db.events[id].owner \in reader

\* Context: the same with an open end, and without the calls that ended after
\* it, but for those of owners found dead.
Within(since, until) == {b \in Buckets : db.rolls[b].calls > 0 /\ b >= since /\ b + Day <= until}
Across(since, until) == {b \in Buckets : /\ db.rolls[b].calls > 0 /\ b + Day > since /\ b < until
                                         /\ (b >= since => b + Day > until)}
Dated(since, until) == {b \in Within(since, until) : db.rolls[b].maxEnded < until}
Asked(since, until) == {id \in Events : db.events[id].at >= since /\ db.events[id].at < until}
Ended(id, until) == LET row == db.events[id] IN (row.ended # Open /\ row.ended < until) \/ row.owner \in reader
Requests(since, until) ==
  Cardinality({id \in Asked(since, until) : Ended(id, until)}) + Rolled(Dated(since, until))
ActiveRequests(since, until) ==
  Cardinality({id \in Asked(since, until) : db.events[id].ended = Open /\ db.events[id].owner \notin reader})
ContextPartial(since, until) ==
  \/ Across(since, until) # {} \/ Dated(since, until) # Within(since, until)
  \/ db.dropped > 0
  \/ \E id \in Asked(since, until) : \/ db.events[id].ended = Open /\ db.events[id].owner \in reader
                                     \/ db.events[id].outcome = "cut"

\* Errors: one failure to a page, newest first; the cursor keeps the interval. A
\* walk that finds nothing is over at once.
Failures(until) == {id \in Events : /\ db.events[id].outcome \in {"fail", "cut"}
                                    /\ db.events[id].at <= until /\ db.events[id].ended <= until}
Before(x, at, id) == db.events[x].at < at \/ (db.events[x].at = at /\ x < id)
NextPage ==
  LET w == IF pager = None THEN [until |-> now, at |-> MaxNow + 1, id |-> 0, seen |-> {}, due |-> Failures(now), more |-> TRUE] ELSE pager
      left == {x \in Failures(w.until) : Before(x, w.at, w.id)} IN
  /\ reader = None /\ w.more /\ w.due # {}
  /\ IF left = {}
       THEN pager' = [w EXCEPT !.more = FALSE]
       ELSE LET x == CHOOSE x \in left : \A y \in left \ {x} : Before(y, db.events[x].at, x) IN
            pager' = [w EXCEPT !.at = db.events[x].at, !.id = x, !.seen = @ \cup {x}]
  /\ UNCHANGED <<now, db, proc, calls, given, owned, files, reader, faults, log>>
Paged == /\ pager # None /\ ~pager.more /\ pager' = None
         /\ UNCHANGED <<now, db, proc, calls, given, owned, files, reader, faults, log>>

Next ==
  \/ Tick \/ Look \/ Answered \/ NextPage \/ Paged
  \/ \E p \in Procs : Begin(p) \/ BeginFails(p) \/ Close(p) \/ Kill(p) \/ Restart(p)
  \/ \E id \in Ids : FinishFails(id) \/ \E outcome \in {"ok", "fail"} : Finish(id, outcome)
Spec == Init /\ [][Next]_vars

-----------------------------------------------------------------------------
Kept == {id \in Ids : log[id] # None}
\* No recorded call is lost or counted twice, folded or not.
AllCounted == Cardinality(Events) + Rolled(Buckets) = Cardinality(Kept)
\* A call whose process holds its owner's lock is never called interrupted.
TheLivingAreNotBuried ==
  /\ \A id \in Events : db.events[id].outcome = "cut" => ~Alive(db.events[id].owner)
  /\ reader # None => \A o \in reader : ~Alive(o)
\* An answer that is not marked partial is the truth about its interval, of the
\* calls as they were recorded: a drop its process has not told the file yet is
\* no part of it, and once one was told nothing is claimed of any answer.
AnswersAreTrue ==
  reader # None /\ db.dropped = 0 => \A since, until \in 0 .. now : since <= until =>
    LET had == {id \in Kept : In(log[id], since, until)}
        before == {id \in Kept : log[id].at >= since /\ log[id].at < until} IN
    /\ ~Partial(since, until) =>
         /\ Calls(since, until) + Active(since, until) = Cardinality(had)
         /\ OKs(since, until) = Cardinality({id \in had : log[id].outcome = "ok" /\ log[id].ended <= until})
    /\ ~ContextPartial(since, until) =>
         Requests(since, until) + ActiveRequests(since, until)
           = Cardinality({id \in before : log[id].ended = Open \/ log[id].ended < until \/ log[id].owner \in reader})
\* A walk that is over has shown every failure that was there when it began
\* and is still kept in detail.
PagesAreWhole == pager # None /\ ~pager.more => pager.due \cap Failures(pager.until) \subseteq pager.seen
\* What the statistics say of the calls is what happened to them.
StatsAreHonest == AllCounted /\ TheLivingAreNotBuried /\ AnswersAreTrue /\ PagesAreWhole
=============================================================================
