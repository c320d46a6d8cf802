--------------------------- MODULE MetricsLadder ---------------------------
(***************************************************************************)
(* internal/metrics: the retention ladder on the one database that several *)
(* Ateneas share.  An attempt is written to the measurement table, counted *)
(* into its hour once that hour is closed, and the counts climb from hours *)
(* to days, weeks and months as they age.  CompactIfDue does all of it in  *)
(* one transaction; Clear empties both tables, one statement at a time.    *)
(*                                                                         *)
(* Time is counted in ticks.  A rollup row keeps, where the code keeps the *)
(* sum of attempts, how often each attempt was counted into it: every      *)
(* summed column is the image of that bag.  DuckDB and the lease in front  *)
(* of it are external: one process holds the file at a time, and what its  *)
(* transaction did is visible at commit or never.                          *)
(***************************************************************************)
EXTENDS Integers, FiniteSets, FiniteSetsExt

CONSTANTS
    Ateneas,     \* the processes that share the database
    RowKeys,     \* capability, implementation, repository and tool version
    MaxAttempts, \* bound on the number of attempts
    Times,       \* the instants at which something happens
    Span,        \* how many ticks an hour, a day, a week and a month last
    Retention,   \* Store.retention
    Every,       \* the settings' interval between passes
    NoAtenea     \* stands for no process

Grains == {"hour", "day", "week", "month"}

ASSUME AttemptAssumption == MaxAttempts \in Nat \ {0}
ASSUME TimesAssumption == Times \subseteq Nat /\ IsFiniteSet(Times) /\ Times # {}
ASSUME SpanAssumption ==
    /\ Span \in [Grains -> Nat \ {0}]
    /\ Span["day"] % Span["hour"] = 0
    /\ Span["week"] % Span["day"] = 0
    /\ Span["month"] % Span["day"] = 0
ASSUME RetentionAssumption ==
    /\ Retention \in [{"attempts", "hour", "day", "week"} -> Nat]
    /\ Every \in Nat \ {0}
ASSUME NoAteneaAssumption == NoAtenea \notin Ateneas

Ids == 1 .. MaxAttempts
Never == -1

VARIABLES
    now,       \* the wall clock
    attempted, \* how many attempts were ever recorded
    buffer,    \* each process's buffered attempts
    db,        \* the committed tables: measurement, rollup and maintenance
    holder,    \* the process that holds the database file
    tx,        \* what its open transaction has made of the tables
    stage,     \* where each process's call is
    call,      \* the now it passed, or the key its filter names
    wrote,     \* every attempt that ever reached the disk
    named      \* the ids of those a Clear was asked to remove

ladderVars == <<now, attempted, buffer, db, holder, tx, stage, call, wrote, named>>
ghosts == <<wrote, named>>

Stages == {"idle", "compacting", "flushed", "begun", "due", "counted", "marked",
           "hours", "days", "weeks", "climbed", "stamped",
           "clearing", "attempts", "rollups"}

Empty == [measurement |-> {}, rollup |-> {}, lastRun |-> Never]

LadderInit ==
    /\ now = Min(Times)
    /\ attempted = 0
    /\ buffer = [p \in Ateneas |-> {}]
    /\ db = Empty
    /\ holder = NoAtenea
    /\ tx = Empty
    /\ stage = [p \in Ateneas |-> "idle"]
    /\ call = [p \in Ateneas |-> Never]
    /\ wrote = {}
    /\ named = {}

-----------------------------------------------------------------------------
(* The tables.                                                             *)

(* date_trunc.                                                             *)
Trunc(grain, t) == t - (t % Span[grain])

(* The rows of one bucket and one key are one rollup row: its columns are  *)
(* the sums and the maxima of theirs.                                      *)
Same(x, y) == <<x.grain, x.bucket, x.key>> = <<y.grain, y.bucket, y.key>>

Fold(grain, bucket, key, group) ==
    [grain |-> grain, bucket |-> bucket, key |-> key,
     attempts |-> [i \in Ids |-> MapThenSumSet(LAMBDA x : x.attempts[i], group)],
     lastSeen |-> Max({x.lastSeen : x \in group})]

(* Mutant: the fold is inserted without looking for its bucket.            *)
MergeAppending(table, fresh) == table \cup fresh

(* Mutant: the newest fold's last_seen wins.                               *)
MergeLatestWrite(table, fresh) ==
    {x \in table : ~\E y \in fresh : Same(x, y)} \cup
    {[Fold(y.grain, y.bucket, y.key, {y} \cup {x \in table : Same(x, y)})
        EXCEPT !.lastSeen = y.lastSeen] : y \in fresh}

(* mergeRollup: on a bucket that already exists counts add and maxima take *)
(* the larger.                                                             *)
Merge(table, fresh) ==
    {x \in table : ~\E y \in fresh : Same(x, y)} \cup
    {Fold(y.grain, y.bucket, y.key, {y} \cup {x \in table : Same(x, y)}) :
        y \in fresh}

(* GROUP BY date_trunc(grain, bucket) and the key.                         *)
Grouped(grain, parts) ==
    LET place(x) == <<Trunc(grain, x.bucket), x.key>>
    IN  {Fold(grain, g[1], g[2], {x \in parts : place(x) = g}) :
            g \in {place(x) : x \in parts}}

(* One attempt, as a rollup that counts nothing else.                      *)
Alone(m) == [grain |-> "attempt", bucket |-> m.at, key |-> m.key, id |-> m.id,
             attempts |-> [i \in Ids |-> IF i = m.id THEN 1 ELSE 0],
             lastSeen |-> m.at]

(* WHERE NOT folded AND happened_at < before.                              *)
Unfolded(d, before) == {m \in d.measurement : ~m.folded /\ m.at < before}

(* foldAttempts.                                                           *)
FoldAttempts(d, closed) ==
    [d EXCEPT !.rollup =
        Merge(@, Grouped("hour", {Alone(m) : m \in Unfolded(d, closed)}))]

(* UPDATE measurement SET folded = TRUE.                                   *)
MarkFolded(d, closed) ==
    [d EXCEPT !.measurement =
        {IF m \in Unfolded(d, closed) THEN [m EXCEPT !.folded = TRUE] ELSE m :
            m \in @}]

(* Mutant: an attempt goes as soon as its hour has it.                     *)
PruneAtOnce(d, before) ==
    [d EXCEPT !.measurement = {m \in @ : ~m.folded}]

(* DELETE FROM measurement WHERE folded AND happened_at < before.          *)
PruneAttempts(d, before) ==
    [d EXCEPT !.measurement = {m \in @ : ~(m.folded /\ m.at < before)}]

(* Mutant: the rows just merged upwards stay where they were.              *)
PromoteKeeping(d, from, to, before) ==
    LET old == {x \in d.rollup : x.grain = from /\ x.bucket < before}
    IN  [d EXCEPT !.rollup = Merge(@, Grouped(to, old))]

(* promote: merge upwards, then delete what was merged.                    *)
Promote(d, from, to, before) ==
    LET old == {x \in d.rollup : x.grain = from /\ x.bucket < before}
    IN  [d EXCEPT !.rollup = Merge(@, Grouped(to, old)) \ old]

-----------------------------------------------------------------------------
(* The world outside a pass.                                               *)

Tick ==
    /\ \E t \in Times : t > now /\ now' = t
    /\ UNCHANGED <<attempted, buffer, db, holder, tx, stage, call, ghosts>>

(* Record, in one of the processes.                                        *)
RecordAttempt(p, key) ==
    /\ attempted < MaxAttempts
    /\ attempted' = attempted + 1
    /\ buffer' = [buffer EXCEPT ![p] =
                    @ \cup {[id |-> attempted + 1, at |-> now, key |-> key]}]
    /\ UNCHANGED <<now, db, holder, tx, stage, call, ghosts>>

(* CompactIfDue is called with the time of the call.  Everything it waits  *)
(* for comes after.                                                        *)
CompactIfDue(p) ==
    /\ stage[p] = "idle"
    /\ stage' = [stage EXCEPT ![p] = "compacting"]
    /\ call' = [call EXCEPT ![p] = now]
    /\ UNCHANGED <<now, attempted, buffer, db, holder, tx, ghosts>>

(* Store.Flush: one connection, one transaction.  Its steps are those of   *)
(* module MetricsStore; here it is the moment of its commit.               *)
Written(p) ==
    /\ buffer[p] # {} => holder = NoAtenea
    /\ db' = [db EXCEPT !.measurement = @ \cup
                {[id |-> m.id, at |-> m.at, key |-> m.key, folded |-> FALSE] :
                    m \in buffer[p]}]
    /\ wrote' = wrote \cup buffer[p]
    /\ buffer' = [buffer EXCEPT ![p] = {}]
    /\ UNCHANGED <<now, attempted, holder, tx, call, named>>

(* The beat that flushes.                                                  *)
Beat(p) ==
    /\ stage[p] = "idle"
    /\ buffer[p] # {}
    /\ Written(p)
    /\ UNCHANGED stage

(* compact flushes before it reshapes.                                     *)
Flush(p) ==
    /\ stage[p] = "compacting"
    /\ Written(p)
    /\ stage' = [stage EXCEPT ![p] = "flushed"]

(* connect, and BeginTx.                                                   *)
Begin(p) ==
    /\ stage[p] = "flushed"
    /\ holder = NoAtenea
    /\ holder' = p
    /\ tx' = db
    /\ stage' = [stage EXCEPT ![p] = "begun"]
    /\ UNCHANGED <<now, attempted, buffer, db, call, ghosts>>

Release(p) ==
    /\ holder' = NoAtenea
    /\ tx' = Empty
    /\ stage' = [stage EXCEPT ![p] = "idle"]
    /\ call' = [call EXCEPT ![p] = Never]

(* One statement of the transaction.                                       *)
Statement(p, from, to, d) ==
    /\ stage[p] = from
    /\ holder = p
    /\ tx' = d
    /\ stage' = [stage EXCEPT ![p] = to]
    /\ UNCHANGED <<now, attempted, buffer, db, holder, call, ghosts>>

(* Mutant: any earlier pass makes the next one due.                        *)
IsDueAlways(d, t) == TRUE

(* isDue: never run on this database, or at least Every since.             *)
IsDue(d, t) == d.lastRun = Never \/ t >= d.lastRun + Every

Due(p) == Statement(p, "begun", "due", tx) /\ IsDue(tx, call[p])

NotDue(p) ==
    /\ stage[p] = "begun"
    /\ holder = p
    /\ ~IsDue(tx, call[p])
    /\ Release(p)
    /\ UNCHANGED <<now, attempted, buffer, db, ghosts>>

(* Mutant: the hour still in progress is folded too.                       *)
ClosedHourOpen(p) == call[p] + 1

(* closedHour.                                                             *)
ClosedHour(p) == Trunc("hour", call[p])

Count(p) == Statement(p, "due", "counted", FoldAttempts(tx, ClosedHour(p)))
MarkRows(p) == Statement(p, "counted", "marked", MarkFolded(tx, ClosedHour(p)))
Prune(p) ==
    Statement(p, "marked", "hours",
              PruneAttempts(tx, call[p] - Retention["attempts"]))

(* Mutant: the coarsest rung is walked first.                              *)
LadderBackwards(p) ==
    \/ Statement(p, "hours", "days",
                 Promote(tx, "week", "month", call[p] - Retention["week"]))
    \/ Statement(p, "days", "weeks",
                 Promote(tx, "day", "week", call[p] - Retention["day"]))
    \/ Statement(p, "weeks", "climbed",
                 Promote(tx, "hour", "day", call[p] - Retention["hour"]))

(* The ladder, finest rung first.                                          *)
Ladder(p) ==
    \/ Statement(p, "hours", "days",
                 Promote(tx, "hour", "day", call[p] - Retention["hour"]))
    \/ Statement(p, "days", "weeks",
                 Promote(tx, "day", "week", call[p] - Retention["day"]))
    \/ Statement(p, "weeks", "climbed",
                 Promote(tx, "week", "month", call[p] - Retention["week"]))

Stamp(p) == Statement(p, "climbed", "stamped", [tx EXCEPT !.lastRun = call[p]])

Commit(p) ==
    /\ stage[p] = "stamped"
    /\ holder = p
    /\ db' = tx
    /\ Release(p)
    /\ UNCHANGED <<now, attempted, buffer, ghosts>>

-----------------------------------------------------------------------------
(* Clear.                                                                  *)

(* Clear narrowed to one key: connect.                                     *)
Clear(p, key) ==
    /\ stage[p] = "idle"
    /\ holder = NoAtenea
    /\ holder' = p
    /\ call' = [call EXCEPT ![p] = key]
    /\ stage' = [stage EXCEPT ![p] = "clearing"]
    /\ UNCHANGED <<now, attempted, buffer, db, tx, ghosts>>

(* DELETE FROM measurement, a transaction of its own.                      *)
ClearMeasurements(p) ==
    /\ stage[p] = "clearing"
    /\ db' = [db EXCEPT !.measurement = {m \in @ : m.key # call[p]}]
    /\ named' = named \cup {m.id : m \in {w \in wrote : w.key = call[p]}}
    /\ stage' = [stage EXCEPT ![p] = "attempts"]
    /\ UNCHANGED <<now, attempted, buffer, holder, tx, call, wrote>>

(* DELETE FROM rollup, another one.                                        *)
ClearRollups(p) ==
    /\ stage[p] = "attempts"
    /\ db' = [db EXCEPT !.rollup = {x \in @ : x.key # call[p]}]
    /\ stage' = [stage EXCEPT ![p] = "rollups"]
    /\ UNCHANGED <<now, attempted, buffer, holder, tx, call, ghosts>>

(* clearBuffer, and the connection goes back.                              *)
ClearBuffered(p) ==
    /\ stage[p] = "rollups"
    /\ buffer' = [buffer EXCEPT ![p] = {m \in @ : m.key # call[p]}]
    /\ Release(p)
    /\ UNCHANGED <<now, attempted, db, ghosts>>

-----------------------------------------------------------------------------
(* What goes wrong.                                                        *)

Holds(p) == stage[p] \notin {"idle", "compacting", "flushed"}

(* Mutant: an error path forgets to close the connection.                  *)
FailHolding(p) ==
    /\ stage[p] # "idle"
    /\ stage' = [stage EXCEPT ![p] = "idle"]
    /\ call' = [call EXCEPT ![p] = Never]
    /\ UNCHANGED <<now, attempted, buffer, db, holder, tx, ghosts>>

(* A call returns an error: the lease ran out, a statement or the commit   *)
(* failed, the context ended.  The deferred Rollback drops the transaction.*)
Fail(p) ==
    /\ stage[p] # "idle"
    /\ IF Holds(p) THEN holder' = NoAtenea /\ tx' = Empty ELSE UNCHANGED <<holder, tx>>
    /\ stage' = [stage EXCEPT ![p] = "idle"]
    /\ call' = [call EXCEPT ![p] = Never]
    /\ UNCHANGED <<now, attempted, buffer, db, ghosts>>

(* The process dies and another one takes its place.                       *)
Crash(p) ==
    /\ stage[p] # "idle" \/ buffer[p] # {}
    /\ IF Holds(p) THEN holder' = NoAtenea /\ tx' = Empty ELSE UNCHANGED <<holder, tx>>
    /\ buffer' = [buffer EXCEPT ![p] = {}]
    /\ stage' = [stage EXCEPT ![p] = "idle"]
    /\ call' = [call EXCEPT ![p] = Never]
    /\ UNCHANGED <<now, attempted, db, ghosts>>

Compact(p) ==
    CompactIfDue(p) \/ Flush(p) \/ Begin(p) \/ Due(p) \/ NotDue(p) \/ Count(p)
    \/ MarkRows(p) \/ Prune(p) \/ Ladder(p) \/ Stamp(p) \/ Commit(p)

LadderNext ==
    \/ Tick
    \/ \E p \in Ateneas :
        \/ \E key \in RowKeys : RecordAttempt(p, key) \/ Clear(p, key)
        \/ Beat(p) \/ Compact(p)
        \/ ClearMeasurements(p) \/ ClearRollups(p) \/ ClearBuffered(p)
        \/ Fail(p) \/ Crash(p)

LadderSpec == LadderInit /\ [][LadderNext]_ladderVars

-----------------------------------------------------------------------------
(* What the ladder promises.                                               *)

Attempt == [id : Ids, at : Times, key : RowKeys]
Rollups == [grain : Grains, bucket : Nat, key : RowKeys,
            attempts : [Ids -> Nat], lastSeen : Times]

(* The state keeps its shape, and only the process that holds the file has *)
(* a transaction or a Clear under way.                                     *)
LadderTypeOK ==
    /\ now \in Times /\ attempted \in 0 .. MaxAttempts
    /\ buffer \in [Ateneas -> SUBSET Attempt]
    /\ \A d \in {db, tx} :
        /\ \A m \in d.measurement : m.id \in Ids /\ m.folded \in BOOLEAN
        /\ d.rollup \subseteq Rollups
        /\ d.lastRun \in Times \cup {Never}
    /\ stage \in [Ateneas -> Stages]
    /\ call \in [Ateneas -> Times \cup RowKeys \cup {Never}]
    /\ wrote \subseteq Attempt /\ named \subseteq Ids
    /\ \A p \in Ateneas : Holds(p) <=> holder = p

(* How often the readers' union of unfolded attempts and rollups counts    *)
(* one attempt (summarize in summary.go, and the same union in the other   *)
(* readers).                                                               *)
Counted(d, id) ==
    Cardinality({m \in d.measurement : m.id = id /\ ~m.folded})
    + MapThenSumSet(LAMBDA x : x.attempts[id], d.rollup)

(* Whatever crashes or fails, and whichever process compacts, an attempt   *)
(* that reached the disk is counted exactly once, and one that a Clear was *)
(* asked to remove at most once.                                           *)
CountedOnce ==
    \A w \in wrote :
        /\ Counted(db, w.id) <= 1
        /\ w.id \notin named => Counted(db, w.id) = 1

(* There is one rollup row per bucket and key, so the upsert's conflict    *)
(* target is the identity of a row and no reader sees a bucket twice.      *)
OneRowPerBucket == \A x, y \in db.rollup : Same(x, y) => x = y

(* last_seen survives the whole ladder: it is the instant of the newest    *)
(* attempt the row counts, which is what decides the version running now.  *)
LastSeenIsNewest ==
    \A x \in db.rollup :
        x.lastSeen = Max({w.at : w \in {v \in wrote : x.attempts[v.id] > 0}})

(* A reader that keeps the buckets from `since` on reports nothing         *)
(* measured before it; and only periods that were closed when the last     *)
(* pass began are summarized.                                              *)
BucketsHoldTheirOwn ==
    \A x \in db.rollup : \A w \in wrote :
        x.attempts[w.id] > 0 =>
            /\ x.key = w.key
            /\ x.bucket <= w.at
            /\ x.grain # "month" => w.at < x.bucket + Span[x.grain]
            /\ w.at < Trunc("hour", db.lastRun)

(* A committed pass leaves nothing on a rung it has outlived.              *)
LadderWalked ==
    \A x \in db.rollup :
        x.grain # "month" => x.bucket >= db.lastRun - Retention[x.grain]

(* The attempt itself, with its failure's reason, is there to read for the *)
(* whole of the fine window.                                               *)
DetailKept ==
    \A w \in wrote :
        \/ w.id \in named
        \/ \E m \in db.measurement : m.id = w.id
        \/ db.lastRun # Never /\ w.at < db.lastRun - Retention["attempts"]

(* Every row of the ladder is right: one per bucket, holding its own, with *)
(* the newest instant; no rung outlived; detail kept for its window        *)
(* (mergeRollup, foldAttempts, promoteRollup, pruneAttempts).              *)
RowsAreRight == OneRowPerBucket /\ LastSeenIsNewest /\ BucketsHoldTheirOwn /\ LadderWalked /\ DetailKept

(* The ladder is right after every step, and walked no more often than it  *)
(* was told to be: the mark is read and written in the transaction that    *)
(* does the work, so that of two Ateneas that start together only one      *)
(* passes, and committed passes are at least Every apart by the clock each *)
(* was called with (CompactIfDue).                                         *)
LadderHolds ==
    [][/\ RowsAreRight'
       /\ db'.lastRun # db.lastRun =>
            db.lastRun = Never \/ db'.lastRun >= db.lastRun + Every]_ladderVars
=============================================================================
