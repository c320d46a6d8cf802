# Atenea: a TLA+ verification development

Atenea is a local core that sits between agents (a command line, MCP clients,
a desktop application) and the programs that can answer them. A client states a
goal against a *capability*; the core finds the *implementations* of that
capability, picks one through a funnel of evidence, runs it (starting a managed
server if it needs one), and returns an answer with a receipt. Each call is
measured, and the measurements feed the next choice.

The Go code is under `src/`. This directory models the parts of it in which
order, failure and concurrency decide whether the program is correct. Every
definition names the lines it stands for in `PROJECT.json` (`map`).

1. [Inventory](#1-inventory)
2. [Modules and their code](#2-modules-and-their-code)
3. [Runs](#3-runs)
4. [Fairness](#4-fairness)
5. [Proofs](#5-proofs)
6. [Where the code and its words disagree](#6-where-the-code-and-its-words-disagree)
7. [What is not modelled](#7-what-is-not-modelled)
8. [Plan](#8-plan)

## 1. Inventory

### How a question travels

```
 client --socket--> core.accept/answer --> Session.Ask --> Core.enter
                                                              |
                                              orchestrator.Ask/dispatch/runWave
                                                              |
        registry.Observed + metrics.Baselines + quality --> selector.Select
                                                              |
   cachedRunner (resultcache) --> guardedRunner (supervisor) --> adapter/child
                                                              |
           registry.SetHealth, selector.RecordOutcome, metrics.Record,
                          checkpoint.Save, observability, toolstats
```

Maintenance runs beside it: one clock goroutine per process sweeps its lane
(flush, compact, prune, backup), and only the process that holds the upkeep
claim (`pidlock`) ticks. `Core.Shutdown` ends all of it.

### Components

| Component | State it keeps | Operations | What is hard | What makes it correct |
|---|---|---|---|---|
| `internal/supervisor` | per server: state, attempts, in-flight count, stopping latch, stop channel, child | ensureReady, acquire, release, run/spawnOnce, reaper, WarmUp, Stop | five kinds of goroutine on one mutex; a child that dies, hangs or outlives SIGKILL; restarts with a budget | one activation at a time; the budget is never overspent; nothing is started or serving after Stop; callers and Stop are answered |
| `internal/resultcache`, `core/result_cache.go` | LRU list, byte count, flights | Get, Put, DoIfState; cachedRunner.Run | the provider rotates between the probe, the read and the publication; coalesced callers; expiry and eviction | an answer is never older than what its caller observed; one load per key; limits hold |
| `internal/metrics` store | ring, dropped, written, sealed, table | Record, Flush, Clear, Seal; `core.flushLast` | records arrive while a batch is being written; writes fail; two locks; a bounded ring | no row is lost without a trace; order; `nil` means durable; the last flush ends |
| `internal/metrics` ladder | measurement, rollup, maintenance tables | CompactIfDue, Clear | several processes on one file; crash or failure at any statement | every attempt is counted exactly once at every moment; passes are spaced |
| `internal/core` lifetime | stopping, conns, inflight, sessions, stopErr | enter, register, accept, Open, Close, Run, Shutdown, settle | work that slips in behind a stop; two callers of Shutdown; work that overruns | a clean stop is quiet; every caller gets the same answer; nothing ticks after the claim is back |
| `internal/clock`, `internal/pidlock` | lane mutex, due times; claim | Start, tick, sweep, Do, Stop; claim, release | a job in progress while Stop waits | no job outlives the claim |
| `internal/selector` | rules, quality ledger | Select, RecordOutcome | a comparator of several criteria must be an order | nobody who goes before the chosen one is left out |
| `internal/orchestrator` | plan, waves, purse, receipts | Ask, dispatch, runWave, runStep | steps in parallel that share money and evidence | interrupted calls teach nothing; the budget is not overspent |
| `internal/registry` | catalog, observed health | SetHealth, Observed | a verdict read before a call and overwritten after it | settings are not overruled by history |
| `internal/metrics` baselines | counts, streaks, windows | Baselines, Health, Reconcile, Apply | windows that lapse, several writers | a condemned implementation comes back |
| `internal/checkpoint` | run files, temporary files, run lock | Save, Load, Prune, Lock, Recover | a crash between write, sync and rename; a command beside the service | a receipt that Save confirmed is read back whole; recovery and retention take nothing that is in use |
| `internal/notebook` | two pages, a read mark | Record, rotate, Clear, Unread | several goroutines and processes that append without a lock, a line cut short, a rotation between reading and marking | an incident that was recorded can be read |
| `orchestrator` dispatch | waves, purse, receipts, verdict | Ask, dispatch, runWave, close | parallel steps that share a purse; a Save that fails in the middle | no step before what it needs; the purse; OK only for what was carried out |
| `internal/passthrough` | per backend: process, catalogue, leases, single flight | ensure, list, call, invalidate, Close | a mutex held through a handshake; a child that dies, stalls or answers late | no orphans; a catalogue belongs to the process it came from; a call runs at most once; everybody returns |
| `internal/mcpstdio` | pending requests, both gates, death | initialize, rpc, route, markDead, Close | late and unknown answers, a peer that dies with requests pending | an answer reaches its request; nobody stays blocked |
| `core` sessions, grants, device ownership | chats, grants, floors, taint, device owners | initialize, tools/list, tools/call, reserve, release, forget | connections and modern requests that use one device under two names | a chat never exceeds its grant, and flows do not meet |
| `adapter/claudecode`, `adapter/codex` | one child, price, permission | start, events, observer, end | the child ends, overspends or talks nonsense in any order | what was spent is told, however the call ended |
| `runner/local`, `adapter/omp`, `agent/readscope` | walk, open descriptors, children | scopes, openNoFollow, search, report | the tree is relinked while it is read | a file is read only where it is, and a cut search says so |
| `codex/appserver.go`, `codexcert/identity.go` | pending calls, turns, wake-ups | call, WaitTurn, identity gate | notifications before, between and after answers | what is certified was said by the server |
| `adapter/android` | frames, generations, selection, mirrors | look, input, select, mirror | the screen and the set of devices change between a look and an input; an input or a kill that fails half-way | an input lands on what its caller saw; what was started can be ended, or the caller is told |
| `internal/backup` | snapshots, restore slots | Run, rotate, restore, replace, promote, discard | kills and power cuts between every two system calls; a clock set back | the copies kept are whole, enough of them stay, the program's own state is never lost |
| `internal/toolstats` | rows, daily sums, owners' locks | Start, Finish, recover, compact, Read, Context, Errors | several processes, one of which is dead | each call counts once; nobody alive is closed as interrupted |
| `internal/mcpactivation`, `cmd/atenea/mcp_proposal.go` | proposals, settings file | propose, activate, append | two commands and a person edit one file | only what was authorized is declared |
| `internal/config` | the settings, the repository's overlay | Load, parse, build, applyLocal, core.New's checks | zeros, duplicates, missing sections; two files merged | what is built can be run, and an overlay stays in its repository |
| `internal/observability` | ring, channels, numbers | Publish, Subscribe, Cancel, Close | full channels, a closed hub, a restart | a subscriber has no gap |
| `selector` quality ledger | rows on disk, book, pending | Observe, Record, persist, load | a write that fails after the merge; two processes | each observation counts once |
| `internal/mcpprobe`, `core/backendstate.go` | readings in memory and on disk | sweep, probe, note, save | a slow sweep against newer evidence from calls | a reading was earned, and names a protocol its server speaks |

All components, modelled or not, are in `PROJECT.json` (`components`); the
places where the code is hard to test are listed there, by line, in `hazards`.

## 2. Modules and their code

| Module | Code | Notes |
|---|---|---|
| `Supervisor` | `supervisor/supervisor.go`, `supervisor/process.go`, `core/guard.go` | A step is one critical section of `p.mu` or one branch of a `select`. `run` is the program counter of the run goroutine, `child` the process it owns, `call` a `guardedRunner.Run`, `warm` the warm-up goroutines, `stopPc`/`stopOf` the progress of `Stop`. |
| `FreshReads` | (abstract) | What a cache may promise: a read fails, or answers from a generation current between the caller's observation and its return. |
| `ResultCache` | `resultcache/cache.go`, `core/result_cache.go` | `lru` is list and index at once, most recent first; a key is a request with the generation observed. Instantiates `FreshReads`. |
| `MetricsStore` | `metrics/metrics.go`, `metrics/clear.go`, `core.flushLast` | The ring is kept as it is in the code (`buf`, `head`, `count`, `dropped`), because its wrap-around is where rows could go missing. |
| `MetricsLadder` | `metrics/compact.go`, `clear.go`, `summary.go` | One action per SQL statement of a pass, in a transaction `tx` that is committed whole or not at all. A rollup keeps how often each attempt is counted in it. |
| `CoreLifecycle` | `core/core.go`, `core/socket.go`, `core/session.go`, `clock/clock.go` | A WaitGroup is the set of those who called `Add` and not yet `Done`. |
| `Funnel` | `selector/selector.go`, `contract/implementation.go` | Pure operators: the filters, each comparison of the ranking, the insertion sort that `slices.SortFunc` is on so few elements, and the choice. |
| `Selection` | `orchestrator.runStep`, `registry`, `metrics/baseline.go` | The funnel inside one step of the orchestrator, several questions at once, with the evidence each adds. Extends `Funnel`. |
| `Checkpoint` | `checkpoint/checkpoint.go`, `recover.go` | `Save` call by call (create, write, sync, rename, sync the directory), recovery, retention; a kill between any two, a power cut that takes what was not synced. |
| `Dispatch` | `orchestrator.go` without `runStep` | Extends `Checkpoint`: the waves of a plan, the purse, blocking, a `Save` after each step, the verdict. What one step does is the subject of `Selection` and a free choice here. |
| `Notebook` | `notebook/*.go`, `core.fileRawReceipt` | Any number of recorders at once, of any process: each looks at the size, rotates, opens, looks at the end of its page and writes in steps of their own. A page keeps its number when its name goes to another; a line is what was written into it, cut short or whole. |
| `StdioSession` | `mcpstdio/*.go` | Both gates (initialize and the pipe), the table of pending requests, both protocol generations, the reader. The child is external. |
| `Passthrough` | `passthrough/*.go` | Callers as program counters; the backend's mutex is a variable, because it is held through the handshake. |
| `Chats` | `core/mcp.go`, `session.go`, device ownership, the screen rule | One action per method a connection may send, on legacy connections and in modern requests. |
| `Delegate` | `adapter/claudecode`, `adapter/codex`, the commission's observer | One call from start to outcome; the client is a child that may say or do anything. |
| `Search` | `runner/local`, `adapter/omp`, `agent/readscope` | `openNoFollow` component by component, on a tree that is relinked meanwhile. |
| `AppServer` | `codex/appserver.go`, `codexcert/identity.go` | Calls and notifications on one wire, `WaitTurn`'s wake-up, the gate above them. |
| `Frames` | `adapter/android` | A frame is the device, its generation and the picture seen; a picture is what the checks tell apart. An input adb failed of may have landed, or land later; a mirror may outlive its kill. |
| `Backup` | `backup/*.go` | A tree is a function from names to versions; a link to the previous copy shares the version's inode. |
| `ToolStats` | `toolstats/*.go` | Rows, owners and their locks; a reader that runs beside the writers. |
| `Activation` | `mcpactivation/store.go`, `cmd/atenea/mcp_proposal.go` | The lock is held as the code holds it; edits by hand take none. |
| `Settings` | `config/config.go`, `local.go`, `desktop.go`, the checks of `core.New` | One part of the file departs from the shipped settings at a time; numbers and names are small values. |
| `Hub` | `observability/hub.go` | Numbers, ring, channels, a restart. |
| `Quality` | `selector/quality.go` | The ledger file under its lock, the book and what is pending. |
| `Readings` | `mcpprobe/probe.go`, `core/backendstate.go` | The handshake with its fallback, the sweep, the file. |
| `Conversations` | | `Chats`, with `Delegate`, `Search`, `AppServer` and `Frames` as instances, composed by focus. |
| `Paperwork` | | `Dispatch`, with `Notebook` and `StdioSession` as instances, composed by focus. |
| `Upkeep` | | `Backup`, with `ToolStats`, `Activation`, `Settings`, `Hub`, `Quality` and `Readings` as instances, composed by focus. |
| `*Proofs` | | Theorems about the module of that name. Those of a composition have a section for each system and a last one that carries the results over to the composition; `PaperworkProofs` begins with `Dispatch` and `Checkpoint`; `MetricsProofs` extends `MetricsStore`, `MetricsLadder` and `Selection` (and with it `Funnel`), which is why the last two say `LadderSpec`, `stage` or `RecordAttempt` where the first says `Spec`, `pc` and `Record`. |
| `MC*` | | What TLC needs beside: values of constants, symmetry, fairness, narrower initial states. |

`ResultCache` and `Supervisor` are stacked in the program (a cached runner wraps
a guarded one) and share no state, so they are checked apart: what one load does
below the cache is any result in `Reads`. `CoreLifecycle` calls the last
flush of `MetricsStore` and the `Stop` of `Supervisor` as single steps; their
own modules show that both end. `MetricsLadder` takes the flush of
`MetricsStore` at the moment of its commit. `Dispatch` extends `Checkpoint`, and
the two move together.

**Composition by focus.** `Paperwork`, `Conversations` and `Upkeep` hold several
systems that share no state. `focus` is chosen at the start and says which of
them moves; the variables of the others stay as they are (0 in the last two, but for `Chats`). The
state spaces add up instead of multiplying, which loses nothing, since no
property relates two of the systems.

Abstractions made throughout: time is the freedom of an armed timer to fire
(the facts about durations that are kept are named: `StopBoundElapsed`,
`DelayElapsed`, `StableExit`, and in `MetricsLadder` a clock of ticks);
messages, reasons, traces and logs are left out; I/O ends or fails at any
point; DuckDB, the kernel's file locks and child processes are external and
behave as the code in `src/` relies on them to.

A definition introduced by `Mutant:` is a plausible bug in the definition that
follows it. It is used nowhere in the specification: it documents what the
property named in `PROJECT.json` (`mutants`) would catch.

## 3. Runs

| Run | Expectation | Question |
|---|---|---|
| `supervisor_safety` | holds | A persistent and an on-demand server, a caller, warm-up, reaper, Stop. `IInv` (with the restart budget) and `ServersHeld`: one activation per server, nothing left running after Stop, in-flight counts that are the calls in progress. |
| `supervisor_live` | holds | Two callers on one server: `SupervisorAnswers`, every poller is answered provided SIGKILL works, and Stop returns even when it does not. |
| `cache_safety` | holds | `CacheInv`, `StoreServes` (the limits hold and nothing is loaded that was there to be served), `WaiterAnswered`, and the refinement `ImplementsFreshReads`. |
| `store_safety` | holds | `StoreInv` (rows accounted for, shape of the ring), `RowsKept` (order, and `nil` means durable), `FlushesEnd` (every Flush and the last stand of a stop end, although the wait at the gate has no bound). |
| `core_stop` | holds | `StopIsOrderly`, `NoAddAfterWait`, `ShutdownReturns`. |
| `metrics_ladder` | holds | `CountedOnce`, `LadderHolds` (one row per bucket, each in its own, passes spaced, detail kept). |
| `selection` | holds | `HealthiestUndominated`, `VerdictsAreEarned` (a verdict keeps its owner, an interruption teaches nothing), `CondemnedComesBack`. |
| `passthrough` | holds | `NoOrphans`, `CatalogueIsOfItsProcess`, `CallsRunOnce`, `EveryCallReturns`. |
| `passthrough_wedged` | violated | `SecondArrivalIsBounded`: a handshake whose write fails locks its backend for good. |
| `paperwork` | holds | `Dispatch` over `Checkpoint`: `ReceiptsSurvive`, `WavesKeepTheirWord`, `OKMeansCarriedOut`. `Notebook`: `IncidentsSurvive`. `StdioSession`: `AnswersReachTheirRequest`, `NobodyStaysBlocked`. |
| `chats` | holds | `ChatsStayApart` (`Chats`), `SpendIsTold` (`Delegate`), `SearchesAreHonest` (`Search`), `TurnsAreWitnessed` (`AppServer`), `ActsOnWhatWasSeen` (`Frames`: two devices, and two inputs that pass on one, with another caller, a late input or a window between the looks and the input). |
| `upkeep` | holds | `BackupsAreWhole`, `StatsAreHonest`, `OnlyTheAuthorized`, `SettingsAreSound`, `HubLosesNothing`, `LedgerCountsOnce`, `ReadingsAreEarned`, one for each of its seven modules. |

A property that is a conjunction of named parts is one property here, and each
part is defined, with its own comment, beside it.

Run one with `tlc -config MCSupervisor.cfg MCSupervisor`.

### Bounds, and why they are enough

- **Supervisor.** `RestartLimit = 1` gives a first failure, a retry and the
  exhaustion of the budget. Safety has one server of each lifecycle (the
  reaper treats them differently, Stop latches them in either order); servers
  share nothing else. Two callers meet on one server in the liveness run; the
  in-flight count is proved for any number.
- **ResultCache.** Sizes 2 and 5 against `MaxBytes = 4` and three entries: two
  answers fit together exactly, a third evicts, and one is larger than the
  whole cache. Two generations are one rotation, which may fall between any two
  steps of a call. Two callers are a leader and a waiter.
- **MetricsStore.** A ring of two and three records: it fills, wraps and
  overflows, and a restored batch can push over the ceiling what arrived
  meanwhile. A flusher and the last flush compete for `flushMu`, and with a clear
  and a reader for the gate. Two attempts are a retry and the last one.
- **CoreLifecycle.** Two connections and a task without one; two callers of
  Shutdown, one of which leads. Service and command are both initial states.
- **MetricsLadder.** Hours of two ticks, days of two hours, weeks of two days
  and months that begin in the middle of a week. The six instants put two
  attempts in the same or in different hours, and the retention windows are
  short enough that an attempt climbs to its month by the last of them.
  Processes and keys are interchangeable, which the symmetry uses.
- **Selection.** Three implementations are the least on which a comparator can
  be intransitive. Costs are chosen so that `cheaper`, its ties broken by id,
  is. Two questions overlap in every way; counters stop at their thresholds.
  `MaxAsked` bounds the questions.

- **Passthrough.** Two callers and two instances of a backend, one question
  each: enough for a process to be replaced under a listing, and for the second
  caller to arrive during the first one's handshake. Legacy stdio, negotiated
  stdio and http are all initial states.
- **Paperwork.** A service and a command, plans of one to three steps (one wave,
  two, a chain), one kill or power cut, a purse of four against steps that cost one
  or more: it is exhausted in the middle of a plan. Two
  recorders, three incidents and pages of one line: the notebook rotates twice, both
  can find it full, and one can be cut short at any step of the other. Two callers of one session that negotiates its protocol, so that both
  generations are reached.
- **Chats.** Two connections, two session names, one device known by two names, two
  backend sessions. A paid call has a permission of two and three events; the
  tree is relinked twice; the gate has two profiles, one fault, and two
  messages on the wire. The Android runner has two callers and begins in
  one of two ways. With two devices it has three calls of any kind, or two calls
  and two changes, and three pictures: a window with one control that matches, the
  same with two, and another window turned (`Broad`). Two inputs that pass need two
  pictures first: with one device it has two pictures and then two inputs with one
  change, or one input with two changes, so that a window which covers the first can
  come and go, or the device can (`Paired`). Callers and devices are interchangeable.
- **Upkeep.** One snapshot to keep of two versions, a backup due every two ticks,
  one kill, two commands; two processes with days of two ticks, detail for one,
  three calls; two activating commands, two files, two evidences, four runs, an
  edit by hand; every single departure from the shipped settings with every
  overlay of one rule, or of up to two for one capability; a ring of two, a channel
  of one, four events, two lives; three observations of one implementation by two
  processes; two servers, one of them pinned to the older protocol.

Deadlock is not checked in `core_stop`, where a stopped service has nothing
left to do, nor in `selection`, `passthrough`, `paperwork`, `chats` and `upkeep`,
where the bounded questions, calls and faults come to their end. In the first
and in `passthrough` and `paperwork` a liveness property says that nobody is left
waiting when that happens.

## 4. Fairness

- **Supervisor**: weak fairness of every goroutine that can move
  (`GoroutinesRun`): the Go scheduler runs it, and an armed timer fires. Nothing
  is assumed of a child, of a caller's own work, of the context of `Core.Run` or
  of anyone calling Stop. That SIGKILL ends a child (`KillWorks`) is a
  hypothesis of `CallerAnswered` alone.
- **ResultCache**: weak fairness of each call's own steps; a provider's read
  returns because the runners bound it.
- **MetricsStore**: strong fairness of whichever of `Drain` and `Acquire` a call waits for: a Go mutex that
  has been waited on for a millisecond is handed to its longest waiter, and so is
  the token of the gate, a Go channel. The wait at the gate (`dbaccess/access.go:78`)
  is bounded by the context only, and the context of `flushLast` and `Close` never
  ends, so nobody is assumed to give up there (`GiveUp`): a flush goes on because
  every holder gives the gate back. Hence weak fairness of what they all do past
  it, a flush, a clear and any reader: the lease and the open are bounded by
  `lockWait`, and a DuckDB statement, which is external, is taken to end. Weak
  fairness of `flushLast`.
- **CoreLifecycle**: weak fairness of the teardown and its timers, of the end of
  a maintenance job, and strong fairness of the clock noticing its closed
  channel, because a `select` picks among ready cases at random. Clients and the
  work in flight may never end; that is what the grace is for.
- **Selection**: evidence about an implementation that nobody calls grows old
  (`LeftAlone`). Nobody is obliged to ask or to answer.
- **Passthrough**: weak fairness of each caller's own step and of `Close`. A
  child owes nothing; the contexts of the calls end, as their timeouts do.
- **StdioSession**: weak fairness of the callers, of the reader while there is
  something to read, and of a write on a broken pipe failing.
- **MetricsLadder**, **Checkpoint**, **Dispatch**, **Notebook** and everything in
  `chats` and `upkeep`: none; safety only.

## 5. Proofs

The proofs hold for every value of the constants that satisfies the named
assumptions of the module, not just for the sizes TLC runs. Those assumptions
say what a configuration of the program has anyway: a finite set of callers
(`CallersAssumption`), a grant and a width that are numbers and plans with
finitely many steps (`DispatchAssumption`), effects that are effects
(`ChatsAssumption`), that `None` and `Reader` are neither a number nor a
caller (`PassthroughAssumption`), a ring that holds an event (`HubAssumption`),
finitely many processes (`ProcsAssumption`), copies to keep and a clock of
numbers (`BackupAssumption`, `StatsAssumption`), and that `Gone` and `None` are
unlike anything they are told from (`GoneAssumption`, `NoneAssumption`). Where a
constant is shared by the systems of a composition the theorem itself says what
it needs: that `None` is no number, no caller, no command and no chat, and that
there is a profile to certify (`Profiles \in Nat \ {0}`). `MetricsLadder`
assumes that times are numbers and there is one, that a day is so many hours, a
week and a month so many days, and that `NoAtenea` is no process; `Selection`
that there are finitely many implementations, numbered from 1, and the types of
what the settings, the base and the ledger may say of one. The proofs use what
`LadderConstants`, `RowsConstants` and `ChoiceConstants` say of that, which is
less: nothing about months, for one.

A system checked in a composition is proved in two steps. A lemma on its own
specification carries the inductive argument (`SearchHolds`: `E!Spec =>
[]E!SearchesAreHonest`), and the theorem is about the composition, with the
property TLC checks (`ConversationsSpec => []SearchesAreHonest`): the focus never
changes, and every step of the composition is a step of the system in focus
or leaves it alone (`OneMoves`). The runs narrow the initial states of
`Conversations` and `Upkeep` further, the theorems do not.

| Theorem | What it says |
|---|---|
| `SupervisorProofs!InductiveInvariant` | `IInv`: types, the coupling of state, goroutine and child, the progress of Stop, the budget, a target for every call. |
| `SupervisorProofs!ServersHeldHolds` | `ServersHeld`: `OneActivation`, `NothingRunsAfterStop` and `InflightCountsCalls` together. |
| `OneActivationHolds`, `NothingRunsAfterStopHolds`, `BudgetHolds` | Consequences of `IInv`. |
| `LatchedStaysDownHolds` | An action property: once latched and down, down for good. |
| `InflightCountsCallsHolds` | Needs its own induction, on the cardinality of the set of callers with a target. |
| `ResultCacheProofs!CacheInvariant` | `CacheInv`. |
| `StoredUnderItsGenerationHolds`, `OneLoadPerKeyHolds` | Parts of it. |
| `StoreServesHolds` | Every step keeps the entries and bytes within their limits and the counter right, and no load begins while a live entry holds its answer. |
| `ResultCacheProofs!Refinement` | The cache implements `FreshReads`. |
| `MetricsProofs!FlushesSerializedHolds` | Flushes are serialized, and a flush and a clear never share the connection. |
| `StoreInvHolds` | `StoreInv`: every row recorded is in the ring, in hand, written, cleared or counted as dropped, for any capacity and number of callers. |
| `RowsKeptHolds` | `RowsKept`: the order of the rows, and what `nil` from Flush promises. |
| `LadderHoldsHolds` | `LadderHolds`: one rollup per bucket and key, with its own attempts and the newest's instant, nothing on a rung that outlived it, detail kept for its window, passes spaced. |
| `CountedOnceHolds` | `CountedOnce`, for any processes, attempts, times, spans and ages of the rungs. |
| `HealthiestUndominatedHolds`, `VerdictsAreEarnedHolds` | The two safety properties of `Selection`, for any implementations, costs and number of questions. |
| `CoreLifecycleProofs!LifecycleInvariant` | `LifecycleInv`, and from it `CleanStopIsQuietHolds`, `TicksUnderClaimHolds`, `AnswersAgreeHolds`, `NoAddAfterWaitHolds`. |
| `CoreLifecycleProofs!StopIsOrderlyHolds` | `StopIsOrderly`: the first three of these together. |
| `PassthroughProofs!PassthroughInvariant` | `PassthroughInv`: types, `NoOrphans`, what the holder of the lock may have in hand, what a lease and a catalogue prove of the process they name. From it `NoOrphansHolds`, `CatalogueIsOfItsProcessHolds`, `CallsRunOnceHolds`. |
| `PaperworkProofs!DispatchInvariant` | `DispatchInv`: a run's record, the Save that carries it, and the disk agree. From it `ReceiptsSurviveHolds`, `WavesKeepTheirWordHolds`, `OKMeansCarriedOutHolds`. |
| `ConversationsProofs!ChatsStayApartHolds` | `ChatsStayApart`, for any connections, names and devices. |
| `ActsOnWhatWasSeenHolds` | `ActsOnWhatWasSeen`, for any devices, callers and pictures, with inputs that land late and kills that fail. |
| `SearchesAreHonestHolds` | `SearchesAreHonest`, for any number of relinked entries. |
| `SpendIsToldHolds` | `SpendIsTold`, for any permission and any number of lines. |
| `TurnsAreWitnessedHolds` | `TurnsAreWitnessed`, for any number of profiles and of messages on the wire: among the rest that no turn was certified after a reroute of any turn of the session had been read. |
| `PaperworkProofs!AnswersReachTheirRequestHolds` | `AnswersReachTheirRequest`, for any callers, calls and printed lines. |
| `IncidentsSurviveHolds` | `IncidentsSurvive`, for any number of recorders, rotations and incidents. |
| `UpkeepProofs!OnlyTheAuthorizedHolds` | `OnlyTheAuthorized`, for any commands, files and evidence. |
| `ReadingsAreEarnedHolds` | `ReadingsAreEarned`, for any servers and calls. |
| `HubLosesNothingHolds` | `HubLosesNothing`, for any size of ring and channel, and any clients. |
| `LedgerCountsOnceHolds` | `LedgerCountsOnce`, for any finite number of processes. |
| `BackupsAreWholeHolds` | `BackupsAreWhole`, for any files, copies kept and clock. |
| `StatsAreHonestHolds` | `StatsAreHonest`, for any processes, calls, length of the day and clock. |
| `SettingsAreSoundHolds` | `SettingsAreSound`, for any servers, tools and effects. |
| `MetricsProofs!DominatorGoesFirst` | A candidate that beats another outright has fewer dominators. |
| `MetricsProofs!PlainRankingIsAnOrder` | Without quality and measurements owed the comparator is a strict order separating ids. |

The arguments:

- **Supervisor.** `OneActivation` is not inductive: whether a Stopped server can
  still have a goroutine depends on which program counters go with which
  states (`RunMatchesState`), and after `StopGivesUp` on how far Stop has got
  (`StopProgress`). `gaveUp` is the one case in which Down has a live goroutine,
  and it is reached only past a SIGKILL. The assumption `CallersAssumption` (a
  finite set) is used for the count alone.
- **ResultCache.** The refinement needs that what a call *carries* between two
  critical sections is fresh (`CarriedIsFresh`): a waiter takes its leader's
  answer without looking at it again, and that is sound only because both have
  the same key (`NoStrandedWaiter`, `OneLoadPerKey`), hence observed the same
  generation. The limits need that the counter of bytes is the sum of what is
  held (`Bounded`); `BytesAfter`, the sum, is a recursive function, and what it
  comes to when an entry is put in front, taken out or cut off at the end
  (`BytesInFront`, `BytesWithout`, `BytesCutOff`) is proved by smallest
  counterexample.
- **MetricsStore.** `SerialInv` adds to `FlushesSerialized` the types of the
  calls and that Clear holds the connection exactly while it deletes. `RowsInv`
  adds that disk, the batch in hand and the ring are one line of ascending numbers
  up to the last one recorded (`Line`), and what each flush has by now put behind
  it (`Ack`). That the rows of a ring that wraps around are the sequence it stands
  for, and what a filter leaves of them, are lemmas (`LiveRows`, `LeftOutside`).
- **MetricsLadder.** Tables are `Sound` when each attempt is at most once a row,
  counts in at most one rollup and under its own key, never in both, and somewhere
  until a Clear names it. The tables of a transaction are sound too, but for the
  moment between the statement that counts attempts into their hours and the one
  that marks them: there the invariant is about the tables as they will be
  (`Working`). A count is a sum over a set of rows of which at most one is not
  zero (`SumOfSingle`). `RightInv` adds what a row is of (`Own`): its bucket begins
  at a multiple of its span and holds each attempt it counts, whose newest instant
  it has. Merging keeps that because only rows of one bucket meet (`MergeOwn`),
  promotion because a bucket that begins in a longer one, of so many of its
  length, ends in it (`EndsWithin`); a month is not so many weeks, which is why
  months have no upper end. In a transaction the hours are those before its call,
  and the rungs walked so far have nothing outlived (`OnTheWay`).
- **Selection.** A question carries what it read earlier into its choice, so
  `ChoiceInv` says of each that what it read names every implementation once and
  has the declared down as down, and that its choice is one nobody else beats
  (`Fit`). The head of an insertion sort goes before all others because the plain
  ranking is a strict order (`PlainRankingIsAnOrder`); that it has fewest
  dominators makes it undominated (`DominatorGoesFirst`).
- **CoreLifecycle.** `LifecycleInv` states at each stage of the teardown what
  the stages before have established; `NoAddAfterWait` then follows from
  `stopping` being set before the drain begins.
- **Passthrough.** Neither `NoOrphans` nor `CatalogueIsOfItsProcess` is inductive.
  The lock is kept through calls that may last, so the invariant says what its
  holder has in hand at each of its program counters (`HoldsLock`, `PairOK`).
  What a caller remembers without the lock is a generation and an instance;
  `Honest` says that the pair can be believed as long as the generation is still
  the current one, because every replacement of the process moves the generation
  on. A catalogue and a lease carry such a pair, and a call is sent a second time
  only out of a state in which the first was not written (`RanOK`).
- **Dispatch and Checkpoint.** `PaperOK` ties three copies of a run to each other:
  the record in memory, the body of the Save under way, and the file with what a
  power cut would leave of it. What Save said yes to is contained in both of the
  latter, which is why the order write, sync, rename, sync carries over a kill at
  any point. `WaveOK` says that what is left of the purse pays a share for every
  step of the wave that has not ended. `OKMeansCarriedOut` covers
  the runs a Save failed of as well: they are closed as ok early only in a plan of
  several steps, and the error goes to the caller with it. It needs that a valid plan
  has a next wave until all of it is filed (`PlansDrain`), which is what `Validates`
  says of a plan: of any steps, one needs none of the others. The
  steps of a wave are recorded smallest id first, which needs that a set of ids has
  a smallest (`MinIsFirst`).
- **Chats.** A chat is at two places at most, its connection or what a modern request
  put aside. `SlotOK` says of both that it was opened, was given no more than a
  client may be given, and is tainted by what its session saw; the owners and the
  sessions of the backend agree with the requests between the two checks of a
  reservation.
- **Frames.** The number of a call is at one place: with a look that may still store
  its frame, in the runner's map, with the input that took it, or with one that went
  out (`OncePlaced`). Each step leaves a number where it is, moves it or gives a
  new one out, which is why no frame serves twice. An input holds its device's
  lock, so what reaches the device between its second look and itself had been given
  up by then (`SinceLook`): another call can neither send nor give up an input of that
  device meanwhile. When the control was looked for in another window than the frame's,
  which is focused at both looks around that, something changed twice, and each
  change is counted (`WindowOK`). Of the mirrors,
  each that runs is in the map, in the hands of the call that kills it, or one whose
  caller was told that it is left.
- **Search.** Of a file nobody touched the invariant says that it is found, that the
  walk has listed it, or that it is in hand (`NotLost`), or the answer is marked as
  cut short. The descriptor in hand was opened without following a link.
- **Delegate.** The price kept is the last one read (`out.price = last`), and a price
  above the permission has latched before the outcome is settled.
- **AppServer.** Every line on the wire was said by the server and fits the request
  it answers (`Fits`); a gate asleep on a turn that is over has a wake-up waiting or
  about to be sent. How many turns were certified when the first reroute was read is
  kept (`before`), and stays the number of all that ever are: a receipt with a route
  is a rerouted one (`RoutesOK`), and that is not correlated again.
- **StdioSession.** Only ids that were given out are awaited, each by one caller;
  a line that carries an awaited id was printed for the request that has it; a
  tools/call is in the pipe only if the child was greeted.
- **Notebook.** A page only grows (`Grows`), but where a line without its end is
  written on. Names go to pages in the order they were opened (`FileInv`), so one that
  was written on is in use until a second rotation after it. An incident is one
  Record's and in no page before that writes (`NumberInv`). A Record that has looked
  knows how its page ends, or what is there unended was cut short since, and that pair
  is in `beside`; one that has written has a line nothing more is written on, and so
  has each that returned (`KeptInv`). The mark is the number of entries up to some line
  of the page, all of whose incidents were read, as long as there was no rotation and
  no glued line (`MarkInv`).
- **Activation.** Only the holder of the lock changes the row, and between the read
  of the row and the write of the settings the command keeps what was authorized.
- **Readings.** Wherever a reading is (a probe's result, the sweep's, one that a call
  has read and will file, memory, the file), its server earned it.
- **Hub.** The ring is a run of consecutive numbers that ends at the newest event;
  a client's replay and channel together are a run that starts after its cursor
  and, while it is subscribed, ends there too.
- **Quality.** The file and what each process has not filed add up to what was
  recorded (`Balanced`), and a book reads at most that (`BookOn`). One process
  changes one term of the sum (`SumMoves`).
- **Backup.** Four parts. `PlaceInv`: which of the names beside each other holds the
  state at each point of a command, on the disk and after a power cut. `SnapInv`: a
  copy that may be torn has at least `Keep` good ones after it, as many good ones
  stay as were made, up to `Keep`. `JobInv`: each file copied is no older than
  when the job began. `CmdInv`: what was restored so far is what the copy holds as
  long as rotation may not reach it.
- **ToolStats.** A day's sum counts the calls that were filed and are no row any
  more (`Counted`); owners are numbered as they are opened and the dead stay dead,
  so an owner found dead may be buried later (`Buried`); what a walk still owes
  lies behind its cursor (`WalkOn`).
- **Settings.** A check that was passed stays passed (`PassedAt`): no later step
  changes what it looked at, and the overlay touches only repositories, rules and
  sensitive paths. Merging keeps repositories apart and brings no rule that is not
  about the repository (`PlacesMerged`, `RulesMerged`).
- **Funnel.** If x beats y, then everything that beats x beats y too, and x is
  one more: a strict inclusion of finite sets.

Several of these need the value of a sum, a fold or a filtered sequence. The
induction theorems of the library take an operator as a parameter and cannot be
instantiated here; the lemmas use the smallest counterexample instead, which is
first-order: of any numbers there is a least one (`FirstNumber`), of any
finite sets in a family one without a smaller one (`SmallestSet`).

Only model-checked:

- every liveness property (fairness and `ENABLED` are outside this prover):
  `SupervisorAnswers`, `WaiterAnswered`, `FlushesEnd`, `ShutdownReturns`,
  `EveryCallReturns`, `NobodyStaysBlocked`, `CondemnedComesBack`.

The inductive invariants were checked with TLC, on the sizes of the runs, before
they were proved. Those that appear only in a proof are in no run.

Proving everything from nothing takes about half an hour, a third of it
`UpkeepProofs`.

`LatchedStaysDown` (`Supervisor`) and `LifecycleInv` are proved and in no run.
`PersistentStaysUp` (`Supervisor`) is defined and neither proved nor in a run.

## 6. Where the code and its words disagree

One run exhibits a behaviour that a comment in the source excludes (`findings`
quotes the lines): in `passthrough_wedged`, `ensure` holds the backend's mutex through
the handshake, and a frame that cannot be written makes `sendWithMode` call
`invalidate`, which takes the same mutex (`passthrough/stdio.go:677`, against `:76`).
Whoever arrives later waits for ever.

Some further promises are stated in the modules as formulas that do not hold of
the code, each with the line it quotes. No run lists them; put one in a
configuration to see its trace.

| Formula | What happens |
|---|---|
| `Supervisor!ReaperSparesUsers` | `stopIfIdle` decides under the lock and acts outside it: a call that acquires the server in between has it stopped underneath (`process.go:157`). |
| `Supervisor!StopNeverWaitsForever` | `Stop` waits for warm-ups without a bound before it waits for children with one (`supervisor.go:507`). |
| `MetricsStore!ClearedStaysCleared` | `Clear` does not see the batch a flush has drained, which is written or restored after it (`clear.go:120`). |
| `MetricsStore!LossReported` | A row recorded while the last successful flush is writing is neither written nor reported (`core.go:1582`). |
| `Selection!NobodyGoesBeforeTheChosen` | The comparator is intransitive when only some candidates are tested (`selector.go:875`). |
| `Notebook!FailedReceiptsAreNoted` | `core.go:1131` says the notebook is where a failed receipt goes; `fileRawReceipt` calls `Catch` without a panic, and nothing is recorded. |
| `Notebook!TornLineCostsOne` | `Record` asks whether the notebook ends in a newline (`notebook.go:230`) and writes afterwards (`:236`). When another goroutine or process is cut short in between, its torn line and the whole one share a line that `Read` cannot parse, although the second Record returned nil: one torn line costs two, against `:228-229`, and two Ateneas do tangle, against `:36-37`. `IncidentsSurvive` says that this is the only way to lose a recorded incident within a rotation. |
| `Notebook!UnreadStaysNew` | A Clear that races a rotation, or a mark that cannot be reset, hides the first entries of the new page. |
| `Checkpoint!LiveDumpsAreNotSwept` | The mutex of `recover.go:42` is per process: the service's sweep can take a command's temporary file while it is being written. |
| `Dispatch!OKMeansAllOfIt` | In plans of several steps, `overallVerdict` reads only the steps that were reached: after a Save that failed the receipt can say ok, and the error is beside it. |
| `StdioSession!OneInitialize` | A second initialize can reach the wire, which the package comment excludes. |
| `Chats!OwnersAreAlive` | A device's owner is forgotten only by a successful close of the session remembered: it outlives its chat, a failed open and every modern request, although the refusal says to wait for the owning flow. |

Seen while modelling, without a formula of their own:

- a server stays Ready through `gracefulStop`, so a caller may be sent to one
  that has been told to leave (`process.go:423`, compare `guard.go:39`);
- Down is not terminal when Stop gave up on a child that ends later: the run
  goroutine then writes Stopped or Restarting (`process.go:236`, compare
  `supervisor.go:291`);
- `attempts` is not reset when a server becomes ready, only when it was stable
  (`process.go:414`, compare `process.go:36`);
- the two DELETEs of `Clear` are two transactions: a failure between them leaves
  the rollups (`clear.go:80`);
- `Summary` leaves out attempts after `since` whose bucket began before it
  (`summary.go:88`);
- `owesMore` can promote an implementation that has spent its break-in attempts
  for nothing, since it asks for only one of the two to be in break-in
  (`selector.go:764`, compare `:618`);
- a Down filed between a success's look at the catalog and its
  `SetHealth(Alive)` is overwritten (`orchestrator.go:1061`).
- `checkpoint.go`'s Prune says that Recover closes runs left open, and that it
  takes the lock a writer takes; Recover closes none, and Save takes no lock;
- a device reserved by its id and by its label is two reservations; the raw
  agent-device tools are outside the screen rule, and each modern request starts
  untainted (`tainted.go`);
- codex's `invoke` neither drains nor kills after a line that is too long; a failed
  turn with exit 0 and a message is still an answer; its `readAnswer` drops
  malformed matches without saying so;
- a search scope that is a link to a directory inside the repository is accepted
  and then not walked: OK, with no matches (`runner/local`);
- two waiters in `WaitTurn` could take each other's wake-up, and the death of the
  transport wakes neither (`appserver.go`); the program has one waiter, and a
  context;
- a plain `backup restore` takes no lock, so that rotation may remove its
  snapshot during the copy; a file gone before it was listed is skipped silently;
- `rotate` removes a snapshot in place: a kill in the middle leaves a torn one
  that is still listed and can be restored;
- a kill between the two renames of a replace leaves no target, and every later
  command refuses; nothing discards `.atenea-current`; a snapshot dated in the
  future stops backups until the clock gets there;
- `Context` in `toolstats` counts a request that ended at or after `until`
  nowhere; another process's unflushed `dropped` count is invisible, so that an answer
  may lack a dropped call and not be marked; a compaction
  that is rolled back has already removed the lock files, so a dead owner's
  rows look active until the next one;
- `mcp activate` authorizes the evidence it reads itself; one that fails because
  the id exists with other settings leaves its row "applying"; appending to the
  settings can undo an edit made between its read and its rename;
- a neutral note is read and then recorded, and can restore a stale reading; a
  sweep files its first results when the slowest is in, over newer evidence
  (`backendstate.go`); a save that failed is retried only at the next change;
- a hub cursor from an earlier life is accepted once the new numbers have caught
  up with it: the subscriber has a gap and is not told;
- `expose = "on"` is documented (`docs/content/settings.md:1356`) and asked for
  by `desktop.go:195`, and refused by `fileMCPServer.build`
  (`config.go:1383-1390`);
- an overlay rule on an unknown capability is accepted by `applyLocal` and
  refused by `core.New`, which the comment at `local.go:440` says cannot be;
- two processes that both find a damaged base may set aside the fresh base that
  the other has opened (`startup.go:118`); `core.New` leaves the metrics store
  open when a later step fails;
- `get-state` that fails records nothing, so that a device unplugged and plugged
  in again keeps its generation and its frames unless a call came in between,
  against "Reconnection invalidates the cached selection" in
  `docs/content/settings.md`; a mirror whose process died stays
  "already_running", and one whose kill fails is forgotten before that and keeps
  running: its caller is told, and nobody can ask again (`android.go:934-944`);
- an input that adb failed of, or that ran into the timeout, may have reached the
  device, or reach it when another call holds the action lock (`android.go:811-909`):
  the error does not say which.

Several properties leave these cases out by a named condition, which their
comments give: `rotations = 0`, `~Glued` and the pairs in `beside` in
`IncidentsSurvive`, `lost` in `OKMeansCarriedOut`, `strays` and `moved` in
`ActsOnWhatWasSeen`, `cmd.snap \in Held` in `BackupsHold`, the earlier life in
`HubLosesNothing`. Three hazards are only bounded, or not covered: `Stop` behind a
warm-up of a persistent server (`SupervisorAnswers` is checked on an on-demand one),
the Down that a success overwrites, and the newer evidence that a slow sweep
overwrites (`ReadingsAreEarned` says what is shown was earned, not that it is the
newest).

## 7. What is not modelled

- **Database access lease**: only the gate of one process, as the lock that
  `MetricsStore` and `MetricsLadder` hold around their statements.
- **Protocol version decisions, local IPC, process groups, workspace context**:
  pure decisions, framing, system calls and read-only derivations. The modules
  above them take any result they may give.
- **Desktop and tokensave adapters**: translations without state of their own. The
  frames of the desktop are kept by its helper, a separate program.
- **Client configuration**: rewriting the clients' own files, sequential and
  data-heavy.
- **Certification, acceptance, benchmarks, status line, dashboard, command
  line, platform helpers**: offline tools, rendering, argument handling, external
  programs.

Inside modelled components: the session pointer, port choice and output ring of
the supervisor; hashing and the JSON envelope of the cache; `Checkpoint` of the
metrics store, a flush and a DuckDB statement; `Do` and due times of the clock;
registration and the persisted file of the registry; sums of times and tokens and
`Legacy` in `toolstats`; writing a first settings file; the app server's methods
that nothing calls. Two processes racing for the upkeep claim rest on the
kernel's `flock`.

## 8. Plan

What is done: the core (supervisor, cache, metrics, lifetime, selection), the
orchestrator with its paper trail, the sessions and what they drive, and the
upkeep. In this order, what is left:

1. **Theorems**: a refinement of an abstract specification of a run by
   `Checkpoint` (a run is open or closed, and never goes back); `PersistentStaysUp` with `IInv` strengthened by the warm-up.
2. **UpkeepClaim**: two processes, the claim, the database lease and the lane,
   in place of the single-process view in `CoreLifecycle`.
3. **Desktop and tokensave** adapters, as far as their calls can fail halfway.
4. **Registry**: registration and the persisted file.
