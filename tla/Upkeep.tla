------------------------------- MODULE Upkeep -------------------------------
(* What the service and its commands keep beside their work: backups, tool
   statistics, declarations of MCP servers, the settings, the event hub, the
   quality ledger and the readings of the servers. Seven systems that share
   nothing: one is in focus and moves, and the variables of the others are 0
   throughout. *)
EXTENDS Backup
CONSTANTS Procs, Day, Detail, MaxStatsNow, MaxCalls, MaxOwners, MaxFaults, None,
          Cmds, Paths, Evidence, MaxRuns, MaxEdits, Tools, Effects, Servers,
          Clients, Capacity, Room, MaxSeq, MaxLives, Keys, MaxSeen, MaxFails,
          Backends, Callers, MaxNoise, MaxSweeps, MaxReports
VARIABLES focus,
  clock, db, proc, calls, given, owned, files, reader, pager, faults, log,
  row, locked, settings, order, runs, edits, agreed,
  part, file, overlay, role, stage, cfg, global,
  next, ring, closed, draining, passed, subs, open, chan, cursor, life, known,
  ledger, holder, books, fails, deaths, recorded,
  mode, speaks, probe, sweep, unfiled, mem, disk, saved, call, sweeps, reports, slips, proved
\* The hub's ring holds something: New gives it a size when it is given none.
ASSUME HubAssumption == Capacity \in Nat \ {0}
\* There are finitely many processes that keep a ledger.
ASSUME ProcsAssumption == IsFiniteSet(Procs)
\* A day has some length, and the bounds of the statistics are numbers.
ASSUME StatsAssumption == Day \in Nat \ {0} /\ MaxStatsNow \in Nat /\ MaxCalls \in Nat
T == INSTANCE ToolStats WITH MaxNow <- MaxStatsNow, now <- clock
\* None is no row of the statistics.
ASSUME NoneAssumption == None \notin T!Rows
A == INSTANCE Activation WITH cmd <- order
S == INSTANCE Settings
H == INSTANCE Hub
Q == INSTANCE Quality WITH file <- ledger, proc <- books, kills <- deaths
R == INSTANCE Readings WITH Servers <- Backends, Calls <- Callers, MaxCalls <- MaxReports, file <- disk, calls <- reports, faults <- slips

statsVars == <<clock, db, proc, calls, given, owned, files, reader, pager, faults, log>>
activationVars == <<row, locked, settings, order, runs, edits, agreed>>
settingsVars == <<part, file, overlay, role, stage, cfg, global>>
hubVars == <<next, ring, closed, draining, passed, subs, open, chan, cursor, life, known>>
qualityVars == <<ledger, holder, books, fails, deaths, recorded>>
readingsVars == <<mode, speaks, probe, sweep, unfiled, mem, disk, saved, call, sweeps, reports, slips, proved>>
allVars == <<focus, vars, statsVars, activationVars, settingsVars, hubVars, qualityVars, readingsVars>>

NoBackup == now = 0 /\ ver = 0 /\ conf = 0 /\ wal = 0 /\ place = 0 /\ settled = 0 /\ snaps = 0 /\ job = 0 /\ up = 0 /\ cmd = 0 /\ beside = 0 /\ kills = 0 /\ cmds = 0 /\ mine = 0 /\ made = 0
NoToolStats == clock = 0 /\ db = 0 /\ proc = 0 /\ calls = 0 /\ given = 0 /\ owned = 0 /\ files = 0 /\ reader = 0 /\ pager = 0 /\ faults = 0 /\ log = 0
NoActivation == row = 0 /\ locked = 0 /\ settings = 0 /\ order = 0 /\ runs = 0 /\ edits = 0 /\ agreed = 0
NoSettings == part = 0 /\ file = 0 /\ overlay = 0 /\ role = 0 /\ stage = 0 /\ cfg = 0 /\ global = 0
NoHub == next = 0 /\ ring = 0 /\ closed = 0 /\ draining = 0 /\ passed = 0 /\ subs = 0 /\ open = 0 /\ chan = 0 /\ cursor = 0 /\ life = 0 /\ known = 0
NoQuality == ledger = 0 /\ holder = 0 /\ books = 0 /\ fails = 0 /\ deaths = 0 /\ recorded = 0
NoReadings == mode = 0 /\ speaks = 0 /\ probe = 0 /\ sweep = 0 /\ unfiled = 0 /\ mem = 0 /\ disk = 0 /\ saved = 0 /\ call = 0 /\ sweeps = 0 /\ reports = 0 /\ slips = 0 /\ proved = 0
UpkeepInit ==
  /\ focus \in {"backup", "stats", "activation", "settings", "hub", "quality", "readings"}
  /\ IF focus = "backup" THEN Init ELSE NoBackup
  /\ IF focus = "stats" THEN T!Init ELSE NoToolStats
  /\ IF focus = "activation" THEN A!Init ELSE NoActivation
  /\ IF focus = "settings" THEN S!Init ELSE NoSettings
  /\ IF focus = "hub" THEN H!Init ELSE NoHub
  /\ IF focus = "quality" THEN Q!Init ELSE NoQuality
  /\ IF focus = "readings" THEN R!Init ELSE NoReadings
InBackup == focus = "backup" /\ Next /\ UNCHANGED <<focus, statsVars, activationVars, settingsVars, hubVars, qualityVars, readingsVars>>
InToolStats == focus = "stats" /\ T!Next /\ UNCHANGED <<focus, vars, activationVars, settingsVars, hubVars, qualityVars, readingsVars>>
InActivation == focus = "activation" /\ A!Next /\ UNCHANGED <<focus, vars, statsVars, settingsVars, hubVars, qualityVars, readingsVars>>
InSettings == focus = "settings" /\ S!Next /\ UNCHANGED <<focus, vars, statsVars, activationVars, hubVars, qualityVars, readingsVars>>
InHub == focus = "hub" /\ H!Next /\ UNCHANGED <<focus, vars, statsVars, activationVars, settingsVars, qualityVars, readingsVars>>
InQuality == focus = "quality" /\ Q!Next /\ UNCHANGED <<focus, vars, statsVars, activationVars, settingsVars, hubVars, readingsVars>>
InReadings == focus = "readings" /\ R!Next /\ UNCHANGED <<focus, vars, statsVars, activationVars, settingsVars, hubVars, qualityVars>>
UpkeepNext == InBackup \/ InToolStats \/ InActivation \/ InSettings \/ InHub \/ InQuality \/ InReadings
UpkeepSpec == UpkeepInit /\ [][UpkeepNext]_allVars

\* What backup.Run and its commands leave behind is whole (Backup).
BackupsAreWhole == focus = "backup" => BackupsHold
\* toolstats counts a call once and closes none that is alive (ToolStats).
StatsAreHonest == focus = "stats" => T!StatsAreHonest
\* An activation writes what was authorized, once (Activation).
OnlyTheAuthorized == focus = "activation" => A!OnlyTheAuthorized
\* What config.Load hands on can be run, and an overlay stays at home (Settings).
SettingsAreSound == focus = "settings" => S!SettingsAreSound
\* A subscriber of the hub is let go or misses nothing (Hub).
HubLosesNothing == focus = "hub" => H!HubLosesNothing
\* QualityBook neither loses nor repeats an observation (Quality).
LedgerCountsOnce == focus = "quality" => Q!LedgerCountsOnce
\* A reading on file comes from what its server answered (Readings).
ReadingsAreEarned == focus = "readings" => R!ReadingsAreEarned
=============================================================================
