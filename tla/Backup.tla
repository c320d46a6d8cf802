------------------------------- MODULE Backup -------------------------------
(* The copies of the state folder (internal/backup): the service's clock takes
   one when it is due, file by file, linking what did not change since the
   newest; it is published by a rename and the ones past Keep are removed file
   by file. The backup command restores one beside the state or in its place,
   puts the previous state back, or discards it. The service may be killed
   between any two of these steps, and the power may go.

   A version stands for what a file holds, its label for the size and time of
   modification it is told apart by: a write gives a file the two anew. *)
EXTENDS Integers, FiniteSets, FiniteSetsExt
CONSTANTS Files,    \* ordinary files of the state folder
          Conf,     \* the extra: the settings file, copied under config/
          Base,     \* the database of measurements, never linked
          Keep,     \* [backup] keep
          Every,    \* [backup] every, in ticks
          MaxNow,   \* bound: ticks of the clock
          MaxVer,   \* bound: writes
          MaxKills, \* bound: kills, power cuts and settings back of the clock
          MaxCmds,  \* bound: backup commands
          Gone      \* a file or a folder that is not there
VARIABLES now,      \* the wall clock, which may be set back
          ver,      \* versions handed out
          conf,     \* the settings file outside the state folder, or Gone
          wal,      \* the database has a write-ahead log on disk
          place,    \* the state folder and the three names a restore uses beside it
          settled,  \* place as the disk is sure to hold it
          snaps,    \* the folder of copies: name, which is its time, to tree, or Gone
          job,      \* the copy under way in the service
          up,       \* the service runs, and holds upkeep.lock
          cmd,      \* the backup command under way
          beside,   \* what a plain restore left in its own folder, or Gone
          kills,    \* kills, cuts and settings back so far
          cmds,     \* commands so far
          mine,     \* history: the state last written by the service, until it is discarded
          made      \* history: the copies that were published and synced
vars == <<now, ver, conf, wal, place, settled, snaps, job, up, cmd, beside, kills, cmds, mine, made>>

ASSUME BackupAssumption == Keep \in Nat \ {0} /\ Every \in Nat \ {0} /\ MaxNow \in Nat

Names == Files \cup {Conf, Base}
\* What is not there is no version and no name, and is told apart from what a
\* copy holds of a file, from a folder and from a copy.
ASSUME GoneAssumption ==
  LET filed == [ver : Nat, label : Int]  tree == [Names -> Nat \cup {Gone}] IN
  /\ Gone \notin Nat \cup Names /\ Gone \notin filed /\ Gone \notin tree
  /\ Gone \notin [tree : [Names -> filed \cup {Gone}], began : tree]

Slots == {"target", "previous", "current", "partial"}
\* A walk takes the names in one order.
First(names) == CHOOSE f \in names : TRUE
Times == 0 .. MaxNow
NoTree == [f \in Names |-> Gone]
IdleJob == [at |-> "idle", name |-> 0, base |-> Gone, tree |-> NoTree, todo |-> {}, file |-> Gone,
            label |-> 0, began |-> NoTree, olds |-> {}]
IdleCmd == [at |-> "idle", kind |-> "none", snap |-> 0, todo |-> {}]

\* List: every folder whose name parses as a time, a torn one too, newest first.
Listed == {t \in Times : snaps[t] # Gone}
Newest == Max(Listed)
\* What rotate leaves alone: the newest Keep of them.
Newer(t) == {u \in Listed : u > t}
Held == {t \in Listed : Cardinality(Newer(t)) < Keep}

Init ==
  /\ now = 0 /\ ver = 1 /\ conf \in {1, Gone} /\ wal = FALSE
  /\ place = [s \in Slots |-> IF s = "target" THEN [f \in Names |-> IF f = Conf THEN Gone ELSE 1] ELSE Gone]
  /\ settled = place /\ snaps = [t \in Times |-> Gone]
  /\ job = IdleJob /\ up = TRUE /\ cmd = IdleCmd /\ beside = Gone /\ kills = 0 /\ cmds = 0
  /\ mine = place["target"] /\ made = {}

-----------------------------------------------------------------------------
(* The machine *)

\* A write of the service, or of a person to the settings file. DuckDB writes
\* through its log.
Write(f) ==
  /\ ver < MaxVer /\ ver' = ver + 1
  /\ IF f = Conf
       THEN conf' = ver' /\ UNCHANGED <<place, wal, mine, settled>>
       ELSE /\ up /\ place["target"] # Gone
            /\ place' = [place EXCEPT !["target"][f] = ver']
            /\ settled' = [settled EXCEPT !["target"] = place'["target"]]
            /\ mine' = place'["target"]
            /\ wal' = (wal \/ f = Base)
            /\ UNCHANGED conf
  /\ UNCHANGED <<now, snaps, job, up, cmd, beside, kills, cmds, made>>
Tick == now < MaxNow /\ now' = now + 1
        /\ UNCHANGED <<ver, conf, wal, place, settled, snaps, job, up, cmd, beside, kills, cmds, mine, made>>
SetBack == now > 0 /\ kills < MaxKills /\ now' = now - 1 /\ kills' = kills + 1
           /\ UNCHANGED <<ver, conf, wal, place, settled, snaps, job, up, cmd, beside, cmds, mine, made>>

\* The service comes back when nobody holds the upkeep and the state folder is
\* there; a stopped one closed its database, which folds the log in.
Locked == cmd.kind \in {"replace", "promote"}
Start == /\ ~up /\ ~Locked /\ place["target"] # Gone /\ up' = TRUE /\ mine' = place["target"]
         /\ UNCHANGED <<now, ver, conf, wal, place, settled, snaps, job, cmd, beside, kills, cmds, made>>
Stop == /\ up /\ job = IdleJob /\ up' = FALSE /\ wal' = FALSE
        /\ UNCHANGED <<now, ver, conf, place, settled, snaps, job, cmd, beside, kills, cmds, mine, made>>
Kill == /\ up /\ kills < MaxKills /\ kills' = kills + 1 /\ up' = FALSE /\ job' = IdleJob
        /\ UNCHANGED <<now, ver, conf, wal, place, settled, snaps, cmd, beside, cmds, mine, made>>
KillCommand == /\ cmd # IdleCmd /\ kills < MaxKills /\ kills' = kills + 1 /\ cmd' = IdleCmd
               /\ UNCHANGED <<now, ver, conf, wal, place, settled, snaps, job, up, beside, cmds, mine, made>>
\* A power cut: a rename nobody synced may be undone.
PowerCut ==
  /\ kills < MaxKills /\ kills' = kills + 1 /\ up' = FALSE /\ job' = IdleJob /\ cmd' = IdleCmd
  /\ snaps' \in {snaps, [t \in Times |-> IF snaps[t] # Gone /\ t \notin made THEN Gone ELSE snaps[t]]}
  /\ place' \in {place, settled} /\ settled' = place'
  /\ UNCHANGED <<now, ver, conf, wal, beside, cmds, mine, made>>

-----------------------------------------------------------------------------
(* Taking a copy *)

\* SnapshotIfDue and Snapshot up to copyTree: what is recent enough is left
\* alone, the database is checkpointed, half-made copies are swept, and the
\* newest one is the base that links are made to.
Due == \A t \in Listed : now - t >= Every
SnapshotIfDue ==
  /\ up /\ job = IdleJob /\ Due
  /\ wal' = FALSE
  /\ job' = [IdleJob EXCEPT !.at = "tree", !.name = now, !.base = IF Listed = {} THEN Gone ELSE snaps[Newest],
               !.todo = {f \in Names : place["target"][f] # Gone}, !.began = [place["target"] EXCEPT ![Conf] = conf]]
  /\ UNCHANGED <<now, ver, conf, place, settled, snaps, up, cmd, beside, kills, cmds, mine, made>>

\* What the source of the next file is: the state folder, then the extra.
Source(f) == IF job.at = "extra" THEN conf ELSE place["target"][f]
\* The entry's Info, which is taken before the file is read.
Inspect ==
  /\ job.at \in {"tree", "extra"} /\ job.file = Gone
  /\ job.todo # {} /\ job' = [job EXCEPT !.file = First(job.todo), !.label = Source(First(job.todo))]
  /\ UNCHANGED <<now, ver, conf, wal, place, settled, snaps, up, cmd, beside, kills, cmds, mine, made>>

\* link: the base's file, when its size and time are the ones just read.
LinkAnyway(old, label) == old # Gone
MayLink(old, label) == old # Gone /\ old.label = label
Copied(f) ==
  IF f # Base /\ job.base # Gone /\ MayLink(job.base.tree[f], job.label)
    THEN job.base.tree[f]
    ELSE [ver |-> Source(f), label |-> IF f = Base THEN -1 ELSE job.label]
\* The settings file that is not there leaves whatever copyTree put there.
CopyOne ==
  LET f == job.file IN
  /\ job.at \in {"tree", "extra"} /\ f # Gone /\ ~(f = Base /\ wal)
  /\ job' = [job EXCEPT !.file = Gone, !.todo = @ \ {f},
               !.tree[f] = IF Source(f) = Gone THEN @ ELSE Copied(f)]
  /\ UNCHANGED <<now, ver, conf, wal, place, settled, snaps, up, cmd, beside, kills, cmds, mine, made>>
TreeDone ==
  /\ job.at = "tree" /\ job.todo = {}
  /\ job' = [job EXCEPT !.at = "extra", !.todo = IF conf = Gone THEN {} ELSE {Conf}]
  /\ UNCHANGED <<now, ver, conf, wal, place, settled, snaps, up, cmd, beside, kills, cmds, mine, made>>
\* A file that cannot be copied, among them a database that is being written:
\* the half-made copy is removed and the job waits for its next turn.
Abandon ==
  /\ job.at \in {"tree", "extra"} /\ job.file # Gone /\ job' = IdleJob
  /\ UNCHANGED <<now, ver, conf, wal, place, settled, snaps, up, cmd, beside, kills, cmds, mine, made>>

Publish ==
  /\ job.at = "extra" /\ job.todo = {}
  /\ snaps' = [snaps EXCEPT ![job.name] = [tree |-> job.tree, began |-> job.began]]
  /\ job' = [job EXCEPT !.at = "sync"]
  /\ UNCHANGED <<now, ver, conf, wal, place, settled, up, cmd, beside, kills, cmds, mine, made>>
\* syncDir; one that fails leaves the copy where it is, and rotates nothing.
Sync ==
  /\ job.at = "sync" /\ made' = made \cup Listed
  /\ job' = [job EXCEPT !.at = "rotate", !.olds = Listed \ Held]
  /\ UNCHANGED <<now, ver, conf, wal, place, settled, snaps, up, cmd, beside, kills, cmds, mine>>
SyncFails ==
  /\ job.at = "sync" /\ job' = IdleJob
  /\ UNCHANGED <<now, ver, conf, wal, place, settled, snaps, up, cmd, beside, kills, cmds, mine, made>>
\* rotate: RemoveAll of each of the others, one file at a time, in place.
RemoveOne ==
  /\ job.at = "rotate"
  /\ \E t \in job.olds, f \in Names :
       /\ snaps[t].tree[f] # Gone
       /\ snaps' = [snaps EXCEPT ![t].tree[f] = Gone]
  /\ UNCHANGED <<now, ver, conf, wal, place, settled, job, up, cmd, beside, kills, cmds, mine, made>>
RemoveEmpty ==
  /\ job.at = "rotate"
  /\ \E t \in job.olds : /\ snaps[t].tree = NoTree /\ snaps' = [snaps EXCEPT ![t] = Gone]
                         /\ job' = [job EXCEPT !.olds = @ \ {t}]
  /\ UNCHANGED <<now, ver, conf, wal, place, settled, up, cmd, beside, kills, cmds, mine, made>>
Rotated ==
  /\ job.at = "rotate" /\ job.olds = {} /\ job' = IdleJob
  /\ UNCHANGED <<now, ver, conf, wal, place, settled, snaps, up, cmd, beside, kills, cmds, mine, made>>

-----------------------------------------------------------------------------
(* The backup command *)

\* Restore up to copyTree, which reads a copy that nobody keeps in place: a
\* plain restore claims nothing.
Begins == cmd = IdleCmd /\ cmds < MaxCmds /\ cmds' = cmds + 1
Restore(t) ==
  /\ Begins /\ t \in Listed /\ beside = Gone
  /\ cmd' = [at |-> "copy", kind |-> "restore", snap |-> t, todo |-> Names]
  /\ beside' = NoTree
  /\ UNCHANGED <<now, ver, conf, wal, place, settled, snaps, job, up, kills, mine, made>>
\* copyTree of the copy: a file that went with its folder is passed over.
Restored(f, t) == IF snaps[t] = Gone \/ snaps[t].tree[f] = Gone THEN Gone ELSE snaps[t].tree[f].ver
RestoreOne ==
  /\ cmd.at = "copy" /\ cmd.todo # {}
  /\ LET f == First(cmd.todo) IN
     /\ cmd' = [cmd EXCEPT !.todo = @ \ {f}, !.at = IF cmd.todo = {f} THEN "told" ELSE "copy"]
     /\ beside' = [beside EXCEPT ![f] = Restored(f, cmd.snap)]
  /\ UNCHANGED <<now, ver, conf, wal, place, settled, snaps, job, up, kills, cmds, mine, made>>
\* A file that goes between its listing and its reading ends the restore.
RestoreFails ==
  /\ cmd.at = "copy" /\ (snaps[cmd.snap] # Gone => cmd.snap \in job.olds)
  /\ cmd' = IdleCmd /\ beside' = Gone
  /\ UNCHANGED <<now, ver, conf, wal, place, settled, snaps, job, up, kills, cmds, mine, made>>

\* RestoreInPlace up to its renames. It claims upkeep.lock, which the service
\* holds while it runs, so that nothing moves under its copy; a copy cut short
\* leaves its folder behind.
RestoreInPlace(t) ==
  /\ Begins /\ ~up /\ t \in Listed
  /\ place["target"] # Gone /\ place["partial"] = Gone /\ place["previous"] = Gone
  /\ cmd' = [at |-> "copied", kind |-> "replace", snap |-> t, todo |-> {}]
  /\ place' = [place EXCEPT !["partial"] = [f \in Names |-> Restored(f, t)]]
  /\ UNCHANGED <<now, ver, conf, wal, settled, snaps, job, up, beside, kills, mine, made>>

\* The two renames of a replace and of a promote, with the sync after them.
Rename(from, to) == place' = [place EXCEPT ![to] = place[from], ![from] = Gone]
Stage ==
  /\ cmd.at = "copied"
  /\ Rename("target", "previous") /\ cmd' = [cmd EXCEPT !.at = "staged"]
  /\ UNCHANGED <<now, ver, conf, wal, settled, snaps, job, up, beside, kills, cmds, mine, made>>
PromotePrevious ==
  /\ Begins /\ ~up
  /\ place["target"] # Gone /\ place["previous"] # Gone /\ place["current"] = Gone
  /\ Rename("target", "current") /\ cmd' = [IdleCmd EXCEPT !.kind = "promote", !.at = "staged"]
  /\ UNCHANGED <<now, ver, conf, wal, settled, snaps, job, up, beside, kills, mine, made>>
Swap ==
  /\ cmd.at = "staged"
  /\ Rename(IF cmd.kind = "replace" THEN "partial" ELSE "previous", "target")
  /\ cmd' = [cmd EXCEPT !.at = "told"]
  /\ settled' = place'
  /\ UNCHANGED <<now, ver, conf, wal, snaps, job, up, beside, kills, cmds, mine, made>>
\* The second rename fails: the first is taken back.
SwapFails ==
  /\ cmd.at = "staged" /\ cmd' = IdleCmd
  /\ place' = IF cmd.kind = "replace"
                THEN [place EXCEPT !["target"] = place["previous"], !["previous"] = Gone, !["partial"] = Gone]
                ELSE [place EXCEPT !["target"] = place["current"], !["current"] = Gone]
  /\ UNCHANGED <<now, ver, conf, wal, settled, snaps, job, up, beside, kills, cmds, mine, made>>
\* discard --confirm: takes no lock.
DiscardPrevious ==
  /\ Begins /\ place["previous"] # Gone
  /\ place' = [place EXCEPT !["previous"] = Gone] /\ settled' = place'
  /\ mine' = IF place["target"] = mine \/ place["current"] = mine THEN mine ELSE Gone
  /\ UNCHANGED <<now, ver, conf, wal, snaps, job, up, cmd, beside, kills, made>>
\* The command is over; the person takes the restored folder away.
Leave ==
  /\ cmd.at = "told" /\ cmd' = IdleCmd /\ beside' = Gone
  /\ UNCHANGED <<now, ver, conf, wal, place, settled, snaps, job, up, kills, cmds, mine, made>>

Next ==
  \/ \E f \in Names : Write(f)
  \/ Tick \/ SetBack \/ Start \/ Stop \/ Kill \/ KillCommand \/ PowerCut
  \/ SnapshotIfDue \/ Inspect \/ CopyOne \/ TreeDone \/ Abandon \/ Publish \/ Sync \/ SyncFails
  \/ RemoveOne \/ RemoveEmpty \/ Rotated
  \/ \E t \in Times : Restore(t) \/ RestoreInPlace(t)
  \/ RestoreOne \/ RestoreFails \/ Stage \/ PromotePrevious \/ Swap \/ SwapFails
  \/ DiscardPrevious \/ Leave
Spec == Init /\ [][Next]_vars

-----------------------------------------------------------------------------
\* A copy is whole and current when it has, of every file that was there when
\* it began, what the file held then or later.
Whole(s) == \A f \in Names : s.began[f] # Gone => s.tree[f] # Gone /\ s.tree[f].ver >= s.began[f]
\* However the service dies, the newest Keep copies are whole and current.
KeptAreWhole == \A t \in Held : Whole(snaps[t])
\* As many copies stay as were made for good, up to Keep.
EnoughStay == Cardinality({t \in made \cap Listed : Whole(snaps[t])}) >= Min({Keep, Cardinality(made)})
\* A restore that said it is done holds what the copy holds, unless rotation
\* reached that copy.
TellsTheTruth ==
  cmd.at = "told" /\ cmd.kind \in {"restore", "replace"} /\ cmd.snap \in Held =>
    \A f \in Names : snaps[cmd.snap].tree[f] # Gone =>
      (IF cmd.kind = "restore" THEN beside ELSE place["target"])[f] = snaps[cmd.snap].tree[f].ver
\* What the service last wrote is under one of the names until it is discarded.
NothingOfMineLost == mine # Gone => \E s \in Slots : place[s] = mine
\* Copies and restores keep what they are for.
BackupsHold == KeptAreWhole /\ EnoughStay /\ TellsTheTruth /\ NothingOfMineLost
=============================================================================
