----------------------------- MODULE Checkpoint -----------------------------
(***************************************************************************)
(* internal/checkpoint: the paper copy of every run, one JSON file each,   *)
(* replaced whole by write-sync-rename-sync.  The service sweeps and sets  *)
(* aside at its start and prunes on a beat; a command writes into the same *)
(* directory from a process of its own.  A receipt is the verdicts of its  *)
(* closed steps, whether the run is closed, and the run's verdict; a run   *)
(* and the process that makes it share a name.                             *)
(***************************************************************************)
EXTENDS Naturals, FiniteSets

CONSTANTS
  Runs,      \* the runs, each made by a process of its own
  Service,   \* the one of them that is the service: it has the upkeep
  MaxCrashes \* bound on kills and power cuts

VARIABLES
  file,      \* what the directory shows under <id>.json
  durable,   \* what it would show after a power cut
  aside,     \* <id>.json.torn
  temp,      \* the temporary files there are
  save,      \* the Save each process is in
  acked,     \* the last receipt a Save said yes to
  old,       \* receipts whose Updated is before the retention cutoff
  due,       \* the retention mark is older than its interval
  pruned,    \* receipts the retention pass removed, and whether they were closed
  damaged,   \* receipts the disk itself has spoiled
  up,        \* processes that run
  crashes

diskVars == <<file, durable, aside, temp, save, acked, old, due, pruned, damaged, up, crashes>>

Blank == [steps |-> {}, closed |-> FALSE, verdict |-> "none"]
None == [kind |-> "none", body |-> Blank]
Whole(body) == [kind |-> "whole", body |-> body]
Torn == [kind |-> "torn", body |-> Blank]
Idle == [at |-> "idle", body |-> Blank]

DiskTypeOK ==
  /\ \A r \in Runs : /\ file[r].kind \in {"none", "whole", "torn"}
                     /\ save[r].at \in {"idle", "asked", "written", "synced", "renamed", "ok", "error"}
  /\ aside \subseteq Runs /\ temp \subseteq Runs /\ old \subseteq Runs /\ pruned \subseteq Runs \X BOOLEAN
  /\ up \subseteq Runs /\ due \in BOOLEAN /\ crashes \in 0..MaxCrashes

DiskInit ==
  /\ file = [r \in Runs |-> None] /\ durable = file /\ acked = file
  /\ aside = {} /\ temp = {} /\ old = {} /\ pruned = {} /\ damaged = {}
  /\ save = [r \in Runs |-> Idle]
  /\ due = TRUE /\ up = {} /\ crashes = 0

-----------------------------------------------------------------------------
(* Save, under the store's mutex: one at a time in a process. *)

Moves(r, at) == save' = [save EXCEPT ![r].at = at]
Asked(r, body) == save' = [save EXCEPT ![r] = [at |-> "asked", body |-> body]]

\* MkdirAll, CreateTemp and the write.
SaveWrites(r) ==
  /\ save[r].at = "asked" /\ Moves(r, "written")
  /\ temp' = temp \cup {r}
  /\ UNCHANGED <<file, durable, aside, acked, old, due, pruned, damaged, up, crashes>>
SaveSyncs(r) ==
  /\ save[r].at = "written" /\ Moves(r, "synced")
  /\ UNCHANGED <<file, durable, aside, temp, acked, old, due, pruned, damaged, up, crashes>>
\* The rename needs the temporary file to be there still.
SaveRenames(r) ==
  /\ save[r].at = "synced" /\ r \in temp /\ Moves(r, "renamed")
  /\ file' = [file EXCEPT ![r] = Whole(save[r].body)]
  /\ temp' = temp \ {r} /\ old' = old \ {r}
  /\ UNCHANGED <<durable, aside, acked, due, pruned, damaged, up, crashes>>

\* Mutant: the directory is not synced before the answer.
SaveReturnsUnsynced(r) ==
  /\ save[r].at = "renamed" /\ Moves(r, "ok")
  /\ acked' = [acked EXCEPT ![r] = Whole(save[r].body)]
  /\ UNCHANGED <<file, durable, aside, temp, old, due, pruned, damaged, up, crashes>>
SaveReturns(r) ==
  /\ save[r].at = "renamed" /\ Moves(r, "ok")
  /\ durable' = file
  /\ acked' = [acked EXCEPT ![r] = Whole(save[r].body)]
  /\ UNCHANGED <<file, aside, temp, old, due, pruned, damaged, up, crashes>>

\* Any of the calls fails: the deferred removal takes the temporary file, and a
\* rename that happened stays.
SaveFails(r) ==
  /\ save[r].at \in {"asked", "written", "synced", "renamed"} /\ Moves(r, "error")
  /\ temp' = temp \ {r}
  /\ UNCHANGED <<file, durable, aside, acked, old, due, pruned, damaged, up, crashes>>

Saving(r) == SaveWrites(r) \/ SaveSyncs(r) \/ SaveRenames(r) \/ SaveReturns(r) \/ SaveFails(r)

-----------------------------------------------------------------------------
\* Recover, by the service before it accepts anything: every temporary file goes,
\* a command's included, and what does not read is set aside.
Recover ==
  /\ Service \notin up /\ up' = up \cup {Service}
  /\ LET torn == {r \in Runs : file[r].kind = "torn"} IN
     /\ aside' = aside \cup torn
     /\ file' = [r \in Runs |-> IF r \in torn THEN None ELSE file[r]]
  /\ temp' = {}
  /\ UNCHANGED <<durable, save, acked, old, due, pruned, damaged, crashes>>
CommandStarts(r) ==
  /\ r # Service /\ r \notin up /\ save[r] = Idle /\ up' = up \cup {r}
  /\ UNCHANGED <<file, durable, aside, temp, save, acked, old, due, pruned, damaged, crashes>>

\* Mutant: age alone decides.
PrunableByAge(r) == file[r].kind = "whole" /\ r \in old
Prunable(r) == file[r].kind = "whole" /\ file[r].body.closed /\ r \in old
\* PruneIfDue with Prune: read whole, closed, and old by the run's own account.
\* The mark follows the pass; when it cannot be written the pass stays due.
Prune ==
  /\ Service \in up /\ due
  /\ LET gone == {r \in Runs : Prunable(r)} IN
     /\ file' = [r \in Runs |-> IF r \in gone THEN None ELSE file[r]]
     /\ durable' = IF gone = {} THEN durable ELSE file'
     /\ pruned' = pruned \cup {<<r, file[r].body.closed>> : r \in gone}
  /\ due' \in BOOLEAN
  /\ UNCHANGED <<aside, temp, save, acked, old, damaged, up, crashes>>
\* Retention counts in days: a Save is over before its receipt is old.
TimePasses ==
  /\ \E r \in Runs : file[r].kind # "none" /\ save[r].at = "idle" /\ r \notin old /\ old' = old \cup {r}
  /\ due' = TRUE
  /\ UNCHANGED <<file, durable, aside, temp, save, acked, pruned, damaged, up, crashes>>

-----------------------------------------------------------------------------
(* What the machine does. *)

Stopped(ps) == up' = up \ ps /\ save' = [r \in Runs |-> IF r \in ps THEN Idle ELSE save[r]]
Kill(r) ==
  /\ r \in up /\ crashes < MaxCrashes /\ crashes' = crashes + 1
  /\ Stopped({r})
  /\ UNCHANGED <<file, durable, aside, temp, acked, old, due, pruned, damaged>>
\* Renames the directory was not synced after may or may not have happened.
PowerCut ==
  /\ up # {} /\ crashes < MaxCrashes /\ crashes' = crashes + 1
  /\ Stopped(up)
  /\ \E lost \in SUBSET Runs :
       file' = [r \in Runs |-> IF r \in lost THEN durable[r] ELSE file[r]]
  /\ durable' = file'
  /\ UNCHANGED <<aside, temp, acked, old, due, pruned, damaged>>
\* A disk spoils a receipt.
Damage(r) ==
  /\ file[r].kind = "whole" /\ damaged = {} /\ crashes < MaxCrashes
  /\ file' = [file EXCEPT ![r] = Torn] /\ durable' = [durable EXCEPT ![r] = Torn]
  /\ damaged' = {r}
  /\ UNCHANGED <<aside, temp, save, acked, old, due, pruned, up, crashes>>

-----------------------------------------------------------------------------
Covers(f, a) == f.kind = "whole" /\ a.body.steps \subseteq f.body.steps /\ (a.body.closed => f.body.closed)
\* What a Save said yes to is on the disk, whatever is killed and whenever the
\* power goes, until retention takes the closed receipt of a finished run
\* (Save's sync, rename, sync; Prune). And no receipt is torn by Atenea itself.
ReceiptsSurvive ==
  \A r \in Runs \ damaged :
     /\ file[r].kind # "torn"
     /\ acked[r].kind = "whole" => Covers(file[r], acked[r]) \/ <<r, TRUE>> \in pruned

\* What Recover's comment says: the mutex is "held for the whole pass so that a
\* dump being written right now cannot have its temporary file swept".
LiveDumpsAreNotSwept == \A r \in Runs : save[r].at \in {"written", "synced"} => r \in temp
=============================================================================
