--------------------------- MODULE UpkeepProofs ----------------------------
(* What the systems of Upkeep promise, for every value of their constants: an
   activation (Activation), the readings of the servers (Readings), the hub
   (Hub), the quality ledger (Quality) with the sums it needs, the backups
   (Backup), the statistics of tool calls (ToolStats) and the settings the core
   is built from (Settings). The last section carries the results over to the
   composition. *)
EXTENDS Upkeep, SequenceTheorems, FiniteSetTheorems, WellFoundedInduction, TLAPS

-----------------------------------------------------------------------------
(* Activation: the lock, the row it protects, and what was authorized. *)

Rows == [status : {"proposed", "applying", "applied"}, evidence : Evidence, path : Paths \cup {None}]
Commands == [at : {"idle", "probed", "got", "apply", "write", "applied"}, path : Paths \cup {None}, found : Evidence \cup {None}]

ActivationTypes ==
  /\ row \in Rows \cup {None} /\ settings \in [Paths -> Evidence \cup {None}] /\ agreed \in [Paths -> SUBSET Evidence]
  /\ order \in [Cmds -> Commands]
  /\ \A c \in Cmds : /\ order[c].at \in {"probed", "got"} => order[c].found \in Evidence
                     /\ order[c].at \in {"got", "apply", "write", "applied"} => order[c].path \in Paths /\ row \in Rows

ActivationInv == ActivationTypes /\ A!OnlyTheAuthorized

\* Nobody else is between the two saves of an activation.
LEMMA AloneUnderLock ==
  ASSUME None \notin Cmds, ActivationInv, NEW c \in Cmds, NEW d \in Cmds \ {c}, locked \in {c, None}
  PROVE  order[d].at \notin {"apply", "write", "applied"}
BY DEF ActivationInv, A!OnlyTheAuthorized

\* A command that goes on, or ends, and changes nothing that is written.
LEMMA CommandMoves ==
  ASSUME None \notin Cmds, ActivationInv, NEW c \in Cmds, NEW k \in Commands, order' = [order EXCEPT ![c] = k],
         UNCHANGED <<row, settings, agreed>>,
         \/ k.at = "idle" /\ locked' = IF locked = c THEN None ELSE locked
         \/ k.at \in {"probed", "got"} /\ k.found \in Evidence /\ order[c].at = "idle" /\ locked' = locked
            /\ (k.at = "got" => k.path \in Paths /\ row \in Rows)
         \/ k.at \in {"write", "applied"} /\ order[c].at \in {"apply", "write"} /\ locked' = locked
            /\ k.path = order[c].path /\ k.found = order[c].found
  PROVE  ActivationInv'
<1>1. ActivationTypes /\ A!OnlyTheAuthorized
  BY DEF ActivationInv
<1>2. order' \in [Cmds -> Commands] /\ order'[c] = k /\ \A d \in Cmds \ {c} : order'[d] = order[d]
  BY <1>1 DEF ActivationTypes
<1>3. ActivationTypes'
  BY <1>1, <1>2 DEF ActivationTypes
<1>4. A!OnlyTheAuthorized'
  <2>1. ASSUME NEW d \in Cmds, order'[d].at \in {"apply", "write", "applied"}
        PROVE  locked' = d /\ row'.status = "applying" /\ row'.path = order'[d].path /\ row'.evidence = order'[d].found
    <3>1. order[d].at \in {"apply", "write", "applied"} /\ order'[d].path = order[d].path /\ order'[d].found = order[d].found
      BY <1>2, <2>1
    <3>2. locked = d /\ row.status = "applying" /\ row.path = order[d].path /\ row.evidence = order[d].found
      BY <1>1, <3>1 DEF A!OnlyTheAuthorized
    <3> QED BY <1>2, <2>1, <3>1, <3>2
  <2> QED BY <1>1, <2>1 DEF A!OnlyTheAuthorized
<1> QED BY <1>3, <1>4 DEF ActivationInv

LEMMA CommandEnds ==
  ASSUME None \notin Cmds, ActivationInv, NEW c \in Cmds, A!Ends(c), UNCHANGED <<row, settings, agreed>>
  PROVE  ActivationInv'
<1>1. A!Idle \in Commands /\ A!Idle.at = "idle"
  BY DEF A!Idle, Commands
<1> QED BY <1>1, CommandMoves DEF A!Ends

\* The row moves, or a file does, with nobody between the two saves but c.
LEMMA ActivationWrites ==
  ASSUME None \notin Cmds, ActivationInv, NEW c \in Cmds, NEW k \in Commands, order' = [order EXCEPT ![c] = k],
         locked \in {c, None}, row' \in Rows, settings' \in [Paths -> Evidence \cup {None}], agreed' \in [Paths -> SUBSET Evidence],
         k.at \in {"idle", "apply", "applied"},
         k.at # "idle" => locked' = c /\ row'.status = "applying" /\ row'.path = k.path /\ row'.evidence = k.found /\ k.path \in Paths,
         \A p \in Paths : settings'[p] # None => settings'[p] \in agreed'[p]
  PROVE  ActivationInv'
<1>1. ActivationTypes /\ A!OnlyTheAuthorized
  BY DEF ActivationInv
<1>2. order' \in [Cmds -> Commands] /\ order'[c] = k /\ \A d \in Cmds \ {c} : order'[d] = order[d]
  BY <1>1 DEF ActivationTypes
<1>3. \A d \in Cmds \ {c} : order[d].at \notin {"apply", "write", "applied"}
  BY AloneUnderLock
<1>4. ActivationTypes'
  <2>1. ASSUME NEW d \in Cmds
        PROVE  /\ order'[d].at \in {"probed", "got"} => order'[d].found \in Evidence
               /\ order'[d].at \in {"got", "apply", "write", "applied"} => order'[d].path \in Paths
    BY <1>1, <1>2, <1>3, <2>1 DEF ActivationTypes
  <2> QED BY <1>2, <2>1 DEF ActivationTypes
<1>5. A!OnlyTheAuthorized'
  BY <1>2, <1>3 DEF A!OnlyTheAuthorized
<1> QED BY <1>4, <1>5 DEF ActivationInv

LEMMA ActivationNext ==
  ASSUME None \notin Cmds, ActivationInv, [A!Next]_A!vars
  PROVE  ActivationInv'
<1>1. ActivationTypes /\ A!OnlyTheAuthorized
  BY DEF ActivationInv
<1>2. CASE UNCHANGED A!vars
  BY <1>1, <1>2 DEF ActivationInv, ActivationTypes, A!OnlyTheAuthorized, A!vars
<1>3. ASSUME NEW c \in Cmds, A!Propose(c) PROVE ActivationInv'
  <2>1. PICK e \in Evidence : order' = [order EXCEPT ![c] = [at |-> "probed", path |-> None, found |-> e]]
    BY <1>3 DEF A!Propose
  <2>2. PICK k : k = [at |-> "probed", path |-> None, found |-> e]
    OBVIOUS
  <2>3. k \in Commands /\ k.at = "probed" /\ k.found \in Evidence
    BY <2>2 DEF Commands
  <2>4. order' = [order EXCEPT ![c] = k]
    BY <2>1, <2>2
  <2>5. locked' = locked /\ UNCHANGED <<row, settings, agreed>> /\ order[c] = A!Idle
    BY <1>3 DEF A!Propose, A!Starts
  <2>6. order[c].at = "idle"
    BY <2>5 DEF A!Idle
  <2> QED BY <2>3, <2>4, <2>5, <2>6, CommandMoves
<1>4. ASSUME NEW c \in Cmds, A!Put(c) PROVE ActivationInv'
  <2>1. PICK k : k = A!Idle
    OBVIOUS
  <2>2. k \in Commands /\ k.at = "idle"
    BY <2>1 DEF A!Idle, Commands
  <2>3. order[c].found \in Evidence /\ locked = None
    BY <1>1, <1>4 DEF ActivationTypes, A!Put
  <2>4. row' \in Rows
    BY <1>1, <1>4, <2>3 DEF A!Put, A!Replaceable, Rows, ActivationTypes
  <2>5. /\ settings' \in [Paths -> Evidence \cup {None}] /\ agreed' \in [Paths -> SUBSET Evidence]
        /\ \A p \in Paths : settings'[p] # None => settings'[p] \in agreed'[p]
    BY <1>1, <1>4 DEF A!Put, ActivationTypes, A!OnlyTheAuthorized
  <2> QED BY <1>4, <2>1, <2>2, <2>3, <2>4, <2>5, ActivationWrites DEF A!Put, A!Ends
<1>5. ASSUME NEW c \in Cmds, NEW p \in Paths, A!Get(c, p) PROVE ActivationInv'
  <2>1. PICK k : k = [at |-> "got", path |-> p, found |-> row.evidence]
    OBVIOUS
  <2>2. row \in Rows /\ row.evidence \in Evidence
    BY <1>1, <1>5 DEF A!Get, ActivationTypes, Rows
  <2>3. k \in Commands /\ k.at = "got" /\ k.found \in Evidence /\ k.path \in Paths
    BY <2>1, <2>2 DEF Commands
  <2>4. order' = [order EXCEPT ![c] = k] /\ order[c].at = "idle" /\ locked' = locked /\ UNCHANGED <<row, settings, agreed>>
    BY <1>5, <2>1 DEF A!Get, A!Starts, A!Idle
  <2> QED BY <2>2, <2>3, <2>4, CommandMoves
<1>6. ASSUME NEW c \in Cmds, A!Activate(c) PROVE ActivationInv'
  <2>1. CASE A!Activatable(c)
    <3>1. PICK k : k = [order[c] EXCEPT !.at = "apply"]
      OBVIOUS
    <3>2. order[c] \in Commands /\ row \in Rows /\ order[c].path \in Paths
      BY <1>1, <1>6 DEF A!Activate, ActivationTypes
    <3>3. k \in Commands /\ k.at = "apply" /\ k.path = order[c].path /\ k.found = order[c].found
      BY <3>1, <3>2 DEF Commands
    <3>4. order' = [order EXCEPT ![c] = k] /\ locked = None /\ locked' = c
      BY <1>6, <2>1, <3>1 DEF A!Activate, A!Becomes
    <3>5. row' \in Rows /\ row'.status = "applying" /\ row'.path = k.path /\ row'.evidence = k.found
      BY <1>6, <2>1, <3>2, <3>3 DEF A!Activate, A!Activatable, Rows
    <3>6. /\ settings' \in [Paths -> Evidence \cup {None}] /\ agreed' \in [Paths -> SUBSET Evidence]
          /\ \A p \in Paths : settings'[p] # None => settings'[p] \in agreed'[p]
      BY <1>1, <1>6 DEF A!Activate, ActivationTypes, A!OnlyTheAuthorized
    <3> QED BY <3>2, <3>3, <3>4, <3>5, <3>6, ActivationWrites
  <2>2. CASE ~A!Activatable(c)
    BY <1>6, <2>2, CommandEnds DEF A!Activate
  <2> QED BY <2>1, <2>2
<1>7. ASSUME NEW c \in Cmds, A!Apply(c) PROVE ActivationInv'
  <2>0. order[c] \in Commands /\ order[c].at = "apply" /\ UNCHANGED <<row, settings, agreed>>
    BY <1>1, <1>7 DEF A!Apply, ActivationTypes
  <2>1. ASSUME NEW at \in {"write", "applied"}, order' = [order EXCEPT ![c].at = at], locked' = locked
        PROVE  ActivationInv'
    <3>1. PICK k : k = [order[c] EXCEPT !.at = at]
      OBVIOUS
    <3>2. k \in Commands /\ k.at = at /\ k.path = order[c].path /\ k.found = order[c].found
      BY <2>0, <3>1 DEF Commands
    <3> QED BY <2>0, <2>1, <3>1, <3>2, CommandMoves
  <2>2. CASE A!Ends(c)
    BY <2>0, <2>2, CommandEnds
  <2> QED BY <1>7, <2>1, <2>2 DEF A!Apply, A!Becomes
<1>8. ASSUME NEW c \in Cmds, A!Rename(c) PROVE ActivationInv'
  <2>1. PICK k : k = [order[c] EXCEPT !.at = "applied"]
    OBVIOUS
  <2>2. /\ order[c] \in Commands /\ row \in Rows /\ order[c].path \in Paths /\ locked = c /\ row.status = "applying"
        /\ row.path = order[c].path /\ row.evidence = order[c].found
    BY <1>1, <1>8 DEF A!Rename, ActivationTypes, A!OnlyTheAuthorized
  <2>3. k \in Commands /\ k.at = "applied" /\ k.path = order[c].path /\ k.found = order[c].found
    BY <2>1, <2>2 DEF Commands
  <2>4. order' = [order EXCEPT ![c] = k] /\ locked' = locked /\ row' = row
    BY <1>8, <2>1 DEF A!Rename, A!Becomes
  <2>5. row.evidence \in Evidence
    BY <2>2 DEF Rows
  <2>6. /\ settings' = [settings EXCEPT ![order[c].path] = row.evidence]
        /\ agreed' = [agreed EXCEPT ![order[c].path] = agreed[order[c].path] \cup {order[c].found}]
    BY <1>8 DEF A!Rename
  <2>7. settings' \in [Paths -> Evidence \cup {None}] /\ agreed' \in [Paths -> SUBSET Evidence]
    BY <1>1, <2>2, <2>5, <2>6 DEF ActivationTypes
  <2>8. \A p \in Paths : settings'[p] # None => settings'[p] \in agreed'[p]
    BY <1>1, <2>2, <2>6 DEF ActivationTypes, A!OnlyTheAuthorized
  <2> QED BY <2>2, <2>3, <2>4, <2>7, <2>8, ActivationWrites
<1>9. ASSUME NEW c \in Cmds, A!RenameFails(c) PROVE ActivationInv'
  BY <1>9, CommandEnds DEF A!RenameFails
<1>10. ASSUME NEW c \in Cmds, A!Applied(c) PROVE ActivationInv'
  <2>1. PICK k : k = A!Idle
    OBVIOUS
  <2>2. k \in Commands /\ k.at = "idle"
    BY <2>1 DEF A!Idle, Commands
  <2>3. locked = c /\ row \in Rows
    BY <1>1, <1>10 DEF A!Applied, ActivationTypes, A!OnlyTheAuthorized
  <2>4. row' \in Rows
    BY <1>10, <2>3 DEF A!Applied, Rows
  <2>5. /\ settings' \in [Paths -> Evidence \cup {None}] /\ agreed' \in [Paths -> SUBSET Evidence]
        /\ \A p \in Paths : settings'[p] # None => settings'[p] \in agreed'[p]
    BY <1>1, <1>10 DEF A!Applied, ActivationTypes, A!OnlyTheAuthorized
  <2> QED BY <1>10, <2>1, <2>2, <2>3, <2>4, <2>5, ActivationWrites DEF A!Applied, A!Ends
<1>11. ASSUME NEW c \in Cmds, A!Kill(c) PROVE ActivationInv'
  BY <1>11, CommandEnds DEF A!Kill
<1>12. ASSUME NEW p \in Paths, A!Edit(p) PROVE ActivationInv'
  <2>1. PICK e \in Evidence \cup {None} :
          /\ settings' = [settings EXCEPT ![p] = e] /\ agreed' = [agreed EXCEPT ![p] = IF e = None THEN {} ELSE {e}]
    BY <1>12 DEF A!Edit
  <2>2. ActivationTypes'
    BY <1>1, <1>12, <2>1 DEF A!Edit, ActivationTypes
  <2>3. A!OnlyTheAuthorized'
    BY <1>1, <1>12, <2>1 DEF A!Edit, ActivationTypes, A!OnlyTheAuthorized
  <2> QED BY <2>2, <2>3 DEF ActivationInv
<1> QED BY <1>2, <1>3, <1>4, <1>5, <1>6, <1>7, <1>8, <1>9, <1>10, <1>11, <1>12 DEF A!Next

LEMMA ActivationHolds ==
  ASSUME None \notin Cmds
  PROVE  A!Spec => []A!OnlyTheAuthorized
<1>1. A!Init => ActivationInv
  BY DEF A!Init, A!Idle, ActivationInv, ActivationTypes, Commands, A!OnlyTheAuthorized
<1>2. ActivationInv /\ [A!Next]_A!vars => ActivationInv'
  BY ActivationNext
<1>3. ActivationInv => A!OnlyTheAuthorized
  BY DEF ActivationInv
<1> QED BY <1>1, <1>2, <1>3, PTL DEF A!Spec

-----------------------------------------------------------------------------
(* Readings: what is shown of a server was proved by it, and survives. *)

States == {"unknown", "ok", "failed"}
Protocols == {"legacy", "modern"}
Reading == [state : States, why : {"", "error", "note"}, era : Protocols \cup {"unknown"}]
Probes == [at : Protocols \cup {"idle", "done"}, noise : Nat, asked : BOOLEAN, result : Reading]
Underway == [at : Backends \cup {"idle"}, of : {"", "neutral", "note"}, read : Reading]
ReadingTypes ==
  /\ speaks \in [Backends -> SUBSET Protocols] /\ proved \in [Backends -> SUBSET States]
  /\ probe \in [Backends -> Probes]
  /\ mem \in [Backends -> Reading] /\ disk \in [Backends -> Reading]
  /\ call \in [Callers -> Underway]
Earned(s, r) == r.state \in proved[s] /\ r.era \in speaks[s] \cup {"unknown"}
\* Wherever a reading is, on its way or filed, its server earned it; and what
\* a note or a call that decides nothing will file, too.
AllEarned ==
  /\ \A s \in Backends : "unknown" \in proved[s] /\ Earned(s, probe[s].result) /\ Earned(s, mem[s]) /\ Earned(s, disk[s])
  /\ \A c \in Callers : call[c].at # "idle" =>
       Earned(call[c].at, call[c].read) /\ (call[c].of = "note" => "ok" \in proved[call[c].at])
ReadingsInv == ReadingTypes /\ AllEarned /\ (saved => disk = mem)

\* What there is before there is anything.
LEMMA NoReading ==
  /\ R!Unknown \in Reading /\ R!Unknown.state = "unknown" /\ R!Unknown.era = "unknown"
  /\ R!Quiet \in Probes /\ R!Quiet.result = R!Unknown
  /\ R!Idle \in Underway /\ R!Idle.at = "idle"
<1>1. R!Unknown \in Reading /\ R!Unknown.state = "unknown" /\ R!Unknown.era = "unknown"
  BY DEF R!Unknown, Reading, States
<1>2. R!Quiet \in Probes /\ R!Quiet.result = R!Unknown
  BY <1>1 DEF R!Quiet, Probes
<1>3. R!Idle \in Underway /\ R!Idle.at = "idle"
  BY <1>1 DEF R!Idle, Underway
<1> QED BY <1>1, <1>2, <1>3

\* record and persistLocked of a reading that was earned.
LEMMA Records ==
  ASSUME ReadingsInv, NEW s \in Backends, NEW r \in Reading, R!Record(s, r)
  PROVE  /\ mem' \in [Backends -> Reading] /\ disk' \in [Backends -> Reading] /\ (saved' => disk' = mem')
         /\ \A t \in Backends : /\ mem'[t] = mem[t] \/ (t = s /\ mem'[t] = r)
                                /\ disk'[t] = disk[t] \/ disk'[t] = mem'[t]
<1>1. mem' \in [Backends -> Reading] /\ \A t \in Backends : mem'[t] = IF t = s THEN r ELSE mem[t]
  BY DEF R!Record, ReadingsInv, ReadingTypes
<1>2. disk' = disk \/ disk' = mem'
  BY DEF R!Record
<1>3. ASSUME saved' PROVE disk' = mem'
  <2>1. CASE R!Repeats(s, r)
    <3>1. mem' = mem /\ disk' = disk /\ saved' = saved
      BY <2>1 DEF R!Record, R!Repeats, ReadingsInv, ReadingTypes
    <3> QED BY <1>3, <3>1 DEF ReadingsInv
  <2>2. CASE ~R!Repeats(s, r)
    BY <1>3, <2>2 DEF R!Record
  <2> QED BY <2>1, <2>2
<1> QED BY <1>1, <1>2, <1>3 DEF ReadingsInv, ReadingTypes

\* A probe goes on, or ends with what it proved.
LEMMA ProbeMoves ==
  ASSUME ReadingsInv, NEW s \in Backends, UNCHANGED <<speaks, mem, disk, saved, call>>,
         NEW p \in Probes,
         probe' = [probe EXCEPT ![s] = p], proved' \in [Backends -> SUBSET States],
         \A t \in Backends : proved[t] \subseteq proved'[t],
         p.result.state \in proved'[s], p.result.era \in speaks[s] \cup {"unknown"}
  PROVE  ReadingsInv'
<1>1. ReadingTypes /\ AllEarned
  BY DEF ReadingsInv
<1>2. ReadingTypes'
  BY <1>1 DEF ReadingTypes
<1>3. ASSUME NEW t \in Backends
      PROVE  "unknown" \in proved'[t] /\ Earned(t, probe[t].result)' /\ Earned(t, mem[t])' /\ Earned(t, disk[t])'
  <2>1. "unknown" \in proved[t] /\ Earned(t, probe[t].result) /\ Earned(t, mem[t]) /\ Earned(t, disk[t])
    BY <1>1 DEF AllEarned
  <2>2. probe'[t] = IF t = s THEN p ELSE probe[t]
    BY <1>1 DEF ReadingTypes
  <2>3. Earned(t, probe[t].result)'
    BY <2>1, <2>2 DEF Earned
  <2> QED BY <2>1, <2>3 DEF Earned
<1>4. ASSUME NEW c \in Callers, call'[c].at # "idle"
      PROVE  Earned(call[c].at, call[c].read)' /\ (call'[c].of = "note" => "ok" \in proved'[call'[c].at])
  <2>1. call[c].at \in Backends
    BY <1>1, <1>4 DEF ReadingTypes, Underway
  <2> QED BY <1>1, <1>4, <2>1 DEF AllEarned, Earned
<1>5. AllEarned'
  BY <1>3, <1>4 DEF AllEarned
<1> QED BY <1>2, <1>5 DEF ReadingsInv

LEMMA ProbeEnds ==
  ASSUME ReadingsInv, NEW s \in Backends, UNCHANGED R!otherVars, NEW state \in States, NEW why \in {"", "error"},
         NEW era \in speaks[s] \cup {"unknown"}, R!Ends(s, state, why, era)
  PROVE  ReadingsInv'
<1>1. ReadingTypes /\ era \in Protocols \cup {"unknown"}
  BY DEF ReadingsInv, ReadingTypes
<1>2. PICK r : r = [state |-> state, why |-> why, era |-> era]
  OBVIOUS
<1>3. r \in Reading /\ r.state = state /\ r.era = era
  BY <1>1, <1>2 DEF Reading
<1>4. PICK p : p = [R!Quiet EXCEPT !.at = "done", !.result = r]
  OBVIOUS
<1>5. p \in Probes /\ p.result = r
  BY <1>3, <1>4, NoReading DEF Probes
<1>6. probe' = [probe EXCEPT ![s] = p] /\ UNCHANGED <<speaks, mem, disk, saved, call>>
  BY <1>2, <1>4 DEF R!Ends, R!otherVars, R!setup
<1>7. /\ proved' \in [Backends -> SUBSET States] /\ state \in proved'[s] /\ \A t \in Backends : proved[t] \subseteq proved'[t]
  BY <1>1 DEF R!Ends, ReadingTypes
<1> QED BY <1>3, <1>5, <1>6, <1>7, ProbeMoves

LEMMA ProbeSteps ==
  ASSUME ReadingsInv, NEW s \in Backends,
         \/ R!Answers(s) \/ R!Declines(s) \/ R!Errs(s) \/ R!Exits(s) \/ R!Expires(s)
         \/ \E b \in BOOLEAN : R!Noise(s, b)
  PROVE  ReadingsInv'
<1>1. UNCHANGED R!otherVars
  BY DEF R!Answers, R!Declines, R!Errs, R!Exits, R!Expires, R!Noise
<1>2. ReadingTypes /\ AllEarned /\ UNCHANGED <<speaks, mem, disk, saved, call>>
  BY <1>1 DEF ReadingsInv, R!otherVars, R!setup
<1>3. CASE R!Fails(s)
  BY <1>1, <1>3, ProbeEnds DEF R!Fails, States
<1>4. CASE R!Answers(s)
  <2>1. probe[s].at \in speaks[s] /\ R!Ends(s, "ok", "", probe[s].at)
    BY <1>4 DEF R!Answers
  <2> QED BY <1>1, <2>1, ProbeEnds DEF States
<1>5. ASSUME probe' = [probe EXCEPT ![s] = [R!Quiet EXCEPT !.at = "legacy"]], proved' = proved PROVE ReadingsInv'
  <2>1. PICK p : p = [R!Quiet EXCEPT !.at = "legacy"]
    OBVIOUS
  <2>2. p \in Probes /\ p.result = R!Unknown
    BY <2>1, NoReading DEF Probes, Protocols
  <2> QED BY <1>2, <1>5, <2>1, <2>2, NoReading, ProbeMoves DEF AllEarned, ReadingTypes
<1>6. CASE R!FallsBack(s)
  BY <1>3, <1>5, <1>6 DEF R!FallsBack
<1>7. ASSUME NEW b \in BOOLEAN, R!Noise(s, b), ~R!Fails(s) PROVE ReadingsInv'
  <2>1. probe' = [probe EXCEPT ![s].noise = probe[s].noise + 1, ![s].asked = probe[s].asked \/ b] /\ proved' = proved
    BY <1>7 DEF R!Noise
  <2>2. PICK noise \in Nat, asked \in BOOLEAN : noise = probe[s].noise + 1 /\ asked = (probe[s].asked \/ b)
    <3>1. probe[s].noise + 1 \in Nat
      <4>1. probe[s] \in Probes
        BY <1>2 DEF ReadingTypes
      <4>2. probe[s].noise \in Nat
        BY <4>1 DEF Probes
      <4> QED BY <4>2
    <3>2. (probe[s].asked \/ b) \in BOOLEAN
      OBVIOUS
    <3> QED BY <3>1, <3>2, Zenon
  <2>3. PICK p : p = [probe[s] EXCEPT !.noise = noise, !.asked = asked]
    OBVIOUS
  <2>4. p \in Probes /\ p.result = probe[s].result
    BY <1>2, <2>2, <2>3, ZenonT(60) DEF ReadingTypes, Probes
  <2>5. probe' = [probe EXCEPT ![s] = p]
    BY <1>2, <2>1, <2>2, <2>3 DEF ReadingTypes, Probes
  <2>6. probe[s].result.state \in proved[s] /\ probe[s].result.era \in speaks[s] \cup {"unknown"}
    BY <1>2 DEF AllEarned, Earned
  <2> QED BY <1>2, <2>1, <2>4, <2>5, <2>6, ProbeMoves DEF ReadingTypes
<1> QED BY <1>3, <1>4, <1>6, <1>7 DEF R!Declines, R!Errs, R!Exits, R!Expires

\* A reading that was earned is filed.
LEMMA ReadingFiled ==
  ASSUME ReadingsInv, NEW s \in Backends, NEW r \in Reading, R!Record(s, r), speaks' = speaks,
         proved' \in [Backends -> SUBSET States], \A t \in Backends : proved[t] \subseteq proved'[t],
         r.state \in proved'[s], r.era \in speaks[s] \cup {"unknown"},
         probe' \in [Backends -> Probes],
         \A t \in Backends : probe'[t].result = probe[t].result \/ probe'[t].result = R!Unknown,
         call' \in [Callers -> Underway],
         \A c \in Callers : call'[c] = call[c] \/ call'[c].at = "idle"
  PROVE  ReadingsInv'
<1>1. ReadingTypes /\ AllEarned
  BY DEF ReadingsInv
<1>2. /\ mem' \in [Backends -> Reading] /\ disk' \in [Backends -> Reading] /\ (saved' => disk' = mem')
      /\ \A t \in Backends : /\ mem'[t] = mem[t] \/ (t = s /\ mem'[t] = r)
                             /\ disk'[t] = disk[t] \/ disk'[t] = mem'[t]
  BY Records
<1>3. ReadingTypes'
  BY <1>1, <1>2 DEF ReadingTypes
<1>4. ASSUME NEW t \in Backends
      PROVE  "unknown" \in proved'[t] /\ Earned(t, probe[t].result)' /\ Earned(t, mem[t])' /\ Earned(t, disk[t])'
  <2>1. "unknown" \in proved[t] /\ Earned(t, probe[t].result) /\ Earned(t, mem[t]) /\ Earned(t, disk[t])
    BY <1>1 DEF AllEarned
  <2>2. R!Unknown.state = "unknown" /\ R!Unknown.era = "unknown"
    BY DEF R!Unknown
  <2>3. Earned(t, mem[t])'
    BY <1>2, <2>1 DEF Earned
  <2>4. Earned(t, disk[t])'
    BY <1>2, <2>1, <2>3 DEF Earned
  <2>5. Earned(t, probe[t].result)'
    BY <2>1, <2>2 DEF Earned
  <2> QED BY <2>1, <2>3, <2>4, <2>5
<1>5. ASSUME NEW c \in Callers, call'[c].at # "idle"
      PROVE  Earned(call[c].at, call[c].read)' /\ (call'[c].of = "note" => "ok" \in proved'[call'[c].at])
  <2>1. call'[c] = call[c] /\ call[c].at \in Backends
    BY <1>1, <1>5 DEF ReadingTypes, Underway
  <2> QED BY <1>1, <1>5, <2>1 DEF AllEarned, Earned
<1>6. AllEarned'
  BY <1>4, <1>5 DEF AllEarned
<1> QED BY <1>2, <1>3, <1>6 DEF ReadingsInv

\* A sweep begins, its last probe is in, or the service starts again.
LEMMA SweepSteps ==
  ASSUME ReadingsInv, R!Sweep \/ R!AllIn \/ R!Restart \/ UNCHANGED R!vars
  PROVE  ReadingsInv'
<1>1. ReadingTypes /\ AllEarned
  BY DEF ReadingsInv
<1>2. R!Unknown.state = "unknown" /\ R!Unknown.era = "unknown"
  BY NoReading
<1>3. UNCHANGED <<speaks, proved, disk>> /\ ((mem' = mem /\ saved' = saved) \/ mem' = disk)
  BY DEF R!Sweep, R!AllIn, R!Restart, R!vars, R!setup
<1>4. /\ probe' \in [Backends -> Probes]
      /\ \A s \in Backends : probe'[s] = probe[s] \/ probe'[s].result = R!Unknown
  <2>1. CASE R!Sweep
    <3>1. ASSUME NEW s \in Backends
          PROVE  /\ [R!Quiet EXCEPT !.at = R!First(s)] \in Probes
                 /\ [R!Quiet EXCEPT !.at = R!First(s)].result = R!Unknown
      <4>1. PICK at \in Protocols : at = R!First(s)
        BY DEF R!First, Protocols
      <4> QED BY <4>1, NoReading DEF Probes
    <3>2. probe' = [s \in Backends |-> [R!Quiet EXCEPT !.at = R!First(s)]]
      BY <2>1 DEF R!Sweep
    <3> QED BY <3>1, <3>2
  <2>2. CASE R!Restart
    <3>1. probe' = [s \in Backends |-> R!Quiet]
      BY <2>2 DEF R!Restart
    <3> QED BY <3>1, NoReading
  <2>3. CASE R!AllIn \/ UNCHANGED R!vars
    BY <1>1, <2>3 DEF R!AllIn, R!vars, ReadingTypes
  <2> QED BY <2>1, <2>2, <2>3
<1>5. /\ call' \in [Callers -> Underway]
      /\ \A c \in Callers : call'[c] = call[c] \/ call'[c].at = "idle"
  <2>1. CASE R!Restart
    <3>1. call' = [c \in Callers |-> R!Idle]
      BY <2>1 DEF R!Restart
    <3> QED BY <3>1, NoReading
  <2>2. CASE call' = call
    BY <1>1, <2>2 DEF ReadingTypes
  <2> QED BY <2>1, <2>2 DEF R!Sweep, R!AllIn, R!vars
<1>6. ReadingTypes'
  BY <1>1, <1>3, <1>4, <1>5 DEF ReadingTypes
<1>7. ASSUME NEW t \in Backends
      PROVE  "unknown" \in proved'[t] /\ Earned(t, probe[t].result)' /\ Earned(t, mem[t])' /\ Earned(t, disk[t])'
  <2>1. "unknown" \in proved[t] /\ Earned(t, probe[t].result) /\ Earned(t, mem[t]) /\ Earned(t, disk[t])
    BY <1>1 DEF AllEarned
  <2>2. Earned(t, probe[t].result)'
    BY <1>2, <1>3, <1>4, <2>1 DEF Earned
  <2>3. Earned(t, mem[t])' /\ Earned(t, disk[t])'
    BY <1>3, <2>1 DEF Earned
  <2> QED BY <1>3, <2>1, <2>2, <2>3
<1>8. ASSUME NEW c \in Callers, call'[c].at # "idle"
      PROVE  Earned(call[c].at, call[c].read)' /\ (call'[c].of = "note" => "ok" \in proved'[call'[c].at])
  <2>1. call'[c] = call[c]
    BY <1>5, <1>8
  <2> QED BY <1>1, <1>3, <1>8, <2>1 DEF AllEarned, Earned
<1>9. AllEarned'
  BY <1>7, <1>8 DEF AllEarned
<1> QED BY <1>3, <1>6, <1>9 DEF ReadingsInv

\* The results of a sweep are filed, and what calls and listings prove.
LEMMA FilingSteps ==
  ASSUME ReadingsInv, (\E s \in Backends : R!File(s) \/ R!Proves(s)) \/ (\E c \in Callers : R!Refile(c))
  PROVE  ReadingsInv'
<1>1. ReadingTypes /\ AllEarned
  BY DEF ReadingsInv
<1>2. ASSUME NEW s \in Backends, R!File(s) PROVE ReadingsInv'
  <2>1. PICK r : r = probe[s].result
    OBVIOUS
  <2>2. r \in Reading /\ r.state \in proved[s] /\ r.era \in speaks[s] \cup {"unknown"}
    BY <1>1, <2>1 DEF ReadingTypes, Probes, AllEarned, Earned
  <2>3. R!Record(s, r) /\ UNCHANGED <<speaks, call, proved>> /\ probe' = [probe EXCEPT ![s] = R!Quiet]
    BY <1>2, <2>1 DEF R!File, R!setup
  <2> QED BY <1>1, <2>2, <2>3, NoReading, ReadingFiled DEF ReadingTypes
<1>3. ASSUME NEW s \in Backends, NEW state \in {"ok", "failed"}, NEW why \in {"", "error"}, R!Reports(s, state, why) PROVE ReadingsInv'
  <2>1. PICK e \in speaks[s] \cup {"unknown"} : R!Record(s, [state |-> state, why |-> why, era |-> e])
    BY <1>3 DEF R!Reports
  <2>2. PICK r : r = [state |-> state, why |-> why, era |-> e]
    OBVIOUS
  <2>3. e \in Protocols \cup {"unknown"} /\ state \in States
    BY <1>1 DEF ReadingTypes, States
  <2>4. r \in Reading /\ r.state = state /\ r.era = e
    BY <2>2, <2>3 DEF Reading
  <2>5. R!Record(s, r) /\ UNCHANGED <<speaks, call, probe>> /\ proved' = [proved EXCEPT ![s] = proved[s] \cup {state}]
    BY <1>3, <2>1, <2>2 DEF R!Reports, R!setup
  <2>6. /\ proved' \in [Backends -> SUBSET States] /\ state \in proved'[s] /\ \A t \in Backends : proved[t] \subseteq proved'[t]
    BY <1>1, <2>3, <2>5 DEF ReadingTypes
  <2> QED BY <1>1, <2>4, <2>5, <2>6, ReadingFiled DEF ReadingTypes
<1>4. ASSUME NEW c \in Callers, R!Refile(c) PROVE ReadingsInv'
  <2>1. PICK s, read : s = call[c].at /\ read = call[c].read
    OBVIOUS
  <2>2. /\ s \in Backends /\ read \in Reading /\ Earned(s, read) /\ (call[c].of = "note" => "ok" \in proved[s])
    BY <1>1, <1>4, <2>1 DEF R!Refile, ReadingTypes, Underway, AllEarned
  <2>3. PICK r \in R!Refiled(c, s) : R!Record(s, r)
    BY <1>4, <2>1 DEF R!Refile
  <2>4. r \in Reading /\ r.state \in proved[s] /\ r.era \in speaks[s] \cup {"unknown"}
    <3>1. CASE call[c].of = "note" /\ r = [read EXCEPT !.state = "ok", !.why = "note"]
      BY <2>2, <3>1 DEF Reading, States, Earned
    <3>2. ASSUME NEW e \in speaks[s] \cup {"unknown"}, r = [read EXCEPT !.era = e] PROVE r \in Reading /\ r.state \in proved[s] /\ r.era \in speaks[s] \cup {"unknown"}
      <4>1. e \in Protocols \cup {"unknown"}
        BY <1>1, <2>2, <3>2 DEF ReadingTypes
      <4> QED BY <2>2, <3>2, <4>1 DEF Reading, Earned
    <3> QED BY <2>1, <2>3, <3>1, <3>2 DEF R!Refiled
  <2>5. UNCHANGED <<speaks, probe, proved>> /\ call' = [call EXCEPT ![c] = R!Idle]
    BY <1>4 DEF R!Refile, R!setup
  <2> QED BY <1>1, <2>2, <2>3, <2>4, <2>5, NoReading, ReadingFiled DEF ReadingTypes
<1> QED BY <1>2, <1>3, <1>4 DEF R!Proves

\* A call reads a reading, and will file it in another critical section.
LEMMA CallSteps ==
  ASSUME ReadingsInv, NEW c \in Callers, NEW s \in Backends, NEW of \in {"neutral", "note"}, R!Look(c, s, of)
  PROVE  ReadingsInv'
<1>1. ReadingTypes /\ AllEarned
  BY DEF ReadingsInv
<1>2. PICK k : k = [at |-> s, of |-> of, read |-> mem[s]]
  OBVIOUS
<1>3. k \in Underway /\ k.at = s /\ k.of = of /\ k.read = mem[s]
  BY <1>1, <1>2 DEF ReadingTypes, Underway
<1>4. /\ call' = [call EXCEPT ![c] = k] /\ UNCHANGED <<speaks, probe, mem, disk, saved>>
      /\ proved' = IF of = "note" THEN [proved EXCEPT ![s] = proved[s] \cup {"ok"}] ELSE proved
  BY <1>2 DEF R!Look, R!setup
<1>5. /\ proved' \in [Backends -> SUBSET States] /\ (of = "note" => "ok" \in proved'[s]) /\ \A t \in Backends : proved[t] \subseteq proved'[t]
  BY <1>1, <1>4 DEF ReadingTypes, States
<1>6. ReadingTypes'
  BY <1>1, <1>3, <1>4, <1>5 DEF ReadingTypes
<1>7. ASSUME NEW t \in Backends
      PROVE  "unknown" \in proved'[t] /\ Earned(t, probe[t].result)' /\ Earned(t, mem[t])' /\ Earned(t, disk[t])'
  <2>1. "unknown" \in proved[t] /\ Earned(t, probe[t].result) /\ Earned(t, mem[t]) /\ Earned(t, disk[t])
    BY <1>1 DEF AllEarned
  <2> QED BY <1>4, <1>5, <2>1 DEF Earned
<1>8. ASSUME NEW d \in Callers, call'[d].at # "idle"
      PROVE  Earned(call[d].at, call[d].read)' /\ (call'[d].of = "note" => "ok" \in proved'[call'[d].at])
  <2>1. CASE d = c
    <3>1. call'[d] = k
      BY <1>1, <1>4, <2>1 DEF ReadingTypes
    <3> QED BY <1>3, <1>5, <1>7, <3>1, <1>4 DEF Earned
  <2>2. CASE d # c
    <3>1. call'[d] = call[d] /\ call[d].at \in Backends
      BY <1>1, <1>4, <1>8, <2>2 DEF ReadingTypes, Underway
    <3> QED BY <1>1, <1>4, <1>5, <1>8, <3>1 DEF AllEarned, Earned
  <2> QED BY <2>1, <2>2
<1>9. AllEarned'
  BY <1>7, <1>8 DEF AllEarned
<1> QED BY <1>4, <1>6, <1>9 DEF ReadingsInv

LEMMA ReadingsHold == R!Spec => []R!ReadingsAreEarned
<1>1. R!Init => ReadingsInv
  <2> SUFFICES ASSUME R!Init PROVE ReadingsInv
    OBVIOUS
  <2>1. speaks \in [Backends -> SUBSET Protocols] /\ proved = [s \in Backends |-> {"unknown"}]
    BY DEF R!Init, Protocols
  <2>2. ReadingTypes
    BY <2>1, NoReading DEF R!Init, ReadingTypes, States
  <2>3. AllEarned
    BY <2>1, NoReading DEF R!Init, AllEarned, Earned
  <2> QED BY <2>2, <2>3 DEF R!Init, ReadingsInv
<1>2. ReadingsInv /\ [R!Next]_(R!vars) => ReadingsInv'
  BY ProbeSteps, SweepSteps, FilingSteps, CallSteps DEF R!Next
<1>3. ReadingsInv => R!ReadingsAreEarned
  BY DEF ReadingsInv, AllEarned, Earned, R!ReadingsAreEarned, R!Shown
<1> QED BY <1>1, <1>2, <1>3, PTL DEF R!Spec

-----------------------------------------------------------------------------
(* Hub: a ring of consecutive numbers that ends at the newest event, and to
   each client of this life a run that starts after its cursor and, while it is
   subscribed, ends there too. *)

\* A run of consecutive numbers after a.
Follows(s, a) == s \in Seq(Nat) /\ \A i \in 1..Len(s) : s[i] = a + i

HubTypes ==
  /\ next \in Nat /\ passed \in Nat /\ life \in Nat /\ subs \subseteq Clients /\ subs = open
  /\ chan \in [Clients -> [replay : Seq(Nat), live : Seq(Nat)]]
  /\ cursor \in [Clients -> Nat] /\ known \in [Clients -> Nat]
RingInv == Len(ring) <= next /\ Follows(ring, next - Len(ring)) /\ (ring = <<>> => next = 0)
ClientOn(k, at, whole, upto) ==
  /\ Follows(k.replay, at) /\ Follows(k.live, at + Len(k.replay))
  /\ whole => at + Len(k.replay) + Len(k.live) = upto
ClientInv(c) == known[c] <= life /\ (known[c] = life => ClientOn(chan[c], cursor[c], c \in subs, next))
HubInv == HubTypes /\ RingInv /\ \A c \in Clients : ClientInv(c)

\* A run of consecutive numbers: none, one more, one fewer (Append, Head, Tail).
LEMMA FollowsNothing == ASSUME NEW a \in Nat PROVE Follows(<<>>, a)
BY DEF Follows
LEMMA FollowsOn ==
  ASSUME NEW a \in Nat, NEW s, Follows(s, a)
  PROVE  Follows(Append(s, a + Len(s) + 1), a) /\ Len(Append(s, a + Len(s) + 1)) = Len(s) + 1
<1>1. s \in Seq(Nat) /\ Len(s) \in Nat /\ \A i \in 1..Len(s) : s[i] = a + i
  BY DEF Follows
<1>2. PICK t : t = Append(s, a + Len(s) + 1)
  OBVIOUS
<1>3. a + Len(s) + 1 \in Nat
  BY <1>1
<1>4. t \in Seq(Nat) /\ Len(t) = Len(s) + 1 /\ (\A i \in 1..Len(s) : t[i] = s[i]) /\ t[Len(s) + 1] = a + Len(s) + 1
  BY <1>1, <1>2, <1>3, AppendProperties
<1>5. \A i \in 1..Len(t) : t[i] = a + i
  <2>1. 1..Len(t) = (1..Len(s)) \cup {Len(s) + 1}
    BY <1>1, <1>4
  <2>2. a + (Len(s) + 1) = a + Len(s) + 1
    BY <1>1
  <2> QED BY <1>1, <1>4, <2>1, <2>2
<1> QED BY <1>2, <1>4, <1>5 DEF Follows
LEMMA FollowsTail ==
  ASSUME NEW a \in Nat, NEW s, Follows(s, a), s # <<>>
  PROVE  Head(s) = a + 1 /\ Follows(Tail(s), a + 1) /\ Len(Tail(s)) = Len(s) - 1
<1>1. s \in Seq(Nat) /\ Len(s) \in Nat \ {0} /\ \A i \in 1..Len(s) : s[i] = a + i
  BY DEF Follows
<1>2. Tail(s) \in Seq(Nat) /\ Len(Tail(s)) = Len(s) - 1 /\ \A i \in 1..Len(Tail(s)) : Tail(s)[i] = s[i + 1]
  BY <1>1, HeadTailProperties
<1>3. Head(s) = s[1] /\ 1 \in 1..Len(s)
  BY <1>1
<1>4. \A i \in 1..Len(Tail(s)) : Tail(s)[i] = (a + 1) + i
  BY <1>1, <1>2
<1> QED BY <1>1, <1>2, <1>3, <1>4 DEF Follows

\* The ring after one more event.
LEMMA RingTurns ==
  ASSUME HubTypes, RingInv, H!Publish
  PROVE  RingInv'
<1>1. Capacity \in Nat \ {0}
  BY HubAssumption
<1>2. next' = next + 1 /\ next \in Nat /\ ring' = Append(IF Len(ring) < Capacity THEN ring ELSE Tail(ring), next + 1)
  BY DEF HubTypes, H!Publish
<1>3. ring \in Seq(Nat) /\ Len(ring) \in Nat /\ Len(ring) <= next
  BY DEF RingInv, Follows
<1>4. CASE Len(ring) < Capacity
  <2>1. PICK a : a = next - Len(ring)
    OBVIOUS
  <2>2. a \in Nat /\ next = a + Len(ring) /\ Follows(ring, a)
    BY <1>2, <1>3, <2>1 DEF RingInv
  <2>3. Follows(ring', a) /\ Len(ring') = Len(ring) + 1
    BY <1>2, <1>4, <2>2, FollowsOn
  <2>4. ring' # <<>> /\ Len(ring') <= next'
    BY <1>2, <1>3, <2>3
  <2>5. next' - Len(ring') = a
    BY <1>2, <1>3, <2>2, <2>3
  <2> QED BY <2>3, <2>4, <2>5 DEF RingInv
<1>5. CASE ~(Len(ring) < Capacity)
  <2>1. PICK a : a = next - Len(ring)
    OBVIOUS
  <2>2. a \in Nat /\ next = a + Len(ring) /\ Follows(ring, a) /\ ring # <<>>
    BY <1>1, <1>2, <1>3, <1>5, <2>1 DEF RingInv
  <2>3. PICK s : s = Tail(ring)
    OBVIOUS
  <2>4. Follows(s, a + 1) /\ Len(s) = Len(ring) - 1
    BY <2>2, <2>3, FollowsTail
  <2>5. a + 1 \in Nat /\ next + 1 = (a + 1) + Len(s) + 1
    BY <1>2, <1>3, <2>2, <2>4
  <2>6. ring' = Append(s, (a + 1) + Len(s) + 1)
    BY <1>2, <1>5, <2>3, <2>5
  <2>7. Follows(ring', a + 1) /\ Len(ring') = Len(s) + 1
    BY <2>4, <2>5, <2>6, FollowsOn
  <2>8. ring' # <<>> /\ Len(ring') <= next'
    BY <1>2, <1>3, <2>4, <2>7
  <2>9. next' - Len(ring') = a + 1
    <3>1. next' = next + 1 /\ next = a + Len(ring) /\ Len(ring') = Len(ring) /\ a \in Nat /\ Len(ring) \in Nat
      BY <1>2, <1>3, <2>2, <2>4, <2>7
    <3> QED BY <3>1
  <2> QED BY <2>7, <2>8, <2>9 DEF RingInv
<1> QED BY <1>4, <1>5

\* What NewerThan finds in the ring.
LEMMA RingFromCursor ==
  ASSUME HubTypes, RingInv, NEW after \in Nat, NEW from \in Nat, next - Len(ring) <= from, from <= next,
         \A j \in 1..Len(ring) : ring[j] > after <=> ring[j] > from
  PROVE  Follows(H!NewerThan(after), from) /\ Len(H!NewerThan(after)) = next - from
<1> DEFINE start == from - (next - Len(ring)) + 1
<1> DEFINE Good(i) == \A j \in 1..Len(ring) : j >= i <=> ring[j] > after
<1>1. ring \in Seq(Nat) /\ Len(ring) \in Nat /\ next \in Nat /\ \A j \in 1..Len(ring) : ring[j] = next - Len(ring) + j
  BY DEF RingInv, Follows, HubTypes
<1>2. start \in 1..(Len(ring) + 1) /\ Good(start)
  BY <1>1, SMTT(60)
<1>3. \A i \in 1..(Len(ring) + 1) : Good(i) => i = start
  <2> SUFFICES ASSUME NEW i \in 1..(Len(ring) + 1), Good(i) PROVE i = start
    OBVIOUS
  <2>1. CASE i < start
    <3>1. i \in 1..Len(ring) /\ ~(ring[i] > after)
      BY <1>1, <2>1
    <3> QED BY <1>1, <3>1
  <2>2. CASE i > start
    <3>1. start \in 1..Len(ring) /\ ring[start] > after
      <4>1. start \in 1..Len(ring)
        BY <1>1, <1>2, <2>2
      <4> QED BY <1>2, <4>1
    <3> QED BY <1>1, <2>2, <3>1, SMTT(60)
  <2> QED BY <1>1, <1>2, <2>1, <2>2
<1> DEFINE first == CHOOSE i \in 1..(Len(ring) + 1) : Good(i)
<1>4. first = start
  <2> HIDE DEF start, Good
  <2> QED BY <1>2, <1>3
<1>5. H!NewerThan(after) = SubSeq(ring, start, Len(ring))
  BY <1>4 DEF H!NewerThan
<1>6. \A i \in start..Len(ring) : ring[i] \in Nat
  BY <1>1, SMTT(60)
<1>7. Len(SubSeq(ring, start, Len(ring))) = next - from /\ SubSeq(ring, start, Len(ring)) \in Seq(Nat)
      /\ \A i \in 1..(next - from) : SubSeq(ring, start, Len(ring))[i] = ring[start + i - 1]
  <2>1. Len(SubSeq(ring, start, Len(ring))) = (IF start <= Len(ring) THEN Len(ring) - start + 1 ELSE 0)
        /\ SubSeq(ring, start, Len(ring)) \in Seq(Nat)
        /\ \A i \in 1..(Len(ring) - start + 1) : SubSeq(ring, start, Len(ring))[i] = ring[start + i - 1]
    <3>1. start \in Int /\ Len(ring) \in Int
      BY <1>1
    <3> HIDE DEF start
    <3> QED BY <1>6, <3>1, SubSeqProperties
  <2>2. Len(ring) - start + 1 = next - from /\ (start <= Len(ring) <=> next - from # 0)
    BY <1>1
  <2> QED BY <2>1, <2>2
<1> QED BY <1>1, <1>5, <1>7, SMTT(60) DEF Follows

\* The three that send, come back and read keep it; the others send nothing.
LEMMA PublishKeeps == ASSUME HubInv, H!Publish PROVE HubInv'
<1>1. HubTypes /\ RingInv /\ next' = next + 1 /\ next \in Nat
  BY DEF HubInv, HubTypes, H!Publish
<1>2. HubTypes'
  <2>1. /\ chan' = [c \in Clients |-> IF c \in subs /\ ~H!Full(c) THEN [chan[c] EXCEPT !.live = Append(@, next + 1)] ELSE chan[c]]
        /\ passed > 0 /\ passed' = passed - 1 /\ subs' = subs \ {c \in subs : H!Full(c)} /\ open' = open \ {c \in subs : H!Full(c)}
        /\ UNCHANGED <<cursor, life, known>>
    BY DEF H!Publish
  <2>2. chan' \in [Clients -> [replay : Seq(Nat), live : Seq(Nat)]]
    <3>1. ASSUME NEW c \in Clients PROVE [chan[c] EXCEPT !.live = Append(@, next + 1)] \in [replay : Seq(Nat), live : Seq(Nat)]
      <4>1. chan[c] \in [replay : Seq(Nat), live : Seq(Nat)] /\ next + 1 \in Nat
        BY <1>1 DEF HubTypes
      <4>2. Append(chan[c].live, next + 1) \in Seq(Nat)
        BY <4>1
      <4> QED BY <4>1, <4>2
    <3>2. chan \in [Clients -> [replay : Seq(Nat), live : Seq(Nat)]]
      BY <1>1 DEF HubTypes
    <3> QED BY <2>1, <3>1, <3>2, Zenon
  <2>3. passed' \in Nat /\ next' \in Nat
    BY <1>1, <2>1 DEF HubTypes
  <2>4. subs' \subseteq Clients /\ subs' = open'
    BY <1>1, <2>1 DEF HubTypes
  <2> QED BY <1>1, <2>1, <2>2, <2>3, <2>4 DEF HubTypes
<1>3. RingInv'
  BY <1>1, RingTurns
<1>4. ASSUME NEW c \in Clients PROVE ClientInv(c)'
  <2>1. cursor' = cursor /\ life' = life /\ known' = known /\ known[c] <= life /\ cursor[c] \in Nat
    BY DEF H!Publish, HubInv, ClientInv, HubTypes
  <2>2. CASE known[c] = life /\ c \in subs /\ ~H!Full(c)
    <3>1. ClientOn(chan[c], cursor[c], TRUE, next) /\ chan[c] \in [replay : Seq(Nat), live : Seq(Nat)]
      BY <2>2 DEF HubInv, ClientInv, HubTypes
    <3>2. chan'[c] = [chan[c] EXCEPT !.live = Append(@, next + 1)]
      BY <2>2 DEF H!Publish
    <3>3. chan'[c].replay = chan[c].replay /\ chan'[c].live = Append(chan[c].live, next + 1)
      BY <3>1, <3>2
    <3>4. PICK a : a = cursor[c] + Len(chan[c].replay)
      OBVIOUS
    <3>5. a \in Nat /\ next + 1 = a + Len(chan[c].live) + 1 /\ Follows(chan[c].live, a)
      BY <2>1, <3>1, <3>4, <1>1 DEF ClientOn
    <3>6. Follows(chan'[c].live, a) /\ Len(chan'[c].live) = Len(chan[c].live) + 1
      BY <3>3, <3>5, FollowsOn
    <3>7. Len(chan[c].live) \in Nat
      BY <3>1
    <3>8. ClientOn(chan'[c], cursor[c], TRUE, next')
      BY <1>1, <3>1, <3>3, <3>4, <3>5, <3>6, <3>7 DEF ClientOn
    <3> QED BY <2>1, <3>8 DEF ClientInv, ClientOn
  <2>3. CASE ~(c \in subs /\ ~H!Full(c))
    <3>1. chan'[c] = chan[c] /\ c \notin subs'
      BY <2>3 DEF H!Publish
    <3> QED BY <2>1, <3>1 DEF HubInv, ClientInv, ClientOn
  <2>4. CASE known[c] # life
    BY <2>1, <2>4 DEF ClientInv
  <2> QED BY <2>2, <2>3, <2>4
<1> QED BY <1>2, <1>3, <1>4 DEF HubInv

LEMMA SubscribeKeeps == ASSUME HubInv, NEW c \in Clients, H!Subscribe(c) PROVE HubInv'
<1>1. HubTypes /\ RingInv /\ next \in Nat /\ cursor[c] \in Nat /\ known[c] \in Nat /\ life \in Nat /\ known[c] <= life
  BY DEF HubInv, HubTypes, ClientInv
<1>2. UNCHANGED <<next, ring, closed, draining, passed, life>> /\ subs' = subs \cup {c} /\ open' = open \cup {c}
      /\ chan[c] = [replay |-> <<>>, live |-> <<>>]
  BY DEF H!Subscribe
<1> DEFINE reset == H!Stale(cursor[c])
           replay == IF reset THEN <<>> ELSE H!NewerThan(cursor[c])
           at == IF reset THEN next ELSE IF cursor[c] = 0 /\ replay # <<>> THEN replay[1] - 1 ELSE cursor[c]
           era == IF reset \/ cursor[c] = 0 THEN life ELSE known[c]
<1>3. chan' = [chan EXCEPT ![c].replay = replay] /\ cursor' = [cursor EXCEPT ![c] = at] /\ known' = [known EXCEPT ![c] = era]
  BY DEF H!Subscribe
<1>4. replay \in Seq(Nat) /\ at \in Nat /\ (era = life => Follows(replay, at) /\ at + Len(replay) = next)
  <2>1. CASE reset
    <3>1. replay = <<>> /\ at = next
      BY <2>1
    <3>2. Follows(replay, at)
      BY <1>1, <3>1, FollowsNothing
    <3> HIDE DEF replay, at
    <3>3. replay \in Seq(Nat) /\ Len(replay) = 0
      BY <3>1
    <3> QED BY <1>1, <3>1, <3>2, <3>3
  <2>2. CASE ~reset /\ ring = <<>>
    <3>1. cursor[c] = 0 /\ next = 0 /\ Len(ring) = 0
      BY <1>1, <2>2 DEF H!Stale, RingInv
    <3>2. H!NewerThan(0) \in Seq(Nat) /\ Len(H!NewerThan(0)) = 0 /\ Follows(H!NewerThan(0), 0)
      BY <1>1, <3>1, RingFromCursor DEF Follows
    <3>3. replay = H!NewerThan(0) /\ replay = <<>>
      BY <2>2, <3>1, <3>2
    <3>4. at = 0
      BY <2>2, <3>1, <3>3
    <3> QED BY <3>1, <3>2, <3>3, <3>4
  <2>3. CASE ~reset /\ ring # <<>>
    <3>1. ring \in Seq(Nat) /\ Len(ring) \in Nat \ {0} /\ Len(ring) <= next
          /\ ring[1] = next - Len(ring) + 1 /\ ring[Len(ring)] = next
      BY <1>1, <2>3 DEF RingInv, Follows
    <3>2. CASE cursor[c] = 0
      <4>1. replay = H!NewerThan(0)
        BY <2>3, <3>2
      <4>2. PICK from : from = next - Len(ring)
        OBVIOUS
      <4>3. from \in Nat /\ from <= next
        BY <1>1, <3>1, <4>2
      <4>4. \A j \in 1..Len(ring) : ring[j] > 0 <=> ring[j] > from
        BY <1>1, <4>2, <4>3 DEF RingInv, Follows
      <4>5. next - Len(ring) <= from /\ 0 \in Nat
        BY <4>2, <4>3
      <4>6. Follows(replay, from) /\ Len(replay) = next - from
        BY <1>1, <4>1, <4>3, <4>4, <4>5, RingFromCursor
      <4>7. replay \in Seq(Nat) /\ replay # <<>> /\ replay[1] = from + 1
        <5>1. next - from = Len(ring)
          BY <1>1, <3>1, <4>2
        <5> QED BY <3>1, <4>6, <5>1 DEF Follows
      <4>8. at = from
        BY <2>3, <3>2, <4>3, <4>7
      <4> QED BY <1>1, <4>3, <4>6, <4>7, <4>8
    <3>3. CASE cursor[c] # 0
      <4>1. next - Len(ring) <= cursor[c] /\ cursor[c] <= next
        BY <1>1, <2>3, <3>1, <3>3 DEF H!Stale
      <4>2. replay = H!NewerThan(cursor[c]) /\ at = cursor[c]
        BY <2>3, <3>3
      <4>3. Follows(replay, at) /\ Len(replay) = next - at
        BY <1>1, <4>1, <4>2, RingFromCursor, ZenonT(60)
      <4>4. replay \in Seq(Nat) /\ at \in Nat /\ at + Len(replay) = next
        BY <1>1, <4>2, <4>3, SMTT(60) DEF Follows
      <4> QED BY <4>3, <4>4
    <3> QED BY <3>2, <3>3
  <2> QED BY <2>1, <2>2, <2>3
<1> HIDE DEF reset, replay, at, era
<1>5. era \in Nat /\ era <= life
  BY <1>1 DEF era
<1>6. chan'[c] = [replay |-> replay, live |-> <<>>] /\ cursor'[c] = at /\ known'[c] = era
  BY <1>1, <1>2, <1>3 DEF HubTypes
<1>7. HubTypes'
  BY <1>1, <1>2, <1>3, <1>4, <1>5 DEF HubTypes
<1>8. ASSUME NEW d \in Clients PROVE ClientInv(d)'
  <2>1. CASE d = c
    <3>1. Len(<<>>) = 0 /\ at + Len(replay) \in Nat
      BY <1>4
    <3>2. era = life => ClientOn(chan'[c], at, TRUE, next)
      BY <1>2, <1>4, <1>6, <3>1, FollowsNothing DEF ClientOn
    <3> QED BY <1>2, <1>5, <1>6, <2>1, <3>2 DEF ClientInv, ClientOn
  <2>2. CASE d # c
    <3>1. chan'[d] = chan[d] /\ cursor'[d] = cursor[d] /\ known'[d] = known[d] /\ (d \in subs' <=> d \in subs)
      BY <1>1, <1>2, <1>3, <2>2 DEF HubTypes
    <3> QED BY <1>2, <3>1 DEF HubInv, ClientInv, ClientOn
  <2> QED BY <2>1, <2>2
<1>9. RingInv'
  BY <1>1, <1>2 DEF RingInv
<1> QED BY <1>7, <1>8, <1>9 DEF HubInv

LEMMA ReceiveKeeps == ASSUME HubInv, NEW c \in Clients, H!Receive(c) PROVE HubInv'
<1>1. HubTypes /\ RingInv /\ next \in Nat /\ cursor[c] \in Nat /\ chan[c] \in [replay : Seq(Nat), live : Seq(Nat)] /\ ClientInv(c)
  BY DEF HubInv, HubTypes
<1>2. UNCHANGED <<next, ring, closed, draining, passed, subs, open, life, known>>
  BY DEF H!Receive
<1>3. PICK from \in {"replay", "live"} :
        /\ from = "live" => chan[c].replay = <<>>
        /\ chan[c][from] # <<>>
        /\ cursor' = [cursor EXCEPT ![c] = Head(chan[c][from])]
        /\ chan' = [chan EXCEPT ![c][from] = Tail(@)]
  BY DEF H!Receive
<1>4. PICK k : k = [chan[c] EXCEPT ![from] = Tail(@)]
  OBVIOUS
<1>5. Head(chan[c][from]) \in Nat /\ k \in [replay : Seq(Nat), live : Seq(Nat)]
  <2>1. CASE from = "replay"
    <3>1. chan[c].replay \in Seq(Nat) /\ chan[c].replay # <<>> /\ k = [chan[c] EXCEPT !.replay = Tail(@)]
      BY <1>1, <1>3, <1>4, <2>1
    <3>2. Head(chan[c].replay) \in Nat /\ Tail(chan[c].replay) \in Seq(Nat)
      BY <3>1
    <3> QED BY <1>1, <2>1, <3>1, <3>2
  <2>2. CASE from = "live"
    <3>1. chan[c].live \in Seq(Nat) /\ chan[c].live # <<>> /\ k = [chan[c] EXCEPT !.live = Tail(@)]
      BY <1>1, <1>3, <1>4, <2>2
    <3>2. Head(chan[c].live) \in Nat /\ Tail(chan[c].live) \in Seq(Nat)
      BY <3>1
    <3> QED BY <1>1, <2>2, <3>1, <3>2
  <2> QED BY <1>3, <2>1, <2>2
<1>6. chan' = [chan EXCEPT ![c] = k]
  BY <1>3, <1>4
<1>7. HubTypes'
  BY <1>1, <1>2, <1>3, <1>5, <1>6, ZenonT(60) DEF HubTypes
<1>8. ClientInv(c)'
  <2> SUFFICES ASSUME known[c] = life PROVE ClientOn(k, Head(chan[c][from]), c \in subs, next)
    BY <1>1, <1>2, <1>3, <1>6 DEF HubTypes, ClientInv
  <2>1. ClientOn(chan[c], cursor[c], c \in subs, next)
    BY <1>1 DEF ClientInv
  <2>2. CASE from = "replay"
    <3>1. k.replay = Tail(chan[c].replay) /\ k.live = chan[c].live
      BY <1>1, <1>4, <2>2
    <3>2. Head(chan[c].replay) = cursor[c] + 1 /\ Follows(k.replay, cursor[c] + 1) /\ Len(k.replay) = Len(chan[c].replay) - 1
      BY <1>1, <1>3, <2>1, <2>2, <3>1, FollowsTail, SMTT(60) DEF ClientOn
    <3>3. Len(chan[c].replay) \in Nat /\ Len(chan[c].live) \in Nat
      BY <1>1
    <3>4. (cursor[c] + 1) + Len(k.replay) = cursor[c] + Len(chan[c].replay)
      <4>1. PICK n : n = Len(chan[c].replay)
        OBVIOUS
      <4>2. n \in Nat /\ Len(k.replay) = n - 1 /\ cursor[c] \in Nat
        BY <1>1, <3>2, <3>3, <4>1
      <4>3. (cursor[c] + 1) + (n - 1) = cursor[c] + n
        BY <4>2
      <4> QED BY <4>1, <4>2, <4>3
    <3> QED BY <2>1, <2>2, <3>1, <3>2, <3>4 DEF ClientOn
  <2>3. CASE from = "live"
    <3>1. k.replay = <<>> /\ k.live = Tail(chan[c].live) /\ Len(k.replay) = 0 /\ chan[c].replay = <<>> /\ Len(chan[c].replay) = 0
      BY <1>1, <1>3, <1>4, <2>3
    <3>2. cursor[c] + 0 = cursor[c] /\ (cursor[c] + 1) + 0 = cursor[c] + 1 /\ cursor[c] + 1 \in Nat
      BY <1>1
    <3>3. Follows(chan[c].live, cursor[c]) /\ (c \in subs => cursor[c] + Len(chan[c].live) = next)
      BY <2>1, <3>1, <3>2 DEF ClientOn
    <3>4. Head(chan[c].live) = cursor[c] + 1 /\ Follows(k.live, cursor[c] + 1) /\ Len(k.live) = Len(chan[c].live) - 1
      BY <1>1, <1>3, <2>3, <3>1, <3>3, FollowsTail
    <3>5. Len(chan[c].live) \in Nat
      BY <1>1
    <3>6. (cursor[c] + 1) + Len(k.live) = cursor[c] + Len(chan[c].live)
      <4>1. PICK n : n = Len(chan[c].live)
        OBVIOUS
      <4>2. n \in Nat /\ Len(k.live) = n - 1 /\ cursor[c] \in Nat
        BY <1>1, <3>4, <3>5, <4>1
      <4>3. (cursor[c] + 1) + (n - 1) = cursor[c] + n
        BY <4>2
      <4> QED BY <4>1, <4>2, <4>3
    <3> QED BY <2>3, <3>1, <3>2, <3>3, <3>4, <3>6, FollowsNothing DEF ClientOn
  <2> QED BY <2>2, <2>3
<1>9. ASSUME NEW d \in Clients \ {c} PROVE ClientInv(d)'
  <2>1. chan'[d] = chan[d] /\ cursor'[d] = cursor[d] /\ ClientInv(d)
    BY <1>1, <1>3, <1>6 DEF HubTypes, HubInv
  <2> QED BY <1>2, <2>1 DEF ClientInv
<1>10. RingInv'
  BY <1>1, <1>2 DEF RingInv
<1> QED BY <1>7, <1>8, <1>9, <1>10 DEF HubInv

\* Every step keeps the hub's invariant.
LEMMA HubNext == HubInv /\ [H!Next]_(H!vars) => HubInv'
<1> SUFFICES ASSUME HubInv, [H!Next]_(H!vars) PROVE HubInv'
  OBVIOUS
<1>1. HubTypes /\ RingInv /\ \A c \in Clients : ClientInv(c)
  BY DEF HubInv
<1>2. ASSUME UNCHANGED <<next, ring, chan, cursor, life, known>>, passed' \in Nat, subs' \subseteq subs, subs' = open'
      PROVE  HubInv'
  <2>1. HubTypes' /\ RingInv'
    BY <1>1, <1>2 DEF HubTypes, RingInv
  <2>2. \A c \in Clients : ClientInv(c)'
    BY <1>1, <1>2 DEF ClientInv, ClientOn
  <2> QED BY <2>1, <2>2 DEF HubInv
<1>3. CASE H!Pass
  BY <1>1, <1>2, <1>3 DEF H!Pass, HubTypes
<1>4. CASE H!Close
  BY <1>1, <1>2, <1>4 DEF H!Close, HubTypes
<1>5. CASE H!Drain
  BY <1>1, <1>2, <1>5 DEF H!Drain, HubTypes
<1>6. ASSUME NEW c \in Clients, H!Cancel(c) PROVE HubInv'
  BY <1>1, <1>2, <1>6 DEF H!Cancel, HubTypes
<1>7. CASE H!Restart
  <2>1. HubTypes'
    BY <1>1, <1>7 DEF H!Restart, HubTypes
  <2>2. RingInv'
    <3>1. ring' = <<>> /\ next' = 0 /\ Len(ring') = 0
      BY <1>7 DEF H!Restart
    <3> QED BY <3>1, FollowsNothing DEF RingInv
  <2>3. ASSUME NEW c \in Clients PROVE ClientInv(c)'
    <3>1. known[c] <= life /\ known'[c] = known[c] /\ life' = life + 1 /\ known[c] \in Nat /\ life \in Nat
      BY <1>1, <1>7 DEF H!Restart, ClientInv, HubTypes
    <3> QED BY <3>1 DEF ClientInv
  <2> QED BY <2>1, <2>2, <2>3 DEF HubInv
<1>8. CASE UNCHANGED H!vars
  BY <1>1, <1>2, <1>8 DEF H!vars, HubTypes
<1> QED BY <1>3, <1>4, <1>5, <1>6, <1>7, <1>8, PublishKeeps, SubscribeKeeps, ReceiveKeeps DEF H!Next

\* The hub on its own.
LEMMA HubHolds == H!Spec => []H!HubLosesNothing
<1>1. H!Init => HubInv
  <2> SUFFICES ASSUME H!Init PROVE HubInv
    OBVIOUS
  <2>1. HubTypes
    BY DEF H!Init, H!Fresh, HubTypes
  <2>2. ring = <<>> /\ next = 0 /\ Len(<<>>) = 0 /\ RingInv
    BY FollowsNothing DEF H!Init, H!Fresh, RingInv
  <2>3. ASSUME NEW c \in Clients PROVE ClientInv(c)
    <3>1. chan[c].replay = <<>> /\ chan[c].live = <<>> /\ cursor[c] = 0 /\ known[c] = 1 /\ life = 1
      BY DEF H!Init
    <3> QED BY <2>2, <3>1, FollowsNothing DEF ClientInv, ClientOn
  <2> QED BY <2>1, <2>2, <2>3 DEF HubInv
<1>2. HubInv => H!HubLosesNothing
  <2> SUFFICES ASSUME HubInv PROVE H!HubLosesNothing
    OBVIOUS
  <2>1. ASSUME NEW c \in Clients, known[c] = life
        PROVE  LET coming == chan[c].replay \o chan[c].live
               IN /\ \A i \in 1..Len(coming) : coming[i] = cursor[c] + i
                  /\ c \in subs => cursor[c] + Len(coming) = next
    <3> DEFINE coming == chan[c].replay \o chan[c].live
    <3>1. chan[c].replay \in Seq(Nat) /\ chan[c].live \in Seq(Nat) /\ cursor[c] \in Nat /\ next \in Nat
          /\ ClientOn(chan[c], cursor[c], c \in subs, next)
      BY <2>1 DEF HubInv, HubTypes, ClientInv
    <3>2. PICK r : r = Len(chan[c].replay) /\ r \in Nat
      <4>1. Len(chan[c].replay) \in Nat
        BY <3>1
      <4> QED BY <4>1
    <3>3. PICK n : n = Len(chan[c].live) /\ n \in Nat
      <4>1. Len(chan[c].live) \in Nat
        BY <3>1
      <4> QED BY <4>1
    <3>4. Len(coming) = r + n
          /\ \A i \in 1..(r + n) : coming[i] = IF i <= r THEN chan[c].replay[i] ELSE chan[c].live[i - r]
      BY <3>1, <3>2, <3>3, ConcatProperties, ZenonT(60)
    <3>5. /\ \A i \in 1..r : chan[c].replay[i] = cursor[c] + i
          /\ \A i \in 1..n : chan[c].live[i] = cursor[c] + r + i
          /\ c \in subs => cursor[c] + r + n = next
      BY <3>1, <3>2, <3>3 DEF ClientOn, Follows
    <3> HIDE DEF coming
    <3>6. ASSUME NEW i \in 1..(r + n) PROVE coming[i] = cursor[c] + i
      <4>1. CASE i <= r
        <5>1. i \in 1..r
          BY <3>2, <4>1
        <5> QED BY <3>4, <3>5, <4>1, <5>1
      <4>2. CASE ~(i <= r)
        <5>1. i - r \in 1..n /\ cursor[c] + r + (i - r) = cursor[c] + i
          <6>1. r \in Nat /\ n \in Nat /\ cursor[c] \in Nat
            BY <3>1, <3>2, <3>3
          <6>2. PICK a \in Nat : a = cursor[c]
            BY <6>1
          <6>3. i - r \in 1..n /\ a + r + (i - r) = a + i
            BY <4>2, <6>1, <6>2
          <6> QED BY <6>2, <6>3
        <5> QED BY <3>4, <3>5, <4>2, <5>1
      <4> QED BY <4>1, <4>2
    <3>7. c \in subs => cursor[c] + Len(coming) = next
      <4>1. cursor[c] + (r + n) = cursor[c] + r + n
        <5>1. r \in Nat /\ n \in Nat /\ cursor[c] \in Nat
          BY <3>1, <3>2, <3>3
        <5> QED BY <5>1
      <4> QED BY <3>4, <3>5, <4>1
    <3> QED BY <3>4, <3>6, <3>7 DEF coming
  <2> QED BY <2>1 DEF H!HubLosesNothing, HubInv, HubTypes
<1> QED BY <1>1, <1>2, HubNext, PTL DEF H!Spec

-----------------------------------------------------------------------------
(* Sums over a finite set, as SumFunction adds them up: there is one, it can
   be taken apart at any member, and one value moves it by as much. *)

\* The first of a set of numbers, and a smallest of a set of finite sets.
LEMMA FirstNumber ==
  ASSUME NEW N \in SUBSET Nat, N # {}
  PROVE  \E x \in N : \A y \in N : x <= y
<1>1. \A x, y \in Nat : <<x, y>> \in OpToRel(<, Nat) <=> x < y
  BY Zenon DEF OpToRel
<1>2. \E x \in N : \A y \in N : ~(<<y, x>> \in OpToRel(<, Nat))
  BY NatLessThanWellFounded, WFMin
<1>3. \E x \in N : \A y \in N : ~(y < x)
  BY <1>1, <1>2, Zenon
<1> QED BY <1>3

LEMMA SmallestSet ==
  ASSUME NEW P, IsFiniteSet(P), NEW Bad, \A s \in Bad : s \subseteq P, Bad # {}
  PROVE  \E s \in Bad : \A t \in Bad : t \subseteq s => t = s
<1>1. Bad \subseteq FiniteSubsetsOf(P)
  BY FS_Subset DEF FiniteSubsetsOf
<1>2. PICK s \in Bad : \A t \in Bad : ~(<<t, s>> \in StrictSubsetOrdering(P))
  BY <1>1, FS_StrictSubsetOrderingWellFounded, WFMin
<1>3. ASSUME NEW t \in Bad, t \subseteq s PROVE t = s
  BY <1>2, <1>3 DEF StrictSubsetOrdering
<1> QED BY <1>3

Some(s) == CHOOSE x \in s : TRUE
SumOf(f, g, s) == IF s = {} THEN 0 ELSE f[Some(s)] + g[s \ {Some(s)}]
IsSum(f, P, g) == g \in [SUBSET P -> Nat] /\ \A s \in SUBSET P : g[s] = SumOf(f, g, s)

LEMMA SumExists ==
  ASSUME NEW P, IsFiniteSet(P), NEW f \in [P -> Nat]
  PROVE  \E g : IsSum(f, P, g)
<1> DEFINE Upto(n, g) == g \in [SUBSET P -> Nat] /\ \A s \in SUBSET P : Cardinality(s) <= n => g[s] = SumOf(f, g, s)
<1> DEFINE Bad == {n \in Nat : ~ \E g : Upto(n, g)}
<1>0. \A s \in SUBSET P : IsFiniteSet(s) /\ Cardinality(s) \in Nat /\ Cardinality(s) <= Cardinality(P)
      /\ (s # {} => Some(s) \in s /\ f[Some(s)] \in Nat /\ Cardinality(s \ {Some(s)}) = Cardinality(s) - 1)
  <2> SUFFICES ASSUME NEW s \in SUBSET P
               PROVE  IsFiniteSet(s) /\ Cardinality(s) \in Nat /\ Cardinality(s) <= Cardinality(P)
                      /\ (s # {} => Some(s) \in s /\ f[Some(s)] \in Nat /\ Cardinality(s \ {Some(s)}) = Cardinality(s) - 1)
    OBVIOUS
  <2>1. IsFiniteSet(s) /\ Cardinality(s) \in Nat /\ Cardinality(s) <= Cardinality(P)
    BY FS_Subset, FS_CardinalityType
  <2>2. ASSUME s # {} PROVE Some(s) \in s /\ f[Some(s)] \in Nat
    BY <2>2 DEF Some
  <2>3. ASSUME s # {} PROVE Cardinality(s \ {Some(s)}) = Cardinality(s) - 1
    BY <2>1, <2>2, <2>3, FS_RemoveElement
  <2> QED BY <2>1, <2>2, <2>3
<1>1. Bad = {}
  <2> SUFFICES ASSUME Bad # {} PROVE FALSE
    OBVIOUS
  <2>1. PICK m \in Bad : \A n \in Bad : m <= n
    BY FirstNumber
  <2>2. CASE m = 0
    <3>1. PICK g : g = [s \in SUBSET P |-> 0]
      OBVIOUS
    <3>2. ASSUME NEW s \in SUBSET P, Cardinality(s) <= 0 PROVE g[s] = SumOf(f, g, s)
      <4>1. s = {}
        <5>1. IsFiniteSet(s) /\ Cardinality(s) = 0
          <6>1. IsFiniteSet(s) /\ Cardinality(s) \in Nat
            BY <1>0
          <6> QED BY <3>2, <6>1
        <5> QED BY <5>1, FS_EmptySet
      <4> QED BY <3>1, <4>1 DEF SumOf
    <3> QED BY <2>1, <2>2, <3>1, <3>2
  <2>3. CASE m # 0
    <3>1. m - 1 \in Nat /\ ~(m <= m - 1)
      BY <2>1, <2>3
    <3>2. PICK g : Upto(m - 1, g)
      BY <2>1, <3>1
    <3>3. PICK h : h = [s \in SUBSET P |-> SumOf(f, g, s)]
      OBVIOUS
    <3>4. h \in [SUBSET P -> Nat]
      <4>1. ASSUME NEW s \in SUBSET P PROVE SumOf(f, g, s) \in Nat
        <5>1. s \ {Some(s)} \in SUBSET P
          OBVIOUS
        <5>2. g[s \ {Some(s)}] \in Nat
          BY <3>2, <5>1
        <5>3. CASE s = {}
          BY <5>3 DEF SumOf
        <5>4. CASE s # {}
          <6>1. f[Some(s)] \in Nat
            BY <1>0, <5>4
          <6> QED BY <5>2, <5>4, <6>1 DEF SumOf
        <5> QED BY <5>3, <5>4
      <4> QED BY <3>3, <4>1
    <3>5. ASSUME NEW s \in SUBSET P, Cardinality(s) <= m PROVE h[s] = SumOf(f, h, s)
      <4>1. CASE s = {}
        BY <3>3, <4>1 DEF SumOf
      <4>2. CASE s # {}
        <5>1. PICK t : t = s \ {Some(s)}
          OBVIOUS
        <5>2. t \in SUBSET P /\ Cardinality(t) <= m - 1
          BY <1>0, <2>1, <3>5, <4>2, <5>1
        <5>3. h[t] = g[t]
          BY <3>2, <3>3, <5>2
        <5> QED BY <3>3, <4>2, <5>1, <5>3 DEF SumOf
      <4> QED BY <4>1, <4>2
    <3> QED BY <2>1, <3>4, <3>5
  <2> QED BY <2>2, <2>3
<1>2. Cardinality(P) \in Nat
  BY FS_CardinalityType
<1>3. PICK g : Upto(Cardinality(P), g)
  BY <1>1, <1>2
<1> QED BY <1>0, <1>3 DEF IsSum

\* A sum is the value of any one member and the sum of the others.
LEMMA SumTakenApart ==
  ASSUME NEW P, IsFiniteSet(P), NEW f \in [P -> Nat], NEW g, IsSum(f, P, g)
  PROVE  \A s \in SUBSET P : \A y \in s : g[s] = f[y] + g[s \ {y}]
<1> DEFINE Bad == {s \in SUBSET P : ~ \A y \in s : g[s] = f[y] + g[s \ {y}]}
<1> SUFFICES ASSUME Bad # {} PROVE FALSE
  OBVIOUS
<1>0. \A s \in Bad : s \subseteq P
  OBVIOUS
<1>1. PICK s \in Bad : \A t \in Bad : t \subseteq s => t = s
  <2> HIDE DEF Bad
  <2> QED BY <1>0, SmallestSet
<1>2. PICK y \in s : ~(g[s] = f[y] + g[s \ {y}])
  BY <1>1
<1>3. PICK x : x = Some(s)
  OBVIOUS
<1>4. x \in s /\ s \in SUBSET P /\ g[s] = f[x] + g[s \ {x}]
  BY <1>1, <1>2, <1>3 DEF Some, IsSum, SumOf
<1>5. x # y
  BY <1>2, <1>4
<1>6. PICK u : u = (s \ {x}) \ {y}
  OBVIOUS
<1>7. u \in SUBSET P /\ g[u] \in Nat /\ f[x] \in Nat /\ f[y] \in Nat
  BY <1>4, <1>6 DEF IsSum
<1>8. g[s \ {x}] = f[y] + g[u]
  <2>1. s \ {x} \notin Bad /\ y \in s \ {x}
    BY <1>1, <1>4, <1>5
  <2> QED BY <1>4, <1>6, <2>1
<1>9. g[s \ {y}] = f[x] + g[u]
  <2>1. s \ {y} \notin Bad /\ x \in s \ {y} /\ (s \ {y}) \ {x} = u
    BY <1>1, <1>4, <1>5, <1>6
  <2> QED BY <1>4, <2>1
<1> QED BY <1>2, <1>4, <1>7, <1>8, <1>9

\* Two functions that agree on a set have the same sum over it.
LEMMA SumsAgree ==
  ASSUME NEW P, IsFiniteSet(P), NEW f \in [P -> Nat], NEW h \in [P -> Nat], NEW g, IsSum(f, P, g), NEW k, IsSum(h, P, k),
         NEW s \in SUBSET P, \A x \in s : f[x] = h[x]
  PROVE  g[s] = k[s]
<1> DEFINE Bad == {t \in SUBSET s : g[t] # k[t]}
<1> SUFFICES ASSUME Bad # {} PROVE FALSE
  OBVIOUS
<1>1. \A t \in Bad : t \subseteq P
  OBVIOUS
<1>2. PICK t \in Bad : \A u \in Bad : u \subseteq t => u = t
  <2> HIDE DEF Bad
  <2> QED BY <1>1, SmallestSet
<1>3. t \in SUBSET s /\ t \in SUBSET P /\ g[t] = SumOf(f, g, t) /\ k[t] = SumOf(h, k, t)
  BY <1>2 DEF IsSum
<1>4. CASE t = {}
  BY <1>2, <1>3, <1>4 DEF SumOf
<1>5. CASE t # {}
  <2>1. PICK x : x = Some(t)
    OBVIOUS
  <2>2. x \in t /\ g[t] = f[x] + g[t \ {x}] /\ k[t] = h[x] + k[t \ {x}] /\ f[x] = h[x]
    BY <1>3, <1>5, <2>1 DEF Some, SumOf
  <2>3. g[t \ {x}] = k[t \ {x}]
    BY <1>2, <2>2
  <2> QED BY <1>2, <2>2, <2>3
<1> QED BY <1>4, <1>5

\* SumFunctionOnSet is that sum.
LEMMA SumOnSet ==
  ASSUME NEW P, IsFiniteSet(P), NEW f, \A x \in P : f[x] \in Nat
  PROVE  \E g : IsSum(f, P, g) /\ Q!SumFunctionOnSet(f, P) = g[P]
<1> DEFINE It(g) == [s \in SUBSET P |-> IF s = {} THEN 0 ELSE f[CHOOSE x \in s : TRUE] + g[s \ {CHOOSE x \in s : TRUE}]]
<1>1. Q!SumFunctionOnSet(f, P) = (CHOOSE g : g = It(g))[P]
  BY DEF Q!SumFunctionOnSet, Q!FoldFunctionOnSet, Q!MapThenFoldSet
<1>2. PICK h : h = [x \in P |-> f[x]]
  OBVIOUS
<1>3. PICK k : IsSum(f, P, k)
  <2>1. h \in [P -> Nat]
    BY <1>2
  <2>2. PICK k : IsSum(h, P, k)
    BY <2>1, SumExists
  <2>3. ASSUME NEW s \in SUBSET P PROVE SumOf(h, k, s) = SumOf(f, k, s)
    <3>1. s # {} => Some(s) \in P
      BY DEF Some
    <3> QED BY <1>2, <3>1 DEF SumOf
  <2> QED BY <2>2, <2>3 DEF IsSum
<1>4. k = It(k)
  BY <1>3 DEF IsSum, SumOf, Some
<1>5. PICK g : g = CHOOSE q : q = It(q)
  OBVIOUS
<1>6. g = It(g)
  <2> HIDE DEF It
  <2> QED BY <1>4, <1>5
<1>7. \A s \in SUBSET P : g[s] = SumOf(f, g, s)
  BY <1>6 DEF SumOf, Some
<1>8. \A s \in SUBSET P : g[s] = k[s]
  <2> DEFINE Bad == {t \in SUBSET P : g[t] # k[t]}
  <2> SUFFICES ASSUME Bad # {} PROVE FALSE
    OBVIOUS
  <2>0. \A t \in Bad : t \subseteq P
    OBVIOUS
  <2>1. PICK t \in Bad : \A u \in Bad : u \subseteq t => u = t
    <3> HIDE DEF Bad
    <3> QED BY <2>0, SmallestSet
  <2>2. t \in SUBSET P /\ g[t] = SumOf(f, g, t) /\ k[t] = SumOf(f, k, t)
    BY <1>3, <1>7, <2>1 DEF IsSum
  <2>3. CASE t = {}
    BY <2>1, <2>2, <2>3 DEF SumOf
  <2>4. CASE t # {}
    <3>1. PICK x : x = Some(t)
      OBVIOUS
    <3>2. x \in t /\ g[t] = f[x] + g[t \ {x}] /\ k[t] = f[x] + k[t \ {x}]
      BY <2>2, <2>4, <3>1 DEF Some, SumOf
    <3>3. g[t \ {x}] = k[t \ {x}]
      BY <2>1, <3>2
    <3> QED BY <2>1, <3>2, <3>3
  <2> QED BY <2>3, <2>4
<1>9. IsSum(f, P, g)
  <2>1. DOMAIN g = SUBSET P
    BY <1>6
  <2>2. \A s \in SUBSET P : g[s] \in Nat
    BY <1>3, <1>8 DEF IsSum
  <2>3. g = [s \in SUBSET P |-> g[s]]
    BY <1>6
  <2> QED BY <1>7, <2>2, <2>3 DEF IsSum
<1> QED BY <1>1, <1>5, <1>9

\* So is SumFunction.
LEMMA SumIsSum ==
  ASSUME NEW P, IsFiniteSet(P), NEW f \in [P -> Nat]
  PROVE  \E g : IsSum(f, P, g) /\ Q!SumFunction(f) = g[P]
<1>1. DOMAIN f = P /\ \A x \in P : f[x] \in Nat
  OBVIOUS
<1>2. Q!SumFunction(f) = Q!SumFunctionOnSet(f, P)
  BY <1>1 DEF Q!SumFunction
<1> QED BY <1>1, <1>2, SumOnSet

\* Sets apart are counted apart.
LEMMA CardApart ==
  ASSUME NEW B, IsFiniteSet(B), NEW C, IsFiniteSet(C), B \cap C = {}
  PROVE  Cardinality(B \cup C) = Cardinality(B) + Cardinality(C) /\ IsFiniteSet(B \cup C)
<1>1. Cardinality(B \cup C) = Cardinality(B) + Cardinality(C) - Cardinality(B \cap C) /\ IsFiniteSet(B \cup C)
  BY FS_Union, Zenon
<1>2. Cardinality(B \cap C) = 0 /\ Cardinality(B) \in Nat /\ Cardinality(C) \in Nat
  BY FS_EmptySet, FS_CardinalityType
<1> QED BY <1>1, <1>2

OfKinds(X, k, s) == {x \in X : k[x] \in s}
\* What is counted by kinds adds up to what is of those kinds.
LEMMA SumOfKinds ==
  ASSUME NEW P, IsFiniteSet(P), NEW X, IsFiniteSet(X), NEW f, NEW k, \A b \in P : f[b] = Cardinality(OfKinds(X, k, {b}))
  PROVE  Q!SumFunctionOnSet(f, P) = Cardinality(OfKinds(X, k, P))
<1>1. ASSUME NEW b \in P PROVE f[b] \in Nat
  <2>1. IsFiniteSet(OfKinds(X, k, {b}))
    BY FS_Subset DEF OfKinds
  <2> QED BY <2>1, FS_CardinalityType
<1>2. PICK g : IsSum(f, P, g) /\ Q!SumFunctionOnSet(f, P) = g[P]
  BY <1>1, SumOnSet
<1> DEFINE Of(s) == OfKinds(X, k, s)
<1> DEFINE Bad == {t \in SUBSET P : g[t] # Cardinality(Of(t))}
<1>3. Bad = {}
  <2> SUFFICES ASSUME Bad # {} PROVE FALSE
    OBVIOUS
  <2>0. \A t \in Bad : t \subseteq P
    OBVIOUS
  <2>1. PICK t \in Bad : \A u \in Bad : u \subseteq t => u = t
    <3> HIDE DEF Bad
    <3> QED BY <2>0, SmallestSet
  <2>2. t \in SUBSET P /\ g[t] = SumOf(f, g, t)
    BY <1>2, <2>1 DEF IsSum
  <2>3. CASE t = {}
    <3>1. Of(t) = {}
      BY <2>3 DEF OfKinds
    <3> QED BY <2>1, <2>2, <2>3, <3>1, FS_EmptySet DEF SumOf
  <2>4. CASE t # {}
    <3>1. PICK y : y = Some(t)
      OBVIOUS
    <3>2. y \in t /\ g[t] = f[y] + g[t \ {y}]
      BY <2>2, <2>4, <3>1 DEF Some, SumOf
    <3>3. g[t \ {y}] = Cardinality(Of(t \ {y}))
      <4>1. t \ {y} \in SUBSET P /\ t \ {y} \notin Bad
        <5> HIDE DEF Bad
        <5> QED BY <2>1, <2>2, <3>2
      <4> HIDE DEF Of
      <4> QED BY <4>1
    <3>4. f[y] = Cardinality(Of({y}))
      BY <2>2, <3>2
    <3>5. Of(t) = Of({y}) \cup Of(t \ {y}) /\ Of({y}) \cap Of(t \ {y}) = {}
      BY <3>2 DEF OfKinds
    <3>6. IsFiniteSet(Of({y})) /\ IsFiniteSet(Of(t \ {y}))
      BY FS_Subset DEF OfKinds
    <3>7. Cardinality(Of(t)) = Cardinality(Of({y})) + Cardinality(Of(t \ {y}))
      <4> HIDE DEF Of
      <4> QED BY <3>5, <3>6, CardApart
    <3> QED BY <2>1, <3>2, <3>3, <3>4, <3>7
  <2> QED BY <2>3, <2>4
<1> QED BY <1>2, <1>3

\* One value moves the sum by as much as it moves.
LEMMA SumMoves ==
  ASSUME NEW P, IsFiniteSet(P), NEW f \in [P -> Nat], NEW h \in [P -> Nat], NEW p \in P, \A q \in P \ {p} : h[q] = f[q]
  PROVE  \E rest \in Nat : Q!SumFunction(f) = f[p] + rest /\ Q!SumFunction(h) = h[p] + rest
<1>1. PICK g : IsSum(f, P, g) /\ Q!SumFunction(f) = g[P]
  BY SumIsSum
<1>2. PICK k : IsSum(h, P, k) /\ Q!SumFunction(h) = k[P]
  BY SumIsSum
<1>3. g[P] = f[p] + g[P \ {p}] /\ k[P] = h[p] + k[P \ {p}]
  BY <1>1, <1>2, SumTakenApart
<1>4. g[P \ {p}] = k[P \ {p}]
  BY <1>1, <1>2, SumsAgree
<1>5. g[P \ {p}] \in Nat
  BY <1>1 DEF IsSum
<1> QED BY <1>1, <1>2, <1>3, <1>4, <1>5

\* A sum of nothing but 0 is 0.
LEMMA SumOfNothing ==
  ASSUME NEW P, IsFiniteSet(P), NEW f \in [P -> Nat], \A p \in P : f[p] = 0
  PROVE  Q!SumFunction(f) = 0
<1>1. PICK g : IsSum(f, P, g) /\ Q!SumFunction(f) = g[P]
  BY SumIsSum
<1>2. PICK k : k = [s \in SUBSET P |-> 0]
  OBVIOUS
<1>3. \A s \in SUBSET P : 0 = SumOf(f, k, s)
  BY <1>2 DEF SumOf, Some
<1>4. IsSum(f, P, k)
  BY <1>2, <1>3 DEF IsSum
<1>5. g[P] = k[P]
  BY <1>1, <1>4, SumsAgree
<1> QED BY <1>1, <1>2, <1>5

-----------------------------------------------------------------------------
(* Quality: rows whose counters add up, and who holds what of each row. *)

Rows8 == [Q!Counters -> Nat]
Sound(q) ==
  /\ q \in Rows8 /\ q["samples"] = q["total"] /\ \A n \in Q!Counters : q[n] <= q["total"]
  /\ q["accepted"] <= q["valid"] /\ q["accepted"] <= q["complete"]
  /\ q["valid"] + q["failure"] = q["total"] /\ q["complete"] + q["partial"] = q["valid"]
  /\ q["truncated"] <= q["valid"] /\ q["truncated"] <= q["partial"]
Page == [Keys -> {q \in Rows8 : Sound(q)}]

LEMMA EmptySound == Sound(Q!Empty) /\ Q!Empty["total"] = 0
BY DEF Sound, Rows8, Q!Empty, Q!Counters

LEMMA NothingIsEmpty == ASSUME NEW q, Sound(q), q["total"] = 0 PROVE q = Q!Empty
<1>1. q \in Rows8 /\ \A n \in Q!Counters : q[n] <= 0
  BY DEF Sound
<1>2. \A n \in Q!Counters : q[n] = 0
  BY <1>1 DEF Rows8
<1> QED BY <1>1, <1>2 DEF Q!Empty, Rows8

LEMMA SoundReads == ASSUME NEW rows \in Page PROVE Q!Readable(rows)
<1>1. ASSUME NEW k \in Keys, rows[k] # Q!Empty PROVE Q!Validates(rows[k])
  <2>1. Sound(rows[k]) /\ rows[k]["total"] # 0 /\ rows[k]["total"] \in Nat
    BY <1>1, NothingIsEmpty DEF Page, Rows8, Q!Counters
  <2> QED BY <2>1 DEF Sound, Q!Validates
<1> QED BY <1>1 DEF Q!Readable

LEMMA NormalIsSame == ASSUME NEW q, Sound(q) PROVE Q!Normal(q) = q
<1>1. q \in Rows8 /\ q["complete"] + q["partial"] = q["valid"] /\ q["complete"] \in Nat /\ q["partial"] \in Nat /\ q["valid"] \in Nat
  BY DEF Sound, Rows8, Q!Counters
<1>2. ~(q["partial"] = 0 /\ q["valid"] > 0 /\ q["complete"] = 0)
  BY <1>1
<1> QED BY <1>1, <1>2 DEF Q!Normal, Rows8

LEMMA MergeSound ==
  ASSUME NEW a, Sound(a), NEW b, Sound(b)
  PROVE  Sound(Q!Merge(a, b)) /\ Q!Merge(a, b)["total"] = a["total"] + b["total"]
<1>1. PICK m : m = Q!Merge(a, b)
  OBVIOUS
<1>2. m = [n \in Q!Counters |-> IF n = "samples" THEN a["total"] + b["total"] ELSE a[n] + b[n]]
  BY <1>1, NormalIsSame DEF Q!Merge
<1>3. \A n \in Q!Counters : a[n] \in Nat /\ b[n] \in Nat
  BY DEF Sound, Rows8
<1>4. m \in Rows8 /\ \A n \in Q!Counters \ {"samples"} : m[n] = a[n] + b[n]
  <2>1. "total" \in Q!Counters
    BY DEF Q!Counters
  <2> QED BY <1>2, <1>3, <2>1 DEF Rows8
<1>5. m["samples"] = a["total"] + b["total"]
  BY <1>2 DEF Q!Counters
<1>6. \A n \in Q!Counters : m[n] <= m["total"]
  <2>1. "total" \in Q!Counters \ {"samples"}
    BY DEF Q!Counters
  <2>2. \A n \in Q!Counters : a[n] <= a["total"] /\ b[n] <= b["total"]
    BY DEF Sound
  <2>3. ASSUME NEW n \in Q!Counters PROVE m[n] <= m["total"]
    BY <1>3, <1>4, <1>5, <2>1, <2>2
  <2> QED BY <2>3
<1>7. Sound(m)
  <2>1. /\ m["total"] = a["total"] + b["total"] /\ m["accepted"] = a["accepted"] + b["accepted"] /\ m["valid"] = a["valid"] + b["valid"]
        /\ m["complete"] = a["complete"] + b["complete"] /\ m["partial"] = a["partial"] + b["partial"]
        /\ m["failure"] = a["failure"] + b["failure"] /\ m["truncated"] = a["truncated"] + b["truncated"]
    BY <1>4 DEF Q!Counters
  <2>2. /\ a["total"] \in Nat /\ a["accepted"] \in Nat /\ a["valid"] \in Nat /\ a["complete"] \in Nat /\ a["partial"] \in Nat
        /\ a["failure"] \in Nat /\ a["truncated"] \in Nat
        /\ b["total"] \in Nat /\ b["accepted"] \in Nat /\ b["valid"] \in Nat /\ b["complete"] \in Nat /\ b["partial"] \in Nat
        /\ b["failure"] \in Nat /\ b["truncated"] \in Nat
    BY <1>3 DEF Q!Counters
  <2> QED BY <1>4, <1>5, <1>6, <2>1, <2>2 DEF Sound
<1> QED BY <1>1, <1>4, <1>7 DEF Q!Counters

LEMMA ObservedSound == ASSUME NEW q \in Q!Observed PROVE Sound(q) /\ q["total"] = 1
<1>1. PICK o \in Q!Outcomes : q = Q!Observe(o)
  BY DEF Q!Observed
<1>2. PICK ok \in BOOLEAN, shape \in BOOLEAN, cut \in BOOLEAN, said \in BOOLEAN, scoped \in BOOLEAN :
        ok = o.ok /\ shape = o.shape /\ cut = o.cut /\ said = o.said /\ scoped = o.scoped
  BY DEF Q!Outcomes
<1> QED BY <1>1, <1>2 DEF Sound, Rows8, Q!Observe, Q!One, Q!Counters

LEMMA MergeAllSound ==
  ASSUME NEW a \in Page, NEW b \in Page
  PROVE  Q!MergeAll(a, b) \in Page /\ \A k \in Keys : Q!MergeAll(a, b)[k]["total"] = a[k]["total"] + b[k]["total"]
<1>1. ASSUME NEW k \in Keys
      PROVE  LET r == IF b[k] = Q!Empty THEN a[k] ELSE Q!Merge(a[k], b[k]) IN Sound(r) /\ r \in Rows8 /\ r["total"] = a[k]["total"] + b[k]["total"]
  <2>1. Sound(a[k]) /\ Sound(b[k]) /\ a[k]["total"] \in Nat
    BY DEF Page, Sound, Rows8, Q!Counters
  <2>2. CASE b[k] = Q!Empty
    BY <2>1, <2>2, EmptySound DEF Sound
  <2>3. CASE b[k] # Q!Empty
    BY <2>1, <2>3, MergeSound DEF Sound
  <2> QED BY <2>2, <2>3
<1> QED BY <1>1 DEF Q!MergeAll, Page

\* What a process has that the file has not, and what holds of a process.
Unfiled(b, k) == IF b.at = "clear" THEN 0 ELSE b.pending[k]["total"]
UnfiledOf(all, k) == [p \in Procs |-> Unfiled(all[p], k)]
Books == [at : {"out", "idle", "lock", "read", "write", "clear"}, book : Page, pending : Page, rows : Page]
BookOn(b, p, filed, held) ==
  /\ b.at \in {"read", "write", "clear"} => held = {p}
  /\ b.at = "out" => b = Q!Out
  /\ b.at = "write" => \A k \in Keys : b.rows[k]["total"] = filed[k]["total"] + b.pending[k]["total"]
  /\ \A k \in Keys : b.pending[k]["total"] <= b.book[k]["total"] /\ b.book[k]["total"] <= filed[k]["total"] + Unfiled(b, k)
QualityTypes == ledger \in Page /\ recorded \in [Keys -> Nat] /\ books \in [Procs -> Books]
Balanced == \A k \in Keys : ledger[k]["total"] + Q!SumFunction(UnfiledOf(books, k)) = recorded[k]
QualityInv == QualityTypes /\ Balanced /\ \A p \in Procs : BookOn(books[p], p, ledger, holder)

LEMMA TotalsAreNumbers ==
  /\ \A rows \in Page, k \in Keys : rows[k]["total"] \in Nat /\ Sound(rows[k])
  /\ \A b \in Books, k \in Keys : Unfiled(b, k) \in Nat
  /\ Q!NoRows \in Page /\ \A k \in Keys : Q!NoRows[k]["total"] = 0
  /\ Q!Out \in Books
<1>1. \A rows \in Page, k \in Keys : rows[k]["total"] \in Nat /\ Sound(rows[k])
  BY DEF Page, Rows8, Q!Counters
<1>2. \A b \in Books, k \in Keys : Unfiled(b, k) \in Nat
  BY <1>1 DEF Books, Unfiled
<1>3. Q!NoRows \in Page /\ \A k \in Keys : Q!NoRows[k]["total"] = 0
  BY EmptySound DEF Q!NoRows, Page, Sound
<1>4. Q!Out \in Books
  BY <1>3 DEF Q!Out, Books
<1> QED BY <1>1, <1>2, <1>3, <1>4

\* One process moves: what it files and what it still has make up for what it
\* had and what is recorded; the others keep what they have.
QualityMove(p, b, held, filed, count) ==
  /\ books' = [books EXCEPT ![p] = b] /\ holder' = held /\ ledger' = filed /\ recorded' = count
  /\ b \in Books /\ filed \in Page /\ count \in [Keys -> Nat]
  /\ held = holder \/ held = holder \ {p} \/ (holder = {} /\ held = {p})
  /\ filed = ledger \/ (books[p].at = "write" /\ \A k \in Keys : filed[k]["total"] >= ledger[k]["total"])
  /\ \A k \in Keys : filed[k]["total"] + Unfiled(b, k) + recorded[k] = ledger[k]["total"] + Unfiled(books[p], k) + count[k]
  /\ BookOn(b, p, filed, held)

LEMMA QualityMoves ==
  ASSUME QualityInv, NEW p \in Procs, NEW b, NEW held, NEW filed, NEW count, QualityMove(p, b, held, filed, count)
  PROVE  QualityInv'
<1>1. QualityTypes /\ Balanced /\ \A d \in Procs : BookOn(books[d], d, ledger, holder)
  BY DEF QualityInv
<1>2. b \in Books /\ books' = [books EXCEPT ![p] = b] /\ books'[p] = b /\ \A d \in Procs \ {p} : books'[d] = books[d]
  BY <1>1 DEF QualityMove, QualityTypes
<1>3. QualityTypes'
  BY <1>1, <1>2 DEF QualityMove, QualityTypes
<1>4. Balanced'
  <2>1. ASSUME NEW k \in Keys PROVE ledger'[k]["total"] + Q!SumFunction(UnfiledOf(books', k)) = recorded'[k]
    <3>1. PICK f : f = UnfiledOf(books, k)
      OBVIOUS
    <3>2. PICK h : h = UnfiledOf(books', k)
      OBVIOUS
    <3>3. f \in [Procs -> Nat] /\ f[p] = Unfiled(books[p], k)
      BY <1>1, <3>1, TotalsAreNumbers DEF UnfiledOf, QualityTypes
    <3>4. h \in [Procs -> Nat] /\ h[p] = Unfiled(b, k)
      BY <1>2, <1>3, <3>2, TotalsAreNumbers DEF UnfiledOf, QualityTypes
    <3>5. \A d \in Procs \ {p} : h[d] = f[d]
      BY <1>2, <3>1, <3>2 DEF UnfiledOf
    <3>6. PICK rest \in Nat : Q!SumFunction(f) = f[p] + rest /\ Q!SumFunction(h) = h[p] + rest
      BY <3>3, <3>4, <3>5, ProcsAssumption, SumMoves
    <3>7. ledger[k]["total"] + (f[p] + rest) = recorded[k]
      BY <1>1, <3>1, <3>6 DEF Balanced
    <3>8. ledger'[k]["total"] + h[p] + recorded[k] = ledger[k]["total"] + f[p] + recorded'[k]
      BY <3>3, <3>4 DEF QualityMove
    <3>9. /\ ledger[k]["total"] \in Nat /\ ledger'[k]["total"] \in Nat /\ recorded[k] \in Nat /\ recorded'[k] \in Nat
          /\ f[p] \in Nat /\ h[p] \in Nat
      BY <1>1, <1>3, <3>3, <3>4, TotalsAreNumbers DEF QualityTypes
    <3>10. ledger'[k]["total"] + (h[p] + rest) = recorded'[k]
      BY <3>7, <3>8, <3>9
    <3> QED BY <3>2, <3>6, <3>10
  <2> QED BY <2>1 DEF Balanced
<1>5. ASSUME NEW d \in Procs PROVE BookOn(books'[d], d, ledger', holder')
  <2>1. CASE d = p
    BY <1>2, <2>1 DEF QualityMove
  <2>2. CASE d # p
    <3>1. books'[d] = books[d] /\ BookOn(books[d], d, ledger, holder)
      BY <1>1, <1>2, <2>2
    <3>2. books[d].at \in {"read", "write", "clear"} => holder' = {d} /\ ledger' = ledger
      <4> SUFFICES ASSUME books[d].at \in {"read", "write", "clear"} PROVE holder' = {d} /\ ledger' = ledger
        OBVIOUS
      <4>1. holder = {d} /\ books[p].at # "write"
        BY <1>1, <2>2, <3>1 DEF BookOn
      <4> QED BY <2>2, <4>1 DEF QualityMove
    <3>3. \A k \in Keys : ledger[k]["total"] <= ledger'[k]["total"] /\ ledger[k]["total"] \in Nat /\ ledger'[k]["total"] \in Nat
      BY <1>1, <1>3, TotalsAreNumbers DEF QualityMove, QualityTypes
    <3>4. ASSUME NEW k \in Keys PROVE books[d].book[k]["total"] <= ledger'[k]["total"] + Unfiled(books[d], k)
      <4>1. books[d].book[k]["total"] <= ledger[k]["total"] + Unfiled(books[d], k)
        BY <3>1 DEF BookOn
      <4>2. books[d].book[k]["total"] \in Nat /\ Unfiled(books[d], k) \in Nat
        BY <1>1, TotalsAreNumbers DEF QualityTypes, Books
      <4> QED BY <3>3, <4>1, <4>2
    <3> QED BY <3>1, <3>2, <3>4 DEF BookOn
  <2> QED BY <2>1, <2>2
<1> QED BY <1>3, <1>4, <1>5 DEF QualityInv

\* What a process at rest, or on its way to the lock, is about to be.
LEMMA QualityFacts ==
  ASSUME QualityInv, NEW p \in Procs
  PROVE  /\ ledger \in Page /\ recorded \in [Keys -> Nat] /\ books[p] \in Books /\ BookOn(books[p], p, ledger, holder)
         /\ \A k \in Keys : ledger[k]["total"] \in Nat /\ recorded[k] \in Nat /\ Unfiled(books[p], k) \in Nat
                            /\ books[p].pending[k]["total"] \in Nat /\ books[p].book[k]["total"] \in Nat /\ books[p].rows[k]["total"] \in Nat
<1>1. ledger \in Page /\ recorded \in [Keys -> Nat] /\ books[p] \in Books /\ BookOn(books[p], p, ledger, holder)
  BY DEF QualityInv, QualityTypes
<1>2. books[p].pending \in Page /\ books[p].book \in Page /\ books[p].rows \in Page
  BY <1>1 DEF Books
<1> QED BY <1>1, <1>2, TotalsAreNumbers

\* A process that only goes on: nothing is filed, recorded or forgotten.
LEMMA QualityGoesOn ==
  ASSUME QualityInv, NEW p \in Procs, NEW b \in Books, NEW held, books' = [books EXCEPT ![p] = b], holder' = held,
         UNCHANGED <<ledger, recorded>>, held = holder \/ held = holder \ {p} \/ (holder = {} /\ held = {p}),
         \A k \in Keys : Unfiled(b, k) = Unfiled(books[p], k), BookOn(b, p, ledger, held)
  PROVE  QualityInv'
<1>1. QualityMove(p, b, held, ledger, recorded)
  BY QualityFacts DEF QualityMove
<1> QED BY <1>1, QualityMoves

LEMMA OpenKeeps == ASSUME QualityInv, NEW p \in Procs, Q!Open(p) PROVE QualityInv'
<1>1. PICK b : b = [Q!Out EXCEPT !.at = "idle", !.book = ledger]
  OBVIOUS
<1>2. books' = [books EXCEPT ![p] = b] /\ holder' = holder /\ UNCHANGED <<ledger, recorded>> /\ books[p].at = "out"
  BY <1>1 DEF Q!Open
<1>3. b \in Books /\ b.at = "idle" /\ b.pending = Q!NoRows /\ b.book = ledger
  BY <1>1, QualityFacts, TotalsAreNumbers DEF Q!Out, Books
<1>4. books[p].pending = Q!NoRows
  BY <1>2, QualityFacts DEF BookOn, Q!Out
<1>5. \A k \in Keys : Unfiled(b, k) = 0 /\ Unfiled(books[p], k) = 0 /\ ledger[k]["total"] \in Nat
  BY <1>2, <1>3, <1>4, TotalsAreNumbers, QualityFacts DEF Unfiled
<1>6. BookOn(b, p, ledger, holder)
  BY <1>3, <1>5, TotalsAreNumbers DEF BookOn
<1>7. \A k \in Keys : Unfiled(b, k) = Unfiled(books[p], k)
  BY <1>5
<1> QED BY <1>2, <1>3, <1>6, <1>7, QualityGoesOn

LEMMA RecordKeeps ==
  ASSUME QualityInv, NEW p \in Procs, NEW k \in Keys, NEW seen \in Q!Observed, Q!Record(p, k, seen) PROVE QualityInv'
<1>1. PICK q : q = Q!Normal(seen)
  OBVIOUS
<1>2. Sound(q) /\ q["total"] = 1
  BY <1>1, ObservedSound, NormalIsSame
<1>3. PICK b : b = [books[p] EXCEPT !.at = "lock", !.book = [books[p].book EXCEPT ![k] = Q!Merge(Q!Normal(books[p].book[k]), q)],
                                    !.pending = [books[p].pending EXCEPT ![k] = Q!Merge(books[p].pending[k], q)]]
  OBVIOUS
<1>4. books' = [books EXCEPT ![p] = b] /\ recorded' = [recorded EXCEPT ![k] = @ + 1] /\ holder' = holder /\ ledger' = ledger
      /\ books[p].at = "idle"
  <2>1. books' = [books EXCEPT ![p].at = "lock", ![p].book[k] = Q!Merge(Q!Normal(@), q), ![p].pending[k] = Q!Merge(@, q)]
    BY <1>1 DEF Q!Record
  <2>2. books \in [Procs -> Books]
    BY DEF QualityInv, QualityTypes
  <2>3. books' = [books EXCEPT ![p] = b]
    BY <1>3, <2>1, <2>2, ZenonT(60) DEF Books
  <2> QED BY <2>3 DEF Q!Record
<1>5. books[p] \in Books /\ books[p].book \in Page /\ books[p].pending \in Page
  BY QualityFacts DEF Books
<1>6. PICK x : x = Q!Merge(books[p].book[k], q)
  OBVIOUS
<1>7. PICK y : y = Q!Merge(books[p].pending[k], q)
  OBVIOUS
<1>8. /\ Sound(x) /\ x["total"] = books[p].book[k]["total"] + 1 /\ Q!Normal(books[p].book[k]) = books[p].book[k]
      /\ Sound(y) /\ y["total"] = books[p].pending[k]["total"] + 1
  <2>1. Sound(books[p].book[k]) /\ Sound(books[p].pending[k])
    BY <1>5, TotalsAreNumbers
  <2> QED BY <1>2, <1>6, <1>7, <2>1, MergeSound, NormalIsSame
<1>9. b = [books[p] EXCEPT !.at = "lock", !.book = [books[p].book EXCEPT ![k] = x], !.pending = [books[p].pending EXCEPT ![k] = y]]
  BY <1>3, <1>6, <1>7, <1>8
<1>10. x \in Rows8 /\ y \in Rows8
  BY <1>8 DEF Sound
<1>11. [books[p].book EXCEPT ![k] = x] \in Page /\ [books[p].pending EXCEPT ![k] = y] \in Page
  BY <1>5, <1>8, <1>10 DEF Page
<1>12. /\ b \in Books /\ b.at = "lock"
       /\ b.book = [books[p].book EXCEPT ![k] = x] /\ b.pending = [books[p].pending EXCEPT ![k] = y]
  BY <1>5, <1>9, <1>11 DEF Books
<1>13. \A j \in Keys :
         /\ b.book[j]["total"] = IF j = k THEN books[p].book[j]["total"] + 1 ELSE books[p].book[j]["total"]
         /\ b.pending[j]["total"] = IF j = k THEN books[p].pending[j]["total"] + 1 ELSE books[p].pending[j]["total"]
  BY <1>5, <1>8, <1>12 DEF Page
<1>14. \A j \in Keys : Unfiled(b, j) = b.pending[j]["total"] /\ Unfiled(books[p], j) = books[p].pending[j]["total"]
  BY <1>4, <1>12 DEF Unfiled
<1>15. \A j \in Keys : recorded'[j] = IF j = k THEN recorded[j] + 1 ELSE recorded[j]
  BY <1>4, QualityFacts
<1>16. BookOn(b, p, ledger, holder)
  <2>1. ASSUME NEW j \in Keys
        PROVE  b.pending[j]["total"] <= b.book[j]["total"] /\ b.book[j]["total"] <= ledger[j]["total"] + b.pending[j]["total"]
    <3>1. books[p].pending[j]["total"] <= books[p].book[j]["total"] /\ books[p].book[j]["total"] <= ledger[j]["total"] + books[p].pending[j]["total"]
      BY <1>14, QualityFacts DEF BookOn
    <3>2. books[p].pending[j]["total"] \in Nat /\ books[p].book[j]["total"] \in Nat /\ ledger[j]["total"] \in Nat
      BY QualityFacts
    <3> QED BY <1>13, <3>1, <3>2
  <2> QED BY <1>12, <1>14, <2>1 DEF BookOn
<1>17. \A j \in Keys : ledger[j]["total"] + Unfiled(b, j) + recorded[j] = ledger[j]["total"] + Unfiled(books[p], j) + recorded'[j]
  <2> SUFFICES ASSUME NEW j \in Keys PROVE ledger[j]["total"] + Unfiled(b, j) + recorded[j] = ledger[j]["total"] + Unfiled(books[p], j) + recorded'[j]
    OBVIOUS
  <2>1. ledger[j]["total"] \in Nat /\ recorded[j] \in Nat /\ Unfiled(books[p], j) \in Nat
    BY QualityFacts
  <2>2. Unfiled(b, j) = IF j = k THEN Unfiled(books[p], j) + 1 ELSE Unfiled(books[p], j)
    BY <1>13, <1>14
  <2>3. PICK l \in Nat, r \in Nat, u \in Nat : l = ledger[j]["total"] /\ r = recorded[j] /\ u = Unfiled(books[p], j)
    BY <2>1
  <2> QED BY <1>15, <2>2, <2>3
<1>18. recorded' \in [Keys -> Nat]
  BY <1>4, QualityFacts
<1>19. QualityMove(p, b, holder, ledger, recorded')
  BY <1>4, <1>12, <1>16, <1>17, <1>18, QualityFacts DEF QualityMove
<1> QED BY <1>19, QualityMoves

LEMMA LockKeeps == ASSUME QualityInv, NEW p \in Procs, Q!Claim(p) \/ Q!GiveUp(p) PROVE QualityInv'
<1>1. PICK at \in {"read", "idle"} :
        /\ books' = [books EXCEPT ![p].at = at] /\ UNCHANGED <<ledger, recorded>> /\ books[p].at = "lock"
        /\ (at = "read" /\ holder = {} /\ holder' = {p}) \/ (at = "idle" /\ holder' = holder)
  BY DEF Q!Claim, Q!GiveUp
<1>2. PICK b : b = [books[p] EXCEPT !.at = at]
  OBVIOUS
<1>3. books' = [books EXCEPT ![p] = b]
  BY <1>1, <1>2
<1>4. b \in Books /\ b.at = at /\ b.pending = books[p].pending /\ b.book = books[p].book
  BY <1>2, QualityFacts DEF Books
<1>5. \A k \in Keys : Unfiled(b, k) = Unfiled(books[p], k)
  BY <1>1, <1>4 DEF Unfiled
<1>6. BookOn(b, p, ledger, holder')
  BY <1>1, <1>4, <1>5, QualityFacts DEF BookOn
<1> QED BY <1>1, <1>3, <1>4, <1>5, <1>6, QualityGoesOn

LEMMA ReadKeeps == ASSUME QualityInv, NEW p \in Procs, Q!Read(p) PROVE QualityInv'
<1>1. PICK rows : rows = Q!MergeAll(ledger, books[p].pending)
  OBVIOUS
<1>2. PICK book : book = [k \in Keys |-> IF rows[k] = Q!Empty THEN books[p].book[k] ELSE rows[k]]
  OBVIOUS
<1>3. PICK b : b = [books[p] EXCEPT !.at = "write", !.rows = rows, !.book = book]
  OBVIOUS
<1>4. books' = [books EXCEPT ![p] = b] /\ UNCHANGED <<ledger, recorded, holder>> /\ books[p].at = "read"
  BY <1>1, <1>2, <1>3 DEF Q!Read
<1>5. books[p] \in Books /\ books[p].pending \in Page /\ books[p].book \in Page /\ ledger \in Page
  BY QualityFacts DEF Books
<1>6. rows \in Page /\ \A k \in Keys : rows[k]["total"] = ledger[k]["total"] + books[p].pending[k]["total"]
  BY <1>1, <1>5, MergeAllSound
<1>7. book \in Page
  BY <1>2, <1>5, <1>6 DEF Page
<1>8. b \in Books /\ b.at = "write" /\ b.rows = rows /\ b.book = book /\ b.pending = books[p].pending
  BY <1>3, <1>5, <1>6, <1>7 DEF Books
<1>9. \A k \in Keys : Unfiled(b, k) = Unfiled(books[p], k) /\ Unfiled(b, k) = books[p].pending[k]["total"]
  BY <1>4, <1>8 DEF Unfiled
<1>10. ASSUME NEW k \in Keys
       PROVE  books[p].pending[k]["total"] <= book[k]["total"] /\ book[k]["total"] <= ledger[k]["total"] + books[p].pending[k]["total"]
  <2>1. books[p].pending[k]["total"] \in Nat /\ ledger[k]["total"] \in Nat
    BY QualityFacts
  <2>2. CASE rows[k] = Q!Empty
    <3>1. book[k] = books[p].book[k]
      BY <1>2, <2>2
    <3> QED BY <1>9, <3>1, QualityFacts DEF BookOn
  <2>3. CASE rows[k] # Q!Empty
    <3>1. book[k]["total"] = ledger[k]["total"] + books[p].pending[k]["total"]
      BY <1>2, <1>6, <2>3
    <3> QED BY <2>1, <3>1
  <2> QED BY <2>2, <2>3
<1>11. BookOn(b, p, ledger, holder)
  BY <1>4, <1>6, <1>8, <1>9, <1>10, QualityFacts DEF BookOn
<1>12. \A k \in Keys : Unfiled(b, k) = Unfiled(books[p], k)
  BY <1>9
<1> QED BY <1>4, <1>8, <1>11, <1>12, QualityGoesOn

LEMMA RenameKeeps == ASSUME QualityInv, NEW p \in Procs, Q!Rename(p) PROVE QualityInv'
<1>1. PICK b : b = [books[p] EXCEPT !.at = "clear"]
  OBVIOUS
<1>2. books' = [books EXCEPT ![p] = b] /\ ledger' = books[p].rows /\ UNCHANGED <<recorded, holder>> /\ books[p].at = "write"
  BY <1>1 DEF Q!Rename
<1>3. b \in Books /\ b.at = "clear" /\ b.pending = books[p].pending /\ b.book = books[p].book /\ books[p].rows \in Page
  BY <1>1, QualityFacts DEF Books
<1>4. \A k \in Keys : ledger'[k]["total"] = ledger[k]["total"] + books[p].pending[k]["total"]
  BY <1>2, QualityFacts DEF BookOn
<1>5. \A k \in Keys : Unfiled(b, k) = 0 /\ Unfiled(books[p], k) = books[p].pending[k]["total"]
  BY <1>2, <1>3 DEF Unfiled
<1>6. BookOn(b, p, ledger', holder)
  <2>1. ASSUME NEW k \in Keys
        PROVE  b.pending[k]["total"] <= b.book[k]["total"] /\ b.book[k]["total"] <= ledger'[k]["total"] + Unfiled(b, k)
    <3>1. books[p].pending[k]["total"] <= books[p].book[k]["total"]
          /\ books[p].book[k]["total"] <= ledger[k]["total"] + books[p].pending[k]["total"]
      BY <1>5, QualityFacts DEF BookOn
    <3>2. books[p].pending[k]["total"] \in Nat /\ ledger[k]["total"] \in Nat
      BY QualityFacts
    <3> QED BY <1>3, <1>4, <1>5, <3>1, <3>2
  <2>2. holder = {p}
    BY <1>2, QualityFacts DEF BookOn
  <2> QED BY <1>3, <2>1, <2>2 DEF BookOn
<1>7. \A k \in Keys : /\ ledger'[k]["total"] >= ledger[k]["total"]
                     /\ ledger'[k]["total"] + Unfiled(b, k) + recorded[k] = ledger[k]["total"] + Unfiled(books[p], k) + recorded[k]
  <2> SUFFICES ASSUME NEW k \in Keys
               PROVE  /\ ledger'[k]["total"] >= ledger[k]["total"]
                      /\ ledger'[k]["total"] + Unfiled(b, k) + recorded[k] = ledger[k]["total"] + Unfiled(books[p], k) + recorded[k]
    OBVIOUS
  <2>1. PICK l \in Nat, r \in Nat, u \in Nat : l = ledger[k]["total"] /\ r = recorded[k] /\ u = books[p].pending[k]["total"]
    BY QualityFacts
  <2> QED BY <1>4, <1>5, <2>1
<1>8. QualityMove(p, b, holder, ledger', recorded)
  BY <1>2, <1>3, <1>6, <1>7, QualityFacts DEF QualityMove
<1> QED BY <1>8, QualityMoves

LEMMA ClearKeeps == ASSUME QualityInv, NEW p \in Procs, Q!Clear(p) PROVE QualityInv'
<1>1. PICK b : b = [books[p] EXCEPT !.at = "idle", !.pending = Q!NoRows, !.rows = Q!NoRows]
  OBVIOUS
<1>2. books' = [books EXCEPT ![p] = b] /\ holder' = holder \ {p} /\ UNCHANGED <<ledger, recorded>> /\ books[p].at = "clear"
  BY <1>1 DEF Q!Clear
<1>3. b \in Books /\ b.at = "idle" /\ b.pending = Q!NoRows /\ b.book = books[p].book
  BY <1>1, QualityFacts, TotalsAreNumbers DEF Books
<1>4. \A k \in Keys : Unfiled(b, k) = 0 /\ Unfiled(books[p], k) = 0
  BY <1>2, <1>3, TotalsAreNumbers DEF Unfiled
<1>5. \A k \in Keys : Unfiled(b, k) = Unfiled(books[p], k) /\ b.pending[k]["total"] <= b.book[k]["total"]
                     /\ b.book[k]["total"] <= ledger[k]["total"] + Unfiled(b, k)
  BY <1>3, <1>4, TotalsAreNumbers, QualityFacts DEF BookOn
<1>6. BookOn(b, p, ledger, holder')
  BY <1>3, <1>5 DEF BookOn
<1> QED BY <1>2, <1>3, <1>5, <1>6, QualityGoesOn

LEMMA FailKeeps == ASSUME QualityInv, NEW p \in Procs, Q!Fail(p) PROVE QualityInv'
<1>1. PICK b : b = [books[p] EXCEPT !.at = "idle", !.rows = Q!NoRows, !.pending = books[p].pending]
  OBVIOUS
<1>2. books' = [books EXCEPT ![p] = b] /\ holder' = holder \ {p} /\ UNCHANGED <<ledger, recorded>> /\ books[p].at \in {"read", "write"}
  BY <1>1 DEF Q!Fail, Q!Kept
<1>3. b \in Books /\ b.at = "idle" /\ b.pending = books[p].pending /\ b.book = books[p].book
  BY <1>1, QualityFacts, TotalsAreNumbers DEF Books
<1>4. \A k \in Keys : Unfiled(b, k) = Unfiled(books[p], k)
  BY <1>2, <1>3 DEF Unfiled
<1>5. BookOn(b, p, ledger, holder')
  BY <1>3, <1>4, QualityFacts DEF BookOn
<1> QED BY <1>2, <1>3, <1>4, <1>5, QualityGoesOn

LEMMA KillKeeps == ASSUME QualityInv, NEW p \in Procs, Q!Kill(p) PROVE QualityInv'
<1>1. books' = [books EXCEPT ![p] = Q!Out] /\ holder' = holder \ {p} /\ ledger' = ledger
      /\ recorded' = [k \in Keys |-> recorded[k] - Unfiled(books[p], k)]
  BY DEF Q!Kill, Q!Filed, Unfiled
<1>2. ASSUME NEW k \in Keys
      PROVE  Unfiled(books[p], k) <= recorded[k] /\ recorded[k] \in Nat /\ Unfiled(books[p], k) \in Nat /\ ledger[k]["total"] \in Nat
  <2>1. PICK f : f = UnfiledOf(books, k)
    OBVIOUS
  <2>2. f \in [Procs -> Nat] /\ f[p] = Unfiled(books[p], k)
    BY <2>1, TotalsAreNumbers DEF UnfiledOf, QualityInv, QualityTypes
  <2>3. PICK rest \in Nat : Q!SumFunction(f) = f[p] + rest
    BY <2>2, ProcsAssumption, SumMoves
  <2>4. ledger[k]["total"] + (f[p] + rest) = recorded[k]
    BY <2>1, <2>3 DEF QualityInv, Balanced
  <2>5. ledger[k]["total"] \in Nat /\ recorded[k] \in Nat /\ f[p] \in Nat
    BY <2>2, QualityFacts
  <2> QED BY <2>2, <2>4, <2>5
<1>3. recorded' \in [Keys -> Nat]
  BY <1>1, <1>2
<1>4. \A k \in Keys : Unfiled(Q!Out, k) = 0 /\ Q!Out.book[k]["total"] = 0 /\ Q!Out.pending[k]["total"] = 0
  BY TotalsAreNumbers DEF Unfiled, Q!Out
<1>5. \A k \in Keys : ledger[k]["total"] + Unfiled(Q!Out, k) + recorded[k] = ledger[k]["total"] + Unfiled(books[p], k) + recorded'[k]
  <2> SUFFICES ASSUME NEW k \in Keys
               PROVE  ledger[k]["total"] + Unfiled(Q!Out, k) + recorded[k] = ledger[k]["total"] + Unfiled(books[p], k) + recorded'[k]
    OBVIOUS
  <2>1. PICK l \in Nat, r \in Nat, u \in Nat : l = ledger[k]["total"] /\ r = recorded[k] /\ u = Unfiled(books[p], k) /\ u <= r
    BY <1>2
  <2>2. recorded'[k] = r - u
    BY <1>1, <2>1
  <2> QED BY <1>4, <2>1, <2>2
<1>6. BookOn(Q!Out, p, ledger, holder')
  <2>1. Q!Out.at = "out"
    BY DEF Q!Out
  <2> QED BY <1>2, <1>4, <2>1 DEF BookOn
<1>7. QualityMove(p, Q!Out, holder', ledger, recorded')
  BY <1>1, <1>3, <1>5, <1>6, QualityFacts, TotalsAreNumbers DEF QualityMove
<1> QED BY <1>7, QualityMoves

LEMMA QualityNext == QualityInv /\ [Q!Next]_(Q!vars) => QualityInv'
<1> SUFFICES ASSUME QualityInv, [Q!Next]_(Q!vars) PROVE QualityInv'
  OBVIOUS
<1>1. CASE UNCHANGED Q!vars
  BY <1>1 DEF Q!vars, QualityInv, QualityTypes, Balanced, BookOn, Unfiled, UnfiledOf
<1>2. CASE Q!Next
  BY <1>2, OpenKeeps, RecordKeeps, LockKeeps, ReadKeeps, RenameKeeps, ClearKeeps, FailKeeps, KillKeeps DEF Q!Next
<1> QED BY <1>1, <1>2

LEMMA QualityHolds == Q!Spec => []Q!LedgerCountsOnce
<1>1. Q!Init => QualityInv
  <2> SUFFICES ASSUME Q!Init PROVE QualityInv
    OBVIOUS
  <2>1. ledger = Q!NoRows /\ books = [p \in Procs |-> Q!Out] /\ recorded = [k \in Keys |-> 0]
    BY DEF Q!Init
  <2>2. QualityTypes
    BY <2>1, TotalsAreNumbers DEF QualityTypes
  <2>3. \A k \in Keys : Unfiled(Q!Out, k) = 0 /\ Q!Out.book[k]["total"] = 0 /\ Q!Out.pending[k]["total"] = 0
    BY TotalsAreNumbers DEF Unfiled, Q!Out
  <2>4. ASSUME NEW k \in Keys PROVE ledger[k]["total"] + Q!SumFunction(UnfiledOf(books, k)) = recorded[k]
    <3>1. PICK f : f = UnfiledOf(books, k)
      OBVIOUS
    <3>2. f \in [Procs -> Nat] /\ \A p \in Procs : f[p] = 0
      BY <2>1, <2>3, <3>1 DEF UnfiledOf
    <3>3. Q!SumFunction(f) = 0
      BY <3>2, ProcsAssumption, SumOfNothing
    <3>4. ledger[k]["total"] = 0
      BY <2>1, TotalsAreNumbers
    <3> QED BY <2>1, <3>1, <3>3, <3>4
  <2>5. ASSUME NEW p \in Procs PROVE BookOn(books[p], p, ledger, holder)
    <3>1. books[p] = Q!Out /\ Q!Out.at = "out" /\ \A k \in Keys : ledger[k]["total"] = 0
      BY <2>1, TotalsAreNumbers DEF Q!Out
    <3> QED BY <2>3, <3>1 DEF BookOn
  <2> QED BY <2>2, <2>4, <2>5 DEF QualityInv, Balanced
<1>2. QualityInv => Q!LedgerCountsOnce
  <2> SUFFICES ASSUME QualityInv PROVE Q!LedgerCountsOnce
    OBVIOUS
  <2>1. \A k \in Keys : ledger[k]["total"] + Q!SumFunction([p \in Procs |-> IF Q!Filed(p) THEN 0 ELSE books[p].pending[k]["total"]]) = recorded[k]
    BY DEF QualityInv, Balanced, UnfiledOf, Unfiled, Q!Filed
  <2>2. Q!Readable(ledger) /\ \A p \in Procs : Q!Readable(books[p].book) /\ Q!Readable(books[p].pending)
    <3>1. \A p \in Procs : books[p].book \in Page /\ books[p].pending \in Page
      BY QualityFacts DEF Books
    <3> QED BY <3>1, SoundReads DEF QualityInv, QualityTypes
  <2>3. ASSUME NEW p \in Procs, NEW k \in Keys
        PROVE  /\ books[p].pending[k]["total"] <= books[p].book[k]["total"] /\ books[p].book[k]["total"] <= recorded[k]
               /\ Q!Tested(books[p].book[k]) => recorded[k] >= Q!Minimum
    <3>1. PICK f : f = UnfiledOf(books, k)
      OBVIOUS
    <3>2. f \in [Procs -> Nat] /\ f[p] = Unfiled(books[p], k)
      BY <3>1, TotalsAreNumbers DEF UnfiledOf, QualityInv, QualityTypes
    <3>3. PICK rest \in Nat : Q!SumFunction(f) = f[p] + rest
      BY <3>2, ProcsAssumption, SumMoves
    <3>4. ledger[k]["total"] + (f[p] + rest) = recorded[k]
      BY <3>1, <3>3 DEF QualityInv, Balanced
    <3>5. ledger[k]["total"] \in Nat /\ recorded[k] \in Nat /\ f[p] \in Nat /\ books[p].book[k]["total"] \in Nat
      BY <3>2, QualityFacts
    <3>6. books[p].pending[k]["total"] <= books[p].book[k]["total"] /\ books[p].book[k]["total"] <= ledger[k]["total"] + f[p]
      BY <3>2, QualityFacts DEF BookOn
    <3>7. books[p].book[k]["total"] <= recorded[k]
      BY <3>4, <3>5, <3>6
    <3> QED BY <3>5, <3>6, <3>7 DEF Q!Tested, Q!Minimum
  <2> QED BY <2>1, <2>2, <2>3 DEF Q!LedgerCountsOnce
<1> QED BY <1>1, <1>2, QualityNext, PTL DEF Q!Spec

-----------------------------------------------------------------------------
(* Backups: the state folder and the names beside it, the copies, the job that
   takes them and the command that restores them. *)

Versions(v) == 0..v
Trees(v) == [Names -> Versions(v) \cup {Gone}]
Kinds == {"none", "restore", "replace", "promote"}
Orders == [at : {"idle", "copy", "copied", "staged", "told"}, kind : Kinds, snap : Times, todo : SUBSET Names]
Own == {"target", "previous", "current"}
PlaceTypes ==
  /\ ver \in Nat /\ place \in [Slots -> Trees(ver) \cup {Gone}] /\ settled \in [Slots -> Trees(ver) \cup {Gone}]
  /\ mine \in Trees(ver) \cup {Gone} /\ up \in BOOLEAN /\ cmd \in Orders
\* Where the state is while a command moves it.
CommandOn ==
  /\ cmd.kind \in {"replace", "promote"} => ~up
  /\ cmd.at \in {"idle", "copy"} => cmd.kind \notin {"replace", "promote"}
  /\ cmd.at = "copy" => cmd.kind = "restore"
  /\ cmd.at = "copied" => cmd.kind = "replace" /\ place["previous"] = Gone /\ place["target"] # Gone
  /\ cmd.at = "staged" => /\ place["target"] = Gone
                          /\ \/ cmd.kind = "replace" /\ place["previous"] = settled["target"]
                             \/ cmd.kind = "promote" /\ place["current"] = settled["target"]
PlaceInv ==
  /\ PlaceTypes /\ CommandOn
  /\ mine # Gone => (\E s \in Own : place[s] = mine) /\ (\E s \in Own : settled[s] = mine)
  /\ place["target"] # Gone => settled["target"] = place["target"]
  /\ up => place["target"] # Gone

LEMMA TreesGrow ==
  ASSUME NEW v \in Nat, NEW w \in Nat, v <= w
  PROVE  Trees(v) \subseteq Trees(w)
BY DEF Trees, Versions

LEMMA GoneIsNoTree ==
  ASSUME NEW v \in Nat PROVE Gone \notin Trees(v) /\ Gone \notin Versions(v)
<1>1. Trees(v) \subseteq [Names -> Nat \cup {Gone}] /\ Versions(v) \subseteq Nat
  BY DEF Trees, Versions
<1> QED BY <1>1, GoneAssumption

LEMMA PlaceStarts ==
  ASSUME Init PROVE PlaceInv
<1> USE BackupAssumption
<1>1. place["target"] \in Trees(ver)
  BY DEF Init, Trees, Versions, Slots
<1>2. IdleCmd \in Orders
  BY DEF IdleCmd, Orders, Kinds, Times
<1>3. place \in [Slots -> Trees(ver) \cup {Gone}] /\ \A s \in Slots : s # "target" => place[s] = Gone
  BY <1>1 DEF Init, Slots
<1>4. "target" \in Own /\ place["target"] = mine /\ settled = place /\ up = TRUE /\ cmd = IdleCmd /\ ver = 1
  BY DEF Init, Own
<1>5. PlaceTypes
  BY <1>1, <1>2, <1>3, <1>4 DEF PlaceTypes
<1>6. CommandOn
  BY <1>4 DEF CommandOn, IdleCmd
<1>7. place["target"] # Gone
  BY <1>1, <1>4, GoneIsNoTree
<1> QED BY <1>4, <1>5, <1>6, <1>7 DEF PlaceInv

LEMMA PlaceRests ==
  ASSUME PlaceInv, UNCHANGED <<ver, place, settled, mine, up, cmd>>
  PROVE  PlaceInv'
BY DEF PlaceInv, PlaceTypes, CommandOn

LEMMA PlaceWritten ==
  ASSUME PlaceInv, NEW f \in Names, Write(f)
  PROVE  PlaceInv'
<1>1. PlaceTypes /\ CommandOn /\ ver' = ver + 1 /\ ver \in Nat
  BY DEF PlaceInv, Write, PlaceTypes
<1>2. Trees(ver) \subseteq Trees(ver')
  BY <1>1, TreesGrow
<1>3. CASE UNCHANGED <<place, settled, mine>>
  <2>1. PlaceTypes' /\ CommandOn'
    BY <1>1, <1>2, <1>3 DEF PlaceTypes, CommandOn, Write
  <2> QED BY <1>3, <2>1 DEF PlaceInv, Write
<1>4. CASE f # Conf
  <2>1. /\ up /\ up' = up /\ cmd' = cmd /\ place["target"] # Gone /\ place["target"] \in Trees(ver)
        /\ place' = [place EXCEPT !["target"][f] = ver']
        /\ settled' = [settled EXCEPT !["target"] = place'["target"]] /\ mine' = place'["target"]
    BY <1>1, <1>4 DEF Write, PlaceTypes, Slots
  <2>2. PICK new \in Trees(ver') : new = [place["target"] EXCEPT ![f] = ver']
    <3>1. [place["target"] EXCEPT ![f] = ver'] \in Trees(ver')
      BY <1>1, <2>1 DEF Trees, Versions
    <3> QED BY <3>1
  <2>3. place' = [place EXCEPT !["target"] = new] /\ place'["target"] = new /\ new # Gone
    <3>1. new # Gone
      BY <1>1, <2>2, GoneIsNoTree
    <3> QED BY <1>1, <2>1, <2>2, <3>1 DEF PlaceTypes, Slots
  <2>4. PlaceTypes'
    BY <1>1, <1>2, <2>1, <2>2, <2>3 DEF PlaceTypes, Slots
  <2>5. cmd.kind \notin {"replace", "promote"} /\ cmd.at \notin {"copied", "staged"}
    BY <1>1, <2>1 DEF CommandOn
  <2>6. CommandOn'
    BY <1>1, <2>1, <2>5 DEF CommandOn
  <2>7. settled'["target"] = new /\ mine' = new
    BY <1>1, <2>1, <2>3 DEF PlaceTypes, Slots
  <2> QED BY <2>1, <2>3, <2>4, <2>6, <2>7 DEF PlaceInv, Own
<1> QED BY <1>3, <1>4 DEF Write

\* A rename, whatever was under the new name.
LEMMA Renamed ==
  ASSUME PlaceTypes, NEW from \in Slots, NEW to \in Slots, from # to, Rename(from, to)
  PROVE  /\ place' \in [Slots -> Trees(ver) \cup {Gone}]
         /\ place'[to] = place[from] /\ place'[from] = Gone /\ \A s \in Slots : s \notin {from, to} => place'[s] = place[s]
BY DEF PlaceTypes, Rename

\* What a copy holds: the label it is told apart by is older than the content.
Copies(v) == {r \in [ver : Versions(v), label : Int] : r.label <= r.ver}
Contents(v) == [Names -> Copies(v) \cup {Gone}]
Snaps(v) == [tree : Contents(v), began : Trees(v)]
SnapTypes == snaps \in [Times -> Snaps(ver) \cup {Gone}]

LEMMA GoneIsNoCopy ==
  ASSUME NEW v \in Nat PROVE Gone \notin Copies(v) /\ Gone \notin Snaps(v)
<1>1. Copies(v) \subseteq [ver : Nat, label : Int]
  BY DEF Copies, Versions
<1>2. Contents(v) \subseteq [Names -> [ver : Nat, label : Int] \cup {Gone}]
  BY <1>1 DEF Contents
<1>3. Trees(v) \subseteq [Names -> Nat \cup {Gone}]
  BY DEF Trees, Versions
<1>4. Snaps(v) \subseteq [tree : [Names -> [ver : Nat, label : Int] \cup {Gone}], began : [Names -> Nat \cup {Gone}]]
  BY <1>2, <1>3 DEF Snaps
<1> QED BY <1>1, <1>4, GoneAssumption

\* What a copy has of a file, and a restore takes.
LEMMA RestoredIs ==
  ASSUME SnapTypes, ver \in Nat, NEW t \in Times, NEW f \in Names
  PROVE  /\ Restored(f, t) \in Versions(ver) \cup {Gone}
         /\ snaps[t] # Gone /\ snaps[t].tree[f] # Gone => Restored(f, t) = snaps[t].tree[f].ver
BY DEF SnapTypes, Restored, Snaps, Contents, Copies

LEMMA PlaceCommanded ==
  ASSUME PlaceInv, SnapTypes, \/ \E t \in Times : Restore(t) \/ RestoreInPlace(t)
                   \/ RestoreOne \/ RestoreFails \/ KillCommand \/ Leave
  PROVE  PlaceInv'
<1>1. PlaceTypes /\ CommandOn
  BY DEF PlaceInv
<1>2. UNCHANGED <<ver, settled, mine, up>>
  BY DEF Restore, RestoreInPlace, RestoreOne, RestoreFails, KillCommand, Leave
<1>3. /\ IdleCmd \in Orders /\ IdleCmd.at = "idle" /\ IdleCmd.kind = "none"
  BY BackupAssumption DEF IdleCmd, Orders, Kinds, Times
<1>4. CASE \E t \in Times : RestoreInPlace(t)
  <2>1. PICK t \in Times : RestoreInPlace(t)
    BY <1>4
  <2>2. cmd'.at = "copied" /\ cmd'.kind = "replace" /\ cmd' \in Orders /\ ~up /\ place["previous"] = Gone /\ place["target"] # Gone
    BY <2>1 DEF RestoreInPlace, Orders, Kinds
  <2>3. place' \in [Slots -> Trees(ver) \cup {Gone}] /\ \A s \in Slots : s # "partial" => place'[s] = place[s]
    <3>1. [f \in Names |-> Restored(f, t)] \in Trees(ver)
      BY <1>1, RestoredIs DEF Trees, PlaceTypes
    <3> QED BY <1>1, <2>1, <3>1 DEF PlaceTypes, RestoreInPlace
  <2> QED BY <1>1, <1>2, <2>2, <2>3 DEF PlaceInv, PlaceTypes, CommandOn, Own, Slots
<1>5. ASSUME ~(\E t \in Times : RestoreInPlace(t))
      PROVE  place' = place /\ cmd' \in Orders /\ cmd'.kind \notin {"replace", "promote"} /\ (cmd'.at = "copy" => cmd'.kind = "restore")
             /\ cmd'.at \notin {"copied", "staged"}
  <2>1. CASE \E t \in Times : Restore(t)
    BY <2>1 DEF Restore, Orders, Kinds
  <2>2. CASE RestoreOne
    BY <1>1, <2>2 DEF RestoreOne, PlaceTypes, Orders, CommandOn
  <2>3. CASE RestoreFails \/ KillCommand \/ Leave
    BY <1>3, <2>3 DEF RestoreFails, KillCommand, Leave
  <2> QED BY <1>5, <2>1, <2>2, <2>3
<1>6. CASE ~(\E t \in Times : RestoreInPlace(t))
  BY <1>1, <1>2, <1>5, <1>6 DEF PlaceInv, PlaceTypes, CommandOn
<1> QED BY <1>4, <1>6

LEMMA PlaceRuns ==
  ASSUME PlaceInv, Start \/ Stop \/ Kill
  PROVE  PlaceInv'
<1>1. PlaceTypes /\ CommandOn
  BY DEF PlaceInv
<1>2. UNCHANGED <<ver, place, settled, cmd>> /\ up' \in BOOLEAN
  BY DEF Start, Stop, Kill
<1>3. CASE up' = FALSE /\ mine' = mine
  BY <1>1, <1>2, <1>3 DEF PlaceInv, PlaceTypes, CommandOn
<1>4. CASE Start
  <2>1. place["target"] # Gone /\ mine' = place["target"] /\ cmd.kind \notin {"replace", "promote"}
    BY <1>4 DEF Start, Locked
  <2>2. place["target"] \in Trees(ver) /\ "target" \in Own
    BY <1>1, <2>1 DEF PlaceTypes, Slots, Own
  <2>3. PlaceTypes' /\ CommandOn'
    BY <1>1, <1>2, <2>1, <2>2 DEF PlaceTypes, CommandOn
  <2> QED BY <1>2, <2>1, <2>2, <2>3 DEF PlaceInv
<1> QED BY <1>3, <1>4 DEF Start, Stop, Kill

LEMMA PlaceCut ==
  ASSUME PlaceInv, PowerCut
  PROVE  PlaceInv'
<1>1. PlaceTypes /\ CommandOn
  BY DEF PlaceInv
<1>2. /\ IdleCmd \in Orders /\ IdleCmd.at = "idle" /\ IdleCmd.kind = "none"
  BY BackupAssumption DEF IdleCmd, Orders, Kinds, Times
<1>3. /\ UNCHANGED <<ver, mine>> /\ up' = FALSE /\ cmd' = IdleCmd
      /\ place' \in {place, settled} /\ settled' = place'
  BY DEF PowerCut
<1>4. PlaceTypes' /\ CommandOn'
  BY <1>1, <1>2, <1>3 DEF PlaceTypes, CommandOn
<1> QED BY <1>3, <1>4 DEF PlaceInv

LEMMA PlaceStaged ==
  ASSUME PlaceInv, Stage \/ PromotePrevious
  PROVE  PlaceInv'
<1>1. PlaceTypes /\ CommandOn
  BY DEF PlaceInv
<1>2. PICK to \in {"previous", "current"} :
        /\ Rename("target", to) /\ place[to] = Gone /\ place["target"] # Gone /\ ~up
        /\ UNCHANGED <<ver, settled, up, mine>> /\ cmd'.at = "staged" /\ cmd' \in Orders
        /\ cmd'.kind = IF to = "previous" THEN "replace" ELSE "promote"
  <2>1. CASE Stage
    BY <1>1, <2>1 DEF Stage, CommandOn, PlaceTypes, Orders
  <2>2. CASE PromotePrevious
    <3>1. cmd'.at = "staged" /\ cmd'.kind = "promote" /\ cmd' \in Orders
      <4>1. cmd' = [at |-> "staged", kind |-> "promote", snap |-> 0, todo |-> {}]
        BY <2>2 DEF PromotePrevious, IdleCmd
      <4>2. 0 \in Times
        BY BackupAssumption DEF Times
      <4> QED BY <4>1, <4>2 DEF Orders, Kinds
    <3> QED BY <2>2, <3>1 DEF PromotePrevious
  <2> QED BY <2>1, <2>2
<1>3. /\ place' \in [Slots -> Trees(ver) \cup {Gone}]
      /\ place'[to] = place["target"] /\ place'["target"] = Gone
      /\ \A s \in Slots : s \notin {"target", to} => place'[s] = place[s]
  BY <1>1, <1>2, Renamed DEF Slots
<1>4. PlaceTypes' /\ CommandOn'
  BY <1>1, <1>2, <1>3 DEF PlaceTypes, CommandOn, PlaceInv
<1>5. ASSUME mine # Gone PROVE \E s \in Own : place'[s] = mine
  BY <1>2, <1>3, <1>5 DEF PlaceInv, Own, Slots
<1> QED BY <1>2, <1>3, <1>4, <1>5 DEF PlaceInv

LEMMA PlaceSwapped ==
  ASSUME PlaceInv, Swap
  PROVE  PlaceInv'
<1>1. PlaceTypes /\ CommandOn /\ place["target"] = Gone /\ ~up
  BY DEF PlaceInv, Swap, CommandOn
<1>2. PICK from \in {"partial", "previous"} :
        /\ Rename(from, "target") /\ settled' = place'
        /\ UNCHANGED <<ver, up, mine>> /\ cmd'.at = "told" /\ cmd' \in Orders
  BY <1>1 DEF Swap, PlaceTypes, Orders
<1>3. /\ place' \in [Slots -> Trees(ver) \cup {Gone}]
      /\ place'["target"] = place[from] /\ place'[from] = Gone
      /\ \A s \in Slots : s \notin {"target", from} => place'[s] = place[s]
  BY <1>1, <1>2, Renamed DEF Slots
<1>4. PlaceTypes' /\ CommandOn'
  BY <1>1, <1>2, <1>3 DEF PlaceTypes, CommandOn
<1>5. ASSUME mine # Gone PROVE \E s \in Own : place'[s] = mine
  BY <1>1, <1>2, <1>3, <1>5 DEF PlaceInv, Own, Slots
<1> QED BY <1>1, <1>2, <1>3, <1>4, <1>5 DEF PlaceInv

LEMMA PlaceSwapsBack ==
  ASSUME PlaceInv, SwapFails
  PROVE  PlaceInv'
<1>1. PlaceTypes /\ CommandOn /\ place["target"] = Gone /\ ~up /\ cmd.at = "staged"
  BY DEF PlaceInv, SwapFails, CommandOn
<1>2. /\ IdleCmd \in Orders /\ IdleCmd.at = "idle" /\ IdleCmd.kind = "none"
  BY BackupAssumption DEF IdleCmd, Orders, Kinds, Times
<1>3. PICK from \in {"previous", "current"} :
        /\ place[from] = settled["target"] /\ place' \in [Slots -> Trees(ver) \cup {Gone}]
        /\ place'["target"] = place[from] /\ \A s \in Own : s \notin {"target", from} => place'[s] = place[s]
        /\ UNCHANGED <<ver, up, mine, settled>> /\ cmd' = IdleCmd
  <2>1. CASE cmd.kind = "replace"
    BY <1>1, <2>1 DEF SwapFails, PlaceTypes, CommandOn, Own, Slots
  <2>2. CASE cmd.kind = "promote"
    BY <1>1, <2>2 DEF SwapFails, PlaceTypes, CommandOn, Own, Slots
  <2> QED BY <1>1, <2>1, <2>2 DEF CommandOn
<1>4. PlaceTypes' /\ CommandOn'
  BY <1>1, <1>2, <1>3 DEF PlaceTypes, CommandOn
<1>5. ASSUME mine # Gone PROVE \E s \in Own : place'[s] = mine
  BY <1>1, <1>3, <1>5 DEF PlaceInv, Own
<1> QED BY <1>1, <1>3, <1>4, <1>5 DEF PlaceInv

LEMMA PlaceDiscarded ==
  ASSUME PlaceInv, DiscardPrevious
  PROVE  PlaceInv'
<1>1. PlaceTypes /\ CommandOn
  BY DEF PlaceInv
<1>2. /\ UNCHANGED <<ver, up, cmd>> /\ cmd = IdleCmd /\ settled' = place'
      /\ place' = [place EXCEPT !["previous"] = Gone]
      /\ mine' = IF place["target"] = mine \/ place["current"] = mine THEN mine ELSE Gone
  BY DEF DiscardPrevious, Begins
<1>3. PlaceTypes'
  BY <1>1, <1>2 DEF PlaceTypes
<1>4. CommandOn'
  BY <1>1, <1>2 DEF CommandOn, IdleCmd
<1>5. place'["target"] = place["target"] /\ place'["current"] = place["current"]
  BY <1>1, <1>2 DEF PlaceTypes, Slots
<1>6. ASSUME mine' # Gone PROVE \E s \in Own : place'[s] = mine'
  BY <1>2, <1>5, <1>6 DEF Own
<1> QED BY <1>2, <1>3, <1>4, <1>5, <1>6 DEF PlaceInv

LEMMA PlaceStep ==
  ASSUME PlaceInv, SnapTypes, [Next]_vars
  PROVE  PlaceInv'
<1>1. CASE UNCHANGED <<ver, place, settled, mine, up, cmd>>
  BY <1>1, PlaceRests
<1>2. CASE \E f \in Names : Write(f)
  BY <1>2, PlaceWritten
<1>3. CASE Tick \/ SetBack \/ SnapshotIfDue \/ Inspect \/ CopyOne \/ TreeDone \/ Abandon \/ Publish \/ Sync \/ SyncFails
           \/ RemoveOne \/ RemoveEmpty \/ Rotated
  BY <1>1, <1>3 DEF Tick, SetBack, SnapshotIfDue, Inspect, CopyOne, TreeDone, Abandon, Publish, Sync, SyncFails,
     RemoveOne, RemoveEmpty, Rotated
<1>4. CASE (\E t \in Times : Restore(t) \/ RestoreInPlace(t)) \/ RestoreOne \/ RestoreFails \/ KillCommand \/ Leave
  BY <1>4, PlaceCommanded
<1>5. CASE Start \/ Stop \/ Kill
  BY <1>5, PlaceRuns
<1>6. CASE PowerCut \/ Stage \/ PromotePrevious \/ Swap \/ SwapFails \/ DiscardPrevious
  BY <1>6, PlaceCut, PlaceStaged, PlaceSwapped, PlaceSwapsBack, PlaceDiscarded
<1> QED BY <1>1, <1>2, <1>3, <1>4, <1>5, <1>6 DEF Next, vars

-----------------------------------------------------------------------------
\* Copies made for good, and those of them taken after t.
Good == {t \in made \cap Listed : Whole(snaps[t])}
Later(g, t) == {u \in g : u > t}
Strong(g, t) == Cardinality(Later(g, t)) >= Keep
\* A torn copy is one that rotation may take: there are enough after it.
SnapInv ==
  /\ SnapTypes /\ made \subseteq Times
  /\ \A t \in Listed : Whole(snaps[t]) \/ Strong(Good, t)
  /\ made \subseteq Good \/ Cardinality(Good) >= Keep

LEMMA TimesAreFinite ==
  ASSUME NEW g, g \subseteq Times
  PROVE  IsFiniteSet(g) /\ Cardinality(g) \in Nat /\ \A h \in SUBSET g : IsFiniteSet(h) /\ Cardinality(h) \in Nat /\ Cardinality(h) <= Cardinality(g)
<1>1. IsFiniteSet(Times)
  BY BackupAssumption, FS_Interval DEF Times
<1>2. IsFiniteSet(g)
  BY <1>1, FS_Subset
<1> QED BY <1>2, FS_Subset, FS_CardinalityType

LEMMA StrongGrows ==
  ASSUME NEW g, NEW h, g \subseteq Times, h \subseteq Times, NEW t, NEW u, Strong(g, t), Later(g, t) \subseteq Later(h, u)
  PROVE  Strong(h, u) /\ Cardinality(h) >= Keep
<1>1. Later(h, u) \subseteq Times /\ Later(g, t) \in SUBSET Later(h, u) /\ Later(h, u) \in SUBSET h
  BY DEF Later
<1>2. Cardinality(Later(g, t)) \in Nat /\ Cardinality(Later(g, t)) <= Cardinality(Later(h, u)) /\ Cardinality(Later(h, u)) \in Nat
  BY <1>1, TimesAreFinite
<1>3. Cardinality(Later(h, u)) <= Cardinality(h) /\ Cardinality(h) \in Nat
  BY <1>1, TimesAreFinite
<1> QED BY <1>2, <1>3, BackupAssumption DEF Strong

\* To take one that is strong away weakens no other, and leaves enough.
LEMMA StrongWithout ==
  ASSUME NEW g, NEW h, g \subseteq Times, h \subseteq Times, NEW t \in Times, Strong(g, t), g \ {t} \subseteq h
  PROVE  Cardinality(h) >= Keep /\ \A u \in Times : Strong(g, u) => Strong(h, u)
<1>0. t \in Nat /\ \A u \in Times : u \in Nat
  BY BackupAssumption DEF Times
<1>1. Later(g, t) \subseteq Later(h, t)
  <2>1. ASSUME NEW u \in Later(g, t) PROVE u \in Later(h, t)
    <3>1. u \in g /\ u \in Nat /\ u > t
      BY <1>0 DEF Later
    <3>2. u # t
      BY <1>0, <3>1
    <3> QED BY <3>1, <3>2 DEF Later
  <2> QED BY <2>1
<1>2. Cardinality(h) >= Keep
  BY <1>1, StrongGrows
<1>3. ASSUME NEW u \in Times, Strong(g, u) PROVE Strong(h, u)
  <2>1. CASE u < t
    <3>1. Later(g, t) \subseteq Later(h, u)
      <4>1. ASSUME NEW x \in Later(g, t) PROVE x \in Later(h, u)
        <5>1. x \in g /\ x \in Nat /\ x > t
          BY <1>0 DEF Later
        <5>2. x # t /\ x > u
          BY <1>0, <2>1, <5>1
        <5> QED BY <5>1, <5>2 DEF Later
      <4> QED BY <4>1
    <3> QED BY <3>1, StrongGrows
  <2>2. CASE ~(u < t)
    <3>1. Later(g, u) \subseteq Later(h, u)
      BY <1>0, <2>2 DEF Later
    <3> QED BY <1>3, <3>1, StrongGrows
  <2> QED BY <2>1, <2>2
<1> QED BY <1>2, <1>3

\* A strong one is not the newest, nor among those that rotation leaves.
LEMMA StrongIsOld ==
  ASSUME made \subseteq Times, NEW t \in Times, Strong(Good, t)
  PROVE  t \notin Held /\ \E u \in Listed : u > t
<1>1. Later(Good, t) \in SUBSET Newer(t) /\ Newer(t) \subseteq Times /\ Newer(t) \subseteq Listed
  BY DEF Later, Good, Newer, Listed
<1>2. Cardinality(Newer(t)) \in Nat /\ Cardinality(Later(Good, t)) \in Nat /\ Cardinality(Later(Good, t)) <= Cardinality(Newer(t))
  BY <1>1, TimesAreFinite
<1>3. Cardinality(Newer(t)) >= Keep /\ Cardinality(Newer(t)) > 0
  BY <1>2, BackupAssumption DEF Strong
<1>4. Newer(t) # {}
  BY <1>3, FS_EmptySet
<1> QED BY <1>2, <1>3, <1>4, BackupAssumption DEF Held, Newer

LEMMA SnapsAreGood ==
  ASSUME SnapInv
  PROVE  KeptAreWhole /\ EnoughStay
<1>1. KeptAreWhole
  BY StrongIsOld DEF KeptAreWhole, SnapInv, Held, Listed
<1>2. Good \subseteq Times /\ made \subseteq Times /\ Cardinality(Good) \in Nat /\ Cardinality(made) \in Nat
  <2>1. Good \subseteq Times /\ made \subseteq Times
    BY DEF SnapInv, Good
  <2> QED BY <2>1, TimesAreFinite
<1>3. PICK least \in Nat : least = Min({Keep, Cardinality(made)}) /\ least <= Keep /\ least <= Cardinality(made)
  <2>1. \E x \in {Keep, Cardinality(made)} : \A y \in {Keep, Cardinality(made)} : x <= y
    BY <1>2, BackupAssumption
  <2>2. Min({Keep, Cardinality(made)}) \in {Keep, Cardinality(made)} /\ \A y \in {Keep, Cardinality(made)} : Min({Keep, Cardinality(made)}) <= y
    BY <2>1 DEF Min
  <2> QED BY <1>2, <2>2, BackupAssumption
<1>4. Cardinality(Good) >= least
  <2>1. CASE made \subseteq Good
    <3>1. Cardinality(made) <= Cardinality(Good)
      BY <1>2, <2>1, TimesAreFinite
    <3> QED BY <1>2, <1>3, <3>1
  <2>2. CASE Cardinality(Good) >= Keep
    BY <1>2, <1>3, <2>2, BackupAssumption
  <2> QED BY <2>1, <2>2 DEF SnapInv
<1> QED BY <1>1, <1>3, <1>4 DEF EnoughStay, Good

-----------------------------------------------------------------------------
Jobs(v) == [at : {"idle", "tree", "extra", "sync", "rotate"}, name : Times, base : Snaps(v) \cup {Gone}, tree : Contents(v),
            todo : SUBSET Names, file : Names \cup {Gone}, label : Nat \cup {Gone}, began : Trees(v), olds : SUBSET Times]
JobTypes == now \in Times /\ conf \in Versions(ver) \cup {Gone} /\ job \in Jobs(ver)
\* What a file holds; for the settings file, not what the state folder has of it.
Current(f) == IF f = Conf THEN conf ELSE place["target"][f]
Owed(j, f) == j.began[f] # Gone /\ (f # Conf \/ j.at = "extra")
\* One file in a copy under way: what it is copied from, src, is there, has not
\* got older than its label, nor the label than what the copy owes; and so for
\* what was copied.
FileOn(j, f, src, cur) ==
  /\ j.began[f] # Gone => cur # Gone /\ j.began[f] <= cur
  /\ f \in j.todo => src # Gone /\ (j.at = "extra" => f = Conf)
  /\ j.file = f => f \in j.todo /\ j.label \in Nat /\ j.label <= src /\ (Owed(j, f) => j.began[f] <= j.label)
  /\ Owed(j, f) /\ f \notin j.todo => j.tree[f] # Gone /\ j.began[f] <= j.tree[f].ver
Copying(j) == j.at \in {"tree", "extra"}
JobInv ==
  /\ JobTypes
  /\ Copying(job) => /\ up /\ \A t \in Listed : t < job.name
                     /\ \A f \in Names : FileOn(job, f, Source(f), Current(f))
  /\ job.at = "rotate" => \A t \in job.olds : t \in Listed /\ Strong(Good, t)

LEMMA SourceIs ==
  ASSUME PlaceInv, JobTypes, Copying(job), up, NEW f \in Names
  PROVE  /\ ver \in Nat /\ place["target"] \in Trees(ver) /\ Source(f) \in Versions(ver) \cup {Gone} /\ Current(f) \in Versions(ver) \cup {Gone}
         /\ job.began[f] \in Versions(ver) \cup {Gone}
         /\ f # Conf /\ job.at = "tree" => Source(f) = Current(f)
         /\ f = Conf /\ job.at = "extra" => Source(f) = Current(f)
<1>1. ver \in Nat /\ place["target"] \in Trees(ver)
  BY DEF PlaceInv, PlaceTypes, Slots
<1>2. place["target"][f] \in Versions(ver) \cup {Gone}
  BY <1>1 DEF Trees
<1>3. job.began \in Trees(ver)
  BY DEF JobTypes, Jobs
<1> QED BY <1>1, <1>2, <1>3 DEF JobTypes, Source, Current, Trees, Copying

LEMMA JobsGrow ==
  ASSUME NEW v \in Nat, NEW w \in Nat, v <= w
  PROVE  Jobs(v) \subseteq Jobs(w) /\ Snaps(v) \subseteq Snaps(w)
<1>1. Trees(v) \subseteq Trees(w)
  BY TreesGrow
<1>2. Copies(v) \subseteq Copies(w)
  BY DEF Copies, Versions
<1>3. Contents(v) \subseteq Contents(w)
  BY <1>2 DEF Contents
<1>4. Snaps(v) \subseteq Snaps(w)
  BY <1>1, <1>3 DEF Snaps
<1> QED BY <1>1, <1>3, <1>4 DEF Jobs

LEMMA IdleIsAJob ==
  ASSUME NEW v \in Nat PROVE IdleJob \in Jobs(v)
<1>1. NoTree \in Trees(v) /\ NoTree \in Contents(v)
  BY DEF NoTree, Trees, Contents
<1>2. 0 \in Times
  BY BackupAssumption DEF Times
<1> QED BY <1>1, <1>2 DEF IdleJob, Jobs

\* A job that is over, or was killed.
LEMMA JobEnds ==
  ASSUME JobTypes, ver \in Nat, job' = IdleJob, UNCHANGED <<conf, ver>>, now' \in Times
  PROVE  JobInv'
<1>1. job' \in Jobs(ver) /\ job'.at = "idle"
  BY IdleIsAJob DEF IdleJob
<1> QED BY <1>1 DEF JobInv, JobTypes, Copying

\* A job that rests while nothing it looks at is touched.
LEMMA JobRests ==
  ASSUME JobInv, UNCHANGED <<ver, conf, snaps, made, job>>, now' \in Times,
         Copying(job) => up' /\ place'["target"] = place["target"]
  PROVE  JobInv'
<1>1. JobTypes' /\ Listed' = Listed /\ Good' = Good
  BY DEF JobInv, JobTypes, Listed, Good, Whole
<1>2. ASSUME Copying(job) PROVE \A f \in Names : Source(f)' = Source(f) /\ Current(f)' = Current(f)
  BY <1>2 DEF Source, Current
<1> QED BY <1>1, <1>2 DEF JobInv, Copying, FileOn, Owed

LEMMA FileGoesOn ==
  ASSUME NEW v \in Nat, NEW w \in Nat, NEW j \in Jobs(v), NEW f \in Names, NEW a \in Nat \cup {Gone}, NEW b \in Nat \cup {Gone},
         NEW x \in Nat \cup {Gone}, NEW y \in Nat \cup {Gone},
         FileOn(j, f, a, b), a = x \/ (x \in Nat /\ (a \in Nat => a <= x)), b = y \/ (y \in Nat /\ (b \in Nat => b <= y))
  PROVE  FileOn(j, f, x, y)
<1>1. j.began[f] \in Nat \cup {Gone} /\ Gone \notin Nat
  BY GoneAssumption DEF Jobs, Trees, Versions
<1> QED BY <1>1 DEF FileOn

LEMMA JobWritten ==
  ASSUME JobInv, PlaceInv, NEW g \in Names, Write(g)
  PROVE  JobInv'
<1>1. ver \in Nat /\ ver' = ver + 1 /\ JobTypes /\ UNCHANGED <<now, snaps, job, up, made>>
  BY DEF JobInv, PlaceInv, PlaceTypes, Write
<1>2. JobTypes'
  BY <1>1, JobsGrow DEF JobTypes, Write, Versions
<1>3. Listed' = Listed /\ Good' = Good
  BY <1>1 DEF Listed, Good, Whole
<1>4. ASSUME Copying(job), NEW f \in Names PROVE FileOn(job, f, Source(f)', Current(f)')
  <2>1. /\ place["target"] \in Trees(ver) /\ Source(f) \in Nat \cup {Gone} /\ Current(f) \in Nat \cup {Gone}
        /\ (Source(f) \in Nat => Source(f) <= ver') /\ (Current(f) \in Nat => Current(f) <= ver') /\ job \in Jobs(ver)
    <3>1. up /\ job \in Jobs(ver)
      BY <1>4 DEF JobInv, JobTypes
    <3>2. place["target"] \in Trees(ver) /\ Source(f) \in Versions(ver) \cup {Gone} /\ Current(f) \in Versions(ver) \cup {Gone}
      BY <1>1, <1>4, <3>1, SourceIs
    <3>3. Gone \notin Nat
      BY GoneAssumption
    <3> QED BY <1>1, <3>1, <3>2, <3>3 DEF Versions
  <2>2. Source(f)' \in {Source(f), ver'} /\ Current(f)' \in {Current(f), ver'}
    <3>1. CASE g = Conf
      BY <1>1, <3>1 DEF Write, Source, Current
    <3>2. CASE g # Conf
      <4>1. place'["target"] = [place["target"] EXCEPT ![g] = ver'] /\ conf' = conf
        BY <3>2 DEF Write, PlaceInv, PlaceTypes, Slots
      <4>2. place'["target"][f] \in {place["target"][f], ver'}
        BY <2>1, <4>1 DEF Trees
      <4> QED BY <1>1, <4>1, <4>2 DEF Source, Current
    <3> QED BY <3>1, <3>2
  <2>3. PICK a, b, x, y : a = Source(f) /\ b = Current(f) /\ x = Source(f)' /\ y = Current(f)'
    OBVIOUS
  <2>4. FileOn(job, f, a, b)
    BY <1>4, <2>3 DEF JobInv
  <2>5. /\ a \in Nat \cup {Gone} /\ b \in Nat \cup {Gone} /\ x \in Nat \cup {Gone} /\ y \in Nat \cup {Gone} /\ ver' \in Nat
        /\ a = x \/ (x \in Nat /\ (a \in Nat => a <= x))
        /\ b = y \/ (y \in Nat /\ (b \in Nat => b <= y))
    BY <1>1, <2>1, <2>2, <2>3
  <2>6. FileOn(job, f, x, y)
    BY <1>1, <2>1, <2>4, <2>5, FileGoesOn
  <2> QED BY <2>3, <2>6
<1> QED BY <1>1, <1>2, <1>3, <1>4 DEF JobInv, Copying

LEMMA TimesAreNumbers ==
  \A t \in Times : t \in Nat
BY BackupAssumption DEF Times

LEMMA NewestIs ==
  ASSUME Listed # {} PROVE \E x \in Listed : \A y \in Listed : x >= y
<1>0. MaxNow \in Nat
  BY BackupAssumption
<1>1. PICK back : back = {n \in Nat : n <= MaxNow /\ MaxNow - n \in Listed}
  OBVIOUS
<1>2. \A t \in Listed : t \in Nat /\ MaxNow - t \in Nat /\ MaxNow - (MaxNow - t) = t /\ MaxNow - t <= MaxNow
  BY <1>0 DEF Listed, Times
<1>3. \A t \in Listed : MaxNow - t \in back
  BY <1>1, <1>2
<1>4. back \in SUBSET Nat /\ back # {}
  BY <1>1, <1>3
<1>5. PICK n \in back : \A m \in back : n <= m
  BY <1>4, FirstNumber
<1>6. n \in Nat /\ MaxNow - n \in Listed
  BY <1>1, <1>5
<1>7. ASSUME NEW y \in Listed PROVE MaxNow - n >= y
  <2>1. y \in Nat /\ n <= MaxNow - y
    BY <1>2, <1>3, <1>5
  <2> QED BY <1>0, <1>6, <2>1
<1> QED BY <1>6, <1>7

LEMMA JobBegins ==
  ASSUME JobInv, PlaceInv, SnapTypes, SnapshotIfDue
  PROVE  JobInv'
<1>1. /\ JobTypes /\ up /\ ver \in Nat /\ place["target"] \in Trees(ver) /\ now \in Times
      /\ UNCHANGED <<now, ver, conf, place, snaps, up, made>>
  BY SMTT(60) DEF JobInv, JobTypes, PlaceInv, PlaceTypes, Slots, SnapshotIfDue
<1>2. PICK base \in Snaps(ver) \cup {Gone}, began \in Trees(ver), todo \in SUBSET Names :
        /\ todo = {f \in Names : place["target"][f] # Gone} /\ began = [place["target"] EXCEPT ![Conf] = conf]
        /\ job' = [IdleJob EXCEPT !.at = "tree", !.name = now, !.base = base, !.todo = todo, !.began = began]
  <2>1. [place["target"] EXCEPT ![Conf] = conf] \in Trees(ver)
    BY <1>1 DEF JobTypes, Trees
  <2>2. (IF Listed = {} THEN Gone ELSE snaps[Newest]) \in Snaps(ver) \cup {Gone}
    <3>1. CASE Listed # {}
      <4>1. \E x \in Listed : \A y \in Listed : x >= y
        BY <3>1, NewestIs
      <4>2. Newest \in Times
        BY <4>1 DEF Newest, Max, Listed
      <4> QED BY <4>2 DEF SnapTypes
    <3> QED BY <3>1
  <2> QED BY <2>1, <2>2 DEF SnapshotIfDue
<1>3. /\ job'.at = "tree" /\ job'.name = now /\ job'.todo = todo /\ job'.began = began /\ job'.file = Gone /\ job' \in Jobs(ver)
  BY <1>1, <1>2, IdleIsAJob DEF IdleJob, Jobs
<1>4. \A f \in Names : Source(f)' = place["target"][f] /\ Current(f)' = began[f]
  BY <1>1, <1>2, <1>3 DEF Source, Current, Trees
<1>5. ASSUME NEW f \in Names PROVE FileOn(job', f, place["target"][f], began[f])
  <2>1. f # Conf => began[f] = place["target"][f]
    BY <1>1, <1>2 DEF Trees
  <2>2. began[f] \in Nat \cup {Gone} /\ f # Gone
    BY <1>2, GoneAssumption DEF Trees, Versions
  <2> QED BY <1>2, <1>3, <2>1, <2>2 DEF FileOn, Owed
<1>6. \A t \in Listed' : t < now
  <2>1. ASSUME NEW t \in Listed PROVE t < now
    BY <1>1, TimesAreNumbers, BackupAssumption DEF SnapshotIfDue, Due, Listed
  <2> QED BY <1>1, <2>1 DEF Listed
<1> QED BY <1>1, <1>3, <1>4, <1>5, <1>6 DEF JobInv, JobTypes, Copying

\* First of what is left.
LEMMA FirstIs ==
  ASSUME NEW names, names # {} PROVE First(names) \in names
BY DEF First

LEMMA JobInspects ==
  ASSUME JobInv, PlaceInv, Inspect
  PROVE  JobInv'
<1>1. /\ JobTypes /\ up /\ Copying(job) /\ ver \in Nat
      /\ UNCHANGED <<now, ver, conf, place, snaps, up, made>>
  BY DEF JobInv, JobTypes, PlaceInv, PlaceTypes, Inspect, Copying
<1>2. PICK f \in job.todo : job' = [job EXCEPT !.file = f, !.label = Source(f)]
  BY FirstIs DEF Inspect
<1>3. f \in Names /\ job \in Jobs(ver)
  BY <1>1, <1>2 DEF JobTypes, Jobs
<1>4. PICK label : label = Source(f)
  OBVIOUS
<1>5. label \in Nat \cup {Gone} /\ label # Gone
  <2>1. Source(f) \in Versions(ver) \cup {Gone}
    BY <1>1, <1>3, SourceIs
  <2>2. Source(f) # Gone
    BY <1>1, <1>2, <1>3 DEF JobInv, FileOn
  <2> QED BY <1>4, <2>1, <2>2 DEF Versions
<1>6. /\ job' \in Jobs(ver) /\ job'.at = job.at /\ job'.todo = job.todo /\ job'.began = job.began /\ job'.tree = job.tree
      /\ job'.name = job.name /\ job'.file = f /\ job'.label = label
  BY <1>2, <1>3, <1>4, <1>5 DEF Jobs
<1>7. \A g \in Names : Source(g)' = Source(g) /\ Current(g)' = Current(g)
  BY <1>1, <1>6 DEF Source, Current
<1>8. ASSUME NEW g \in Names PROVE FileOn(job', g, Source(g), Current(g))
  <2>1. FileOn(job, g, Source(g), Current(g))
    BY <1>1 DEF JobInv
  <2>2. Owed(job', g) = Owed(job, g)
    BY <1>6 DEF Owed
  <2>3. CASE g # f
    BY <1>6, <2>1, <2>2, <2>3 DEF FileOn
  <2>4. CASE g = f
    <3>1. Owed(job, f) => Source(f) = Current(f)
      BY <1>1, <1>2, <1>3, SourceIs DEF Owed, Copying, JobInv, FileOn
    <3>2. Owed(job, f) => job.began[f] <= label
      BY <1>4, <2>1, <2>4, <3>1 DEF FileOn, Owed
    <3> QED BY <1>2, <1>4, <1>5, <1>6, <2>1, <2>2, <2>4, <3>2 DEF FileOn
  <2> QED BY <2>3, <2>4
<1> QED BY <1>1, <1>6, <1>7, <1>8 DEF JobInv, JobTypes, Copying, Listed

\* What the copy has of a file is what it holds now, or the base's file of the
\* same label, which is no older.
LEMMA CopiedIs ==
  ASSUME PlaceInv, JobTypes, Copying(job), up, NEW f \in Names, job.label \in Nat, Source(f) # Gone, job.label <= Source(f)
  PROVE  Copied(f) \in Copies(ver) /\ Copied(f).ver >= job.label
<1>1. ver \in Nat /\ Source(f) \in Versions(ver)
  BY SourceIs
<1>2. CASE f # Base /\ job.base # Gone /\ MayLink(job.base.tree[f], job.label)
  <2>1. job.base \in Snaps(ver)
    BY <1>2 DEF JobTypes, Jobs
  <2>2. PICK old \in Copies(ver) : old = job.base.tree[f] /\ old.label = job.label
    BY <1>2, <2>1 DEF MayLink, Snaps, Contents
  <2>3. Copied(f) = old
    BY <1>2, <2>2 DEF Copied
  <2> QED BY <2>2, <2>3 DEF Copies
<1>3. CASE ~(f # Base /\ job.base # Gone /\ MayLink(job.base.tree[f], job.label))
  <2>1. Copied(f) = [ver |-> Source(f), label |-> IF f = Base THEN -1 ELSE job.label]
    BY <1>3 DEF Copied
  <2>2. PICK src \in Nat : src = Source(f) /\ src \in Versions(ver) /\ job.label <= src
    BY <1>1 DEF Versions
  <2>3. PICK mark \in Int : mark = (IF f = Base THEN -1 ELSE job.label) /\ mark <= src
    BY <2>2
  <2> QED BY <2>1, <2>2, <2>3 DEF Copies
<1> QED BY <1>2, <1>3

LEMMA JobCopies ==
  ASSUME JobInv, PlaceInv, CopyOne
  PROVE  JobInv'
<1>1. /\ JobTypes /\ up /\ Copying(job) /\ ver \in Nat /\ job \in Jobs(ver)
      /\ UNCHANGED <<now, ver, conf, place, snaps, up, made>>
  BY DEF JobInv, JobTypes, PlaceInv, PlaceTypes, CopyOne, Copying
<1>2. PICK f \in Names : f = job.file
  BY <1>1 DEF CopyOne, Jobs
<1>3. /\ FileOn(job, f, Source(f), Current(f)) /\ f \in job.todo /\ job.label \in Nat /\ job.label <= Source(f) /\ Source(f) # Gone
      /\ Owed(job, f) => job.began[f] <= job.label
  BY <1>1, <1>2 DEF JobInv, FileOn
<1>4. PICK c \in Copies(ver) : c = Copied(f) /\ c.ver >= job.label
  BY <1>1, <1>3, CopiedIs
<1>5. job' = [job EXCEPT !.file = Gone, !.todo = @ \ {f}, !.tree[f] = c]
  BY <1>2, <1>3, <1>4 DEF CopyOne
<1>6. /\ job'.at = job.at /\ job'.todo = job.todo \ {f} /\ job'.began = job.began /\ job'.tree = [job.tree EXCEPT ![f] = c]
      /\ job'.name = job.name /\ job'.file = Gone
  BY <1>1, <1>5 DEF Jobs
<1>7. job' \in Jobs(ver)
  <2>1. [job.tree EXCEPT ![f] = c] \in Contents(ver)
    BY <1>1, <1>4 DEF Jobs, Contents
  <2>2. job' = [job EXCEPT !.file = Gone, !.todo = job.todo \ {f}, !.tree = [job.tree EXCEPT ![f] = c]]
    BY <1>1, <1>5 DEF Jobs
  <2> QED BY <1>1, <2>1, <2>2 DEF Jobs
<1>8. \A g \in Names : Source(g)' = Source(g) /\ Current(g)' = Current(g)
  BY <1>1, <1>6 DEF Source, Current
<1>9. ASSUME NEW g \in Names PROVE FileOn(job', g, Source(g), Current(g))
  <2>1. FileOn(job, g, Source(g), Current(g)) /\ g # Gone
    BY <1>1, GoneAssumption DEF JobInv
  <2>2. Owed(job', g) = Owed(job, g)
    BY <1>6 DEF Owed
  <2>3. CASE g # f
    <3>1. job'.tree[g] = job.tree[g]
      BY <1>1, <1>6, <2>3 DEF Jobs, Contents
    <3> QED BY <1>6, <2>1, <2>2, <2>3, <3>1 DEF FileOn
  <2>4. CASE g = f
    <3>1. job'.tree[f] = c /\ c # Gone
      BY <1>1, <1>4, <1>6, GoneIsNoCopy DEF Jobs, Contents
    <3>2. Owed(job, f) => job.began[f] <= c.ver
      <4>1. c.ver \in Nat /\ job.began[f] \in Nat \cup {Gone}
        BY <1>1, <1>4 DEF Copies, Versions, Jobs, Trees
      <4> QED BY <1>3, <1>4, <4>1 DEF Owed
    <3> QED BY <1>6, <2>1, <2>2, <2>4, <3>1, <3>2 DEF FileOn
  <2> QED BY <2>3, <2>4
<1> QED BY <1>1, <1>6, <1>7, <1>8, <1>9 DEF JobInv, JobTypes, Copying, Listed

LEMMA JobLeavesTree ==
  ASSUME JobInv, PlaceInv, TreeDone
  PROVE  JobInv'
<1>1. /\ JobTypes /\ up /\ Copying(job) /\ ver \in Nat /\ job \in Jobs(ver) /\ job.at = "tree" /\ job.todo = {}
      /\ UNCHANGED <<now, ver, conf, place, snaps, up, made>>
  BY DEF JobInv, JobTypes, PlaceInv, PlaceTypes, TreeDone, Copying
<1>2. PICK todo \in SUBSET {Conf} : todo = (IF conf = Gone THEN {} ELSE {Conf}) /\ job' = [job EXCEPT !.at = "extra", !.todo = todo]
  BY DEF TreeDone
<1>3. /\ job'.at = "extra" /\ job'.todo = todo /\ job'.began = job.began /\ job'.tree = job.tree
      /\ job'.name = job.name /\ job'.file = job.file /\ job' \in Jobs(ver)
  BY <1>1, <1>2 DEF Jobs, Names
<1>4. \A g \in Names : Source(g)' = conf /\ Current(g)' = Current(g)
  BY <1>1, <1>3 DEF Source, Current
<1>5. ASSUME NEW g \in Names PROVE FileOn(job', g, conf, Current(g))
  <2>1. FileOn(job, g, Source(g), Current(g)) /\ g # job.file
    BY <1>1 DEF JobInv, FileOn
  <2>2. CASE g # Conf
    BY <1>1, <1>2, <1>3, <2>1, <2>2 DEF FileOn, Owed
  <2>3. CASE g = Conf
    BY <1>1, <1>2, <1>3, <2>1, <2>3 DEF FileOn, Owed, Current
  <2> QED BY <2>2, <2>3
<1> QED BY <1>1, <1>3, <1>4, <1>5 DEF JobInv, JobTypes, Copying, Listed

\* A copy more, or fewer of those that nobody counts on.
LEMMA SnapsGrow ==
  ASSUME SnapInv, SnapTypes', made' = made, Good \subseteq Good',
         \A t \in Listed' : (t \in Listed /\ snaps'[t] = snaps[t]) \/ Whole(snaps'[t])
  PROVE  SnapInv'
<1>1. SnapInv /\ Good \subseteq Times /\ Good' \subseteq Times /\ Listed' \subseteq Times
  BY DEF SnapInv, Good, Listed
<1>2. ASSUME NEW t \in Listed' PROVE Whole(snaps'[t]) \/ Strong(Good', t)
  <2>1. Later(Good, t) \subseteq Later(Good', t)
    BY DEF Later
  <2> QED BY <1>1, <1>2, <2>1, StrongGrows DEF SnapInv
<1>3. made' \subseteq Good' \/ Cardinality(Good') >= Keep
  <2>1. CASE Cardinality(Good) >= Keep
    <3>1. Cardinality(Good) \in Nat /\ Cardinality(Good') \in Nat /\ Cardinality(Good) <= Cardinality(Good')
      BY <1>1, TimesAreFinite
    <3> QED BY <2>1, <3>1, BackupAssumption
  <2> QED BY <1>1, <2>1 DEF SnapInv
<1>4. made' \subseteq Times
  BY <1>1 DEF SnapInv
<1> QED BY <1>2, <1>3, <1>4 DEF SnapInv

\* Rotation takes from one that is strong.
LEMMA SnapsLose ==
  ASSUME SnapInv, SnapTypes', made' = made, NEW t \in Times, Strong(Good, t), \A u \in Times \ {t} : snaps'[u] = snaps[u]
  PROVE  SnapInv' /\ \A u \in Times : Strong(Good, u) => Strong(Good', u)
<1>1. SnapInv /\ Good \subseteq Times /\ Good' \subseteq Times /\ Listed' \subseteq Times /\ made \subseteq Times
  BY DEF SnapInv, Good, Listed
<1>2. Good \ {t} \subseteq Good'
  BY <1>1 DEF Good, Listed, Whole
<1>3. Cardinality(Good') >= Keep /\ \A u \in Times : Strong(Good, u) => Strong(Good', u)
  BY <1>1, <1>2, StrongWithout
<1>4. ASSUME NEW u \in Listed' PROVE Whole(snaps'[u]) \/ Strong(Good', u)
  <2>1. CASE u = t
    BY <1>3, <2>1
  <2>2. CASE u # t
    <3>1. u \in Listed /\ u \in Times /\ snaps'[u] = snaps[u]
      BY <1>1, <2>2 DEF Listed
    <3> QED BY <1>1, <1>3, <3>1 DEF SnapInv
  <2> QED BY <2>1, <2>2
<1> QED BY <1>1, <1>3, <1>4 DEF SnapInv

LEMMA SnapsRest ==
  ASSUME SnapInv, SnapTypes', UNCHANGED <<snaps, made>>
  PROVE  SnapInv'
<1>1. Listed' = Listed /\ Good' = Good
  BY DEF Listed, Good, Whole
<1> QED BY <1>1, SnapsGrow

LEMMA Published ==
  ASSUME SnapInv, JobInv, PlaceInv, Publish
  PROVE  SnapInv' /\ JobInv' /\ job.name \in Times /\ (\A t \in Listed : t < job.name) /\ (\A t \in Times \ {job.name} : snaps'[t] = snaps[t])
<1>1. /\ JobTypes /\ up /\ Copying(job) /\ ver \in Nat /\ job \in Jobs(ver) /\ job.at = "extra" /\ job.todo = {} /\ SnapTypes
      /\ UNCHANGED <<now, ver, conf, made>> /\ \A t \in Listed : t < job.name
  BY DEF JobInv, JobTypes, PlaceInv, PlaceTypes, Publish, Copying, SnapInv
<1>2. PICK new \in Snaps(ver) : new = [tree |-> job.tree, began |-> job.began]
  BY <1>1 DEF Jobs, Snaps
<1>3. Whole(new) /\ new # Gone
  <2>1. ASSUME NEW f \in Names, job.began[f] # Gone PROVE job.tree[f] # Gone /\ job.tree[f].ver >= job.began[f]
    <3>1. FileOn(job, f, Source(f), Current(f)) /\ Owed(job, f)
      BY <1>1, <2>1 DEF JobInv, Owed
    <3>2. job.tree[f] # Gone /\ job.began[f] <= job.tree[f].ver
      BY <1>1, <3>1 DEF FileOn
    <3>3. job.tree[f].ver \in Nat /\ job.began[f] \in Nat
      BY <1>1, <2>1, <3>2 DEF Jobs, Contents, Copies, Trees, Versions
    <3> QED BY <3>2, <3>3
  <2> QED BY <1>1, <1>2, <2>1, GoneIsNoCopy DEF Whole
<1>4. job.name \in Times /\ job.name \notin Listed
  BY <1>1, TimesAreNumbers DEF Jobs
<1>5. snaps' = [snaps EXCEPT ![job.name] = new]
  BY <1>2 DEF Publish
<1>6. SnapTypes' /\ snaps'[job.name] = new /\ \A t \in Times \ {job.name} : snaps'[t] = snaps[t]
  BY <1>1, <1>4, <1>5 DEF SnapTypes
<1>7. Good \subseteq Good'
  BY <1>1, <1>4, <1>6 DEF Good, Listed, Whole
<1>8. SnapInv'
  <2>1. \A t \in Listed' : (t \in Listed /\ snaps'[t] = snaps[t]) \/ Whole(snaps'[t])
    BY <1>3, <1>6 DEF Listed
  <2> QED BY <1>1, <1>6, <1>7, <2>1, SnapsGrow
<1>9. job' \in Jobs(ver) /\ job'.at = "sync"
  BY <1>1 DEF Publish, Jobs
<1>10. JobInv'
  BY <1>1, <1>9 DEF JobInv, JobTypes, Copying
<1> QED BY <1>1, <1>4, <1>6, <1>8, <1>10

LEMMA Synced ==
  ASSUME SnapInv, JobInv, ver \in Nat, Sync
  PROVE  SnapInv' /\ JobInv' /\ \A t \in Times : Strong(Good, t) => Strong(Good', t)
<1>1. /\ JobTypes /\ job \in Jobs(ver) /\ SnapTypes /\ made \subseteq Times /\ made' = made \cup Listed
      /\ UNCHANGED <<now, ver, conf, snaps>> /\ job' = [job EXCEPT !.at = "rotate", !.olds = Listed \ Held]
  BY DEF JobInv, JobTypes, Sync, SnapInv
<1>2. SnapTypes' /\ Listed' = Listed /\ made' \subseteq Times /\ Listed \subseteq Times
  BY <1>1 DEF SnapTypes, Listed
<1>3. Good \subseteq Good' /\ Good' = {t \in Listed : Whole(snaps[t])} /\ Good' \subseteq Times /\ Good \subseteq Times
  BY <1>1, <1>2 DEF Good, Whole
<1>4. \A t \in Times : Strong(Good, t) => Strong(Good', t)
  <2>1. \A t \in Times : Later(Good, t) \subseteq Later(Good', t)
    BY <1>3 DEF Later
  <2> QED BY <1>3, <2>1, StrongGrows
<1>5. \A t \in Listed' : Whole(snaps'[t]) \/ Strong(Good', t)
  BY <1>1, <1>2, <1>4 DEF SnapInv
<1>6. made' \subseteq Good' \/ Cardinality(Good') >= Keep
  <2>1. CASE \A t \in Listed : Whole(snaps[t])
    <3>1. CASE made \subseteq Good
      BY <1>1, <1>3, <2>1, <3>1
    <3>2. CASE Cardinality(Good) >= Keep
      <4>1. Cardinality(Good) \in Nat /\ Cardinality(Good') \in Nat /\ Cardinality(Good) <= Cardinality(Good')
        BY <1>3, TimesAreFinite
      <4> QED BY <3>2, <4>1, BackupAssumption
    <3> QED BY <3>1, <3>2 DEF SnapInv
  <2>2. ASSUME NEW t \in Listed, ~Whole(snaps[t]) PROVE Cardinality(Good') >= Keep
    <3>1. Strong(Good', t)
      BY <1>2, <1>4, <2>2 DEF SnapInv
    <3> QED BY <1>3, <3>1, StrongGrows
  <2> QED BY <2>1, <2>2
<1>7. ASSUME NEW t \in Listed \ Held PROVE Strong(Good', t)
  <2>1. CASE \A u \in Newer(t) : Whole(snaps[u])
    <3>1. Newer(t) \subseteq Later(Good', t) /\ Later(Good', t) \subseteq Times
      BY <1>3, <2>1 DEF Newer, Later
    <3>2. Cardinality(Newer(t)) \in Nat /\ Cardinality(Later(Good', t)) \in Nat /\ Cardinality(Newer(t)) <= Cardinality(Later(Good', t))
      BY <3>1, TimesAreFinite
    <3>3. ~(Cardinality(Newer(t)) < Keep)
      BY <1>7 DEF Held
    <3> QED BY <3>2, <3>3, BackupAssumption DEF Strong
  <2>2. ASSUME NEW u \in Newer(t), ~Whole(snaps[u]) PROVE Strong(Good', t)
    <3>1. u \in Listed /\ u > t /\ u \in Nat /\ t \in Nat
      BY <1>2, TimesAreNumbers DEF Newer
    <3>2. Strong(Good', u)
      BY <1>2, <1>4, <2>2, <3>1 DEF SnapInv
    <3>3. Later(Good', u) \subseteq Later(Good', t)
      <4>1. ASSUME NEW x \in Later(Good', u) PROVE x \in Later(Good', t)
        <5>1. x \in Good' /\ x > u
          BY DEF Later
        <5>2. x > t
          BY <1>3, <3>1, <5>1, TimesAreNumbers
        <5> QED BY <5>1, <5>2 DEF Later
      <4> QED BY <4>1
    <3> QED BY <1>3, <3>2, <3>3, StrongGrows
  <2> QED BY <2>1, <2>2
<1>8. SnapInv'
  BY <1>2, <1>5, <1>6 DEF SnapInv
<1>9. job' \in Jobs(ver) /\ job'.at = "rotate" /\ job'.olds = Listed \ Held
  BY <1>1, <1>2 DEF Jobs
<1>10. JobInv'
  BY <1>1, <1>2, <1>7, <1>9 DEF JobInv, JobTypes, Copying
<1> QED BY <1>4, <1>8, <1>10

\* rotate, one file or one folder at a time.
LEMMA Removed ==
  ASSUME SnapInv, JobInv, ver \in Nat, RemoveOne \/ RemoveEmpty
  PROVE  /\ SnapInv' /\ JobInv' /\ \A t \in Times : Strong(Good, t) => Strong(Good', t)
         /\ \A t \in Times : snaps'[t] # snaps[t] => Strong(Good', t)
         /\ \A t \in Times, f \in Names : snaps'[t] # Gone /\ snaps'[t].tree[f] # Gone => snaps[t] # Gone /\ snaps[t].tree[f] = snaps'[t].tree[f]
<1>1. /\ JobTypes /\ job \in Jobs(ver) /\ SnapTypes /\ made \subseteq Times /\ job.at = "rotate"
      /\ UNCHANGED <<now, ver, conf, made>>
  BY DEF JobInv, JobTypes, SnapInv, RemoveOne, RemoveEmpty
<1>2. PICK t \in job.olds, olds \in SUBSET job.olds :
        /\ \/ \E f \in Names : snaps' = [snaps EXCEPT ![t].tree[f] = Gone] /\ olds = job.olds
           \/ snaps' = [snaps EXCEPT ![t] = Gone] /\ olds = job.olds \ {t}
        /\ job' = [job EXCEPT !.olds = olds]
  <2>1. CASE RemoveOne
    <3>1. job' = [job EXCEPT !.olds = job.olds]
      BY <1>1, <2>1 DEF RemoveOne, Jobs
    <3> QED BY <2>1, <3>1 DEF RemoveOne
  <2>2. CASE RemoveEmpty
    <3>1. PICK x \in job.olds : snaps' = [snaps EXCEPT ![x] = Gone] /\ job' = [job EXCEPT !.olds = @ \ {x}]
      BY <2>2 DEF RemoveEmpty
    <3> QED BY <1>1, <3>1 DEF Jobs
  <2> QED BY <2>1, <2>2
<1>3. t \in Times /\ snaps[t] # Gone /\ snaps[t] \in Snaps(ver) /\ Strong(Good, t)
  BY <1>1, <1>2 DEF JobInv, Jobs, Listed, SnapTypes
<1>4. PICK new \in Snaps(ver) \cup {Gone} : 
        /\ snaps' = [snaps EXCEPT ![t] = new]
        /\ new # Gone => olds = job.olds /\ \A f \in Names : new.tree[f] # Gone => new.tree[f] = snaps[t].tree[f]
        /\ new = Gone => olds = job.olds \ {t}
  <2>1. CASE snaps' = [snaps EXCEPT ![t] = Gone] /\ olds = job.olds \ {t}
    BY <2>1
  <2>2. ASSUME NEW f \in Names, snaps' = [snaps EXCEPT ![t].tree[f] = Gone], olds = job.olds
        PROVE  \E new \in Snaps(ver) : snaps' = [snaps EXCEPT ![t] = new] /\ \A g \in Names : new.tree[g] # Gone => new.tree[g] = snaps[t].tree[g]
    <3>1. [snaps[t].tree EXCEPT ![f] = Gone] \in Contents(ver)
      BY <1>3 DEF Snaps, Contents
    <3>2. PICK less \in Contents(ver) : less = [snaps[t].tree EXCEPT ![f] = Gone]
      BY <3>1
    <3>3. PICK new : new = [snaps[t] EXCEPT !.tree = less]
      OBVIOUS
    <3>4. new \in Snaps(ver) /\ new.tree = less
      BY <1>3, <3>3 DEF Snaps
    <3>5. snaps' = [snaps EXCEPT ![t] = new]
      BY <2>2, <3>2, <3>3
    <3>6. \A g \in Names : new.tree[g] # Gone => new.tree[g] = snaps[t].tree[g]
      BY <1>3, <3>2, <3>4 DEF Snaps, Contents
    <3> QED BY <3>4, <3>5, <3>6
  <2>3. Gone \notin Snaps(ver)
    BY GoneIsNoCopy
  <2> QED BY <1>2, <2>1, <2>2, <2>3
<1>5. SnapTypes' /\ snaps'[t] = new /\ \A u \in Times \ {t} : snaps'[u] = snaps[u]
  BY <1>1, <1>3, <1>4 DEF SnapTypes
<1>6. SnapInv' /\ \A u \in Times : Strong(Good, u) => Strong(Good', u)
  BY <1>1, <1>3, <1>5, SnapsLose
<1>7. job' \in Jobs(ver) /\ job'.at = "rotate" /\ job'.olds = olds
  BY <1>1, <1>2 DEF Jobs
<1>8. JobInv'
  <2>1. ASSUME NEW u \in olds PROVE u \in Listed' /\ Strong(Good', u)
    <3>1. u \in job.olds /\ u \in Listed /\ u \in Times /\ Strong(Good, u)
      BY <1>1, <1>2 DEF JobInv, Jobs
    <3>2. snaps'[u] # Gone
      BY <1>4, <1>5, <3>1 DEF Listed
    <3> QED BY <1>6, <3>1, <3>2 DEF Listed
  <2> QED BY <1>1, <1>7, <2>1 DEF JobInv, JobTypes, Copying
<1>9. \A u \in Times : snaps'[u] # snaps[u] => Strong(Good', u)
  BY <1>3, <1>5, <1>6
<1>10. \A u \in Times, f \in Names : snaps'[u] # Gone /\ snaps'[u].tree[f] # Gone => snaps[u] # Gone /\ snaps[u].tree[f] = snaps'[u].tree[f]
  BY <1>3, <1>4, <1>5
<1> QED BY <1>6, <1>8, <1>9, <1>10

-----------------------------------------------------------------------------
\* What tree has of a file that the copy t still has.
Told(tree, f, t) == snaps[t] # Gone /\ snaps[t].tree[f] # Gone => tree[f] = snaps[t].tree[f].ver
Restoring ==
  cmd.kind = "restore" =>
    /\ cmd.at \in {"copy", "told"} /\ (cmd.at = "told" => cmd.todo = {}) /\ beside \in Trees(ver)
    /\ \A f \in Names \ cmd.todo : Told(beside, f, cmd.snap)
Replacing ==
  cmd.kind = "replace" =>
    /\ cmd.at \in {"copied", "staged", "told"}
    /\ \A f \in Names : Told(place[IF cmd.at = "told" THEN "target" ELSE "partial"], f, cmd.snap)
\* The copy a command reads is there, or rotation was allowed to reach it.
Reached == cmd.kind \in {"restore", "replace"} => cmd.snap \in Listed \/ Strong(Good, cmd.snap)
CmdInv == Restoring /\ Replacing /\ Reached
BackInv == PlaceInv /\ SnapInv /\ JobInv /\ CmdInv

LEMMA ReachedRests ==
  ASSUME Reached, cmd \in Orders, cmd' = cmd, \A t \in Times : Strong(Good, t) => Strong(Good', t),
         \A t \in Listed : t \in Listed' \/ Strong(Good', t)
  PROVE  Reached'
<1>1. cmd.snap \in Times
  BY DEF Orders
<1> QED BY <1>1 DEF Reached

LEMMA CommandRests ==
  ASSUME CmdInv, PlaceInv, cmd' = cmd, beside' = beside, cmd.kind = "replace" => place' = place, ver' \in Nat, ver <= ver',
         \A t \in Times : Strong(Good, t) => Strong(Good', t),
         \A t \in Listed : t \in Listed' \/ Strong(Good', t),
         \A f \in Names : snaps'[cmd.snap] # Gone /\ snaps'[cmd.snap].tree[f] # Gone
           => snaps[cmd.snap] # Gone /\ snaps[cmd.snap].tree[f] = snaps'[cmd.snap].tree[f]
  PROVE  CmdInv'
<1>1. cmd \in Orders /\ Trees(ver) \subseteq Trees(ver')
  BY TreesGrow DEF PlaceInv, PlaceTypes
<1>2. Reached'
  BY <1>1, ReachedRests DEF CmdInv
<1>3. Restoring'
  BY <1>1 DEF CmdInv, Restoring, Told
<1>4. Replacing'
  BY DEF CmdInv, Replacing, Told
<1> QED BY <1>2, <1>3, <1>4 DEF CmdInv

LEMMA CommandRestsBeside ==
  ASSUME CmdInv, PlaceInv, UNCHANGED <<cmd, beside, snaps, made>>, cmd.kind = "replace" => place' = place, ver' \in Nat, ver <= ver'
  PROVE  CmdInv'
<1>1. Listed' = Listed /\ Good' = Good
  BY DEF Listed, Good, Whole
<1> QED BY <1>1, CommandRests

LEMMA CommandBegins ==
  ASSUME BackInv, NEW t \in Times, Restore(t) \/ RestoreInPlace(t)
  PROVE  CmdInv'
<1>1. ver \in Nat /\ SnapTypes /\ t \in Listed /\ UNCHANGED <<ver, snaps, made>> /\ place \in [Slots -> Trees(ver) \cup {Gone}]
  BY DEF BackInv, PlaceInv, PlaceTypes, SnapInv, Restore, RestoreInPlace
<1>2. Listed' = Listed
  BY <1>1 DEF Listed
<1>3. CASE Restore(t)
  <2>1. cmd' = [at |-> "copy", kind |-> "restore", snap |-> t, todo |-> Names] /\ beside' = NoTree
    BY <1>3 DEF Restore
  <2>2. NoTree \in Trees(ver)
    BY DEF NoTree, Trees
  <2> QED BY <1>1, <1>2, <2>1, <2>2 DEF CmdInv, Restoring, Replacing, Reached
<1>4. CASE RestoreInPlace(t)
  <2>1. cmd' = [at |-> "copied", kind |-> "replace", snap |-> t, todo |-> {}]
    BY <1>4 DEF RestoreInPlace
  <2>2. place'["partial"] = [f \in Names |-> Restored(f, t)]
    BY <1>1, <1>4 DEF RestoreInPlace, Slots
  <2>3. ASSUME NEW f \in Names PROVE Told(place["partial"], f, t)'
    BY <1>1, <2>2, RestoredIs DEF Told
  <2> QED BY <1>1, <1>2, <2>1, <2>3 DEF CmdInv, Restoring, Replacing, Reached
<1> QED BY <1>3, <1>4

LEMMA CommandEndsBackup ==
  ASSUME cmd'.kind \in {"none", "promote"}
  PROVE  CmdInv'
BY DEF CmdInv, Restoring, Replacing, Reached

LEMMA CommandRestores ==
  ASSUME BackInv, RestoreOne
  PROVE  CmdInv'
<1>1. ver \in Nat /\ SnapTypes /\ cmd \in Orders /\ cmd.kind = "restore" /\ cmd.at = "copy" /\ beside \in Trees(ver) /\ UNCHANGED <<ver, snaps, made>>
  BY DEF BackInv, PlaceInv, PlaceTypes, SnapInv, RestoreOne, CommandOn, CmdInv, Restoring
<1>2. PICK f \in cmd.todo :
        /\ cmd' = [cmd EXCEPT !.todo = @ \ {f}, !.at = IF cmd.todo = {f} THEN "told" ELSE "copy"]
        /\ beside' = [beside EXCEPT ![f] = Restored(f, cmd.snap)]
  BY FirstIs DEF RestoreOne
<1>3. f \in Names /\ cmd.snap \in Times /\ cmd.todo \subseteq Names
  BY <1>1, <1>2 DEF Orders
<1>4. /\ cmd'.kind = "restore" /\ cmd'.snap = cmd.snap /\ cmd'.todo = cmd.todo \ {f} /\ cmd'.at \in {"copy", "told"}
      /\ cmd'.at = "told" => cmd'.todo = {}
  BY <1>1, <1>2 DEF Orders
<1>5. /\ Restored(f, cmd.snap) \in Versions(ver) \cup {Gone}
      /\ snaps[cmd.snap] # Gone /\ snaps[cmd.snap].tree[f] # Gone => Restored(f, cmd.snap) = snaps[cmd.snap].tree[f].ver
  BY <1>1, <1>3, RestoredIs
<1>6. beside' \in Trees(ver) /\ beside'[f] = Restored(f, cmd.snap) /\ \A g \in Names \ {f} : beside'[g] = beside[g]
  BY <1>1, <1>2, <1>3, <1>5 DEF Trees
<1>7. ASSUME NEW g \in Names \ cmd'.todo PROVE Told(beside', g, cmd.snap)
  <2>1. CASE g = f
    BY <1>5, <1>6, <2>1 DEF Told
  <2>2. CASE g # f
    BY <1>1, <1>4, <1>6, <1>7, <2>2 DEF Told, BackInv, CmdInv, Restoring
  <2> QED BY <2>1, <2>2
<1>8. Restoring'
  BY <1>1, <1>4, <1>6, <1>7 DEF Restoring, Told
<1>9. Listed' = Listed /\ Good' = Good
  BY <1>1 DEF Listed, Good, Whole
<1>10. Reached'
  BY <1>1, <1>4, <1>9 DEF BackInv, CmdInv, Reached
<1> QED BY <1>4, <1>8, <1>10 DEF CmdInv, Replacing

LEMMA CommandRenames ==
  ASSUME BackInv, Stage \/ Swap
  PROVE  CmdInv'
<1>1. /\ PlaceTypes /\ CommandOn /\ cmd \in Orders /\ cmd'.kind = cmd.kind /\ cmd'.snap = cmd.snap /\ UNCHANGED <<ver, snaps, made>>
      /\ cmd.kind \in {"replace", "promote"}
  BY DEF BackInv, PlaceInv, PlaceTypes, Stage, Swap, CommandOn, Orders
<1>2. Listed' = Listed /\ Good' = Good
  BY <1>1 DEF Listed, Good, Whole
<1>3. Reached'
  BY <1>1, <1>2 DEF BackInv, CmdInv, Reached
<1>4. ASSUME cmd.kind = "replace"
      PROVE  /\ cmd'.at \in {"copied", "staged", "told"}
             /\ place'[IF cmd'.at = "told" THEN "target" ELSE "partial"] = place["partial"] /\ cmd.at # "told"
  <2>1. CASE Stage
    <3>1. cmd'.at = "staged" /\ cmd.at = "copied" /\ Rename("target", "previous")
      BY <1>1, <2>1 DEF Stage, Orders
    <3>2. place'["partial"] = place["partial"]
      BY <1>1, <3>1, Renamed DEF Slots
    <3> QED BY <3>1, <3>2
  <2>2. CASE Swap
    <3>1. cmd'.at = "told" /\ cmd.at = "staged" /\ Rename("partial", "target")
      BY <1>1, <1>4, <2>2 DEF Swap, Orders
    <3>2. place'["target"] = place["partial"]
      BY <1>1, <3>1, Renamed DEF Slots
    <3> QED BY <3>1, <3>2
  <2> QED BY <2>1, <2>2
<1>5. Replacing'
  BY <1>1, <1>4 DEF BackInv, CmdInv, Replacing, Told
<1> QED BY <1>1, <1>3, <1>5 DEF CmdInv, Restoring

LEMMA BackStarts ==
  ASSUME Init PROVE BackInv
<1>1. PlaceInv
  BY PlaceStarts
<1>2. /\ now = 0 /\ ver = 1 /\ conf \in {1, Gone} /\ snaps = [t \in Times |-> Gone] /\ job = IdleJob /\ cmd = IdleCmd /\ made = {}
  BY DEF Init
<1>3. SnapInv
  <2>1. Listed = {}
    BY <1>2 DEF Listed
  <2>2. SnapTypes
    BY <1>2 DEF SnapTypes
  <2> QED BY <1>2, <2>1, <2>2 DEF SnapInv
<1>4. JobInv
  <2>1. job \in Jobs(ver)
    BY <1>2, IdleIsAJob
  <2>2. 0 \in Times
    BY BackupAssumption DEF Times
  <2> QED BY <1>2, <2>1, <2>2 DEF JobInv, JobTypes, Copying, IdleJob, Versions
<1>5. CmdInv
  BY <1>2 DEF CmdInv, Restoring, Replacing, Reached, IdleCmd
<1> QED BY <1>1, <1>3, <1>4, <1>5 DEF BackInv

LEMMA BackWritten ==
  ASSUME BackInv, NEW f \in Names, Write(f)
  PROVE  BackInv'
<1>1. ver \in Nat /\ ver' = ver + 1 /\ SnapTypes /\ UNCHANGED <<snaps, made, cmd, beside>>
  BY DEF BackInv, PlaceInv, PlaceTypes, SnapInv, Write
<1>2. SnapTypes'
  BY <1>1, JobsGrow DEF SnapTypes
<1>3. SnapInv'
  BY <1>1, <1>2, SnapsRest DEF BackInv
<1>4. cmd.kind = "replace" => place' = place
  BY DEF BackInv, PlaceInv, CommandOn, Write
<1>5. CmdInv'
  BY <1>1, <1>4, CommandRestsBeside DEF BackInv
<1> QED BY <1>3, <1>5, PlaceWritten, JobWritten DEF BackInv

\* The clock, the service and the command come and go.
LEMMA BackAround ==
  ASSUME BackInv, Tick \/ SetBack \/ Start \/ Stop \/ Kill \/ KillCommand \/ PowerCut
  PROVE  SnapInv' /\ JobInv' /\ CmdInv'
<1>1. ver \in Nat /\ JobTypes /\ SnapTypes /\ now \in Times /\ SnapInv /\ PlaceInv /\ ver' = ver /\ conf' = conf /\ made' = made
  BY DEF BackInv, PlaceInv, PlaceTypes, SnapInv, JobInv, JobTypes, Tick, SetBack, Start, Stop, Kill, KillCommand, PowerCut
<1>2. now' \in Times
  BY <1>1, BackupAssumption DEF Times, Tick, SetBack, Start, Stop, Kill, KillCommand, PowerCut
<1>3. CASE PowerCut
  <2>1. \A t \in Times : snaps'[t] = snaps[t] \/ (snaps'[t] = Gone /\ t \notin made)
    BY <1>3 DEF PowerCut
  <2>2. SnapTypes'
    BY <1>1, <1>3, <2>1 DEF SnapTypes, PowerCut
  <2>3. Good \subseteq Good' /\ \A t \in Listed' : t \in Listed /\ snaps'[t] = snaps[t]
    BY <1>1, <2>1 DEF Good, Listed, Whole
  <2>4. SnapInv'
    BY <1>1, <2>2, <2>3, SnapsGrow
  <2>5. JobInv'
    BY <1>1, <1>2, <1>3, JobEnds DEF PowerCut
  <2>6. CmdInv'
    BY <1>3, CommandEndsBackup DEF PowerCut, IdleCmd
  <2> QED BY <2>4, <2>5, <2>6
<1>4. CASE ~PowerCut
  <2>1. snaps' = snaps /\ beside' = beside /\ place' = place
    BY <1>4 DEF Tick, SetBack, Start, Stop, Kill, KillCommand
  <2>2. SnapInv'
    BY <1>1, <2>1, SnapsRest DEF SnapTypes
  <2>3. JobInv'
    <3>1. CASE Kill
      BY <1>1, <1>2, <3>1, JobEnds DEF Kill
    <3>2. CASE ~Kill
      <4>1. job' = job /\ (Copying(job) => up')
        BY <1>4, <3>2 DEF BackInv, JobInv, Copying, IdleJob, Tick, SetBack, Start, Stop, KillCommand
      <4> QED BY <1>1, <1>2, <2>1, <4>1, JobRests DEF BackInv
    <3> QED BY <3>1, <3>2
  <2>4. CmdInv'
    <3>1. CASE KillCommand
      BY <3>1, CommandEndsBackup DEF KillCommand, IdleCmd
    <3>2. CASE ~KillCommand
      <4>1. cmd' = cmd
        BY <1>4, <3>2 DEF Tick, SetBack, Start, Stop, Kill
      <4> QED BY <1>1, <2>1, <4>1, CommandRestsBeside DEF BackInv
    <3> QED BY <3>1, <3>2
  <2> QED BY <2>2, <2>3, <2>4
<1> QED BY <1>3, <1>4

LEMMA BackTaken ==
  ASSUME BackInv, SnapshotIfDue \/ Inspect \/ CopyOne \/ TreeDone \/ Abandon \/ SyncFails \/ Rotated
  PROVE  SnapInv' /\ JobInv' /\ CmdInv'
<1>1. ver \in Nat /\ JobTypes /\ SnapTypes /\ now \in Times /\ PlaceInv /\ JobInv /\ SnapInv
  BY DEF BackInv, PlaceInv, PlaceTypes, SnapInv, JobInv, JobTypes
<1>2. UNCHANGED <<now, ver, conf, snaps, made, cmd, beside, place>>
  BY DEF SnapshotIfDue, Inspect, CopyOne, TreeDone, Abandon, SyncFails, Rotated
<1>3. SnapInv'
  BY <1>1, <1>2, SnapsRest DEF SnapTypes
<1>4. CmdInv'
  BY <1>1, <1>2, CommandRestsBeside DEF BackInv
<1>5. JobInv'
  <2>1. CASE Abandon \/ SyncFails \/ Rotated
    BY <1>1, <1>2, <2>1, JobEnds DEF Abandon, SyncFails, Rotated
  <2> QED BY <1>1, <2>1, JobBegins, JobInspects, JobCopies, JobLeavesTree
<1> QED BY <1>3, <1>4, <1>5

LEMMA BackRotates ==
  ASSUME BackInv, Publish \/ Sync \/ RemoveOne \/ RemoveEmpty
  PROVE  SnapInv' /\ JobInv' /\ CmdInv'
<1>1. ver \in Nat /\ PlaceInv /\ JobInv /\ SnapInv /\ CmdInv /\ cmd \in Orders /\ made \subseteq Times /\ cmd.snap \in Times
  BY DEF BackInv, PlaceInv, PlaceTypes, SnapInv, Orders
<1>2. UNCHANGED <<ver, cmd, beside, place>>
  BY DEF Publish, Sync, RemoveOne, RemoveEmpty
<1>3. CASE Publish
  <2>1. SnapInv' /\ JobInv' /\ job.name \in Times /\ (\A t \in Listed : t < job.name) /\ (\A t \in Times \ {job.name} : snaps'[t] = snaps[t])
    BY <1>1, <1>3, Published
  <2>2. job.name \notin Listed /\ made' = made
    BY <1>3, <2>1, TimesAreNumbers DEF Publish
  <2>3. Good \subseteq Good' /\ Good' \subseteq Times /\ Good \subseteq Times /\ Listed \subseteq Listed'
    BY <1>1, <2>1, <2>2 DEF Good, Listed, Whole
  <2>4. \A t \in Times : Strong(Good, t) => Strong(Good', t)
    <3>1. \A t \in Times : Later(Good, t) \subseteq Later(Good', t)
      BY <2>3 DEF Later
    <3> QED BY <2>3, <3>1, StrongGrows
  <2>5. CASE cmd.kind \notin {"restore", "replace"}
    <3>1. cmd'.kind \in {"none", "promote"}
      BY <1>1, <1>2, <2>5 DEF Orders, Kinds
    <3> QED BY <2>1, <3>1, CommandEndsBackup
  <2>6. CASE cmd.kind \in {"restore", "replace"}
    <3>1. cmd.snap # job.name
      <4>1. CASE Strong(Good, cmd.snap)
        <5>1. PICK u \in Listed : u > cmd.snap
          BY <1>1, <4>1, StrongIsOld
        <5>2. u \in Nat /\ u < job.name /\ cmd.snap \in Nat /\ job.name \in Nat
          BY <1>1, <2>1, <5>1, TimesAreNumbers DEF Listed
        <5> QED BY <5>1, <5>2
      <4> QED BY <1>1, <2>2, <2>6, <4>1 DEF CmdInv, Reached
    <3>2. snaps'[cmd.snap] = snaps[cmd.snap]
      BY <1>1, <2>1, <3>1
    <3>3. \A t \in Listed : t \in Listed' \/ Strong(Good', t)
      BY <2>3
    <3>4. ver' \in Nat /\ ver <= ver' /\ (cmd.kind = "replace" => place' = place)
      BY <1>1, <1>2
    <3>5. \A f \in Names : snaps'[cmd.snap] # Gone /\ snaps'[cmd.snap].tree[f] # Gone
            => snaps[cmd.snap] # Gone /\ snaps[cmd.snap].tree[f] = snaps'[cmd.snap].tree[f]
      BY <3>2
    <3>6. cmd' = cmd /\ beside' = beside
      BY <1>2
    <3>7. CmdInv'
      BY <1>1, <2>4, <3>3, <3>4, <3>5, <3>6, CommandRests
    <3> QED BY <2>1, <3>7
  <2> QED BY <2>1, <2>5, <2>6
<1>4. CASE Sync
  <2>1. SnapInv' /\ JobInv' /\ \A t \in Times : Strong(Good, t) => Strong(Good', t)
    BY <1>1, <1>4, Synced
  <2>2. snaps' = snaps /\ Listed' = Listed
    BY <1>4 DEF Sync, Listed
  <2> QED BY <1>1, <1>2, <2>1, <2>2, CommandRests
<1>5. CASE RemoveOne \/ RemoveEmpty
  <2>1. /\ SnapInv' /\ JobInv' /\ \A t \in Times : Strong(Good, t) => Strong(Good', t)
        /\ \A t \in Times : snaps'[t] # snaps[t] => Strong(Good', t)
        /\ \A t \in Times, f \in Names : snaps'[t] # Gone /\ snaps'[t].tree[f] # Gone => snaps[t] # Gone /\ snaps[t].tree[f] = snaps'[t].tree[f]
    BY <1>1, <1>5, Removed
  <2>2. \A t \in Listed : t \in Listed' \/ Strong(Good', t)
    BY <2>1 DEF Listed
  <2> QED BY <1>1, <1>2, <2>1, <2>2, CommandRests
<1> QED BY <1>3, <1>4, <1>5

LEMMA BackCommanded ==
  ASSUME BackInv, \/ \E t \in Times : Restore(t) \/ RestoreInPlace(t)
                  \/ RestoreOne \/ RestoreFails \/ Stage \/ PromotePrevious \/ Swap \/ SwapFails \/ DiscardPrevious \/ Leave
  PROVE  SnapInv' /\ JobInv' /\ CmdInv'
<1>1. ver \in Nat /\ JobTypes /\ SnapTypes /\ now \in Times /\ PlaceInv /\ JobInv /\ SnapInv /\ CommandOn
  BY DEF BackInv, PlaceInv, PlaceTypes, SnapInv, JobInv, JobTypes
<1>2. UNCHANGED <<now, ver, conf, snaps, made, job, up>>
  BY DEF Restore, RestoreInPlace, RestoreOne, RestoreFails, Stage, PromotePrevious, Swap, SwapFails, DiscardPrevious, Leave
<1>3. SnapInv'
  BY <1>1, <1>2, SnapsRest DEF SnapTypes
<1>4. JobInv'
  <2>1. CASE place' = place
    BY <1>1, <1>2, <2>1, JobRests DEF JobInv
  <2>2. CASE ~up
    BY <1>1, <1>2, <2>2, JobRests DEF JobInv
  <2>3. CASE DiscardPrevious
    <3>1. place'["target"] = place["target"]
      BY <1>1, <2>3 DEF DiscardPrevious, PlaceInv, PlaceTypes, Slots
    <3> QED BY <1>1, <1>2, <3>1, JobRests DEF JobInv
  <2> QED BY <1>1, <2>1, <2>2, <2>3 DEF Restore, RestoreInPlace, RestoreOne, RestoreFails, Stage, PromotePrevious, Swap, SwapFails, Leave, CommandOn
<1>5. CmdInv'
  <2>1. CASE RestoreFails \/ SwapFails \/ Leave \/ PromotePrevious \/ DiscardPrevious
    <3>1. IdleCmd.kind = "none" /\ [IdleCmd EXCEPT !.kind = "promote", !.at = "staged"].kind = "promote"
      BY DEF IdleCmd
    <3>2. cmd'.kind \in {"none", "promote"}
      BY <2>1, <3>1 DEF RestoreFails, SwapFails, Leave, PromotePrevious, DiscardPrevious, Begins
    <3> QED BY <3>2, CommandEndsBackup
  <2> QED BY <2>1, CommandBegins, CommandRestores, CommandRenames
<1> QED BY <1>3, <1>4, <1>5

LEMMA BackStep ==
  ASSUME BackInv, [Next]_vars
  PROVE  BackInv'
<1>1. PlaceInv'
  BY PlaceStep DEF BackInv, SnapInv
<1>2. CASE UNCHANGED vars
  <2>1. /\ ver \in Nat /\ SnapTypes /\ now \in Times /\ PlaceInv /\ JobInv /\ SnapInv
        /\ UNCHANGED <<now, ver, conf, place, snaps, job, up, cmd, beside, made>>
    BY <1>2 DEF vars, BackInv, PlaceInv, PlaceTypes, SnapInv, JobInv, JobTypes
  <2>2. SnapInv' /\ JobInv'
    BY <2>1, SnapsRest, JobRests DEF SnapTypes, JobInv
  <2>3. CmdInv'
    BY <2>1, CommandRestsBeside DEF BackInv
  <2> QED BY <1>1, <2>2, <2>3 DEF BackInv
<1>3. CASE Next
  BY <1>1, <1>3, BackWritten, BackAround, BackTaken, BackRotates, BackCommanded DEF Next, BackInv
<1> QED BY <1>2, <1>3

LEMMA BackHolds ==
  ASSUME BackInv PROVE BackupsHold
<1>1. KeptAreWhole /\ EnoughStay
  BY SnapsAreGood DEF BackInv
<1>2. TellsTheTruth
  <2>1. ASSUME cmd.at = "told", cmd.kind \in {"restore", "replace"}, cmd.snap \in Held, NEW f \in Names, snaps[cmd.snap].tree[f] # Gone
        PROVE  (IF cmd.kind = "restore" THEN beside ELSE place["target"])[f] = snaps[cmd.snap].tree[f].ver
    <3>1. snaps[cmd.snap] # Gone
      BY <2>1 DEF Held, Listed
    <3>2. CASE cmd.kind = "restore"
      BY <2>1, <3>1, <3>2 DEF BackInv, CmdInv, Restoring, Told
    <3>3. CASE cmd.kind = "replace"
      BY <2>1, <3>1, <3>3 DEF BackInv, CmdInv, Replacing, Told
    <3> QED BY <2>1, <3>2, <3>3
  <2> QED BY <2>1 DEF TellsTheTruth
<1>3. NothingOfMineLost
  BY DEF BackInv, PlaceInv, NothingOfMineLost, Own, Slots
<1> QED BY <1>1, <1>2, <1>3 DEF BackupsHold

LEMMA BackupSafe == Init /\ [][Next]_vars => []BackupsHold
<1>1. Init => BackInv
  BY BackStarts
<1>2. BackInv /\ [Next]_vars => BackInv'
  BY BackStep
<1>3. BackInv => BackupsHold
  BY BackHolds
<1> QED BY <1>1, <1>2, <1>3, PTL

-----------------------------------------------------------------------------
(* Tool statistics: each call is a row or counted in the day it was folded
   into, the dead alone are buried, and what is left of a walk lies ahead. *)

Tally == [calls : Nat, ok : Nat, maxEnded : 0..MaxStatsNow]
Writer == [up : BOOLEAN, owner : Nat, dropped : Int, due : BOOLEAN]
Calls == [T!Ids -> T!Rows \cup {None}]
Filed == [owners : SUBSET Nat, events : Calls, rolls : [T!Buckets -> Tally], dropped : Int, recovered : Int]
StatsTypes ==
  /\ clock \in 0..MaxStatsNow /\ given \in Nat /\ owned \in Nat
  /\ log \in Calls /\ db \in Filed /\ proc \in [Procs -> Writer] /\ calls \in [T!Ids -> Procs \cup {None}]
\* The calls that were folded, those of a day, and those of them that went well.
Fold(e, l) == {id \in T!Ids : l[id] # None /\ e[id] = None}
FoldIn(e, l, b) == {id \in Fold(e, l) : T!Bucket(l[id].at) = b}
FoldOk(e, l, b) == {id \in FoldIn(e, l, b) : l[id].outcome = "ok"}
Mirrored(e, l) ==
  /\ \A id \in T!Ids : e[id] # None => l[id] = e[id]
  /\ \A id \in T!Ids : l[id] # None /\ l[id].outcome # "none" => l[id].ended # T!Open
Summed(e, l, r) ==
  \A b \in T!Buckets :
    /\ r[b].calls = Cardinality(FoldIn(e, l, b)) /\ r[b].ok = Cardinality(FoldOk(e, l, b))
    /\ \A id \in FoldIn(e, l, b) : l[id].ended <= r[b].maxEnded
Counted(e, l, r) == Mirrored(e, l) /\ Summed(e, l, r)
\* Owners are numbered as they are opened, and who is dead stays dead.
OwnersOn ==
  /\ db.owners \subseteq 1..owned
  /\ \A p \in Procs : proc[p].owner <= owned /\ (proc[p].owner # 0 => proc[p].up)
  /\ \A id \in T!Ids : calls[id] # None => proc[calls[id]].up
DeadOwner(o) == o \in 1..owned /\ ~T!Alive(o)
Buried ==
  /\ \A id \in T!Ids : db.events[id] # None /\ db.events[id].outcome = "cut" => DeadOwner(db.events[id].owner)
  /\ reader # None => \A o \in reader : DeadOwner(o)
NotYet == \A id \in T!Ids : id > given => db.events[id] = None /\ log[id] = None
\* What a walk still owes lies behind its cursor, is kept no more, or was given another end.
Failed(e, until, x) == e[x] # None /\ e[x].outcome \in {"fail", "cut"} /\ e[x].at <= until /\ e[x].ended <= until
Behind(e, x, at, id) == e[x].at < at \/ (e[x].at = at /\ x < id)
WalkOn(w, e, cs, g, t) ==
  /\ w \in [until : 0..t, at : Int, id : Int, seen : SUBSET T!Ids, due : SUBSET T!Ids, more : BOOLEAN]
  /\ \A x \in w.due :
       /\ x <= g
       /\ e[x] # None => /\ e[x].ended # T!Open
                         /\ Failed(e, w.until, x) \/ cs[x] = None
                         /\ Failed(e, w.until, x) => x \in w.seen \/ Behind(e, x, w.at, w.id)
  /\ ~w.more => \A x \in w.due : Failed(e, w.until, x) => x \in w.seen
StatsInv ==
  /\ StatsTypes /\ Counted(db.events, log, db.rolls) /\ OwnersOn /\ Buried /\ NotYet
  /\ pager # None => WalkOn(pager, db.events, calls, given, clock)

LEMMA SameCount == \A X : T!Cardinality(X) = Cardinality(X)
  BY DEF T!Cardinality, Cardinality

LEMMA CallsAreFinite ==
  /\ IsFiniteSet(T!Ids) /\ IsFiniteSet(T!Buckets)
  /\ \A d \in SUBSET T!Ids : IsFiniteSet(d) /\ Cardinality(d) \in Nat
<1>1. IsFiniteSet(T!Ids)
  BY StatsAssumption, FS_Interval DEF T!Ids
<1>2. IsFiniteSet(T!Buckets)
  <2>1. IsFiniteSet(0 .. MaxStatsNow)
    BY StatsAssumption, FS_Interval
  <2>2. PICK f : f = [t \in 0 .. MaxStatsNow |-> T!Bucket(t)]
    OBVIOUS
  <2>3. T!Buckets = {f[t] : t \in 0 .. MaxStatsNow}
    BY <2>2 DEF T!Buckets
  <2>4. f \in Surjection(0 .. MaxStatsNow, T!Buckets)
    BY <2>2, <2>3 DEF Surjection
  <2> QED BY <2>1, <2>4, FS_Surjection
<1> QED BY <1>1, <1>2, FS_Subset, FS_CardinalityType

LEMMA DaysSpan ==
  ASSUME NEW t \in 0..MaxStatsNow
  PROVE  T!Bucket(t) \in T!Buckets /\ T!Bucket(t) \in Int /\ T!Bucket(t) <= t /\ t < T!Bucket(t) + Day
<1>1. t % Day \in Int /\ 0 <= t % Day /\ t % Day < Day
  BY StatsAssumption
<1>2. T!Bucket(t) \in T!Buckets
  BY DEF T!Buckets
<1> QED BY <1>1, <1>2, StatsAssumption DEF T!Bucket

LEMMA DaysAreNumbers == ASSUME NEW b \in T!Buckets PROVE b \in Int
  BY DaysSpan DEF T!Buckets

\* A row of the history is a row.
LEMMA RowsRead ==
  ASSUME StatsTypes, NEW id \in T!Ids, log[id] # None
  PROVE  /\ log[id] \in T!Rows /\ log[id].at \in 0..MaxStatsNow
         /\ log[id].ended \in Int /\ (log[id].ended # T!Open => log[id].ended \in 0..MaxStatsNow)
<1>1. log[id] \in T!Rows
  BY DEF StatsTypes, Calls
<1> QED BY <1>1, StatsAssumption DEF T!Rows, T!Open

\* What the days add up to is what was folded into them.
LEMMA RolledIs ==
  ASSUME StatsTypes, Summed(db.events, log, db.rolls), NEW days \in SUBSET T!Buckets
  PROVE  /\ T!Rolled(days) = Cardinality({id \in Fold(db.events, log) : T!Bucket(log[id].at) \in days})
         /\ T!RolledOKs(days) = Cardinality({id \in Fold(db.events, log) : T!Bucket(log[id].at) \in days /\ log[id].outcome = "ok"})
<1>1. PICK k : k = [id \in T!Ids |-> T!Bucket(log[id].at)]
  OBVIOUS
<1>2. PICK X : X = Fold(db.events, log)
  OBVIOUS
<1>3. PICK Y : Y = {id \in X : log[id].outcome = "ok"}
  OBVIOUS
<1>4. X \subseteq T!Ids /\ Y \subseteq T!Ids /\ IsFiniteSet(X) /\ IsFiniteSet(Y) /\ IsFiniteSet(days)
  BY <1>2, <1>3, CallsAreFinite, FS_Subset DEF Fold
<1>5. PICK f : f = [b \in T!Buckets |-> db.rolls[b].calls]
  OBVIOUS
<1>6. PICK g : g = [b \in T!Buckets |-> db.rolls[b].ok]
  OBVIOUS
<1>7. ASSUME NEW b \in days PROVE f[b] = Cardinality(OfKinds(X, k, {b})) /\ g[b] = Cardinality(OfKinds(Y, k, {b}))
  <2>1. FoldIn(db.events, log, b) = OfKinds(X, k, {b})
    BY <1>1, <1>2, <1>4 DEF FoldIn, OfKinds
  <2>2. FoldOk(db.events, log, b) = OfKinds(Y, k, {b})
    BY <1>1, <1>2, <1>3, <1>4 DEF FoldOk, FoldIn, OfKinds
  <2> QED BY <1>5, <1>6, <2>1, <2>2 DEF Summed
<1>8. Q!SumFunctionOnSet(f, days) = Cardinality(OfKinds(X, k, days))
  <2>1. \A b \in days : f[b] = Cardinality(OfKinds(X, k, {b}))
    BY <1>7
  <2>2. IsFiniteSet(days) /\ IsFiniteSet(X) /\ IsFiniteSet(Y)
    BY <1>4
  <2> QED BY <2>1, <2>2, SumOfKinds
<1>9. Q!SumFunctionOnSet(g, days) = Cardinality(OfKinds(Y, k, days))
  <2>1. \A b \in days : g[b] = Cardinality(OfKinds(Y, k, {b}))
    BY <1>7
  <2>2. IsFiniteSet(days) /\ IsFiniteSet(X) /\ IsFiniteSet(Y)
    BY <1>4
  <2> QED BY <2>1, <2>2, SumOfKinds
<1>10. T!Rolled(days) = Q!SumFunctionOnSet(f, days) /\ T!RolledOKs(days) = Q!SumFunctionOnSet(g, days)
  BY <1>5, <1>6 DEF T!Rolled, T!RolledOKs, T!SumFunctionOnSet, T!FoldFunctionOnSet, T!MapThenFoldSet, Q!SumFunctionOnSet, Q!FoldFunctionOnSet, Q!MapThenFoldSet
<1>11. OfKinds(X, k, days) = {id \in Fold(db.events, log) : T!Bucket(log[id].at) \in days}
  BY <1>1, <1>2, <1>4 DEF OfKinds
<1>12. OfKinds(Y, k, days) = {id \in Fold(db.events, log) : T!Bucket(log[id].at) \in days /\ log[id].outcome = "ok"}
  BY <1>1, <1>2, <1>3, <1>4 DEF OfKinds
<1> QED BY <1>8, <1>9, <1>10, <1>11, <1>12

\* A day that something was folded into has calls, which ended by its latest end.
LEMMA FoldedInto ==
  ASSUME StatsTypes, Summed(db.events, log, db.rolls), NEW id \in Fold(db.events, log), NEW b, b = T!Bucket(log[id].at)
  PROVE  /\ b \in T!Buckets /\ b \in Int /\ b <= log[id].at /\ log[id].at < b + Day
         /\ db.rolls[b].calls > 0 /\ log[id].ended <= db.rolls[b].maxEnded
         /\ db.rolls[b].maxEnded \in Int
<1>1. id \in T!Ids /\ log[id] # None
  BY DEF Fold
<1>2. b \in T!Buckets /\ b \in Int /\ b <= log[id].at /\ log[id].at < b + Day
  BY <1>1, RowsRead, DaysSpan
<1>3. id \in FoldIn(db.events, log, b) /\ FoldIn(db.events, log, b) \in SUBSET T!Ids
  BY DEF FoldIn, Fold
<1>4. Cardinality(FoldIn(db.events, log, b)) # 0 /\ Cardinality(FoldIn(db.events, log, b)) \in Nat
  BY <1>3, CallsAreFinite, FS_EmptySet
<1>5. db.rolls[b] \in Tally
  BY <1>2 DEF StatsTypes, Filed
<1>6. db.rolls[b].maxEnded \in Int
  BY <1>5, StatsAssumption DEF Tally
<1> QED BY <1>2, <1>3, <1>4, <1>6 DEF Summed

\* The days an answer uses hold what was folded of its interval, if it leaves none out.
LEMMA FoldedWithin ==
  ASSUME StatsTypes, Summed(db.events, log, db.rolls), NEW since \in Int, NEW until \in Int, T!Used(since, until) = T!Touched(since, until),
         NEW id \in Fold(db.events, log)
  PROVE  /\ T!Bucket(log[id].at) \in T!Used(since, until) <=> T!In(log[id], since, until)
         /\ T!In(log[id], since, until) => log[id].ended <= until
<1>1. PICK b : b = T!Bucket(log[id].at)
  OBVIOUS
<1>2. /\ b \in T!Buckets /\ b \in Int /\ b <= log[id].at /\ log[id].at < b + Day
      /\ db.rolls[b].calls > 0 /\ log[id].ended <= db.rolls[b].maxEnded /\ db.rolls[b].maxEnded \in Int
  BY <1>1, FoldedInto
<1>3. log[id].at \in Int /\ log[id].ended \in Int /\ Day \in Nat
  <2>1. log[id].at \in 0..MaxStatsNow /\ log[id].ended \in Int
    BY RowsRead DEF Fold
  <2> QED BY <2>1, StatsAssumption
<1>4. ASSUME b \in T!Used(since, until) PROVE T!In(log[id], since, until) /\ log[id].ended <= until
  <2>1. ~(b < since) /\ ~(b + Day > until) /\ ~(db.rolls[b].maxEnded > until)
    BY <1>4 DEF T!Used, T!Omit
  <2> QED BY <1>2, <1>3, <2>1 DEF T!In
<1>5. ASSUME T!In(log[id], since, until) PROVE b \in T!Used(since, until)
  <2>1. b + Day > since /\ b <= until
    BY <1>2, <1>3, <1>5 DEF T!In
  <2>2. b \in T!Touched(since, until)
    BY <1>2, <2>1 DEF T!Touched
  <2> QED BY <2>2
<1> QED BY <1>1, <1>4, <1>5

LEMMA FoldedDated ==
  ASSUME StatsTypes, Summed(db.events, log, db.rolls), NEW since \in Int, NEW until \in Int,
         T!Across(since, until) = {}, T!Dated(since, until) = T!Within(since, until),
         NEW id \in Fold(db.events, log)
  PROVE  /\ T!Bucket(log[id].at) \in T!Dated(since, until) <=> log[id].at >= since /\ log[id].at < until
         /\ log[id].at >= since /\ log[id].at < until => log[id].ended < until
<1>1. PICK b : b = T!Bucket(log[id].at)
  OBVIOUS
<1>2. /\ b \in T!Buckets /\ b \in Int /\ b <= log[id].at /\ log[id].at < b + Day
      /\ db.rolls[b].calls > 0 /\ log[id].ended <= db.rolls[b].maxEnded /\ db.rolls[b].maxEnded \in Int
  BY <1>1, FoldedInto
<1>3. log[id].at \in Int /\ log[id].ended \in Int /\ Day \in Nat
  <2>1. log[id].at \in 0..MaxStatsNow /\ log[id].ended \in Int
    BY RowsRead DEF Fold
  <2> QED BY <2>1, StatsAssumption
<1>4. ASSUME b \in T!Dated(since, until) PROVE log[id].at >= since /\ log[id].at < until /\ log[id].ended < until
  <2>1. b >= since /\ b + Day <= until /\ db.rolls[b].maxEnded < until
    BY <1>4 DEF T!Dated, T!Within
  <2> QED BY <1>2, <1>3, <2>1
<1>5. ASSUME log[id].at >= since, log[id].at < until PROVE b \in T!Dated(since, until)
  <2>1. b + Day > since /\ b < until
    BY <1>2, <1>3, <1>5
  <2>2. b >= since /\ ~(b + Day > until)
    BY <1>2, <2>1 DEF T!Across
  <2>3. b + Day <= until
    BY <1>2, <1>3, <2>2
  <2>4. b \in T!Within(since, until)
    BY <1>2, <2>2, <2>3 DEF T!Within
  <2> QED BY <2>4
<1> QED BY <1>1, <1>4, <1>5

\* Every call is kept as a row or folded.
LEMMA KeptOrFolded ==
  ASSUME StatsTypes, Mirrored(db.events, log)
  PROVE  /\ T!Kept = T!Events \cup Fold(db.events, log) /\ T!Events \cap Fold(db.events, log) = {}
         /\ T!Events \subseteq T!Ids /\ Fold(db.events, log) \subseteq T!Ids
         /\ \A id \in T!Events : log[id] = db.events[id] /\ log[id] # None /\ id \in T!Ids
  BY DEF T!Kept, T!Events, Fold, Mirrored

LEMMA CountedOnce ==
  ASSUME StatsTypes, Counted(db.events, log, db.rolls)
  PROVE  T!AllCounted
<1>1. Mirrored(db.events, log) /\ Summed(db.events, log, db.rolls)
  BY DEF Counted
<1>2. {id \in Fold(db.events, log) : T!Bucket(log[id].at) \in T!Buckets} = Fold(db.events, log)
  <2>1. ASSUME NEW id \in Fold(db.events, log) PROVE T!Bucket(log[id].at) \in T!Buckets
    BY <1>1, FoldedInto
  <2> QED BY <2>1
<1>3. T!Rolled(T!Buckets) = Cardinality(Fold(db.events, log))
  BY <1>1, <1>2, RolledIs
<1>4. Cardinality(T!Kept) = Cardinality(T!Events) + Cardinality(Fold(db.events, log))
  <2>1. IsFiniteSet(T!Events) /\ IsFiniteSet(Fold(db.events, log))
    BY <1>1, KeptOrFolded, CallsAreFinite
  <2> QED BY <1>1, <2>1, KeptOrFolded, CardApart
<1> QED BY <1>3, <1>4, SameCount DEF T!AllCounted

LEMMA ReadIsTrue ==
  ASSUME StatsTypes, Counted(db.events, log, db.rolls), NEW since \in 0..clock, NEW until \in 0..clock, ~T!Partial(since, until)
  PROVE  LET had == {id \in T!Kept : T!In(log[id], since, until)} IN
         /\ T!Calls(since, until) + T!Active(since, until) = Cardinality(had)
         /\ T!OKs(since, until) = Cardinality({id \in had : log[id].outcome = "ok" /\ log[id].ended <= until})
<1> DEFINE had == {id \in T!Kept : T!In(log[id], since, until)}
           ends == {id \in T!Shown(since, until) : T!Complete(id, until)}
           running == {id \in T!Shown(since, until) : ~T!Complete(id, until)}
           olds == {id \in Fold(db.events, log) : T!Bucket(log[id].at) \in T!Used(since, until)}
<1>0. since \in Int /\ until \in Int /\ until >= 0
  BY DEF StatsTypes
<1>1. Mirrored(db.events, log) /\ Summed(db.events, log, db.rolls) /\ T!Used(since, until) = T!Touched(since, until)
  BY DEF Counted, T!Partial
<1>2. T!Used(since, until) \subseteq T!Buckets
  BY DEF T!Used, T!Touched
<1>3. olds = {id \in Fold(db.events, log) : T!In(log[id], since, until)}
  <2>1. ASSUME NEW id \in Fold(db.events, log) PROVE T!Bucket(log[id].at) \in T!Used(since, until) <=> T!In(log[id], since, until)
    BY <1>0, <1>1, FoldedWithin
  <2> QED BY <2>1
<1>4. T!Shown(since, until) = {id \in T!Events : T!In(log[id], since, until)}
  BY <1>1, KeptOrFolded DEF T!Shown
<1>5. had = ends \cup running \cup olds /\ ends \cap running = {} /\ (ends \cup running) \cap olds = {}
  BY <1>1, <1>3, <1>4, KeptOrFolded
<1>6. IsFiniteSet(ends) /\ IsFiniteSet(running) /\ IsFiniteSet(olds)
  <2>1. ends \in SUBSET T!Ids /\ running \in SUBSET T!Ids /\ olds \in SUBSET T!Ids
    BY <1>1, <1>4, KeptOrFolded
  <2> QED BY <2>1, CallsAreFinite
<1>7. Cardinality(had) = Cardinality(ends) + Cardinality(running) + Cardinality(olds)
  <2> HIDE DEF had, ends, running, olds
  <2>1. Cardinality(ends \cup running) = Cardinality(ends) + Cardinality(running) /\ IsFiniteSet(ends \cup running)
    BY <1>5, <1>6, CardApart
  <2>2. Cardinality((ends \cup running) \cup olds) = Cardinality(ends \cup running) + Cardinality(olds)
    BY <1>5, <1>6, <2>1, CardApart
  <2> QED BY <1>5, <2>1, <2>2
<1>8. T!Calls(since, until) = Cardinality(ends) + Cardinality(olds) /\ T!Active(since, until) = Cardinality(running)
  BY <1>1, <1>2, RolledIs, SameCount DEF T!Calls, T!Active
<1>9. Cardinality(ends) \in Nat /\ Cardinality(running) \in Nat /\ Cardinality(olds) \in Nat
  BY <1>6, FS_CardinalityType
<1>10. T!Calls(since, until) + T!Active(since, until) = Cardinality(had)
  <2> HIDE DEF had, ends, running, olds
  <2> QED BY <1>7, <1>8, <1>9
<1> DEFINE good == {id \in had : log[id].outcome = "ok" /\ log[id].ended <= until}
           goodEnds == {id \in T!Shown(since, until) : T!Complete(id, until) /\ db.events[id].outcome = "ok"}
           goodOlds == {id \in Fold(db.events, log) : T!Bucket(log[id].at) \in T!Used(since, until) /\ log[id].outcome = "ok"}
<1>11. ASSUME NEW id \in T!Shown(since, until)
       PROVE  T!Complete(id, until) /\ db.events[id].outcome = "ok" <=> log[id].outcome = "ok" /\ log[id].ended <= until
  <2>1. id \in T!Ids /\ log[id] = db.events[id] /\ log[id] # None /\ (log[id].outcome # "none" => log[id].ended # T!Open)
    BY <1>1, KeptOrFolded DEF T!Shown, Mirrored
  <2> QED BY <2>1 DEF T!Complete
<1>12. goodOlds = {id \in olds : log[id].outcome = "ok" /\ log[id].ended <= until}
  <2>1. ASSUME NEW id \in olds PROVE log[id].ended <= until
    BY <1>0, <1>1, <1>3, FoldedWithin
  <2> QED BY <2>1
<1>13. good = goodEnds \cup goodOlds /\ goodEnds \cap goodOlds = {}
  BY <1>1, <1>3, <1>4, <1>11, <1>12, KeptOrFolded
<1>14. IsFiniteSet(goodEnds) /\ IsFiniteSet(goodOlds)
  <2>1. goodEnds \in SUBSET T!Ids /\ goodOlds \in SUBSET T!Ids
    BY <1>1, <1>4, KeptOrFolded
  <2> QED BY <2>1, CallsAreFinite
<1>15. Cardinality(good) = Cardinality(goodEnds) + Cardinality(goodOlds)
  <2> HIDE DEF good, goodEnds, goodOlds
  <2> QED BY <1>13, <1>14, CardApart
<1>16. T!OKs(since, until) = Cardinality(goodEnds) + Cardinality(goodOlds)
  BY <1>1, <1>2, RolledIs, SameCount DEF T!OKs
<1> QED BY <1>10, <1>15, <1>16

LEMMA ContextIsTrue ==
  ASSUME StatsTypes, Counted(db.events, log, db.rolls), NEW since \in 0..clock, NEW until \in 0..clock, ~T!ContextPartial(since, until)
  PROVE  LET before == {id \in T!Kept : log[id].at >= since /\ log[id].at < until} IN
         T!Requests(since, until) + T!ActiveRequests(since, until)
           = Cardinality({id \in before : log[id].ended = T!Open \/ log[id].ended < until \/ log[id].owner \in reader})
<1> DEFINE had == {id \in T!Kept : (log[id].at >= since /\ log[id].at < until) /\ (log[id].ended = T!Open \/ log[id].ended < until \/ log[id].owner \in reader)}
           ends == {id \in T!Asked(since, until) : T!Ended(id, until)}
           running == {id \in T!Asked(since, until) : db.events[id].ended = T!Open /\ db.events[id].owner \notin reader}
           olds == {id \in Fold(db.events, log) : T!Bucket(log[id].at) \in T!Dated(since, until)}
<1>0. since \in Int /\ until \in Int /\ until >= 0
  BY DEF StatsTypes
<1>1. Mirrored(db.events, log) /\ Summed(db.events, log, db.rolls) /\ T!Across(since, until) = {} /\ T!Dated(since, until) = T!Within(since, until)
  BY DEF Counted, T!ContextPartial
<1>2. T!Dated(since, until) \subseteq T!Buckets
  BY DEF T!Dated, T!Within
<1>3. olds = {id \in Fold(db.events, log) : log[id].at >= since /\ log[id].at < until /\ (log[id].ended = T!Open \/ log[id].ended < until \/ log[id].owner \in reader)}
  <2>1. ASSUME NEW id \in Fold(db.events, log)
        PROVE  /\ T!Bucket(log[id].at) \in T!Dated(since, until) <=> log[id].at >= since /\ log[id].at < until
               /\ log[id].at >= since /\ log[id].at < until => log[id].ended < until
    BY <1>0, <1>1, FoldedDated
  <2> QED BY <2>1
<1>4. T!Asked(since, until) = {id \in T!Events : log[id].at >= since /\ log[id].at < until}
  BY <1>1, KeptOrFolded DEF T!Asked
<1>5. ASSUME NEW id \in T!Asked(since, until)
      PROVE  /\ id \in ends \/ id \in running <=> log[id].ended = T!Open \/ log[id].ended < until \/ log[id].owner \in reader
             /\ ~(id \in ends /\ id \in running)
  <2>1. log[id] = db.events[id]
    BY <1>1, <1>4, KeptOrFolded
  <2> QED BY <2>1 DEF T!Ended
<1>6. had = (ends \cup running) \cup olds
  <2>1. had = {id \in T!Asked(since, until) : log[id].ended = T!Open \/ log[id].ended < until \/ log[id].owner \in reader} \cup olds
    BY <1>1, <1>3, <1>4, KeptOrFolded
  <2> QED BY <1>5, <2>1
<1>7. ends \cap running = {} /\ (ends \cup running) \cap olds = {}
  <2>1. T!Asked(since, until) \cap Fold(db.events, log) = {}
    BY <1>1, <1>4, KeptOrFolded
  <2> QED BY <1>5, <2>1
<1>8. IsFiniteSet(ends) /\ IsFiniteSet(running) /\ IsFiniteSet(olds)
  <2>1. ends \in SUBSET T!Ids /\ running \in SUBSET T!Ids /\ olds \in SUBSET T!Ids
    BY <1>1, <1>4, KeptOrFolded
  <2> QED BY <2>1, CallsAreFinite
<1>9. Cardinality(had) = Cardinality(ends) + Cardinality(running) + Cardinality(olds)
  <2> HIDE DEF had, ends, running, olds
  <2>1. Cardinality(ends \cup running) = Cardinality(ends) + Cardinality(running) /\ IsFiniteSet(ends \cup running)
    BY <1>7, <1>8, CardApart
  <2>2. Cardinality((ends \cup running) \cup olds) = Cardinality(ends \cup running) + Cardinality(olds)
    BY <1>7, <1>8, <2>1, CardApart
  <2> QED BY <1>6, <2>1, <2>2
<1>10. T!Requests(since, until) = Cardinality(ends) + Cardinality(olds) /\ T!ActiveRequests(since, until) = Cardinality(running)
  BY <1>1, <1>2, RolledIs, SameCount DEF T!Requests, T!ActiveRequests
<1>11. Cardinality(ends) \in Nat /\ Cardinality(running) \in Nat /\ Cardinality(olds) \in Nat
  BY <1>8, FS_CardinalityType
<1>12. T!Requests(since, until) + T!ActiveRequests(since, until) = Cardinality(had)
  <2> HIDE DEF had, ends, running, olds
  <2> QED BY <1>9, <1>10, <1>11
<1>13. had = {id \in {id \in T!Kept : log[id].at >= since /\ log[id].at < until} : log[id].ended = T!Open \/ log[id].ended < until \/ log[id].owner \in reader}
  OBVIOUS
<1> QED BY <1>12, <1>13

LEMMA AnswersHold ==
  ASSUME StatsTypes, Counted(db.events, log, db.rolls)
  PROVE  T!AnswersAreTrue
  BY ReadIsTrue, ContextIsTrue, SameCount DEF T!AnswersAreTrue

\* Maintenance: the largest of a finite set, a row recovered, a row folded.
LEMMA LatestIs ==
  ASSUME NEW n \in Nat, NEW X, X \subseteq 0..n, X # {}
  PROVE  T!Max(X) \in X /\ \A y \in X : y <= T!Max(X)
<1>1. PICK N : N = {n - x : x \in X}
  OBVIOUS
<1>2. N \subseteq Nat /\ N # {}
  <2>1. ASSUME NEW x \in X PROVE n - x \in Nat
    <3>1. x \in 0..n
      OBVIOUS
    <3> QED BY <3>1
  <2> QED BY <1>1, <2>1
<1>3. PICK m \in N : \A k \in N : m <= k
  BY <1>2, FirstNumber
<1>4. PICK x \in X : m = n - x
  BY <1>1, <1>3
<1>5. ASSUME NEW y \in X PROVE x >= y
  <2>1. n - y \in N
    BY <1>1
  <2>2. m <= n - y
    BY <1>3, <2>1
  <2>3. x \in Int /\ y \in Int
    BY <1>4, <1>5
  <2> QED BY <1>4, <2>2, <2>3
<1>6. \E z \in X : \A y \in X : z >= y
  BY <1>5
<1>7. T!Max(X) \in X /\ \A y \in X : T!Max(X) >= y
  BY <1>6, Zenon DEF T!Max
<1>8. X \subseteq Int
  OBVIOUS
<1> QED BY <1>7, <1>8

\* A row that is written down, its call not yet folded, leaves the days as they were.
WithRow(e, id, rw) == [e EXCEPT ![id] = rw]
LEMMA RowWritten ==
  ASSUME NEW e \in Calls, NEW l \in Calls, NEW r, Counted(e, l, r), NEW id \in T!Ids, NEW rw \in T!Rows,
         rw.outcome # "none" => rw.ended # T!Open, e[id] # None \/ l[id] = None
  PROVE  Counted(WithRow(e, id, rw), WithRow(l, id, rw), r)
<1>1. PICK f : f = WithRow(e, id, rw)
  OBVIOUS
<1>2. PICK k : k = WithRow(l, id, rw)
  OBVIOUS
<1>3. f[id] = rw /\ k[id] = rw /\ \A x \in T!Ids \ {id} : f[x] = e[x] /\ k[x] = l[x]
  BY <1>1, <1>2 DEF Calls, WithRow
<1>4. Mirrored(f, k)
  BY <1>3 DEF Mirrored, Counted
<1>5. Fold(f, k) = Fold(e, l) /\ id \notin Fold(e, l)
  BY <1>3, NoneAssumption DEF Fold
<1>6. ASSUME NEW b PROVE FoldIn(f, k, b) = FoldIn(e, l, b) /\ FoldOk(f, k, b) = FoldOk(e, l, b)
  <2>1. \A x \in Fold(e, l) : k[x] = l[x]
    BY <1>3, <1>5 DEF Fold
  <2> QED BY <1>5, <2>1 DEF FoldIn, FoldOk
<1>7. Summed(f, k, r)
  <2>1. ASSUME NEW b \in T!Buckets, NEW x \in FoldIn(e, l, b) PROVE k[x] = l[x]
    BY <1>3, <1>5 DEF FoldIn, Fold
  <2> QED BY <1>6, <2>1 DEF Summed, Counted
<1> QED BY <1>1, <1>2, <1>4, <1>7 DEF Counted

EndedAs(rw, how) == [rw EXCEPT !.ended = clock, !.outcome = how]
LEMMA RowEnds ==
  ASSUME NEW rw \in T!Rows, clock \in 0..MaxStatsNow, NEW how \in {"ok", "fail", "cut"}, NEW q, q = EndedAs(rw, how)
  PROVE  q \in T!Rows /\ q.at = rw.at /\ q.owner = rw.owner /\ q.ended = clock /\ q.outcome = how /\ q.ended # T!Open
<1>1. q.at = rw.at /\ q.owner = rw.owner /\ q.ended = clock /\ q.outcome = how
  BY DEF T!Rows, EndedAs
<1>2. q = [at |-> q.at, owner |-> q.owner, ended |-> q.ended, outcome |-> q.outcome]
  BY DEF T!Rows, EndedAs
<1>3. rw.at \in 0..MaxStatsNow /\ rw.owner \in Nat
  BY DEF T!Rows
<1>4. q \in T!Rows
  BY <1>1, <1>2, <1>3 DEF T!Rows
<1> QED BY <1>1, <1>4 DEF T!Open

\* What recovery leaves: the rows of the dead are closed, and their owners are gone.
LEMMA RecoveredIs ==
  ASSUME NEW d \in Filed, clock \in 0..MaxStatsNow, NEW c, c = T!Recovered(d)
  PROVE  /\ c \in Filed /\ c.rolls = d.rolls /\ c.owners \subseteq d.owners
         /\ \A id \in T!Ids : IF T!Interrupted(d, d.events[id]) THEN c.events[id] = [d.events[id] EXCEPT !.ended = clock, !.outcome = "cut"]
                                                                ELSE c.events[id] = d.events[id]
<1>1. PICK e : e = [id \in T!Ids |-> IF T!Interrupted(d, d.events[id]) THEN [d.events[id] EXCEPT !.ended = clock, !.outcome = "cut"] ELSE d.events[id]]
  OBVIOUS
<1>2. PICK n : n = d.recovered + Cardinality({id \in T!Ids : T!Interrupted(d, d.events[id])})
  OBVIOUS
<1>3. c = [d EXCEPT !.owners = d.owners \ T!Recoverable(d), !.events = e, !.recovered = n]
  BY <1>1, <1>2, SameCount DEF T!Recovered, Filed
<1>4. /\ d.owners \in SUBSET Nat /\ d.events \in Calls /\ d.rolls \in [T!Buckets -> Tally] /\ d.dropped \in Int /\ d.recovered \in Int
      /\ c = [owners |-> d.owners \ T!Recoverable(d), events |-> e, rolls |-> d.rolls, dropped |-> d.dropped, recovered |-> n]
  BY <1>3 DEF Filed
<1>5. e \in Calls
  <2>1. ASSUME NEW id \in T!Ids PROVE e[id] \in T!Rows \cup {None}
    <3>1. d.events[id] \in T!Rows \cup {None}
      BY <1>4 DEF Calls
    <3>2. CASE T!Interrupted(d, d.events[id])
      <4>1. d.events[id] \in T!Rows
        BY <3>1, <3>2 DEF T!Interrupted
      <4>2. e[id] = EndedAs(d.events[id], "cut")
        BY <1>1, <3>2 DEF EndedAs
      <4> QED BY <4>1, <4>2, RowEnds
    <3>3. CASE ~T!Interrupted(d, d.events[id])
      BY <1>1, <3>1, <3>3
    <3> QED BY <3>2, <3>3
  <2> QED BY <1>1, <2>1 DEF Calls
<1>6. n \in Int
  <2>1. Cardinality({id \in T!Ids : T!Interrupted(d, d.events[id])}) \in Nat
    BY CallsAreFinite
  <2> QED BY <1>2, <1>4, <2>1
<1>7. c \in Filed
  BY <1>4, <1>5, <1>6 DEF Filed
<1>8. ASSUME NEW id \in T!Ids
      PROVE  IF T!Interrupted(d, d.events[id]) THEN c.events[id] = [d.events[id] EXCEPT !.ended = clock, !.outcome = "cut"]
                                               ELSE c.events[id] = d.events[id]
  <2>1. c.events = e
    BY <1>4
  <2> QED BY <1>1, <2>1
<1>9. c.rolls = d.rolls /\ c.owners \subseteq d.owners
  BY <1>4
<1> QED BY <1>7, <1>8, <1>9

\* The calls of a day that are folded and went well.
OkIn(d, b) == {id \in T!OldIn(d, b) : d.events[id].outcome = "ok"}
\* What folding leaves: the rows of the days that are over are counted, and gone.
LEMMA FoldedIs ==
  ASSUME NEW d \in Filed, NEW c, c = T!Folded(d)
  PROVE  /\ c \in Filed /\ c.owners = d.owners
         /\ \A id \in T!Ids : c.events[id] = IF T!Old(d.events[id]) THEN None ELSE d.events[id]
         /\ \A b \in T!Buckets :
              /\ c.rolls[b].calls = d.rolls[b].calls + Cardinality(T!OldIn(d, b))
              /\ c.rolls[b].ok = d.rolls[b].ok + Cardinality(OkIn(d, b))
              /\ d.rolls[b].maxEnded <= c.rolls[b].maxEnded
              /\ \A id \in T!OldIn(d, b) : d.events[id].ended <= c.rolls[b].maxEnded
<1> DEFINE Ends(b) == {d.rolls[b].maxEnded} \cup {d.events[id].ended : id \in T!OldIn(d, b)}
           Added(b) == [calls |-> d.rolls[b].calls + Cardinality(T!OldIn(d, b)),
                       ok |-> d.rolls[b].ok + Cardinality(OkIn(d, b)),
                       maxEnded |-> T!Max(Ends(b))]
<1>1. PICK e : e = [id \in T!Ids |-> IF T!Old(d.events[id]) THEN None ELSE d.events[id]]
  OBVIOUS
<1>2. PICK r : r = [b \in T!Buckets |-> Added(b)]
  OBVIOUS
<1>3. c = [d EXCEPT !.rolls = r, !.events = e]
  BY <1>1, <1>2, SameCount DEF T!Folded, Filed, OkIn
<1>4. /\ d.owners \in SUBSET Nat /\ d.events \in Calls /\ d.rolls \in [T!Buckets -> Tally] /\ d.dropped \in Int /\ d.recovered \in Int
      /\ c = [owners |-> d.owners, events |-> e, rolls |-> r, dropped |-> d.dropped, recovered |-> d.recovered]
  BY <1>3 DEF Filed
<1>5. e \in Calls
  BY <1>1, <1>4 DEF Calls
<1>6. ASSUME NEW b \in T!Buckets
      PROVE  /\ Added(b) \in Tally /\ d.rolls[b].maxEnded <= T!Max(Ends(b))
             /\ \A id \in T!OldIn(d, b) : d.events[id].ended <= T!Max(Ends(b))
  <2>1. d.rolls[b] \in Tally
    BY <1>4
  <2>2. d.rolls[b].calls \in Nat /\ d.rolls[b].ok \in Nat /\ d.rolls[b].maxEnded \in 0..MaxStatsNow
    BY <2>1 DEF Tally
  <2>3. ASSUME NEW id \in T!OldIn(d, b) PROVE d.events[id].ended \in 0..MaxStatsNow
    <3>1. id \in T!Ids /\ d.events[id] # None /\ d.events[id].ended # T!Open
      BY DEF T!OldIn, T!Old
    <3>2. d.events[id] \in T!Rows
      BY <1>4, <3>1 DEF Calls
    <3> QED BY <3>1, <3>2 DEF T!Rows
  <2>4. Ends(b) \subseteq 0..MaxStatsNow /\ Ends(b) # {}
    BY <2>2, <2>3
  <2>5. T!Max(Ends(b)) \in Ends(b) /\ \A y \in Ends(b) : y <= T!Max(Ends(b))
    <3> HIDE DEF Ends
    <3> QED BY <2>4, LatestIs, StatsAssumption
  <2>6. T!OldIn(d, b) \in SUBSET T!Ids
    BY DEF T!OldIn
  <2>7. Cardinality(T!OldIn(d, b)) \in Nat /\ Cardinality(OkIn(d, b)) \in Nat
    BY <2>6, CallsAreFinite DEF OkIn
  <2>8. Added(b) \in Tally
    <3>1. T!Max(Ends(b)) \in 0..MaxStatsNow
      BY <2>4, <2>5
    <3> HIDE DEF Ends
    <3> QED BY <2>2, <2>7, <3>1 DEF Tally
  <2> QED BY <2>5, <2>8
<1>7. r \in [T!Buckets -> Tally]
  <2> HIDE DEF Added
  <2> QED BY <1>2, <1>6
<1>8. c \in Filed
  BY <1>4, <1>5, <1>7 DEF Filed
<1>9. ASSUME NEW b \in T!Buckets
      PROVE  /\ c.rolls[b].calls = d.rolls[b].calls + Cardinality(T!OldIn(d, b))
             /\ c.rolls[b].ok = d.rolls[b].ok + Cardinality(OkIn(d, b))
             /\ c.rolls[b].maxEnded = T!Max(Ends(b))
  <2>1. c.rolls[b] = Added(b)
    BY <1>2, <1>4
  <2> HIDE DEF Ends
  <2> QED BY <2>1
<1>10. \A id \in T!Ids : c.events[id] = IF T!Old(d.events[id]) THEN None ELSE d.events[id]
  BY <1>1, <1>4
<1>11. c.owners = d.owners
  BY <1>4
<1>12. ASSUME NEW b \in T!Buckets
       PROVE  d.rolls[b].maxEnded <= c.rolls[b].maxEnded /\ \A id \in T!OldIn(d, b) : d.events[id].ended <= c.rolls[b].maxEnded
  <2> HIDE DEF Ends, Added
  <2> QED BY <1>6, <1>9
<1> HIDE DEF Ends, Added
<1> QED BY <1>8, <1>9, <1>10, <1>11, <1>12

\* What maintenance does to a row: it goes, is cut, or stays.
LEMMA RowKept ==
  ASSUME NEW d \in Filed, clock \in 0..MaxStatsNow, NEW m, m = T!Recovered(d), NEW c, c = T!Compacted(d), NEW id \in T!Ids
  PROVE  /\ m.events[id] = None <=> d.events[id] = None
         /\ c.events[id] = IF T!Old(m.events[id]) THEN None ELSE m.events[id]
         /\ d.events[id] # None =>
              /\ m.events[id] \in T!Rows /\ m.events[id].at = d.events[id].at /\ m.events[id].owner = d.events[id].owner
              /\ \/ m.events[id] = d.events[id] /\ ~T!Interrupted(d, d.events[id])
                 \/ /\ T!Interrupted(d, d.events[id]) /\ d.events[id].ended = T!Open
                    /\ m.events[id].ended \in Nat /\ m.events[id].ended # T!Open /\ m.events[id].outcome = "cut"
<1>1. /\ m \in Filed
      /\ IF T!Interrupted(d, d.events[id]) THEN m.events[id] = [d.events[id] EXCEPT !.ended = clock, !.outcome = "cut"]
                                           ELSE m.events[id] = d.events[id]
  BY RecoveredIs
<1>2. c = T!Folded(m)
  BY DEF T!Compacted
<1>3. c.events[id] = IF T!Old(m.events[id]) THEN None ELSE m.events[id]
  BY <1>1, <1>2, FoldedIs
<1>4. d.events[id] \in T!Rows \cup {None} /\ m.events[id] \in T!Rows \cup {None}
  BY <1>1 DEF Filed, Calls
<1>5. CASE T!Interrupted(d, d.events[id])
  <2>1. d.events[id] # None /\ d.events[id].ended = T!Open /\ d.events[id] \in T!Rows
    BY <1>4, <1>5 DEF T!Interrupted
  <2>2. m.events[id] = [d.events[id] EXCEPT !.ended = clock, !.outcome = "cut"]
    BY <1>1, <1>5
  <2>3. m.events[id] = EndedAs(d.events[id], "cut")
    BY <2>2 DEF EndedAs
  <2>4. /\ m.events[id] \in T!Rows /\ m.events[id].at = d.events[id].at /\ m.events[id].owner = d.events[id].owner
        /\ m.events[id].ended = clock /\ m.events[id].outcome = "cut" /\ m.events[id].ended # T!Open
    BY <2>1, <2>3, RowEnds
  <2> QED BY <1>3, <1>5, <2>1, <2>4, NoneAssumption
<1>6. CASE ~T!Interrupted(d, d.events[id])
  BY <1>1, <1>3, <1>4, <1>6
<1> QED BY <1>5, <1>6

\* Maintenance folds calls into their days, and forgets none.
LEMMA CompactedCounts ==
  ASSUME NEW d \in Filed, clock \in 0..MaxStatsNow, log \in Calls, Counted(d.events, log, d.rolls), NEW c, c = T!Compacted(d),
         NEW k, k = T!Logged(c)
  PROVE  c \in Filed /\ c.owners \subseteq d.owners /\ k \in Calls /\ Counted(c.events, k, c.rolls)
<1>0. PICK m : m = T!Recovered(d)
  OBVIOUS
<1>1. m \in Filed /\ m.rolls = d.rolls /\ m.owners \subseteq d.owners
  BY <1>0, RecoveredIs
<1>2. c = T!Folded(m)
  BY <1>0 DEF T!Compacted
<1>3. c \in Filed /\ c.owners = m.owners
  BY <1>1, <1>2, FoldedIs
<1>4. \A b \in T!Buckets :
        /\ c.rolls[b].calls = d.rolls[b].calls + Cardinality(T!OldIn(m, b))
        /\ c.rolls[b].ok = d.rolls[b].ok + Cardinality(OkIn(m, b))
        /\ d.rolls[b].maxEnded <= c.rolls[b].maxEnded
        /\ \A id \in T!OldIn(m, b) : m.events[id].ended <= c.rolls[b].maxEnded
  BY <1>1, <1>2, FoldedIs
<1>5. \A id \in T!Ids : k[id] = IF c.events[id] # None THEN c.events[id] ELSE log[id]
  BY DEF T!Logged
<1>6. k \in Calls
  <2>1. c.events \in Calls
    BY <1>3 DEF Filed
  <2>2. k = [id \in T!Ids |-> IF c.events[id] # None THEN c.events[id] ELSE log[id]]
    BY DEF T!Logged
  <2> QED BY <2>1, <2>2 DEF Calls
<1>7. ASSUME NEW id \in T!Ids, d.events[id] # None
      PROVE  /\ log[id] = d.events[id] /\ log[id] # None /\ m.events[id].at = log[id].at /\ m.events[id] # None
             /\ m.events[id].outcome = "ok" <=> log[id].outcome = "ok"
             /\ m.events[id].outcome # "none" => m.events[id].ended # T!Open
             /\ log[id].ended <= m.events[id].ended
             /\ log[id].ended \in Int /\ m.events[id].ended \in Int
  <2>1. log[id] = d.events[id] /\ (log[id].outcome # "none" => log[id].ended # T!Open)
    BY <1>7 DEF Counted, Mirrored
  <2>2. /\ m.events[id] # None
        /\ m.events[id].at = d.events[id].at
        /\ \/ m.events[id] = d.events[id]
           \/ d.events[id].ended = T!Open /\ m.events[id].ended \in Nat /\ m.events[id].outcome = "cut"
    BY <1>0, <1>7, RowKept
  <2>3. log[id] \in T!Rows
    BY <1>7, <2>1 DEF Calls
  <2>4. log[id].ended \in Int
    BY <2>3, StatsAssumption DEF T!Rows, T!Open
  <2> QED BY <1>7, <2>1, <2>2, <2>4 DEF T!Open
<1>8. \A id \in T!Ids : (m.events[id] = None <=> d.events[id] = None) /\ c.events[id] = IF T!Old(m.events[id]) THEN None ELSE m.events[id]
  BY <1>0, RowKept
<1>9. Mirrored(c.events, k)
  <2>1. ASSUME NEW id \in T!Ids, k[id] # None, k[id].outcome # "none" PROVE k[id].ended # T!Open
    <3>1. CASE c.events[id] # None
      BY <1>5, <1>7, <1>8, <2>1, <3>1
    <3>2. CASE c.events[id] = None
      BY <1>5, <2>1, <3>2 DEF Counted, Mirrored
    <3> QED BY <3>1, <3>2
  <2> QED BY <1>5, <2>1 DEF Mirrored
<1> DEFINE old == {id \in T!Ids : T!Old(m.events[id])}
<1>10. /\ Fold(c.events, k) = Fold(d.events, log) \cup old /\ Fold(d.events, log) \cap old = {}
       /\ \A id \in Fold(c.events, k) : k[id] = log[id]
  <2>1. \A id \in Fold(c.events, k) : k[id] = log[id]
    BY <1>5 DEF Fold
  <2>2. ASSUME NEW id \in T!Ids PROVE id \in Fold(c.events, k) <=> id \in Fold(d.events, log) \/ id \in old
    <3>1. id \in old => d.events[id] # None /\ log[id] # None
      BY <1>7, <1>8 DEF T!Old
    <3>2. c.events[id] = None <=> d.events[id] = None \/ id \in old
      BY <1>8
    <3> QED BY <1>5, <1>7, <3>1, <3>2 DEF Fold
  <2>3. ASSUME NEW id \in old PROVE id \notin Fold(d.events, log)
    BY <1>8 DEF Fold, T!Old
  <2> QED BY <2>1, <2>2, <2>3 DEF Fold
<1>11. \A id \in old : d.events[id] # None /\ id \in T!Ids
  BY <1>8 DEF T!Old
<1>12. ASSUME NEW b
       PROVE  /\ FoldIn(c.events, k, b) = FoldIn(d.events, log, b) \cup T!OldIn(m, b) /\ FoldIn(d.events, log, b) \cap T!OldIn(m, b) = {}
              /\ FoldOk(c.events, k, b) = FoldOk(d.events, log, b) \cup OkIn(m, b) /\ FoldOk(d.events, log, b) \cap OkIn(m, b) = {}
              /\ \A id \in T!OldIn(m, b) : id \in old
              /\ \A id \in FoldIn(c.events, k, b) : k[id] = log[id]
  <2>1. T!OldIn(m, b) = {id \in old : T!Bucket(log[id].at) = b}
    BY <1>7, <1>11 DEF T!OldIn
  <2>2. OkIn(m, b) = {id \in old : T!Bucket(log[id].at) = b /\ log[id].outcome = "ok"}
    BY <1>7, <1>11, <2>1 DEF OkIn
  <2>3. FoldIn(c.events, k, b) = {id \in Fold(c.events, k) : T!Bucket(log[id].at) = b}
    BY <1>10 DEF FoldIn
  <2>4. FoldOk(c.events, k, b) = {id \in Fold(c.events, k) : T!Bucket(log[id].at) = b /\ log[id].outcome = "ok"}
    BY <1>10, <2>3 DEF FoldOk
  <2> HIDE DEF old
  <2>5. FoldOk(d.events, log, b) = {id \in Fold(d.events, log) : T!Bucket(log[id].at) = b /\ log[id].outcome = "ok"}
    BY DEF FoldOk, FoldIn
  <2>6. FoldIn(d.events, log, b) = {id \in Fold(d.events, log) : T!Bucket(log[id].at) = b}
    BY DEF FoldIn
  <2>7. FoldIn(c.events, k, b) = FoldIn(d.events, log, b) \cup T!OldIn(m, b) /\ FoldIn(d.events, log, b) \cap T!OldIn(m, b) = {}
    BY <1>10, <2>1, <2>3, <2>6
  <2>8. FoldOk(c.events, k, b) = FoldOk(d.events, log, b) \cup OkIn(m, b) /\ FoldOk(d.events, log, b) \cap OkIn(m, b) = {}
    BY <1>10, <2>2, <2>4, <2>5
  <2> QED BY <1>10, <2>1, <2>3, <2>7, <2>8
<1>13. ASSUME NEW b \in T!Buckets
       PROVE  /\ c.rolls[b].calls = Cardinality(FoldIn(c.events, k, b)) /\ c.rolls[b].ok = Cardinality(FoldOk(c.events, k, b))
              /\ \A id \in FoldIn(c.events, k, b) : k[id].ended <= c.rolls[b].maxEnded
  <2>1. /\ IsFiniteSet(FoldIn(d.events, log, b)) /\ IsFiniteSet(T!OldIn(m, b))
        /\ IsFiniteSet(FoldOk(d.events, log, b)) /\ IsFiniteSet(OkIn(m, b))
    <3>1. /\ FoldIn(d.events, log, b) \in SUBSET T!Ids /\ T!OldIn(m, b) \in SUBSET T!Ids
          /\ FoldOk(d.events, log, b) \in SUBSET T!Ids /\ OkIn(m, b) \in SUBSET T!Ids
      BY DEF FoldIn, FoldOk, Fold, T!OldIn, OkIn
    <3> QED BY <3>1, CallsAreFinite
  <2>2. Cardinality(FoldIn(c.events, k, b)) = Cardinality(FoldIn(d.events, log, b)) + Cardinality(T!OldIn(m, b))
    BY <1>12, <2>1, CardApart
  <2>3. Cardinality(FoldOk(c.events, k, b)) = Cardinality(FoldOk(d.events, log, b)) + Cardinality(OkIn(m, b))
    BY <1>12, <2>1, CardApart
  <2>4. d.rolls[b].calls = Cardinality(FoldIn(d.events, log, b)) /\ d.rolls[b].ok = Cardinality(FoldOk(d.events, log, b))
    BY DEF Counted, Summed
  <2>5. c.rolls[b].calls = d.rolls[b].calls + Cardinality(T!OldIn(m, b)) /\ c.rolls[b].ok = d.rolls[b].ok + Cardinality(OkIn(m, b))
    BY <1>4
  <2>6. ASSUME NEW id \in FoldIn(c.events, k, b) PROVE k[id].ended <= c.rolls[b].maxEnded
    <3>1. k[id] = log[id] /\ id \in T!Ids
      BY <1>12, <2>6 DEF FoldIn, Fold
    <3>2. c.rolls[b].maxEnded \in Int /\ d.rolls[b].maxEnded \in Int
      <4>1. c.rolls[b] \in Tally /\ d.rolls[b] \in Tally
        BY <1>3 DEF Filed
      <4> QED BY <4>1, StatsAssumption DEF Tally
    <3>5. d.rolls[b].maxEnded <= c.rolls[b].maxEnded /\ \A x \in T!OldIn(m, b) : m.events[x].ended <= c.rolls[b].maxEnded
      BY <1>4
    <3>3. CASE id \in FoldIn(d.events, log, b)
      <4>1. log[id].ended <= d.rolls[b].maxEnded
        BY <3>3 DEF Counted, Summed
      <4>2. log[id] \in T!Rows
        BY <3>1, <3>3 DEF FoldIn, Fold, Calls
      <4>3. log[id].ended \in Int
        BY <4>2, StatsAssumption DEF T!Rows, T!Open
      <4> QED BY <3>1, <3>2, <3>5, <4>1, <4>3
    <3>4. CASE id \in T!OldIn(m, b)
      <4>1. log[id].ended <= m.events[id].ended /\ log[id].ended \in Int /\ m.events[id].ended \in Int
        BY <1>7, <1>11, <1>12, <3>4
      <4> QED BY <3>1, <3>2, <3>4, <3>5, <4>1
    <3> QED BY <1>12, <2>6, <3>3, <3>4
  <2> QED BY <2>2, <2>3, <2>4, <2>5, <2>6
<1>14. Counted(c.events, k, c.rolls)
  BY <1>9, <1>13 DEF Counted, Summed
<1> QED BY <1>1, <1>3, <1>6, <1>14

\* A walk: its failures, what each page takes, and what may happen meanwhile.
LEMMA FailuresAre ==
  ASSUME NEW x, NEW until
  PROVE  x \in T!Failures(until) <=> x \in T!Ids /\ Failed(db.events, until, x)
  BY DEF T!Failures, T!Events, Failed

\* A walk stays on its way while rows only go, or are closed by their calls.
LEMMA WalkGoesOn ==
  ASSUME NEW w, NEW e, NEW cs, NEW g \in Nat, NEW t \in Nat, WalkOn(w, e, cs, g, t), NEW f, NEW ds, NEW h \in Nat, NEW u \in Nat, g <= h, t <= u,
         \A x \in T!Ids : x <= g =>
           /\ cs[x] = None => ds[x] = None
           /\ e[x] = None => f[x] = None
           /\ f[x] # None => /\ f[x].at = e[x].at
                             /\ f[x] = e[x] \/ e[x].ended = T!Open \/ (cs[x] # None /\ ds[x] = None /\ f[x].ended # T!Open)
  PROVE  WalkOn(w, f, ds, h, u)
<1>1. w \in [until : 0..t, at : Int, id : Int, seen : SUBSET T!Ids, due : SUBSET T!Ids, more : BOOLEAN]
  BY DEF WalkOn
<1>2. w \in [until : 0..u, at : Int, id : Int, seen : SUBSET T!Ids, due : SUBSET T!Ids, more : BOOLEAN]
  <2>1. 0..t \subseteq 0..u
    OBVIOUS
  <2> QED BY <1>1, <2>1
<1>3. ASSUME NEW x \in w.due
      PROVE  /\ x <= h /\ x <= g /\ x \in T!Ids /\ x \in Int
             /\ f[x] # None => /\ f[x].ended # T!Open
                               /\ Failed(f, w.until, x) \/ ds[x] = None
                               /\ Failed(f, w.until, x) => Failed(e, w.until, x) /\ f[x].at = e[x].at
  <2>1. x \in T!Ids /\ x \in Int
    BY <1>1 DEF T!Ids
  <2>2. x <= g
    BY DEF WalkOn
  <2>3. x <= h
    BY <2>1, <2>2
  <2>4. ASSUME f[x] # None
        PROVE  /\ f[x].ended # T!Open
               /\ Failed(f, w.until, x) \/ ds[x] = None
               /\ Failed(f, w.until, x) => Failed(e, w.until, x) /\ f[x].at = e[x].at
    <3>1. e[x] # None
      BY <2>1, <2>2, <2>4
    <3>2. e[x].ended # T!Open /\ (Failed(e, w.until, x) \/ cs[x] = None)
      BY <3>1 DEF WalkOn
    <3>3. CASE f[x] = e[x]
      BY <2>1, <2>2, <3>2, <3>3 DEF Failed
    <3>4. CASE cs[x] # None /\ ds[x] = None /\ f[x].ended # T!Open
      BY <2>1, <2>2, <2>4, <3>2, <3>4
    <3> QED BY <2>1, <2>2, <2>4, <3>2, <3>3, <3>4
  <2> QED BY <2>1, <2>2, <2>3, <2>4
<1>4. ASSUME NEW x \in w.due, f[x] # None, Failed(f, w.until, x) PROVE x \in w.seen \/ Behind(f, x, w.at, w.id)
  <2>1. Failed(e, w.until, x) /\ f[x].at = e[x].at
    BY <1>3, <1>4
  <2>2. x \in w.seen \/ Behind(e, x, w.at, w.id)
    BY <2>1 DEF WalkOn, Failed
  <2> QED BY <2>1, <2>2 DEF Behind
<1>5. ASSUME ~w.more, NEW x \in w.due, Failed(f, w.until, x) PROVE x \in w.seen
  <2>1. Failed(e, w.until, x)
    BY <1>3, <1>5 DEF Failed
  <2> QED BY <1>5, <2>1 DEF WalkOn
<1> QED BY <1>2, <1>3, <1>4, <1>5 DEF WalkOn

\* Of the failures that are left there is one that all others lie behind.
LEMMA NextIs ==
  ASSUME NEW e \in Calls, NEW left \in SUBSET T!Ids, left # {}, \A y \in left : e[y] # None
  PROVE  \E x \in left : \A y \in left \ {x} : Behind(e, y, e[x].at, x)
<1>1. ASSUME NEW y \in left PROVE e[y].at \in 0..MaxStatsNow /\ y \in 0..MaxCalls
  <2>1. e[y] \in T!Rows
    BY DEF Calls
  <2> QED BY <2>1, StatsAssumption DEF T!Rows, T!Ids
<1>2. PICK ats : ats = {e[y].at : y \in left}
  OBVIOUS
<1>3. ats \subseteq 0..MaxStatsNow /\ ats # {}
  BY <1>1, <1>2
<1>4. PICK m \in ats : \A y \in ats : y <= m
  BY <1>3, LatestIs, StatsAssumption
<1>5. PICK tops : tops = {y \in left : e[y].at = m}
  OBVIOUS
<1>6. tops \subseteq 0..MaxCalls /\ tops # {}
  BY <1>1, <1>2, <1>4, <1>5
<1>7. PICK x \in tops : \A y \in tops : y <= x
  BY <1>6, LatestIs, StatsAssumption
<1>8. x \in left /\ e[x].at = m
  BY <1>5, <1>7
<1>9. ASSUME NEW y \in left \ {x} PROVE Behind(e, y, e[x].at, x)
  <2>1. e[y].at <= m /\ e[y].at \in Int /\ m \in Int /\ x \in Int /\ y \in Int
    BY <1>1, <1>2, <1>3, <1>4, <1>8
  <2>2. e[y].at = m => y <= x
    BY <1>5, <1>7
  <2> QED BY <1>8, <2>1, <2>2 DEF Behind
<1> QED BY <1>8, <1>9

LEMMA PageTurns ==
  ASSUME StatsInv, T!NextPage
  PROVE  pager' # None => WalkOn(pager', db.events, calls, given, clock)
<1> DEFINE fresh == [until |-> clock, at |-> MaxStatsNow + 1, id |-> 0, seen |-> {}, due |-> T!Failures(clock), more |-> TRUE]
<1>0. StatsTypes /\ db.events \in Calls /\ clock \in Nat /\ given \in Nat
  BY StatsAssumption DEF StatsInv, StatsTypes, Filed
<1>1. WalkOn(fresh, db.events, calls, given, clock)
  <2>1. fresh \in [until : 0..clock, at : Int, id : Int, seen : SUBSET T!Ids, due : SUBSET T!Ids, more : BOOLEAN]
    <3>1. T!Failures(clock) \in SUBSET T!Ids
      BY FailuresAre
    <3>2. clock \in 0..clock /\ MaxStatsNow + 1 \in Int
      BY <1>0, StatsAssumption
    <3> QED BY <3>1, <3>2
  <2>2. ASSUME NEW x \in fresh.due
        PROVE  x <= given /\ db.events[x].ended # T!Open /\ Failed(db.events, clock, x) /\ Behind(db.events, x, MaxStatsNow + 1, 0)
    <3>1. x \in T!Ids /\ Failed(db.events, clock, x)
      BY FailuresAre
    <3>2. x <= given
      <4>1. x \in Int /\ given \in Int
        BY <1>0, <3>1 DEF T!Ids
      <4> QED BY <3>1, <4>1 DEF StatsInv, NotYet, Failed
    <3>3. log[x] = db.events[x] /\ db.events[x] # None
      BY <3>1 DEF StatsInv, Counted, Mirrored, Failed
    <3>4. db.events[x].ended # T!Open
      BY <3>1, <3>3 DEF StatsInv, Counted, Mirrored, Failed
    <3>5. db.events[x].at \in 0..MaxStatsNow
      BY <1>0, <3>1, <3>3, RowsRead
    <3>6. Behind(db.events, x, MaxStatsNow + 1, 0)
      BY <3>5, StatsAssumption DEF Behind
    <3> QED BY <3>1, <3>2, <3>4, <3>6
  <2>3. fresh.until = clock /\ fresh.at = MaxStatsNow + 1 /\ fresh.id = 0 /\ fresh.more = TRUE
    OBVIOUS
  <2> HIDE DEF fresh
  <2> QED BY <2>1, <2>2, <2>3 DEF WalkOn
<1>2. PICK w : w = IF pager = None THEN fresh ELSE pager
  OBVIOUS
<1>3. WalkOn(w, db.events, calls, given, clock)
  <2> HIDE DEF fresh
  <2> QED BY <1>1, <1>2 DEF StatsInv
<1>4. PICK left : left = {x \in T!Failures(w.until) : T!Before(x, w.at, w.id)}
  OBVIOUS
<1>5. IF left = {} THEN pager' = [w EXCEPT !.more = FALSE]
      ELSE LET x == CHOOSE x \in left : \A y \in left \ {x} : T!Before(y, db.events[x].at, x) IN
           pager' = [w EXCEPT !.at = db.events[x].at, !.id = x, !.seen = @ \cup {x}]
  BY <1>2, <1>4 DEF T!NextPage
<1>6. /\ w.until \in 0..clock /\ w.at \in Int /\ w.id \in Int /\ w.seen \in SUBSET T!Ids /\ w.due \in SUBSET T!Ids /\ w.more \in BOOLEAN
      /\ w = [until |-> w.until, at |-> w.at, id |-> w.id, seen |-> w.seen, due |-> w.due, more |-> w.more]
  BY <1>3 DEF WalkOn
<1>7. \A x : x \in left <=> x \in T!Ids /\ Failed(db.events, w.until, x) /\ Behind(db.events, x, w.at, w.id)
  BY <1>4, FailuresAre DEF T!Before, Behind
<1>8. CASE left = {}
  <2>1. PICK v : v = pager'
    OBVIOUS
  <2>2. v = [until |-> w.until, at |-> w.at, id |-> w.id, seen |-> w.seen, due |-> w.due, more |-> FALSE]
    BY <1>5, <1>6, <1>8, <2>1
  <2>3. v \in [until : 0..clock, at : Int, id : Int, seen : SUBSET T!Ids, due : SUBSET T!Ids, more : BOOLEAN]
    BY <1>6, <2>2
  <2>4. v.until = w.until /\ v.at = w.at /\ v.id = w.id /\ v.seen = w.seen /\ v.due = w.due
    BY <2>2
  <2>5. ASSUME NEW x \in v.due, Failed(db.events, v.until, x) PROVE x \in v.seen
    <3>1. x \in w.seen \/ Behind(db.events, x, w.at, w.id)
      BY <1>3, <2>4, <2>5 DEF WalkOn, Failed
    <3> QED BY <1>6, <1>7, <1>8, <2>4, <2>5, <3>1
  <2>6. WalkOn(v, db.events, calls, given, clock)
    BY <1>3, <2>3, <2>4, <2>5 DEF WalkOn
  <2> QED BY <2>1, <2>6
<1>9. CASE left # {}
  <2>1. PICK x : x = CHOOSE z \in left : \A y \in left \ {z} : T!Before(y, db.events[z].at, z)
    OBVIOUS
  <2>2. x \in left /\ \A y \in left \ {x} : Behind(db.events, y, db.events[x].at, x)
    <3>1. left \in SUBSET T!Ids /\ \A y \in left : db.events[y] # None
      BY <1>7 DEF Failed
    <3>2. \E z \in left : \A y \in left \ {z} : Behind(db.events, y, db.events[z].at, z)
      BY <1>0, <1>9, <3>1, NextIs
    <3>3. \E z \in left : \A y \in left \ {z} : T!Before(y, db.events[z].at, z)
      BY <3>2 DEF Behind, T!Before
    <3>4. x \in left /\ \A y \in left \ {x} : T!Before(y, db.events[x].at, x)
      BY <2>1, <3>3, Zenon
    <3> QED BY <3>4 DEF Behind, T!Before
  <2>3. PICK v : v = pager'
    OBVIOUS
  <2>4. v = [until |-> w.until, at |-> db.events[x].at, id |-> x, seen |-> w.seen \cup {x}, due |-> w.due, more |-> w.more]
    BY <1>5, <1>6, <1>9, <2>1, <2>3
  <2>5. x \in T!Ids /\ x \in Int /\ db.events[x].at \in Int
    <3>1. x \in T!Ids /\ db.events[x] # None
      BY <1>7, <2>2 DEF Failed
    <3>2. db.events[x] \in T!Rows
      BY <1>0, <3>1 DEF Calls
    <3> QED BY <3>1, <3>2, StatsAssumption DEF T!Rows, T!Ids
  <2>6. v \in [until : 0..clock, at : Int, id : Int, seen : SUBSET T!Ids, due : SUBSET T!Ids, more : BOOLEAN]
    BY <1>6, <2>4, <2>5
  <2>7. v.until = w.until /\ v.at = db.events[x].at /\ v.id = x /\ v.seen = w.seen \cup {x} /\ v.due = w.due /\ v.more = w.more
    BY <2>4
  <2>8. ASSUME NEW y \in v.due, Failed(db.events, v.until, y) PROVE y \in v.seen \/ Behind(db.events, y, v.at, v.id)
    <3>1. y \in w.seen \/ Behind(db.events, y, w.at, w.id)
      BY <1>3, <2>7, <2>8 DEF WalkOn, Failed
    <3>2. CASE Behind(db.events, y, w.at, w.id)
      <4>1. y \in left
        BY <1>6, <1>7, <2>7, <2>8, <3>2
      <4> QED BY <2>2, <2>7, <4>1
    <3> QED BY <2>7, <3>1, <3>2
  <2>9. WalkOn(v, db.events, calls, given, clock)
    <3>1. ~v.more => \A y \in v.due : Failed(db.events, v.until, y) => y \in v.seen
      BY <1>3, <2>7 DEF WalkOn
    <3> QED BY <1>3, <2>6, <2>7, <2>8, <3>1 DEF WalkOn
  <2> QED BY <2>3, <2>9
<1> QED BY <1>8, <1>9

\* How a step may change the processes: an owner is kept, given up, or new.
WritersMove ==
  /\ proc' \in [Procs -> Writer] /\ owned' \in Nat /\ owned <= owned'
  /\ \A p \in Procs :
       /\ proc'[p].owner <= owned' /\ (proc'[p].owner # 0 => proc'[p].up)
       /\ proc'[p].up /\ proc'[p].owner \in 1..owned => proc[p].up /\ proc[p].owner = proc'[p].owner
CallsMove ==
  /\ calls' \in [T!Ids -> Procs \cup {None}]
  /\ given' \in Nat /\ given <= given'
  /\ \A id \in T!Ids : calls'[id] # None => proc'[calls'[id]].up
  /\ \A id \in T!Ids : id <= given /\ calls[id] = None => calls'[id] = None
RowsMove ==
  /\ log' \in Calls /\ db' \in Filed /\ Counted(db'.events, log', db'.rolls)
  /\ db'.owners \subseteq 1..owned'
  /\ \A id \in T!Ids : db'.events[id] # None /\ db'.events[id].outcome = "cut" => DeadOwner(db'.events[id].owner)
  /\ \A id \in T!Ids : id > given' => db'.events[id] = None /\ log'[id] = None
  /\ \A id \in T!Ids : id <= given =>
       /\ db.events[id] = None => db'.events[id] = None
       /\ db'.events[id] # None =>
            /\ db'.events[id].at = db.events[id].at
            /\ \/ db'.events[id] = db.events[id] \/ db.events[id].ended = T!Open
               \/ calls[id] # None /\ calls'[id] = None /\ db'.events[id].ended # T!Open

LEMMA GoneStays == ASSUME StatsTypes, WritersMove, NEW o, DeadOwner(o) PROVE DeadOwner(o)'
<1>1. o \in 1..owned' /\ o \in 1..owned
  BY DEF DeadOwner, StatsTypes, WritersMove
<1>2. ASSUME NEW p \in Procs, proc'[p].up, proc'[p].owner = o PROVE FALSE
  BY <1>1, <1>2 DEF DeadOwner, T!Alive, WritersMove
<1> QED BY <1>1, <1>2 DEF DeadOwner, T!Alive

LEMMA StatsGoOn ==
  ASSUME StatsInv, clock' \in 0..MaxStatsNow, clock <= clock', WritersMove, CallsMove, RowsMove,
         reader' # None => \A o \in reader' : DeadOwner(o),
         pager' # None => WalkOn(pager', db.events, calls, given, clock)
  PROVE  StatsInv'
<1>1. StatsTypes'
  BY DEF StatsTypes, WritersMove, CallsMove, RowsMove
<1>2. StatsTypes
  BY DEF StatsInv
<1>3. OwnersOn'
  BY DEF OwnersOn, WritersMove, CallsMove, RowsMove
<1>4. Buried'
  <2>1. ASSUME NEW id \in T!Ids, db'.events[id] # None, db'.events[id].outcome = "cut" 
        PROVE  db'.events[id].owner \in 1..owned' /\ \A p \in Procs : ~(proc'[p].up /\ proc'[p].owner = db'.events[id].owner)
    <3>1. PICK o : o = db'.events[id].owner
      OBVIOUS
    <3>2. DeadOwner(o)
      BY <2>1, <3>1 DEF RowsMove
    <3>3. DeadOwner(o)'
      BY <1>2, <3>2, GoneStays
    <3> QED BY <3>1, <3>3 DEF DeadOwner, T!Alive
  <2>2. ASSUME reader' # None, NEW o \in reader' PROVE DeadOwner(o)'
    BY <1>2, <2>2, GoneStays
  <2> QED BY <2>1, <2>2 DEF Buried, DeadOwner, T!Alive
<1>5. NotYet'
  BY DEF NotYet, RowsMove
<1>6. ASSUME pager' # None PROVE WalkOn(pager', db'.events, calls', given', clock')
  <2>1. given \in Nat /\ clock \in Nat /\ given' \in Nat /\ clock' \in Nat
    BY <1>1, <1>2, StatsAssumption DEF StatsTypes
  <2>2. PICK e : e = db.events
    OBVIOUS
  <2>3. PICK f : f = db'.events
    OBVIOUS
  <2>4. WalkOn(pager', e, calls, given, clock)
    BY <1>6, <2>2
  <2>5. \A x \in T!Ids : x <= given =>
           /\ calls[x] = None => calls'[x] = None
           /\ e[x] = None => f[x] = None
           /\ f[x] # None => /\ f[x].at = e[x].at
                             /\ f[x] = e[x] \/ e[x].ended = T!Open \/ (calls[x] # None /\ calls'[x] = None /\ f[x].ended # T!Open)
    BY <2>2, <2>3 DEF CallsMove, RowsMove
  <2>6. WalkOn(pager', f, calls', given', clock')
    BY <2>1, <2>4, <2>5, WalkGoesOn DEF CallsMove
  <2> QED BY <2>3, <2>6
<1>7. Counted(db'.events, log', db'.rolls)
  BY DEF RowsMove
<1> QED BY <1>1, <1>3, <1>4, <1>5, <1>6, <1>7 DEF StatsInv

\* A writer's fields, and one writer among the others.
LEMMA WriterIs ==
  ASSUME NEW q \in Writer
  PROVE  /\ q.up \in BOOLEAN /\ q.owner \in Nat /\ q.dropped \in Int /\ q.due \in BOOLEAN
         /\ q = [up |-> q.up, owner |-> q.owner, dropped |-> q.dropped, due |-> q.due]
  BY DEF Writer

LEMMA OneWrites ==
  ASSUME StatsInv, owned' \in Nat, owned <= owned', NEW p \in Procs, NEW q \in Writer, proc' = [proc EXCEPT ![p] = q],
         q.owner <= owned', q.owner # 0 => q.up, q.up /\ q.owner \in 1..owned => proc[p].up /\ proc[p].owner = q.owner
  PROVE  WritersMove /\ proc'[p] = q /\ \A x \in Procs \ {p} : proc'[x] = proc[x]
<1>1. proc \in [Procs -> Writer] /\ owned \in Nat
  BY DEF StatsInv, StatsTypes
<1>2. proc' \in [Procs -> Writer] /\ proc'[p] = q /\ \A x \in Procs \ {p} : proc'[x] = proc[x]
  BY <1>1
<1>3. ASSUME NEW x \in Procs \ {p}
      PROVE  proc'[x].owner <= owned' /\ (proc'[x].owner # 0 => proc'[x].up)
  <2>1. proc[x].owner <= owned /\ (proc[x].owner # 0 => proc[x].up)
    BY DEF StatsInv, OwnersOn
  <2>2. proc[x].owner \in Nat
    BY <1>1, WriterIs
  <2> QED BY <1>1, <1>2, <2>1, <2>2
<1> QED BY <1>2, <1>3 DEF WritersMove

\* The processes rest, or the file and the calls do.
LEMMA WritersRest == ASSUME StatsInv, proc' = proc, owned' = owned PROVE WritersMove
<1>1. proc \in [Procs -> Writer] /\ owned \in Nat
  BY DEF StatsInv, StatsTypes
<1>2. \A p \in Procs : proc[p].owner <= owned /\ (proc[p].owner # 0 => proc[p].up)
  BY DEF StatsInv, OwnersOn
<1> QED BY <1>1, <1>2 DEF WritersMove
LEMMA CallsRest ==
  ASSUME StatsInv, calls' = calls, given' = given, \A p \in Procs : proc[p].up => proc'[p].up
  PROVE  CallsMove
<1>1. calls \in [T!Ids -> Procs \cup {None}] /\ given \in Nat
  BY DEF StatsInv, StatsTypes
<1>2. ASSUME NEW id \in T!Ids, calls[id] # None PROVE proc'[calls[id]].up
  <2>1. calls[id] \in Procs /\ proc[calls[id]].up
    BY <1>1, <1>2 DEF StatsInv, OwnersOn
  <2> QED BY <2>1
<1> QED BY <1>1, <1>2 DEF CallsMove
LEMMA RowsRest ==
  ASSUME StatsInv, db' = db, log' = log, owned' \in Nat, owned <= owned', given' \in Nat, given <= given'
  PROVE  RowsMove
<1>1. log \in Calls /\ db \in Filed /\ Counted(db.events, log, db.rolls) /\ owned \in Nat /\ given \in Nat
  BY DEF StatsInv, StatsTypes
<1>2. db.owners \subseteq 1..owned'
  <2>1. 1..owned \subseteq 1..owned'
    BY <1>1
  <2> QED BY <2>1 DEF StatsInv, OwnersOn
<1>3. \A id \in T!Ids : db.events[id] # None /\ db.events[id].outcome = "cut" => DeadOwner(db.events[id].owner)
  BY DEF StatsInv, Buried
<1>4. ASSUME NEW id \in T!Ids, id > given' PROVE db.events[id] = None /\ log[id] = None
  <2>1. id \in Int
    BY DEF T!Ids
  <2>2. id > given
    BY <1>1, <1>4, <2>1
  <2> QED BY <2>2 DEF StatsInv, NotYet
<1> QED BY <1>1, <1>2, <1>3, <1>4 DEF RowsMove

\* The steps, each by how it moves the processes, the calls and the rows.
LEMMA OpenedIs ==
  ASSUME StatsInv, NEW p \in Procs, T!Opens(p), NEW o, o = T!Opened(p)
  PROVE  o \in Nat /\ o >= 1 /\ owned' \in Nat /\ owned <= owned' /\ o <= owned' /\ (o <= owned => proc[p].owner = o)
<1>1. owned \in Nat /\ proc[p] \in Writer /\ proc[p].owner <= owned
  BY DEF StatsInv, StatsTypes, OwnersOn
<1>2. proc[p].owner \in Nat
  BY <1>1, WriterIs
<1>3. o \in Nat /\ o >= 1 /\ o <= owned + 1 /\ (o <= owned => proc[p].owner = o)
  BY <1>1, <1>2 DEF T!Opened
<1>4. PICK X : X = {owned, o}
  OBVIOUS
<1>5. X \subseteq 0..(owned + 1) /\ X # {} /\ owned + 1 \in Nat
  BY <1>1, <1>3, <1>4
<1>6. T!Max(X) \in X /\ \A y \in X : y <= T!Max(X)
  BY <1>5, LatestIs
<1>7. owned' = T!Max(X)
  BY <1>4 DEF T!Opens
<1> QED BY <1>1, <1>3, <1>4, <1>6, <1>7

WriterOf(u, o, n, b) == [up |-> u, owner |-> o, dropped |-> n, due |-> b]
LEMMA WriterWith ==
  ASSUME NEW q \in Writer, NEW v
  PROVE  /\ [q EXCEPT !.up = v] = [up |-> v, owner |-> q.owner, dropped |-> q.dropped, due |-> q.due]
         /\ [q EXCEPT !.owner = v] = [up |-> q.up, owner |-> v, dropped |-> q.dropped, due |-> q.due]
         /\ [q EXCEPT !.dropped = v] = [up |-> q.up, owner |-> q.owner, dropped |-> v, due |-> q.due]
         /\ [q EXCEPT !.due = v] = [up |-> q.up, owner |-> q.owner, dropped |-> q.dropped, due |-> v]
  BY DEF Writer

LEMMA FailKeepsStats ==
  ASSUME StatsInv, NEW p \in Procs, NEW n \in Int, proc' = [proc EXCEPT ![p].dropped = n], owned' = owned
  PROVE  WritersMove /\ \A x \in Procs : proc'[x].up = proc[x].up
<1>1. proc[p] \in Writer /\ owned \in Nat /\ proc[p].owner <= owned /\ (proc[p].owner # 0 => proc[p].up)
  BY DEF StatsInv, StatsTypes, OwnersOn
<1>2. PICK q : q = [up |-> proc[p].up, owner |-> proc[p].owner, dropped |-> n, due |-> proc[p].due]
  OBVIOUS
<1>3. q \in Writer /\ q.up = proc[p].up /\ q.owner = proc[p].owner
  BY <1>1, <1>2, WriterIs DEF Writer
<1>4. q = [proc[p] EXCEPT !.dropped = n]
  BY <1>1, <1>2, WriterWith
<1>5. proc' = [proc EXCEPT ![p] = q]
  BY <1>4
<1>6. WritersMove /\ proc'[p] = q /\ \A x \in Procs \ {p} : proc'[x] = proc[x]
  <2>1. owned' \in Nat /\ owned <= owned' /\ q.owner <= owned' /\ (q.owner # 0 => q.up) /\ (q.up /\ q.owner \in 1..owned => proc[p].up /\ proc[p].owner = q.owner)
    BY <1>1, <1>3
  <2> QED BY <1>3, <1>5, <2>1, OneWrites
<1> QED BY <1>3, <1>6

LEMMA TickKeeps == ASSUME StatsInv, T!Tick PROVE StatsInv'
<1>0. /\ clock < MaxStatsNow /\ clock' = clock + 1 /\ proc' = [p \in Procs |-> [proc[p] EXCEPT !.due = TRUE]]
      /\ UNCHANGED <<db, calls, given, owned, files, reader, pager, faults, log>>
  BY DEF T!Tick
<1>1. clock \in 0..MaxStatsNow /\ owned \in Nat /\ proc \in [Procs -> Writer] /\ given \in Nat
  BY DEF StatsInv, StatsTypes
<1>2. clock' \in 0..MaxStatsNow /\ clock <= clock'
  BY <1>0, <1>1, StatsAssumption
<1>3. ASSUME NEW p \in Procs PROVE proc'[p] \in Writer /\ proc'[p].up = proc[p].up /\ proc'[p].owner = proc[p].owner
  <2>1. PICK q : q = [up |-> proc[p].up, owner |-> proc[p].owner, dropped |-> proc[p].dropped, due |-> TRUE]
    OBVIOUS
  <2>2. proc[p] \in Writer
    BY <1>1
  <2>3. q \in Writer /\ q.up = proc[p].up /\ q.owner = proc[p].owner
    BY <2>1, <2>2, WriterIs DEF Writer
  <2>4. q = [proc[p] EXCEPT !.due = TRUE]
    BY <2>1, <2>2, WriterWith, Zenon
  <2> QED BY <1>0, <2>3, <2>4
<1>4. WritersMove
  <2>1. proc' \in [Procs -> Writer]
    BY <1>0, <1>3
  <2>2. \A p \in Procs : proc[p].owner <= owned /\ (proc[p].owner # 0 => proc[p].up)
    BY DEF StatsInv, OwnersOn
  <2> QED BY <1>0, <1>1, <1>3, <2>1, <2>2 DEF WritersMove
<1>5. CallsMove
  BY <1>0, <1>3, CallsRest
<1>6. RowsMove
  BY <1>0, <1>1, RowsRest
<1>7. (reader' # None => \A o \in reader' : DeadOwner(o)) /\ (pager' # None => WalkOn(pager', db.events, calls, given, clock))
  BY <1>0 DEF StatsInv, Buried
<1> QED BY <1>2, <1>4, <1>5, <1>6, <1>7, StatsGoOn

\* What a reader takes, and what it shows, is no writer's affair.
LEMMA ReadKeepsStats ==
  ASSUME StatsInv, UNCHANGED <<clock, db, proc, calls, given, owned, log>>,
         reader' # None => \A o \in reader' : DeadOwner(o),
         pager' # None => WalkOn(pager', db.events, calls, given, clock)
  PROVE  StatsInv'
<1>1. clock \in 0..MaxStatsNow /\ clock <= clock /\ owned \in Nat /\ given \in Nat
  BY StatsAssumption DEF StatsInv, StatsTypes
<1>2. WritersMove
  BY WritersRest
<1>3. CallsMove
  BY CallsRest
<1>4. RowsMove
  BY <1>1, RowsRest
<1>5. clock' \in 0..MaxStatsNow /\ clock <= clock'
  BY <1>1
<1> QED BY <1>2, <1>3, <1>4, <1>5, StatsGoOn

LEMMA ReadersKeep == ASSUME StatsInv, T!Look \/ T!Answered \/ T!NextPage \/ T!Paged PROVE StatsInv'
<1>0. (reader # None => \A o \in reader : DeadOwner(o)) /\ (pager # None => WalkOn(pager, db.events, calls, given, clock))
  BY DEF StatsInv, Buried
<1>1. CASE T!Look
  <2>1. UNCHANGED <<clock, db, proc, calls, given, owned, log, pager>> /\ \A o \in reader' : o \in 1..owned /\ ~T!Alive(o)
    BY <1>1 DEF T!Look
  <2> QED BY <1>0, <2>1, ReadKeepsStats DEF DeadOwner
<1>2. CASE T!Answered
  BY <1>0, <1>2, ReadKeepsStats DEF T!Answered
<1>3. CASE T!NextPage
  <2>1. UNCHANGED <<clock, db, proc, calls, given, owned, log, reader>>
    BY <1>3 DEF T!NextPage
  <2>2. pager' # None => WalkOn(pager', db.events, calls, given, clock)
    BY <1>3, PageTurns
  <2> QED BY <1>0, <2>1, <2>2, ReadKeepsStats
<1>4. CASE T!Paged
  BY <1>0, <1>4, ReadKeepsStats DEF T!Paged
<1> QED BY <1>1, <1>2, <1>3, <1>4

\* A step of one process that leaves the file alone.
LEMMA ProcessSteps ==
  ASSUME StatsInv, UNCHANGED <<clock, db, owned, reader, pager, log>>, WritersMove, CallsMove
  PROVE  StatsInv'
<1>1. clock \in 0..MaxStatsNow /\ clock <= clock /\ owned \in Nat
  BY StatsAssumption DEF StatsInv, StatsTypes
<1>2. RowsMove
  BY <1>1, RowsRest DEF CallsMove
<1>3. (reader' # None => \A o \in reader' : DeadOwner(o)) /\ (pager' # None => WalkOn(pager', db.events, calls, given, clock))
  BY DEF StatsInv, Buried
<1>4. clock' \in 0..MaxStatsNow /\ clock <= clock'
  BY <1>1
<1> QED BY <1>2, <1>3, <1>4, StatsGoOn

\* The next call has a number that none had before.
LEMMA CallBegins ==
  ASSUME StatsInv, NEW p \in Procs, proc'[p].up, \A x \in Procs : proc[x].up => proc'[x].up,
         given < MaxCalls, given' = given + 1, calls' = [calls EXCEPT ![given'] = p]
  PROVE  CallsMove
<1>1. calls \in [T!Ids -> Procs \cup {None}] /\ given \in Nat
  BY DEF StatsInv, StatsTypes
<1>2. calls' \in [T!Ids -> Procs \cup {None}] /\ given' \in Nat /\ given <= given'
  <2>1. PICK n : n = given'
    OBVIOUS
  <2>2. calls' = [calls EXCEPT ![n] = p]
    BY <2>1
  <2>3. calls' \in [T!Ids -> Procs \cup {None}]
    BY <1>1, <2>2
  <2> QED BY <1>1, <2>3
<1>3. ASSUME NEW id \in T!Ids PROVE calls'[id] = IF id = given' THEN p ELSE calls[id]
  <2>1. PICK n : n = given'
    OBVIOUS
  <2>2. calls' = [calls EXCEPT ![n] = p]
    BY <2>1
  <2> QED BY <1>1, <2>1, <2>2
<1>4. ASSUME NEW id \in T!Ids, calls'[id] # None PROVE proc'[calls'[id]].up
  <2>1. CASE id = given'
    BY <1>3, <2>1
  <2>2. CASE id # given'
    <3>1. calls[id] # None /\ calls'[id] = calls[id]
      BY <1>3, <1>4, <2>2
    <3>2. proc[calls[id]].up /\ calls[id] \in Procs
      BY <1>1, <3>1 DEF StatsInv, OwnersOn
    <3> QED BY <3>1, <3>2
  <2> QED BY <2>1, <2>2
<1>5. ASSUME NEW id \in T!Ids, id <= given, calls[id] = None PROVE calls'[id] = None
  <2>1. id # given'
    BY <1>1, <1>5 DEF T!Ids
  <2> QED BY <1>3, <1>5, <2>1
<1> QED BY <1>2, <1>4, <1>5 DEF CallsMove

LEMMA CallEnds ==
  ASSUME StatsInv, NEW id \in T!Ids, calls' = [calls EXCEPT ![id] = None], given' = given, \A x \in Procs : proc[x].up => proc'[x].up
  PROVE  CallsMove
<1>1. calls \in [T!Ids -> Procs \cup {None}] /\ given \in Nat
  BY DEF StatsInv, StatsTypes
<1>2. calls' \in [T!Ids -> Procs \cup {None}]
  BY <1>1
<1>3. ASSUME NEW x \in T!Ids, calls'[x] # None PROVE proc'[calls'[x]].up
  <2>1. calls[x] # None /\ calls'[x] = calls[x]
    BY <1>1, <1>3
  <2>2. proc[calls[x]].up /\ calls[x] \in Procs
    BY <1>1, <2>1 DEF StatsInv, OwnersOn
  <2> QED BY <2>1, <2>2
<1> QED BY <1>1, <1>2, <1>3 DEF CallsMove

LEMMA ProcessesKeep ==
  ASSUME StatsInv, NEW p \in Procs, T!Close(p) \/ T!Kill(p) \/ T!Restart(p)
  PROVE  StatsInv'
<1>0. proc[p] \in Writer /\ proc \in [Procs -> Writer] /\ owned \in Nat /\ calls \in [T!Ids -> Procs \cup {None}] /\ given \in Nat
  BY DEF StatsInv, StatsTypes
<1>2. CASE T!Close(p)
  <2>1. proc[p].up /\ proc' = [proc EXCEPT ![p].owner = 0] /\ UNCHANGED <<clock, db, calls, given, owned, reader, pager, log>>
    BY <1>2 DEF T!Close
  <2>2. PICK q : q = [up |-> proc[p].up, owner |-> 0, dropped |-> proc[p].dropped, due |-> proc[p].due]
    OBVIOUS
  <2>3. q \in Writer /\ q.up = proc[p].up /\ q.owner = 0
    BY <1>0, <2>2, WriterIs DEF Writer
  <2>4. q = [proc[p] EXCEPT !.owner = 0]
    BY <1>0, <2>2, WriterWith, Zenon
  <2>5. proc' = [proc EXCEPT ![p] = q]
    BY <2>1, <2>4
  <2>6. WritersMove /\ proc'[p] = q /\ \A x \in Procs \ {p} : proc'[x] = proc[x]
    <3>1. owned' \in Nat /\ owned <= owned' /\ q.owner <= owned' /\ (q.owner # 0 => q.up) /\ (q.up /\ q.owner \in 1..owned => proc[p].up /\ proc[p].owner = q.owner)
      BY <1>0, <2>1, <2>3
    <3> QED BY <2>3, <2>5, <3>1, OneWrites
  <2>7. CallsMove
    BY <2>1, <2>3, <2>6, CallsRest
  <2> QED BY <2>1, <2>6, <2>7, ProcessSteps
<1>3. CASE T!Kill(p)
  <2>1. /\ proc' = [proc EXCEPT ![p] = T!Down] /\ calls' = [id \in T!Ids |-> IF calls[id] = p THEN None ELSE calls[id]]
        /\ UNCHANGED <<clock, db, given, owned, reader, pager, log>>
    BY <1>3 DEF T!Kill
  <2>2. T!Down \in Writer /\ T!Down.up = FALSE /\ T!Down.owner = 0
    BY DEF T!Down, Writer
  <2>3. WritersMove /\ \A x \in Procs \ {p} : proc'[x] = proc[x]
    <3>1. PICK q \in Writer : q = T!Down /\ q.up = FALSE /\ q.owner = 0
      BY <2>2
    <3>2. owned' \in Nat /\ owned <= owned' /\ q.owner <= owned' /\ (q.owner # 0 => q.up) /\ (q.up /\ q.owner \in 1..owned => proc[p].up /\ proc[p].owner = q.owner)
      BY <1>0, <2>1, <3>1
    <3> QED BY <2>1, <3>1, <3>2, OneWrites
  <2>4. calls' \in [T!Ids -> Procs \cup {None}]
    BY <1>0, <2>1
  <2>5. ASSUME NEW id \in T!Ids, calls'[id] # None PROVE proc'[calls'[id]].up
    <3>1. calls[id] # p /\ calls'[id] = calls[id] /\ calls[id] \in Procs
      BY <1>0, <2>1, <2>5
    <3>2. proc[calls[id]].up
      BY <2>5, <3>1 DEF StatsInv, OwnersOn
    <3> QED BY <2>3, <3>1, <3>2
  <2>6. \A id \in T!Ids : calls[id] = None => calls'[id] = None
    BY <2>1
  <2>7. CallsMove
    BY <1>0, <2>1, <2>4, <2>5, <2>6 DEF CallsMove
  <2> QED BY <2>1, <2>3, <2>7, ProcessSteps
<1>4. CASE T!Restart(p)
  <2>1. ~proc[p].up /\ proc' = [proc EXCEPT ![p].up = TRUE] /\ UNCHANGED <<clock, db, calls, given, owned, reader, pager, log>>
    BY <1>4 DEF T!Restart
  <2>2. PICK q : q = [up |-> TRUE, owner |-> proc[p].owner, dropped |-> proc[p].dropped, due |-> proc[p].due]
    OBVIOUS
  <2>3. q \in Writer /\ q.up = TRUE /\ q.owner = proc[p].owner
    BY <1>0, <2>2, WriterIs DEF Writer
  <2>4. q = [proc[p] EXCEPT !.up = TRUE]
    BY <1>0, <2>2, WriterWith, Zenon
  <2>5. proc' = [proc EXCEPT ![p] = q]
    BY <2>1, <2>4
  <2>6. proc[p].owner = 0
    BY <2>1 DEF StatsInv, OwnersOn
  <2>7. WritersMove /\ proc'[p] = q /\ \A x \in Procs \ {p} : proc'[x] = proc[x]
    <3>1. owned' \in Nat /\ owned <= owned' /\ q.owner <= owned' /\ (q.owner # 0 => q.up) /\ (q.up /\ q.owner \in 1..owned => proc[p].up /\ proc[p].owner = q.owner)
      BY <1>0, <2>1, <2>3, <2>6
    <3> QED BY <2>3, <2>5, <3>1, OneWrites
  <2>8. CallsMove
    BY <2>1, <2>3, <2>7, CallsRest
  <2> QED BY <2>1, <2>7, <2>8, ProcessSteps
<1> QED BY <1>2, <1>3, <1>4

LEMMA RowBegins ==
  ASSUME NEW o \in Nat, clock \in 0..MaxStatsNow
  PROVE  T!Row(clock, o) \in T!Rows /\ T!Row(clock, o).outcome = "none" /\ T!Row(clock, o) # None /\ T!Row(clock, o).at = clock
<1>1. T!Row(clock, o) \in T!Rows
  BY DEF T!Row, T!Rows
<1> QED BY <1>1, NoneAssumption DEF T!Row

\* The file with an owner more.
LEMMA WithOwnerIs ==
  ASSUME StatsInv, NEW p \in Procs, T!Opens(p), NEW d, d = T!WithOwner(p)
  PROVE  d \in Filed /\ d.events = db.events /\ d.rolls = db.rolls /\ d.owners \subseteq 1..owned' /\ d.dropped = db.dropped
<1>1. PICK o : o = T!Opened(p)
  OBVIOUS
<1>2. o \in Nat /\ o >= 1 /\ owned' \in Nat /\ owned <= owned' /\ o <= owned'
  BY <1>1, OpenedIs
<1>3. db \in Filed /\ db.owners \subseteq 1..owned /\ owned \in Nat
  BY DEF StatsInv, StatsTypes, OwnersOn
<1>4. d = [db EXCEPT !.owners = db.owners \cup {o}]
  BY <1>1, <1>3 DEF T!WithOwner, Filed
<1>5. db.owners \in SUBSET Nat /\ db.events \in Calls /\ db.rolls \in [T!Buckets -> Tally] /\ db.dropped \in Int /\ db.recovered \in Int
  BY <1>3 DEF Filed
<1>6. d = [owners |-> db.owners \cup {o}, events |-> db.events, rolls |-> db.rolls, dropped |-> db.dropped, recovered |-> db.recovered]
  BY <1>3, <1>4 DEF Filed
<1>7. db.owners \cup {o} \in SUBSET Nat
  BY <1>2, <1>5
<1>8. d \in Filed
  BY <1>5, <1>6, <1>7 DEF Filed
<1>9. 1..owned \subseteq 1..owned'
  BY <1>2, <1>3
<1>10. db.owners \cup {o} \subseteq 1..owned'
  BY <1>2, <1>3, <1>9
<1> QED BY <1>6, <1>8, <1>10

\* What maintenance leaves of the rows, when the file has just got its owner.
LEMMA BuriedByMaintenance ==
  ASSUME StatsInv, NEW p \in Procs, T!Opens(p), NEW d, d = T!WithOwner(p), NEW c, c = T!Compacted(d), NEW id \in T!Ids,
         c.events[id] # None
  PROVE  /\ db.events[id] # None /\ c.events[id].at = db.events[id].at
         /\ c.events[id] = db.events[id] \/ db.events[id].ended = T!Open
         /\ c.events[id].outcome = "cut" => DeadOwner(c.events[id].owner)
<1>1. d \in Filed /\ d.events = db.events /\ d.owners \subseteq 1..owned'
  BY WithOwnerIs
<1>2. PICK m : m = T!Recovered(d)
  OBVIOUS
<1>3. clock \in 0..MaxStatsNow
  BY DEF StatsInv, StatsTypes
<1>4. /\ m.events[id] = None <=> d.events[id] = None
      /\ c.events[id] = IF T!Old(m.events[id]) THEN None ELSE m.events[id]
      /\ d.events[id] # None =>
           /\ m.events[id] \in T!Rows /\ m.events[id].at = d.events[id].at /\ m.events[id].owner = d.events[id].owner
           /\ \/ m.events[id] = d.events[id] /\ ~T!Interrupted(d, d.events[id])
              \/ /\ T!Interrupted(d, d.events[id]) /\ d.events[id].ended = T!Open
                 /\ m.events[id].ended \in Nat /\ m.events[id].ended # T!Open /\ m.events[id].outcome = "cut"
  BY <1>1, <1>2, <1>3, RowKept
<1>5. db.events[id] # None /\ c.events[id] = m.events[id] /\ ~T!Old(m.events[id])
  BY <1>1, <1>4
<1>6. CASE m.events[id] = d.events[id]
  BY <1>1, <1>5, <1>6 DEF StatsInv, Buried
<1>7. CASE T!Interrupted(d, d.events[id]) /\ d.events[id].ended = T!Open
  <2>1. m.events[id].ended # T!Open /\ m.events[id].at = d.events[id].at /\ m.events[id].owner = d.events[id].owner
    <3>1. CASE m.events[id] = d.events[id] /\ ~T!Interrupted(d, d.events[id])
      BY <1>7, <3>1
    <3> QED BY <1>1, <1>4, <1>5, <1>7, <3>1
  <2>2. ~(m.events[id].at < T!Cut)
    BY <1>5, <1>4, <2>1 DEF T!Old
  <2>3. d.events[id].owner \in T!Recoverable(d)
    BY <1>7, <2>1, <2>2 DEF T!Interrupted
  <2>4. d.events[id].owner \in d.owners /\ d.events[id].owner <= owned /\ ~T!Alive(d.events[id].owner)
    BY <2>3 DEF T!Recoverable, T!Held
  <2>5. d.events[id].owner \in 1..owned
    <3>1. owned' \in Nat /\ owned \in Nat
      BY OpenedIs DEF StatsInv, StatsTypes
    <3> QED BY <1>1, <2>4, <3>1
  <2> QED BY <1>1, <1>5, <1>7, <2>1, <2>4, <2>5 DEF DeadOwner
<1> QED BY <1>1, <1>4, <1>5, <1>6, <1>7

\* A call that ends or begins gives its process an owner.
LEMMA OwnerWritten ==
  ASSUME StatsInv, NEW p \in Procs, proc[p].up, T!Opens(p), NEW n \in Int, NEW due \in BOOLEAN,
         NEW q, q = WriterOf(proc[p].up, T!Opened(p), n, due), proc' = [proc EXCEPT ![p] = q]
  PROVE  WritersMove /\ \A x \in Procs : proc'[x].up = proc[x].up
<1>1. PICK o : o = T!Opened(p)
  OBVIOUS
<1>2. o \in Nat /\ o >= 1 /\ owned' \in Nat /\ owned <= owned' /\ o <= owned' /\ (o <= owned => proc[p].owner = o)
  BY <1>1, OpenedIs
<1>3. proc[p] \in Writer /\ owned \in Nat
  BY DEF StatsInv, StatsTypes
<1>4. q \in Writer /\ q.up = proc[p].up /\ q.owner = o
  BY <1>1, <1>2, <1>3, WriterIs DEF Writer, WriterOf
<1>5. q.owner <= owned' /\ (q.owner # 0 => q.up) /\ (q.up /\ q.owner \in 1..owned => proc[p].up /\ proc[p].owner = q.owner)
  <2>1. o \in 1..owned => proc[p].owner = o
    BY <1>2, <1>3
  <2>2. q.owner = o /\ q.up
    BY <1>4, Zenon
  <2> QED BY <1>2, <2>1, <2>2, Zenon
<1>6. WritersMove /\ proc'[p] = q /\ \A x \in Procs \ {p} : proc'[x] = proc[x]
  BY <1>2, <1>4, <1>5, OneWrites
<1> QED BY <1>4, <1>6

\* The file with one row or its count of drops replaced.
FiledRow(d, id, rw) == [d EXCEPT !.events[id] = rw]
FiledDrops(d, n) == [d EXCEPT !.dropped = n]
LEMMA FiledWith ==
  ASSUME NEW d \in Filed, NEW id \in T!Ids, NEW rw \in T!Rows, NEW f, f = FiledRow(d, id, rw)
  PROVE  f \in Filed /\ f.events = WithRow(d.events, id, rw) /\ f.owners = d.owners /\ f.rolls = d.rolls
<1>1. d.owners \in SUBSET Nat /\ d.events \in Calls /\ d.rolls \in [T!Buckets -> Tally] /\ d.dropped \in Int /\ d.recovered \in Int
  BY DEF Filed
<1>2. PICK e : e = WithRow(d.events, id, rw)
  OBVIOUS
<1>3. e \in Calls
  BY <1>1, <1>2 DEF Calls, WithRow
<1>4. f = [owners |-> d.owners, events |-> e, rolls |-> d.rolls, dropped |-> d.dropped, recovered |-> d.recovered]
  BY <1>2 DEF Filed, FiledRow, WithRow
<1>5. f \in Filed
  BY <1>1, <1>3, <1>4 DEF Filed
<1> QED BY <1>2, <1>4, <1>5

LEMMA DropsWith ==
  ASSUME NEW d \in Filed, NEW n \in Int, NEW g, g = FiledDrops(d, n)
  PROVE  g \in Filed /\ g.events = d.events /\ g.owners = d.owners /\ g.rolls = d.rolls
<1>1. d.owners \in SUBSET Nat /\ d.events \in Calls /\ d.rolls \in [T!Buckets -> Tally] /\ d.dropped \in Int /\ d.recovered \in Int
  BY DEF Filed
<1>2. g = [owners |-> d.owners, events |-> d.events, rolls |-> d.rolls, dropped |-> n, recovered |-> d.recovered]
  BY DEF Filed, FiledDrops
<1>3. g \in Filed
  BY <1>1, <1>2 DEF Filed
<1> QED BY <1>2, <1>3

\* Two fields of a writer change at once.
LEMMA WriterEnds ==
  ASSUME NEW q \in Writer, NEW v, NEW x
  PROVE  [q EXCEPT !.owner = v, !.dropped = x] = WriterOf(q.up, v, x, q.due)
<1>1. [q EXCEPT !.owner = v, !.dropped = x] = [[q EXCEPT !.owner = v] EXCEPT !.dropped = x]
  BY DEF Writer
<1>2. PICK r : r = [q EXCEPT !.owner = v]
  OBVIOUS
<1>3. r = WriterOf(q.up, v, q.dropped, q.due)
  BY <1>2, WriterWith DEF WriterOf
<1>4. [r EXCEPT !.dropped = x] = WriterOf(q.up, v, x, q.due)
  BY <1>3 DEF WriterOf
<1> QED BY <1>1, <1>2, <1>4
LEMMA WriterBegins ==
  ASSUME NEW q \in Writer, NEW v, NEW x
  PROVE  [q EXCEPT !.owner = v, !.due = x] = WriterOf(q.up, v, q.dropped, x)
<1>1. [q EXCEPT !.owner = v, !.due = x] = [[q EXCEPT !.owner = v] EXCEPT !.due = x]
  BY DEF Writer
<1>2. PICK r : r = [q EXCEPT !.owner = v]
  OBVIOUS
<1>3. r = WriterOf(q.up, v, q.dropped, q.due)
  BY <1>2, WriterWith DEF WriterOf
<1>4. [r EXCEPT !.due = x] = WriterOf(q.up, v, q.dropped, x)
  BY <1>3 DEF WriterOf
<1> QED BY <1>1, <1>2, <1>4

\* A file of the same rows: only its owners and its count of drops differ.
LEMMA RowsStay ==
  ASSUME StatsInv, UNCHANGED <<clock, reader, pager, log>>, WritersMove, CallsMove, db' \in Filed,
         db'.events = db.events, db'.rolls = db.rolls, db'.owners \subseteq 1..owned'
  PROVE  StatsInv'
<1>1. clock \in 0..MaxStatsNow /\ log \in Calls /\ Counted(db.events, log, db.rolls) /\ given \in Nat
  BY DEF StatsInv, StatsTypes
<1>2. \A x \in T!Ids : db.events[x] # None /\ db.events[x].outcome = "cut" => DeadOwner(db.events[x].owner)
  BY DEF StatsInv, Buried
<1>3. ASSUME NEW x \in T!Ids, x > given' PROVE db.events[x] = None /\ log[x] = None
  <2>1. x \in Int /\ given' \in Nat /\ given <= given'
    BY DEF T!Ids, CallsMove
  <2>2. x > given
    BY <1>1, <1>3, <2>1
  <2> QED BY <2>2 DEF StatsInv, NotYet
<1>4. RowsMove
  BY <1>1, <1>2, <1>3 DEF RowsMove
<1>5. (reader' # None => \A o \in reader' : DeadOwner(o)) /\ (pager' # None => WalkOn(pager', db.events, calls, given, clock))
  BY DEF StatsInv, Buried
<1>6. clock' \in 0..MaxStatsNow /\ clock <= clock'
  BY <1>1, StatsAssumption
<1> QED BY <1>4, <1>5, <1>6, StatsGoOn

LEMMA FinishKeeps ==
  ASSUME StatsInv, NEW id \in T!Ids, NEW outcome \in {"ok", "fail"}, T!Finish(id, outcome)
  PROVE  StatsInv'
<1>0. /\ StatsTypes /\ clock \in 0..MaxStatsNow /\ db \in Filed /\ db.events \in Calls /\ log \in Calls /\ given \in Nat /\ owned \in Nat
      /\ proc \in [Procs -> Writer] /\ calls \in [T!Ids -> Procs \cup {None}]
  BY DEF StatsInv, StatsTypes, Filed
<1>1. calls[id] # None /\ UNCHANGED <<clock, given, reader, pager>> /\ calls' = [calls EXCEPT ![id] = None]
  BY DEF T!Finish
<1>2. PICK p \in Procs : p = calls[id]
  BY <1>0, <1>1
<1>3. proc[p].up /\ T!Opens(p) /\ proc' = [proc EXCEPT ![p].owner = T!Opened(p), ![p].dropped = 0]
  BY <1>1, <1>2 DEF T!Finish, StatsInv, OwnersOn
<1>4. PICK d : d = T!WithOwner(p)
  OBVIOUS
<1>5. d \in Filed /\ d.events = db.events /\ d.rolls = db.rolls /\ d.owners \subseteq 1..owned'
  BY <1>3, <1>4, WithOwnerIs
<1>6. PICK n : n = d.dropped + (proc[p].dropped + (IF db.events[id] # None THEN 0 ELSE 1))
  OBVIOUS
<1>7. n \in Int
  <2>1. proc[p].dropped \in Int /\ d.dropped \in Int
    BY <1>0, <1>5, WriterIs DEF Filed
  <2> QED BY <1>6, <2>1
<1>8. PICK g : g = FiledDrops(d, n)
  OBVIOUS
<1>9. PICK rw : rw = EndedAs(db.events[id], outcome)
  OBVIOUS
<1>10. g = [T!WithOwner(p) EXCEPT !.dropped = @ + (proc[p].dropped + (IF db.events[id] # None THEN 0 ELSE 1))]
  BY <1>4, <1>5, <1>6, <1>8 DEF Filed, FiledDrops
<1>11. /\ db' = IF db.events[id] # None THEN FiledRow(g, id, rw) ELSE g
       /\ log' = IF db.events[id] # None THEN WithRow(log, id, rw) ELSE log
  BY <1>2, <1>9, <1>10 DEF T!Finish, EndedAs, FiledRow, WithRow
<1>12. g \in Filed /\ g.events = db.events /\ g.owners = d.owners /\ g.rolls = db.rolls
  BY <1>5, <1>7, <1>8, DropsWith
<1>13. WritersMove /\ \A x \in Procs : proc'[x].up = proc[x].up
  <2>1. proc[p] \in Writer
    BY <1>0
  <2>2. PICK o : o = T!Opened(p)
    OBVIOUS
  <2>3. PICK q : q = WriterOf(proc[p].up, o, 0, proc[p].due)
    OBVIOUS
  <2>4. [proc[p] EXCEPT !.owner = o, !.dropped = 0] = q
    BY <2>1, <2>3, WriterEnds, Zenon
  <2>5. proc' = [proc EXCEPT ![p] = [proc[p] EXCEPT !.owner = o, !.dropped = 0]]
    BY <1>0, <1>3, <2>2
  <2>6. proc' = [proc EXCEPT ![p] = q]
    BY <2>4, <2>5
  <2>7. proc[p].due \in BOOLEAN /\ 0 \in Int
    BY <2>1, WriterIs
  <2>8. q = WriterOf(proc[p].up, T!Opened(p), 0, proc[p].due)
    BY <2>2, <2>3
  <2> QED BY <1>3, <2>6, <2>7, <2>8, OwnerWritten, Zenon
<1>14. CallsMove
  BY <1>1, <1>13, CallEnds
<1>15. calls'[id] = None
  BY <1>0, <1>1
<1>16. RowsMove
  <2>1. Counted(db.events, log, db.rolls)
    BY DEF StatsInv
  <2>2. \A x \in T!Ids : db.events[x] # None /\ db.events[x].outcome = "cut" => DeadOwner(db.events[x].owner)
    BY DEF StatsInv, Buried
  <2>3. \A x \in T!Ids : x > given' => db.events[x] = None /\ log[x] = None
    BY <1>1 DEF StatsInv, NotYet
  <2>4. CASE db.events[id] = None
    <3>1. db' = g /\ log' = log
      BY <1>11, <2>4
    <3>2. db'.events = db.events
      BY <1>12, <3>1
    <3> QED BY <1>0, <1>5, <1>12, <2>1, <2>2, <2>3, <3>1, <3>2 DEF RowsMove
  <2>5. CASE db.events[id] # None
    <3>1. db.events[id] \in T!Rows
      BY <1>0, <2>5 DEF Calls
    <3>2. rw \in T!Rows /\ rw.at = db.events[id].at /\ rw.outcome = outcome /\ rw.ended # T!Open
      BY <1>0, <1>9, <3>1, RowEnds
    <3>3. PICK f : f = FiledRow(g, id, rw)
      OBVIOUS
    <3>4. f \in Filed /\ f.events = WithRow(db.events, id, rw) /\ f.owners = d.owners /\ f.rolls = db.rolls
      BY <1>7, <1>12, <3>2, <3>3, FiledWith
    <3>5. PICK k : k = WithRow(log, id, rw)
      OBVIOUS
    <3>6. db' = f /\ log' = k
      BY <1>11, <2>5, <3>3, <3>5
    <3>7. Counted(f.events, k, f.rolls)
      BY <1>0, <2>1, <2>5, <3>2, <3>4, <3>5, RowWritten
    <3>8. k \in Calls
      BY <1>0, <3>2, <3>5 DEF Calls, WithRow
    <3>9. ASSUME NEW x \in T!Ids
          PROVE  /\ f.events[x] = IF x = id THEN rw ELSE db.events[x]
                 /\ k[x] = IF x = id THEN rw ELSE log[x]
      BY <1>0, <3>4, <3>5 DEF Calls, WithRow
    <3>10. id <= given
      <4>1. id \in Int
        BY DEF T!Ids
      <4> QED BY <1>0, <2>5, <4>1 DEF StatsInv, NotYet
    <3>11. \A x \in T!Ids : f.events[x] # None /\ f.events[x].outcome = "cut" => DeadOwner(f.events[x].owner)
      BY <2>2, <3>2, <3>9
    <3>12. ASSUME NEW x \in T!Ids, x > given' PROVE f.events[x] = None /\ k[x] = None
      <4>1. x # id
        BY <1>0, <1>1, <3>10, <3>12 DEF T!Ids
      <4> QED BY <2>3, <3>9, <3>12, <4>1
    <3>13. ASSUME NEW x \in T!Ids
           PROVE  /\ db.events[x] = None => f.events[x] = None
                  /\ f.events[x] # None =>
                       /\ f.events[x].at = db.events[x].at
                       /\ \/ f.events[x] = db.events[x] \/ db.events[x].ended = T!Open
                          \/ calls[x] # None /\ calls'[x] = None /\ f.events[x].ended # T!Open
      BY <1>1, <1>15, <2>5, <3>2, <3>9
    <3> QED BY <1>5, <3>4, <3>6, <3>7, <3>8, <3>11, <3>12, <3>13 DEF RowsMove
  <2> QED BY <2>4, <2>5
<1>17. (reader' # None => \A o \in reader' : DeadOwner(o)) /\ (pager' # None => WalkOn(pager', db.events, calls, given, clock))
  BY <1>1 DEF StatsInv, Buried
<1>18. clock' \in 0..MaxStatsNow /\ clock <= clock'
  BY <1>0, <1>1, StatsAssumption
<1> QED BY <1>13, <1>14, <1>16, <1>17, <1>18, StatsGoOn

\* A call that ends in a failure: its row is left as it is.
LEMMA FinishFailsKeeps == ASSUME StatsInv, NEW id \in T!Ids, T!FinishFails(id) PROVE StatsInv'
<1>0. /\ calls[id] \in Procs /\ UNCHANGED <<clock, given, reader, pager, log>> /\ calls' = [calls EXCEPT ![id] = None]
      /\ clock \in 0..MaxStatsNow /\ db \in Filed /\ given \in Nat /\ owned \in Nat /\ proc \in [Procs -> Writer]
  BY DEF T!FinishFails, StatsInv, StatsTypes
<1>1. PICK p \in Procs : p = calls[id]
  BY <1>0
<1>2. proc[p] \in Writer /\ proc[p].dropped \in Int /\ proc[p].up
  BY <1>0, <1>1, WriterIs, NoneAssumption DEF T!FinishFails, StatsInv, OwnersOn
<1>3. PICK drops \in Int : drops = proc[p].dropped + 1
  BY <1>2
<1>4. CASE proc' = [proc EXCEPT ![p].dropped = drops] /\ UNCHANGED <<db, owned>>
  <2>1. WritersMove /\ \A x \in Procs : proc'[x].up = proc[x].up
    BY <1>4, FailKeepsStats
  <2>2. CallsMove
    BY <1>0, <2>1, CallEnds
  <2> QED BY <1>0, <1>4, <2>1, <2>2, ProcessSteps
<1>5. ASSUME T!Opens(p), NEW told \in {0, drops}, db' = [T!WithOwner(p) EXCEPT !.dropped = @ + told],
             proc' = [proc EXCEPT ![p].owner = T!Opened(p), ![p].dropped = drops - told]
      PROVE  StatsInv'
  <2>1. PICK d : d = T!WithOwner(p)
    OBVIOUS
  <2>2. d \in Filed /\ d.events = db.events /\ d.rolls = db.rolls /\ d.owners \subseteq 1..owned'
    BY <1>5, <2>1, WithOwnerIs
  <2>3. told \in Int /\ d.dropped \in Int /\ drops - told \in Int
    BY <1>5, <2>2 DEF Filed
  <2>4. PICK n \in Int : n = d.dropped + told
    BY <2>3
  <2>5. PICK g : g = FiledDrops(d, n)
    OBVIOUS
  <2>6. g \in Filed /\ g.events = db.events /\ g.owners = d.owners /\ g.rolls = db.rolls
    BY <2>2, <2>5, DropsWith
  <2>7. db' = g
    BY <1>5, <2>1, <2>2, <2>4, <2>5 DEF Filed, FiledDrops
  <2>8. PICK o : o = T!Opened(p)
    OBVIOUS
  <2>9. PICK q : q = WriterOf(proc[p].up, o, drops - told, proc[p].due)
    OBVIOUS
  <2>10. [proc[p] EXCEPT !.owner = o, !.dropped = drops - told] = q
    BY <1>2, <2>9, WriterEnds, Zenon
  <2>11. proc' = [proc EXCEPT ![p] = [proc[p] EXCEPT !.owner = o, !.dropped = drops - told]]
    BY <1>0, <1>5, <2>8, Zenon
  <2>12. proc' = [proc EXCEPT ![p] = q]
    BY <2>10, <2>11
  <2>13. proc[p].due \in BOOLEAN
    BY <1>2, WriterIs
  <2>14. q = WriterOf(proc[p].up, T!Opened(p), drops - told, proc[p].due)
    BY <2>8, <2>9
  <2>15. WritersMove /\ \A x \in Procs : proc'[x].up = proc[x].up
    BY <1>2, <1>5, <2>3, <2>12, <2>13, <2>14, OwnerWritten, Zenon
  <2>16. CallsMove
    BY <1>0, <2>15, CallEnds
  <2> QED BY <1>0, <2>2, <2>6, <2>7, <2>15, <2>16, RowsStay
<1> QED BY <1>1, <1>3, <1>4, <1>5 DEF T!FinishFails

\* What is in the file and the history by the time a call's row is inserted.
LEMMA PreparedIs ==
  ASSUME StatsInv, NEW p \in Procs, T!Opens(p), NEW kept \in BOOLEAN, NEW c, c = T!Prepared(p, kept), NEW k, k = T!Logged(c)
  PROVE  /\ c \in Filed /\ c.owners \subseteq 1..owned' /\ k \in Calls /\ Counted(c.events, k, c.rolls)
         /\ \A x \in T!Ids : c.events[x] # None =>
              /\ db.events[x] # None /\ c.events[x].at = db.events[x].at
              /\ c.events[x] = db.events[x] \/ db.events[x].ended = T!Open
              /\ c.events[x].outcome = "cut" => DeadOwner(c.events[x].owner)
         /\ \A x \in T!Ids : x > given => c.events[x] = None /\ k[x] = None
<1>1. clock \in 0..MaxStatsNow /\ db \in Filed /\ log \in Calls
  BY DEF StatsInv, StatsTypes
<1>2. PICK d : d = T!WithOwner(p)
  OBVIOUS
<1>3. d \in Filed /\ d.events = db.events /\ d.rolls = db.rolls /\ d.owners \subseteq 1..owned'
  BY <1>2, WithOwnerIs
<1>4. c = d \/ c = T!Compacted(d)
  BY <1>2 DEF T!Prepared
<1>5. Counted(d.events, log, d.rolls)
  BY <1>3 DEF StatsInv
<1>6. c \in Filed /\ c.owners \subseteq 1..owned' /\ k \in Calls /\ Counted(c.events, k, c.rolls)
  <2>1. CASE c = d
    <3>1. \A x \in T!Ids : k[x] = log[x]
      BY <1>5, <2>1 DEF T!Logged, Counted, Mirrored
    <3>2. k = log
      BY <1>1, <3>1 DEF T!Logged, Calls
    <3> QED BY <1>1, <1>3, <1>5, <2>1, <3>2
  <2>2. CASE c = T!Compacted(d)
    BY <1>1, <1>3, <1>5, <2>2, CompactedCounts
  <2> QED BY <1>4, <2>1, <2>2
<1>7. ASSUME NEW x \in T!Ids, c.events[x] # None
      PROVE  /\ db.events[x] # None /\ c.events[x].at = db.events[x].at
             /\ c.events[x] = db.events[x] \/ db.events[x].ended = T!Open
             /\ c.events[x].outcome = "cut" => DeadOwner(c.events[x].owner)
  <2>1. CASE c = d
    BY <1>3, <1>7, <2>1 DEF StatsInv, Buried
  <2>2. CASE c = T!Compacted(d)
    BY <1>2, <1>7, <2>2, BuriedByMaintenance
  <2> QED BY <1>4, <2>1, <2>2
<1>8. ASSUME NEW x \in T!Ids, x > given PROVE c.events[x] = None /\ k[x] = None
  <2>1. db.events[x] = None /\ log[x] = None
    BY <1>8 DEF StatsInv, NotYet
  <2>2. c.events[x] = None
    BY <1>7, <2>1
  <2> QED BY <2>1, <2>2 DEF T!Logged
<1> QED BY <1>6, <1>7, <1>8

LEMMA BeginKeeps == ASSUME StatsInv, NEW p \in Procs, T!Begin(p) PROVE StatsInv'
<1>0. /\ StatsTypes /\ clock \in 0..MaxStatsNow /\ db \in Filed /\ db.events \in Calls /\ log \in Calls /\ given \in Nat /\ owned \in Nat
      /\ proc \in [Procs -> Writer] /\ calls \in [T!Ids -> Procs \cup {None}]
  BY DEF StatsInv, StatsTypes, Filed
<1>1. /\ proc[p].up /\ given < MaxCalls /\ given' = given + 1 /\ UNCHANGED <<clock, reader, pager>>
      /\ calls' = [calls EXCEPT ![given'] = p]
      /\ proc' = [proc EXCEPT ![p].owner = T!Opened(p), ![p].due = FALSE]
  BY DEF T!Begin
<1>2. PICK kept \in BOOLEAN : /\ T!Opens(p)
                              /\ db' = [T!Prepared(p, kept) EXCEPT !.events[given'] = T!Row(clock, T!Opened(p))]
                              /\ log' = [T!Logged(T!Prepared(p, kept)) EXCEPT ![given'] = T!Row(clock, T!Opened(p))]
  BY DEF T!Begin, T!Readies
<1>4. PICK rw : rw = T!Row(clock, T!Opened(p))
  OBVIOUS
<1>5. rw \in T!Rows /\ rw.outcome = "none" /\ rw # None
  <2>1. T!Opened(p) \in Nat
    BY <1>2, OpenedIs
  <2> QED BY <1>0, <1>4, <2>1, RowBegins
<1>6. PICK c : c = T!Prepared(p, kept)
  OBVIOUS
<1>7. PICK k : k = T!Logged(c)
  OBVIOUS
<1>8. db' = [c EXCEPT !.events[given'] = rw] /\ log' = [k EXCEPT ![given'] = rw]
  BY <1>2, <1>4, <1>6, <1>7
<1>9. c \in Filed /\ c.owners \subseteq 1..owned' /\ k \in Calls /\ Counted(c.events, k, c.rolls)
  BY <1>2, <1>6, <1>7, PreparedIs
<1>10. ASSUME NEW x \in T!Ids, c.events[x] # None
       PROVE  /\ db.events[x] # None /\ c.events[x].at = db.events[x].at
              /\ c.events[x] = db.events[x] \/ db.events[x].ended = T!Open
              /\ c.events[x].outcome = "cut" => DeadOwner(c.events[x].owner)
  BY <1>2, <1>6, <1>7, <1>10, PreparedIs
<1>12. \A x \in T!Ids : x > given => c.events[x] = None /\ k[x] = None
  BY <1>2, <1>6, <1>7, PreparedIs
<1>11. PICK n \in T!Ids : n = given' /\ n = given + 1
  <2>1. given + 1 \in T!Ids
    BY <1>0, <1>1, StatsAssumption DEF T!Ids
  <2> QED BY <1>1, <2>1
<1>13. c.events[n] = None /\ k[n] = None
  BY <1>0, <1>11, <1>12
<1>14. PICK f : f = FiledRow(c, n, rw)
  OBVIOUS
<1>15. f \in Filed /\ f.events = WithRow(c.events, n, rw) /\ f.owners = c.owners /\ f.rolls = c.rolls
  BY <1>5, <1>9, <1>14, FiledWith
<1>16. PICK l : l = WithRow(k, n, rw)
  OBVIOUS
<1>17. db' = f /\ log' = l
  BY <1>8, <1>11, <1>14, <1>16 DEF FiledRow, WithRow
<1>18. c.events \in Calls
  BY <1>9 DEF Filed
<1>19. Counted(f.events, l, f.rolls)
  BY <1>5, <1>9, <1>13, <1>15, <1>16, <1>18, RowWritten
<1>20. l \in Calls
  BY <1>5, <1>9, <1>16 DEF Calls, WithRow
<1>21. ASSUME NEW x \in T!Ids
       PROVE  /\ f.events[x] = IF x = n THEN rw ELSE c.events[x]
              /\ l[x] = IF x = n THEN rw ELSE k[x]
  BY <1>9, <1>15, <1>16, <1>18 DEF Calls, WithRow
<1>22. WritersMove /\ \A x \in Procs : proc'[x].up = proc[x].up
  <2>1. proc[p] \in Writer
    BY <1>0
  <2>2. PICK o : o = T!Opened(p)
    OBVIOUS
  <2>3. PICK q : q = WriterOf(proc[p].up, o, proc[p].dropped, FALSE)
    OBVIOUS
  <2>4. [proc[p] EXCEPT !.owner = o, !.due = FALSE] = q
    BY <2>1, <2>3, WriterBegins, Zenon
  <2>5. proc' = [proc EXCEPT ![p] = [proc[p] EXCEPT !.owner = o, !.due = FALSE]]
    BY <1>0, <1>1, <2>2, Zenon
  <2>6. proc' = [proc EXCEPT ![p] = q]
    BY <2>4, <2>5
  <2>7. proc[p].dropped \in Int /\ FALSE \in BOOLEAN
    BY <2>1, WriterIs
  <2>8. q = WriterOf(proc[p].up, T!Opened(p), proc[p].dropped, FALSE)
    BY <2>2, <2>3, Zenon
  <2> QED BY <1>1, <1>2, <2>6, <2>7, <2>8, OwnerWritten, Zenon
<1>23. CallsMove
  BY <1>1, <1>22, CallBegins
<1>24. \A x \in T!Ids : f.events[x] # None /\ f.events[x].outcome = "cut" => DeadOwner(f.events[x].owner)
  BY <1>5, <1>10, <1>21
<1>25. ASSUME NEW x \in T!Ids, x > given' PROVE f.events[x] = None /\ l[x] = None
  <2>1. x > given /\ x # n
    BY <1>0, <1>11, <1>25 DEF T!Ids
  <2> QED BY <1>12, <1>21, <2>1
<1>26. ASSUME NEW x \in T!Ids, x <= given
       PROVE  /\ db.events[x] = None => f.events[x] = None
              /\ f.events[x] # None => /\ f.events[x].at = db.events[x].at
                                       /\ f.events[x] = db.events[x] \/ db.events[x].ended = T!Open
  <2>1. x # n
    BY <1>0, <1>11, <1>26 DEF T!Ids
  <2> QED BY <1>10, <1>21, <2>1
<1>27. RowsMove
  BY <1>9, <1>15, <1>17, <1>19, <1>20, <1>24, <1>25, <1>26 DEF RowsMove
<1>28. (reader' # None => \A o \in reader' : DeadOwner(o)) /\ (pager' # None => WalkOn(pager', db.events, calls, given, clock))
  BY <1>1 DEF StatsInv, Buried
<1>29. clock' \in 0..MaxStatsNow /\ clock <= clock'
  BY <1>0, <1>1, StatsAssumption
<1> QED BY <1>22, <1>23, <1>27, <1>28, <1>29, StatsGoOn

LEMMA BeginFailsKeeps == ASSUME StatsInv, NEW p \in Procs, T!BeginFails(p) PROVE StatsInv'
<1>0. /\ clock \in 0..MaxStatsNow /\ given \in Nat /\ proc \in [Procs -> Writer] /\ proc[p] \in Writer /\ proc[p].dropped + 1 \in Int
  <2>1. clock \in 0..MaxStatsNow /\ given \in Nat /\ proc \in [Procs -> Writer] /\ proc[p] \in Writer
    BY DEF StatsInv, StatsTypes
  <2> QED BY <2>1, WriterIs
<1>1. /\ proc[p].up /\ given < MaxCalls /\ given' = given + 1 /\ UNCHANGED <<clock, reader, pager>>
      /\ calls' = [calls EXCEPT ![given'] = p]
  BY DEF T!BeginFails
<1>2. PICK n \in Int : n = proc[p].dropped + 1
  BY <1>0
<1>3. CASE proc' = [proc EXCEPT ![p].dropped = n] /\ UNCHANGED <<db, owned, log>>
  <2>1. WritersMove /\ \A x \in Procs : proc'[x].up = proc[x].up
    BY <1>3, FailKeepsStats
  <2>2. CallsMove
    BY <1>1, <2>1, CallBegins
  <2> QED BY <1>1, <1>3, <2>1, <2>2, ProcessSteps
<1>4. ASSUME NEW kept \in BOOLEAN, T!Opens(p), db' = T!Prepared(p, kept), log' = T!Logged(db'),
             proc' = [proc EXCEPT ![p].owner = T!Opened(p), ![p].due = FALSE, ![p].dropped = n]
      PROVE  StatsInv'
  <2>1. PICK c : c = T!Prepared(p, kept)
    OBVIOUS
  <2>2. PICK k : k = T!Logged(c)
    OBVIOUS
  <2>3. db' = c /\ log' = k
    BY <1>4, <2>1, <2>2
  <2>4. c \in Filed /\ c.owners \subseteq 1..owned' /\ k \in Calls /\ Counted(c.events, k, c.rolls)
    BY <1>4, <2>1, <2>2, PreparedIs
  <2>5. ASSUME NEW x \in T!Ids, c.events[x] # None
        PROVE  /\ db.events[x] # None /\ c.events[x].at = db.events[x].at
               /\ c.events[x] = db.events[x] \/ db.events[x].ended = T!Open
               /\ c.events[x].outcome = "cut" => DeadOwner(c.events[x].owner)
    BY <1>4, <2>1, <2>2, <2>5, PreparedIs
  <2>6. \A x \in T!Ids : x > given => c.events[x] = None /\ k[x] = None
    BY <1>4, <2>1, <2>2, PreparedIs
  <2>7. PICK o : o = T!Opened(p)
    OBVIOUS
  <2>8. PICK q : q = WriterOf(proc[p].up, o, n, FALSE)
    OBVIOUS
  <2>9. [proc[p] EXCEPT !.owner = o, !.due = FALSE, !.dropped = n] = q
    <3>1. proc[p] \in Writer
      BY <1>0
    <3>2. PICK b : b = FALSE
      OBVIOUS
    <3>3. PICK e : e = [proc[p] EXCEPT !.owner = o, !.due = b]
      OBVIOUS
    <3>4. e = WriterOf(proc[p].up, o, proc[p].dropped, b)
      BY <3>1, <3>3, WriterBegins, Zenon
    <3>5. [e EXCEPT !.dropped = n] = WriterOf(proc[p].up, o, n, b)
      <4>1. PICK u : u = proc[p].up
        OBVIOUS
      <4>2. e = WriterOf(u, o, proc[p].dropped, b)
        BY <3>4, <4>1, Zenon
      <4>3. [e EXCEPT !.dropped = n] = WriterOf(u, o, n, b)
        BY <4>2 DEF WriterOf
      <4> QED BY <4>1, <4>3, Zenon
    <3> QED BY <2>8, <3>2, <3>3, <3>5, Zenon
  <2>10. proc' = [proc EXCEPT ![p] = [proc[p] EXCEPT !.owner = o, !.due = FALSE, !.dropped = n]]
    BY <1>0, <1>4, <2>7, Zenon
  <2>11. proc' = [proc EXCEPT ![p] = q]
    BY <2>9, <2>10
  <2>12. q = WriterOf(proc[p].up, T!Opened(p), n, FALSE) /\ FALSE \in BOOLEAN
    BY <2>7, <2>8, Zenon
  <2>13. WritersMove /\ \A x \in Procs : proc'[x].up = proc[x].up
    BY <1>1, <1>2, <1>4, <2>11, <2>12, OwnerWritten, Zenon
  <2>14. CallsMove
    BY <1>1, <2>13, CallBegins
  <2>15. \A x \in T!Ids : x > given' => x > given
    BY <1>0, <1>1 DEF T!Ids
  <2>16. RowsMove
    BY <2>3, <2>4, <2>5, <2>6, <2>15 DEF RowsMove
  <2>17. (reader' # None => \A x \in reader' : DeadOwner(x)) /\ (pager' # None => WalkOn(pager', db.events, calls, given, clock))
    BY <1>1 DEF StatsInv, Buried
  <2>18. clock' \in 0..MaxStatsNow /\ clock <= clock'
    BY <1>0, <1>1, StatsAssumption
  <2> QED BY <2>13, <2>14, <2>16, <2>17, <2>18, StatsGoOn
<1>5. \/ proc' = [proc EXCEPT ![p].dropped = n] /\ UNCHANGED <<db, owned, log>>
      \/ \E kept \in BOOLEAN :
           /\ T!Opens(p) /\ db' = T!Prepared(p, kept) /\ log' = T!Logged(db')
           /\ proc' = [proc EXCEPT ![p].owner = T!Opened(p), ![p].due = FALSE, ![p].dropped = n]
  BY <1>0, <1>2 DEF T!BeginFails, T!Readies
<1> QED BY <1>3, <1>4, <1>5

\* Together: the first states, every step, and what follows.
LEMMA StatsStart == T!Init => StatsInv
<1> SUFFICES ASSUME T!Init PROVE StatsInv
  OBVIOUS
<1>1. PICK old : /\ old \in {None, T!Row(0, 0)}
                 /\ db = [owners |-> {}, events |-> [id \in T!Ids |-> IF id = 1 THEN old ELSE None],
                          rolls |-> [b \in T!Buckets |-> T!NoRoll], dropped |-> 0, recovered |-> 0]
                 /\ log = [id \in T!Ids |-> IF id = 1 THEN old ELSE None]
  BY DEF T!Init
<1>2. /\ clock = 0 /\ given = 1 /\ owned = 0 /\ reader = None /\ pager = None
      /\ proc = [p \in Procs |-> [T!Down EXCEPT !.up = TRUE]] /\ calls = [id \in T!Ids |-> None]
  BY DEF T!Init
<1>3. clock \in 0..MaxStatsNow
  BY <1>2, StatsAssumption
<1>4. old \in T!Rows \cup {None} /\ (old # None => old.outcome = "none")
  BY <1>1, <1>2, <1>3, RowBegins
<1>5. PICK e : e = [id \in T!Ids |-> IF id = 1 THEN old ELSE None]
  OBVIOUS
<1>6. e \in Calls /\ db.events = e /\ log = e /\ \A id \in T!Ids : e[id] # None => id = 1 /\ e[id].outcome = "none"
  BY <1>1, <1>4, <1>5 DEF Calls
<1>7. T!NoRoll \in Tally
  BY StatsAssumption DEF T!NoRoll, Tally
<1>8. db \in Filed
  <2>1. [b \in T!Buckets |-> T!NoRoll] \in [T!Buckets -> Tally]
    BY <1>7
  <2> QED BY <1>1, <1>5, <1>6, <2>1 DEF Filed
<1>9. ASSUME NEW p \in Procs PROVE proc[p] \in Writer /\ proc[p].owner = 0 /\ proc[p].up
  <2>1. T!Down = [up |-> FALSE, owner |-> 0, dropped |-> 0, due |-> TRUE]
    BY Zenon DEF T!Down
  <2>2. PICK r : r = [T!Down EXCEPT !.up = TRUE]
    OBVIOUS
  <2>3. r = WriterOf(TRUE, 0, 0, TRUE)
    BY <2>1, <2>2, Zenon DEF WriterOf
  <2>4. proc[p] = r
    BY <1>2, <2>2, Zenon
  <2>5. WriterOf(TRUE, 0, 0, TRUE) \in Writer /\ WriterOf(TRUE, 0, 0, TRUE).owner = 0
    BY DEF WriterOf, Writer
  <2>6. WriterOf(TRUE, 0, 0, TRUE).up
    BY Zenon DEF WriterOf
  <2> QED BY <2>3, <2>4, <2>5, <2>6
<1>10. StatsTypes
  <2>1. proc \in [Procs -> Writer]
    BY <1>2, <1>9
  <2> QED BY <1>2, <1>3, <1>6, <1>8, <2>1 DEF StatsTypes
<1>11. Fold(e, e) = {}
  BY DEF Fold
<1>12. ASSUME NEW b \in T!Buckets PROVE /\ db.rolls[b].calls = 0 /\ db.rolls[b].ok = 0
                                        /\ FoldIn(e, e, b) = {} /\ FoldOk(e, e, b) = {}
  <2>1. db.rolls[b] = T!NoRoll
    BY <1>1
  <2> QED BY <1>11, <2>1 DEF T!NoRoll, FoldIn, FoldOk
<1>13. Counted(db.events, log, db.rolls)
  BY <1>6, <1>12, FS_EmptySet DEF Counted, Mirrored, Summed
<1>14. OwnersOn
  <2>1. db.owners = {}
    BY <1>1
  <2>2. db.owners \subseteq 1..owned
    BY <2>1
  <2>3. \A p \in Procs : proc[p].owner <= owned /\ (proc[p].owner # 0 => proc[p].up)
    <3> TAKE p \in Procs
    <3>1. proc[p].owner = 0
      BY <1>9
    <3>2. owned = 0
      BY <1>2
    <3> QED BY <3>1, <3>2
  <2>4. \A id \in T!Ids : calls[id] # None => proc[calls[id]].up
    BY <1>2
  <2> QED BY <2>2, <2>3, <2>4 DEF OwnersOn
<1>15. Buried
  BY <1>2, <1>6 DEF Buried
<1>16. NotYet
  <2>1. \A id \in T!Ids : id > given => id # 1
    BY <1>2
  <2> QED BY <1>6, <2>1 DEF NotYet
<1> QED BY <1>2, <1>10, <1>13, <1>14, <1>15, <1>16 DEF StatsInv

LEMMA StatsStep == StatsInv /\ [T!Next]_(T!vars) => StatsInv'
<1> SUFFICES ASSUME StatsInv, [T!Next]_(T!vars) PROVE StatsInv'
  OBVIOUS
<1>1. CASE UNCHANGED T!vars
  <2>1. UNCHANGED <<clock, db, proc, calls, given, owned, log, reader, pager>>
    BY <1>1 DEF T!vars
  <2>2. (reader # None => \A o \in reader : DeadOwner(o)) /\ (pager # None => WalkOn(pager, db.events, calls, given, clock))
    BY DEF StatsInv, Buried
  <2> QED BY <2>1, <2>2, ReadKeepsStats
<1>2. CASE T!Next
  <2>1. CASE T!Tick
    BY <2>1, TickKeeps
  <2>2. CASE T!Look \/ T!Answered \/ T!NextPage \/ T!Paged
    BY <2>2, ReadersKeep
  <2>3. ASSUME NEW p \in Procs, T!Begin(p) PROVE StatsInv'
    BY <2>3, BeginKeeps
  <2>4. ASSUME NEW p \in Procs, T!Close(p) \/ T!Kill(p) \/ T!Restart(p) PROVE StatsInv'
    BY <2>4, ProcessesKeep
  <2>7. ASSUME NEW p \in Procs, T!BeginFails(p) PROVE StatsInv'
    BY <2>7, BeginFailsKeeps
  <2>5. ASSUME NEW id \in T!Ids, T!FinishFails(id) PROVE StatsInv'
    BY <2>5, FinishFailsKeeps
  <2>6. ASSUME NEW id \in T!Ids, NEW outcome \in {"ok", "fail"}, T!Finish(id, outcome) PROVE StatsInv'
    BY <2>6, FinishKeeps
  <2> QED BY <1>2, <2>1, <2>2, <2>3, <2>4, <2>5, <2>6, <2>7 DEF T!Next
<1> QED BY <1>1, <1>2

LEMMA StatsAre == StatsInv => T!StatsAreHonest
<1> SUFFICES ASSUME StatsInv PROVE T!StatsAreHonest
  OBVIOUS
<1>1. StatsTypes /\ Counted(db.events, log, db.rolls)
  BY DEF StatsInv
<1>2. T!AllCounted /\ T!AnswersAreTrue
  BY <1>1, CountedOnce, AnswersHold
<1>3. T!TheLivingAreNotBuried
  BY DEF T!TheLivingAreNotBuried, T!Events, StatsInv, Buried, DeadOwner
<1>4. T!PagesAreWhole
  <2> SUFFICES ASSUME pager # None, ~pager.more, NEW x \in pager.due, x \in T!Failures(pager.until) PROVE x \in pager.seen
    BY DEF T!PagesAreWhole
  <2>1. Failed(db.events, pager.until, x)
    BY FailuresAre
  <2> QED BY <2>1 DEF StatsInv, WalkOn
<1> QED BY <1>2, <1>3, <1>4 DEF T!StatsAreHonest

LEMMA StatsHold == T!Spec => []T!StatsAreHonest
<1> QED BY StatsStart, StatsStep, StatsAre, PTL DEF T!Spec

-----------------------------------------------------------------------------
(* Settings: what each section of the file had to pass is still true of the
   core that is built, and what the overlay brings is about its repository. *)

Repos == {"r1", "r2", "r3"}
Roots == {"p1", "p2", "p3"}
Scales == {"", "small", "large", "other"}
Place == [id : Repos, path : Roots, abs : BOOLEAN, scale : Scales]
Preference == [cap : {"c1", "c9"}, repo : {""} \cup Repos, prefer : {"i1", "i2", "i3", "i9"}]
Parsed(c) ==
  /\ DOMAIN c = DOMAIN S!Shipped /\ (c.number = None \/ c.number[2] \in Int)
  /\ c.repos \in Seq(Place) /\ c.rules \in Seq(Preference)

\* The stages at and after which a check has been passed.
Wired == {"ground", "built"}
Ruled == {"runners"} \cup Wired
Merged == {"register", "rules"} \cup Ruled
Laid == {"overlay"} \cup Merged
Served == {"profiles"} \cup Laid
Picked == {"catalogue", "servers"} \cup Served
Kept == {"selector"} \cup Picked
Orchestrated == {"keeping"} \cup Kept
Cored == {"orchestrator"} \cup Orchestrated
Topped == {"core"} \cup Cored

Attachments == S!Reaches /\ S!Dispatches
Meaningful == \A i \in DOMAIN cfg.rules : S!RuleMeansSomething(cfg.rules[i])
ServersFine == \A i \in DOMAIN cfg.servers : S!ServerOK(cfg.servers[i])

PassedAt(s) ==
  /\ s \in Cored => S!NumbersOf("core")
  /\ s \in Orchestrated => S!NumbersOf("orchestrator") /\ S!PathOK
  /\ s \in Kept => \A x \in {"metrics", "result_cache", "retention", "backup"} : S!NumbersOf(x)
  /\ s \in Picked => S!NumbersOf("selector") /\ S!SerialsOK
  /\ s \in Served => ServersFine
  /\ s \in Ruled => Meaningful
  /\ s \in Wired => Attachments

OverlayTyped ==
  /\ overlay.name \in Repos /\ overlay.root \in Roots /\ (overlay.scale = None \/ overlay.scale \in Scales)
  /\ overlay.blocks \in 0 .. 2 /\ overlay.rules \in S!SeqOf(Preference, 2)

SettingsTypes ==
  /\ stage \in {"load", "top", "refused"} \cup Topped
  /\ file = None \/ Parsed(file)
  /\ OverlayTyped
  /\ stage \in {"top"} \cup Topped => DOMAIN cfg = DOMAIN S!Shipped /\ (cfg.number = None \/ cfg.number[2] \in Int)
  /\ stage \in ({"top"} \cup Topped) \ Merged => Parsed(cfg)
  /\ stage \in {"load", "top"} \cup (Topped \ Laid) => global = None
  /\ stage = "overlay" => global = cfg
  /\ stage \in Merged /\ role = "service" => cfg = global

SettingsInv == SettingsTypes /\ PassedAt(stage) /\ S!OverlayStaysHome

LEMMA SameSettingsCount == \A X : S!Cardinality(X) = Cardinality(X)
  BY DEF S!Cardinality, Cardinality

LEMMA Empties == <<>> \in Seq(Preference) /\ DOMAIN <<>> = {}
  OBVIOUS

LEMMA ShippedIs ==
  /\ DOMAIN S!Shipped = {"number", "retired", "unknown", "contract", "runners", "process", "path", "apps", "serials",
                         "caps", "impls", "repos", "rules", "servers", "profile", "sensitive"}
  /\ S!Shipped.number = None /\ S!Shipped.repos \in Seq(Place) /\ S!Shipped.rules \in Seq(Preference)
<1>1. S!Shipped.repos \in Seq(Place)
  <2>1. S!Shipped.repos = <<[id |-> "r1", path |-> "p1", abs |-> TRUE, scale |-> "small"]>>
    BY DEF S!Shipped
  <2>2. [id |-> "r1", path |-> "p1", abs |-> TRUE, scale |-> "small"] \in Place
    BY DEF Place, Repos, Roots, Scales
  <2> QED BY <2>1, <2>2
<1>2. S!Shipped.rules = <<>> /\ S!Shipped.number = None
  BY DEF S!Shipped
<1> QED BY <1>1, <1>2, Empties DEF S!Shipped

LEMMA SeqOfIs ==
  ASSUME NEW X, NEW Y, X \subseteq Y, NEW m \in Nat, NEW n \in Nat, m <= n, NEW s \in S!SeqOf(X, m)
  PROVE  s \in Seq(Y) /\ s \in S!SeqOf(Y, n)
<1>1. PICK k \in 0 .. m : s \in [1 .. k -> X]
  BY DEF S!SeqOf
<1>2. k \in 0 .. n /\ s \in [1 .. k -> Y]
  BY <1>1
<1>3. s \in S!SeqOf(Y, n)
  BY <1>2 DEF S!SeqOf
<1> QED BY <1>2, <1>3

\* What the parts that say something of these three say of them is well formed.
LEMMA DepartsWell ==
  ASSUME NEW p \in S!Parts, NEW d \in S!Departures[p]
  PROVE  /\ "number" \in DOMAIN d => d["number"][2] \in Int
         /\ "repos" \in DOMAIN d => d["repos"] \in Seq(Place)
         /\ "rules" \in DOMAIN d => d["rules"] \in Seq(Preference)
<1>1. CASE p = "numbers"
  <2>1. d \in [number : S!Fields \X ({S!Bad} \cup -1 .. 3)]
    BY <1>1 DEF S!Departures
  <2> QED BY <2>1 DEF S!Bad
<1>2. CASE p = "catalogue"
  <2>1. DOMAIN d = {"caps", "impls", "rules"} /\ d.rules \in S!SeqOf(S!SameRules, 2)
    BY <1>2 DEF S!Departures
  <2>2. S!SameRules \subseteq Preference
    BY DEF S!SameRules, Preference, Repos
  <2> QED BY <2>1, <2>2, SeqOfIs
<1>3. CASE p = "overlay"
  <2> DEFINE two == [id |-> "r2", path |-> "p2", abs |-> FALSE, scale |-> ""]
  <2>1. /\ DOMAIN d = {"repos", "rules"} /\ (d.repos = S!Shipped.repos \/ d.repos = Append(S!Shipped.repos, two))
        /\ d.rules \in S!SeqOf([cap : {"c1"}, repo : {"", "r1", "r2"}, prefer : {"i1"}], 1)
    BY <1>3 DEF S!Departures
  <2>2. [cap : {"c1"}, repo : {"", "r1", "r2"}, prefer : {"i1"}] \subseteq Preference
    BY DEF Preference, Repos
  <2>3. d.rules \in Seq(Preference)
    <3>1. PICK Few : Few = [cap : {"c1"}, repo : {"", "r1", "r2"}, prefer : {"i1"}]
      OBVIOUS
    <3>2. d.rules \in S!SeqOf(Few, 1) /\ Few \subseteq Preference
      BY <2>1, <2>2, <3>1
    <3> QED BY <3>2, SeqOfIs
  <2>4. two \in Place
    BY DEF Place, Repos, Roots, Scales
  <2> HIDE DEF two
  <2>5. d.repos \in Seq(Place)
    <3>1. S!Shipped.repos \in Seq(Place) /\ Append(S!Shipped.repos, two) \in Seq(Place)
      BY <2>4, ShippedIs, AppendProperties
    <3> QED BY <2>1, <3>1
  <2> QED BY <2>1, <2>3, <2>5
<1>4. CASE p \notin {"numbers", "catalogue", "overlay"}
  <2>1. DOMAIN d \cap {"number", "repos", "rules"} = {}
    <3>1. p \in {"top", "wiring", "lists", "servers", "profiles"}
      BY <1>4 DEF S!Parts, S!Departures
    <3>2. CASE p = "top"
      BY <3>2 DEF S!Departures
    <3>3. CASE p = "wiring"
      BY <3>3 DEF S!Departures
    <3>4. CASE p = "lists"
      BY <3>4 DEF S!Departures
    <3>5. CASE p = "servers"
      BY <3>5 DEF S!Departures
    <3>6. CASE p = "profiles"
      BY <3>6 DEF S!Departures
    <3> QED BY <3>1, <3>2, <3>3, <3>4, <3>5, <3>6
  <2> QED BY <2>1
<1> QED BY <1>1, <1>2, <1>3, <1>4

LEMMA FilesAreParsed == ASSUME NEW p \in S!Parts, NEW f \in S!FilesOf(p) PROVE Parsed(f)
<1>1. PICK d \in S!Departures[p] : f = [k \in DOMAIN S!Shipped |-> IF k \in DOMAIN d THEN d[k] ELSE S!Shipped[k]]
  BY DEF S!FilesOf
<1> QED BY <1>1, ShippedIs, DepartsWell DEF Parsed

LEMMA OverlaysAre ==
  ASSUME NEW o \in S!Overlays \cup {S!NoOverlay}
  PROVE  /\ o.name \in Repos /\ o.root \in Roots /\ (o.scale = None \/ o.scale \in Scales)
         /\ o.blocks \in 0 .. 2 /\ o.rules \in S!SeqOf(Preference, 2)
<1>0. <<>> \in S!SeqOf(Preference, 2)
  <2>1. 0 \in 0 .. 2 /\ <<>> \in [1 .. 0 -> Preference]
    OBVIOUS
  <2> QED BY <2>1 DEF S!SeqOf
<1>1. /\ S!NoOverlay.name \in Repos /\ S!NoOverlay.root \in Roots /\ S!NoOverlay.scale = None
      /\ S!NoOverlay.rules = <<>> /\ S!NoOverlay.blocks = 0
      /\ DOMAIN S!NoOverlay = {"there", "root", "name", "keys", "blocks", "scale", "rules", "sensitive"}
  BY DEF S!NoOverlay, Repos, Roots
<1> DEFINE One == S!SeqOf([cap : {"c1", "c9"}, repo : {"", "r1"}, prefer : {"i1", "i9"}], 1)
<1> DEFINE Two == S!SeqOf([cap : {"c1"}, repo : {"", "r1"}, prefer : {"i1", "i9"}], 2)
<1> DEFINE Written == [there : {"file"}, root : {"p1", "p2", "p3"}, name : {"r1", "r3"}, keys : {"ours"}, blocks : 0 .. 2,
                     scale : {"large", "other"}, sensitive : {None, {"s2"}}, rules : One \cup Two]
<1>2. \A s \in One \cup Two : s \in S!SeqOf(Preference, 2)
  <2>1. [cap : {"c1", "c9"}, repo : {"", "r1"}, prefer : {"i1", "i9"}] \subseteq Preference
    BY DEF Preference, Repos
  <2>2. [cap : {"c1"}, repo : {"", "r1"}, prefer : {"i1", "i9"}] \subseteq Preference
    BY DEF Preference, Repos
  <2>3. ASSUME NEW X, X \subseteq Preference, NEW n \in {1, 2}, NEW s \in S!SeqOf(X, n) PROVE s \in S!SeqOf(Preference, 2)
    BY <2>3, SeqOfIs
  <2> QED BY <2>1, <2>2, <2>3, Zenon
<1>3. \/ o = S!NoOverlay \/ o \in Written
      \/ o = [S!NoOverlay EXCEPT !.there = "folder"]
      \/ o = [S!NoOverlay EXCEPT !.there = "off", !.sensitive = {"s2"}]
      \/ o = [S!NoOverlay EXCEPT !.there = "file", !.keys = "refused"]
  BY DEF S!Overlays
<1> HIDE DEF One, Two
<1>4. CASE o \in Written
  BY <1>2, <1>4 DEF Repos, Roots, Scales
<1>5. CASE o \notin Written
  <2>1. /\ o.name = S!NoOverlay.name /\ o.root = S!NoOverlay.root /\ o.scale = S!NoOverlay.scale
       /\ o.rules = S!NoOverlay.rules /\ o.blocks = S!NoOverlay.blocks
    BY <1>1, <1>3, <1>5
  <2> QED BY <1>0, <1>1, <2>1
<1> QED BY <1>4, <1>5

LEMMA SettingsStart == S!Init => SettingsInv
<1> SUFFICES ASSUME S!Init PROVE SettingsInv
  OBVIOUS
<1>1. stage = "load" /\ global = None /\ part \in S!Parts
  BY DEF S!Init
<1>2. file = None \/ Parsed(file)
  BY FilesAreParsed DEF S!Init
<1>3. overlay \in S!Overlays \cup {S!NoOverlay}
  BY DEF S!Init
<1>4. SettingsTypes
  BY <1>1, <1>2, <1>3, OverlaysAre DEF SettingsTypes, OverlayTyped, Wired, Ruled, Merged, Laid, Served, Picked, Kept, Orchestrated, Cored, Topped
<1>5. PassedAt(stage)
  BY <1>1 DEF PassedAt, Wired, Ruled, Merged, Laid, Served, Picked, Kept, Orchestrated, Cored, Topped
<1> QED BY <1>1, <1>4, <1>5 DEF SettingsInv, S!OverlayStaysHome

\* Load, and any refusal.
LEMMA SettingsRefuse ==
  ASSUME SettingsInv, stage' = "refused", UNCHANGED <<file, overlay>>
  PROVE  SettingsInv'
<1>1. SettingsTypes'
  BY DEF SettingsInv, SettingsTypes, OverlayTyped, Wired, Ruled, Merged, Laid, Served, Picked, Kept, Orchestrated, Cored, Topped
<1>2. PassedAt(stage)'
  BY DEF PassedAt, Wired, Ruled, Merged, Laid, Served, Picked, Kept, Orchestrated, Cored, Topped
<1> QED BY <1>1, <1>2 DEF SettingsInv, S!OverlayStaysHome

LEMMA SettingsLoad == ASSUME SettingsInv, NEW named \in BOOLEAN, S!Load(named) PROVE SettingsInv'
<1>1. CASE stage' = "refused"
  BY <1>1, SettingsRefuse DEF S!Load
<1>2. CASE stage' # "refused"
  <2>1. stage = "load" /\ stage' = "top" /\ UNCHANGED <<file, overlay, role, global>> /\ cfg' = (IF file = None THEN S!Shipped ELSE file)
    BY <1>2 DEF S!Load, S!Refuse
  <2>2. global' = None
    BY <2>1 DEF SettingsInv, SettingsTypes
  <2>3. Parsed(S!Shipped)
    BY ShippedIs DEF Parsed
  <2>4. Parsed(cfg)'
    BY <2>1, <2>3 DEF SettingsInv, SettingsTypes, Parsed
  <2>5. SettingsTypes'
    BY <2>1, <2>2, <2>4 DEF SettingsInv, SettingsTypes, OverlayTyped, Parsed, Wired, Ruled, Merged, Laid, Served, Picked, Kept, Orchestrated, Cored, Topped
  <2>6. PassedAt(stage)'
    BY <2>1 DEF PassedAt, Wired, Ruled, Merged, Laid, Served, Picked, Kept, Orchestrated, Cored, Topped
  <2> QED BY <2>2, <2>5, <2>6 DEF SettingsInv, S!OverlayStaysHome
<1> QED BY <1>1, <1>2

\* A check of what the file says of itself reads nothing the overlay may add to.
LEMMA ChecksRest ==
  ASSUME cfg'.number = cfg.number, cfg'.path = cfg.path, cfg'.serials = cfg.serials, cfg'.servers = cfg.servers
  PROVE  /\ \A x : S!NumbersOf(x)' <=> S!NumbersOf(x)
         /\ S!PathOK' <=> S!PathOK
         /\ S!SerialsOK' <=> S!SerialsOK
         /\ ServersFine' <=> ServersFine
<1>1. \A x : S!NumbersOf(x)' <=> S!NumbersOf(x)
  BY DEF S!NumbersOf
<1>2. S!PathOK' <=> S!PathOK
  BY DEF S!PathOK
<1>3. S!SerialsOK' <=> S!SerialsOK
  BY DEF S!SerialsOK
<1>4. ServersFine' <=> ServersFine
  BY DEF ServersFine
<1> QED BY <1>1, <1>2, <1>3, <1>4

\* And the checks of core.New read what it says in the end.
LEMMA MeaningRests == ASSUME cfg' = cfg PROVE (Meaningful' <=> Meaningful) /\ (Attachments' <=> Attachments)
<1>1. Meaningful' <=> Meaningful
  BY DEF Meaningful, S!RuleMeansSomething, S!CapOf
<1>2. Attachments' <=> Attachments
  BY DEF Attachments, S!CapOf, S!Reaches, S!Dispatches, S!Attached
<1> QED BY <1>1, <1>2

\* A step that only goes on, having passed what the next stage asks for.
LEMMA SettingsGoOn ==
  ASSUME SettingsInv, UNCHANGED <<cfg, global, file, overlay, role>>, PassedAt(stage'),
         \/ stage \in {"top"} \cup (Topped \ Laid) /\ stage' \in Topped \ Laid
         \/ stage \in {"overlay"} \cup Merged /\ stage' \in Merged
  PROVE  SettingsInv'
<1>1. SettingsTypes'
  BY DEF SettingsInv, SettingsTypes, OverlayTyped, Parsed, Wired, Ruled, Merged, Laid, Served, Picked, Kept, Orchestrated, Cored, Topped
<1>2. PassedAt(stage)'
  BY ChecksRest, MeaningRests DEF PassedAt
<1>3. S!OverlayStaysHome'
  <2>1. CASE stage' \notin Merged
    <3>1. global' = None
      BY <2>1 DEF SettingsInv, SettingsTypes, Wired, Ruled, Merged, Laid, Served, Picked, Kept, Orchestrated, Cored, Topped
    <3> QED BY <3>1 DEF S!OverlayStaysHome
  <2>2. CASE stage' \in Merged
    <3>1. stage \notin {"refused", "load"}
      BY <2>2 DEF Wired, Ruled, Merged, Laid, Served, Picked, Kept, Orchestrated, Cored, Topped
    <3> QED BY <3>1 DEF SettingsInv, S!OverlayStaysHome
  <2> QED BY <2>1, <2>2
<1> QED BY <1>1, <1>2, <1>3 DEF SettingsInv

LEMMA SettingsSteps ==
  ASSUME SettingsInv,
         \/ S!ParseTop \/ S!BuildCore \/ S!BuildOrchestrator \/ S!BuildKeeping \/ S!BuildSelector \/ S!BuildCatalogue
         \/ S!BuildServers \/ S!Register \/ S!CheckRules \/ S!BuildRunners \/ S!Ground
  PROVE  SettingsInv'
<1>0. PassedAt(stage)
  BY DEF SettingsInv
<1>1. CASE S!ParseTop
  <2>1. stage = "top" /\ UNCHANGED <<file, overlay, role>>
    BY <1>1 DEF S!ParseTop, S!Step
  <2>2. CASE stage' = "refused"
    BY <2>1, <2>2, SettingsRefuse
  <2>3. CASE stage' # "refused"
    <3>1. stage' = "core" /\ UNCHANGED <<cfg, global>>
      BY <1>1, <2>3 DEF S!ParseTop, S!Step, S!Goes, S!Refuse
    <3>2. PassedAt(stage')
      BY <1>0, <1>1, <2>1, <2>3, <3>1 DEF PassedAt, S!ParseTop, S!Step, S!Refuse, Wired, Ruled, Merged, Laid, Served, Picked, Kept, Orchestrated, Cored, Topped
    <3> QED BY <2>1, <3>1, <3>2, SettingsGoOn DEF Wired, Ruled, Merged, Laid, Served, Picked, Kept, Orchestrated, Cored, Topped
  <2> QED BY <2>2, <2>3
<1>2. CASE S!BuildCore
  <2>1. stage = "core" /\ UNCHANGED <<file, overlay, role>>
    BY <1>2 DEF S!BuildCore, S!Step
  <2>2. CASE stage' = "refused"
    BY <2>1, <2>2, SettingsRefuse
  <2>3. CASE stage' # "refused"
    <3>1. stage' = "orchestrator" /\ UNCHANGED <<cfg, global>>
      BY <1>2, <2>3 DEF S!BuildCore, S!Step, S!Goes, S!Refuse
    <3>2. PassedAt(stage')
      BY <1>0, <1>2, <2>1, <2>3, <3>1 DEF PassedAt, S!BuildCore, S!Step, S!Refuse, Wired, Ruled, Merged, Laid, Served, Picked, Kept, Orchestrated, Cored, Topped
    <3> QED BY <2>1, <3>1, <3>2, SettingsGoOn DEF Wired, Ruled, Merged, Laid, Served, Picked, Kept, Orchestrated, Cored, Topped
  <2> QED BY <2>2, <2>3
<1>3. CASE S!BuildOrchestrator
  <2>1. stage = "orchestrator" /\ UNCHANGED <<file, overlay, role>>
    BY <1>3 DEF S!BuildOrchestrator, S!Step
  <2>2. CASE stage' = "refused"
    BY <2>1, <2>2, SettingsRefuse
  <2>3. CASE stage' # "refused"
    <3>1. stage' = "keeping" /\ UNCHANGED <<cfg, global>>
      BY <1>3, <2>3 DEF S!BuildOrchestrator, S!Step, S!Goes, S!Refuse
    <3>2. PassedAt(stage')
      BY <1>0, <1>3, <2>1, <2>3, <3>1 DEF PassedAt, S!BuildOrchestrator, S!Step, S!Refuse, Wired, Ruled, Merged, Laid, Served, Picked, Kept, Orchestrated, Cored, Topped
    <3> QED BY <2>1, <3>1, <3>2, SettingsGoOn DEF Wired, Ruled, Merged, Laid, Served, Picked, Kept, Orchestrated, Cored, Topped
  <2> QED BY <2>2, <2>3
<1>4. CASE S!BuildKeeping
  <2>1. stage = "keeping" /\ UNCHANGED <<file, overlay, role>>
    BY <1>4 DEF S!BuildKeeping, S!Step
  <2>2. CASE stage' = "refused"
    BY <2>1, <2>2, SettingsRefuse
  <2>3. CASE stage' # "refused"
    <3>1. stage' = "selector" /\ UNCHANGED <<cfg, global>>
      BY <1>4, <2>3 DEF S!BuildKeeping, S!Step, S!Goes, S!Refuse
    <3>2. PassedAt(stage')
      BY <1>0, <1>4, <2>1, <2>3, <3>1 DEF PassedAt, S!BuildKeeping, S!Step, S!Refuse, Wired, Ruled, Merged, Laid, Served, Picked, Kept, Orchestrated, Cored, Topped
    <3> QED BY <2>1, <3>1, <3>2, SettingsGoOn DEF Wired, Ruled, Merged, Laid, Served, Picked, Kept, Orchestrated, Cored, Topped
  <2> QED BY <2>2, <2>3
<1>5. CASE S!BuildSelector
  <2>1. stage = "selector" /\ UNCHANGED <<file, overlay, role>>
    BY <1>5 DEF S!BuildSelector, S!Step
  <2>2. CASE stage' = "refused"
    BY <2>1, <2>2, SettingsRefuse
  <2>3. CASE stage' # "refused"
    <3>1. stage' = "catalogue" /\ UNCHANGED <<cfg, global>>
      BY <1>5, <2>3 DEF S!BuildSelector, S!Step, S!Goes, S!Refuse
    <3>2. PassedAt(stage')
      BY <1>0, <1>5, <2>1, <2>3, <3>1 DEF PassedAt, S!BuildSelector, S!Step, S!Refuse, Wired, Ruled, Merged, Laid, Served, Picked, Kept, Orchestrated, Cored, Topped
    <3> QED BY <2>1, <3>1, <3>2, SettingsGoOn DEF Wired, Ruled, Merged, Laid, Served, Picked, Kept, Orchestrated, Cored, Topped
  <2> QED BY <2>2, <2>3
<1>6. CASE S!BuildCatalogue
  <2>1. stage = "catalogue" /\ UNCHANGED <<file, overlay, role>>
    BY <1>6 DEF S!BuildCatalogue, S!Step
  <2>2. CASE stage' = "refused"
    BY <2>1, <2>2, SettingsRefuse
  <2>3. CASE stage' # "refused"
    <3>1. stage' = "servers" /\ UNCHANGED <<cfg, global>>
      BY <1>6, <2>3 DEF S!BuildCatalogue, S!Step, S!Goes, S!Refuse
    <3>2. PassedAt(stage')
      BY <1>0, <1>6, <2>1, <2>3, <3>1 DEF PassedAt, S!BuildCatalogue, S!Step, S!Refuse, Wired, Ruled, Merged, Laid, Served, Picked, Kept, Orchestrated, Cored, Topped
    <3> QED BY <2>1, <3>1, <3>2, SettingsGoOn DEF Wired, Ruled, Merged, Laid, Served, Picked, Kept, Orchestrated, Cored, Topped
  <2> QED BY <2>2, <2>3
<1>7. CASE S!BuildServers
  <2>1. stage = "servers" /\ UNCHANGED <<file, overlay, role>>
    BY <1>7 DEF S!BuildServers, S!Step
  <2>2. CASE stage' = "refused"
    BY <2>1, <2>2, SettingsRefuse
  <2>3. CASE stage' # "refused"
    <3>1. stage' = "profiles" /\ UNCHANGED <<cfg, global>>
      BY <1>7, <2>3 DEF S!BuildServers, S!Step, S!Goes, S!Refuse
    <3>2. PassedAt(stage')
      BY <1>0, <1>7, <2>1, <2>3, <3>1 DEF PassedAt, ServersFine, S!BuildServers, S!Step, S!Refuse, Wired, Ruled, Merged, Laid, Served, Picked, Kept, Orchestrated, Cored, Topped
    <3> QED BY <2>1, <3>1, <3>2, SettingsGoOn DEF Wired, Ruled, Merged, Laid, Served, Picked, Kept, Orchestrated, Cored, Topped
  <2> QED BY <2>2, <2>3
<1>8. CASE S!Register
  <2>1. stage = "register" /\ UNCHANGED <<file, overlay, role>>
    BY <1>8 DEF S!Register, S!Step
  <2>2. CASE stage' = "refused"
    BY <2>1, <2>2, SettingsRefuse
  <2>3. CASE stage' # "refused"
    <3>1. stage' = "rules" /\ UNCHANGED <<cfg, global>>
      BY <1>8, <2>3 DEF S!Register, S!Step, S!Goes, S!Refuse
    <3>2. PassedAt(stage')
      BY <1>0, <1>8, <2>1, <2>3, <3>1 DEF PassedAt, S!Register, S!Step, S!Refuse, Wired, Ruled, Merged, Laid, Served, Picked, Kept, Orchestrated, Cored, Topped
    <3> QED BY <2>1, <3>1, <3>2, SettingsGoOn DEF Wired, Ruled, Merged, Laid, Served, Picked, Kept, Orchestrated, Cored, Topped
  <2> QED BY <2>2, <2>3
<1>9. CASE S!CheckRules
  <2>1. stage = "rules" /\ UNCHANGED <<file, overlay, role>>
    BY <1>9 DEF S!CheckRules, S!Step
  <2>2. CASE stage' = "refused"
    BY <2>1, <2>2, SettingsRefuse
  <2>3. CASE stage' # "refused"
    <3>1. stage' = "runners" /\ UNCHANGED <<cfg, global>>
      BY <1>9, <2>3 DEF S!CheckRules, S!Step, S!Goes, S!Refuse
    <3>2. PassedAt(stage')
      BY <1>0, <1>9, <2>1, <2>3, <3>1 DEF PassedAt, Meaningful, S!CheckRules, S!Step, S!Refuse, Wired, Ruled, Merged, Laid, Served, Picked, Kept, Orchestrated, Cored, Topped
    <3> QED BY <2>1, <3>1, <3>2, SettingsGoOn DEF Wired, Ruled, Merged, Laid, Served, Picked, Kept, Orchestrated, Cored, Topped
  <2> QED BY <2>2, <2>3
<1>10. CASE S!BuildRunners
  <2>1. stage = "runners" /\ UNCHANGED <<file, overlay, role>>
    BY <1>10 DEF S!BuildRunners, S!Step
  <2>2. CASE stage' = "refused"
    BY <2>1, <2>2, SettingsRefuse
  <2>3. CASE stage' # "refused"
    <3>1. stage' = "ground" /\ UNCHANGED <<cfg, global>>
      BY <1>10, <2>3 DEF S!BuildRunners, S!Step, S!Goes, S!Refuse
    <3>2. PassedAt(stage')
      BY <1>0, <1>10, <2>1, <2>3, <3>1 DEF PassedAt, Attachments, S!BuildRunners, S!Step, S!Refuse, Wired, Ruled, Merged, Laid, Served, Picked, Kept, Orchestrated, Cored, Topped
    <3> QED BY <2>1, <3>1, <3>2, SettingsGoOn DEF Wired, Ruled, Merged, Laid, Served, Picked, Kept, Orchestrated, Cored, Topped
  <2> QED BY <2>2, <2>3
<1>11. CASE S!Ground
  <2>1. stage = "ground" /\ UNCHANGED <<file, overlay, role>>
    BY <1>11 DEF S!Ground, S!Step
  <2>2. CASE stage' = "refused"
    BY <2>1, <2>2, SettingsRefuse
  <2>3. CASE stage' # "refused"
    <3>1. stage' = "built" /\ UNCHANGED <<cfg, global>>
      BY <1>11, <2>3 DEF S!Ground, S!Step, S!Goes, S!Refuse
    <3>2. PassedAt(stage')
      BY <1>0, <1>11, <2>1, <2>3, <3>1 DEF PassedAt, S!Ground, S!Step, S!Refuse, Wired, Ruled, Merged, Laid, Served, Picked, Kept, Orchestrated, Cored, Topped
    <3> QED BY <2>1, <3>1, <3>2, SettingsGoOn DEF Wired, Ruled, Merged, Laid, Served, Picked, Kept, Orchestrated, Cored, Topped
  <2> QED BY <2>2, <2>3
<1> QED BY <1>1, <1>2, <1>3, <1>4, <1>5, <1>6, <1>7, <1>8, <1>9, <1>10, <1>11

LEMMA SettingsProfiles == ASSUME SettingsInv, S!BuildProfiles PROVE SettingsInv'
<1>0. PassedAt(stage) /\ stage = "profiles" /\ UNCHANGED <<file, overlay, role>>
  BY DEF SettingsInv, S!BuildProfiles
<1>1. CASE stage' = "refused"
  BY <1>0, <1>1, SettingsRefuse
<1>2. CASE stage' # "refused"
  <2>1. stage' = "overlay" /\ global' = cfg /\ cfg' = cfg
    BY <1>2 DEF S!BuildProfiles, S!Refuse
  <2>2. SettingsTypes'
    BY <1>0, <2>1 DEF SettingsInv, SettingsTypes, OverlayTyped, Parsed, Wired, Ruled, Merged, Laid, Served, Picked, Kept, Orchestrated, Cored, Topped
  <2>3. PassedAt(stage')
    BY <1>0, <2>1 DEF PassedAt, Wired, Ruled, Merged, Laid, Served, Picked, Kept, Orchestrated, Cored, Topped
  <2>4. PassedAt(stage)'
    BY <2>1, <2>3, ChecksRest, MeaningRests DEF PassedAt
  <2>5. cfg' = global'
    BY <2>1
  <2>6. S!OverlayStaysHome'
    BY <2>5 DEF S!OverlayStaysHome, S!ToSet
  <2> QED BY <2>2, <2>4, <2>6 DEF SettingsInv
<1> QED BY <1>1, <1>2

\* What was built is sound, given that all was passed on the way.
LEMMA AcceptedIs ==
  ASSUME cfg.number = None \/ cfg.number[2] \in Int, NEW s, S!NumbersOf(s), NEW k \in S!Of[s], S!Least[k] \in Int
  PROVE  S!Number(k) \in Int /\ (S!Least[k] <= 1 => S!Number(k) >= S!Least[k])
<1>1. CASE cfg.number # None /\ cfg.number[1] = k
  <2>1. S!Accepted(cfg.number[1], cfg.number[2]) /\ S!Number(k) = cfg.number[2]
    BY <1>1 DEF S!NumbersOf, S!Number
  <2> QED BY <1>1, <2>1 DEF S!Accepted
<1>2. CASE ~(cfg.number # None /\ cfg.number[1] = k)
  <2>1. S!Number(k) = 1
    BY <1>2 DEF S!Number
  <2> QED BY <2>1
<1> QED BY <1>1, <1>2

LEMMA BuiltSound == SettingsInv => S!BuiltIsSound
<1> SUFFICES ASSUME SettingsInv, stage = "built" PROVE S!BuiltIsSound
  BY DEF S!BuiltIsSound
<1>1. /\ S!NumbersOf("core") /\ S!NumbersOf("orchestrator") /\ S!PathOK /\ S!NumbersOf("metrics") /\ S!NumbersOf("result_cache")
      /\ S!NumbersOf("retention") /\ S!NumbersOf("backup") /\ S!NumbersOf("selector") /\ S!SerialsOK /\ ServersFine
      /\ Meaningful /\ Attachments
  BY DEF SettingsInv, PassedAt, Wired, Ruled, Merged, Laid, Served, Picked, Kept, Orchestrated, Cored
<1>2. (cfg.number = None \/ cfg.number[2] \in Int) /\ (role = "service" => cfg = global)
  BY DEF SettingsInv, SettingsTypes, OverlayTyped, Wired, Ruled, Merged, Laid, Served, Picked, Kept, Orchestrated, Cored, Topped
<1>3. /\ S!Number("flush") > 0 /\ S!Number("compact") > 0 /\ S!Number("backup_every") > 0 /\ S!Number("retention_every") > 0
      /\ S!Number("backup_keep") > 0 /\ S!Number("buffer_limit") > 0 /\ S!Number("max_entries") > 0 /\ S!Number("max_bytes") > 0
      /\ S!Number("ttl") > 0 /\ S!Number("budget_usd") > 0 /\ S!Number("timeout") > 0 /\ S!Number("health_stale_after") > 0
      /\ S!Number("restart_limit") >= 0
  <2>1. /\ S!Least["flush"] = 1 /\ S!Least["compact"] = 1 /\ S!Least["backup_every"] = 1 /\ S!Least["retention_every"] = 1
        /\ S!Least["backup_keep"] = 1 /\ S!Least["buffer_limit"] = 1 /\ S!Least["max_entries"] = 1 /\ S!Least["max_bytes"] = 1
        /\ S!Least["ttl"] = 1 /\ S!Least["budget_usd"] = 1 /\ S!Least["timeout"] = 1 /\ S!Least["health_stale_after"] = 1
        /\ S!Least["restart_limit"] = 0
    BY DEF S!Least
  <2>2. /\ {"flush", "compact", "buffer_limit"} \subseteq S!Of["metrics"] /\ {"backup_every", "backup_keep"} \subseteq S!Of["backup"]
        /\ "retention_every" \in S!Of["retention"] /\ {"max_entries", "max_bytes", "ttl"} \subseteq S!Of["result_cache"]
        /\ {"budget_usd", "timeout", "restart_limit"} \subseteq S!Of["orchestrator"] /\ "health_stale_after" \in S!Of["selector"]
    BY DEF S!Of
  <2>3. /\ S!Number("flush") > 0 /\ S!Number("compact") > 0 /\ S!Number("buffer_limit") > 0
    BY <1>1, <1>2, <2>1, <2>2, AcceptedIs
  <2>4. /\ S!Number("backup_every") > 0 /\ S!Number("backup_keep") > 0 /\ S!Number("retention_every") > 0
    BY <1>1, <1>2, <2>1, <2>2, AcceptedIs
  <2>5. /\ S!Number("max_entries") > 0 /\ S!Number("max_bytes") > 0 /\ S!Number("ttl") > 0
    BY <1>1, <1>2, <2>1, <2>2, AcceptedIs
  <2>6. /\ S!Number("budget_usd") > 0 /\ S!Number("timeout") > 0 /\ S!Number("health_stale_after") > 0 /\ S!Number("restart_limit") >= 0
    BY <1>1, <1>2, <2>1, <2>2, AcceptedIs
  <2> QED BY <2>3, <2>4, <2>5, <2>6
<1>4. \A b \in S!Beats : b > 0
  <2>1. ASSUME NEW b \in S!Beats PROVE b > 0
    <3>1. \/ b \in {S!Number("flush"), S!Number("compact"), S!Number("backup_every"), S!Number("retention_every")}
          \/ b = S!Number("health_probe_every") /\ b > 0
      BY <2>1 DEF S!Beats
    <3> QED BY <1>3, <3>1
  <2> QED BY <2>1
<1>5. ASSUME NEW i \in DOMAIN cfg.servers, NEW s, s = cfg.servers[i], NEW t \in s.tools, NEW m \in BOOLEAN
      PROVE  s.expose = "raw" /\ S!EffectsFor(s, t, m) # {}
  <2>1. S!ServerOK(s)
    BY <1>1, <1>5 DEF ServersFine
  <2>2. s.expose = "raw"
    BY <1>5, <2>1 DEF S!ServerOK
  <2>3. s.effects # {} /\ (s.narrow # None => s.narrow.effects # {} /\ s.narrow.when # {})
    BY <2>1, <2>2 DEF S!ServerOK
  <2> QED BY <2>2, <2>3 DEF S!EffectsFor
<1>6. \A id \in S!Direct : S!Exposed(id) # {"raw"}
  <2>1. \A id \in S!Direct : S!Exposed(id) = {"on"}
    BY DEF S!Direct
  <2>2. {"on"} # {"raw"}
    OBVIOUS
  <2> QED BY <2>1, <2>2
<1>7. \A i \in DOMAIN cfg.rules : S!CapOf(cfg.rules[i].prefer) = {cfg.rules[i].cap}
  BY <1>1 DEF Meaningful, S!RuleMeansSomething
<1>8. ASSUME NEW id PROVE S!Cardinality({a \in S!Attached : id \in S!Serves[a]}) <= 1
  <2>1. PICK them : them = {a \in S!Attached : id \in S!Serves[a]}
    OBVIOUS
  <2>2. \A a, b \in them : a = b
    BY <1>1, <2>1 DEF Attachments, S!Reaches
  <2>3. CASE them = {}
    BY <2>1, <2>3, SameSettingsCount, FS_EmptySet
  <2>4. CASE them # {}
    <3>1. PICK a : them = {a}
      BY <2>2, <2>4
    <3>2. Cardinality({a}) = 1
      BY FS_Singleton
    <3> QED BY <2>1, <3>1, <3>2, SameSettingsCount
  <2> QED BY <2>3, <2>4
<1>9. \A a \in S!Attached, id \in S!Ids(cfg.impls) : id \in S!Serves[a] => S!CapOf(id) \subseteq S!Runs[a]
  BY <1>1 DEF Attachments, S!Dispatches
<1>10. cfg.path # "relative" /\ \A i \in DOMAIN cfg.serials : cfg.serials[i] \notin {"", "*"}
  BY <1>1 DEF S!PathOK, S!SerialsOK, S!ToSet
<1> HIDE DEF SettingsInv
<1> QED BY <1>2, <1>3, <1>4, <1>5, <1>6, <1>7, <1>8, <1>9, <1>10 DEF S!BuiltIsSound

(* The overlay. *)

NoRepeats(rules) == \A i, j \in DOMAIN rules : i # j => ~S!Repeats(rules[i], rules[j])
\* A rule that is not of the machine's file is about this repository.
OfHere(rules) == \A i \in DOMAIN rules : rules[i] \in S!ToSet(cfg.rules) \/ rules[i].repo = S!MyId

LEMMA MyIdIs == ASSUME Parsed(cfg), OverlayTyped PROVE S!MyId \in Repos
<1>1. ASSUME S!Mine # {} PROVE S!MyId \in Repos
  <2>1. PICK k : k = (CHOOSE i \in S!Mine : TRUE)
    OBVIOUS
  <2>2. k \in DOMAIN cfg.repos
    BY <1>1, <2>1 DEF S!Mine
  <2>3. cfg.repos[k] \in Place
    BY <2>2 DEF Parsed
  <2>4. cfg.repos[k].id \in Repos
    BY <2>3 DEF Place
  <2> QED BY <1>1, <2>1, <2>4 DEF S!MyId
<1> QED BY <1>1 DEF S!MyId, OverlayTyped

\* A rule of the overlay takes the place of the one it repeats or comes last.
LEMMA MergeIs ==
  ASSUME NEW rules \in Seq(Preference), NEW r
  PROVE  \/ (\A j \in DOMAIN rules : ~S!Repeats(S!Scoped(r), rules[j])) /\ S!Merge(rules, r) = Append(rules, S!Scoped(r))
         \/ \E i \in DOMAIN rules : S!Repeats(S!Scoped(r), rules[i]) /\ S!Merge(rules, r) = [rules EXCEPT ![i] = S!Scoped(r)]
<1>1. PICK s : s = S!Scoped(r)
  OBVIOUS
<1>2. PICK those : those = {i \in 1 .. Len(rules) : S!Repeats(s, rules[i])}
  OBVIOUS
<1>3. PICK i : i = IF those # {} THEN S!Min(those) ELSE 0
  OBVIOUS
<1>4. S!Merge(rules, r) = IF i = 0 THEN Append(rules, s) ELSE [rules EXCEPT ![i] = s]
  BY <1>1, <1>2, <1>3 DEF S!Merge, S!SelectInSeq
<1>5. CASE those = {}
  <2>1. \A j \in DOMAIN rules : ~S!Repeats(s, rules[j])
    BY <1>2, <1>5
  <2>2. i = 0
    BY <1>3, <1>5
  <2> QED BY <1>1, <1>4, <2>1, <2>2
<1>6. CASE those # {}
  <2>1. those \in SUBSET Nat
    BY <1>2
  <2>2. i \in those
    BY <1>3, <1>6, <2>1, FirstNumber DEF S!Min
  <2>3. i \in DOMAIN rules /\ i # 0
    BY <1>2, <2>2
  <2> QED BY <1>1, <1>2, <1>4, <2>2, <2>3
<1> QED BY <1>5, <1>6

LEMMA MergeKeeps ==
  ASSUME Parsed(cfg), OverlayTyped, NEW rules \in Seq(Preference), OfHere(rules), NEW r \in Preference
  PROVE  /\ S!Merge(rules, r) \in Seq(Preference) /\ OfHere(S!Merge(rules, r))
         /\ NoRepeats(rules) => NoRepeats(S!Merge(rules, r))
<1>1. PICK s : s = S!Scoped(r)
  OBVIOUS
<1>2. s \in Preference /\ s.repo = S!MyId
  BY <1>1, MyIdIs DEF S!Scoped, Preference
<1>3. PICK m : m = S!Merge(rules, r)
  OBVIOUS
<1>4. CASE (\A j \in DOMAIN rules : ~S!Repeats(s, rules[j])) /\ m = Append(rules, s)
  <2>1. /\ m \in Seq(Preference) /\ DOMAIN m = 1 .. Len(rules) + 1 /\ Len(rules) \in Nat
        /\ \A i \in DOMAIN rules : m[i] = rules[i]
        /\ m[Len(rules) + 1] = s
    BY <1>2, <1>4, AppendProperties
  <2>2. \A i \in DOMAIN m : i \in DOMAIN rules \/ i = Len(rules) + 1
    BY <2>1
  <2>3. OfHere(m)
    BY <1>2, <2>1, <2>2 DEF OfHere
  <2>4. ASSUME NoRepeats(rules), NEW i \in DOMAIN m, NEW j \in DOMAIN m, i # j, S!Repeats(m[i], m[j]) PROVE FALSE
    <3>1. CASE i \in DOMAIN rules /\ j \in DOMAIN rules
      BY <2>1, <2>4, <3>1 DEF NoRepeats
    <3>2. CASE i = Len(rules) + 1
      BY <1>4, <2>1, <2>2, <2>4, <3>2
    <3>3. CASE j = Len(rules) + 1
      BY <1>4, <2>1, <2>2, <2>4, <3>3 DEF S!Repeats
    <3> QED BY <2>2, <3>1, <3>2, <3>3
  <2> QED BY <1>3, <2>1, <2>3, <2>4 DEF NoRepeats
<1>5. ASSUME NEW k \in DOMAIN rules, S!Repeats(s, rules[k]), m = [rules EXCEPT ![k] = s]
      PROVE  m \in Seq(Preference) /\ OfHere(m) /\ (NoRepeats(rules) => NoRepeats(m))
  <2>1. m \in Seq(Preference) /\ DOMAIN m = DOMAIN rules /\ \A i \in DOMAIN rules : m[i] = IF i = k THEN s ELSE rules[i]
    BY <1>2, <1>5
  <2>2. OfHere(m)
    BY <1>2, <2>1 DEF OfHere
  <2>3. ASSUME NoRepeats(rules), NEW i \in DOMAIN m, NEW j \in DOMAIN m, i # j, S!Repeats(m[i], m[j]) PROVE FALSE
    <3>1. S!Repeats(rules[i], rules[j])
      BY <1>5, <2>1, <2>3 DEF S!Repeats
    <3> QED BY <2>1, <2>3, <3>1 DEF NoRepeats
  <2> QED BY <2>1, <2>2, <2>3 DEF NoRepeats
<1> QED BY <1>1, <1>3, <1>4, <1>5, MergeIs

\* The merges, one after another.
Merging(g, rules, laid) ==
  g = [s \in SUBSET DOMAIN laid |-> IF s = {} THEN rules ELSE S!Merge(g[s \ {S!Max(s)}], laid[S!Max(s)])]

LEMMA MergedAre ==
  ASSUME NEW rules, NEW laid \in S!SeqOf(Preference, 2)
  PROVE  \/ laid = <<>> /\ S!FoldLeft(S!Merge, rules, laid) = rules
         \/ laid # <<>> /\ \E x \in Preference : S!FoldLeft(S!Merge, rules, laid) = S!Merge(rules, x)
         \/ laid # <<>> /\ \E x, y \in Preference : S!FoldLeft(S!Merge, rules, laid) = S!Merge(S!Merge(rules, x), y)
<1>1. PICK n \in 0 .. 2 : laid \in [1 .. n -> Preference]
  BY DEF S!SeqOf
<1>2. S!FoldLeft(S!Merge, rules, laid) = (CHOOSE g : Merging(g, rules, laid))[DOMAIN laid]
  BY DEF S!FoldLeft, S!MapThenFoldSet, Merging
<1>3. \A i \in Nat : S!Max({i}) = i
  BY DEF S!Max
<1>4. S!Max({1, 2}) = 2
  <2>1. PICK z : z = S!Max({1, 2})
    OBVIOUS
  <2>2. \E x \in {1, 2} : \A y \in {1, 2} : x >= y
    OBVIOUS
  <2>3. z \in {1, 2} /\ \A y \in {1, 2} : z >= y
    BY <2>1, <2>2 DEF S!Max
  <2> QED BY <2>1, <2>3
<1>5. \E g : Merging(g, rules, laid)
  <2> DEFINE one == S!Merge(rules, laid[1])
  <2> DEFINE It(s) == IF s = {} THEN rules ELSE IF s = {1} THEN one ELSE IF s = {2} THEN S!Merge(rules, laid[2]) ELSE S!Merge(one, laid[2])
  <2>1. PICK g : g = [s \in SUBSET DOMAIN laid |-> It(s)]
    OBVIOUS
  <2>2. ASSUME NEW s \in SUBSET DOMAIN laid PROVE It(s) = IF s = {} THEN rules ELSE S!Merge(g[s \ {S!Max(s)}], laid[S!Max(s)])
    <3>1. s \in {{}, {1}, {2}, {1, 2}}
      <4>1. DOMAIN laid \subseteq {1, 2}
        BY <1>1
      <4> QED BY <4>1
    <3>2. CASE s = {}
      BY <3>2
    <3>3. CASE s = {1}
      <4>1. S!Max(s) = 1 /\ s \ {1} = {}
        BY <1>3, <3>3
      <4> QED BY <2>1, <3>3, <4>1
    <3>4. CASE s = {2}
      <4>1. S!Max(s) = 2 /\ s \ {2} = {} /\ {2} # {1}
        BY <1>3, <3>4
      <4> QED BY <2>1, <3>4, <4>1
    <3>5. CASE s = {1, 2}
      <4>1. S!Max(s) = 2 /\ s \ {2} = {1} /\ {1, 2} # {1} /\ {1, 2} # {2} /\ {1} \in SUBSET DOMAIN laid
        BY <1>4, <3>5
      <4> QED BY <2>1, <3>5, <4>1
    <3> QED BY <3>1, <3>2, <3>3, <3>4, <3>5
  <2>3. g = [s \in SUBSET DOMAIN laid |-> IF s = {} THEN rules ELSE S!Merge(g[s \ {S!Max(s)}], laid[S!Max(s)])]
    BY <2>1, <2>2
  <2> QED BY <2>3 DEF Merging
<1>6. PICK g : Merging(g, rules, laid) /\ S!FoldLeft(S!Merge, rules, laid) = g[DOMAIN laid]
  BY <1>2, <1>5
<1>7. \A s \in SUBSET DOMAIN laid : g[s] = IF s = {} THEN rules ELSE S!Merge(g[s \ {S!Max(s)}], laid[S!Max(s)])
  BY <1>6 DEF Merging
<1>8. CASE n = 0
  <2>1. DOMAIN laid = {} /\ laid = <<>>
    BY <1>1, <1>8
  <2> QED BY <1>6, <1>7, <2>1
<1>9. CASE n = 1
  <2>1. DOMAIN laid = {1} /\ laid # <<>> /\ laid[1] \in Preference
    <3>1. laid \in [1 .. 1 -> Preference] /\ 1 .. 1 = {1}
      BY <1>1, <1>9
    <3>2. DOMAIN laid = {1} /\ laid[1] \in Preference
      BY <3>1
    <3> QED BY <3>2, Empties
  <2>2. S!Max({1}) = 1 /\ {1} \ {1} = {}
    BY <1>3
  <2>3. g[{1}] = S!Merge(g[{}], laid[1]) /\ g[{}] = rules
    BY <1>7, <2>1, <2>2
  <2> QED BY <1>6, <2>1, <2>3
<1>10. CASE n = 2
  <2>1. DOMAIN laid = {1, 2} /\ laid # <<>> /\ laid[1] \in Preference /\ laid[2] \in Preference
    BY <1>1, <1>10, Empties
  <2>2. S!Max({1}) = 1 /\ {1} \ {1} = {} /\ {1, 2} \ {2} = {1}
    BY <1>3
  <2>3. g[{1, 2}] = S!Merge(g[{1}], laid[2]) /\ g[{1}] = S!Merge(g[{}], laid[1]) /\ g[{}] = rules
    BY <1>4, <1>7, <2>1, <2>2
  <2> QED BY <1>6, <2>1, <2>3
<1>11. n = 0 \/ n = 1 \/ n = 2
  BY <1>1
<1> HIDE DEF Merging
<1> QED BY <1>8, <1>9, <1>10, <1>11, Zenon

LEMMA RulesMerged ==
  ASSUME Parsed(cfg), OverlayTyped
  PROVE  /\ OfHere(S!LocalRules) /\ (NoRepeats(cfg.rules) => NoRepeats(S!LocalRules))
         /\ overlay.rules = <<>> => S!LocalRules = cfg.rules
<1>1. cfg.rules \in Seq(Preference) /\ OfHere(cfg.rules)
  BY DEF Parsed, OfHere, S!ToSet
<1>2. overlay.rules \in S!SeqOf(Preference, 2) /\ S!LocalRules = S!FoldLeft(S!Merge, cfg.rules, overlay.rules)
  BY DEF OverlayTyped, S!LocalRules
<1>3. PICK l : l = S!FoldLeft(S!Merge, cfg.rules, overlay.rules)
  OBVIOUS
<1>4. \/ overlay.rules = <<>> /\ l = cfg.rules
      \/ overlay.rules # <<>> /\ \E x \in Preference : l = S!Merge(cfg.rules, x)
      \/ overlay.rules # <<>> /\ \E x, y \in Preference : l = S!Merge(S!Merge(cfg.rules, x), y)
  BY <1>2, <1>3, MergedAre
<1>5. ASSUME \E x \in Preference : l = S!Merge(cfg.rules, x)
      PROVE  OfHere(l) /\ (NoRepeats(cfg.rules) => NoRepeats(l))
  <2>1. PICK x \in Preference : l = S!Merge(cfg.rules, x)
    BY <1>5
  <2> QED BY <1>1, <2>1, MergeKeeps
<1>6. ASSUME \E x, y \in Preference : l = S!Merge(S!Merge(cfg.rules, x), y)
      PROVE  OfHere(l) /\ (NoRepeats(cfg.rules) => NoRepeats(l))
  <2>1. PICK x \in Preference, y \in Preference : l = S!Merge(S!Merge(cfg.rules, x), y)
    BY <1>6
  <2>2. PICK m : m = S!Merge(cfg.rules, x)
    OBVIOUS
  <2>3. m \in Seq(Preference) /\ OfHere(m) /\ (NoRepeats(cfg.rules) => NoRepeats(m))
    BY <1>1, <2>2, MergeKeeps
  <2>4. OfHere(l) /\ (NoRepeats(m) => NoRepeats(l))
    <3>1. l = S!Merge(m, y)
      BY <2>1, <2>2
    <3> QED BY <2>3, <3>1, MergeKeeps
  <2> QED BY <2>3, <2>4
<1> QED BY <1>1, <1>2, <1>3, <1>4, <1>5, <1>6

\* The ids of a list are finitely many.
LEMMA IdsAreFinite == ASSUME NEW X, NEW list \in Seq(X) PROVE IsFiniteSet(S!Ids(list))
<1>1. Len(list) \in Nat /\ IsFiniteSet(1 .. Len(list)) /\ DOMAIN list = 1 .. Len(list)
  BY FS_Interval
<1>2. PICK f : f = [i \in DOMAIN list |-> list[i].id]
  OBVIOUS
<1>3. f \in Surjection(1 .. Len(list), S!Ids(list))
  BY <1>1, <1>2 DEF Surjection, S!Ids
<1> QED BY <1>1, <1>3, FS_Surjection

LEMMA PlacesMerged ==
  ASSUME Parsed(cfg), OverlayTyped, S!RepositoryOK, NEW after, after = S!LocalRepositories
  PROVE  /\ \A i \in DOMAIN cfg.repos : /\ i \in DOMAIN after /\ after[i].id = cfg.repos[i].id /\ after[i].path = cfg.repos[i].path
                                        /\ after[i] # cfg.repos[i] => after[i].path = overlay.root
         /\ overlay.blocks = 1 => \E j \in DOMAIN after : after[j].id = S!MyId /\ after[j].path = overlay.root
         /\ S!Once(cfg.repos) => S!Once(after)
<1>1. /\ cfg.repos \in Seq(Place) /\ Len(cfg.repos) \in Nat /\ DOMAIN cfg.repos = 1 .. Len(cfg.repos)
  BY DEF Parsed
<1>2. ASSUME NEW r \in Place
      PROVE  S!Scaled(r) \in Place /\ S!Scaled(r).id = r.id /\ S!Scaled(r).path = r.path
  BY DEF S!Scaled, Place, OverlayTyped
<1>3. CASE overlay.blocks = 0
  <2>1. after = cfg.repos
    BY <1>3 DEF S!LocalRepositories
  <2> QED BY <1>3, <2>1
<1>4. CASE overlay.blocks # 0 /\ S!Mine # {}
  <2>1. after = [i \in DOMAIN cfg.repos |-> IF i \in S!Mine THEN S!Scaled(cfg.repos[i]) ELSE cfg.repos[i]]
    BY <1>4 DEF S!LocalRepositories
  <2>2. \A i \in DOMAIN cfg.repos : cfg.repos[i] \in Place
    BY <1>1
  <2>3. \A i \in DOMAIN cfg.repos : after[i].id = cfg.repos[i].id /\ after[i].path = cfg.repos[i].path
    BY <1>2, <2>1, <2>2
  <2>4. \A i \in S!Mine : i \in DOMAIN cfg.repos /\ cfg.repos[i].path = overlay.root
    BY DEF S!Mine
  <2>5. \A i \in DOMAIN cfg.repos : i \in DOMAIN after /\ (after[i] # cfg.repos[i] => after[i].path = overlay.root)
    BY <2>1, <2>3, <2>4
  <2>6. \E j \in DOMAIN after : after[j].id = S!MyId /\ after[j].path = overlay.root
    <3>1. PICK k : k = (CHOOSE i \in S!Mine : TRUE)
      OBVIOUS
    <3>2. k \in S!Mine /\ S!MyId = cfg.repos[k].id
      BY <1>4, <3>1 DEF S!MyId
    <3> QED BY <2>1, <2>3, <2>4, <3>2
  <2>7. S!Ids(after) = S!Ids(cfg.repos) /\ Len(after) = Len(cfg.repos)
    <3>1. DOMAIN after = DOMAIN cfg.repos
      BY <2>1
    <3>2. S!Ids(after) = S!Ids(cfg.repos)
      BY <2>3, <3>1 DEF S!Ids
    <3>3. Len(after) = Len(cfg.repos)
      BY <1>1, <2>1, <3>1
    <3> QED BY <3>2, <3>3
  <2> QED BY <2>3, <2>5, <2>6, <2>7 DEF S!Once
<1>5. CASE overlay.blocks # 0 /\ S!Mine = {}
  <2>1. PICK added : added = S!Scaled([id |-> overlay.name, path |-> overlay.root, abs |-> TRUE, scale |-> ""])
    OBVIOUS
  <2>2. added \in Place /\ added.id = overlay.name /\ added.path = overlay.root
    <3>1. [id |-> overlay.name, path |-> overlay.root, abs |-> TRUE, scale |-> ""] \in Place
      BY DEF Place, Scales, OverlayTyped
    <3> QED BY <1>2, <2>1, <3>1
  <2>3. after = Append(cfg.repos, added)
    BY <1>5, <2>1 DEF S!LocalRepositories
  <2>4. /\ after \in Seq(Place) /\ Len(after) = Len(cfg.repos) + 1 /\ DOMAIN after = 1 .. Len(cfg.repos) + 1
        /\ \A i \in DOMAIN cfg.repos : after[i] = cfg.repos[i]
        /\ after[Len(cfg.repos) + 1] = added
    BY <1>1, <2>2, <2>3, AppendProperties
  <2>5. S!MyId = overlay.name
    BY <1>5 DEF S!MyId
  <2>6. \E j \in DOMAIN after : after[j].id = S!MyId /\ after[j].path = overlay.root
    BY <1>1, <2>2, <2>4, <2>5
  <2>7. ASSUME S!Once(cfg.repos), overlay.blocks = 1 PROVE S!Once(after)
    <3>1. S!Ids(after) = S!Ids(cfg.repos) \cup {overlay.name}
      <4>1. DOMAIN after = DOMAIN cfg.repos \cup {Len(cfg.repos) + 1}
        BY <1>1, <2>4
      <4> QED BY <2>2, <2>4, <4>1, ZenonT(60) DEF S!Ids
    <3>2. overlay.name \notin S!Ids(cfg.repos)
      BY <1>5, <2>7 DEF S!RepositoryOK
    <3>3. IsFiniteSet(S!Ids(cfg.repos))
      BY <1>1, IdsAreFinite
    <3>4. Cardinality(S!Ids(after)) = Cardinality(S!Ids(cfg.repos)) + 1
      BY <3>1, <3>2, <3>3, FS_AddElement
    <3> QED BY <2>4, <2>7, <3>4, SameSettingsCount DEF S!Once
  <2>8. overlay.blocks = 1
    BY <1>5 DEF S!RepositoryOK, OverlayTyped
  <2> QED BY <1>1, <2>4, <2>6, <2>7, <2>8
<1> QED BY <1>3, <1>4, <1>5

LEMMA SettingsLocal == ASSUME SettingsInv, S!ApplyLocal PROVE SettingsInv'
<1>0. PassedAt(stage) /\ stage = "overlay" /\ UNCHANGED <<file, overlay, role>>
  BY DEF SettingsInv, S!ApplyLocal
<1>1. CASE stage' = "refused"
  BY <1>0, <1>1, SettingsRefuse
<1>2. PassedAt("register")
  BY <1>0 DEF PassedAt, Wired, Ruled, Merged, Laid, Served, Picked, Kept, Orchestrated, Cored, Topped
<1>3. CASE stage' # "refused" /\ (role = "service" \/ overlay.there \in {"no", "off"})
  <2>1. stage' = "register" /\ UNCHANGED <<cfg, global>>
    BY <1>3 DEF S!ApplyLocal, S!Goes
  <2>2. PassedAt(stage')
    BY <1>2, <2>1
  <2> QED BY <1>0, <2>1, <2>2, SettingsGoOn DEF Wired, Ruled, Merged, Laid, Served, Picked, Kept, Orchestrated, Cored, Topped
<1>4. CASE stage' # "refused" /\ ~(role = "service" \/ overlay.there \in {"no", "off"})
  <2>1. /\ S!OverlayOK /\ stage' = "register" /\ global' = global
        /\ cfg' = [cfg EXCEPT !.repos = S!LocalRepositories, !.rules = S!LocalRules, !.sensitive = S!LocalSensitive]
    BY <1>4 DEF S!ApplyLocal, S!Refuse
  <2>2. Parsed(cfg) /\ global = cfg /\ OverlayTyped
    BY <1>0 DEF SettingsInv, SettingsTypes, Wired, Ruled, Merged, Laid, Served, Picked, Kept, Orchestrated, Cored, Topped
  <2>3. PICK places : places = S!LocalRepositories
    OBVIOUS
  <2>4. PICK laws : laws = S!LocalRules
    OBVIOUS
  <2>5. /\ DOMAIN cfg' = DOMAIN cfg /\ DOMAIN cfg = DOMAIN S!Shipped
        /\ cfg'.repos = places /\ cfg'.rules = laws /\ cfg'.sensitive = S!LocalSensitive
        /\ \A f \in DOMAIN S!Shipped \ {"repos", "rules", "sensitive"} : cfg'[f] = cfg[f]
    BY <2>1, <2>2, <2>3, <2>4, ShippedIs DEF Parsed
  <2>6. cfg'.number = cfg.number /\ cfg'.path = cfg.path /\ cfg'.serials = cfg.serials /\ cfg'.servers = cfg.servers
    BY <2>5, ShippedIs
  <2>7. SettingsTypes'
    BY <1>0, <1>4, <2>1, <2>2, <2>5, <2>6 DEF SettingsInv, SettingsTypes, OverlayTyped, Parsed, Wired, Ruled, Merged, Laid, Served, Picked, Kept, Orchestrated, Cored, Topped
  <2>8. PassedAt(stage)'
    BY <1>2, <2>1, <2>6, ChecksRest DEF PassedAt, Wired, Ruled, Merged, Laid, Served, Picked, Kept, Orchestrated, Cored, Topped
  <2>9. /\ \A i \in DOMAIN cfg.repos : /\ i \in DOMAIN places /\ places[i].id = cfg.repos[i].id /\ places[i].path = cfg.repos[i].path
                                       /\ places[i] # cfg.repos[i] => places[i].path = overlay.root
        /\ overlay.blocks = 1 => \E j \in DOMAIN places : places[j].id = S!MyId /\ places[j].path = overlay.root
        /\ S!Once(cfg.repos) => S!Once(places)
    BY <2>1, <2>2, <2>3, PlacesMerged DEF S!OverlayOK
  <2>10. ASSUME NEW i \in DOMAIN laws, laws[i] \notin S!ToSet(cfg.rules)
         PROVE  \E j \in DOMAIN places : places[j].id = laws[i].repo /\ places[j].path = overlay.root
    <3>1. OfHere(laws) /\ (overlay.rules = <<>> => laws = cfg.rules)
      BY <2>2, <2>4, RulesMerged
    <3>2. overlay.rules # <<>>
      BY <2>10, <3>1 DEF S!ToSet
    <3>3. overlay.blocks = 1
      <4>1. PICK n \in 0 .. 2 : overlay.rules \in [1 .. n -> Preference]
        BY <2>2 DEF OverlayTyped, S!SeqOf
      <4>2. n # 0
        BY <3>2, <4>1
      <4>3. 1 \in DOMAIN overlay.rules
        BY <4>1, <4>2
      <4> QED BY <2>1, <4>3 DEF S!OverlayOK, S!RuleOK
    <3>4. laws[i].repo = S!MyId
      BY <2>10, <3>1 DEF OfHere
    <3> QED BY <2>9, <3>3, <3>4
  <2>11. NoRepeats(cfg.rules) => NoRepeats(laws)
    BY <2>2, <2>4, RulesMerged
  <2>12. S!LocalSensitive = cfg.sensitive \/ S!LocalSensitive = cfg.sensitive \cup overlay.sensitive
    BY DEF S!LocalSensitive
  <2>13. global' = cfg
    BY <2>1, <2>2
  <2>14. S!OverlayStaysHome'
    <3>1. /\ \A f \in DOMAIN S!Shipped \ {"repos", "rules", "sensitive"} : cfg'[f] = global'[f]
          /\ global'.sensitive \subseteq cfg'.sensitive
      BY <2>2, <2>5, <2>12, <2>13
    <3>2. \A i \in DOMAIN global'.repos : /\ cfg'.repos[i].id = global'.repos[i].id /\ cfg'.repos[i].path = global'.repos[i].path
                                          /\ cfg'.repos[i] # global'.repos[i] => cfg'.repos[i].path = overlay'.root
      <4>1. /\ global'.repos = cfg.repos /\ cfg'.repos = places /\ overlay' = overlay
        BY <1>0, <2>2, <2>5, <2>13
      <4>2. \A k \in DOMAIN cfg.repos : /\ places[k].id = cfg.repos[k].id /\ places[k].path = cfg.repos[k].path
                                        /\ places[k] # cfg.repos[k] => places[k].path = overlay.root
        BY <2>9
      <4> QED BY <4>1, <4>2, Zenon
    <3>3. \A i \in DOMAIN cfg'.rules : cfg'.rules[i] \notin S!ToSet(global'.rules) =>
            \E j \in DOMAIN cfg'.repos : cfg'.repos[j].id = cfg'.rules[i].repo /\ cfg'.repos[j].path = overlay'.root
      BY <1>0, <2>2, <2>5, <2>10, <2>13
    <3>4. S!Once(global'.repos) => S!Once(cfg'.repos)
      BY <2>2, <2>5, <2>9, <2>13
    <3>5. NoRepeats(global'.rules) => NoRepeats(cfg'.rules)
      BY <2>2, <2>5, <2>11, <2>13
    <3> QED BY <3>1, <3>2, <3>3, <3>4, <3>5 DEF S!OverlayStaysHome, NoRepeats
  <2> QED BY <2>7, <2>8, <2>14 DEF SettingsInv
<1> QED BY <1>1, <1>3, <1>4

LEMMA SettingsNext == SettingsInv /\ [S!Next]_(S!vars) => SettingsInv'
<1> SUFFICES ASSUME SettingsInv, [S!Next]_(S!vars) PROVE SettingsInv'
  OBVIOUS
<1>1. CASE UNCHANGED S!vars
  <2>1. UNCHANGED <<stage, cfg, global, file, overlay, role>>
    BY <1>1 DEF S!vars
  <2>2. SettingsTypes'
    BY <2>1 DEF SettingsInv, SettingsTypes, OverlayTyped, Parsed
  <2>3. PassedAt(stage)'
    BY <2>1, ChecksRest, MeaningRests DEF SettingsInv, PassedAt
  <2>4. S!OverlayStaysHome'
    BY <2>1 DEF SettingsInv, S!OverlayStaysHome
  <2> QED BY <2>2, <2>3, <2>4 DEF SettingsInv
<1>2. CASE S!Next
  BY <1>2, SettingsLoad, SettingsSteps, SettingsProfiles, SettingsLocal DEF S!Next
<1> QED BY <1>1, <1>2

LEMMA SettingsHold == S!Spec => []S!SettingsAreSound
<1>1. SettingsInv => S!SettingsAreSound
  BY BuiltSound DEF SettingsInv, S!SettingsAreSound
<1> QED BY <1>1, SettingsStart, SettingsNext, PTL DEF S!Spec

-----------------------------------------------------------------------------
(* In the composition, too, each keeps its word. *)

\* The focus stays where it is, and what is in focus takes a step of its own or none.
LEMMA OneMoves ==
  [UpkeepNext]_allVars =>
     /\ (focus = "activation" <=> (focus = "activation")') /\ (focus = "activation" => [A!Next]_A!vars)
     /\ (focus = "readings" <=> (focus = "readings")') /\ (focus = "readings" => [R!Next]_R!vars)
     /\ (focus = "stats" <=> (focus = "stats")') /\ (focus = "stats" => [T!Next]_T!vars)
     /\ (focus = "backup" <=> (focus = "backup")') /\ (focus = "backup" => [Next]_vars)
     /\ (focus = "quality" <=> (focus = "quality")') /\ (focus = "quality" => [Q!Next]_Q!vars)
     /\ (focus = "hub" <=> (focus = "hub")') /\ (focus = "hub" => [H!Next]_H!vars)
     /\ (focus = "settings" <=> (focus = "settings")') /\ (focus = "settings" => [S!Next]_S!vars)
BY DEF UpkeepNext, InBackup, InToolStats, InActivation, InSettings, InHub, InQuality, InReadings, allVars,
   activationVars, readingsVars, qualityVars, hubVars, statsVars, settingsVars,
   A!vars, R!vars, T!vars, Q!vars, H!vars, S!vars

\* What the settings declare, and what is being written to them, is what was
\* authorized: mcpactivation's Put, Get and Activate, however many commands run
\* beside each other and whenever each is killed.
THEOREM OnlyTheAuthorizedHolds ==
  ASSUME None \notin Cmds
  PROVE  UpkeepSpec => []OnlyTheAuthorized
<1>1. UpkeepInit /\ focus = "activation" => A!Init
  BY DEF UpkeepInit
<1>2. A!Spec => []A!OnlyTheAuthorized
  BY ActivationHolds
<1> QED BY <1>1, <1>2, OneMoves, PTL DEF UpkeepSpec, A!Spec, OnlyTheAuthorized

\* What the status says of a server was proved by that server, however sweeps,
\* calls, notes, failed saves and restarts come between one another (record and
\* recordBackendCall, core/backendstate.go).
THEOREM ReadingsAreEarnedHolds == UpkeepSpec => []ReadingsAreEarned
<1>1. UpkeepInit /\ focus = "readings" => R!Init
  BY DEF UpkeepInit
<1>2. R!Spec => []R!ReadingsAreEarned
  BY ReadingsHold
<1> QED BY <1>1, <1>2, OneMoves, PTL DEF UpkeepSpec, R!Spec, ReadingsAreEarned

\* A subscriber has no gap, however it was let go, cancelled or came back, and
\* none is left on a closed channel (Publish, Subscribe and remove, hub.go): for
\* every size of the ring and of the channels.
THEOREM HubLosesNothingHolds == UpkeepSpec => []HubLosesNothing
<1>1. UpkeepInit /\ focus = "hub" => H!Init
  BY DEF UpkeepInit
<1>2. H!Spec => []H!HubLosesNothing
  BY HubHolds
<1> QED BY <1>1, <1>2, OneMoves, PTL DEF UpkeepSpec, H!Spec, HubLosesNothing

\* However processes take turns, fail to write and die (persistLocked, quality.go),
\* every observation is counted once, in the file or by the process that still
\* has it, and no book reads more than was recorded: for any finite number of
\* processes and any number of rows.
THEOREM LedgerCountsOnceHolds == UpkeepSpec => []LedgerCountsOnce
<1>1. UpkeepInit /\ focus = "quality" => Q!Init
  BY DEF UpkeepInit
<1>2. Q!Spec => []Q!LedgerCountsOnce
  BY QualityHolds
<1> QED BY <1>1, <1>2, OneMoves, PTL DEF UpkeepSpec, Q!Spec, LedgerCountsOnce

\* The newest copies that are kept are whole, as many stay as were made for good,
\* a restore that says it is done holds what its copy holds, and what the
\* service last wrote is under one of the four names until it is discarded
\* (Snapshot, rotate, Restore, RestoreInPlace, PromotePrevious and
\* DiscardPrevious, backup.go), wherever the service or the command is killed or
\* the power goes: for any files, any number of copies kept and any clock.
THEOREM BackupsAreWholeHolds == UpkeepSpec => []BackupsAreWhole
<1>1. UpkeepInit /\ focus = "backup" => Init
  BY DEF UpkeepInit
<1>2. Init /\ [][Next]_vars => []BackupsHold
  BY BackupSafe
<1> QED BY <1>1, <1>2, OneMoves, PTL DEF UpkeepSpec, BackupsAreWhole

\* Every recorded call is a row or counted once in the day it was folded into
\* (Begin, Finish, maintain and compact, toolstats), no owner whose lock is held
\* is buried (recoverOwners), an answer that is not marked partial is true of its
\* interval (query.go), and a walk that is over has shown every failure that is
\* still kept (the paged queries): for any number of processes and calls, any
\* length of the day and any bound on the clock.
THEOREM StatsAreHonestHolds == UpkeepSpec => []StatsAreHonest
<1>1. UpkeepInit /\ focus = "stats" => T!Init
  BY DEF UpkeepInit
<1>2. T!Spec => []T!StatsAreHonest
  BY StatsHold
<1> QED BY <1>1, <1>2, OneMoves, PTL DEF UpkeepSpec, T!Spec, StatsAreHonest

\* A core that is built (Load and parse, config.go; core.New) has only numbers,
\* paths, servers and rules its parts can work with, each attached implementation
\* leads to one runner that can run it, and a repository's own file has added
\* only what is about that repository (withLocal and applyLocal, local.go), for
\* every set of servers, tools and effects.
THEOREM SettingsAreSoundHolds == UpkeepSpec => []SettingsAreSound
<1>1. UpkeepInit /\ focus = "settings" => S!Init
  BY DEF UpkeepInit
<1>2. S!Spec => []S!SettingsAreSound
  BY SettingsHold
<1> QED BY <1>1, <1>2, OneMoves, PTL DEF UpkeepSpec, S!Spec, SettingsAreSound
=============================================================================
