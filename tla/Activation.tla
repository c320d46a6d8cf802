----------------------------- MODULE Activation -----------------------------
(* Declaring an MCP server from evidence (internal/mcpactivation and
   cmd/atenea/mcp_proposal.go): `mcp propose` probes a server and puts a
   proposal in a file under a lock; `mcp activate --authorize` reads it,
   marks it applying, appends it to the settings and marks it applied, all
   under that lock but for the first reading. Commands run side by side and
   may be killed between any two steps; a person edits the settings by hand. *)
EXTENDS Naturals, FiniteSets
CONSTANTS Cmds,     \* commands that may run at a time
          Paths,    \* settings files
          Evidence, \* what a probe may find: it stands for the digest, too
          MaxRuns,  \* bound: commands run
          MaxEdits, \* bound: edits by hand
          None
VARIABLES row,      \* the proposal of one id, or None
          locked,   \* the command that holds the lock of the proposals, or None
          settings, \* per file, the declaration of that id, or None
          cmd,      \* the commands
          runs, edits,
          agreed    \* history: the evidence each activation was authorized for, per declaration written
vars == <<row, locked, settings, cmd, runs, edits, agreed>>

Idle == [at |-> "idle", path |-> None, found |-> None]
Init == /\ row = None /\ locked = None /\ settings = [p \in Paths |-> None] /\ cmd = [c \in Cmds |-> Idle]
        /\ runs = 0 /\ edits = 0 /\ agreed = [p \in Paths |-> {}]

Becomes(c, at) == cmd' = [cmd EXCEPT ![c].at = at]
Starts(c) == cmd[c] = Idle /\ runs < MaxRuns /\ runs' = runs + 1
\* The lock goes with the command that ends, or dies.
Ends(c) == cmd' = [cmd EXCEPT ![c] = Idle] /\ locked' = IF locked = c THEN None ELSE locked

-----------------------------------------------------------------------------
\* proposeMCP: the probe, outside the lock, and only one that passed discovery.
Propose(c) ==
  /\ Starts(c)
  /\ \E e \in Evidence : cmd' = [cmd EXCEPT ![c] = [at |-> "probed", path |-> None, found |-> e]]
  /\ UNCHANGED <<row, locked, settings, edits, agreed>>
\* Put: a row that is being applied, or was, is not replaced.
Replaceable == row = None \/ row.status = "proposed"
Put(c) ==
  /\ cmd[c].at = "probed" /\ locked = None
  /\ row' = IF Replaceable THEN [status |-> "proposed", evidence |-> cmd[c].found, path |-> None] ELSE row
  /\ Ends(c)
  /\ UNCHANGED <<settings, runs, edits, agreed>>

\* activateMCP: Get under the lock, which it gives back; what it found is what
\* it goes on to authorize.
Get(c, p) ==
  /\ Starts(c) /\ locked = None /\ row # None
  /\ cmd' = [cmd EXCEPT ![c] = [at |-> "got", path |-> p, found |-> row.evidence]]
  /\ UNCHANGED <<row, locked, settings, edits, agreed>>
\* Activate up to its first save.
ActivatableById(c) == row.status # "applied" /\ (row.status = "applying" => row.path = cmd[c].path)
Activatable(c) ==
  /\ row.status # "applied" /\ row.evidence = cmd[c].found
  /\ row.status = "applying" => row.path = cmd[c].path
Activate(c) ==
  /\ cmd[c].at = "got" /\ locked = None
  /\ IF Activatable(c)
       THEN row' = [row EXCEPT !.status = "applying", !.path = cmd[c].path] /\ Becomes(c, "apply") /\ locked' = c
       ELSE Ends(c) /\ UNCHANGED row
  /\ UNCHANGED <<settings, runs, edits, agreed>>
\* appendMCPSettings: what is there already and the same is left as it is, what
\* is there and differs is never replaced, and otherwise the file that was read
\* is written again with the declaration after it.
Apply(c) ==
  LET p == cmd[c].path IN
  /\ cmd[c].at = "apply"
  /\ IF settings[p] = None
       THEN cmd' = [cmd EXCEPT ![c].at = "write"] /\ UNCHANGED locked
       ELSE IF settings[p] = row.evidence THEN Becomes(c, "applied") /\ UNCHANGED locked ELSE Ends(c)
  /\ UNCHANGED <<row, settings, runs, edits, agreed>>
\* The rename of the new file over the settings; one that does not load is not put there.
Rename(c) ==
  LET p == cmd[c].path IN
  /\ cmd[c].at = "write"
  /\ settings' = [settings EXCEPT ![p] = row.evidence] /\ agreed' = [agreed EXCEPT ![p] = @ \cup {cmd[c].found}]
  /\ Becomes(c, "applied")
  /\ UNCHANGED <<row, locked, runs, edits>>
RenameFails(c) ==
  /\ cmd[c].at = "write" /\ Ends(c)
  /\ UNCHANGED <<row, settings, runs, edits, agreed>>
Applied(c) ==
  /\ cmd[c].at = "applied" /\ row' = [row EXCEPT !.status = "applied"] /\ Ends(c)
  /\ UNCHANGED <<settings, runs, edits, agreed>>

Kill(c) == cmd[c] # Idle /\ Ends(c) /\ UNCHANGED <<row, settings, runs, edits, agreed>>
\* A person declares the id by hand, or takes the declaration out.
Edit(p) ==
  /\ edits < MaxEdits /\ edits' = edits + 1
  /\ \E e \in Evidence \cup {None} :
       /\ e # settings[p] /\ settings' = [settings EXCEPT ![p] = e]
       /\ agreed' = [agreed EXCEPT ![p] = IF e = None THEN {} ELSE {e}]
  /\ UNCHANGED <<row, locked, cmd, runs>>

Next ==
  \/ \E c \in Cmds : \/ Propose(c) \/ Put(c) \/ Activate(c) \/ Apply(c) \/ Rename(c) \/ RenameFails(c) \/ Applied(c) \/ Kill(c)
                     \/ \E p \in Paths : Get(c, p)
  \/ \E p \in Paths : Edit(p)
Spec == Init /\ [][Next]_vars

-----------------------------------------------------------------------------
\* What the settings declare was authorized as it stands, by an activation or
\* by the person who wrote it there; what is being written is what was
\* authorized, and the row it belongs to has not moved under it; and one
\* activation, into one file, is under way at a time.
OnlyTheAuthorized ==
  /\ \A p \in Paths : settings[p] # None => settings[p] \in agreed[p]
  /\ \A c \in Cmds : cmd[c].at \in {"apply", "write", "applied"} =>
       /\ locked = c /\ row.status = "applying" /\ row.path = cmd[c].path /\ row.evidence = cmd[c].found
=============================================================================
