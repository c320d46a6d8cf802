------------------------------ MODULE Notebook ------------------------------
(***************************************************************************)
(* internal/notebook: the crash notebook, one line per incident, appended  *)
(* and synced before Record returns; rotated when full, with a mark of how *)
(* many lines somebody has already read.  Goroutines of several processes  *)
(* record at once, with no lock between them; another process (atenea      *)
(* doctor, say) reads and clears; all of them may be killed anywhere.      *)
(* A file keeps its number when its name goes to another, as an inode      *)
(* does: a recorder may still write to one that was put away meanwhile.    *)
(***************************************************************************)
EXTENDS Naturals, Sequences, FiniteSets

CONSTANTS
  Recorders,  \* calls of Record that may be under way at once
  MaxLines,   \* MaxBytes, in lines
  MaxFaults   \* bound on incidents

VARIABLES
  pages,      \* the files there have been: their lines, and whether the last is ended
  live, prior,\* which of them has the notebook's name and which the rotated one; 0 for none
  mark,       \* lines read, as the mark on disk says
  writer,     \* where each Record is, its incident, its file and what it saw of its end
  reader,     \* what the Clear in progress has read, and how many lines that was
  seen,       \* the incidents some Clear has marked
  faults,     \* incidents there have been
  kept,       \* incidents whose Record returned nil
  beside,     \* <<f, g>>: g's write was cut short after f's Record looked and before it wrote
  rotations, dropped

vars == <<pages, live, prior, mark, writer, reader, seen, faults, kept, beside, rotations, dropped>>
fileVars == <<pages, live, prior, rotations>>
readVars == <<mark, reader, seen>>
restVars == <<faults, kept, beside, dropped>>

NotReading == [on |-> FALSE, what |-> {}, count |-> 0]
Blank == [lines |-> <<>>, ended |-> TRUE]
Quiet == [pc |-> "idle", n |-> 0, file |-> 0, apart |-> FALSE]
Init ==
  /\ pages = <<>> /\ live = 0 /\ prior = 0 /\ mark = 0
  /\ writer = [r \in Recorders |-> Quiet] /\ reader = NotReading /\ seen = {}
  /\ faults = 0 /\ kept = {} /\ beside = {} /\ rotations = 0 /\ dropped = 0

\* A line: the incident whose text ends it, if that is all there, and those of
\* which a part, or a text without its end, is in front of it.
Line == [cut : SUBSET (1..MaxFaults), whole : 0..MaxFaults]
Page == [lines : Seq(Line), ended : BOOLEAN]
NotebookTypeOK ==
  /\ pages \in Seq(Page) /\ live \in Nat /\ prior \in Nat /\ rotations \in Nat
  /\ writer \in [Recorders -> [pc : {"idle", "full", "turned", "open", "opened", "checked", "written"},
                               n : 0..MaxFaults, file : Nat, apart : BOOLEAN]]
  /\ faults \in 0..MaxFaults /\ kept \subseteq 1..MaxFaults

\* The lines Read can parse, up to one of them; the rest is counted unreadable.
Readable(p, upto) == {i \in DOMAIN p.lines : i <= upto /\ p.lines[i].whole # 0 /\ p.lines[i].cut = {}}
Entries(p, upto) == Cardinality(Readable(p, upto))
Incidents(p, at) == {p.lines[i].whole : i \in at}
Notes == IF live = 0 THEN Blank ELSE pages[live]
Goes(r, pc) == writer' = [writer EXCEPT ![r].pc = pc]

\* Record, as far as rotateIfFull's look at the size.
Record(r) ==
  /\ writer[r].pc = "idle" /\ faults < MaxFaults /\ faults' = faults + 1
  /\ \E pc \in {"open", "full"} :
       /\ pc = "full" <=> Len(Notes.lines) >= MaxLines
       /\ writer' = [writer EXCEPT ![r] = [Quiet EXCEPT !.pc = pc, !.n = faults + 1]]
  /\ UNCHANGED <<fileVars, readVars, kept, beside, dropped>>
\* A full notebook is put away, over the one before it; when it cannot be, or
\* another Record has just done it, it is written on.
Turn(r) ==
  /\ writer[r].pc = "full"
  /\ \/ live # 0 /\ prior' = live /\ live' = 0 /\ rotations' = rotations + 1 /\ Goes(r, "turned")
     \/ Goes(r, "open") /\ UNCHANGED <<live, prior, rotations>>
  /\ UNCHANGED <<pages, readVars, restVars>>
\* writeMark(0), after the rename: when it fails the incident is not written.
ResetMark(r) ==
  /\ writer[r].pc = "turned" /\ Goes(r, "open") /\ mark' = 0
  /\ UNCHANGED <<fileVars, reader, seen, restVars>>
Opens(r) ==
  /\ writer[r].pc = "open"
  /\ \/ live # 0 /\ UNCHANGED <<pages, live>>
     \/ live = 0 /\ pages' = Append(pages, Blank) /\ live' = Len(pages) + 1
  /\ writer' = [writer EXCEPT ![r].pc = "opened", ![r].file = live']
  /\ UNCHANGED <<prior, rotations, readVars, restVars>>
\* unterminated; that it fails to read, and takes the file for ended, is left out.
CheckEnd(r) ==
  /\ writer[r].pc = "opened"
  /\ writer' = [writer EXCEPT ![r].pc = "checked", ![r].apart = ~pages[writer[r].file].ended]
  /\ UNCHANGED <<fileVars, readVars, restVars>>
\* Mutant: the line is appended whatever the last one looks like.
AppendedBlindly(p, w, all) ==
  LET n == Len(p.lines)
      fresh == [cut |-> IF all THEN {} ELSE {w.n}, whole |-> IF all THEN w.n ELSE 0]
  IN  IF p.ended THEN Append(p.lines, fresh)
      ELSE [p.lines EXCEPT ![n] = [fresh EXCEPT !.cut = @ \cup p.lines[n].cut \cup ({p.lines[n].whole} \ {0})]]
\* One write: the line, apart from an unended one when that was seen, and
\* otherwise behind whatever the file ends with by now.
Appended(p, w, all) ==
  LET n == Len(p.lines)
      fresh == [cut |-> IF all THEN {} ELSE {w.n}, whole |-> IF all THEN w.n ELSE 0]
  IN  IF p.ended \/ w.apart THEN Append(p.lines, fresh)
      ELSE [p.lines EXCEPT ![n] = [fresh EXCEPT !.cut = @ \cup p.lines[n].cut \cup ({p.lines[n].whole} \ {0})]]
Puts(r, all, ended) ==
  pages' = [pages EXCEPT ![writer[r].file] = [lines |-> Appended(@, writer[r], all), ended |-> ended]]
Write(r) ==
  /\ writer[r].pc = "checked" /\ Puts(r, TRUE, TRUE) /\ Goes(r, "written")
  /\ UNCHANGED <<live, prior, rotations, readVars, restVars>>
\* The disk fills, or the process is killed, in the middle of the write: a part
\* of the line is what it leaves, or all of it but its end.
CutShort(r) ==
  /\ writer[r].pc = "checked" /\ \E all \in BOOLEAN : Puts(r, all, FALSE)
  /\ beside' = beside \cup {<<writer[q].n, writer[r].n>> : q \in {q \in Recorders \ {r} : writer[q].pc = "checked"}}
  /\ writer' = [writer EXCEPT ![r] = Quiet]
  /\ UNCHANGED <<live, prior, rotations, readVars, faults, kept, dropped>>
Sync(r) ==
  /\ writer[r].pc = "written" /\ kept' = kept \cup {writer[r].n}
  /\ writer' = [writer EXCEPT ![r] = Quiet]
  /\ UNCHANGED <<fileVars, readVars, faults, beside, dropped>>
\* Record returns an error, or its process is killed, with nothing more done.
GivesUp(r) ==
  /\ writer[r].pc # "idle" /\ writer' = [writer EXCEPT ![r] = Quiet]
  /\ UNCHANGED <<fileVars, readVars, restVars>>

\* Catch writes a panic down; a failed raw receipt is handed to it as well, and
\* there is no panic then.
FileRawReceiptFails ==
  /\ faults < MaxFaults /\ dropped = 0
  /\ faults' = faults + 1 /\ dropped' = faults + 1
  /\ UNCHANGED <<fileVars, readVars, writer, kept, beside>>

\* Read: a mark past the end counts for nothing.
MarkedRead ==
  LET all == Readable(Notes, Len(Notes.lines)) IN
  IF mark > Cardinality(all) THEN {} ELSE Incidents(Notes, {i \in all : Entries(Notes, i) <= mark})
ClearReads ==
  /\ ~reader.on
  /\ LET all == Readable(Notes, Len(Notes.lines))
     IN reader' = [on |-> TRUE, what |-> Incidents(Notes, all), count |-> Cardinality(all)]
  /\ UNCHANGED <<fileVars, mark, seen, writer, restVars>>
\* Mutant: what is there by now is what was read.
ClearMarksAll ==
  /\ reader.on /\ reader' = NotReading
  /\ mark' = Entries(Notes, Len(Notes.lines)) /\ seen' = seen \cup reader.what
  /\ UNCHANGED <<fileVars, writer, restVars>>
ClearMarks ==
  /\ reader.on /\ reader' = NotReading
  /\ \/ mark' = reader.count /\ seen' = seen \cup reader.what
     \/ UNCHANGED <<mark, seen>>
  /\ UNCHANGED <<fileVars, writer, restVars>>

Recording(r) == Record(r) \/ Turn(r) \/ ResetMark(r) \/ Opens(r) \/ CheckEnd(r) \/ Write(r)
                \/ CutShort(r) \/ Sync(r) \/ GivesUp(r)
Next == (\E r \in Recorders : Recording(r)) \/ FileRawReceiptFails \/ ClearReads \/ ClearMarks
Spec == Init /\ [][Next]_vars

-----------------------------------------------------------------------------
\* The incident ends a line of the page, behind nothing but what others cut
\* short between its own look at the page's end and its write.
Told(p, f) == \E l \in DOMAIN p.lines : p.lines[l].whole = f /\ \A g \in p.lines[l].cut : <<f, g>> \in beside
\* A line that two writes ran together in.
Glued == \E p \in DOMAIN pages : \E l \in DOMAIN pages[p].lines :
           \E g \in pages[p].lines[l].cut : pages[p].lines[l].cut # {g} \/ pages[p].lines[l].whole # 0
\* An incident whose Record returned is a line of its own, whatever was cut short
\* before; only a write cut short while it was between its look and its own can
\* be in front of it.  Its page has the notebook's name or the rotated one's until
\* a second rotation after it, however many Records rotate at once.  And until a
\* first one, nothing is marked read that no Clear has read, unless two writes ran
\* together (Record, unterminated, rotateIfFull, Clear).
IncidentsSurvive ==
  /\ \A f \in kept : \E p \in DOMAIN pages :
       Told(pages[p], f) /\ (rotations <= p => p \in {live, prior})
  /\ rotations = 0 /\ ~Glued => MarkedRead \subseteq seen

\* What Record's comment says of a line that was cut short: "one torn line costs
\* exactly one torn line" (internal/notebook/notebook.go:228-229).
TornLineCostsOne ==
  \A f \in kept : \E p \in DOMAIN pages : \E l \in DOMAIN pages[p].lines :
     pages[p].lines[l] = [cut |-> {}, whole |-> f]

\* What rotateIfFull's comment says through a rotation as well: marking the first
\* entries after it as already read "is the one mistake this file must not make".
UnreadStaysNew == MarkedRead \subseteq seen

\* What fileRawReceipt's comment says of a receipt it could not write: "the
\* notebook is where that goes".
FailedReceiptsAreNoted == dropped = 0 \/ \E p \in DOMAIN pages : Told(pages[p], dropped)
=============================================================================
