------------------------------- MODULE Search -------------------------------
(* A search of a repository by the local runner (runner/local), which walks it
   and opens every file without following a link (agent/readscope), or by omp
   (adapter/omp), which starts one child per scope and reads its report; while
   somebody else renames and relinks what is being searched. The repository is
   a directory entry with two files below it, what matches is every file. *)
EXTENDS Naturals, FiniteSets
CONSTANTS MaxSwaps  \* bound: entries changed during the search
VARIABLES engine,   \* "local" or "omp"
          dir,      \* the entry of the directory below the repository's root
          files,    \* the entries of each directory there is
          phase,    \* "idle", "root", "visiting", "reading", "done"
          left,     \* scopes still to be searched
          entries,  \* what the walk listed and has not visited: path to plain or not
          read,     \* the file being opened: openNoFollow's step, info and root
          found,    \* matches so far: the files they come from
          cut,      \* truncated
          ctx,      \* whether the caller's context is live
          answer,   \* Outcome or failure
          swaps, touched, plain, missed  \* history
vars == <<engine, dir, files, phase, left, entries, read, found, cut, ctx, answer, swaps, touched, plain, missed>>
tree == <<dir, files, swaps, touched, plain>>

Paths == {"a", "b"}
Dirs == {"home", "other"}
Gone == [to |-> "nothing", link |-> FALSE]
Outside == [to |-> "outside", link |-> TRUE]
Entry(nodes) == {Gone, Outside} \cup [to : nodes, link : BOOLEAN]
Nodes == {"fa", "fb", "secret"}
Plain(entry) == ~entry.link /\ entry # Gone
NotReading == [at |-> "nowhere", path |-> "a", info |-> "nothing", root |-> "nothing"]
Unanswered == [verdict |-> "none", partial |-> FALSE]

\* What is at a path and reached without a link, at this moment.
Direct(d, f) == {<<d.to, p, f[d.to][p].to>> : p \in {q \in Paths : Plain(d) /\ Plain(f[d.to][q])}}

Init ==
  /\ engine \in {"local", "omp"} /\ phase = "idle" /\ left = 0 /\ entries = [p \in {} |-> TRUE]
  /\ dir = [to |-> "home", link |-> FALSE]
  /\ files = [d \in Dirs |-> [p \in Paths |-> IF d = "home" THEN [to |-> IF p = "a" THEN "fa" ELSE "fb", link |-> FALSE]
                                              ELSE IF p = "a" THEN [to |-> "secret", link |-> FALSE] ELSE Gone]]
  /\ read = NotReading /\ found = {} /\ cut = FALSE /\ ctx = TRUE /\ answer = Unanswered
  /\ swaps = 0 /\ touched = {} /\ plain = [dirs |-> {"home"}, files |-> {<<"home", "a", "fa">>, <<"home", "b", "fb">>, <<"other", "a", "secret">>}]
  /\ missed = FALSE

-----------------------------------------------------------------------------
(* The world *)

SwapDir(entry) ==
  /\ phase # "done" /\ swaps < MaxSwaps /\ swaps' = swaps + 1
  /\ dir' = entry /\ touched' = touched \cup Paths
  /\ plain' = IF Plain(entry) THEN [plain EXCEPT !.dirs = @ \cup {entry.to}] ELSE plain
  /\ UNCHANGED <<engine, files, phase, left, entries, read, found, cut, ctx, answer, missed>>
SwapFile(d, p, entry) ==
  /\ phase # "done" /\ swaps < MaxSwaps /\ swaps' = swaps + 1
  /\ files' = [files EXCEPT ![d][p] = entry] /\ touched' = touched \cup {p}
  /\ plain' = IF Plain(entry) THEN [plain EXCEPT !.files = @ \cup {<<d, p, entry.to>>}] ELSE plain
  /\ UNCHANGED <<engine, dir, phase, left, entries, read, found, cut, ctx, answer, missed>>
ContextEnds == /\ phase # "done" /\ ctx /\ ctx' = FALSE
               /\ UNCHANGED <<engine, tree, phase, left, entries, read, found, cut, answer, missed>>

-----------------------------------------------------------------------------
(* The request *)

Ends(verdict, partial) == phase' = "done" /\ answer' = [verdict |-> verdict, partial |-> partial]
\* scopeRoots and targets: every scope is in the repository, links followed.
InScope == dir # Outside
Exists == dir # Gone

\* Run: a request that is not valid or not served, or a query that does not compile.
Refuse == /\ phase = "idle" /\ Ends("refused", FALSE)
          /\ UNCHANGED <<engine, tree, left, entries, read, found, cut, ctx, missed>>
\* The whole repository, or scopes that are checked before any is searched.
Begin(scopes) ==
  /\ phase = "idle"
  /\ IF scopes > 0 /\ ~InScope THEN Ends("denied", FALSE) /\ UNCHANGED left
     ELSE IF scopes > 0 /\ ~Exists /\ engine = "local" THEN Ends("not_found", FALSE) /\ UNCHANGED left
     ELSE phase' = "root" /\ left' = (IF scopes = 0 THEN 1 ELSE scopes) /\ UNCHANGED answer
  /\ UNCHANGED <<engine, tree, entries, read, found, cut, ctx, missed>>

\* After the last scope; a search cut at the ceiling says so.
Finish == /\ phase = "root" /\ left = 0 /\ Ends("ok", cut)
          /\ UNCHANGED <<engine, tree, left, entries, read, found, cut, ctx, missed>>
\* A context that ended fails the search, whatever was found.
Stopped == /\ phase \in {"root", "visiting"} /\ left > 0 /\ ~ctx /\ Ends("timeout", FALSE)
           /\ UNCHANGED <<engine, tree, left, entries, read, found, cut, ctx, missed>>

-----------------------------------------------------------------------------
(* local: the walk, and openNoFollow *)

\* WalkDir of a scope: links are not walked, and a start that is gone fails.
\* What cannot be listed is skipped.
Walk ==
  /\ engine = "local" /\ phase = "root" /\ left > 0 /\ ctx
  /\ IF dir = Gone THEN Ends("not_found", FALSE) /\ UNCHANGED entries
     ELSE phase' = "visiting" /\ UNCHANGED answer
          /\ entries' = IF Plain(dir) THEN [p \in {q \in Paths : files[dir.to][q] # Gone} |-> Plain(files[dir.to][p])]
                        ELSE [p \in {} |-> TRUE]
  /\ UNCHANGED <<engine, tree, left, read, found, cut, ctx, missed>>

\* A file that is regular, not sensitive, of a wanted type and not too big is read.
Visit(p) ==
  /\ phase = "visiting" /\ p \in DOMAIN entries /\ ctx
  /\ entries' = [q \in DOMAIN entries \ {p} |-> entries[q]]
  /\ IF entries[p] THEN phase' = "reading" /\ read' = [NotReading EXCEPT !.at = "directory", !.path = p]
     ELSE UNCHANGED <<phase, read>>
  /\ UNCHANGED <<engine, tree, left, found, cut, ctx, answer, missed>>
WalkEnds == /\ phase = "visiting" /\ DOMAIN entries = {}
            /\ phase' = "root" /\ left' = left - 1
            /\ UNCHANGED <<engine, tree, entries, read, found, cut, ctx, answer, missed>>

\* What cannot be read as it was assigned is left out of the answer.
LeaveOut == phase' = "visiting" /\ read' = NotReading
\* Lstat of the entry: a link ends the read.
Lstat(entry, next) ==
  IF Plain(entry) THEN read' = [read EXCEPT !.at = next, !.info = entry.to] /\ UNCHANGED phase ELSE LeaveOut
LstatPart == /\ phase = "reading" /\ read.at = "directory" /\ Lstat(dir, "opening directory")
             /\ UNCHANGED <<engine, tree, left, entries, found, cut, ctx, answer, missed>>
LstatName == /\ phase = "reading" /\ read.at = "name" /\ Lstat(files[read.root][read.path], "opening name")
             /\ UNCHANGED <<engine, tree, left, entries, found, cut, ctx, answer, missed>>

\* os.Root follows links that stay inside; SameFile compares what was opened
\* with what Lstat saw.
Opens(entry) == entry \notin {Gone, Outside}
AnyFile(entry) == TRUE
SameFile(entry) == entry.to = read.info
OpenPart ==
  /\ phase = "reading" /\ read.at = "opening directory"
  /\ IF Opens(dir) /\ SameFile(dir) THEN read' = [read EXCEPT !.at = "name", !.root = dir.to] /\ UNCHANGED phase ELSE LeaveOut
  /\ UNCHANGED <<engine, tree, left, entries, found, cut, ctx, answer, missed>>
OpenName ==
  LET entry == files[read.root][read.path] IN
  /\ phase = "reading" /\ read.at = "opening name"
  /\ LeaveOut
  /\ found' = IF Opens(entry) /\ SameFile(entry) THEN found \cup {<<read.root, read.path, entry.to>>} ELSE found
  /\ UNCHANGED <<engine, tree, left, entries, cut, ctx, answer, missed>>

-----------------------------------------------------------------------------
(* omp: one child per scope *)

\* What the child may print: the files it matched, the total it counted, and
\* whether it stopped at the limit.
Reports == [hits : SUBSET Direct(dir, files), total : 0 .. 2, limit : BOOLEAN, summary : BOOLEAN]
\* parse: without the limit, the total is the number of matches that were read.
Coherent(report) == ~report.limit /\ report.summary => report.total = Cardinality(report.hits)

SearchOne ==
  /\ engine = "omp" /\ phase = "root" /\ left > 0 /\ ctx
  /\ \E report \in Reports :
       IF Coherent(report)
         THEN /\ found' = found \cup report.hits /\ cut' = (cut \/ report.limit) /\ left' = left - 1
              /\ missed' = (missed \/ report.limit)
              /\ UNCHANGED <<phase, answer>>
         ELSE Ends("unavailable", FALSE) /\ UNCHANGED <<left, found, cut, missed>>
  /\ UNCHANGED <<engine, tree, entries, read, ctx>>
\* The child fails, is not installed, or says "Error:".
ChildFails == /\ engine = "omp" /\ phase = "root" /\ left > 0 /\ Ends("unavailable", FALSE)
              /\ UNCHANGED <<engine, tree, left, entries, read, found, cut, ctx, missed>>

Next == \/ Refuse \/ Finish \/ Stopped \/ Walk \/ WalkEnds \/ LstatPart \/ LstatName \/ OpenPart \/ OpenName
        \/ SearchOne \/ ChildFails \/ ContextEnds
        \/ \E scopes \in 0 .. 2 : Begin(scopes)
        \/ \E p \in Paths : Visit(p) \/ \E d \in Dirs, entry \in Entry(Nodes) : SwapFile(d, p, entry)
        \/ \E entry \in Entry(Dirs) : SwapDir(entry)
Spec == Init /\ [][Next]_vars

-----------------------------------------------------------------------------
\* Whatever is relinked while the search runs, the local runner reads a file
\* only where it was at its path without a link, in a directory that was; a
\* file nobody touched is in its answer, and an answer some scope of which was
\* cut short says that it is partial (openNoFollow, search, omp's Run).
SearchesAreHonest ==
  /\ engine = "local" => \A m \in found : m \in plain.files /\ m[1] \in plain.dirs
  /\ answer.verdict = "ok" => /\ engine = "local" => Paths \ touched \subseteq {m[2] : m \in found}
                              /\ missed => answer.partial
=============================================================================
