---------------------------- MODULE MCPaperwork -----------------------------
(* Paperwork on small plans, with what the session needs to end. *)
EXTENDS Paperwork

\* One step; two abreast and one that needs both; a chain of three; a cycle; a
\* step that needs one that is not there.
OneStep == [s \in {1} |-> {}]
SmallPlans == {OneStep, [s \in 1..3 |-> IF s = 3 THEN {1, 2} ELSE {}],
               [s \in 1..3 |-> IF s = 1 THEN {} ELSE {s - 1}],
               [s \in 1..2 |-> {3 - s}], [s \in {1} |-> {2}]}

On(A) == focus = "session" /\ A /\ UNCHANGED <<vars, noteVars, focus>>
\* StdioSession's own fairness, where it is the one that moves.
MCFairness == /\ \A c \in Callers : WF_allVars(On(Session!Caller(c)))
              /\ WF_allVars(On(Session!Reads)) /\ WF_allVars(On(Session!WriteFails))
MCSpec == PaperworkSpec /\ MCFairness
\* Every caller of the session returns (StdioSession).
NobodyStaysBlocked == Session!NobodyStaysBlocked
\* What nobody read is shown as new (Notebook); no run claims it: see the README.
UnreadStaysNew == N!UnreadStaysNew
\* A torn line costs exactly one line (Notebook); no run claims it: see the README.
TornLineCostsOne == N!TornLineCostsOne
\* A receipt that could not be filed is in the notebook (Notebook); no run claims it: see the README.
FailedReceiptsAreNoted == N!FailedReceiptsAreNoted
=============================================================================
