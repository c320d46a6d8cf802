----------------------------- MODULE Paperwork ------------------------------
(* The receipts with the dispatch that writes them, the crash notebook, and the
   session with a child: three systems that share nothing, of which one is in
   focus and moves. *)
EXTENDS Dispatch
CONSTANTS Recorders, MaxLines, MaxFaults, Callers, Modes, MaxCalls, MaxSaid, Nobody, Reader
VARIABLES mode, modern, initialized, dead, initGate, pipe, seq, table, th, scanner, printed, peer
VARIABLES focus, pages, live, prior, mark, writer, reader, seen, faults, kept, beside, rotations, dropped
N == INSTANCE Notebook
Session == INSTANCE StdioSession WITH None <- Nobody, pending <- table, reader <- scanner, out <- printed, child <- peer

noteVars == <<pages, live, prior, mark, writer, reader, seen, faults, kept, beside, rotations, dropped>>
sessVars == <<mode, modern, initialized, dead, initGate, pipe, seq, table, th, scanner, printed, peer>>
allVars == <<vars, noteVars, sessVars, focus>>
PaperworkInit == Init /\ N!Init /\ Session!Init /\ focus \in {"receipts", "notebook", "session"}
InReceipts == focus = "receipts" /\ Next /\ UNCHANGED <<noteVars, sessVars, focus>>
InNotebook == focus = "notebook" /\ N!Next /\ UNCHANGED <<vars, sessVars, focus>>
InSession == focus = "session" /\ Session!Next /\ UNCHANGED <<vars, noteVars, focus>>
PaperworkNext == InReceipts \/ InNotebook \/ InSession
PaperworkSpec == PaperworkInit /\ [][PaperworkNext]_allVars
\* An incident that Record kept is a line of its page, behind nothing but writes
\* cut short beside it, and its page stays for one rotation (Notebook).
IncidentsSurvive == N!IncidentsSurvive
\* An answer goes to the request that it answers (StdioSession).
AnswersReachTheirRequest == Session!AnswersReachTheirRequest
=============================================================================
