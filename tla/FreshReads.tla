----------------------------- MODULE FreshReads -----------------------------
(***************************************************************************)
(* What the result cache promises its callers, with no cache in sight: a   *)
(* read either fails or returns an answer computed from a generation of    *)
(* the provider's content that was current at some moment between the      *)
(* read's own observation of the provider and its return.                  *)
(***************************************************************************)
EXTENDS Naturals

CONSTANTS Callers, MaxGen

VARIABLES
    gen,    \* the provider's content generation; it only grows
    phase,  \* phase[c]: "idle", "asking" or "done"
    seen,   \* seen[c]: the generation c observed when it asked
    ans     \* ans[c]: the generation answered, 0 for a failure or no answer

vars == <<gen, phase, seen, ans>>

Init ==
    /\ gen = 1
    /\ phase = [c \in Callers |-> "idle"]
    /\ seen = [c \in Callers |-> 0]
    /\ ans = [c \in Callers |-> 0]

Ask(c) ==
    /\ phase[c] = "idle"
    /\ phase' = [phase EXCEPT ![c] = "asking"]
    /\ seen' = [seen EXCEPT ![c] = gen]
    /\ UNCHANGED <<gen, ans>>

Answer(c) ==
    /\ phase[c] = "asking"
    /\ phase' = [phase EXCEPT ![c] = "done"]
    /\ \E g \in {0} \cup (seen[c] .. gen) : ans' = [ans EXCEPT ![c] = g]
    /\ UNCHANGED <<gen, seen>>

Return(c) ==
    /\ phase[c] = "done"
    /\ phase' = [phase EXCEPT ![c] = "idle"]
    /\ seen' = [seen EXCEPT ![c] = 0]
    /\ ans' = [ans EXCEPT ![c] = 0]
    /\ UNCHANGED gen

Rotate ==
    /\ gen < MaxGen
    /\ gen' = gen + 1
    /\ UNCHANGED <<phase, seen, ans>>

Next == Rotate \/ \E c \in Callers : Ask(c) \/ Answer(c) \/ Return(c)

Spec == Init /\ [][Next]_vars
=============================================================================
