----------------------------- MODULE Selection -----------------------------
(***************************************************************************)
(* internal/orchestrator's runStep around internal/selector's funnel: what *)
(* one capability's implementations are known for on one repository, and   *)
(* how each question asked of them reads that evidence and adds to it.     *)
(*                                                                         *)
(* The evidence has four owners: the settings (declared), the catalog      *)
(* (observed, internal/registry), the measurement base (record, the        *)
(* Baselines of internal/metrics) and the quality ledger.  Several chats   *)
(* ask at once.  Time is the lapse of the base's windows and the ageing of *)
(* the catalog's observations.                                             *)
(*                                                                         *)
(* Counters stop at the threshold they are compared with.  What the        *)
(* measured average and the quality ratio become after an attempt is left  *)
(* open.                                                                   *)
(***************************************************************************)
EXTENDS Funnel

CONSTANTS
    Impls,          \* the implementations, 1 .. n in the order of their ids
    Chats,          \* questions that may be under way at once
    Declared,       \* what the settings may declare of each implementation
    Estimate,       \* the declared cost of each implementation
    Costs,          \* what a measured average may be
    Levels,         \* what a tested quality may be
    FaultStreak,    \* failures in a row that condemn
    Preferences,    \* the one-call preferences that are asked
    Reaches,        \* the implementations that may be within reach
    Histories,      \* what the base may hold when the process starts
    Ledgers,        \* and what the ledger may
    MaxAsked        \* bound: questions asked

(* A cost, and what the base keeps of one implementation: its successes    *)
(* and attempts, the newest failures in a row and how many of them were of *)
(* the newest one's kind, whether that is still fresh, and the average.    *)
Amount == [tokens : Nat, duration : Nat]
Entry == [samples : Nat, attempts : Nat, streak : Nat, same : Nat,
          kind : {"", "unavailable", "refused"}, recent : BOOLEAN,
          average : Amount]

ASSUME ImplsAssumption ==
    /\ IsFiniteSet(Impls) /\ Impls = 1 .. Cardinality(Impls)
    /\ Nothing \notin Impls /\ RulePrefer \in Impls \cup {Nothing}
ASSUME StartAssumption ==
    /\ Declared \subseteq [Impls -> [state : States, score : Int]]
    /\ Estimate \in [Impls -> Amount] /\ Costs \subseteq Amount
    /\ Histories \subseteq [Impls -> Entry]
    /\ Ledgers \subseteq [Impls -> {0} \cup Levels]
    /\ Reaches \subseteq SUBSET Impls
ASSUME LevelAssumption == Levels \subseteq Nat \ {0}
ASSUME StreakAssumption == FaultStreak \in Nat \ {0}

VARIABLES
    declared,  \* the settings' verdict on each implementation
    scoped,    \* whether the capability declares a subject
    observed,  \* the catalog's verdict, from probes
    record,    \* the base: counts, the newest failures and the windows
    quality,   \* the ledger: 0 while untested
    chat,      \* where each question is, and what it has read
    asked      \* how many questions there have been

selectionVars == <<declared, scoped, observed, record, quality, chat, asked>>
settings == <<declared, scoped>>

(* What a call can come back with: an answer the parent accepts, one it    *)
(* does not, one somebody else's call paid for, the caller going away, or  *)
(* a failure in one of two bins; "neutral" is an unavailable that is about *)
(* the request alone (HealthNeutral).                                      *)
Failures == {"unavailable", "neutral", "refused"}
Results == {"ok", "mismatch", "cached", "canceled"} \cup Failures

ASSUME NothingAssumption == Nothing \notin Results

(* FailureKind, which an answer the parent rejected does not have.         *)
Bin(result) ==
    CASE result = "mismatch" -> "" [] result = "neutral" -> "unavailable"
      [] OTHER -> result

Quiet == [pc |-> "idle", prefer |-> Nothing, reach |-> {}, seen |-> {},
          measuring |-> FALSE, chosen |-> Nothing, result |-> Nothing]

SelectionInit ==
    /\ declared \in Declared
    /\ scoped \in BOOLEAN
    /\ observed = [i \in Impls |-> [state |-> Nothing, expired |-> FALSE]]
    /\ record \in Histories
    /\ quality \in Ledgers
    /\ chat = [c \in Chats |-> Quiet]
    /\ asked = 0

-----------------------------------------------------------------------------
(* The evidence, as one question reads it.                                 *)

(* Registry.Observed: the declaration, or what probing found.  Only the    *)
(* latter grows old.                                                       *)
Observed(i) ==
    IF observed[i].state = Nothing
    THEN [state |-> declared[i].state, score |-> declared[i].score, expired |-> FALSE]
    ELSE [state |-> observed[i].state, score |-> 0, expired |-> observed[i].expired]

(* Baseline.Health: a fresh streak condemns or degrades; a fresh success   *)
(* with nothing failing after it is alive; otherwise there is nothing to   *)
(* say.                                                                    *)
Recorded(r) ==
    CASE r.recent /\ r.streak >= FaultStreak ->
            IF r.same >= FaultStreak /\ r.kind # "" THEN "down" ELSE "degraded"
      [] r.recent /\ r.streak = 0 -> "alive"
      [] OTHER -> Nothing

(* Mutant: the record may lift anything.                                   *)
ReconcileCheerful(health, state) ==
    IF state = Nothing THEN health
    ELSE [health EXCEPT !.state = state, !.expired = FALSE]

(* Reconcile: down over anything better, up only over unknown.             *)
Reconcile(health, state) ==
    IF \/ state \in {"degraded", "down"} /\ Rank(state) > Rank(health.state)
       \/ state = "alive" /\ health.state = "unknown"
    THEN [state |-> state, expired |-> FALSE,
          score |-> IF state = "alive" THEN health.score ELSE 0]
    ELSE health

(* One candidate before the base was read, and after (Apply).              *)
Unpriced(i, health) ==
    [id |-> i, state |-> health.state, score |-> health.score,
     expired |-> health.expired, samples |-> 0, attempts |-> 0,
     cost |-> Estimate[i]]

Priced(x) ==
    LET r == record[x.id]
        h == Reconcile([state |-> x.state, score |-> x.score,
                        expired |-> x.expired], Recorded(r))
    IN  IF r.attempts = 0 THEN x
        ELSE [x EXCEPT !.state = h.state, !.score = h.score,
                       !.expired = h.expired,
                       !.samples = r.samples, !.attempts = r.attempts,
                       !.cost = IF r.samples >= BreakInSamples
                                THEN r.average ELSE @]

(* The candidate with the ledger's word on it, when its identity is known. *)
Rated(x, known) ==
    [id |-> x.id, state |-> x.state, score |-> x.score, expired |-> x.expired,
     samples |-> x.samples, attempts |-> x.attempts, cost |-> x.cost,
     quality |-> IF x.id \in known THEN quality[x.id] ELSE 0]

-----------------------------------------------------------------------------
(* One question.                                                           *)

(* runStep begins: the candidates as the catalog has them.                 *)
Ask(c) ==
    /\ chat[c].pc = "idle" /\ asked < MaxAsked
    /\ asked' = asked + 1
    /\ \E prefer \in Preferences, reach \in Reaches :
        chat' = [chat EXCEPT ![c] =
            [Quiet EXCEPT !.pc = "asked", !.prefer = prefer, !.reach = reach,
                          !.seen = {Unpriced(i, Observed(i)) : i \in Impls}]]
    /\ UNCHANGED <<settings, observed, record, quality>>

(* priced: with the base read, or without it.                              *)
Price(c) ==
    /\ chat[c].pc = "asked"
    /\ \/ chat' = [chat EXCEPT ![c].pc = "priced", ![c].measuring = TRUE,
                               ![c].seen = {Priced(x) : x \in @}]
       \/ chat' = [chat EXCEPT ![c].pc = "priced"]
    /\ UNCHANGED <<settings, observed, record, quality, asked>>

(* The identities are probed, and the funnel settles.                      *)
Select(c) ==
    /\ chat[c].pc = "priced"
    /\ \E known \in SUBSET chat[c].reach :
        LET seen == {Rated(x, known) : x \in chat[c].seen}
            left == Survivors(seen, chat[c].reach)
        IN  chat' = [chat EXCEPT ![c] =
                IF left = {} \/ Mistaken(seen, chat[c].prefer) THEN Quiet
                ELSE [@ EXCEPT !.pc = "running", !.seen = left,
                        !.chosen = Choose(seen, left, chat[c].prefer,
                                          chat[c].measuring)]]
    /\ UNCHANGED <<settings, observed, record, quality, asked>>

(* Mutant: an interrupted call is a sample too.                            *)
CountsCanceled(result) == result # "cached"

(* countsAsProviderSample.                                                 *)
Counts(result) == result \notin {"canceled", "cached"}

(* The runner answers, and RecordOutcome files the quality of the answer.  *)
Answer(c) ==
    /\ chat[c].pc = "running"
    /\ \E result \in Results :
        /\ chat' = [chat EXCEPT ![c] =
            [Quiet EXCEPT !.pc = "answered", !.chosen = chat[c].chosen,
                          !.result = result]]
        /\ IF Counts(result)
           THEN \E q \in {0} \cup Levels :
                    quality' = [quality EXCEPT ![chat[c].chosen] = q]
           ELSE UNCHANGED quality
    /\ UNCHANGED <<settings, observed, record, asked>>

(* Mutant: a refusal by one subject marks the implementation down.         *)
AffectsEverySubject(c) == chat[c].result = "unavailable"

(* The failures the catalog hears of.                                      *)
AffectsCatalog(c) == chat[c].result = "unavailable" /\ ~scoped

(* Registry.SetHealth: the newest word on an implementation is the only    *)
(* one kept.                                                               *)
SetHealth(i, state) ==
    observed' = [observed EXCEPT ![i] = [state |-> state, expired |-> FALSE]]

(* SetHealth(Down), or the look back that a success takes at an earlier    *)
(* verdict (healthAfterSuccessfulProbe).                                   *)
Probe(c) ==
    /\ chat[c].pc = "answered"
    /\ LET i == chat[c].chosen
           recovers == /\ chat[c].result \in {"ok", "mismatch", "cached"}
                       /\ ~scoped
                       /\ observed[i].state = "down"
       IN  /\ chat' = [chat EXCEPT ![c].pc = IF recovers THEN "recovering" ELSE "closed"]
           /\ IF AffectsCatalog(c) THEN SetHealth(i, "down") ELSE UNCHANGED observed
    /\ UNCHANGED <<settings, record, quality, asked>>

(* SetHealth(Alive), after the look.                                       *)
Recover(c) ==
    /\ chat[c].pc = "recovering"
    /\ SetHealth(chat[c].chosen, "alive")
    /\ chat' = [chat EXCEPT ![c].pc = "closed"]
    /\ UNCHANGED <<settings, record, quality, asked>>

Capped(n, bound) == IF n < bound THEN n ELSE bound

(* Mutant: a success ends the streak and leaves the run of one kind.       *)
MeasuredSticky(r, result, average) ==
    IF result = "ok"
    THEN [r EXCEPT !.samples = Capped(@ + 1, BreakInSamples),
                   !.attempts = Capped(@ + 1, BreakInAttempts),
                   !.streak = 0, !.recent = TRUE, !.average = average]
    ELSE [r EXCEPT !.attempts = Capped(@ + 1, BreakInAttempts),
                   !.streak = Capped(@ + 1, FaultStreak),
                   !.same = IF r.kind = Bin(result)
                            THEN Capped(@ + 1, FaultStreak) ELSE 1,
                   !.kind = Bin(result), !.recent = TRUE]

(* What one measurement makes of a record.                                 *)
Measured(r, result, average) ==
    IF result = "ok"
    THEN [r EXCEPT !.samples = Capped(@ + 1, BreakInSamples),
                   !.attempts = Capped(@ + 1, BreakInAttempts),
                   !.streak = 0, !.same = 0, !.kind = "",
                   !.recent = TRUE, !.average = average]
    ELSE [r EXCEPT !.attempts = Capped(@ + 1, BreakInAttempts),
                   !.streak = Capped(@ + 1, FaultStreak),
                   !.same = IF r.streak > 0 /\ r.kind = Bin(result)
                            THEN Capped(@ + 1, FaultStreak) ELSE 1,
                   !.kind = Bin(result), !.recent = TRUE]

(* dispatch files the measurement once the step is closed.                 *)
Meter(c) ==
    /\ chat[c].pc = "closed"
    /\ IF Counts(chat[c].result)
       THEN \E average \in Costs :
                record' = [record EXCEPT ![chat[c].chosen] =
                            Measured(@, chat[c].result, average)]
       ELSE UNCHANGED record
    /\ chat' = [chat EXCEPT ![c] = Quiet]
    /\ UNCHANGED <<settings, observed, quality, asked>>

(* FaultWindow or SuccessWindow passes for the newest attempt.             *)
Lapse(i) ==
    /\ record[i].recent
    /\ record' = [record EXCEPT ![i].recent = FALSE]
    /\ UNCHANGED <<settings, observed, quality, chat, asked>>

(* HealthStaleAfter passes for an observation.                             *)
Expire(i) ==
    /\ observed[i].state # Nothing /\ ~observed[i].expired
    /\ observed' = [observed EXCEPT ![i].expired = TRUE]
    /\ UNCHANGED <<settings, record, quality, chat, asked>>

Step(c) == Price(c) \/ Select(c) \/ Answer(c) \/ Probe(c) \/ Recover(c) \/ Meter(c)

SelectionNext ==
    \/ \E c \in Chats : Ask(c) \/ Step(c)
    \/ \E i \in Impls : Lapse(i) \/ Expire(i)

SelectionSpec == SelectionInit /\ [][SelectionNext]_selectionVars

LeftAlone(i) == \A c \in Chats : chat[c].chosen # i

(* Time passes: what is known of an implementation that nobody calls grows *)
(* old.  Calls that keep coming may keep it young for ever.                *)
SelectionFairSpec ==
    /\ SelectionSpec
    /\ \A i \in Impls : /\ WF_selectionVars(LeftAlone(i) /\ Lapse(i))
                        /\ WF_selectionVars(LeftAlone(i) /\ Expire(i))

-----------------------------------------------------------------------------
(* What the evidence and the choice promise.                               *)

Pcs == {"idle", "asked", "priced", "running", "answered", "recovering", "closed"}

(* The state keeps its shape; a question that reached a runner knows whom  *)
(* it chose, and one that was answered what came back.                     *)
SelectionTypeOK ==
    /\ declared \in Declared /\ scoped \in BOOLEAN
    /\ observed \in [Impls -> [state : {Nothing, "alive", "down"}, expired : BOOLEAN]]
    /\ quality \in [Impls -> {0} \cup Levels]
    /\ \A i \in Impls :
        /\ record[i].samples \in 0 .. BreakInSamples
        /\ record[i].attempts \in 0 .. BreakInAttempts
        /\ record[i].same <= record[i].streak /\ record[i].streak <= FaultStreak
        /\ record[i].streak > 0 => record[i].attempts > 0
    /\ \A c \in Chats :
        /\ chat[c].pc \in Pcs
        /\ chat[c].pc \in Pcs \ {"idle", "asked", "priced"} <=> chat[c].chosen \in Impls
        /\ chat[c].pc \in {"answered", "recovering", "closed"} <=>
                chat[c].result \in Results

(* An implementation the settings declare down, about which no probe has   *)
(* spoken, is never sent work: a cheerful history in the base does not     *)
(* overrule the operator, and no success can then rewrite the verdict      *)
(* (Reconcile and healthAfterSuccessfulProbe).  And what one subject       *)
(* refused stays out of the catalog, which is keyed by repository alone.   *)
VerdictsKeepTheirOwner ==
    /\ \A i \in Impls : declared[i].state = "down" =>
            observed[i].state = Nothing /\ \A c \in Chats : chat[c].chosen # i
    /\ scoped => \A i \in Impls : observed[i].state = Nothing

(* What is known of a provider was learned from it: verdicts stay with     *)
(* whoever gave them, and a call somebody interrupted, or that another     *)
(* call's work answered, teaches neither the base nor the ledger anything  *)
(* (countsAsProviderSample, at both of the places that ask it).            *)
VerdictsAreEarned ==
    [][/\ VerdictsKeepTheirOwner'
       /\ \A c \in Chats :
            chat'[c] # chat[c] /\ {chat[c].result, chat'[c].result} \cap {"canceled", "cached"} # {}
              => UNCHANGED <<record, quality>>]_selectionVars

(* A choice nobody prefers, no measurement is owed for and no quality      *)
(* settles is honest: no survivor is healthier, and none that is as        *)
(* healthy beats it outright on cost.                                      *)
HealthiestUndominated ==
    \A c \in Chats :
        /\ chat[c].pc = "running" /\ chat[c].prefer = Nothing
        /\ RulePrefer \notin {y.id : y \in chat[c].seen}
        /\ \A y \in chat[c].seen :
                y.quality = 0 /\ ~(chat[c].measuring /\ InBreakIn(y))
        => \A x, y \in chat[c].seen :
                x.id = chat[c].chosen =>
                    /\ Rank(x.state) <= Rank(y.state)
                    /\ x.state = y.state /\ x.score = y.score => ~Cheaper(y, x)

(* What a question asked now, with the base at hand, would read.           *)
Usable(i) == Aged(Priced(Unpriced(i, Observed(i)))).state # "down"

(* FaultWindow and HealthStaleAfter are the way back: an implementation    *)
(* condemned by its failures, which nothing calls while it is condemned,   *)
(* is not condemned for ever.                                              *)
CondemnedComesBack ==
    \A i \in Impls : []<>(declared[i].state = "down" \/ Usable(i) \/ ~LeftAlone(i))

-----------------------------------------------------------------------------
(* What a comment in the source says and the code does not do.             *)

(* dominationCounts: an intransitive comparator "does not merely order     *)
(* oddly: it can leave a dominated candidate first"; counting dominators   *)
(* is there so that the ranking is a total order.  Nobody, then, goes      *)
(* before the one the ranking puts first.                                  *)
NobodyGoesBeforeTheChosen ==
    \A c \in Chats :
        /\ chat[c].pc = "running" /\ chat[c].prefer = Nothing
        /\ RulePrefer \notin {y.id : y \in chat[c].seen}
        => \A x, y \in chat[c].seen :
                x.id = chat[c].chosen =>
                    Compare(y, x, chat[c].seen, chat[c].measuring) >= 0

=============================================================================
