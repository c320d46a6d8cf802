------------------------------- MODULE Funnel -------------------------------
(***************************************************************************)
(* internal/selector: the funnel that decides which implementation answers *)
(* a capability, as operators on the candidates it is handed.              *)
(*                                                                         *)
(* A candidate is the number that stands for its id in the order of ids,   *)
(* its health as observed and recorded, how many measurements and attempts *)
(* the base holds, its effective cost and its quality, 0 while untested.   *)
(* Whether it fits the repository and the payload is one set with whether  *)
(* an attached runner serves it.                                           *)
(***************************************************************************)
EXTENDS Integers, Sequences, FiniteSets, SequencesExt

CONSTANTS
    Provider,         \* the provider of each implementation
    RulePrefer,       \* what the user's rule prefers, or Nothing
    BreakInSamples,   \* measurements owed before they are believed
    BreakInAttempts,  \* dispatches handed out on the strength of owing them
    Nothing           \* stands for no preference and no implementation

ASSUME BreakInAssumption ==
    BreakInSamples \in Nat \ {0} /\ BreakInAttempts \in Nat \ {0}

States == {"alive", "degraded", "unknown", "down"}

(* HealthState.Rank.                                                       *)
Rank(state) ==
    CASE state = "alive" -> 0
      [] state = "degraded" -> 1
      [] state = "unknown" -> 2
      [] state = "down" -> 3

(* Cost.Barren.                                                            *)
Barren(x) == x.samples = 0 /\ x.attempts >= BreakInAttempts

InBreakIn(x) == ~Barren(x) /\ x.samples < BreakInSamples

OwesMore(x, y) == (InBreakIn(x) \/ InBreakIn(y)) /\ x.samples < y.samples

(* settlingRank: whoever still owes its measurements ranks with the alive. *)
SettlingRank(x, measuring) ==
    IF measuring /\ x.state = "unknown" /\ InBreakIn(x)
    THEN Rank("alive") ELSE Rank(x.state)

(* cheaper: on both axes, and strictly on one.                             *)
Cheaper(x, y) ==
    /\ x.cost.tokens <= y.cost.tokens /\ x.cost.duration <= y.cost.duration
    /\ x.cost # y.cost

(* dominationCounts, of one candidate.                                     *)
Dominators(x, over) == Cardinality({y \in over : Cheaper(y, x)})

-----------------------------------------------------------------------------
(* rankWithQuality.  Each comparison is negative when x goes first.        *)

ByHealth(x, y, measuring) ==
    SettlingRank(x, measuring) - SettlingRank(y, measuring)

ByScore(x, y) == IF x.state = y.state THEN y.score - x.score ELSE 0

(* Quality settles two tested survivors of one health state.               *)
ByQuality(x, y) ==
    IF x.state = y.state /\ x.quality > 0 /\ y.quality > 0
    THEN y.quality - x.quality ELSE 0

ByTurn(x, y, measuring) ==
    CASE measuring /\ OwesMore(x, y) -> -1
      [] measuring /\ OwesMore(y, x) -> 1
      [] OTHER -> 0

(* Mutant: the comparator asks who is cheaper, pair by pair.               *)
ByCostPairwise(x, y, over) ==
    CASE Cheaper(x, y) -> -1
      [] Cheaper(y, x) -> 1
      [] OTHER -> 0

ByCost(x, y, over) == Dominators(x, over) - Dominators(y, over)

Then(d, e) == IF d # 0 THEN d ELSE e

(* The first of the comparisons that separates the two.                    *)
Compare(x, y, over, measuring) ==
    Then(ByHealth(x, y, measuring),
    Then(ByScore(x, y),
    Then(ByQuality(x, y),
    Then(ByTurn(x, y, measuring),
    Then(ByCost(x, y, over), x.id - y.id)))))

(* slices.SortFunc, which on so few elements is an insertion sort: in the  *)
(* order of their ids, each element moves left past those it goes before   *)
(* and stops at the first it does not.                                     *)
Inserted(x, s, over, measuring) ==
    LET stays == {j \in DOMAIN s : Compare(x, s[j], over, measuring) >= 0}
    IN  InsertAt(s, Max(stays \cup {0}) + 1, x)

LastById(S) == CHOOSE x \in S : \A y \in S : y.id <= x.id

Sorted(over, measuring) ==
    MapThenFoldSet(LAMBDA x, s : Inserted(x, s, over, measuring), <<>>,
                   LAMBDA x : x, LastById, over)

-----------------------------------------------------------------------------
(* Select.                                                                 *)

(* Mutant: an observation never grows old.                                 *)
AgedNever(x) == x

(* filterHealth: what a probe found too long ago is unknown again.         *)
Aged(x) == IF x.expired THEN [x EXCEPT !.state = "unknown"] ELSE x

(* filterConstraints, filterReach and filterHealth.                        *)
Survivors(candidates, reach) ==
    {x \in {Aged(y) : y \in candidates} : x.id \in reach /\ x.state # "down"}

(* What a one-call preference names: an implementation, or every           *)
(* implementation of a provider.                                           *)
Named(candidates, prefer) ==
    IF \E x \in candidates : x.id = prefer THEN {prefer}
    ELSE {x.id : x \in {y \in candidates : Provider[y.id] = prefer}}

(* A preference that names nobody is the caller's mistake.                 *)
Mistaken(candidates, prefer) ==
    prefer # Nothing /\ Named(candidates, prefer) = {}

(* choose: the one-call preference, the user's rule, then the ranking.     *)
(* Among several implementations of a preferred provider the rule and the  *)
(* ranking decide, the ranking counting dominators among those alone.      *)
Choose(candidates, survivors, prefer, measuring) ==
    LET preferred == {x \in survivors : prefer # Nothing
                                        /\ x.id \in Named(candidates, prefer)}
        among == IF preferred # {} THEN preferred ELSE survivors
        ruled == {x \in among : x.id = RulePrefer}
    IN  IF ruled # {} THEN (CHOOSE x \in ruled : TRUE).id
        ELSE Sorted(among, measuring)[1].id

=============================================================================
