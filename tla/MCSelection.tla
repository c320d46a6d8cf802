---------------------------- MODULE MCSelection ----------------------------
EXTENDS Selection, TLC

CONSTANTS p, q   \* the providers

Cost(tokens, duration) == [tokens |-> tokens, duration |-> duration]

(* The third beats the first on both axes; the second is comparable with   *)
(* neither.                                                                *)
MCEstimate == <<Cost(3, 2), Cost(1, 3), Cost(2, 1)>>
MCCosts == {Cost(3, 2), Cost(2, 1)}

MCProvider == <<p, p, q>>
MCReaches == {{1, 2, 3}, {1, 3}}

Verdict(state, score) == [state |-> state, score |-> score]

MCDeclared ==
    {<<Verdict("unknown", 0), Verdict("unknown", 0), Verdict("unknown", 0)>>,
     <<Verdict("down", 0), Verdict("alive", 0), Verdict("alive", 1)>>}

MCAlive == {<<Verdict("alive", 0), Verdict("alive", 0), Verdict("alive", 0)>>}

History(samples, attempts, streak, recent) ==
    [samples |-> samples, attempts |-> attempts, streak |-> streak,
     same |-> streak, kind |-> IF streak > 0 THEN "refused" ELSE "",
     recent |-> recent, average |-> Cost(2, 1)]

(* Nothing yet; one that has earned its numbers; one that has and then     *)
(* failed; one that spent its credit for nothing.                          *)
Fresh == History(0, 0, 0, FALSE)
Settled == History(2, 3, 0, TRUE)
Ailing == History(2, 3, 1, TRUE)
Spent == History(0, 3, 2, FALSE)

MCHistories == {<<Fresh, Fresh, Fresh>>, <<Settled, Ailing, Spent>>}
MCAllSettled == {<<Settled, Settled, Settled>>}

MCLedgers == {<<0, 0, 0>>, <<0, 1, 1>>}
MCAllLedgers == [{1, 2, 3} -> {0} \cup Levels]
=============================================================================
