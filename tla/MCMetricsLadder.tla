-------------------------- MODULE MCMetricsLadder --------------------------
EXTENDS MetricsLadder, TLC

(* Hours of two ticks, days of two hours, weeks of two days, and months    *)
(* that begin in the middle of a week, as real ones do.                    *)
MCSpan == "hour" :> 2 @@ "day" :> 4 @@ "week" :> 8 @@ "month" :> 12

(* Windows short enough that an attempt can climb every rung by the last   *)
(* of the instants.                                                        *)
MCRetention == "attempts" :> 3 @@ "hour" :> 3 @@ "day" :> 6 @@ "week" :> 10

MCSymmetry == Permutations(Ateneas) \cup Permutations(RowKeys)
=============================================================================
