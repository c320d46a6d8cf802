SPECIFICATION LadderSpec
CONSTANTS
    Ateneas = {a1, a2}
    RowKeys = {k1, k2}
    MaxAttempts = 2
    Times = {0, 1, 3, 7, 13, 27}
    Every = 3
    NoAtenea = NoAtenea
    Span <- MCSpan
    Retention <- MCRetention
SYMMETRY MCSymmetry
INVARIANTS CountedOnce
PROPERTIES LadderHolds
