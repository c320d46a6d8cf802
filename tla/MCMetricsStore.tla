--------------------------- MODULE MCMetricsStore ---------------------------
EXTENDS MetricsStore
=============================================================================
