--------------------------- MODULE MCStatsChannel ---------------------------
EXTENDS StatsChannel
CONSTANTS c1, c2, m1, m2
=============================================================================
