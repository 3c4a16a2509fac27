--------------------------- MODULE MCWebAccessLog ---------------------------
\* Instances of WebAccessLog: the logs an earlier version may have left.
EXTENDS WebAccessLog

NoLogs == {}

\* One below the capacity of the runs and one above it.
OldLogs == {<<1, 3>>, <<2, 4, 6>>}

\* An event larger than what one pull accepts.
LargeEvent == {<<4>>}
=============================================================================
