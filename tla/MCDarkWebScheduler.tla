------------------------- MODULE MCDarkWebScheduler --------------------------
\* Instances of DarkWebScheduler: the threads of its processes.
EXTENDS DarkWebScheduler

MCThreads == {Scheduled(p) : p \in Procs} \cup {Requested(p) : p \in Asked}

\* All occurrences are of one watch.
MCWatchOf == [o \in Occurrences |-> CHOOSE w \in Watches : TRUE]
=============================================================================
