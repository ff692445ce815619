--------------------------- MODULE MCJobScheduler ---------------------------
EXTENDS JobScheduler
CONSTANTS j1, j2, k1, k2, k3, m1, m2, lane

OneLane == [j \in Jobs |-> lane]
OneThread == [l \in Lanes |-> 1]
TwoThreads == [l \in Lanes |-> 2]
=============================================================================
