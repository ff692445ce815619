--------------------------- MODULE MCResourceJobs ---------------------------
EXTENDS ResourceJobs
CONSTANTS j1, j2, t1, t2, w1, w2, v1, v2, concept, snippet

AllCards == [j \in Jobs |-> Cards]
SamePriority == [j \in Jobs |-> 0]
EachOwn == [t \in Threads |-> IF t = t1 THEN w1 ELSE w2]
Shared == [t \in Threads |-> w1]
=============================================================================
