--------------------------- MODULE MCJobAdmission ---------------------------
EXTENDS JobAdmission
CONSTANTS map, twin, other, bundle, p, d, ann

KeyOfRequest == [r \in Requests |-> IF r = twin THEN map ELSE r]
OneLearner == [r \in Requests |-> ann]
LaneOfRequest ==
    [r \in Requests |-> IF r \in {map, twin} THEN "concept"
                        ELSE IF r = bundle THEN "low" ELSE "normal"]
Follows == [r \in Requests |-> IF r \in {map, twin} THEN bundle ELSE None]
TwoSlots == 0..1
=============================================================================
