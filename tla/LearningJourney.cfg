SPECIFICATION JourneySpec
CONSTANTS
    Learners = {ann, ben}
    ann = ann
    ben = ben
    NoValue = NoValue
    n1 = n1
    n2 = n2
    n3 = n3
    Topo <- ThreeNodes
    Plans <- AllPlans
INVARIANTS
    CompleteProfileIsWhole
PROPERTIES
    MasteryFollowsEvidence
    NothingLeftBehind
CHECK_DEADLOCK FALSE
