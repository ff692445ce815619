SPECIFICATION FairSpec

PROPERTY
    EveryJobEnds

CONSTANTS
    j1 = j1
    j2 = j2
    t1 = t1
    t2 = t2
    w1 = w1
    w2 = w2
    v1 = v1
    v2 = v2
    concept = concept
    snippet = snippet
    None = None
    Jobs = {j1}
    Cards = {concept}
    Concept = concept
    Requested <- AllCards
    Forced = {}
    Priority <- SamePriority
    Contents = {v1}
    Threads = {t1, t2}
    Dedicated = {t1}
    Owners = {w1, w2}
    OwnerOf <- EachOwn
    MaxRetries = 1

CHECK_DEADLOCK FALSE
