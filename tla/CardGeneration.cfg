SPECIFICATION FairSpec

INVARIANTS
    TruthfulProvenance
    RestsOnOwnEvidence
    UncheckedWorkIsHeldBack

PROPERTY
    EveryJobComesToItsEnd

CONSTANTS
    pa = pa
    pb = pb
    e1 = e1
    x1 = x1
    NodeRef = NodeRef
    OwnHits = {e1}
    ForeignHits = {x1}
    MinEvidence = 1
    NoBlueprint = NoBlueprint
    NoAnswer = NoAnswer
    NoCall = NoCall
    NoCard = NoCard
    Providers <- TwoProviders
    Sites <- AllSites
    Requests <- FewRequests
    Drafts <- FewDrafts
    Attempt = 2
    OpenFor = 2
    Threshold = 2
    Workers = 1
    CallBudget = 2
    Shelves <- EarlierShelves
    MaxRounds = 1
    MaxRetries = 1

CHECK_DEADLOCK FALSE
