SPECIFICATION Spec

INVARIANTS
    OneActivePerKey
    LearnersBounded
    NoCircularWait

CONSTANTS
    map = map
    twin = twin
    other = other
    bundle = bundle
    p = p
    d = d
    ann = ann
    None = None
    Clients = {map, twin, other}
    Bundles = {bundle}
    Workers = {p, d}
    Dedicated = {d}
    KeyOf <- KeyOfRequest
    LearnerOf <- OneLearner
    Lane <- LaneOfRequest
    BundleOf <- Follows
    Slots <- TwoSlots
    MaxActive = 2
    SoftLimit = 1
    HardLimit = 1
    MaxRetries = 1

CHECK_DEADLOCK FALSE
