SPECIFICATION Spec
INVARIANTS
    CompleteIsWhole
    FinalEditIsShown
CONSTANTS
    Devices = {phone, laptop}
    Keys = {draft, note}
    Replicas = {api1, api2}
    Workers = {worker}
    Outcomes = {"all"}
    MaxConflictRetries = 2
    MaxFlows = 2
    Tries = 3
    Parts = 2
    MaxEvents = 6
    Budgets <- TwoReplicas
    None = None
CHECK_DEADLOCK FALSE
