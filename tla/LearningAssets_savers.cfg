SPECIFICATION Spec
INVARIANTS
    AcknowledgedEditsAreSaved
    SavedExchangesStay
CONSTANTS
    Devices = {phone}
    Keys = {draft}
    Replicas = {api}
    Workers = {worker}
    Outcomes = {"all"}
    MaxConflictRetries = 2
    MaxFlows = 2
    Tries = 3
    Parts = 2
    MaxEvents = 6
    Budgets <- OtherSavers
    None = None
CHECK_DEADLOCK FALSE
