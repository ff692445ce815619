SPECIFICATION Spec
INVARIANTS
    LastEditsWaitOrAreAccepted
    AnswerIsWhole
CONSTANTS
    Devices = {phone, laptop}
    Keys = {draft}
    Replicas = {api1, api2}
    Workers = {worker}
    Outcomes = {"all", "row", "none"}
    MaxConflictRetries = 2
    MaxFlows = 2
    Tries = 3
    Parts = 2
    MaxEvents = 6
    Budgets <- EditsAndQuestions
    None = None
CHECK_DEADLOCK FALSE
SYMMETRY Alike
