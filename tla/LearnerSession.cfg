SPECIFICATION Spec
CONSTANTS
    Nodes = {n1}
    Questions = {q1, q2}
    None = None
    q1 = q1
    q2 = q2
    Top = 2
    Public = 1
    Hidden = 1
    Remote = TRUE
    Budgets <- Small
INVARIANTS
    MasteryIsAttributed
    EvidenceCountsOnce
    CompletedWasProven
CHECK_DEADLOCK FALSE
