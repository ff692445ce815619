SPECIFICATION Spec
CONSTANTS
    Nodes = {n1}
    Questions = {q1, q2}
    None = None
    q1 = q1
    q2 = q2
    Top = 1
    Public = 1
    Hidden = 1
    Remote = FALSE
    Budgets <- Small
INVARIANTS
    RetestQuizIsFresh
CHECK_DEADLOCK FALSE
