SPECIFICATION Spec

INVARIANTS
    CourseCardsAreNeutral

CONSTANTS
    a = a
    b = b
    j1 = j1
    j2 = j2
    j3 = j3
    concept = concept
    quiz = quiz
    None = None
    Learners = {a, b}
    Cards = {concept}
    Quiz = quiz
    Situations <- Near
    Fresh <- New
    Versions = {1}
    Jobs = {j1, j2}

CHECK_DEADLOCK FALSE
