SPECIFICATION Spec
CONSTANTS
    AllowedTypes = {"strict", "recommended", "optional"}
    Courses <- AllCourses
    Contexts <- MCContexts
    Difficulty <- MCDifficulty
    Hours <- MCHours
    Mastered = 65
    Infinity = Infinity
INVARIANTS
    GraphBuildIsSound
    CachedOrderIsCurrent
    PlannedPathsAreCheapest
PROPERTIES
    MasteryNeverRaisesCost
CHECK_DEADLOCK FALSE
