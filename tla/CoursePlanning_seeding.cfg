SPECIFICATION Spec
CONSTANTS
    AllowedTypes = {"strict", "recommended", "optional"}
    Courses <- OnlyRestarts
    Contexts <- MCContexts
    Difficulty <- MCDifficulty
    Hours <- MCHours
    Mastered = 65
    Infinity = Infinity
INVARIANTS
    SeededOnce
CHECK_DEADLOCK FALSE
