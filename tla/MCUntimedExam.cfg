\* An untimed exam, closed and resumed.
SPECIFICATION Spec
CONSTANTS
    NumQuestions = 1
    Answers = {right, wrong}
    Right = right
    None = None
    DefaultLimit = 4
    DefaultPass = 50
    Attempts = {a1}
    Exams <- MCUntimed
    Ordered = {}
    AutosaveEvery = 2
    MaxEdits = 1
    MaxRestarts = 1
    MaxFaults = 0
INVARIANTS
    UntimedStaysUntimed
CHECK_DEADLOCK FALSE
