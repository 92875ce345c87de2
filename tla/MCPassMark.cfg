\* An exam whose pass mark is not the default one, closed and resumed.
SPECIFICATION Spec
CONSTANTS
    NumQuestions = 2
    Answers = {right, wrong}
    Right = right
    None = None
    DefaultLimit = 4
    DefaultPass = 50
    Attempts = {a1}
    Exams <- MCStrict
    Ordered = {}
    AutosaveEvery = 2
    MaxEdits = 1
    MaxRestarts = 1
    MaxFaults = 0
INVARIANTS
    PassedAgainstBankMark
CHECK_DEADLOCK FALSE
