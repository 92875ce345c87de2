\* The countdown of two attempts, with autosaves two ticks apart.
SPECIFICATION FairSpec
CONSTANTS
    NumQuestions = 1
    Answers = {right, wrong}
    Right = right
    None = None
    DefaultLimit = 3
    DefaultPass = 50
    Attempts = {a1, a2}
    Exams <- MCClock
    Ordered = {}
    AutosaveEvery = 2
    MaxEdits = 1
    MaxRestarts = 1
    MaxFaults = 1
INVARIANTS
    ClockHonest
    ClockOnlyOnExam
PROPERTIES
    TimedExamEnds
CHECK_DEADLOCK FALSE
