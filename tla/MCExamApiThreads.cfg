\* Two requests at a time, on one or two attempts.
SPECIFICATION FairSpec
CONSTANTS
    NumQuestions = 1
    Answers = {right, wrong}
    Right = right
    None = None
    DefaultLimit = 2
    DefaultPass = 50
    Attempts = {a1, a2}
    Threads = {t1, t2}
    Offered <- MCTerms
    ModesOffered = {"exam", "practice"}
    Countdowns = {1}
    MaxObjects = 4
    MaxRequests = 3
    MaxRestarts = 1
    MaxFaults = 0
INVARIANTS
    GradesCurrent
PROPERTIES
    Responds
CHECK_DEADLOCK FALSE
