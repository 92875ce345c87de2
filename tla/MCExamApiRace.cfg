\* Two clients start an exam at the same time.
SPECIFICATION Spec
CONSTANTS
    NumQuestions = 1
    Answers = {right, wrong}
    Right = right
    None = None
    DefaultLimit = 2
    DefaultPass = 50
    Attempts = {a1, a2}
    Threads = {t1, t2}
    Offered <- MCTerms
    ModesOffered = {"exam"}
    Countdowns = {}
    MaxObjects = 4
    MaxRequests = 2
    MaxRestarts = 0
    MaxFaults = 0
INVARIANTS
    OneActive
CHECK_DEADLOCK FALSE
