\* One request at a time, with a restart and a failing database call.
SPECIFICATION FairSpec
CONSTANTS
    NumQuestions = 1
    Answers = {right, wrong}
    Right = right
    None = None
    DefaultLimit = 2
    DefaultPass = 50
    Attempts = {a1, a2}
    Threads = {t1}
    Offered <- MCTerms
    ModesOffered = {"exam", "practice"}
    Countdowns = {1}
    MaxObjects = 3
    MaxRequests = 4
    MaxRestarts = 1
    MaxFaults = 1
INVARIANTS
    TypeOK
    OneActive
    CacheIsSaved
    ResultsConsistent
PROPERTIES
    FinishedStaysFinished
CHECK_DEADLOCK FALSE
