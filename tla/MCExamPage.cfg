\* Two attempts at two-question exams; the second question is an ordered list.
SPECIFICATION Spec
CONSTANTS
    NumQuestions = 2
    Answers = {right, wrong}
    Right = right
    None = None
    DefaultLimit = 2
    DefaultPass = 50
    Attempts = {a1, a2}
    Exams <- MCExams
    Ordered <- MCOrdered
    AutosaveEvery = 1
    MaxEdits = 2
    MaxRestarts = 1
    MaxFaults = 1
INVARIANTS
    PageInvariant
    OneActive
    NothingUnsaved
    ResultsConsistent
    NoEarlyGrade
PROPERTIES
    LedgerSpec
SYMMETRY MCSymmetry
CHECK_DEADLOCK FALSE
