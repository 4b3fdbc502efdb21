CONSTANTS
    Requests = {q1, q2}
    Threads = {t1}
    NoThread = NoThread
    Asked = {"question", "analysis", "predict", "override"}
    Detours = {"refusal", "choice", "clarification", "override", "rejection",
               "permissions", "exception"}
    Impatient = {}
    MaxFaults = 1
SPECIFICATION Spec
SYMMETRY MCSymmetry
INVARIANTS SavedBeforeSeen OneOutcome SilentOnlyIfHit
PROPERTY FinishedIsFinal
CHECK_DEADLOCK FALSE
