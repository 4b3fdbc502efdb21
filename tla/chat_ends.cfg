CONSTANTS
    Requests = {q1, q2}
    Threads = {t1}
    NoThread = NoThread
    Asked = {"question"}
    Detours = {"refusal", "clarification", "rejection"}
    Impatient = {q1}
    MaxFaults = 2
SPECIFICATION FairSpec
PROPERTIES StreamsEnd RecordsFinish
CHECK_DEADLOCK FALSE
