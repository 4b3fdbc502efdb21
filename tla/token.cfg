CONSTANTS
    Tabs = {tab1, tab2}
    Requests = {r1, r2, r3}
    NoTab = NoTab
    MaxTokens = 4
SPECIFICATION FairSpec
INVARIANTS OneRefreshAtATime HeldIsWaitedFor
PROPERTIES TokenNeverGoesBack WaitingEnds
CHECK_DEADLOCK FALSE
