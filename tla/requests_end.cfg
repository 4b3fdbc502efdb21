SPECIFICATION FairSpec
CONSTANTS
    Workers = {w1, w2}
    Chats = {}
    Datasources = {d1}
    Forms = {"datasource"}
    q1 = q1
    shown = fixed
    fixed = fixed
    unsafe = unsafe
    Questions = {q1}
    SafeSqls = {fixed}
    UnsafeSqls = {}
    PatchTypes = {"sql_override", "field_mapping_fix"}
    NoText = NoText
    NoRow = NoRow
    Submissions <- MCBothOrders
    TickDays = {}
    MaxClock = 0
    MaxEvents = 2
    MaxPatches = 4
PROPERTIES
    RequestsEnd
    BoardSpec
