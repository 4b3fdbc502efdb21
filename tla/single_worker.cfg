SPECIFICATION Spec
CONSTANTS
    Workers = {w1}
    Chats = {c1}
    Datasources = {d1}
    Forms = {"datasource", "legacy"}
    q1 = q1
    shown = shown
    fixed = fixed
    unsafe = unsafe
    Questions = {q1}
    SafeSqls = {shown, fixed}
    UnsafeSqls = {unsafe}
    PatchTypes = {"sql_override", "field_mapping_fix"}
    NoText = NoText
    NoRow = NoRow
    Submissions <- MCSubmissions
    TickDays = {8}
    MaxClock = 8
    MaxEvents = 3
    MaxPatches = 3
INVARIANTS
    TypeOK
    MetricIsExact
    PatchesAreExplained
    NoServerError
PROPERTIES
    CorrectionTakesEffect
