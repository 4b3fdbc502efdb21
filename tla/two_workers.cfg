SPECIFICATION Spec
CONSTANTS
    Workers = {w1, w2}
    Chats = {}
    Datasources = {d1}
    Forms = {"datasource", "legacy"}
    q1 = q1
    shown = shown
    fixed = fixed
    unsafe = unsafe
    Questions = {q1}
    SafeSqls = {shown, fixed}
    UnsafeSqls = {unsafe}
    PatchTypes = {"sql_override", "field_mapping_fix"}
    NoText = NoText
    NoRow = NoRow
    Submissions <- MCFewSubmissions
    TickDays = {}
    MaxClock = 0
    MaxEvents = 3
    MaxPatches = 3
INVARIANTS
    NewestActive
PROPERTIES
    PatchLifecycle
    SoloRecountIsExact
SYMMETRY Swap
