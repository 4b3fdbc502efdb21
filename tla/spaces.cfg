SPECIFICATION FairSpec
CONSTANTS
    Users = {admin, u1}
    Admin = admin
    Spaces = {home, s1}
    Home = home
    Rows = {i1}
    Requests = {r1, r2}
    None = None
    Same = Same
    MaxRequests = 2
INVARIANTS
    TypeOK
    StaleIsExplained
PROPERTIES
    RequestsEnd
