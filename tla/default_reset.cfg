SPECIFICATION Spec
CONSTANTS
    Users = {admin, u1}
    Admin = admin
    Spaces = {home, s1}
    Home = home
    Rows = {i1, i2}
    Requests = {r1}
    None = None
    Same = Same
    MaxRequests = 1
INVARIANTS
    DefaultIsReset
