SPECIFICATION Spec
CONSTANTS
    Users = {admin, u1, u2}
    Admin = admin
    Spaces = {home, s1}
    Home = home
    Rows = {i1, i2, i3}
    Requests = {r1}
    None = None
    Same = Same
    MaxRequests = 2
SYMMETRY Interchange
INVARIANTS
    WorksWhereMember
