CONSTANTS
    s1 = s1
    s2 = s2
    Servers = {s1, s2}
    u1 = u1
    u2 = u2
    Users = {u1, u2}
    f1 = f1
    f2 = f2
    Feeds = {f1, f2}
    NoOne = NoOne
    MaxFocus = 2
    MaxComments = 3
SPECIFICATION Spec
SYMMETRY Symmetry
INVARIANTS
    TypeOK
    Delivered
    OwnCommentShown
CHECK_DEADLOCK FALSE
