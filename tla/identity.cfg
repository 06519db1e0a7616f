SPECIFICATION IdentitySpec
CONSTANTS
    Users = {u1, u2}
    Callbacks = {c1, c2}
    Pairs = {p1}
    Polls = {w1, w2}
    Calls = {k1, k2}
    Nobody = Nobody
    Backends = {"pg", "mongo"}
    Attempts = 2
    MaxIssues = 2
    MaxBlocks = 1
    MaxFailures = 1
INVARIANTS
    IdentityTypeOK
    SignInsSound
    GuestRowsSound
SYMMETRY Symmetry
CHECK_DEADLOCK FALSE
