SPECIFICATION Spec
CONSTANTS
    Rows = 3
    PageSize = 2
    Found = {2}
    Mine = {1, 3}
    MaxPending = 2
    MaxFindings = 3
    MaxProbes = 2
    MaxRemovals = 1
    ShownSize = 1
    CopySize = 1
    Logged = {1, 3}
    Vulnerable = {1}
    Uploads = {u1, u2}
    Pictures = {p1, p2}
    Images = {i1, i2}
    MaxRequests = 2
SYMMETRY Symmetry
INVARIANTS
    TypeOK   OneSource
PROPERTIES
    DialogIsAnswered 
CHECK_DEADLOCK FALSE
