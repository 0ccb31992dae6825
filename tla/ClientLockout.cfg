SPECIFICATION Spec
CONSTANTS
    Users = {u1, u2}
    Wide = FALSE
    MaxTokens = 2
    MaxFaults = 1
    MaxTexts = 2
    OnPage <- TwoPages
    Patchable <- AllButFirst
SYMMETRY Symmetry
INVARIANT NeverLockedOut
CHECK_DEADLOCK FALSE
