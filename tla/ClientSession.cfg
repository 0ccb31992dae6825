SPECIFICATION Spec
CONSTANTS
    Users = {u1, u2}
    Wide = TRUE
    MaxTokens = 2
    MaxFaults = 1
    MaxTexts = 2
    OnPage <- TwoPages
    Patchable <- AllButFirst
SYMMETRY Symmetry
INVARIANTS
    TypeOK OneUserPerTab SetupIsOwn  OnePr
 
CHECK_DEADLOCK FALSE
