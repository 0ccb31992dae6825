SPECIFICATION Spec
CONSTANTS
  NoDispatch = NoDispatch
  NoFinding = NoFinding
  f1 = f1
  f2 = f2
  f3 = f3
  t1 = t1
  t2 = t2
  Dispatches = {d1, d2}
  Findings = {f2}
  Tokens = {}
  TokenFinding <- OwnToken
  NumJobs = 0
  JobFinding <- OwnJob
  SecretLeak = FALSE
  Rejected = {d2}
  Workers = {w1, w2}
  Deletable = {d1}
  Sessions = {}
  Faults = {"crash", "completion"}
  MaxFaults = 2
CHECK_DEADLOCK FALSE
INVARIANTS
  AcceptedBeforeScanned
PROPERTIES
  ImplementsLifecycle
