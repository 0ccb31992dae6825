SPECIFICATION Spec
CONSTANTS
  NoDispatch = NoDispatch
  NoFinding = NoFinding
  f1 = f1
  f2 = f2
  f3 = f3
  t1 = t1
  t2 = t2
  Dispatches = {d1}
  Findings = {f1, f2}
  Tokens = {t1}
  TokenFinding <- OwnToken
  NumJobs = 2
  JobFinding <- SameJob
  SecretLeak = TRUE
  Rejected = {}
  Workers = {w1}
  Deletable = {}
  Sessions = {}
  Faults = {"crash", "publish", "database"}
  MaxFaults = 2
CHECK_DEADLOCK FALSE
INVARIANTS
  TypeOK
  NoDuplicateResults
  OneOutcome
  NoResultLost
  
