SPECIFICATION FairSpec
CONSTANTS
  NoDispatch = NoDispatch
  NoFinding = NoFinding
  f1 = f1
  f2 = f2
  f3 = f3
  t1 = t1
  t2 = t2
  Dispatches = {d1}
  Findings = {f2}
  Tokens = {}
  TokenFinding <- OwnToken
  NumJobs = 1
  JobFinding <- OwnJob
  SecretLeak = FALSE
  Rejected = {}
  Workers = {w1}
  Deletable = {d1}
  Sessions = {s1, s2}
  Faults = {"publish", "database"}
  MaxFaults = 1
CHECK_DEADLOCK FALSE
INVARIANTS
  NotificationAgrees
PROPERTIES
  OutcomeBeforeNotice
  FinishedIsAnnounced
