------------------------------ MODULE ScanState ------------------------------
(***************************************************************************)
(* The state a scan dispatch is spread over: the MySQL tables the API      *)
(* writes, the two RabbitMQ queues, the batch each DAST worker is running, *)
(* the message the results consumer is handling, the notification bell of  *)
(* the signed-in browsers, and the DELETE requests in progress.  The       *)
(* components (DispatchApi, DastWorker, NotificationInbox,                 *)
(* ResultsConsumer) extend this module and ScanDispatch composes them.     *)
(***************************************************************************)
EXTENDS Integers, Sequences, FiniteSets

CONSTANTS
  Dispatches,     \* ids of the scans users ask for
  Findings,       \* (attack, canonical route) pairs a result can be about
  Tokens,         \* (kind, value) of the secrets the target may leak
  TokenFinding,   \* the pair the leak of a token is reported under
  NumJobs,        \* attack jobs mapped from the discovered vectors
  JobFinding,     \* the pair a vulnerable answer of a job is reported under
  SecretLeak,     \* the batch carries a SECRET_LEAK attack
  Rejected,       \* dispatches whose batch the worker's Validate refuses
  Workers,        \* containers of the DAST worker
  Deletable,      \* dispatches whose owner may send DELETE
  Sessions,       \* browser sessions whose bell polls the API
  Faults,         \* kinds of fault the environment may inject
  MaxFaults,      \* bound on the faults injected in one behaviour
  NoDispatch, NoFinding

FaultKinds == {"crash", "publish", "completion", "database"}

ASSUME ScanAssumption ==
  /\ NumJobs \in Nat
  /\ TokenFinding \in [Tokens -> Findings]
  /\ JobFinding \in [1 .. NumJobs -> Findings]
  /\ SecretLeak \in BOOLEAN
  /\ Rejected \subseteq Dispatches
  /\ Deletable \subseteq Dispatches
  /\ Faults \subseteq FaultKinds
  /\ MaxFaults \in Nat
  /\ NoDispatch \notin Dispatches
  /\ NoFinding \notin Findings

VARIABLES
  request,          \* how far POST .../attacks/dispatch got for a dispatch
  row,              \* attack_dispatches
  acknowledgments,  \* attack_acknowledgments, by dispatch
  resultRows,       \* system_results: number of rows per dispatch and pair
  orphans,          \* pairs of system_results rows left with a NULL dispatch
  probeRows,        \* dispatch_probes: number of rows per dispatch
  notification,     \* user_notifications of the dispatch
  deletion,         \* how far DELETE .../system-results/{dispatch} got
  batchQueue,       \* RabbitMQ attacks.dispatch
  resultsQueue,     \* RabbitMQ attacks.results
  worker,           \* the delivery each DAST worker runs, unacknowledged
  consumer,         \* the message attacks:consume-results handles, unacknowledged
  bell,             \* the reconcile request of each session
  faults,           \* faults injected so far
  sent,             \* history: pairs whose result message reached the queue
  released          \* history: the consumer has put a message back at the tail

apiVars     == <<request, acknowledgments, deletion>>
resultVars  == <<resultRows, orphans, probeRows>>
history     == <<sent, released>>
vars == <<request, row, acknowledgments, resultRows, orphans, probeRows,
          notification, deletion, batchQueue, resultsQueue, worker, consumer,
          bell, faults, sent, released>>

-----------------------------------------------------------------------------
\* A message of attacks.results.  One record shape for the three events.
Message ==
  {m \in [kind     : {"result", "probe", "completion"},
          dispatch : Dispatches,
          finding  : Findings \cup {NoFinding},
          failed   : BOOLEAN,
          findings : Nat,
          probes   : Nat] : m.kind = "result" => m.finding \in Findings}

ResultMessage(d, f) ==
  [kind |-> "result", dispatch |-> d, finding |-> f,
   failed |-> FALSE, findings |-> 0, probes |-> 0]

ProbeMessage(d) ==
  [kind |-> "probe", dispatch |-> d, finding |-> NoFinding,
   failed |-> FALSE, findings |-> 0, probes |-> 0]

CompletionMessage(d, failed, findings, probes) ==
  [kind |-> "completion", dispatch |-> d, finding |-> NoFinding,
   failed |-> failed, findings |-> findings, probes |-> probes]

\* What is put in a queue position that holds nothing.
NoMessage == [kind |-> "probe", dispatch |-> NoDispatch, finding |-> NoFinding,
              failed |-> FALSE, findings |-> 0, probes |-> 0]

DispatchRow == [exists      : BOOLEAN,
                completedAt : BOOLEAN,
                failedAt    : BOOLEAN,
                findings    : Nat,
                probes      : Nat]

AbsentRow == [exists |-> FALSE, completedAt |-> FALSE, failedAt |-> FALSE,
              findings |-> 0, probes |-> 0]

\* AttackDispatch::scanStatus()
ScanStatus(r) == IF r.failedAt THEN "failed"
                 ELSE IF r.completedAt THEN "completed"
                 ELSE "pending"

Notification == [status : {"none", "pending", "completed", "failed"},
                 read   : BOOLEAN]

NoNotification == [status |-> "none", read |-> FALSE]

InjectFault(kind) ==
  /\ kind \in Faults
  /\ faults < MaxFaults
  /\ faults' = faults + 1
=============================================================================
