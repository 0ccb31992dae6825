----------------------------- MODULE ScanDispatch -----------------------------
(***************************************************************************)
(* A scan from the POST that asks for it to the bell that reports it: the  *)
(* API, the DAST workers, the results consumer and the browsers, joined by *)
(* the two queues and the database.                                        *)
(***************************************************************************)
EXTENDS DispatchApi, DastWorker, ResultsConsumer

Init ==
  /\ request = [d \in Dispatches |-> "none"]
  /\ row = [d \in Dispatches |-> AbsentRow]
  /\ acknowledgments = {}
  /\ resultRows = [d \in Dispatches |-> [f \in Findings |-> 0]]
  /\ orphans = {}
  /\ probeRows = [d \in Dispatches |-> 0]
  /\ notification = [d \in Dispatches |-> NoNotification]
  /\ deletion = [d \in Dispatches |-> "idle"]
  /\ batchQueue = <<>>
  /\ resultsQueue = <<>>
  /\ worker = [w \in Workers |-> IdleWorker]
  /\ consumer = IdleConsumer
  /\ bell = [s \in Sessions |-> IdleBell]
  /\ faults = 0
  /\ sent = [d \in Dispatches |-> {}]
  /\ released = FALSE

WorkerNext == \E w \in Workers : WorkerStep(w) \/ WorkerFault(w)

Next == \/ ApiNext
        \/ WorkerNext
        \/ ConsumerStep \/ ConsumerFault
        \/ InboxNext

\* The containers of the workers and of the consumer restart on exit
\* (docker-compose.yml, supervisord.consumers.conf), so both keep running;
\* the client polls every 20 seconds while a session is open.  Requests that
\* users send are never owed.
Fairness == /\ \A w \in Workers : WF_vars(WorkerStep(w))
            /\ WF_vars(ConsumerStep)
            /\ \A s \in Sessions : WF_vars(BellStep(s))

Spec == Init /\ [][Next]_vars
FairSpec == Spec /\ Fairness

-----------------------------------------------------------------------------
\* Every variable keeps its type.
TypeOK ==
  /\ request \in [Dispatches ->
       {"none", "stored", "acknowledged", "published", "answered"}]
  /\ row \in [Dispatches -> DispatchRow]
  /\ acknowledgments \subseteq Dispatches
  /\ resultRows \in [Dispatches -> [Findings -> Nat]]
  /\ orphans \subseteq Findings
  /\ probeRows \in [Dispatches -> Nat]
  /\ notification \in [Dispatches -> Notification]
  /\ deletion \in [Dispatches -> {"idle", "results", "probes", "done"}]
  /\ batchQueue \in Seq(Dispatches)
  /\ resultsQueue \in Seq(Message)
  /\ worker \in [Workers -> Worker]
  /\ consumer \in Consumer
  /\ bell \in [Sessions -> Bell]
  /\ faults \in Nat
  /\ sent \in [Dispatches -> SUBSET Findings]
  /\ released \in BOOLEAN

\* Dispatches a component is handling.
InBatchQueue(d)   == \E i \in 1 .. Len(batchQueue) : batchQueue[i] = d
InResultsQueue(m) == \E i \in 1 .. Len(resultsQueue) : resultsQueue[i] = m
AtWorker(d)       == \E w \in Workers :
                       worker[w].stage # "idle" /\ worker[w].dispatch = d
AtConsumer(m)     == consumer.stage # "idle" /\ consumer.msg = m
MessageOf(d) == \/ consumer.stage # "idle" /\ consumer.msg.dispatch = d
                \/ \E i \in 1 .. Len(resultsQueue) : resultsQueue[i].dispatch = d

Queued(d) == request[d] \in {"published", "answered"}
Finished(d) == row[d].exists /\ ScanStatus(row[d]) # "pending"

\* Nothing reaches a worker, the results queue or a finished row without the
\* user's acceptance of responsibility on record first (as long as the row it
\* belongs to is there): the batch is published only after the acknowledgment
\* is stored (AttackController), across every redelivery.
AcceptedBeforeScanned ==
  \A d \in Dispatches :
    row[d].exists /\ (InBatchQueue(d) \/ AtWorker(d) \/ MessageOf(d) \/ Finished(d))
      => d \in acknowledgments

\* One system_results row per dispatch, attack and canonical route, however
\* often a batch or a message is delivered: the look-up of
\* AttackResultProcessor is not atomic with its insert, and there is no unique
\* key, so this rests on there being one consumer.
NoDuplicateResults ==
  \A d \in Dispatches, f \in Findings : resultRows[d][f] <= 1

\* A dispatch is never both completed and failed, whatever order the
\* completions of two deliveries of its batch arrive in.
OneOutcome == \A d \in Dispatches : ~(row[d].completedAt /\ row[d].failedAt)

\* A result the broker accepted is never lost while its dispatch is there:
\* it is stored, queued or being handled, through crashes of the consumer,
\* failed statements and releases.
NoResultLost ==
  \A d \in Dispatches :
    row[d].exists /\ deletion[d] = "idle" =>
      \A f \in sent[d] : \/ resultRows[d][f] > 0
                         \/ InResultsQueue(ResultMessage(d, f))
                         \/ AtConsumer(ResultMessage(d, f))

\* A scan that is shown completed has in the tables at least what its counts
\* say: the queue is first in first out, so the completion is handled after
\* every result and probe it counts, unless one was released to the tail.
CompletedIsStored ==
  \A d \in Dispatches :
    row[d].exists /\ row[d].completedAt /\ deletion[d] = "idle" /\ ~released =>
      /\ Cardinality(StoredFindings(d)) >= row[d].findings
      /\ probeRows[d] >= row[d].probes

\* The inbox agrees with the scan: a notification that shows an outcome shows
\* the one in the dispatch row, for as long as there is a row, whoever wrote it
\* and however old the read it was written from.
NotificationAgrees ==
  \A d \in Dispatches :
    row[d].exists /\ notification[d].status \in {"completed", "failed"}
      => notification[d].status = ScanStatus(row[d])

\* An outcome is announced only after the dispatch row has it, and the row
\* keeps having one: a notification leaves pending only for a dispatch that
\* is finished or was deleted meanwhile.
OutcomeBeforeNotice ==
  [][\A d \in Dispatches :
       /\ notification[d].status = "pending"
       /\ notification'[d].status \in {"completed", "failed"}
       => Finished(d) \/ ~row[d].exists]_vars

-----------------------------------------------------------------------------
\* A scan whose batch was published ends, in one way or the other, or is
\* deleted.
ScanFinishes ==
  \A d \in Dispatches :
    Queued(d) ~> (Finished(d) \/ ~row[d].exists)

\* A finished scan does not stay pending in the inbox, even when its
\* completion was handled before the notification was created.
FinishedIsAnnounced ==
  \A d \in Dispatches :
    (Finished(d) /\ notification[d].status = "pending")
      ~> (notification[d].status # "pending" \/ ~row[d].exists)

-----------------------------------------------------------------------------
\* The abstract scan this implements.
scanState == [d \in Dispatches |->
  IF request[d] = "none" THEN "none"
  ELSE IF ~row[d].exists THEN "deleted"
  ELSE IF ScanStatus(row[d]) # "pending" THEN ScanStatus(row[d])
  ELSE IF Queued(d) THEN "queued"
  ELSE "created"]

Lifecycle == INSTANCE ScanLifecycle WITH scan <- scanState

\* The composed system is an implementation of ScanLifecycle.
ImplementsLifecycle == Lifecycle!Spec
=============================================================================
