------------------------------ MODULE DastWorker ------------------------------
(***************************************************************************)
(* The workers that compete for attacks.dispatch, one delivery each at a   *)
(* time (RABBITMQ_PREFETCH 1): Consumer.handleDelivery, Pipeline.Run with  *)
(* its deferred completion, and the publishes that may fail between any    *)
(* two steps.  The delivery stays unacknowledged until the end of          *)
(* handleDelivery, so a crash puts the batch back at the head of the queue *)
(* and the whole pipeline runs again, on this worker or on another.        *)
(***************************************************************************)
EXTENDS ScanState

Stages == {"idle", "received", "secrets", "job", "jobProbe",
           "failed", "completed"}

Worker == [stage    : Stages,
           dispatch : Dispatches \cup {NoDispatch},
           tokens   : SUBSET Tokens,     \* seenToken of publishSecretLeaks
           leaks    : Nat,               \* its local count of findings
           seen     : SUBSET Findings,   \* publishedFindings
           job      : Nat,               \* response the loop is at
           findings : Nat,               \* findingsPublished
           probes   : Nat]               \* probesPublished

IdleWorker == [stage |-> "idle", dispatch |-> NoDispatch, tokens |-> {},
               leaks |-> 0, seen |-> {}, job |-> 1, findings |-> 0,
               probes |-> 0]

others == <<apiVars, row, resultVars, notification, consumer, bell, released>>

\* What worker w is at next; the others go on with what they are at.
Becomes(w, next) == worker' = [worker EXCEPT ![w] = next]

\* publisher.publishJSON that reaches the broker.
Publish(m) ==
  /\ resultsQueue' = Append(resultsQueue, m)
  /\ sent' = IF m.kind = "result"
             THEN [sent EXCEPT ![m.dispatch] = @ \cup {m.finding}]
             ELSE sent

\* The broker hands the batch over; the counters of Run start at zero.
ReceiveBatch(w) ==
  /\ worker[w].stage = "idle"
  /\ batchQueue # <<>>
  /\ Becomes(w, [IdleWorker EXCEPT !.stage = "received",
                                   !.dispatch = Head(batchQueue)])
  /\ batchQueue' = Tail(batchQueue)
  /\ UNCHANGED <<others, resultsQueue, faults, sent>>

\* ParseDispatchBatch fails: Nack without requeue, and nothing is published.
RejectBatch(w) ==
  /\ worker[w].stage = "received"
  /\ worker[w].dispatch \in Rejected
  /\ Becomes(w, IdleWorker)
  /\ UNCHANGED <<others, batchQueue, resultsQueue, faults, sent>>

\* A failed discovery that returns before the completion is deferred.
QuietFailure(w) ==
  /\ worker[w].stage = "received"
  /\ worker[w].dispatch \notin Rejected
  /\ Becomes(w, [worker[w] EXCEPT !.stage = "completed"])
  /\ UNCHANGED <<others, batchQueue, resultsQueue, faults, sent>>

\* AssertHTTP, the ping or Discover returns an error.
DiscoveryFails(w) ==
  /\ worker[w].stage = "received"
  /\ worker[w].dispatch \notin Rejected
  /\ Becomes(w, [worker[w] EXCEPT !.stage = "failed"])
  /\ UNCHANGED <<others, batchQueue, resultsQueue, faults, sent>>

\* Discovery succeeds; without a SECRET_LEAK attack the jobs start at once.
DiscoverySucceeds(w) ==
  /\ worker[w].stage = "received"
  /\ worker[w].dispatch \notin Rejected
  /\ Becomes(w, [worker[w] EXCEPT
                  !.stage = IF SecretLeak THEN "secrets" ELSE "job"])
  /\ UNCHANGED <<others, batchQueue, resultsQueue, faults, sent>>

-----------------------------------------------------------------------------
\* A token not seen before in this run is published, whatever its route.
PublishLeak(w, t) ==
  /\ worker[w].stage = "secrets"
  /\ t \notin worker[w].tokens
  /\ Publish(ResultMessage(worker[w].dispatch, TokenFinding[t]))
  /\ Becomes(w, [worker[w] EXCEPT !.tokens = @ \cup {t}, !.leaks = @ + 1])
  /\ UNCHANGED <<others, batchQueue, faults>>

\* A summary that takes one leak too few into the counts.
DeductedSecrets(w) ==
  /\ worker[w].stage = "secrets"
  /\ Publish(ProbeMessage(worker[w].dispatch))
  /\ Becomes(w, [worker[w] EXCEPT !.stage = "job", !.probes = 1,
                                 !.findings = worker[w].leaks - 1])
  /\ UNCHANGED <<others, batchQueue, faults>>

\* The summary probe; only now Run adds the leaks to its counts.  A scanner
\* error takes the same step with no leak found and an error probe.
FinishSecrets(w) ==
  /\ worker[w].stage = "secrets"
  /\ Publish(ProbeMessage(worker[w].dispatch))
  /\ Becomes(w, [worker[w] EXCEPT !.stage = "job", !.probes = 1,
                                 !.findings = worker[w].leaks])
  /\ UNCHANGED <<others, batchQueue, faults>>

-----------------------------------------------------------------------------
JobsLeft(w) == worker[w].job <= NumJobs

\* A run that does not remember what it has published.
RepeatFinding(w) ==
  /\ worker[w].stage = "job" /\ JobsLeft(w)
  /\ Publish(ResultMessage(worker[w].dispatch, JobFinding[worker[w].job]))
  /\ Becomes(w, [worker[w] EXCEPT !.stage = "jobProbe", !.findings = @ + 1,
                                 !.seen = @ \cup {JobFinding[worker[w].job]}])
  /\ UNCHANGED <<others, batchQueue, faults>>

\* A vulnerable answer whose identity this run has not published yet.
PublishFinding(w) ==
  /\ worker[w].stage = "job" /\ JobsLeft(w)
  /\ JobFinding[worker[w].job] \notin worker[w].seen
  /\ Publish(ResultMessage(worker[w].dispatch, JobFinding[worker[w].job]))
  /\ Becomes(w, [worker[w] EXCEPT !.stage = "jobProbe", !.findings = @ + 1,
                                 !.seen = @ \cup {JobFinding[worker[w].job]}])
  /\ UNCHANGED <<others, batchQueue, faults>>

\* The probe of a response: clean, error, a repeated finding, or the one that
\* follows the result just published.
PublishProbe(w) ==
  /\ \/ worker[w].stage = "job" /\ JobsLeft(w)
     \/ worker[w].stage = "jobProbe"
  /\ Publish(ProbeMessage(worker[w].dispatch))
  /\ Becomes(w, [worker[w] EXCEPT !.stage = "job", !.job = @ + 1, !.probes = @ + 1])
  /\ UNCHANGED <<others, batchQueue, faults>>

Publishing(w) == \/ worker[w].stage \in {"secrets", "jobProbe"}
                 \/ worker[w].stage = "job" /\ JobsLeft(w)

\* A publish of a result or a probe fails: Run returns the error.
PublishFails(w) ==
  /\ Publishing(w)
  /\ InjectFault("publish")
  /\ Becomes(w, [worker[w] EXCEPT !.stage = "failed"])
  /\ UNCHANGED <<others, batchQueue, resultsQueue, sent>>

-----------------------------------------------------------------------------
RunReturns(w) == \/ worker[w].stage = "job" /\ ~JobsLeft(w)
                 \/ worker[w].stage = "failed"

\* The deferred completion of Run, with the error and the counts so far.
PublishCompletion(w) ==
  /\ RunReturns(w)
  /\ Publish(CompletionMessage(worker[w].dispatch, worker[w].stage = "failed",
                               worker[w].findings, worker[w].probes))
  /\ Becomes(w, [worker[w] EXCEPT !.stage = "completed"])
  /\ UNCHANGED <<others, batchQueue, faults>>

\* Its publish fails: the error is logged and the run is over all the same.
LoseCompletion(w) ==
  /\ RunReturns(w)
  /\ InjectFault("completion")
  /\ Becomes(w, [worker[w] EXCEPT !.stage = "completed"])
  /\ UNCHANGED <<others, batchQueue, resultsQueue, sent>>

\* handleDelivery acknowledges whether or not the pipeline failed.
AckBatch(w) ==
  /\ worker[w].stage = "completed"
  /\ Becomes(w, IdleWorker)
  /\ UNCHANGED <<others, batchQueue, resultsQueue, faults, sent>>

\* The process or its connection dies: the unacknowledged batch returns to
\* the head of the queue.
WorkerCrash(w) ==
  /\ worker[w].stage # "idle"
  /\ InjectFault("crash")
  /\ batchQueue' = <<worker[w].dispatch>> \o batchQueue
  /\ Becomes(w, IdleWorker)
  /\ UNCHANGED <<others, resultsQueue, sent>>

WorkerStep(w) ==
  \/ ReceiveBatch(w) \/ RejectBatch(w)
  \/ DiscoveryFails(w) \/ DiscoverySucceeds(w)
  \/ (\E t \in Tokens : PublishLeak(w, t)) \/ FinishSecrets(w)
  \/ PublishFinding(w) \/ PublishProbe(w) \/ PublishCompletion(w) \/ AckBatch(w)

WorkerFault(w) == PublishFails(w) \/ LoseCompletion(w) \/ WorkerCrash(w)
=============================================================================
