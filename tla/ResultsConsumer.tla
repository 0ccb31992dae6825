--------------------------- MODULE ResultsConsumer ---------------------------
(***************************************************************************)
(* attacks:consume-results, the one process that stores what the workers   *)
(* report.  It takes a message, runs the processor of its event statement  *)
(* by statement, and deletes (acknowledges) the message; when anything     *)
(* throws it releases it, which queues a copy at the tail and then         *)
(* acknowledges the original.  A crash returns the original to the head.   *)
(***************************************************************************)
EXTENDS NotificationInbox

Consumer == [stage  : {"idle", "lookup", "check", "insert", "update", "notify",
                       "save", "raised", "ack"},
             msg    : Message \cup {NoMessage},
             loaded : Notification]

IdleConsumer == [stage |-> "idle", msg |-> NoMessage, loaded |-> NoNotification]

msg == consumer.msg
untouched == <<apiVars, batchQueue, worker, bell, sent>>

GoTo(stage) == consumer' = [consumer EXCEPT !.stage = stage]

TakeMessage ==
  /\ consumer.stage = "idle"
  /\ resultsQueue # <<>>
  /\ consumer' = [IdleConsumer EXCEPT !.stage = "lookup",
                                      !.msg = Head(resultsQueue)]
  /\ resultsQueue' = Tail(resultsQueue)
  /\ UNCHANGED <<untouched, row, resultVars, notification, faults, released>>

\* A completion that tells the user before it updates the dispatch.
NotifyFirst(kind) == CASE kind = "result"     -> "check"
                       [] kind = "probe"      -> "insert"
                       [] kind = "completion" -> "notify"

\* AttackResultsMessageHandler routes on the event; each processor first
\* looks its dispatch up and throws ModelNotFoundException without it.
FirstStage(kind) == CASE kind = "result"     -> "check"
                      [] kind = "probe"      -> "insert"
                      [] kind = "completion" -> "update"

LookUpDispatch ==
  /\ consumer.stage = "lookup"
  /\ GoTo(IF row[msg.dispatch].exists THEN FirstStage(msg.kind) ELSE "raised")
  /\ UNCHANGED <<untouched, row, resultVars, resultsQueue, notification, faults,
                 released>>

-----------------------------------------------------------------------------
\* AttackResultProcessor without its look-up of an existing row.
SkipExistingCheck ==
  /\ consumer.stage = "check"
  /\ GoTo("insert")
  /\ UNCHANGED <<untouched, row, resultVars, resultsQueue, notification, faults,
                 released>>

\* AttackResultProcessor: a row of the same dispatch, attack and canonical
\* route is returned instead of stored again.
CheckExisting ==
  /\ consumer.stage = "check"
  /\ GoTo(IF resultRows[msg.dispatch][msg.finding] > 0 THEN "ack" ELSE "insert")
  /\ UNCHANGED <<untouched, row, resultVars, resultsQueue, notification, faults,
                 released>>

\* SystemResult::create and DispatchProbe::create; their foreign key throws
\* when the dispatch is gone by now.
InsertResult ==
  /\ consumer.stage = "insert" /\ msg.kind = "result"
  /\ IF row[msg.dispatch].exists
     THEN /\ resultRows' = [resultRows EXCEPT ![msg.dispatch][msg.finding] = @ + 1]
          /\ GoTo("ack")
     ELSE /\ GoTo("raised")
          /\ UNCHANGED resultRows
  /\ UNCHANGED <<untouched, row, orphans, probeRows, resultsQueue, notification,
                 faults, released>>

InsertProbe ==
  /\ consumer.stage = "insert" /\ msg.kind = "probe"
  /\ IF row[msg.dispatch].exists
     THEN /\ probeRows' = [probeRows EXCEPT ![msg.dispatch] = @ + 1]
          /\ GoTo("ack")
     ELSE /\ GoTo("raised")
          /\ UNCHANGED probeRows
  /\ UNCHANGED <<untouched, row, resultRows, orphans, resultsQueue,
                 notification, faults, released>>

-----------------------------------------------------------------------------
\* A completion that only sets the column of its own outcome.
AccumulatedRow(r, m) == [r EXCEPT !.completedAt = @ \/ ~m.failed,
                                  !.failedAt = @ \/ m.failed,
                                  !.findings = m.findings,
                                  !.probes = m.probes]

\* A failed completion that clears the outcome instead of recording one.
ClearedRow(r, m) == [r EXCEPT !.completedAt = ~m.failed,
                              !.failedAt = FALSE,
                              !.findings = m.findings,
                              !.probes = m.probes]

\* The columns a completion writes.
CompletedRow(r, m) == [r EXCEPT !.completedAt = ~m.failed,
                                !.failedAt = m.failed,
                                !.findings = m.findings,
                                !.probes = m.probes]

\* AttackDispatchCompletionProcessor: the update, then fresh(), which is null
\* (a TypeError in completeAttackDispatch) when the row is gone.
UpdateDispatch ==
  /\ consumer.stage = "update"
  /\ IF row[msg.dispatch].exists
     THEN /\ row' = [row EXCEPT ![msg.dispatch] = CompletedRow(@, msg)]
          /\ GoTo("notify")
     ELSE /\ GoTo("raised")
          /\ UNCHANGED row
  /\ UNCHANGED <<untouched, resultVars, resultsQueue, notification, faults,
                 released>>

\* completeAttackDispatch: no notification, nothing to do.
LoadNotification ==
  /\ consumer.stage = "notify"
  /\ IF notification[msg.dispatch].status = "none"
     THEN GoTo("ack")
     ELSE consumer' = [consumer EXCEPT !.stage = "save",
                                       !.loaded = notification[msg.dispatch]]
  /\ UNCHANGED <<untouched, row, resultVars, resultsQueue, notification, faults,
                 released>>

\* A notification that calls every finished scan completed.
SaveAsCompleted ==
  /\ consumer.stage = "save"
  /\ notification' = [notification EXCEPT
       ![msg.dispatch] = Finalized(@, consumer.loaded, "completed")]
  /\ GoTo("ack")
  /\ UNCHANGED <<untouched, row, resultVars, resultsQueue, faults, released>>

\* ... the update of what was loaded.
SaveNotification ==
  LET outcome == IF msg.failed THEN "failed" ELSE "completed" IN
  /\ consumer.stage = "save"
  /\ notification' = [notification EXCEPT
       ![msg.dispatch] = Finalized(@, consumer.loaded, outcome)]
  /\ GoTo("ack")
  /\ UNCHANGED <<untouched, row, resultVars, resultsQueue, faults, released>>

-----------------------------------------------------------------------------
\* A statement throws although its message is fine.
DatabaseFails ==
  /\ consumer.stage \in {"lookup", "check", "insert", "update", "notify", "save"}
  /\ InjectFault("database")
  /\ GoTo("raised")
  /\ UNCHANGED <<untouched, row, resultVars, resultsQueue, notification,
                 released>>

\* A release that forgets to queue the copy.
DropMessage ==
  /\ consumer.stage = "raised"
  /\ released' = TRUE
  /\ GoTo("ack")
  /\ UNCHANGED <<untouched, row, resultVars, resultsQueue, notification, faults>>

\* RabbitMQJob::release, first half: a copy goes to the tail.
ReleaseMessage ==
  /\ consumer.stage = "raised"
  /\ resultsQueue' = Append(resultsQueue, msg)
  /\ released' = TRUE
  /\ GoTo("ack")
  /\ UNCHANGED <<untouched, row, resultVars, notification, faults>>

\* RabbitMQJob::delete, and the second half of release.
AckMessage ==
  /\ consumer.stage = "ack"
  /\ consumer' = IdleConsumer
  /\ UNCHANGED <<untouched, row, resultVars, resultsQueue, notification, faults,
                 released>>

\* The consumer dies and supervisord starts it again.
ConsumerCrash ==
  /\ consumer.stage # "idle"
  /\ InjectFault("crash")
  /\ resultsQueue' = <<msg>> \o resultsQueue
  /\ consumer' = IdleConsumer
  /\ UNCHANGED <<untouched, row, resultVars, notification, released>>

ConsumerStep ==
  \/ TakeMessage \/ LookUpDispatch \/ CheckExisting \/ InsertResult
  \/ InsertProbe \/ UpdateDispatch \/ LoadNotification \/ SaveNotification
  \/ ReleaseMessage \/ AckMessage

ConsumerFault == DatabaseFails \/ ConsumerCrash
=============================================================================
