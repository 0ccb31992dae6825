----------------------------- MODULE DispatchApi -----------------------------
(***************************************************************************)
(* The HTTP side of a scan: AttackController::dispatchScan, whose four     *)
(* writes are not in a transaction, and SystemResultController::destroy,   *)
(* whose three DELETE statements are not in one either.  Other processes   *)
(* run between any two of them, and a request that dies simply takes no    *)
(* further step: no action here is fair.                                   *)
(***************************************************************************)
EXTENDS ScanState

\* AttackDispatch::create
StoreDispatch(d) ==
  /\ request[d] = "none"
  /\ request' = [request EXCEPT ![d] = "stored"]
  /\ row' = [row EXCEPT ![d] = [AbsentRow EXCEPT !.exists = TRUE]]
  /\ UNCHANGED <<acknowledgments, resultVars, notification, deletion,
                 batchQueue, resultsQueue, worker, consumer, bell, faults,
                 history>>

\* AttackAcknowledgment::create; its foreign key needs the dispatch row.
StoreAcknowledgment(d) ==
  /\ request[d] = "stored"
  /\ row[d].exists
  /\ request' = [request EXCEPT ![d] = "acknowledged"]
  /\ acknowledgments' = acknowledgments \cup {d}
  /\ UNCHANGED <<row, resultVars, notification, deletion, batchQueue,
                 resultsQueue, worker, consumer, bell, faults, history>>

\* A batch that leaves before the user's acceptance is on record.
EagerPublishBatch(d) ==
  /\ request[d] \in {"stored", "acknowledged"}
  /\ request' = [request EXCEPT ![d] = "published"]
  /\ batchQueue' = Append(batchQueue, d)
  /\ UNCHANGED <<row, acknowledgments, resultVars, notification, deletion,
                 resultsQueue, worker, consumer, bell, faults, history>>

\* publishDispatchBatch
PublishBatch(d) ==
  /\ request[d] = "acknowledged"
  /\ request' = [request EXCEPT ![d] = "published"]
  /\ batchQueue' = Append(batchQueue, d)
  /\ UNCHANGED <<row, acknowledgments, resultVars, notification, deletion,
                 resultsQueue, worker, consumer, bell, faults, history>>

\* trackAttackDispatchPending, then the 202 answer.
TrackPending(d) ==
  /\ request[d] = "published"
  /\ request' = [request EXCEPT ![d] = "answered"]
  /\ notification' = [notification EXCEPT
                        ![d] = [status |-> "pending", read |-> FALSE]]
  /\ UNCHANGED <<row, acknowledgments, resultVars, deletion, batchQueue,
                 resultsQueue, worker, consumer, bell, faults, history>>

-----------------------------------------------------------------------------
DeleteResults(d) ==
  /\ d \in Deletable
  /\ row[d].exists
  /\ deletion[d] = "idle"
  /\ deletion' = [deletion EXCEPT ![d] = "results"]
  /\ resultRows' = [resultRows EXCEPT ![d] = [f \in Findings |-> 0]]
  /\ UNCHANGED <<request, row, acknowledgments, orphans, probeRows,
                 notification, batchQueue, resultsQueue, worker, consumer,
                 bell, faults, history>>

DeleteProbes(d) ==
  /\ deletion[d] = "results"
  /\ deletion' = [deletion EXCEPT ![d] = "probes"]
  /\ probeRows' = [probeRows EXCEPT ![d] = 0]
  /\ UNCHANGED <<request, row, acknowledgments, resultRows, orphans,
                 notification, batchQueue, resultsQueue, worker, consumer,
                 bell, faults, history>>

\* Pairs of the dispatch that have a row.
StoredFindings(d) == {f \in Findings : resultRows[d][f] > 0}

\* The foreign keys act with the row: system_results keep theirs as NULL,
\* dispatch_probes and attack_acknowledgments go.
DeleteRow(d) ==
  /\ deletion[d] = "probes"
  /\ deletion' = [deletion EXCEPT ![d] = "done"]
  /\ row' = [row EXCEPT ![d] = AbsentRow]
  /\ orphans' = orphans \cup StoredFindings(d)
  /\ resultRows' = [resultRows EXCEPT ![d] = [f \in Findings |-> 0]]
  /\ probeRows' = [probeRows EXCEPT ![d] = 0]
  /\ acknowledgments' = acknowledgments \ {d}
  /\ UNCHANGED <<request, notification, batchQueue, resultsQueue, worker,
                 consumer, bell, faults, history>>

ApiNext == \E d \in Dispatches :
  \/ StoreDispatch(d) \/ StoreAcknowledgment(d)
  \/ PublishBatch(d)  \/ TrackPending(d)
  \/ DeleteResults(d) \/ DeleteProbes(d) \/ DeleteRow(d)
=============================================================================
