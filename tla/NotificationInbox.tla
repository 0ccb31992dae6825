-------------------------- MODULE NotificationInbox --------------------------
(***************************************************************************)
(* The in-app inbox: UserNotificationService, UserNotificationController   *)
(* and the bell that polls it every 20 seconds.  Two processes finalise a  *)
(* notification, the results consumer and the reconciliation each poll     *)
(* starts with; each loads the row, then writes only the attributes that   *)
(* differ from what it loaded, as an Eloquent update does.  All dispatches *)
(* of the model belong to one user.                                        *)
(***************************************************************************)
EXTENDS ScanState

Bell == [stage   : {"idle", "listed", "found", "loaded"},
         listed  : SUBSET Dispatches,     \* still to be looked at
         outcome : [Dispatches -> {"pending", "completed", "failed"}],
         current : Dispatches \cup {NoDispatch},
         loaded  : Notification]

IdleBell == [stage |-> "idle", listed |-> {},
             outcome |-> [d \in Dispatches |-> "pending"],
             current |-> NoDispatch, loaded |-> NoNotification]

notOurs == <<apiVars, row, resultVars, batchQueue, resultsQueue, worker,
             consumer, faults, history>>

\* The row after an update that was computed from what was loaded: a row
\* that is gone stays gone, and an attribute that already had the new value
\* when it was loaded is not written.
Finalized(current, loaded, outcome) ==
  IF current.status = "none" THEN current
  ELSE [status |-> IF loaded.status = outcome THEN current.status ELSE outcome,
        read   |-> IF loaded.read THEN FALSE ELSE current.read]

-----------------------------------------------------------------------------
\* reconcilePendingFor: the pending notifications of the user.
BellList(s) ==
  LET pending == {d \in Dispatches : notification[d].status = "pending"} IN
  /\ bell[s].stage = "idle"
  /\ pending # {}
  /\ bell' = [bell EXCEPT ![s] = [IdleBell EXCEPT !.stage = "listed",
                                                  !.listed = pending]]
  /\ UNCHANGED <<notOurs, notification>>

After(left) == IF left = {} THEN "idle" ELSE "found"

\* A reconcile that only knows of scans that succeeded.
FindCompleted(s) ==
  LET finished == {d \in bell[s].listed : row[d].exists /\ row[d].completedAt} IN
  /\ bell[s].stage = "listed"
  /\ bell' = [bell EXCEPT
       ![s].stage = After(finished),
       ![s].listed = finished,
       ![s].outcome = [d \in Dispatches |-> ScanStatus(row[d])]]
  /\ UNCHANGED <<notOurs, notification>>

\* Those whose dispatch has finished, read with their outcome.
BellFindFinished(s) ==
  LET finished == {d \in bell[s].listed :
                     row[d].exists /\ ScanStatus(row[d]) # "pending"} IN
  /\ bell[s].stage = "listed"
  /\ bell' = [bell EXCEPT
       ![s].stage = After(finished),
       ![s].listed = finished,
       ![s].outcome = [d \in Dispatches |-> ScanStatus(row[d])]]
  /\ UNCHANGED <<notOurs, notification>>

\* completeAttackDispatch: findForSubject ...
BellLoad(s, d) ==
  /\ bell[s].stage = "found"
  /\ d \in bell[s].listed
  /\ IF notification[d].status = "none"
     THEN bell' = [bell EXCEPT ![s].listed = @ \ {d},
                               ![s].stage = After(bell[s].listed \ {d})]
     ELSE bell' = [bell EXCEPT ![s].stage = "loaded", ![s].current = d,
                               ![s].loaded = notification[d]]
  /\ UNCHANGED <<notOurs, notification>>

\* ... and the update.
BellSave(s) ==
  LET d == bell[s].current IN
  /\ bell[s].stage = "loaded"
  /\ notification' = [notification EXCEPT
       ![d] = Finalized(@, bell[s].loaded, bell[s].outcome[d])]
  /\ bell' = [bell EXCEPT ![s].listed = @ \ {d},
                          ![s].stage = After(bell[s].listed \ {d})]
  /\ UNCHANGED notOurs

BellStep(s) == \/ BellList(s) \/ BellFindFinished(s) \/ BellSave(s)
               \/ \E d \in Dispatches : BellLoad(s, d)

-----------------------------------------------------------------------------
\* What the user does in the inbox of any session.
MarkRead(d) ==
  /\ notification[d].status # "none"
  /\ ~notification[d].read
  /\ notification' = [notification EXCEPT ![d].read = TRUE]
  /\ UNCHANGED <<notOurs, bell>>

MarkAllRead ==
  /\ notification' = [d \in Dispatches |->
       IF notification[d].status = "none" THEN notification[d]
       ELSE [notification[d] EXCEPT !.read = TRUE]]
  /\ UNCHANGED <<notOurs, bell>>

Destroy(d) ==
  /\ notification[d].status # "none"
  /\ notification' = [notification EXCEPT ![d] = NoNotification]
  /\ UNCHANGED <<notOurs, bell>>

DestroyAll ==
  /\ notification' = [d \in Dispatches |-> NoNotification]
  /\ UNCHANGED <<notOurs, bell>>

InboxNext ==
  /\ Sessions # {}
  /\ \/ \E s \in Sessions : BellStep(s)
     \/ \E d \in Dispatches : MarkRead(d) \/ Destroy(d)
     \/ MarkAllRead
     \/ DestroyAll
=============================================================================
