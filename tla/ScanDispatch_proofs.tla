------------------------- MODULE ScanDispatch_proofs -------------------------
(***************************************************************************)
(* Theorems about ScanDispatch, for every set of dispatches, findings,     *)
(* tokens, jobs, sessions and faults: its types, the invariants on its     *)
(* rows (one per finding, one outcome, acceptance before the scan), and    *)
(* that it implements ScanLifecycle.                                       *)
(***************************************************************************)
EXTENDS ScanDispatch, QueueLemmas

-----------------------------------------------------------------------------
(* Types.                                                                  *)

\* The type invariant, with what a busy worker and a busy consumer hold: a
\* requeue or a release puts it back in a queue.
TypeInv ==
  /\ TypeOK
  /\ \A w \in Workers : worker[w].stage # "idle" =>
       worker[w].dispatch \in Dispatches /\ worker[w].job >= 1
  /\ consumer.stage # "idle" => consumer.msg \in Message

\* The messages the worker publishes are well formed.
LEMMA MessageTypes ==
  ASSUME NEW d \in Dispatches
  PROVE  /\ \A f \in Findings : ResultMessage(d, f) \in Message
         /\ ProbeMessage(d) \in Message
         /\ \A failed \in BOOLEAN, n \in Nat, p \in Nat :
              CompletionMessage(d, failed, n, p) \in Message
  BY DEF ResultMessage, ProbeMessage, CompletionMessage, Message

\* A publish keeps the queue and the history typed.
LEMMA PublishTypes ==
  ASSUME TypeOK, NEW m \in Message, Publish(m)
  PROVE  /\ resultsQueue' \in Seq(Message)
         /\ sent' \in [Dispatches -> SUBSET Findings]
  <1>1. resultsQueue' \in Seq(Message)
    BY AppendElements DEF Publish, TypeOK
  <1>2. sent' \in [Dispatches -> SUBSET Findings]
    BY DEF Publish, TypeOK, Message
  <1>3. QED
    BY <1>1, <1>2

\* The initial state is typed.
LEMMA InitTypes == Init => TypeInv
  <1> SUFFICES ASSUME Init PROVE TypeInv
    OBVIOUS
  <1>1. /\ worker \in [Workers -> Worker]
        /\ \A w \in Workers : worker[w].stage = "idle"
    BY DEF Init, IdleWorker, Worker, Stages
  <1>2. consumer \in Consumer /\ consumer.stage = "idle"
    BY DEF Init, IdleConsumer, Consumer, NoNotification, Notification
  <1>3. bell \in [Sessions -> Bell]
    BY DEF Init, IdleBell, Bell, NoNotification, Notification
  <1>4. row \in [Dispatches -> DispatchRow]
    BY DEF Init, AbsentRow, DispatchRow
  <1>5. notification \in [Dispatches -> Notification]
    BY DEF Init, NoNotification, Notification
  <1>6. batchQueue \in Seq(Dispatches) /\ resultsQueue \in Seq(Message)
    BY DEF Init
  <1>7. QED
    BY <1>1, <1>2, <1>3, <1>4, <1>5, <1>6 DEF Init, TypeInv, TypeOK

\* A step of an API request keeps the types.
LEMMA ApiTypes == TypeInv /\ ApiNext => TypeInv'
  <1> SUFFICES ASSUME TypeInv, NEW d \in Dispatches,
                      \/ StoreDispatch(d) \/ StoreAcknowledgment(d)
                      \/ PublishBatch(d)  \/ TrackPending(d)
                      \/ DeleteResults(d) \/ DeleteProbes(d) \/ DeleteRow(d)
               PROVE  TypeInv'
    BY DEF ApiNext
  <1> USE DEF TypeInv, TypeOK, resultVars, history
  <1>1. CASE StoreDispatch(d)
    BY <1>1 DEF StoreDispatch, AbsentRow, DispatchRow
  <1>2. CASE StoreAcknowledgment(d)
    BY <1>2 DEF StoreAcknowledgment
  <1>3. CASE PublishBatch(d)
    BY <1>3, AppendElements DEF PublishBatch
  <1>4. CASE TrackPending(d)
    BY <1>4 DEF TrackPending, Notification
  <1>5. CASE DeleteResults(d)
    BY <1>5 DEF DeleteResults
  <1>6. CASE DeleteProbes(d)
    BY <1>6 DEF DeleteProbes
  <1>7. CASE DeleteRow(d)
    BY <1>7 DEF DeleteRow, AbsentRow, DispatchRow, StoredFindings
  <1>8. QED
    BY <1>1, <1>2, <1>3, <1>4, <1>5, <1>6, <1>7

\* A step of worker w changes what w is at and nothing another worker is at.
LEMMA OneWorkerSteps ==
  ASSUME NEW w \in Workers, WorkerStep(w) \/ WorkerFault(w)
  PROVE  \E next : Becomes(w, next)
  BY DEF WorkerStep, WorkerFault, ReceiveBatch, RejectBatch, DiscoveryFails,
     DiscoverySucceeds, PublishLeak, FinishSecrets, PublishFinding,
     PublishProbe, PublishCompletion, AckBatch, PublishFails, LoseCompletion,
     WorkerCrash

LEMMA OtherWorkers ==
  ASSUME NEW w \in Workers, worker \in [Workers -> Worker],
         WorkerStep(w) \/ WorkerFault(w)
  PROVE  /\ \A v \in Workers : v # w => worker'[v] = worker[v]
         /\ worker'[w] \in Worker => worker' \in [Workers -> Worker]
  BY OneWorkerSteps DEF Becomes

\* Such a step keeps the types when what it changes is typed.
LEMMA WorkerFrame ==
  ASSUME TypeInv, UNCHANGED others, NEW w \in Workers,
         WorkerStep(w) \/ WorkerFault(w),
         batchQueue' \in Seq(Dispatches), resultsQueue' \in Seq(Message),
         sent' \in [Dispatches -> SUBSET Findings], faults' \in Nat,
         worker'[w] \in Worker,
         worker'[w].stage # "idle" =>
           worker'[w].dispatch \in Dispatches /\ worker'[w].job >= 1
  PROVE  TypeInv'
  <1>1. worker \in [Workers -> Worker]
    BY DEF TypeInv, TypeOK
  <1>2. /\ \A v \in Workers : v # w => worker'[v] = worker[v]
        /\ worker' \in [Workers -> Worker]
    BY <1>1, OtherWorkers
  <1>3. QED
    BY <1>2 DEF TypeInv, TypeOK, others, apiVars, resultVars

LEMMA WorkerTypes == TypeInv /\ WorkerNext => TypeInv'
  <1> SUFFICES ASSUME TypeInv, NEW w \in Workers, WorkerStep(w) \/ WorkerFault(w)
               PROVE  TypeInv'
    BY DEF WorkerNext
  <1> DEFINE Busy == /\ worker'[w] \in Worker
                     /\ worker'[w].stage # "idle" =>
                          worker'[w].dispatch \in Dispatches /\ worker'[w].job >= 1
             Queues == /\ batchQueue' \in Seq(Dispatches)
                       /\ resultsQueue' \in Seq(Message)
                       /\ sent' \in [Dispatches -> SUBSET Findings]
  <1> USE DEF Becomes
  <1>a. /\ worker \in [Workers -> Worker] /\ worker[w] \in Worker /\ faults \in Nat
        /\ worker[w].stage # "idle" => worker[w].dispatch \in Dispatches /\ worker[w].job >= 1
        /\ batchQueue \in Seq(Dispatches) /\ resultsQueue \in Seq(Message)
        /\ sent \in [Dispatches -> SUBSET Findings]
    BY DEF TypeInv, TypeOK
  <1>b. IdleWorker \in Worker /\ IdleWorker.stage = "idle"
    BY DEF IdleWorker, Worker, Stages
  <1>c. SUFFICES Busy /\ Queues /\ faults' \in Nat /\ UNCHANGED others
    BY WorkerFrame
  <1>1. CASE ReceiveBatch(w)
    <2>1. Head(batchQueue) \in Dispatches /\ Tail(batchQueue) \in Seq(Dispatches)
      BY <1>1, <1>a, TailElements DEF ReceiveBatch
    <2>2. worker'[w] = [IdleWorker EXCEPT !.stage = "received", !.dispatch = Head(batchQueue)]
      BY <1>1, <1>a DEF ReceiveBatch
    <2>3. worker'[w] = [stage |-> "received", dispatch |-> Head(batchQueue),
                     tokens |-> {}, leaks |-> 0, seen |-> {}, job |-> 1,
                     findings |-> 0, probes |-> 0]
      BY <2>2 DEF IdleWorker
    <2>4. Busy
      BY <2>1, <2>3 DEF Worker, Stages
    <2>5. QED
      BY <1>1, <1>a, <2>1, <2>4 DEF ReceiveBatch
  <1>2. CASE RejectBatch(w)
    BY <1>2, <1>a, <1>b DEF RejectBatch
  <1>3. CASE DiscoveryFails(w)
    <2>1. Busy
      BY <1>3, <1>a DEF DiscoveryFails, Worker, Stages
    <2>2. QED
      BY <1>3, <1>a, <2>1 DEF DiscoveryFails
  <1>4. CASE DiscoverySucceeds(w)
    <2>1. Busy
      BY <1>4, <1>a DEF DiscoverySucceeds, Worker, Stages
    <2>2. QED
      BY <1>4, <1>a, <2>1 DEF DiscoverySucceeds
  <1>5. ASSUME NEW t \in Tokens, PublishLeak(w, t)
        PROVE  Busy /\ Queues /\ faults' \in Nat /\ UNCHANGED others
    <2>1. ResultMessage(worker[w].dispatch, TokenFinding[t]) \in Message
      BY <1>5, <1>a, MessageTypes, ScanAssumption DEF PublishLeak
    <2>2. resultsQueue' \in Seq(Message) /\ sent' \in [Dispatches -> SUBSET Findings]
      BY <1>5, <2>1, PublishTypes DEF PublishLeak, TypeInv
    <2>3. worker[w].tokens \cup {t} \in SUBSET Tokens /\ worker[w].leaks + 1 \in Nat
      BY <1>a DEF Worker
    <2>4. worker'[w] = [worker[w] EXCEPT !.tokens = worker[w].tokens \cup {t},
                                   !.leaks = worker[w].leaks + 1]
      BY <1>5, <1>a DEF PublishLeak
    <2>5. Busy
      BY <1>a, <2>3, <2>4 DEF Worker
    <2>6. QED
      BY <1>5, <1>a, <2>2, <2>5 DEF PublishLeak
  <1>6. CASE FinishSecrets(w)
    <2>1. ProbeMessage(worker[w].dispatch) \in Message
      BY <1>6, <1>a, MessageTypes DEF FinishSecrets
    <2>2. resultsQueue' \in Seq(Message) /\ sent' \in [Dispatches -> SUBSET Findings]
      BY <1>6, <2>1, PublishTypes DEF FinishSecrets, TypeInv
    <2>3. Busy
      BY <1>6, <1>a DEF FinishSecrets, Worker, Stages
    <2>4. QED
      BY <1>6, <1>a, <2>2, <2>3 DEF FinishSecrets
  <1>7. CASE PublishFinding(w)
    <2>1. JobFinding[worker[w].job] \in Findings
      BY <1>7, <1>a, ScanAssumption DEF PublishFinding, JobsLeft, Worker
    <2>2. ResultMessage(worker[w].dispatch, JobFinding[worker[w].job]) \in Message
      BY <1>7, <1>a, <2>1, MessageTypes DEF PublishFinding
    <2>3. resultsQueue' \in Seq(Message) /\ sent' \in [Dispatches -> SUBSET Findings]
      BY <1>7, <2>2, PublishTypes DEF PublishFinding, TypeInv
    <2>4. /\ worker[w].seen \cup {JobFinding[worker[w].job]} \in SUBSET Findings
          /\ worker[w].findings + 1 \in Nat
      BY <1>a, <2>1 DEF Worker
    <2>5. worker'[w] = [worker[w] EXCEPT !.stage = "jobProbe",
                                   !.findings = worker[w].findings + 1,
                                   !.seen = worker[w].seen \cup {JobFinding[worker[w].job]}]
      BY <1>7, <1>a DEF PublishFinding
    <2>6. Busy
      BY <1>7, <1>a, <2>4, <2>5 DEF PublishFinding, Worker, Stages
    <2>7. QED
      BY <1>7, <1>a, <2>3, <2>6 DEF PublishFinding
  <1>8. CASE PublishProbe(w)
    <2>1. ProbeMessage(worker[w].dispatch) \in Message
      BY <1>8, <1>a, MessageTypes DEF PublishProbe
    <2>2. resultsQueue' \in Seq(Message) /\ sent' \in [Dispatches -> SUBSET Findings]
      BY <1>8, <2>1, PublishTypes DEF PublishProbe, TypeInv
    <2>3. /\ worker[w].job + 1 \in Nat /\ worker[w].probes + 1 \in Nat
          /\ worker[w].stage # "idle" /\ worker[w].job + 1 >= 1
      BY <1>8, <1>a DEF PublishProbe, Worker
    <2>4. worker'[w] = [worker[w] EXCEPT !.stage = "job", !.job = worker[w].job + 1,
                                   !.probes = worker[w].probes + 1]
      BY <1>8, <1>a DEF PublishProbe
    <2>5. Busy
      BY <1>a, <2>3, <2>4 DEF Worker, Stages
    <2>6. QED
      BY <1>8, <1>a, <2>2, <2>5 DEF PublishProbe
  <1>9. CASE PublishCompletion(w)
    <2>1. CompletionMessage(worker[w].dispatch, worker[w].stage = "failed",
                            worker[w].findings, worker[w].probes) \in Message
      BY <1>9, <1>a, MessageTypes DEF PublishCompletion, RunReturns, Worker
    <2>2. resultsQueue' \in Seq(Message) /\ sent' \in [Dispatches -> SUBSET Findings]
      BY <1>9, <2>1, PublishTypes DEF PublishCompletion, TypeInv
    <2>3. Busy
      BY <1>9, <1>a DEF PublishCompletion, RunReturns, Worker, Stages
    <2>4. QED
      BY <1>9, <1>a, <2>2, <2>3 DEF PublishCompletion
  <1>10. CASE AckBatch(w)
    BY <1>10, <1>a, <1>b DEF AckBatch
  <1>11. CASE PublishFails(w)
    <2>1. Busy
      BY <1>11, <1>a DEF PublishFails, Publishing, Worker, Stages
    <2>2. QED
      BY <1>11, <1>a, <2>1 DEF PublishFails, InjectFault
  <1>12. CASE LoseCompletion(w)
    <2>1. Busy
      BY <1>12, <1>a DEF LoseCompletion, RunReturns, Worker, Stages
    <2>2. QED
      BY <1>12, <1>a, <2>1 DEF LoseCompletion, InjectFault
  <1>13. CASE WorkerCrash(w)
    <2>1. batchQueue' \in Seq(Dispatches)
      BY <1>13, <1>a, RequeueElements DEF WorkerCrash
    <2>2. QED
      BY <1>13, <1>a, <1>b, <2>1 DEF WorkerCrash, InjectFault
  <1>14. QED
    BY <1>1, <1>2, <1>3, <1>4, <1>5, <1>6, <1>7, <1>8, <1>9, <1>10, <1>11,
       <1>12, <1>13 DEF WorkerStep, WorkerFault

\* What a finalisation writes is a notification.
LEMMA FinalizedType ==
  ASSUME NEW current \in Notification, NEW loaded \in Notification,
         NEW outcome \in {"pending", "completed", "failed"}
  PROVE  Finalized(current, loaded, outcome) \in Notification
  BY DEF Finalized, Notification

\* A step of the consumer keeps the types when what it changes is typed.
LEMMA ConsumerFrame ==
  ASSUME TypeInv, UNCHANGED untouched,
         row' \in [Dispatches -> DispatchRow],
         resultRows' \in [Dispatches -> [Findings -> Nat]],
         orphans' = orphans, probeRows' \in [Dispatches -> Nat],
         resultsQueue' \in Seq(Message),
         notification' \in [Dispatches -> Notification],
         faults' \in Nat, released' \in BOOLEAN,
         consumer' \in Consumer, consumer'.stage # "idle" => consumer'.msg \in Message
  PROVE  TypeInv'
  BY DEF TypeInv, TypeOK, untouched, apiVars

LEMMA ConsumerTypes == TypeInv /\ (ConsumerStep \/ ConsumerFault) => TypeInv'
  <1> SUFFICES ASSUME TypeInv, ConsumerStep \/ ConsumerFault
               PROVE  TypeInv'
    OBVIOUS
  <1> USE DEF msg, resultVars
  <1> DEFINE Busy == /\ consumer' \in Consumer
                     /\ consumer'.stage # "idle" => consumer'.msg \in Message
             Tables == /\ row' \in [Dispatches -> DispatchRow]
                       /\ resultRows' \in [Dispatches -> [Findings -> Nat]]
                       /\ orphans' = orphans
                       /\ probeRows' \in [Dispatches -> Nat]
                       /\ notification' \in [Dispatches -> Notification]
             Rest == /\ resultsQueue' \in Seq(Message)
                     /\ faults' \in Nat
                     /\ released' \in BOOLEAN
                     /\ UNCHANGED untouched
  <1>a. /\ row \in [Dispatches -> DispatchRow]
        /\ resultRows \in [Dispatches -> [Findings -> Nat]]
        /\ probeRows \in [Dispatches -> Nat]
        /\ notification \in [Dispatches -> Notification]
        /\ resultsQueue \in Seq(Message) /\ faults \in Nat /\ released \in BOOLEAN
        /\ consumer \in Consumer
        /\ consumer.stage # "idle" => consumer.msg \in Message
    BY DEF TypeInv, TypeOK
  <1>b. IdleConsumer \in Consumer /\ IdleConsumer.stage = "idle"
    BY DEF IdleConsumer, Consumer, NoNotification, Notification
  <1>c. SUFFICES Busy /\ Tables /\ Rest
    BY ConsumerFrame
  <1>1. CASE TakeMessage
    <2>1. Head(resultsQueue) \in Message /\ Tail(resultsQueue) \in Seq(Message)
      BY <1>1, <1>a, TailElements DEF TakeMessage
    <2>2. Busy
      BY <1>1, <2>1 DEF TakeMessage, IdleConsumer, Consumer, NoNotification,
                        Notification
    <2>3. QED
      BY <1>1, <1>a, <2>1, <2>2 DEF TakeMessage
  <1>2. CASE LookUpDispatch
    <2>1. consumer.msg \in Message
      BY <1>2, <1>a DEF LookUpDispatch
    <2>2. FirstStage(consumer.msg.kind) \in {"check", "insert", "update"}
      BY <2>1 DEF FirstStage, Message
    <2>3. Busy
      BY <1>2, <1>a, <2>2 DEF LookUpDispatch, GoTo, Consumer
    <2>4. QED
      BY <1>2, <1>a, <2>3 DEF LookUpDispatch
  <1>3. CASE CheckExisting
    <2>1. Busy
      BY <1>3, <1>a DEF CheckExisting, GoTo, Consumer
    <2>2. QED
      BY <1>3, <1>a, <2>1 DEF CheckExisting
  <1>4. CASE InsertResult
    <2>1. Busy
      BY <1>4, <1>a DEF InsertResult, GoTo, Consumer
    <2>2. consumer.msg.dispatch \in Dispatches /\ consumer.msg.finding \in Findings
      BY <1>4, <1>a DEF InsertResult, Message
    <2> DEFINE d == consumer.msg.dispatch
               f == consumer.msg.finding
    <2>3. resultRows' \in [Dispatches -> [Findings -> Nat]]
      <3>1. resultRows[d] \in [Findings -> Nat] /\ resultRows[d][f] + 1 \in Nat
        BY <1>a, <2>2
      <3>2. [resultRows[d] EXCEPT ![f] = resultRows[d][f] + 1] \in [Findings -> Nat]
        BY <3>1
      <3>3. \/ resultRows' = [resultRows EXCEPT ![d][f] = resultRows[d][f] + 1]
            \/ resultRows' = resultRows
        BY <1>4 DEF InsertResult
      <3>4. QED
        BY <1>a, <3>2, <3>3
    <2>4. QED
      BY <1>4, <1>a, <2>1, <2>3 DEF InsertResult
  <1>5. CASE InsertProbe
    <2>1. Busy
      BY <1>5, <1>a DEF InsertProbe, GoTo, Consumer
    <2>2. consumer.msg.dispatch \in Dispatches
      BY <1>5, <1>a DEF InsertProbe, Message
    <2>3. probeRows' \in [Dispatches -> Nat]
      <3>1. \/ probeRows' = [probeRows EXCEPT ![consumer.msg.dispatch]
                                = probeRows[consumer.msg.dispatch] + 1]
            \/ probeRows' = probeRows
        BY <1>5 DEF InsertProbe
      <3>2. probeRows[consumer.msg.dispatch] + 1 \in Nat
        BY <1>a, <2>2
      <3>3. QED
        BY <1>a, <3>1, <3>2
    <2>4. QED
      BY <1>5, <1>a, <2>1, <2>3 DEF InsertProbe
  <1>6. CASE UpdateDispatch
    <2>1. Busy
      BY <1>6, <1>a DEF UpdateDispatch, GoTo, Consumer
    <2>2. /\ consumer.msg.dispatch \in Dispatches
          /\ consumer.msg.failed \in BOOLEAN
          /\ consumer.msg.findings \in Nat /\ consumer.msg.probes \in Nat
      BY <1>6, <1>a DEF UpdateDispatch, Message
    <2>3. row[consumer.msg.dispatch] \in DispatchRow
      BY <1>a, <2>2
    <2>4. CompletedRow(row[consumer.msg.dispatch], consumer.msg) \in DispatchRow
      BY <2>2, <2>3 DEF CompletedRow, DispatchRow
    <2>5. row' \in [Dispatches -> DispatchRow]
      BY <1>6, <1>a, <2>2, <2>4 DEF UpdateDispatch
    <2>6. QED
      BY <1>6, <1>a, <2>1, <2>5 DEF UpdateDispatch
  <1>7. CASE LoadNotification
    <2>1. notification[consumer.msg.dispatch] \in Notification
      BY <1>7, <1>a DEF LoadNotification, Message
    <2>2. Busy
      BY <1>7, <1>a, <2>1 DEF LoadNotification, GoTo, Consumer
    <2>3. QED
      BY <1>7, <1>a, <2>2 DEF LoadNotification
  <1>8. CASE SaveNotification
    <2>1. Busy
      BY <1>8, <1>a DEF SaveNotification, GoTo, Consumer
    <2>2. consumer.msg.dispatch \in Dispatches /\ consumer.loaded \in Notification
      BY <1>8, <1>a DEF SaveNotification, Message, Consumer
    <2>3. notification' \in [Dispatches -> Notification]
      BY <1>8, <1>a, <2>2, FinalizedType DEF SaveNotification
    <2>4. QED
      BY <1>8, <1>a, <2>1, <2>3 DEF SaveNotification
  <1>9. CASE ReleaseMessage
    <2>1. Busy
      BY <1>9, <1>a DEF ReleaseMessage, GoTo, Consumer
    <2>2. resultsQueue' \in Seq(Message)
      BY <1>9, <1>a, AppendElements DEF ReleaseMessage
    <2>3. QED
      BY <1>9, <1>a, <2>1, <2>2 DEF ReleaseMessage
  <1>10. CASE AckMessage
    BY <1>10, <1>a, <1>b DEF AckMessage
  <1>11. CASE DatabaseFails
    <2>1. Busy
      BY <1>11, <1>a DEF DatabaseFails, GoTo, Consumer
    <2>2. QED
      BY <1>11, <1>a, <2>1 DEF DatabaseFails, InjectFault
  <1>12. CASE ConsumerCrash
    <2>1. resultsQueue' \in Seq(Message)
      BY <1>12, <1>a, RequeueElements DEF ConsumerCrash
    <2>2. QED
      BY <1>12, <1>a, <1>b, <2>1 DEF ConsumerCrash, InjectFault
  <1>13. QED
    BY <1>1, <1>2, <1>3, <1>4, <1>5, <1>6, <1>7, <1>8, <1>9, <1>10, <1>11,
       <1>12 DEF ConsumerStep, ConsumerFault

\* A step of the inbox keeps the types when the notifications and the bell do.
LEMMA InboxFrame ==
  ASSUME TypeInv, UNCHANGED notOurs,
         notification' \in [Dispatches -> Notification], bell' \in [Sessions -> Bell]
  PROVE  TypeInv'
  BY DEF TypeInv, TypeOK, notOurs, apiVars, resultVars, history

LEMMA InboxTypes == TypeInv /\ InboxNext => TypeInv'
  <1> SUFFICES ASSUME TypeInv, InboxNext
               PROVE  TypeInv'
    OBVIOUS
  <1> DEFINE Goal == /\ notification' \in [Dispatches -> Notification]
                     /\ bell' \in [Sessions -> Bell]
                     /\ UNCHANGED notOurs
  <1>a. /\ notification \in [Dispatches -> Notification]
        /\ bell \in [Sessions -> Bell]
        /\ row \in [Dispatches -> DispatchRow]
    BY DEF TypeInv, TypeOK
  <1>b. SUFFICES Goal
    BY InboxFrame
  <1>1. ASSUME NEW s \in Sessions, BellStep(s)
        PROVE  Goal
    <2>a. bell[s] \in Bell
      BY <1>a
    <2>1. CASE BellList(s)
      BY <2>1, <1>a DEF BellList, IdleBell, Bell, NoNotification, Notification
    <2>2. CASE BellFindFinished(s)
      <3>1. [d \in Dispatches |-> ScanStatus(row[d])]
              \in [Dispatches -> {"pending", "completed", "failed"}]
        BY DEF ScanStatus
      <3>2. After({d \in bell[s].listed : row[d].exists /\ ScanStatus(row[d]) # "pending"})
              \in {"idle", "found"}
        BY DEF After
      <3>3. QED
        BY <2>2, <1>a, <2>a, <3>1, <3>2 DEF BellFindFinished, Bell
    <2>3. ASSUME NEW d \in Dispatches, BellLoad(s, d)
          PROVE  Goal
      <3>1. After(bell[s].listed \ {d}) \in {"idle", "found"}
        BY DEF After
      <3>2. bell' \in [Sessions -> Bell]
        BY <2>3, <1>a, <2>a, <3>1 DEF BellLoad, Bell
      <3>3. QED
        BY <2>3, <1>a, <3>2 DEF BellLoad
    <2>4. CASE BellSave(s)
      <3>1. After(bell[s].listed \ {bell[s].current}) \in {"idle", "found"}
        BY DEF After
      <3>2. bell' \in [Sessions -> Bell]
        BY <2>4, <1>a, <2>a, <3>1 DEF BellSave, Bell
      <3>3. notification' \in [Dispatches -> Notification]
        BY <2>4, <1>a, <2>a, FinalizedType DEF BellSave, Bell
      <3>4. QED
        BY <2>4, <3>2, <3>3 DEF BellSave
    <2>5. QED
      BY <1>1, <2>1, <2>2, <2>3, <2>4 DEF BellStep
  <1>c. NoNotification \in Notification
    BY DEF NoNotification, Notification
  <1>d. \A d \in Dispatches : [notification[d] EXCEPT !.read = TRUE] \in Notification
    BY <1>a DEF Notification
  <1>2. ASSUME NEW d \in Dispatches, MarkRead(d) \/ Destroy(d)
        PROVE  Goal
    <2>1. CASE MarkRead(d)
      <3>1. notification' = [notification EXCEPT ![d] = [notification[d] EXCEPT !.read = TRUE]]
        BY <2>1 DEF MarkRead
      <3>2. notification' \in [Dispatches -> Notification]
        BY <3>1, <1>a, <1>d
      <3>3. QED
        BY <2>1, <3>2, <1>a DEF MarkRead
    <2>2. CASE Destroy(d)
      BY <2>2, <1>a, <1>c DEF Destroy
    <2>3. QED
      BY <1>2, <2>1, <2>2
  <1>3. CASE MarkAllRead
    BY <1>3, <1>a, <1>d DEF MarkAllRead
  <1>5. CASE DestroyAll
    BY <1>5, <1>a, <1>c DEF DestroyAll
  <1>4. QED
    BY <1>1, <1>2, <1>3, <1>5 DEF InboxNext

\* Every step of the composed system keeps the types.
LEMMA NextTypes == TypeInv /\ [Next]_vars => TypeInv'
  <1>1. TypeInv /\ UNCHANGED vars => TypeInv'
    BY DEF TypeInv, TypeOK, vars
  <1>2. QED
    BY <1>1, ApiTypes, WorkerTypes, ConsumerTypes, InboxTypes DEF Next

\* Every variable keeps its type, whatever fails: TypeOK of the runs.
THEOREM Typing == Spec => []TypeOK
  <1>1. TypeInv => TypeOK
    BY DEF TypeInv
  <1>2. QED
    BY <1>1, InitTypes, NextTypes, PTL DEF Spec

\* The same with the contents of the hands, for the proofs below.
LEMMA StrongTyping == Spec => []TypeInv
  BY InitTypes, NextTypes, PTL DEF Spec

-----------------------------------------------------------------------------
(* What each component leaves alone.                                       *)

LEMMA WorkerLeaves == WorkerNext => UNCHANGED others
  BY DEF WorkerNext, WorkerStep, WorkerFault, ReceiveBatch, RejectBatch, DiscoveryFails,
     DiscoverySucceeds, PublishLeak, FinishSecrets, PublishFinding,
     PublishProbe, PublishCompletion, AckBatch, PublishFails, LoseCompletion,
     WorkerCrash

LEMMA ConsumerLeaves == ConsumerStep \/ ConsumerFault => UNCHANGED untouched
  BY DEF ConsumerStep, ConsumerFault, TakeMessage, LookUpDispatch,
     CheckExisting, InsertResult, InsertProbe, UpdateDispatch,
     LoadNotification, SaveNotification, ReleaseMessage, AckMessage,
     DatabaseFails, ConsumerCrash

LEMMA InboxLeaves == InboxNext => UNCHANGED notOurs
  BY DEF InboxNext, BellStep, BellList, BellFindFinished, BellLoad, BellSave,
     MarkRead, Destroy, MarkAllRead, DestroyAll

\* GoTo changes the stage and nothing else.
LEMMA GoToFields ==
  ASSUME consumer \in Consumer, NEW stage, GoTo(stage)
  PROVE  /\ consumer'.stage = stage
         /\ consumer'.msg = consumer.msg
         /\ consumer'.loaded = consumer.loaded
  BY DEF GoTo, Consumer

\* What the consumer holds when it takes a message.
LEMMA TakenFields ==
  TakeMessage => consumer'.stage = "lookup" /\ consumer'.msg = Head(resultsQueue)
  <1> SUFFICES ASSUME TakeMessage
               PROVE  consumer'.stage = "lookup" /\ consumer'.msg = Head(resultsQueue)
    OBVIOUS
  <1>1. consumer' = [stage |-> "lookup", msg |-> Head(resultsQueue),
                     loaded |-> NoNotification]
    BY DEF TakeMessage, IdleConsumer
  <1>2. QED
    BY <1>1

-----------------------------------------------------------------------------
(* One row per dispatch and pair.                                          *)

\* A result that is about to be inserted has no row: what makes the look-up
\* and the insert of the one consumer as good as atomic.
InsertFree ==
  consumer.stage = "insert" /\ consumer.msg.kind = "result" =>
    resultRows[consumer.msg.dispatch][consumer.msg.finding] = 0

OneRowInv == NoDuplicateResults /\ InsertFree

LEMMA OneRowInit == Init => OneRowInv
  BY DEF Init, OneRowInv, NoDuplicateResults, InsertFree, IdleConsumer

LEMMA OneRowStep == TypeInv /\ OneRowInv /\ [Next]_vars => OneRowInv'
  <1> SUFFICES ASSUME TypeInv, OneRowInv, [Next]_vars
               PROVE  OneRowInv'
    OBVIOUS
  <1>a. /\ consumer \in Consumer
        /\ consumer.stage # "idle" => consumer.msg \in Message
        /\ resultRows \in [Dispatches -> [Findings -> Nat]]
    BY DEF TypeInv, TypeOK
  <1>1. ASSUME UNCHANGED <<resultRows, consumer>>
        PROVE  OneRowInv'
    BY <1>1 DEF OneRowInv, NoDuplicateResults, InsertFree
  <1>2. CASE ApiNext
    <2> SUFFICES ASSUME NEW d \in Dispatches,
                        \/ StoreDispatch(d) \/ StoreAcknowledgment(d)
                        \/ PublishBatch(d)  \/ TrackPending(d)
                        \/ DeleteResults(d) \/ DeleteProbes(d) \/ DeleteRow(d)
                 PROVE  OneRowInv'
      BY <1>2 DEF ApiNext
    <2>1. CASE DeleteResults(d) \/ DeleteRow(d)
      <3>1. /\ consumer' = consumer
            /\ resultRows' = [resultRows EXCEPT ![d] = [f \in Findings |-> 0]]
        BY <2>1 DEF DeleteResults, DeleteRow
      <3>2. \A c \in Dispatches, f \in Findings :
              resultRows'[c][f] = IF c = d THEN 0 ELSE resultRows[c][f]
        BY <3>1, <1>a
      <3>3. NoDuplicateResults'
        BY <3>2, <1>a DEF OneRowInv, NoDuplicateResults
      <3>4. InsertFree'
        BY <3>1, <3>2, <1>a DEF OneRowInv, InsertFree, Message
      <3>5. QED
        BY <3>3, <3>4 DEF OneRowInv
    <2>2. CASE \/ StoreDispatch(d) \/ StoreAcknowledgment(d)
               \/ PublishBatch(d) \/ TrackPending(d) \/ DeleteProbes(d)
      BY <2>2, <1>1 DEF StoreDispatch, StoreAcknowledgment, PublishBatch,
                        TrackPending, DeleteProbes, resultVars
    <2>3. QED
      BY <2>1, <2>2
  <1>3. CASE WorkerNext
    BY <1>3, <1>1, WorkerLeaves DEF others, resultVars
  <1>4. CASE InboxNext
    BY <1>4, <1>1, InboxLeaves DEF notOurs, resultVars
  <1>5. CASE ConsumerStep \/ ConsumerFault
    <2> USE DEF msg
    <2>1. CASE InsertResult
      <3> DEFINE d == consumer.msg.dispatch
                 f == consumer.msg.finding
      <3>1. d \in Dispatches /\ f \in Findings
        BY <2>1, <1>a DEF InsertResult, Message
      <3>2. resultRows[d][f] = 0
        BY <2>1 DEF InsertResult, OneRowInv, InsertFree
      <3>3. \/ resultRows' = [resultRows EXCEPT ![d][f] = resultRows[d][f] + 1]
            \/ resultRows' = resultRows
        BY <2>1 DEF InsertResult
      <3>4. NoDuplicateResults'
        BY <3>1, <3>2, <3>3, <1>a DEF OneRowInv, NoDuplicateResults
      <3>5. consumer'.stage \in {"ack", "raised"}
        BY <2>1, <1>a DEF InsertResult, GoTo, Consumer
      <3>6. QED
        BY <3>4, <3>5 DEF OneRowInv, InsertFree
    <2>2. CASE CheckExisting
      <3>1. resultRows' = resultRows
        BY <2>2 DEF CheckExisting, resultVars
      <3>2. /\ consumer'.msg = consumer.msg
            /\ consumer'.stage = "insert" =>
                 ~(resultRows[consumer.msg.dispatch][consumer.msg.finding] > 0)
        BY <2>2, <1>a DEF CheckExisting, GoTo, Consumer
      <3>3. consumer.msg.kind = "result" =>
              resultRows[consumer.msg.dispatch][consumer.msg.finding] \in Nat
        BY <2>2, <1>a DEF CheckExisting, Message
      <3>4. QED
        BY <3>1, <3>2, <3>3 DEF OneRowInv, NoDuplicateResults, InsertFree
    <2>3. CASE LookUpDispatch
      <3>1. resultRows' = resultRows
        BY <2>3 DEF LookUpDispatch, resultVars
      <3>2. /\ consumer'.msg = consumer.msg
            /\ consumer'.stage = "insert" => consumer.msg.kind = "probe"
        BY <2>3, <1>a DEF LookUpDispatch, GoTo, FirstStage, Consumer, Message
      <3>3. QED
        BY <3>1, <3>2 DEF OneRowInv, NoDuplicateResults, InsertFree
    <2>4. CASE \/ TakeMessage \/ InsertProbe \/ UpdateDispatch \/ LoadNotification
               \/ SaveNotification \/ ReleaseMessage \/ AckMessage
               \/ DatabaseFails \/ ConsumerCrash
      <3>1. resultRows' = resultRows
        BY <2>4 DEF TakeMessage, InsertProbe, UpdateDispatch, LoadNotification,
             SaveNotification, ReleaseMessage, AckMessage, DatabaseFails,
             ConsumerCrash, resultVars
      <3>2. consumer'.stage # "insert"
        <4>1. CASE TakeMessage
          BY <4>1, TakenFields
        <4>5. CASE AckMessage \/ ConsumerCrash
          BY <4>5 DEF AckMessage, ConsumerCrash, IdleConsumer
        <4>2. CASE \/ InsertProbe \/ UpdateDispatch \/ SaveNotification
                   \/ ReleaseMessage \/ DatabaseFails
          <5>1. GoTo("ack") \/ GoTo("raised") \/ GoTo("notify")
            BY <4>2 DEF InsertProbe, UpdateDispatch, SaveNotification,
                 ReleaseMessage, DatabaseFails
          <5>2. QED
            BY <5>1, <1>a, GoToFields
        <4>3. CASE LoadNotification
          BY <4>3, <1>a DEF LoadNotification, GoTo, Consumer
        <4>4. QED
          BY <2>4, <4>1, <4>2, <4>3, <4>5
      <3>3. QED
        BY <3>1, <3>2 DEF OneRowInv, NoDuplicateResults, InsertFree
    <2>5. QED
      BY <1>5, <2>1, <2>2, <2>3, <2>4 DEF ConsumerStep, ConsumerFault
  <1>6. CASE UNCHANGED vars
    BY <1>6, <1>1 DEF vars
  <1>7. QED
    BY <1>2, <1>3, <1>4, <1>5, <1>6 DEF Next

\* However often batches and messages are delivered, a dispatch has at most
\* one system_results row per attack and canonical route.
THEOREM OneRow == Spec => []NoDuplicateResults
  <1>1. OneRowInv => NoDuplicateResults
    BY DEF OneRowInv
  <1>2. QED
    BY <1>1, OneRowInit, OneRowStep, StrongTyping, PTL DEF Spec

-----------------------------------------------------------------------------
(* One outcome.                                                            *)

\* A dispatch row is never completed and failed at once.
THEOREM SingleOutcome == Spec => []OneOutcome
  <1>1. Init => OneOutcome
    BY DEF Init, OneOutcome, AbsentRow
  <1>2. TypeInv /\ OneOutcome /\ [Next]_vars => OneOutcome'
    <2> SUFFICES ASSUME TypeInv, OneOutcome, [Next]_vars
                 PROVE  OneOutcome'
      OBVIOUS
    <2>a. row \in [Dispatches -> DispatchRow]
      BY DEF TypeInv, TypeOK
    <2>1. ASSUME row' = row
          PROVE  OneOutcome'
      BY <2>1 DEF OneOutcome
    <2>2. ASSUME NEW d \in Dispatches,
                 \/ StoreDispatch(d) \/ StoreAcknowledgment(d)
                 \/ PublishBatch(d)  \/ TrackPending(d)
                 \/ DeleteResults(d) \/ DeleteProbes(d) \/ DeleteRow(d)
          PROVE  OneOutcome'
      <3>1. CASE StoreDispatch(d) \/ DeleteRow(d)
        <4>1. \/ row' = [row EXCEPT ![d] = [AbsentRow EXCEPT !.exists = TRUE]]
              \/ row' = [row EXCEPT ![d] = AbsentRow]
          BY <3>1 DEF StoreDispatch, DeleteRow
        <4>2. ~[AbsentRow EXCEPT !.exists = TRUE].completedAt /\ ~AbsentRow.completedAt
          BY DEF AbsentRow
        <4>3. QED
          BY <2>a, <4>1, <4>2 DEF OneOutcome
      <3>2. CASE \/ StoreAcknowledgment(d) \/ PublishBatch(d) \/ TrackPending(d)
                 \/ DeleteResults(d) \/ DeleteProbes(d)
        BY <3>2, <2>1 DEF StoreAcknowledgment, PublishBatch, TrackPending,
             DeleteResults, DeleteProbes
      <3>3. QED
        BY <2>2, <3>1, <3>2
    <2>3. CASE UpdateDispatch
      <3> DEFINE d == consumer.msg.dispatch
      <3>1. \/ row' = [row EXCEPT ![d] = CompletedRow(row[d], consumer.msg)]
            \/ row' = row
        BY <2>3 DEF UpdateDispatch, msg
      <3>2. d \in Dispatches /\ consumer.msg.failed \in BOOLEAN
        BY <2>3 DEF UpdateDispatch, TypeInv, Message
      <3>3. /\ CompletedRow(row[d], consumer.msg).completedAt = ~consumer.msg.failed
            /\ CompletedRow(row[d], consumer.msg).failedAt = consumer.msg.failed
        BY <3>2, <2>a DEF CompletedRow, DispatchRow
      <3>4. QED
        BY <3>1, <3>2, <3>3, <2>a DEF OneOutcome
    <2>4. CASE (ConsumerStep /\ ~UpdateDispatch) \/ ConsumerFault
      BY <2>4, <2>1 DEF ConsumerStep, ConsumerFault, TakeMessage,
           LookUpDispatch, CheckExisting, InsertResult, InsertProbe,
           LoadNotification, SaveNotification, ReleaseMessage, AckMessage,
           DatabaseFails, ConsumerCrash
    <2>5. CASE WorkerNext
      BY <2>5, <2>1, WorkerLeaves DEF others
    <2>6. CASE InboxNext
      BY <2>6, <2>1, InboxLeaves DEF notOurs
    <2>7. CASE UNCHANGED vars
      BY <2>7, <2>1 DEF vars
    <2>8. QED
      BY <2>2, <2>3, <2>4, <2>5, <2>6, <2>7 DEF Next, ApiNext
  <1>3. QED
    BY <1>1, <1>2, StrongTyping, PTL DEF Spec

-----------------------------------------------------------------------------
(* Whatever is under way was queued, and whatever was queued was accepted. *)

QueuedInv ==
  /\ \A i \in 1 .. Len(batchQueue) : Queued(batchQueue[i])
  /\ \A w \in Workers : worker[w].stage # "idle" => Queued(worker[w].dispatch)
  /\ \A i \in 1 .. Len(resultsQueue) : Queued(resultsQueue[i].dispatch)
  /\ consumer.stage # "idle" => Queued(consumer.msg.dispatch)
  /\ \A d \in Dispatches : sent[d] # {} => Queued(d)

RowInv ==
  \A d \in Dispatches :
    /\ Finished(d) => Queued(d)
    /\ row[d].exists => request[d] # "none"
    /\ row[d].exists /\ request[d] \notin {"none", "stored"} => d \in acknowledgments
    /\ deletion[d] \in {"results", "probes"} => row[d].exists
    /\ deletion[d] # "idle" => request[d] # "none"

\* A request does not go back.
LEMMA QueuedStays ==
  ASSUME TypeInv, [Next]_vars
  PROVE  \A d \in Dispatches : Queued(d) => Queued(d)'
  <1>a. request \in [Dispatches ->
          {"none", "stored", "acknowledged", "published", "answered"}]
    BY DEF TypeInv, TypeOK
  <1>1. CASE ApiNext
    <2> SUFFICES ASSUME NEW c \in Dispatches,
                        \/ StoreDispatch(c) \/ StoreAcknowledgment(c)
                        \/ PublishBatch(c)  \/ TrackPending(c)
                        \/ DeleteResults(c) \/ DeleteProbes(c) \/ DeleteRow(c)
                 PROVE  \A d \in Dispatches : Queued(d) => Queued(d)'
      BY <1>1 DEF ApiNext
    <2>1. QED
      BY <1>a DEF Queued, StoreDispatch, StoreAcknowledgment, PublishBatch,
           TrackPending, DeleteResults, DeleteProbes, DeleteRow
  <1>2. CASE WorkerNext
    BY <1>2, WorkerLeaves DEF others, apiVars, Queued
  <1>3. CASE ConsumerStep \/ ConsumerFault
    BY <1>3, ConsumerLeaves DEF untouched, apiVars, Queued
  <1>4. CASE InboxNext
    BY <1>4, InboxLeaves DEF notOurs, apiVars, Queued
  <1>5. CASE UNCHANGED vars
    BY <1>5 DEF vars, Queued
  <1>6. QED
    BY <1>1, <1>2, <1>3, <1>4, <1>5 DEF Next

\* A message about a queued dispatch leaves every message about one.
LEMMA PublishQueued ==
  ASSUME TypeInv, QueuedInv, UNCHANGED request, NEW m \in Message, Publish(m),
         Queued(m.dispatch)
  PROVE  /\ (\A i \in 1 .. Len(resultsQueue) : Queued(resultsQueue[i].dispatch))'
         /\ \A d \in Dispatches : sent'[d] # {} => Queued(d)'
  <1>1. resultsQueue \in Seq(Message) /\ sent \in [Dispatches -> SUBSET Findings]
    BY DEF TypeInv, TypeOK
  <1>2. /\ resultsQueue' = Append(resultsQueue, m)
        /\ Len(resultsQueue') = Len(resultsQueue) + 1
        /\ \A i \in 1 .. Len(resultsQueue) : resultsQueue'[i] = resultsQueue[i]
        /\ resultsQueue'[Len(resultsQueue) + 1] = m
    BY <1>1, AppendElements DEF Publish
  <1>3. \A d \in Dispatches : sent'[d] # {} => sent[d] # {} \/ d = m.dispatch
    BY <1>1 DEF Publish
  <1>4. \A i \in 1 .. Len(resultsQueue') : Queued(resultsQueue'[i].dispatch)
    <2>1. TAKE i \in 1 .. Len(resultsQueue')
    <2>2. Len(resultsQueue) \in Nat
      BY <1>1, LenProperties
    <2>3. i \in 1 .. Len(resultsQueue) \/ i = Len(resultsQueue) + 1
      BY <1>2, <2>2
    <2>4. QED
      BY <1>2, <2>3 DEF QueuedInv
  <1>5. QED
    BY <1>3, <1>4 DEF QueuedInv, Queued

\* Init and each component's steps keep what is under way queued.
LEMMA QueuedInit == Init => QueuedInv
  BY DEF Init, QueuedInv, IdleWorker, IdleConsumer

LEMMA QueuedApi ==
  ASSUME TypeInv, QueuedInv, ApiNext
  PROVE  QueuedInv'
  <1>a. /\ \A c \in Dispatches : Queued(c) => Queued(c)'
        /\ batchQueue \in Seq(Dispatches) /\ resultsQueue \in Seq(Message)
        /\ \A w \in Workers : worker[w].stage # "idle" => worker[w].dispatch \in Dispatches
        /\ consumer.stage # "idle" => consumer.msg.dispatch \in Dispatches
        /\ request \in [Dispatches ->
             {"none", "stored", "acknowledged", "published", "answered"}]
    BY QueuedStays DEF TypeInv, TypeOK, Next, Message
  <1>1. UNCHANGED <<worker, consumer, resultsQueue, sent>>
    BY DEF ApiNext, StoreDispatch, StoreAcknowledgment, PublishBatch,
       TrackPending, DeleteResults, DeleteProbes, DeleteRow, history
  <1>2. (\A w \in Workers : worker[w].stage # "idle" => Queued(worker[w].dispatch))'
    BY <1>a, <1>1 DEF QueuedInv, Queued
  <1>3. (consumer.stage # "idle" => Queued(consumer.msg.dispatch))'
    BY <1>a, <1>1 DEF QueuedInv, Queued
  <1>4. (\A i \in 1 .. Len(resultsQueue) : Queued(resultsQueue[i].dispatch))'
    <2>1. \A i \in 1 .. Len(resultsQueue) : resultsQueue[i].dispatch \in Dispatches
      BY <1>a, ElementOfSeq DEF Message
    <2>2. QED
      BY <1>a, <1>1, <2>1 DEF QueuedInv, Queued
  <1>5. (\A d \in Dispatches : sent[d] # {} => Queued(d))'
    BY <1>a, <1>1 DEF QueuedInv
  <1>6. (\A i \in 1 .. Len(batchQueue) : Queued(batchQueue[i]))'
    <2>1. \A i \in 1 .. Len(batchQueue) : batchQueue[i] \in Dispatches
      BY <1>a, ElementOfSeq
    <2>2. CASE batchQueue' = batchQueue
      BY <1>a, <2>1, <2>2 DEF QueuedInv, Queued
    <2>3. ASSUME NEW d \in Dispatches, PublishBatch(d)
          PROVE  (\A i \in 1 .. Len(batchQueue) : Queued(batchQueue[i]))'
      <3>1. /\ Len(batchQueue') = Len(batchQueue) + 1
            /\ \A i \in 1 .. Len(batchQueue) : batchQueue'[i] = batchQueue[i]
            /\ batchQueue'[Len(batchQueue) + 1] = d
            /\ Len(batchQueue) \in Nat
        BY <1>a, <2>3, AppendElements, LenProperties DEF PublishBatch
      <3>2. request'[d] = "published"
        BY <1>a, <2>3 DEF PublishBatch
      <3>3. ASSUME NEW i \in 1 .. Len(batchQueue')
            PROVE  request'[batchQueue'[i]] \in {"published", "answered"}
        <4>1. CASE i \in 1 .. Len(batchQueue)
          BY <1>a, <2>1, <3>1, <4>1 DEF QueuedInv, Queued
        <4>2. CASE i = Len(batchQueue) + 1
          BY <3>1, <3>2, <4>2
        <4>3. QED
          BY <3>1, <4>1, <4>2
      <3>4. QED
        BY <3>3 DEF Queued
    <2>4. QED
      BY <2>2, <2>3 DEF ApiNext, StoreDispatch, StoreAcknowledgment,
         TrackPending, DeleteResults, DeleteProbes, DeleteRow
  <1>7. QED
    BY <1>2, <1>3, <1>4, <1>5, <1>6 DEF QueuedInv

LEMMA QueuedWorker ==
  ASSUME TypeInv, QueuedInv, NEW w \in Workers, WorkerStep(w) \/ WorkerFault(w)
  PROVE  QueuedInv'
  <1>a. /\ batchQueue \in Seq(Dispatches)
        /\ worker \in [Workers -> Worker] /\ worker[w] \in Worker
        /\ \A v \in Workers : worker[v].stage # "idle" => worker[v].dispatch \in Dispatches
        /\ worker[w].stage # "idle" => worker[w].job >= 1
    BY DEF TypeInv, TypeOK
  <1>b. UNCHANGED <<request, consumer>>
    BY WorkerLeaves DEF WorkerNext, others, apiVars
  <1>c. /\ \A i \in 1 .. Len(batchQueue) : Queued(batchQueue[i])
        /\ \A v \in Workers : worker[v].stage # "idle" => Queued(worker[v].dispatch)
    BY DEF QueuedInv
  <1> DEFINE Batches == \A i \in 1 .. Len(batchQueue) : Queued(batchQueue[i])
             Running == worker[w].stage # "idle" => Queued(worker[w].dispatch)
             Messages == /\ \A i \in 1 .. Len(resultsQueue) : Queued(resultsQueue[i].dispatch)
                         /\ \A d \in Dispatches : sent[d] # {} => Queued(d)
  <1>d. SUFFICES Batches' /\ Running' /\ Messages'
    <2>1. \A v \in Workers : v # w => worker'[v] = worker[v]
      BY <1>a, OtherWorkers
    <2>2. (\A v \in Workers : worker[v].stage # "idle" => Queued(worker[v].dispatch))'
      BY <1>b, <1>c, <1>d, <2>1 DEF Queued
    <2>3. QED
      BY <1>b, <1>c, <1>d, <2>2 DEF QueuedInv, Queued
  <1> USE DEF Becomes
  <1>e. batchQueue' = batchQueue => Batches'
    BY <1>b, <1>c DEF Queued
  <1>f. UNCHANGED <<resultsQueue, sent>> => Messages'
    BY <1>b DEF QueuedInv, Queued
  <1>g. worker'[w].dispatch = worker[w].dispatch /\ worker[w].stage # "idle" => Running'
    BY <1>b, <1>c DEF Queued
  <1>1. CASE ReceiveBatch(w)
    <2>1. Batches' /\ Queued(Head(batchQueue))
      <3>1. /\ batchQueue' = Tail(batchQueue)
            /\ Len(batchQueue) \in Nat \ {0}
            /\ Len(Tail(batchQueue)) = Len(batchQueue) - 1
            /\ Head(batchQueue) = batchQueue[1]
            /\ \A i \in 1 .. Len(Tail(batchQueue)) : Tail(batchQueue)[i] = batchQueue[i + 1]
        BY <1>1, <1>a, TailElements DEF ReceiveBatch
      <3>2. \A i \in 1 .. Len(Tail(batchQueue)) : Queued(Tail(batchQueue)[i])
        BY <3>1, <1>c
      <3>3. QED
        BY <3>1, <3>2, <1>b, <1>c DEF Queued
    <2>2. worker'[w].dispatch = Head(batchQueue)
      <3>1. worker'[w] = [stage |-> "received", dispatch |-> Head(batchQueue),
                       tokens |-> {}, leaks |-> 0, seen |-> {}, job |-> 1,
                       findings |-> 0, probes |-> 0]
        BY <1>1, <1>a DEF ReceiveBatch, IdleWorker
      <3>2. QED
        BY <3>1
    <2>3. QED
      BY <1>1, <1>b, <1>f, <2>1, <2>2 DEF ReceiveBatch, Queued
  <1>2. CASE RejectBatch(w) \/ AckBatch(w)
    BY <1>2, <1>a, <1>e, <1>f DEF RejectBatch, AckBatch, IdleWorker
  <1>3. CASE DiscoveryFails(w) \/ DiscoverySucceeds(w) \/ PublishFails(w) \/ LoseCompletion(w)
    <2>1. worker'[w].dispatch = worker[w].dispatch /\ worker[w].stage # "idle"
      BY <1>3, <1>a DEF DiscoveryFails, DiscoverySucceeds, PublishFails,
           LoseCompletion, Publishing, RunReturns, Worker
    <2>2. QED
      BY <1>3, <2>1, <1>e, <1>f, <1>g DEF DiscoveryFails, DiscoverySucceeds,
           PublishFails, LoseCompletion
  <1>4. ASSUME NEW m \in Message, Publish(m), m.dispatch = worker[w].dispatch,
               worker'[w].dispatch = worker[w].dispatch, worker[w].stage # "idle",
               batchQueue' = batchQueue
        PROVE  Batches' /\ Running' /\ Messages'
    <2>1. Messages'
      BY <1>4, <1>b, <1>c, PublishQueued
    <2>2. QED
      BY <1>4, <1>e, <1>g, <2>1
  <1>5. ASSUME NEW t \in Tokens, PublishLeak(w, t)
        PROVE  Batches' /\ Running' /\ Messages'
    <2>1. ResultMessage(worker[w].dispatch, TokenFinding[t]) \in Message
      BY <1>5, <1>a, MessageTypes, ScanAssumption DEF PublishLeak
    <2>2. worker'[w].dispatch = worker[w].dispatch
      BY <1>5, <1>a DEF PublishLeak, Worker
    <2>3. QED
      BY <1>5, <1>4, <2>1, <2>2 DEF PublishLeak, ResultMessage
  <1>6. CASE FinishSecrets(w)
    <2>1. ProbeMessage(worker[w].dispatch) \in Message
      BY <1>6, <1>a, MessageTypes DEF FinishSecrets
    <2>2. worker'[w].dispatch = worker[w].dispatch
      BY <1>6, <1>a DEF FinishSecrets, Worker
    <2>3. QED
      BY <1>6, <1>4, <2>1, <2>2 DEF FinishSecrets, ProbeMessage
  <1>7. CASE PublishFinding(w)
    <2>1. JobFinding[worker[w].job] \in Findings
      BY <1>7, <1>a, ScanAssumption DEF PublishFinding, JobsLeft, Worker
    <2>2. ResultMessage(worker[w].dispatch, JobFinding[worker[w].job]) \in Message
      BY <1>7, <1>a, <2>1, MessageTypes DEF PublishFinding
    <2>3. worker'[w].dispatch = worker[w].dispatch
      BY <1>7, <1>a DEF PublishFinding, Worker
    <2>4. QED
      BY <1>7, <1>4, <2>2, <2>3 DEF PublishFinding, ResultMessage
  <1>8. CASE PublishProbe(w)
    <2>1. ProbeMessage(worker[w].dispatch) \in Message
      BY <1>8, <1>a, MessageTypes DEF PublishProbe
    <2>2. worker'[w].dispatch = worker[w].dispatch
      BY <1>8, <1>a DEF PublishProbe, Worker
    <2>3. QED
      BY <1>8, <1>4, <2>1, <2>2 DEF PublishProbe, ProbeMessage
  <1>9. CASE PublishCompletion(w)
    <2>1. CompletionMessage(worker[w].dispatch, worker[w].stage = "failed",
                            worker[w].findings, worker[w].probes) \in Message
      BY <1>9, <1>a, MessageTypes DEF PublishCompletion, RunReturns, Worker
    <2>2. worker'[w].dispatch = worker[w].dispatch
      BY <1>9, <1>a DEF PublishCompletion, Worker
    <2>3. QED
      BY <1>9, <1>4, <2>1, <2>2 DEF PublishCompletion, RunReturns, CompletionMessage
  <1>10. CASE WorkerCrash(w)
    <2>1. /\ batchQueue' = <<worker[w].dispatch>> \o batchQueue
          /\ Len(batchQueue') = Len(batchQueue) + 1
          /\ batchQueue'[1] = worker[w].dispatch
          /\ \A i \in 1 .. Len(batchQueue) : batchQueue'[i + 1] = batchQueue[i]
          /\ Len(batchQueue) \in Nat
      BY <1>10, <1>a, RequeueElements, LenProperties DEF WorkerCrash
    <2>2. ASSUME NEW i \in 1 .. Len(batchQueue')
          PROVE  Queued(batchQueue'[i])
      <3>1. CASE i = 1
        BY <3>1, <2>1, <1>10, <1>c DEF WorkerCrash
      <3>2. CASE i # 1
        <4>1. i - 1 \in 1 .. Len(batchQueue) /\ (i - 1) + 1 = i
          BY <2>1, <3>2
        <4>2. batchQueue'[i] = batchQueue[i - 1]
          BY <2>1, <4>1
        <4>3. QED
          BY <4>1, <4>2, <1>c
      <3>3. QED
        BY <3>1, <3>2
    <2>3. Batches'
      BY <2>2, <1>b DEF Queued
    <2>4. QED
      BY <1>10, <1>a, <1>f, <2>3 DEF WorkerCrash, IdleWorker
  <1>11. QED
    BY <1>1, <1>2, <1>3, <1>5, <1>6, <1>7, <1>8, <1>9, <1>10
       DEF WorkerStep, WorkerFault

LEMMA QueuedConsumer ==
  ASSUME TypeInv, QueuedInv, ConsumerStep \/ ConsumerFault
  PROVE  QueuedInv'
  <1>a. /\ resultsQueue \in Seq(Message)
        /\ consumer \in Consumer
        /\ consumer.stage # "idle" => consumer.msg \in Message
    BY DEF TypeInv, TypeOK
  <1>b. UNCHANGED <<request, worker, batchQueue, sent>>
    BY ConsumerLeaves DEF untouched, apiVars
  <1>c. /\ \A i \in 1 .. Len(resultsQueue) : Queued(resultsQueue[i].dispatch)
        /\ consumer.stage # "idle" => Queued(consumer.msg.dispatch)
    BY DEF QueuedInv
  <1> DEFINE Messages == \A i \in 1 .. Len(resultsQueue) : Queued(resultsQueue[i].dispatch)
             Handled == consumer.stage # "idle" => Queued(consumer.msg.dispatch)
  <1>d. SUFFICES Messages' /\ Handled'
    BY <1>b DEF QueuedInv, Queued
  <1>e. resultsQueue' = resultsQueue => Messages'
    BY <1>b, <1>c DEF Queued
  <1>f. consumer'.msg = consumer.msg /\ consumer.stage # "idle" => Handled'
    BY <1>b, <1>c DEF Queued
  <1> USE DEF msg
  <1>1. CASE TakeMessage
    <2>1. /\ resultsQueue' = Tail(resultsQueue)
          /\ Len(resultsQueue) \in Nat \ {0}
          /\ Len(Tail(resultsQueue)) = Len(resultsQueue) - 1
          /\ Head(resultsQueue) = resultsQueue[1]
          /\ \A i \in 1 .. Len(Tail(resultsQueue)) :
               Tail(resultsQueue)[i] = resultsQueue[i + 1]
      BY <1>1, <1>a, TailElements DEF TakeMessage
    <2>2. \A i \in 1 .. Len(Tail(resultsQueue)) : Queued(Tail(resultsQueue)[i].dispatch)
      BY <2>1, <1>c
    <2>3. Queued(consumer'.msg.dispatch)
      BY <1>1, <2>1, <1>c, TakenFields
    <2>4. QED
      BY <2>1, <2>2, <2>3, <1>b DEF Queued
  <1>2. CASE \/ LookUpDispatch \/ CheckExisting \/ InsertResult \/ InsertProbe
             \/ UpdateDispatch \/ SaveNotification \/ DatabaseFails
    <2>1. resultsQueue' = resultsQueue /\ consumer.stage # "idle"
      BY <1>2 DEF LookUpDispatch, CheckExisting, InsertResult, InsertProbe,
           UpdateDispatch, SaveNotification, DatabaseFails
    <2>2. \E stage \in {"check", "insert", "update", "notify", "ack", "raised",
                        FirstStage(consumer.msg.kind)} : GoTo(stage)
      BY <1>2 DEF LookUpDispatch, CheckExisting, InsertResult, InsertProbe,
           UpdateDispatch, SaveNotification, DatabaseFails
    <2>3. consumer'.msg = consumer.msg
      BY <2>2, <1>a, GoToFields
    <2>4. QED
      BY <2>1, <2>3, <1>e, <1>f
  <1>3. CASE LoadNotification
    <2>1. consumer'.msg = consumer.msg
      BY <1>3, <1>a DEF LoadNotification, GoTo, Consumer
    <2>2. QED
      BY <1>3, <2>1, <1>e, <1>f DEF LoadNotification
  <1>4. CASE ReleaseMessage
    <2>1. /\ resultsQueue' = Append(resultsQueue, consumer.msg)
          /\ Len(resultsQueue') = Len(resultsQueue) + 1
          /\ \A i \in 1 .. Len(resultsQueue) : resultsQueue'[i] = resultsQueue[i]
          /\ resultsQueue'[Len(resultsQueue) + 1] = consumer.msg
          /\ Len(resultsQueue) \in Nat
      BY <1>4, <1>a, AppendElements, LenProperties DEF ReleaseMessage
    <2>2. \A i \in 1 .. Len(resultsQueue') : Queued(resultsQueue'[i].dispatch)
      <3>1. TAKE i \in 1 .. Len(resultsQueue')
      <3>2. i \in 1 .. Len(resultsQueue) \/ i = Len(resultsQueue) + 1
        BY <2>1
      <3>3. QED
        BY <3>2, <2>1, <1>4, <1>c DEF ReleaseMessage
    <2>3. consumer'.msg = consumer.msg
      BY <1>4, <1>a, GoToFields DEF ReleaseMessage
    <2>4. QED
      BY <1>4, <2>2, <2>3, <1>b, <1>f DEF ReleaseMessage, Queued
  <1>5. CASE AckMessage
    BY <1>5, <1>e DEF AckMessage, IdleConsumer
  <1>6. CASE ConsumerCrash
    <2>1. /\ resultsQueue' = <<consumer.msg>> \o resultsQueue
          /\ Len(resultsQueue') = Len(resultsQueue) + 1
          /\ resultsQueue'[1] = consumer.msg
          /\ \A i \in 1 .. Len(resultsQueue) : resultsQueue'[i + 1] = resultsQueue[i]
          /\ Len(resultsQueue) \in Nat
      BY <1>6, <1>a, RequeueElements, LenProperties DEF ConsumerCrash
    <2>2. ASSUME NEW i \in 1 .. Len(resultsQueue')
          PROVE  Queued(resultsQueue'[i].dispatch)
      <3>1. CASE i = 1
        BY <3>1, <2>1, <1>6, <1>c DEF ConsumerCrash
      <3>2. CASE i # 1
        <4>1. i - 1 \in 1 .. Len(resultsQueue) /\ (i - 1) + 1 = i
          BY <2>1, <3>2
        <4>2. resultsQueue'[i] = resultsQueue[i - 1]
          BY <2>1, <4>1
        <4>3. QED
          BY <4>1, <4>2, <1>c
      <3>3. QED
        BY <3>1, <3>2
    <2>3. QED
      BY <1>6, <2>2, <1>b DEF ConsumerCrash, IdleConsumer, Queued
  <1>7. QED
    BY <1>1, <1>2, <1>3, <1>4, <1>5, <1>6 DEF ConsumerStep, ConsumerFault

\* What is under way was queued.
LEMMA UnderWayQueued == Spec => []QueuedInv
  <1>1. TypeInv /\ QueuedInv /\ [Next]_vars => QueuedInv'
    <2> SUFFICES ASSUME TypeInv, QueuedInv, [Next]_vars
                 PROVE  QueuedInv'
      OBVIOUS
    <2>1. CASE InboxNext
      BY <2>1, InboxLeaves DEF notOurs, apiVars, history, QueuedInv, Queued
    <2>2. CASE UNCHANGED vars
      BY <2>2 DEF vars, QueuedInv, Queued
    <2>3. QED
      BY <2>1, <2>2, QueuedApi, QueuedWorker, QueuedConsumer DEF Next, WorkerNext
  <1>2. QED
    BY <1>1, QueuedInit, StrongTyping, PTL DEF Spec

-----------------------------------------------------------------------------
(* The rows.                                                               *)

LEMMA RowInit == Init => RowInv
  BY DEF Init, RowInv, AbsentRow, Finished, ScanStatus

LEMMA RowStep == TypeInv /\ QueuedInv /\ RowInv /\ [Next]_vars => RowInv'
  <1> SUFFICES ASSUME TypeInv, QueuedInv, RowInv, [Next]_vars
               PROVE  RowInv'
    OBVIOUS
  <1>a. /\ row \in [Dispatches -> DispatchRow]
        /\ acknowledgments \subseteq Dispatches
        /\ request \in [Dispatches ->
             {"none", "stored", "acknowledged", "published", "answered"}]
        /\ deletion \in [Dispatches -> {"idle", "results", "probes", "done"}]
    BY DEF TypeInv, TypeOK
  <1>b. /\ AbsentRow.exists = FALSE
        /\ [AbsentRow EXCEPT !.exists = TRUE].exists = TRUE
        /\ ScanStatus([AbsentRow EXCEPT !.exists = TRUE]) = "pending"
    BY DEF AbsentRow, ScanStatus
  <1> USE DEF RowInv, Finished, Queued
  <1>1. ASSUME UNCHANGED <<request, row, acknowledgments, deletion>>
        PROVE  RowInv'
    BY <1>1
  <1>2. ASSUME NEW d \in Dispatches, StoreDispatch(d)
        PROVE  RowInv'
    <2>1. /\ row' = [row EXCEPT ![d] = [AbsentRow EXCEPT !.exists = TRUE]]
          /\ request[d] = "none" /\ request' = [request EXCEPT ![d] = "stored"]
          /\ acknowledgments' = acknowledgments /\ deletion' = deletion
      BY <1>2 DEF StoreDispatch
    <2>2. QED
      BY <2>1, <1>a, <1>b
  <1>3. ASSUME NEW d \in Dispatches, StoreAcknowledgment(d)
        PROVE  RowInv'
    BY <1>3, <1>a DEF StoreAcknowledgment
  <1>4. ASSUME NEW d \in Dispatches, PublishBatch(d) \/ TrackPending(d)
        PROVE  RowInv'
    BY <1>4, <1>a DEF PublishBatch, TrackPending
  <1>5. ASSUME NEW d \in Dispatches, DeleteResults(d) \/ DeleteProbes(d)
        PROVE  RowInv'
    BY <1>5, <1>a DEF DeleteResults, DeleteProbes
  <1>6. ASSUME NEW d \in Dispatches, DeleteRow(d)
        PROVE  RowInv'
    <2>1. /\ row' = [row EXCEPT ![d] = AbsentRow]
          /\ request' = request
          /\ acknowledgments' = acknowledgments \ {d}
          /\ deletion[d] = "probes" /\ deletion' = [deletion EXCEPT ![d] = "done"]
      BY <1>6 DEF DeleteRow
    <2>2. QED
      BY <2>1, <1>a, <1>b
  <1>7. CASE UpdateDispatch
    <2> DEFINE d == consumer.msg.dispatch
    <2>1. d \in Dispatches /\ Queued(d)
      BY <1>7 DEF UpdateDispatch, TypeInv, Message, QueuedInv
    <2>2. UNCHANGED <<request, acknowledgments, deletion>>
      BY <1>7 DEF UpdateDispatch, untouched, apiVars
    <2>3. \/ row' = row
          \/ row' = [row EXCEPT ![d] = CompletedRow(row[d], consumer.msg)]
      BY <1>7 DEF UpdateDispatch, msg
    <2>4. CompletedRow(row[d], consumer.msg).exists = row[d].exists
      BY <2>1, <1>a DEF CompletedRow, DispatchRow
    <2>5. QED
      BY <2>1, <2>2, <2>3, <2>4, <1>a
  <1>8. CASE (ConsumerStep /\ ~UpdateDispatch) \/ ConsumerFault
    BY <1>8, <1>1 DEF ConsumerStep, ConsumerFault, TakeMessage, LookUpDispatch,
         CheckExisting, InsertResult, InsertProbe, LoadNotification,
         SaveNotification, ReleaseMessage, AckMessage, DatabaseFails,
         ConsumerCrash, untouched, apiVars
  <1>9. CASE WorkerNext
    BY <1>9, <1>1, WorkerLeaves DEF others, apiVars
  <1>10. CASE InboxNext
    BY <1>10, <1>1, InboxLeaves DEF notOurs, apiVars
  <1>11. CASE UNCHANGED vars
    BY <1>11, <1>1 DEF vars
  <1>12. QED
    BY <1>2, <1>3, <1>4, <1>5, <1>6, <1>7, <1>8, <1>9, <1>10, <1>11
       DEF Next, ApiNext

LEMMA RowsQueued == Spec => []RowInv
  BY RowInit, RowStep, StrongTyping, UnderWayQueued, PTL DEF Spec

\* Nothing is sent to a worker, under way or finished without the acceptance
\* of responsibility of its dispatch on record.
THEOREM AcceptedFirst == Spec => []AcceptedBeforeScanned
  <1>1. TypeInv /\ QueuedInv /\ RowInv => AcceptedBeforeScanned
    <2> SUFFICES ASSUME TypeInv, QueuedInv, RowInv, NEW d \in Dispatches, row[d].exists,
                        \/ InBatchQueue(d) \/ AtWorker(d)
                        \/ MessageOf(d) \/ Finished(d)
                 PROVE  d \in acknowledgments
      BY DEF AcceptedBeforeScanned
    <2>1. Queued(d)
      BY DEF InBatchQueue, AtWorker, MessageOf, QueuedInv, RowInv
    <2>2. QED
      BY <2>1 DEF RowInv, Queued
  <1>2. QED
    BY <1>1, StrongTyping, UnderWayQueued, RowsQueued, PTL


-----------------------------------------------------------------------------
(* Refinement.                                                             *)

LEMMA LifecycleInit == Init => Lifecycle!Init
  BY DEF Init, Lifecycle!Init, scanState

\* The abstract state of a dispatch changes with its request and its row only.
LEMMA ScanStateFrame ==
  ASSUME UNCHANGED <<request, row>>
  PROVE  scanState' = scanState
  BY DEF scanState, Queued

LEMMA LifecycleStep ==
  TypeInv /\ QueuedInv /\ RowInv /\ [Next]_vars => [Lifecycle!Next]_scanState
  <1> SUFFICES ASSUME TypeInv, QueuedInv, RowInv, [Next]_vars
               PROVE  [Lifecycle!Next]_scanState
    OBVIOUS
  <1>a. /\ row \in [Dispatches -> DispatchRow]
        /\ request \in [Dispatches ->
             {"none", "stored", "acknowledged", "published", "answered"}]
    BY DEF TypeInv, TypeOK
  <1>b. /\ AbsentRow.exists = FALSE
        /\ [AbsentRow EXCEPT !.exists = TRUE].exists = TRUE
        /\ ScanStatus([AbsentRow EXCEPT !.exists = TRUE]) = "pending"
    BY DEF AbsentRow, ScanStatus
  <1>c. \A d \in Dispatches : row[d].exists /\ ScanStatus(row[d]) # "pending" => Queued(d)
    BY DEF RowInv, Finished
  <1>1. ASSUME UNCHANGED <<request, row>>
        PROVE  [Lifecycle!Next]_scanState
    BY <1>1, ScanStateFrame
  <1>2. ASSUME NEW d \in Dispatches, StoreDispatch(d)
        PROVE  Lifecycle!Create(d)
    <2>1. /\ request[d] = "none" /\ request' = [request EXCEPT ![d] = "stored"]
          /\ row' = [row EXCEPT ![d] = [AbsentRow EXCEPT !.exists = TRUE]]
      BY <1>2 DEF StoreDispatch
    <2>2. scanState[d] = "none"
      BY <2>1 DEF scanState
    <2>3. \A c \in Dispatches :
            scanState'[c] = IF c = d THEN "created" ELSE scanState[c]
      BY <2>1, <1>a, <1>b DEF scanState, Queued
    <2>4. scanState' = [scanState EXCEPT ![d] = "created"]
      BY <2>3 DEF scanState
    <2>5. QED
      BY <2>2, <2>4 DEF Lifecycle!Create
  <1>3. ASSUME NEW d \in Dispatches, StoreAcknowledgment(d) \/ TrackPending(d)
        PROVE  scanState' = scanState
    <2>1. /\ row' = row
          /\ \/ request[d] = "stored" /\ request' = [request EXCEPT ![d] = "acknowledged"]
             \/ request[d] = "published" /\ request' = [request EXCEPT ![d] = "answered"]
      BY <1>3 DEF StoreAcknowledgment, TrackPending
    <2>2. \A c \in Dispatches : scanState'[c] = scanState[c]
      BY <2>1, <1>a DEF scanState, Queued
    <2>3. QED
      BY <2>2 DEF scanState
  <1>4. ASSUME NEW d \in Dispatches, PublishBatch(d)
        PROVE  Lifecycle!Enqueue(d) \/ scanState' = scanState
    <2>1. /\ request[d] = "acknowledged" /\ row' = row
          /\ request' = [request EXCEPT ![d] = "published"]
      BY <1>4 DEF PublishBatch
    <2>2. CASE row[d].exists
      <3>1. ScanStatus(row[d]) = "pending"
        BY <2>1, <2>2, <1>c DEF Queued
      <3>2. scanState[d] = "created"
        BY <2>1, <2>2, <3>1 DEF scanState, Queued
      <3>3. \A c \in Dispatches :
              scanState'[c] = IF c = d THEN "queued" ELSE scanState[c]
        BY <2>1, <2>2, <3>1, <1>a DEF scanState, Queued
      <3>4. scanState' = [scanState EXCEPT ![d] = "queued"]
        BY <3>3 DEF scanState
      <3>5. QED
        BY <3>2, <3>4 DEF Lifecycle!Enqueue
    <2>3. CASE ~row[d].exists
      <3>1. \A c \in Dispatches : scanState'[c] = scanState[c]
        BY <2>1, <2>3, <1>a DEF scanState, Queued
      <3>2. QED
        BY <3>1 DEF scanState
    <2>4. QED
      BY <2>2, <2>3
  <1>5. ASSUME NEW d \in Dispatches, DeleteResults(d) \/ DeleteProbes(d)
        PROVE  UNCHANGED <<request, row>>
    BY <1>5 DEF DeleteResults, DeleteProbes
  <1>6. ASSUME NEW d \in Dispatches, DeleteRow(d)
        PROVE  Lifecycle!Delete(d)
    <2>1. /\ deletion[d] = "probes" /\ request' = request
          /\ row' = [row EXCEPT ![d] = AbsentRow]
      BY <1>6 DEF DeleteRow
    <2>2. row[d].exists /\ request[d] # "none"
      BY <2>1 DEF RowInv
    <2>3. scanState[d] \in {"created", "queued"} \cup {"completed", "failed"}
      BY <2>2 DEF scanState, ScanStatus
    <2>4. \A c \in Dispatches :
            scanState'[c] = IF c = d THEN "deleted" ELSE scanState[c]
      BY <2>1, <2>2, <1>a, <1>b DEF scanState, Queued
    <2>5. scanState' = [scanState EXCEPT ![d] = "deleted"]
      BY <2>4 DEF scanState
    <2>6. QED
      BY <2>3, <2>5 DEF Lifecycle!Delete, Lifecycle!Outcomes
  <1>7. CASE UpdateDispatch
    <2> DEFINE d == consumer.msg.dispatch
               outcome == IF consumer.msg.failed THEN "failed" ELSE "completed"
    <2>1. d \in Dispatches /\ Queued(d) /\ consumer.msg.failed \in BOOLEAN
      BY <1>7 DEF UpdateDispatch, TypeInv, Message, QueuedInv
    <2>2. request' = request
      BY <1>7 DEF UpdateDispatch, untouched, apiVars
    <2>3. CASE ~row[d].exists
      BY <1>7, <2>2, <2>3, <1>1 DEF UpdateDispatch, msg
    <2>4. CASE row[d].exists
      <3>1. row' = [row EXCEPT ![d] = CompletedRow(row[d], consumer.msg)]
        BY <1>7, <2>4 DEF UpdateDispatch, msg
      <3>2. /\ CompletedRow(row[d], consumer.msg).exists
            /\ CompletedRow(row[d], consumer.msg).completedAt = ~consumer.msg.failed
            /\ CompletedRow(row[d], consumer.msg).failedAt = consumer.msg.failed
        BY <2>1, <2>4, <1>a DEF CompletedRow, DispatchRow
      <3>3. ScanStatus(CompletedRow(row[d], consumer.msg)) = outcome
        BY <3>2, <2>1 DEF ScanStatus
      <3>4. scanState[d] \in {"queued"} \cup {"completed", "failed"}
        BY <2>1, <2>4 DEF scanState, ScanStatus, Queued
      <3>5. \A c \in Dispatches :
              scanState'[c] = IF c = d THEN outcome ELSE scanState[c]
        BY <2>1, <2>2, <3>1, <3>2, <3>3, <1>a DEF scanState, Queued
      <3>6. scanState' = [scanState EXCEPT ![d] = outcome]
        BY <3>5 DEF scanState
      <3>7. Lifecycle!Report(d, outcome) /\ outcome \in Lifecycle!Outcomes
        BY <3>4, <3>6 DEF Lifecycle!Report, Lifecycle!Outcomes
      <3>8. QED
        BY <2>1, <3>7 DEF Lifecycle!Next
    <2>5. QED
      BY <2>3, <2>4
  <1>8. CASE (ConsumerStep /\ ~UpdateDispatch) \/ ConsumerFault
    BY <1>8, <1>1 DEF ConsumerStep, ConsumerFault, TakeMessage, LookUpDispatch,
         CheckExisting, InsertResult, InsertProbe, LoadNotification,
         SaveNotification, ReleaseMessage, AckMessage, DatabaseFails,
         ConsumerCrash, untouched, apiVars
  <1>9. CASE WorkerNext
    BY <1>9, <1>1, WorkerLeaves DEF others, apiVars
  <1>10. CASE InboxNext
    BY <1>10, <1>1, InboxLeaves DEF notOurs, apiVars
  <1>11. CASE UNCHANGED vars
    BY <1>11, <1>1 DEF vars
  <1>12. CASE ApiNext
    BY <1>12, <1>1, <1>2, <1>3, <1>4, <1>5, <1>6 DEF ApiNext, Lifecycle!Next
  <1>13. QED
    BY <1>7, <1>8, <1>9, <1>10, <1>11, <1>12 DEF Next

\* Every behaviour of the composed system is, seen through the request and
\* the row of each dispatch, a behaviour of the abstract scan: created,
\* queued, reported and perhaps deleted, in that order.
THEOREM Refinement == Spec => ImplementsLifecycle
  <1>1. QED
    BY LifecycleInit, LifecycleStep, StrongTyping, UnderWayQueued, RowsQueued,
       PTL DEF Spec, ImplementsLifecycle, Lifecycle!Spec
=============================================================================
