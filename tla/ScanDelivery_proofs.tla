------------------------- MODULE ScanDelivery_proofs -------------------------
(***************************************************************************)
(* What the two queues, the consumer and the inbox promise together: a     *)
(* result the broker accepted stays somewhere until it is stored, a scan   *)
(* shown completed is in the tables, and an outcome is announced after it  *)
(* is on record.                                                           *)
(***************************************************************************)
EXTENDS ScanDispatch_proofs, FiniteSetTheorems, FunctionTheorems

-----------------------------------------------------------------------------
(* No result is lost.                                                      *)

\* Dispatches that are there and that nobody is deleting.
Kept(d) == row[d].exists /\ deletion[d] = "idle"

\* Only a result is looked for, and only a completion gets as far as the
\* update and the notification.
StageKind ==
  /\ consumer.stage = "check" => consumer.msg.kind = "result"
  /\ consumer.stage \in {"update", "notify", "save"} => consumer.msg.kind = "completion"

\* A result the consumer is about to acknowledge is stored or queued again.
HandedBack ==
  consumer.stage = "ack" =>
    \A d \in Dispatches, f \in Findings :
      consumer.msg = ResultMessage(d, f) /\ Kept(d) =>
        resultRows[d][f] > 0 \/ InResultsQueue(ResultMessage(d, f))

KeptInv == NoResultLost /\ StageKind /\ HandedBack

LEMMA KeptInit == Init => KeptInv
  BY DEF Init, KeptInv, NoResultLost, StageKind, HandedBack, IdleConsumer

\* Messages move in the queue and out of it, one at a time.
LEMMA AppendKeeps ==
  ASSUME NEW m, NEW n \in Message, resultsQueue \in Seq(Message),
         resultsQueue' = Append(resultsQueue, n)
  PROVE  InResultsQueue(m) \/ m = n => InResultsQueue(m)'
  <1>1. /\ Len(resultsQueue') = Len(resultsQueue) + 1
        /\ \A i \in 1 .. Len(resultsQueue) : resultsQueue'[i] = resultsQueue[i]
        /\ resultsQueue'[Len(resultsQueue) + 1] = n
        /\ Len(resultsQueue) \in Nat
    BY AppendElements, LenProperties
  <1>2. CASE InResultsQueue(m)
    <2>1. PICK i \in 1 .. Len(resultsQueue) : resultsQueue[i] = m
      BY <1>2 DEF InResultsQueue
    <2>2. i \in 1 .. Len(resultsQueue') /\ resultsQueue'[i] = m
      BY <1>1, <2>1
    <2>3. QED
      BY <2>2 DEF InResultsQueue
  <1>3. CASE m = n
    <2>1. Len(resultsQueue) + 1 \in 1 .. Len(resultsQueue')
      BY <1>1
    <2>2. QED
      BY <1>1, <1>3, <2>1 DEF InResultsQueue
  <1>4. QED
    BY <1>2, <1>3

LEMMA RequeueKeeps ==
  ASSUME NEW m, NEW n \in Message, resultsQueue \in Seq(Message),
         resultsQueue' = <<n>> \o resultsQueue
  PROVE  InResultsQueue(m) \/ m = n => InResultsQueue(m)'
  <1>1. /\ Len(resultsQueue') = Len(resultsQueue) + 1
        /\ \A i \in 1 .. Len(resultsQueue) : resultsQueue'[i + 1] = resultsQueue[i]
        /\ resultsQueue'[1] = n
        /\ Len(resultsQueue) \in Nat
    BY RequeueElements, LenProperties
  <1>2. CASE InResultsQueue(m)
    <2>1. PICK i \in 1 .. Len(resultsQueue) : resultsQueue[i] = m
      BY <1>2 DEF InResultsQueue
    <2>2. i + 1 \in 1 .. Len(resultsQueue') /\ resultsQueue'[i + 1] = m
      BY <1>1, <2>1
    <2>3. QED
      BY <2>2 DEF InResultsQueue
  <1>3. CASE m = n
    <2>1. 1 \in 1 .. Len(resultsQueue')
      BY <1>1
    <2>2. QED
      BY <1>1, <1>3, <2>1 DEF InResultsQueue
  <1>4. QED
    BY <1>2, <1>3

LEMMA TakeKeeps ==
  ASSUME NEW m, resultsQueue \in Seq(Message), resultsQueue # <<>>,
         resultsQueue' = Tail(resultsQueue), InResultsQueue(m)
  PROVE  InResultsQueue(m)' \/ m = Head(resultsQueue)
  <1>1. /\ Len(resultsQueue) \in Nat \ {0}
        /\ Len(resultsQueue') = Len(resultsQueue) - 1
        /\ Head(resultsQueue) = resultsQueue[1]
        /\ \A i \in 1 .. Len(resultsQueue') : resultsQueue'[i] = resultsQueue[i + 1]
    BY TailElements
  <1>2. PICK i \in 1 .. Len(resultsQueue) : resultsQueue[i] = m
    BY DEF InResultsQueue
  <1>3. CASE i = 1
    BY <1>1, <1>2, <1>3
  <1>4. CASE i # 1
    <2>1. i - 1 \in 1 .. Len(resultsQueue') /\ (i - 1) + 1 = i
      BY <1>1, <1>4
    <2>2. resultsQueue'[i - 1] = m
      BY <1>1, <1>2, <2>1
    <2>3. QED
      BY <2>1, <2>2 DEF InResultsQueue
  <1>5. QED
    BY <1>3, <1>4

\* A worker leaves the queue and the history alone or publishes.
LEMMA WorkerPublishes ==
  ASSUME TypeInv, NEW w \in Workers, WorkerStep(w) \/ WorkerFault(w)
  PROVE  \/ UNCHANGED <<resultsQueue, sent>>
         \/ \E m \in Message :
              /\ Publish(m)
              /\ m.kind = "result" => m = ResultMessage(m.dispatch, m.finding)
  <1>a. /\ worker[w] \in Worker
        /\ worker[w].stage # "idle" => worker[w].dispatch \in Dispatches /\ worker[w].job >= 1
    BY DEF TypeInv, TypeOK
  <1>1. CASE \/ ReceiveBatch(w) \/ RejectBatch(w) \/ DiscoveryFails(w) \/ DiscoverySucceeds(w)
             \/ AckBatch(w) \/ PublishFails(w) \/ LoseCompletion(w) \/ WorkerCrash(w)
    BY <1>1 DEF ReceiveBatch, RejectBatch, DiscoveryFails, DiscoverySucceeds,
         AckBatch, PublishFails, LoseCompletion, WorkerCrash
  <1>2. ASSUME NEW t \in Tokens, PublishLeak(w, t)
        PROVE  \E m \in Message :
                 Publish(m) /\ (m.kind = "result" => m = ResultMessage(m.dispatch, m.finding))
    <2> DEFINE m == ResultMessage(worker[w].dispatch, TokenFinding[t])
    <2>1. m \in Message
      BY <1>2, <1>a, MessageTypes, ScanAssumption DEF PublishLeak
    <2>2. m = ResultMessage(m.dispatch, m.finding)
      BY DEF ResultMessage
    <2>3. QED
      BY <1>2, <2>1, <2>2 DEF PublishLeak
  <1>3. CASE PublishFinding(w)
    <2> DEFINE m == ResultMessage(worker[w].dispatch, JobFinding[worker[w].job])
    <2>1. JobFinding[worker[w].job] \in Findings
      BY <1>3, <1>a, ScanAssumption DEF PublishFinding, JobsLeft, Worker
    <2>2. m \in Message
      BY <1>3, <1>a, <2>1, MessageTypes DEF PublishFinding
    <2>3. m = ResultMessage(m.dispatch, m.finding)
      BY DEF ResultMessage
    <2>4. QED
      BY <1>3, <2>2, <2>3 DEF PublishFinding
  <1>4. CASE FinishSecrets(w) \/ PublishProbe(w)
    <2>1. ProbeMessage(worker[w].dispatch) \in Message /\ Publish(ProbeMessage(worker[w].dispatch))
      BY <1>4, <1>a, MessageTypes DEF FinishSecrets, PublishProbe
    <2>2. ProbeMessage(worker[w].dispatch).kind # "result"
      BY DEF ProbeMessage
    <2>3. QED
      BY <2>1, <2>2
  <1>5. CASE PublishCompletion(w)
    <2> DEFINE m == CompletionMessage(worker[w].dispatch, worker[w].stage = "failed",
                                      worker[w].findings, worker[w].probes)
    <2>1. m \in Message
      BY <1>5, <1>a, MessageTypes DEF PublishCompletion, RunReturns, Worker
    <2>2. m.kind # "result"
      BY DEF CompletionMessage
    <2>3. QED
      BY <1>5, <2>1, <2>2 DEF PublishCompletion
  <1>6. QED
    BY <1>1, <1>2, <1>3, <1>4, <1>5 DEF WorkerStep, WorkerFault

\* Where a result message may be.
Somewhere(d, f) == \/ resultRows[d][f] > 0
                   \/ InResultsQueue(ResultMessage(d, f))
                   \/ AtConsumer(ResultMessage(d, f))

LEMMA ApiKeeps == TypeInv /\ QueuedInv /\ KeptInv /\ ApiNext => KeptInv'
  <1> SUFFICES ASSUME TypeInv, QueuedInv, KeptInv, NEW c \in Dispatches,
                      \/ StoreDispatch(c) \/ StoreAcknowledgment(c)
                      \/ PublishBatch(c)  \/ TrackPending(c)
                      \/ DeleteResults(c) \/ DeleteProbes(c) \/ DeleteRow(c)
               PROVE  KeptInv'
    BY DEF ApiNext
  <1>a. /\ row \in [Dispatches -> DispatchRow]
        /\ resultRows \in [Dispatches -> [Findings -> Nat]]
        /\ deletion \in [Dispatches -> {"idle", "results", "probes", "done"}]
        /\ sent \in [Dispatches -> SUBSET Findings]
    BY DEF TypeInv, TypeOK
  <1>b. UNCHANGED <<resultsQueue, consumer, sent>>
    BY DEF StoreDispatch, StoreAcknowledgment, PublishBatch, TrackPending,
       DeleteResults, DeleteProbes, DeleteRow, history
  <1>c. ASSUME NEW d \in Dispatches, Kept(d)'
        PROVE  \/ Kept(d) /\ resultRows'[d] = resultRows[d]
               \/ ~Queued(d) /\ sent[d] = {}
    <2>1. CASE \/ StoreAcknowledgment(c) \/ PublishBatch(c)
               \/ TrackPending(c) \/ DeleteProbes(c)
      BY <2>1, <1>c, <1>a DEF StoreAcknowledgment, PublishBatch, TrackPending,
           DeleteProbes, Kept, resultVars
    <2>2. CASE StoreDispatch(c)
      <3>1. CASE d = c
        BY <2>2, <3>1, <1>a DEF StoreDispatch, Queued, QueuedInv
      <3>2. CASE d # c
        BY <2>2, <3>2, <1>a, <1>c DEF StoreDispatch, Kept, resultVars
      <3>3. QED
        BY <3>1, <3>2
    <2>3. CASE DeleteResults(c)
      BY <2>3, <1>a, <1>c DEF DeleteResults, Kept
    <2>4. CASE DeleteRow(c)
      BY <2>4, <1>a, <1>c DEF DeleteRow, Kept
    <2>5. QED
      BY <2>1, <2>2, <2>3, <2>4
  <1>1. NoResultLost'
    <2> SUFFICES ASSUME NEW d \in Dispatches, Kept(d)', NEW f \in sent'[d]
                 PROVE  Somewhere(d, f)'
      BY DEF NoResultLost, Kept, Somewhere
    <2>1. f \in sent[d] /\ Kept(d) /\ resultRows'[d] = resultRows[d]
      BY <1>b, <1>c
    <2>2. Somewhere(d, f)
      BY <2>1 DEF KeptInv, NoResultLost, Kept, Somewhere
    <2>3. QED
      BY <1>b, <2>1, <2>2 DEF Somewhere, InResultsQueue, AtConsumer
  <1>2. StageKind'
    BY <1>b DEF KeptInv, StageKind
  <1>3. HandedBack'
    <2> SUFFICES ASSUME consumer'.stage = "ack", NEW d \in Dispatches,
                        NEW f \in Findings, consumer'.msg = ResultMessage(d, f),
                        Kept(d)'
                 PROVE  (resultRows[d][f] > 0 \/ InResultsQueue(ResultMessage(d, f)))'
      BY DEF HandedBack
    <2>1. consumer.stage = "ack" /\ consumer.msg = ResultMessage(d, f)
      BY <1>b
    <2>2. Queued(d)
      BY <2>1 DEF QueuedInv, ResultMessage
    <2>3. Kept(d) /\ resultRows'[d] = resultRows[d]
      BY <1>c, <2>2
    <2>4. resultRows[d][f] > 0 \/ InResultsQueue(ResultMessage(d, f))
      BY <2>1, <2>3 DEF KeptInv, HandedBack
    <2>5. QED
      BY <1>b, <2>3, <2>4 DEF InResultsQueue
  <1>4. QED
    BY <1>1, <1>2, <1>3 DEF KeptInv

LEMMA WorkerKeeps == TypeInv /\ KeptInv /\ WorkerNext => KeptInv'
  <1> SUFFICES ASSUME TypeInv, KeptInv, WorkerNext
               PROVE  KeptInv'
    OBVIOUS
  <1>a. resultsQueue \in Seq(Message) /\ sent \in [Dispatches -> SUBSET Findings]
    BY DEF TypeInv, TypeOK
  <1>b. UNCHANGED <<row, deletion, resultRows, consumer>>
    BY WorkerLeaves DEF others, apiVars, resultVars
  <1>c. StageKind'
    BY <1>b DEF KeptInv, StageKind
  <1>1. CASE UNCHANGED <<resultsQueue, sent>>
    BY <1>1, <1>b, <1>c DEF KeptInv, NoResultLost, HandedBack, Kept,
         InResultsQueue, AtConsumer
  <1>2. ASSUME NEW n \in Message, Publish(n),
               n.kind = "result" => n = ResultMessage(n.dispatch, n.finding)
        PROVE  KeptInv'
    <2>1. resultsQueue' = Append(resultsQueue, n)
      BY <1>2 DEF Publish
    <2>2. \A m : InResultsQueue(m) \/ m = n => InResultsQueue(m)'
      BY <1>a, <1>2, <2>1, AppendKeeps
    <2>3. NoResultLost'
      <3> SUFFICES ASSUME NEW d \in Dispatches, Kept(d)', NEW f \in sent'[d]
                   PROVE  Somewhere(d, f)'
        BY DEF NoResultLost, Kept, Somewhere
      <3>1. f \in sent[d] \/ n = ResultMessage(d, f)
        BY <1>2, <1>a DEF Publish
      <3>2. CASE f \in sent[d]
        <4>1. Somewhere(d, f)
          BY <3>2, <1>b DEF KeptInv, NoResultLost, Kept, Somewhere
        <4>2. QED
          BY <4>1, <2>2, <1>b DEF Somewhere, AtConsumer
      <3>3. CASE n = ResultMessage(d, f)
        BY <3>3, <2>2 DEF Somewhere
      <3>4. QED
        BY <3>1, <3>2, <3>3
    <2>4. HandedBack'
      <3> SUFFICES ASSUME consumer'.stage = "ack", NEW d \in Dispatches,
                          NEW f \in Findings, consumer'.msg = ResultMessage(d, f),
                          Kept(d)'
                   PROVE  (resultRows[d][f] > 0 \/ InResultsQueue(ResultMessage(d, f)))'
        BY DEF HandedBack
      <3>1. resultRows[d][f] > 0 \/ InResultsQueue(ResultMessage(d, f))
        BY <1>b DEF KeptInv, HandedBack, Kept
      <3>2. QED
        BY <3>1, <2>2, <1>b
    <2>5. QED
      BY <1>c, <2>3, <2>4 DEF KeptInv
  <1>3. QED
    BY <1>1, <1>2, WorkerPublishes DEF WorkerNext

\* No step of the consumer adds, removes or starts to delete a dispatch.
LEMMA ConsumerKept ==
  ASSUME TypeInv, ConsumerStep \/ ConsumerFault
  PROVE  /\ \A d \in Dispatches : Kept(d)' <=> Kept(d)
         /\ sent' = sent
  <1>a. row \in [Dispatches -> DispatchRow]
    BY DEF TypeInv, TypeOK
  <1>b. deletion' = deletion /\ sent' = sent
    BY ConsumerLeaves DEF untouched, apiVars
  <1>1. CASE UpdateDispatch
    <2> DEFINE c == consumer.msg.dispatch
    <2>1. \/ row' = row
          \/ row' = [row EXCEPT ![c] = CompletedRow(row[c], consumer.msg)]
      BY <1>1 DEF UpdateDispatch, msg
    <2>2. c \in Dispatches => CompletedRow(row[c], consumer.msg).exists = row[c].exists
      BY <1>a DEF CompletedRow, DispatchRow
    <2>3. QED
      BY <1>a, <1>b, <2>1, <2>2 DEF Kept
  <1>2. CASE row' = row
    BY <1>2, <1>b DEF Kept
  <1>3. QED
    BY <1>1, <1>2 DEF ConsumerStep, ConsumerFault, TakeMessage, LookUpDispatch,
       CheckExisting, InsertResult, InsertProbe, LoadNotification,
       SaveNotification, ReleaseMessage, AckMessage, DatabaseFails, ConsumerCrash

LEMMA ConsumerKeeps == TypeInv /\ KeptInv /\ (ConsumerStep \/ ConsumerFault) => KeptInv'
  <1> SUFFICES ASSUME TypeInv, KeptInv, ConsumerStep \/ ConsumerFault
               PROVE  KeptInv'
    OBVIOUS
  <1>a. /\ resultsQueue \in Seq(Message)
        /\ resultRows \in [Dispatches -> [Findings -> Nat]]
        /\ sent \in [Dispatches -> SUBSET Findings]
        /\ consumer \in Consumer
        /\ consumer.stage # "idle" => consumer.msg \in Message
    BY DEF TypeInv, TypeOK
  <1>b. /\ \A d \in Dispatches : Kept(d)' <=> Kept(d)
        /\ sent' = sent
    BY ConsumerKept
  <1>c. SUFFICES /\ \A d \in Dispatches, f \in Findings :
                      Kept(d) /\ Somewhere(d, f) => Somewhere(d, f)'
                 /\ StageKind'
                 /\ HandedBack'
    <2>1. \A d \in Dispatches, f \in Findings :
            Kept(d) /\ f \in sent[d] => Somewhere(d, f)
      BY DEF KeptInv, NoResultLost, Kept, Somewhere
    <2>2. NoResultLost'
      <3> SUFFICES ASSUME NEW d \in Dispatches, Kept(d)', NEW f \in sent'[d]
                   PROVE  Somewhere(d, f)'
        BY DEF NoResultLost, Kept, Somewhere
      <3>1. f \in Findings /\ Kept(d) /\ f \in sent[d]
        BY <1>a, <1>b
      <3>2. QED
        BY <1>c, <2>1, <3>1
    <2>3. QED
      BY <1>c, <2>2 DEF KeptInv
  <1> USE DEF msg
  <1>1. CASE TakeMessage
    <2>1. /\ resultsQueue # <<>> /\ resultsQueue' = Tail(resultsQueue)
          /\ resultRows' = resultRows /\ consumer.stage = "idle"
          /\ consumer'.stage = "lookup" /\ consumer'.msg = Head(resultsQueue)
      BY <1>1, TakenFields DEF TakeMessage, resultVars
    <2>2. ASSUME NEW d \in Dispatches, NEW f \in Findings, Somewhere(d, f)
          PROVE  Somewhere(d, f)'
      <3>1. resultRows[d][f] > 0 \/ InResultsQueue(ResultMessage(d, f))
        BY <2>1, <2>2 DEF Somewhere, AtConsumer
      <3>2. CASE resultRows[d][f] > 0
        BY <2>1, <3>2 DEF Somewhere
      <3>3. CASE InResultsQueue(ResultMessage(d, f))
        <4>1. \/ InResultsQueue(ResultMessage(d, f))'
              \/ ResultMessage(d, f) = Head(resultsQueue)
          BY <1>a, <2>1, <3>3, TakeKeeps
        <4>2. QED
          BY <2>1, <4>1 DEF Somewhere, AtConsumer, ResultMessage
      <3>4. QED
        BY <3>1, <3>2, <3>3
    <2>3. StageKind' /\ HandedBack'
      BY <2>1 DEF StageKind, HandedBack
    <2>4. QED
      BY <2>2, <2>3
  <1>2. ASSUME resultsQueue' = resultsQueue, consumer.stage # "idle",
               consumer'.stage # "idle", consumer'.msg = consumer.msg,
               \A d \in Dispatches, f \in Findings :
                 resultRows[d][f] > 0 => resultRows'[d][f] > 0
        PROVE  \A d \in Dispatches, f \in Findings : Somewhere(d, f) => Somewhere(d, f)'
    BY <1>2 DEF Somewhere, InResultsQueue, AtConsumer
  <1>3. CASE LookUpDispatch
    <2>1. /\ UNCHANGED <<resultsQueue, resultRows>> /\ consumer.stage # "idle"
          /\ consumer'.msg = consumer.msg
          /\ \/ consumer'.stage = "raised"
             \/ consumer'.stage = FirstStage(consumer.msg.kind)
      BY <1>3, <1>a, GoToFields DEF LookUpDispatch, resultVars
    <2>2. \/ consumer'.stage \in {"raised", "insert"}
          \/ consumer'.stage = "check" /\ consumer'.msg.kind = "result"
          \/ consumer'.stage = "update" /\ consumer'.msg.kind = "completion"
      BY <2>1, <1>a DEF FirstStage, Message
    <2>3. StageKind' /\ HandedBack'
      BY <2>2 DEF StageKind, HandedBack
    <2>4. QED
      BY <1>2, <2>1, <2>2, <2>3
  <1>4. CASE CheckExisting
    <2>1. /\ UNCHANGED <<resultsQueue, resultRows>> /\ consumer.stage # "idle"
          /\ consumer'.msg = consumer.msg
          /\ \/ /\ consumer'.stage = "ack"
                /\ resultRows[consumer.msg.dispatch][consumer.msg.finding] > 0
             \/ consumer'.stage = "insert"
      BY <1>4, <1>a, GoToFields DEF CheckExisting, resultVars
    <2>2. StageKind' /\ HandedBack'
      BY <2>1 DEF StageKind, HandedBack, ResultMessage
    <2>3. QED
      BY <1>2, <2>1, <2>2
  <1>5. CASE InsertResult
    <2> DEFINE c == consumer.msg.dispatch
               g == consumer.msg.finding
    <2>1. /\ resultsQueue' = resultsQueue /\ consumer.stage # "idle"
          /\ consumer'.msg = consumer.msg
          /\ \/ /\ consumer'.stage = "ack"
                /\ resultRows' = [resultRows EXCEPT ![c][g] = resultRows[c][g] + 1]
             \/ consumer'.stage = "raised" /\ resultRows' = resultRows
      BY <1>5, <1>a, GoToFields DEF InsertResult
    <2>2. c \in Dispatches /\ g \in Findings
      BY <1>5, <1>a DEF InsertResult, Message
    <2>3. resultRows[c][g] \in Nat
      BY <2>2, <1>a
    <2>4. /\ \A d \in Dispatches, f \in Findings :
               resultRows[d][f] > 0 => resultRows'[d][f] > 0
          /\ consumer'.stage = "ack" => resultRows'[c][g] > 0
      <3>1. CASE resultRows' = [resultRows EXCEPT ![c][g] = resultRows[c][g] + 1]
        <4>1. \A d \in Dispatches, f \in Findings :
                resultRows'[d][f] = IF d = c /\ f = g THEN resultRows[c][g] + 1
                                    ELSE resultRows[d][f]
          BY <3>1, <2>2, <1>a
        <4>2. resultRows[c][g] + 1 > 0
          BY <2>3
        <4>3. QED
          BY <4>1, <4>2, <2>2
      <3>2. CASE consumer'.stage = "raised" /\ resultRows' = resultRows
        BY <3>2
      <3>3. QED
        BY <2>1, <3>1, <3>2
    <2>5. StageKind' /\ HandedBack'
      BY <2>1, <2>4 DEF StageKind, HandedBack, ResultMessage
    <2>6. QED
      BY <1>2, <2>1, <2>4, <2>5
  <1>6. CASE InsertProbe
    <2>1. /\ UNCHANGED <<resultsQueue, resultRows>> /\ consumer.stage # "idle"
          /\ consumer'.msg = consumer.msg /\ consumer.msg.kind = "probe"
          /\ consumer'.stage \in {"ack", "raised"}
      BY <1>6, <1>a, GoToFields DEF InsertProbe
    <2>2. StageKind' /\ HandedBack'
      BY <2>1 DEF StageKind, HandedBack, ResultMessage
    <2>3. QED
      BY <1>2, <2>1, <2>2
  <1>7. CASE UpdateDispatch \/ LoadNotification \/ SaveNotification
    <2>1. /\ UNCHANGED <<resultsQueue, resultRows>>
          /\ consumer.stage \in {"update", "notify", "save"}
      BY <1>7 DEF UpdateDispatch, LoadNotification, SaveNotification, resultVars
    <2>2. consumer.msg.kind = "completion"
      BY <2>1 DEF KeptInv, StageKind
    <2>3. /\ consumer'.msg = consumer.msg
          /\ consumer'.stage \in {"notify", "save", "ack", "raised"}
      <3>1. CASE LoadNotification
        BY <3>1, <1>a DEF LoadNotification, GoTo, Consumer
      <3>2. CASE UpdateDispatch \/ SaveNotification
        BY <3>2, <1>a, GoToFields DEF UpdateDispatch, SaveNotification
      <3>3. QED
        BY <1>7, <3>1, <3>2
    <2>4. StageKind' /\ HandedBack'
      BY <2>2, <2>3 DEF StageKind, HandedBack, ResultMessage
    <2>5. QED
      BY <1>2, <2>1, <2>3, <2>4
  <1>8. CASE DatabaseFails
    <2>1. /\ UNCHANGED <<resultsQueue, resultRows>> /\ consumer.stage # "idle"
          /\ consumer'.msg = consumer.msg /\ consumer'.stage = "raised"
      BY <1>8, <1>a, GoToFields DEF DatabaseFails, resultVars
    <2>2. StageKind' /\ HandedBack'
      BY <2>1 DEF StageKind, HandedBack
    <2>3. QED
      BY <1>2, <2>1, <2>2
  <1>9. CASE ReleaseMessage
    <2>1. /\ resultRows' = resultRows /\ consumer.stage # "idle"
          /\ consumer.msg \in Message
          /\ resultsQueue' = Append(resultsQueue, consumer.msg)
          /\ consumer'.msg = consumer.msg /\ consumer'.stage = "ack"
      BY <1>9, <1>a, GoToFields DEF ReleaseMessage, resultVars
    <2>2. \A m : InResultsQueue(m) \/ m = consumer.msg => InResultsQueue(m)'
      BY <2>1, <1>a, AppendKeeps
    <2>3. \A d \in Dispatches, f \in Findings : Somewhere(d, f) => Somewhere(d, f)'
      BY <2>1, <2>2 DEF Somewhere, AtConsumer
    <2>4. StageKind' /\ HandedBack'
      BY <2>1, <2>2 DEF StageKind, HandedBack
    <2>5. QED
      BY <2>3, <2>4
  <1>10. CASE AckMessage
    <2>1. /\ UNCHANGED <<resultsQueue, resultRows>> /\ consumer.stage = "ack"
          /\ consumer'.stage = "idle"
      BY <1>10 DEF AckMessage, IdleConsumer, resultVars
    <2>2. \A d \in Dispatches, f \in Findings :
            Kept(d) /\ Somewhere(d, f) => Somewhere(d, f)'
      BY <2>1 DEF KeptInv, HandedBack, Somewhere, InResultsQueue, AtConsumer
    <2>3. QED
      BY <2>1, <2>2 DEF StageKind, HandedBack
  <1>11. CASE ConsumerCrash
    <2>1. /\ resultRows' = resultRows /\ consumer.msg \in Message
          /\ resultsQueue' = <<consumer.msg>> \o resultsQueue
          /\ consumer'.stage = "idle"
      BY <1>11, <1>a DEF ConsumerCrash, IdleConsumer, resultVars
    <2>2. \A m : InResultsQueue(m) \/ m = consumer.msg => InResultsQueue(m)'
      BY <2>1, <1>a, RequeueKeeps
    <2>3. QED
      BY <2>1, <2>2 DEF Somewhere, AtConsumer, StageKind, HandedBack
  <1>12. QED
    BY <1>1, <1>3, <1>4, <1>5, <1>6, <1>7, <1>8, <1>9, <1>10, <1>11
       DEF ConsumerStep, ConsumerFault

\* The reconciliation of the inbox and the user in it touch no result.
LEMMA InboxKeeps == KeptInv /\ InboxNext => KeptInv'
  BY InboxLeaves DEF notOurs, apiVars, resultVars, history, KeptInv,
     NoResultLost, StageKind, HandedBack, Kept, InResultsQueue, AtConsumer

LEMMA ResultsKept == Spec => []KeptInv
  <1>1. TypeInv /\ QueuedInv /\ KeptInv /\ [Next]_vars => KeptInv'
    <2> SUFFICES ASSUME TypeInv, QueuedInv, KeptInv, [Next]_vars
                 PROVE  KeptInv'
      OBVIOUS
    <2>1. CASE UNCHANGED vars
      BY <2>1 DEF vars, KeptInv, NoResultLost, StageKind, HandedBack, Kept,
         InResultsQueue, AtConsumer
    <2>2. QED
      BY <2>1, ApiKeeps, WorkerKeeps, ConsumerKeeps, InboxKeeps DEF Next
  <1>2. QED
    BY <1>1, KeptInit, StrongTyping, UnderWayQueued, PTL DEF Spec

\* A result the broker accepted is stored, queued or being handled as long as
\* its dispatch is there, through every crash, failed statement and release.
THEOREM NothingLost == Spec => []NoResultLost
  <1>1. KeptInv => NoResultLost
    BY DEF KeptInv
  <1>2. QED
    BY <1>1, ResultsKept, PTL

-----------------------------------------------------------------------------
(* A completed scan is stored: the argument on the order of the queue.     *)

\* No two reports of a run are about one pair: no two tokens leak under one
\* pair, and a SECRET_LEAK pair is no job's.  Otherwise a run counts two
\* findings where the table keeps one row.
OwnPairs ==
  /\ IsFiniteSet(Findings)
  /\ \A t, u \in Tokens : TokenFinding[t] = TokenFinding[u] => t = u
  /\ \A t \in Tokens, j \in 1 .. NumJobs : TokenFinding[t] # JobFinding[j]

\* What a run has reported so far.
Leaked(w) == {TokenFinding[t] : t \in worker[w].tokens}
Ran(w) == Leaked(w) \cup worker[w].seen

\* A run counts no more than it reported, and the broker has all of it.
RunInv ==
  \A w \in Workers : worker[w].stage # "idle" =>
    /\ Ran(w) \subseteq sent[worker[w].dispatch]
    /\ \A f \in worker[w].seen : \E j \in 1 .. NumJobs : JobFinding[j] = f
    /\ worker[w].findings <= Cardinality(Ran(w))
    /\ worker[w].stage \in {"received", "secrets"} =>
         worker[w].seen = {} /\ worker[w].leaks <= Cardinality(Ran(w))

\* The results of d that are stored or will be before position i is reached.
QueuedBefore(m, i) == \E j \in 1 .. i - 1 : resultsQueue[j] = m

Arrived(d, i) ==
  {f \in Findings : \/ resultRows[d][f] > 0
                    \/ AtConsumer(ResultMessage(d, f))
                    \/ QueuedBefore(ResultMessage(d, f), i)}

\* The same for probes, which have no identity and are counted.
ProbePositions(q, d, i) == {j \in 1 .. i - 1 : q[j] = ProbeMessage(d)}
InHand(d) ==
  IF consumer.stage \notin {"idle", "ack"} /\ consumer.msg = ProbeMessage(d)
  THEN 1 ELSE 0
ProbesBy(d, i) ==
  probeRows[d] + InHand(d) + Cardinality(ProbePositions(resultsQueue, d, i))

\* A completion in the queue counts what arrives before it ...
CompletionCovered(i) ==
  \A m \in Message :
    resultsQueue[i] = m /\ m.kind = "completion" /\ Kept(m.dispatch) =>
      /\ m.findings <= Cardinality(Arrived(m.dispatch, i))
      /\ m.probes <= ProbesBy(m.dispatch, i)

\* ... and one in hand what is stored; a result is acknowledged when it is.
HandCovered ==
  \A m \in Message : AtConsumer(m) /\ Kept(m.dispatch) =>
    /\ m.kind = "completion" =>
         /\ m.findings <= Cardinality(StoredFindings(m.dispatch))
         /\ m.probes <= probeRows[m.dispatch]
    /\ m.kind = "result" /\ consumer.stage = "ack" =>
         resultRows[m.dispatch][m.finding] > 0

\* A run counts the probes it has published.
RunCovered(w) ==
  \A d \in Dispatches, i \in Nat :
    /\ worker[w].stage # "idle" /\ worker[w].dispatch = d
    /\ Kept(d) /\ i = Len(resultsQueue) + 1
    => worker[w].probes <= ProbesBy(d, i)

RowCovered(d) ==
  Kept(d) /\ row[d].completedAt =>
    /\ row[d].findings <= Cardinality(StoredFindings(d))
    /\ row[d].probes <= probeRows[d]

OrderInv ==
  ~released =>
    /\ \A i \in 1 .. Len(resultsQueue) : CompletionCovered(i)
    /\ HandCovered
    /\ \A w \in Workers : RunCovered(w)
    /\ \A d \in Dispatches : RowCovered(d)

-----------------------------------------------------------------------------
(* The runs.                                                               *)

LEMMA RunInit == Init => RunInv
  BY DEF Init, RunInv, IdleWorker

\* The history of a dispatch only grows.
LEMMA SentGrows ==
  ASSUME TypeInv, [Next]_vars
  PROVE  \A d \in Dispatches : sent[d] \subseteq sent'[d]
  <1>a. sent \in [Dispatches -> SUBSET Findings]
    BY DEF TypeInv, TypeOK
  <1>1. CASE WorkerNext
    <2>1. \/ sent' = sent
          \/ \E m \in Message : Publish(m)
      BY <1>1, WorkerPublishes DEF WorkerNext
    <2>2. QED
      BY <1>a, <2>1 DEF Publish
  <1>2. CASE ApiNext
    BY <1>2 DEF ApiNext, StoreDispatch, StoreAcknowledgment, PublishBatch,
       TrackPending, DeleteResults, DeleteProbes, DeleteRow, history
  <1>3. CASE ConsumerStep \/ ConsumerFault
    BY <1>3, ConsumerLeaves DEF untouched
  <1>4. CASE InboxNext
    BY <1>4, InboxLeaves DEF notOurs, history
  <1>5. CASE UNCHANGED vars
    BY <1>5 DEF vars
  <1>6. QED
    BY <1>1, <1>2, <1>3, <1>4, <1>5 DEF Next

\* Sets of pairs are finite, and a larger one has no fewer.
LEMMA PairCounts ==
  ASSUME OwnPairs, NEW S \in SUBSET Findings, NEW T \in SUBSET Findings
  PROVE  /\ Cardinality(S) \in Nat
         /\ S \subseteq T => Cardinality(S) <= Cardinality(T)
         /\ \A f \in Findings \ S : Cardinality(S \cup {f}) = Cardinality(S) + 1
  <1>1. IsFiniteSet(S) /\ IsFiniteSet(T)
    BY FS_Subset DEF OwnPairs
  <1>2. Cardinality(S) \in Nat
    BY <1>1, FS_CardinalityType
  <1>3. S \subseteq T => Cardinality(S) <= Cardinality(T)
    BY <1>1, FS_Subset
  <1>4. \A f \in Findings \ S : Cardinality(S \cup {f}) = Cardinality(S) + 1
    BY <1>1, FS_AddElement
  <1>5. QED
    BY <1>2, <1>3, <1>4

LEMMA RunStep ==
  ASSUME OwnPairs, TypeInv, RunInv, [Next]_vars
  PROVE  RunInv'
  <1>a. /\ worker \in [Workers -> Worker]
        /\ \A w \in Workers : worker[w].stage # "idle" =>
             worker[w].dispatch \in Dispatches /\ worker[w].job >= 1
        /\ sent \in [Dispatches -> SUBSET Findings]
        /\ batchQueue \in Seq(Dispatches)
        /\ \A d \in Dispatches : sent[d] \subseteq sent'[d]
    BY SentGrows DEF TypeInv, TypeOK
  <1> DEFINE Counted(w) ==
        worker[w].stage # "idle" =>
          /\ Ran(w) \subseteq sent[worker[w].dispatch]
          /\ \A f \in worker[w].seen : \E j \in 1 .. NumJobs : JobFinding[j] = f
          /\ worker[w].findings <= Cardinality(Ran(w))
          /\ worker[w].stage \in {"received", "secrets"} =>
               worker[w].seen = {} /\ worker[w].leaks <= Cardinality(Ran(w))
  <1>b. \A w \in Workers : Counted(w)
    BY DEF RunInv
  <1>c. ASSUME NEW w \in Workers, worker'[w] = worker[w]
        PROVE  Counted(w)'
    BY <1>a, <1>b, <1>c DEF Ran, Leaked
  <1>1. CASE worker' = worker
    BY <1>1, <1>c DEF RunInv
  <1>2. ASSUME NEW w \in Workers, WorkerStep(w) \/ WorkerFault(w), Counted(w)'
        PROVE  RunInv'
    BY <1>2, <1>a, <1>c, OtherWorkers DEF RunInv
  <1>3. ASSUME NEW w \in Workers, WorkerStep(w) \/ WorkerFault(w)
        PROVE  Counted(w)'
    <2> DEFINE d == worker[w].dispatch
    <2>a. worker[w] \in Worker /\ (worker[w].stage # "idle" => d \in Dispatches)
      BY <1>a
    <2> USE DEF Becomes
    \* the run goes on and has reported what it had
    <2>b. ASSUME worker[w].stage # "idle", worker'[w].dispatch = d,
                 worker'[w].tokens = worker[w].tokens, worker'[w].seen = worker[w].seen,
                 worker'[w].leaks = worker[w].leaks,
                 \/ worker'[w].findings = worker[w].findings
                 \/ worker'[w].findings = worker[w].leaks /\ worker[w].stage = "secrets",
                 worker'[w].stage \in {"received", "secrets"} =>
                   worker[w].stage \in {"received", "secrets"}
          PROVE  Counted(w)'
      <3>1. Ran(w)' = Ran(w)
        BY <2>b DEF Ran, Leaked
      <3>2. QED
        BY <1>a, <1>b, <2>a, <2>b, <3>1
    \* it reports a pair it had not
    <2>c. ASSUME NEW f \in Findings, f \notin Ran(w), worker[w].stage # "idle",
                 worker'[w].dispatch = d, Ran(w)' = Ran(w) \cup {f},
                 Publish(ResultMessage(d, f))
          PROVE  /\ Ran(w)' \subseteq sent'[d]
                 /\ Cardinality(Ran(w)') = Cardinality(Ran(w)) + 1
                 /\ Cardinality(Ran(w)) \in Nat
      <3>1. Ran(w) \subseteq sent[d] /\ sent[d] \subseteq Findings /\ d \in Dispatches
        BY <1>a, <1>b, <2>a, <2>c
      <3>2. sent' = [sent EXCEPT ![d] = sent[d] \cup {f}]
        BY <2>c DEF Publish, ResultMessage
      <3>3. QED
        BY <1>a, <2>c, <3>1, <3>2, PairCounts
    <2>1. CASE ReceiveBatch(w)
      <3>1. worker'[w] = [stage |-> "received", dispatch |-> Head(batchQueue),
                       tokens |-> {}, leaks |-> 0, seen |-> {}, job |-> 1,
                       findings |-> 0, probes |-> 0]
        BY <2>1, <1>a DEF ReceiveBatch, IdleWorker
      <3>2. Ran(w)' = {}
        BY <3>1 DEF Ran, Leaked
      <3>3. QED
        BY <3>1, <3>2, FS_EmptySet
    <2>2. CASE RejectBatch(w) \/ AckBatch(w) \/ WorkerCrash(w)
      BY <2>2, <1>a DEF RejectBatch, AckBatch, WorkerCrash, IdleWorker
    <2>3. CASE DiscoveryFails(w) \/ DiscoverySucceeds(w) \/ PublishFails(w) \/ LoseCompletion(w)
      BY <2>3, <1>a, <2>a, <2>b DEF DiscoveryFails, DiscoverySucceeds, PublishFails,
         LoseCompletion, Publishing, RunReturns, Worker
    <2>4. CASE FinishSecrets(w)
      BY <2>4, <1>a, <2>a, <2>b DEF FinishSecrets, Worker
    <2>5. CASE PublishProbe(w)
      BY <2>5, <1>a, <2>a, <2>b DEF PublishProbe, Worker
    <2>6. CASE PublishCompletion(w)
      BY <2>6, <1>a, <2>a, <2>b DEF PublishCompletion, RunReturns, Worker
    <2>7. ASSUME NEW t \in Tokens, PublishLeak(w, t)
          PROVE  Counted(w)'
      <3> DEFINE f == TokenFinding[t]
      <3>1. /\ worker[w].stage = "secrets" /\ worker'[w].stage = "secrets"
            /\ worker'[w].dispatch = d /\ t \notin worker[w].tokens
            /\ worker'[w].tokens = worker[w].tokens \cup {t}
            /\ worker'[w].leaks = worker[w].leaks + 1
            /\ worker'[w].seen = worker[w].seen /\ worker[w].seen = {}
            /\ worker'[w].findings = worker[w].findings
            /\ worker[w].tokens \subseteq Tokens
            /\ worker[w].leaks \in Nat /\ worker[w].findings \in Nat
        BY <2>7, <1>a, <1>b, <2>a DEF PublishLeak, Worker
      <3>2. f \in Findings /\ f \notin Ran(w) /\ Ran(w)' = Ran(w) \cup {f}
        BY <3>1, ScanAssumption DEF OwnPairs, Ran, Leaked
      <3>3. /\ Ran(w)' \subseteq sent'[d]
            /\ Cardinality(Ran(w)') = Cardinality(Ran(w)) + 1
            /\ Cardinality(Ran(w)) \in Nat
        BY <2>7, <2>c, <3>1, <3>2 DEF PublishLeak
      <3>4. /\ worker[w].findings <= Cardinality(Ran(w))
            /\ worker[w].leaks <= Cardinality(Ran(w))
        BY <1>b, <3>1
      <3>5. QED
        BY <3>1, <3>3, <3>4
    <2>8. CASE PublishFinding(w)
      <3> DEFINE f == JobFinding[worker[w].job]
      <3>1. /\ worker[w].stage = "job" /\ worker'[w].stage = "jobProbe"
            /\ worker'[w].dispatch = d /\ f \notin worker[w].seen
            /\ worker'[w].tokens = worker[w].tokens
            /\ worker'[w].seen = worker[w].seen \cup {f}
            /\ worker'[w].findings = worker[w].findings + 1
            /\ worker[w].tokens \subseteq Tokens /\ worker[w].findings \in Nat
            /\ worker[w].job \in 1 .. NumJobs
        BY <2>8, <1>a, <2>a, ScanAssumption DEF PublishFinding, Worker, JobsLeft
      <3>2. f \in Findings /\ f \notin Ran(w) /\ Ran(w)' = Ran(w) \cup {f}
        BY <3>1, ScanAssumption DEF OwnPairs, Ran, Leaked
      <3>3. /\ Ran(w)' \subseteq sent'[d]
            /\ Cardinality(Ran(w)') = Cardinality(Ran(w)) + 1
            /\ Cardinality(Ran(w)) \in Nat
        BY <2>8, <2>c, <3>1, <3>2 DEF PublishFinding
      <3>4. /\ worker[w].findings <= Cardinality(Ran(w))
            /\ \A g \in worker[w].seen : \E j \in 1 .. NumJobs : JobFinding[j] = g
        BY <1>b, <3>1
      <3>5. QED
        BY <3>1, <3>3, <3>4
    <2>9. QED
      BY <1>3, <2>1, <2>2, <2>3, <2>4, <2>5, <2>6, <2>7, <2>8 DEF WorkerStep, WorkerFault
  <1>4. CASE WorkerNext
    BY <1>2, <1>3, <1>4 DEF WorkerNext
  <1>5. CASE ApiNext
    BY <1>1, <1>5 DEF ApiNext, StoreDispatch, StoreAcknowledgment, PublishBatch,
       TrackPending, DeleteResults, DeleteProbes, DeleteRow
  <1>6. CASE ConsumerStep \/ ConsumerFault
    BY <1>1, <1>6, ConsumerLeaves DEF untouched
  <1>7. CASE InboxNext
    BY <1>1, <1>7, InboxLeaves DEF notOurs
  <1>8. CASE UNCHANGED vars
    BY <1>1, <1>8 DEF vars
  <1>9. QED
    BY <1>4, <1>5, <1>6, <1>7, <1>8 DEF Next

-----------------------------------------------------------------------------
(* Positions in the queue.                                                 *)

LEMMA ProbeCount ==
  ASSUME NEW q, NEW d, NEW i \in Nat
  PROVE  /\ IsFiniteSet(ProbePositions(q, d, i))
         /\ Cardinality(ProbePositions(q, d, i)) \in Nat
  <1>1. IsFiniteSet(1 .. i - 1)
    BY FS_Interval
  <1>2. IsFiniteSet(ProbePositions(q, d, i))
    BY <1>1, FS_Subset DEF ProbePositions
  <1>3. QED
    BY <1>2, FS_CardinalityType

\* With one more element in front there is a probe more, if it is one.
LEMMA ShiftedProbes ==
  ASSUME NEW q, NEW r, NEW n \in Nat, NEW d, NEW i \in 1 .. n + 1,
         \A j \in 1 .. n : r[j + 1] = q[j]
  PROVE  Cardinality(ProbePositions(r, d, i + 1)) =
           Cardinality(ProbePositions(q, d, i)) +
             (IF r[1] = ProbeMessage(d) THEN 1 ELSE 0)
  <1> DEFINE S == ProbePositions(q, d, i)
             T == ProbePositions(r, d, i + 1) \ {1}
             f == [j \in S |-> j + 1]
  <1>1. IsFiniteSet(S) /\ IsFiniteSet(T) /\ IsFiniteSet(ProbePositions(r, d, i + 1))
    <2>1. i \in Nat /\ i + 1 \in Nat
      OBVIOUS
    <2>2. IsFiniteSet(S) /\ IsFiniteSet(ProbePositions(r, d, i + 1))
      BY <2>1, ProbeCount
    <2>3. QED
      BY <2>2, FS_Difference
  <1>2. \A j \in S : j + 1 \in T
    BY DEF ProbePositions
  <1>3. \A k \in T : k - 1 \in S /\ (k - 1) + 1 = k
    <2> SUFFICES ASSUME NEW k \in T
                 PROVE  k - 1 \in S /\ (k - 1) + 1 = k
      OBVIOUS
    <2>1. k \in 2 .. i /\ r[k] = ProbeMessage(d)
      BY DEF ProbePositions
    <2>2. k - 1 \in 1 .. i - 1 /\ k - 1 \in 1 .. n /\ (k - 1) + 1 = k
      BY <2>1
    <2>3. r[k] = q[k - 1]
      BY <2>2
    <2>4. QED
      BY <2>1, <2>2, <2>3 DEF ProbePositions
  <1>4. f \in Bijection(S, T)
    <2>1. f \in [S -> T]
      BY <1>2
    <2>2. \A j, k \in S : f[j] = f[k] => j = k
      BY DEF ProbePositions
    <2>3. \A k \in T : \E j \in S : f[j] = k
      BY <1>3
    <2>4. QED
      BY <2>1, <2>2, <2>3, Fun_IsBij
  <1>5. Cardinality(T) = Cardinality(S)
    BY <1>1, <1>4, FS_Bijection DEF ExistsBijection
  <1>6. 1 \in ProbePositions(r, d, i + 1) <=> r[1] = ProbeMessage(d)
    BY DEF ProbePositions
  <1>7. Cardinality(T) = IF 1 \in ProbePositions(r, d, i + 1)
                         THEN Cardinality(ProbePositions(r, d, i + 1)) - 1
                         ELSE Cardinality(ProbePositions(r, d, i + 1))
    BY <1>1, FS_RemoveElement
  <1>8. Cardinality(S) \in Nat /\ Cardinality(ProbePositions(r, d, i + 1)) \in Nat
    BY <1>1, FS_CardinalityType
  <1>9. QED
    BY <1>5, <1>6, <1>7, <1>8

LEMMA RequeuedProbes ==
  ASSUME NEW S, NEW q \in Seq(S), NEW e \in S, NEW d, NEW i \in 1 .. Len(q) + 1
  PROVE  Cardinality(ProbePositions(<<e>> \o q, d, i + 1)) =
           Cardinality(ProbePositions(q, d, i)) +
             (IF (<<e>> \o q)[1] = ProbeMessage(d) THEN 1 ELSE 0)
  <1> DEFINE r == <<e>> \o q
             n == Len(q)
  <1>1. n \in Nat /\ i \in 1 .. n + 1 /\ \A k \in 1 .. n : r[k + 1] = q[k]
    BY RequeueElements, LenProperties
  <1> HIDE DEF r, n
  <1>2. Cardinality(ProbePositions(r, d, i + 1)) =
          Cardinality(ProbePositions(q, d, i)) +
            (IF r[1] = ProbeMessage(d) THEN 1 ELSE 0)
    BY <1>1, ShiftedProbes
  <1>3. QED
    BY <1>2 DEF r

\* With one more element at the tail there is a probe more, if it is one.
LEMMA LastProbe ==
  ASSUME NEW q, NEW r, NEW n \in Nat, NEW d,
         \A j \in 1 .. n : r[j] = q[j]
  PROVE  Cardinality(ProbePositions(r, d, n + 2)) =
           Cardinality(ProbePositions(q, d, n + 1)) +
             (IF r[n + 1] = ProbeMessage(d) THEN 1 ELSE 0)
  <1> DEFINE S == ProbePositions(q, d, n + 1)
  <1>1. ProbePositions(r, d, n + 2) =
          IF r[n + 1] = ProbeMessage(d) THEN S \cup {n + 1} ELSE S
    BY DEF ProbePositions
  <1>2. IsFiniteSet(S) /\ n + 1 \notin S /\ Cardinality(S) \in Nat
    BY ProbeCount DEF ProbePositions
  <1> HIDE DEF S
  <1>3. Cardinality(S \cup {n + 1}) = Cardinality(S) + 1
    BY <1>2, FS_AddElement
  <1>4. QED
    BY <1>1, <1>2, <1>3 DEF S

-----------------------------------------------------------------------------
(* The order of the queue.                                                 *)

LEMMA OrderInit == Init => OrderInv
  <1> SUFFICES ASSUME Init PROVE OrderInv
    OBVIOUS
  <1>1. Len(resultsQueue) = 0 /\ consumer.stage = "idle"
    BY DEF Init, IdleConsumer
  <1>2. \A w \in Workers : worker[w].stage = "idle"
    BY DEF Init, IdleWorker
  <1>3. \A d \in Dispatches : ~row[d].exists
    BY DEF Init, AbsentRow
  <1>4. QED
    BY <1>1, <1>2, <1>3 DEF OrderInv, HandCovered, RunCovered, RowCovered, Kept, AtConsumer

\* What was covered stays covered at positions no less arrives before.
LEMMA CoverStays ==
  ASSUME OwnPairs, NEW d, NEW n \in Nat, NEW p \in Nat, NEW S \in SUBSET Findings,
         NEW T \in SUBSET Findings, S \subseteq T, n <= Cardinality(S)
  PROVE  n <= Cardinality(T)
  BY PairCounts

\* The counts behind a position are numbers, and what is in no queue and in
\* no hand is in the table.
LEMMA CoverTypes ==
  ASSUME NEW d \in Dispatches, NEW i \in Nat, probeRows[d] \in Nat
  PROVE  /\ Arrived(d, i) \in SUBSET Findings
         /\ StoredFindings(d) \in SUBSET Findings
         /\ StoredFindings(d) \subseteq Arrived(d, i)
         /\ InHand(d) \in {0, 1}
         /\ ProbesBy(d, i) \in Nat
         /\ probeRows[d] + InHand(d) <= ProbesBy(d, i)
  <1>2. InHand(d) \in {0, 1}
    BY DEF InHand
  <1>3. Cardinality(ProbePositions(resultsQueue, d, i)) \in Nat
    BY ProbeCount
  <1>4. QED
    BY <1>2, <1>3 DEF Arrived, StoredFindings, ProbesBy

\* The queue moves by k positions, and no position loses what arrived
\* before it.
Moves(k) ==
  /\ Len(resultsQueue') = Len(resultsQueue) + k
  /\ \A i \in 1 .. Len(resultsQueue), j \in 1 .. Len(resultsQueue') :
       j = i + k => resultsQueue'[j] = resultsQueue[i]
  /\ \A d \in Dispatches : Kept(d)' => Kept(d)
  /\ \A d \in Dispatches :
       Kept(d)' =>
         \A i \in 1 .. Len(resultsQueue) + 1, j \in 1 .. Len(resultsQueue') + 1 :
           j = i + k => /\ Arrived(d, i) \subseteq Arrived(d, j)'
                        /\ ProbesBy(d, i) <= ProbesBy(d, j)'

LEMMA QueueMoves ==
  ASSUME OwnPairs, TypeInv, probeRows' \in [Dispatches -> Nat],
         resultsQueue' \in Seq(Message), OrderInv, ~released,
         NEW k \in {-1, 0, 1}, Moves(k)
  PROVE  /\ \A i \in 1 .. Len(resultsQueue), j \in 1 .. Len(resultsQueue') :
              j = i + k => CompletionCovered(j)'
         /\ worker' = worker => \A w \in Workers : RunCovered(w)'
  <1>a. /\ resultsQueue \in Seq(Message) /\ probeRows \in [Dispatches -> Nat]
        /\ Len(resultsQueue) \in Nat /\ Len(resultsQueue') \in Nat
        /\ worker \in [Workers -> Worker]
    BY LenProperties DEF TypeInv, TypeOK
  <1>b. ASSUME NEW d \in Dispatches, NEW i \in Nat
        PROVE  /\ Arrived(d, i)' \in SUBSET Findings /\ ProbesBy(d, i)' \in Nat
    <2>1. InHand(d)' \in {0, 1} /\ probeRows'[d] \in Nat
      BY DEF InHand
    <2>2. Cardinality(ProbePositions(resultsQueue', d, i)) \in Nat
      BY ProbeCount
    <2>3. QED
      BY <2>1, <2>2 DEF Arrived, ProbesBy
  <1>1. ASSUME NEW i \in 1 .. Len(resultsQueue), NEW j \in 1 .. Len(resultsQueue'),
               j = i + k
        PROVE  CompletionCovered(j)'
    <2> SUFFICES ASSUME NEW m \in Message, resultsQueue'[j] = m,
                        m.kind = "completion", Kept(m.dispatch)'
                 PROVE  /\ m.findings <= Cardinality(Arrived(m.dispatch, j)')
                        /\ m.probes <= ProbesBy(m.dispatch, j)'
      BY DEF CompletionCovered
    <2> DEFINE d == m.dispatch
    <2>1. d \in Dispatches /\ m.findings \in Nat /\ m.probes \in Nat
      BY DEF Message
    <2>2. resultsQueue[i] = m /\ Kept(d)
      BY <1>1, <2>1 DEF Moves
    <2>3. m.findings <= Cardinality(Arrived(d, i)) /\ m.probes <= ProbesBy(d, i)
      BY <2>2 DEF OrderInv, CompletionCovered
    <2>4. /\ i \in Nat /\ i \in 1 .. Len(resultsQueue) + 1
          /\ j \in Nat /\ j \in 1 .. Len(resultsQueue') + 1
      BY <1>a
    <2>5. Arrived(d, i) \subseteq Arrived(d, j)' /\ ProbesBy(d, i) <= ProbesBy(d, j)'
      BY <1>1, <2>1, <2>4 DEF Moves
    <2>6. Arrived(d, i) \in SUBSET Findings /\ ProbesBy(d, i) \in Nat
      BY <1>a, <2>1, <2>4, CoverTypes
    <2>7. Arrived(d, j)' \in SUBSET Findings /\ ProbesBy(d, j)' \in Nat
      BY <1>b, <2>1, <2>4
    <2>8. m.findings <= Cardinality(Arrived(d, j)')
      BY <2>1, <2>3, <2>5, <2>6, <2>7, CoverStays
    <2>9. QED
      BY <2>1, <2>3, <2>5, <2>6, <2>7, <2>8
  <1>2. ASSUME worker' = worker, NEW w \in Workers
        PROVE  RunCovered(w)'
    <2> SUFFICES ASSUME NEW d \in Dispatches, NEW j \in Nat, worker[w].stage # "idle",
                        worker[w].dispatch = d, Kept(d)', j = Len(resultsQueue') + 1
                 PROVE  worker[w].probes <= ProbesBy(d, j)'
      BY <1>2 DEF RunCovered
    <2> DEFINE i == Len(resultsQueue) + 1
    <2>1. /\ i \in Nat /\ i \in 1 .. Len(resultsQueue) + 1
          /\ j \in 1 .. Len(resultsQueue') + 1
          /\ j = i + k
      BY <1>a DEF Moves
    <2>2. Kept(d) /\ worker[w].probes <= ProbesBy(d, i) /\ worker[w].probes \in Nat
      BY <1>a DEF OrderInv, RunCovered, Worker, Moves
    <2> HIDE DEF i
    <2>3. ProbesBy(d, i) <= ProbesBy(d, j)'
      BY <2>1 DEF Moves
    <2>4. ProbesBy(d, i) \in Nat /\ ProbesBy(d, j)' \in Nat
      BY <1>a, <1>b, <2>1, CoverTypes
    <2>5. QED
      BY <2>2, <2>3, <2>4
  <1>3. QED
    BY <1>1, <1>2

\* A step that leaves the queue alone and loses nothing that has arrived.
LEMMA StandingMoves ==
  ASSUME TypeInv, probeRows' \in [Dispatches -> Nat], resultsQueue' = resultsQueue,
         \A d \in Dispatches : Kept(d)' =>
           /\ Kept(d)
           /\ \A f \in Findings : resultRows[d][f] > 0 \/ AtConsumer(ResultMessage(d, f)) =>
                (resultRows[d][f] > 0 \/ AtConsumer(ResultMessage(d, f)))'
           /\ probeRows[d] + InHand(d) <= (probeRows[d] + InHand(d))'
  PROVE  Moves(0)
  <1>a. Len(resultsQueue) \in Nat /\ probeRows \in [Dispatches -> Nat]
    BY LenProperties DEF TypeInv, TypeOK
  <1>1. ASSUME NEW d \in Dispatches, Kept(d)', NEW i \in Nat
        PROVE  Arrived(d, i) \subseteq Arrived(d, i)' /\ ProbesBy(d, i) <= ProbesBy(d, i)'
    <2>1. Arrived(d, i) \subseteq Arrived(d, i)'
      BY <1>1 DEF Arrived, QueuedBefore
    <2>2. /\ probeRows[d] \in Nat /\ probeRows'[d] \in Nat
          /\ InHand(d) \in {0, 1} /\ InHand(d)' \in {0, 1}
          /\ Cardinality(ProbePositions(resultsQueue, d, i)) \in Nat
      BY <1>a, ProbeCount DEF InHand
    <2>3. probeRows[d] + InHand(d) <= (probeRows[d] + InHand(d))'
      BY <1>1
    <2>4. ProbesBy(d, i) <= ProbesBy(d, i)'
      BY <2>2, <2>3 DEF ProbesBy
    <2>5. QED
      BY <2>1, <2>4
  <1>2. ASSUME NEW d \in Dispatches, Kept(d)',
               NEW i \in 1 .. Len(resultsQueue) + 1,
               NEW j \in 1 .. Len(resultsQueue') + 1, j = i + 0
        PROVE  Arrived(d, i) \subseteq Arrived(d, j)' /\ ProbesBy(d, i) <= ProbesBy(d, j)'
    <2>1. j = i /\ i \in Nat
      BY <1>a, <1>2
    <2>2. QED
      BY <1>1, <1>2, <2>1
  <1>3. \A d \in Dispatches : Kept(d)' => Kept(d)
    OBVIOUS
  <1>4. /\ Len(resultsQueue') = Len(resultsQueue) + 0
        /\ \A i \in 1 .. Len(resultsQueue), j \in 1 .. Len(resultsQueue') :
             j = i + 0 => resultsQueue'[j] = resultsQueue[i]
    BY <1>a
  <1>5. QED
    BY <1>2, <1>3, <1>4 DEF Moves

\* A delivery: the head of the queue goes to the hand.
LEMMA TakingMoves ==
  ASSUME TypeInv, consumer.stage = "idle", consumer'.stage = "lookup",
         resultsQueue # <<>>, resultsQueue' = Tail(resultsQueue),
         consumer'.msg = Head(resultsQueue), UNCHANGED <<resultRows, probeRows>>,
         \A d \in Dispatches : Kept(d)' => Kept(d)
  PROVE  Moves(-1)
  <1>a. /\ Len(resultsQueue) \in Nat \ {0}
        /\ Len(resultsQueue') = Len(resultsQueue) - 1
        /\ Head(resultsQueue) = resultsQueue[1]
        /\ \A i \in 1 .. Len(resultsQueue') : resultsQueue'[i] = resultsQueue[i + 1]
        /\ probeRows \in [Dispatches -> Nat]
    BY TailElements DEF TypeInv, TypeOK
  <1>1. ASSUME NEW d \in Dispatches, NEW j \in 1 .. Len(resultsQueue') + 1
        PROVE  Arrived(d, j + 1) \subseteq Arrived(d, j)'
    <2>1. ASSUME NEW f \in Findings, QueuedBefore(ResultMessage(d, f), j + 1)
          PROVE  (AtConsumer(ResultMessage(d, f)) \/ QueuedBefore(ResultMessage(d, f), j))'
      <3>1. PICK k \in 1 .. j : resultsQueue[k] = ResultMessage(d, f)
        BY <2>1 DEF QueuedBefore
      <3>2. CASE k = 1
        BY <3>1, <3>2, <1>a DEF AtConsumer
      <3>3. CASE k # 1
        <4>1. k - 1 \in 1 .. j - 1 /\ k - 1 \in 1 .. Len(resultsQueue') /\ (k - 1) + 1 = k
          BY <1>a, <3>3
        <4>2. resultsQueue'[k - 1] = ResultMessage(d, f)
          BY <1>a, <3>1, <4>1
        <4>3. QED
          BY <4>1, <4>2 DEF QueuedBefore
      <3>4. QED
        BY <3>2, <3>3
    <2>2. QED
      BY <2>1 DEF Arrived, AtConsumer
  <1>2. ASSUME NEW d \in Dispatches, NEW j \in 1 .. Len(resultsQueue') + 1
        PROVE  ProbesBy(d, j + 1) = ProbesBy(d, j)'
    <2>2. Cardinality(ProbePositions(resultsQueue, d, j + 1)) =
            Cardinality(ProbePositions(resultsQueue', d, j)) +
              (IF resultsQueue[1] = ProbeMessage(d) THEN 1 ELSE 0)
      <3> DEFINE q == resultsQueue'
                 r == resultsQueue
                 n == Len(resultsQueue')
      <3>1. n \in Nat /\ j \in 1 .. n + 1 /\ \A k \in 1 .. n : r[k + 1] = q[k]
        BY <1>a
      <3> HIDE DEF q, r, n
      <3>2. Cardinality(ProbePositions(r, d, j + 1)) =
              Cardinality(ProbePositions(q, d, j)) +
                (IF r[1] = ProbeMessage(d) THEN 1 ELSE 0)
        BY <3>1, ShiftedProbes
      <3>3. QED
        BY <3>2 DEF q, r
    <2>3. InHand(d) = 0 /\ InHand(d)' = IF resultsQueue[1] = ProbeMessage(d) THEN 1 ELSE 0
      BY <1>a DEF InHand
    <2>4. Cardinality(ProbePositions(resultsQueue', d, j)) \in Nat /\ probeRows[d] \in Nat
      BY <1>a, ProbeCount
    <2>5. QED
      BY <2>2, <2>3, <2>4 DEF ProbesBy
  <1>3. ASSUME NEW d \in Dispatches, 
               NEW i \in 1 .. Len(resultsQueue) + 1,
               NEW j \in 1 .. Len(resultsQueue') + 1, j = i + (-1)
        PROVE  Arrived(d, i) \subseteq Arrived(d, j)' /\ ProbesBy(d, i) <= ProbesBy(d, j)'
    <2>1. i = j + 1 /\ i \in Nat
      BY <1>a, <1>3
    <2>2. ProbesBy(d, i) \in Nat
      BY <1>a, <2>1, CoverTypes
    <2>3. Arrived(d, i) \subseteq Arrived(d, j)'
      BY <1>1, <2>1
    <2>4. ProbesBy(d, i) = ProbesBy(d, j)'
      BY <1>2, <2>1
    <2>5. QED
      BY <2>2, <2>3, <2>4
  <1>4. /\ Len(resultsQueue') = Len(resultsQueue) + (-1)
        /\ \A i \in 1 .. Len(resultsQueue), j \in 1 .. Len(resultsQueue') :
             j = i + (-1) => resultsQueue'[j] = resultsQueue[i]
    BY <1>a
  <1>5. QED
    BY <1>3, <1>4 DEF Moves

\* A crash: the message in hand goes back in front.
LEMMA ReturningMoves ==
  ASSUME TypeInv, consumer.stage # "idle", consumer'.stage = "idle",
         resultsQueue' = <<consumer.msg>> \o resultsQueue,
         UNCHANGED <<resultRows, probeRows>>,
         \A d \in Dispatches : Kept(d)' => Kept(d)
  PROVE  Moves(1)
  <1>a. /\ Len(resultsQueue) \in Nat
        /\ Len(resultsQueue') = Len(resultsQueue) + 1
        /\ resultsQueue'[1] = consumer.msg
        /\ \A i \in 1 .. Len(resultsQueue) : resultsQueue'[i + 1] = resultsQueue[i]
        /\ probeRows \in [Dispatches -> Nat]
    BY RequeueElements, LenProperties DEF TypeInv, TypeOK
  <1>1. ASSUME NEW d \in Dispatches, NEW i \in 1 .. Len(resultsQueue) + 1
        PROVE  Arrived(d, i) \subseteq Arrived(d, i + 1)'
    <2>1. ASSUME NEW f \in Findings,
                 AtConsumer(ResultMessage(d, f)) \/ QueuedBefore(ResultMessage(d, f), i)
          PROVE  QueuedBefore(ResultMessage(d, f), i + 1)'
      <3>1. CASE AtConsumer(ResultMessage(d, f))
        <4>1. 1 \in 1 .. (i + 1) - 1 /\ resultsQueue'[1] = ResultMessage(d, f)
          BY <1>a, <3>1 DEF AtConsumer
        <4>2. QED
          BY <4>1 DEF QueuedBefore
      <3>2. CASE QueuedBefore(ResultMessage(d, f), i)
        <4>1. PICK k \in 1 .. i - 1 : resultsQueue[k] = ResultMessage(d, f)
          BY <3>2 DEF QueuedBefore
        <4>2. k \in 1 .. Len(resultsQueue) /\ k + 1 \in 1 .. (i + 1) - 1
          BY <1>a
        <4>3. resultsQueue'[k + 1] = ResultMessage(d, f)
          BY <1>a, <4>1, <4>2
        <4>4. QED
          BY <4>2, <4>3 DEF QueuedBefore
      <3>3. QED
        BY <2>1, <3>1, <3>2
    <2>2. QED
      BY <2>1 DEF Arrived
  <1>2. ASSUME NEW d \in Dispatches, NEW i \in 1 .. Len(resultsQueue) + 1
        PROVE  ProbesBy(d, i) <= ProbesBy(d, i + 1)'
    <2>1. Cardinality(ProbePositions(resultsQueue', d, i + 1)) =
            Cardinality(ProbePositions(resultsQueue, d, i)) +
              (IF resultsQueue'[1] = ProbeMessage(d) THEN 1 ELSE 0)
      BY <1>a, RequeuedProbes DEF TypeInv, TypeOK
    <2>2. /\ InHand(d)' = 0 /\ InHand(d) \in {0, 1}
          /\ InHand(d) <= IF resultsQueue'[1] = ProbeMessage(d) THEN 1 ELSE 0
      BY <1>a DEF InHand
    <2>3. Cardinality(ProbePositions(resultsQueue, d, i)) \in Nat /\ probeRows[d] \in Nat
      BY <1>a, ProbeCount
    <2>4. QED
      BY <2>1, <2>2, <2>3 DEF ProbesBy
  <1>3. ASSUME NEW d \in Dispatches, 
               NEW i \in 1 .. Len(resultsQueue) + 1,
               NEW j \in 1 .. Len(resultsQueue') + 1, j = i + 1
        PROVE  Arrived(d, i) \subseteq Arrived(d, j)' /\ ProbesBy(d, i) <= ProbesBy(d, j)'
    BY <1>1, <1>2, <1>3
  <1>4. /\ Len(resultsQueue') = Len(resultsQueue) + 1
        /\ \A i \in 1 .. Len(resultsQueue), j \in 1 .. Len(resultsQueue') :
             j = i + 1 => resultsQueue'[j] = resultsQueue[i]
    BY <1>a
  <1>5. QED
    BY <1>3, <1>4 DEF Moves

\* What is stored and what is in hand, when the hand keeps its message.
LEMMA HandStays ==
  ASSUME OwnPairs, TypeInv, OrderInv, ~released, consumer.stage # "idle",
         consumer'.msg = consumer.msg,
         \A d \in Dispatches : Kept(d)' =>
           /\ Kept(d)
           /\ StoredFindings(d) \subseteq StoredFindings(d)'
           /\ probeRows[d] <= probeRows'[d],
         probeRows' \in [Dispatches -> Nat],
         \A m \in Message :
           /\ consumer.msg = m /\ m.kind = "result" /\ consumer'.stage = "ack"
           /\ Kept(m.dispatch)'
           => resultRows'[m.dispatch][m.finding] > 0
  PROVE  HandCovered'
  <1> SUFFICES ASSUME NEW m \in Message, AtConsumer(m)', Kept(m.dispatch)',
                      m.kind = "completion"
               PROVE  /\ m.findings <= Cardinality(StoredFindings(m.dispatch)')
                      /\ m.probes <= probeRows'[m.dispatch]
    BY DEF HandCovered, AtConsumer
  <1> DEFINE d == m.dispatch
  <1>1. d \in Dispatches /\ m.findings \in Nat /\ m.probes \in Nat
    BY DEF Message
  <1>2. AtConsumer(m) /\ Kept(d)
    BY <1>1 DEF AtConsumer
  <1>3. m.findings <= Cardinality(StoredFindings(d)) /\ m.probes <= probeRows[d]
    BY <1>2 DEF OrderInv, HandCovered
  <1>4. /\ StoredFindings(d) \in SUBSET Findings /\ StoredFindings(d)' \in SUBSET Findings
        /\ StoredFindings(d) \subseteq StoredFindings(d)'
        /\ probeRows[d] \in Nat /\ probeRows'[d] \in Nat /\ probeRows[d] <= probeRows'[d]
    BY <1>1 DEF StoredFindings, TypeInv, TypeOK
  <1>5. m.findings <= Cardinality(StoredFindings(d)')
    BY <1>1, <1>3, <1>4, CoverStays
  <1>6. QED
    BY <1>1, <1>3, <1>4, <1>5

\* A row keeps what it counts.
LEMMA RowStays ==
  ASSUME OwnPairs, TypeInv, OrderInv, ~released, NEW d \in Dispatches,
         Kept(d)' => Kept(d) /\ StoredFindings(d) \subseteq StoredFindings(d)'
                             /\ probeRows[d] <= probeRows'[d],
         probeRows' \in [Dispatches -> Nat], row'[d] = row[d]
  PROVE  RowCovered(d)'
  <1> SUFFICES ASSUME Kept(d)', row[d].completedAt
               PROVE  /\ row[d].findings <= Cardinality(StoredFindings(d)')
                      /\ row[d].probes <= probeRows'[d]
    BY DEF RowCovered
  <1>1. row[d].findings \in Nat /\ row[d].probes \in Nat
    BY DEF TypeInv, TypeOK, DispatchRow
  <1>2. row[d].findings <= Cardinality(StoredFindings(d)) /\ row[d].probes <= probeRows[d]
    BY DEF OrderInv, RowCovered
  <1>3. /\ StoredFindings(d) \in SUBSET Findings /\ StoredFindings(d)' \in SUBSET Findings
        /\ StoredFindings(d) \subseteq StoredFindings(d)'
        /\ probeRows[d] \in Nat /\ probeRows'[d] \in Nat /\ probeRows[d] <= probeRows'[d]
    BY DEF StoredFindings, TypeInv, TypeOK
  <1>4. row[d].findings <= Cardinality(StoredFindings(d)')
    BY <1>1, <1>2, <1>3, CoverStays
  <1>5. QED
    BY <1>1, <1>2, <1>3, <1>4

LEMMA OrderConsumer ==
  ASSUME OwnPairs, TypeInv, TypeInv', StageKind, OrderInv, ConsumerStep \/ ConsumerFault
  PROVE  OrderInv'
  <1> SUFFICES ASSUME ~released', ~released
               PROVE  OrderInv'
    BY DEF OrderInv, ConsumerStep, ConsumerFault, TakeMessage, LookUpDispatch,
       CheckExisting, InsertResult, InsertProbe, UpdateDispatch,
       LoadNotification, SaveNotification, ReleaseMessage, AckMessage,
       DatabaseFails, ConsumerCrash
  <1>a. /\ resultsQueue \in Seq(Message) /\ resultsQueue' \in Seq(Message)
        /\ Len(resultsQueue) \in Nat /\ Len(resultsQueue') \in Nat
        /\ probeRows \in [Dispatches -> Nat] /\ probeRows' \in [Dispatches -> Nat]
        /\ resultRows \in [Dispatches -> [Findings -> Nat]]
        /\ row \in [Dispatches -> DispatchRow]
        /\ consumer \in Consumer
        /\ consumer.stage # "idle" => consumer.msg \in Message
    BY LenProperties DEF TypeInv, TypeOK
  <1>b. /\ \A d \in Dispatches : Kept(d)' <=> Kept(d)
        /\ worker' = worker
    BY ConsumerKept, ConsumerLeaves DEF untouched
  <1> DEFINE Grows == \A d \in Dispatches : Kept(d) =>
                        /\ StoredFindings(d) \subseteq StoredFindings(d)'
                        /\ probeRows[d] <= probeRows'[d]
  <1>c. UNCHANGED <<resultRows, probeRows>> => Grows
    BY <1>a DEF StoredFindings
  <1>d. ASSUME Grows, row' = row
        PROVE  \A d \in Dispatches : RowCovered(d)'
    BY <1>a, <1>b, <1>d, RowStays
  \* the queue stands
  <1>e. ASSUME Moves(0), resultsQueue' = resultsQueue, HandCovered',
               \A d \in Dispatches : RowCovered(d)'
        PROVE  OrderInv'
    <2>1. /\ \A i \in 1 .. Len(resultsQueue), j \in 1 .. Len(resultsQueue') :
               j = i + 0 => CompletionCovered(j)'
          /\ \A w \in Workers : RunCovered(w)'
      BY <1>a, <1>b, <1>e, QueueMoves
    <2>2. \A i \in 1 .. Len(resultsQueue') : CompletionCovered(i)'
      BY <1>a, <1>e, <2>1
    <2>3. QED
      BY <1>e, <2>1, <2>2 DEF OrderInv
  \* ... and the consumer goes on with the message it has
  <1>f. ASSUME resultsQueue' = resultsQueue, consumer.stage # "idle",
               consumer'.stage # "idle", consumer'.msg = consumer.msg, Grows,
               \A d \in Dispatches : Kept(d) =>
                 probeRows[d] + InHand(d) <= (probeRows[d] + InHand(d))',
               \A m \in Message :
                 consumer.msg = m /\ m.kind = "result" /\ consumer'.stage = "ack"
                 /\ Kept(m.dispatch) => resultRows'[m.dispatch][m.finding] > 0
        PROVE  Moves(0) /\ HandCovered'
    <2>1. \A m \in Message : m.dispatch \in Dispatches
      BY DEF Message
    <2>2. HandCovered'
      BY <1>a, <1>b, <1>f, <2>1, HandStays
    <2>3. ASSUME NEW d \in Dispatches, Kept(d)', NEW f \in Findings,
                 resultRows[d][f] > 0 \/ AtConsumer(ResultMessage(d, f))
          PROVE  (resultRows[d][f] > 0 \/ AtConsumer(ResultMessage(d, f)))'
      BY <1>b, <1>f, <2>3 DEF StoredFindings, AtConsumer
    <2>4. Moves(0)
      BY <1>a, <1>b, <1>f, <2>3, StandingMoves
    <2>5. QED
      BY <2>2, <2>4
  <1> HIDE DEF Grows
  <1> USE DEF msg
  <1>g. ASSUME UNCHANGED <<resultsQueue, resultRows, probeRows, row>>,
               consumer.stage # "idle", consumer'.msg = consumer.msg,
               consumer'.stage \notin {"idle", "ack"}
        PROVE  OrderInv'
    <2>1. \A d \in Dispatches : probeRows[d] + InHand(d) <= (probeRows[d] + InHand(d))'
      BY <1>a, <1>g DEF InHand
    <2>2. Moves(0) /\ HandCovered'
      BY <1>c, <1>f, <1>g, <2>1
    <2>3. QED
      BY <1>c, <1>d, <1>e, <1>g, <2>2
  <1>1. CASE TakeMessage
    <2>1. /\ resultsQueue # <<>> /\ resultsQueue' = Tail(resultsQueue)
          /\ UNCHANGED <<resultRows, probeRows, row>> /\ consumer.stage = "idle"
          /\ consumer'.stage = "lookup" /\ consumer'.msg = Head(resultsQueue)
      BY <1>1, TakenFields DEF TakeMessage, resultVars
    <2>2. Moves(-1)
      BY <1>b, <2>1, TakingMoves
    <2>3. /\ \A i \in 1 .. Len(resultsQueue), j \in 1 .. Len(resultsQueue') :
               j = i + (-1) => CompletionCovered(j)'
          /\ \A w \in Workers : RunCovered(w)'
      BY <1>a, <1>b, <2>2, QueueMoves
    <2>4. \A j \in 1 .. Len(resultsQueue') : CompletionCovered(j)'
      <3>1. Len(resultsQueue') = Len(resultsQueue) - 1
        BY <1>a, <2>1, TailElements
      <3>2. ASSUME NEW j \in 1 .. Len(resultsQueue')
            PROVE  CompletionCovered(j)'
        <4>1. j + 1 \in 1 .. Len(resultsQueue) /\ j = (j + 1) + (-1)
          BY <1>a, <3>1
        <4>2. QED
          BY <2>3, <4>1
      <3>3. QED
        BY <3>2
    <2>5. HandCovered'
      <3> SUFFICES ASSUME NEW m \in Message, consumer'.msg = m, Kept(m.dispatch)',
                          m.kind = "completion"
                   PROVE  /\ m.findings <= Cardinality(StoredFindings(m.dispatch)')
                          /\ m.probes <= probeRows'[m.dispatch]
        BY <2>1 DEF HandCovered, AtConsumer
      <3> DEFINE d == m.dispatch
      <3>1. /\ m = resultsQueue[1] /\ 1 \in 1 .. Len(resultsQueue)
            /\ d \in Dispatches /\ m.findings \in Nat /\ m.probes \in Nat
        BY <1>a, <2>1, TailElements DEF Message
      <3>2. m.findings <= Cardinality(Arrived(d, 1)) /\ m.probes <= ProbesBy(d, 1)
        BY <1>b, <3>1 DEF OrderInv, CompletionCovered
      <3>3. Arrived(d, 1) = StoredFindings(d)
        BY <2>1 DEF Arrived, StoredFindings, AtConsumer, QueuedBefore
      <3>4. ProbesBy(d, 1) = probeRows[d]
        <4>1. ProbePositions(resultsQueue, d, 1) = {} /\ InHand(d) = 0
          BY <2>1 DEF ProbePositions, InHand
        <4>2. Cardinality(ProbePositions(resultsQueue, d, 1)) = 0
          BY <4>1, FS_EmptySet
        <4>3. QED
          BY <1>a, <3>1, <4>1, <4>2 DEF ProbesBy
      <3>5. StoredFindings(d)' = StoredFindings(d)
        BY <2>1 DEF StoredFindings
      <3>6. QED
        BY <2>1, <3>2, <3>3, <3>4, <3>5
    <2>6. QED
      BY <1>c, <1>d, <2>1, <2>3, <2>4, <2>5 DEF OrderInv
  <1>2. CASE LookUpDispatch \/ DatabaseFails
    <2>1. consumer.stage = "lookup" => FirstStage(consumer.msg.kind) \in {"check", "insert", "update"}
      BY <1>a DEF FirstStage, Message
    <2>2. consumer'.stage \in {"check", "insert", "update", "raised"}
      BY <1>2, <1>a, <2>1, GoToFields DEF LookUpDispatch, DatabaseFails
    <2>3. QED
      BY <1>2, <1>a, <1>g, <2>2, GoToFields DEF LookUpDispatch, DatabaseFails, resultVars
  <1>3. CASE CheckExisting
    <2>1. /\ UNCHANGED <<resultsQueue, resultRows, probeRows, row>>
          /\ consumer.stage = "check" /\ consumer'.msg = consumer.msg
          /\ \/ /\ consumer'.stage = "ack"
                /\ resultRows[consumer.msg.dispatch][consumer.msg.finding] > 0
             \/ consumer'.stage = "insert"
      BY <1>3, <1>a, GoToFields DEF CheckExisting, resultVars
    <2>2. \A d \in Dispatches : InHand(d) = 0 /\ InHand(d)' = 0
      BY <2>1 DEF StageKind, InHand, ProbeMessage
    <2>3. \A d \in Dispatches : probeRows[d] + InHand(d) <= (probeRows[d] + InHand(d))'
      BY <1>a, <2>1, <2>2
    <2>4. Moves(0) /\ HandCovered'
      BY <1>c, <1>f, <2>1, <2>3
    <2>5. QED
      BY <1>c, <1>d, <1>e, <2>1, <2>4
  <1>4. CASE InsertResult
    <2> DEFINE c == consumer.msg.dispatch
               g == consumer.msg.finding
    <2>1. /\ UNCHANGED <<resultsQueue, probeRows, row>> /\ consumer.stage = "insert"
          /\ consumer.msg.kind = "result" /\ consumer'.msg = consumer.msg
          /\ \/ /\ consumer'.stage = "ack"
                /\ resultRows' = [resultRows EXCEPT ![c][g] = resultRows[c][g] + 1]
             \/ consumer'.stage = "raised" /\ resultRows' = resultRows
      BY <1>4, <1>a, GoToFields DEF InsertResult
    <2>2. CASE consumer'.stage = "raised" /\ resultRows' = resultRows
      BY <1>g, <2>1, <2>2
    <2>3. CASE /\ consumer'.stage = "ack"
               /\ resultRows' = [resultRows EXCEPT ![c][g] = resultRows[c][g] + 1]
      <3>1. c \in Dispatches /\ g \in Findings
        BY <1>a, <2>1 DEF Message
      <3>2. \A d \in Dispatches, f \in Findings :
              resultRows'[d][f] = IF d = c /\ f = g THEN resultRows[c][g] + 1
                                  ELSE resultRows[d][f]
        BY <2>3, <3>1, <1>a
      <3>3. resultRows[c][g] \in Nat
        BY <3>1, <1>a
      <3>4. Grows /\ resultRows'[c][g] > 0
        <4>1. resultRows'[c][g] > 0
          BY <3>1, <3>2, <3>3
        <4>2. \A d \in Dispatches, f \in Findings :
                resultRows[d][f] > 0 => resultRows'[d][f] > 0
          BY <3>2, <4>1
        <4>3. \A d \in Dispatches : probeRows[d] <= probeRows'[d]
          BY <1>a, <2>1
        <4>4. QED
          BY <4>1, <4>2, <4>3 DEF Grows, StoredFindings
      <3>5. \A d \in Dispatches : InHand(d) = 0 /\ InHand(d)' = 0
        BY <2>1, <2>3 DEF InHand, ProbeMessage
      <3>6. \A d \in Dispatches : probeRows[d] + InHand(d) <= (probeRows[d] + InHand(d))'
        BY <1>a, <2>1, <3>5
      <3>7. Moves(0) /\ HandCovered'
        BY <1>f, <2>1, <2>3, <3>4, <3>6
      <3>8. QED
        BY <1>d, <1>e, <2>1, <3>4, <3>7
    <2>4. QED
      BY <2>1, <2>2, <2>3
  <1>5. CASE InsertProbe
    <2> DEFINE c == consumer.msg.dispatch
    <2>1. /\ UNCHANGED <<resultsQueue, resultRows, row>> /\ consumer.stage = "insert"
          /\ consumer.msg.kind = "probe" /\ consumer'.msg = consumer.msg
          /\ \/ /\ consumer'.stage = "ack"
                /\ probeRows' = [probeRows EXCEPT ![c] = probeRows[c] + 1]
             \/ consumer'.stage = "raised" /\ probeRows' = probeRows
      BY <1>5, <1>a, GoToFields DEF InsertProbe
    <2>2. CASE consumer'.stage = "raised" /\ probeRows' = probeRows
      BY <1>g, <2>1, <2>2
    <2>3. CASE /\ consumer'.stage = "ack"
               /\ probeRows' = [probeRows EXCEPT ![c] = probeRows[c] + 1]
      <3>1. c \in Dispatches
        BY <1>a, <2>1 DEF Message
      <3>2. \A d \in Dispatches :
              /\ probeRows'[d] = IF d = c THEN probeRows[c] + 1 ELSE probeRows[d]
              /\ probeRows[d] \in Nat
        BY <2>3, <3>1, <1>a
      <3>3. Grows
        BY <2>1, <3>1, <3>2 DEF Grows, StoredFindings
      <3>4. \A d \in Dispatches : /\ InHand(d) \in {0, 1} /\ InHand(d)' = 0
                                  /\ d # c => InHand(d) = 0
        BY <2>1, <2>3 DEF InHand, ProbeMessage
      <3>5. \A d \in Dispatches : probeRows[d] + InHand(d) <= (probeRows[d] + InHand(d))'
        BY <3>1, <3>2, <3>4
      <3>6. Moves(0) /\ HandCovered'
        BY <1>f, <2>1, <2>3, <3>3, <3>5
      <3>7. QED
        BY <1>d, <1>e, <2>1, <3>3, <3>6
    <2>4. QED
      BY <2>1, <2>2, <2>3
  <1>6. CASE UpdateDispatch \/ LoadNotification \/ SaveNotification
    <2> DEFINE c == consumer.msg.dispatch
    <2>1. /\ UNCHANGED <<resultsQueue, resultRows, probeRows>>
          /\ consumer.stage \in {"update", "notify", "save"}
      BY <1>6 DEF UpdateDispatch, LoadNotification, SaveNotification, resultVars
    <2>2. consumer.msg.kind = "completion" /\ consumer.msg \in Message /\ c \in Dispatches
      BY <1>a, <2>1 DEF StageKind, Message
    <2>3. /\ consumer'.msg = consumer.msg
          /\ consumer'.stage \in {"notify", "save", "ack", "raised"}
      <3>1. CASE LoadNotification
        BY <3>1, <1>a DEF LoadNotification, GoTo, Consumer
      <3>2. CASE UpdateDispatch \/ SaveNotification
        BY <3>2, <1>a, GoToFields DEF UpdateDispatch, SaveNotification
      <3>3. QED
        BY <1>6, <3>1, <3>2
    <2>4. \A d \in Dispatches : InHand(d) = 0 /\ InHand(d)' = 0
      BY <2>2, <2>3 DEF InHand, ProbeMessage
    <2>5. \A d \in Dispatches : probeRows[d] + InHand(d) <= (probeRows[d] + InHand(d))'
      BY <1>a, <2>1, <2>4
    <2>6. Moves(0) /\ HandCovered'
      BY <1>c, <1>f, <2>1, <2>2, <2>3, <2>5
    <2>7. CASE row' = row
      BY <1>c, <1>d, <1>e, <2>1, <2>6, <2>7
    <2>8. CASE row' = [row EXCEPT ![c] = CompletedRow(row[c], consumer.msg)]
      <3>1. ASSUME NEW d \in Dispatches
            PROVE  RowCovered(d)'
        <4>1. CASE d # c
          <5>1. row'[d] = row[d]
            BY <2>8, <4>1, <1>a
          <5>2. QED
            BY <1>a, <1>b, <1>c, <2>1, <5>1, RowStays DEF Grows
        <4>2. CASE d = c
          <5>1. /\ row'[d].findings = consumer.msg.findings
                /\ row'[d].probes = consumer.msg.probes
            BY <1>a, <2>2, <2>8, <4>2 DEF CompletedRow, DispatchRow
          <5>2. Kept(d) => /\ consumer.msg.findings <= Cardinality(StoredFindings(d))
                           /\ consumer.msg.probes <= probeRows[d]
            BY <2>1, <2>2, <4>2 DEF OrderInv, HandCovered, AtConsumer
          <5>3. StoredFindings(d)' = StoredFindings(d)
            BY <2>1 DEF StoredFindings
          <5>4. QED
            BY <1>b, <2>1, <5>1, <5>2, <5>3 DEF RowCovered
        <4>3. QED
          BY <4>1, <4>2
      <3>2. QED
        BY <1>e, <2>1, <2>6, <3>1
    <2>9. QED
      BY <1>6, <2>7, <2>8 DEF UpdateDispatch, LoadNotification, SaveNotification
  <1>7. CASE AckMessage
    <2>1. /\ UNCHANGED <<resultsQueue, resultRows, probeRows, row>>
          /\ consumer.stage = "ack" /\ consumer'.stage = "idle"
      BY <1>7 DEF AckMessage, IdleConsumer, resultVars
    <2>2. HandCovered'
      BY <2>1 DEF HandCovered, AtConsumer
    <2>3. ASSUME NEW d \in Dispatches, Kept(d)', NEW f \in Findings,
                 resultRows[d][f] > 0 \/ AtConsumer(ResultMessage(d, f))
          PROVE  (resultRows[d][f] > 0 \/ AtConsumer(ResultMessage(d, f)))'
      <3>1. CASE AtConsumer(ResultMessage(d, f))
        <4>1. /\ ResultMessage(d, f) \in Message /\ Kept(d)
              /\ ResultMessage(d, f).kind = "result"
              /\ ResultMessage(d, f).dispatch = d /\ ResultMessage(d, f).finding = f
          BY <1>b, <2>3, MessageTypes DEF ResultMessage
        <4>2. resultRows[d][f] > 0
          BY <2>1, <3>1, <4>1 DEF OrderInv, HandCovered
        <4>3. QED
          BY <2>1, <4>2
      <3>2. QED
        BY <2>1, <2>3, <3>1
    <2>4. \A d \in Dispatches : probeRows[d] + InHand(d) <= (probeRows[d] + InHand(d))'
      BY <1>a, <2>1 DEF InHand
    <2>5. Moves(0)
      BY <1>a, <1>b, <2>1, <2>3, <2>4, StandingMoves
    <2>6. QED
      BY <1>c, <1>d, <1>e, <2>1, <2>2, <2>5
  <1>8. CASE ConsumerCrash
    <2>1. /\ UNCHANGED <<resultRows, probeRows, row>> /\ consumer.stage # "idle"
          /\ resultsQueue' = <<consumer.msg>> \o resultsQueue
          /\ consumer'.stage = "idle"
      BY <1>8 DEF ConsumerCrash, IdleConsumer, resultVars
    <2>2. Moves(1)
      BY <1>b, <2>1, ReturningMoves
    <2>3. /\ \A i \in 1 .. Len(resultsQueue), j \in 1 .. Len(resultsQueue') :
               j = i + 1 => CompletionCovered(j)'
          /\ \A w \in Workers : RunCovered(w)'
      BY <1>a, <1>b, <2>2, QueueMoves
    <2>4. /\ resultsQueue'[1] = consumer.msg /\ consumer.msg \in Message
          /\ Len(resultsQueue') = Len(resultsQueue) + 1
      BY <1>a, <2>1, RequeueElements
    <2>5. CompletionCovered(1)'
      <3> SUFFICES ASSUME NEW m \in Message, resultsQueue'[1] = m,
                          m.kind = "completion", Kept(m.dispatch)'
                   PROVE  /\ m.findings <= Cardinality(Arrived(m.dispatch, 1)')
                          /\ m.probes <= ProbesBy(m.dispatch, 1)'
        BY DEF CompletionCovered
      <3> DEFINE d == m.dispatch
      <3>1. d \in Dispatches /\ m.findings \in Nat /\ m.probes \in Nat
        BY DEF Message
      <3>2. m.findings <= Cardinality(StoredFindings(d)) /\ m.probes <= probeRows[d]
        BY <1>b, <2>1, <2>4, <3>1 DEF OrderInv, HandCovered, AtConsumer
      <3>3. /\ StoredFindings(d) \in SUBSET Findings /\ Arrived(d, 1)' \in SUBSET Findings
            /\ StoredFindings(d) \subseteq Arrived(d, 1)'
        BY <2>1 DEF StoredFindings, Arrived
      <3>4. m.findings <= Cardinality(Arrived(d, 1)')
        BY <3>1, <3>2, <3>3, CoverStays
      <3>5. /\ InHand(d)' = 0 /\ probeRows'[d] = probeRows[d] /\ probeRows[d] \in Nat
            /\ Cardinality(ProbePositions(resultsQueue', d, 1)) \in Nat
        BY <1>a, <2>1, <3>1, ProbeCount DEF InHand
      <3>6. m.probes <= ProbesBy(d, 1)'
        BY <3>1, <3>2, <3>5 DEF ProbesBy
      <3>7. QED
        BY <3>4, <3>6
    <2>6. \A j \in 1 .. Len(resultsQueue') : CompletionCovered(j)'
      <3>1. ASSUME NEW j \in 1 .. Len(resultsQueue'), j # 1
            PROVE  CompletionCovered(j)'
        <4>1. j - 1 \in 1 .. Len(resultsQueue) /\ j = (j - 1) + 1
          BY <1>a, <2>4, <3>1
        <4>2. QED
          BY <2>3, <4>1
      <3>2. QED
        BY <2>5, <3>1
    <2>7. HandCovered'
      BY <2>1 DEF HandCovered, AtConsumer
    <2>8. QED
      BY <1>c, <1>d, <2>1, <2>3, <2>6, <2>7 DEF OrderInv
  <1>9. CASE ReleaseMessage
    BY <1>9 DEF ReleaseMessage
  <1>10. QED
    BY <1>1, <1>2, <1>3, <1>4, <1>5, <1>6, <1>7, <1>8, <1>9 DEF ConsumerStep, ConsumerFault

\* A publish: the queue grows at its tail.
LEMMA PublishOrder ==
  ASSUME OwnPairs, TypeInv, TypeInv', OrderInv, ~released,
         UNCHANGED <<row, deletion, resultRows, probeRows, consumer>>,
         NEW w \in Workers, NEW m \in Message, resultsQueue' = Append(resultsQueue, m),
         \A v \in Workers : v # w => worker'[v] = worker[v],
         worker[w].stage # "idle", worker'[w].dispatch = worker[w].dispatch,
         worker'[w].probes <= worker[w].probes +
           (IF m = ProbeMessage(worker[w].dispatch) THEN 1 ELSE 0),
         m.kind = "completion" /\ Kept(m.dispatch) =>
           \A i \in Nat : i = Len(resultsQueue) + 1 =>
             /\ m.findings <= Cardinality(Arrived(m.dispatch, i))
             /\ m.probes <= ProbesBy(m.dispatch, i)
  PROVE  /\ \A i \in 1 .. Len(resultsQueue') : CompletionCovered(i)'
         /\ \A v \in Workers : RunCovered(v)'
  <1>n. PICK n \in Nat : n = Len(resultsQueue)
    BY LenProperties DEF TypeInv, TypeOK
  <1>a. /\ n \in Nat /\ Len(resultsQueue') = n + 1
        /\ \A i \in 1 .. n : resultsQueue'[i] = resultsQueue[i]
        /\ resultsQueue'[n + 1] = m
    BY <1>n, AppendElements, LenProperties DEF TypeInv, TypeOK
  <1>b. /\ worker \in [Workers -> Worker] /\ worker' \in [Workers -> Worker]
        /\ probeRows \in [Dispatches -> Nat]
        /\ worker[w].dispatch \in Dispatches
    BY DEF TypeInv, TypeOK
  <1>c. \A d \in Dispatches : Kept(d)' <=> Kept(d)
    BY DEF Kept
  <1>1. ASSUME NEW d \in Dispatches, NEW i \in 1 .. n + 1
        PROVE  /\ Arrived(d, i) \subseteq Arrived(d, i)' /\ ProbesBy(d, i)' = ProbesBy(d, i)
               /\ Arrived(d, i) \in SUBSET Findings /\ Arrived(d, i)' \in SUBSET Findings
               /\ ProbesBy(d, i) \in Nat
    <2>1. Arrived(d, i) \subseteq Arrived(d, i)'
      BY <1>a DEF Arrived, QueuedBefore, AtConsumer
    <2>2. ProbePositions(resultsQueue', d, i) = ProbePositions(resultsQueue, d, i)
      BY <1>a DEF ProbePositions
    <2>3. ProbesBy(d, i)' = ProbesBy(d, i)
      BY <2>2 DEF ProbesBy, InHand
    <2>4. Arrived(d, i) \in SUBSET Findings /\ Arrived(d, i)' \in SUBSET Findings
      BY DEF Arrived
    <2>5. i \in Nat
      BY <1>a
    <2>6. ProbesBy(d, i) \in Nat
      BY <1>b, <2>5, CoverTypes
    <2>7. QED
      BY <2>1, <2>3, <2>4, <2>6
  <1>2. ASSUME NEW d \in Dispatches
        PROVE  ProbesBy(d, n + 2)' = ProbesBy(d, n + 1) + (IF m = ProbeMessage(d) THEN 1 ELSE 0)
    <2>1. Cardinality(ProbePositions(resultsQueue', d, n + 2)) =
            Cardinality(ProbePositions(resultsQueue, d, n + 1)) +
              (IF m = ProbeMessage(d) THEN 1 ELSE 0)
      <3> DEFINE q == resultsQueue
                 r == resultsQueue'
      <3>1. n \in Nat /\ (\A j \in 1 .. n : r[j] = q[j]) /\ r[n + 1] = m
        BY <1>a
      <3> HIDE DEF q, r
      <3>2. Cardinality(ProbePositions(r, d, n + 2)) =
              Cardinality(ProbePositions(q, d, n + 1)) +
                (IF r[n + 1] = ProbeMessage(d) THEN 1 ELSE 0)
        BY <3>1, LastProbe
      <3>3. QED
        BY <3>1, <3>2 DEF q, r
    <2>2. /\ Cardinality(ProbePositions(resultsQueue, d, n + 1)) \in Nat
          /\ probeRows[d] \in Nat /\ InHand(d) \in {0, 1}
      BY <1>a, <1>b, ProbeCount DEF InHand
    <2>3. InHand(d)' = InHand(d)
      BY DEF InHand
    <2>4. QED
      BY <2>1, <2>2, <2>3 DEF ProbesBy
  <1>3. ASSUME NEW i \in 1 .. n + 1
        PROVE  CompletionCovered(i)'
    <2> SUFFICES ASSUME NEW c \in Message, resultsQueue'[i] = c,
                        c.kind = "completion", Kept(c.dispatch)'
                 PROVE  /\ c.findings <= Cardinality(Arrived(c.dispatch, i)')
                        /\ c.probes <= ProbesBy(c.dispatch, i)'
      BY DEF CompletionCovered
    <2> DEFINE d == c.dispatch
    <2>1. d \in Dispatches /\ c.findings \in Nat /\ c.probes \in Nat
      BY DEF Message
    <2>2. c.findings <= Cardinality(Arrived(d, i)) /\ c.probes <= ProbesBy(d, i)
      <3>1. CASE i \in 1 .. n
        BY <1>n, <1>a, <1>c, <2>1, <3>1 DEF OrderInv, CompletionCovered
      <3>2. CASE i = n + 1
        BY <1>n, <1>a, <1>c, <2>1, <3>2
      <3>3. QED
        BY <1>a, <3>1, <3>2
    <2>3. c.findings <= Cardinality(Arrived(d, i)')
      BY <1>1, <2>1, <2>2, CoverStays
    <2>4. QED
      BY <1>1, <2>1, <2>2, <2>3
  <1>4. ASSUME NEW v \in Workers
        PROVE  RunCovered(v)'
    <2> SUFFICES ASSUME NEW d \in Dispatches, worker'[v].stage # "idle",
                        worker'[v].dispatch = d, Kept(d)'
                 PROVE  worker'[v].probes <= ProbesBy(d, n + 2)'
      <3>1. \A i \in Nat : i = Len(resultsQueue') + 1 => i = n + 2
        BY <1>a
      <3>2. QED
        BY <3>1 DEF RunCovered
    <2>1. /\ ProbesBy(d, n + 1) \in Nat /\ n + 1 \in Nat
          /\ ProbesBy(d, n + 2)' = ProbesBy(d, n + 1) + (IF m = ProbeMessage(d) THEN 1 ELSE 0)
      BY <1>a, <1>1, <1>2
    <2>2. worker[v].stage # "idle" /\ worker[v].dispatch = d /\ Kept(d)
      BY <1>c
    <2>3. worker[v].probes <= ProbesBy(d, n + 1)
      BY <1>n, <2>1, <2>2 DEF OrderInv, RunCovered
    <2>4. worker[v].probes \in Nat /\ worker'[v].probes \in Nat
      BY <1>b DEF Worker
    <2>5. worker'[v].probes <= worker[v].probes + (IF m = ProbeMessage(d) THEN 1 ELSE 0)
      BY <2>2, <2>4
    <2>6. QED
      BY <2>1, <2>3, <2>4, <2>5
  <1>5. QED
    BY <1>a, <1>3, <1>4

LEMMA OrderWorker ==
  ASSUME OwnPairs, TypeInv, TypeInv', RunInv, NoResultLost, OrderInv,
         NEW w \in Workers, WorkerStep(w) \/ WorkerFault(w)
  PROVE  OrderInv'
  <1>a. /\ worker \in [Workers -> Worker] /\ worker' \in [Workers -> Worker]
        /\ worker[w].stage # "idle" => worker[w].dispatch \in Dispatches /\ worker[w].job >= 1
        /\ \A v \in Workers : v # w => worker'[v] = worker[v]
        /\ resultsQueue \in Seq(Message) /\ Len(resultsQueue) \in Nat
    BY OtherWorkers, LenProperties DEF TypeInv, TypeOK
  <1>b. UNCHANGED <<row, deletion, resultRows, probeRows, consumer, released>>
    BY WorkerLeaves DEF WorkerNext, others, apiVars, resultVars
  <1> SUFFICES ASSUME ~released
               PROVE  OrderInv'
    BY <1>b DEF OrderInv
  <1>c. HandCovered' /\ \A d \in Dispatches : RowCovered(d)'
    BY <1>b DEF OrderInv, HandCovered, RowCovered, Kept, AtConsumer, StoredFindings
  <1> USE DEF Becomes
  \* the run publishes nothing
  <1>d. ASSUME resultsQueue' = resultsQueue,
               \/ worker'[w].stage = "idle"
               \/ worker'[w].probes = 0
               \/ /\ worker[w].stage # "idle"
                  /\ worker'[w].dispatch = worker[w].dispatch
                  /\ worker'[w].probes = worker[w].probes
        PROVE  OrderInv'
    <2>1. \A d \in Dispatches, i \in Nat :
            /\ Arrived(d, i)' = Arrived(d, i) /\ ProbesBy(d, i)' = ProbesBy(d, i)
            /\ ProbesBy(d, i) \in Nat
      <3>1. \A d \in Dispatches, i \in Nat : ProbesBy(d, i) \in Nat
        BY CoverTypes DEF TypeInv, TypeOK
      <3>2. QED
        BY <1>b, <1>d, <3>1 DEF Arrived, ProbesBy, InHand, QueuedBefore, AtConsumer
    <2>2. \A i \in 1 .. Len(resultsQueue') : CompletionCovered(i)'
      <3>1. \A m \in Message : m.dispatch \in Dispatches
        BY DEF Message
      <3>2. /\ \A i \in 1 .. Len(resultsQueue) : i \in Nat /\ CompletionCovered(i)
            /\ \A d \in Dispatches : Kept(d)' <=> Kept(d)
        BY <1>a, <1>b DEF OrderInv, Kept
      <3>3. QED
        BY <1>d, <2>1, <3>1, <3>2 DEF CompletionCovered
    <2>3. ASSUME NEW v \in Workers
          PROVE  RunCovered(v)'
      <3> SUFFICES ASSUME NEW d \in Dispatches, NEW i \in Nat, worker'[v].stage # "idle",
                          worker'[v].dispatch = d, Kept(d)', i = Len(resultsQueue') + 1
                   PROVE  worker'[v].probes <= ProbesBy(d, i)'
        BY DEF RunCovered
      <3>1. Kept(d) /\ i = Len(resultsQueue) + 1
        BY <1>b, <1>d DEF Kept
      <3>2. worker[v].stage # "idle" /\ worker[v].dispatch = d => worker[v].probes <= ProbesBy(d, i)
        BY <3>1 DEF OrderInv, RunCovered
      <3>3. \/ worker'[v].probes = 0
            \/ /\ worker[v].stage # "idle" /\ worker[v].dispatch = d
               /\ worker'[v].probes = worker[v].probes
        BY <1>a, <1>d
      <3>4. QED
        BY <2>1, <3>2, <3>3
    <2>4. QED
      BY <1>b, <1>c, <2>2, <2>3 DEF OrderInv
  \* it publishes no completion
  <1>e. ASSUME NEW m \in Message, Publish(m), m.kind # "completion",
               worker[w].stage # "idle", worker'[w].dispatch = worker[w].dispatch,
               worker'[w].probes <= worker[w].probes +
                 (IF m = ProbeMessage(worker[w].dispatch) THEN 1 ELSE 0)
        PROVE  OrderInv'
    <2>1. /\ \A i \in 1 .. Len(resultsQueue') : CompletionCovered(i)'
          /\ \A v \in Workers : RunCovered(v)'
      BY <1>a, <1>b, <1>e, PublishOrder DEF Publish
    <2>2. QED
      BY <1>b, <1>c, <2>1 DEF OrderInv
  <1>1. CASE ReceiveBatch(w)
    <2>1. worker'[w] = [stage |-> "received", dispatch |-> Head(batchQueue),
                     tokens |-> {}, leaks |-> 0, seen |-> {}, job |-> 1,
                     findings |-> 0, probes |-> 0]
      BY <1>1, <1>a DEF ReceiveBatch, IdleWorker
    <2>2. worker'[w].probes = 0
      BY <2>1
    <2>3. QED
      BY <1>1, <1>d, <2>2 DEF ReceiveBatch
  <1>2. CASE RejectBatch(w) \/ AckBatch(w) \/ WorkerCrash(w)
    <2>1. worker'[w].stage = "idle"
      BY <1>2, <1>a DEF RejectBatch, AckBatch, WorkerCrash, IdleWorker
    <2>2. QED
      BY <1>2, <1>d, <2>1 DEF RejectBatch, AckBatch, WorkerCrash
  <1>3. CASE DiscoveryFails(w) \/ DiscoverySucceeds(w) \/ PublishFails(w) \/ LoseCompletion(w)
    <2>1. /\ worker[w].stage # "idle"
          /\ worker'[w].dispatch = worker[w].dispatch
          /\ worker'[w].probes = worker[w].probes
      BY <1>3, <1>a DEF DiscoveryFails, DiscoverySucceeds, PublishFails,
         LoseCompletion, Publishing, RunReturns, Worker
    <2>2. QED
      BY <1>3, <1>d, <2>1 DEF DiscoveryFails, DiscoverySucceeds, PublishFails, LoseCompletion
  <1>4. ASSUME NEW t \in Tokens, PublishLeak(w, t)
        PROVE  OrderInv'
    <2>1. ResultMessage(worker[w].dispatch, TokenFinding[t]) \in Message
      BY <1>4, <1>a, MessageTypes, ScanAssumption DEF PublishLeak
    <2>2. /\ worker'[w].dispatch = worker[w].dispatch
          /\ worker'[w].probes = worker[w].probes /\ worker[w].probes \in Nat
      BY <1>4, <1>a DEF PublishLeak, Worker
    <2>3. QED
      BY <1>4, <1>e, <2>1, <2>2 DEF PublishLeak, ResultMessage, ProbeMessage
  <1>5. CASE PublishFinding(w)
    <2>1. JobFinding[worker[w].job] \in Findings
      BY <1>5, <1>a, ScanAssumption DEF PublishFinding, JobsLeft, Worker
    <2>2. ResultMessage(worker[w].dispatch, JobFinding[worker[w].job]) \in Message
      BY <1>5, <1>a, <2>1, MessageTypes DEF PublishFinding
    <2>3. /\ worker'[w].dispatch = worker[w].dispatch
          /\ worker'[w].probes = worker[w].probes /\ worker[w].probes \in Nat
      BY <1>5, <1>a DEF PublishFinding, Worker
    <2>4. QED
      BY <1>5, <1>e, <2>2, <2>3 DEF PublishFinding, ResultMessage, ProbeMessage
  <1>6. CASE FinishSecrets(w) \/ PublishProbe(w)
    <2>1. /\ worker[w].stage # "idle"
          /\ ProbeMessage(worker[w].dispatch) \in Message
          /\ Publish(ProbeMessage(worker[w].dispatch))
          /\ ProbeMessage(worker[w].dispatch).kind # "completion"
      BY <1>6, <1>a, MessageTypes DEF FinishSecrets, PublishProbe, ProbeMessage
    <2>2. /\ worker'[w].dispatch = worker[w].dispatch /\ worker[w].probes \in Nat
          /\ worker'[w].probes \in {1, worker[w].probes + 1}
      BY <1>6, <1>a DEF FinishSecrets, PublishProbe, Worker
    <2>3. worker'[w].probes <= worker[w].probes +
            (IF ProbeMessage(worker[w].dispatch) = ProbeMessage(worker[w].dispatch) THEN 1 ELSE 0)
      BY <2>2
    <2>4. QED
      BY <1>e, <2>1, <2>2, <2>3
  <1>7. CASE PublishCompletion(w)
    <2> DEFINE d == worker[w].dispatch
               m == CompletionMessage(d, worker[w].stage = "failed",
                                      worker[w].findings, worker[w].probes)
    <2>1. /\ m \in Message /\ Publish(m) /\ worker[w].stage # "idle" /\ d \in Dispatches
          /\ worker[w].findings \in Nat /\ worker[w].probes \in Nat
      BY <1>7, <1>a, MessageTypes DEF PublishCompletion, RunReturns, Worker
    <2>2. m.dispatch = d /\ m.findings = worker[w].findings /\ m.probes = worker[w].probes
      BY DEF CompletionMessage
    <2>3. worker'[w].dispatch = d /\ worker'[w].probes = worker[w].probes
      BY <1>7, <1>a DEF PublishCompletion, Worker
    <2>4. ASSUME Kept(d), NEW i \in Nat, i = Len(resultsQueue) + 1
          PROVE  /\ worker[w].findings <= Cardinality(Arrived(d, i))
                 /\ worker[w].probes <= ProbesBy(d, i)
      <3>1. Ran(w) \subseteq sent[d] /\ sent[d] \subseteq Findings
        BY <2>1 DEF RunInv, TypeInv, TypeOK
      <3>2. Ran(w) \subseteq Arrived(d, i)
        <4> SUFFICES ASSUME NEW f \in Ran(w)
                     PROVE  f \in Arrived(d, i)
          OBVIOUS
        <4>1. f \in Findings /\ Somewhere(d, f)
          BY <2>1, <2>4, <3>1 DEF NoResultLost, Somewhere, Kept
        <4>2. InResultsQueue(ResultMessage(d, f)) => QueuedBefore(ResultMessage(d, f), i)
          <5>1. i - 1 = Len(resultsQueue)
            BY <1>a, <2>4
          <5>2. QED
            BY <5>1 DEF InResultsQueue, QueuedBefore
        <4>3. QED
          BY <4>1, <4>2 DEF Arrived, Somewhere
      <3>3. worker[w].findings <= Cardinality(Ran(w))
        BY <2>1 DEF RunInv
      <3>4. Ran(w) \in SUBSET Findings /\ Arrived(d, i) \in SUBSET Findings
        BY <3>1 DEF Arrived
      <3>5. worker[w].findings <= Cardinality(Arrived(d, i))
        BY <2>1, <3>2, <3>3, <3>4, CoverStays
      <3>6. worker[w].probes <= ProbesBy(d, i)
        BY <2>1, <2>4 DEF OrderInv, RunCovered
      <3>7. QED
        BY <3>5, <3>6
    <2> HIDE DEF m
    <2>5. worker'[w].probes <= worker[w].probes + (IF m = ProbeMessage(d) THEN 1 ELSE 0)
      BY <2>1, <2>3
    <2>6. m.kind = "completion" /\ Kept(m.dispatch) =>
            \A i \in Nat : i = Len(resultsQueue) + 1 =>
              /\ m.findings <= Cardinality(Arrived(m.dispatch, i))
              /\ m.probes <= ProbesBy(m.dispatch, i)
      BY <2>2, <2>4
    <2>7. /\ \A i \in 1 .. Len(resultsQueue') : CompletionCovered(i)'
          /\ \A v \in Workers : RunCovered(v)'
      BY <1>a, <1>b, <2>1, <2>3, <2>5, <2>6, PublishOrder DEF Publish
    <2>8. QED
      BY <1>b, <1>c, <2>7 DEF OrderInv
  <1>8. QED
    BY <1>1, <1>2, <1>3, <1>4, <1>5, <1>6, <1>7 DEF WorkerStep, WorkerFault

LEMMA OrderApi == OwnPairs /\ TypeInv /\ QueuedInv /\ OrderInv /\ ApiNext => OrderInv'
  <1> SUFFICES ASSUME OwnPairs, TypeInv, QueuedInv, OrderInv, NEW c \in Dispatches,
                      \/ StoreDispatch(c) \/ StoreAcknowledgment(c)
                      \/ PublishBatch(c)  \/ TrackPending(c)
                      \/ DeleteResults(c) \/ DeleteProbes(c) \/ DeleteRow(c)
               PROVE  OrderInv'
    BY DEF ApiNext
  <1>a. /\ row \in [Dispatches -> DispatchRow]
        /\ resultRows \in [Dispatches -> [Findings -> Nat]]
        /\ probeRows \in [Dispatches -> Nat]
        /\ deletion \in [Dispatches -> {"idle", "results", "probes", "done"}]
        /\ resultsQueue \in Seq(Message)
    BY DEF TypeInv, TypeOK
  <1>b. UNCHANGED <<resultsQueue, consumer, worker, released>>
    BY DEF StoreDispatch, StoreAcknowledgment, PublishBatch, TrackPending,
       DeleteResults, DeleteProbes, DeleteRow, history
  \* a dispatch that is still kept is as it was, or new
  <1>c. ASSUME NEW d \in Dispatches, Kept(d)'
        PROVE  \/ /\ Kept(d) /\ row'[d] = row[d]
                  /\ resultRows'[d] = resultRows[d] /\ probeRows'[d] = probeRows[d]
               \/ ~Queued(d) /\ ~row'[d].completedAt
    <2>1. CASE \/ StoreAcknowledgment(c) \/ PublishBatch(c) \/ TrackPending(c)
      BY <2>1, <1>c DEF StoreAcknowledgment, PublishBatch, TrackPending, resultVars, Kept
    <2>2. CASE StoreDispatch(c)
      <3>1. CASE d # c
        BY <2>2, <3>1, <1>a, <1>c DEF StoreDispatch, resultVars, Kept
      <3>2. CASE d = c
        <4>1. row'[d] = [AbsentRow EXCEPT !.exists = TRUE]
          BY <2>2, <3>2, <1>a DEF StoreDispatch
        <4>2. QED
          BY <2>2, <3>2, <4>1 DEF StoreDispatch, AbsentRow, Queued
      <3>3. QED
        BY <3>1, <3>2
    <2>3. CASE DeleteResults(c) \/ DeleteProbes(c) \/ DeleteRow(c)
      <3>1. deletion'[c] # "idle"
        BY <2>3, <1>a DEF DeleteResults, DeleteProbes, DeleteRow
      <3>2. d # c
        BY <3>1, <1>c DEF Kept
      <3>3. QED
        BY <2>3, <3>2, <1>a, <1>c DEF DeleteResults, DeleteProbes, DeleteRow, Kept
    <2>4. QED
      BY <2>1, <2>2, <2>3
  <1> SUFFICES ASSUME ~released
               PROVE  OrderInv'
    BY <1>b DEF OrderInv
  <1>d. ASSUME NEW d \in Dispatches, Kept(d)', Queued(d), NEW i \in Nat
        PROVE  /\ Kept(d) /\ row'[d] = row[d]
               /\ Arrived(d, i)' = Arrived(d, i) /\ ProbesBy(d, i)' = ProbesBy(d, i)
               /\ StoredFindings(d)' = StoredFindings(d) /\ probeRows'[d] = probeRows[d]
               /\ resultRows'[d] = resultRows[d]
    <2>1. /\ Kept(d) /\ row'[d] = row[d]
          /\ resultRows'[d] = resultRows[d] /\ probeRows'[d] = probeRows[d]
      BY <1>c, <1>d
    <2>2. Arrived(d, i)' = Arrived(d, i) /\ StoredFindings(d)' = StoredFindings(d)
      BY <1>b, <2>1 DEF Arrived, StoredFindings, QueuedBefore, AtConsumer
    <2>3. ProbesBy(d, i)' = ProbesBy(d, i)
      BY <1>b, <2>1 DEF ProbesBy, InHand
    <2>4. QED
      BY <2>1, <2>2, <2>3
  <1>e. \A m \in Message : m.dispatch \in Dispatches
    BY DEF Message
  <1>1. ASSUME NEW i \in 1 .. Len(resultsQueue')
        PROVE  CompletionCovered(i)'
    <2> SUFFICES ASSUME NEW m \in Message, resultsQueue'[i] = m,
                        m.kind = "completion", Kept(m.dispatch)'
                 PROVE  /\ m.findings <= Cardinality(Arrived(m.dispatch, i)')
                        /\ m.probes <= ProbesBy(m.dispatch, i)'
      BY DEF CompletionCovered
    <2>1. i \in 1 .. Len(resultsQueue) /\ resultsQueue[i] = m /\ i \in Nat
      BY <1>b
    <2>2. Queued(m.dispatch)
      BY <2>1 DEF QueuedInv
    <2>3. QED
      BY <1>d, <1>e, <2>1, <2>2 DEF OrderInv, CompletionCovered
  <1>2. HandCovered'
    <2> SUFFICES ASSUME NEW m \in Message, AtConsumer(m), Kept(m.dispatch)'
                 PROVE  /\ m.kind = "completion" =>
                             /\ m.findings <= Cardinality(StoredFindings(m.dispatch)')
                             /\ m.probes <= probeRows'[m.dispatch]
                        /\ m.kind = "result" /\ consumer.stage = "ack" =>
                             resultRows'[m.dispatch][m.finding] > 0
      BY <1>b DEF HandCovered, AtConsumer
    <2>1. Queued(m.dispatch) /\ m.dispatch \in Dispatches /\ 0 \in Nat
      BY <1>e DEF QueuedInv, AtConsumer
    <2>2. Kept(m.dispatch) /\ HandCovered
      BY <1>d, <2>1 DEF OrderInv
    <2>3. QED
      BY <1>d, <2>1, <2>2 DEF HandCovered
  <1>3. ASSUME NEW w \in Workers
        PROVE  RunCovered(w)'
    <2> SUFFICES ASSUME NEW d \in Dispatches, NEW i \in Nat, worker[w].stage # "idle",
                        worker[w].dispatch = d, Kept(d)', i = Len(resultsQueue) + 1
                 PROVE  worker[w].probes <= ProbesBy(d, i)'
      BY <1>b DEF RunCovered
    <2>1. Queued(d)
      BY DEF QueuedInv
    <2>2. QED
      BY <1>d, <2>1 DEF OrderInv, RunCovered
  <1>4. ASSUME NEW d \in Dispatches
        PROVE  RowCovered(d)'
    <2>1. CASE Kept(d)' /\ row'[d].completedAt
      <3>1. /\ Kept(d) /\ row'[d] = row[d]
            /\ resultRows'[d] = resultRows[d] /\ probeRows'[d] = probeRows[d]
        BY <1>c, <2>1
      <3>2. StoredFindings(d)' = StoredFindings(d)
        BY <3>1 DEF StoredFindings
      <3>3. QED
        BY <2>1, <3>1, <3>2 DEF OrderInv, RowCovered
    <2>2. QED
      BY <2>1 DEF RowCovered
  <1>5. QED
    BY <1>1, <1>2, <1>3, <1>4 DEF OrderInv

LEMMA OrderFrame ==
  ASSUME OrderInv,
         UNCHANGED <<row, deletion, resultRows, probeRows, resultsQueue, consumer,
                     worker, released>>
  PROVE  OrderInv'
  <1>1. \A d, i : Arrived(d, i)' = Arrived(d, i) /\ ProbesBy(d, i)' = ProbesBy(d, i)
    BY DEF Arrived, ProbesBy, InHand, QueuedBefore, AtConsumer
  <1>2. \A d : StoredFindings(d)' = StoredFindings(d) /\ (Kept(d)' <=> Kept(d))
    BY DEF StoredFindings, Kept
  <1>3. \A m : AtConsumer(m)' <=> AtConsumer(m)
    BY DEF AtConsumer
  <1>4. \A i : CompletionCovered(i) => CompletionCovered(i)'
    BY <1>1, <1>2 DEF CompletionCovered
  <1>5. HandCovered => HandCovered'
    BY <1>2, <1>3 DEF HandCovered
  <1>6. \A w : RunCovered(w) => RunCovered(w)'
    BY <1>1, <1>2 DEF RunCovered
  <1>7. \A d : RowCovered(d) => RowCovered(d)'
    BY <1>2 DEF RowCovered
  <1>8. QED
    BY <1>4, <1>5, <1>6, <1>7 DEF OrderInv

\* A scan that is shown completed has in the tables at least what its counts
\* say, as long as no message was released, through every crash and redelivery:
\* the completion of a run is behind what the run published, the consumer takes
\* the queue in order, and a crash puts a message back where it was.
THEOREM CompletedStored == ASSUME OwnPairs PROVE Spec => []CompletedIsStored
  <1> DEFINE IInv == RunInv /\ OrderInv
  <1>1. Init => IInv
    BY RunInit, OrderInit
  <1>2. TypeInv /\ TypeInv' /\ QueuedInv /\ KeptInv /\ IInv /\ [Next]_vars => IInv'
    <2> SUFFICES ASSUME TypeInv, TypeInv', QueuedInv, KeptInv, IInv, [Next]_vars
                 PROVE  IInv'
      OBVIOUS
    <2>1. RunInv'
      BY RunStep
    <2>2. OrderInv'
      <3>1. CASE ApiNext
        BY <3>1, OrderApi
      <3>2. CASE WorkerNext
        BY <3>2, OrderWorker DEF WorkerNext, KeptInv
      <3>3. CASE ConsumerStep \/ ConsumerFault
        BY <3>3, OrderConsumer DEF KeptInv
      <3>4. CASE InboxNext
        BY <3>4, InboxLeaves, OrderFrame DEF notOurs, apiVars, resultVars, history
      <3>5. CASE UNCHANGED vars
        BY <3>5, OrderFrame DEF vars
      <3>6. QED
        BY <3>1, <3>2, <3>3, <3>4, <3>5 DEF Next
    <2>3. QED
      BY <2>1, <2>2
  <1>3. TypeInv /\ IInv => CompletedIsStored
    <2> SUFFICES ASSUME TypeInv, IInv, NEW d \in Dispatches, row[d].exists,
                        row[d].completedAt, deletion[d] = "idle", ~released
                 PROVE  /\ Cardinality(StoredFindings(d)) >= row[d].findings
                        /\ probeRows[d] >= row[d].probes
      BY DEF CompletedIsStored
    <2>1. /\ row[d].findings <= Cardinality(StoredFindings(d))
          /\ row[d].probes <= probeRows[d]
      BY DEF OrderInv, RowCovered, Kept
    <2>2. QED
      BY <2>1
  <1>4. QED
    BY <1>1, <1>2, <1>3, StrongTyping, UnderWayQueued, ResultsKept, PTL DEF Spec

-----------------------------------------------------------------------------
(* The inbox: the consumer and any number of reconciling sessions finalise  *)
(* the same notifications; each acts on an outcome it has seen in the       *)
(* dispatch row, and a dispatch that had one keeps one until it is deleted. *)

\* A dispatch that was created and is finished or deleted by now.
Settled(d) == request[d] # "none" /\ (Finished(d) \/ ~row[d].exists)

\* Whoever is about to announce an outcome.
ConsumerAnnounces ==
  consumer.stage \in {"notify", "save"} => Settled(consumer.msg.dispatch)

BellAnnounces ==
  \A s \in Sessions :
    /\ bell[s].stage \in {"found", "loaded"} => \A d \in bell[s].listed : Settled(d)
    /\ bell[s].stage = "loaded" => bell[s].current \in bell[s].listed

NoticeInv == ConsumerAnnounces /\ BellAnnounces

LEMMA NoticeInit == Init => NoticeInv
  BY DEF Init, NoticeInv, ConsumerAnnounces, BellAnnounces, IdleConsumer, IdleBell

\* The row after a completion exists as before and is not pending.
LEMMA CompletedRowStatus ==
  ASSUME NEW r \in DispatchRow, NEW m \in Message
  PROVE  /\ CompletedRow(r, m).exists = r.exists
         /\ ScanStatus(CompletedRow(r, m)) # "pending"
  BY DEF CompletedRow, DispatchRow, Message, ScanStatus

LEMMA SettledStays ==
  ASSUME TypeInv, [Next]_vars, NEW d \in Dispatches, Settled(d)
  PROVE  Settled(d)'
  <1>a. /\ row \in [Dispatches -> DispatchRow]
        /\ request \in [Dispatches ->
             {"none", "stored", "acknowledged", "published", "answered"}]
    BY DEF TypeInv, TypeOK
  <1>1. CASE UNCHANGED <<row, request>>
    BY <1>1 DEF Settled, Finished
  <1>2. ASSUME NEW c \in Dispatches,
               \/ StoreDispatch(c) \/ StoreAcknowledgment(c)
               \/ PublishBatch(c)  \/ TrackPending(c)
        PROVE  Settled(d)'
    <2>1. request'[d] # "none" /\ (c # d \/ ~StoreDispatch(c))
      BY <1>2, <1>a DEF StoreDispatch, StoreAcknowledgment, PublishBatch,
         TrackPending, Settled
    <2>2. row'[d] = row[d]
      BY <1>2, <1>a, <2>1 DEF StoreDispatch, StoreAcknowledgment, PublishBatch,
         TrackPending
    <2>3. QED
      BY <2>1, <2>2 DEF Settled, Finished
  <1>3. ASSUME NEW c \in Dispatches, DeleteResults(c) \/ DeleteProbes(c)
        PROVE  Settled(d)'
    BY <1>1, <1>3 DEF DeleteResults, DeleteProbes
  <1>4. ASSUME NEW c \in Dispatches, DeleteRow(c)
        PROVE  Settled(d)'
    <2>1. request' = request /\ row' = [row EXCEPT ![c] = AbsentRow]
      BY <1>4 DEF DeleteRow
    <2>2. ~AbsentRow.exists
      BY DEF AbsentRow
    <2>3. QED
      BY <1>a, <2>1, <2>2 DEF Settled, Finished
  <1>5. CASE UpdateDispatch
    <2> DEFINE c == consumer.msg.dispatch
    <2>1. consumer.msg \in Message /\ c \in Dispatches
      BY <1>5 DEF UpdateDispatch, TypeInv, Message
    <2>2. /\ request' = request
          /\ \/ row' = row
             \/ row' = [row EXCEPT ![c] = CompletedRow(row[c], consumer.msg)]
      BY <1>5 DEF UpdateDispatch, untouched, apiVars, msg
    <2>3. QED
      BY <1>a, <2>1, <2>2, CompletedRowStatus DEF Settled, Finished
  <1>6. CASE (ConsumerStep /\ ~UpdateDispatch) \/ ConsumerFault
    BY <1>1, <1>6 DEF ConsumerStep, ConsumerFault, TakeMessage, LookUpDispatch,
         CheckExisting, InsertResult, InsertProbe, LoadNotification,
         SaveNotification, ReleaseMessage, AckMessage, DatabaseFails,
         ConsumerCrash, untouched, apiVars
  <1>7. CASE WorkerNext
    BY <1>1, <1>7, WorkerLeaves DEF others, apiVars
  <1>8. CASE InboxNext
    BY <1>1, <1>8, InboxLeaves DEF notOurs, apiVars
  <1>9. CASE UNCHANGED vars
    BY <1>1, <1>9 DEF vars
  <1>10. QED
    BY <1>2, <1>3, <1>4, <1>5, <1>6, <1>7, <1>8, <1>9 DEF Next, ApiNext

-----------------------------------------------------------------------------
\* The consumer gets to the notification through the update of the row.
LEMMA ConsumerStepAnnounces ==
  ASSUME TypeInv, QueuedInv, NoticeInv, [Next]_vars
  PROVE  ConsumerAnnounces'
  <1>a. /\ consumer \in Consumer /\ row \in [Dispatches -> DispatchRow]
        /\ consumer.stage # "idle" =>
             consumer.msg \in Message /\ consumer.msg.dispatch \in Dispatches
    BY DEF TypeInv, TypeOK, Message
  <1>1. ASSUME consumer.stage \in {"notify", "save"}, consumer'.msg = consumer.msg
        PROVE  ConsumerAnnounces'
    BY <1>1, <1>a, SettledStays DEF NoticeInv, ConsumerAnnounces
  <1>2. CASE consumer' = consumer
    BY <1>1, <1>2 DEF ConsumerAnnounces
  <1>3. ASSUME consumer'.stage \notin {"notify", "save"}
        PROVE  ConsumerAnnounces'
    BY <1>3 DEF ConsumerAnnounces
  <1>4. CASE UpdateDispatch
    <2>1. /\ consumer.msg \in Message /\ consumer.msg.dispatch \in Dispatches
          /\ Queued(consumer.msg.dispatch) /\ consumer'.msg = consumer.msg
          /\ request' = request
      BY <1>4, <1>a, GoToFields DEF UpdateDispatch, QueuedInv, untouched, apiVars
    <2>2. \/ consumer'.stage = "raised"
          \/ /\ row[consumer.msg.dispatch].exists
             /\ row' = [row EXCEPT ![consumer.msg.dispatch] =
                          CompletedRow(row[consumer.msg.dispatch], consumer.msg)]
      BY <1>4, <1>a, GoToFields DEF UpdateDispatch, msg
    <2>3. CASE row' = [row EXCEPT ![consumer.msg.dispatch] =
                         CompletedRow(row[consumer.msg.dispatch], consumer.msg)]
               /\ row[consumer.msg.dispatch].exists
      <3>1. Finished(consumer.msg.dispatch)'
        BY <1>a, <2>1, <2>3, CompletedRowStatus DEF Finished
      <3>2. QED
        BY <2>1, <3>1 DEF ConsumerAnnounces, Settled, Queued
    <2>4. QED
      BY <1>3, <2>2, <2>3
  <1>5. CASE LoadNotification \/ SaveNotification
    <2>1. consumer.stage \in {"notify", "save"}
      BY <1>5 DEF LoadNotification, SaveNotification
    <2>2. CASE LoadNotification
      <3>1. consumer'.msg = consumer.msg
        BY <1>a, <2>2 DEF LoadNotification, GoTo, Consumer
      <3>2. QED
        BY <1>1, <2>1, <3>1
    <2>3. CASE SaveNotification
      BY <1>1, <1>a, <2>1, <2>3, GoToFields DEF SaveNotification
    <2>4. QED
      BY <1>5, <2>2, <2>3
  <1>6. CASE TakeMessage
    BY <1>3, <1>6, TakenFields
  <1>7. CASE LookUpDispatch
    <2>1. consumer.msg.kind \in {"result", "probe", "completion"}
      BY <1>7, <1>a DEF LookUpDispatch, Message
    <2>2. FirstStage(consumer.msg.kind) \in {"check", "insert", "update"}
      BY <2>1 DEF FirstStage
    <2>3. consumer'.stage \in {"raised", FirstStage(consumer.msg.kind)}
      BY <1>7, <1>a, GoToFields DEF LookUpDispatch, msg
    <2>4. QED
      BY <1>3, <2>2, <2>3
  <1>8. CASE \/ CheckExisting \/ InsertResult \/ InsertProbe \/ DatabaseFails
             \/ ReleaseMessage
    BY <1>3, <1>8, <1>a, GoToFields DEF CheckExisting, InsertResult, InsertProbe,
       DatabaseFails, ReleaseMessage
  <1>9. CASE AckMessage \/ ConsumerCrash
    BY <1>3, <1>9 DEF AckMessage, ConsumerCrash, IdleConsumer
  <1>10. CASE ApiNext
    BY <1>2, <1>10 DEF ApiNext, StoreDispatch, StoreAcknowledgment, PublishBatch,
       TrackPending, DeleteResults, DeleteProbes, DeleteRow
  <1>11. CASE WorkerNext
    BY <1>2, <1>11, WorkerLeaves DEF others
  <1>12. CASE InboxNext
    BY <1>2, <1>12, InboxLeaves DEF notOurs
  <1>13. CASE UNCHANGED vars
    BY <1>2, <1>13 DEF vars
  <1>14. QED
    BY <1>4, <1>5, <1>6, <1>7, <1>8, <1>9, <1>10, <1>11, <1>12, <1>13
       DEF Next, ConsumerStep, ConsumerFault

\* A bell announces only what it found finished.
LEMMA BellStepAnnounces ==
  ASSUME TypeInv, RowInv, NoticeInv, [Next]_vars
  PROVE  BellAnnounces'
  <1>a. /\ bell \in [Sessions -> Bell]
        /\ \A s \in Sessions : bell[s].listed \subseteq Dispatches
    BY DEF TypeInv, TypeOK, Bell
  <1>b. \A d \in Dispatches : Settled(d) => Settled(d)'
    BY SettledStays
  <1>1. CASE bell' = bell
    BY <1>1, <1>a, <1>b DEF NoticeInv, BellAnnounces
  <1>2. ASSUME NEW s \in Sessions,
               \A z \in Sessions : z # s => bell'[z] = bell[z],
               bell'[s].stage \in {"found", "loaded"} =>
                 \A d \in bell'[s].listed : d \in Dispatches /\ Settled(d),
               bell'[s].stage = "loaded" => bell'[s].current \in bell'[s].listed
        PROVE  BellAnnounces'
    <2> SUFFICES ASSUME NEW z \in Sessions
                 PROVE  /\ bell'[z].stage \in {"found", "loaded"} =>
                             \A d \in bell'[z].listed : Settled(d)'
                        /\ bell'[z].stage = "loaded" => bell'[z].current \in bell'[z].listed
      BY DEF BellAnnounces
    <2>1. CASE z = s
      BY <1>2, <1>b, <2>1
    <2>2. CASE z # s
      BY <1>2, <1>a, <1>b, <2>2 DEF NoticeInv, BellAnnounces
    <2>3. QED
      BY <2>1, <2>2
  <1>3. ASSUME NEW s \in Sessions, BellList(s)
        PROVE  BellAnnounces'
    <2> DEFINE pending == {d \in Dispatches : notification[d].status = "pending"}
    <2>1. bell' = [bell EXCEPT ![s] = [IdleBell EXCEPT !.stage = "listed",
                                                       !.listed = pending]]
      BY <1>3 DEF BellList
    <2>2. [IdleBell EXCEPT !.stage = "listed", !.listed = pending].stage = "listed"
      BY DEF IdleBell
    <2> HIDE DEF pending
    <2>3. bell'[s].stage = "listed" /\ \A z \in Sessions : z # s => bell'[z] = bell[z]
      BY <1>a, <2>1, <2>2
    <2>4. QED
      BY <1>2, <2>3
  <1>4. ASSUME NEW s \in Sessions, BellFindFinished(s)
        PROVE  BellAnnounces'
    <2> DEFINE finished == {d \in bell[s].listed :
                              row[d].exists /\ ScanStatus(row[d]) # "pending"}
    <2>1. bell' = [bell EXCEPT
            ![s].stage = After(finished),
            ![s].listed = finished,
            ![s].outcome = [d \in Dispatches |-> ScanStatus(row[d])]]
      BY <1>4 DEF BellFindFinished
    <2>2. \A d \in finished : d \in Dispatches /\ Settled(d)
      BY <1>a DEF RowInv, Settled, Finished
    <2>3. After(finished) \in {"idle", "found"}
      BY DEF After
    <2> HIDE DEF finished
    <2>4. /\ bell'[s].stage = After(finished) /\ bell'[s].listed = finished
          /\ \A z \in Sessions : z # s => bell'[z] = bell[z]
      BY <1>a, <2>1 DEF Bell
    <2>5. QED
      BY <1>2, <2>2, <2>3, <2>4
  <1>5. ASSUME NEW s \in Sessions, NEW d \in Dispatches, BellLoad(s, d)
        PROVE  BellAnnounces'
    <2>1. \A c \in bell[s].listed : c \in Dispatches /\ Settled(c)
      BY <1>5, <1>a DEF BellLoad, NoticeInv, BellAnnounces
    <2>2. d \in bell[s].listed
      BY <1>5 DEF BellLoad
    <2>3. CASE bell' = [bell EXCEPT ![s].listed = bell[s].listed \ {d},
                                    ![s].stage = After(bell[s].listed \ {d})]
      <3>1. /\ bell'[s].listed = bell[s].listed \ {d}
            /\ bell'[s].stage = After(bell[s].listed \ {d})
            /\ \A z \in Sessions : z # s => bell'[z] = bell[z]
        BY <1>a, <2>3 DEF Bell
      <3>2. After(bell[s].listed \ {d}) \in {"idle", "found"}
        BY DEF After
      <3>3. QED
        BY <1>2, <2>1, <3>1, <3>2
    <2>4. CASE bell' = [bell EXCEPT ![s].stage = "loaded", ![s].current = d,
                                    ![s].loaded = notification[d]]
      <3>1. /\ bell'[s].listed = bell[s].listed /\ bell'[s].current = d
            /\ \A z \in Sessions : z # s => bell'[z] = bell[z]
        BY <1>a, <2>4 DEF Bell
      <3>2. QED
        BY <1>2, <2>1, <2>2, <3>1
    <2>5. QED
      BY <1>5, <2>3, <2>4 DEF BellLoad
  <1>6. ASSUME NEW s \in Sessions, BellSave(s)
        PROVE  BellAnnounces'
    <2> DEFINE left == bell[s].listed \ {bell[s].current}
    <2>1. bell' = [bell EXCEPT ![s].listed = left, ![s].stage = After(left)]
      BY <1>6 DEF BellSave
    <2>2. \A c \in left : c \in Dispatches /\ Settled(c)
      BY <1>6, <1>a DEF BellSave, NoticeInv, BellAnnounces
    <2>3. After(left) \in {"idle", "found"}
      BY DEF After
    <2> HIDE DEF left
    <2>4. /\ bell'[s].listed = left /\ bell'[s].stage = After(left)
          /\ \A z \in Sessions : z # s => bell'[z] = bell[z]
      BY <1>a, <2>1 DEF Bell
    <2>5. QED
      BY <1>2, <2>2, <2>3, <2>4
  <1>7. CASE /\ InboxNext
             /\ \A s \in Sessions : ~BellStep(s)
    BY <1>1, <1>7 DEF InboxNext, MarkRead, MarkAllRead, Destroy, DestroyAll
  <1>8. CASE ApiNext
    BY <1>1, <1>8 DEF ApiNext, StoreDispatch, StoreAcknowledgment, PublishBatch,
       TrackPending, DeleteResults, DeleteProbes, DeleteRow
  <1>9. CASE WorkerNext
    BY <1>1, <1>9, WorkerLeaves DEF others
  <1>10. CASE ConsumerStep \/ ConsumerFault
    BY <1>1, <1>10, ConsumerLeaves DEF untouched
  <1>11. CASE UNCHANGED vars
    BY <1>1, <1>11 DEF vars
  <1>12. QED
    BY <1>3, <1>4, <1>5, <1>6, <1>7, <1>8, <1>9, <1>10, <1>11
       DEF Next, InboxNext, BellStep

-----------------------------------------------------------------------------
LEMMA NoticesSettled == Spec => []NoticeInv
  <1>1. TypeInv /\ QueuedInv /\ RowInv /\ NoticeInv /\ [Next]_vars => NoticeInv'
    BY ConsumerStepAnnounces, BellStepAnnounces DEF NoticeInv
  <1>2. QED
    BY <1>1, NoticeInit, StrongTyping, UnderWayQueued, RowsQueued, PTL DEF Spec

\* A notification leaves pending for an outcome only when the dispatch has
\* one or is gone, whichever of the consumer and the sessions writes it.
THEOREM NoticeAfterOutcome == Spec => OutcomeBeforeNotice
  <1> DEFINE Told(d) == /\ notification[d].status = "pending"
                        /\ notification'[d].status \in {"completed", "failed"}
             Step == \A d \in Dispatches : Told(d) => Finished(d) \/ ~row[d].exists
  <1>1. TypeInv /\ NoticeInv /\ [Next]_vars => [Step]_vars
    <2> SUFFICES ASSUME TypeInv, NoticeInv, Next, NEW d \in Dispatches, Told(d)
                 PROVE  Finished(d) \/ ~row[d].exists
      OBVIOUS
    <2>a. /\ notification \in [Dispatches -> Notification]
          /\ bell \in [Sessions -> Bell]
      BY DEF TypeInv, TypeOK
    <2>1. CASE notification' = notification
      BY <2>1
    <2>2. CASE SaveNotification
      <3>1. /\ Settled(consumer.msg.dispatch)
            /\ \E n : notification' = [notification EXCEPT ![consumer.msg.dispatch] = n]
        BY <2>2 DEF SaveNotification, NoticeInv, ConsumerAnnounces, msg
      <3>2. d = consumer.msg.dispatch
        BY <2>a, <3>1
      <3>3. QED
        BY <3>1, <3>2 DEF Settled
    <2>3. ASSUME NEW s \in Sessions, BellSave(s)
          PROVE  Finished(d) \/ ~row[d].exists
      <3>1. /\ Settled(bell[s].current)
            /\ \E n : notification' = [notification EXCEPT ![bell[s].current] = n]
        BY <2>3 DEF BellSave, NoticeInv, BellAnnounces
      <3>2. d = bell[s].current
        BY <2>a, <3>1
      <3>3. QED
        BY <3>1, <3>2 DEF Settled
    <2>4. ASSUME NEW c \in Dispatches, TrackPending(c)
          PROVE  Finished(d) \/ ~row[d].exists
      BY <2>4, <2>a DEF TrackPending
    <2>5. ASSUME NEW c \in Dispatches, MarkRead(c) \/ Destroy(c)
          PROVE  Finished(d) \/ ~row[d].exists
      BY <2>5, <2>a DEF MarkRead, Destroy, NoNotification, Notification
    <2>6. CASE MarkAllRead \/ DestroyAll
      BY <2>6, <2>a DEF MarkAllRead, DestroyAll, NoNotification, Notification
    <2>7. CASE /\ ApiNext
               /\ \A c \in Dispatches : ~TrackPending(c)
      BY <2>1, <2>7 DEF ApiNext, StoreDispatch, StoreAcknowledgment,
         PublishBatch, DeleteResults, DeleteProbes, DeleteRow
    <2>8. CASE WorkerNext
      BY <2>1, <2>8, WorkerLeaves DEF others
    <2>9. CASE (ConsumerStep /\ ~SaveNotification) \/ ConsumerFault
      BY <2>1, <2>9 DEF ConsumerStep, ConsumerFault, TakeMessage, LookUpDispatch,
         CheckExisting, InsertResult, InsertProbe, UpdateDispatch,
         LoadNotification, ReleaseMessage, AckMessage, DatabaseFails, ConsumerCrash
    <2>10. ASSUME NEW s \in Sessions, BellStep(s) /\ ~BellSave(s)
           PROVE  Finished(d) \/ ~row[d].exists
      BY <2>1, <2>10 DEF BellStep, BellList, BellFindFinished, BellLoad
    <2>11. QED
      BY <2>2, <2>3, <2>4, <2>5, <2>6, <2>7, <2>8, <2>9, <2>10
         DEF Next, ApiNext, InboxNext
  <1>2. QED
    BY <1>1, StrongTyping, NoticesSettled, PTL DEF Spec, OutcomeBeforeNotice


-----------------------------------------------------------------------------
(* The inbox agrees with the scan.  Without a crash no batch is delivered   *)
(* twice, so a dispatch gets one completion, and once that has been written *)
(* to its row the outcome of the row does not change any more.             *)

\* Dispatches whose completion is still to be published.
Busy(w) == worker[w].stage \notin {"idle", "completed"}
Owed(d) == \/ InBatchQueue(d)
           \/ \E w \in Workers : Busy(w) /\ worker[w].dispatch = d

\* Completions that are queued or being handled.
Reported(m) == m.kind = "completion" /\ (AtConsumer(m) \/ InResultsQueue(m))

\* A batch is in one place.
OnceInv ==
  /\ \A i, j \in 1 .. Len(batchQueue) : batchQueue[i] = batchQueue[j] => i = j
  /\ \A v, w \in Workers :
       Busy(v) /\ Busy(w) /\ worker[v].dispatch = worker[w].dispatch => v = w
  /\ \A w \in Workers : Busy(w) => ~InBatchQueue(worker[w].dispatch)

\* All completions of a dispatch tell the same outcome, which is the one of
\* its row as soon as that has one, and no other can follow.
OutcomeInv ==
  /\ \A d \in Dispatches : Owed(d) => ~Finished(d)
  /\ \A m \in Message : Reported(m) =>
       /\ ~Owed(m.dispatch)
       /\ Finished(m.dispatch) => row[m.dispatch].failedAt = m.failed
  /\ \A m, n \in Message :
       Reported(m) /\ Reported(n) /\ m.dispatch = n.dispatch => m.failed = n.failed

\* Who has an outcome in hand has the one of the row.
AgreeInv ==
  /\ \A d \in Dispatches : notification[d].status # "none" => request[d] # "none"
  /\ \A s \in Sessions : bell[s].stage \in {"found", "loaded"} =>
       \A d \in bell[s].listed : row[d].exists => bell[s].outcome[d] = ScanStatus(row[d])
  /\ NotificationAgrees

LEMMA AgreeInit == Init => OnceInv /\ OutcomeInv /\ AgreeInv
  BY DEF Init, OnceInv, OutcomeInv, AgreeInv, Busy, Owed, Reported, InBatchQueue,
     AtConsumer, InResultsQueue, Finished, NotificationAgrees, IdleWorker,
     IdleConsumer, IdleBell, AbsentRow, NoNotification

-----------------------------------------------------------------------------
\* A worker that goes on with its batch, or is through with it.
LEMMA RunKept ==
  ASSUME TypeInv, NEW w \in Workers, WorkerStep(w) \/ WorkerFault(w),
         ~ReceiveBatch(w), ~WorkerCrash(w)
  PROVE  /\ batchQueue' = batchQueue
         /\ Busy(w)' => Busy(w) /\ worker'[w].dispatch = worker[w].dispatch
  <1>a. worker \in [Workers -> Worker] /\ worker[w] \in Worker
    BY DEF TypeInv, TypeOK
  <1> USE DEF Becomes, Busy
  <1>1. CASE RejectBatch(w) \/ AckBatch(w)
    BY <1>1, <1>a DEF RejectBatch, AckBatch, IdleWorker
  <1>2. CASE \/ DiscoveryFails(w) \/ DiscoverySucceeds(w) \/ PublishFails(w)
             \/ LoseCompletion(w) \/ PublishCompletion(w)
    BY <1>2, <1>a DEF DiscoveryFails, DiscoverySucceeds, PublishFails,
       LoseCompletion, PublishCompletion, Publishing, RunReturns, Worker
  <1>3. ASSUME NEW t \in Tokens, PublishLeak(w, t)
        PROVE  /\ batchQueue' = batchQueue
               /\ Busy(w)' => Busy(w) /\ worker'[w].dispatch = worker[w].dispatch
    BY <1>3, <1>a DEF PublishLeak, Worker
  <1>4. CASE FinishSecrets(w)
    BY <1>4, <1>a DEF FinishSecrets, Worker
  <1>5. CASE PublishFinding(w)
    BY <1>5, <1>a DEF PublishFinding, Worker
  <1>6. CASE PublishProbe(w)
    BY <1>6, <1>a DEF PublishProbe, Worker
  <1>7. QED
    BY <1>1, <1>2, <1>3, <1>4, <1>5, <1>6 DEF WorkerStep, WorkerFault

\* ... so it owes nothing it did not owe.
LEMMA OwedKept ==
  ASSUME TypeInv, NEW w \in Workers, WorkerStep(w) \/ WorkerFault(w),
         ~ReceiveBatch(w), ~WorkerCrash(w)
  PROVE  /\ \A v \in Workers : Busy(v)' =>
              Busy(v) /\ worker'[v].dispatch = worker[v].dispatch
         /\ \A d \in Dispatches : Owed(d)' => Owed(d)
  <1>1. \A v \in Workers : v # w => worker'[v] = worker[v]
    BY OtherWorkers DEF TypeInv, TypeOK
  <1>2. \A v \in Workers : Busy(v)' =>
              Busy(v) /\ worker'[v].dispatch = worker[v].dispatch
    BY <1>1, RunKept DEF Busy
  <1>3. batchQueue' = batchQueue
    BY RunKept
  <1>4. QED
    BY <1>2, <1>3 DEF Owed, InBatchQueue

\* A delivery moves the batch from the queue to the worker.
LEMMA Received ==
  ASSUME TypeInv, NEW w \in Workers, ReceiveBatch(w), OnceInv
  PROVE  /\ OnceInv'
         /\ \A d \in Dispatches : Owed(d)' => Owed(d)
  <1>a. batchQueue \in Seq(Dispatches) /\ worker \in [Workers -> Worker]
    BY DEF TypeInv, TypeOK
  <1>1. /\ batchQueue' = Tail(batchQueue)
        /\ Len(batchQueue) \in Nat \ {0}
        /\ Len(batchQueue') = Len(batchQueue) - 1
        /\ Head(batchQueue) = batchQueue[1]
        /\ Head(batchQueue) \in Dispatches
        /\ \A i \in 1 .. Len(batchQueue') : batchQueue'[i] = batchQueue[i + 1]
    BY <1>a, TailElements DEF ReceiveBatch
  <1>2. worker'[w] = [stage |-> "received", dispatch |-> Head(batchQueue),
                      tokens |-> {}, leaks |-> 0, seen |-> {}, job |-> 1,
                      findings |-> 0, probes |-> 0]
    BY <1>a DEF ReceiveBatch, Becomes, IdleWorker
  <1>3. /\ ~Busy(w)
        /\ \A v \in Workers : v # w => worker'[v] = worker[v]
    BY <1>a, OtherWorkers DEF ReceiveBatch, Busy, WorkerStep
  <1>4. \A d \in Dispatches : InBatchQueue(d)' => InBatchQueue(d) /\ d # Head(batchQueue)
    <2> SUFFICES ASSUME NEW d \in Dispatches, NEW i \in 1 .. Len(batchQueue'),
                        batchQueue'[i] = d
                 PROVE  InBatchQueue(d) /\ d # Head(batchQueue)
      BY DEF InBatchQueue
    <2>1. i + 1 \in 1 .. Len(batchQueue) /\ batchQueue[i + 1] = d
      BY <1>1
    <2>2. 1 \in 1 .. Len(batchQueue) /\ i + 1 # 1
      BY <1>1
    <2>3. QED
      BY <1>1, <2>1, <2>2 DEF InBatchQueue, OnceInv
  <1>5. InBatchQueue(Head(batchQueue))
    BY <1>1 DEF InBatchQueue
  <1>6. \A d \in Dispatches : Owed(d)' => Owed(d)
    BY <1>2, <1>3, <1>4, <1>5 DEF Owed, Busy
  <1>7. \A i, j \in 1 .. Len(batchQueue') : batchQueue'[i] = batchQueue'[j] => i = j
    <2> SUFFICES ASSUME NEW i \in 1 .. Len(batchQueue'), NEW j \in 1 .. Len(batchQueue'),
                        batchQueue'[i] = batchQueue'[j]
                 PROVE  i = j
      OBVIOUS
    <2>1. /\ i + 1 \in 1 .. Len(batchQueue) /\ j + 1 \in 1 .. Len(batchQueue)
          /\ batchQueue[i + 1] = batchQueue[j + 1]
      BY <1>1
    <2>2. i + 1 = j + 1
      BY <2>1 DEF OnceInv
    <2>3. QED
      BY <1>1, <2>2
  <1>8. ASSUME NEW v \in Workers, NEW u \in Workers, Busy(v)', Busy(u)',
               worker'[v].dispatch = worker'[u].dispatch
        PROVE  v = u
    BY <1>2, <1>3, <1>5, <1>8 DEF OnceInv, Busy
  <1>9. ASSUME NEW v \in Workers, Busy(v)'
        PROVE  ~InBatchQueue(worker[v].dispatch)'
    <2>1. CASE v = w
      BY <1>1, <1>2, <1>4, <2>1
    <2>2. CASE v # w
      <3>1. worker'[v] = worker[v] /\ Busy(v)
        BY <1>3, <1>9, <2>2 DEF Busy
      <3>2. worker[v].dispatch \in Dispatches
        BY <3>1 DEF TypeInv, Busy
      <3>3. QED
        BY <1>4, <3>1, <3>2 DEF OnceInv
    <2>3. QED
      BY <2>1, <2>2
  <1>10. QED
    BY <1>6, <1>7, <1>8, <1>9 DEF OnceInv

\* No batch gets to a second place without a crash.
LEMMA OnceStep ==
  ASSUME TypeInv, QueuedInv, OnceInv, "crash" \notin Faults, [Next]_vars
  PROVE  OnceInv'
  <1>a. /\ batchQueue \in Seq(Dispatches) /\ Len(batchQueue) \in Nat
        /\ \A w \in Workers : Busy(w) => worker[w].dispatch \in Dispatches
    BY LenProperties DEF TypeInv, TypeOK, Busy
  <1>1. CASE UNCHANGED <<batchQueue, worker>>
    BY <1>1 DEF OnceInv, Busy, InBatchQueue
  <1>2. ASSUME NEW d \in Dispatches, PublishBatch(d)
        PROVE  OnceInv'
    <2>1. /\ Len(batchQueue') = Len(batchQueue) + 1
          /\ \A i \in 1 .. Len(batchQueue) : batchQueue'[i] = batchQueue[i]
          /\ batchQueue'[Len(batchQueue) + 1] = d
          /\ worker' = worker
      BY <1>2, <1>a, AppendElements DEF PublishBatch
    <2>2. ~Queued(d)
      BY <1>2 DEF PublishBatch, Queued
    <2>3. /\ \A i \in 1 .. Len(batchQueue) : batchQueue[i] # d
          /\ \A w \in Workers : Busy(w) => worker[w].dispatch # d
      BY <2>2 DEF QueuedInv, Busy
    <2>4. \A c \in Dispatches : InBatchQueue(c)' => InBatchQueue(c) \/ c = d
      <3> SUFFICES ASSUME NEW c \in Dispatches, NEW i \in 1 .. Len(batchQueue'),
                          batchQueue'[i] = c
                   PROVE  InBatchQueue(c) \/ c = d
        BY DEF InBatchQueue
      <3>1. i \in 1 .. Len(batchQueue) \/ i = Len(batchQueue) + 1
        BY <1>a, <2>1
      <3>2. QED
        BY <2>1, <3>1 DEF InBatchQueue
    <2>5. ASSUME NEW i \in 1 .. Len(batchQueue'), NEW j \in 1 .. Len(batchQueue'),
                 batchQueue'[i] = batchQueue'[j]
          PROVE  i = j
      <3>1. /\ i \in 1 .. Len(batchQueue) \/ i = Len(batchQueue) + 1
            /\ j \in 1 .. Len(batchQueue) \/ j = Len(batchQueue) + 1
        BY <1>a, <2>1
      <3>2. QED
        BY <2>1, <2>3, <2>5, <3>1 DEF OnceInv
    <2>6. \A w \in Workers : Busy(w)' => (~InBatchQueue(worker[w].dispatch))'
      BY <1>a, <2>1, <2>3, <2>4 DEF OnceInv, Busy
    <2>7. QED
      BY <2>1, <2>5, <2>6 DEF OnceInv, Busy
  <1>3. ASSUME NEW w \in Workers, WorkerStep(w) \/ WorkerFault(w)
        PROVE  OnceInv'
    <2>1. CASE ReceiveBatch(w)
      BY <2>1, Received
    <2>2. CASE ~ReceiveBatch(w)
      <3>1. ~WorkerCrash(w)
        BY DEF WorkerCrash, InjectFault
      <3>2. /\ batchQueue' = batchQueue
            /\ \A v \in Workers : Busy(v)' =>
                  Busy(v) /\ worker'[v].dispatch = worker[v].dispatch
        BY <1>3, <2>2, <3>1, RunKept, OwedKept
      <3>3. \A v \in Workers : Busy(v)' => (~InBatchQueue(worker[v].dispatch))'
        BY <3>2 DEF OnceInv, InBatchQueue
      <3>4. QED
        BY <3>2, <3>3 DEF OnceInv
    <2>3. QED
      BY <2>1, <2>2
  <1>4. CASE ApiNext /\ \A d \in Dispatches : ~PublishBatch(d)
    BY <1>1, <1>4 DEF ApiNext, StoreDispatch, StoreAcknowledgment, TrackPending,
       DeleteResults, DeleteProbes, DeleteRow
  <1>5. CASE ConsumerStep \/ ConsumerFault
    BY <1>1, <1>5, ConsumerLeaves DEF untouched
  <1>6. CASE InboxNext
    BY <1>1, <1>6, InboxLeaves DEF notOurs
  <1>7. CASE UNCHANGED vars
    BY <1>1, <1>7 DEF vars
  <1>8. QED
    BY <1>2, <1>3, <1>4, <1>5, <1>6, <1>7 DEF Next, WorkerNext

-----------------------------------------------------------------------------
\* The consumer handles what is there.
LEMMA ConsumerReports ==
  ASSUME TypeInv, ConsumerStep \/ ConsumerFault, NEW m \in Message, Reported(m)'
  PROVE  Reported(m)
  <1>a. /\ resultsQueue \in Seq(Message) /\ Len(resultsQueue) \in Nat
        /\ consumer \in Consumer
        /\ consumer.stage # "idle" => consumer.msg \in Message
    BY LenProperties DEF TypeInv, TypeOK
  <1>b. m.kind = "completion"
    BY DEF Reported
  <1>1. ASSUME resultsQueue' = resultsQueue, consumer.stage # "idle",
               consumer'.stage = "idle" \/ consumer'.msg = consumer.msg
        PROVE  Reported(m)
    BY <1>1 DEF Reported, AtConsumer, InResultsQueue
  <1>2. CASE TakeMessage
    <2>1. /\ resultsQueue' = Tail(resultsQueue)
          /\ Len(resultsQueue') = Len(resultsQueue) - 1
          /\ Len(resultsQueue) >= 1
          /\ Head(resultsQueue) = resultsQueue[1]
          /\ \A i \in 1 .. Len(resultsQueue') : resultsQueue'[i] = resultsQueue[i + 1]
          /\ consumer'.msg = Head(resultsQueue)
      BY <1>2, <1>a, TailElements, TakenFields DEF TakeMessage
    <2>2. CASE AtConsumer(m)'
      BY <1>a, <1>b, <2>1, <2>2 DEF AtConsumer, Reported, InResultsQueue
    <2>3. ASSUME NEW i \in 1 .. Len(resultsQueue'), resultsQueue'[i] = m
          PROVE  Reported(m)
      <3>1. i + 1 \in 1 .. Len(resultsQueue) /\ resultsQueue[i + 1] = m
        BY <1>a, <2>1, <2>3
      <3>2. QED
        BY <1>b, <3>1 DEF Reported, InResultsQueue
    <2>4. QED
      BY <2>2, <2>3 DEF Reported, InResultsQueue
  <1>3. CASE \/ LookUpDispatch \/ CheckExisting \/ InsertResult \/ InsertProbe
             \/ UpdateDispatch \/ SaveNotification \/ DatabaseFails
    <2>1. resultsQueue' = resultsQueue /\ consumer.stage # "idle"
      BY <1>3 DEF LookUpDispatch, CheckExisting, InsertResult, InsertProbe,
           UpdateDispatch, SaveNotification, DatabaseFails
    <2>2. \E stage \in {"check", "insert", "update", "notify", "ack", "raised",
                        FirstStage(consumer.msg.kind)} : GoTo(stage)
      BY <1>3 DEF LookUpDispatch, CheckExisting, InsertResult, InsertProbe,
           UpdateDispatch, SaveNotification, DatabaseFails, msg
    <2>3. QED
      BY <1>1, <1>a, <2>1, <2>2, GoToFields
  <1>4. CASE LoadNotification
    <2>1. consumer'.msg = consumer.msg
      BY <1>4, <1>a DEF LoadNotification, GoTo, Consumer
    <2>2. QED
      BY <1>1, <1>4, <2>1 DEF LoadNotification
  <1>5. CASE AckMessage
    BY <1>1, <1>5 DEF AckMessage, IdleConsumer
  <1>6. CASE ReleaseMessage
    <2>1. /\ Len(resultsQueue') = Len(resultsQueue) + 1
          /\ \A i \in 1 .. Len(resultsQueue) : resultsQueue'[i] = resultsQueue[i]
          /\ resultsQueue'[Len(resultsQueue) + 1] = consumer.msg
          /\ consumer'.msg = consumer.msg /\ consumer.stage # "idle"
      BY <1>6, <1>a, AppendElements, GoToFields DEF ReleaseMessage, msg
    <2>2. CASE AtConsumer(m)'
      BY <1>b, <2>1, <2>2 DEF AtConsumer, Reported
    <2>3. ASSUME NEW i \in 1 .. Len(resultsQueue'), resultsQueue'[i] = m
          PROVE  Reported(m)
      <3>1. i \in 1 .. Len(resultsQueue) \/ i = Len(resultsQueue) + 1
        BY <1>a, <2>1
      <3>2. QED
        BY <1>b, <2>1, <2>3, <3>1 DEF Reported, InResultsQueue, AtConsumer
    <2>4. QED
      BY <2>2, <2>3 DEF Reported, InResultsQueue
  <1>7. CASE ConsumerCrash
    <2>1. /\ Len(resultsQueue') = Len(resultsQueue) + 1
          /\ resultsQueue'[1] = consumer.msg
          /\ \A i \in 1 .. Len(resultsQueue) : resultsQueue'[i + 1] = resultsQueue[i]
          /\ consumer'.stage = "idle" /\ consumer.stage # "idle"
      BY <1>7, <1>a, RequeueElements DEF ConsumerCrash, IdleConsumer, msg
    <2>2. PICK i \in 1 .. Len(resultsQueue') : resultsQueue'[i] = m
      BY <2>1 DEF Reported, AtConsumer, InResultsQueue
    <2>3. CASE i = 1
      BY <1>b, <2>1, <2>2, <2>3 DEF Reported, AtConsumer
    <2>4. CASE i # 1
      <3>1. i - 1 \in 1 .. Len(resultsQueue) /\ (i - 1) + 1 = i
        BY <1>a, <2>1, <2>4
      <3>2. QED
        BY <1>b, <2>1, <2>2, <3>1 DEF Reported, InResultsQueue
    <2>5. QED
      BY <2>3, <2>4
  <1>8. QED
    BY <1>2, <1>3, <1>4, <1>5, <1>6, <1>7 DEF ConsumerStep, ConsumerFault

\* What a publish adds to the completions.
LEMMA PublishReports ==
  ASSUME TypeInv, UNCHANGED consumer, NEW p \in Message, Publish(p),
         NEW m \in Message, Reported(m)'
  PROVE  Reported(m) \/ m = p
  <1>a. resultsQueue \in Seq(Message) /\ Len(resultsQueue) \in Nat
    BY LenProperties DEF TypeInv, TypeOK
  <1>1. /\ Len(resultsQueue') = Len(resultsQueue) + 1
        /\ \A i \in 1 .. Len(resultsQueue) : resultsQueue'[i] = resultsQueue[i]
        /\ resultsQueue'[Len(resultsQueue) + 1] = p
    BY <1>a, AppendElements DEF Publish
  <1>2. CASE AtConsumer(m)'
    BY <1>2 DEF Reported, AtConsumer
  <1>3. ASSUME NEW i \in 1 .. Len(resultsQueue'), resultsQueue'[i] = m
        PROVE  Reported(m) \/ m = p
    <2>1. i \in 1 .. Len(resultsQueue) \/ i = Len(resultsQueue) + 1
      BY <1>a, <1>1
    <2>2. QED
      BY <1>1, <1>3, <2>1 DEF Reported, InResultsQueue
  <1>4. QED
    BY <1>2, <1>3 DEF Reported, InResultsQueue

\* A worker publishes a completion for a batch it is through with, and no
\* other.
LEMMA WorkerReports ==
  ASSUME TypeInv, NEW w \in Workers, WorkerStep(w) \/ WorkerFault(w),
         NEW m \in Message, Reported(m)'
  PROVE  \/ Reported(m)
         \/ /\ PublishCompletion(w) /\ m.dispatch = worker[w].dispatch
            /\ m.failed = (worker[w].stage = "failed")
  <1>a. /\ worker \in [Workers -> Worker] /\ worker[w] \in Worker
        /\ worker[w].stage # "idle" =>
             worker[w].dispatch \in Dispatches /\ worker[w].job >= 1
    BY DEF TypeInv, TypeOK
  <1>b. UNCHANGED consumer
    BY WorkerLeaves DEF WorkerNext, others
  <1>c. m.kind = "completion"
    BY DEF Reported
  <1>1. CASE resultsQueue' = resultsQueue
    BY <1>1, <1>b DEF Reported, AtConsumer, InResultsQueue
  <1>2. ASSUME NEW t \in Tokens, PublishLeak(w, t)
        PROVE  Reported(m)
    <2>1. ResultMessage(worker[w].dispatch, TokenFinding[t]) \in Message
      BY <1>2, <1>a, MessageTypes, ScanAssumption DEF PublishLeak
    <2>2. QED
      BY <1>2, <1>b, <1>c, <2>1, PublishReports DEF PublishLeak, ResultMessage
  <1>3. CASE FinishSecrets(w)
    <2>1. ProbeMessage(worker[w].dispatch) \in Message
      BY <1>3, <1>a, MessageTypes DEF FinishSecrets
    <2>2. QED
      BY <1>3, <1>b, <1>c, <2>1, PublishReports DEF FinishSecrets, ProbeMessage
  <1>4. CASE PublishFinding(w)
    <2>1. JobFinding[worker[w].job] \in Findings
      BY <1>4, <1>a, ScanAssumption DEF PublishFinding, JobsLeft, Worker
    <2>2. ResultMessage(worker[w].dispatch, JobFinding[worker[w].job]) \in Message
      BY <1>4, <1>a, <2>1, MessageTypes DEF PublishFinding
    <2>3. QED
      BY <1>4, <1>b, <1>c, <2>2, PublishReports DEF PublishFinding, ResultMessage
  <1>5. CASE PublishProbe(w)
    <2>1. ProbeMessage(worker[w].dispatch) \in Message
      BY <1>5, <1>a, MessageTypes DEF PublishProbe
    <2>2. QED
      BY <1>5, <1>b, <1>c, <2>1, PublishReports DEF PublishProbe, ProbeMessage
  <1>6. CASE PublishCompletion(w)
    <2>1. CompletionMessage(worker[w].dispatch, worker[w].stage = "failed",
                            worker[w].findings, worker[w].probes) \in Message
      BY <1>6, <1>a, MessageTypes DEF PublishCompletion, RunReturns, Worker
    <2>2. QED
      BY <1>6, <1>b, <2>1, PublishReports DEF PublishCompletion, CompletionMessage
  <1>7. CASE \/ ReceiveBatch(w) \/ RejectBatch(w) \/ DiscoveryFails(w)
             \/ DiscoverySucceeds(w) \/ AckBatch(w) \/ WorkerFault(w)
    BY <1>1, <1>7 DEF ReceiveBatch, RejectBatch, DiscoveryFails,
       DiscoverySucceeds, AckBatch, WorkerFault, PublishFails, LoseCompletion,
       WorkerCrash
  <1>8. QED
    BY <1>2, <1>3, <1>4, <1>5, <1>6, <1>7 DEF WorkerStep

-----------------------------------------------------------------------------
\* A step that adds no batch, no completion and no outcome.
LEMMA OutcomeFrame ==
  ASSUME OutcomeInv,
         \A d \in Dispatches : Owed(d)' => Owed(d),
         \A m \in Message : Reported(m)' => Reported(m),
         \A d \in Dispatches : Finished(d)' =>
           Finished(d) /\ row'[d].failedAt = row[d].failedAt
  PROVE  OutcomeInv'
  <1>a. \A m \in Message : m.dispatch \in Dispatches
    BY DEF Message
  <1>1. \A d \in Dispatches : Owed(d)' => ~Finished(d)'
    BY DEF OutcomeInv
  <1>2. ASSUME NEW m \in Message, Reported(m)'
        PROVE  ~Owed(m.dispatch)' /\ (Finished(m.dispatch)' => row'[m.dispatch].failedAt = m.failed)
    BY <1>a, <1>2 DEF OutcomeInv
  <1>3. \A m, n \in Message :
          Reported(m)' /\ Reported(n)' /\ m.dispatch = n.dispatch => m.failed = n.failed
    BY DEF OutcomeInv
  <1>4. QED
    BY <1>1, <1>2, <1>3 DEF OutcomeInv

LEMMA OutcomeStep ==
  ASSUME TypeInv, KeptInv, QueuedInv, RowInv, OnceInv, OutcomeInv,
         "crash" \notin Faults, [Next]_vars
  PROVE  OutcomeInv'
  <1>a. /\ row \in [Dispatches -> DispatchRow]
        /\ batchQueue \in Seq(Dispatches) /\ Len(batchQueue) \in Nat
        /\ \A m \in Message : m.dispatch \in Dispatches
    BY LenProperties DEF TypeInv, TypeOK, Message
  <1>b. UNCHANGED <<batchQueue, worker>> => \A d \in Dispatches : Owed(d)' => Owed(d)
    BY DEF Owed, Busy, InBatchQueue
  <1>c. UNCHANGED <<resultsQueue, consumer>> =>
          \A m \in Message : Reported(m)' => Reported(m)
    BY DEF Reported, AtConsumer, InResultsQueue
  <1>d. UNCHANGED row => \A d \in Dispatches : Finished(d)' =>
                           Finished(d) /\ row'[d].failedAt = row[d].failedAt
    BY DEF Finished
  <1>1. CASE UNCHANGED <<batchQueue, worker, resultsQueue, consumer, row>>
    BY <1>1, <1>b, <1>c, <1>d, OutcomeFrame
  <1>2. ASSUME NEW c \in Dispatches, StoreDispatch(c) \/ DeleteRow(c)
        PROVE  OutcomeInv'
    <2>1. UNCHANGED <<batchQueue, worker, resultsQueue, consumer>>
      BY <1>2 DEF StoreDispatch, DeleteRow
    <2>2. \/ row' = [row EXCEPT ![c] = [AbsentRow EXCEPT !.exists = TRUE]]
          \/ row' = [row EXCEPT ![c] = AbsentRow]
      BY <1>2 DEF StoreDispatch, DeleteRow
    <2>3. \A d \in Dispatches : Finished(d)' =>
            Finished(d) /\ row'[d].failedAt = row[d].failedAt
      BY <1>a, <2>2 DEF Finished, AbsentRow, ScanStatus
    <2>4. QED
      BY <1>b, <1>c, <2>1, <2>3, OutcomeFrame
  <1>3. ASSUME NEW c \in Dispatches, PublishBatch(c)
        PROVE  OutcomeInv'
    <2>1. /\ UNCHANGED <<worker, resultsQueue, consumer, row>>
          /\ Len(batchQueue') = Len(batchQueue) + 1
          /\ \A i \in 1 .. Len(batchQueue) : batchQueue'[i] = batchQueue[i]
          /\ batchQueue'[Len(batchQueue) + 1] = c
      BY <1>3, <1>a, AppendElements DEF PublishBatch
    <2>2. ~Queued(c) /\ ~Finished(c)
      BY <1>3 DEF PublishBatch, Queued, RowInv
    <2>3. \A m \in Message : Reported(m) => m.dispatch # c
      BY <2>2 DEF QueuedInv, Reported, AtConsumer, InResultsQueue
    <2>4. \A d \in Dispatches : Owed(d)' => Owed(d) \/ d = c
      <3> SUFFICES ASSUME NEW d \in Dispatches, NEW i \in 1 .. Len(batchQueue'),
                          batchQueue'[i] = d
                   PROVE  InBatchQueue(d) \/ d = c
        BY <2>1 DEF Owed, InBatchQueue, Busy
      <3>1. i \in 1 .. Len(batchQueue) \/ i = Len(batchQueue) + 1
        BY <1>a, <2>1
      <3>2. QED
        BY <2>1, <3>1 DEF InBatchQueue
    <2>5. /\ \A d \in Dispatches : Finished(d)' <=> Finished(d)
          /\ \A m \in Message : Reported(m)' => Reported(m)
      BY <2>1, <1>c DEF Finished
    <2>6. \A d \in Dispatches : Owed(d)' => ~Finished(d)'
      BY <2>2, <2>4, <2>5 DEF OutcomeInv
    <2>7. ASSUME NEW m \in Message, Reported(m)'
          PROVE  /\ ~Owed(m.dispatch)'
                 /\ Finished(m.dispatch)' => row'[m.dispatch].failedAt = m.failed
      BY <1>a, <2>1, <2>3, <2>4, <2>5, <2>7 DEF OutcomeInv
    <2>8. \A m, n \in Message :
            Reported(m)' /\ Reported(n)' /\ m.dispatch = n.dispatch => m.failed = n.failed
      BY <2>5 DEF OutcomeInv
    <2>9. QED
      BY <2>6, <2>7, <2>8 DEF OutcomeInv
  <1>4. ASSUME NEW w \in Workers, WorkerStep(w) \/ WorkerFault(w)
        PROVE  OutcomeInv'
    <2>1. UNCHANGED <<row, consumer>>
      BY <1>4, WorkerLeaves DEF WorkerNext, others
    <2>2. \A d \in Dispatches : Owed(d)' => Owed(d)
      BY <1>4, Received, OwedKept DEF WorkerCrash, InjectFault
    <2>3. CASE \A m \in Message : Reported(m)' => Reported(m)
      BY <1>d, <2>1, <2>2, <2>3, OutcomeFrame
    <2>4. CASE PublishCompletion(w)
      <3>1. PICK c \in Dispatches : c = worker[w].dispatch /\ Busy(w)
        BY <2>4 DEF PublishCompletion, RunReturns, Busy, TypeInv
      <3>2. Owed(c) /\ ~Finished(c)
        BY <3>1 DEF Owed, OutcomeInv
      <3>3. \A m \in Message : Reported(m) => m.dispatch # c
        BY <3>2 DEF OutcomeInv
      <3>4. \A m \in Message : Reported(m)' =>
              Reported(m) \/ (m.dispatch = c /\ m.failed = (worker[w].stage = "failed"))
        BY <1>4, <3>1, WorkerReports
      <3>5. ~Owed(c)'
        <4>1. worker'[w].stage = "completed" /\ batchQueue' = batchQueue
          BY <2>4 DEF PublishCompletion, Becomes, TypeInv, TypeOK
        <4>2. \A v \in Workers : Busy(v)' =>
                Busy(v) /\ worker'[v].dispatch = worker[v].dispatch
          BY <1>4, <2>4, OwedKept DEF PublishCompletion, RunReturns, ReceiveBatch,
             WorkerCrash, InjectFault
        <4>3. \A v \in Workers : Busy(v)' => worker'[v].dispatch # c
          BY <3>1, <4>1, <4>2 DEF OnceInv, Busy
        <4>4. ~InBatchQueue(c)'
          BY <3>1, <4>1 DEF OnceInv, InBatchQueue
        <4>5. QED
          BY <4>3, <4>4 DEF Owed
      <3>6. \A d \in Dispatches : Finished(d)' <=> Finished(d)
        BY <2>1 DEF Finished
      <3>7. \A d \in Dispatches : Owed(d)' => ~Finished(d)'
        BY <2>2, <3>6 DEF OutcomeInv
      <3>8. ASSUME NEW m \in Message, Reported(m)'
            PROVE  /\ ~Owed(m.dispatch)'
                   /\ Finished(m.dispatch)' => row'[m.dispatch].failedAt = m.failed
        <4>1. CASE m.dispatch = c
          BY <3>2, <3>5, <3>6, <4>1, <1>a
        <4>2. CASE m.dispatch # c
          BY <1>a, <2>1, <2>2, <3>4, <3>6, <3>8, <4>2 DEF OutcomeInv
        <4>3. QED
          BY <4>1, <4>2
      <3>9. \A m, n \in Message :
              Reported(m)' /\ Reported(n)' /\ m.dispatch = n.dispatch => m.failed = n.failed
        BY <3>3, <3>4 DEF OutcomeInv
      <3>10. QED
        BY <3>7, <3>8, <3>9 DEF OutcomeInv
    <2>5. QED
      BY <1>4, <2>3, <2>4, WorkerReports
  <1>5. ASSUME UpdateDispatch
        PROVE  OutcomeInv'
    <2>a. PICK p \in Message, c \in Dispatches : p = consumer.msg /\ c = p.dispatch
      BY <1>5, <1>a DEF UpdateDispatch, TypeInv
    <2>1. Reported(p)
      BY <1>5, <2>a DEF UpdateDispatch, KeptInv, StageKind, Reported, AtConsumer
    <2>2. /\ UNCHANGED <<batchQueue, worker>>
          /\ \A m \in Message : Reported(m)' => Reported(m)
      BY <1>5, ConsumerReports, ConsumerLeaves DEF ConsumerStep, untouched
    <2>3. row' = row \/ row' = [row EXCEPT ![c] = CompletedRow(row[c], p)]
      BY <1>5, <2>a DEF UpdateDispatch, msg
    <2>4. CASE row' = row
      BY <1>b, <1>d, <2>2, <2>4, OutcomeFrame
    <2>5. CASE row' = [row EXCEPT ![c] = CompletedRow(row[c], p)]
      <3>1. row'[c].failedAt = p.failed
        BY <1>a, <2>1, <2>5 DEF CompletedRow, DispatchRow
      <3>2. \A d \in Dispatches : d # c => row'[d] = row[d]
        BY <1>a, <2>1, <2>5
      <3>3. \A d \in Dispatches : d # c => (Finished(d)' <=> Finished(d))
        BY <3>2 DEF Finished
      <3>4. \A d \in Dispatches : Owed(d)' => Owed(d) /\ d # c
        BY <1>b, <2>a, <2>1, <2>2 DEF OutcomeInv
      <3>5. \A m \in Message : Reported(m) /\ m.dispatch = c => m.failed = p.failed
        BY <2>a, <2>1 DEF OutcomeInv
      <3>6. \A d \in Dispatches : Owed(d)' => ~Finished(d)'
        BY <3>3, <3>4 DEF OutcomeInv
      <3>7. ASSUME NEW m \in Message, Reported(m)'
            PROVE  /\ ~Owed(m.dispatch)'
                   /\ Finished(m.dispatch)' => row'[m.dispatch].failedAt = m.failed
        <4>1. Reported(m) /\ m.dispatch \in Dispatches
          BY <1>a, <2>2, <3>7
        <4>2. ~Owed(m.dispatch)'
          BY <3>4, <4>1 DEF OutcomeInv
        <4>3. CASE m.dispatch = c
          BY <3>1, <3>5, <4>1, <4>2, <4>3
        <4>4. CASE m.dispatch # c
          BY <3>2, <3>3, <4>1, <4>2, <4>4 DEF OutcomeInv
        <4>5. QED
          BY <4>3, <4>4
      <3>8. \A m, n \in Message :
              Reported(m)' /\ Reported(n)' /\ m.dispatch = n.dispatch => m.failed = n.failed
        BY <2>2 DEF OutcomeInv
      <3>9. QED
        BY <3>6, <3>7, <3>8 DEF OutcomeInv
    <2>6. QED
      BY <2>3, <2>4, <2>5
  <1>6. CASE (ConsumerStep /\ ~UpdateDispatch) \/ ConsumerFault
    <2>1. row' = row
      BY <1>6 DEF ConsumerStep, ConsumerFault, TakeMessage, LookUpDispatch,
         CheckExisting, InsertResult, InsertProbe, LoadNotification,
         SaveNotification, ReleaseMessage, AckMessage, DatabaseFails, ConsumerCrash
    <2>2. UNCHANGED <<batchQueue, worker>>
      BY <1>6, ConsumerLeaves DEF untouched
    <2>3. QED
      BY <1>6, <1>b, <1>d, <2>1, <2>2, ConsumerReports, OutcomeFrame
  <1>7. ASSUME NEW c \in Dispatches,
               \/ StoreAcknowledgment(c) \/ TrackPending(c)
               \/ DeleteResults(c) \/ DeleteProbes(c)
        PROVE  OutcomeInv'
    BY <1>1, <1>7 DEF StoreAcknowledgment, TrackPending, DeleteResults, DeleteProbes
  <1>8. CASE InboxNext
    BY <1>1, <1>8, InboxLeaves DEF notOurs
  <1>9. CASE UNCHANGED vars
    BY <1>1, <1>9 DEF vars
  <1>10. QED
    BY <1>2, <1>3, <1>4, <1>5, <1>6, <1>7, <1>8, <1>9 DEF Next, ApiNext, WorkerNext

\* The outcome of a row does not change before the row goes.
LEMMA OutcomeStays ==
  ASSUME TypeInv, KeptInv, OutcomeInv, [Next]_vars,
         NEW d \in Dispatches, Settled(d), row'[d].exists
  PROVE  row[d].exists /\ ScanStatus(row'[d]) = ScanStatus(row[d])
  <1>a. row \in [Dispatches -> DispatchRow]
    BY DEF TypeInv, TypeOK
  <1>1. CASE row' = row
    BY <1>1
  <1>2. ASSUME NEW c \in Dispatches, StoreDispatch(c)
        PROVE  row[d].exists /\ ScanStatus(row'[d]) = ScanStatus(row[d])
    BY <1>2, <1>a DEF StoreDispatch, Settled
  <1>3. ASSUME NEW c \in Dispatches, DeleteRow(c)
        PROVE  row[d].exists /\ ScanStatus(row'[d]) = ScanStatus(row[d])
    BY <1>3, <1>a DEF DeleteRow, AbsentRow
  <1>4. CASE UpdateDispatch
    <2> DEFINE m == consumer.msg
    <2>1. m \in Message /\ m.dispatch \in Dispatches /\ Reported(m)
      BY <1>4 DEF UpdateDispatch, TypeInv, KeptInv, StageKind, Reported, AtConsumer, Message
    <2>2. \/ row' = row
          \/ row' = [row EXCEPT ![m.dispatch] = CompletedRow(row[m.dispatch], m)]
      BY <1>4 DEF UpdateDispatch, msg
    <2>3. CASE d = m.dispatch
      <3>1. row[d].exists /\ Finished(d)
        BY <1>4, <2>3 DEF UpdateDispatch, Settled, msg
      <3>2. row[d].failedAt = m.failed
        BY <2>1, <2>3, <3>1 DEF OutcomeInv
      <3>3. ScanStatus(CompletedRow(row[d], m)) = ScanStatus(row[d])
        BY <1>a, <2>1, <3>1, <3>2 DEF Finished, CompletedRow, DispatchRow, Message, ScanStatus
      <3>4. QED
        BY <1>a, <2>2, <2>3, <3>1, <3>3
    <2>4. CASE d # m.dispatch
      BY <1>a, <2>2, <2>4
    <2>5. QED
      BY <2>3, <2>4
  <1>5. CASE (ConsumerStep /\ ~UpdateDispatch) \/ ConsumerFault
    BY <1>1, <1>5 DEF ConsumerStep, ConsumerFault, TakeMessage, LookUpDispatch,
         CheckExisting, InsertResult, InsertProbe, LoadNotification,
         SaveNotification, ReleaseMessage, AckMessage, DatabaseFails, ConsumerCrash
  <1>6. ASSUME NEW c \in Dispatches,
               \/ StoreAcknowledgment(c) \/ PublishBatch(c) \/ TrackPending(c)
               \/ DeleteResults(c) \/ DeleteProbes(c)
        PROVE  row' = row
    BY <1>6 DEF StoreAcknowledgment, PublishBatch, TrackPending, DeleteResults, DeleteProbes
  <1>7. CASE WorkerNext
    BY <1>1, <1>7, WorkerLeaves DEF others
  <1>8. CASE InboxNext
    BY <1>1, <1>8, InboxLeaves DEF notOurs
  <1>9. CASE UNCHANGED vars
    BY <1>1, <1>9 DEF vars
  <1>10. QED
    BY <1>1, <1>2, <1>3, <1>4, <1>5, <1>6, <1>7, <1>8, <1>9 DEF Next, ApiNext

\* What the update writes is an outcome that agrees with the row, or leaves
\* what is there.
LEMMA FinalizedAgrees ==
  ASSUME NEW current \in Notification, NEW loaded \in Notification,
         NEW outcome \in {"pending", "completed", "failed"}
  PROVE  /\ Finalized(current, loaded, outcome).status \in {current.status, outcome}
         /\ current.status = "none" => Finalized(current, loaded, outcome).status = "none"
  BY DEF Finalized, Notification

\* The notification: no step gives it another outcome than the row's.
LEMMA NotificationStep ==
  ASSUME TypeInv, KeptInv, RowInv, NoticeInv, OutcomeInv, AgreeInv, [Next]_vars
  PROVE  NotificationAgrees' /\ \A d \in Dispatches :
           notification'[d].status # "none" => request'[d] # "none"
  <1>a. /\ notification \in [Dispatches -> Notification]
        /\ request \in [Dispatches ->
             {"none", "stored", "acknowledged", "published", "answered"}]
        /\ bell \in [Sessions -> Bell] /\ consumer \in Consumer
        /\ row \in [Dispatches -> DispatchRow]
    BY DEF TypeInv, TypeOK
  <1> SUFFICES ASSUME NEW d \in Dispatches
               PROVE  /\ row'[d].exists /\ notification'[d].status \in {"completed", "failed"}
                           => notification'[d].status = ScanStatus(row'[d])
                      /\ notification'[d].status # "none" => request'[d] # "none"
    BY DEF NotificationAgrees
  <1>b. request[d] # "none" => request'[d] # "none"
    <2>1. CASE ApiNext
      BY <2>1, <1>a DEF ApiNext, StoreDispatch, StoreAcknowledgment, PublishBatch,
         TrackPending, DeleteResults, DeleteProbes, DeleteRow
    <2>2. QED
      BY <2>1, WorkerLeaves, ConsumerLeaves, InboxLeaves
         DEF Next, others, untouched, notOurs, apiVars, vars
  <1>1. CASE notification'[d].status = notification[d].status
    <2>1. notification'[d].status # "none" => request'[d] # "none"
      BY <1>1, <1>b DEF AgreeInv
    <2>2. ASSUME row'[d].exists, notification'[d].status \in {"completed", "failed"}
          PROVE  notification'[d].status = ScanStatus(row'[d])
      <3>1. request[d] # "none"
        BY <1>1, <2>2 DEF AgreeInv
      <3>2. row[d].exists => Finished(d) /\ notification[d].status = ScanStatus(row[d])
        BY <1>1, <2>2 DEF AgreeInv, NotificationAgrees, Finished
      <3>3. Settled(d)
        BY <3>1, <3>2 DEF Settled
      <3>4. QED
        BY <1>1, <2>2, <3>2, <3>3, OutcomeStays
    <2>3. QED
      BY <2>1, <2>2
  <1>2. CASE notification'[d].status \in {"none", "pending"} /\ request'[d] # "none"
    BY <1>2
  <1>3. CASE SaveNotification
    <2> DEFINE m == consumer.msg
               outcome == IF m.failed THEN "failed" ELSE "completed"
    <2>1. /\ consumer.stage = "save" /\ m \in Message /\ m.dispatch \in Dispatches
          /\ row' = row /\ request' = request
          /\ notification' = [notification EXCEPT
               ![m.dispatch] = Finalized(@, consumer.loaded, outcome)]
      BY <1>3 DEF SaveNotification, TypeInv, msg, untouched, apiVars, Message
    <2>2. CASE d # m.dispatch
      BY <1>1, <1>a, <2>1, <2>2
    <2>3. CASE d = m.dispatch
      <3>1. notification'[d] = Finalized(notification[d], consumer.loaded, outcome)
        BY <1>a, <2>1, <2>3
      <3>2. /\ consumer.loaded \in Notification /\ notification[d] \in Notification
            /\ outcome \in {"pending", "completed", "failed"}
        BY <1>a DEF Consumer
      <3>3. /\ notification'[d].status \in {notification[d].status, outcome}
            /\ notification[d].status = "none" => notification'[d].status = "none"
        BY <3>1, <3>2, FinalizedAgrees
      <3>4. Settled(d) /\ Reported(m)
        BY <2>1, <2>3 DEF NoticeInv, ConsumerAnnounces, Reported, AtConsumer,
           KeptInv, StageKind
      <3>5. row[d].exists => ScanStatus(row[d]) = outcome
        BY <1>a, <2>1, <2>3, <3>4 DEF Settled, Finished, OutcomeInv, ScanStatus,
           DispatchRow, Message
      <3>6. QED
        BY <1>1, <2>1, <3>3, <3>4, <3>5 DEF Settled
    <2>4. QED
      BY <2>2, <2>3
  <1>4. ASSUME NEW s \in Sessions, BellSave(s)
        PROVE  /\ row'[d].exists /\ notification'[d].status \in {"completed", "failed"}
                    => notification'[d].status = ScanStatus(row'[d])
               /\ notification'[d].status # "none" => request'[d] # "none"
    <2> DEFINE c == bell[s].current
    <2>1. /\ bell[s].stage = "loaded" /\ c \in bell[s].listed
          /\ bell[s] \in Bell /\ c \in Dispatches
          /\ row' = row /\ request' = request
          /\ notification' = [notification EXCEPT
               ![c] = Finalized(@, bell[s].loaded, bell[s].outcome[c])]
      BY <1>4, <1>a DEF BellSave, NoticeInv, BellAnnounces, notOurs, apiVars, Bell
    <2>2. CASE d # c
      BY <1>1, <1>a, <2>1, <2>2
    <2>3. CASE d = c
      <3>1. notification'[d] = Finalized(notification[d], bell[s].loaded, bell[s].outcome[d])
        BY <1>a, <2>1, <2>3
      <3>2. /\ bell[s].loaded \in Notification /\ notification[d] \in Notification
            /\ bell[s].outcome[d] \in {"pending", "completed", "failed"}
        BY <1>a, <2>1 DEF Bell
      <3>3. /\ notification'[d].status \in {notification[d].status, bell[s].outcome[d]}
            /\ notification[d].status = "none" => notification'[d].status = "none"
        BY <3>1, <3>2, FinalizedAgrees
      <3>4. Settled(d) /\ (row[d].exists => bell[s].outcome[d] = ScanStatus(row[d]))
        BY <2>1, <2>3 DEF NoticeInv, BellAnnounces, AgreeInv
      <3>5. QED
        BY <1>1, <2>1, <3>3, <3>4 DEF Settled
    <2>4. QED
      BY <2>2, <2>3
  <1>5. ASSUME NEW c \in Dispatches, TrackPending(c)
        PROVE  \/ notification'[d].status = notification[d].status
               \/ notification'[d].status = "pending" /\ request'[d] # "none"
    BY <1>5, <1>a DEF TrackPending
  <1>6. ASSUME NEW c \in Dispatches, MarkRead(c)
        PROVE  notification'[d].status = notification[d].status
    BY <1>6, <1>a DEF MarkRead, Notification
  <1>7. CASE MarkAllRead
    BY <1>1, <1>7, <1>a DEF MarkAllRead, Notification
  <1>8. ASSUME DestroyAll \/ \E c \in Dispatches : Destroy(c)
        PROVE  notification'[d].status \in {notification[d].status, "none"}
    BY <1>8, <1>a DEF Destroy, DestroyAll, NoNotification
  <1>9. CASE notification' = notification
    BY <1>1, <1>9
  <1>10. ASSUME ApiNext, \A c \in Dispatches : ~TrackPending(c)
         PROVE  notification' = notification
    BY <1>10 DEF ApiNext, StoreDispatch, StoreAcknowledgment, PublishBatch,
       DeleteResults, DeleteProbes, DeleteRow
  <1>11. ASSUME (ConsumerStep /\ ~SaveNotification) \/ ConsumerFault
         PROVE  notification' = notification
    BY <1>11 DEF ConsumerStep, ConsumerFault, TakeMessage, LookUpDispatch,
       CheckExisting, InsertResult, InsertProbe, UpdateDispatch,
       LoadNotification, ReleaseMessage, AckMessage, DatabaseFails, ConsumerCrash
  <1>12. ASSUME NEW s \in Sessions, BellStep(s), ~BellSave(s)
         PROVE  notification' = notification
    BY <1>12 DEF BellStep, BellList, BellFindFinished, BellLoad
  <1>13. CASE WorkerNext \/ UNCHANGED vars
    BY <1>9, <1>13, WorkerLeaves DEF others, vars
  <1>14. QED
    <2>1. CASE ApiNext
      BY <1>1, <1>2, <1>5, <1>9, <1>10, <2>1
    <2>2. CASE ConsumerStep \/ ConsumerFault
      BY <1>3, <1>9, <1>11, <2>2
    <2>3. CASE InboxNext
      BY <1>1, <1>4, <1>6, <1>7, <1>8, <1>9, <1>12, <2>3 DEF InboxNext
    <2>4. QED
      BY <1>13, <2>1, <2>2, <2>3 DEF Next

\* The bells.
LEMMA BellOutcomes ==
  ASSUME TypeInv, KeptInv, RowInv, NoticeInv, OutcomeInv, AgreeInv, [Next]_vars
  PROVE  \A s \in Sessions : bell'[s].stage \in {"found", "loaded"} =>
           \A d \in bell'[s].listed :
             row'[d].exists => bell'[s].outcome[d] = ScanStatus(row'[d])
  <1>a. /\ bell \in [Sessions -> Bell]
        /\ \A s \in Sessions : bell[s].listed \subseteq Dispatches
    BY DEF TypeInv, TypeOK, Bell
  <1>b. \A d \in Dispatches : Settled(d) /\ row'[d].exists =>
          row[d].exists /\ ScanStatus(row'[d]) = ScanStatus(row[d])
    BY OutcomeStays
  <1> SUFFICES ASSUME NEW s \in Sessions, bell'[s].stage \in {"found", "loaded"},
                      NEW d \in bell'[s].listed, row'[d].exists
               PROVE  bell'[s].outcome[d] = ScanStatus(row'[d])
    OBVIOUS
  <1>1. ASSUME bell[s].stage \in {"found", "loaded"},
               bell'[s].listed \subseteq bell[s].listed,
               bell'[s].outcome = bell[s].outcome
        PROVE  bell'[s].outcome[d] = ScanStatus(row'[d])
    <2>1. d \in bell[s].listed /\ d \in Dispatches /\ Settled(d)
      BY <1>1, <1>a DEF NoticeInv, BellAnnounces
    <2>2. QED
      BY <1>1, <1>b, <2>1 DEF AgreeInv
  <1>2. CASE bell'[s] = bell[s]
    BY <1>1, <1>2
  <1>3. ASSUME BellList(s)
        PROVE  FALSE
    <2> DEFINE pending == {c \in Dispatches : notification[c].status = "pending"}
    <2>1. bell' = [bell EXCEPT ![s] = [IdleBell EXCEPT !.stage = "listed",
                                                       !.listed = pending]]
      BY <1>3 DEF BellList
    <2>2. [IdleBell EXCEPT !.stage = "listed", !.listed = pending].stage = "listed"
      BY DEF IdleBell
    <2> HIDE DEF pending
    <2>3. bell'[s].stage = "listed"
      BY <1>a, <2>1, <2>2
    <2>4. QED
      BY <2>3
  <1>4. CASE BellFindFinished(s)
    <2> DEFINE finished == {c \in bell[s].listed :
                              row[c].exists /\ ScanStatus(row[c]) # "pending"}
    <2>1. /\ bell' = [bell EXCEPT
               ![s].stage = After(finished),
               ![s].listed = finished,
               ![s].outcome = [c \in Dispatches |-> ScanStatus(row[c])]]
          /\ row' = row
      BY <1>4 DEF BellFindFinished, notOurs
    <2>2. finished \subseteq Dispatches
      BY <1>a
    <2> HIDE DEF finished
    <2>3. /\ bell'[s].listed = finished
          /\ bell'[s].outcome = [c \in Dispatches |-> ScanStatus(row[c])]
      BY <1>a, <2>1 DEF Bell
    <2>4. QED
      BY <2>1, <2>2, <2>3
  <1>5. ASSUME NEW c \in Dispatches, BellLoad(s, c)
        PROVE  bell'[s].outcome[d] = ScanStatus(row'[d])
    <2>1. bell[s].stage = "found"
      BY <1>5 DEF BellLoad
    <2>2. \/ bell' = [bell EXCEPT ![s].listed = bell[s].listed \ {c},
                                  ![s].stage = After(bell[s].listed \ {c})]
          \/ bell' = [bell EXCEPT ![s].stage = "loaded", ![s].current = c,
                                  ![s].loaded = notification[c]]
      BY <1>5 DEF BellLoad
    <2>3. bell'[s].listed \subseteq bell[s].listed /\ bell'[s].outcome = bell[s].outcome
      BY <1>a, <2>2 DEF Bell
    <2>4. QED
      BY <1>1, <2>1, <2>3
  <1>6. CASE BellSave(s)
    <2> DEFINE left == bell[s].listed \ {bell[s].current}
    <2>1. bell' = [bell EXCEPT ![s].listed = left, ![s].stage = After(left)]
      BY <1>6 DEF BellSave
    <2>2. bell'[s].listed \subseteq bell[s].listed /\ bell'[s].outcome = bell[s].outcome
      BY <1>a, <2>1 DEF Bell
    <2>3. QED
      BY <1>1, <1>6, <2>2 DEF BellSave
  <1>7. ASSUME NEW z \in Sessions, z # s, BellStep(z)
        PROVE  bell'[s] = bell[s]
    BY <1>7, <1>a DEF BellStep, BellList, BellFindFinished, BellLoad, BellSave
  <1>8. ASSUME InboxNext, \A z \in Sessions : ~BellStep(z)
        PROVE  bell' = bell
    BY <1>8 DEF InboxNext, MarkRead, MarkAllRead, Destroy, DestroyAll
  <1>9. CASE InboxNext
    BY <1>2, <1>3, <1>4, <1>5, <1>6, <1>7, <1>8, <1>9 DEF BellStep
  <1>10. CASE ApiNext
    BY <1>2, <1>10 DEF ApiNext, StoreDispatch, StoreAcknowledgment, PublishBatch,
       TrackPending, DeleteResults, DeleteProbes, DeleteRow
  <1>11. CASE WorkerNext
    BY <1>2, <1>11, WorkerLeaves DEF others
  <1>12. CASE ConsumerStep \/ ConsumerFault
    BY <1>2, <1>12, ConsumerLeaves DEF untouched
  <1>13. CASE UNCHANGED vars
    BY <1>2, <1>13 DEF vars
  <1>14. QED
    BY <1>9, <1>10, <1>11, <1>12, <1>13 DEF Next

\* The inbox agrees with the table, whoever writes the notification and
\* however old the read it was written from, as long as no process dies: a
\* batch that is run again may end in another way than the first time.
THEOREM InboxAgrees ==
  ASSUME "crash" \notin Faults
  PROVE  Spec => []NotificationAgrees
  <1>1. Init => OnceInv /\ OutcomeInv /\ AgreeInv
    BY AgreeInit
  <1>2. ASSUME TypeInv, KeptInv, QueuedInv, RowInv, NoticeInv,
               OnceInv, OutcomeInv, AgreeInv, [Next]_vars
        PROVE  OnceInv' /\ OutcomeInv' /\ AgreeInv'
    <2>1. OnceInv' /\ OutcomeInv'
      BY <1>2, OnceStep, OutcomeStep
    <2>2. AgreeInv'
      BY <1>2, NotificationStep, BellOutcomes DEF AgreeInv
    <2>3. QED
      BY <2>1, <2>2
  <1>3. AgreeInv => NotificationAgrees
    BY DEF AgreeInv
  <1>4. QED
    BY <1>1, <1>2, <1>3, StrongTyping, ResultsKept, UnderWayQueued, RowsQueued,
       NoticesSettled, PTL DEF Spec
=============================================================================
