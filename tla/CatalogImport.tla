----------------------------- MODULE CatalogImport -----------------------------
(***************************************************************************)
(* Bulk import of attacks and remediations: the upload that stores a       *)
(* catalog_imports row and pushes the sheet in chunks, and                 *)
(* catalog:consume-imports, the one process that stores the chunks, each   *)
(* in a transaction that also moves the counters of the row and finalises  *)
(* the notification of the last one.  The owner's account may be deleted   *)
(* at any point, which takes the row and the notifications with it.        *)
(***************************************************************************)
EXTENDS Integers, Sequences, FiniteSets

CONSTANTS
  Imports,     \* ids of the sheets users upload
  KindOf,      \* the queue an import goes through
  Chunks,      \* its chunks: how many rows the database takes and refuses
  Invalid,     \* sheets whose validation fails
  Deletable,   \* imports whose owner's account may be deleted
  Faults,      \* kinds of fault the environment may inject
  MaxFaults,   \* bound on the faults injected in one behaviour
  NoImport

Kinds == {"attacks", "remediations"}
Outcomes == {"completed", "failed"}

ASSUME ImportAssumption ==
  /\ KindOf \in [Imports -> Kinds]
  /\ Chunks \in [Imports -> Seq([good : Nat, bad : Nat])]
  /\ \A i \in Imports : Len(Chunks[i]) > 0
  /\ Invalid \subseteq Imports
  /\ Deletable \subseteq Imports
  /\ Faults \subseteq {"crash", "database"}
  /\ MaxFaults \in Nat
  /\ NoImport \notin Imports

VARIABLES
  request,     \* how far the upload of an import got
  pushed,      \* chunks of it the broker has accepted
  import,      \* catalog_imports
  catalog,     \* rows of attacks or remediations created by an import
  committed,   \* history: how often the transaction of a chunk committed
  queue,       \* catalog.attacks.import and catalog.remediations.import
  consumer,    \* the message catalog:consume-imports handles, unacknowledged
  notices,     \* user_notifications of an import, oldest first
  sameSecond,  \* the two notices of an import share their created_at
  faults,      \* faults injected so far
  released,    \* history: the consumer has put a message back at the tail
  crashed      \* history: the consumer has died with a message in hand

vars == <<request, pushed, import, catalog, committed, queue, consumer,
          notices, sameSecond, faults, released, crashed>>

Import == [status    : {"none", "pending", "processing"} \cup Outcomes,
           processed : Nat,
           success   : Nat,
           failed    : Nat]

Message == {m \in [import : Imports, chunk : Nat] :
              m.chunk \in 1 .. Len(Chunks[m.import])}

AbsentImport == [status |-> "none", processed |-> 0, success |-> 0, failed |-> 0]
NoMessage == [import |-> NoImport, chunk |-> 0]
IdleConsumer == [stage |-> "idle", msg |-> NoMessage, loaded |-> AbsentImport]

Init ==
  /\ request = [i \in Imports |-> "none"]
  /\ pushed = [i \in Imports |-> 0]
  /\ import = [i \in Imports |-> AbsentImport]
  /\ catalog = [i \in Imports |-> 0]
  /\ committed = [i \in Imports |-> [c \in 1 .. Len(Chunks[i]) |-> 0]]
  /\ queue = [k \in Kinds |-> <<>>]
  /\ consumer = IdleConsumer
  /\ notices = [i \in Imports |-> <<>>]
  /\ sameSecond = [i \in Imports |-> FALSE]
  /\ faults = 0
  /\ released = FALSE
  /\ crashed = FALSE

InjectFault(kind) == kind \in Faults /\ faults < MaxFaults /\ faults' = faults + 1

-----------------------------------------------------------------------------
(* Notifications of an import.                                             *)

\* findForSubject: the newest by created_at, which has no fraction of a second.
Latest(i) == IF sameSecond[i] THEN 1 .. Len(notices[i]) ELSE {Len(notices[i])}

\* finalizeCatalogImport reports a failure also when nothing was stored.
NoticeOutcome(row) ==
  IF row.status = "failed" \/ (row.failed > 0 /\ row.success = 0)
  THEN "failed" ELSE "completed"

\* ... it updates the notice it finds; without one it tells of failures only.
Finalize(i, row) ==
  IF notices[i] # <<>>
  THEN \E n \in Latest(i) : notices' = [notices EXCEPT ![i][n] = NoticeOutcome(row)]
  ELSE notices' = [notices EXCEPT ![i] = IF row.status = "failed" THEN <<"failed">>
                                         ELSE @]

-----------------------------------------------------------------------------
(* The upload.                                                             *)

\* A sheet with invalid rows is stored as failed and nothing is queued ...
RefuseSheet(i) ==
  /\ request[i] = "none" /\ i \in Invalid
  /\ import' = [import EXCEPT ![i] = [AbsentImport EXCEPT !.status = "failed",
                                                          !.failed = 1]]
  /\ request' = [request EXCEPT ![i] = "stored"]
  /\ UNCHANGED <<pushed, catalog, committed, queue, consumer, notices,
                 sameSecond, faults, released, crashed>>

\* ... and its owner is told.
TellRefused(i) ==
  /\ request[i] = "stored" /\ i \in Invalid
  /\ IF import[i].status = "none" THEN UNCHANGED notices ELSE Finalize(i, import[i])
  /\ request' = [request EXCEPT ![i] = "answered"]
  /\ UNCHANGED <<pushed, import, catalog, committed, queue, consumer,
                 sameSecond, faults, released, crashed>>

StoreImport(i) ==
  /\ request[i] = "none" /\ i \notin Invalid
  /\ import' = [import EXCEPT ![i] = [AbsentImport EXCEPT !.status = "pending"]]
  /\ request' = [request EXCEPT ![i] = "stored"]
  /\ UNCHANGED <<pushed, catalog, committed, queue, consumer, notices,
                 sameSecond, faults, released, crashed>>

\* CatalogImportQueuePublisher::publish, one message at a time.
PushChunk(i) ==
  /\ request[i] = "stored" /\ i \notin Invalid
  /\ pushed[i] < Len(Chunks[i])
  /\ pushed' = [pushed EXCEPT ![i] = @ + 1]
  /\ queue' = [queue EXCEPT ![KindOf[i]] =
                 Append(@, [import |-> i, chunk |-> pushed[i] + 1])]
  /\ UNCHANGED <<request, import, catalog, committed, consumer, notices,
                 sameSecond, faults, released, crashed>>

\* trackCatalogImportPending, once everything is queued; fresh() is null and
\* the request fails when the row is gone.
TrackPending(i) ==
  /\ request[i] = "stored" /\ i \notin Invalid
  /\ pushed[i] = Len(Chunks[i])
  /\ request' = [request EXCEPT ![i] = "answered"]
  /\ IF import[i].status = "none"
     THEN UNCHANGED <<notices, sameSecond>>
     ELSE /\ notices' = [notices EXCEPT ![i] = Append(@, "pending")]
          /\ \E tie \in BOOLEAN :
               /\ tie => notices[i] # <<>>
               /\ sameSecond' = [sameSecond EXCEPT ![i] = tie]
  /\ UNCHANGED <<pushed, import, catalog, committed, queue, consumer, faults,
                 released, crashed>>

\* AdminUserService::delete: the row and the notices cascade, what was
\* imported has been given to the administrator, the messages stay queued.
DeleteOwner(i) ==
  /\ i \in Deletable
  /\ import[i].status # "none"
  /\ import' = [import EXCEPT ![i] = AbsentImport]
  /\ notices' = [notices EXCEPT ![i] = <<>>]
  /\ sameSecond' = [sameSecond EXCEPT ![i] = FALSE]
  /\ UNCHANGED <<request, pushed, catalog, committed, queue, consumer, faults,
                 released, crashed>>

\* A reconciliation that looks at failed imports only.
ReconcileFailed(i) ==
  /\ \E n \in 1 .. Len(notices[i]) : notices[i][n] = "pending"
  /\ import[i].status = "failed"
  /\ Finalize(i, import[i])
  /\ UNCHANGED <<request, pushed, import, catalog, committed, queue, consumer,
                 sameSecond, faults, released, crashed>>

\* The reconciliation of an open session (NotificationInbox has its steps).
Reconcile(i) ==
  /\ \E n \in 1 .. Len(notices[i]) : notices[i][n] = "pending"
  /\ import[i].status \in Outcomes
  /\ Finalize(i, import[i])
  /\ UNCHANGED <<request, pushed, import, catalog, committed, queue, consumer,
                 sameSecond, faults, released, crashed>>

-----------------------------------------------------------------------------
(* catalog:consume-imports.                                                *)

GoTo(stage) == consumer' = [consumer EXCEPT !.stage = stage]
uploads == <<request, pushed, sameSecond>>
tables == <<import, catalog, committed, notices>>

\* The queues are polled in this order on every round.
Polled == IF queue["attacks"] # <<>> THEN "attacks" ELSE "remediations"

TakeChunk ==
  /\ consumer.stage = "idle"
  /\ queue[Polled] # <<>>
  /\ consumer' = [IdleConsumer EXCEPT !.stage = "read", !.msg = Head(queue[Polled])]
  /\ queue' = [queue EXCEPT ![Polled] = Tail(@)]
  /\ UNCHANGED <<uploads, tables, faults, released, crashed>>

\* findOrFail, before the transaction.
ReadImport ==
  LET row == import[consumer.msg.import] IN
  /\ consumer.stage = "read"
  /\ consumer' = IF row.status = "none" THEN [consumer EXCEPT !.stage = "raised"]
                 ELSE [consumer EXCEPT !.stage = "transaction", !.loaded = row]
  /\ UNCHANGED <<uploads, tables, queue, faults, released, crashed>>

\* A last chunk recognised one too early.
EarlyLast(m) == m.chunk >= Len(Chunks[m.import]) - 1

\* ... and one compared with the number of chunks, not the last index.
LateLast(m) == m.chunk > Len(Chunks[m.import])

IsLastChunk(m) == m.chunk >= Len(Chunks[m.import])

\* Counts the rows still to be processed, from zero.
RemainingAfterChunk(loaded, m) ==
  LET chunk == Chunks[m.import][m.chunk] IN
  [loaded EXCEPT !.status = IF IsLastChunk(m) THEN "completed" ELSE "processing",
                 !.processed = @ - (chunk.good + chunk.bad),
                 !.success = @ + chunk.good,
                 !.failed = @ + chunk.bad]

\* The import after a chunk of it; only a last chunk nothing of which could
\* be stored makes it fail.
AfterChunk(loaded, m) ==
  LET chunk == Chunks[m.import][m.chunk] IN
  [status    |-> IF ~IsLastChunk(m) THEN "processing"
                 ELSE IF chunk.bad > 0 /\ chunk.good = 0 THEN "failed"
                 ELSE "completed",
   processed |-> loaded.processed + chunk.good + chunk.bad,
   success   |-> loaded.success + chunk.good,
   failed    |-> loaded.failed + chunk.bad]

\* The transaction of processMessage.  A row that is gone by now is not
\* updated, fresh() is null, and the TypeError rolls everything back.
StoreChunk ==
  LET m == consumer.msg
      row == AfterChunk(consumer.loaded, m) IN
  /\ consumer.stage = "transaction"
  /\ IF import[m.import].status = "none"
     THEN GoTo("raised") /\ UNCHANGED tables
     ELSE /\ import' = [import EXCEPT ![m.import] = row]
          /\ catalog' = [catalog EXCEPT ![m.import] =
                           @ + Chunks[m.import][m.chunk].good]
          /\ committed' = [committed EXCEPT ![m.import][m.chunk] = @ + 1]
          /\ IF IsLastChunk(m) THEN Finalize(m.import, row) ELSE UNCHANGED notices
          /\ GoTo("ack")
  /\ UNCHANGED <<uploads, queue, faults, released, crashed>>

\* A statement fails after the rows of the chunk were created, and the
\* transaction is not there to take them back.
FailWithoutRollback ==
  LET m == consumer.msg IN
  /\ consumer.stage \in {"read", "transaction"}
  /\ InjectFault("database")
  /\ catalog' = IF consumer.stage = "read" THEN catalog
                ELSE [catalog EXCEPT ![m.import] =
                        @ + Chunks[m.import][m.chunk].good]
  /\ GoTo("raised")
  /\ UNCHANGED <<uploads, import, committed, notices, queue, released, crashed>>

\* A statement outside the per-row try fails: the transaction rolls back.
DatabaseFails ==
  /\ consumer.stage \in {"read", "transaction"}
  /\ InjectFault("database")
  /\ GoTo("raised")
  /\ UNCHANGED <<uploads, tables, queue, released, crashed>>

\* A release that forgets to queue the copy.
DropChunk ==
  /\ consumer.stage = "raised"
  /\ released' = TRUE
  /\ GoTo("ack")
  /\ UNCHANGED <<uploads, tables, queue, faults, crashed>>

\* RabbitMQJob::release, first half: a copy goes to the tail of its queue.
ReleaseChunk ==
  /\ consumer.stage = "raised"
  /\ queue' = [queue EXCEPT ![KindOf[consumer.msg.import]] =
                 Append(@, consumer.msg)]
  /\ released' = TRUE
  /\ GoTo("ack")
  /\ UNCHANGED <<uploads, tables, faults, crashed>>

\* A consumer that puts what it has stored back as if it had failed.
AckRequeues ==
  /\ consumer.stage = "ack"
  /\ consumer' = IdleConsumer
  /\ queue' = [queue EXCEPT ![KindOf[consumer.msg.import]] =
                 Append(@, consumer.msg)]
  /\ UNCHANGED <<uploads, tables, faults, released, crashed>>

\* RabbitMQJob::delete, and the second half of release.
AckChunk ==
  /\ consumer.stage = "ack"
  /\ consumer' = IdleConsumer
  /\ UNCHANGED <<uploads, tables, queue, faults, released, crashed>>

\* The process dies; the broker puts the message back at the head.
ConsumerCrash ==
  LET k == KindOf[consumer.msg.import] IN
  /\ consumer.stage # "idle"
  /\ InjectFault("crash")
  /\ queue' = [queue EXCEPT ![k] = <<consumer.msg>> \o @]
  /\ consumer' = IdleConsumer
  /\ crashed' = TRUE
  /\ UNCHANGED <<uploads, tables, released>>

ConsumerStep ==
  \/ TakeChunk \/ ReadImport \/ StoreChunk \/ ReleaseChunk \/ AckChunk

ConsumerFault == DatabaseFails \/ ConsumerCrash

Upload(i) == \/ RefuseSheet(i) \/ TellRefused(i)
             \/ StoreImport(i) \/ PushChunk(i) \/ TrackPending(i)

Next == \/ \E i \in Imports : Upload(i) \/ DeleteOwner(i) \/ Reconcile(i)
        \/ ConsumerStep \/ ConsumerFault

Spec == Init /\ [][Next]_vars

\* supervisord starts the consumer again whenever it exits, and the bell of an
\* open session polls; nobody owes an upload or the rest of one.
FairSpec == /\ Spec
            /\ WF_vars(ConsumerStep)
            /\ \A i \in Imports : WF_vars(Reconcile(i))

-----------------------------------------------------------------------------
\* Every variable keeps its type.
TypeOK ==
  /\ request \in [Imports -> {"none", "stored", "answered"}]
  /\ pushed \in [Imports -> Nat]
  /\ import \in [Imports -> Import]
  /\ catalog \in [Imports -> Nat]
  /\ DOMAIN committed = Imports
  /\ \A i \in Imports : committed[i] \in [1 .. Len(Chunks[i]) -> Nat]
  /\ queue \in [Kinds -> Seq(Message)]
  /\ consumer \in [stage  : {"idle", "read", "transaction", "raised", "ack"},
                   msg    : Message \cup {NoMessage},
                   loaded : Import]
  /\ notices \in [Imports -> Seq({"pending"} \cup Outcomes)]
  /\ sameSecond \in [Imports -> BOOLEAN]
  /\ faults \in Nat
  /\ released \in BOOLEAN
  /\ crashed \in BOOLEAN

Exists(i) == import[i].status # "none"
Finished(i) == import[i].status \in Outcomes

ChunkOf(i, c) == [import |-> i, chunk |-> c]

\* The places of the queue that hold a chunk, and whether the consumer has it
\* with its storing still ahead.
Places(m) == {n \in DOMAIN queue[KindOf[m.import]] : queue[KindOf[m.import]][n] = m}
InHand(m) == consumer.msg = m /\ consumer.stage \in {"read", "transaction", "raised"}
Copies(m) == Cardinality(Places(m)) + (IF InHand(m) THEN 1 ELSE 0)

\* The counters of an import say what it did to the catalog: every row counted
\* as a success was created and every created row is counted, however often a
\* chunk is rolled back, released or delivered again.  They are computed from
\* a read made before the transaction, so this rests on there being one
\* consumer.
CountsAgree ==
  \A i \in Imports \ Invalid : Exists(i) =>
    /\ import[i].success = catalog[i]
    /\ import[i].processed = import[i].success + import[i].failed

\* A chunk the broker accepted is never lost: it was stored, or a copy of it
\* is queued or being handled, also when its import is gone.
NoChunkLost ==
  \A i \in Imports : \A c \in 1 .. pushed[i] :
    \/ committed[i][c] >= 1
    \/ Places(ChunkOf(i, c)) # {}
    \/ InHand(ChunkOf(i, c))

\* ... and as long as the consumer does not crash it is stored exactly once: a
\* transaction that raised left nothing behind.
ChunkExactlyOnce ==
  ~crashed => \A i \in Imports : \A c \in 1 .. pushed[i] :
    committed[i][c] + Copies(ChunkOf(i, c)) = 1

\* An import is shown as finished only when all of its chunks are stored: the
\* last one is handled last, unless an earlier one was released to the tail.
FinishedIsComplete ==
  \A i \in Imports \ Invalid : Finished(i) /\ ~released =>
    \A c \in 1 .. Len(Chunks[i]) : committed[i][c] >= 1

-----------------------------------------------------------------------------
\* An import whose chunks are all queued ends, or its owner is deleted, even
\* when the consumer crashes in the middle.
ImportEnds ==
  \A i \in Imports :
    request[i] = "answered" ~> Finished(i) \/ ~Exists(i)

\* The owner of a finished import is told: no notice of it stays pending.
OwnerIsTold ==
  \A i \in Imports :
    Finished(i) ~> \/ ~Exists(i)
                   \/ \A n \in 1 .. Len(notices[i]) : notices[i][n] # "pending"
=============================================================================
