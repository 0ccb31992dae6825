-------------------------- MODULE CatalogImport_proofs --------------------------
(***************************************************************************)
(* Theorems about CatalogImport, for every set of imports, chunks, faults  *)
(* and deletable accounts.                                                 *)
(***************************************************************************)
EXTENDS CatalogImport, QueueLemmas, FiniteSetTheorems

-----------------------------------------------------------------------------
(* Types.                                                                  *)

\* The type invariant, with what a busy consumer holds: a release or a crash
\* puts it back in a queue.
TypeInv ==
  /\ TypeOK
  /\ consumer.stage # "idle" => consumer.msg \in Message

\* Finalising a notice keeps the notices typed.
LEMMA FinalizeTypes ==
  ASSUME TypeOK, NEW i \in Imports, NEW r, Finalize(i, r)
  PROVE  notices' \in [Imports -> Seq({"pending"} \cup Outcomes)]
  <1> DEFINE S == {"pending"} \cup Outcomes
  <1>1. notices \in [Imports -> Seq(S)] /\ notices[i] \in Seq(S)
    BY DEF TypeOK
  <1>2. NoticeOutcome(r) \in S
    BY DEF NoticeOutcome, Outcomes
  <1>3. CASE notices[i] # <<>>
    <2>1. PICK n \in Latest(i) :
            notices' = [notices EXCEPT ![i][n] = NoticeOutcome(r)]
      BY <1>3 DEF Finalize
    <2>2. n \in 1 .. Len(notices[i])
      <3>1. Len(notices[i]) \in Nat /\ Len(notices[i]) # 0
        BY <1>1, <1>3, EmptySeq
      <3>2. QED
        BY <2>1, <3>1 DEF Latest
    <2>3. [notices[i] EXCEPT ![n] = NoticeOutcome(r)] \in Seq(S)
      BY <1>1, <1>2, <2>2, ExceptSeq
    <2>4. QED
      BY <1>1, <2>1, <2>3
  <1>4. CASE notices[i] = <<>>
    <2>1. <<"failed">> \in Seq(S)
      BY DEF Outcomes
    <2>2. QED
      BY <1>1, <1>4, <2>1 DEF Finalize
  <1>5. QED
    BY <1>3, <1>4

\* The row after a chunk is well formed.
LEMMA AfterChunkTypes ==
  ASSUME NEW loaded \in Import, NEW m \in Message
  PROVE  /\ AfterChunk(loaded, m) \in Import
         /\ AfterChunk(loaded, m).status # "none"
         /\ Chunks[m.import][m.chunk] \in [good : Nat, bad : Nat]
  <1> DEFINE chunk == Chunks[m.import][m.chunk]
  <1>1. m.import \in Imports /\ m.chunk \in 1 .. Len(Chunks[m.import])
    BY DEF Message
  <1>2. chunk \in [good : Nat, bad : Nat]
    <2> DEFINE T == [good : Nat, bad : Nat]
    <2>1. Chunks[m.import] \in Seq(T)
      BY <1>1, ImportAssumption
    <2>2. \A c \in 1 .. Len(Chunks[m.import]) : Chunks[m.import][c] \in T
      <3> HIDE DEF T
      <3>1. QED
        BY <2>1, ElementOfSeq
    <2>3. QED
      BY <1>1, <2>2
  <1>3. chunk.good \in Nat /\ chunk.bad \in Nat
    BY <1>2
  <1>4. /\ loaded.processed \in Nat /\ loaded.success \in Nat
        /\ loaded.failed \in Nat
    BY DEF Import
  <1> HIDE DEF chunk
  <1>5. /\ loaded.processed + chunk.good + chunk.bad \in Nat
        /\ loaded.success + chunk.good \in Nat
        /\ loaded.failed + chunk.bad \in Nat
    BY <1>3, <1>4
  <1>6. QED
    BY <1>2, <1>5 DEF AfterChunk, Import, Outcomes, chunk

\* The initial state is typed.
LEMMA InitTypes == Init => TypeInv
  <1> SUFFICES ASSUME Init PROVE TypeInv
    OBVIOUS
  <1>1. AbsentImport \in Import
    BY DEF AbsentImport, Import
  <1>2. import \in [Imports -> Import]
    BY <1>1 DEF Init
  <1>3. /\ consumer \in [stage  : {"idle", "read", "transaction", "raised", "ack"},
                         msg    : Message \cup {NoMessage},
                         loaded : Import]
        /\ consumer.stage = "idle"
    BY <1>1 DEF Init, IdleConsumer
  <1>4. /\ queue \in [Kinds -> Seq(Message)]
        /\ notices \in [Imports -> Seq({"pending"} \cup Outcomes)]
    BY DEF Init
  <1>5. /\ DOMAIN committed = Imports
        /\ \A i \in Imports : committed[i] \in [1 .. Len(Chunks[i]) -> Nat]
    BY DEF Init
  <1>6. QED
    BY <1>2, <1>3, <1>4, <1>5 DEF Init, TypeInv, TypeOK

\* A step of an upload keeps the types.
LEMMA UploadTypes ==
  ASSUME TypeInv, NEW i \in Imports, Upload(i)
  PROVE  TypeInv'
  <1>1. CASE RefuseSheet(i)
    <2>1. [AbsentImport EXCEPT !.status = "failed", !.failed = 1] \in Import
      BY DEF AbsentImport, Import, Outcomes
    <2>2. QED
      BY <1>1, <2>1 DEF RefuseSheet, TypeInv, TypeOK
  <1>2. CASE TellRefused(i)
    <2>1. notices' \in [Imports -> Seq({"pending"} \cup Outcomes)]
      BY <1>2, FinalizeTypes DEF TellRefused, TypeInv, TypeOK
    <2>2. QED
      BY <1>2, <2>1 DEF TellRefused, TypeInv, TypeOK
  <1>3. CASE StoreImport(i)
    <2>1. [AbsentImport EXCEPT !.status = "pending"] \in Import
      BY DEF AbsentImport, Import
    <2>2. QED
      BY <1>3, <2>1 DEF StoreImport, TypeInv, TypeOK
  <1>4. CASE PushChunk(i)
    <2> DEFINE m == [import |-> i, chunk |-> pushed[i] + 1]
    <2>1. pushed[i] \in Nat /\ pushed[i] < Len(Chunks[i]) /\ Len(Chunks[i]) \in Nat
      BY <1>4, ImportAssumption DEF PushChunk, TypeInv, TypeOK
    <2>2. m \in Message /\ pushed[i] + 1 \in Nat
      BY <2>1 DEF Message
    <2>3. KindOf[i] \in Kinds
      BY ImportAssumption
    <2>4. queue[KindOf[i]] \in Seq(Message)
      BY <2>3 DEF TypeInv, TypeOK
    <2>5. Append(queue[KindOf[i]], m) \in Seq(Message)
      BY <2>2, <2>4, AppendElements
    <2>6. queue' \in [Kinds -> Seq(Message)]
      BY <1>4, <2>5 DEF PushChunk, TypeInv, TypeOK
    <2>7. QED
      BY <1>4, <2>2, <2>6 DEF PushChunk, TypeInv, TypeOK
  <1>5. CASE TrackPending(i)
    <2>1. Append(notices[i], "pending") \in Seq({"pending"} \cup Outcomes)
      BY AppendElements DEF TypeInv, TypeOK
    <2>2. notices' \in [Imports -> Seq({"pending"} \cup Outcomes)]
      BY <1>5, <2>1 DEF TrackPending, TypeInv, TypeOK
    <2>3. sameSecond' \in [Imports -> BOOLEAN]
      BY <1>5 DEF TrackPending, TypeInv, TypeOK
    <2>4. QED
      BY <1>5, <2>2, <2>3 DEF TrackPending, TypeInv, TypeOK
  <1>6. QED
    BY <1>1, <1>2, <1>3, <1>4, <1>5 DEF Upload

\* The deletion of an account and a reconciliation keep the types.
LEMMA OwnerTypes ==
  ASSUME TypeInv, NEW i \in Imports, DeleteOwner(i) \/ Reconcile(i)
  PROVE  TypeInv'
  <1>1. CASE DeleteOwner(i)
    <2>1. AbsentImport \in Import /\ <<>> \in Seq({"pending"} \cup Outcomes)
      BY DEF AbsentImport, Import
    <2>2. QED
      BY <1>1, <2>1 DEF DeleteOwner, TypeInv, TypeOK
  <1>2. CASE Reconcile(i)
    <2>1. notices' \in [Imports -> Seq({"pending"} \cup Outcomes)]
      BY <1>2, FinalizeTypes DEF Reconcile, TypeInv
    <2>2. QED
      BY <1>2, <2>1 DEF Reconcile, TypeInv, TypeOK
  <1>3. QED
    BY <1>1, <1>2

\* A step of the consumer keeps the types.
LEMMA ConsumerTypes ==
  ASSUME TypeInv, ConsumerStep
  PROVE  TypeInv'
  <1> DEFINE Held == [stage  : {"idle", "read", "transaction", "raised", "ack"},
                      msg    : Message \cup {NoMessage},
                      loaded : Import]
  <1>a. consumer \in Held
    BY DEF TypeInv, TypeOK
  <1>b. consumer.stage # "idle" => /\ consumer.msg \in Message
                                   /\ consumer.msg.import \in Imports
                                   /\ KindOf[consumer.msg.import] \in Kinds
    BY ImportAssumption DEF TypeInv, Message
  <1>c. \A st \in {"idle", "read", "transaction", "raised", "ack"} :
          GoTo(st) => consumer' \in Held /\ consumer'.msg = consumer.msg
    BY <1>a DEF GoTo
  <1>1. CASE TakeChunk
    <2>1. Polled \in Kinds /\ queue[Polled] \in Seq(Message) /\ queue[Polled] # <<>>
      BY <1>1 DEF TakeChunk, Polled, Kinds, TypeInv, TypeOK
    <2>2. Head(queue[Polled]) \in Message /\ Tail(queue[Polled]) \in Seq(Message)
      BY <2>1, TailElements
    <2>3. queue' \in [Kinds -> Seq(Message)]
      BY <1>1, <2>2 DEF TakeChunk, TypeInv, TypeOK
    <2>4. consumer' = [stage |-> "read", msg |-> Head(queue[Polled]),
                       loaded |-> AbsentImport]
      BY <1>1 DEF TakeChunk, IdleConsumer
    <2>5. consumer' \in Held /\ consumer'.msg \in Message
      BY <2>2, <2>4 DEF AbsentImport, Import
    <2>6. QED
      BY <1>1, <2>3, <2>5 DEF TakeChunk, uploads, tables, TypeInv, TypeOK
  <1>2. CASE ReadImport
    <2>1. import[consumer.msg.import] \in Import
      BY <1>2, <1>b DEF ReadImport, TypeInv, TypeOK
    <2>2. consumer' \in Held /\ consumer'.msg = consumer.msg
      BY <1>2, <1>a, <2>1 DEF ReadImport
    <2>3. QED
      BY <1>2, <1>b, <2>2 DEF ReadImport, uploads, tables, TypeInv, TypeOK
  <1>3. CASE StoreChunk
    <2> DEFINE m == consumer.msg
               r == AfterChunk(consumer.loaded, m)
    <2>1. m \in Message /\ m.import \in Imports /\ consumer.loaded \in Import
      BY <1>3, <1>a, <1>b DEF StoreChunk
    <2>2. consumer' \in Held /\ consumer'.msg = m
      BY <1>3, <1>c DEF StoreChunk
    <2>3. CASE import[m.import].status = "none"
      BY <1>3, <1>b, <2>2, <2>3 DEF StoreChunk, uploads, tables, TypeInv, TypeOK
    <2>4. CASE import[m.import].status # "none"
      <3>1. r \in Import /\ Chunks[m.import][m.chunk] \in [good : Nat, bad : Nat]
        BY <2>1, AfterChunkTypes
      <3>2. import' \in [Imports -> Import]
        BY <1>3, <2>4, <3>1 DEF StoreChunk, TypeInv, TypeOK
      <3>3. catalog' \in [Imports -> Nat]
        <4>1. catalog[m.import] \in Nat /\ Chunks[m.import][m.chunk].good \in Nat
          BY <2>1, <3>1 DEF TypeInv, TypeOK
        <4>2. catalog[m.import] + Chunks[m.import][m.chunk].good \in Nat
          BY <4>1
        <4>3. QED
          BY <1>3, <2>4, <4>2 DEF StoreChunk, TypeInv, TypeOK
      <3>4. /\ DOMAIN committed' = Imports
            /\ \A i \in Imports : committed'[i] \in [1 .. Len(Chunks[i]) -> Nat]
        <4>1. DOMAIN committed = Imports /\ \A i \in Imports : committed[i] \in [1 .. Len(Chunks[i]) -> Nat]
          BY DEF TypeInv, TypeOK
        <4>2. committed' = [committed EXCEPT ![m.import][m.chunk] = @ + 1]
          BY <1>3, <2>4 DEF StoreChunk
        <4>3. DOMAIN committed' = Imports
          BY <4>1, <4>2
        <4>4. ASSUME NEW i \in Imports
              PROVE  committed'[i] \in [1 .. Len(Chunks[i]) -> Nat]
          <5>1. CASE i = m.import
            <6>1. committed'[i] = [committed[i] EXCEPT ![m.chunk] = @ + 1]
              BY <4>1, <4>2, <5>1
            <6>2. committed[i] \in [1 .. Len(Chunks[i]) -> Nat]
              BY <4>1
            <6>3. m.chunk \in 1 .. Len(Chunks[i])
              BY <2>1, <5>1 DEF Message
            <6>4. committed[i][m.chunk] + 1 \in Nat
              BY <6>2, <6>3
            <6>5. committed'[i] = [committed[i] EXCEPT
                                    ![m.chunk] = committed[i][m.chunk] + 1]
              BY <6>1
            <6>6. QED
              BY <6>2, <6>4, <6>5
          <5>2. CASE i # m.import
            BY <4>1, <4>2, <5>2
          <5>3. QED
            BY <5>1, <5>2
        <4>5. QED
          BY <4>3, <4>4
      <3>5. notices' \in [Imports -> Seq({"pending"} \cup Outcomes)]
        BY <1>3, <2>1, <2>4, FinalizeTypes DEF StoreChunk, TypeInv, TypeOK
      <3>6. QED
        BY <1>3, <1>b, <2>1, <2>2, <3>2, <3>3, <3>4, <3>5
           DEF StoreChunk, uploads, TypeInv, TypeOK
    <2>5. QED
      BY <2>3, <2>4
  <1>4. CASE ReleaseChunk
    <2> DEFINE k == KindOf[consumer.msg.import]
    <2>1. consumer' \in Held /\ consumer'.msg = consumer.msg
      BY <1>4, <1>c DEF ReleaseChunk
    <2>2. consumer.msg \in Message /\ queue[k] \in Seq(Message)
      BY <1>4, <1>b DEF ReleaseChunk, TypeInv, TypeOK
    <2>3. Append(queue[k], consumer.msg) \in Seq(Message)
      BY <2>2, AppendElements
    <2>4. queue' \in [Kinds -> Seq(Message)] /\ released' \in BOOLEAN
      BY <1>4, <2>3 DEF ReleaseChunk, TypeInv, TypeOK
    <2>5. QED
      BY <1>4, <2>1, <2>2, <2>4 DEF ReleaseChunk, uploads, tables, TypeInv, TypeOK
  <1>5. CASE AckChunk
    <2>1. consumer' \in Held /\ consumer'.stage = "idle"
      BY <1>5 DEF AckChunk, IdleConsumer, AbsentImport, Import
    <2>2. QED
      BY <1>5, <2>1 DEF AckChunk, uploads, tables, TypeInv, TypeOK
  <1>6. QED
    BY <1>1, <1>2, <1>3, <1>4, <1>5 DEF ConsumerStep

\* A fault of the consumer keeps the types.
LEMMA FaultTypes ==
  ASSUME TypeInv, ConsumerFault
  PROVE  TypeInv'
  <1>a. faults' \in Nat
    BY DEF ConsumerFault, DatabaseFails, ConsumerCrash, InjectFault, TypeInv, TypeOK
  <1>1. CASE DatabaseFails
    BY <1>1, <1>a DEF DatabaseFails, GoTo, uploads, tables, TypeInv, TypeOK
  <1>2. CASE ConsumerCrash
    <2> DEFINE k == KindOf[consumer.msg.import]
    <2>1. consumer.msg \in Message /\ consumer.msg.import \in Imports
      BY <1>2 DEF ConsumerCrash, TypeInv, Message
    <2>2. queue[k] \in Seq(Message)
      BY <2>1, ImportAssumption DEF TypeInv, TypeOK
    <2>3. <<consumer.msg>> \o queue[k] \in Seq(Message)
      BY <2>1, <2>2, RequeueElements
    <2>4. queue' \in [Kinds -> Seq(Message)]
      BY <1>2, <2>3 DEF ConsumerCrash, TypeInv, TypeOK
    <2>5. IdleConsumer \in [stage  : {"idle", "read", "transaction", "raised", "ack"},
                            msg    : Message \cup {NoMessage},
                            loaded : Import]
      BY DEF IdleConsumer, AbsentImport, Import
    <2>6. QED
      BY <1>2, <1>a, <2>4, <2>5
         DEF ConsumerCrash, IdleConsumer, uploads, tables, TypeInv, TypeOK
  <1>3. QED
    BY <1>1, <1>2 DEF ConsumerFault

\* Types are kept along every behaviour.
LEMMA TypesKept == Spec => []TypeInv
  <1>1. TypeInv /\ [Next]_vars => TypeInv'
    <2> SUFFICES ASSUME TypeInv, [Next]_vars PROVE TypeInv'
      OBVIOUS
    <2>1. CASE Next
      BY <2>1, UploadTypes, OwnerTypes, ConsumerTypes, FaultTypes DEF Next
    <2>2. CASE UNCHANGED vars
      BY <2>2 DEF vars, TypeInv, TypeOK
    <2>3. QED
      BY <2>1, <2>2
  <1>2. QED
    BY <1>1, InitTypes, PTL DEF Spec

\* Every variable keeps its type: the counters of an import and of its chunks
\* are natural numbers, every queued or handled message is a chunk of a sheet.
THEOREM Typing == Spec => []TypeOK
  <1>1. TypeInv => TypeOK
    BY DEF TypeInv
  <1>2. QED
    BY <1>1, TypesKept, PTL

-----------------------------------------------------------------------------
(* The counters of an import.                                              *)

\* Nothing of an import exists before its upload, and its chunks are pushed
\* after it.
UploadInv ==
  \A i \in Imports :
    /\ request[i] = "none" => /\ import[i] = AbsentImport
                              /\ catalog[i] = 0
                              /\ pushed[i] = 0
    /\ pushed[i] <= Len(Chunks[i])

\* A queued or handled chunk has been uploaded.
KnownInv ==
  /\ \A k \in Kinds : \A n \in 1 .. Len(queue[k]) :
       request[queue[k][n].import] # "none"
  /\ consumer.stage # "idle" => request[consumer.msg.import] # "none"

Counters(r) == <<r.processed, r.success, r.failed>>

\* What the consumer read of a row before its transaction is still there when
\* the transaction runs, unless the row is gone: nobody else moves counters.
LoadedInv ==
  consumer.stage = "transaction" /\ Exists(consumer.msg.import) =>
    Counters(consumer.loaded) = Counters(import[consumer.msg.import])

CountInv == UploadInv /\ KnownInv /\ LoadedInv /\ CountsAgree

\* Nothing is counted at first.
LEMMA InitCounts == Init => CountInv
  BY ImportAssumption
     DEF Init, CountInv, UploadInv, KnownInv, LoadedInv, CountsAgree, Exists,
         IdleConsumer, AbsentImport

\* A step of an upload.
LEMMA UploadCounts ==
  ASSUME TypeInv, CountInv, NEW i \in Imports, Upload(i)
  PROVE  CountInv'
  <1>a. consumer.stage # "idle" => consumer.msg.import \in Imports
    BY DEF TypeInv, Message
  <1>b. \A k \in Kinds : \A n \in 1 .. Len(queue[k]) : queue[k][n].import \in Imports
    <2>1. ASSUME NEW k \in Kinds, NEW n \in 1 .. Len(queue[k])
          PROVE  queue[k][n] \in Message
      BY <2>1, ElementOfSeq DEF TypeInv, TypeOK
    <2>2. QED
      BY <2>1 DEF Message
  <1>c. /\ request \in [Imports -> {"none", "stored", "answered"}]
        /\ import \in [Imports -> Import]
        /\ pushed \in [Imports -> Nat]
    BY DEF TypeInv, TypeOK
  <1>1. CASE RefuseSheet(i) \/ StoreImport(i)
    <2>1. /\ request[i] = "none"
          /\ request' = [request EXCEPT ![i] = "stored"]
          /\ \E r \in Import :
               /\ import' = [import EXCEPT ![i] = r]
               /\ i \notin Invalid => r.processed = 0 /\ r.success = 0 /\ r.failed = 0
          /\ UNCHANGED <<pushed, catalog, queue, consumer>>
      <3>1. /\ [AbsentImport EXCEPT !.status = "failed", !.failed = 1] \in Import
            /\ [AbsentImport EXCEPT !.status = "pending"] \in Import
            /\ [AbsentImport EXCEPT !.status = "pending"].processed = 0
            /\ [AbsentImport EXCEPT !.status = "pending"].success = 0
            /\ [AbsentImport EXCEPT !.status = "pending"].failed = 0
        BY DEF AbsentImport, Import, Outcomes
      <3>2. QED
        BY <1>1, <3>1 DEF RefuseSheet, StoreImport
    <2>2. catalog[i] = 0
      BY <2>1 DEF CountInv, UploadInv
    <2>3. UploadInv'
      BY <1>c, <2>1 DEF CountInv, UploadInv
    <2>4. KnownInv'
      BY <1>a, <1>b, <1>c, <2>1 DEF CountInv, KnownInv
    <2>5. LoadedInv'
      <3>1. consumer.stage # "idle" => consumer.msg.import # i
        BY <2>1 DEF CountInv, KnownInv
      <3>2. QED
        BY <1>a, <1>c, <2>1, <3>1 DEF CountInv, LoadedInv, Exists
    <2>6. CountsAgree'
      BY <1>c, <2>1, <2>2 DEF CountInv, CountsAgree, Exists
    <2>7. QED
      BY <2>3, <2>4, <2>5, <2>6 DEF CountInv
  <1>2. CASE TellRefused(i) \/ TrackPending(i)
    <2>1. /\ request[i] = "stored"
          /\ request' = [request EXCEPT ![i] = "answered"]
          /\ UNCHANGED <<pushed, import, catalog, queue, consumer>>
      BY <1>2 DEF TellRefused, TrackPending
    <2>2. UploadInv'
      BY <1>c, <2>1 DEF CountInv, UploadInv
    <2>3. KnownInv'
      BY <1>a, <1>b, <1>c, <2>1 DEF CountInv, KnownInv
    <2>4. LoadedInv' /\ CountsAgree'
      BY <2>1 DEF CountInv, LoadedInv, CountsAgree, Exists
    <2>5. QED
      BY <2>2, <2>3, <2>4 DEF CountInv
  <1>3. CASE PushChunk(i)
    <2> DEFINE k == KindOf[i]
               m == [import |-> i, chunk |-> pushed[i] + 1]
    <2>1. /\ request[i] = "stored" /\ pushed[i] < Len(Chunks[i])
          /\ pushed' = [pushed EXCEPT ![i] = @ + 1]
          /\ queue' = [queue EXCEPT ![k] = Append(@, m)]
          /\ UNCHANGED <<request, import, catalog, consumer>>
      BY <1>3 DEF PushChunk
    <2>2. Len(Chunks[i]) \in Nat /\ k \in Kinds
      BY ImportAssumption
    <2>3. UploadInv'
      BY <1>c, <2>1, <2>2 DEF CountInv, UploadInv
    <2>4. KnownInv'
      <3>1. m \in Message
        BY <1>c, <2>1, <2>2 DEF Message
      <3>2. queue[k] \in Seq(Message) /\ queue \in [Kinds -> Seq(Message)]
        BY <2>2 DEF TypeInv, TypeOK
      <3>3. /\ queue'[k] = Append(queue[k], m)
            /\ \A j \in Kinds \ {k} : queue'[j] = queue[j]
        BY <2>1, <2>2, <3>2
      <3>4. ASSUME NEW j \in Kinds, NEW n \in 1 .. Len(queue'[j])
            PROVE  request[queue'[j][n].import] # "none"
        <4>1. CASE j # k
          BY <3>3, <4>1 DEF CountInv, KnownInv
        <4>2. CASE j = k
          <5>1. /\ Len(queue'[k]) = Len(queue[k]) + 1
                /\ \A p \in 1 .. Len(queue[k]) : queue'[k][p] = queue[k][p]
                /\ queue'[k][Len(queue[k]) + 1] = m
            BY <3>1, <3>2, <3>3, AppendElements
          <5>2. Len(queue[k]) \in Nat
            BY <3>2
          <5>3. n \in 1 .. Len(queue[k]) \/ n = Len(queue[k]) + 1
            BY <4>2, <5>1, <5>2
          <5>4. QED
            BY <2>1, <2>2, <4>2, <5>1, <5>3 DEF CountInv, KnownInv
        <4>3. QED
          BY <4>1, <4>2
      <3>5. QED
        BY <2>1, <3>4 DEF CountInv, KnownInv
    <2>5. LoadedInv' /\ CountsAgree'
      BY <2>1 DEF CountInv, LoadedInv, CountsAgree, Exists
    <2>6. QED
      BY <2>3, <2>4, <2>5 DEF CountInv
  <1>4. QED
    BY <1>1, <1>2, <1>3 DEF Upload

\* The deletion of an account and a reconciliation.
LEMMA OwnerCounts ==
  ASSUME TypeInv, CountInv, NEW i \in Imports, DeleteOwner(i) \/ Reconcile(i)
  PROVE  CountInv'
  <1>a. consumer.stage # "idle" => consumer.msg.import \in Imports
    BY DEF TypeInv, Message
  <1>1. CASE DeleteOwner(i)
    <2>1. /\ import' = [import EXCEPT ![i] = AbsentImport]
          /\ import \in [Imports -> Import]
          /\ UNCHANGED <<request, pushed, catalog, queue, consumer>>
      BY <1>1 DEF DeleteOwner, TypeInv, TypeOK
    <2>2. UploadInv' /\ KnownInv'
      BY <2>1 DEF CountInv, UploadInv, KnownInv
    <2>3. LoadedInv' /\ CountsAgree'
      BY <1>a, <2>1 DEF CountInv, LoadedInv, CountsAgree, Exists, AbsentImport
    <2>4. QED
      BY <2>2, <2>3 DEF CountInv
  <1>2. CASE Reconcile(i)
    BY <1>2 DEF Reconcile, CountInv, UploadInv, KnownInv, LoadedInv, CountsAgree, Exists
  <1>3. QED
    BY <1>1, <1>2

\* A step of the consumer, or a fault of it.
LEMMA ConsumerCounts ==
  ASSUME TypeInv, CountInv, ConsumerStep \/ ConsumerFault
  PROVE  CountInv'
  <1> DEFINE msg == consumer.msg
  <1>a. consumer.stage # "idle" =>
          /\ msg \in Message /\ msg.import \in Imports
          /\ KindOf[msg.import] \in Kinds /\ request[msg.import] # "none"
    BY ImportAssumption DEF TypeInv, Message, CountInv, KnownInv
  <1>b. /\ queue \in [Kinds -> Seq(Message)]
        /\ consumer \in [stage  : {"idle", "read", "transaction", "raised", "ack"},
                         msg    : Message \cup {NoMessage},
                         loaded : Import]
        /\ import \in [Imports -> Import]
    BY DEF TypeInv, TypeOK
  <1>1. CASE TakeChunk
    <2> DEFINE k == Polled
    <2>1. /\ k \in Kinds /\ queue[k] \in Seq(Message) /\ queue[k] # <<>>
          /\ queue' = [queue EXCEPT ![k] = Tail(@)]
          /\ consumer'.stage = "read" /\ consumer'.msg = Head(queue[k])
          /\ UNCHANGED <<request, pushed, import, catalog>>
      BY <1>1, <1>b DEF TakeChunk, Polled, Kinds, IdleConsumer, uploads, tables
    <2>2. /\ Len(queue[k]) \in Nat \ {0} /\ Head(queue[k]) = queue[k][1]
          /\ Len(Tail(queue[k])) = Len(queue[k]) - 1
          /\ \A n \in 1 .. Len(Tail(queue[k])) : Tail(queue[k])[n] = queue[k][n + 1]
      BY <2>1, TailElements
    <2>3. KnownInv'
      <3>1. /\ queue'[k] = Tail(queue[k])
            /\ \A j \in Kinds \ {k} : queue'[j] = queue[j]
        BY <1>b, <2>1
      <3>2. ASSUME NEW j \in Kinds, NEW n \in 1 .. Len(queue'[j])
            PROVE  request[queue'[j][n].import] # "none"
        <4>1. CASE j # k
          BY <3>1, <4>1 DEF CountInv, KnownInv
        <4>2. CASE j = k
          <5>a. n \in 1 .. Len(Tail(queue[k]))
            BY <3>1, <4>2
          <5>1. n + 1 \in 1 .. Len(queue[k]) /\ queue'[k][n] = queue[k][n + 1]
            BY <2>2, <3>1, <5>a
          <5>2. QED
            BY <2>1, <4>2, <5>1 DEF CountInv, KnownInv
        <4>3. QED
          BY <4>1, <4>2
      <3>3. request[Head(queue[k]).import] # "none"
        <4>1. 1 \in 1 .. Len(queue[k])
          BY <2>2
        <4>2. QED
          BY <2>1, <2>2, <4>1 DEF CountInv, KnownInv
      <3>4. QED
        BY <2>1, <3>2, <3>3 DEF KnownInv
    <2>4. UploadInv' /\ LoadedInv' /\ CountsAgree'
      BY <2>1 DEF CountInv, UploadInv, LoadedInv, CountsAgree, Exists
    <2>5. QED
      BY <2>3, <2>4 DEF CountInv
  <1>2. CASE ReadImport
    <2>1. /\ consumer'.msg = msg
          /\ consumer'.stage = "transaction" => consumer'.loaded = import[msg.import]
          /\ consumer.stage # "idle"
          /\ UNCHANGED <<request, pushed, import, catalog, queue>>
      BY <1>2, <1>b DEF ReadImport, uploads, tables
    <2>2. UploadInv' /\ CountsAgree'
      BY <2>1 DEF CountInv, UploadInv, CountsAgree, Exists
    <2>3. KnownInv'
      BY <1>a, <2>1 DEF CountInv, KnownInv
    <2>4. LoadedInv'
      BY <2>1 DEF LoadedInv
    <2>5. QED
      BY <2>2, <2>3, <2>4 DEF CountInv
  <1>3. CASE StoreChunk
    <2> DEFINE r == AfterChunk(consumer.loaded, msg)
               chunk == Chunks[msg.import][msg.chunk]
    <2>1. /\ consumer.stage = "transaction"
          /\ consumer'.msg = msg /\ consumer'.stage \in {"raised", "ack"}
          /\ UNCHANGED <<request, pushed, queue>>
      BY <1>3, <1>b DEF StoreChunk, GoTo, uploads
    <2>2. KnownInv' /\ LoadedInv'
      BY <1>a, <2>1 DEF CountInv, KnownInv, LoadedInv
    <2>3. CASE import[msg.import].status = "none"
      BY <1>3, <2>1, <2>2, <2>3
         DEF StoreChunk, tables, CountInv, UploadInv, CountsAgree, Exists
    <2>4. CASE import[msg.import].status # "none"
      <3>1. /\ import' = [import EXCEPT ![msg.import] = r]
            /\ catalog' = [catalog EXCEPT ![msg.import] = @ + chunk.good]
            /\ catalog \in [Imports -> Nat]
        BY <1>3, <2>4 DEF StoreChunk, TypeInv, TypeOK
      <3>2. UploadInv'
        BY <1>a, <2>1, <3>1 DEF CountInv, UploadInv
      <3>3. /\ r.processed = consumer.loaded.processed + chunk.good + chunk.bad
            /\ r.success = consumer.loaded.success + chunk.good
            /\ r.failed = consumer.loaded.failed + chunk.bad
        BY DEF AfterChunk
      <3>4. CountsAgree'
        <4>1. ASSUME NEW i \in Imports \ Invalid, Exists(i)'
              PROVE  /\ import'[i].success = catalog'[i]
                     /\ import'[i].processed = import'[i].success + import'[i].failed
          <5>1. CASE i # msg.import
            BY <1>b, <3>1, <4>1, <5>1 DEF CountInv, CountsAgree, Exists
          <5>2. CASE i = msg.import
            <6>1. /\ import[i].success = catalog[i]
                  /\ import[i].processed = import[i].success + import[i].failed
                  /\ Counters(consumer.loaded) = Counters(import[i])
              BY <2>1, <2>4, <5>2 DEF CountInv, CountsAgree, LoadedInv, Exists
            <6>2. /\ consumer.loaded.processed = import[i].processed
                  /\ consumer.loaded.success = import[i].success
                  /\ consumer.loaded.failed = import[i].failed
              BY <6>1 DEF Counters
            <6>3. /\ import[i].success \in Nat /\ import[i].failed \in Nat
                  /\ import[i].processed \in Nat
              BY <1>b DEF Import
            <6>4. chunk.good \in Nat /\ chunk.bad \in Nat
              <7>1. chunk \in [good : Nat, bad : Nat]
                BY <1>a, <1>b, <2>1, AfterChunkTypes
              <7>2. QED
                BY <7>1
            <6>5. import'[i] = r /\ catalog'[i] = catalog[i] + chunk.good
              BY <1>b, <3>1, <5>2
            <6> HIDE DEF r, chunk
            <6>6. QED
              BY <3>3, <6>1, <6>2, <6>3, <6>4, <6>5
          <5>3. QED
            BY <5>1, <5>2
        <4>2. QED
          BY <4>1 DEF CountsAgree
      <3>5. QED
        BY <2>2, <3>2, <3>4 DEF CountInv
    <2>5. QED
      BY <2>3, <2>4
  <1>4. CASE ReleaseChunk
    <2> DEFINE k == KindOf[msg.import]
    <2>1. /\ consumer.stage = "raised" /\ consumer'.stage = "ack" /\ consumer'.msg = msg
          /\ queue' = [queue EXCEPT ![k] = Append(@, msg)]
          /\ UNCHANGED <<request, pushed, import, catalog>>
      BY <1>4, <1>b DEF ReleaseChunk, GoTo, uploads, tables
    <2>2. queue[k] \in Seq(Message) /\ k \in Kinds
      BY <1>a, <1>b, <2>1
    <2>3. /\ queue'[k] = Append(queue[k], msg)
          /\ \A j \in Kinds \ {k} : queue'[j] = queue[j]
      BY <1>b, <2>1, <2>2
    <2>4. KnownInv'
      <3>1. ASSUME NEW j \in Kinds, NEW n \in 1 .. Len(queue'[j])
            PROVE  request[queue'[j][n].import] # "none"
        <4>1. CASE j # k
          BY <2>3, <4>1 DEF CountInv, KnownInv
        <4>2. CASE j = k
          <5>1. /\ Len(queue'[k]) = Len(queue[k]) + 1
                /\ \A p \in 1 .. Len(queue[k]) : queue'[k][p] = queue[k][p]
                /\ queue'[k][Len(queue[k]) + 1] = msg
                /\ Len(queue[k]) \in Nat
            BY <1>a, <2>1, <2>2, <2>3, AppendElements
          <5>2. n \in 1 .. Len(queue[k]) \/ n = Len(queue[k]) + 1
            BY <4>2, <5>1
          <5>3. QED
            BY <1>a, <2>1, <2>2, <4>2, <5>1, <5>2 DEF CountInv, KnownInv
        <4>3. QED
          BY <4>1, <4>2
      <3>2. QED
        BY <1>a, <2>1, <3>1 DEF KnownInv
    <2>5. UploadInv' /\ LoadedInv' /\ CountsAgree'
      BY <2>1 DEF CountInv, UploadInv, LoadedInv, CountsAgree, Exists
    <2>6. QED
      BY <2>4, <2>5 DEF CountInv
  <1>5. CASE AckChunk
    <2>1. /\ consumer'.stage = "idle"
          /\ UNCHANGED <<request, pushed, import, catalog, queue>>
      BY <1>5 DEF AckChunk, IdleConsumer, uploads, tables
    <2>2. QED
      BY <2>1 DEF CountInv, UploadInv, KnownInv, LoadedInv, CountsAgree, Exists
  <1>6. CASE DatabaseFails
    <2>1. /\ consumer.stage # "idle" /\ consumer'.stage = "raised" /\ consumer'.msg = msg
          /\ UNCHANGED <<request, pushed, import, catalog, queue>>
      BY <1>6, <1>b DEF DatabaseFails, GoTo, uploads, tables
    <2>2. QED
      BY <1>a, <2>1 DEF CountInv, UploadInv, KnownInv, LoadedInv, CountsAgree, Exists
  <1>7. CASE ConsumerCrash
    <2> DEFINE k == KindOf[msg.import]
    <2>1. /\ consumer.stage # "idle" /\ consumer'.stage = "idle"
          /\ queue' = [queue EXCEPT ![k] = <<msg>> \o @]
          /\ UNCHANGED <<request, pushed, import, catalog>>
      BY <1>7 DEF ConsumerCrash, IdleConsumer, uploads, tables
    <2>2. queue[k] \in Seq(Message) /\ k \in Kinds
      BY <1>a, <1>b, <2>1
    <2>3. /\ queue'[k] = <<msg>> \o queue[k]
          /\ \A j \in Kinds \ {k} : queue'[j] = queue[j]
      BY <1>b, <2>1, <2>2
    <2>4. KnownInv'
      <3>1. ASSUME NEW j \in Kinds, NEW n \in 1 .. Len(queue'[j])
            PROVE  request[queue'[j][n].import] # "none"
        <4>1. CASE j # k
          BY <2>3, <4>1 DEF CountInv, KnownInv
        <4>2. CASE j = k
          <5>1. /\ Len(queue'[k]) = Len(queue[k]) + 1
                /\ \A p \in 1 .. Len(queue[k]) : queue'[k][p + 1] = queue[k][p]
                /\ queue'[k][1] = msg
                /\ Len(queue[k]) \in Nat
            BY <1>a, <2>1, <2>2, <2>3, RequeueElements
          <5>2. n = 1 \/ (n - 1 \in 1 .. Len(queue[k]) /\ n = (n - 1) + 1)
            BY <4>2, <5>1
          <5>3. QED
            BY <1>a, <2>1, <2>2, <4>2, <5>1, <5>2 DEF CountInv, KnownInv
        <4>3. QED
          BY <4>1, <4>2
      <3>2. QED
        BY <2>1, <3>1 DEF KnownInv
    <2>5. UploadInv' /\ LoadedInv' /\ CountsAgree'
      BY <2>1 DEF CountInv, UploadInv, LoadedInv, CountsAgree, Exists
    <2>6. QED
      BY <2>4, <2>5 DEF CountInv
  <1>8. QED
    BY <1>1, <1>2, <1>3, <1>4, <1>5, <1>6, <1>7 DEF ConsumerStep, ConsumerFault

\* ... and so are the counters.
LEMMA CountsKept == Spec => []CountInv
  <1>1. TypeInv /\ CountInv /\ [Next]_vars => CountInv'
    <2> SUFFICES ASSUME TypeInv, CountInv, [Next]_vars PROVE CountInv'
      OBVIOUS
    <2>1. CASE Next
      BY <2>1, UploadCounts, OwnerCounts, ConsumerCounts DEF Next
    <2>2. CASE UNCHANGED vars
      BY <2>2 DEF vars, CountInv, UploadInv, KnownInv, LoadedInv, CountsAgree, Exists
    <2>3. QED
      BY <2>1, <2>2
  <1>2. QED
    BY <1>1, InitCounts, TypesKept, PTL DEF Spec

\* The counters of an import agree with the rows it created, whatever is
\* rolled back, released or delivered again.
THEOREM CountersAgree == Spec => []CountsAgree
  <1>1. CountInv => CountsAgree
    BY DEF CountInv
  <1>2. QED
    BY <1>1, CountsKept, PTL

-----------------------------------------------------------------------------
(* No chunk is lost.                                                       *)

\* Where a chunk may be: stored, queued or in hand.
Kept(i, c) ==
  \/ committed[i][c] >= 1
  \/ Places(ChunkOf(i, c)) # {}
  \/ InHand(ChunkOf(i, c))

\* A copy put at the tail of a queue leaves what was queued there, and is there.
LEMMA TailKeeps ==
  ASSUME TypeInv, NEW k \in Kinds, NEW e \in Message,
         queue' = [queue EXCEPT ![k] = Append(@, e)]
  PROVE  /\ \A m \in Message : Places(m) # {} => Places(m)' # {}
         /\ KindOf[e.import] = k => Places(e)' # {}
  <1>1. queue \in [Kinds -> Seq(Message)] /\ queue[k] \in Seq(Message)
    BY DEF TypeInv, TypeOK
  <1>2. /\ queue'[k] = Append(queue[k], e)
        /\ \A j \in Kinds \ {k} : queue'[j] = queue[j]
    BY <1>1
  <1>3. /\ Len(queue'[k]) = Len(queue[k]) + 1 /\ Len(queue[k]) \in Nat
        /\ \A n \in 1 .. Len(queue[k]) : queue'[k][n] = queue[k][n]
        /\ queue'[k][Len(queue[k]) + 1] = e
        /\ DOMAIN queue'[k] = 1 .. Len(queue'[k])
        /\ DOMAIN queue[k] = 1 .. Len(queue[k])
    BY <1>1, <1>2, AppendElements
  <1>4. ASSUME NEW m \in Message, Places(m) # {} PROVE Places(m)' # {}
    <2>1. KindOf[m.import] \in Kinds
      BY ImportAssumption DEF Message
    <2>2. PICK n \in DOMAIN queue[KindOf[m.import]] : queue[KindOf[m.import]][n] = m
      BY <1>4 DEF Places
    <2>3. CASE KindOf[m.import] # k
      BY <1>2, <2>1, <2>2, <2>3 DEF Places
    <2>4. CASE KindOf[m.import] = k
      <3>1. n \in DOMAIN queue'[k] /\ queue'[k][n] = m
        BY <1>3, <2>2, <2>4
      <3>2. QED
        BY <2>4, <3>1 DEF Places
    <2>5. QED
      BY <2>3, <2>4
  <1>5. ASSUME KindOf[e.import] = k PROVE Places(e)' # {}
    <2>1. Len(queue[k]) + 1 \in DOMAIN queue'[k]
      BY <1>3
    <2>2. QED
      BY <1>3, <1>5, <2>1 DEF Places
  <1>6. QED
    BY <1>4, <1>5

\* So does one put back at the head.
LEMMA HeadKeeps ==
  ASSUME TypeInv, NEW k \in Kinds, NEW e \in Message, KindOf[e.import] = k,
         queue' = [queue EXCEPT ![k] = <<e>> \o @]
  PROVE  /\ \A m \in Message : Places(m) # {} => Places(m)' # {}
         /\ Places(e)' # {}
  <1>1. queue \in [Kinds -> Seq(Message)] /\ queue[k] \in Seq(Message)
    BY DEF TypeInv, TypeOK
  <1>2. /\ queue'[k] = <<e>> \o queue[k]
        /\ \A j \in Kinds \ {k} : queue'[j] = queue[j]
    BY <1>1
  <1>3. /\ Len(queue'[k]) = Len(queue[k]) + 1 /\ Len(queue[k]) \in Nat
        /\ \A n \in 1 .. Len(queue[k]) : queue'[k][n + 1] = queue[k][n]
        /\ queue'[k][1] = e
        /\ DOMAIN queue'[k] = 1 .. Len(queue'[k])
        /\ DOMAIN queue[k] = 1 .. Len(queue[k])
    BY <1>1, <1>2, RequeueElements
  <1>4. ASSUME NEW m \in Message, Places(m) # {} PROVE Places(m)' # {}
    <2>1. KindOf[m.import] \in Kinds
      BY ImportAssumption DEF Message
    <2>2. PICK n \in DOMAIN queue[KindOf[m.import]] : queue[KindOf[m.import]][n] = m
      BY <1>4 DEF Places
    <2>3. CASE KindOf[m.import] # k
      BY <1>2, <2>1, <2>2, <2>3 DEF Places
    <2>4. CASE KindOf[m.import] = k
      <3>1. n + 1 \in DOMAIN queue'[k] /\ queue'[k][n + 1] = m
        BY <1>3, <2>2, <2>4
      <3>2. QED
        BY <2>4, <3>1 DEF Places
    <2>5. QED
      BY <2>3, <2>4
  <1>5. Places(e)' # {}
    <2>1. 1 \in DOMAIN queue'[k]
      BY <1>3
    <2>2. QED
      BY <1>3, <2>1 DEF Places
  <1>6. QED
    BY <1>4, <1>5

\* A chunk taken from its queue is in hand, the others stay queued.
LEMMA TakeKeeps ==
  ASSUME TypeInv, TakeChunk, NEW m \in Message, Places(m) # {}
  PROVE  Places(m)' # {} \/ InHand(m)'
  <1> DEFINE k == Polled
  <1>1. /\ k \in Kinds /\ queue \in [Kinds -> Seq(Message)]
        /\ queue[k] \in Seq(Message) /\ queue[k] # <<>>
        /\ queue' = [queue EXCEPT ![k] = Tail(@)]
        /\ consumer'.stage = "read" /\ consumer'.msg = Head(queue[k])
    BY DEF TakeChunk, Polled, Kinds, IdleConsumer, TypeInv, TypeOK
  <1>2. /\ queue'[k] = Tail(queue[k])
        /\ \A j \in Kinds \ {k} : queue'[j] = queue[j]
    BY <1>1
  <1>3. /\ Tail(queue[k]) \in Seq(Message)
        /\ Len(queue[k]) \in Nat \ {0} /\ Head(queue[k]) = queue[k][1]
        /\ Len(Tail(queue[k])) = Len(queue[k]) - 1
        /\ \A n \in 1 .. Len(Tail(queue[k])) : Tail(queue[k])[n] = queue[k][n + 1]
    BY <1>1, TailElements
  <1>4. KindOf[m.import] \in Kinds
    BY ImportAssumption DEF Message
  <1>5. PICK n \in DOMAIN queue[KindOf[m.import]] : queue[KindOf[m.import]][n] = m
    BY DEF Places
  <1>6. CASE KindOf[m.import] # k
    BY <1>2, <1>4, <1>5, <1>6 DEF Places
  <1>7. CASE KindOf[m.import] = k /\ n = 1
    BY <1>1, <1>3, <1>5, <1>7 DEF InHand
  <1>8. CASE KindOf[m.import] = k /\ n # 1
    <2>1. n \in 1 .. Len(queue[k]) /\ queue[k][n] = m
      BY <1>1, <1>5, <1>8
    <2>2. n - 1 \in 1 .. Len(Tail(queue[k])) /\ n = (n - 1) + 1
      BY <1>3, <1>8, <2>1
    <2>3. Tail(queue[k])[n - 1] = m
      BY <1>3, <2>1, <2>2
    <2>4. n - 1 \in DOMAIN queue'[k] /\ queue'[k][n - 1] = m
      BY <1>2, <1>3, <2>2, <2>3
    <2>5. QED
      BY <1>8, <2>4 DEF Places
  <1>9. QED
    BY <1>6, <1>7, <1>8

\* No step loses a chunk that is kept.
LEMMA StepKeeps ==
  ASSUME TypeInv, [Next]_vars,
         NEW i \in Imports, NEW c \in 1 .. Len(Chunks[i]), Kept(i, c)
  PROVE  Kept(i, c)'
  <1> DEFINE m == ChunkOf(i, c)
             msg == consumer.msg
  <1>a. /\ m \in Message /\ m.import = i /\ m.chunk = c
        /\ KindOf[i] \in Kinds
    <2>1. Len(Chunks[i]) \in Nat
      BY ImportAssumption
    <2>2. QED
      BY <2>1, ImportAssumption DEF ChunkOf, Message
  <1>b. consumer.stage # "idle" => msg \in Message /\ KindOf[msg.import] \in Kinds
    BY ImportAssumption DEF TypeInv, Message
  <1>c. committed[i][c] \in Nat /\ DOMAIN committed = Imports
    BY DEF TypeInv, TypeOK
  <1>d. /\ consumer \in [stage  : {"idle", "read", "transaction", "raised", "ack"},
                         msg    : Message \cup {NoMessage},
                         loaded : Import]
    BY DEF TypeInv, TypeOK
  <1>1. CASE UNCHANGED <<committed, queue, consumer>>
    BY <1>1 DEF Kept, Places, InHand
  <1>2. ASSUME NEW j \in Imports, PushChunk(j) PROVE Kept(i, c)'
    <2> DEFINE e == [import |-> j, chunk |-> pushed[j] + 1]
    <2>1. /\ queue' = [queue EXCEPT ![KindOf[j]] = Append(@, e)]
          /\ UNCHANGED <<committed, consumer>>
      BY <1>2 DEF PushChunk
    <2>2. e \in Message /\ KindOf[j] \in Kinds
      <3>1. pushed[j] \in Nat /\ pushed[j] < Len(Chunks[j]) /\ Len(Chunks[j]) \in Nat
        BY <1>2, ImportAssumption DEF PushChunk, TypeInv, TypeOK
      <3>2. QED
        BY <3>1, ImportAssumption DEF Message
    <2>3. Places(m) # {} => Places(m)' # {}
      BY <1>a, <2>1, <2>2, TailKeeps
    <2>4. QED
      BY <2>1, <2>3 DEF Kept, InHand
  <1>3. CASE TakeChunk
    <2>1. consumer.stage = "idle" /\ UNCHANGED committed
      BY <1>3 DEF TakeChunk, tables
    <2>2. QED
      BY <1>3, <1>a, <2>1, TakeKeeps DEF Kept, InHand
  <1>4. CASE ReadImport \/ DatabaseFails
    <2>1. /\ consumer'.msg = msg
          /\ consumer'.stage \in {"transaction", "raised"}
          /\ UNCHANGED <<queue, committed>>
      BY <1>4, <1>d DEF ReadImport, DatabaseFails, GoTo, tables
    <2>2. QED
      BY <2>1 DEF Kept, Places, InHand
  <1>5. CASE StoreChunk
    <2>1. consumer.stage = "transaction" /\ consumer'.msg = msg /\ UNCHANGED queue
      BY <1>5, <1>d DEF StoreChunk, GoTo
    <2>2. CASE import[msg.import].status = "none"
      <3>1. consumer'.stage = "raised" /\ UNCHANGED committed
        BY <1>5, <1>d, <2>2 DEF StoreChunk, GoTo, tables
      <3>2. QED
        BY <2>1, <3>1 DEF Kept, Places, InHand
    <2>3. CASE import[msg.import].status # "none"
      <3>1. committed' = [committed EXCEPT ![msg.import][msg.chunk] = @ + 1]
        BY <1>5, <2>3 DEF StoreChunk
      <3>2. CASE msg = m
        <4>1. committed'[i] = [committed[i] EXCEPT ![c] = @ + 1]
          BY <1>a, <1>c, <3>1, <3>2
        <4>2. c \in DOMAIN committed[i]
          BY DEF TypeInv, TypeOK
        <4>3. committed'[i][c] = committed[i][c] + 1
          BY <4>1, <4>2
        <4>4. QED
          BY <1>c, <4>3 DEF Kept
      <3>3. CASE msg # m
        <4>1. msg.import # i \/ msg.chunk # c
          BY <1>b, <2>1, <3>3 DEF ChunkOf, Message
        <4>2. c \in DOMAIN committed[i]
          BY DEF TypeInv, TypeOK
        <4>3. committed'[i][c] = committed[i][c]
          BY <1>c, <3>1, <4>1, <4>2
        <4>4. QED
          BY <2>1, <3>3, <4>3 DEF Kept, Places, InHand
      <3>4. QED
        BY <3>2, <3>3
    <2>4. QED
      BY <2>2, <2>3
  <1>6. CASE ReleaseChunk
    <2>1. /\ consumer.stage = "raised" /\ UNCHANGED committed
          /\ queue' = [queue EXCEPT ![KindOf[msg.import]] = Append(@, msg)]
      BY <1>6 DEF ReleaseChunk, tables
    <2>2. PICK e \in Message : e = msg /\ KindOf[e.import] \in Kinds
      BY <1>b, <2>1
    <2>3. /\ Places(m) # {} => Places(m)' # {}
          /\ e = m => Places(m)' # {}
      BY <1>a, <2>1, <2>2, TailKeeps
    <2>4. QED
      BY <2>1, <2>2, <2>3 DEF Kept, InHand
  <1>7. CASE AckChunk
    <2>1. consumer.stage = "ack" /\ UNCHANGED <<committed, queue>>
      BY <1>7 DEF AckChunk, tables
    <2>2. QED
      BY <2>1 DEF Kept, InHand, Places
  <1>8. CASE ConsumerCrash
    <2>1. /\ consumer.stage # "idle" /\ UNCHANGED committed
          /\ queue' = [queue EXCEPT ![KindOf[msg.import]] = <<msg>> \o @]
      BY <1>8 DEF ConsumerCrash, tables
    <2>2. PICK e \in Message : e = msg /\ KindOf[e.import] \in Kinds
      BY <1>b, <2>1
    <2>3. /\ Places(m) # {} => Places(m)' # {}
          /\ e = m => Places(m)' # {}
      BY <1>a, <2>1, <2>2, HeadKeeps
    <2>4. QED
      BY <2>1, <2>2, <2>3 DEF Kept, InHand
  <1>9. ASSUME NEW j \in Imports,
               \/ RefuseSheet(j) \/ TellRefused(j) \/ StoreImport(j)
               \/ TrackPending(j) \/ DeleteOwner(j) \/ Reconcile(j)
        PROVE  UNCHANGED <<committed, queue, consumer>>
    BY <1>9 DEF RefuseSheet, TellRefused, StoreImport, TrackPending, DeleteOwner,
                Reconcile
  <1>10. QED
    BY <1>1, <1>2, <1>3, <1>4, <1>5, <1>6, <1>7, <1>8, <1>9
       DEF Next, Upload, ConsumerStep, ConsumerFault, vars

\* A chunk that has just been pushed is queued.
LEMMA PushKept ==
  ASSUME TypeInv, NEW i \in Imports, PushChunk(i), NEW c, c = pushed[i] + 1
  PROVE  Kept(i, c)'
  <1>1. /\ queue' = [queue EXCEPT ![KindOf[i]] = Append(@, ChunkOf(i, c))]
        /\ pushed[i] \in Nat /\ pushed[i] < Len(Chunks[i]) /\ Len(Chunks[i]) \in Nat
    BY ImportAssumption DEF PushChunk, ChunkOf, TypeInv, TypeOK
  <1>2. /\ ChunkOf(i, c) \in Message
        /\ ChunkOf(i, c).import = i
        /\ KindOf[i] \in Kinds
    BY <1>1, ImportAssumption DEF ChunkOf, Message
  <1>3. Places(ChunkOf(i, c))' # {}
    BY <1>1, <1>2, TailKeeps
  <1>4. QED
    BY <1>3 DEF Kept

\* A chunk the broker accepted is stored, queued or being handled, through
\* releases, crashes and the loss of its import.
THEOREM NothingLost == Spec => []NoChunkLost
  <1>1. Init => NoChunkLost
    BY DEF Init, NoChunkLost
  <1>2. ASSUME TypeInv, CountInv, NoChunkLost, [Next]_vars
        PROVE  NoChunkLost'
    <2>1. ASSUME NEW i \in Imports, NEW c \in 1 .. pushed'[i]
          PROVE  Kept(i, c)'
      <3>1. /\ pushed \in [Imports -> Nat] /\ Len(Chunks[i]) \in Nat
            /\ pushed[i] <= Len(Chunks[i])
        BY <1>2, ImportAssumption DEF TypeInv, TypeOK, CountInv, UploadInv
      <3>2. ASSUME c \in 1 .. pushed[i]
            PROVE  Kept(i, c)'
        <4>1. c \in 1 .. Len(Chunks[i]) /\ Kept(i, c)
          BY <1>2, <3>1, <3>2 DEF NoChunkLost, Kept
        <4>2. QED
          BY <1>2, <4>1, StepKeeps
      <3>3. ASSUME NEW j \in Imports, PushChunk(j)
            PROVE  Kept(i, c)'
        <4>1. pushed' = [pushed EXCEPT ![j] = @ + 1]
          BY <3>3 DEF PushChunk
        <4>2. CASE i = j /\ c = pushed[i] + 1
          BY <1>2, <3>3, <4>2, PushKept
        <4>3. CASE ~(i = j /\ c = pushed[i] + 1)
          BY <2>1, <3>1, <3>2, <4>1, <4>3
        <4>4. QED
          BY <4>2, <4>3
      <3>4. CASE ~(\E j \in Imports : PushChunk(j))
        <4>1. UNCHANGED pushed
          BY <1>2, <3>4
             DEF Next, Upload, RefuseSheet, TellRefused, StoreImport, TrackPending,
                 DeleteOwner, Reconcile, ConsumerStep, TakeChunk, ReadImport,
                 StoreChunk, ReleaseChunk, AckChunk, ConsumerFault, DatabaseFails,
                 ConsumerCrash, uploads, vars
        <4>2. QED
          BY <2>1, <3>2, <4>1
      <3>5. QED
        BY <3>3, <3>4
    <2>2. QED
      BY <2>1 DEF NoChunkLost, Kept
  <1>3. QED
    BY <1>1, <1>2, TypesKept, CountsKept, PTL DEF Spec

-----------------------------------------------------------------------------
(* Where a chunk is queued, and how often it was stored.                   *)

At(m, k, n) == n \in 1 .. Len(queue[k]) /\ queue[k][n] = m
Queued(m) == \E k \in Kinds, n \in Nat : At(m, k, n)
Commits(m) == committed[m.import][m.chunk]

LEMMA QueueTypes ==
  ASSUME TypeInv, NEW k \in Kinds
  PROVE  /\ queue \in [Kinds -> Seq(Message)] /\ queue[k] \in Seq(Message)
         /\ Len(queue[k]) \in Nat
  BY LenProperties DEF TypeInv, TypeOK

\* The queues after a publish, after a requeue and after a delivery.
LEMMA PublishedAt ==
  ASSUME TypeInv, NEW k \in Kinds, NEW e \in Message,
         queue' = [queue EXCEPT ![k] = Append(@, e)],
         NEW m \in Message, NEW j \in Kinds, NEW n \in Nat, At(m, j, n)'
  PROVE  At(m, j, n) \/ (j = k /\ m = e /\ n = Len(queue[k]) + 1)
  <1>1. /\ queue'[k] = Append(queue[k], e)
        /\ \A l \in Kinds \ {k} : queue'[l] = queue[l]
        /\ queue[k] \in Seq(Message) /\ Len(queue[k]) \in Nat
    BY QueueTypes
  <1>2. /\ Len(queue'[k]) = Len(queue[k]) + 1
        /\ \A p \in 1 .. Len(queue[k]) : queue'[k][p] = queue[k][p]
        /\ queue'[k][Len(queue[k]) + 1] = e
    BY <1>1, AppendElements
  <1>3. CASE j # k
    BY <1>1, <1>3 DEF At
  <1>4. CASE j = k
    <2>1. n \in 1 .. Len(queue[k]) \/ n = Len(queue[k]) + 1
      BY <1>1, <1>2, <1>4 DEF At
    <2>2. QED
      BY <1>2, <1>4, <2>1 DEF At
  <1>5. QED
    BY <1>3, <1>4

LEMMA StaysAt ==
  ASSUME TypeInv, NEW k \in Kinds, NEW e \in Message,
         queue' = [queue EXCEPT ![k] = Append(@, e)],
         NEW m \in Message, NEW j \in Kinds, NEW n \in Nat, At(m, j, n)
  PROVE  At(m, j, n)'
  <1>1. /\ queue'[k] = Append(queue[k], e)
        /\ \A l \in Kinds \ {k} : queue'[l] = queue[l]
        /\ queue[k] \in Seq(Message) /\ Len(queue[k]) \in Nat
    BY QueueTypes
  <1>2. /\ Len(queue'[k]) = Len(queue[k]) + 1
        /\ \A p \in 1 .. Len(queue[k]) : queue'[k][p] = queue[k][p]
    BY <1>1, AppendElements
  <1>3. QED
    BY <1>1, <1>2 DEF At

LEMMA RequeuedAt ==
  ASSUME TypeInv, NEW k \in Kinds, NEW e \in Message,
         queue' = [queue EXCEPT ![k] = <<e>> \o @],
         NEW m \in Message, NEW j \in Kinds, NEW n \in Nat, At(m, j, n)'
  PROVE  \/ j # k /\ At(m, j, n)
         \/ j = k /\ m = e /\ n = 1
         \/ j = k /\ n - 1 \in Nat /\ At(m, j, n - 1)
  <1>1. /\ queue'[k] = <<e>> \o queue[k]
        /\ \A l \in Kinds \ {k} : queue'[l] = queue[l]
        /\ queue[k] \in Seq(Message) /\ Len(queue[k]) \in Nat
    BY QueueTypes
  <1>2. /\ Len(queue'[k]) = Len(queue[k]) + 1
        /\ \A p \in 1 .. Len(queue[k]) : queue'[k][p + 1] = queue[k][p]
        /\ queue'[k][1] = e
    BY <1>1, RequeueElements
  <1>3. CASE j # k
    BY <1>1, <1>3 DEF At
  <1>4. CASE j = k
    <2>1. n = 1 \/ (n - 1 \in 1 .. Len(queue[k]) /\ n = (n - 1) + 1)
      BY <1>1, <1>2, <1>4 DEF At
    <2>2. QED
      BY <1>2, <1>4, <2>1 DEF At
  <1>5. QED
    BY <1>3, <1>4

LEMMA ShiftsAt ==
  ASSUME TypeInv, NEW k \in Kinds, NEW e \in Message,
         queue' = [queue EXCEPT ![k] = <<e>> \o @]
  PROVE  /\ At(e, k, 1)'
         /\ \A m \in Message, n, p \in Nat : At(m, k, n) /\ p = n + 1 => At(m, k, p)'
  <1>1. /\ queue'[k] = <<e>> \o queue[k]
        /\ queue[k] \in Seq(Message) /\ Len(queue[k]) \in Nat
    BY QueueTypes
  <1>2. /\ Len(queue'[k]) = Len(queue[k]) + 1
        /\ \A p \in 1 .. Len(queue[k]) : queue'[k][p + 1] = queue[k][p]
        /\ queue'[k][1] = e
    BY <1>1, RequeueElements
  <1>3. QED
    BY <1>1, <1>2 DEF At

LEMMA TakenAt ==
  ASSUME TypeInv, TakeChunk
  PROVE  \E k \in Kinds, e \in Message :
           /\ At(e, k, 1) /\ consumer'.stage = "read" /\ consumer'.msg = e
           /\ \A m \in Message, j \in Kinds \ {k}, n \in Nat : At(m, j, n)' <=> At(m, j, n)
           /\ \A m \in Message, n, p \in Nat :
                n >= 1 /\ p = n + 1 => (At(m, k, n)' <=> At(m, k, p))
           /\ \A m \in Message : ~At(m, k, 0)'
  <1>1. PICK k \in Kinds :
          /\ k = Polled /\ queue \in [Kinds -> Seq(Message)]
          /\ queue[k] \in Seq(Message) /\ queue[k] # <<>>
          /\ queue' = [queue EXCEPT ![k] = Tail(@)]
          /\ consumer'.stage = "read" /\ consumer'.msg = Head(queue[k])
    BY DEF TakeChunk, Polled, Kinds, IdleConsumer, TypeInv, TypeOK
  <1>2. /\ queue'[k] = Tail(queue[k])
        /\ \A l \in Kinds \ {k} : queue'[l] = queue[l]
    BY <1>1
  <1>3. /\ Len(queue[k]) \in Nat \ {0} /\ Head(queue[k]) = queue[k][1]
        /\ Head(queue[k]) \in Message
        /\ Len(Tail(queue[k])) = Len(queue[k]) - 1
        /\ \A n \in 1 .. Len(Tail(queue[k])) : Tail(queue[k])[n] = queue[k][n + 1]
    BY <1>1, TailElements
  <1>4. PICK e \in Message : e = Head(queue[k])
    BY <1>3
  <1>5. At(e, k, 1)
    BY <1>3, <1>4 DEF At
  <1>6. \A m \in Message, j \in Kinds \ {k}, n \in Nat : At(m, j, n)' <=> At(m, j, n)
    BY <1>2 DEF At
  <1>7. ASSUME NEW m \in Message, NEW n \in Nat, NEW p \in Nat, n >= 1, p = n + 1
        PROVE  At(m, k, n)' <=> At(m, k, p)
    <2>1. n \in 1 .. Len(queue'[k]) <=> p \in 1 .. Len(queue[k])
      BY <1>2, <1>3, <1>7
    <2>2. QED
      BY <1>2, <1>3, <1>7, <2>1 DEF At
  <1>8. \A m \in Message : ~At(m, k, 0)'
    BY <1>2 DEF At
  <1>9. QED
    BY <1>1, <1>4, <1>5, <1>6, <1>7, <1>8

\* Only the transaction of a chunk stores it.
LEMMA CommitStep ==
  ASSUME TypeInv, [Next]_vars, NEW m \in Message
  PROVE  /\ Commits(m) \in Nat
         /\ \/ Commits(m)' = Commits(m)
            \/ /\ Commits(m)' = Commits(m) + 1
               /\ StoreChunk /\ consumer.stage = "transaction" /\ consumer.msg = m
               /\ consumer'.stage = "ack" /\ consumer'.msg = m
  <1>a. /\ m.import \in Imports /\ m.chunk \in 1 .. Len(Chunks[m.import])
        /\ DOMAIN committed = Imports
        /\ \A i \in Imports : committed[i] \in [1 .. Len(Chunks[i]) -> Nat]
        /\ consumer.stage # "idle" => consumer.msg \in Message
        /\ consumer \in [stage  : {"idle", "read", "transaction", "raised", "ack"},
                         msg    : Message \cup {NoMessage},
                         loaded : Import]
    BY DEF TypeInv, TypeOK, Message
  <1>b. Commits(m) \in Nat
    BY <1>a DEF Commits
  <1>1. CASE UNCHANGED committed
    BY <1>b, <1>1 DEF Commits
  <1>2. CASE StoreChunk /\ import[consumer.msg.import].status # "none"
    <2> DEFINE e == consumer.msg
    <2>1. /\ e \in Message /\ consumer.stage = "transaction"
          /\ e.import \in Imports /\ e.chunk \in 1 .. Len(Chunks[e.import])
          /\ committed' = [committed EXCEPT ![e.import][e.chunk] = @ + 1]
          /\ consumer'.stage = "ack" /\ consumer'.msg = e
      BY <1>2, <1>a DEF StoreChunk, GoTo, Message
    <2>2. CASE e.import # m.import
      BY <1>a, <1>b, <2>1, <2>2 DEF Commits
    <2>3. CASE e.import = m.import /\ e.chunk # m.chunk
      <3>1. committed'[m.import] = [committed[m.import] EXCEPT ![e.chunk] = @ + 1]
        BY <1>a, <2>1, <2>3
      <3>2. QED
        BY <1>a, <1>b, <2>3, <3>1 DEF Commits
    <2>4. CASE e.import = m.import /\ e.chunk = m.chunk
      <3>1. committed'[m.import] = [committed[m.import] EXCEPT ![m.chunk] = @ + 1]
        BY <1>a, <2>1, <2>4
      <3>2. committed'[m.import][m.chunk] = committed[m.import][m.chunk] + 1
        BY <1>a, <3>1
      <3>3. e = m
        BY <2>1, <2>4 DEF Message
      <3>4. QED
        BY <1>2, <1>b, <2>1, <3>2, <3>3 DEF Commits
    <2>5. QED
      BY <2>2, <2>3, <2>4
  <1>3. CASE StoreChunk /\ import[consumer.msg.import].status = "none"
    BY <1>1, <1>3 DEF StoreChunk, tables
  <1>4. CASE ~StoreChunk
    BY <1>1, <1>4
       DEF Next, Upload, RefuseSheet, TellRefused, StoreImport, PushChunk, TrackPending,
           DeleteOwner, Reconcile, ConsumerStep, TakeChunk, ReadImport,
           ReleaseChunk, AckChunk, ConsumerFault, DatabaseFails,
           ConsumerCrash, tables, vars
  <1>5. QED
    BY <1>2, <1>3, <1>4

-----------------------------------------------------------------------------
(* A chunk is in one place as long as the consumer does not crash.         *)

\* A queued chunk is in the queue of its kind.
HomeInv == \A m \in Message, k \in Kinds, n \in Nat : At(m, k, n) => k = KindOf[m.import]

Single(m) ==
  /\ \A k \in Kinds, n, p \in Nat : At(m, k, n) /\ At(m, k, p) => n = p
  /\ Commits(m) <= 1
  /\ Commits(m) = 1 => ~Queued(m) /\ ~InHand(m)
  /\ InHand(m) => ~Queued(m)
  /\ m.chunk > pushed[m.import] => Commits(m) = 0 /\ ~Queued(m) /\ ~InHand(m)

OnceInv == ~crashed => \A m \in Message : Single(m)

LEMMA InitOnce == Init => HomeInv /\ OnceInv
  <1> SUFFICES ASSUME Init PROVE HomeInv /\ OnceInv
    OBVIOUS
  <1>1. \A m \in Message, k \in Kinds, n \in Nat : ~At(m, k, n)
    BY DEF Init, At
  <1>2. \A m \in Message : Commits(m) = 0 /\ ~InHand(m)
    BY DEF Init, Commits, InHand, IdleConsumer, Message
  <1>3. QED
    BY <1>1, <1>2 DEF HomeInv, OnceInv, Single, Queued

LEMMA HomeStep ==
  ASSUME TypeInv, HomeInv, [Next]_vars
  PROVE  HomeInv'
  <1> SUFFICES ASSUME NEW m \in Message, NEW k \in Kinds, NEW n \in Nat, At(m, k, n)'
               PROVE  k = KindOf[m.import]
    BY DEF HomeInv
  <1>1. CASE UNCHANGED queue
    BY <1>1 DEF HomeInv, At
  <1>2. ASSUME NEW i \in Imports, PushChunk(i) PROVE k = KindOf[m.import]
    <2> DEFINE e == [import |-> i, chunk |-> pushed[i] + 1]
    <2>1. e \in Message /\ KindOf[i] \in Kinds
      <3>1. pushed[i] \in Nat /\ pushed[i] < Len(Chunks[i]) /\ Len(Chunks[i]) \in Nat
        BY <1>2, ImportAssumption DEF PushChunk, TypeInv, TypeOK
      <3>2. pushed[i] + 1 \in Nat /\ pushed[i] + 1 \in 1..Len(Chunks[i])
        BY <3>1
      <3>3. e \in Message
        BY <3>2 DEF Message
      <3>4. KindOf[i] \in Kinds
        BY ImportAssumption
      <3>5. QED
        BY <3>3, <3>4
    <2>2. queue' = [queue EXCEPT ![KindOf[i]] = Append(@, e)] /\ e.import = i
      BY <1>2 DEF PushChunk
    <2> HIDE DEF e
    <2>3. At(m, k, n) \/ (k = KindOf[i] /\ m = e)
      BY <2>1, <2>2, PublishedAt
    <2>4. QED
      BY <2>2, <2>3 DEF HomeInv
  <1>3. CASE TakeChunk
    <2>1. \E p \in Nat : At(m, k, p)
      <3>1. n = 0 \/ (n >= 1 /\ n + 1 \in Nat)
        OBVIOUS
      <3>2. QED
        BY <1>3, <3>1, TakenAt
    <2>2. QED
      BY <2>1 DEF HomeInv
  <1>4. CASE ReleaseChunk \/ ConsumerCrash
    <2>1. PICK e \in Message : e = consumer.msg /\ KindOf[e.import] \in Kinds
      BY <1>4, ImportAssumption DEF ReleaseChunk, ConsumerCrash, TypeInv, Message
    <2> DEFINE h == KindOf[e.import]
    <2>2. \/ queue' = [queue EXCEPT ![h] = Append(@, e)]
          \/ queue' = [queue EXCEPT ![h] = <<e>> \o @]
      BY <1>4, <2>1 DEF ReleaseChunk, ConsumerCrash
    <2>3. h \in Kinds
      BY <2>1
    <2> HIDE DEF h
    <2>4. (\E p \in Nat : At(m, k, p)) \/ (k = h /\ m = e)
      BY <2>2, <2>3, PublishedAt, RequeuedAt
    <2>5. QED
      BY <2>4 DEF HomeInv, h
  <1>5. ASSUME NEW i \in Imports,
               \/ RefuseSheet(i) \/ TellRefused(i) \/ StoreImport(i)
               \/ TrackPending(i) \/ DeleteOwner(i) \/ Reconcile(i)
        PROVE  UNCHANGED queue
    BY <1>5 DEF RefuseSheet, TellRefused, StoreImport, TrackPending, DeleteOwner, Reconcile
  <1>6. CASE ReadImport \/ StoreChunk \/ AckChunk \/ DatabaseFails
    BY <1>1, <1>6 DEF ReadImport, StoreChunk, AckChunk, DatabaseFails
  <1>7. QED
    BY <1>1, <1>2, <1>3, <1>4, <1>5, <1>6
       DEF Next, Upload, ConsumerStep, ConsumerFault, vars

\* A step that adds no copy of the chunk.
LEMMA SingleFrame ==
  ASSUME NEW m \in Message, Single(m), Commits(m)' = Commits(m),
         \A k \in Kinds, n \in Nat : At(m, k, n)' => At(m, k, n),
         InHand(m)' => InHand(m),
         m.chunk > pushed'[m.import] => m.chunk > pushed[m.import]
  PROVE  Single(m)'
  <1>1. Queued(m)' => Queued(m)
    BY DEF Queued
  <1>2. QED
    BY <1>1 DEF Single

LEMMA OnceStep ==
  ASSUME TypeInv, HomeInv, OnceInv, [Next]_vars
  PROVE  OnceInv'
  <1> SUFFICES ASSUME NEW m \in Message, ~crashed'
               PROVE  Single(m)'
    BY DEF OnceInv
  <1>a. ~crashed
    BY DEF Next, Upload, RefuseSheet, TellRefused, StoreImport, PushChunk, TrackPending,
           DeleteOwner, Reconcile, ConsumerStep, TakeChunk, ReadImport, StoreChunk,
           ReleaseChunk, AckChunk, ConsumerFault, DatabaseFails, ConsumerCrash, vars
  <1>b. Single(m)
    BY <1>a DEF OnceInv
  <1>c. /\ consumer.stage # "idle" => consumer.msg \in Message
        /\ consumer \in [stage  : {"idle", "read", "transaction", "raised", "ack"},
                         msg    : Message \cup {NoMessage},
                         loaded : Import]
        /\ pushed \in [Imports -> Nat]
        /\ m.import \in Imports /\ m.chunk \in Nat
        /\ Commits(m) \in Nat
    BY CommitStep DEF TypeInv, TypeOK, Message
  <1>d. UNCHANGED queue => \A k \in Kinds, n \in Nat : At(m, k, n)' => At(m, k, n)
    BY DEF At
  <1>1. CASE UNCHANGED <<committed, queue, consumer, pushed>>
    <2>1. InHand(m)' <=> InHand(m)
      BY <1>1 DEF InHand
    <2>2. Commits(m)' = Commits(m)
      BY <1>1 DEF Commits
    <2>3. QED
      BY <1>1, <1>b, <1>d, <2>1, <2>2, SingleFrame
  <1>2. ASSUME NEW i \in Imports, PushChunk(i) PROVE Single(m)'
    <2>1. PICK e \in Message, k \in Kinds, last \in Nat :
            /\ e = [import |-> i, chunk |-> pushed[i] + 1] /\ k = KindOf[i]
            /\ last = Len(queue[k]) + 1
      <3>1. pushed[i] \in Nat /\ pushed[i] < Len(Chunks[i]) /\ Len(Chunks[i]) \in Nat
        BY <1>2, ImportAssumption DEF PushChunk, TypeInv, TypeOK
      <3>2. [import |-> i, chunk |-> pushed[i] + 1] \in Message
        BY <3>1 DEF Message
      <3>3. KindOf[i] \in Kinds
        BY ImportAssumption
      <3>4. QED
        BY <3>2, <3>3, QueueTypes
    <2>2. /\ queue' = [queue EXCEPT ![k] = Append(@, e)] /\ UNCHANGED <<committed, consumer>>
          /\ pushed' = [pushed EXCEPT ![i] = @ + 1]
          /\ e.import = i /\ e.chunk = pushed[i] + 1
      BY <1>2, <2>1 DEF PushChunk
    <2>3. \A j \in Kinds, n \in Nat : At(m, j, n)' =>
            At(m, j, n) \/ (j = k /\ m = e /\ n = last)
      <3> SUFFICES ASSUME NEW j \in Kinds, NEW n \in Nat, At(m, j, n)'
                   PROVE  At(m, j, n) \/ (j = k /\ m = e /\ n = Len(queue[k]) + 1)
        BY <2>1
      <3>1. queue' = [queue EXCEPT ![k] = Append(@, e)]
        BY <2>2
      <3>2. QED
        BY <3>1, PublishedAt
    <2>4. /\ Commits(m)' = Commits(m)
          /\ InHand(m)' <=> InHand(m)
      BY <2>2 DEF Commits, InHand
    <2>5. CASE m # e
      <3>1. m.chunk > pushed'[m.import] => m.chunk > pushed[m.import]
        BY <1>c, <2>2
      <3>2. QED
        BY <1>b, <2>3, <2>4, <2>5, <3>1, SingleFrame
    <2>6. CASE m = e
      <3>1. Commits(m) = 0 /\ ~Queued(m) /\ ~InHand(m)
        BY <1>b, <1>c, <2>2, <2>6 DEF Single
      <3>2. \A j \in Kinds, n \in Nat : At(m, j, n)' => j = k /\ n = last
        BY <2>3, <3>1 DEF Queued
      <3>3. ~(m.chunk > pushed'[m.import])
        BY <1>c, <2>2, <2>6
      <3>4. QED
        BY <2>4, <3>1, <3>2, <3>3 DEF Single
    <2>7. QED
      BY <2>5, <2>6
  <1>3. CASE TakeChunk
    <2>1. PICK k \in Kinds, e \in Message :
            /\ At(e, k, 1) /\ consumer'.stage = "read" /\ consumer'.msg = e
            /\ \A j \in Kinds \ {k}, n \in Nat : At(m, j, n)' <=> At(m, j, n)
            /\ \A n, p \in Nat : n >= 1 /\ p = n + 1 => (At(m, k, n)' <=> At(m, k, p))
            /\ ~At(m, k, 0)'
      BY <1>3, TakenAt
    <2>2. UNCHANGED <<committed, pushed>> /\ Commits(m)' = Commits(m)
      BY <1>3 DEF TakeChunk, tables, uploads, Commits
    <2>3. ASSUME NEW j \in Kinds, NEW n \in Nat, At(m, j, n)'
          PROVE  \E p \in Nat : At(m, j, p) /\ p = (IF j = k THEN n + 1 ELSE n)
                                /\ (j = k => n >= 1)
      <3>1. n = 0 \/ n >= 1
        OBVIOUS
      <3>2. CASE j # k
        BY <2>1, <2>3, <3>2
      <3>3. CASE j = k
        <4>1. n >= 1 /\ n + 1 \in Nat
          BY <2>1, <2>3, <3>1, <3>3
        <4>2. At(m, k, n + 1)
          BY <2>1, <2>3, <3>3, <4>1
        <4>3. QED
          BY <3>3, <4>1, <4>2
      <3>4. QED
        BY <3>2, <3>3
    <2>4. Queued(m)' => Queued(m)
      BY <2>3 DEF Queued
    <2>5. InHand(m)' <=> m = e
      BY <2>1 DEF InHand
    <2>6. m = e => Queued(m) /\ ~Queued(m)'
      <3> SUFFICES ASSUME m = e, NEW j \in Kinds, NEW n \in Nat, At(m, j, n)'
                   PROVE  FALSE
        BY <2>1 DEF Queued
      <3>1. PICK p \in Nat : /\ At(m, j, p) /\ p = (IF j = k THEN n + 1 ELSE n)
                             /\ (j = k => n >= 1)
        BY <2>3
      <3>2. j = k
        BY <2>1, <3>1 DEF HomeInv
      <3>3. p = 1
        BY <1>b, <2>1, <3>1, <3>2 DEF Single
      <3>4. QED
        BY <3>1, <3>2, <3>3
    <2>7. \A j \in Kinds, n, p \in Nat : At(m, j, n)' /\ At(m, j, p)' => n = p
      <3> SUFFICES ASSUME NEW j \in Kinds, NEW n \in Nat, NEW p \in Nat,
                          At(m, j, n)', At(m, j, p)'
                   PROVE  n = p
        OBVIOUS
      <3>1. (IF j = k THEN n + 1 ELSE n) = (IF j = k THEN p + 1 ELSE p)
        BY <1>b, <2>3 DEF Single
      <3>2. QED
        BY <3>1
    <2>8. /\ Commits(m) <= 1
          /\ Commits(m) = 1 => ~Queued(m)
          /\ m.chunk > pushed[m.import] => Commits(m) = 0 /\ ~Queued(m)
      BY <1>b DEF Single
    <2>9. QED
      BY <2>2, <2>4, <2>5, <2>6, <2>7, <2>8 DEF Single
  <1>4. CASE ReadImport \/ DatabaseFails
    <2>1. /\ consumer'.msg = consumer.msg
          /\ consumer.stage \in {"read", "transaction"}
          /\ UNCHANGED <<queue, committed, pushed>>
      BY <1>4, <1>c DEF ReadImport, DatabaseFails, GoTo, tables, uploads
    <2>2. /\ Commits(m)' = Commits(m)
          /\ InHand(m)' => InHand(m)
      BY <2>1 DEF Commits, InHand
    <2>3. QED
      BY <1>b, <1>d, <2>1, <2>2, SingleFrame
  <1>5. CASE StoreChunk
    <2>1. /\ UNCHANGED <<queue, pushed>> /\ consumer.stage = "transaction"
          /\ consumer'.msg = consumer.msg
          /\ InHand(m)' => InHand(m)
      BY <1>5, <1>c DEF StoreChunk, GoTo, uploads, InHand
    <2>2. CASE Commits(m)' = Commits(m)
      BY <1>b, <1>d, <2>1, <2>2, SingleFrame
    <2>3. CASE Commits(m)' # Commits(m)
      <3>1. /\ Commits(m)' = Commits(m) + 1 /\ consumer.msg = m /\ consumer'.stage = "ack"
        BY <2>3, CommitStep
      <3>2. InHand(m) /\ ~InHand(m)'
        BY <2>1, <3>1 DEF InHand
      <3>3. Commits(m) = 0 /\ ~Queued(m) /\ ~(m.chunk > pushed[m.import])
        BY <1>b, <1>c, <3>2 DEF Single
      <3>4. \A k \in Kinds, n \in Nat : ~At(m, k, n)'
        BY <1>d, <2>1, <3>3 DEF Queued
      <3>5. ~Queued(m)' /\ ~(m.chunk > pushed'[m.import])
        BY <2>1, <3>3, <3>4 DEF Queued
      <3>6. QED
        BY <3>1, <3>2, <3>3, <3>4, <3>5 DEF Single
    <2>4. QED
      BY <2>2, <2>3
  <1>6. CASE ReleaseChunk
    <2>1. PICK e \in Message, k \in Kinds, last \in Nat :
            e = consumer.msg /\ k = KindOf[e.import] /\ last = Len(queue[k]) + 1
      <3>1. consumer.msg \in Message /\ KindOf[consumer.msg.import] \in Kinds
        BY <1>6, <1>c, ImportAssumption DEF ReleaseChunk, Message
      <3>2. QED
        BY <3>1, QueueTypes
    <2>2. /\ queue' = [queue EXCEPT ![k] = Append(@, e)] /\ UNCHANGED <<committed, pushed>>
          /\ consumer.stage = "raised" /\ consumer'.stage = "ack"
      BY <1>6, <1>c, <2>1 DEF ReleaseChunk, GoTo, tables, uploads
    <2>3. \A j \in Kinds, n \in Nat : At(m, j, n)' =>
            At(m, j, n) \/ (j = k /\ m = e /\ n = last)
      <3> SUFFICES ASSUME NEW j \in Kinds, NEW n \in Nat, At(m, j, n)'
                   PROVE  At(m, j, n) \/ (j = k /\ m = e /\ n = Len(queue[k]) + 1)
        BY <2>1
      <3>1. queue' = [queue EXCEPT ![k] = Append(@, e)]
        BY <2>2
      <3>2. QED
        BY <3>1, PublishedAt
    <2>4. Commits(m)' = Commits(m) /\ ~InHand(m)' /\ InHand(e)
      BY <2>1, <2>2 DEF Commits, InHand
    <2>5. CASE m # e
      BY <1>b, <2>2, <2>3, <2>4, <2>5, SingleFrame
    <2>6. CASE m = e
      <3>1. Commits(m) = 0 /\ ~Queued(m) /\ ~(m.chunk > pushed'[m.import])
        BY <1>b, <1>c, <2>2, <2>4, <2>6 DEF Single
      <3>2. \A j \in Kinds, n \in Nat : At(m, j, n)' => j = k /\ n = last
        BY <2>3, <3>1 DEF Queued
      <3>3. QED
        BY <2>4, <3>1, <3>2 DEF Single
    <2>7. QED
      BY <2>5, <2>6
  <1>7. CASE AckChunk
    <2>1. /\ UNCHANGED <<queue, committed, pushed>> /\ consumer'.stage = "idle"
      BY <1>7 DEF AckChunk, IdleConsumer, tables, uploads
    <2>2. Commits(m)' = Commits(m) /\ ~InHand(m)'
      BY <2>1 DEF Commits, InHand
    <2>3. QED
      BY <1>b, <1>d, <2>1, <2>2, SingleFrame
  <1>8. CASE ConsumerCrash
    BY <1>8 DEF ConsumerCrash
  <1>9. ASSUME NEW i \in Imports,
               \/ RefuseSheet(i) \/ TellRefused(i) \/ StoreImport(i)
               \/ TrackPending(i) \/ DeleteOwner(i) \/ Reconcile(i)
        PROVE  UNCHANGED <<committed, queue, consumer, pushed>>
    BY <1>9 DEF RefuseSheet, TellRefused, StoreImport, TrackPending, DeleteOwner, Reconcile
  <1>10. QED
    BY <1>1, <1>2, <1>3, <1>4, <1>5, <1>6, <1>7, <1>8, <1>9
       DEF Next, Upload, ConsumerStep, ConsumerFault, vars

LEMMA OneCopy == Spec => [](HomeInv /\ OnceInv)
  BY InitOnce, HomeStep, OnceStep, TypesKept, PTL DEF Spec

\* As long as the consumer does not crash, each chunk the broker accepted is
\* stored once or there is one copy of it, and never both.
THEOREM ExactlyOnce == Spec => []ChunkExactlyOnce
  <1>1. ASSUME TypeInv, CountInv, NoChunkLost, OnceInv
        PROVE  ChunkExactlyOnce
    <2> SUFFICES ASSUME ~crashed, NEW i \in Imports, NEW c \in 1 .. pushed[i]
                 PROVE  committed[i][c] + Copies(ChunkOf(i, c)) = 1
      BY DEF ChunkExactlyOnce
    <2> DEFINE m == ChunkOf(i, c)
               k == KindOf[i]
    <2>1. /\ pushed[i] \in Nat /\ Len(Chunks[i]) \in Nat /\ pushed[i] <= Len(Chunks[i])
      BY <1>1, ImportAssumption DEF TypeInv, TypeOK, CountInv, UploadInv
    <2>2. /\ m \in Message /\ m.import = i /\ m.chunk = c /\ k \in Kinds
          /\ Commits(m) = committed[i][c] /\ committed[i][c] \in Nat
      BY <1>1, <2>1, ImportAssumption DEF ChunkOf, Message, Commits, TypeInv, TypeOK
    <2>3. Single(m) /\ Kept(i, c)
      BY <1>1, <2>2 DEF OnceInv, NoChunkLost, Kept
    <2>4. /\ queue[k] \in Seq(Message)
          /\ Places(m) = {n \in 1 .. Len(queue[k]) : queue[k][n] = m}
          /\ 1 .. Len(queue[k]) \subseteq Nat
      BY <1>1, <2>2, QueueTypes DEF Places
    <2>5. Places(m) = {} \/ \E n \in Nat : Places(m) = {n} /\ At(m, k, n)
      <3>1. \A n \in Places(m) : n \in Nat /\ At(m, k, n)
        BY <2>4 DEF At
      <3>2. \A n, p \in Places(m) : n = p
        BY <2>2, <2>3, <3>1 DEF Single
      <3>3. QED
        BY <3>1, <3>2
    <2>6. Cardinality(Places(m)) = (IF Places(m) = {} THEN 0 ELSE 1)
      BY <2>5, FS_EmptySet, FS_Singleton
    <2>7. Places(m) # {} => Queued(m)
      BY <2>2, <2>5 DEF Queued
    <2>8. QED
      BY <2>2, <2>3, <2>6, <2>7 DEF Single, Kept, Copies
  <1>2. QED
    BY <1>1, TypesKept, CountsKept, NothingLost, OneCopy, PTL

-----------------------------------------------------------------------------
(* An import is finished by its last chunk, which comes last.              *)

\* Chunks of one sheet, in its order.
Before(e, m) == e.import = m.import /\ e.chunk < m.chunk

\* As long as nothing was put back at the tail, what comes before a queued
\* chunk is stored, in hand or in front of it, and what comes before the chunk
\* in hand is stored.
InFront(e, k, n) == Commits(e) >= 1 \/ InHand(e) \/ \E p \in Nat : p < n /\ At(e, k, p)
QueueInOrder ==
  \A m, e \in Message : Before(e, m) =>
    \A k \in Kinds, n \in Nat : At(m, k, n) => InFront(e, k, n)
HandInOrder ==
  consumer.stage # "idle" =>
    \A e \in Message : Before(e, consumer.msg) => Commits(e) >= 1
AckStored ==
  consumer.stage = "ack" => \A m \in Message : consumer.msg = m => Commits(m) >= 1
FinishedStored ==
  \A i \in Imports \ Invalid : Finished(i) =>
    \A m \in Message : m.import = i => Commits(m) >= 1

OrderInv == ~released =>
  QueueInOrder /\ HandInOrder /\ AckStored /\ FinishedStored

LEMMA InitOrder == Init => OrderInv
  <1> SUFFICES ASSUME Init PROVE OrderInv
    OBVIOUS
  <1>1. \A m \in Message, k \in Kinds, n \in Nat : ~At(m, k, n)
    BY DEF Init, At
  <1>2. consumer.stage = "idle" /\ \A i \in Imports : ~Finished(i)
    BY DEF Init, IdleConsumer, Finished, Outcomes, AbsentImport
  <1>3. QED
    BY <1>1, <1>2 DEF OrderInv, QueueInOrder, HandInOrder, AckStored, FinishedStored

\* What is stored stays stored.
LEMMA CommitsStay ==
  ASSUME TypeInv, [Next]_vars, NEW m \in Message, Commits(m) >= 1
  PROVE  Commits(m)' >= 1
  BY CommitStep

\* The queue: a publish puts a chunk behind those before it, a delivery takes
\* what is in front of all, and a crash puts it back there.
LEMMA QueueStep ==
  ASSUME TypeInv, CountInv, NoChunkLost, HomeInv, QueueInOrder, HandInOrder, AckStored,
         [Next]_vars, ~released'
  PROVE  QueueInOrder'
  <1> SUFFICES ASSUME NEW m \in Message, NEW e \in Message, Before(e, m),
                      NEW k \in Kinds, NEW n \in Nat, At(m, k, n)'
               PROVE  InFront(e, k, n)'
    BY DEF QueueInOrder
  <1>a. /\ consumer.stage # "idle" => consumer.msg \in Message
        /\ consumer \in [stage  : {"idle", "read", "transaction", "raised", "ack"},
                         msg    : Message \cup {NoMessage},
                         loaded : Import]
        /\ pushed \in [Imports -> Nat]
        /\ m.import \in Imports /\ m.chunk \in Nat
        /\ e.import = m.import /\ e.chunk \in Nat /\ e.chunk < m.chunk /\ e.chunk >= 1
        /\ e = ChunkOf(e.import, e.chunk)
    BY DEF TypeInv, TypeOK, Message, Before, ChunkOf
  <1>b. Commits(e) >= 1 => InFront(e, k, n)'
    BY CommitsStay DEF InFront
  <1>1. CASE UNCHANGED queue /\ (InHand(e) => Commits(e)' >= 1 \/ InHand(e)')
    <2>1. At(m, k, n) /\ \A p \in Nat : At(e, k, p) => At(e, k, p)'
      BY <1>1 DEF At
    <2>2. InFront(e, k, n)
      BY <2>1 DEF QueueInOrder
    <2>3. QED
      BY <1>1, <1>b, <2>1, <2>2 DEF InFront
  <1>2. ASSUME NEW i \in Imports, PushChunk(i) PROVE InFront(e, k, n)'
    <2>1. PICK g \in Message, h \in Kinds :
            g = [import |-> i, chunk |-> pushed[i] + 1] /\ h = KindOf[i]
      <3>1. pushed[i] \in Nat /\ pushed[i] < Len(Chunks[i]) /\ Len(Chunks[i]) \in Nat
        BY <1>2, ImportAssumption DEF PushChunk, TypeInv, TypeOK
      <3>2. [import |-> i, chunk |-> pushed[i] + 1] \in Message
        BY <3>1 DEF Message
      <3>3. QED
        BY <3>2, ImportAssumption
    <2>2. /\ queue' = [queue EXCEPT ![h] = Append(@, g)] /\ UNCHANGED consumer
          /\ g.import = i /\ g.chunk = pushed[i] + 1
      BY <1>2, <2>1 DEF PushChunk
    <2>3. At(m, k, n) \/ (k = h /\ m = g /\ n = Len(queue[h]) + 1)
      BY <2>2, PublishedAt
    <2>4. /\ \A j \in Kinds, p \in Nat : At(e, j, p) => At(e, j, p)'
          /\ InHand(e) => InHand(e)'
      BY <2>2, StaysAt DEF InHand
    <2>5. CASE At(m, k, n)
      <3>1. InFront(e, k, n)
        BY <2>5 DEF QueueInOrder
      <3>2. QED
        BY <1>b, <2>4, <3>1 DEF InFront
    <2>6. CASE k = h /\ m = g /\ n = Len(queue[h]) + 1
      <3>1. e.chunk \in 1 .. pushed[e.import] /\ e.import = i
        BY <1>a, <2>2, <2>6
      <3>2. Kept(e.import, e.chunk)
        BY <3>1 DEF NoChunkLost, Kept
      <3>3. Commits(e) >= 1 \/ InHand(e) \/ Places(e) # {}
        BY <1>a, <3>2 DEF Kept, Commits
      <3>4. Places(e) # {} => \E p \in Nat : p < n /\ At(e, k, p)
        <4>1. Places(e) \subseteq 1 .. Len(queue[h]) /\ Len(queue[h]) \in Nat
          BY <2>1, <3>1, QueueTypes DEF Places
        <4>2. \A p \in Places(e) : queue[h][p] = e
          BY <2>1, <3>1 DEF Places
        <4>3. QED
          BY <2>6, <4>1, <4>2 DEF At
      <3>5. QED
        BY <1>b, <2>4, <3>3, <3>4 DEF InFront
    <2>7. QED
      BY <2>3, <2>5, <2>6
  <1>3. CASE TakeChunk
    <2>1. PICK h \in Kinds, g \in Message :
            /\ At(g, h, 1) /\ consumer'.stage = "read" /\ consumer'.msg = g
            /\ \A f \in Message, j \in Kinds \ {h}, q \in Nat : At(f, j, q)' <=> At(f, j, q)
            /\ \A f \in Message, q, p \in Nat :
                 q >= 1 /\ p = q + 1 => (At(f, h, q)' <=> At(f, h, p))
            /\ ~At(m, h, 0)'
      BY <1>3, TakenAt
    <2>2. ~InHand(e)
      BY <1>3 DEF TakeChunk, InHand
    <2>3. CASE k # h
      <3>1. At(m, k, n) /\ \A p \in Nat : At(e, k, p) => At(e, k, p)'
        BY <2>1, <2>3
      <3>2. InFront(e, k, n)
        BY <3>1 DEF QueueInOrder
      <3>3. QED
        BY <1>b, <2>2, <3>1, <3>2 DEF InFront
    <2>4. CASE k = h
      <3>1. n >= 1 /\ n + 1 \in Nat
        BY <2>1, <2>4
      <3>2. At(m, k, n + 1)
        BY <2>1, <2>4, <3>1
      <3>3. InFront(e, k, n + 1)
        BY <3>1, <3>2 DEF QueueInOrder
      <3>4. ASSUME NEW p \in Nat, p < n + 1, At(e, k, p)
            PROVE  InFront(e, k, n)'
        <4>1. p >= 1
          BY <3>4 DEF At
        <4>2. CASE p = 1
          <5>1. e = g
            BY <2>1, <2>4, <3>4, <4>2 DEF At
          <5>2. InHand(e)'
            BY <2>1, <5>1 DEF InHand
          <5>3. QED
            BY <5>2 DEF InFront
        <4>3. CASE p # 1
          <5>1. PICK q \in Nat : q >= 1 /\ p = q + 1
            BY <4>1, <4>3
          <5>2. At(e, k, q)' /\ q < n
            BY <2>1, <2>4, <3>4, <5>1
          <5>3. QED
            BY <5>2 DEF InFront
        <4>4. QED
          BY <4>2, <4>3
      <3>5. QED
        BY <1>b, <2>2, <3>3, <3>4 DEF InFront
    <2>5. QED
      BY <2>3, <2>4
  <1>4. CASE ReadImport \/ DatabaseFails
    <2>1. /\ consumer'.msg = consumer.msg /\ UNCHANGED queue
          /\ consumer'.stage \in {"transaction", "raised"}
      BY <1>4, <1>a DEF ReadImport, DatabaseFails, GoTo
    <2>2. QED
      BY <1>1, <2>1 DEF InHand
  <1>5. CASE StoreChunk
    <2>1. /\ consumer'.msg = consumer.msg /\ UNCHANGED queue
          /\ \/ consumer'.stage = "raised"
             \/ consumer.msg \in Message /\ Commits(consumer.msg)' >= 1
      <3>1. consumer'.msg = consumer.msg /\ UNCHANGED queue /\ consumer.msg \in Message
        BY <1>5, <1>a DEF StoreChunk, GoTo
      <3>2. CASE import[consumer.msg.import].status = "none"
        BY <1>5, <1>a, <3>1, <3>2 DEF StoreChunk, GoTo
      <3>3. CASE import[consumer.msg.import].status # "none"
        <4> DEFINE g == consumer.msg
        <4>1. /\ g.import \in Imports /\ g.chunk \in 1 .. Len(Chunks[g.import])
              /\ committed' = [committed EXCEPT ![g.import][g.chunk] = @ + 1]
              /\ DOMAIN committed = Imports
              /\ committed[g.import] \in [1 .. Len(Chunks[g.import]) -> Nat]
          BY <1>5, <3>1, <3>3 DEF StoreChunk, TypeInv, TypeOK, Message
        <4>2. committed'[g.import] = [committed[g.import] EXCEPT ![g.chunk] = @ + 1]
          BY <4>1
        <4>3. committed'[g.import][g.chunk] >= 1
          BY <4>1, <4>2
        <4>4. QED
          BY <3>1, <4>3 DEF Commits
      <3>4. QED
        BY <3>2, <3>3
    <2>2. InHand(e) => Commits(e)' >= 1 \/ InHand(e)'
      BY <2>1 DEF InHand, Commits
    <2>3. QED
      BY <1>1, <2>1, <2>2
  <1>6. CASE AckChunk
    BY <1>1, <1>6 DEF AckChunk, InHand
  <1>7. CASE ConsumerCrash
    <2>1. PICK g \in Message, h \in Kinds : g = consumer.msg /\ h = KindOf[g.import]
      BY <1>7, <1>a, ImportAssumption DEF ConsumerCrash, Message
    <2>2. queue' = [queue EXCEPT ![h] = <<g>> \o @] /\ consumer.stage # "idle"
      BY <1>7, <2>1 DEF ConsumerCrash
    <2>3. /\ At(g, h, 1)'
          /\ \A q, p \in Nat : At(e, h, q) /\ p = q + 1 => At(e, h, p)'
      BY <2>2, ShiftsAt
    <2>4. \/ k # h /\ At(m, k, n)
          \/ k = h /\ m = g /\ n = 1
          \/ k = h /\ n - 1 \in Nat /\ At(m, k, n - 1)
      BY <2>2, RequeuedAt
    <2>5. CASE k # h /\ At(m, k, n)
      <3>1. InFront(e, k, n)
        BY <2>5 DEF QueueInOrder
      <3>2. InHand(e) => k = h
        BY <1>a, <2>1, <2>5 DEF HomeInv, InHand
      <3>3. \A p \in Nat : At(e, k, p) => At(e, k, p)'
        BY <2>2, <2>5, QueueTypes DEF At
      <3>4. QED
        BY <1>b, <2>5, <3>1, <3>2, <3>3 DEF InFront
    <2>6. CASE k = h /\ m = g /\ n = 1
      BY <1>b, <2>1, <2>2, <2>6 DEF HandInOrder
    <2>7. CASE k = h /\ n - 1 \in Nat /\ At(m, k, n - 1)
      <3>1. PICK o \in Nat : o = n - 1 /\ At(m, k, o) /\ o >= 1
        BY <2>7 DEF At
      <3>2. InFront(e, k, o)
        BY <3>1 DEF QueueInOrder
      <3>3. InHand(e) => At(e, k, 1)' /\ 1 < n
        BY <2>1, <2>3, <2>7, <3>1 DEF InHand
      <3>4. ASSUME NEW p \in Nat, p < o, At(e, k, p)
            PROVE  \E q \in Nat : q < n /\ At(e, k, q)'
        BY <2>3, <2>7, <3>1, <3>4
      <3>5. QED
        BY <1>b, <3>2, <3>3, <3>4 DEF InFront
    <2>8. QED
      BY <2>4, <2>5, <2>6, <2>7
  <1>8. CASE ReleaseChunk
    BY <1>8 DEF ReleaseChunk
  <1>9. ASSUME NEW i \in Imports,
               \/ RefuseSheet(i) \/ TellRefused(i) \/ StoreImport(i)
               \/ TrackPending(i) \/ DeleteOwner(i) \/ Reconcile(i)
        PROVE  UNCHANGED <<queue, consumer>>
    BY <1>9 DEF RefuseSheet, TellRefused, StoreImport, TrackPending, DeleteOwner, Reconcile
  <1>10. CASE UNCHANGED <<queue, consumer>>
    BY <1>1, <1>10 DEF InHand
  <1>11. QED
    BY <1>2, <1>3, <1>4, <1>5, <1>6, <1>7, <1>8, <1>9, <1>10
       DEF Next, Upload, ConsumerStep, ConsumerFault, vars

\* The hand: what comes before the head of a queue is stored by now.
LEMMA HandStep ==
  ASSUME TypeInv, HomeInv, QueueInOrder, HandInOrder, AckStored, [Next]_vars, ~released'
  PROVE  HandInOrder' /\ AckStored'
  <1>a. /\ consumer.stage # "idle" => consumer.msg \in Message
        /\ consumer \in [stage  : {"idle", "read", "transaction", "raised", "ack"},
                         msg    : Message \cup {NoMessage},
                         loaded : Import]
    BY DEF TypeInv, TypeOK
  <1>1. ASSUME consumer'.msg = consumer.msg, consumer.stage # "idle"
        PROVE  HandInOrder'
    <2> SUFFICES ASSUME NEW e \in Message, Before(e, consumer.msg)'
                 PROVE  Commits(e)' >= 1
      BY DEF HandInOrder
    <2>1. Before(e, consumer.msg)
      BY <1>1 DEF Before
    <2>2. QED
      BY <1>1, <2>1, CommitsStay DEF HandInOrder
  <1>2. CASE consumer'.stage = "idle"
    BY <1>2 DEF HandInOrder, AckStored
  <1>3. CASE UNCHANGED consumer
    <2>1. HandInOrder'
      BY <1>1, <1>2, <1>3
    <2>2. AckStored'
      BY <1>3, CommitsStay DEF AckStored
    <2>3. QED
      BY <2>1, <2>2
  <1>4. CASE TakeChunk
    <2>1. PICK h \in Kinds, g \in Message :
            At(g, h, 1) /\ consumer'.stage = "read" /\ consumer'.msg = g
      BY <1>4, TakenAt
    <2>2. ASSUME NEW e \in Message, Before(e, g)
          PROVE  Commits(e)' >= 1
      <3>1. InFront(e, h, 1)
        BY <2>1, <2>2 DEF QueueInOrder
      <3>2. ~InHand(e)
        BY <1>4 DEF TakeChunk, InHand
      <3>3. ~(\E p \in Nat : p < 1 /\ At(e, h, p))
        BY DEF At
      <3>4. QED
        BY <3>1, <3>2, <3>3, CommitsStay DEF InFront
    <2>3. HandInOrder'
      BY <2>1, <2>2 DEF HandInOrder, Before
    <2>4. AckStored'
      BY <2>1 DEF AckStored
    <2>5. QED
      BY <2>3, <2>4
  <1>5. CASE ReadImport \/ DatabaseFails
    <2>1. /\ consumer'.msg = consumer.msg /\ consumer.stage # "idle"
          /\ consumer'.stage \in {"transaction", "raised"}
      BY <1>5, <1>a DEF ReadImport, DatabaseFails, GoTo
    <2>2. QED
      BY <1>1, <2>1 DEF AckStored
  <1>6. CASE StoreChunk
    <2>1. consumer'.msg = consumer.msg /\ consumer.stage # "idle" /\ consumer.msg \in Message
      BY <1>6, <1>a DEF StoreChunk, GoTo
    <2>2. CASE import[consumer.msg.import].status = "none"
      <3>1. consumer'.stage = "raised"
        BY <1>6, <1>a, <2>2 DEF StoreChunk, GoTo
      <3>2. QED
        BY <1>1, <2>1, <3>1 DEF AckStored
    <2>3. CASE import[consumer.msg.import].status # "none"
      <3>1. PICK g \in Message : g = consumer.msg
        BY <2>1
      <3>2. /\ g.import \in Imports /\ g.chunk \in 1 .. Len(Chunks[g.import])
            /\ committed' = [committed EXCEPT ![g.import][g.chunk] = @ + 1]
            /\ DOMAIN committed = Imports
            /\ committed[g.import] \in [1 .. Len(Chunks[g.import]) -> Nat]
        BY <1>6, <2>3, <3>1 DEF StoreChunk, TypeInv, TypeOK, Message
      <3>3. committed'[g.import] = [committed[g.import] EXCEPT ![g.chunk] = @ + 1]
        BY <3>2
      <3>4. Commits(g)' >= 1
        BY <3>2, <3>3 DEF Commits
      <3>5. QED
        BY <1>1, <2>1, <3>1, <3>4 DEF AckStored
    <2>4. QED
      BY <2>2, <2>3
  <1>7. CASE AckChunk \/ ConsumerCrash
    BY <1>2, <1>7 DEF AckChunk, ConsumerCrash, IdleConsumer
  <1>8. CASE ReleaseChunk
    BY <1>8 DEF ReleaseChunk
  <1>9. ASSUME NEW i \in Imports, Upload(i) \/ DeleteOwner(i) \/ Reconcile(i)
        PROVE  UNCHANGED consumer
    BY <1>9 DEF Upload, RefuseSheet, TellRefused, StoreImport, PushChunk, TrackPending,
                DeleteOwner, Reconcile
  <1>10. QED
    BY <1>3, <1>4, <1>5, <1>6, <1>7, <1>8, <1>9 DEF Next, ConsumerStep, ConsumerFault, vars

\* The row: its last chunk finishes an import.
LEMMA FinishedStep ==
  ASSUME TypeInv, HandInOrder, FinishedStored, [Next]_vars, AckStored'
  PROVE  FinishedStored'
  <1> SUFFICES ASSUME NEW i \in Imports, i \notin Invalid, Finished(i)',
                      NEW m \in Message, m.import = i
               PROVE  Commits(m)' >= 1
    BY DEF FinishedStored
  <1>a. import \in [Imports -> Import]
    BY DEF TypeInv, TypeOK
  <1>1. CASE import'[i] = import[i]
    <2>1. Commits(m) >= 1
      BY <1>1 DEF Finished, FinishedStored
    <2>2. QED
      BY <2>1, CommitsStay
  <1>2. ASSUME NEW j \in Imports, RefuseSheet(j)
        PROVE  import'[i] = import[i]
    BY <1>a, <1>2 DEF RefuseSheet
  <1>3. ASSUME NEW j \in Imports, StoreImport(j) \/ DeleteOwner(j)
        PROVE  import'[i] = import[i]
    <2>1. \/ import' = [import EXCEPT ![j] = [AbsentImport EXCEPT !.status = "pending"]]
          \/ import' = [import EXCEPT ![j] = AbsentImport]
      BY <1>3 DEF StoreImport, DeleteOwner
    <2>2. /\ [AbsentImport EXCEPT !.status = "pending"].status \notin Outcomes
          /\ AbsentImport.status \notin Outcomes
      BY DEF AbsentImport, Outcomes
    <2>3. QED
      BY <1>a, <2>1, <2>2 DEF Finished
  <1>4. CASE StoreChunk
    <2> DEFINE row == AfterChunk(consumer.loaded, consumer.msg)
    <2>1. consumer.msg \in Message /\ consumer.stage = "transaction"
      BY <1>4 DEF StoreChunk, TypeInv
    <2>2. \/ import' = import
          \/ /\ import' = [import EXCEPT ![consumer.msg.import] = row]
             /\ consumer'.stage = "ack" /\ consumer'.msg = consumer.msg
      BY <1>4 DEF StoreChunk, tables, GoTo, TypeInv, TypeOK
    <2>3. CASE import' = import \/ consumer.msg.import # i
      BY <1>1, <1>a, <2>2, <2>3
    <2>4. CASE /\ import' = [import EXCEPT ![consumer.msg.import] = row]
               /\ consumer'.stage = "ack" /\ consumer'.msg = consumer.msg
               /\ consumer.msg.import = i
      <3>1. row.status \in Outcomes
        BY <1>a, <2>4 DEF Finished
      <3>2. IsLastChunk(consumer.msg)
        BY <3>1 DEF AfterChunk, Outcomes
      <3>3. /\ m.chunk \in Nat /\ consumer.msg.chunk \in Nat
            /\ m.chunk <= consumer.msg.chunk
        BY <2>1, <2>4, <3>2, ImportAssumption DEF IsLastChunk, Message
      <3>4. CASE m.chunk = consumer.msg.chunk
        <4>1. m = consumer.msg
          BY <2>1, <2>4, <3>4 DEF Message
        <4>2. QED
          BY <2>4, <4>1 DEF AckStored
      <3>5. CASE m.chunk < consumer.msg.chunk
        <4>1. Commits(m) >= 1
          BY <2>1, <2>4, <3>5 DEF HandInOrder, Before
        <4>2. QED
          BY <4>1, CommitsStay
      <3>6. QED
        BY <3>3, <3>4, <3>5
    <2>5. QED
      BY <2>2, <2>3, <2>4
  <1>5. ASSUME NEW j \in Imports,
               TellRefused(j) \/ PushChunk(j) \/ TrackPending(j) \/ Reconcile(j)
        PROVE  UNCHANGED import
    BY <1>5 DEF TellRefused, PushChunk, TrackPending, Reconcile
  <1>6. CASE \/ TakeChunk \/ ReadImport \/ ReleaseChunk \/ AckChunk
             \/ ConsumerFault
    BY <1>1, <1>6 DEF TakeChunk, ReadImport, ReleaseChunk, AckChunk, ConsumerFault,
                      DatabaseFails, ConsumerCrash, tables
  <1>7. QED
    BY <1>1, <1>2, <1>3, <1>4, <1>5, <1>6 DEF Next, Upload, ConsumerStep, vars

\* Released is a history variable: it does not go back.
LEMMA ReleasedStays == [Next]_vars /\ ~released' => ~released
  BY DEF Next, Upload, RefuseSheet, TellRefused, StoreImport, PushChunk, TrackPending,
         DeleteOwner, Reconcile, ConsumerStep, TakeChunk, ReadImport, StoreChunk,
         ReleaseChunk, AckChunk, ConsumerFault, DatabaseFails, ConsumerCrash, vars

\* An import is shown as finished only when all of its chunks are stored,
\* through crashes and failed uploads of others, unless a chunk was put back at
\* the tail of its queue.
THEOREM FinishedLast == Spec => []FinishedIsComplete
  <1>1. ASSUME TypeInv, CountInv, NoChunkLost, HomeInv, OrderInv, [Next]_vars
        PROVE  OrderInv'
    <2> SUFFICES ASSUME ~released'
                 PROVE  (QueueInOrder /\ HandInOrder /\ AckStored /\ FinishedStored)'
      BY DEF OrderInv
    <2>1. QueueInOrder /\ HandInOrder /\ AckStored /\ FinishedStored
      BY <1>1, ReleasedStays DEF OrderInv
    <2>2. QueueInOrder'
      BY <1>1, <2>1, QueueStep
    <2>3. HandInOrder' /\ AckStored'
      BY <1>1, <2>1, HandStep
    <2>4. FinishedStored'
      BY <1>1, <2>1, <2>3, FinishedStep
    <2>5. QED
      BY <2>2, <2>3, <2>4
  <1>2. ASSUME OrderInv
        PROVE  FinishedIsComplete
    <2> SUFFICES ASSUME NEW i \in Imports \ Invalid, Finished(i), ~released,
                        NEW c \in 1 .. Len(Chunks[i])
                 PROVE  committed[i][c] >= 1
      BY DEF FinishedIsComplete
    <2>1. Len(Chunks[i]) \in Nat
      BY ImportAssumption
    <2>2. ChunkOf(i, c) \in Message /\ ChunkOf(i, c).import = i /\ ChunkOf(i, c).chunk = c
      BY <2>1 DEF ChunkOf, Message
    <2>3. QED
      BY <1>2, <2>2 DEF OrderInv, FinishedStored, Commits
  <1>3. QED
    BY <1>1, <1>2, InitOrder, TypesKept, CountsKept, NothingLost, OneCopy, PTL DEF Spec
===============================================================================
