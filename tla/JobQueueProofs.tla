--------------------------- MODULE JobQueueProofs ---------------------------
(***************************************************************************)
(* Proofs about JobQueue, for any number of jobs, workers, clients and     *)
(* faults.                                                                 *)
(***************************************************************************)
EXTENDS JobQueue, FiniteSetTheorems, TLAPS

USE DEF NowhereAtBroker, Ready, NoMessage, NoWorker, NoRow

-----------------------------------------------------------------------------
(* Types.                                                                  *)

BrokerType ==
  /\ broker \in [Messages -> {NowhereAtBroker, Ready} \union Workers]
  /\ conn \in [Workers -> BOOLEAN]
  /\ acking \in [Workers -> BOOLEAN]

ProcessType ==
  process \in [Workers -> {"none", "fetch", "begin", "validate", "run", "unlink",
                          "record", "unhandle", "release", "leave", "refRecord",
                          "refUnlink", "refUnhandle"}]

(* Ending a connection, in either way, keeps the broker to its type, and   *)
(* so does the end of a process.                                           *)
LEMMA EndType ==
  ASSUME NEW w \in Workers, BrokerType
  PROVE  /\ Close(w) \/ Break(w) => BrokerType'
         /\ ProcessType /\ End(w) => BrokerType' /\ ProcessType'
<1>1. ASSUME Close(w) \/ Break(w) PROVE BrokerType'
  <2>1. conn' \in [Workers -> BOOLEAN] /\ acking' \in [Workers -> BOOLEAN]
    BY <1>1 DEF BrokerType, Close, Break, Closed
  <2>2. CASE Close(w)  BY <2>1, <2>2 DEF BrokerType, Close
  <2>3. CASE Break(w)  BY <2>1, <2>3 DEF BrokerType, Break
  <2>q. QED BY <1>1, <2>2, <2>3
<1>2. ASSUME ProcessType, End(w) PROVE BrokerType' /\ ProcessType'
  <2>1. ProcessType'
    BY <1>2 DEF End, ProcessType
  <2>2. Break(w) \/ UNCHANGED brokerVars
    BY <1>2 DEF End
  <2>q. QED BY <1>1, <2>1, <2>2 DEF brokerVars, BrokerType
<1>q. QED BY <1>1, <1>2

LEMMA TypeInit == Init => TypeOK
<1>1. SUFFICES ASSUME Init PROVE TypeOK  OBVIOUS
<1>2. worker \in [Workers -> {"free", "bind"}]
  BY <1>1 DEF Init
<1>3. asked \in [Clients -> [job : Jobs, op : {"GetStatus", "GetResult", "Dismiss"}]]
  BY <1>1, JobAssumption DEF Init
<1>q. QED BY <1>1, <1>2, <1>3 DEF Init, TypeOK, Messages, FinalStates

LEMMA AcceptorType ==
  ASSUME TypeOK, NEW j \in Jobs, AcceptorNext(j)
  PROVE  TypeOK'
<1>1. CASE Publish(j)
  BY <1>1 DEF Publish, SendTo, tables, readerVars, TypeOK, Messages
<1>2. CASE Confirm(j)
  BY <1>2 DEF Confirm, SendTo, brokerVars, tables, readerVars, TypeOK
<1>3. CASE RecordServiceStatus(j)
  BY <1>3 DEF RecordServiceStatus, InsertRow, SendTo, brokerVars, readerVars, TypeOK, FinalStates
<1>4. CASE RecordRequestOf(j)
  BY <1>4 DEF RecordRequestOf, RecordRequest, SendTo, brokerVars, readerVars, TypeOK
<1>5. CASE Created(j)
  BY <1>5 DEF Created, SendTo, brokerVars, tables, readerVars, TypeOK
<1>q. QED BY <1>1, <1>2, <1>3, <1>4, <1>5 DEF AcceptorNext

(* A worker in hand of a message has one, and so has the process it forked; *)
(* it does nothing else while that process runs.                           *)
HandInv ==
  \A w \in Workers :
    /\ worker[w] \in {"ack", "slot", "fork"} => taken[w] \in Messages
    /\ process[w] # "none" => taken[w] \in Messages
    /\ worker[w] \notin {"wait", "zombie", "free"} => process[w] = "none"

LEMMA WorkerType ==
  ASSUME TypeOK, HandInv, NEW w \in Workers, WorkerNext(w)
  PROVE  TypeOK'
<1>1. CASE Bind(w)
  BY <1>1 DEF Bind, Step, tables, readerVars, TypeOK
<1>2. CASE Consume(w)
  BY <1>2 DEF Consume, Held, Step, brokerVars, tables, readerVars, TypeOK
<1>3. CASE ConsumeFails(w)
  BY <1>3 DEF ConsumeFails, Step, brokerVars, tables, readerVars, TypeOK
<1>8. CASE Resume(w)
  BY <1>8 DEF Resume, Step, brokerVars, tables, readerVars, TypeOK
<1>9. CASE WaitForProcess(w)
  BY <1>9 DEF WaitForProcess, Step, brokerVars, tables, readerVars, TypeOK
<1>4. CASE Ack(w)
  BY <1>4 DEF Ack, Step, tables, readerVars, TypeOK
<1>5. CASE CheckAvailableExecutionSlot(w)
  BY <1>5 DEF CheckAvailableExecutionSlot, HandInv, SlotFree, Job, Step, brokerVars, readerVars, TypeOK
<1>6. CASE Fork(w)
  BY <1>6 DEF Fork, Go, Step, brokerVars, tables, readerVars, TypeOK
<1>7. CASE CloseAndExit(w)
  <2>1. BrokerType'
    BY <1>7, EndType DEF CloseAndExit, brokerVars, BrokerType, TypeOK
  <2>q. QED BY <1>7, <2>1 DEF CloseAndExit, Step, BrokerType, tables, readerVars, TypeOK
<1>q. QED BY <1>1, <1>2, <1>3, <1>4, <1>5, <1>6, <1>7, <1>8, <1>9 DEF WorkerNext

LEMMA ProcessNextType ==
  ASSUME TypeOK, HandInv, NEW w \in Workers, ProcessNext(w)
  PROVE  TypeOK'
<1>1. CASE FetchService(w)
  BY <1>1 DEF FetchService, Go, Job, brokerVars, tables, readerVars, TypeOK
<1>2. CASE Begin(w)
  BY <1>2 DEF Begin, RecordResponse, Go, Job, brokerVars, readerVars, TypeOK
<1>3. CASE ValidateRequest(w)
  BY <1>3 DEF ValidateRequest, Go, Job, brokerVars, tables, readerVars, TypeOK
<1>4. CASE LoadServiceAndRun(w)
  BY <1>4 DEF LoadServiceAndRun, Go, brokerVars, tables, readerVars, TypeOK
<1>5. CASE RemovePidFile(w)
  <2>1. process' \in [Workers -> {"none", "fetch", "begin", "validate", "run", "unlink", "record",
                                  "unhandle", "release", "leave", "refRecord", "refUnlink",
                                  "refUnhandle"}]
    BY <1>5 DEF RemovePidFile, Go, TypeOK
  <2>2. pidfile' \in [Messages -> Workers \union {NoWorker}]
    BY <1>5 DEF RemovePidFile, TypeOK
  <2>q. QED BY <1>5, <2>1, <2>2 DEF RemovePidFile, brokerVars, tables, readerVars, TypeOK
<1>6. CASE RecordFinalResponse(w)
  <2>1. process' \in [Workers -> {"none", "fetch", "begin", "validate", "run", "unlink", "record",
                                  "unhandle", "release", "leave", "refRecord", "refUnlink",
                                  "refUnhandle"}]
    BY <1>6 DEF RecordFinalResponse, Go, TypeOK
  <2>2. responses' \in [Jobs -> {"none", "started", "final"}]
    BY <1>6 DEF RecordFinalResponse, RecordResponse, TypeOK
  <2>q. QED BY <1>6, <2>1, <2>2 DEF RecordFinalResponse, brokerVars, readerVars, TypeOK
<1>7. CASE UnhandleStatus(w)
  BY <1>7 DEF UnhandleStatus, UpdateRow, Recorded, Go, Job, brokerVars, readerVars, FinalStates, TypeOK
<1>8. CASE ReleaseSlot(w)
  BY <1>8 DEF ReleaseSlot, Go, brokerVars, readerVars, TypeOK
<1>9. CASE Leave(w)
  <2>1. BrokerType'
    BY <1>9, EndType DEF Leave, brokerVars, BrokerType, TypeOK
  <2>q. QED BY <1>9, <2>1 DEF Leave, Go, BrokerType, tables, readerVars, FinalStates, TypeOK
<1>q. QED BY <1>1, <1>2, <1>3, <1>4, <1>5, <1>6, <1>7, <1>8, <1>9 DEF ProcessNext

LEMMA FaultType ==
  ASSUME TypeOK, NEW w \in Workers, HandleAck(w) \/ Fails(w)
  PROVE  TypeOK'
<1>1. CASE HandleAck(w)
  BY <1>1 DEF HandleAck, tables, readerVars, TypeOK
<1>2. CASE LoseConnection(w)
  <2>1. BrokerType'
    BY <1>2, EndType DEF LoseConnection, BrokerType, TypeOK
  <2>q. QED BY <1>2, <2>1 DEF LoseConnection, Fault, BrokerType, tables, readerVars, TypeOK
<1>3. CASE WorkerDies(w)
  <2>1. BrokerType'
    BY <1>3, EndType DEF WorkerDies, brokerVars, BrokerType, TypeOK
  <2>q. QED BY <1>3, <2>1 DEF WorkerDies, Fault, BrokerType, tables, readerVars, TypeOK
<1>4. CASE ProcessDies(w)
  <2>1. BrokerType' /\ ProcessType'
    BY <1>4, EndType DEF ProcessDies, BrokerType, ProcessType, TypeOK
  <2>q. QED BY <1>4, <2>1 DEF ProcessDies, Fault, BrokerType, ProcessType, tables, readerVars, TypeOK
<1>5. CASE ForkFails(w)
  BY <1>5 DEF ForkFails, Step, Fault, brokerVars, tables, readerVars, TypeOK
<1>q. QED BY <1>1, <1>2, <1>3, <1>4, <1>5 DEF Fails

LEMMA MasterType ==
  ASSUME TypeOK, MasterNext
  PROVE  TypeOK'
<1>1. CASE MasterWaits
  <2>1. ASSUME NEW from \in {"wait", "waitAgain"}, NEW to \in {"fork", "pause"}, Reap(from, to)
        PROVE  TypeOK'
    BY <2>1 DEF Reap, MasterGoes, Step, brokerVars, tables, readerVars, TypeOK
  <2>q. QED BY <1>1, <2>1 DEF MasterWaits
<1>2. CASE MasterForks
  BY <1>2 DEF MasterForks, MasterGoes, Step, brokerVars, tables, readerVars, TypeOK
<1>3. CASE MasterSleeps
  BY <1>3 DEF MasterSleeps, MasterGoes, brokerVars, tables, readerVars, TypeOK
<1>q. QED BY <1>1, <1>2, <1>3 DEF MasterNext

ReadingType ==
  /\ reading \in [Clients -> {"idle", "id", "running", "state", "status",
                              "result", "pid", "kill", "remove"}]
  /\ answer \in [Clients -> {"none", "NoSuchJob", "ResultNotReady", "running",
                             "successful", "failed", "started", "final",
                             "undefined", "dismissed"}]

LEMMA ReaderType ==
  ASSUME TypeOK, NEW r \in Clients, Ask(r) \/ ReaderNext(r)
  PROVE  TypeOK'
<1>j. asked[r].job \in Jobs
  BY DEF TypeOK
<1>1. CASE Ask(r)
  BY <1>1, OpsAssumption DEF Ask, Reads, Answers, unread, brokerVars, TypeOK
<1>2. CASE GetStatusId(r)
  <2>3. PICK to \in {"idle", "running", "kill"} : Reads(r, "id", to)
    BY <1>2 DEF GetStatusId
  <2>4. UNCHANGED answer \/ Answers(r, "NoSuchJob")
    BY <1>2 DEF GetStatusId
  <2>1. ReadingType'
    BY <2>3, <2>4 DEF Reads, Answers, ReadingType, TypeOK
  <2>2. broker' \in [Messages -> {NowhereAtBroker, Ready} \union Workers]
    BY <1>2 DEF GetStatusId, Messages, TypeOK
  <2>q. QED BY <1>2, <2>1, <2>2 DEF GetStatusId, ReadingType, unread, TypeOK
<1>3. CASE IsRunning(r)
  <2>1. ReadingType'
    BY <1>3 DEF IsRunning, Reads, Answers, ReadingType, TypeOK
  <2>q. QED BY <1>3, <2>1 DEF IsRunning, ReadingType, unread, brokerVars, TypeOK
<1>4. CASE ReadFinalRes(r)
  BY <1>4 DEF ReadFinalRes, StatusOf, Reads, Answers, unread, brokerVars, TypeOK
<1>5. CASE GetStatus(r)
  BY <1>5 DEF GetStatus, Reads, Answers, unread, brokerVars, TypeOK
<1>6. CASE GetStatusFile(r)
  BY <1>j, <1>6 DEF GetStatusFile, AskedJob, Reads, Answers, unread, brokerVars, TypeOK
<1>7. CASE Kill(r)
  <2>1. BrokerType /\ ProcessType
    BY DEF BrokerType, ProcessType, TypeOK
  <2>2. BrokerType' /\ ProcessType'
    <3>1. CASE UNCHANGED <<process, brokerVars>>
      BY <2>1, <3>1 DEF brokerVars, BrokerType, ProcessType
    <3>2. ASSUME NEW w \in Workers, End(w)
          PROVE  BrokerType' /\ ProcessType'
      BY <2>1, <3>2, EndType
    <3>3. pidfile[AskedJob(r)] # NoWorker => pidfile[AskedJob(r)] \in Workers
      BY <1>j DEF AskedJob, Messages, TypeOK
    <3>q. QED BY <1>7, <3>1, <3>2, <3>3 DEF Kill
  <2>3. pidfile' \in [Messages -> Workers \union {NoWorker}] /\ ReadingType'
    BY <1>7 DEF Kill, Reads, ReadingType, TypeOK
  <2>4. UNCHANGED <<unread, services, responses, requests, asked, answer, dismissal>>
    BY <1>7 DEF Kill
  <2>q. QED BY <2>2, <2>3, <2>4 DEF unread, BrokerType, ProcessType, ReadingType, TypeOK
<1>8. CASE Remove(r)
  BY <1>8 DEF Remove, RemoveService, Reads, Answers, unread, brokerVars, TypeOK
<1>q. QED BY <1>1, <1>2, <1>3, <1>4, <1>5, <1>6, <1>7, <1>8 DEF ReaderNext

LEMMA TypeStep ==
  ASSUME TypeOK, HandInv, [Next]_vars
  PROVE  TypeOK'
<1>1. CASE \E w \in Workers, m \in Messages : Deliver(m, w)
  BY <1>1 DEF Deliver, tables, readerVars, TypeOK
<1>2. CASE UNCHANGED vars
  BY <1>2 DEF vars, brokerVars, tables, readerVars, TypeOK
<1>q. QED BY <1>1, <1>2, AcceptorType, WorkerType, ProcessNextType, FaultType, MasterType,
             ReaderType DEF Next

-----------------------------------------------------------------------------
(* The invariants.                                                         *)

(* A worker has the slot of its message from the INSERT of the slot until  *)
(* its process deletes it; nobody else has it meanwhile.                   *)
HasSlot(w) == worker[w] = "fork" \/ process[w] \in AtWork \union {"release"}
SlotInv ==
  /\ \A w \in Workers : HasSlot(w) => taken[w] \in slots
  /\ \A v, w \in Workers : HasSlot(v) /\ HasSlot(w) /\ taken[v] = taken[w] => v = w
  /\ \A w \in Workers :
       process[w] \in {"run", "unlink", "record", "unhandle", "release"}
         => runs[taken[w]] > 0

(* The broker sends one message at a time on the connection of a worker,   *)
(* that of the consumer's hand until it is acknowledged; a connection is   *)
(* that of a worker or of its process.                                     *)
Link(w) ==
  /\ acking[w] \/ Held(w) # {} => conn[w]
  /\ conn[w] => \/ worker[w] \in {"consume", "ack", "slot", "fork", "wait", "close"}
                \/ process[w] # "none"
  /\ \A m, n \in Held(w) : m = n
  /\ conn[w] /\ worker[w] = "ack" => broker[taken[w]] = w
  /\ acking[w] => worker[w] \notin {"consume", "ack"} /\ Held(w) # {}
LinkInv == \A w \in Workers : Link(w)

(* A message nobody has published: of a job, or the one of the dismissal.  *)
Unpublished(m) ==
  \/ m \in Jobs /\ sent[m] = "idle"
  \/ /\ m = Dismissal
     /\ \/ dismissal = "none"
        \/ \E r \in Clients : reading[r] = "id" /\ asked[r].op = "Dismiss"
PublishInv ==
  /\ \A m \in Messages : Unpublished(m) => broker[m] = NowhereAtBroker
  /\ \A r \in Clients : asked[r].op = "Dismiss" => dismissal # "none"
  /\ \A r, s \in Clients : asked[r].op = "Dismiss" /\ asked[s].op = "Dismiss" => r = s

(* A job is claimed once its slot was taken; the acknowledgement of a      *)
(* message is sent when a worker is about to claim the job.                *)
Claimed(m) == m \in slots \/ runs[m] > 0
LostInv ==
  "worker" \notin faults =>
    /\ \A w \in Workers : acking[w] =>
         \A m \in Held(w) : (taken[w] = m /\ worker[w] = "slot") \/ Claimed(m)
    /\ \A j \in Jobs : sent[j] \notin {"idle", "refused"} =>
         \/ broker[j] # NowhereAtBroker
         \/ \E w \in Workers : taken[w] = j /\ worker[w] = "slot"
         \/ Claimed(j)

(* As long as no acknowledgement is lost, a message is in one place: the   *)
(* broker may send it, or one worker is about to run its job.              *)
Pending(w, m) ==
  /\ taken[w] = m
  /\ worker[w] \in {"ack", "slot", "fork"} \/ process[w] \in {"fetch", "begin", "validate"}
NotBegun(m) == runs[m] = 0 /\ \A w \in Workers : ~Pending(w, m)
OnceInv ==
  faults \intersect {"connection", "worker"} = {} =>
    /\ \A m \in Messages : broker[m] = Ready \/ Unpublished(m) => NotBegun(m)
    /\ \A w \in Workers : \A m \in Held(w) :
         acking[w] \/ worker[w] = "ack" \/ NotBegun(m)
    /\ \A m \in Messages : runs[m] <= 1
    /\ \A m \in Messages, w \in Workers : Pending(w, m) => runs[m] = 0
    /\ \A m \in Messages, v, w \in Workers : Pending(v, m) /\ Pending(w, m) => v = w
    /\ \A w \in Workers : /\ worker[w] \in {"consume", "ack"} => conn[w]
                          /\ worker[w] \in {"zombie", "free"} => process[w] = "none"

(* Only recorded jobs are asked about, the acceptor of such a job is past  *)
(* its INSERT, and other tables refer to a row of services.                *)
RecordedOnce(j) == sent[j] \in {"request", "report", "answered"}
RowInv ==
  /\ \A j \in Jobs : services[j] # NoRow => RecordedOnce(j)
  /\ \A j \in Jobs : services[j] = NoRow => responses[j] = "none" /\ j \notin requests
  /\ \A r \in Clients : reading[r] # "idle" \/ answer[r] # "none" => RecordedOnce(asked[r].job)
  /\ DismissedStaysGone

-----------------------------------------------------------------------------
(* The hands of the workers.                                               *)

(* Which actions concern the workers and their processes.                  *)
Idling == UNCHANGED <<worker, taken, process, slots, runs>>

LEMMA AcceptorIdling ==
  ASSUME NEW j \in Jobs, AcceptorNext(j)
  PROVE  Idling /\ UNCHANGED <<faults, reading, asked, answer, dismissal>>
BY DEF AcceptorNext, Publish, Confirm, RecordServiceStatus, RecordRequestOf, Created,
       Idling, tables, readerVars

LEMMA ReaderIdling ==
  ASSUME NEW r \in Clients, Ask(r) \/ ReaderNext(r)
  PROVE  /\ UNCHANGED <<sent, worker, taken, slots, runs, faults>>
         /\ ~Kill(r) => Idling /\ UNCHANGED <<conn, acking>>
BY DEF ReaderNext, Ask, GetStatusId, IsRunning, ReadFinalRes, GetStatus, GetStatusFile,
       Kill, Remove, unread, brokerVars, Idling

(* Kill ends the process of a worker, or none.                             *)
LEMMA KillEnds ==
  ASSUME TypeOK, NEW r \in Clients, Kill(r)
  PROVE  \/ UNCHANGED <<process, brokerVars>>
         \/ \E w \in Workers : process[w] # "none" /\ End(w)
<1>1. pidfile[AskedJob(r)] # NoWorker => pidfile[AskedJob(r)] \in Workers
  BY DEF AskedJob, Messages, TypeOK
<1>q. QED BY <1>1 DEF Kill

LEMMA HandStep ==
  ASSUME TypeOK, HandInv, [Next]_vars
  PROVE  HandInv'
<1> USE DEF HandInv, TypeOK
<1>1. CASE Idling
  BY <1>1 DEF Idling
<1>2. ASSUME NEW w \in Workers, WorkerNext(w)
      PROVE  HandInv'
  <2>1. CASE Bind(w)  BY <2>1 DEF Bind, Step
  <2>2. CASE Consume(w)  BY <2>2 DEF Consume, Held, Step
  <2>3. CASE ConsumeFails(w)  BY <2>3 DEF ConsumeFails, Step
  <2>4. CASE Resume(w)  BY <2>4 DEF Resume, Step
  <2>5. CASE Ack(w)  BY <2>5 DEF Ack, Step
  <2>6. CASE CheckAvailableExecutionSlot(w)  BY <2>6 DEF CheckAvailableExecutionSlot, Step
  <2>7. CASE Fork(w)  BY <2>7 DEF Fork, Step, Go
  <2>8. CASE WaitForProcess(w)  BY <2>8 DEF WaitForProcess, Step
  <2>9. CASE CloseAndExit(w)  BY <2>9 DEF CloseAndExit, Step
  <2>q. QED BY <1>2, <2>1, <2>2, <2>3, <2>4, <2>5, <2>6, <2>7, <2>8, <2>9 DEF WorkerNext
<1>3. ASSUME NEW w \in Workers, ProcessNext(w)
      PROVE  HandInv'
  <2>1. UNCHANGED <<worker, taken>> /\ process[w] # "none"
    BY <1>3 DEF ProcessNext, FetchService, Begin, ValidateRequest, LoadServiceAndRun, Go,
                RemovePidFile, RecordFinalResponse, UnhandleStatus, ReleaseSlot, Leave
  <2>2. \A v \in Workers : v # w => process'[v] = process[v]
    BY <1>3 DEF ProcessNext, FetchService, Begin, ValidateRequest, LoadServiceAndRun, Go,
                RemovePidFile, RecordFinalResponse, UnhandleStatus, ReleaseSlot, Leave
  <2>q. QED BY <2>1, <2>2
<1>4. ASSUME NEW w \in Workers, UNCHANGED <<worker, taken>>,
             process' = [process EXCEPT ![w] = "none"]
      PROVE  HandInv'
  BY <1>4
<1>5. ASSUME NEW w \in Workers, Fails(w)
      PROVE  HandInv'
  <2>1. CASE LoseConnection(w)  BY <1>1, <2>1 DEF LoseConnection, Idling, tables
  <2>2. CASE WorkerDies(w)  BY <2>2 DEF WorkerDies
  <2>3. CASE ProcessDies(w)  BY <1>4, <2>3 DEF ProcessDies, End
  <2>4. CASE ForkFails(w)  BY <2>4 DEF ForkFails, Step
  <2>q. QED BY <1>5, <2>1, <2>2, <2>3, <2>4 DEF Fails
<1>6. CASE MasterNext
  <2>1. CASE MasterWaits  BY <2>1 DEF MasterWaits, Reap, Step
  <2>2. CASE MasterForks  BY <2>2 DEF MasterForks, Step
  <2>3. CASE MasterSleeps  BY <1>1, <2>3 DEF MasterSleeps, Idling, tables
  <2>q. QED BY <1>6, <2>1, <2>2, <2>3 DEF MasterNext
<1>7. ASSUME NEW r \in Clients, Ask(r) \/ ReaderNext(r)
      PROVE  HandInv'
  <2>1. CASE Kill(r)
    BY <1>1, <1>4, <1>7, <2>1, KillEnds, ReaderIdling DEF Idling, End
  <2>q. QED BY <1>1, <1>7, <2>1, ReaderIdling
<1>8. CASE \/ \E w \in Workers : HandleAck(w)
           \/ \E w \in Workers, m \in Messages : Deliver(m, w)
           \/ UNCHANGED vars
  BY <1>1, <1>8 DEF HandleAck, Deliver, vars, tables, Idling
<1>q. QED BY <1>1, <1>2, <1>3, <1>5, <1>6, <1>7, <1>8, AcceptorIdling DEF Next

-----------------------------------------------------------------------------
(* The slots.                                                              *)

(* A step after which no worker has a slot it had not keeps SlotInv, as    *)
(* long as the slots of the others stay.                                   *)
LEMMA SlotsKept ==
  ASSUME TypeOK, SlotInv,
         \A w \in Workers : HasSlot(w)' => HasSlot(w) /\ taken'[w] = taken[w],
         \A w \in Workers : HasSlot(w)' => taken[w] \in slots',
         \A w \in Workers : process'[w] \in {"run", "unlink", "record", "unhandle", "release"}
                              => runs'[taken[w]] > 0
  PROVE  SlotInv'
BY DEF SlotInv, HasSlot, AtWork

LEMMA SlotStep ==
  ASSUME TypeOK, HandInv, SlotInv, [Next]_vars
  PROVE  SlotInv'
<1> USE DEF TypeOK
<1>1. CASE Idling
  BY <1>1, SlotsKept DEF Idling, SlotInv, HasSlot
<1>2. ASSUME NEW w \in Workers, WorkerNext(w)
      PROVE  SlotInv'
  <2> USE DEF HandInv
  <2>1. CASE Bind(w)  BY <2>1 DEF Bind, Step, tables, SlotInv, HasSlot, AtWork
  <2>2. CASE Consume(w)  BY <2>2 DEF Consume, Held, Step, tables, SlotInv, HasSlot, AtWork
  <2>3. CASE ConsumeFails(w)  BY <2>3 DEF ConsumeFails, Step, tables, SlotInv, HasSlot, AtWork
  <2>4. CASE Resume(w)  BY <2>4 DEF Resume, Step, tables, SlotInv, HasSlot, AtWork
  <2>5. CASE Ack(w)
    <3>1. \A v \in Workers : HasSlot(v)' => HasSlot(v) /\ taken'[v] = taken[v]
      BY <2>5 DEF Ack, Step, HasSlot, AtWork
    <3>q. QED BY <2>5, <3>1, SlotsKept DEF Ack, tables, SlotInv
  <2>6. CASE CheckAvailableExecutionSlot(w)
    <3>1. CASE SlotFree(Job(w))
      BY <2>6, <3>1 DEF CheckAvailableExecutionSlot, SlotFree, Job, Step, SlotInv, HasSlot, AtWork
    <3>2. CASE ~SlotFree(Job(w))
      BY <2>6, <3>2 DEF CheckAvailableExecutionSlot, Step, SlotInv, HasSlot, AtWork
    <3>q. QED BY <3>1, <3>2
  <2>7. CASE Fork(w)  BY <2>7 DEF Fork, Step, Go, tables, SlotInv, HasSlot, AtWork
  <2>8. CASE WaitForProcess(w)  BY <2>8 DEF WaitForProcess, Step, tables, SlotInv, HasSlot, AtWork
  <2>9. CASE CloseAndExit(w)  BY <2>9 DEF CloseAndExit, Step, tables, SlotInv, HasSlot, AtWork
  <2>q. QED BY <1>2, <2>1, <2>2, <2>3, <2>4, <2>5, <2>6, <2>7, <2>8, <2>9 DEF WorkerNext
<1>3. ASSUME NEW w \in Workers, ProcessNext(w)
      PROVE  SlotInv'
  <2> USE DEF SlotInv, HasSlot, AtWork
  <2>1. CASE FetchService(w)  BY <2>1 DEF FetchService, Go, tables
  <2>2. CASE Begin(w)  BY <2>2 DEF Begin, Go
  <2>3. CASE ValidateRequest(w)
    <3>1. taken[w] \in Messages /\ process[w] = "validate"
      BY <2>3 DEF ValidateRequest, Go, HandInv
    <3>2. CASE process' = [process EXCEPT ![w] = "run"] /\ runs'[taken[w]] > 0
               /\ \A m \in Messages : runs[m] > 0 => runs'[m] > 0
      BY <2>3, <3>1, <3>2 DEF ValidateRequest, HandInv, tables
    <3>3. CASE process' = [process EXCEPT ![w] = "refRecord"] /\ UNCHANGED runs
      BY <2>3, <3>1, <3>3 DEF ValidateRequest, tables
    <3>4. ASSUME runs' = [runs EXCEPT ![taken[w]] = IF @ < 2 THEN @ + 1 ELSE @]
          PROVE  runs'[taken[w]] > 0 /\ \A m \in Messages : runs[m] > 0 => runs'[m] > 0
      BY <3>1, <3>4
    <3>q. QED BY <2>3, <3>2, <3>3, <3>4 DEF ValidateRequest, Go, Job
  <2>4. CASE LoadServiceAndRun(w)  BY <2>4 DEF LoadServiceAndRun, Go, tables
  <2>5. CASE RemovePidFile(w)  BY <2>5 DEF RemovePidFile, Go, tables
  <2>6. CASE RecordFinalResponse(w)  BY <2>6 DEF RecordFinalResponse, Go
  <2>7. CASE UnhandleStatus(w)  BY <2>7 DEF UnhandleStatus, Go
  <2>8. CASE ReleaseSlot(w)  BY <2>8 DEF ReleaseSlot, HandInv, Job, Go
  <2>9. CASE Leave(w)  BY <2>9 DEF Leave, Go, tables
  <2>q. QED BY <1>3, <2>1, <2>2, <2>3, <2>4, <2>5, <2>6, <2>7, <2>8, <2>9 DEF ProcessNext
<1>4. ASSUME NEW w \in Workers, UNCHANGED <<worker, taken, slots, runs>>,
             process' = [process EXCEPT ![w] = "none"]
      PROVE  SlotInv'
  BY <1>4 DEF SlotInv, HasSlot, AtWork
<1>5. ASSUME NEW w \in Workers, Fails(w)
      PROVE  SlotInv'
  <2>1. CASE LoseConnection(w)  BY <1>1, <2>1 DEF LoseConnection, Idling, tables
  <2>2. CASE WorkerDies(w)  BY <2>2 DEF WorkerDies, tables, SlotInv, HasSlot, AtWork
  <2>3. CASE ProcessDies(w)  BY <1>4, <2>3 DEF ProcessDies, End, tables
  <2>4. CASE ForkFails(w)  BY <2>4 DEF ForkFails, Step, tables, SlotInv, HasSlot, AtWork
  <2>q. QED BY <1>5, <2>1, <2>2, <2>3, <2>4 DEF Fails
<1>6. CASE MasterNext
  <2>1. CASE MasterWaits
    BY <2>1 DEF MasterWaits, Reap, Step, tables, SlotInv, HasSlot, AtWork
  <2>2. CASE MasterForks
    BY <2>2 DEF MasterForks, Step, tables, SlotInv, HasSlot, AtWork
  <2>3. CASE MasterSleeps  BY <1>1, <2>3 DEF MasterSleeps, Idling, tables
  <2>q. QED BY <1>6, <2>1, <2>2, <2>3 DEF MasterNext
<1>7. ASSUME NEW r \in Clients, Ask(r) \/ ReaderNext(r)
      PROVE  SlotInv'
  <2>1. CASE Kill(r)
    BY <1>1, <1>4, <1>7, <2>1, KillEnds, ReaderIdling DEF Idling, End
  <2>q. QED BY <1>1, <1>7, <2>1, ReaderIdling
<1>8. CASE \/ \E w \in Workers : HandleAck(w)
           \/ \E w \in Workers, m \in Messages : Deliver(m, w)
           \/ UNCHANGED vars
  BY <1>1, <1>8 DEF HandleAck, Deliver, vars, tables, Idling
<1>q. QED BY <1>1, <1>2, <1>3, <1>5, <1>6, <1>7, <1>8, AcceptorIdling DEF Next

-----------------------------------------------------------------------------
(* The tables.                                                             *)

LEMMA RowStep ==
  ASSUME TypeOK, RowInv, [Next]_vars
  PROVE  RowInv'
<1> USE DEF RowInv, RecordedOnce, DismissedStaysGone, AskedJob, TypeOK
<1>1. CASE UNCHANGED <<sent, services, responses, requests, readerVars>>
  BY <1>1 DEF readerVars
<1>2. ASSUME NEW j \in Jobs, AcceptorNext(j)
      PROVE  RowInv'
  <2>1. CASE Publish(j)
    <3>1. sent[j] = "idle" /\ \A k \in Jobs : k # j => sent'[k] = sent[k]
      BY <2>1 DEF Publish, SendTo
    <3>q. QED BY <2>1, <3>1 DEF Publish, tables, readerVars
  <2>2. CASE Confirm(j)  BY <2>2 DEF Confirm, SendTo, tables, readerVars
  <2>3. CASE RecordServiceStatus(j)
    BY <2>3 DEF RecordServiceStatus, InsertRow, SendTo, readerVars
  <2>4. CASE RecordRequestOf(j)
    BY <2>4 DEF RecordRequestOf, RecordRequest, Recorded, SendTo, readerVars
  <2>5. CASE Created(j)  BY <2>5 DEF Created, SendTo, tables, readerVars
  <2>q. QED BY <1>2, <2>1, <2>2, <2>3, <2>4, <2>5 DEF AcceptorNext
<1>3. ASSUME NEW w \in Workers, WorkerNext(w) \/ HandleAck(w) \/ Fails(w)
      PROVE  RowInv'
  BY <1>1, <1>3 DEF WorkerNext, Bind, Consume, ConsumeFails, Resume, Ack, Fork, WaitForProcess,
       CheckAvailableExecutionSlot, CloseAndExit, HandleAck, Fails, LoseConnection, WorkerDies,
       ProcessDies, ForkFails, tables
<1>4. ASSUME NEW m, NEW document \in {"started", "final"}, RecordResponse(m, document),
             UNCHANGED <<sent, services, requests, readerVars>>
      PROVE  RowInv'
  <2>1. \A j \in Jobs : responses'[j] # responses[j] => services[j] # NoRow
    BY <1>4 DEF RecordResponse, Recorded
  <2>q. QED BY <1>4, <2>1 DEF readerVars
<1>5. ASSUME NEW m, NEW state \in FinalStates, UpdateRow(m, state),
             UNCHANGED <<sent, responses, readerVars>>
      PROVE  RowInv'
  <2>1. /\ requests' \subseteq requests
        /\ \A j \in Jobs : services'[j] = NoRow <=> services[j] = NoRow
    BY <1>5 DEF UpdateRow, Recorded, FinalStates
  <2>q. QED BY <1>5, <2>1 DEF readerVars
<1>6. ASSUME NEW w \in Workers, ProcessNext(w)
      PROVE  RowInv'
  <2>1. CASE Begin(w)  BY <1>1, <1>4, <2>1 DEF Begin
  <2>2. CASE RecordFinalResponse(w)  BY <1>4, <2>2 DEF RecordFinalResponse
  <2>3. CASE UnhandleStatus(w)  BY <1>1, <1>5, <2>3 DEF UnhandleStatus, FinalStates
  <2>q. QED BY <1>1, <1>6, <2>1, <2>2, <2>3 DEF ProcessNext, FetchService, ValidateRequest,
              LoadServiceAndRun, RemovePidFile, ReleaseSlot, Leave, tables
<1>7. CASE MasterNext
  BY <1>1, <1>7 DEF MasterNext, MasterWaits, Reap, MasterForks, MasterSleeps, tables
<1>8. ASSUME NEW r \in Clients, Ask(r) \/ ReaderNext(r)
      PROVE  RowInv'
  <2>1. CASE Ask(r)  BY <2>1 DEF Ask, Recorded, Reads, Answers, unread
  <2>2. CASE GetStatusId(r)  BY <2>2 DEF GetStatusId, Recorded, Reads, Answers, unread
  <2>3. CASE IsRunning(r)  BY <2>3 DEF IsRunning, Reads, Answers, unread
  <2>4. CASE ReadFinalRes(r)  BY <2>4 DEF ReadFinalRes, StatusOf, Reads, Answers, unread
  <2>5. CASE GetStatus(r)  BY <2>5 DEF GetStatus, Recorded, Reads, Answers, unread
  <2>6. CASE GetStatusFile(r)  BY <2>6 DEF GetStatusFile, Reads, Answers, unread
  <2>7. CASE Kill(r)  BY <2>7 DEF Kill, Reads, unread
  <2>8. CASE Remove(r)  BY <2>8 DEF Remove, RemoveService, Reads, Answers, unread
  <2>q. QED BY <1>8, <2>1, <2>2, <2>3, <2>4, <2>5, <2>6, <2>7, <2>8 DEF ReaderNext
<1>9. CASE (\E w \in Workers, m \in Messages : Deliver(m, w)) \/ UNCHANGED vars
  BY <1>1, <1>9 DEF Deliver, vars, tables
<1>q. QED BY <1>2, <1>3, <1>6, <1>7, <1>8, <1>9 DEF Next

-----------------------------------------------------------------------------
(* The connections.                                                        *)

(* What the end of the connection of w does, whether the broker has its    *)
(* acknowledgement or not: w holds nothing, the others what they held.     *)
LEMMA Ends ==
  ASSUME TypeOK, NEW w \in Workers, Close(w) \/ Break(w)
  PROVE  /\ ~conn'[w] /\ ~acking'[w]
         /\ \A v \in Workers : v # w => conn'[v] = conn[v] /\ acking'[v] = acking[v]
         /\ \A m \in Messages : IF broker[m] = w THEN broker'[m] \in {NowhereAtBroker, Ready}
                                                ELSE broker'[m] = broker[m]
         /\ \A m \in Messages : broker[m] = w /\ broker'[m] = NowhereAtBroker => acking[w]
         /\ \A m \in Messages : Close(w) /\ broker[m] = w /\ acking[w]
                                => broker'[m] = NowhereAtBroker
<1>1. Closed(w)
  BY DEF Close, Break
<1>2. CASE Close(w)  BY <1>1, <1>2, NameAssumption DEF Close, Closed, TypeOK
<1>3. CASE Break(w) /\ ~Close(w)  BY <1>1, <1>3, NameAssumption DEF Break, Closed, TypeOK
<1>q. QED BY <1>2, <1>3

SameLink(v) ==
  /\ worker'[v] = worker[v] /\ taken'[v] = taken[v] /\ process'[v] = process[v]
  /\ conn'[v] = conn[v] /\ acking'[v] = acking[v]
  /\ \A m \in Messages : broker'[m] = v <=> broker[m] = v

LEMMA LinkKept ==
  ASSUME HandInv, NEW v \in Workers, Link(v), SameLink(v)
  PROVE  Link(v)'
<1>1. worker[v] = "ack" => taken[v] \in Messages
  BY DEF HandInv
<1>q. QED BY <1>1 DEF Link, Held, SameLink

(* The end of a connection keeps the links, whatever becomes of its worker *)
(* and of its process.                                                     *)
LEMMA LinkEnds ==
  ASSUME TypeOK, HandInv, LinkInv, NEW w \in Workers, Close(w) \/ Break(w),
         \A v \in Workers : v # w => /\ worker'[v] = worker[v] /\ taken'[v] = taken[v]
                                    /\ process'[v] = process[v]
  PROVE  LinkInv'
<1>1. Link(w)'
  BY Ends, NameAssumption DEF Link, Held
<1>2. ASSUME NEW v \in Workers, v # w PROVE Link(v)'
  <2>1. SameLink(v)
    BY <1>2, Ends, NameAssumption DEF SameLink
  <2>q. QED BY <2>1, LinkKept DEF LinkInv
<1>q. QED BY <1>1, <1>2 DEF LinkInv

(* A step of w that leaves its connection alone.                           *)
LEMMA LinkHeld ==
  ASSUME TypeOK, HandInv, LinkInv, NEW w \in Workers, UNCHANGED brokerVars,
         \A v \in Workers : v # w => /\ worker'[v] = worker[v] /\ taken'[v] = taken[v]
                                    /\ process'[v] = process[v],
         conn[w] => /\ worker'[w] \notin {"consume", "ack"}
                    /\ worker'[w] \in {"slot", "fork", "wait", "close"} \/ process'[w] # "none"
  PROVE  LinkInv'
<1>1. Link(w)'
  BY DEF LinkInv, Link, Held, brokerVars
<1>2. ASSUME NEW v \in Workers, v # w PROVE Link(v)'
  <2>1. SameLink(v)
    BY <1>2 DEF SameLink, brokerVars
  <2>q. QED BY <2>1, LinkKept DEF LinkInv
<1>q. QED BY <1>1, <1>2 DEF LinkInv

LEMMA LinkWorker ==
  ASSUME TypeOK, HandInv, LinkInv, NEW w \in Workers, WorkerNext(w)
  PROVE  LinkInv'
<1> USE DEF TypeOK
<1>o. \A v \in Workers : v # w => /\ worker'[v] = worker[v] /\ taken'[v] = taken[v]
                                 /\ process'[v] = process[v]
  BY DEF WorkerNext, Bind, Consume, ConsumeFails, Resume, Ack, Fork, WaitForProcess,
         CheckAvailableExecutionSlot, CloseAndExit, Step, Go
<1>l. Link(w) /\ (worker[w] \notin {"wait", "zombie", "free"} => process[w] = "none")
  BY DEF LinkInv, HandInv
<1>1. CASE Bind(w)
  <2>1. Link(w)'  BY <1>l, <1>1 DEF Bind, Step, Link, Held
  <2>2. \A v \in Workers : v # w => SameLink(v)  BY <1>o, <1>1 DEF Bind, SameLink
  <2>q. QED BY <2>1, <2>2, LinkKept DEF LinkInv
<1>2. CASE Consume(w)
  <2>1. Link(w)'  BY <1>l, <1>2 DEF Consume, Step, Link, Held, brokerVars
  <2>2. \A v \in Workers : v # w => SameLink(v)  BY <1>o, <1>2 DEF Consume, SameLink, brokerVars
  <2>q. QED BY <2>1, <2>2, LinkKept DEF LinkInv
<1>3. CASE ConsumeFails(w)  BY <1>o, <1>3, LinkHeld DEF ConsumeFails, Step
<1>4. CASE Resume(w)
  BY <1>o, <1>l, <1>4, LinkHeld DEF Resume, Step, Link
<1>5. CASE Ack(w)
  <2>1. Link(w)'
    <3>1. taken[w] \in Messages
      BY <1>5 DEF Ack, Step, HandInv
    <3>2. CASE worker'[w] = "slot" /\ acking'[w] = conn[w]
      BY <1>l, <1>5, <3>1, <3>2 DEF Ack, Step, Link, Held
    <3>3. CASE ~conn[w] /\ worker'[w] = "zombie" /\ UNCHANGED acking
      BY <1>l, <1>5, <3>3 DEF Ack, Link, Held
    <3>q. QED BY <1>5, <3>2, <3>3 DEF Ack, Step
  <2>2. \A v \in Workers : v # w => SameLink(v)  BY <1>o, <1>5 DEF Ack, SameLink
  <2>q. QED BY <2>1, <2>2, LinkKept DEF LinkInv
<1>6. CASE CheckAvailableExecutionSlot(w)
  BY <1>o, <1>6, LinkHeld DEF CheckAvailableExecutionSlot, Step
<1>7. CASE Fork(w)  BY <1>o, <1>7, LinkHeld DEF Fork, Step
<1>8. CASE WaitForProcess(w)  BY <1>o, <1>8, LinkHeld DEF WaitForProcess, Step
<1>9. CASE CloseAndExit(w)
  <2>1. CASE conn[w]  BY <1>o, <1>9, <2>1, LinkEnds DEF CloseAndExit
  <2>2. CASE ~conn[w]  BY <1>o, <1>9, <2>2, LinkHeld DEF CloseAndExit
  <2>q. QED BY <2>1, <2>2
<1>q. QED BY <1>1, <1>2, <1>3, <1>4, <1>5, <1>6, <1>7, <1>8, <1>9 DEF WorkerNext

LEMMA LinkProcess ==
  ASSUME TypeOK, HandInv, LinkInv, NEW w \in Workers, ProcessNext(w)
  PROVE  LinkInv'
<1> USE DEF TypeOK
<1>l. /\ UNCHANGED <<worker, taken>>
      /\ worker[w] \in {"wait", "zombie", "free"}
      /\ \A v \in Workers : v # w => process'[v] = process[v]
  BY DEF HandInv, ProcessNext, FetchService, Begin, ValidateRequest, LoadServiceAndRun, Go,
         RemovePidFile, RecordFinalResponse, UnhandleStatus, ReleaseSlot, Leave
<1>1. CASE Leave(w)
  <2>1. CASE conn[w]  BY <1>l, <1>1, <2>1, LinkEnds DEF Leave
  <2>2. CASE ~conn[w]  BY <1>l, <1>1, <2>2, LinkHeld DEF Leave
  <2>q. QED BY <2>1, <2>2
<1>2. CASE ~Leave(w)
  <2>1. UNCHANGED brokerVars /\ process'[w] # "none"
    BY <1>2 DEF ProcessNext, FetchService, Begin, ValidateRequest, LoadServiceAndRun, Go,
         RemovePidFile, RecordFinalResponse, UnhandleStatus, ReleaseSlot
  <2>q. QED BY <1>l, <2>1, LinkHeld
<1>q. QED BY <1>1, <1>2

(* The end of a process, whoever ends it.                                  *)
LEMMA LinkEnd ==
  ASSUME TypeOK, HandInv, LinkInv, NEW w \in Workers, process[w] # "none", End(w),
         UNCHANGED <<worker, taken>>
  PROVE  LinkInv'
<1>1. \A v \in Workers : v # w => process'[v] = process[v]
  BY DEF End, TypeOK
<1>2. CASE conn[w] /\ worker[w] \in {"zombie", "free"}
  BY <1>1, <1>2, LinkEnds DEF End
<1>3. CASE ~(conn[w] /\ worker[w] \in {"zombie", "free"})
  BY <1>1, <1>3, LinkHeld DEF End, HandInv
<1>q. QED BY <1>2, <1>3

LEMMA LinkFault ==
  ASSUME TypeOK, HandInv, LinkInv, NEW w \in Workers, HandleAck(w) \/ Fails(w)
  PROVE  LinkInv'
<1> USE DEF TypeOK
<1>l. Link(w) /\ (worker[w] \notin {"wait", "zombie", "free"} => process[w] = "none")
  BY DEF LinkInv, HandInv
<1>1. CASE HandleAck(w)
  <2>1. Link(w)'  BY <1>l, <1>1, NameAssumption DEF HandleAck, Link, Held
  <2>2. \A v \in Workers : v # w => SameLink(v)
    BY <1>1, NameAssumption DEF HandleAck, SameLink
  <2>q. QED BY <2>1, <2>2, LinkKept DEF LinkInv
<1>2. CASE LoseConnection(w)  BY <1>2, LinkEnds DEF LoseConnection
<1>3. CASE WorkerDies(w)
  <2>1. CASE conn[w] /\ process[w] = "none"
    BY <1>3, <2>1, LinkEnds DEF WorkerDies
  <2>2. CASE ~(conn[w] /\ process[w] = "none")
    BY <1>3, <2>2, LinkHeld DEF WorkerDies
  <2>q. QED BY <2>1, <2>2
<1>4. CASE ProcessDies(w)  BY <1>4, LinkEnd DEF ProcessDies
<1>5. CASE ForkFails(w)  BY <1>5, LinkHeld DEF ForkFails, Step
<1>q. QED BY <1>1, <1>2, <1>3, <1>4, <1>5 DEF Fails

LEMMA LinkMaster ==
  ASSUME TypeOK, HandInv, LinkInv, MasterNext
  PROVE  LinkInv'
<1> USE DEF TypeOK
<1>1. ASSUME NEW w \in Workers, Step(w, "zombie", "free"),
             UNCHANGED <<brokerVars, taken, process>>
      PROVE  LinkInv'
  <2>1. conn[w] => process[w] # "none"
    BY <1>1 DEF Step, LinkInv, Link
  <2>q. QED BY <1>1, <2>1, LinkHeld DEF Step
<1>2. CASE MasterForks
  <2>1. PICK w \in Workers : process[w] = "none" /\ Step(w, "free", "bind")
                             /\ taken' = [taken EXCEPT ![w] = NoMessage]
    BY <1>2 DEF MasterForks
  <2>2. ~conn[w]
    BY <2>1 DEF Step, LinkInv, Link
  <2>q. QED BY <1>2, <2>1, <2>2, LinkHeld DEF MasterForks, Step
<1>3. CASE UNCHANGED <<brokerVars, worker, taken, process>>
  <2>1. \A v \in Workers : SameLink(v)
    BY <1>3 DEF SameLink, brokerVars
  <2>q. QED BY <2>1, LinkKept DEF LinkInv
<1>q. QED BY <1>1, <1>2, <1>3 DEF MasterNext, MasterWaits, Reap, MasterSleeps

-----------------------------------------------------------------------------
(* What is published.                                                      *)

LEMMA PublishKept ==
  ASSUME PublishInv, UNCHANGED <<sent, reading, asked, dismissal>>,
         \A m \in Messages : broker[m] = NowhereAtBroker => broker'[m] = NowhereAtBroker
  PROVE  PublishInv'
BY DEF PublishInv, Unpublished

LEMMA PublishWorker ==
  ASSUME TypeOK, PublishInv, NEW w \in Workers,
         WorkerNext(w) \/ ProcessNext(w) \/ HandleAck(w) \/ Fails(w)
  PROVE  PublishInv'
<1>1. UNCHANGED <<sent, reading, asked, dismissal>>
  BY DEF WorkerNext, Bind, Consume, ConsumeFails, Resume, Ack, Fork, WaitForProcess,
         CheckAvailableExecutionSlot, CloseAndExit, ProcessNext, FetchService, Begin,
         ValidateRequest, LoadServiceAndRun, RemovePidFile, RecordFinalResponse,
         UnhandleStatus, ReleaseSlot, Leave, HandleAck, Fails, LoseConnection, WorkerDies,
         ProcessDies, ForkFails, readerVars
<1>2. UNCHANGED broker \/ Close(w) \/ Break(w) \/ HandleAck(w)
  BY DEF WorkerNext, Bind, Consume, ConsumeFails, Resume, Ack, Fork, WaitForProcess,
         CheckAvailableExecutionSlot, CloseAndExit, ProcessNext, FetchService, Begin,
         ValidateRequest, LoadServiceAndRun, RemovePidFile, RecordFinalResponse,
         UnhandleStatus, ReleaseSlot, Leave, Fails, LoseConnection, WorkerDies,
         ProcessDies, ForkFails, End, brokerVars
<1>3. \A m \in Messages : broker[m] = NowhereAtBroker => broker'[m] = NowhereAtBroker
  <2>1. CASE Close(w) \/ Break(w)  BY <2>1, Ends, NameAssumption
  <2>2. CASE HandleAck(w)  BY <2>2 DEF HandleAck
  <2>q. QED BY <1>2, <2>1, <2>2
<1>q. QED BY <1>1, <1>3, PublishKept

LEMMA PublishStep ==
  ASSUME TypeOK, PublishInv, [Next]_vars
  PROVE  PublishInv'
<1> USE DEF TypeOK
<1>1. ASSUME NEW j \in Jobs, AcceptorNext(j)
      PROVE  PublishInv'
  <2>1. UNCHANGED <<reading, asked, dismissal>>
    BY <1>1, AcceptorIdling
  <2>2. \A k \in Jobs : sent'[k] = "idle" => sent[k] = "idle" /\ k # j
    BY <1>1 DEF AcceptorNext, Publish, Confirm, RecordServiceStatus, RecordRequestOf, Created, SendTo
  <2>3. \A m \in Messages : m # j => broker'[m] = broker[m]
    BY <1>1 DEF AcceptorNext, Publish, Confirm, RecordServiceStatus, RecordRequestOf, Created,
                brokerVars
  <2>q. QED BY <2>1, <2>2, <2>3, JobAssumption DEF PublishInv, Unpublished
<1>2. ASSUME NEW r \in Clients, Ask(r)
      PROVE  PublishInv'
  <2>1. UNCHANGED <<sent, broker>> /\ reading'[r] = "id"
    BY <1>2 DEF Ask, Reads, unread, brokerVars
  <2>2. PICK j \in Jobs, o \in Ops :
          /\ o = "Dismiss" => dismissal = "none"
          /\ asked' = [asked EXCEPT ![r] = [job |-> j, op |-> o]]
          /\ dismissal' = IF o = "Dismiss" THEN j ELSE dismissal
    BY <1>2 DEF Ask
  <2>3. \A s \in Clients : s # r => asked'[s] = asked[s] /\ reading'[s] = reading[s]
    BY <1>2, <2>2 DEF Ask, Reads
  <2>4. j # "none" /\ asked'[r].op = o
    BY <2>2, NameAssumption DEF Messages
  <2>5. CASE o = "Dismiss"
    BY <2>1, <2>2, <2>3, <2>4, <2>5 DEF PublishInv, Unpublished
  <2>6. CASE o # "Dismiss"
    BY <2>1, <2>2, <2>3, <2>4, <2>6 DEF PublishInv, Unpublished
  <2>q. QED BY <2>5, <2>6
<1>3. ASSUME NEW r \in Clients, ReaderNext(r)
      PROVE  PublishInv'
  <2>1. UNCHANGED <<sent, asked, dismissal>>
    BY <1>3 DEF ReaderNext, GetStatusId, IsRunning, ReadFinalRes, GetStatus, GetStatusFile,
                Kill, Remove, unread
  <2>2. reading'[r] # "id" /\ \A s \in Clients : s # r => reading'[s] = reading[s]
    BY <1>3 DEF ReaderNext, GetStatusId, IsRunning, ReadFinalRes, GetStatus, GetStatusFile,
                Kill, Remove, Reads
  <2>3. CASE GetStatusId(r)
    <3>1. CASE UNCHANGED broker
      BY <2>1, <2>2, <3>1 DEF PublishInv, Unpublished
    <3>2. CASE asked[r].op = "Dismiss" /\ broker' = [broker EXCEPT ![Dismissal] = Ready]
      BY <2>1, <2>2, <3>2, JobAssumption DEF PublishInv, Unpublished
    <3>q. QED BY <2>3, <3>1, <3>2 DEF GetStatusId
  <2>4. CASE ~GetStatusId(r) /\ ~Kill(r)
    BY <1>3, <2>1, <2>2, <2>4 DEF ReaderNext, IsRunning, ReadFinalRes, GetStatus,
            GetStatusFile, Remove, brokerVars, PublishInv, Unpublished
  <2>5. CASE Kill(r)
    <3>1. \A m \in Messages : broker[m] = NowhereAtBroker => broker'[m] = NowhereAtBroker
      BY <2>5, KillEnds, Ends, NameAssumption DEF End, brokerVars
    <3>q. QED BY <2>1, <2>2, <3>1 DEF PublishInv, Unpublished
  <2>q. QED BY <2>3, <2>4, <2>5
<1>4. ASSUME NEW w \in Workers, NEW m \in Messages, Deliver(m, w)
      PROVE  PublishInv'
  BY <1>4, PublishKept DEF Deliver, readerVars
<1>5. CASE MasterNext \/ UNCHANGED vars
  BY <1>5, PublishKept DEF MasterNext, MasterWaits, Reap, MasterForks, MasterSleeps, vars,
       brokerVars, readerVars
<1>q. QED BY <1>1, <1>2, <1>3, <1>4, <1>5, PublishWorker DEF Next

LEMMA LinkStep ==
  ASSUME TypeOK, HandInv, LinkInv, PublishInv, [Next]_vars
  PROVE  LinkInv'
<1> USE DEF TypeOK
<1>k. ASSUME \A v \in Workers : SameLink(v) PROVE LinkInv'
  BY <1>k, LinkKept DEF LinkInv
<1>1. ASSUME NEW j \in Jobs, AcceptorNext(j)
      PROVE  LinkInv'
  <2>1. Idling /\ UNCHANGED <<conn, acking>>
    BY <1>1, AcceptorIdling DEF AcceptorNext, Publish, Confirm, RecordServiceStatus,
            RecordRequestOf, Created, brokerVars
  <2>2. \/ UNCHANGED broker
        \/ broker[j] = NowhereAtBroker /\ broker' = [broker EXCEPT ![j] = Ready]
    BY <1>1 DEF AcceptorNext, Publish, Confirm, RecordServiceStatus, RecordRequestOf, Created,
                SendTo, brokerVars, PublishInv, Unpublished, Messages
  <2>q. QED BY <2>1, <2>2, <1>k, NameAssumption DEF SameLink, Idling
<1>2. ASSUME NEW r \in Clients, Ask(r) \/ ReaderNext(r), ~Kill(r)
      PROVE  LinkInv'
  <2>1. Idling /\ UNCHANGED <<conn, acking>>
    BY <1>2, ReaderIdling
  <2>2. \/ UNCHANGED broker
        \/ broker[Dismissal] = NowhereAtBroker /\ broker' = [broker EXCEPT ![Dismissal] = Ready]
    <3>1. CASE GetStatusId(r)
      <4>1. asked[r].op = "Dismiss" => broker[Dismissal] = NowhereAtBroker
        BY <3>1 DEF GetStatusId, Reads, PublishInv, Unpublished, Messages
      <4>q. QED BY <3>1, <4>1 DEF GetStatusId
    <3>2. CASE ~GetStatusId(r)
      BY <1>2, <3>2 DEF Ask, ReaderNext, IsRunning, ReadFinalRes, GetStatus, GetStatusFile,
                        Remove, brokerVars
    <3>q. QED BY <3>1, <3>2
  <2>q. QED BY <2>1, <2>2, <1>k, NameAssumption DEF SameLink, Idling
<1>3. ASSUME NEW r \in Clients, Kill(r)
      PROVE  LinkInv'
  <2>1. UNCHANGED <<worker, taken>>
    BY <1>3 DEF Kill, unread
  <2>2. CASE UNCHANGED <<process, brokerVars>>
    BY <2>1, <2>2, <1>k DEF SameLink, brokerVars
  <2>q. QED BY <1>3, <2>1, <2>2, KillEnds, LinkEnd
<1>4. ASSUME NEW w \in Workers, NEW m \in Messages, Deliver(m, w)
      PROVE  LinkInv'
  <2>1. \A n \in Messages : IF n = m THEN broker[n] = Ready /\ broker'[n] = w
                                      ELSE broker'[n] = broker[n] /\ broker[n] # w
    BY <1>4 DEF Deliver, Held
  <2>2. conn[w] /\ UNCHANGED <<worker, taken, process, conn, acking>>
    BY <1>4 DEF Deliver
  <2>3. worker[w] # "ack" /\ ~acking[w]
    BY <2>1, <2>2, NameAssumption DEF LinkInv, Link, Held, HandInv
  <2>4. Link(w)'
    BY <2>1, <2>2, <2>3 DEF LinkInv, Link, Held
  <2>5. \A v \in Workers : v # w => SameLink(v)
    BY <2>1, <2>2, NameAssumption DEF SameLink
  <2>q. QED BY <2>4, <2>5, LinkKept DEF LinkInv
<1>5. CASE UNCHANGED vars
  BY <1>5, <1>k DEF vars, brokerVars, SameLink
<1>q. QED BY <1>1, <1>2, <1>3, <1>4, <1>5, LinkWorker, LinkProcess, LinkFault, LinkMaster DEF Next

-----------------------------------------------------------------------------
(* Nothing that was claimed or published is taken back.                    *)

LEMMA ClaimedStays ==
  ASSUME TypeOK, HandInv, SlotInv, [Next]_vars, NEW m \in Messages, Claimed(m)
  PROVE  Claimed(m)'
<1> USE DEF TypeOK, Claimed
<1>k. ASSUME slots \subseteq slots', UNCHANGED runs PROVE Claimed(m)'
  BY <1>k
<1>1. CASE Idling
  BY <1>1 DEF Idling
<1>2. ASSUME NEW w \in Workers, WorkerNext(w) \/ HandleAck(w) \/ Fails(w)
      PROVE  Claimed(m)'
  BY <1>2, <1>k DEF WorkerNext, Bind, Consume, ConsumeFails, Resume, Ack, Fork, WaitForProcess,
         CheckAvailableExecutionSlot, CloseAndExit, HandleAck, Fails, LoseConnection, WorkerDies,
         ProcessDies, ForkFails, tables
<1>3. ASSUME NEW w \in Workers, ProcessNext(w)
      PROVE  Claimed(m)'
  <2>1. CASE ValidateRequest(w)
    <3>1. taken[w] \in Messages
      BY <2>1 DEF ValidateRequest, Go, HandInv
    <3>2. runs' = runs \/ runs' = [runs EXCEPT ![taken[w]] = IF @ < 2 THEN @ + 1 ELSE @]
      BY <2>1 DEF ValidateRequest, Job
    <3>q. QED BY <2>1, <3>1, <3>2 DEF ValidateRequest, tables
  <2>2. CASE ReleaseSlot(w)
    BY <2>2 DEF ReleaseSlot, Go, Job, SlotInv
  <2>3. CASE ~ValidateRequest(w) /\ ~ReleaseSlot(w)
    BY <1>3, <1>k, <2>3 DEF ProcessNext, FetchService, Begin, LoadServiceAndRun, RemovePidFile,
         RecordFinalResponse, UnhandleStatus, Leave, tables
  <2>q. QED BY <2>1, <2>2, <2>3
<1>4. ASSUME NEW r \in Clients, Ask(r) \/ ReaderNext(r)
      PROVE  Claimed(m)'
  BY <1>4, <1>k, ReaderIdling
<1>5. CASE MasterNext \/ (\E w \in Workers, n \in Messages : Deliver(n, w)) \/ UNCHANGED vars
  BY <1>5, <1>k DEF MasterNext, MasterWaits, Reap, MasterForks, MasterSleeps, Deliver, vars, tables
<1>q. QED BY <1>1, <1>2, <1>3, <1>4, <1>5, AcceptorIdling DEF Next

LEMMA UnpublishedBefore ==
  ASSUME TypeOK, PublishInv, [Next]_vars, NEW m \in Messages, Unpublished(m)'
  PROVE  Unpublished(m)
<1> USE DEF TypeOK, Unpublished
<1>k. ASSUME UNCHANGED <<sent, asked, dismissal>>,
             \A r \in Clients : reading'[r] = "id" => reading[r] = "id"
      PROVE  Unpublished(m)
  BY <1>k
<1>1. ASSUME NEW j \in Jobs, AcceptorNext(j)
      PROVE  Unpublished(m)
  <2>1. \A k \in Jobs : sent'[k] = "idle" => sent[k] = "idle"
    BY <1>1 DEF AcceptorNext, Publish, Confirm, RecordServiceStatus, RecordRequestOf, Created, SendTo
  <2>q. QED BY <1>1, <2>1, AcceptorIdling
<1>2. ASSUME NEW w \in Workers,
             WorkerNext(w) \/ ProcessNext(w) \/ HandleAck(w) \/ Fails(w)
      PROVE  Unpublished(m)
  BY <1>2, <1>k DEF WorkerNext, Bind, Consume, ConsumeFails, Resume, Ack, Fork, WaitForProcess,
         CheckAvailableExecutionSlot, CloseAndExit, ProcessNext, FetchService, Begin,
         ValidateRequest, LoadServiceAndRun, RemovePidFile, RecordFinalResponse,
         UnhandleStatus, ReleaseSlot, Leave, HandleAck, Fails, LoseConnection, WorkerDies,
         ProcessDies, ForkFails, readerVars
<1>3. ASSUME NEW r \in Clients, Ask(r)
      PROVE  Unpublished(m)
  <2>1. PICK j \in Jobs, o \in Ops :
          /\ o = "Dismiss" => dismissal = "none"
          /\ asked' = [asked EXCEPT ![r] = [job |-> j, op |-> o]]
          /\ dismissal' = IF o = "Dismiss" THEN j ELSE dismissal
    BY <1>3 DEF Ask
  <2>2. UNCHANGED sent /\ \A s \in Clients : s # r => /\ asked'[s] = asked[s]
                                                   /\ reading'[s] = reading[s]
    BY <1>3, <2>1 DEF Ask, Reads, unread
  <2>3. asked'[r].op = o
    BY <2>1
  <2>q. QED BY <2>1, <2>2, <2>3
<1>4. ASSUME NEW r \in Clients, ReaderNext(r)
      PROVE  Unpublished(m)
  <2>1. UNCHANGED <<sent, asked, dismissal>>
    BY <1>4 DEF ReaderNext, GetStatusId, IsRunning, ReadFinalRes, GetStatus, GetStatusFile,
                Kill, Remove, unread
  <2>2. reading'[r] # "id" /\ \A s \in Clients : s # r => reading'[s] = reading[s]
    BY <1>4 DEF ReaderNext, GetStatusId, IsRunning, ReadFinalRes, GetStatus, GetStatusFile,
                Kill, Remove, Reads
  <2>q. QED BY <1>k, <2>1, <2>2
<1>5. CASE MasterNext \/ (\E w \in Workers, n \in Messages : Deliver(n, w)) \/ UNCHANGED vars
  BY <1>5, <1>k DEF MasterNext, MasterWaits, Reap, MasterForks, MasterSleeps, Deliver, vars,
       readerVars
<1>q. QED BY <1>1, <1>2, <1>3, <1>4, <1>5 DEF Next

-----------------------------------------------------------------------------
(* No message is lost.                                                     *)

About(v, m) == taken[v] = m /\ worker[v] = "slot"    \* v is about to claim m

LEMMA LostKept ==
  ASSUME TypeOK, TypeOK', LostInv, faults \subseteq faults',
         \A m \in Messages : Claimed(m) => Claimed(m)',
         \A v \in Workers : acking'[v] => \A m \in Messages : broker'[m] = v =>
           About(v, m)' \/ (acking[v] /\ broker[m] = v),
         \A v \in Workers, m \in Messages : About(v, m) => About(v, m)' \/ Claimed(m)',
         \A m \in Messages : broker'[m] = NowhereAtBroker =>
           \/ broker[m] = NowhereAtBroker
           \/ \E v \in Workers : acking[v] /\ broker[m] = v,
         \A j \in Jobs : sent'[j] \notin {"idle", "refused"} =>
           sent[j] \notin {"idle", "refused"} \/ broker'[j] # NowhereAtBroker
  PROVE  LostInv'
<1> SUFFICES ASSUME "worker" \notin faults' PROVE LostInv'
  BY DEF LostInv
<1>1. "worker" \notin faults
  OBVIOUS
<1>2. ASSUME NEW v \in Workers, acking'[v], NEW m \in Messages, broker'[m] = v
      PROVE  About(v, m)' \/ Claimed(m)'
  BY <1>1, <1>2 DEF LostInv, Held, About
<1>3. ASSUME NEW j \in Jobs, sent'[j] \notin {"idle", "refused"}, broker'[j] = NowhereAtBroker,
             ~Claimed(j)'
      PROVE  \E w \in Workers : About(w, j)'
  <2>1. j \in Messages
    BY DEF Messages
  <2>2. sent[j] \notin {"idle", "refused"} /\ ~Claimed(j)
    BY <1>3, <2>1
  <2>3. \E w \in Workers : About(w, j)
    BY <1>1, <1>3, <2>1, <2>2 DEF LostInv, Held, About
  <2>q. QED BY <1>3, <2>1, <2>3
<1>q. QED BY <1>2, <1>3 DEF LostInv, Held, About

LEMMA LostStep ==
  ASSUME TypeOK, HandInv, SlotInv, LinkInv, PublishInv, LostInv, [Next]_vars
  PROVE  LostInv'
<1> USE DEF TypeOK
<1>t. TypeOK'
  BY TypeStep
<1>c. \A m \in Messages : Claimed(m) => Claimed(m)'
  BY ClaimedStays
<1>h. ASSUME UNCHANGED <<broker, acking, sent>>, faults \subseteq faults',
             \A v \in Workers, m \in Messages : About(v, m) => About(v, m)' \/ Claimed(m)'
      PROVE  LostInv'
  BY <1>t, <1>c, <1>h, LostKept
<1>e. ASSUME NEW w \in Workers, Close(w) \/ Break(w), UNCHANGED sent, faults \subseteq faults',
             \A v \in Workers, m \in Messages : About(v, m) => About(v, m)'
      PROVE  LostInv'
  <2>1. \A v \in Workers : acking'[v] => \A m \in Messages : broker'[m] = v =>
           acking[v] /\ broker[m] = v
    BY <1>e, Ends, NameAssumption
  <2>2. \A m \in Messages : broker'[m] = NowhereAtBroker =>
           broker[m] = NowhereAtBroker \/ (acking[w] /\ broker[m] = w)
    BY <1>e, Ends, NameAssumption
  <2>q. QED BY <1>t, <1>c, <1>e, <2>1, <2>2, LostKept
<1>1. ASSUME NEW j \in Jobs, AcceptorNext(j)
      PROVE  LostInv'
  <2>1. Idling /\ UNCHANGED <<faults, acking>>
    BY <1>1, AcceptorIdling DEF AcceptorNext, Publish, Confirm, RecordServiceStatus,
            RecordRequestOf, Created, brokerVars
  <2>2. \A v \in Workers, m \in Messages : About(v, m) => About(v, m)'
    BY <2>1 DEF Idling, About
  <2>3. CASE broker' = [broker EXCEPT ![j] = Ready] /\ SendTo(j, "idle", "confirm")
    <3>1. \A m \in Messages : IF m = j THEN broker'[m] = Ready ELSE broker'[m] = broker[m]
      BY <2>3
    <3>2. \A k \in Jobs : k # j => sent'[k] = sent[k]
      BY <2>3 DEF SendTo
    <3>q. QED BY <1>t, <1>c, <2>1, <2>2, <3>1, <3>2, NameAssumption, LostKept DEF Messages
  <2>4. CASE UNCHANGED broker /\ \A k \in Jobs : sent'[k] \notin {"idle", "refused"}
                                                => sent[k] \notin {"idle", "refused"}
    BY <1>t, <1>c, <2>1, <2>2, <2>4, LostKept
  <2>5. CASE UNCHANGED broker /\ SendTo(j, "idle", "refused")
    BY <2>4, <2>5 DEF SendTo
  <2>6. ASSUME NEW from \in {"confirm", "insert", "request", "report"}, NEW to,
               SendTo(j, from, to), UNCHANGED broker
        PROVE  LostInv'
    BY <2>4, <2>6 DEF SendTo
  <2>q. QED BY <1>1, <2>3, <2>5, <2>6 DEF AcceptorNext, Publish, Confirm, RecordServiceStatus,
              RecordRequestOf, Created, brokerVars
<1>2. ASSUME NEW w \in Workers, WorkerNext(w)
      PROVE  LostInv'
  <2>1. UNCHANGED <<sent, faults>>
    BY <1>2 DEF WorkerNext, Bind, Consume, ConsumeFails, Resume, Ack, Fork, WaitForProcess,
         CheckAvailableExecutionSlot, CloseAndExit
  <2>2. \A v \in Workers : v # w => worker'[v] = worker[v] /\ taken'[v] = taken[v]
    BY <1>2 DEF WorkerNext, Bind, Consume, ConsumeFails, Resume, Ack, Fork, WaitForProcess,
         CheckAvailableExecutionSlot, CloseAndExit, Step
  <2>3. CASE worker[w] # "slot"
    <3>1. \A v \in Workers, m \in Messages : About(v, m) => About(v, m)'
      BY <2>2, <2>3 DEF About
    <3>2. CASE Ack(w)
      <4>1. UNCHANGED broker /\ \A v \in Workers : v # w => acking'[v] = acking[v]
        BY <3>2 DEF Ack
      <4>2. acking'[w] => acking[w] \/ (worker[w] = "ack" /\ worker'[w] = "slot"
                                        /\ conn[w] /\ taken'[w] = taken[w])
        BY <3>2 DEF Ack, Step
      <4>3. worker[w] = "ack" /\ conn[w] => \A m \in Messages : broker[m] = w => taken[w] = m
        BY DEF LinkInv, Link, Held, HandInv
      <4>q. QED BY <1>t, <1>c, <2>1, <3>1, <4>1, <4>2, <4>3, LostKept DEF About
    <3>3. CASE CloseAndExit(w)
      BY <1>e, <1>h, <2>1, <3>1, <3>3 DEF CloseAndExit, brokerVars
    <3>q. QED BY <1>2, <1>h, <2>1, <2>3, <3>1, <3>2, <3>3 DEF WorkerNext, Bind, Consume,
                ConsumeFails, Resume, Fork, WaitForProcess, CheckAvailableExecutionSlot,
                Step, brokerVars
  <2>4. CASE CheckAvailableExecutionSlot(w)
    <3>1. taken[w] \in slots'
      BY <2>4 DEF CheckAvailableExecutionSlot, SlotFree, Job
    <3>2. \A v \in Workers, m \in Messages : About(v, m) => About(v, m)' \/ Claimed(m)'
      BY <2>2, <3>1 DEF About, Claimed
    <3>q. QED BY <1>h, <2>1, <2>4, <3>2 DEF CheckAvailableExecutionSlot, brokerVars
  <2>q. QED BY <1>2, <2>3, <2>4 DEF WorkerNext, Bind, Consume, ConsumeFails, Resume, Ack, Fork,
              WaitForProcess, CloseAndExit, Step
<1>3. ASSUME NEW w \in Workers, ProcessNext(w)
      PROVE  LostInv'
  <2>1. UNCHANGED <<sent, faults, worker, taken>>
    BY <1>3 DEF ProcessNext, FetchService, Begin, ValidateRequest, LoadServiceAndRun,
         RemovePidFile, RecordFinalResponse, UnhandleStatus, ReleaseSlot, Leave
  <2>2. \A v \in Workers, m \in Messages : About(v, m) => About(v, m)'
    BY <2>1 DEF About
  <2>3. UNCHANGED brokerVars \/ Close(w)
    BY <1>3 DEF ProcessNext, FetchService, Begin, ValidateRequest, LoadServiceAndRun,
         RemovePidFile, RecordFinalResponse, UnhandleStatus, ReleaseSlot, Leave
  <2>q. QED BY <1>e, <1>h, <2>1, <2>2, <2>3 DEF brokerVars
<1>4. ASSUME NEW w \in Workers, End(w), UNCHANGED <<sent, worker, taken>>, faults \subseteq faults'
      PROVE  LostInv'
  <2>1. \A v \in Workers, m \in Messages : About(v, m) => About(v, m)'
    BY <1>4 DEF About
  <2>q. QED BY <1>e, <1>h, <1>4, <2>1 DEF End, brokerVars
<1>5. ASSUME NEW w \in Workers, Fails(w)
      PROVE  LostInv'
  <2>1. CASE LoseConnection(w)
    <3>1. \A v \in Workers, m \in Messages : About(v, m) => About(v, m)'
      BY <2>1 DEF LoseConnection, About
    <3>q. QED BY <1>e, <2>1, <3>1 DEF LoseConnection, Fault
  <2>2. CASE WorkerDies(w)
    <3>1. "worker" \in faults'
      BY <2>2 DEF WorkerDies, Fault
    <3>q. QED BY <3>1 DEF LostInv
  <2>3. CASE ProcessDies(w)
    BY <1>4, <2>3 DEF ProcessDies, Fault
  <2>4. CASE ForkFails(w)
    <3>1. \A v \in Workers, m \in Messages : About(v, m) => About(v, m)'
      BY <2>4 DEF ForkFails, Step, About
    <3>q. QED BY <1>h, <2>4, <3>1 DEF ForkFails, Fault, brokerVars
  <2>q. QED BY <1>5, <2>1, <2>2, <2>3, <2>4 DEF Fails
<1>6. ASSUME NEW w \in Workers, HandleAck(w)
      PROVE  LostInv'
  <2>1. \A v \in Workers, m \in Messages : About(v, m) => About(v, m)'
    BY <1>6 DEF HandleAck, About
  <2>2. \A m \in Messages : IF broker[m] = w THEN broker'[m] = NowhereAtBroker
                                            ELSE broker'[m] = broker[m]
    BY <1>6 DEF HandleAck
  <2>3. acking[w] /\ ~acking'[w] /\ \A v \in Workers : v # w => acking'[v] = acking[v]
    BY <1>6 DEF HandleAck
  <2>4. UNCHANGED <<sent, faults>>
    BY <1>6 DEF HandleAck
  <2>q. QED BY <1>t, <1>c, <2>1, <2>2, <2>3, <2>4, NameAssumption, LostKept
<1>7. ASSUME NEW w \in Workers, NEW n \in Messages, Deliver(n, w)
      PROVE  LostInv'
  <2>1. \A v \in Workers, m \in Messages : About(v, m) => About(v, m)'
    BY <1>7 DEF Deliver, About
  <2>2. \A m \in Messages : broker'[m] = IF m = n THEN w ELSE broker[m]
    BY <1>7 DEF Deliver
  <2>3. ~acking[w]
    BY <1>7 DEF Deliver, LinkInv, Link
  <2>4. UNCHANGED <<sent, faults, acking>>
    BY <1>7 DEF Deliver
  <2>q. QED BY <1>t, <1>c, <2>1, <2>2, <2>3, <2>4, NameAssumption, LostKept
<1>8. CASE MasterNext
  <2>1. UNCHANGED <<brokerVars, sent, faults>>
    BY <1>8 DEF MasterNext, MasterWaits, Reap, MasterForks, MasterSleeps
  <2>2. \A v \in Workers, m \in Messages : About(v, m) => About(v, m)'
    BY <1>8 DEF MasterNext, MasterWaits, Reap, MasterForks, MasterSleeps, Step, About
  <2>q. QED BY <1>h, <2>1, <2>2 DEF brokerVars
<1>9. ASSUME NEW r \in Clients, Ask(r) \/ ReaderNext(r)
      PROVE  LostInv'
  <2>1. UNCHANGED <<sent, worker, taken, slots, runs, faults>>
    BY <1>9, ReaderIdling
  <2>2. \A v \in Workers, m \in Messages : About(v, m) => About(v, m)'
    BY <2>1 DEF About
  <2>3. CASE Kill(r)
    BY <1>4, <1>h, <2>1, <2>2, <2>3, KillEnds DEF brokerVars
  <2>4. CASE GetStatusId(r) /\ ~UNCHANGED broker
    <3>1. UNCHANGED acking /\ \A m \in Messages : broker'[m] \in {Ready, broker[m]}
      BY <2>4 DEF GetStatusId
    <3>q. QED BY <1>t, <1>c, <2>1, <2>2, <3>1, NameAssumption, LostKept
  <2>5. CASE UNCHANGED <<broker, acking>>
    BY <1>h, <2>1, <2>2, <2>5
  <2>q. QED BY <1>9, <2>3, <2>4, <2>5 DEF ReaderNext, Ask, GetStatusId, IsRunning, ReadFinalRes,
              GetStatus, GetStatusFile, Remove, brokerVars
<1>10. CASE UNCHANGED vars
  BY <1>h, <1>10 DEF vars, brokerVars, About
<1>q. QED BY <1>1, <1>2, <1>3, <1>5, <1>6, <1>7, <1>8, <1>9, <1>10 DEF Next

-----------------------------------------------------------------------------
(* No message is consumed twice.                                           *)

Lossless == faults \intersect {"connection", "worker"} = {}

(* Where a message may be, as long as no acknowledgement is lost.          *)
OnceHeld ==
  /\ \A m \in Messages : broker[m] = Ready \/ Unpublished(m) => NotBegun(m)
  /\ \A w \in Workers, m \in Messages : broker[m] = w =>
       acking[w] \/ worker[w] = "ack" \/ NotBegun(m)
OnceRun ==
  /\ \A m \in Messages : runs[m] <= 1
  /\ \A m \in Messages, w \in Workers : Pending(w, m) => runs[m] = 0
  /\ \A m \in Messages, v, w \in Workers : Pending(v, m) /\ Pending(w, m) => v = w
OnceAlive ==
  \A w \in Workers : /\ worker[w] \in {"consume", "ack"} => conn[w]
                     /\ worker[w] \in {"zombie", "free"} => process[w] = "none"

LEMMA OnceParts ==
  /\ OnceInv <=> (Lossless => OnceHeld /\ OnceRun /\ OnceAlive)
  /\ OnceInv' <=> (Lossless' => OnceHeld' /\ OnceRun' /\ OnceAlive')
BY DEF OnceInv, Lossless, OnceHeld, OnceRun, OnceAlive, Held

(* A step that begins nothing.                                             *)
LEMMA OnceKept ==
  ASSUME TypeOK, PublishInv, [Next]_vars, OnceHeld, OnceRun, UNCHANGED runs,
         \A v \in Workers, m \in Messages : Pending(v, m)' => Pending(v, m),
         \A m \in Messages : broker'[m] = Ready => NotBegun(m),
         \A v \in Workers, m \in Messages : broker'[m] = v =>
           acking'[v] \/ worker'[v] = "ack" \/ NotBegun(m)
  PROVE  OnceHeld' /\ OnceRun'
<1>1. \A m \in Messages : NotBegun(m) => NotBegun(m)'
  BY DEF NotBegun
<1>2. \A m \in Messages : Unpublished(m)' => NotBegun(m)
  BY UnpublishedBefore DEF OnceHeld
<1>3. OnceHeld'
  BY <1>1, <1>2 DEF OnceHeld
<1>4. OnceRun'
  BY DEF OnceRun
<1>q. QED BY <1>3, <1>4

(* A step on which the broker and the acknowledgements stay as they are.   *)
LEMMA OnceSame ==
  ASSUME TypeOK, PublishInv, [Next]_vars, OnceHeld, OnceRun, UNCHANGED <<runs, broker, acking>>,
         \A v \in Workers : worker[v] = "ack" => worker'[v] = "ack",
         \A v \in Workers, m \in Messages : Pending(v, m)' => Pending(v, m)
  PROVE  OnceHeld' /\ OnceRun'
<1>1. \A m \in Messages : broker'[m] = Ready => NotBegun(m)
  BY DEF OnceHeld
<1>2. \A v \in Workers, m \in Messages : broker'[m] = v =>
        acking'[v] \/ worker'[v] = "ack" \/ NotBegun(m)
  BY DEF OnceHeld
<1>q. QED BY <1>1, <1>2, OnceKept

(* A worker or its process closes the connection after the acknowledgement.*)
LEMMA OnceClose ==
  ASSUME TypeOK, PublishInv, [Next]_vars, OnceHeld, OnceRun, UNCHANGED runs,
         NEW w \in Workers, Close(w), worker[w] # "ack",
         \A v \in Workers : worker[v] = "ack" => worker'[v] = "ack",
         \A v \in Workers, m \in Messages : Pending(v, m)' => Pending(v, m)
  PROVE  OnceHeld' /\ OnceRun'
<1>1. \A m \in Messages : broker'[m] = Ready => NotBegun(m)
  BY Ends, NameAssumption DEF OnceHeld
<1>2. \A v \in Workers, m \in Messages : broker'[m] = v =>
        acking'[v] \/ worker'[v] = "ack" \/ NotBegun(m)
  BY Ends, NameAssumption DEF OnceHeld
<1>q. QED BY <1>1, <1>2, OnceKept

LEMMA OnceWorker ==
  ASSUME TypeOK, HandInv, LinkInv, PublishInv, OnceHeld, OnceRun, OnceAlive, [Next]_vars,
         NEW w \in Workers, WorkerNext(w)
  PROVE  OnceHeld' /\ OnceRun' /\ OnceAlive'
<1> USE DEF TypeOK
<1>o. \A v \in Workers : v # w => /\ worker'[v] = worker[v] /\ taken'[v] = taken[v]
                                 /\ process'[v] = process[v] /\ conn'[v] = conn[v]
                                 /\ acking'[v] = acking[v]
  BY DEF WorkerNext, Bind, Consume, ConsumeFails, Resume, Ack, Fork, WaitForProcess, Closed, Close,
         CheckAvailableExecutionSlot, CloseAndExit, Step, Go, brokerVars
<1>r. UNCHANGED runs
  BY DEF WorkerNext, Bind, Consume, ConsumeFails, Resume, Ack, Fork, WaitForProcess,
         CheckAvailableExecutionSlot, CloseAndExit
<1>l. Link(w) /\ (worker[w] \notin {"wait", "zombie", "free"} => process[w] = "none")
  BY DEF LinkInv, HandInv
<1>1. CASE Bind(w)
  <2>1. OnceAlive'
    BY <1>o, <1>l, <1>1 DEF Bind, Step, OnceAlive
  <2>2. \A v \in Workers, m \in Messages : Pending(v, m)' => Pending(v, m)
    BY <1>o, <1>1 DEF Bind, Step, Pending
  <2>q. QED BY <1>r, <1>o, <1>1, <2>1, <2>2, OnceSame DEF Bind, Step
<1>2. CASE Consume(w)
  <2>1. PICK m \in Messages : broker[m] = w /\ taken' = [taken EXCEPT ![w] = m]
    BY <1>2 DEF Consume, Held
  <2>2. NotBegun(m) /\ \A n \in Messages : broker[n] = w => n = m
    BY <1>l, <1>2, <2>1 DEF Consume, Step, Link, Held, OnceHeld
  <2>3. UNCHANGED <<broker, conn, acking, process>> /\ worker'[w] = "ack" /\ taken'[w] = m
    BY <1>2, <2>1 DEF Consume, Step, brokerVars
  <2>4. OnceAlive'
    BY <1>o, <1>2, <2>3 DEF Consume, OnceAlive
  <2>5. \A n \in Messages, v \in Workers : Pending(v, n)' => Pending(v, n) \/ (v = w /\ n = m)
    BY <1>o, <2>3 DEF Pending
  <2>6. OnceRun'
    BY <1>r, <2>2, <2>5 DEF OnceRun, NotBegun
  <2>7. \A n \in Messages : n # m /\ NotBegun(n) => NotBegun(n)'
    BY <1>r, <2>5 DEF NotBegun
  <2>8. ~Unpublished(m) /\ \A n \in Messages : Unpublished(n)' => Unpublished(n)
    BY <2>1, UnpublishedBefore, NameAssumption DEF PublishInv
  <2>9. OnceHeld'
    <3>1. broker[m] # Ready
      BY <2>1, NameAssumption
    <3>2. \A n \in Messages : broker'[n] = Ready \/ Unpublished(n)' => NotBegun(n)'
      BY <2>3, <2>7, <2>8, <3>1 DEF OnceHeld
    <3>3. ASSUME NEW v \in Workers, NEW n \in Messages, broker'[n] = v
          PROVE  acking'[v] \/ worker'[v] = "ack" \/ NotBegun(n)'
      BY <1>o, <2>1, <2>3, <2>7, <3>3 DEF OnceHeld
    <3>q. QED BY <3>2, <3>3 DEF OnceHeld
  <2>q. QED BY <2>4, <2>6, <2>9
<1>3. CASE ConsumeFails(w)
  BY <1>3 DEF ConsumeFails, Step, OnceAlive
<1>4. CASE Ack(w)
  <2>1. conn[w] /\ worker[w] = "ack"
    BY <1>4 DEF Ack, Step, OnceAlive
  <2>2. acking'[w] /\ worker'[w] = "slot" /\ UNCHANGED <<broker, conn, taken, process>>
    BY <1>4, <2>1 DEF Ack, Step
  <2>3. OnceAlive'
    BY <1>o, <2>2 DEF OnceAlive
  <2>4. \A v \in Workers, m \in Messages : Pending(v, m)' => Pending(v, m)
    BY <1>o, <2>1, <2>2 DEF Pending
  <2>5. \A m \in Messages : broker'[m] = Ready => NotBegun(m)
    BY <2>2 DEF OnceHeld
  <2>6. \A v \in Workers, m \in Messages : broker'[m] = v =>
           acking'[v] \/ worker'[v] = "ack" \/ NotBegun(m)
    BY <1>o, <2>2 DEF OnceHeld
  <2>q. QED BY <1>r, <2>3, <2>4, <2>5, <2>6, OnceKept
<1>5. CASE worker[w] \in {"pause", "slot", "fork", "wait"}
  <2>1. UNCHANGED <<broker, conn, acking, taken>> /\ worker'[w] \in {"bind", "fork", "close", "wait"}
    BY <1>5 DEF WorkerNext, Bind, Consume, ConsumeFails, Resume, Ack, Fork, WaitForProcess,
         CheckAvailableExecutionSlot, CloseAndExit, Step, brokerVars
  <2>2. OnceAlive'
    BY <1>o, <2>1 DEF OnceAlive
  <2>3. Fork(w) \/ UNCHANGED process
    BY <1>5 DEF WorkerNext, Bind, Consume, ConsumeFails, Resume, Ack, WaitForProcess,
         CheckAvailableExecutionSlot, CloseAndExit, Step
  <2>4. worker'[w] = "fork" => worker[w] = "slot"
    BY <1>5 DEF WorkerNext, Bind, Consume, ConsumeFails, Resume, Ack, WaitForProcess, Fork,
         CheckAvailableExecutionSlot, CloseAndExit, Step
  <2>5. \A v \in Workers, m \in Messages : Pending(v, m)' => Pending(v, m)
    <3>1. CASE Fork(w)  BY <1>o, <2>1, <2>4, <3>1 DEF Fork, Step, Pending
    <3>2. CASE UNCHANGED process  BY <1>o, <2>1, <2>4, <3>2 DEF Pending
    <3>q. QED BY <2>3, <3>1, <3>2
  <2>q. QED BY <1>o, <1>r, <1>5, <2>1, <2>2, <2>5, OnceSame
<1>6. CASE CloseAndExit(w)
  <2>1. worker[w] = "close" /\ worker'[w] = "zombie" /\ process[w] = "none" /\ UNCHANGED process
    BY <1>l, <1>6 DEF CloseAndExit, Step
  <2>2. OnceAlive'
    BY <1>o, <2>1 DEF OnceAlive
  <2>3. \A v \in Workers, m \in Messages : Pending(v, m)' => Pending(v, m)
    BY <1>o, <2>1 DEF Pending
  <2>4. \A v \in Workers : worker[v] = "ack" => worker'[v] = "ack"
    BY <1>o, <2>1
  <2>q. QED BY <1>r, <1>6, <2>1, <2>2, <2>3, <2>4, OnceSame, OnceClose DEF CloseAndExit, brokerVars
<1>q. QED BY <1>1, <1>2, <1>3, <1>4, <1>5, <1>6 DEF WorkerNext, Resume, Fork, WaitForProcess,
            CheckAvailableExecutionSlot, Step

LEMMA OnceProcess ==
  ASSUME TypeOK, HandInv, PublishInv, OnceHeld, OnceRun, OnceAlive, [Next]_vars,
         NEW w \in Workers, ProcessNext(w)
  PROVE  OnceHeld' /\ OnceRun' /\ OnceAlive'
<1> USE DEF TypeOK
<1>1. /\ UNCHANGED <<worker, taken>> /\ process[w] # "none" /\ taken[w] \in Messages
      /\ worker[w] \in {"wait", "zombie", "free"}
      /\ \A v \in Workers : v # w => process'[v] = process[v] /\ conn'[v] = conn[v]
  BY DEF ProcessNext, FetchService, Begin, ValidateRequest, LoadServiceAndRun, RemovePidFile,
         RecordFinalResponse, UnhandleStatus, ReleaseSlot, Leave, Go, HandInv, Close, Closed,
         brokerVars
<1>2. OnceAlive'
  BY <1>1 DEF OnceAlive
<1>3. \A v \in Workers : worker[v] = "ack" => worker'[v] = "ack"
  BY <1>1
<1>4. CASE UNCHANGED runs
  <2>1. process'[w] \in {"fetch", "begin", "validate"} => process[w] \in {"fetch", "begin"}
    BY DEF ProcessNext, FetchService, Begin, ValidateRequest, LoadServiceAndRun, RemovePidFile,
         RecordFinalResponse, UnhandleStatus, ReleaseSlot, Leave, Go
  <2>2. \A v \in Workers, m \in Messages : Pending(v, m)' => Pending(v, m)
    BY <1>1, <2>1 DEF Pending
  <2>3. UNCHANGED brokerVars \/ Close(w)
    BY DEF ProcessNext, FetchService, Begin, ValidateRequest, LoadServiceAndRun,
         RemovePidFile, RecordFinalResponse, UnhandleStatus, ReleaseSlot, Leave
  <2>q. QED BY <1>1, <1>2, <1>3, <1>4, <2>2, <2>3, OnceSame, OnceClose DEF brokerVars
<1>5. CASE ~UNCHANGED runs
  <2> DEFINE m == taken[w]
  <2>1. /\ process[w] = "validate" /\ process'[w] = "run" /\ UNCHANGED brokerVars
        /\ runs' = [runs EXCEPT ![m] = IF @ < 2 THEN @ + 1 ELSE @]
    <3>1. ValidateRequest(w)
      BY <1>5 DEF ProcessNext, FetchService, Begin, LoadServiceAndRun, RemovePidFile,
         RecordFinalResponse, UnhandleStatus, ReleaseSlot, Leave, tables
    <3>q. QED BY <1>1, <1>5, <3>1 DEF ValidateRequest, Go, Job
  <2>2. Pending(w, m) /\ ~NotBegun(m) /\ runs[m] = 0
    BY <1>1, <2>1 DEF Pending, NotBegun, OnceRun
  <2>3. runs'[m] = 1 /\ \A n \in Messages : n # m => runs'[n] = runs[n]
    BY <1>1, <2>1, <2>2
  <2>4. \A v \in Workers, n \in Messages : Pending(v, n)' => Pending(v, n) /\ n # m
    BY <1>1, <2>1, <2>2 DEF Pending, OnceRun
  <2>5. OnceRun'
    BY <2>3, <2>4 DEF OnceRun
  <2>6. \A n \in Messages : NotBegun(n) => NotBegun(n)'
    BY <2>2, <2>3, <2>4 DEF NotBegun
  <2>7. OnceHeld'
    BY <1>1, <2>1, <2>6, UnpublishedBefore DEF OnceHeld, brokerVars
  <2>q. QED BY <1>2, <2>5, <2>7
<1>q. QED BY <1>4, <1>5

LEMMA OnceFault ==
  ASSUME TypeOK, HandInv, LinkInv, PublishInv, OnceHeld, OnceRun, OnceAlive, [Next]_vars,
         NEW w \in Workers, HandleAck(w) \/ Fails(w), Lossless'
  PROVE  OnceHeld' /\ OnceRun' /\ OnceAlive'
<1> USE DEF TypeOK
<1>1. CASE HandleAck(w)
  <2>1. /\ UNCHANGED <<runs, worker, taken, process, conn>> /\ acking[w]
        /\ \A v \in Workers : v # w => acking'[v] = acking[v]
        /\ \A m \in Messages : broker'[m] = IF broker[m] = w THEN NowhereAtBroker ELSE broker[m]
    BY <1>1 DEF HandleAck, tables
  <2>2. OnceAlive' /\ \A v \in Workers, m \in Messages : Pending(v, m)' => Pending(v, m)
    BY <2>1 DEF OnceAlive, Pending
  <2>3. \A m \in Messages : broker'[m] = Ready => NotBegun(m)
    BY <2>1, NameAssumption DEF OnceHeld
  <2>4. \A v \in Workers, m \in Messages : broker'[m] = v =>
           acking'[v] \/ worker'[v] = "ack" \/ NotBegun(m)
    BY <2>1, NameAssumption DEF OnceHeld
  <2>q. QED BY <2>1, <2>2, <2>3, <2>4, OnceKept
<1>2. CASE ProcessDies(w)
  <2>1. process[w] # "none" /\ worker[w] \notin {"zombie", "free"}
    BY <1>2 DEF ProcessDies, OnceAlive
  <2>2. /\ UNCHANGED <<brokerVars, worker, taken, runs>>
        /\ process' = [process EXCEPT ![w] = "none"]
    BY <1>2, <2>1 DEF ProcessDies, End
  <2>3. OnceAlive' /\ \A v \in Workers, m \in Messages : Pending(v, m)' => Pending(v, m)
    BY <2>2 DEF OnceAlive, Pending, brokerVars
  <2>q. QED BY <2>2, <2>3, OnceSame DEF brokerVars
<1>3. CASE ForkFails(w)
  <2>1. OnceAlive' /\ \A v \in Workers, m \in Messages : Pending(v, m)' => Pending(v, m)
    BY <1>3 DEF ForkFails, Step, OnceAlive, Pending, brokerVars
  <2>2. \A v \in Workers : worker[v] = "ack" => worker'[v] = "ack"
    BY <1>3 DEF ForkFails, Step
  <2>q. QED BY <1>3, <2>1, <2>2, OnceSame DEF ForkFails, brokerVars
<1>4. ~LoseConnection(w) /\ ~WorkerDies(w)
  BY DEF LoseConnection, WorkerDies, Fault, Lossless
<1>q. QED BY <1>1, <1>2, <1>3, <1>4 DEF Fails

LEMMA OnceStep ==
  ASSUME TypeOK, HandInv, LinkInv, PublishInv, OnceInv, [Next]_vars
  PROVE  OnceInv'
<1> USE DEF TypeOK
<1>f. faults \subseteq faults'
  BY DEF Next, AcceptorNext, Publish, Confirm, RecordServiceStatus, RecordRequestOf, Created,
       WorkerNext, Bind, Consume, ConsumeFails, Resume, Ack, Fork, WaitForProcess,
       CheckAvailableExecutionSlot, CloseAndExit, ProcessNext, FetchService, Begin,
       ValidateRequest, LoadServiceAndRun, RemovePidFile, RecordFinalResponse, UnhandleStatus,
       ReleaseSlot, Leave, HandleAck, Fails, LoseConnection, WorkerDies, ProcessDies, ForkFails,
       Fault, Deliver, MasterNext, MasterWaits, Reap, MasterForks, MasterSleeps, Ask, ReaderNext,
       GetStatusId, IsRunning, ReadFinalRes, GetStatus, GetStatusFile, Kill, Remove, unread, vars
<1> SUFFICES ASSUME Lossless' PROVE OnceHeld' /\ OnceRun' /\ OnceAlive'
  BY OnceParts
<1>h. OnceHeld /\ OnceRun /\ OnceAlive
  BY <1>f, OnceParts DEF Lossless
<1>i. ASSUME UNCHANGED <<brokerVars, worker, taken, process, runs>>
      PROVE  OnceHeld' /\ OnceRun' /\ OnceAlive'
  <2>1. OnceAlive' /\ \A v \in Workers, m \in Messages : Pending(v, m)' => Pending(v, m)
    BY <1>h, <1>i DEF OnceAlive, Pending, brokerVars
  <2>q. QED BY <1>h, <1>i, <2>1, OnceSame DEF brokerVars
<1>p. ASSUME UNCHANGED <<conn, acking, worker, taken, process, runs>>,
             NEW m \in Messages, Unpublished(m), broker' = [broker EXCEPT ![m] = Ready]
      PROVE  OnceHeld' /\ OnceRun' /\ OnceAlive'
  <2>1. OnceAlive' /\ \A v \in Workers, n \in Messages : Pending(v, n)' => Pending(v, n)
    BY <1>h, <1>p DEF OnceAlive, Pending
  <2>2. NotBegun(m) /\ \A n \in Messages : n # m => broker'[n] = broker[n]
    BY <1>h, <1>p DEF OnceHeld
  <2>3. broker'[m] = Ready
    BY <1>p
  <2>4. \A n \in Messages : broker'[n] = Ready => NotBegun(n)
    BY <1>h, <2>2 DEF OnceHeld
  <2>5. \A v \in Workers, n \in Messages : broker'[n] = v =>
           acking'[v] \/ worker'[v] = "ack" \/ NotBegun(n)
    BY <1>h, <1>p, <2>2, <2>3 DEF OnceHeld
  <2>q. QED BY <1>h, <1>p, <2>1, <2>4, <2>5, OnceKept
<1>1. ASSUME NEW j \in Jobs, AcceptorNext(j)
      PROVE  OnceHeld' /\ OnceRun' /\ OnceAlive'
  <2>1. Idling /\ UNCHANGED <<conn, acking>> /\ j \in Messages
    BY <1>1, AcceptorIdling DEF AcceptorNext, Publish, Confirm, RecordServiceStatus,
            RecordRequestOf, Created, brokerVars, Messages
  <2>2. \/ UNCHANGED broker
        \/ sent[j] = "idle" /\ broker' = [broker EXCEPT ![j] = Ready]
    BY <1>1 DEF AcceptorNext, Publish, Confirm, RecordServiceStatus, RecordRequestOf, Created,
                SendTo, brokerVars
  <2>q. QED BY <1>i, <1>p, <2>1, <2>2 DEF Idling, brokerVars, Unpublished
<1>2. ASSUME NEW r \in Clients, Ask(r) \/ ReaderNext(r)
      PROVE  OnceHeld' /\ OnceRun' /\ OnceAlive'
  <2>1. UNCHANGED <<worker, taken, runs>>
    BY <1>2, ReaderIdling
  <2>2. CASE GetStatusId(r)
    <3>1. UNCHANGED <<process, conn, acking>>
      BY <2>2 DEF GetStatusId
    <3>2. UNCHANGED broker \/ (Unpublished(Dismissal) /\ broker' = [broker EXCEPT ![Dismissal] = Ready])
      BY <2>2 DEF GetStatusId, Reads, Unpublished
    <3>q. QED BY <1>i, <1>p, <2>1, <3>1, <3>2 DEF brokerVars, Messages
  <2>3. CASE Kill(r)
    <3>1. CASE UNCHANGED <<process, brokerVars>>
      BY <1>i, <2>1, <3>1
    <3>2. ASSUME NEW w \in Workers, process[w] # "none", End(w)
          PROVE  OnceHeld' /\ OnceRun' /\ OnceAlive'
      <4>1. UNCHANGED brokerVars /\ process' = [process EXCEPT ![w] = "none"]
        BY <1>h, <3>2 DEF End, OnceAlive
      <4>2. OnceAlive' /\ \A v \in Workers, m \in Messages : Pending(v, m)' => Pending(v, m)
        BY <1>h, <2>1, <4>1 DEF OnceAlive, Pending, brokerVars
      <4>q. QED BY <1>h, <2>1, <4>1, <4>2, OnceSame DEF brokerVars
    <3>q. QED BY <2>3, <3>1, <3>2, KillEnds
  <2>4. CASE ~GetStatusId(r) /\ ~Kill(r)
    <3>1. UNCHANGED <<brokerVars, process>>
      BY <1>2, <2>4 DEF ReaderNext, Ask, IsRunning, ReadFinalRes, GetStatus, GetStatusFile, Remove
    <3>q. QED BY <1>i, <2>1, <3>1
  <2>q. QED BY <2>2, <2>3, <2>4
<1>3. ASSUME NEW w \in Workers, NEW n \in Messages, Deliver(n, w)
      PROVE  OnceHeld' /\ OnceRun' /\ OnceAlive'
  <2>1. UNCHANGED <<worker, taken, process, conn, acking, runs>>
    BY <1>3 DEF Deliver
  <2>2. OnceAlive' /\ \A v \in Workers, m \in Messages : Pending(v, m)' => Pending(v, m)
    BY <1>h, <2>1 DEF OnceAlive, Pending
  <2>3. NotBegun(n) /\ \A m \in Messages : broker'[m] = IF m = n THEN w ELSE broker[m]
    BY <1>h, <1>3 DEF Deliver, OnceHeld
  <2>4. \A m \in Messages : broker'[m] = Ready => NotBegun(m)
    BY <1>h, <2>3 DEF OnceHeld
  <2>5. \A v \in Workers, m \in Messages : broker'[m] = v =>
           acking'[v] \/ worker'[v] = "ack" \/ NotBegun(m)
    BY <1>h, <2>1, <2>3 DEF OnceHeld
  <2>q. QED BY <1>h, <2>1, <2>2, <2>4, <2>5, OnceKept
<1>4. CASE MasterNext
  <2>1. UNCHANGED <<brokerVars, process, runs>>
    BY <1>4 DEF MasterNext, MasterWaits, Reap, MasterForks, MasterSleeps
  <2>2. OnceAlive' /\ \A v \in Workers, m \in Messages : Pending(v, m)' => Pending(v, m)
    <3>1. CASE MasterWaits
      BY <1>h, <2>1, <3>1 DEF MasterWaits, Reap, Step, OnceAlive, Pending, brokerVars
    <3>2. CASE MasterForks
      BY <1>h, <2>1, <3>2 DEF MasterForks, Step, OnceAlive, Pending, brokerVars
    <3>3. CASE MasterSleeps
      BY <1>h, <2>1, <3>3 DEF MasterSleeps, OnceAlive, Pending, brokerVars
    <3>q. QED BY <1>4, <3>1, <3>2, <3>3 DEF MasterNext
  <2>3. \A v \in Workers : worker[v] = "ack" => worker'[v] = "ack"
    BY <1>4 DEF MasterNext, MasterWaits, Reap, MasterForks, MasterSleeps, Step
  <2>q. QED BY <1>h, <2>1, <2>2, <2>3, OnceSame DEF brokerVars
<1>5. CASE UNCHANGED vars
  BY <1>i, <1>5 DEF vars, tables
<1>q. QED BY <1>h, <1>1, <1>2, <1>3, <1>4, <1>5, OnceWorker, OnceProcess, OnceFault DEF Next

-----------------------------------------------------------------------------
(* The invariants hold.                                                    *)

IInv == /\ TypeOK /\ HandInv /\ SlotInv /\ LinkInv /\ PublishInv
        /\ LostInv /\ OnceInv /\ RowInv

LEMMA InvInit == Init => IInv
<1>1. SUFFICES ASSUME Init PROVE IInv  OBVIOUS
<1>2. TypeOK
  BY <1>1, TypeInit
<1>3. \A w \in Workers : worker[w] \in {"free", "bind"} /\ process[w] = "none"
                        /\ taken[w] = NoMessage /\ ~conn[w] /\ ~acking[w]
  BY <1>1 DEF Init
<1>4. \A m \in Messages : broker[m] = NowhereAtBroker /\ runs[m] = 0
  BY <1>1 DEF Init
<1>5. HandInv /\ SlotInv
  BY <1>3 DEF HandInv, SlotInv, HasSlot, AtWork
<1>6. LinkInv
  BY <1>3, <1>4, NameAssumption DEF LinkInv, Link, Held
<1>7. PublishInv
  BY <1>1, <1>4 DEF Init, PublishInv
<1>8. LostInv
  BY <1>1, <1>3 DEF Init, LostInv
<1>9. OnceInv
  BY <1>3, <1>4, NameAssumption DEF OnceInv, NotBegun, Pending, Held
<1>10. RowInv
  BY <1>1 DEF Init, RowInv, DismissedStaysGone
<1>q. QED BY <1>2, <1>5, <1>6, <1>7, <1>8, <1>9, <1>10 DEF IInv

LEMMA InvStep == IInv /\ [Next]_vars => IInv'
BY TypeStep, HandStep, SlotStep, LinkStep, PublishStep, LostStep, OnceStep, RowStep DEF IInv

LEMMA Invariance == Spec => []IInv
BY InvInit, InvStep, PTL DEF Spec

-----------------------------------------------------------------------------
(* The theorems.                                                           *)

(* Every variable of the queue keeps to its type: in particular workers    *)
(* and the processes they fork follow the program they are written in.     *)
THEOREM TypeCorrect == Spec => []TypeOK
<1>1. IInv => TypeOK  BY DEF IInv
<1>q. QED BY <1>1, Invariance, PTL

(* checkAvailableExecutionSlot keeps every second run of a job out, for    *)
(* any number of workers and of redeliveries.                              *)
THEOREM SlotsExclude == Spec => []OneRunAtATime
<1>1. ASSUME IInv PROVE OneRunAtATime
  <2>1. SUFFICES ASSUME NEW m \in Messages PROVE Cardinality(Working(m)) <= 1
    BY DEF OneRunAtATime
  <2>2. \A v, w \in Working(m) : v = w
    BY <1>1 DEF IInv, SlotInv, HasSlot, Working
  <2>3. CASE Working(m) = {}
    BY <2>3, FS_EmptySet
  <2>4. ASSUME NEW w \in Working(m) PROVE Cardinality(Working(m)) = 1
    <3>1. Working(m) = {w}  BY <2>2
    <3>q. QED BY <3>1, FS_Singleton
  <2>q. QED BY <2>3, <2>4
<1>q. QED BY <1>1, Invariance, PTL

(* A message leaves the broker only when its job was claimed or a worker   *)
(* that was not killed is about to claim it.                               *)
THEOREM NothingLost == Spec => []NoJobLost
<1>1. ASSUME IInv PROVE NoJobLost
  <2>1. SUFFICES ASSUME NEW j \in Jobs, sent[j] \notin {"idle", "refused"},
                        "worker" \notin faults, broker[j] = NowhereAtBroker,
                        ~(j \in slots), ~(runs[j] > 0)
                 PROVE  InHand(j)
    BY DEF NoJobLost
  <2>2. \E w \in Workers : taken[w] = j /\ worker[w] = "slot"
    BY <1>1, <2>1 DEF IInv, LostInv, Claimed
  <2>q. QED BY <2>2 DEF InHand
<1>q. QED BY <1>1, Invariance, PTL

(* Without a lost connection or a killed worker a message is delivered,    *)
(* consumed and run once, whatever else fails.                             *)
THEOREM RunsOnce == Spec => []AtMostOnce
<1>1. ASSUME IInv PROVE AtMostOnce
  <2>1. \A m \in Messages : runs[m] \in 0 .. 2
    BY <1>1 DEF IInv, TypeOK
  <2>2. faults \intersect {"connection", "worker"} = {} => \A m \in Messages : runs[m] <= 1
    BY <1>1 DEF IInv, OnceInv
  <2>q. QED BY <2>1, <2>2 DEF AtMostOnce
<1>q. QED BY <1>1, Invariance, PTL

(* Acceptor, worker and process of a dismissed job only ever update rows   *)
(* that are there, so nothing of it comes back.                            *)
THEOREM DismissalLasts == Spec => []DismissedStaysGone
<1>1. IInv => DismissedStaysGone
  BY DEF IInv, RowInv
<1>q. QED BY <1>1, Invariance, PTL
=============================================================================
