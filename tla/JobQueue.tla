------------------------------ MODULE JobQueue ------------------------------
(***************************************************************************)
(* Asynchronous jobs of a ZOO-Kernel built with USE_AMQP and RELY_ON_DB.   *)
(* The process that answers POST .../execution (the acceptor of the job)   *)
(* publishes the job to the RabbitMQ queue and then records it in the      *)
(* table services.  zoo_loader_fpm keeps a pool of workers; each takes one *)
(* message, forks the process that runs the job, and ends.  A master forks *)
(* the workers.  Any process reports a job from the tables.                *)
(*                                                                         *)
(* A statement sent to the database is one action (they commit one by one),*)
(* and so is a call of the AMQP library.  The database is always reachable;*)
(* the connection of a worker to the broker is not.                        *)
(***************************************************************************)
EXTENDS Naturals, FiniteSets

CONSTANTS
  Jobs,       \* the jobs (usid)
  XmlJobs,    \* those requested in XML: they record a first response
  Dismissal,  \* the message runDismiss publishes, a job nobody recorded
  Workers,    \* pids of workers
  NbWorkers,  \* async_worker
  Clients,    \* requests about the jobs that are served at the same time
  Ops,        \* what they may be: GetStatus, GetResult, Dismiss
  MaxFaults   \* how many kinds of fault may happen, each once

ASSUME JobAssumption == Jobs # {} /\ XmlJobs \subseteq Jobs /\ Dismissal \notin Jobs
ASSUME PoolAssumption ==
  /\ IsFiniteSet(Workers)
  /\ NbWorkers \in 1 .. Cardinality(Workers)
ASSUME OpsAssumption == Ops \subseteq {"GetStatus", "GetResult", "Dismiss"}
ASSUME BoundAssumption == MaxFaults \in Nat

Messages == Jobs \union {Dismissal}
NoMessage == "noMessage"
NoWorker  == "noWorker"
NowhereAtBroker == "nowhere"
Ready   == "ready"

ASSUME NameAssumption ==    \* no job or worker is named as the absence of one
  /\ Messages \intersect {NoMessage, "none"} = {}
  /\ Workers \intersect {NowhereAtBroker, Ready, NoWorker} = {}

VARIABLES
  sent,      \* what the acceptor of a job does next
  broker,    \* where the broker has a message: ready, or sent to a worker
  conn,      \* the connection of a worker is open
  acking,    \* basic.ack is on its way to the broker
  worker,    \* what a worker does next
  taken,     \* the message a worker consumed
  process,   \* what the process a worker forked for its job does next
  eres,      \* what loadServiceAndRun returned there
  master,    \* what the master does next
  slots,     \* table workers
  services,  \* table services
  responses, \* table responses, latest first: at most the last one matters
  requests,  \* table requests
  pidfile,   \* usid.pid: the worker whose process wrote it
  reading,   \* what the server of a request about a job does next
  asked,     \* the job and the operation it is about
  answer,    \* what it answered
  dismissal, \* the job the only dismissal is about (one per behaviour)
  faults,    \* the faults so far
  runs       \* how often the service of a job was called

brokerVars == <<broker, conn, acking>>
tables     == <<slots, services, responses, requests>>
readerVars == <<reading, asked, answer, dismissal>>
vars == <<sent, brokerVars, worker, taken, process, eres, master, tables,
          pidfile, readerVars, faults, runs>>

NoRow == "noRow"
(* fstate of a row of services: recordServiceStatus writes Accepted, and   *)
(* unhandleStatus the others, with end_time.                               *)
FinalStates == {"Succeeded", "Failed"}

TypeOK ==
  /\ sent \in [Jobs -> {"idle", "confirm", "insert", "request", "report",
                        "answered", "refused"}]
  /\ broker \in [Messages -> {NowhereAtBroker, Ready} \union Workers]
  /\ conn \in [Workers -> BOOLEAN]
  /\ acking \in [Workers -> BOOLEAN]
  /\ worker \in [Workers -> {"free", "bind", "consume", "ack", "slot", "fork",
                             "wait", "close", "pause", "zombie"}]
  /\ taken \in [Workers -> Messages \union {NoMessage}]
  /\ process \in [Workers -> {"none", "fetch", "begin", "validate", "run",
                              "unlink", "record", "unhandle", "release", "leave",
                              "refRecord", "refUnlink", "refUnhandle"}]
  /\ eres \in [Workers -> FinalStates]
  /\ master \in {"wait", "fork", "waitAgain", "pause"}
  /\ slots \subseteq Messages
  /\ services \in [Jobs -> {NoRow, "Accepted"} \union FinalStates]
  /\ responses \in [Jobs -> {"none", "started", "final"}]
  /\ requests \subseteq Jobs
  /\ pidfile \in [Messages -> Workers \union {NoWorker}]
  /\ reading \in [Clients -> {"idle", "id", "running", "state", "status",
                              "result", "pid", "kill", "remove"}]
  /\ asked \in [Clients -> [job : Jobs, op : {"GetStatus", "GetResult", "Dismiss"}]]
  /\ answer \in [Clients -> {"none", "NoSuchJob", "ResultNotReady", "running",
                             "successful", "failed", "started", "final",
                             "undefined", "dismissed"}]
  /\ dismissal \in Jobs \union {"none"}
  /\ faults \subseteq {"connection", "worker", "process", "fork"}
  /\ runs \in [Messages -> 0 .. 2]

Init ==
  /\ sent = [j \in Jobs |-> "idle"]
  /\ broker = [m \in Messages |-> NowhereAtBroker]
  /\ conn = [w \in Workers |-> FALSE]
  /\ acking = [w \in Workers |-> FALSE]
  /\ \E pool \in SUBSET Workers :    \* the loop that forks async_worker times
       /\ Cardinality(pool) = NbWorkers
       /\ worker = [w \in Workers |-> IF w \in pool THEN "bind" ELSE "free"]
  /\ taken = [w \in Workers |-> NoMessage]
  /\ process = [w \in Workers |-> "none"]
  /\ eres = [w \in Workers |-> "Failed"]
  /\ master = "wait"
  /\ slots = {}
  /\ services = [j \in Jobs |-> NoRow]
  /\ responses = [j \in Jobs |-> "none"]
  /\ requests = {}
  /\ pidfile = [m \in Messages |-> NoWorker]
  /\ reading = [r \in Clients |-> "idle"]
  /\ asked = [r \in Clients |->
               [job |-> CHOOSE j \in Jobs : TRUE, op |-> "GetStatus"]]
  /\ answer = [r \in Clients |-> "none"]
  /\ dismissal = "none"
  /\ faults = {}
  /\ runs = [m \in Messages |-> 0]

-----------------------------------------------------------------------------
(* The tables.                                                             *)

Recorded(j) == j \in Jobs /\ services[j] # NoRow

UpsertRow(j, state) ==    \* mutant: INSERT ... ON CONFLICT UPDATE
  /\ services' = IF j \in Jobs THEN [services EXCEPT ![j] = state]
                                ELSE services
  /\ requests' = requests \ {j}

UpdateRow(j, state) ==    \* an UPDATE that finds no row changes nothing
  IF Recorded(j)
  THEN /\ services' = [services EXCEPT ![j] = state]
       /\ requests' = requests \ {j}    \* the trigger removeRequests
  ELSE UNCHANGED <<services, requests>>

(* responses and requests refer to services(uuid): without this row the    *)
(* INSERT fails, and execSql's result is not looked at.                    *)
RecordResponse(j, document) ==
  responses' = IF Recorded(j) THEN [responses EXCEPT ![j] = document]
                              ELSE responses

RecordRequest(j) == requests' = IF Recorded(j) THEN requests \union {j} ELSE requests

InsertRow(j) == services' = [services EXCEPT ![j] = "Accepted"]

RemoveService(j) ==    \* ON DELETE CASCADE
  /\ services' = [services EXCEPT ![j] = NoRow]
  /\ responses' = [responses EXCEPT ![j] = "none"]
  /\ requests' = requests \ {j}

-----------------------------------------------------------------------------
(* The broker: confirms are lost with the connection; a message is sent    *)
(* again when the connection it was sent on ends without basic.ack.        *)

Held(w) == {m \in Messages : broker[m] = w}

Closed(w) ==
  /\ conn' = [conn EXCEPT ![w] = FALSE]
  /\ acking' = [acking EXCEPT ![w] = FALSE]

CloseWithoutAck(w) ==    \* mutant: amqp_basic_consume with no_ack = 1
  /\ Closed(w)
  /\ broker' = [m \in Messages |-> IF broker[m] = w THEN NowhereAtBroker ELSE broker[m]]

(* close_amqp waits for the broker, which reads basic.ack before.          *)
Close(w) ==
  /\ Closed(w)
  /\ broker' = [m \in Messages |->
                 IF broker[m] # w THEN broker[m]
                 ELSE IF acking[w] THEN NowhereAtBroker ELSE Ready]

Break(w) ==
  /\ Closed(w)
  /\ broker' = [m \in Messages |-> IF broker[m] = w THEN Ready ELSE broker[m]]

Deliver(m, w) ==    \* prefetch count 1
  /\ broker[m] = Ready
  /\ conn[w] /\ Held(w) = {}
  /\ broker' = [broker EXCEPT ![m] = w]
  /\ UNCHANGED <<sent, conn, acking, worker, taken, process, eres, master, tables,
                 pidfile, readerVars, faults, runs>>

HandleAck(w) ==
  /\ conn[w] /\ acking[w]
  /\ broker' = [m \in Messages |-> IF broker[m] = w THEN NowhereAtBroker ELSE broker[m]]
  /\ acking' = [acking EXCEPT ![w] = FALSE]
  /\ UNCHANGED <<sent, conn, worker, taken, process, eres, master, tables,
                 pidfile, readerVars, faults, runs>>

Fault(kind) ==
  /\ kind \notin faults
  /\ Cardinality(faults) < MaxFaults
  /\ faults' = faults \union {kind}

LoseConnection(w) ==
  /\ conn[w]
  /\ Break(w)
  /\ Fault("connection")
  /\ UNCHANGED <<sent, worker, taken, process, eres, master, tables, pidfile,
                 readerVars, runs>>

-----------------------------------------------------------------------------
(* The acceptor of a job.                                                  *)

SendTo(j, from, to) == sent[j] = from /\ sent' = [sent EXCEPT ![j] = to]

Publish(j) ==
  /\ \/ /\ SendTo(j, "idle", "confirm")
        /\ broker' = [broker EXCEPT ![j] = Ready]
     \/ /\ SendTo(j, "idle", "refused")    \* bind_amqp or the publication failed
        /\ UNCHANGED broker
  /\ UNCHANGED <<conn, acking, worker, taken, process, eres, master, tables,
                 pidfile, readerVars, faults, runs>>

Confirm(j) ==
  /\ \/ SendTo(j, "confirm", "insert")
     \/ SendTo(j, "confirm", "refused")    \* the confirmation did not come
  /\ UNCHANGED <<brokerVars, worker, taken, process, eres, master, tables,
                 pidfile, readerVars, faults, runs>>

RecordServiceStatus(j) ==
  /\ SendTo(j, "insert", "request")
  /\ InsertRow(j)
  /\ UNCHANGED <<brokerVars, worker, taken, process, eres, master, slots, responses,
                 requests, pidfile, readerVars, faults, runs>>

RecordRequestOf(j) ==
  /\ SendTo(j, "request", "report")
  /\ RecordRequest(j)
  /\ UNCHANGED <<brokerVars, worker, taken, process, eres, master, slots, services,
                 responses, pidfile, readerVars, faults, runs>>

(* createStatusFile, and printJobStatus for the body of the 201: it reads  *)
(* the tables as GET /jobs/{id} does.                                      *)
Created(j) ==
  /\ SendTo(j, "report", "answered")
  /\ UNCHANGED <<brokerVars, worker, taken, process, eres, master, tables, pidfile,
                 readerVars, faults, runs>>

-----------------------------------------------------------------------------
(* A worker, and the process it forks.                                     *)

Step(w, from, to) == worker[w] = from /\ worker' = [worker EXCEPT ![w] = to]
Go(w, from, to) == process[w] = from /\ process' = [process EXCEPT ![w] = to]
Job(w) == taken[w]

Bind(w) ==    \* bind_amqp, bind_queue, init_consumer
  /\ Step(w, "bind", "consume")
  /\ conn' = [conn EXCEPT ![w] = TRUE]
  /\ UNCHANGED <<sent, broker, acking, taken, process, eres, master, tables,
                 pidfile, readerVars, faults, runs>>

Consume(w) ==
  /\ conn[w]
  /\ Step(w, "consume", "ack")
  /\ \E m \in Held(w) : taken' = [taken EXCEPT ![w] = m]
  /\ UNCHANGED <<sent, brokerVars, process, eres, master, tables, pidfile,
                 readerVars, faults, runs>>

(* consumer_amqp returns 0: close_amqp, sleep, and bind again.             *)
ConsumeFails(w) ==
  /\ ~conn[w]
  /\ Step(w, "consume", "pause")
  /\ UNCHANGED <<sent, brokerVars, taken, process, eres, master, tables, pidfile,
                 readerVars, faults, runs>>

Resume(w) ==
  /\ Step(w, "pause", "bind")
  /\ UNCHANGED <<sent, brokerVars, taken, process, eres, master, tables, pidfile,
                 readerVars, faults, runs>>

AckForgotten(w) ==    \* mutant: consumer_ack_amqp is not called
  /\ Step(w, "ack", "slot")
  /\ UNCHANGED <<sent, brokerVars, taken, process, eres, master, tables, pidfile,
                 readerVars, faults, runs>>

(* On a connection that is lost basic.ack may be refused, and the worker   *)
(* ends, or be written all the same.                                       *)
Ack(w) ==
  /\ \/ /\ Step(w, "ack", "slot")
        /\ acking' = [acking EXCEPT ![w] = conn[w]]
        /\ UNCHANGED taken
     \/ /\ ~conn[w]
        /\ Step(w, "ack", "zombie")
        /\ taken' = [taken EXCEPT ![w] = NoMessage]
        /\ UNCHANGED acking
  /\ UNCHANGED <<sent, broker, conn, process, eres, master, tables, pidfile,
                 readerVars, faults, runs>>

AnySlot(m) == TRUE    \* mutant: the INSERT without the SELECT count(*)

SlotFree(m) == m \notin slots
(* checkAvailableExecutionSlot; a concurrent INSERT of the same uuid       *)
(* violates UNIQUE(uuid), with the same effect as a row that is there.     *)
CheckAvailableExecutionSlot(w) ==
  /\ IF SlotFree(Job(w))
     THEN Step(w, "slot", "fork") /\ slots' = slots \union {Job(w)}
     ELSE Step(w, "slot", "close") /\ UNCHANGED slots
  /\ UNCHANGED <<sent, brokerVars, taken, process, eres, master, services, responses,
                 requests, pidfile, readerVars, faults, runs>>

Fork(w) ==
  /\ Step(w, "fork", "wait")
  /\ Go(w, "none", "fetch")
  /\ UNCHANGED <<sent, brokerVars, taken, eres, master, tables, pidfile,
                 readerVars, faults, runs>>

WaitForProcess(w) ==
  /\ Step(w, "wait", "close")
  /\ process[w] = "none"
  /\ UNCHANGED <<sent, brokerVars, taken, process, eres, master, tables, pidfile,
                 readerVars, faults, runs>>

CloseAndExit(w) ==
  /\ Step(w, "close", "zombie")
  /\ IF conn[w] THEN Close(w) ELSE UNCHANGED brokerVars
  /\ taken' = [taken EXCEPT ![w] = NoMessage]
  /\ UNCHANGED <<sent, process, eres, master, tables, pidfile, readerVars, faults, runs>>

(* fetchService finds no service (runDismiss is none of the repository's): *)
(* the process returns, and its row of the table workers stays.            *)
FetchService(w) ==
  /\ \/ /\ Go(w, "fetch", "begin")
        /\ pidfile' = [pidfile EXCEPT ![Job(w)] = w]    \* createSPidFile
     \/ /\ Go(w, "fetch", "leave")
        /\ UNCHANGED pidfile
  /\ UNCHANGED <<sent, brokerVars, worker, taken, eres, master, tables, readerVars,
                 faults, runs>>

Begin(w) ==    \* the first response of an XML request
  /\ Go(w, "begin", "validate")
  /\ IF Job(w) \in XmlJobs THEN RecordResponse(Job(w), "started")
                           ELSE UNCHANGED responses
  /\ UNCHANGED <<sent, brokerVars, worker, taken, eres, master, slots, services,
                 requests, pidfile, readerVars, faults, runs>>

ValidateRequest(w) ==
  /\ \/ /\ Go(w, "validate", "run")
        /\ runs' = [runs EXCEPT ![Job(w)] = IF @ < 2 THEN @ + 1 ELSE @]
     \/ /\ Go(w, "validate", "refRecord")
        /\ UNCHANGED runs
  /\ UNCHANGED <<sent, brokerVars, worker, taken, eres, master, tables, pidfile,
                 readerVars, faults>>

LoadServiceAndRun(w) ==
  /\ Go(w, "run", "unlink")
  /\ \E out \in FinalStates : eres' = [eres EXCEPT ![w] = out]
  /\ UNCHANGED <<sent, brokerVars, worker, taken, master, tables, pidfile,
                 readerVars, faults, runs>>

(* Once the service ended; from "refRecord" after a request was refused,   *)
(* where unhandleStatus finds no fstate and writes Failed.                 *)
RemovePidFile(w) ==
  /\ Go(w, "unlink", "record") \/ Go(w, "refUnlink", "refUnhandle")
  /\ pidfile' = [pidfile EXCEPT ![Job(w)] = NoWorker]
  /\ UNCHANGED <<sent, brokerVars, worker, taken, eres, master, tables, readerVars,
                 faults, runs>>

RecordFinalResponse(w) ==
  /\ Go(w, "record", "unhandle") \/ Go(w, "refRecord", "refUnlink")
  /\ RecordResponse(Job(w), "final")
  /\ UNCHANGED <<sent, brokerVars, worker, taken, eres, master, slots, services,
                 requests, pidfile, readerVars, faults, runs>>

RefusedForgotten(w) ==    \* mutant: no unhandleStatus for a refused request
  /\ \/ Go(w, "unhandle", "release") /\ UpdateRow(Job(w), eres[w])
     \/ Go(w, "refUnhandle", "leave") /\ UNCHANGED <<services, requests>>
  /\ UNCHANGED <<sent, brokerVars, worker, taken, eres, master, slots, responses,
                 pidfile, readerVars, faults, runs>>

UnhandleStatus(w) ==
  /\ \/ Go(w, "unhandle", "release") /\ UpdateRow(Job(w), eres[w])
     \/ Go(w, "refUnhandle", "leave") /\ UpdateRow(Job(w), "Failed")
  /\ UNCHANGED <<sent, brokerVars, worker, taken, eres, master, slots, responses,
                 pidfile, readerVars, faults, runs>>

ReleaseSlot(w) ==    \* DELETE FROM workers
  /\ Go(w, "release", "leave")
  /\ slots' = slots \ {Job(w)}
  /\ UNCHANGED <<sent, brokerVars, worker, taken, eres, master, services, responses,
                 requests, pidfile, readerVars, faults, runs>>

(* It returns to zoo_loader_fpm's main too, and closes the connection it   *)
(* shares with the worker.                                                 *)
Leave(w) ==
  /\ Go(w, "leave", "none")
  /\ IF conn[w] THEN Close(w) ELSE UNCHANGED brokerVars
  /\ eres' = [eres EXCEPT ![w] = "Failed"]    \* as before the next fork
  /\ UNCHANGED <<sent, worker, taken, master, tables, pidfile, readerVars,
                 faults, runs>>

(* The process ends without a word: a signal (sig_handler and              *)
(* json_sig_handler print an exception and exit), or the operator.         *)
End(w) ==
  /\ process' = [process EXCEPT ![w] = "none"]
  /\ IF conn[w] /\ worker[w] \in {"zombie", "free"} THEN Break(w) ELSE UNCHANGED brokerVars

ProcessDies(w) ==
  /\ process[w] # "none"
  /\ End(w)
  /\ Fault("process")
  /\ UNCHANGED <<sent, worker, taken, eres, master, tables, pidfile, readerVars, runs>>

(* The process it forked, if any, goes on and keeps the connection.        *)
WorkerDies(w) ==
  /\ worker[w] \notin {"free", "zombie"}
  /\ worker' = [worker EXCEPT ![w] = "zombie"]
  /\ IF conn[w] /\ process[w] = "none" THEN Close(w) \/ Break(w)
                                        ELSE UNCHANGED brokerVars
  /\ Fault("worker")
  /\ UNCHANGED <<sent, taken, process, eres, master, tables, pidfile, readerVars, runs>>

ForkFails(w) ==
  /\ Step(w, "fork", "close")
  /\ Fault("fork")
  /\ UNCHANGED <<sent, brokerVars, taken, process, eres, master, tables, pidfile,
                 readerVars, runs>>

-----------------------------------------------------------------------------
(* The master: wait, fork one worker, wait again, sleep.                   *)

MasterGoes(from, to) == master = from /\ master' = to

(* wait(0) returns at once when there is no child.                         *)
Reap(from, to) ==
  /\ MasterGoes(from, to)
  /\ \/ \E w \in Workers : Step(w, "zombie", "free")
     \/ /\ \A w \in Workers : worker[w] = "free"
        /\ UNCHANGED worker
  /\ UNCHANGED <<sent, brokerVars, taken, process, eres, tables, pidfile, readerVars,
                 faults, runs>>

MasterWaits == Reap("wait", "fork") \/ Reap("waitAgain", "pause")

MasterForksNoWorker ==    \* mutant: no replacement for a worker that ended
  /\ MasterGoes("fork", "waitAgain")
  /\ UNCHANGED <<sent, brokerVars, worker, taken, process, eres, tables, pidfile,
                 readerVars, faults, runs>>

MasterForks ==
  /\ MasterGoes("fork", "waitAgain")
  /\ \E w \in Workers :
       /\ process[w] = "none"
       /\ Step(w, "free", "bind")
       /\ taken' = [taken EXCEPT ![w] = NoMessage]
  /\ UNCHANGED <<sent, brokerVars, process, eres, tables, pidfile, readerVars,
                 faults, runs>>

MasterSleeps ==
  /\ MasterGoes("pause", "wait")
  /\ UNCHANGED <<sent, brokerVars, worker, taken, process, eres, tables, pidfile,
                 readerVars, faults, runs>>

-----------------------------------------------------------------------------
(* Requests about a job: runGetStatus and runDismiss over the tables.      *)

AskedJob(r) == asked[r].job

Reads(r, from, to) == reading[r] = from /\ reading' = [reading EXCEPT ![r] = to]
Answers(r, value) == answer' = [answer EXCEPT ![r] = value]

unread == <<sent, worker, taken, eres, master, slots, faults, runs>>

(* The id is in GET /jobs as soon as the row is.                           *)
Ask(r) ==
  /\ Reads(r, "idle", "id")
  /\ \E j \in Jobs, o \in Ops :
       /\ Recorded(j) \/ sent[j] = "answered"
       /\ o = "Dismiss" => dismissal = "none"
       /\ asked' = [asked EXCEPT ![r] = [job |-> j, op |-> o]]
       /\ dismissal' = IF o = "Dismiss" THEN j ELSE dismissal
  /\ Answers(r, "none")
  /\ UNCHANGED <<unread, brokerVars, process, services, responses, requests, pidfile>>

(* getStatusId; runDismiss then publishes a message of its own.            *)
GetStatusId(r) ==
  /\ \/ /\ ~Recorded(AskedJob(r))
        /\ Reads(r, "id", "idle")
        /\ Answers(r, "NoSuchJob")
        /\ UNCHANGED broker
     \/ /\ Recorded(AskedJob(r)) /\ asked[r].op # "Dismiss"
        /\ Reads(r, "id", "running")
        /\ UNCHANGED <<answer, broker>>
     \/ /\ Recorded(AskedJob(r)) /\ asked[r].op = "Dismiss"
        /\ Reads(r, "id", "kill")
        /\ broker' = [broker EXCEPT ![Dismissal] = Ready]
        /\ UNCHANGED answer
  /\ UNCHANGED <<unread, conn, acking, process, services, responses, requests,
                 pidfile, asked, dismissal>>

StillRunning(j) == services[j] = "Accepted"    \* end_time is null

IsRunning(r) ==
  /\ IF asked[r].op = "GetResult"
     THEN \/ /\ StillRunning(AskedJob(r))
             /\ Reads(r, "running", "idle") /\ Answers(r, "ResultNotReady")
          \/ /\ ~StillRunning(AskedJob(r))
             /\ Reads(r, "running", "result") /\ UNCHANGED answer
     ELSE \/ /\ StillRunning(AskedJob(r))
             /\ Reads(r, "running", "status") /\ Answers(r, "running")
          \/ /\ ~StillRunning(AskedJob(r))
             /\ Reads(r, "running", "state") /\ UNCHANGED answer
  /\ UNCHANGED <<unread, brokerVars, process, services, responses, requests, pidfile,
                 asked, dismissal>>

StatusOf(j) ==    \* no row: Failed
  IF services[j] = "Succeeded" THEN "successful" ELSE "failed"

ReadFinalRes(r) ==
  /\ Reads(r, "state", "status")
  /\ Answers(r, StatusOf(AskedJob(r)))
  /\ UNCHANGED <<unread, brokerVars, process, services, responses, requests, pidfile,
                 asked, dismissal>>

(* _getStatus and _getStatusField return an uninitialized pointer when the *)
(* row has gone: any answer, or none at all.                               *)
GetStatus(r) ==
  /\ Reads(r, "status", "idle")
  /\ Answers(r, IF Recorded(AskedJob(r)) THEN answer[r] ELSE "undefined")
  /\ UNCHANGED <<unread, brokerVars, process, services, responses, requests, pidfile,
                 asked, dismissal>>

GetStatusFile(r) ==
  /\ Reads(r, "result", "idle")
  /\ Answers(r, IF responses[AskedJob(r)] = "none" THEN "ResultNotReady"
                                                   ELSE responses[AskedJob(r)])
  /\ UNCHANGED <<unread, brokerVars, process, services, responses, requests, pidfile,
                 asked, dismissal>>

(* The process of the pid file is killed, if it is still there (a pid is   *)
(* not used again), and the files are removed.                             *)
Kill(r) ==
  LET w == pidfile[AskedJob(r)] IN
  /\ Reads(r, "kill", "remove")
  /\ IF w # NoWorker /\ taken[w] = AskedJob(r) /\ process[w] # "none"
     THEN End(w)
     ELSE UNCHANGED <<process, brokerVars>>
  /\ pidfile' = [pidfile EXCEPT ![AskedJob(r)] = NoWorker]
  /\ UNCHANGED <<unread, services, responses, requests, asked, answer, dismissal>>

Remove(r) ==
  /\ Reads(r, "remove", "idle")
  /\ RemoveService(AskedJob(r))
  /\ Answers(r, "dismissed")
  /\ UNCHANGED <<unread, brokerVars, process, pidfile, asked, dismissal>>

-----------------------------------------------------------------------------
AcceptorNext(j) == Publish(j) \/ Confirm(j) \/ RecordServiceStatus(j)
                   \/ RecordRequestOf(j) \/ Created(j)

WorkerNext(w) == Bind(w) \/ Consume(w) \/ ConsumeFails(w) \/ Resume(w) \/ Ack(w)
                 \/ CheckAvailableExecutionSlot(w) \/ Fork(w) \/ WaitForProcess(w)
                 \/ CloseAndExit(w)

ProcessNext(w) == FetchService(w) \/ Begin(w) \/ ValidateRequest(w)
                  \/ LoadServiceAndRun(w) \/ RemovePidFile(w) \/ RecordFinalResponse(w)
                  \/ UnhandleStatus(w) \/ ReleaseSlot(w) \/ Leave(w)

Fails(w) == LoseConnection(w) \/ WorkerDies(w) \/ ProcessDies(w) \/ ForkFails(w)

MasterNext == MasterWaits \/ MasterForks \/ MasterSleeps

ReaderNext(r) == GetStatusId(r) \/ IsRunning(r) \/ ReadFinalRes(r) \/ GetStatus(r)
                 \/ GetStatusFile(r) \/ Kill(r) \/ Remove(r)

Next ==
  \/ \E j \in Jobs : AcceptorNext(j)
  \/ \E w \in Workers : WorkerNext(w) \/ ProcessNext(w) \/ HandleAck(w) \/ Fails(w)
  \/ \E w \in Workers, m \in Messages : Deliver(m, w)
  \/ MasterNext
  \/ \E r \in Clients : Ask(r)
  \/ \E r \in Clients : ReaderNext(r)

(* The operating system runs every process, the broker delivers, services  *)
(* return; nobody has to send a request or to fail.                        *)
Fairness ==
  /\ \A w \in Workers : WF_vars(WorkerNext(w)) /\ WF_vars(ProcessNext(w))
                        /\ WF_vars(HandleAck(w))
  /\ \A m \in Messages : WF_vars(\E w \in Workers : Deliver(m, w))
  /\ WF_vars(MasterNext)

Spec == Init /\ [][Next]_vars /\ Fairness

-----------------------------------------------------------------------------
(* Properties.                                                             *)

AtWork == {"fetch", "begin", "validate", "run", "unlink", "record", "unhandle",
           "refRecord", "refUnlink", "refUnhandle"}
Working(m) == {w \in Workers : taken[w] = m /\ process[w] \in AtWork}
InHand(m)  == \E w \in Workers : /\ taken[w] = m
                                 /\ \/ worker[w] \in {"ack", "slot", "fork"}
                                    \/ process[w] # "none"
Ended(j) == services[j] \in FinalStates

(* A job is never run by two processes at once, although the broker sends  *)
(* its message again when it lost the acknowledgement: the row of the      *)
(* table workers keeps the second worker out until the first one has       *)
(* written the final state.                                                *)
OneRunAtATime == \A m \in Messages : Cardinality(Working(m)) <= 1

(* A message is acknowledged before its job runs, and still no message is  *)
(* lost unless a worker is killed: until some worker has taken the slot of *)
(* the job, the broker has the message or a worker holds it.               *)
NoJobLost ==
  \A j \in Jobs :
    sent[j] \notin {"idle", "refused"} /\ "worker" \notin faults
      => broker[j] # NowhereAtBroker \/ InHand(j) \/ j \in slots \/ runs[j] > 0

(* The service of a job is called at most once, unless an acknowledgement  *)
(* was lost with its connection or its worker; a job the client was told   *)
(* has failed to be sent may be run as well, but not twice.                *)
AtMostOnce ==
  \A m \in Messages : runs[m] > 1 => faults \cap {"connection", "worker"} # {}

(* A dismissed job is gone for good, whatever its process, that may not    *)
(* have been killed, and its acceptor still write about it.                *)
DismissedStaysGone ==
  \A r \in Clients :
    answer[r] = "dismissed" =>
      LET j == AskedJob(r) IN
        services[j] = NoRow /\ responses[j] = "none" /\ j \notin requests

(* Every message is eventually consumed, whatever workers fail and however *)
(* many the master has left in the pool.                                   *)
EveryMessageConsumed ==
  \A m \in Messages : (broker[m] = Ready) ~> (broker[m] = NowhereAtBroker)

(* A job whose row is there when its process starts is reported over once  *)
(* the process is, unless somebody dismisses the job or the process dies.  *)
EndIsReported ==
  \A j \in Jobs :
    (\E w \in Working(j) : process[w] = "begin" /\ Recorded(j))
      ~> (Ended(j) \/ ~Recorded(j) \/ faults # {})

-----------------------------------------------------------------------------
=============================================================================
