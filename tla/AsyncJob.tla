------------------------------ MODULE AsyncJob ------------------------------
(***************************************************************************)
(* Life of ONE asynchronous OGC API - Processes job in a ZOO-Kernel that   *)
(* keeps its jobs in files (neither USE_AMQP nor RELY_ON_DB).              *)
(*                                                                         *)
(* POST .../execution forks.  The Acceptor (the parent) records the job    *)
(* and answers 201; the Worker (the child) records the job as well, runs   *)
(* the service, publishes the result and clears its traces.  Clients send  *)
(* GET /jobs/{id} (GetStatus), GET /jobs/{id}/results (GetResults) and     *)
(* DELETE /jobs/{id} (Dismiss), each served by a process of its own.       *)
(*                                                                         *)
(* The processes share nothing but the files of the job in main/tmpPath,   *)
(* and no lock protects these, so one action is one access to one file.    *)
(* Progress percentages and the semaphore around the .status file are not  *)
(* part of this module (see ShmLock).  Neither are disk errors (fopen      *)
(* succeeds) nor the reuse of a pid by the operating system.               *)
(***************************************************************************)
EXTENDS Naturals, FiniteSets

CONSTANTS
  Clients,   \* client requests that may be served at the same time
  Acceptor,  \* the process that received the execution request
  Worker,    \* the child it forked
  Ops,       \* operations the clients use
  Listing,   \* TRUE: a client may learn the job id from GET /jobs
  Repeat,    \* TRUE: a client may send a request after another
  Precedes,  \* <<f,g>>: the directory lists f before g; {}: in any order
  Faults     \* what may go wrong: the request is rejected, the service
             \* crashes its worker, getShmLockId fails

Operations == {"GetStatus", "GetResults", "Dismiss"}

ASSUME ProcessAssumption ==
  /\ Acceptor # Worker
  /\ Acceptor \notin Clients
  /\ Worker \notin Clients
  /\ {Acceptor, Worker} \cap {"absent", "empty"} = {}
ASSUME OptionAssumption ==
  /\ Ops \subseteq Operations
  /\ Listing \in BOOLEAN
  /\ Repeat \in BOOLEAN
  /\ Faults \subseteq {"reject", "crash", "lock"}

VARIABLES
  files,    \* content of each file of the job
  pc,       \* what each process does next
  op,       \* operation a client is served
  seen,     \* status a reader found (statusInfo in runGetStatus)
  target,   \* content of the .pid file as read by a dismissing client
  listed,   \* files a dismissing client still has to remove
  answer,   \* last answer of each request process
  outcome,  \* eres, as returned by loadServiceAndRun
  known     \* a client holds the job id

vars == <<files, pc, op, seen, target, listed, answer, outcome, known>>
requestVars == <<op, seen, target, listed, answer, known>>

Processes == Clients \union {Acceptor, Worker}
Readers   == Clients \union {Acceptor}

-----------------------------------------------------------------------------
(* Files.  Besides Absent and Empty (opened with "w+", nothing flushed     *)
(* yet) a content says only what a reader can tell apart.                  *)

Absent == "absent"
Empty  == "empty"

(* Complete result files, as GET /jobs/{id}/results tells them apart: one   *)
(* of at most 15 bytes is "short", one with the members "code" and         *)
(* "description" is "coded".  An exception the kernel printed has the      *)
(* members "title", "type" and "detail".                                   *)
Documents == {"document", "coded", "short", "exception"}

(* usid.sid, usid.pid, usid_lenv.cfg, usid_status.json, usid.status,       *)
(* usid.json, <service>_final_usid.json and usid.res, in this order.       *)
FileNames == {"sid", "pid", "lenv", "stat", "progress", "resp", "final", "res"}

Contents == [ sid      |-> {"osid"},
              pid      |-> {Acceptor, Worker},
              lenv     |-> {"lenv"},
              stat     |-> {"accepted", "running", "successful", "failed"},
              progress |-> {"percent"},
              resp     |-> {"partial"} \union Documents,
              final    |-> Documents,
              res      |-> {"Succeeded", "Failed"} ]

Statuses == {"running", "successful", "failed"}
Answers  == {"none", "NoSuchJob", "ResultNotReady", "NotYetProduced", "document",
             "torn", "gone", "exception", "serviceFailed", "dismissed",
             "cannotRemove"} \union Statuses

Outcomes == {"Succeeded", "Failed"}
RawStatus(out) == out    \* mutant: the kernel's word, not the API's
StatusOf(out) == IF out = "Succeeded" THEN "successful" ELSE "failed"

(* What printJResult prints: the exception of a failed service; else the   *)
(* JSON document, or a raw output: any bytes, none at all, or an exception *)
(* when the output has no value.                                           *)
DocumentsOf(out) == IF out = "Succeeded" THEN Documents \union {Empty}
                                         ELSE {"exception"}

Goto(p, from, to) == pc[p] = from /\ pc' = [pc EXCEPT ![p] = to]

OpenW(f)  == files' = [files EXCEPT ![f] = Empty]       \* fopen(f,"w+")
(* A write goes to the open inode: unlinked meanwhile, the name stays      *)
(* absent.  (Unlinked and created again by the other side, it would reach  *)
(* the new file here; both sides of the fork write the same words.)        *)
Write(f, v) == files' = [files EXCEPT ![f] = IF @ = Absent THEN Absent ELSE v]
Unlink(f) == files' = [files EXCEPT ![f] = Absent]

Ended == {"done", "aborted", "dead"}

Init ==
  /\ files = [f \in FileNames |-> Absent]
  /\ pc = [p \in Processes |-> IF p = Acceptor THEN "attrs"
                           ELSE IF p = Worker THEN "sidOpen" ELSE "idle"]
  /\ op = [p \in Readers |-> "GetStatus"]
  /\ seen = [p \in Readers |-> "running"]
  /\ target = [c \in Clients |-> Absent]
  /\ listed = [c \in Clients |-> {}]
  /\ answer = [p \in Readers |-> "none"]
  /\ outcome = "none"
  /\ known = FALSE

-----------------------------------------------------------------------------
(* Helpers that both sides of the fork call.                               *)

(* createSPidFile: .sid then .pid; the pid is the one of the CALLER.       *)
CreateSPidFile(p) ==
  /\ \/ Goto(p, "sidOpen", "sidWrite") /\ OpenW("sid")
     \/ Goto(p, "sidWrite", "pidOpen") /\ Write("sid", "osid")
     \/ Goto(p, "pidOpen", "pidWrite") /\ OpenW("pid")
     \/ /\ Goto(p, "pidWrite", IF p = Acceptor THEN "lenvOpen" ELSE "respOpen")
        /\ Write("pid", p)
  /\ UNCHANGED <<requestVars, outcome>>

(* createLenvFile, dumpMapsToFile.                                         *)
CreateLenvFile(p) ==
  /\ \/ Goto(p, "lenvOpen", "lenvWrite") /\ OpenW("lenv")
     \/ /\ Goto(p, "lenvWrite", IF p = Acceptor THEN "sidRead" ELSE "validate")
        /\ Write("lenv", "lenv")
  /\ UNCHANGED <<requestVars, outcome>>

(* json_getStatusAttributes dereferences the Identifier it expects in the  *)
(* lenv file: present but not flushed yet, it ends the process.            *)
Attributes(p, from, to) ==
  Goto(p, from, IF files["lenv"] = Empty THEN "dead" ELSE to)

(* json_sig_handler prints an exception to stdout, if it gets that far,    *)
(* and exits.                                                              *)
Collapse(stdout) == UNCHANGED files \/ Write(stdout, "exception")

(* createStatusFile: the acceptor's, and the worker's before and after the *)
(* service ran.                                                            *)
StatusFileContent(p) == IF p = Acceptor THEN "accepted"
                        ELSE IF outcome = "none" THEN "running"
                        ELSE StatusOf(outcome)

AfterStatusFile(p) == IF p = Acceptor THEN "sidOpen"
                      ELSE IF outcome = "none" THEN "finalOpen"
                      ELSE "finalWrite"

CreateStatusFile(p) ==
  /\ \/ /\ Attributes(p, "attrs", "statOpen")
        /\ IF p = Worker /\ files["lenv"] = Empty
             THEN Collapse(IF outcome = "none" THEN "resp" ELSE "final")
             ELSE UNCHANGED files
     \/ Goto(p, "statOpen", "statWrite") /\ OpenW("stat")
     \/ /\ Goto(p, "statWrite", AfterStatusFile(p))
        /\ Write("stat", StatusFileContent(p))
  /\ UNCHANGED <<requestVars, outcome>>

-----------------------------------------------------------------------------
(* The worker.                                                             *)

(* stdout becomes usid.json, then <service>_final_usid.json.               *)
RedirectOutput ==
  /\ \/ Goto(Worker, "respOpen", "attrs") /\ OpenW("resp")
     \/ Goto(Worker, "finalOpen", "lenvOpen") /\ OpenW("final")
  /\ UNCHANGED <<requestVars, outcome>>

(* validateRequest: on an invalid request the child prints the exception   *)
(* and returns at once, leaving every file where it is.                    *)
ValidateRequest ==
  /\ \/ Goto(Worker, "validate", "run") /\ UNCHANGED files
     \/ /\ "reject" \in Faults
        /\ Goto(Worker, "validate", "aborted")
        /\ Write("final", "exception")
  /\ UNCHANGED <<requestVars, outcome>>

(* The service calls updateStatus as often as it likes.                    *)
UpdateStatus ==
  /\ \/ Goto(Worker, "run", "progressWrite") /\ OpenW("progress")
     \/ Goto(Worker, "progressWrite", "run") /\ Write("progress", "percent")
  /\ UNCHANGED <<requestVars, outcome>>

(* loadServiceAndRun: the service returns or brings its process down.      *)
RunService ==
  /\ \/ /\ Goto(Worker, "run", "attrs")
        /\ outcome' \in Outcomes
        /\ UNCHANGED files
     \/ /\ "crash" \in Faults
        /\ Goto(Worker, "run", "dead")
        /\ Collapse("final")
        /\ UNCHANGED outcome
  /\ UNCHANGED requestVars

(* Mutant: the .pid file goes before the result is copied.                 *)
PrintResultRemovePid ==
  /\ Goto(Worker, "finalWrite", "dumpOpen")
  /\ \E d \in DocumentsOf(outcome) :
       files' = [files EXCEPT !["final"] = d, !["pid"] = Absent]
  /\ UNCHANGED <<requestVars, outcome>>

(* printJResult and the flush of stdout.                                   *)
PrintResult ==
  /\ Goto(Worker, "finalWrite", "dumpOpen")
  /\ \E d \in DocumentsOf(outcome) : Write("final", d)
  /\ UNCHANGED <<requestVars, outcome>>

(* dumpBackFinalFile copies the final file over usid.json; runRequest      *)
(* returns when there is nothing to copy or the job's semaphore cannot be  *)
(* had (see ShmLock).                                                      *)
DumpBackFinalFile ==
  /\ \/ /\ files["final"] # Absent
        /\ Goto(Worker, "dumpOpen", "dumpWrite")
        /\ OpenW("resp")
     \/ /\ files["final"] = Absent \/ "lock" \in Faults
        /\ Goto(Worker, "dumpOpen", "aborted")
        /\ UNCHANGED files
     \/ Goto(Worker, "dumpWrite", "dumpClose") /\ Write("resp", "partial")
     \/ /\ Goto(Worker, "dumpClose", "pidUnlink")
        /\ \E d \in DocumentsOf(outcome) :
             /\ files["final"] \in {d, Absent}   \* still open when unlinked
             /\ Write("resp", d)
  /\ UNCHANGED <<requestVars, outcome>>

(* Mutant: the .pid file is forgotten.                                     *)
KeepPidFile ==
  /\ Goto(Worker, "pidUnlink", "resOpen")
  /\ UNCHANGED <<files, requestVars, outcome>>

RemovePidFile ==
  /\ Goto(Worker, "pidUnlink", "resOpen")
  /\ Unlink("pid")
  /\ UNCHANGED <<requestVars, outcome>>

FinalStatusFallsThrough == "Succeeded"   \* mutant: a case without its break
FinalStatus == outcome

(* dumpMapsToFile(bmap,fbkpres,1): the final status.                       *)
WriteFinalStatus ==
  /\ \/ Goto(Worker, "resOpen", "resWrite") /\ OpenW("res")
     \/ Goto(Worker, "resWrite", "finalUnlink") /\ Write("res", FinalStatus)
  /\ UNCHANGED <<requestVars, outcome>>

(* zUnlink(fbkp1), unhandleStatus and exit.                                *)
CleanUp ==
  /\ \/ Goto(Worker, "finalUnlink", "progressUnlink") /\ Unlink("final")
     \/ Goto(Worker, "progressUnlink", "done") /\ Unlink("progress")
  /\ UNCHANGED <<requestVars, outcome>>

WorkerNext ==
  \/ CreateSPidFile(Worker)
  \/ CreateLenvFile(Worker)
  \/ CreateStatusFile(Worker)
  \/ RedirectOutput
  \/ ValidateRequest
  \/ UpdateStatus
  \/ RunService
  \/ PrintResult
  \/ DumpBackFinalFile
  \/ RemovePidFile
  \/ WriteFinalStatus
  \/ CleanUp

(* The acceptor, up to the printJobStatus call that it shares with         *)
(* GetStatus requests.                                                     *)
AcceptorNext ==
  \/ CreateStatusFile(Acceptor)
  \/ CreateSPidFile(Acceptor)
  \/ CreateLenvFile(Acceptor)

-----------------------------------------------------------------------------
(* Requests about the job.                                                 *)

(* The acceptor's answer is what tells its client the job id.              *)
Answer(p, a) ==
  /\ pc' = [pc EXCEPT ![p] = IF p = Acceptor THEN "done" ELSE "idle"]
  /\ answer' = [answer EXCEPT ![p] = a]
  /\ known' = (known \/ (p = Acceptor /\ a \in Statuses))

Continue(p, to) ==
  /\ pc' = [pc EXCEPT ![p] = to]
  /\ UNCHANGED <<answer, known>>

(* printJobList reports a job as soon as its usid.json exists (it may fail *)
(* while the lenv file is empty, which is left out).                       *)
InJobList == Listing /\ files["resp"] # Absent

Request(c) ==
  /\ known \/ InJobList
  /\ known' = TRUE
  /\ Repeat \/ answer[c] = "none"
  /\ Goto(c, "idle", "sidRead")
  /\ \E o \in Ops : op' = [op EXCEPT ![c] = o]
  /\ answer' = [answer EXCEPT ![c] = "none"]
  /\ UNCHANGED <<files, seen, target, listed, outcome>>

(* getStatusId: no .sid file, no job.                                      *)
GetStatusId(p) ==
  /\ pc[p] = "sidRead"
  /\ IF files["sid"] = Absent THEN Answer(p, "NoSuchJob")
     ELSE Continue(p, IF op[p] = "Dismiss" THEN "pidFetch" ELSE "pidRead")
  /\ UNCHANGED <<files, op, seen, target, listed, outcome>>

(* isRunning: the .pid file exists, whatever it holds.                     *)
RunningUnlessEmpty == files["pid"] \notin {Absent, Empty}   \* mutant
Running == files["pid"] # Absent

IsRunning(p) ==
  /\ pc[p] = "pidRead"
  /\ \/ /\ op[p] = "GetStatus"
        /\ Running
        /\ Continue(p, "report")
        /\ seen' = [seen EXCEPT ![p] = "running"]
     \/ /\ op[p] = "GetStatus"
        /\ ~Running
        /\ Continue(p, "resStat")
        /\ UNCHANGED seen
     \/ /\ op[p] \in {"GetResults", "GetResult"}
        /\ Running
        /\ Answer(p, "ResultNotReady")
        /\ UNCHANGED seen
     \/ /\ op[p] = "GetResults"
        /\ ~Running
        /\ Continue(p, "docStat")
        /\ UNCHANGED seen
     \/ /\ op[p] = "GetResult"
        /\ ~Running
        /\ Answer(p, "NotYetProduced")
        /\ UNCHANGED seen
  /\ UNCHANGED <<files, op, target, listed, outcome>>

SucceededByDefault == "successful"   \* mutant
StatusByDefault == "failed"

(* readFinalRes: a missing or empty .res file means "Failed"; one that     *)
(* vanishes between stat and conf_read leaves no status to dereference.    *)
ReadFinalRes(p) ==
  /\ \/ /\ pc[p] = "resStat"
        /\ files["res"] \in {Absent, Empty}
        /\ seen' = [seen EXCEPT ![p] = StatusByDefault]
        /\ Continue(p, "message")
     \/ /\ pc[p] = "resStat"
        /\ files["res"] \notin {Absent, Empty}
        /\ Continue(p, "resRead")
        /\ UNCHANGED seen
     \/ /\ pc[p] = "resRead"
        /\ files["res"] \in {Absent, Empty}
        /\ Continue(p, "dead")
        /\ UNCHANGED seen
     \/ /\ pc[p] = "resRead"
        /\ files["res"] \notin {Absent, Empty}
        /\ seen' = [seen EXCEPT ![p] = StatusOf(files["res"])]
        /\ Continue(p, IF files["res"] = "Failed" THEN "message" ELSE "report")
  /\ UNCHANGED <<files, op, target, listed, outcome>>

(* createStatus takes the message of a failed job from usid_status.json;   *)
(* without one it uses an uninitialised pointer.                           *)
FailureMessage(p) ==
  /\ pc[p] = "message"
  /\ \/ Continue(p, "report")
     \/ files["stat"] \in {Absent, Empty} /\ Continue(p, "dead")
  /\ UNCHANGED <<files, op, seen, target, listed, outcome>>

(* printJobStatus, createStatus: the answer to GetStatus, or the 201.      *)
ReportStatus(p) ==
  /\ pc[p] = "report"
  /\ IF files["lenv"] = Empty THEN Continue(p, "dead")
                              ELSE Answer(p, seen[p])
  /\ UNCHANGED <<files, op, seen, target, listed, outcome>>

(* GET /jobs/{id}/results: a result file of at most 15 bytes is taken for  *)
(* a failure, a coded one for an exception; the client is sent to any      *)
(* other.  Without one, runGetStatus is asked for a GetResult: it looks at *)
(* the .sid and .pid files once more and, among the files of the job,      *)
(* for an XML document, which this job never has.                          *)
Served(content) == IF content = Absent THEN "gone"
                   ELSE IF content = "coded" THEN "exception"
                   ELSE IF content \in {"document", "exception"} THEN "document"
                   ELSE "torn"

GetResults(c) ==
  /\ \/ /\ pc[c] = "docStat"
        /\ files["resp"] \in {Absent, Empty}
        /\ Continue(c, "sidRead")
        /\ op' = [op EXCEPT ![c] = "GetResult"]
     \/ /\ pc[c] = "docStat"
        /\ files["resp"] = "short"
        /\ Answer(c, "serviceFailed")
        /\ UNCHANGED op
     \/ /\ pc[c] = "docStat"
        /\ files["resp"] \notin {Absent, Empty, "short"}
        /\ Continue(c, "docRead")
        /\ UNCHANGED op
     \/ /\ pc[c] = "docRead"
        /\ Answer(c, Served(files["resp"]))
        /\ UNCHANGED op
  /\ UNCHANGED <<files, seen, target, listed, outcome>>

(* runDismiss: read the .pid file, ...                                     *)
FetchPid(c) ==
  /\ Goto(c, "pidFetch", "kill")
  /\ target' = [target EXCEPT ![c] = files["pid"]]
  /\ UNCHANGED <<files, op, seen, listed, answer, outcome, known>>

VictimsSpared(pid) == {}   \* mutant: nobody is killed

(* ... kill(atoi(content),SIGKILL) -- with nothing in the file, that is    *)
(* kill(0,SIGKILL): the whole process group, the caller included -- ...    *)
Victims(pid) == IF pid = Absent THEN {}
                ELSE IF pid = Empty THEN Processes
                ELSE {pid}

Kill(c) ==
  /\ pc[c] = "kill"
  /\ pc' = [p \in Processes |->
              IF p \in Victims(target[c]) /\ pc[p] \notin Ended \union {"idle"}
                THEN "dead"
              ELSE IF p = c THEN "opendir" ELSE pc[p]]
  /\ UNCHANGED <<files, requestVars, outcome>>

(* ... list the directory (one snapshot of it), ...                        *)
ListFiles(c) ==
  /\ Goto(c, "opendir", "unlink")
  /\ listed' = [listed EXCEPT ![c] = {f \in FileNames : files[f] # Absent}]
  /\ UNCHANGED <<files, op, seen, target, answer, outcome, known>>

FirstOf(fs) == {f \in fs : \A g \in fs : <<g, f>> \notin Precedes}

(* ... and remove what it held, in the order it was listed.  A file        *)
(* gone meanwhile makes unlink fail, which ends the request, unless the    *)
(* stat buffer, left unset, happens to look like a directory.              *)
RemoveFile(c) ==
  /\ pc[c] = "unlink"
  /\ \E f \in FirstOf(listed[c]) :
       \/ /\ Unlink(f)
          /\ listed' = [listed EXCEPT ![c] = @ \ {f}]
          /\ Continue(c, "unlink")
       \/ /\ files[f] = Absent
          /\ listed' = [listed EXCEPT ![c] = {}]
          /\ Answer(c, "cannotRemove")
          /\ UNCHANGED files
  /\ UNCHANGED <<op, seen, target, outcome>>

Dismissed(c) ==
  /\ pc[c] = "unlink"
  /\ listed[c] = {}
  /\ Answer(c, "dismissed")
  /\ UNCHANGED <<files, op, seen, target, listed, outcome>>

StatusNext(p) ==
  \/ GetStatusId(p)
  \/ IsRunning(p)
  \/ ReadFinalRes(p)
  \/ FailureMessage(p)
  \/ ReportStatus(p)

DismissNext(c) ==
  \/ FetchPid(c)
  \/ Kill(c)
  \/ ListFiles(c)
  \/ RemoveFile(c)
  \/ Dismissed(c)

Serve(p) == StatusNext(p) \/ (p \in Clients /\ (GetResults(p) \/ DismissNext(p)))

Next ==
  \/ WorkerNext
  \/ AcceptorNext
  \/ \E c \in Clients : Request(c)
  \/ \E p \in Readers : Serve(p)

Spec == Init /\ [][Next]_vars

(* The operating system keeps scheduling both sides of the fork, and every *)
(* request that was accepted is served; no client has to send any.         *)
Fairness ==
  /\ WF_vars(WorkerNext)
  /\ SF_vars(RunService)    \* a service does not report progress forever
  /\ WF_vars(AcceptorNext)
  /\ \A p \in Readers : WF_vars(Serve(p))

FairSpec == Spec /\ Fairness

-----------------------------------------------------------------------------
(* Properties.                                                             *)

Labels ==
  Ended \union
  {"idle", "attrs", "statOpen", "statWrite", "sidOpen", "sidWrite", "pidOpen",
   "pidWrite", "lenvOpen", "lenvWrite", "respOpen", "finalOpen", "validate",
   "run", "progressWrite", "finalWrite", "dumpOpen", "dumpWrite", "dumpClose",
   "pidUnlink", "resOpen", "resWrite", "finalUnlink", "progressUnlink",
   "sidRead", "pidRead", "resStat", "resRead", "message", "report", "docStat",
   "docRead", "pidFetch", "kill", "opendir", "unlink"}

AnyContent == {Absent, Empty} \union UNION {Contents[f] : f \in FileNames}

FilesOK ==
  /\ files \in [FileNames -> AnyContent]
  /\ \A f \in FileNames : files[f] \in {Absent, Empty} \union Contents[f]

(* Every variable keeps to its type: each file of a job only ever holds    *)
(* what its writers put there, and requests answer in the API's words.     *)
TypeOK ==
  /\ FilesOK
  /\ pc \in [Processes -> Labels]
  /\ op \in [Readers -> Operations \union {"GetResult"}]
  /\ seen \in [Readers -> Statuses]
  /\ target \in [Clients -> {Absent, Empty, Acceptor, Worker}]
  /\ listed \in [Clients -> SUBSET FileNames]
  /\ answer \in [Readers -> Answers]
  /\ outcome \in {"none"} \union Outcomes
  /\ known \in BOOLEAN

(* A job is reported successful only if its service succeeded, whatever    *)
(* the two sides of the fork, dismissals and a crash do to the .pid and    *)
(* .res files between the reads of runGetStatus.                           *)
SuccessIsTrue ==
  \A p \in Readers : answer[p] = "successful" => outcome = "Succeeded"

(* While nobody dismisses the job, GET /jobs/{id}/results only answers     *)
(* from the complete result of the service, never from a file that is      *)
(* missing, half written or left by an earlier step: usid.json is          *)
(* rewritten by dumpBackFinalFile under a reader's feet, and isRunning is  *)
(* all that keeps the reader away.                                         *)
HonestResults ==
  \A c \in Clients :
    /\ answer[c] \notin {"torn", "gone"}
    /\ answer[c] \in {"document", "exception", "serviceFailed"} =>
         outcome # "none" /\ files["resp"] \in DocumentsOf(outcome)

(* Once a dismissal that killed the worker has been answered, no file of   *)
(* the job is left and none comes back, also when several clients dismiss  *)
(* and read the job at the same time (runDismiss).                         *)
DismissIsFinal ==
  \A c \in Clients :
    answer[c] = "dismissed" /\ target[c] = Worker =>
      \A f \in FileNames : files[f] = Absent

(* What an atomic GetStatus would answer now.                              *)
View == IF files["sid"] = Absent THEN "NoSuchJob"
        ELSE IF Running THEN "running"
        ELSE IF files["res"] \in {Absent, Empty} THEN "failed"
        ELSE StatusOf(files["res"])

(* If the worker is neither killed nor made to give up and the acceptor's  *)
(* own pid is not the last one written to the .pid file, clients come to   *)
(* read the true outcome of the service and never anything else again (the *)
(* closing section of runRequest: unlink of .pid, then dump of .res).      *)
EventuallyReported ==
  [](pc[Worker] \notin {"dead", "aborted"}) /\ <>[](files["pid"] # Acceptor)
    => <>[](outcome # "none" /\ View = StatusOf(outcome))
=============================================================================
