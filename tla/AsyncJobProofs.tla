--------------------------- MODULE AsyncJobProofs ---------------------------
(***************************************************************************)
(* Proofs about AsyncJob and AsyncJobView, for every set of clients, every *)
(* choice of operations and faults, and every order of the directory.  The *)
(* second part is about jobs that nobody dismisses, with clients that may  *)
(* have found the job in GET /jobs before the 201: results are honest, a   *)
(* status is a snapshot, and AsyncJob implements JobView.                  *)
(***************************************************************************)
EXTENDS AsyncJobView, TLAPS

-----------------------------------------------------------------------------
(* The three ways a step changes a file keep its type.                     *)

LEMMA FileChange ==
  ASSUME FilesOK,
         NEW f \in FileNames,
         NEW v \in {Absent, Empty} \union Contents[f],
         files' = [files EXCEPT ![f] = v]
  PROVE  FilesOK'
<1>1. v \in AnyContent
  BY DEF AnyContent
<1>2. files' \in [FileNames -> AnyContent]
  BY <1>1 DEF FilesOK
<1>. QED  BY <1>2 DEF FilesOK

LEMMA OpenWType ==
  ASSUME FilesOK, NEW f \in FileNames, OpenW(f)
  PROVE  FilesOK'
BY FileChange DEF OpenW

LEMMA UnlinkType ==
  ASSUME FilesOK, NEW f \in FileNames, Unlink(f)
  PROVE  FilesOK'
BY FileChange DEF Unlink

LEMMA WriteType ==
  ASSUME FilesOK, NEW f \in FileNames, NEW v \in {Empty} \union Contents[f], Write(f, v)
  PROVE  FilesOK'
<1>1. files' = [files EXCEPT ![f] = IF files[f] = Absent THEN Absent ELSE v]
  BY DEF Write
<1>2. (IF files[f] = Absent THEN Absent ELSE v) \in {Absent, Empty} \union Contents[f]
  OBVIOUS
<1>. QED  BY <1>1, <1>2, FileChange

-----------------------------------------------------------------------------
(* Type correctness.                                                       *)

LEMMA GotoType ==
  ASSUME TypeOK, NEW p \in Processes, NEW from, NEW to \in Labels, Goto(p, from, to)
  PROVE  pc' \in [Processes -> Labels]
BY DEF TypeOK, Goto

LEMMA AnswerType ==
  ASSUME TypeOK, NEW p \in Readers, NEW a \in Answers, Answer(p, a)
  PROVE  /\ pc' \in [Processes -> Labels]
         /\ answer' \in [Readers -> Answers]
         /\ known' \in BOOLEAN
<1>1. pc' \in [Processes -> Labels]
  BY DEF TypeOK, Answer, Readers, Processes, Labels, Ended
<1>2. answer' \in [Readers -> Answers]
  BY DEF TypeOK, Answer
<1>3. known' \in BOOLEAN
  BY Zenon DEF Answer
<1>. QED  BY <1>1, <1>2, <1>3

LEMMA ContinueType ==
  ASSUME TypeOK, NEW p \in Readers, NEW to \in Labels, Continue(p, to)
  PROVE  /\ pc' \in [Processes -> Labels]
         /\ answer' \in [Readers -> Answers]
         /\ known' \in BOOLEAN
BY DEF TypeOK, Continue, Readers, Processes

LEMMA InitType == Init => TypeOK
<1>. SUFFICES ASSUME Init PROVE TypeOK
  OBVIOUS
<1>1. FilesOK
  BY DEF Init, FilesOK, AnyContent
<1>2. pc \in [Processes -> Labels]
  BY DEF Init, Processes, Labels
<1>3. /\ op \in [Readers -> Operations \union {"GetResult"}]
      /\ seen \in [Readers -> Statuses]
      /\ answer \in [Readers -> Answers]
  BY DEF Init, Readers, Operations, Statuses, Answers
<1>4. /\ target \in [Clients -> {Absent, Empty, Acceptor, Worker}]
      /\ listed \in [Clients -> SUBSET FileNames]
  BY DEF Init
<1>5. outcome \in {"none"} \union Outcomes /\ known \in BOOLEAN
  BY DEF Init
<1>. QED  BY <1>1, <1>2, <1>3, <1>4, <1>5 DEF TypeOK

(* What the two sides of the fork leave alone.                             *)
LEMMA ForkType ==
  ASSUME TypeOK, UNCHANGED requestVars, FilesOK',
         pc' \in [Processes -> Labels], outcome' \in {"none"} \union Outcomes
  PROVE  TypeOK'
BY DEF TypeOK, requestVars

(* What a request about the job leaves alone.                              *)
LEMMA RequestType ==
  ASSUME TypeOK, FilesOK', UNCHANGED outcome,
         pc' \in [Processes -> Labels],
         answer' \in [Readers -> Answers], known' \in BOOLEAN,
         op' \in [Readers -> Operations \union {"GetResult"}],
         seen' \in [Readers -> Statuses],
         target' \in [Clients -> {Absent, Empty, Acceptor, Worker}],
         listed' \in [Clients -> SUBSET FileNames]
  PROVE  TypeOK'
BY DEF TypeOK

LEMMA CreateSPidFileType ==
  ASSUME TypeOK, NEW p \in {Acceptor, Worker}, CreateSPidFile(p)
  PROVE  TypeOK'
<1>1. p \in Processes /\ FilesOK /\ outcome \in {"none"} \union Outcomes
  BY DEF Processes, TypeOK
<1>2. UNCHANGED requestVars /\ UNCHANGED outcome
  BY DEF CreateSPidFile
<1>3. {"sid", "pid"} \subseteq FileNames /\ "osid" \in Contents["sid"] /\ p \in Contents["pid"]
  BY DEF FileNames, Contents
<1>4. CASE Goto(p, "sidOpen", "sidWrite") /\ OpenW("sid")
  BY <1>1, <1>2, <1>3, <1>4, GotoType, OpenWType, ForkType DEF Labels
<1>5. CASE Goto(p, "sidWrite", "pidOpen") /\ Write("sid", "osid")
  BY <1>1, <1>2, <1>3, <1>5, GotoType, WriteType, ForkType DEF Labels
<1>6. CASE Goto(p, "pidOpen", "pidWrite") /\ OpenW("pid")
  BY <1>1, <1>2, <1>3, <1>6, GotoType, OpenWType, ForkType DEF Labels
<1>7. CASE Goto(p, "pidWrite", IF p = Acceptor THEN "lenvOpen" ELSE "respOpen")
           /\ Write("pid", p)
  BY <1>1, <1>2, <1>3, <1>7, GotoType, WriteType, ForkType DEF Labels
<1>. QED  BY <1>4, <1>5, <1>6, <1>7 DEF CreateSPidFile

LEMMA CreateLenvFileType ==
  ASSUME TypeOK, NEW p \in {Acceptor, Worker}, CreateLenvFile(p)
  PROVE  TypeOK'
<1>1. p \in Processes /\ FilesOK /\ outcome \in {"none"} \union Outcomes
  BY DEF Processes, TypeOK
<1>2. UNCHANGED requestVars /\ UNCHANGED outcome
  BY DEF CreateLenvFile
<1>3. "lenv" \in FileNames /\ "lenv" \in Contents["lenv"]
  BY DEF FileNames, Contents
<1>4. CASE Goto(p, "lenvOpen", "lenvWrite") /\ OpenW("lenv")
  BY <1>1, <1>2, <1>3, <1>4, GotoType, OpenWType, ForkType DEF Labels
<1>5. CASE Goto(p, "lenvWrite", IF p = Acceptor THEN "sidRead" ELSE "validate")
           /\ Write("lenv", "lenv")
  BY <1>1, <1>2, <1>3, <1>5, GotoType, WriteType, ForkType DEF Labels
<1>. QED  BY <1>4, <1>5 DEF CreateLenvFile

LEMMA CreateStatusFileType ==
  ASSUME TypeOK, NEW p \in {Acceptor, Worker}, CreateStatusFile(p)
  PROVE  TypeOK'
<1>1. p \in Processes /\ FilesOK /\ outcome \in {"none"} \union Outcomes
  BY DEF Processes, TypeOK
<1>2. UNCHANGED requestVars /\ UNCHANGED outcome
  BY DEF CreateStatusFile
<1>3. /\ {"stat", "resp", "final"} \subseteq FileNames
      /\ "exception" \in Contents["resp"] /\ "exception" \in Contents["final"]
  BY DEF FileNames, Contents, Documents
<1>4. CASE Goto(p, "attrs", "statOpen") /\ UNCHANGED files
  BY <1>1, <1>2, <1>4, GotoType, ForkType DEF Labels, FilesOK
<1>5. CASE /\ Attributes(p, "attrs", "statOpen")
           /\ IF p = Worker /\ files["lenv"] = Empty
                THEN Collapse(IF outcome = "none" THEN "resp" ELSE "final")
                ELSE UNCHANGED files
  <2>1. Goto(p, "attrs", IF files["lenv"] = Empty THEN "dead" ELSE "statOpen")
    BY <1>5 DEF Attributes
  <2>2. pc' \in [Processes -> Labels]
    BY <2>1, <1>1, GotoType DEF Labels, Ended
  <2>3. UNCHANGED files \/ \E f \in {"resp", "final"} : Write(f, "exception")
    BY <1>5 DEF Collapse
  <2>4. FilesOK'
    <3>1. CASE UNCHANGED files
      BY <3>1, <1>1 DEF FilesOK
    <3>2. CASE \E f \in {"resp", "final"} : Write(f, "exception")
      BY <3>2, <1>1, <1>3, WriteType
    <3>. QED  BY <2>3, <3>1, <3>2
  <2>. QED  BY <1>1, <1>2, <2>2, <2>4, ForkType
<1>6. CASE Goto(p, "statOpen", "statWrite") /\ OpenW("stat")
  BY <1>1, <1>2, <1>3, <1>6, GotoType, OpenWType, ForkType DEF Labels
<1>7. CASE Goto(p, "statWrite", AfterStatusFile(p)) /\ Write("stat", StatusFileContent(p))
  <2>1. AfterStatusFile(p) \in Labels
    BY DEF AfterStatusFile, Labels
  <2>2. StatusFileContent(p) \in Contents["stat"]
    BY <1>1 DEF StatusFileContent, StatusOf, Contents
  <2>. QED  BY <1>1, <1>2, <1>3, <1>7, <2>1, <2>2, GotoType, WriteType, ForkType
<1>. QED  BY <1>5, <1>6, <1>7 DEF CreateStatusFile

LEMMA WorkerOnlyType ==
  ASSUME TypeOK,
         RedirectOutput \/ ValidateRequest \/ UpdateStatus \/ RunService \/ PrintResult
  PROVE  TypeOK'
<1>1. Worker \in Processes /\ FilesOK /\ outcome \in {"none"} \union Outcomes
  BY DEF Processes, TypeOK
<1>2. UNCHANGED requestVars
  BY DEF RedirectOutput, ValidateRequest, UpdateStatus, RunService, PrintResult
<1>3. /\ {"resp", "final", "progress"} \subseteq FileNames
      /\ "exception" \in Contents["final"]
      /\ "percent" \in Contents["progress"]
  BY DEF FileNames, Contents, Documents
<1>4. pc' \in [Processes -> Labels]
  <2>1. \E from, to \in Labels : Goto(Worker, from, to)
    BY DEF RedirectOutput, ValidateRequest, UpdateStatus, RunService, PrintResult,
           Labels, Ended
  <2>. QED  BY <2>1, <1>1, GotoType
<1>5. outcome' \in {"none"} \union Outcomes
  BY <1>1 DEF RedirectOutput, ValidateRequest, UpdateStatus, RunService, PrintResult
<1>6. FilesOK'
  <2>1. CASE RedirectOutput
    BY <2>1, <1>1, <1>3, OpenWType DEF RedirectOutput
  <2>2. CASE ValidateRequest
    <3>1. UNCHANGED files \/ Write("final", "exception")
      BY <2>2 DEF ValidateRequest
    <3>. QED  BY <3>1, <1>1, <1>3, WriteType DEF FilesOK
  <2>3. CASE UpdateStatus
    BY <2>3, <1>1, <1>3, OpenWType, WriteType DEF UpdateStatus
  <2>4. CASE RunService
    <3>1. UNCHANGED files \/ Write("final", "exception")
      BY <2>4 DEF RunService, Collapse
    <3>. QED  BY <3>1, <1>1, <1>3, WriteType DEF FilesOK
  <2>5. CASE PrintResult
    <3>1. PICK d \in DocumentsOf(outcome) : Write("final", d)
      BY <2>5 DEF PrintResult
    <3>2. d \in {Empty} \union Contents["final"]
      BY DEF DocumentsOf, Contents, Documents
    <3>. QED  BY <3>1, <3>2, <1>1, <1>3, WriteType
  <2>. QED  BY <2>1, <2>2, <2>3, <2>4, <2>5
<1>. QED  BY <1>2, <1>4, <1>5, <1>6, ForkType

LEMMA WorkerEndType ==
  ASSUME TypeOK,
         DumpBackFinalFile \/ RemovePidFile \/ WriteFinalStatus \/ CleanUp,
         pc[Worker] = "resWrite" => outcome # "none"
  PROVE  TypeOK'
<1>1. Worker \in Processes /\ FilesOK /\ outcome \in {"none"} \union Outcomes
  BY DEF Processes, TypeOK
<1>2. UNCHANGED requestVars /\ UNCHANGED outcome
  BY DEF DumpBackFinalFile, RemovePidFile, WriteFinalStatus, CleanUp
<1>3. /\ {"resp", "final", "progress", "pid", "res"} \subseteq FileNames
      /\ "partial" \in Contents["resp"]
      /\ Outcomes \subseteq Contents["res"]
  BY DEF FileNames, Contents, Outcomes
<1>4. pc' \in [Processes -> Labels]
  <2>1. \E from, to \in Labels : Goto(Worker, from, to)
    BY DEF DumpBackFinalFile, RemovePidFile, WriteFinalStatus, CleanUp, Labels, Ended
  <2>. QED  BY <2>1, <1>1, GotoType
<1>5. FilesOK'
  <2>1. CASE DumpBackFinalFile
    <3>1. \/ OpenW("resp") \/ UNCHANGED files \/ Write("resp", "partial")
          \/ \E d \in DocumentsOf(outcome) : Write("resp", d)
      BY <2>1 DEF DumpBackFinalFile
    <3>2. DocumentsOf(outcome) \subseteq {Empty} \union Contents["resp"]
      BY DEF DocumentsOf, Contents, Documents
    <3>3. CASE UNCHANGED files
      BY <3>3, <1>1 DEF FilesOK
    <3>4. CASE OpenW("resp")
      BY <3>4, <1>1, <1>3, OpenWType
    <3>5. CASE \E d \in {"partial"} \union DocumentsOf(outcome) : Write("resp", d)
      BY <3>5, <3>2, <1>1, <1>3, WriteType
    <3>. QED  BY <3>1, <3>3, <3>4, <3>5
  <2>2. CASE RemovePidFile
    BY <2>2, <1>1, <1>3, UnlinkType DEF RemovePidFile
  <2>3. CASE WriteFinalStatus
    <3>1. CASE OpenW("res")
      BY <3>1, <1>1, <1>3, OpenWType
    <3>2. CASE Goto(Worker, "resWrite", "finalUnlink") /\ Write("res", FinalStatus)
      <4>1. FinalStatus \in Contents["res"]
        BY <3>2, <1>1, <1>3 DEF Goto, FinalStatus
      <4>. QED  BY <4>1, <3>2, <1>1, <1>3, WriteType
    <3>. QED  BY <2>3, <3>1, <3>2 DEF WriteFinalStatus
  <2>4. CASE CleanUp
    BY <2>4, <1>1, <1>3, UnlinkType DEF CleanUp
  <2>. QED  BY <2>1, <2>2, <2>3, <2>4
<1>. QED  BY <1>1, <1>2, <1>4, <1>5, ForkType

LEMMA RequestsType ==
  ASSUME TypeOK,
         NEW c \in Clients, Request(c)
  PROVE  TypeOK'
<1>1. c \in Processes /\ c \in Readers /\ "sidRead" \in Labels /\ "none" \in Answers
  BY DEF Processes, Readers, Labels, Answers
<1>2. pc' \in [Processes -> Labels]
  BY <1>1, GotoType DEF Request
<1>3. FilesOK'
  BY DEF Request, TypeOK, FilesOK
<1>4. op' \in [Readers -> Operations \union {"GetResult"}]
  BY <1>1, OptionAssumption DEF Request, TypeOK
<1>5. answer' \in [Readers -> Answers] /\ known' \in BOOLEAN
  BY <1>1 DEF Request, TypeOK
<1>. QED  BY <1>2, <1>3, <1>4, <1>5, RequestType DEF Request, TypeOK

LEMMA StatusNextType ==
  ASSUME TypeOK, NEW p \in Readers, StatusNext(p)
  PROVE  TypeOK'
<1>. USE DEF Labels, Ended, Answers, Statuses
<1>1. FilesOK' /\ UNCHANGED <<op, target, listed, outcome>>
  BY DEF TypeOK, FilesOK, StatusNext, GetStatusId, IsRunning, ReadFinalRes, FailureMessage,
         ReportStatus
<1>2. seen' \in [Readers -> Statuses]
  <2>1. \/ UNCHANGED seen
        \/ \E s \in Statuses : seen' = [seen EXCEPT ![p] = s]
    BY DEF StatusNext, GetStatusId, IsRunning, ReadFinalRes, FailureMessage, ReportStatus,
           StatusByDefault, StatusOf
  <2>. QED  BY <2>1 DEF TypeOK
<1>3. seen[p] \in Answers
  BY DEF TypeOK
<1>4. (\E a \in Answers : Answer(p, a)) \/ (\E to \in Labels : Continue(p, to))
  <2>1. CASE GetStatusId(p)
    BY <2>1 DEF GetStatusId
  <2>2. CASE IsRunning(p)
    BY <2>2 DEF IsRunning
  <2>3. CASE ReadFinalRes(p)
    BY <2>3 DEF ReadFinalRes
  <2>4. CASE FailureMessage(p)
    BY <2>4 DEF FailureMessage
  <2>5. CASE ReportStatus(p)
    BY <2>5, <1>3 DEF ReportStatus
  <2>. QED  BY <2>1, <2>2, <2>3, <2>4, <2>5 DEF StatusNext
<1>5. /\ pc' \in [Processes -> Labels]
      /\ answer' \in [Readers -> Answers]
      /\ known' \in BOOLEAN
  BY <1>4, AnswerType, ContinueType
<1>. QED  BY <1>1, <1>2, <1>5, RequestType DEF TypeOK

LEMMA GetResultsType ==
  ASSUME TypeOK, NEW c \in Clients, GetResults(c)
  PROVE  TypeOK'
<1>. USE DEF Labels, Ended, Answers
<1>1. FilesOK' /\ UNCHANGED <<seen, target, listed, outcome>> /\ c \in Readers
  BY DEF TypeOK, FilesOK, GetResults, Readers
<1>2. op' \in [Readers -> Operations \union {"GetResult"}]
  BY DEF TypeOK, GetResults
<1>3. (\E a \in Answers : Answer(c, a)) \/ (\E to \in Labels : Continue(c, to))
  BY DEF GetResults, Served
<1>4. /\ pc' \in [Processes -> Labels]
      /\ answer' \in [Readers -> Answers]
      /\ known' \in BOOLEAN
  BY <1>1, <1>3, AnswerType, ContinueType
<1>. QED  BY <1>1, <1>2, <1>4, RequestType DEF TypeOK

LEMMA DismissNextType ==
  ASSUME TypeOK, NEW c \in Clients, DismissNext(c)
  PROVE  TypeOK'
<1>. USE DEF Labels, Ended
<1>0. c \in Readers /\ c \in Processes
  BY DEF Readers, Processes
<1>1. CASE FetchPid(c)
  <2>1. files["pid"] \in {Absent, Empty, Acceptor, Worker}
    BY DEF TypeOK, FilesOK, FileNames, Contents
  <2>2. target' \in [Clients -> {Absent, Empty, Acceptor, Worker}]
    BY <1>1, <2>1 DEF FetchPid, TypeOK
  <2>3. pc' \in [Processes -> Labels]
    BY <1>0, <1>1, GotoType DEF FetchPid
  <2>4. FilesOK'
    BY <1>1 DEF FetchPid, TypeOK, FilesOK
  <2>. QED  BY <1>1, <2>2, <2>3, <2>4 DEF FetchPid, TypeOK
<1>2. CASE Kill(c)
  <2>1. pc' \in [Processes -> Labels]
    BY <1>2 DEF Kill, TypeOK
  <2>2. FilesOK'
    BY <1>2 DEF Kill, TypeOK, FilesOK
  <2>. QED  BY <1>2, <2>1, <2>2 DEF Kill, requestVars, TypeOK
<1>3. CASE ListFiles(c)
  <2>1. listed' \in [Clients -> SUBSET FileNames]
    BY <1>3 DEF ListFiles, TypeOK
  <2>2. pc' \in [Processes -> Labels]
    BY <1>0, <1>3, GotoType DEF ListFiles
  <2>3. FilesOK'
    BY <1>3 DEF ListFiles, TypeOK, FilesOK
  <2>. QED  BY <1>3, <2>1, <2>2, <2>3 DEF ListFiles, TypeOK
<1>4. CASE RemoveFile(c)
  <2>1. PICK f \in FirstOf(listed[c]) :
          \/ /\ Unlink(f)
             /\ listed' = [listed EXCEPT ![c] = @ \ {f}]
             /\ Continue(c, "unlink")
          \/ /\ files[f] = Absent
             /\ listed' = [listed EXCEPT ![c] = {}]
             /\ Answer(c, "cannotRemove")
             /\ UNCHANGED files
    BY <1>4 DEF RemoveFile
  <2>2. f \in FileNames
    BY DEF FirstOf, TypeOK
  <2>3. listed' \in [Clients -> SUBSET FileNames]
    BY <2>1 DEF TypeOK
  <2>4. FilesOK'
    BY <2>1, <2>2, UnlinkType DEF TypeOK, FilesOK
  <2>5. /\ pc' \in [Processes -> Labels]
        /\ answer' \in [Readers -> Answers]
        /\ known' \in BOOLEAN
    BY <1>0, <2>1, AnswerType, ContinueType DEF Answers
  <2>. QED  BY <1>4, <2>3, <2>4, <2>5, RequestType DEF RemoveFile, TypeOK
<1>5. CASE Dismissed(c)
  <2>1. /\ pc' \in [Processes -> Labels]
        /\ answer' \in [Readers -> Answers]
        /\ known' \in BOOLEAN
    BY <1>0, <1>5, AnswerType DEF Dismissed, Answers
  <2>2. FilesOK'
    BY <1>5 DEF Dismissed, TypeOK, FilesOK
  <2>. QED  BY <1>5, <2>1, <2>2, RequestType DEF Dismissed, TypeOK
<1>. QED  BY <1>1, <1>2, <1>3, <1>4, <1>5 DEF DismissNext

LEMMA StutterType == TypeOK /\ UNCHANGED vars => TypeOK'
BY DEF TypeOK, FilesOK, vars

-----------------------------------------------------------------------------
(* The worker knows the outcome of its service from the return of          *)
(* loadServiceAndRun on, and not before: what it writes to .res is the     *)
(* outcome, and the outcome does not change any more.  SuccessIsTrue is    *)
(* not inductive without these, nor without what a reader has in hand.     *)

BeforeReturn == {"sidOpen", "sidWrite", "pidOpen", "pidWrite", "respOpen",
                 "finalOpen", "lenvOpen", "lenvWrite", "validate", "run",
                 "progressWrite"}
AfterReturn  == {"finalWrite", "dumpOpen", "dumpWrite", "dumpClose", "pidUnlink",
                 "resOpen", "resWrite", "finalUnlink", "progressUnlink", "done"}

OutcomeInv ==
  /\ pc[Worker] \in BeforeReturn => outcome = "none"
  /\ pc[Worker] \in AfterReturn => outcome # "none"

ResIsTrue  == files["res"] = "Succeeded" => outcome = "Succeeded"
SeenIsTrue == \A p \in Readers : seen[p] = "successful" => outcome = "Succeeded"

TrueInv == TypeOK /\ OutcomeInv /\ ResIsTrue /\ SeenIsTrue /\ SuccessIsTrue

LEMMA WorkerIsNoReader == Worker \notin Readers /\ Worker # Acceptor
BY ProcessAssumption DEF Readers

LEMMA ReaderMoves ==
  ASSUME TypeOK, NEW p \in Readers, NEW to, pc' = [pc EXCEPT ![p] = to]
  PROVE  pc'[Worker] = pc[Worker]
BY WorkerIsNoReader DEF TypeOK, Processes

(* A request leaves the worker where it is, or kills it.                   *)
LEMMA RequestKeepsWorker ==
  ASSUME TypeOK, (\E c \in Clients : Request(c)) \/ \E p \in Readers : Serve(p)
  PROVE  UNCHANGED outcome /\ pc'[Worker] \in {pc[Worker], "dead"}
<1>. USE WorkerIsNoReader
<1>2. ASSUME NEW c \in Clients, Request(c)
      PROVE  UNCHANGED outcome /\ pc'[Worker] \in {pc[Worker], "dead"}
  BY <1>2, ReaderMoves DEF Request, Goto, Readers
<1>3. ASSUME NEW p \in Readers, StatusNext(p)
      PROVE  UNCHANGED outcome /\ pc'[Worker] \in {pc[Worker], "dead"}
  <2>1. UNCHANGED outcome
    BY <1>3 DEF StatusNext, GetStatusId, IsRunning, ReadFinalRes, FailureMessage, ReportStatus
  <2>2. \E to : pc' = [pc EXCEPT ![p] = to]
    BY <1>3 DEF StatusNext, GetStatusId, IsRunning, ReadFinalRes, FailureMessage,
                ReportStatus, Answer, Continue
  <2>. QED  BY <2>1, <2>2, ReaderMoves
<1>4. ASSUME NEW c \in Clients, GetResults(c)
      PROVE  UNCHANGED outcome /\ pc'[Worker] \in {pc[Worker], "dead"}
  <2>1. UNCHANGED outcome /\ \E to : pc' = [pc EXCEPT ![c] = to]
    BY <1>4 DEF GetResults, Answer, Continue
  <2>. QED  BY <2>1, ReaderMoves DEF Readers
<1>5. ASSUME NEW c \in Clients, DismissNext(c)
      PROVE  UNCHANGED outcome /\ pc'[Worker] \in {pc[Worker], "dead"}
  <2>1. CASE Kill(c)
    BY <2>1 DEF Kill, Processes, Readers
  <2>2. CASE FetchPid(c) \/ ListFiles(c) \/ RemoveFile(c) \/ Dismissed(c)
    <3>1. UNCHANGED outcome /\ \E to : pc' = [pc EXCEPT ![c] = to]
      BY <2>2 DEF FetchPid, ListFiles, RemoveFile, Dismissed, Goto, Answer, Continue
    <3>. QED  BY <3>1, ReaderMoves DEF Readers
  <2>. QED  BY <1>5, <2>1, <2>2 DEF DismissNext
<1>. QED  BY <1>2, <1>3, <1>4, <1>5 DEF Serve

LEMMA TypeStep == TypeOK /\ OutcomeInv /\ [Next]_vars => TypeOK'
<1>. SUFFICES ASSUME TypeOK, OutcomeInv, [Next]_vars PROVE TypeOK'
  OBVIOUS
<1>1. CASE WorkerNext
  <2>1. CASE CreateSPidFile(Worker) \/ CreateLenvFile(Worker) \/ CreateStatusFile(Worker)
    BY <2>1, CreateSPidFileType, CreateLenvFileType, CreateStatusFileType
  <2>2. CASE RedirectOutput \/ ValidateRequest \/ UpdateStatus \/ RunService \/ PrintResult
    BY <2>2, WorkerOnlyType
  <2>3. CASE DumpBackFinalFile \/ RemovePidFile \/ WriteFinalStatus \/ CleanUp
    <3>1. pc[Worker] = "resWrite" => outcome # "none"
      BY DEF OutcomeInv, AfterReturn
    <3>. QED  BY <2>3, <3>1, WorkerEndType
  <2>. QED  BY <1>1, <2>1, <2>2, <2>3 DEF WorkerNext
<1>2. CASE AcceptorNext
  BY <1>2, CreateSPidFileType, CreateLenvFileType, CreateStatusFileType DEF AcceptorNext
<1>3. CASE \E c \in Clients : Request(c)
  BY <1>3, RequestsType
<1>4. CASE \E p \in Readers : Serve(p)
  BY <1>4, StatusNextType, GetResultsType, DismissNextType DEF Serve
<1>5. CASE UNCHANGED vars
  BY <1>5, StutterType
<1>. QED  BY <1>1, <1>2, <1>3, <1>4, <1>5 DEF Next

LEMMA OutcomeStep == TypeOK /\ OutcomeInv /\ [Next]_vars => OutcomeInv'
<1>. SUFFICES ASSUME TypeOK, OutcomeInv, [Next]_vars PROVE OutcomeInv'
  OBVIOUS
<1>. USE DEF BeforeReturn, AfterReturn
<1>0. pc \in [Processes -> Labels] /\ Worker \in Processes /\ Worker # Acceptor
  BY WorkerIsNoReader DEF TypeOK, Processes
<1>1. CASE CreateSPidFile(Worker) \/ CreateLenvFile(Worker)
  BY <1>0, <1>1 DEF CreateSPidFile, CreateLenvFile, Goto, OutcomeInv
<1>2. CASE CreateStatusFile(Worker)
  <2>1. UNCHANGED outcome
    BY <1>2 DEF CreateStatusFile
  <2>2. \/ pc'[Worker] \in {"dead", "statOpen", "statWrite"}
        \/ pc'[Worker] = AfterStatusFile(Worker)
    BY <1>0, <1>2 DEF CreateStatusFile, Attributes, Goto
  <2>. QED  BY <1>0, <2>1, <2>2 DEF AfterStatusFile, OutcomeInv
<1>3. CASE RedirectOutput \/ ValidateRequest \/ UpdateStatus
  BY <1>0, <1>3 DEF RedirectOutput, ValidateRequest, UpdateStatus, Goto, OutcomeInv
<1>4. CASE RunService
  BY <1>0, <1>4 DEF RunService, Goto, OutcomeInv
<1>5. CASE PrintResult \/ DumpBackFinalFile \/ RemovePidFile \/ WriteFinalStatus \/ CleanUp
  BY <1>0, <1>5 DEF PrintResult, DumpBackFinalFile, RemovePidFile, WriteFinalStatus, CleanUp,
                    Goto, OutcomeInv
<1>6. CASE AcceptorNext
  BY <1>0, <1>6 DEF AcceptorNext, CreateSPidFile, CreateLenvFile, CreateStatusFile, Attributes,
                    Goto, OutcomeInv
<1>7. CASE (\E c \in Clients : Request(c)) \/ \E p \in Readers : Serve(p)
  BY <1>7, RequestKeepsWorker DEF OutcomeInv
<1>8. CASE UNCHANGED vars
  BY <1>8 DEF vars, OutcomeInv
<1>. QED  BY <1>1, <1>2, <1>3, <1>4, <1>5, <1>6, <1>7, <1>8 DEF Next, WorkerNext

(* The outcome is set once.                                                *)
LEMMA OutcomeStable ==
  ASSUME TypeOK, OutcomeInv, [Next]_vars, outcome = "Succeeded"
  PROVE  outcome' = "Succeeded"
<1>1. CASE RunService
  BY <1>1 DEF RunService, Goto, OutcomeInv, BeforeReturn
<1>2. CASE CreateSPidFile(Worker) \/ CreateLenvFile(Worker) \/ CreateStatusFile(Worker)
           \/ AcceptorNext
  BY <1>2 DEF AcceptorNext, CreateSPidFile, CreateLenvFile, CreateStatusFile
<1>3. CASE RedirectOutput \/ ValidateRequest \/ UpdateStatus \/ PrintResult
           \/ DumpBackFinalFile \/ RemovePidFile \/ WriteFinalStatus \/ CleanUp
  BY <1>3 DEF RedirectOutput, ValidateRequest, UpdateStatus, PrintResult,
              DumpBackFinalFile, RemovePidFile, WriteFinalStatus, CleanUp
<1>4. CASE (\E c \in Clients : Request(c)) \/ \E p \in Readers : Serve(p)
  BY <1>4, RequestKeepsWorker
<1>5. CASE UNCHANGED vars
  BY <1>5 DEF vars
<1>. QED  BY <1>1, <1>2, <1>3, <1>4, <1>5 DEF Next, WorkerNext

(* Only WriteFinalStatus puts a status into the .res file.                 *)
LEMMA ResStep ==
  ASSUME TypeOK, OutcomeInv, ResIsTrue, [Next]_vars
  PROVE  ResIsTrue'
<1>0. files \in [FileNames -> AnyContent] /\ "res" \in FileNames
  BY DEF TypeOK, FilesOK, FileNames
<1>1. SUFFICES ASSUME files'["res"] = "Succeeded", files["res"] # "Succeeded"
               PROVE  outcome' = "Succeeded"
  BY OutcomeStable DEF ResIsTrue
<1>. USE <1>0, <1>1
<1>2. ASSUME NEW p \in {Acceptor, Worker}, CreateSPidFile(p) PROVE FALSE
  BY <1>2 DEF CreateSPidFile, OpenW, Write, Empty
<1>3. ASSUME NEW p \in {Acceptor, Worker}, CreateLenvFile(p) PROVE FALSE
  BY <1>3 DEF CreateLenvFile, OpenW, Write, Empty
<1>4. ASSUME NEW p \in {Acceptor, Worker}, CreateStatusFile(p) PROVE FALSE
  BY <1>4 DEF CreateStatusFile, OpenW, Write, Collapse, Empty
<1>5. CASE RedirectOutput \/ ValidateRequest \/ UpdateStatus \/ RunService
  BY <1>5 DEF RedirectOutput, ValidateRequest, UpdateStatus, RunService, OpenW, Write,
              Collapse, Empty
<1>6. CASE PrintResult \/ DumpBackFinalFile
  BY <1>6 DEF PrintResult, DumpBackFinalFile, OpenW, Write
<1>7. CASE RemovePidFile \/ CleanUp
  BY <1>7 DEF RemovePidFile, CleanUp, Unlink
<1>8. CASE WriteFinalStatus
  BY <1>8 DEF WriteFinalStatus, FinalStatus, OpenW, Write, Empty, Absent
<1>9. CASE \E c \in Clients : Request(c)
  BY <1>9 DEF Request
<1>10. ASSUME NEW p \in Readers, StatusNext(p) PROVE FALSE
  BY <1>10 DEF StatusNext, GetStatusId, IsRunning, ReadFinalRes, FailureMessage, ReportStatus
<1>11. ASSUME NEW c \in Clients, GetResults(c) PROVE FALSE
  BY <1>11 DEF GetResults
<1>12. ASSUME NEW c \in Clients, DismissNext(c) PROVE FALSE
  <2>1. UNCHANGED files \/ \E f \in listed[c] : Unlink(f)
    BY <1>12 DEF DismissNext, FetchPid, Kill, ListFiles, RemoveFile, Dismissed, FirstOf
  <2>2. Absent # "Succeeded"
    BY DEF Absent
  <2>. QED  BY <2>1, <2>2 DEF Unlink
<1>13. CASE UNCHANGED vars
  BY <1>13 DEF vars
<1>. QED
  BY <1>2, <1>3, <1>4, <1>5, <1>6, <1>7, <1>8, <1>9, <1>10, <1>11, <1>12, <1>13
  DEF Next, WorkerNext, AcceptorNext, Serve

(* Only a status read from the .res file is reported as successful.        *)
LEMMA SeenStep ==
  ASSUME TypeOK, OutcomeInv, ResIsTrue, SeenIsTrue, [Next]_vars
  PROVE  SeenIsTrue'
<1>1. SUFFICES ASSUME NEW p \in Readers, seen'[p] = "successful", seen[p] # "successful"
               PROVE  outcome' = "Succeeded"
  BY OutcomeStable DEF SeenIsTrue
<1>2. seen' # seen
  BY <1>1
<1>3. PICK q \in Readers : IsRunning(q) \/ ReadFinalRes(q)
  BY <1>2 DEF Next, WorkerNext, AcceptorNext, Serve, StatusNext, DismissNext, vars,
     requestVars, CreateSPidFile, CreateLenvFile, CreateStatusFile, RedirectOutput,
     ValidateRequest, UpdateStatus, RunService, PrintResult, DumpBackFinalFile,
     RemovePidFile, WriteFinalStatus, CleanUp, Request, GetStatusId,
     FailureMessage, ReportStatus, GetResults, FetchPid, Kill, ListFiles, RemoveFile,
     Dismissed
<1>4. seen'[p] \in {seen[p], "running", "failed", StatusOf(files["res"])}
  BY <1>3 DEF IsRunning, ReadFinalRes, StatusByDefault, TypeOK
<1>5. files["res"] = "Succeeded"
  BY <1>1, <1>4 DEF StatusOf
<1>6. outcome = "Succeeded"
  BY <1>5 DEF ResIsTrue
<1>. QED  BY <1>6, OutcomeStable

(* Only ReportStatus answers "successful".                                 *)
LEMMA AnswerStep ==
  ASSUME TypeOK, OutcomeInv, SeenIsTrue, SuccessIsTrue, [Next]_vars
  PROVE  SuccessIsTrue'
<1>1. SUFFICES ASSUME NEW p \in Readers, answer'[p] = "successful", answer[p] # "successful"
               PROVE  outcome' = "Succeeded"
  BY OutcomeStable DEF SuccessIsTrue
<1>2. answer' # answer
  BY <1>1
<1>3. \/ \E c \in Clients : Request(c) \/ GetResults(c) \/ RemoveFile(c) \/ Dismissed(c)
      \/ \E q \in Readers : GetStatusId(q) \/ IsRunning(q) \/ ReportStatus(q)
  BY <1>2 DEF Next, WorkerNext, AcceptorNext, Serve, StatusNext, DismissNext, vars,
     requestVars, CreateSPidFile, CreateLenvFile, CreateStatusFile, RedirectOutput,
     ValidateRequest, UpdateStatus, RunService, PrintResult, DumpBackFinalFile,
     RemovePidFile, WriteFinalStatus, CleanUp, ReadFinalRes, FailureMessage,
     Continue, FetchPid, Kill, ListFiles
<1>4. \E q \in Readers : \E a \in (Answers \ {"successful"}) \union {seen[q]} :
        answer' = [answer EXCEPT ![q] = a]
  <2>1. CASE \E c \in Clients : Request(c)
    BY <2>1 DEF Request, Answers, Statuses, Readers
  <2>2. CASE \E c \in Clients : GetResults(c) \/ RemoveFile(c) \/ Dismissed(c)
    BY <1>2, <2>2 DEF GetResults, RemoveFile, Dismissed, Answer, Continue, Served, Answers,
       Statuses, Readers
  <2>3. CASE \E q \in Readers : GetStatusId(q) \/ IsRunning(q) \/ ReportStatus(q)
    BY <1>2, <2>3 DEF GetStatusId, IsRunning, ReportStatus, Answer, Continue, Answers, Statuses
  <2>. QED  BY <1>3, <2>1, <2>2, <2>3
<1>5. seen[p] = "successful"
  BY <1>1, <1>4 DEF TypeOK
<1>6. outcome = "Succeeded"
  BY <1>5 DEF SeenIsTrue
<1>. QED  BY <1>6, OutcomeStable

LEMMA TrueInit == Init => TrueInv
<1>1. Init => OutcomeInv /\ ResIsTrue /\ SeenIsTrue /\ SuccessIsTrue
  BY WorkerIsNoReader DEF Init, OutcomeInv, BeforeReturn, AfterReturn, ResIsTrue, SeenIsTrue,
     SuccessIsTrue, Processes, FileNames, Absent
<1>. QED  BY <1>1, InitType DEF TrueInv

LEMMA TrueStep == TrueInv /\ [Next]_vars => TrueInv'
BY TypeStep, OutcomeStep, ResStep, SeenStep, AnswerStep DEF TrueInv

(* Every variable keeps to its type in every behaviour of AsyncJob.        *)
THEOREM TypeCorrect == Spec => []TypeOK
<1>1. TrueInv => TypeOK
  BY DEF TrueInv
<1>. QED  BY <1>1, TrueInit, TrueStep, PTL DEF Spec

(* No client is ever told that a job is successful whose service did not   *)
(* succeed, whatever is dismissed, crashes, or is recorded twice.          *)
THEOREM SuccessCorrect == Spec => []SuccessIsTrue
<1>1. TrueInv => SuccessIsTrue
  BY DEF TrueInv
<1>. QED  BY <1>1, TrueInit, TrueStep, PTL DEF Spec

-----------------------------------------------------------------------------
(* DismissIsFinal, for clients that learn the job id from the 201: the     *)
(* acceptor writes nothing any more, and a worker that was killed, or has  *)
(* ended before, neither.  What the dismissal lists is then all there is,  *)
(* and the other requests can only remove from it.                         *)

DismissedFor(c) ==
  /\ pc[c] \in {"opendir", "unlink"} /\ target[c] = Worker => pc[Worker] \in Ended
  /\ pc[c] = "unlink" /\ target[c] = Worker =>
       \A f \in FileNames : files[f] = Absent \/ f \in listed[c]
  /\ answer[c] = "dismissed" /\ target[c] = Worker =>
       /\ pc[Worker] \in Ended
       /\ pc[c] \in {"idle", "dead"}
       /\ \A f \in FileNames : files[f] = Absent
  /\ pc[c] \notin {"idle", "dead"} => answer[c] = "none"
  /\ pc[c] # "idle" \/ answer[c] # "none" => known

DismissInv ==
  /\ TypeOK /\ OutcomeInv
  /\ known => pc[Acceptor] = "done"
  /\ pc[Worker] # "idle"
  /\ \A c \in Clients : DismissedFor(c)

LEMMA DismissInit == Init => DismissInv
<1>1. Init => /\ known => pc[Acceptor] = "done"
              /\ pc[Worker] # "idle"
              /\ \A c \in Clients : DismissedFor(c)
  BY ProcessAssumption DEF Init, DismissedFor, Processes, Readers
<1>. QED  BY <1>1, TrueInit DEF DismissInv, TrueInv

LEMMA DismissForkStep ==
  ASSUME DismissInv, WorkerNext \/ AcceptorNext
  PROVE  DismissInv'
<1>. USE WorkerIsNoReader, ProcessAssumption DEF DismissInv, TypeOK, Processes
<1>1. TypeOK' /\ OutcomeInv'
  BY TypeStep, OutcomeStep DEF Next
<1>2. UNCHANGED requestVars
  BY DEF WorkerNext, AcceptorNext, CreateSPidFile, CreateLenvFile,
     CreateStatusFile, RedirectOutput, ValidateRequest, UpdateStatus, RunService,
     PrintResult, DumpBackFinalFile, RemovePidFile, WriteFinalStatus, CleanUp
<1>3. /\ \A c \in Clients : UNCHANGED pc[c]
      /\ pc'[Worker] # "idle"
      /\ known => UNCHANGED pc[Acceptor]
  BY DEF WorkerNext, AcceptorNext, CreateSPidFile, CreateLenvFile, Goto, Attributes,
     AfterStatusFile,
     CreateStatusFile, RedirectOutput, ValidateRequest, UpdateStatus, RunService,
     PrintResult, DumpBackFinalFile, RemovePidFile, WriteFinalStatus, CleanUp
<1>4. known => pc[Worker] \notin Ended
  BY DEF WorkerNext, AcceptorNext, CreateSPidFile, CreateLenvFile, Goto, Attributes, Ended,
     CreateStatusFile, RedirectOutput, ValidateRequest, UpdateStatus, RunService,
     PrintResult, DumpBackFinalFile, RemovePidFile, WriteFinalStatus, CleanUp
<1>. QED  BY <1>1, <1>2, <1>3, <1>4 DEF requestVars, DismissedFor

(* A client that is not the one that moves: its own variables are left     *)
(* alone, files only go, and the worker may be killed.                     *)
LEMMA BystanderStep ==
  ASSUME DismissInv, NEW c \in Clients, DismissedFor(c),
         pc'[c] = pc[c] \/ (pc'[c] = "dead" /\ pc[c] # "idle"),
         UNCHANGED <<target[c], listed[c], answer[c]>>,
         known => known',
         pc'[Worker] \in {pc[Worker], "dead"},
         \A f \in FileNames : files[f] = Absent => files'[f] = Absent
  PROVE  DismissedFor(c)'
BY DEF DismissedFor, Ended

LEMMA DismissReaderStep ==
  ASSUME DismissInv, ~Listing,
         (\E c \in Clients : Request(c)) \/ \E p \in Readers : Serve(p)
  PROVE  DismissInv'
<1>. USE WorkerIsNoReader, ProcessAssumption
<1>0. /\ TypeOK /\ files \in [FileNames -> AnyContent] /\ pc \in [Processes -> Labels]
      /\ Readers \subseteq Processes /\ Clients \subseteq Readers /\ Worker \in Processes
      /\ Acceptor \in Processes
  BY DEF DismissInv, TypeOK, FilesOK, Processes, Readers
<1>1. TypeOK' /\ OutcomeInv'
  BY TypeStep, OutcomeStep DEF DismissInv, Next
<1>2. pc'[Worker] \in {pc[Worker], "dead"}
  BY <1>0, RequestKeepsWorker
<1>3. pc'[Worker] # "idle"
  BY <1>2 DEF DismissInv
<1>4. ASSUME NEW c \in Clients, Request(c)
      PROVE  DismissInv'
  <2>1. known /\ known' /\ UNCHANGED <<files, target, listed>>
    BY <1>4 DEF Request, InJobList
  <2>2. UNCHANGED pc[Acceptor]
    BY <1>0, <1>4 DEF Request, Goto
  <2>3. DismissedFor(c)'
    BY <1>0, <1>4, <2>1 DEF Request, Goto, DismissedFor, TypeOK
  <2>4. ASSUME NEW d \in Clients \ {c} PROVE DismissedFor(d)'
    <3>1. UNCHANGED <<pc[d], answer[d]>>
      BY <1>0, <1>4 DEF Request, Goto, TypeOK
    <3>. QED  BY <1>2, <2>1, <3>1, BystanderStep DEF DismissInv
  <2>. QED  BY <1>1, <1>3, <2>1, <2>2, <2>3, <2>4 DEF DismissInv
<1>5. ASSUME NEW p \in Readers, StatusNext(p) \/ (p \in Clients /\ GetResults(p))
      PROVE  DismissInv'
  <2>0. (\E a : Answer(p, a)) \/ (\E to : Continue(p, to))
    BY <1>5 DEF StatusNext, GetStatusId, IsRunning, ReadFinalRes, FailureMessage, ReportStatus,
       GetResults
  <2>1. /\ UNCHANGED <<files, target, listed>>
        /\ known => known'
        /\ p # Acceptor => known' = known
    <3>1. UNCHANGED <<files, target, listed>>
      BY <1>5 DEF StatusNext, GetStatusId, IsRunning, ReadFinalRes, FailureMessage,
         ReportStatus, GetResults
    <3>2. known' = known \/ \E a : known' = (known \/ (p = Acceptor /\ a \in Statuses))
      BY <2>0, Zenon DEF Answer, Continue
    <3>3. known \in BOOLEAN /\ (known => known')
      BY <1>0, <3>2 DEF TypeOK
    <3>4. ASSUME p # Acceptor PROVE known' = known
      BY <3>2, <3>3, <3>4
    <3>. QED  BY <3>1, <3>3, <3>4
  <2>2. \A q \in Processes \ {p} : UNCHANGED pc[q]
    BY <1>0, <1>5 DEF StatusNext, GetStatusId, IsRunning, ReadFinalRes, FailureMessage,
       ReportStatus, GetResults, Answer, Continue
  <2>3. \A q \in Readers \ {p} : UNCHANGED answer[q]
    BY <1>0, <1>5 DEF TypeOK, StatusNext, GetStatusId, IsRunning, ReadFinalRes, FailureMessage,
       ReportStatus, GetResults, Answer, Continue
  <2>4. known' => pc'[Acceptor] = "done"
    <3>1. CASE p = Acceptor
      <4>1. ~known
        BY <1>5, <3>1 DEF DismissInv, StatusNext, GetStatusId, IsRunning, ReadFinalRes,
           FailureMessage, ReportStatus
      <4>. QED  BY <1>0, <1>5, <3>1, <4>1 DEF StatusNext, GetStatusId, IsRunning, ReadFinalRes,
           FailureMessage, ReportStatus, Answer, Continue
    <3>2. CASE p # Acceptor
      BY <1>0, <2>1, <2>2, <3>2 DEF DismissInv
    <3>. QED  BY <3>1, <3>2
  <2>5. ASSUME NEW c \in Clients, c = p PROVE DismissedFor(c)'
    <3>1. /\ pc[c] \notin {"idle", "dead", "opendir", "unlink"}
          /\ \/ pc'[c] = "idle" /\ answer'[c] # "dismissed"
             \/ pc'[c] \notin {"idle", "opendir", "unlink"} /\ UNCHANGED answer
      <4>1. seen[c] # "dismissed"
        BY <1>0 DEF TypeOK, Statuses
      <4>. QED  BY <1>0, <1>5, <2>5, <4>1 DEF TypeOK, StatusNext, GetStatusId, IsRunning,
           ReadFinalRes, FailureMessage, ReportStatus, GetResults, Answer, Continue, Served
    <3>2. answer[c] = "none" /\ known
      BY <3>1 DEF DismissInv, DismissedFor
    <3>. QED  BY <2>1, <3>1, <3>2 DEF DismissedFor
  <2>6. ASSUME NEW c \in Clients \ {p} PROVE DismissedFor(c)'
    BY <1>0, <1>2, <2>1, <2>2, <2>3, BystanderStep DEF DismissInv
  <2>. QED  BY <1>1, <1>3, <2>4, <2>5, <2>6 DEF DismissInv
<1>6. ASSUME NEW c \in Clients, DismissNext(c)
      PROVE  DismissInv'
  <2>1. /\ pc[c] \in {"pidFetch", "kill", "opendir", "unlink"}
        /\ known
        /\ answer[c] = "none"
    <3>1. pc[c] \in {"pidFetch", "kill", "opendir", "unlink"}
      BY <1>6 DEF DismissNext, FetchPid, Kill, ListFiles, RemoveFile, Dismissed, Goto
    <3>. QED  BY <3>1 DEF DismissInv, DismissedFor
  <2>2. known'
    BY <1>6, <2>1 DEF DismissNext, FetchPid, Kill, ListFiles, RemoveFile, Dismissed, Goto,
       Answer, Continue, requestVars
  <2>3. pc'[Acceptor] = "done"
    BY <1>0, <1>6, <2>1 DEF DismissInv, DismissNext, FetchPid, Kill, ListFiles, RemoveFile,
       Dismissed, Goto, Answer, Continue, Ended
  <2>4. \A f \in FileNames : files[f] = Absent => files'[f] = Absent
    BY <1>0, <1>6 DEF DismissNext, FetchPid, Kill, ListFiles, RemoveFile, Dismissed, Unlink,
       FirstOf
  <2>5. ASSUME NEW d \in Clients \ {c} PROVE DismissedFor(d)'
    <3>1. UNCHANGED <<target[d], listed[d], answer[d]>>
      BY <1>0, <1>6 DEF TypeOK, DismissNext, FetchPid, Kill, ListFiles, RemoveFile,
         Dismissed, Answer, Continue, requestVars
    <3>2. pc'[d] = pc[d] \/ (pc'[d] = "dead" /\ pc[d] # "idle")
      BY <1>0, <1>6 DEF DismissNext, FetchPid, Kill, ListFiles, RemoveFile,
         Dismissed, Answer, Continue, Goto
    <3>. QED  BY <1>2, <2>1, <2>2, <2>4, <3>1, <3>2, BystanderStep DEF DismissInv
  <2>6. DismissedFor(c)'
    <3>. USE <1>0, <1>2, <2>1, <2>2 DEF TypeOK, Ended
    <3>0. DismissedFor(c)
      BY DEF DismissInv
    <3>1. CASE FetchPid(c)
      BY <3>1 DEF FetchPid, Goto, DismissedFor
    <3>2. CASE Kill(c)
      <4>1. /\ UNCHANGED <<target, answer>>
            /\ pc'[c] \in {"opendir", "dead"}
        BY <3>2 DEF Kill, requestVars
      <4>2. target[c] = Worker => pc'[Worker] \in Ended
        BY <3>2 DEF Kill, Victims, Absent, Empty, DismissInv
      <4>. QED  BY <4>1, <4>2 DEF DismissedFor
    <3>3. CASE ListFiles(c)
      BY <3>0, <3>3 DEF ListFiles, Goto, DismissedFor
    <3>4. CASE RemoveFile(c)
      <4>1. PICK f \in FirstOf(listed[c]) :
              \/ /\ Unlink(f)
                 /\ listed' = [listed EXCEPT ![c] = @ \ {f}]
                 /\ Continue(c, "unlink")
              \/ Answer(c, "cannotRemove")
        BY <3>4 DEF RemoveFile
      <4>2. UNCHANGED target /\ pc[c] = "unlink"
        BY <3>4 DEF RemoveFile
      <4>3. CASE /\ Unlink(f)
                 /\ listed' = [listed EXCEPT ![c] = @ \ {f}]
                 /\ Continue(c, "unlink")
        <5>1. /\ pc'[c] = "unlink" /\ answer'[c] = "none"
              /\ \A g \in FileNames : g # f => files'[g] = files[g]
              /\ \A g \in FileNames : files[g] = Absent => files'[g] = Absent
              /\ f \in FileNames => files'[f] = Absent
              /\ listed'[c] = listed[c] \ {f}
          BY <4>3 DEF Unlink, Continue
        <5>. QED  BY <3>0, <4>2, <5>1 DEF DismissedFor
      <4>4. CASE Answer(c, "cannotRemove")
        BY <4>2, <4>4 DEF Answer, DismissedFor
      <4>. QED  BY <4>1, <4>3, <4>4
    <3>5. CASE Dismissed(c)
      BY <3>0, <3>5 DEF Dismissed, Answer, DismissedFor
    <3>. QED  BY <1>6, <3>1, <3>2, <3>3, <3>4, <3>5 DEF DismissNext
  <2>. QED  BY <1>1, <1>3, <2>3, <2>5, <2>6 DEF DismissInv
<1>. QED  BY <1>4, <1>5, <1>6 DEF Serve

(* Once a dismissal that killed the worker is answered, no file of the job *)
(* comes back, however many clients dismiss and read the job at the same   *)
(* time and in whatever order the directory is listed, if clients know the *)
(* job from the 201.                                                       *)
THEOREM DismissalCorrect ==
  ASSUME ~Listing
  PROVE  Spec => []DismissIsFinal
<1>1. DismissInv => DismissIsFinal
  BY DEF DismissInv, DismissedFor, DismissIsFinal
<1>2. DismissInv /\ [Next]_vars => DismissInv'
  <2>1. DismissInv /\ UNCHANGED vars => DismissInv'
    BY StutterType DEF vars, DismissInv, OutcomeInv, DismissedFor
  <2>. QED  BY <2>1, DismissForkStep, DismissReaderStep DEF Next
<1>. QED  BY <1>1, <1>2, DismissInit, PTL DEF Spec

-----------------------------------------------------------------------------
(* Jobs that nobody dismisses.                                             *)

NoDismissal == "Dismiss" \notin Ops

-----------------------------------------------------------------------------
(* Where the processes can be: nobody gets to the steps of runDismiss.     *)

AcceptorLabels == {"attrs", "statOpen", "statWrite", "sidOpen", "sidWrite", "pidOpen",
                   "pidWrite", "lenvOpen", "lenvWrite", "sidRead", "pidRead",
                   "resStat", "resRead", "message", "report", "done", "dead"}
ClientLabels == {"idle", "sidRead", "pidRead", "resStat", "resRead", "message",
                 "report", "docStat", "docRead", "dead"}

PlacesInv ==
  /\ op[Acceptor] = "GetStatus"
  /\ pc[Acceptor] \in AcceptorLabels
  /\ \A c \in Clients : op[c] # "Dismiss" /\ pc[c] \in ClientLabels

(* A step of a request about the job.                                      *)
ReaderStep ==
  /\ (\E c \in Clients : Request(c)) \/ \E p \in Readers : Serve(p)
  /\ UNCHANGED <<files, outcome>>
  /\ pc'[Worker] = pc[Worker]

LEMMA ReadersOnlyRead ==
  ASSUME TypeOK, PlacesInv,
         (\E c \in Clients : Request(c)) \/ \E p \in Readers : Serve(p)
  PROVE  ReaderStep
<1>. USE WorkerIsNoReader
<1>1. ASSUME NEW c \in Clients, Request(c)
      PROVE  UNCHANGED <<files, outcome>> /\ pc'[Worker] = pc[Worker]
  BY <1>1, ReaderMoves DEF Request, Goto, Readers
<1>2. ASSUME NEW p \in Readers, StatusNext(p)
      PROVE  UNCHANGED <<files, outcome>> /\ pc'[Worker] = pc[Worker]
  <2>1. UNCHANGED <<files, outcome>> /\ \E to : pc' = [pc EXCEPT ![p] = to]
    BY <1>2 DEF StatusNext, GetStatusId, IsRunning, ReadFinalRes, FailureMessage,
                ReportStatus, Answer, Continue
  <2>. QED  BY <2>1, ReaderMoves
<1>3. ASSUME NEW c \in Clients, GetResults(c)
      PROVE  UNCHANGED <<files, outcome>> /\ pc'[Worker] = pc[Worker]
  <2>1. UNCHANGED <<files, outcome>> /\ \E to : pc' = [pc EXCEPT ![c] = to]
    BY <1>3 DEF GetResults, Answer, Continue
  <2>. QED  BY <2>1, ReaderMoves DEF Readers
<1>4. ASSUME NEW c \in Clients, DismissNext(c) PROVE FALSE
  BY <1>4 DEF DismissNext, FetchPid, Kill, ListFiles, RemoveFile, Dismissed, Goto,
              PlacesInv, ClientLabels
<1>. QED  BY <1>1, <1>2, <1>3, <1>4 DEF Serve, ReaderStep

LEMMA AcceptorIsNoClient ==
  /\ Acceptor \notin Clients /\ Worker \notin Clients /\ Worker # Acceptor
  /\ Clients \subseteq Readers /\ Readers \subseteq Processes
  /\ Acceptor \in Readers /\ Worker \in Processes
BY ProcessAssumption DEF Readers, Processes

LEMMA PlacesForkStep ==
  ASSUME TypeOK, PlacesInv, WorkerNext \/ AcceptorNext
  PROVE  PlacesInv'
<1>. USE AcceptorIsNoClient
<1>1. UNCHANGED op
  BY DEF WorkerNext, AcceptorNext, requestVars, CreateSPidFile, CreateLenvFile,
     CreateStatusFile, RedirectOutput, ValidateRequest, UpdateStatus, RunService,
     PrintResult, DumpBackFinalFile, RemovePidFile, WriteFinalStatus, CleanUp
<1>2. CASE WorkerNext
  <2>1. \E to : pc' = [pc EXCEPT ![Worker] = to]
    BY <1>2 DEF WorkerNext, CreateSPidFile, CreateLenvFile, Goto, Attributes,
       CreateStatusFile, RedirectOutput, ValidateRequest, UpdateStatus, RunService,
       PrintResult, DumpBackFinalFile, RemovePidFile, WriteFinalStatus, CleanUp
  <2>. QED  BY <1>1, <2>1 DEF PlacesInv, TypeOK
<1>3. CASE AcceptorNext
  <2>1. \E to \in AcceptorLabels : pc' = [pc EXCEPT ![Acceptor] = to]
    BY <1>3 DEF AcceptorNext, CreateSPidFile, CreateLenvFile, CreateStatusFile, Goto,
       Attributes, AfterStatusFile, AcceptorLabels
  <2>. QED  BY <1>1, <2>1 DEF PlacesInv, TypeOK
<1>. QED  BY <1>2, <1>3

LEMMA PlacesReaderStep ==
  ASSUME NoDismissal, TypeOK, PlacesInv,
         (\E c \in Clients : Request(c)) \/ \E p \in Readers : Serve(p)
  PROVE  PlacesInv'
<1>. USE AcceptorIsNoClient
<1>1. ASSUME NEW c \in Clients, Request(c) PROVE PlacesInv'
  BY <1>1 DEF Request, Goto, PlacesInv, ClientLabels, TypeOK, NoDismissal
<1>2. ASSUME NEW p \in Readers, StatusNext(p) PROVE PlacesInv'
  <2>1. UNCHANGED op
    BY <1>2 DEF StatusNext, GetStatusId, IsRunning, ReadFinalRes, FailureMessage, ReportStatus
  <2>2. op[p] # "Dismiss" /\ (p = Acceptor => op[p] = "GetStatus")
    BY DEF PlacesInv, Readers
  <2>3. \E to : /\ pc' = [pc EXCEPT ![p] = to]
                /\ p = Acceptor => to \in AcceptorLabels
                /\ p # Acceptor => to \in ClientLabels
    BY <1>2, <2>2 DEF StatusNext, GetStatusId, IsRunning, ReadFinalRes, FailureMessage,
       ReportStatus, Answer, Continue, AcceptorLabels, ClientLabels
  <2>. QED  BY <2>1, <2>3 DEF PlacesInv, TypeOK, Readers
<1>3. ASSUME NEW c \in Clients, GetResults(c) PROVE PlacesInv'
  <2>1. \E to \in ClientLabels : pc' = [pc EXCEPT ![c] = to]
    BY <1>3 DEF GetResults, Answer, Continue, ClientLabels
  <2>2. UNCHANGED op \/ op' = [op EXCEPT ![c] = "GetResult"]
    BY <1>3 DEF GetResults
  <2>. QED  BY <2>1, <2>2 DEF PlacesInv, TypeOK
<1>4. ASSUME NEW c \in Clients, DismissNext(c) PROVE FALSE
  BY <1>4 DEF DismissNext, FetchPid, Kill, ListFiles, RemoveFile, Dismissed, Goto,
              PlacesInv, ClientLabels
<1>. QED  BY <1>1, <1>2, <1>3, <1>4 DEF Serve

LEMMA PlacesStep ==
  ASSUME NoDismissal, TypeOK, PlacesInv, [Next]_vars
  PROVE  PlacesInv'
<1>1. CASE UNCHANGED vars
  BY <1>1 DEF vars, PlacesInv
<1>. QED  BY <1>1, PlacesForkStep, PlacesReaderStep DEF Next

-----------------------------------------------------------------------------
(* What the files say about the two sides of the fork.  PidMade holds from *)
(* the first fopen of .pid on: only RemovePidFile takes the file away.     *)

BeforePid  == {"sidOpen", "sidWrite", "pidOpen"}
BeforeResp == BeforePid \union {"pidWrite", "respOpen"}
AfterPid   == {"resOpen", "resWrite", "finalUnlink", "progressUnlink", "done"}

PidMade == files["pid"] # Absent \/ pc[Worker] \in AfterPid

SidInv == pc[Acceptor] \notin {"attrs", "statOpen", "statWrite", "sidOpen", "dead"}
            => files["sid"] # Absent
PidInv ==
  /\ pc[Acceptor] \notin {"attrs", "statOpen", "statWrite", "dead"} \union BeforePid
       => PidMade
  /\ pc[Worker] \notin BeforePid => PidMade
RespInv ==
  /\ pc[Worker] \in BeforeResp <=> files["resp"] = Absent
  /\ pc[Worker] \in AfterPid \union {"pidUnlink"} => files["resp"] \in DocumentsOf(outcome)
ResInv ==
  pc[Worker] \in {"resWrite", "finalUnlink", "progressUnlink", "done"}
    <=> files["res"] # Absent

ForkInv == PlacesInv /\ SidInv /\ PidInv /\ RespInv /\ ResInv

LEMMA ForkInit == Init => ForkInv
BY AcceptorIsNoClient DEF Init, ForkInv, PlacesInv, AcceptorLabels, ClientLabels, SidInv,
   PidInv, RespInv, ResInv, BeforePid, BeforeResp, AfterPid, FileNames, Absent

LEMMA ContentsDiffer ==
  /\ Absent # Empty
  /\ \A out : Absent \notin DocumentsOf(out)
BY DEF Absent, Empty, DocumentsOf, Documents

LEMMA ForkAcceptorStep ==
  ASSUME TypeOK, ForkInv, AcceptorNext
  PROVE  SidInv' /\ PidInv' /\ RespInv' /\ ResInv'
<1>. USE AcceptorIsNoClient, ContentsDiffer, ProcessAssumption DEF FileNames, Absent, Empty
<1>1. files \in [FileNames -> AnyContent] /\ pc \in [Processes -> Labels]
  BY DEF TypeOK, FilesOK
<1>2. UNCHANGED <<outcome, files["resp"], files["res"], pc[Worker]>>
  BY <1>1 DEF AcceptorNext, CreateSPidFile, CreateLenvFile, CreateStatusFile, Goto,
     Attributes, OpenW, Write
<1>3. RespInv' /\ ResInv'
  BY <1>2 DEF ForkInv, RespInv, ResInv
<1>4. CASE CreateStatusFile(Acceptor)
  <2>1. UNCHANGED <<files["sid"], files["pid"]>>
    BY <1>1, <1>4 DEF CreateStatusFile, OpenW, Write
  <2>2. pc'[Acceptor] \in {"statOpen", "statWrite", "sidOpen", "dead"}
    BY <1>1, <1>4 DEF CreateStatusFile, Goto, Attributes, AfterStatusFile
  <2>. QED  BY <1>2, <1>3, <2>1, <2>2 DEF ForkInv, SidInv, PidInv, PidMade, BeforePid
<1>5. CASE CreateSPidFile(Acceptor)
  BY <1>1, <1>2, <1>3, <1>5 DEF CreateSPidFile, Goto, OpenW, Write, ForkInv, SidInv,
     PidInv, PidMade, BeforePid, AfterPid
<1>6. CASE CreateLenvFile(Acceptor)
  BY <1>1, <1>2, <1>3, <1>6 DEF CreateLenvFile, Goto, OpenW, Write, ForkInv, SidInv,
     PidInv, PidMade, BeforePid
<1>. QED  BY <1>4, <1>5, <1>6 DEF AcceptorNext

LEMMA ForkWorkerStep ==
  ASSUME TypeOK, OutcomeInv, ForkInv, WorkerNext
  PROVE  SidInv' /\ PidInv' /\ RespInv' /\ ResInv'
<1>. USE AcceptorIsNoClient, ContentsDiffer, ProcessAssumption DEF FileNames, Absent, Empty
<1>1. files \in [FileNames -> AnyContent] /\ pc \in [Processes -> Labels]
  BY DEF TypeOK, FilesOK
<1>2. UNCHANGED pc[Acceptor] /\ (files["sid"] # Absent => files'["sid"] # Absent)
  BY <1>1 DEF WorkerNext, CreateSPidFile, CreateLenvFile, Goto, Attributes, OpenW, Write,
     Unlink, Collapse, CreateStatusFile, RedirectOutput, ValidateRequest, UpdateStatus,
     RunService, PrintResult, DumpBackFinalFile, RemovePidFile, WriteFinalStatus, CleanUp
<1>3. SidInv'
  BY <1>2 DEF ForkInv, SidInv
<1>. USE <1>1, <1>2, <1>3
<1>. USE DEF ForkInv, PidInv, RespInv, ResInv, PidMade, BeforePid, BeforeResp, AfterPid,
         Goto, OpenW, Write, Unlink
<1>4. CASE CreateSPidFile(Worker)
  BY <1>4 DEF CreateSPidFile
<1>5. CASE CreateLenvFile(Worker) \/ RedirectOutput
  BY <1>5 DEF CreateLenvFile, RedirectOutput
<1>6. CASE CreateStatusFile(Worker)
  <2>1. /\ UNCHANGED <<files["pid"], files["res"], outcome>>
        /\ files["resp"] = Absent <=> files'["resp"] = Absent
    BY <1>6 DEF CreateStatusFile, Collapse
  <2>2. /\ pc[Worker] \in {"attrs", "statOpen", "statWrite"}
        /\ pc'[Worker] \in {"statOpen", "statWrite", "finalOpen", "finalWrite", "dead"}
    BY <1>6 DEF CreateStatusFile, Attributes, AfterStatusFile
  <2>. QED  BY <2>1, <2>2
<1>7. CASE ValidateRequest \/ UpdateStatus
  BY <1>7 DEF ValidateRequest, UpdateStatus
<1>8. CASE RunService
  BY <1>8 DEF RunService, Collapse
<1>9. CASE PrintResult
  BY <1>9 DEF PrintResult
<1>10. CASE DumpBackFinalFile
  BY <1>10 DEF DumpBackFinalFile
<1>11. CASE RemovePidFile
  BY <1>11 DEF RemovePidFile
<1>12. CASE WriteFinalStatus
  <2>1. outcome # Absent
    BY DEF TypeOK, Outcomes, Absent
  <2>. QED  BY <1>12, <2>1 DEF WriteFinalStatus, FinalStatus
<1>13. CASE CleanUp
  BY <1>13 DEF CleanUp
<1>. QED  BY <1>4, <1>5, <1>6, <1>7, <1>8, <1>9, <1>10, <1>11, <1>12, <1>13 DEF WorkerNext

LEMMA ForkStep ==
  ASSUME NoDismissal, TypeOK, OutcomeInv, ForkInv, [Next]_vars
  PROVE  ForkInv'
<1>1. PlacesInv'
  BY PlacesStep DEF ForkInv
<1>2. CASE WorkerNext
  BY <1>1, <1>2, ForkWorkerStep DEF ForkInv
<1>3. CASE AcceptorNext
  BY <1>1, <1>3, ForkAcceptorStep DEF ForkInv
<1>4. CASE (\E c \in Clients : Request(c)) \/ \E p \in Readers : Serve(p)
  <2>1. ReaderStep
    BY <1>4, ReadersOnlyRead DEF ForkInv
  <2>2. RespInv' /\ ResInv'
    BY <2>1 DEF ReaderStep, ForkInv, RespInv, ResInv
  <2>3. pc'[Acceptor] # pc[Acceptor] => pc[Acceptor] \in {"sidRead", "pidRead", "resStat",
                                                         "resRead", "message", "report"}
    <3>. USE AcceptorIsNoClient DEF TypeOK
    <3>1. ASSUME NEW c \in Clients, Request(c) \/ GetResults(c) PROVE UNCHANGED pc[Acceptor]
      BY <3>1 DEF Request, GetResults, Goto, Answer, Continue
    <3>2. ASSUME NEW p \in Readers, StatusNext(p), p # Acceptor PROVE UNCHANGED pc[Acceptor]
      BY <3>2 DEF StatusNext, GetStatusId, IsRunning, ReadFinalRes, FailureMessage,
         ReportStatus, Answer, Continue
    <3>3. CASE StatusNext(Acceptor)
      BY <3>3 DEF StatusNext, GetStatusId, IsRunning, ReadFinalRes, FailureMessage,
         ReportStatus
    <3>4. ASSUME NEW c \in Clients, DismissNext(c) PROVE FALSE
      BY <3>4 DEF DismissNext, FetchPid, Kill, ListFiles, RemoveFile, Dismissed, Goto,
                  ForkInv, PlacesInv, ClientLabels
    <3>. QED  BY <1>4, <3>1, <3>2, <3>3, <3>4 DEF Serve
  <2>4. SidInv' /\ PidInv'
    BY <2>1, <2>3 DEF ReaderStep, ForkInv, SidInv, PidInv, PidMade, BeforePid
  <2>. QED  BY <1>1, <2>2, <2>4 DEF ForkInv
<1>5. CASE UNCHANGED vars
  BY <1>5 DEF vars, ForkInv, PlacesInv, SidInv, PidInv, RespInv, ResInv, PidMade
<1>. QED  BY <1>2, <1>3, <1>4, <1>5 DEF Next

(* What is final once .pid is gone: the worker writes neither the result   *)
(* nor the outcome any more.                                               *)
LEMMA AfterPidStable ==
  ASSUME TypeOK, OutcomeInv, ForkInv, [Next]_vars
  PROVE  /\ PidMade => PidMade'
         /\ pc[Worker] \in AfterPid =>
              pc'[Worker] \in AfterPid /\ UNCHANGED <<outcome, files["resp"]>>
<1>. USE AcceptorIsNoClient, ContentsDiffer, ProcessAssumption DEF FileNames, Absent, Empty
<1>. USE DEF PidMade, AfterPid
<1>0. files \in [FileNames -> AnyContent] /\ pc \in [Processes -> Labels]
  BY DEF TypeOK, FilesOK
<1>1. CASE AcceptorNext
  BY <1>0, <1>1 DEF AcceptorNext, CreateSPidFile, CreateLenvFile, CreateStatusFile, Goto,
     Attributes, OpenW, Write
<1>2. CASE WorkerNext
  <2>. USE <1>0 DEF Goto, OpenW, Write, Unlink
  <2>1. CASE CreateSPidFile(Worker) \/ CreateLenvFile(Worker) \/ RedirectOutput
    BY <2>1 DEF CreateSPidFile, CreateLenvFile, RedirectOutput
  <2>2. CASE CreateStatusFile(Worker)
    BY <2>2 DEF CreateStatusFile, Attributes, Collapse
  <2>3. CASE ValidateRequest \/ UpdateStatus \/ RunService \/ PrintResult
    BY <2>3 DEF ValidateRequest, UpdateStatus, RunService, PrintResult, Collapse
  <2>4. CASE DumpBackFinalFile \/ RemovePidFile
    BY <2>4 DEF DumpBackFinalFile, RemovePidFile
  <2>5. CASE WriteFinalStatus \/ CleanUp
    BY <2>5 DEF WriteFinalStatus, CleanUp
  <2>. QED  BY <1>2, <2>1, <2>2, <2>3, <2>4, <2>5 DEF WorkerNext
<1>3. CASE (\E c \in Clients : Request(c)) \/ \E p \in Readers : Serve(p)
  <2>1. ReaderStep
    BY <1>3, ReadersOnlyRead DEF ForkInv
  <2>. QED  BY <2>1 DEF ReaderStep
<1>4. CASE UNCHANGED vars
  BY <1>4 DEF vars
<1>. QED  BY <1>1, <1>2, <1>3, <1>4 DEF Next

-----------------------------------------------------------------------------
(* HonestResults.  A client asks after .pid was made; that it is gone      *)
(* means that the worker has copied the result and only adds the status.   *)

ServedAnswers == {"document", "exception", "serviceFailed"}

ClientInv ==
  /\ known => PidMade
  /\ \A c \in Clients :
       /\ pc[c] # "idle" => known
       /\ pc[c] \in {"docStat", "docRead"} =>
            pc[Worker] \in AfterPid /\ op[c] = "GetResults"
       /\ pc[c] = "docRead" => files["resp"] \in Documents \ {"short"}
       /\ answer[c] \notin {"torn", "gone"}
       /\ answer[c] \in ServedAnswers => pc[Worker] \in AfterPid

HonestInv == TypeOK /\ OutcomeInv /\ ForkInv /\ ClientInv

LEMMA HonestImplied == HonestInv => HonestResults
BY DEF HonestInv, OutcomeInv, AfterReturn, AfterPid, ForkInv, RespInv, ClientInv,
   HonestResults, ServedAnswers

LEMMA HonestInit == Init => HonestInv
<1>1. Init => ClientInv
  BY AcceptorIsNoClient DEF Init, ClientInv, ServedAnswers
<1>. QED  BY <1>1, InitType, TrueInit, ForkInit DEF HonestInv, TrueInv

LEMMA ClientForkStep ==
  ASSUME TypeOK, OutcomeInv, ForkInv, ClientInv, WorkerNext \/ AcceptorNext
  PROVE  ClientInv'
<1>1. [Next]_vars
  BY DEF Next
<1>2. UNCHANGED requestVars
  BY DEF WorkerNext, AcceptorNext, CreateSPidFile, CreateLenvFile,
     CreateStatusFile, RedirectOutput, ValidateRequest, UpdateStatus, RunService,
     PrintResult, DumpBackFinalFile, RemovePidFile, WriteFinalStatus, CleanUp
<1>3. \A c \in Clients : UNCHANGED pc[c]
  BY AcceptorIsNoClient DEF TypeOK, WorkerNext, AcceptorNext, CreateSPidFile, CreateLenvFile,
     Goto, Attributes,
     CreateStatusFile, RedirectOutput, ValidateRequest, UpdateStatus, RunService,
     PrintResult, DumpBackFinalFile, RemovePidFile, WriteFinalStatus, CleanUp
<1>. QED  BY <1>1, <1>2, <1>3, AfterPidStable DEF requestVars, ClientInv

LEMMA ClientReaderStep ==
  ASSUME TypeOK, OutcomeInv, ForkInv, ClientInv,
         (\E c \in Clients : Request(c)) \/ \E p \in Readers : Serve(p)
  PROVE  ClientInv'
<1>. USE AcceptorIsNoClient DEF TypeOK
<1>0. ReaderStep
  BY ReadersOnlyRead DEF ForkInv
<1>1. ASSUME NEW c \in Clients, Request(c) PROVE ClientInv'
  <2>1. PidMade
    BY <1>1 DEF Request, InJobList, ClientInv, ForkInv, RespInv, PidInv, BeforePid, BeforeResp
  <2>. QED  BY <1>0, <1>1, <2>1 DEF ReaderStep, Request, Goto, ClientInv, PidMade, ServedAnswers
<1>2. ASSUME NEW p \in Readers, StatusNext(p) PROVE ClientInv'
  <2>1. pc[p] \in {"pidRead", "report"} => PidMade
    BY DEF ForkInv, PidInv, ClientInv, BeforePid, Readers
  <2>2. CASE GetStatusId(p)
    BY <1>0, <2>2 DEF ReaderStep, GetStatusId, Answer, Continue, ClientInv, PidMade,
       ServedAnswers, Statuses, Readers
  <2>3. CASE IsRunning(p)
    BY <1>0, <2>1, <2>3 DEF ReaderStep, IsRunning, Running, Answer, Continue, ClientInv, PidMade,
       ServedAnswers, Statuses, Readers, ForkInv, PlacesInv
  <2>4. CASE ReadFinalRes(p) \/ FailureMessage(p)
    BY <1>0, <2>4 DEF ReaderStep, ReadFinalRes, FailureMessage, Answer, Continue, ClientInv,
       PidMade, Readers
  <2>5. CASE ReportStatus(p)
    BY <1>0, <2>1, <2>5 DEF ReaderStep, ReportStatus, Answer, Continue, ClientInv, PidMade,
       ServedAnswers, Statuses, Readers
  <2>. QED  BY <1>2, <2>2, <2>3, <2>4, <2>5 DEF StatusNext
<1>3. ASSUME NEW c \in Clients, GetResults(c) PROVE ClientInv'
  <2>1. pc[c] \in {"docStat", "docRead"} =>
          pc[Worker] \in AfterPid /\ files["resp"] \in Documents \union {Empty}
    BY DEF ClientInv, ForkInv, RespInv, DocumentsOf, Documents
  <2>2. Absent \notin Documents
    BY DEF Absent, Documents
  <2>. QED  BY <1>0, <1>3, <2>1, <2>2 DEF ReaderStep, GetResults, Served, Answer, Continue,
               ClientInv, PidMade, ServedAnswers, Statuses, Documents
<1>4. ASSUME NEW c \in Clients, DismissNext(c) PROVE FALSE
  BY <1>4 DEF DismissNext, FetchPid, Kill, ListFiles, RemoveFile, Dismissed, Goto,
              ForkInv, PlacesInv, ClientLabels
<1>. QED  BY <1>1, <1>2, <1>3, <1>4 DEF Serve

LEMMA HonestStep ==
  ASSUME NoDismissal, HonestInv, [Next]_vars
  PROVE  HonestInv'
<1>0. TypeOK /\ OutcomeInv /\ ForkInv /\ ClientInv
  BY DEF HonestInv
<1>1. TypeOK' /\ OutcomeInv' /\ ForkInv'
  BY <1>0, TypeStep, OutcomeStep, ForkStep
<1>2. ClientInv'
  <2>1. CASE UNCHANGED vars
    BY <1>0, <2>1 DEF vars, ClientInv, PidMade
  <2>. QED  BY <1>0, <2>1, ClientForkStep, ClientReaderStep DEF Next
<1>. QED  BY <1>1, <1>2 DEF HonestInv

-----------------------------------------------------------------------------
(* AnswerIsASnapshot.  A request that began before the 201 may answer      *)
(* anything; for the others .pid cannot come back once it is gone, so that *)
(* the .res file alone decides between the reads.                          *)

Unrestricted(c) == Answers \subseteq views[c]

SnapshotOf(c) ==
  /\ Serving(c) => View \in views[c] /\ (Announced \/ Unrestricted(c))
  /\ pc[c] \in {"resStat", "resRead"} => files["pid"] = Absent \/ Unrestricted(c)
  /\ pc[c] \in {"message", "report"} => seen[c] \in views[c]
  /\ op[c] = "GetStatus" /\ answer[c] # "none" => answer[c] \in views[c]

SnapshotInv == HonestInv /\ \A c \in Clients : SnapshotOf(c)

LEMMA ViewIsAnAnswer == View \in Answers
BY DEF View, Answers, Statuses, StatusOf

LEMMA SnapshotImplied == SnapshotInv => AnswerIsASnapshot
BY DEF SnapshotInv, SnapshotOf, AnswerIsASnapshot

LEMMA SnapshotInit == Init /\ InitViews => SnapshotInv
<1>. SUFFICES ASSUME Init, InitViews PROVE \A c \in Clients : SnapshotOf(c)
  BY HonestInit DEF SnapshotInv
<1>. QED  BY AcceptorIsNoClient DEF Init, SnapshotOf, Serving

(* The acceptor is done for good; then .pid does not come back.            *)
LEMMA AnnouncedStable ==
  ASSUME TypeOK, ForkInv, Announced, [Next]_vars
  PROVE  /\ Announced'
         /\ files["pid"] = Absent => files'["pid"] = Absent
<1>. USE AcceptorIsNoClient DEF Announced
<1>0. /\ files \in [FileNames -> AnyContent] /\ pc \in [Processes -> Labels]
      /\ "pid" \in FileNames
  BY DEF TypeOK, FilesOK, FileNames
<1>1. ~AcceptorNext
  BY DEF AcceptorNext, CreateSPidFile, CreateLenvFile, CreateStatusFile, Attributes, Goto
<1>2. CASE WorkerNext
  <2>1. UNCHANGED pc[Acceptor]
    BY <1>0, <1>2 DEF WorkerNext, CreateSPidFile, CreateLenvFile, Goto, Attributes,
       CreateStatusFile, RedirectOutput, ValidateRequest, UpdateStatus, RunService,
       PrintResult, DumpBackFinalFile, RemovePidFile, WriteFinalStatus, CleanUp
  <2>2. ASSUME files["pid"] = Absent PROVE WriteFinalStatus \/ CleanUp
    <3>1. pc[Worker] \in AfterPid
      BY <2>2 DEF ForkInv, PidInv, PidMade, BeforePid
    <3>. QED  BY <1>2, <3>1 DEF WorkerNext, CreateSPidFile, CreateLenvFile, Goto, Attributes,
       CreateStatusFile, RedirectOutput, ValidateRequest, UpdateStatus, RunService,
       PrintResult, DumpBackFinalFile, RemovePidFile, AfterPid
  <2>3. WriteFinalStatus \/ CleanUp => UNCHANGED files["pid"]
    BY <1>0 DEF WriteFinalStatus, CleanUp, OpenW, Write, Unlink
  <2>. QED  BY <2>1, <2>2, <2>3
<1>3. CASE (\E c \in Clients : Request(c)) \/ \E p \in Readers : Serve(p)
  <2>1. UNCHANGED files
    BY <1>3, ReadersOnlyRead DEF ForkInv, ReaderStep
  <2>2. UNCHANGED pc[Acceptor]
    <3>. USE <1>0
    <3>1. ASSUME NEW c \in Clients, Request(c) \/ GetResults(c) PROVE UNCHANGED pc[Acceptor]
      BY <3>1 DEF Request, GetResults, Goto, Answer, Continue
    <3>2. ASSUME NEW p \in Readers, StatusNext(p) PROVE UNCHANGED pc[Acceptor]
      BY <3>2 DEF StatusNext, GetStatusId, IsRunning, ReadFinalRes, FailureMessage,
         ReportStatus, Answer, Continue
    <3>3. ASSUME NEW c \in Clients, DismissNext(c) PROVE FALSE
      BY <3>3 DEF DismissNext, FetchPid, Kill, ListFiles, RemoveFile, Dismissed, Goto,
                  ForkInv, PlacesInv, ClientLabels
    <3>. QED  BY <1>3, <3>1, <3>2, <3>3 DEF Serve
  <2>. QED  BY <2>1, <2>2
<1>4. CASE UNCHANGED vars
  BY <1>4 DEF vars
<1>. QED  BY <1>1, <1>2, <1>3, <1>4 DEF Next

(* How FollowViews treats a client, in the words of the invariant.         *)
LEMMA ViewsFollow ==
  ASSUME FollowViews, NEW c \in Clients, SnapshotOf(c)
  PROVE  /\ ~Serving(c)' => views'[c] = views[c]
         /\ Serving(c)' => View' \in views'[c] /\ (Announced \/ Unrestricted(c)')
         /\ Serving(c)' /\ Serving(c) => Unrestricted(c)' \/ views[c] \subseteq views'[c]
         /\ Serving(c)' /\ Serving(c) /\ Unrestricted(c) => Unrestricted(c)'
<1>1. c \in Readers
  BY DEF Readers
<1>2. View' \in Answers
  BY ViewIsAnAnswer DEF View, Answers, Statuses, StatusOf
<1>3. views'[c] = IF ~Serving(c)' THEN views[c]
                  ELSE IF ~Announced THEN Answers
                  ELSE IF pc[c] = "idle" THEN {View, View'}
                  ELSE views[c] \union {View'}
  BY <1>1 DEF FollowViews
<1>. QED  BY <1>2, <1>3 DEF Unrestricted, Serving

(* A step in which this client does nothing.                               *)
LEMMA OtherSnapshot ==
  ASSUME SnapshotInv, [Next]_vars, FollowViews, NEW c \in Clients,
         UNCHANGED <<pc[c], op[c], seen[c], answer[c]>>
  PROVE  SnapshotOf(c)'
<1>0. TypeOK /\ ForkInv /\ SnapshotOf(c)
  BY DEF SnapshotInv, HonestInv
<1>1. Serving(c)' <=> Serving(c)
  BY DEF Serving
<1>2. /\ pc[c] \in {"resStat", "resRead", "message", "report"} => Serving(c)
      /\ seen[c] \in Answers /\ answer[c] \in Answers
  BY <1>0, AcceptorIsNoClient DEF Serving, Ended, TypeOK, Answers
<1>. QED  BY <1>0, <1>1, <1>2, AnnouncedStable, ViewsFollow DEF SnapshotOf, Unrestricted

LEMMA RequestSnapshot ==
  ASSUME SnapshotInv, FollowViews, NEW c \in Clients, Request(c)
  PROVE  SnapshotOf(c)'
<1>0. TypeOK /\ SnapshotOf(c) /\ ForkInv /\ [Next]_vars
  BY DEF SnapshotInv, HonestInv, Next
<1>1. pc'[c] = "sidRead" /\ answer'[c] = "none"
  BY <1>0, AcceptorIsNoClient DEF Request, Goto, TypeOK
<1>. QED  BY <1>0, <1>1, ViewsFollow, AnnouncedStable DEF SnapshotOf, Serving, Ended

LEMMA StatusSnapshot ==
  ASSUME SnapshotInv, FollowViews, NEW c \in Clients, StatusNext(c) \/ GetResults(c)
  PROVE  SnapshotOf(c)'
<1>. USE AcceptorIsNoClient
<1>0. TypeOK /\ SnapshotOf(c) /\ ForkInv /\ ClientInv /\ [Next]_vars
  BY DEF SnapshotInv, HonestInv, Next, Serve
<1>1. UNCHANGED files
  BY DEF StatusNext, GetStatusId, IsRunning, ReadFinalRes, FailureMessage,
     ReportStatus, GetResults
<1>2. Serving(c)
  BY DEF StatusNext, GetStatusId, IsRunning, ReadFinalRes, FailureMessage,
     ReportStatus, GetResults, Serving, Ended
<1>3. Serving(c)' => /\ View' \in views'[c]
                     /\ Announced' \/ Unrestricted(c)'
                     /\ Unrestricted(c) => Unrestricted(c)'
                     /\ Unrestricted(c)' \/ views[c] \subseteq views'[c]
  BY <1>0, <1>2, AnnouncedStable, ViewsFollow
<1>4. ~Serving(c)' => views'[c] = views[c]
  BY <1>0, ViewsFollow
<1>5. View \in views[c] /\ (Announced \/ Unrestricted(c))
  BY <1>0, <1>2 DEF SnapshotOf
<1>6. {"running", "failed", seen[c], answer[c]} \subseteq Answers
  BY <1>0 DEF TypeOK, Answers, Statuses
<1>7. Announced => files["sid"] # Absent
  BY <1>0 DEF Announced, ForkInv, SidInv
<1>. USE <1>0, <1>1, <1>3, <1>4, <1>5, <1>6 DEF TypeOK, SnapshotOf, Serving, Ended
<1>8. CASE GetStatusId(c)
  <2>1. CASE files["sid"] = Absent
    BY <1>8, <2>1 DEF GetStatusId, Answer, View
  <2>2. CASE files["sid"] # Absent
    BY <1>8, <2>2 DEF GetStatusId, Continue, Unrestricted
  <2>. QED  BY <2>1, <2>2
<1>9. CASE IsRunning(c)
  <2>1. CASE op[c] = "GetStatus" /\ Running
    <3>1. "running" \in views[c]
      BY <1>7, <2>1 DEF View, Unrestricted, Answers, Statuses
    <3>. QED  BY <1>9, <2>1, <3>1 DEF IsRunning, Continue, Unrestricted
  <2>2. CASE op[c] = "GetStatus" /\ ~Running
    BY <1>9, <2>2 DEF IsRunning, Running, Continue, Unrestricted
  <2>3. CASE op[c] # "GetStatus"
    BY <1>9, <2>3 DEF IsRunning, Continue, Answer
  <2>. QED  BY <2>1, <2>2, <2>3
<1>10. CASE ReadFinalRes(c)
  <2>1. CASE pc[c] = "resStat" /\ files["res"] \in {Absent, Empty}
    <3>1. "failed" \in views[c]
      BY <1>7, <2>1 DEF View, Running, Unrestricted, Answers, Statuses
    <3>. QED  BY <1>10, <2>1, <3>1 DEF ReadFinalRes, StatusByDefault, Continue, Unrestricted
  <2>2. CASE pc[c] = "resRead" /\ files["res"] \notin {Absent, Empty}
    <3>1. StatusOf(files["res"]) \in Answers
      BY DEF StatusOf, Answers, Statuses
    <3>2. StatusOf(files["res"]) \in views[c]
      BY <1>7, <2>2, <3>1 DEF View, Running, Unrestricted
    <3>. QED  BY <1>10, <2>2, <3>1, <3>2 DEF ReadFinalRes, Continue, Unrestricted
  <2>3. CASE pc[c] = "resStat" /\ files["res"] \notin {Absent, Empty}
    BY <1>10, <2>3 DEF ReadFinalRes, Continue, Unrestricted
  <2>4. CASE pc[c] = "resRead" /\ files["res"] \in {Absent, Empty}
    BY <1>10, <2>4 DEF ReadFinalRes, Continue
  <2>. QED  BY <1>10, <2>1, <2>2, <2>3, <2>4 DEF ReadFinalRes
<1>11. CASE FailureMessage(c)
  BY <1>11 DEF FailureMessage, Continue, Unrestricted
<1>12. CASE ReportStatus(c)
  BY <1>12 DEF ReportStatus, Answer, Continue
<1>13. CASE GetResults(c)
  BY <1>13 DEF GetResults, Answer, Continue, ClientInv
<1>. QED  BY <1>8, <1>9, <1>10, <1>11, <1>12, <1>13 DEF StatusNext

LEMMA SnapshotStep ==
  ASSUME NoDismissal, SnapshotInv, [Next /\ FollowViews]_viewVars
  PROVE  SnapshotInv'
<1>0. HonestInv /\ TypeOK /\ PlacesInv
  BY DEF SnapshotInv, HonestInv, ForkInv
<1>1. CASE UNCHANGED viewVars
  <2>1. UNCHANGED vars /\ UNCHANGED views
    BY <1>1 DEF viewVars
  <2>2. HonestInv'
    BY <1>0, <2>1, HonestStep
  <2>3. ASSUME NEW c \in Clients PROVE SnapshotOf(c)'
    BY <2>1 DEF SnapshotInv, SnapshotOf, Serving, Announced, Unrestricted, View, Running,
       vars
  <2>. QED  BY <2>2, <2>3 DEF SnapshotInv
<1>2. CASE Next /\ FollowViews
  <2>1. HonestInv'
    BY <1>0, <1>2, HonestStep
  <2>2. ASSUME NEW c \in Clients PROVE SnapshotOf(c)'
    <3>. USE AcceptorIsNoClient
    <3>1. CASE Request(c) \/ StatusNext(c) \/ GetResults(c)
      BY <1>2, <3>1, RequestSnapshot, StatusSnapshot
    <3>2. CASE ~(Request(c) \/ StatusNext(c) \/ GetResults(c))
      <4>1. UNCHANGED <<pc[c], op[c], seen[c], answer[c]>>
        <5>. USE <1>0 DEF TypeOK
        <5>1. CASE WorkerNext \/ AcceptorNext
          <6>1. UNCHANGED requestVars
            BY <5>1 DEF WorkerNext, AcceptorNext, CreateSPidFile, CreateLenvFile,
               CreateStatusFile, RedirectOutput, ValidateRequest, UpdateStatus, RunService,
               PrintResult, DumpBackFinalFile, RemovePidFile, WriteFinalStatus, CleanUp
          <6>2. UNCHANGED pc[c]
            BY <5>1 DEF WorkerNext, AcceptorNext, CreateSPidFile, CreateLenvFile, Goto,
               Attributes,
               CreateStatusFile, RedirectOutput, ValidateRequest, UpdateStatus, RunService,
               PrintResult, DumpBackFinalFile, RemovePidFile, WriteFinalStatus, CleanUp
          <6>. QED  BY <6>1, <6>2 DEF requestVars
        <5>2. ASSUME NEW d \in Clients, d # c, Request(d) \/ GetResults(d)
              PROVE  UNCHANGED <<pc[c], op[c], seen[c], answer[c]>>
          BY <5>2 DEF Request, GetResults, Goto, Answer, Continue
        <5>3. ASSUME NEW p \in Readers, p # c, StatusNext(p)
              PROVE  UNCHANGED <<pc[c], op[c], seen[c], answer[c]>>
          BY <5>3 DEF StatusNext, GetStatusId, IsRunning, ReadFinalRes, FailureMessage,
             ReportStatus, Answer, Continue
        <5>4. ASSUME NEW d \in Clients, DismissNext(d) PROVE FALSE
          BY <5>4 DEF DismissNext, FetchPid, Kill, ListFiles, RemoveFile, Dismissed, Goto,
                      PlacesInv, ClientLabels
        <5>. QED  BY <1>2, <3>2, <5>1, <5>2, <5>3, <5>4 DEF Next, Serve
      <4>. QED  BY <1>2, <4>1, OtherSnapshot
    <3>. QED  BY <3>1, <3>2
  <2>. QED  BY <2>1, <2>2 DEF SnapshotInv
<1>. QED  BY <1>1, <1>2

(* While nobody dismisses the job, GET /jobs/{id}/results answers nothing  *)
(* but the complete result, whatever the service and its worker do.        *)
THEOREM ResultsAreHonest ==
  ASSUME NoDismissal
  PROVE  SpecViews => []HonestResults
<1>1. Init /\ InitViews => HonestInv
  BY HonestInit
<1>2. HonestInv /\ [Next /\ FollowViews]_viewVars => HonestInv'
  <2>1. [Next /\ FollowViews]_viewVars => [Next]_vars
    BY DEF viewVars
  <2>. QED  BY <2>1, HonestStep
<1>. QED  BY <1>1, <1>2, HonestImplied, PTL DEF SpecViews

(* Without dismissals every GetStatus answers a status the job had at one  *)
(* moment of the request, although it reads up to four files in turn.      *)
THEOREM StatusIsASnapshot ==
  ASSUME NoDismissal
  PROVE  SpecViews => []AnswerIsASnapshot
<1>1. SnapshotInv /\ [Next /\ FollowViews]_viewVars => SnapshotInv'
  BY SnapshotStep
<1>. QED  BY <1>1, SnapshotInit, SnapshotImplied, PTL DEF SpecViews

-----------------------------------------------------------------------------
(* AsyncJob implements JobView.  Only these steps are seen through Status: *)
(* ReportStatus of the acceptor is Announce, RunService Return,            *)
(* RemovePidFile Finish and WriteFinalStatus Publish.                      *)

RefinementInv == HonestInv /\ ResIsTrue

LEMMA RefinementStep ==
  ASSUME NoDismissal, RefinementInv, [Next]_vars
  PROVE  RefinementInv'
BY HonestStep, ResStep DEF RefinementInv, HonestInv

(* What View can be once the acceptor is about to answer.                  *)
LEMMA ViewOnceMade ==
  ASSUME RefinementInv, files["sid"] # Absent, PidMade
  PROVE  /\ View \in Statuses
         /\ View = "failed" => outcome # "none"
         /\ View = "successful" => outcome = "Succeeded"
<1>1. ASSUME files["pid"] = Absent PROVE outcome # "none"
  BY <1>1 DEF RefinementInv, HonestInv, OutcomeInv, PidMade, AfterPid, AfterReturn
<1>. QED  BY <1>1 DEF View, Running, Statuses, StatusOf, RefinementInv, ResIsTrue

LEMMA AcceptorRefines ==
  ASSUME RefinementInv,
         AcceptorNext \/ (\E c \in Clients : Request(c)) \/ \E p \in Readers : Serve(p)
  PROVE  [Abstract!Next]_Abstract!vars
<1>. USE AcceptorIsNoClient
<1>0. TypeOK /\ ForkInv /\ PlacesInv
  BY DEF RefinementInv, HonestInv, ForkInv
<1>1. CASE AcceptorNext
  <2>1. UNCHANGED outcome /\ ~Announced /\ ~Announced'
    BY <1>0, <1>1 DEF TypeOK, Announced, AcceptorNext, CreateSPidFile, CreateLenvFile,
       CreateStatusFile, Attributes, AfterStatusFile, Goto
  <2>. QED  BY <2>1 DEF Status, Abstract!vars
<1>2. CASE StatusNext(Acceptor)
  <2>1. UNCHANGED <<files, outcome>> /\ ~Announced
    BY <1>2 DEF StatusNext, GetStatusId, IsRunning, ReadFinalRes, FailureMessage,
       ReportStatus, Announced
  <2>2. files["sid"] # Absent /\ PidMade
    BY <1>0, <1>2 DEF StatusNext, GetStatusId, IsRunning, ReadFinalRes, FailureMessage,
       ReportStatus, ForkInv, SidInv, PidInv, BeforePid
  <2>3. CASE ~Announced'
    BY <2>1, <2>3 DEF Status, Abstract!vars
  <2>4. CASE Announced'
    <3>1. Status = "unknown" /\ Status' = View
      BY <2>1, <2>4 DEF Status, View, Running
    <3>2. Abstract!Announce
      BY <2>1, <2>2, <3>1, ViewOnceMade DEF Abstract!Announce, Statuses
    <3>. QED  BY <3>2 DEF Abstract!Next
  <2>. QED  BY <2>3, <2>4
<1>3. CASE (\E c \in Clients : Request(c) \/ GetResults(c))
           \/ \E p \in Readers \ {Acceptor} : StatusNext(p)
  <2>1. UNCHANGED <<files, outcome, pc[Acceptor]>>
    BY <1>0, <1>3 DEF TypeOK, Request, GetResults, StatusNext, GetStatusId, IsRunning,
       ReadFinalRes, FailureMessage, ReportStatus, Goto, Answer, Continue
  <2>. QED  BY <2>1 DEF Status, Announced, View, Running, Abstract!vars
<1>4. ASSUME NEW c \in Clients, DismissNext(c) PROVE FALSE
  BY <1>0, <1>4 DEF DismissNext, FetchPid, Kill, ListFiles, RemoveFile, Dismissed, Goto,
                    PlacesInv, ClientLabels
<1>. QED  BY <1>1, <1>2, <1>3, <1>4 DEF Serve

(* Before the 201 the status is unknown, whatever the worker does.         *)
LEMMA UnknownRefines ==
  ASSUME RefinementInv, WorkerNext, ~Announced
  PROVE  [Abstract!Next]_Abstract!vars
<1>. USE AcceptorIsNoClient
<1>1. Status = "unknown" /\ Status' = "unknown"
  <2>1. UNCHANGED pc[Acceptor]
    BY DEF RefinementInv, HonestInv, TypeOK, WorkerNext, CreateSPidFile, CreateLenvFile,
       Goto, Attributes,
       CreateStatusFile, RedirectOutput, ValidateRequest, UpdateStatus, RunService,
       PrintResult, DumpBackFinalFile, RemovePidFile, WriteFinalStatus, CleanUp
  <2>. QED  BY <2>1 DEF Status, Announced
<1>2. CASE RunService
  <2>1. UNCHANGED outcome \/ (outcome = "none" /\ outcome' \in Outcomes)
    BY <1>2 DEF RunService, Goto, RefinementInv, HonestInv, OutcomeInv, BeforeReturn
  <2>. QED  BY <1>1, <2>1 DEF Outcomes, Abstract!vars, Abstract!Next, Abstract!Return
<1>3. CASE ~RunService
  <2>1. UNCHANGED outcome
    BY <1>3 DEF WorkerNext, CreateSPidFile, CreateLenvFile, CreateStatusFile,
       RedirectOutput, ValidateRequest, UpdateStatus, PrintResult, DumpBackFinalFile,
       RemovePidFile, WriteFinalStatus, CleanUp
  <2>. QED  BY <1>1, <2>1 DEF Abstract!vars
<1>. QED  BY <1>2, <1>3

LEMMA WorkerRefines ==
  ASSUME RefinementInv, WorkerNext, Announced
  PROVE  [Abstract!Next]_Abstract!vars
<1>. USE AcceptorIsNoClient, ProcessAssumption
<1>0. /\ files \in [FileNames -> AnyContent] /\ pc \in [Processes -> Labels]
      /\ {"sid", "pid", "res"} \subseteq FileNames
  BY DEF RefinementInv, HonestInv, TypeOK, FilesOK, FileNames
<1>1. Announced'
  BY <1>0 DEF Announced, WorkerNext, CreateSPidFile, CreateLenvFile, Goto, Attributes,
     CreateStatusFile, RedirectOutput, ValidateRequest, UpdateStatus, RunService,
     PrintResult, DumpBackFinalFile, RemovePidFile, WriteFinalStatus, CleanUp
<1>2. files["sid"] # Absent /\ PidMade
  BY DEF RefinementInv, HonestInv, ForkInv, SidInv, PidInv, Announced, BeforePid
<1>3. files'["sid"] # Absent
  <2>. USE <1>0, <1>2 DEF Goto, OpenW, Write, Unlink, Collapse, FileNames, Absent, Empty
  <2>1. CASE CreateSPidFile(Worker) \/ CreateLenvFile(Worker) \/ CreateStatusFile(Worker)
    BY <2>1 DEF CreateSPidFile, CreateLenvFile, CreateStatusFile
  <2>2. CASE ~(CreateSPidFile(Worker) \/ CreateLenvFile(Worker) \/ CreateStatusFile(Worker))
    BY <2>2 DEF WorkerNext, RedirectOutput, ValidateRequest, UpdateStatus, RunService,
       PrintResult, DumpBackFinalFile, RemovePidFile, WriteFinalStatus, CleanUp
  <2>. QED  BY <2>1, <2>2
<1>4. Status = View /\ Status' = View'
  BY <1>1 DEF Status
<1>. USE DEF Goto, OpenW, Write, Unlink
<1>5. CASE RunService
  <2>1. UNCHANGED outcome \/ (outcome = "none" /\ outcome' \in Outcomes)
    BY <1>5 DEF RunService, RefinementInv, HonestInv, OutcomeInv, BeforeReturn
  <2>2. UNCHANGED <<files["sid"], files["pid"], files["res"]>>
    BY <1>0, <1>5 DEF RunService, Collapse
  <2>3. UNCHANGED Status
    BY <1>4, <2>2 DEF View, Running
  <2>. QED  BY <2>1, <2>3 DEF Outcomes, Abstract!vars, Abstract!Next, Abstract!Return
<1>6. CASE RemovePidFile
  <2>1. /\ files["pid"] # Absent /\ files'["pid"] = Absent
        /\ outcome # "none" /\ UNCHANGED outcome
        /\ files'["res"] = Absent
    BY <1>0, <1>2, <1>6 DEF RemovePidFile, PidMade, AfterPid, RefinementInv, HonestInv, ForkInv,
       ResInv, OutcomeInv, AfterReturn
  <2>2. Status = "running" /\ Status' = "failed"
    BY <1>2, <1>3, <1>4, <2>1 DEF View, Running
  <2>. QED  BY <2>1, <2>2 DEF Abstract!Next, Abstract!Finish
<1>7. CASE WriteFinalStatus
  <2>1. UNCHANGED <<outcome, files["pid"]>>
    BY <1>0, <1>7 DEF WriteFinalStatus
  <2>2. CASE files["pid"] # Absent
    <3>1. Status = "running" /\ Status' = "running"
      BY <1>2, <1>3, <1>4, <2>1, <2>2 DEF View, Running
    <3>. QED  BY <2>1, <3>1 DEF Abstract!vars
  <2>3. CASE files["pid"] = Absent
    <3>1. View \in {"failed", "successful"} /\ (View = "successful" => outcome = "Succeeded")
      BY <1>2, <2>3, ViewOnceMade DEF View, Running, StatusOf
    <3>2. CASE Goto(Worker, "resOpen", "resWrite") /\ OpenW("res")
      <4>1. View = "failed" /\ View' = "failed"
        BY <1>0, <1>2, <1>3, <2>1, <2>3, <3>2 DEF View, Running, RefinementInv, HonestInv,
           ForkInv, ResInv
      <4>. QED  BY <1>4, <2>1, <4>1 DEF Abstract!vars
    <3>3. CASE Goto(Worker, "resWrite", "finalUnlink") /\ Write("res", FinalStatus)
      <4>1. files'["res"] = outcome /\ outcome \in Outcomes
        BY <1>0, <3>3 DEF FinalStatus, RefinementInv, HonestInv, ForkInv, ResInv, OutcomeInv,
           AfterReturn, TypeOK
      <4>2. View' = StatusOf(outcome)
        BY <1>3, <2>1, <2>3, <4>1 DEF View, Running, Outcomes, Absent, Empty
      <4>3. View = View' \/ (View = "failed" /\ outcome = "Succeeded" /\ View' = "successful")
        BY <3>1, <4>1, <4>2 DEF StatusOf, Outcomes
      <4>. QED  BY <1>4, <2>1, <4>3 DEF Abstract!vars, Abstract!Next, Abstract!Publish
    <3>. QED  BY <1>7, <3>2, <3>3 DEF WriteFinalStatus
  <2>. QED  BY <2>2, <2>3
<1>8. CASE CreateSPidFile(Worker)
  <2>1. UNCHANGED outcome /\ files["pid"] # Absent /\ files'["pid"] # Absent
    BY <1>0, <1>2, <1>8 DEF CreateSPidFile, PidMade, AfterPid, Absent, Empty
  <2>2. Status = "running" /\ Status' = "running"
    BY <1>2, <1>3, <1>4, <2>1 DEF View, Running
  <2>. QED  BY <2>1, <2>2 DEF Abstract!vars
<1>9. CASE \/ CreateLenvFile(Worker) \/ CreateStatusFile(Worker) \/ RedirectOutput
           \/ ValidateRequest \/ UpdateStatus \/ PrintResult \/ DumpBackFinalFile \/ CleanUp
  <2>1. UNCHANGED <<outcome, files["sid"], files["pid"], files["res"]>>
    BY <1>0, <1>9 DEF CreateLenvFile, CreateStatusFile, RedirectOutput, ValidateRequest,
       UpdateStatus, PrintResult, DumpBackFinalFile, CleanUp, Collapse, Attributes
  <2>. QED  BY <1>4, <2>1 DEF View, Running, Abstract!vars
<1>. QED  BY <1>5, <1>6, <1>7, <1>8, <1>9 DEF WorkerNext

(* To clients that do not dismiss the job the files amount to JobView:     *)
(* from the 201 on the status is running, then failed, then perhaps        *)
(* successful, never back, and successful only if the service was.         *)
THEOREM StatusNeverGoesBack ==
  ASSUME NoDismissal
  PROVE  SpecViews => NeverGoesBack
<1>1. Init => RefinementInv
  BY HonestInit, TrueInit DEF RefinementInv, TrueInv
<1>2. RefinementInv /\ [Next /\ FollowViews]_viewVars => RefinementInv'
  <2>1. [Next /\ FollowViews]_viewVars => [Next]_vars
    BY DEF viewVars
  <2>. QED  BY <2>1, RefinementStep
<1>3. Init => Abstract!Init
  BY AcceptorIsNoClient DEF Init, Abstract!Init, Status, Announced
<1>4. RefinementInv /\ [Next /\ FollowViews]_viewVars => [Abstract!Next]_Abstract!vars
  <2>1. CASE UNCHANGED viewVars
    BY <2>1 DEF viewVars, vars, Abstract!vars, Status, Announced, View, Running
  <2>. QED  BY <2>1, AcceptorRefines, UnknownRefines, WorkerRefines DEF Next
<1>. QED  BY <1>1, <1>2, <1>3, <1>4, PTL DEF SpecViews, NeverGoesBack, Abstract!Spec
=============================================================================
