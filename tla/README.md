# ZOO-Project: a TLA+ verification of the ZOO-Kernel

ZOO-Kernel (`src/zoo-project/zoo-kernel`) is a WPS 1.0.0 / 2.0.0 and OGC API -
Processes server: every HTTP request is served by a CGI (or FastCGI) process
which parses it, loads a service written in one of many languages, runs it now
or in the background, and prints a response.  The kernel has no server process
that keeps the state of the jobs.  Whatever one request leaves for another is in
files of `main/tmpPath`, in System V semaphores, in a message queue or in a
database, and is read and written by processes that know nothing of each other.
That is where the hard behaviours are, and what this project models.

## 1. Inventory

| Component | State | Operations | Talks to | Hard behaviours |
|---|---|---|---|---|
| Asynchronous OGC API job (`zoo_service_loader.c` POST .../execution, `service_json.c`) | files `usid.sid .pid _lenv.cfg _status.json .status .json .res`, `<service>_final_usid.json` | accept, run, publish, clean up | fork; service; callbacks | two processes write the same files without a lock; a request may come between any two writes; the worker may crash, be refused or be killed |
| Status, result, dismissal and job list requests (`server_internal.c`, `service_json.c`) | the same files | GetStatus, GetResults, Dismiss, GET /jobs | job | reads several files one after the other; kills by a pid it read earlier |
| Asynchronous WPS job (XML) (`zoo_service_loader.c` 5330-5730, `response_print.c`) | same files, stored document | accept, run, publish | semaphore | as above, the stored response under a lock |
| Progress lock (`service_internal.c` 265-295, 658-803) | one System V semaphore per job, `usid.status` | acquireLock, lockShm, unlockShm, removeShmLock, _updateStatus, _getStatus | job and readers | the semaphore is removed while others hold it or wait for it; created again at once; a holder may die |
| File lock (`service_internal.c` 98-222) | `file.lock` | lockFile, unlockFile | download cache | the name is removed while others have its inode open; retries run out |
| Download cache (`caching.c`) | cached `.zca` file, `.zcm` and `.zcp` companions | isInCache, addToCache, cacheFile, runHttpRequests | file lock, HTTP | requests download the same URL at once, or read it while it is stored |
| Message queue workers (`zoo_loader_fpm.c`, `service_internal_amqp.c`, `sql/async_amqp.sql`) | queue, pool of worker processes, execution slots | publish, consume, acknowledge, dismiss | RabbitMQ, database | acknowledged before it runs; worker dies; publish fails unnoticed |
| Basic callbacks (`service_callback.c` handleJobStatus) | threads, reported steps | jobCompleted/inProgress/failed notifications | subscriber | threads overtake each other |
| Remote job handlers (`service_callback.c` handleJobStatus) | threads, iNbJobsHandlers, iNbJobsHandled | poll a nested job, fetch its result into the input | other servers | counters without a lock; results written to copies of the input |
| Step callbacks (`service_callback.c` invokeCallback, `USE_CALLBACK`) | globals nbThreads, cStep, isOngoing, steps[7][2] | invokeCallback, cleanupCallbackThreads | subscriber | globals shared by threads without a lock |
| SQL status backend (`sqlapi.c`, `sql/schema.sql`, `RELY_ON_DB`) | rows of services, responses, files; `ppoZooDS`, `lenv.ds_nb` | _init_sql, close_sql, cleanUpSql, recordServiceStatus, _updateStatus, unhandleStatus, ... | PostgreSQL | concurrent updates; two databases in one array, either of which may be out of reach |
| Remote execution (`service_internal_hpc.c`, `sshapi.c`) | remote job, local status files | submit, poll, download | SSH, SLURM | waits for a remote callback |
| Request handling (`zoo_service_loader.c` runRequest) | pmCgi globals, headers, flags of what was printed | route, deploy, negotiate the mode, run, answer | everything | a dozen ways out, each with its own answer; signals at any moment |
| Request parsing, validation (`request_parser.c`, `service_json.c`, `server_internal.c`, `caching.c`) | inputs, outputs, queue of HTTP requests | parse, loadRemoteFile, runHttpRequests, validateRequest, addDefaultValues | cache, HTTP client, queue | answers handed out by position; the request a worker takes from the queue is not the one that was parsed |
| Response printing (`response_print.c`, `service_json.c`) | outputs | outputResponse, printProcessResponse, printJResult, printRawdataOutputs | lock | by value or by reference, one or many, and files that are not there |
| Maps (`service.c`) | linked lists of maps, elements, services | setMapArray, addToMaps, dupElements, dupService... | | pure |
| Language supports (`service_internal_*`, `loadServiceAndRun`) | objects of the interpreter, `real_inputs`, `real_outputs`, `m["lenv"]`, eres | load, convert the inputs, run, convert the outputs and conf back, report an exception | interpreter or virtual machine; response | a dozen languages with a dozen ways to give up each; who tells the client; what holds a zero byte, a list, a nested input |
| Registry, zcfg/YAML parsers, metadata (`service_conf.y`, `service_yaml.c`, `meta_sql.c`, `service.c`) | the flags of a parser, rows of the metadata database, profiles | getServiceFromFile, getServiceFromYAML, extractServiceFromDb, createRegistry, inheritance | search; printing of descriptions | flags that outlive the token that set them; three writings of one description must mean the same |
| Process search and lists (`zoo_service_loader.c` 480-955, 4950-5115, 3290-3340; `meta_sql.c` 660-710) | `lenv` `serviceCnt`, `serviceCntNext`, `can_continue`; the registry | recursReaddirF, fetchServicesForDescription, fetchService, fetchServicesFromDb | directories, imports, rows; the printers | three searches, each in its own order; pages over several sources; services come and go meanwhile |
| HTTP client (`ulinet.c`) | handles, their headers and answers | InternetOpenUrl, AddHeaderEntries, processDownloads, InternetReadFile, InternetCloseHandle | libcurl; protected hosts | handles known by their number only; the client's headers go to protected hosts and to no other |
| zoo-api, zoo-client, zoo-services, thirds | | | | examples and vendored code |

What makes each component correct:

* job: a status is never reported that the service did not earn; results are
  only served complete; the status does not go back; the outcome is eventually
  reported; a dismissed job is stopped, gone, and does not come back.
* progress lock: at most one process inside; nobody waits for ever for a
  semaphore that nobody will release; a reader never sees half a message.
* file lock and cache: at most one holder; no lock file stays behind; a cached
  file is only used when complete; in the end the cache holds the document.
* queue workers: every accepted job is run at most once, and eventually run
  while a worker lives; what clients read in the tables is final.
* callbacks and handlers: the final notification of a job is delivered, the
  results of the remote jobs are in the inputs, the process ends.
* remote execution: an input is not replaced under a running script, locks are
  given back, the steps are announced in order.
* request handling: one head and one body, of the same kind; a refusal leaves
  nothing behind; what the client is told took place.
* language supports: what a service gets is what the request holds, what it returns is
  what the client gets, and a failure is told once, with its message.
* descriptions: whatever way a description is written and printed, the client reads what
  the author wrote.
* process search and lists: every service is listed once, what is listed can be described,
  and what is described is what runs; the pages of a list have everything once.
* parsing and printing: the service gets the inputs of the request, in their
  order; the client gets the outputs it asked for, as it asked.
* HTTP client: each reference gets the answer of its own URL, asked for with what its host wants.
* connections: a statement reaches the database it is for, and no other; what failed once
  does not silence the rest.

The individual hazards are in `PROJECT.json`, each at its line.

## 2. Plan

| Step | Modules | Abstract specification | Runs and bounds | Theorems |
|---|---|---|---|---|
| 1, done | `AsyncJob`, `JobView`, `AsyncJobView` | `JobView`: the status a client sees | 1 worker, 1 acceptor, 1-2 clients | `TypeOK`, `SuccessIsTrue`, `HonestResults`, `AnswerIsASnapshot`, `DismissIsFinal`, the refinement of `JobView` |
| 2, done | `ShmLock` | none: the lock does not implement an atomic one (section 6) | 1 worker, 2-3 readers | `TypeOK`, `SemaphoreConserved`, `NoTornProgress`, `NoSemaphoreLeft` |
| 3, done | `FileLock`; `DownloadCache` on top of it | none: an entry is neither absent nor complete while it is stored (section 6) | 3 requests, 1 URL | `TypeOK`, `CacheSettles`, `NoLockLeft` |
| 4, done | `JobQueue`: publisher, broker, pool of `zoo_loader_fpm`, slots, tables | every accepted job runs at most once, its state is final | 1 job and a dismissal's message, 1-2 workers, 1 fault | `TypeOK`, `OneRunAtATime`, `NoJobLost`, `AtMostOnce`, `DismissedStaysGone` |
| 5, done | `Callbacks`; `StepCallbacks`, `RemoteJob` on top of it | none | 2 remote jobs, 4 notifications; 2 jobs on a cluster | `TypeOK`, `ResultsStored`, `FinalDelivered`; `StepsInOrder`, `LocksReleased`, `InputIsStable` |
| 6, done | `RequestState`, `OgcApiRequest`, `WpsRequest`; `Request` composes them | one head and one body | one request | no constant to prove about: TLC checks all of it |
| 7, done | `Inputs`, `Outputs`; `Execution` composes them | the request itself: what was given and asked for | 3 arguments, 2 names | `AnsweredAsAsked`, `EveryInputArrives`, `OnlyValidRequestsRun` |
| 8, done | `ServiceState`; `DictionaryServices`, `MachineServices`, `NativeServices`; `ServiceRun` composes them | none: each language promises something else (section 6) | one request, every language; an input of 0 to 2 occurrences, nested or not | no constant to prove about |
| 9, done | `Elements`, `Registry`; `FileReaders`, `MetadataDb`; `XmlDescription`, `JsonDescription`; `Descriptions` composes them | the statements of the author | 5 samples with one element of every kind | out of the prover's reach (section 5) |
| 10, done | `ProcessSearch`, `JobList`, `SqlConnections`; `Kernel` composes them with `Descriptions` and `ServiceRun` | the set of what is deployed, of the jobs | 26 catalogues, 20 sets of jobs, 1 change meanwhile; every kind of request that uses a database | `ListedOnce`, `RunsWhatIsDescribed`, `JobPages` |
| open | `XmlJob` (the files of an XML job together with `ShmLock`); nested elements of descriptions | as `JobView` | as step 1 | operators' lemmas |

Each module keeps its parameters as constants with named assumptions, has one
action per operation and no `RECURSIVE` operator, so that it can be proved
about as it stands.

## 3. The models and the code

Paths are relative to `src/zoo-project/zoo-kernel`.  `PROJECT.json` gives the
lines of every definition.

### `AsyncJob`: the files of one job and who writes them

`zoo_service_loader.c` forks after it accepted `POST .../execution` with
`Prefer: respond-async`.  From there on parent and child share nothing but
`main/tmpPath`, no lock protects the files, and so *one action is one access to
one file* (`fopen("w+")` is one, the write that is flushed another, `stat`,
`fopen("r")`+read and `unlink` one each).

| In the model | In the code |
|---|---|
| `files` | content of `usid.sid` (`sid`), `usid.pid` (`pid`), `usid_lenv.cfg` (`lenv`), `usid_status.json` (`stat`), `usid.status` (`progress`), `usid.json` (`resp`), `<service>_final_usid.json` (`final`), `usid.res` (`res`), as far as a reader can tell contents apart |
| `Acceptor` | the parent: `createStatusFile`, `createSPidFile`, `createLenvFile`, then the 201 with the answer of `printJobStatus`, which runs the same code as `GetStatus` |
| `Worker` | the child: `createSPidFile`, stdout to `usid.json`, `createStatusFile`, stdout to the final file, `createLenvFile`, `validateRequest`, `loadServiceAndRun` (with `updateStatus` inside), `createStatusFile`, `printJResult`, `dumpBackFinalFile`, `unlink` of `.pid`, dump of `.res`, `unlink` of the final file, `unhandleStatus` |
| `Request`, `GetStatusId`, `IsRunning`, `ReadFinalRes`, `FailureMessage`, `ReportStatus` | `runGetStatus` and the helpers it calls, then `createStatus` in `service_json.c` |
| `GetResults` | the branch of `GET /jobs/{id}/results`, with its second trip through `runGetStatus` as `GetResult` |
| `FetchPid`, `Kill`, `ListFiles`, `RemoveFile`, `Dismissed` | `runDismiss` |
| `InJobList` | `printJobList`, by which a client may learn an id before the 201 |
| `outcome` | `eres` |
| `Faults` | `reject`: `validateRequest` refuses in the child; `crash`: the service brings its process down, and `json_sig_handler` may or may not get to print; `lock`: `getShmLockId` fails in `dumpBackFinalFile`, as `ShmLock` shows it can |

Undefined behaviour is kept as a choice: `readFinalRes` and
`json_getStatusAttributes` dereference what they expect in a file that may be
empty (the process dies), `createStatus` uses an uninitialised message pointer
(it may die or go on), `kill(atoi(""),SIGKILL)` is `kill(0,SIGKILL)`.

### `JobView` and `AsyncJobView`: what the status promises

`JobView` has two variables: the status a client that knows the id can read,
and what the service returned.  The status moves from `running` to `failed` to
`successful`, never back; `failed` may be passed through by a job that succeeds,
because `.pid` goes before `.res` comes and `readFinalRes` answers `Failed`
without a `.res`.  `AsyncJobView` maps the files to that status (`Status`, by
`View`) and shows that `AsyncJob` implements it.  It also follows, with the
history variable `views`, what an atomic read of all the files would have
answered since each request began.

### `ShmLock`: the semaphore of one job

`acquireLock`, `getShmLockId`, `lockShm`, `unlockShm`, `removeShmLock`,
`_updateStatus`, `_getStatus`, `_getStatusFile` of `service_internal.c`, with
the parts of `printProcessResponse`, `dumpBackFinalFile` and `runRequest` that
call them.  *One action is one system call.*

| In the model | In the code |
|---|---|
| `exists`, `value`, `ready`, `holders` | the set registered under `getKeyValue`: its value, `sem_otime # 0`, the processes that have a `SEM_UNDO` adjustment |
| `attached` | the processes whose `sem_id` is the id of this set; a process that is not attached holds a stale id, and every call with it fails |
| `SemGet`, `InitSem`, `LookUp`, `Poll` | `getShmLockId`: `semget(IPC_CREAT\|IPC_EXCL)`, the creator's `semop`, the second `semget`, the wait for `sem_otime` (the buffer is uninitialised when `semctl` fails: either branch) |
| `Lock`, `Removed`, `Unlock`, `Remove` | `lockShm` and what its callers do when it fails, `unlockShm`, `removeShmLock` |
| `ctx` | the code on whose behalf a process handles the semaphore, which decides what a failure does: give the update up, print an exception instead of the response, end the worker, answer nothing |
| `Die` | a killed process; its adjustments are undone (`Undo`) |

The lock is odd in three ways that the model keeps: `_getStatus` removes the
semaphore instead of unlocking it, `dumpBackFinalFile` goes on when it did not
get it and never unlocks it, and `getShmLockId` gives up when the semaphore is
removed between its two `semget` calls.

### `FileLock` and `DownloadCache`: the cache of downloaded inputs

`FileLock` has `lockFile` and `unlockFile` of `service_internal.c`,
`DownloadCache` extends it with the parts of `caching.c` that look a URL up,
download it and store it.  *One action is one system call*, and a process
between two calls of its lock does nothing else.

| In the model | In the code |
|---|---|
| `named` | the inode that `<file>.lock` names, if it exists |
| `handle`, `grip` | the lock file a process has open, and the `fcntl` record lock it has on that inode |
| `Stat`, `Open`, `Create`, `Reopen`, `SetLk` | `lockFile`: a writer waits until the name is gone and creates it; a reader opens what there is, or creates, closes and opens again, and dies when the name went away in between (`fileno(NULL)`); then `F_SETLK` with retries |
| `UnlockFile`, `GetLk`, `UnlinkLock` | `unlockFile`: `F_UNLCK`, `F_GETLK`, and `unlink` of the name when nobody else has a lock |
| `content` | the stdio buffers ("blocks") of a document that are in each file; `0` when the file exists |
| `Lookup`, `Measure`, `ReadContent`, `OpenMeta`, `ReadMeta`, `CheckSize` | `loadRemoteFile` on a cached URL; the size is taken before the lock, and only with `[main] memory=load` |
| `Download`, `LookAgain`, `OpenCache`, `UnlockCache`, `CloseCache`, `StoreMeta` | `runHttpRequests`, then `readCurrentInput` with `isInCache` again and `addToCache` or `cacheFile`; `fclose`, which writes the rest of the buffer, comes after `unlockFile`; the companions are written without a lock |
| `memory` | `[main] memory`: `load` (`addToCache`, one `fwrite`) or `protected` (`cacheFile`, a loop) |

### `JobQueue`: jobs that go through RabbitMQ and PostgreSQL

With `USE_AMQP` and `RELY_ON_DB` the process that accepted a job and the one that
runs it are not parent and child: a message and the rows of a few tables are all
they share.  *One action is one SQL statement (they commit one by one) or one call
of the AMQP library.*

| In the model | In the code |
|---|---|
| `sent`: `Publish`, `Confirm`, `RecordServiceStatus`, `RecordRequestOf`, `Created` | the OGC API and XML branches of `runRequest`: `send_msg`, then `recordServiceStatus`, then `recordRequest`; the confirmation may be lost after the broker took the message |
| `broker`, `conn`, `acking`: `Deliver`, `HandleAck`, `LoseConnection` | the queue, with prefetch 1; what was not acknowledged when a connection ends is ready again (external) |
| `worker`: `Bind`, `Consume`, `Resume`, `Ack`, `CheckAvailableExecutionSlot`, `Fork`, `WaitForProcess`, `CloseAndExit` | the child of `zoo_loader_fpm.c`: one message, acknowledged before the job is forked, then the process ends |
| `slots` | the table `workers`: its primary key is the job, the row goes when the job ends |
| `process`: `FetchService`, `Begin`, `ValidateRequest`, `LoadServiceAndRun`, `RemovePidFile`, `RecordFinalResponse`, `UnhandleStatus`, `ReleaseSlot`, `Leave` | `runAsyncRequest`, with its refusals |
| `master`: `MasterWaits`, `MasterForks`, `MasterSleeps` | the loop that replaces workers, with two calls of `wait` for a fork |
| `services`, `responses`, `requests` | the tables of `schema.sql`; `responses` has the last answer first |
| `reading`: `GetStatusId`, `IsRunning`, `ReadFinalRes`, `GetStatus`, `GetStatusFile`, `Kill`, `Remove` | `runGetStatus` and `runDismiss` with the functions of `sqlapi.c` |
| `Fails` | a lost connection, a killed worker, a killed job, a fork that fails |

### `Callbacks`: notifications and the handlers of remote jobs

`cStep`, `maxProgress`, `isOngoing`, `iNbJobsHandlers` and `iNbJobsHandled` are
globals of `service_callback.c` that every thread of the process reads and writes.
*An access to one of them is one action.*

| In the model | In the code |
|---|---|
| `InvokeBasicCallback`, `IsProhibited` | `invokeBasicCallback` and the `strtok` of `isProhibited`, which cuts the configured list |
| `note`: `Check`, `Wait`, `Test`, `Raise`, `Post` | the thread `_invokeBasicCallback` |
| `main`: `Start` ... `Nested`, `Run`, `Finish` | the calls `validateRequest`, `loadServiceAndRun` and `runAsyncRequest` make |
| `Create`, `Increment`, `WaitJobs`, `Join` | `handleJobStatus` for each remote job, `cleanupJobStatusThreads` |
| `handler`: `Begin` ... `Fetch`, `JobFailed`, `Count`, `Add`, `TestLast`, `Sleep` | the thread `_handleJobStatus`, which works on a copy of the input (`copy`) |
| `CleanupCallbackThreads` | the same function: it joins every notification |

### `RemoteJob` and `StepCallbacks`: scripts on a cluster

`StepCallbacks` has the threads of `invokeCallback`: each waits until `cStep` has
its step and, for the end of a step, until its start was answered.  `RemoteJob`
extends it with `zoo_hpc_support` (upload under a lock, `sbatch`, wait on a socket
for `FinalizeHPC1`, download), and `runUpload`, `addReadLocks`, `removeReadLocks`.
The lock is what `FileLock` promises, an atomic one that may be given up.

| In the model | In the code |
|---|---|
| `tcp`, `port`, `ChoosePort` | `USE_AMQP`: the socket is the port 1024 + `count(*)` of the workers, which `lenv` names before `bind`; otherwise a Unix socket named after the job |
| `Listen`, `AcceptFails`, `ReadFails`, `Accept` | `bind`, `listen`, `accept` and the loop that reads `"3"`; `ReturnsUnlocked` is what each of their failures does: (7,0), `removeReadLocks`, -1, while the script runs; a connection closed without a word keeps the locks (`hasPassed<0`) |
| `socket` | what became of it: `unbound`, `deaf` (no `listen` or `accept`), `broken` (no `read`), `closed` |
| `UnlockInputs`, `FetchOutputs`, `Reread` | the turn of the loop that has read `"3"`, and the next one, which ends with the connection or with an error that unlocks through an array that was freed |
| `Finalize`, `target`, `Connect`, `peer`, `Say` | `FinalizeHPC1`: it reads the socket's name in the `lenv` of its job, writes `exec_status` and says `"3"` to whoever listens at that name; whoever invoked it tries again or not when it cannot connect |
| `LockInputFails`, the wait in `AddReadLocks`, `Dies` | the faults, `MaxFaults` of them; sockets may fail at any time, uncounted |

### `RequestState`, `OgcApiRequest`, `WpsRequest`, `Request`: what a client is told

`RequestState` has the printing functions as operators from the flags (`headers.Status`,
`no-headers`, `hasPrinted`, `hasExceptionPrinted`, `jsonStr`, `no-content`) to the
flags and the heads and bodies written.  `OgcApiRequest` and `WpsRequest` have an
action for each way `runRequest` may go on from where it is (`pc`): filters,
routes, deployments through the DRU providers, dismissals, results, the choice of
the mode, the execution, the answer.  `run` is what is known of the execution,
`done` what it changed on the server, `events` what happened that makes the answer
irregular in a known way (section 6).  `Signal` may come at any point at which a
handler is registered.

### `Inputs`, `Outputs`, `Execution`: the arguments of an execution

`Inputs` follows the inputs from the request to the service: `ParseInput`
(`kvpParseInputs`, `xmlParseInputs`), `ParseJsonInput` (`parseJIO`, `parseJIOSingle`: one turn for each item),
`LoadHttpRequest` (`loadHttpRequests`), `Publish` and `RequestAgain`
(`publish_amqp_msg`, `parseInputHttpRequests`), `ReadOccurrence`
(`runHttpRequests`, `readCurrentInput`).  A value is the position of its item in
the request, so that one can tell whether it arrived where it belongs.  `net.queue`
is the queue of `hInternet`, in which the order of a request is its only name: `InternetOpenUrl`
appends a handle, `AddHeaderEntries` gives the ones of protected hosts the client's headers,
`ProcessDownloads` fills them and `InternetReadFile` empties one.  `XmlReference` has the
ways a WPS reference may be posted, with a `Body` or with the answer of a
`BodyReference`; the form `xml2` is WPS 2.0.0.  `Outputs` has the outputs a request asks for and the three ways to answer:
document, raw, multipart.  `Execution` puts them together with `validateRequest`
and the service.

### `ServiceState`, three modules of languages, `ServiceRun`: what a service gets and leaves

`loadServiceAndRun` chooses a support by the `serviceType`; the supports then do the
same things in their own ways, and `pc` follows what is common to them: `start` (the
working directory), `load` (the interpreter, the library, the script), where a language
has more to do `class`, `parameters`, `pass`, `compile`, `import`, then `run`, `back`
(the outputs and conf come back), `destroy` (Node.js), `respond` and `end`.

| In the model | In the code |
|---|---|
| `ServiceState` | the process around a support: `inputs` of the request, `args` as the service sees them, `status`, `wrote` and `gave` (what the service returned, left in its output and in `lenv.message`), `outputs`, `message` and `eres` as the kernel has them afterwards, `told`, what the client got; `Refuse`, `GiveUp` and `Dies` (`Crash`) are the ways out before there is a result |
| `DictionaryServices` | Python, Ruby, PHP, R and Perl, which have dictionaries, lists and strings |
| `MachineServices` | Java, Mono, SpiderMonkey and Node.js, which run in a virtual machine |
| `NativeServices` | C, OTB and SAGA |
| `ServiceRun` | `loadServiceAndRun`, a service of any of these languages, and `outputResponse` |

A value is a class of byte strings, by what tells the languages apart: a text, bytes with
a zero inside, bytes that begin with one, bytes that are no UTF-8 (`Stray`: an image, or a text in
Latin-1); a service may give the size with its output or not, and a list where the language has
lists.  The languages whose strings are Unicode decode what they get: Python 3 gets `NULL`
(`PyNull`), Mono no string (`MonoString`), Node.js and Java another text (`Unicode`); the
others pass the bytes.  `Dies("decode")` is the death of a Python process whose `PyDict_SetItem`
is given that `NULL`.

### `Elements` to `Descriptions`: from the author of a service to its clients

A description exists in six forms: three writings (a zcfg file, a YAML file, rows of the
metadata database) and three printings (WPS 1.0, WPS 2.0, JSON), with `struct service` in the
middle.

| In the model | In the code |
|---|---|
| `Elements` | maps as functions, lists of `elements` and `iotype` as sequences; the operations of `service.c` on them |
| `FileReaders`, zcfg | the grammar actions of `service_conf.y` (`STag`, `ETag`, `Pair`, `ProcessId`), one token at a time; the record `reader` holds `current_element`, `current_content`, `current_data` and the `wait_` flags |
| `FileReaders`, YAML | `zcfg2yaml`'s writer (`dumpServiceAsYAML`) and the loop of `getServiceFromYAML` over the tokens of libyaml (`Scan`) |
| `MetadataDb` | the rows of a description, and `extractServiceFromDb` |
| `XmlDescription`, `JsonDescription` | `printGetCapabilitiesForProcess`, `printDescribeProcessForProcess`, `printFullDescription`, and their counterparts of `service_json.c` |
| `Descriptions` | `readServiceFile`: `OpenDescription`, `ReadToken`, `ReadServiceFile`; and the two ends as sets of statements (`AuthorSays`, `XmlSays`, `JsonSays`) |

`LostWriting` and `LostPrinting` name what a form cannot hold; `DescribedAsWritten` says
that nothing else is lost, added or moved to another element.

### `Registry`, `ProcessSearch`: which service is meant

A catalogue is a configuration (`servicePath`, `search_path`, a namespace, imports, a
registry) with what is deployed in each place.  A request is a list of tasks, `left`, in the order of
the code: `MakeRegistry` first, then for a list `ReadImport`, `OpenDirectory` and
`ReadEntry` (`_recursReaddirF`), `QueryRows` and `ReadRow` (`fetchServicesFromDb`); `Lookup`
and `Match` for a description (`_fetchServicesForDescription`); `Fetch` for an execution
(`_fetchService`).  `DeployOrUndeploy` changes what is there between any two of them.
`events` is what became of the request: `document`, `exception`, `cut` (a directory left in
the middle, which nobody is told), `died`.

### `JobList`: `GET /jobs`

`Ask` is `printFilteredJobList`: the clauses of the query in the build with a database
(`Selected`), the filters in `lenv` in the one without (`ServicePidFilter`, `Filtered`).  `ListJob` is
one turn of the loop of `printJobList`, `NextLink` the client that follows the link of
`createNextLinks`; jobs are dismissed meanwhile (`DismissJob`).

### `SqlConnections`: who is connected to what

`sqlapi.c` keeps the connections to the metadata database and to the one of the jobs in one
array (`db.ds`), whose length is a string in `lenv` (`db.nb`); a worker's job has a
copy of that string and the same array.  `Requests` are the requests of a kernel as the
sequence of their calls (`plan`): `MakeConnection` is `_init_sql`, `RunStatement` any of the
dozen functions that connect on demand (`verifyDbConnection`, `closeIfNeeded`), by what each does
without a result, `FetchSql` and `SaveExecuteRequest` those that name a connection,
`CloseConnection` and `CloseAll` are `close_sql` and `cleanUpSql`, and `Fork` goes on
as either process (`child`): the one that answers a JSON request asks for the status of the job it
has just forked (`AcceptedJson`: `createStatusFile`, `printJobStatus`, `runGetStatus`), through a
connection it has not opened.  Every connection and every statement may fail.  What is read behind the
end of the array is nothing, or the process dies.

### `Kernel`

`Kernel` puts these together: a client lists the services, asks for one's description and
has it executed, or reads the list of jobs; and one of its processes uses the databases.  What the search found is read by the reader of its form
(`DescriptionFound`, `OpenTheOneFound`), what is to run is run by its support
(`ServiceFound`, `RunTheOneFound`).

## 4. Runs

Each run is `tlc -config <cfg> <module>`.

| Run | Properties | What it shows |
|---|---|---|
| `poll` | `HonestResults`, `AnswerIsASnapshot`, `NeverGoesBack`, `EventuallyReported` | a client that polls at any moment, and may have found the job in `GET /jobs` before the 201, never gets results from an incomplete file; reading the files one by one is as good as reading them at once; the files implement `JobView`; under `FairSpecViews` the true outcome is eventually what everyone reads for good, unless the worker is killed or gives up or the `.pid` file ends up with the acceptor's pid in it |
| `dismiss` | `TypeOK`, `SuccessIsTrue`, `DismissIsFinal` | two clients read and dismiss at once, with every fault; after a dismissal that killed the worker nothing is left or comes back; no job is said to be successful unless its service was |
| `lock` | `SemaphoreConserved`, `NobodyWaitsForever` | the semaphore never gains or loses a unit, whoever is killed and wherever it is removed; under `FairSpec` everyone gets out of the lock |
| `progress` | `NoTornProgress`, `NoSemaphoreLeft` | three readers that remove the semaphore under each other and under the worker never read a truncated progress file, once there was one; crossing removals leave no set behind |
| `cache` | `CacheSettles`, `NoLockLeft` | three requests for one URL, which store and read it across each other and may break the lock, leave the complete document in the cache and no lock file |
| `queue` | `OneRunAtATime`, `NoJobLost`, `AtMostOnce`, `DismissedStaysGone` | an XML job and the message of a dismissal, two workers, a client that dismisses, one fault: a job is not lost before it has its slot, is not run by two processes at once, and run again only when its acknowledgement was lost; after a dismissal its rows do not come back |
| `queue_served` | `EveryMessageConsumed`, `EndIsReported` | a pool of one worker, one fault and a client that polls: the master always puts a worker back, so that every message is consumed; a job whose row is there when it starts is reported over once it is |
| `callbacks` | `ResultsStored`, `FinalDelivered`, `ProcessEnds` | the races on the counters lose no result and no final notification, and the joins end |
| `remote` | `StepsInOrder`, `InputIsStable`, `LocksReleased`, `SuccessLeaves` | two jobs with one input and perhaps one port, or, with a callback url, the steps of a job: no upload under a running script but for the named exceptions, no lock kept on any way out, and the callbacks in order; every call on the socket may fail; a process that has its outputs ends, its callbacks sent |
| `request` | `AnsweredOnce`, `RefusedMeansUndone`, `SuccessMeansDone` | every route, refusal, outcome and signal: apart from the named irregular events, one head, one body, of one kind, and true |
| `execution` | `EveryInputArrives`, `OnlyValidRequestsRun`, `AnsweredAsAsked` | every request of up to three inputs and outputs in KVP, both versions of WPS and JSON (4.2 million states): apart from the named irregular requests (`Astray`), the inputs arrive, those by reference with the headers of the client where the host wants them, and the outputs are those asked for |
| `kernel` | `ToldOnce`, `RoundTrip`, `FailureArrives`, `DescribedAsWritten`, `ListedOnce`, `RunsWhatIsDescribed`, `JobPages`, `StatementsReach` | the processes of a kernel from the list to the execution: each service is listed once and is the one that is described and run; the description is what its author wrote; a service of every language, with every outcome and every place where its support gives up, tells its client once, and its result or its failure comes back; the pages of `GET /jobs` have every job once; a statement finds no connection only when its database was out of reach, or, in a process that relies on connecting on demand (`OnDemand`), the metadata database was |

Deadlock is not checked (`CHECK_DEADLOCK FALSE`): the system does stop, when the
job has ended and no client asks any more.  `FairSpec` is the fairness below;
`FairSpecViews` is the same with the history variable.

### Bounds, and why they are enough

* *One job.*  Jobs have different `usid`s, hence different files, keys and rows;
  they share no state in the modelled code but the pool of workers and the inputs
  on a cluster.  `RemoteJob` has two; in `JobQueue` the second message is that of
  a dismissal, which takes a worker and a slot as a job does.
* *One or two clients, two or three readers.*  The state a request keeps for
  itself is what it read; requests affect each other through the files, which only
  dismissals write, and through the semaphore.  One polling client is then as good
  as many; two dismissals, or a dismissal and a reader, give every pair of
  accesses.  Of the semaphore a third process matters: one holds a stale id, one
  holds the set, one waits.  What section 5 proves holds for any number.
* `Repeat`: a client sends a request after another without end; where it is
  `FALSE` (`dismiss`, `lock`) it sends one, which is what those properties are
  about, and keeps the state space small.
* `Precedes`: POSIX gives the order of a directory no meaning; the theorems hold
  for every order.  `dismiss` uses one order, the same for all, with
  `.sid` first and the response last, which leaves a half-removed job visible the
  longest to a request that looks for the other files.
* Three requests for one URL: one stores the document, one reads it or stores it
  over the first, and a third is what the lock breaks on (section 6).  A document
  has up to three blocks, so that there is a first, a middle and a last one.
* `MaxRetry` = 1 or 2 stands for `ZOO_LOCK_MAX_RETRY` (180), `MaxPolls` = 2 for
  `MAX_RETRIES` (10).  Both are loop bounds: what happens when they are reached,
  and when they are not, is reached in the runs.  The proofs hold for all values.
* `JobQueue`: `MaxFaults` = 1 lets one kind of fault happen, once (which kind is open);
  `Ops` says what a client may ask for, and the two runs divide it: the dismissal,
  which writes, with the safety properties, and the requests that only read with the
  liveness.  Two workers are enough for a message that is delivered twice.
* `Callbacks`: two remote jobs, so that one overtakes the other; `MaxNotes` = 5
  bounds the notification threads of a process, which are the first, those of
  `validateRequest`, one of the service and the last.  A notification whose
  `InternetOpen` fails does what one does that is not sent; of a handler that matters and
  may happen once (`MaxOpenFailures`).  The two writes that end a notification are one action.
  `SameInput` is `FALSE` (section 6).
* `RemoteJob`: `MaxFaults` = 2; two jobs, but one when a callback url is configured,
  as each has its own process and globals; one port, so that with TCP two jobs choose the same, while a Unix
  socket is a job's own, as two ports would be;
  `Path` is `"xml"` and `EarlyFinalize` is `FALSE` (section 6).  A third job would be needed for an
  upload under the script of a job whose process was told of another script (`Misled`): that case of
  `InputIsStable` is covered by the proof, for any number of jobs and ports.
* `Request`: one request, which is all a process serves; at most one signal, after
  which it ends.  The build has a queue or not, both DRU providers or none.
* `Execution`: `MaxArguments` = 3 inputs and outputs together, two names of inputs, the
  first mandatory and with up to two occurrences, the second optional or not described at
  all, two outputs and an unknown one.  Three inputs let another input come
  between two occurrences, or a plain reference between a cached and a posted one.
  Each item has its own URL: the two items of one URL are `DownloadCache`'s subject.
  `Attributes` has two headers, so that one may be lost; a URL answers, is cached, is broken, wants the
  headers (`guarded`) or is a `BodyReference` without an answer (`bodiless`).
* `SqlConnections`: each request is a handful of calls; the statements of one kind that follow
  each other are represented by one or two, which is enough for one to find what the last left.
* `Kernel`: two services with the same name in two directories, one in a
  subdirectory, an import, a row, and a hidden one give every pair of places the three
  searches may disagree about; every combination of the four options is a catalogue.
  `MaxTouched` = 1 service is deployed or undeployed meanwhile.  Page limits of 1 and 2 end a
  page inside a source and on the boundary of two.  The samples hold one element of every
  kind the readers and printers tell apart, alone, first, in the middle and last; the readers keep no more
  state than that of the element before.  Four jobs and limits of 1 and 2 make lists whose
  length is a multiple of the limit, and not.
* Progress texts, statuses and documents are classes of content: a raw result of
  at most 15 bytes, an empty one, one that looks like an exception, any other.
* The clients of `dismiss` and the workers of `queue` are symmetric sets; no other run uses
  symmetry, none with a liveness property.

### Fairness

`FairSpec` of `AsyncJob` asks that the operating system schedules the worker,
the acceptor and each process that serves a request (weak fairness: none of
their steps is ever blocked by another process), and that a service does not
call `updateStatus` for ever without returning (strong fairness of
`RunService`, which is enabled again and again between two reports).  No client
has to send anything.  In `ShmLock` it is the same, with strong fairness for
`Lock`: `semop` serves its waiters in turn, so that a process cannot be overtaken
for ever.  Nothing is assumed about deaths: a process may die at any point and
never has to.

`JobQueue` asks that each worker, the process of its job and the master are
scheduled, and that the broker handles acknowledgements and delivers a message
when a consumer is ready (weak fairness of each).  `Callbacks` asks that *some*
thread of the process is scheduled, and that a remote job that is polled again and
again has ended at some poll (strong fairness, since other threads' polls come in
between).  `RemoteJob` asks that the processes and threads are scheduled, that
scripts end and that the mail of the cluster arrives.  Nothing has to fail: neither a wait for a
lock, nor `accept` or `read` (`WaitFails`), nor `FinalizeHPC1` (`Dies`).  Nor does anybody have to be
reached: a job whose `FinalizeHPC1` found nobody waits for ever, and `SuccessLeaves` is about
those that were told.

## 5. Proofs

Eight modules hold theorems, `<Component>Proofs` each; all are proved for every value
of the constants that the `ASSUME`s of the component allow: any number of clients,
readers, workers, jobs and requests, any length of a document, any bound.  Where a theorem has
a hypothesis, it is named below with its reason.  Every invariant was checked by TLC on
the component's run before it was proved.

### `AsyncJobProofs`

* `TypeCorrect`: `Spec => []TypeOK`.
* `SuccessCorrect`: `Spec => []SuccessIsTrue`.  `SuccessIsTrue`
  alone is not inductive: the answer comes from `seen`, which comes from the
  `.res` file, which the worker writes after its service has returned.  `TrueInv`
  adds these links: `.res` holds `Succeeded`, or a reader has seen `successful`,
  only if `outcome` is `Succeeded`; and a worker that has not returned from its
  service has `outcome = "none"`, so that `RunService` cannot change an outcome
  that somebody has read.
* `DismissalCorrect`: `Spec => []DismissIsFinal` when clients learn the id of a job from the
  201 (`~Listing`).  With `GET /jobs` a client may dismiss a job whose acceptor is still
  writing.  `DismissInv` says of each dismissal, by where it is (`DismissedFor`), that the
  acceptor is done, that a worker whose pid was killed writes nothing any more, and that
  what is left of the files is in the list the dismissal still works through.

`NoDismissal` (`"Dismiss" \notin Ops`) is the hypothesis of the other three: what a dismissal
does to a status is `DismissIsFinal`'s subject, and section 6 has what goes wrong.

* `ResultsAreHonest`: `HonestResults`.  `ForkInv` ties each file to where the two
  processes are (`.sid` and `.pid` once they are made, the response only after `.pid` was, its content
  by the outcome); `ClientInv` says that a client that asks for results got past
  the status check only after the worker removed `.pid`.
* `StatusIsASnapshot`: `AnswerIsASnapshot`.  `SnapshotOf` says, for each
  place of `runGetStatus` between two reads, which of the statuses that were true meanwhile the
  answer may still become.
* `StatusNeverGoesBack`: the refinement `NeverGoesBack`, step by step: the initial states map to
  initial states, and each action of the worker and the acceptor to the step of `JobView`, or the
  stutter, that it is.

### `ShmLockProofs`

* `TypeCorrect` and `Conservation`: `value` can only be shown to stay
  in `{0,1}` together with `SemaphoreConserved`, and that needs `LockInv`, which
  says besides: a set that is not initialised has value 0 and no holder
  (`FreshInv`); exactly one live process is about to initialise it and is attached
  to it, so that no second unit is added (`CreatorInv`); a process that left the
  lock has no adjustment on it (`HolderInv`).
* `NoTornRead`: with `Started` and a worker that is not killed,
  `Spec => []NoTornProgress`.  It may look as if removals could break it: a reader
  that removes the semaphore under the worker lets the next one in.  `TornInv`
  says why this does not happen while there is a progress file: a removal always
  follows either a lock by the same process (`read`), or the end of the worker
  (`finish`), or the absence of the file, and the worker holds the registered set
  whenever the file is truncated (`KeptInv`, `WritingInv`, `RoleInv`).  Where the
  assumption `Started` is dropped, the property fails together with
  `LockExcludes` (section 6).
* `NothingLeft`: `Spec => []NoSemaphoreLeft` without `GetResult`, which locks and does not
  remove (`_getStatusFile`).  `LeftInv` names, while a set is registered, the process that
  initialises it or the one that will come to remove it (`Removes`), unless a process
  was killed; it also holds when everybody may be, and when no progress was reported before.

### `JobQueueProofs`

One invariant, `IInv`, carries the five theorems.

* `TypeCorrect`; `HandInv`: a worker that has a message in hand has one, and runs one process.
* `SlotsExclude` (`OneRunAtATime`) from `SlotInv`: who is at work has its job's row of the table
  `workers`, and two that have the same row are one.
* `NothingLost` (`NoJobLost`) from `LinkInv` (one message for a connection, that of the
  hand that holds it), `PublishInv` and `LostInv`: an acknowledgement is only on its
  way when a worker is at the slot, or the job was claimed.
* `RunsOnce` (`AtMostOnce`) from `OnceInv`: as long as neither a connection nor a
  worker was lost, a message the broker may still send has not begun anywhere, and one that is pending in a
  worker is pending in no other.
* `DismissalLasts` (`DismissedStaysGone`) from `RowInv`: after its `INSERT` the
  acceptor, and from the beginning the worker, only updates rows that are there.

### `CallbacksProofs`

* `TypeCorrect`: the counter of the handlers is read and written in two actions by threads that do
  not lock it; it stays in its range because every handler that may still
  be counted is missing from what any of them has read (`CountInv`).
* `ResultsAreStored`: `Spec => []ResultsStored`, when no two remote jobs are
  occurrences of one input (`~SameInput`; section 6).  `HandlerInv` follows the main thread
  through the creation and the joins, `ResultInv` the result from the handler's copy to the input.
* `FinalIsDelivered`: `FinalInv`, the final notification is the last one made and waits for nobody.

### `RemoteJobProofs`

* `TypeCorrect`, and `NoLockKept` (`LocksReleased`) from `LockInv`: a writer is alone,
  and each process has the lock its place asks for, unless something failed that nobody looks at:
  no lock behind any failed `sbatch`, `bind`, `listen`, `accept` or `read`, and one behind a
  connection that closed without a word.
* `InputNotReplaced`: `Spec => []InputIsStable`, when `FinalizeHPC1` is invoked by
  the end of the script only (`~EarlyFinalize`; section 6).  `WaitInv` and `ScriptInv`: while a script runs
  its process waits with a read lock, unless its socket is unbound, deaf or was reached by
  another `FinalizeHPC1`; that rests on `OwnInv` and `HeardInv`, which say who has told a socket what it
  has read: the `FinalizeHPC1` of its own job, which does not begin before the script ends, or another.
* `CallsInOrder` (`StepsInOrder`): the calls of a process are made in increasing order
  (`Increasing`, from `Progress`), a call in flight keeps `cStep` at its step, and an end
  comes after the answer to its start (`FlightInv`).

### `DownloadCacheProofs`

* `TypeCorrect`: there is always an inode for a new lock file, since at most one for each name
  and process is taken.
* `CacheIsWhole` (`CacheSettles`): although the lock lets two writers in, each block of the document that is
  not in the cache is one that somebody is about to write (`BlockInv`), and so with the companions
  (`MetaInv`); a request that stores nothing relies on one that does (`AnotherInv`).
* `LocksGone` (`NoLockLeft`): a lock file that has a name is open in a process that will unlink
  it, or about to be (`NameInv`), which needs that two processes that have the same inode came by the same
  name (`InodeInv`).

### `ExecutionProofs`

* `OutputsAsAsked` (`AnsweredAsAsked`), for requests of any length, any outputs and defaults, and
  whatever the service leaves.  `AnswersInv` follows the outputs: what the four parsers
  make of a request is one of the ways its form allows (`ParsedOK`), `addDefaultValues` turns
  these into what the client wants (`OutsOK`), and each of the printers keeps to it (`RightAnswer`).  The lemmas before
  it are about the operators of `Outputs`: `SetToSeq`, `Ascending` and `NamesOnce` list what they are given.
* `InputsArrive` (`EveryInputArrives`) and `ValidRuns` (`OnlyValidRequestsRun`), for requests of any
  length, any names, zcfg files and headers; a zcfg file has finitely many inputs, each with
  a `maxOccurs` of at least 1 (`InputsAssumption`).  `InputsInv` has four parts:
  `ShapeInv`, the names and the numbers of occurrences of the inputs, whatever goes
  astray, and that they follow each other in the order of their items when these are neither
  scattered nor dropped; `ArrivalInv`, one predicate for each phase from
  the parser to `readCurrentInput`; `AnswersInv`; and `RunFacts`, what holds at the call.
  An item has one place among the inputs (`Cell`), which is in turn linked to its URL, sent, ready and
  arrived.  The queue is the difficulty: `order` is all that ties an answer to its
  occurrence, so `ArrivalInv` says that the queue holds the references of the request
  in their order, that the `order` of each is the number of references up to it (`Rank`), and
  that the cursor of `readCurrentInput` is behind just those already read.  That holds for every request that
  is not `Astray`, and each disjunct of `Astray` is used in one of the steps.

### `KernelProofs`

About the lists and the searches of `ProcessSearch` and `JobList`, within `Kernel`, whose other
steps leave them alone (`Closed`).  For every catalogue and every set of jobs, with these
assumptions:

* `CatalogueAssumption`: the three directories of the configuration are there and none is called `db`,
  the identifiers in a directory and those of the rows differ, as files and as keys of a table do.  Imports
  are finitely many, each the file of an identifier whose last part is the name it is imported under, as
  `docs/kernel/configuration.rst` has it.  A limit is at least 1, or there is none
  (`schema_minimum=1` of `limitParam` in `oas.cfg`): with 0 the pages never end (section 6).
* `JobListAssumption`: the ids of jobs differ; lists of filters are sequences.

The theorems:

* `JobsAreListedOnce` (`JobPages`).  `MeetsInv`: what is on a page passes the clauses of its query, or the filters
  of the directory.  `PagesInv`: without filters, the pages before this one and what it has so far are the
  first `Total` of the rows, where `Total` is what `skip`, `limit` and the counter let through; `toList` is the rest.  A job that is
  dismissed while an answer without a limit is printed is missing from the rows of that answer only.
* `ServicesAreListedOnce` (`ListedOnce`).  A list works through tasks, and the state is what these have shown and
  what those left have still to offer.  `ListInv`: the tasks are those of a list, the last one prints the
  document, and no service is offered by two (`Plan`).  `OneAnswer`: without pages, none of what was shown is offered
  again, and as long as nothing went wrong every listable service that nobody touched has been shown or is on offer.
  `PageInv`: in pages, while nothing is touched, all pages so far hold the first services of the walk, as many as
  `cnt`, `skip` and `limit` let through (`Upto`, `FirstOf`), each once, and the rows are on the last page only.
  The lemmas before it are about the operators: `Imports`, `ItemsAt` and `Rows` list what they are given,
  and each thing once.
* `RunsTheOneDescribed` (`RunsWhatIsDescribed`).  Three functions search, and each is compared with a definition of
  what is found first (`FirstFound`): `DescribeInv` says that the directories that a description has not
  looked into yet lead to the same service as all of them do; `ExecuteInv` says it of `Fetch`, whether the
  registry is still there or freed, and that what keeps a description from its end (`Undescribed`) keeps the
  service from running.  `FoundAlike` compares the two ends; this is where `Ambiguous` and `Unseen` are used.  The last part
  is about the list before: one that nobody disturbed (`Quiet`) has everything the protocol
  lists (`WholeList`), so that what is described was listed (`FoundIsListed`) and what was listed is
  described (`ListedIsFound`).  This needs that the file of an import is not asked for by its own place: OGC API
  describes it and does not list it (section 6; the fourth catalogue of `Doubles`).

### Only model-checked

* `Request` (`AnsweredOnce`, `RefusedMeansUndone`, `SuccessMeansDone`), `ServiceRun` (`ToldOnce`, `RoundTrip`,
  `FailureArrives`) and `SqlConnections` (`StatementsReach`) have no constant but what the build has, and a
  finite number of states, all of which TLC visits.
* `Descriptions` (`DescribedAsWritten`): the readers go through the tokens of a file and the printers fold over
  lists; what these do to every description needs induction over data, for which the library's
  theorems take operators as parameters that no prover here can instantiate.  TLC checks it on the samples.
* `EventuallyReported`, `NobodyWaitsForever`, `EveryMessageConsumed`, `EndIsReported`,
  `ProcessEnds` and `SuccessLeaves` are liveness under fairness, which the prover does not do.

## 6. Where code and documentation disagree

The irregularities below were met while modelling.  The models contain them;
the properties are stated so that they say what holds besides, and name what they
exempt.

*Jobs, files and locks.*

* `.pid` holds the pid of whoever called `createSPidFile` last.  When that is the
  parent, a dismissal kills the wrong process, answers that the job is dismissed, and
  the service runs on.  The parent's call may even come after the child has finished and
  removed `.pid`: the job is then running for ever, which is why `EventuallyReported`
  excludes a `.pid` file with the acceptor's pid.
* A dismissal between the `unlink` of `.pid` and the dump of `.res` finds no pid,
  removes what there is, and `.res` is written afterwards.
* A result of at most 15 bytes is reported as "The service failed to execute."
* A `GetStatus` that finds no `.status` file removes the semaphore without holding it;
  two processes are then inside the lock.
* A removal between the two `semget` calls of `getShmLockId` makes the worker end
  without its result and with its `.pid` file.
* A request that finds the `.zca` file while another one stores it measures it before it
  has the lock, and goes on with a part of the document; so does one that reads between
  `unlockFile` and the `fclose` that writes the rest.
* With `[main] memory=protected` the size is never set on the path of a cached file, so
  that every cached document is refused.
* `FileLock` lets two writers in at once when there are three requests: one has
  released its record lock and is about to remove the name, a second locks the same
  inode, the name goes, and a third creates a new one.  What they do to the cache is
  harmless, because all of them store the same document: that is what `CacheSettles` says.

*Queue and tables.*

* The master waits twice for each worker it forks: of two that end at the same time
  one is not replaced, and the pool shrinks, though never to nothing (`EveryMessageConsumed`).
* The row of a job is inserted after its message was published.  A worker that is faster
  updates no row, and the row inserted afterwards says the job is running for ever: this is
  why `EndIsReported` begins with a row that is there.

* After a connection that failed `ds_nb` is 1 and the array holds `NULL`: no later statement of
  the process connects again.  A service that runs at once, or the job of a worker, that
  looked for its service while the metadata database was out of reach stores no file, no progress and
  not its end: the job runs for ever (`OnDemand`).  The process that answers for a JSON job it has
  forked finds no row either, and the client of an accepted job is told `NoSuchJob`; the
  process of the job opens a connection of its own and goes on.  Even when nothing fails that client
  may be told so, when its question is faster than the insert of the job's process.
* `_getStatus`, `readFinalRes`, `isRunning` and `getUserId` read the rows of a statement that failed: the
  process dies.  `runSqlQuery`, `_getStatusField` and `getStatusId` return without closing what
  they opened.
* A worker goes on after an `init_sql` that failed and reads `ppoZooDS[-3]`; its last
  `close_sql(conf,1)`, and that of a refused job, read behind the end of the array.
* `invokeCallback` stores the request through `ppoZooDS[1]` (`service_callback.c:967`), where a
  connection is only when the one to the metadata database failed.
* `fetchServicesFromDb` tests the wrong variable, so that a list without its rows counts -1 services.

*Callbacks and remote jobs.*

* `isProhibited` cuts the configured list with `strtok`: the names behind the first are
  only looked at once.
* `cleanupJobStatusThreads` waits for `isOngoing` to be 0 before it joins, which no one
  promises: `ProcessEnds` begins behind that wait.
* Each handler works on a copy of its input: of two handlers for occurrences of one
  input the second copy overwrites the first one's result (`SameInput`).
* `FinalizeHPC1` may be called before the script has ended, when the mail of another
  event triggers it, or `utils/hpc/examples/callback.py`, 15 seconds after the submission: the job is
  announced early (`EarlyFinalize`).
* Every failure of the socket behind a successful `sbatch` (`bind`, `listen`, `accept`, `read`:
  `service_internal_hpc.c:894-996`) gives up the job and its read locks, but not the script, which nobody cancels:
  another job may upload the input under it.  `InputIsStable` names these jobs.
* With `USE_AMQP` nobody checks that the port is free (`service_internal_hpc.c:865-872`).  Two jobs
  that see the same count of workers choose the same one: the second cannot bind, and its `FinalizeHPC1`,
  which has read that port in `lenv`, tells the first that it has ended; the first unlocks its input
  and fetches outputs while its own script runs (`Misled`), and its own `FinalizeHPC1` finds nobody.
* A read error behind the `"3"` calls `removeReadLocks` a second time, on an array that was freed
  (`Reread`).  A connection that is closed without a word leaves the locks to the end of the process.
* A JSON job with a callback url waits for ever: only the XML path announces the start of
  its inputs, (1,0), for which (1,1) waits (`Path`).  The calls of a queue worker announce (0,0) twice, and a failure
  (7,0) that overtakes (0,0) sets `cStep` to 8, after which no call gets its turn.
* The process of a queue worker leaves without `cleanupCallbackThreads`, so that its
  final notification may not be sent: `FinalDelivered` is about background workers.
  A JSON worker that is refused by `validateRequest` returns without a final
  notification.  `jsonStr` is dereferenced when it may be `NULL`
  (`service_callback.c:621`).  When only a later occurrence of an input is a remote job,
  the name of the handler's map is `NULL`.

*Answers.*

* In the XML path with `mode=auto` the status negotiated is the inverse of that the
  request asks for.
* A signal after one of the early returns of `runRequest` prints an exception behind the
  answer.
* `POST /processes/A/execution` with the member `"id": "B"` in its body runs `B`.
* The value of an output that is not JSON is answered as `{}` with 200.
* `produceFileUrl` answers a WPS client with a JSON exception.
* A fork that fails is not looked at in the OGC API branch.

*Inputs and outputs.*

* The answers of HTTP requests are handed out in the order of the inputs, while the queue has
  the order of the request (`Scattered`, `Dropped`).
* A `Body` without `method="POST"` is queued behind its own reference (`QueuedTwice`).
* The value of an XML document, or one found in the cache, is not in the message for a
  worker (`NotInMessage`).
* In JSON the references of an array are taken for its first items, a nested process is
  sent the body that has the number of the requests queued, and the error of a
  download is ignored (`AstrayInJson`).
* `docs/services/zcfg-reference.rst:290` lets a client change the default of `asReference`
  in its request; `kvpParseOutputs` reads what follows the name of an output only when
  `strtok` returns a token of length 0, which it never does.
* The second protected host of a request gets the first of the attributes only, and a worker,
  which has no `renv`, passes none (`HeadersMissing`).
* Nobody looks at the status of a `BodyReference`: what it answered is posted, whatever it is
  (`BodyLost`).  `MAX_REQ` (50) is never compared with the number of requests.
* `Header` elements go to the handle of the next request, and only the last of several is kept.
* `InternetCloseHandle` works on a copy of the handles: a background XML job refused by
  `validateRequest` closes them twice.
* In WPS 2.0.0 `transmission="value"` does not override a default of `asReference` (`ValueIgnored`).
* `minOccurs` is only looked at for inputs that are missing, `maxOccurs` not at all in JSON.
* A WPS document by value with `generated_file` prints an empty value
  (`response_print.c:3116` to `3125` are commented out), and a JSON multipart answer may have an
  exception behind some of its parts.

*Languages.*

* Nothing is printed when the virtual machine of Java does not start, there is no working
  directory, an OTB application has an unknown name, a Python service returns no integer,
  or the process dies (`Silent`).  A Node.js environment that cannot be destroyed may be
  told behind the answer.
* A `serviceType` of `JavaScript` is dispatched to the support of Java, which comes first
  and compares the first four letters; `C-FORTRAN` is never reached.
* Perl looks for a function that is called `serviceProvide`, ignores its result and never
  takes the outputs back.  SAGA ignores what `Execute` returns.  Ruby passes the types
  when an input has several occurrences.  Node.js never takes `conf` back.
* Languages that are given C strings cut what holds a zero, in both directions where
  the size is not passed on.
* In Python 3 `PyString_FromStringAndSize` is `PyUnicode_FromStringAndSize`: it makes `NULL` of
  what is not UTF-8, such as any image.  The value of a single occurrence goes to
  `PyDict_SetItem` (`service_internal_python.c:594-599`), and the process dies; of several it is a hole in the list (529), with
  an error that is pending while the service runs.  Mono loses such a value, and Node.js and, for a
  value without a size, Java make another one of it.  `RoundTrip` names these languages.

*Descriptions.*

* A syntax error in a zcfg file is not an error: what was read before is the service.
* In YAML the additional parameters are not written, the first two supported formats are merged
  into one; the parser reads through a null pointer when a service has no inputs, and in a loop that
  never ends when the scanner fails.
* In the database the ranges and the CRS of supported maps have no columns, and the
  column of the encoding is called `ecoding`.  `extractOutput` reads the metadata of a bounding box from
  columns it has not.
* A missing `minOccurs` is 0 in XML and 1 in JSON; JSON keeps one range and drops the
  enumeration next to it; XML keeps the last CRS of a list.

*Search and lists.*

* `DescribeProcess` looks into the namespace only, where `Execute` goes on with the
  directory that `search_path` adds (`Unseen`); its test of an import's name in the database finds
  the row and reports that there is no such process.
* Descriptions are found whatever the case of the letters, services to run are not;
  a row whose name has a dot is listed and executed, not described (`Ambiguous`).
* `/processes` lists the working directory even with a `servicePath`, does not list
  imports, and goes on behind an exception: two documents in one answer.
* The file of an import in a subdirectory is described and executed by its own place as well, in OGC API
  too, where it is not listed.
* All rows of the database are on one page, whatever the limit.
* A row that is gone between the query and its reading is passed on as `NULL`.
* `inheritMap` moves the wrong pointer; `createRegistry` leaves fields uninitialised; the first
  `_fetchService` frees the registry that the second one uses.
* The next links of `GET /jobs` lose the filters; with `limit=0` they never advance.
* In the build without a database the words of `status` are written over those of `processID`; of several
  durations only the first counts.  In the one with it a single `datetime` makes the clause `NULL`, and of
  several the first is ignored.  `wpsStatus` has three entries for five words.
* The words of `processID` are translated as those of `status` are (`Meets`): the jobs of a process that is named like a
  status cannot be filtered for.
* A `_lenv.cfg` file without an `Identifier` ends the list.

## 7. Limits

* Disk errors, a full disk and failing `fork` are not modelled in `AsyncJob`, nor the
  reuse of a pid (a late dismissal may kill an unrelated process).
* `readdir` is one snapshot.  A file that is unlinked and created again while a
  writer has the old inode open is over-approximated: the write reaches the new
  file.
* `AsyncJob` leaves out the percentage and the semaphore, `ShmLock` the other files
  of the job, dismissals and requests refused in the child.  A `.sid` file read
  while it is empty gives the key 0 (`IPC_PRIVATE`) and so a private semaphore.
* `printProcessResponse` removes the semaphore itself in a process whose pid is the
  job's `sid`; the forked worker's `sid` is its parent's pid, so it does not
  happen there and is not in `ShmLock`.
* `FileLock` and `DownloadCache` have no killed process, and one URL whose document
  never changes; `file://` URLs, keys made of a POST body or headers, and the `.zmd`
  file, which a lookup never reads, are left out.
* The client that finds its job in `GET /jobs` may do so while the lenv file is
  empty, when the code may fail to print the list: more behaviours than the code
  has.
* `JobQueue` has a database that is always reachable, and statements that do not fail; where they
  do is `SqlConnections`, which does not know what the rows hold.  The table `files` is only a
  statement there.
* `Descriptions` starts from what an author writes in a well-formed file: syntax errors, units,
  `maximumMegabytes` and keywords are left out, and what they do is said in section 6.
* `ProcessSearch` has one level of subdirectories, whose names hold no dot, and directories that
  can be opened and are told apart by their names.  The code compares the beginnings of their paths (`strncmp`,
  `zoo_service_loader.c:692`, 938, 944, 1301 and 1307): a namespace whose path begins with that of the
  directory is searched alone, though both are listed.  `RunsWhatIsDescribed` says nothing of such a layout, which
  the documentation does not propose.  `JobList` leaves out what an entry says of its job, which is `AsyncJob`'s subject.
* `Callbacks` ignores a POST that fails, as the code does.  `RemoteJob` has the
  build with `RELY_ON_DB` for the call (6,0), and leaves out `steps[7]`, which is outside of
  its array; a `FinalizeHPC1` that has died is not invoked again, and the ports of programs other than the jobs
  are the `bind` that fails for no reason.  `ServiceRun` has Python 3, and one class of bytes that are
  not UTF-8.
* `Request` leaves out `isDeployed`'s bypass, the openEO routes and `TRACE`; an answer after
  a filter service that cannot be loaded is exempt from its properties.
* `Execution` has `[main] memory=load` and no nested inputs or outputs, `Header` elements, bounding boxes, `maximumMegabytes`, `extra_supported_codes` or JSON
  arrays of one or no item; an empty file in the cache is not looked at.  A handle beyond the
  end of the queue is uninitialised memory: another answer or an error.

### Not modelled

* The text of results, the headers of capabilities and the OpenAPI document; nested inputs and
  outputs of descriptions; the parser of main.cfg: strings are what they are about.
* What the kernel offers to services (`updateStatus`, translations, `ZOORequest`) but for
  the first, which is in `AsyncJob` and `ShmLock`; the PHP 7 variant, whose control is that
  of PHP; nested outputs; the data of a C-FORTRAN service; MapServer.
* Cookies, proxies and basic authentication of the HTTP client, and its mode that keeps answers in
  files.
* `zoo-api`, `zoo-client`, `zoo-services`, `thirds`: client libraries, examples and
  third-party code.
