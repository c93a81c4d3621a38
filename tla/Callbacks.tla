------------------------------ MODULE Callbacks ------------------------------
(***************************************************************************)
(* The threads a process that runs a job starts: the notifications of its  *)
(* subscriber (invokeBasicCallback) and the handlers of the remote jobs    *)
(* that compute some of its inputs (handleJobStatus).  They and the main   *)
(* thread share five counters and no lock.                                 *)
(*                                                                         *)
(* A thread's access to a shared counter is one action: "maxProgress" is   *)
(* read and then written, "iNbJobsHandled++" is a read and a write.        *)
(* A process of a queue worker waits for the remote jobs and leaves        *)
(* without waiting for the notifications; a background worker of the OGC   *)
(* API waits for its notifications and has no remote jobs.                 *)
(***************************************************************************)
EXTENDS Naturals, Sequences, FiniteSets

CONSTANTS
  NbRemote,     \* inputs (or occurrences of one) a remote job computes
  SameInput,    \* the remote jobs compute occurrences of one input
  Service,      \* the service that runs
  Lists,        \* the values callback/prohibited may have, as lists of names
  Reports,      \* the percentages the service may report
  MaxNotes,     \* the service reports nothing once there are MaxNotes - 1 threads
  MaxOpenFailures  \* how often a handler's InternetOpen may fail

ASSUME RemoteAssumption == NbRemote \in Nat /\ SameInput \in BOOLEAN
ASSUME ListAssumption == \A l \in Lists : l \in Seq(STRING)
ASSUME ReportAssumption == Reports \subseteq 4 .. 100
ASSUME BoundAssumption == MaxNotes \in Nat /\ MaxOpenFailures \in Nat

Started   == 1
Succeeded == 3
Failed    == 4
Final     == {Succeeded, Failed}
Remote    == 1 .. NbRemote

VARIABLES
  queued,      \* the process is the one of a queue worker
  configured,  \* callback/prohibited as main.cfg gives it
  prohibited,  \* the same entry as the process has it now
  main,        \* what the main thread does next
  turn,        \* the remote job it is about
  status,      \* lenv/status
  cStep, maxProgress, isOngoing, iNbJobsHandlers, iNbJobsHandled,
  note,        \* the notification threads, in the order of their creation
  received,    \* the final notifications the subscriber got
  handler,     \* what the handler of a remote job does next
  counted,     \* the value of iNbJobsHandled it has read
  fetched,     \* its result was fetched by the handler
  copy,        \* a handler's copy of the input: which values are results
  input,       \* the input of the process: which values are results
  failures     \* the failures of InternetOpen so far

globals   == <<cStep, maxProgress, isOngoing, iNbJobsHandlers, iNbJobsHandled>>
remoteVars == <<handler, counted, fetched, copy>>
mainVars  == <<main, turn, status, input, prohibited>>
settings  == <<queued, configured>>
vars == <<settings, mainVars, globals, note, received, remoteVars, failures>>

NotePcs == {"check", "wait", "test", "raise", "post", "ended"}
HandlerPcs == {"none", "begin", "poll", "count", "add", "test", "sleep", "ended"}
MainPcs == {"start", "download", "downloaded", "create", "increment", "waitJobs",
            "join", "nested", "run", "final", "invalid", "cleanup", "gone"}

TypeOK ==
  /\ queued \in BOOLEAN /\ configured \in Lists /\ Len(prohibited) <= Len(configured)
  /\ main \in MainPcs /\ turn \in 1 .. NbRemote + 1 /\ status \in 0 .. 100
  /\ cStep \in 0 .. Failed /\ maxProgress \in 0 .. 101 /\ isOngoing \in 0 .. 1
  /\ iNbJobsHandlers \in 0 .. NbRemote /\ iNbJobsHandled \in 0 .. NbRemote
  /\ \A n \in DOMAIN note : /\ note[n].pc \in NotePcs
                            /\ note[n].state \in {Started} \union Final
                            /\ note[n].progress \in 0 .. 100
  /\ received \subseteq DOMAIN note
  /\ handler \in [Remote -> HandlerPcs] /\ counted \in [Remote -> 0 .. NbRemote]
  /\ fetched \in [Remote -> BOOLEAN]
  /\ copy \in [Remote -> [Remote -> BOOLEAN]] /\ input \in [Remote -> BOOLEAN]
  /\ failures \in 0 .. MaxOpenFailures

Init ==
  /\ queued \in BOOLEAN /\ configured \in Lists /\ prohibited = configured
  /\ main = "start" /\ turn = 1 /\ status = 0
  /\ cStep = 0 /\ maxProgress = 0 /\ isOngoing = 0
  /\ iNbJobsHandlers = 0 /\ iNbJobsHandled = 0
  /\ note = <<>> /\ received = {}
  /\ handler = [r \in Remote |-> "none"] /\ counted = [r \in Remote |-> 0]
  /\ fetched = [r \in Remote |-> FALSE]
  /\ copy = [r \in Remote |-> [q \in Remote |-> FALSE]]
  /\ input = [r \in Remote |-> FALSE] /\ failures = 0

(***************************************************************************)
(* The main thread                                                         *)
(***************************************************************************)
\* isProhibited: strtok cuts the entry of the configuration at its first comma.
IsProhibited == \E k \in DOMAIN prohibited : prohibited[k] = Service
AfterStrtok  == IF prohibited = <<>> THEN <<>> ELSE <<prohibited[1]>>

\* invokeBasicCallback with a subscriber, when lenv/status is p.
InvokeBasicCallback(state, p) ==
  /\ prohibited' = AfterStrtok
  /\ IF IsProhibited \/ state < cStep
     THEN UNCHANGED <<note, cStep>>
     ELSE /\ cStep' = state
          /\ note' = Append(note, [state |-> state, progress |-> p, pc |-> "check"])

\* updateStatus: the status is recorded, then the subscriber is told.
UpdateStatus(p) == status' = p /\ InvokeBasicCallback(Started, p)

othersOfUpdate == <<settings, maxProgress, isOngoing, iNbJobsHandlers,
                    iNbJobsHandled, received, remoteVars, failures, input>>

\* The job is announced; a background worker has no request left to run.
Start ==
  /\ main = "start"
  /\ main' = IF queued THEN "download" ELSE "nested"
  /\ InvokeBasicCallback(Started, status)
  /\ UNCHANGED <<othersOfUpdate, status, turn>>

\* validateRequest runs the pending requests: some may fail.
Download ==
  /\ main = "download"
  /\ UpdateStatus(1)
  /\ main' \in {"downloaded", "invalid"}
  /\ UNCHANGED <<othersOfUpdate, turn>>

Downloaded ==
  /\ main = "downloaded"
  /\ UpdateStatus(2)
  /\ main' = "create"
  /\ UNCHANGED <<othersOfUpdate, turn>>

unchangedByHandling == <<settings, status, prohibited, cStep, maxProgress,
                         iNbJobsHandled, note, received, failures>>

\* handleJobStatus: the thread runs on a copy of the input before it is counted.
Create ==
  /\ main = "create"
  /\ IF turn \in Remote
     THEN /\ handler' = [handler EXCEPT ![turn] = "begin"]
          /\ copy' = [copy EXCEPT ![turn] = input]
          /\ main' = "increment"
     ELSE /\ main' = "waitJobs"
          /\ UNCHANGED <<handler, copy>>
  /\ UNCHANGED <<unchangedByHandling, turn, input, isOngoing, iNbJobsHandlers,
                 counted, fetched>>

Increment ==
  /\ main = "increment"
  /\ iNbJobsHandlers' = iNbJobsHandlers + 1
  /\ turn' = turn + 1
  /\ main' = "create"
  /\ UNCHANGED <<unchangedByHandling, input, isOngoing, remoteVars>>

\* cleanupJobStatusThreads waits until no request is going on ...
WaitJobs ==
  /\ main = "waitJobs"
  /\ iNbJobsHandlers = 0 \/ isOngoing = 0
  /\ main' = IF iNbJobsHandlers = 0 THEN "nested" ELSE "join"
  /\ turn' = 1
  /\ UNCHANGED <<unchangedByHandling, input, isOngoing, iNbJobsHandlers, remoteVars>>

\* ... then joins the handlers in order, and takes over the values of each one's
\* copy.  The length of the copy ends at the handler's own occurrence.
\* Mutant: the threads are not joined.
JoinedOnceStarted(r) == handler[r] # "none"

Joined(r) == handler[r] = "ended"
Merge(r)  == [q \in Remote |-> IF q = r \/ (SameInput /\ q < r)
                               THEN copy[r][q] ELSE input[q]]

Join ==
  /\ main = "join"
  /\ IF turn \in 1 .. iNbJobsHandlers
     THEN /\ Joined(turn)
          /\ input' = Merge(turn)
          /\ turn' = turn + 1
          /\ UNCHANGED main
     ELSE main' = "nested" /\ UNCHANGED <<input, turn>>
  /\ UNCHANGED <<unchangedByHandling, isOngoing, iNbJobsHandlers, remoteVars>>

\* validateRequest goes on (a background worker that refuses the request just
\* returns), and the service is loaded.
Nested ==
  /\ main = "nested"
  /\ IF queued THEN UpdateStatus(3) ELSE UNCHANGED <<status, prohibited, note, cStep>>
  /\ main' \in {"run", IF queued THEN "invalid" ELSE "gone"}
  /\ UNCHANGED <<othersOfUpdate, turn>>

\* The service reports its progress or not; the last note is the final one.
Run ==
  /\ main = "run"
  /\ \/ /\ Len(note) + 1 < MaxNotes
        /\ \E p \in Reports : UpdateStatus(p)
     \/ UNCHANGED <<status, prohibited, note, cStep>>
  /\ main' = "final"
  /\ UNCHANGED <<othersOfUpdate, turn>>

Leaving == IF queued THEN "gone" ELSE "cleanup"

Finish ==
  /\ main \in {"final", "invalid"}
  /\ \E state \in IF main = "final" THEN Final ELSE {Failed} :
       InvokeBasicCallback(state, status)
  /\ main' = Leaving
  /\ UNCHANGED <<othersOfUpdate, status, turn>>

\* Mutant: the threads are not joined.
CleanupWithoutJoin ==
  /\ main = "cleanup"
  /\ isOngoing = 0
  /\ main' = "gone"
  /\ UNCHANGED <<settings, turn, status, input, prohibited, globals, note, received,
                 remoteVars, failures>>

\* cleanupCallbackThreads
CleanupCallbackThreads ==
  /\ main = "cleanup"
  /\ isOngoing = 0
  /\ \A n \in DOMAIN note : note[n].pc = "ended"
  /\ main' = "gone"
  /\ UNCHANGED <<settings, turn, status, input, prohibited, globals, note, received,
                 remoteVars, failures>>

(***************************************************************************)
(* A notification thread; all threads end with the process                 *)
(***************************************************************************)
Alive == main # "gone"

GoesOn(n, from, to) ==
  /\ Alive /\ n \in DOMAIN note /\ note[n].pc = from
  /\ note' = [note EXCEPT ![n].pc = to]
  /\ UNCHANGED <<settings, mainVars, cStep, iNbJobsHandlers, iNbJobsHandled, remoteVars, failures>>

\* A notification older than the latest one is cancelled.
Check(n) ==
  /\ GoesOn(n, "check", IF note[n].state < cStep THEN "ended" ELSE "wait")
  /\ UNCHANGED <<maxProgress, isOngoing, received>>

Wait(n) ==
  /\ GoesOn(n, "wait", "test")
  /\ note[n].state \in Final \/ isOngoing = 0
  /\ UNCHANGED <<maxProgress, isOngoing, received>>

Test(n) ==
  /\ GoesOn(n, "test", IF note[n].state = Started /\ note[n].progress < maxProgress
                       THEN "ended" ELSE "raise")
  /\ UNCHANGED <<maxProgress, isOngoing, received>>

\* The thread announces its request.  A thread that passes its wait between the
\* two writes could as well have passed it before them.
Raise(n) ==
  /\ GoesOn(n, "raise", "post")
  /\ maxProgress' = IF note[n].state = Started THEN note[n].progress ELSE 101
  /\ isOngoing' = 1
  /\ UNCHANGED received

Delivered(n) == IF note[n].state \in Final THEN received \union {n} ELSE received

\* Mutant: isOngoing stays set.
PostStillOngoing(n) ==
  /\ GoesOn(n, "post", "ended")
  /\ received' = Delivered(n)
  /\ UNCHANGED <<maxProgress, isOngoing>>

\* The subscriber gets the request, and the thread its answer.
Post(n) ==
  /\ GoesOn(n, "post", "ended")
  /\ received' = Delivered(n)
  /\ isOngoing' = 0
  /\ UNCHANGED <<maxProgress>>

NoteStep(n) == Check(n) \/ Wait(n) \/ Test(n) \/ Raise(n) \/ Post(n)

(***************************************************************************)
(* The handler of a remote job (_handleJobStatus)                          *)
(***************************************************************************)
HandlerGoesOn(r, from, to) ==
  /\ Alive /\ handler[r] = from
  /\ handler' = [handler EXCEPT ![r] = to]
  /\ UNCHANGED <<settings, mainVars, cStep, maxProgress, iNbJobsHandlers, note,
                 received>>

Begin(r) ==
  /\ HandlerGoesOn(r, "begin", "poll")
  /\ isOngoing' = 1
  /\ UNCHANGED <<iNbJobsHandled, counted, fetched, copy, failures>>

\* A handler that cannot open its connection ends without being counted.
HandlerOpenFails(r) ==
  /\ failures < MaxOpenFailures
  /\ HandlerGoesOn(r, "poll", "ended")
  /\ failures' = failures + 1
  /\ UNCHANGED <<isOngoing, iNbJobsHandled, counted, fetched, copy>>

\* The status is asked for: the thread calls itself again while the job runs,
\* and once the job is successful it calls itself for the result.
PollAgain(r) ==
  /\ HandlerGoesOn(r, "poll", "begin")
  /\ UNCHANGED <<isOngoing, iNbJobsHandled, counted, fetched, copy, failures>>

Fetch(r) ==
  /\ HandlerGoesOn(r, "poll", "count")
  /\ fetched' = [fetched EXCEPT ![r] = TRUE]
  /\ copy' = [copy EXCEPT ![r][r] = TRUE]
  /\ isOngoing' = 1
  /\ UNCHANGED <<iNbJobsHandled, counted, failures>>

JobFailed(r) ==
  /\ HandlerGoesOn(r, "poll", "count")
  /\ UNCHANGED <<isOngoing, iNbJobsHandled, counted, fetched, copy, failures>>

JobEnds(r) == Fetch(r) \/ JobFailed(r)

\* iNbJobsHandled++, then the last one lets the main thread go on.
Count(r) ==
  /\ HandlerGoesOn(r, "count", "add")
  /\ counted' = [counted EXCEPT ![r] = iNbJobsHandled]
  /\ UNCHANGED <<isOngoing, iNbJobsHandled, fetched, copy, failures>>

Add(r) ==
  /\ HandlerGoesOn(r, "add", "test")
  /\ iNbJobsHandled' = counted[r] + 1
  /\ UNCHANGED <<isOngoing, counted, fetched, copy, failures>>

TestLast(r) ==
  /\ HandlerGoesOn(r, "test", IF iNbJobsHandled = iNbJobsHandlers THEN "sleep" ELSE "ended")
  /\ counted' = [counted EXCEPT ![r] = 0]
  /\ UNCHANGED <<isOngoing, iNbJobsHandled, fetched, copy, failures>>

Sleep(r) ==
  /\ HandlerGoesOn(r, "sleep", "ended")
  /\ isOngoing' = 0
  /\ UNCHANGED <<iNbJobsHandled, counted, fetched, copy, failures>>

HandlerStep(r) == \/ Begin(r) \/ PollAgain(r) \/ JobEnds(r)
                  \/ Count(r) \/ Add(r) \/ TestLast(r) \/ Sleep(r)

(***************************************************************************)
Main == \/ Start \/ Download \/ Downloaded \/ Create \/ Increment \/ WaitJobs \/ Join
        \/ Nested \/ Run \/ Finish \/ CleanupCallbackThreads

Threads == \/ Main
           \/ \E n \in DOMAIN note : NoteStep(n)
           \/ \E r \in Remote : HandlerStep(r)

Next == Threads \/ \E r \in Remote : HandlerOpenFails(r)

\* Some thread of the process is scheduled, a request ends, and a remote job
\* that is polled again and again has ended at some poll.  Apart from that polling
\* every thread ends after finitely many steps: nothing more has to be asked.
Fairness ==
  /\ WF_vars(Threads)
  /\ SF_vars(\E r \in Remote : JobEnds(r))

Spec == Init /\ [][Next]_vars /\ Fairness

(***************************************************************************)
(* Properties                                                              *)
(***************************************************************************)
\* When validateRequest goes on after the nested processes, each input whose
\* remote job was fetched holds the result, whatever reset isOngoing meanwhile
\* (cleanupJobStatusThreads, service_callback.c:426-480).
ResultsStored ==
  main \in {"nested", "run", "final"} => \A r \in Remote : fetched[r] => input[r]

\* A background worker that leaves after its final notification has sent it:
\* neither cStep nor maxProgress cancels it, and the process waits for its
\* thread (service_callback.c:493,538,1407).
FinalDelivered ==
  (main = "gone" /\ ~queued) =>
    \A n \in DOMAIN note : note[n].state \in Final => n \in received

\* Once its handlers are joined, or its last notification is created, the
\* process ends (service_callback.c:432-434,1408-1413).
ProcessEnds == main \in {"join", "cleanup"} ~> main = "gone"
=============================================================================
