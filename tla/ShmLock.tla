------------------------------ MODULE ShmLock ------------------------------
(***************************************************************************)
(* The System V semaphore of ONE job (service_internal.c) and what it      *)
(* protects: the job's progress in usid.status, and its stored response.   *)
(*                                                                         *)
(* The Worker runs the job: it reports progress (_updateStatus), may store *)
(* its ExecuteResponse (WPS 1.0.0, printProcessResponse), copies the final *)
(* file over the response (dumpBackFinalFile) and removes the semaphore.   *)
(* Readers are the processes of GetStatus (_getStatus) and GetResult       *)
(* (_getStatusFile) requests.  _getStatus removes the semaphore instead of *)
(* unlocking it, and the next process creates another one.                 *)
(*                                                                         *)
(* One set at a time is registered under the job's key (getKeyValue).      *)
(* Value, initialisation and holders are those of this set; a process that *)
(* got its id before it was removed holds a stale id.  One action is one   *)
(* system call.  Dismissal of the job, requests refused by validateRequest *)
(* and the other files are not part of this module (see AsyncJob); neither *)
(* are disk errors and a .sid file that is read while empty, which yields  *)
(* the key 0 and a private semaphore.                                      *)
(***************************************************************************)
EXTENDS Naturals

CONSTANTS
  Readers,   \* processes serving requests about the job
  Worker,    \* the process running it
  MaxRetry,  \* ZOO_LOCK_MAX_RETRY
  MaxPolls,  \* MAX_RETRIES
  Ops,       \* requests of the readers
  Stores,    \* TRUE: the response is stored under the lock first
  Started,   \* TRUE: progress was reported before the first request
  Repeat,    \* TRUE: a reader may serve a request after another
  Mortal     \* processes that may be killed

ASSUME ReaderAssumption == Worker \notin Readers
ASSUME BoundAssumption == MaxRetry \in Nat /\ MaxPolls \in Nat \ {0}
ASSUME OptionAssumption ==
  /\ Ops \subseteq {"GetStatus", "GetResult"}
  /\ {Stores, Started, Repeat} \subseteq BOOLEAN
  /\ Mortal \subseteq Readers \union {Worker}

Processes == Readers \union {Worker}

VARIABLES
  exists,    \* a semaphore set is registered under the key of the job
  value,     \* its value
  ready,     \* it has been initialised (sem_otime # 0)
  holders,   \* processes with a SEM_UNDO adjustment on it
  attached,  \* processes whose sem_id is its id
  pc,        \* what each process does next
  ctx,       \* on behalf of which code it handles the semaphore
  tries,     \* itn of acquireLock
  polls,     \* i of getShmLockId
  progress,  \* content of the .status file: "none", "empty" or "text"
  listed,    \* the .status file has a name
  running,   \* the .pid file exists
  resp,      \* content of the stored response
  final,     \* content of the final file
  got        \* what a reader read

semVars   == <<exists, value, ready, holders, attached>>
localVars == <<pc, ctx, tries, polls>>
fileVars  == <<progress, listed, running, resp, final>>
vars      == <<semVars, localVars, fileVars, got>>

(* update: _updateStatus; store: printProcessResponse; dump:               *)
(* dumpBackFinalFile; finish: removeShmLock at the end of runRequest;      *)
(* read and forget: _getStatus; fetch: _getStatusFile.                     *)
Contexts == {"update", "store", "dump", "finish", "read", "forget", "fetch"}
Removing == {"finish", "forget"}

Ended == {"idle", "done", "aborted", "dead"}

Init ==
  /\ exists = FALSE /\ value = 0 /\ ready = FALSE
  /\ holders = {} /\ attached = {}
  /\ pc = [p \in Processes |-> IF p = Worker THEN "run" ELSE "idle"]
  /\ ctx = [p \in Processes |-> IF p = Worker THEN "update" ELSE "read"]
  /\ tries = [p \in Processes |-> 0]
  /\ polls = [p \in Processes |-> 0]
  /\ progress = IF Started THEN "text" ELSE "none"
  /\ listed = Started
  /\ running = TRUE
  /\ resp = "started"
  /\ final = "blank"
  /\ got = [r \in Readers |-> "unasked"]

-----------------------------------------------------------------------------
(* Control.                                                                *)

Goto(p, to) ==
  /\ pc' = [pc EXCEPT ![p] = to]
  /\ UNCHANGED <<ctx, tries, polls>>

(* Call getShmLockId, acquireLock or removeShmLock on behalf of c.         *)
Enter(p, c) ==
  /\ pc' = [pc EXCEPT ![p] = "semget"]
  /\ ctx' = [ctx EXCEPT ![p] = c]
  /\ tries' = [tries EXCEPT ![p] = 0]
  /\ polls' = [polls EXCEPT ![p] = 0]

(* When a process ends the kernel applies its SEM_UNDO adjustment.         *)
Undo(p) ==
  /\ holders' = holders \ {p}
  /\ value' = IF p \in holders THEN value + 1 ELSE value
  /\ attached' = attached \ {p}
  /\ UNCHANGED <<exists, ready>>

-----------------------------------------------------------------------------
(* getShmLockId.                                                           *)

(* No semaphore: _updateStatus returns ZOO_LOCK_ACQUIRE_FAILED, the reads  *)
(* return NULL, printProcessResponse prints "Lock failed." instead of the  *)
(* response, dumpBackFinalFile and with it runRequest return -1, and       *)
(* removeShmLock has nothing to remove.                                    *)
GiveUp(p) ==
  /\ \/ ctx[p] = "update" /\ Goto(p, "run") /\ UNCHANGED <<semVars, fileVars>>
     \/ /\ ctx[p] = "store"
        /\ Enter(p, "dump")
        /\ final' = "exception"
        /\ UNCHANGED <<semVars, progress, listed, running, resp>>
     \/ ctx[p] = "dump" /\ Goto(p, "aborted") /\ Undo(p) /\ UNCHANGED fileVars
     \/ ctx[p] = "finish" /\ Goto(p, "unhandle") /\ UNCHANGED <<semVars, fileVars>>
     \/ /\ ctx[p] \in {"read", "forget", "fetch"}
        /\ Goto(p, "idle")
        /\ Undo(p)
        /\ UNCHANGED fileVars
  /\ UNCHANGED got

GotId(p) == Goto(p, IF ctx[p] \in Removing THEN "rmid" ELSE "semop")

(* semget(key,nsems,IPC_CREAT|IPC_EXCL): one process creates the set, ...  *)
SemGet(p) ==
  /\ pc[p] = "semget"
  /\ \/ /\ ~exists
        /\ exists' = TRUE /\ value' = 0 /\ ready' = FALSE
        /\ attached' = {p}
        /\ UNCHANGED holders
        /\ Goto(p, "init")
     \/ /\ exists
        /\ Goto(p, "lookup")
        /\ UNCHANGED semVars
  /\ UNCHANGED <<fileVars, got>>

(* ... and frees it with a semop that has no SEM_UNDO; ...                 *)
InitSem(p) ==
  /\ pc[p] = "init"
  /\ IF p \in attached THEN /\ value' = value + 1
                            /\ ready' = TRUE
                            /\ GotId(p)
                            /\ UNCHANGED <<exists, holders, attached, fileVars, got>>
                       ELSE GiveUp(p)

(* ... the others look it up, -1 if it was removed in between, ...         *)
LookUp(p) ==
  /\ pc[p] = "lookup"
  /\ IF exists THEN /\ attached' = attached \union {p}
                    /\ Goto(p, "poll")
                    /\ UNCHANGED <<exists, value, ready, holders, fileVars, got>>
               ELSE GiveUp(p)

(* ... and wait for sem_otime.  If the set is removed meanwhile, semctl    *)
(* fails and leaves the uninitialised buffer to be tested.                 *)
Poll(p) ==
  /\ pc[p] = "poll"
  /\ \/ /\ p \in attached => ready
        /\ GotId(p)
        /\ UNCHANGED <<semVars, fileVars, got>>
     \/ /\ p \in attached => ~ready
        /\ polls[p] + 1 < MaxPolls
        /\ polls' = [polls EXCEPT ![p] = @ + 1]
        /\ UNCHANGED <<pc, ctx, tries, semVars, fileVars, got>>
     \/ /\ p \in attached => ~ready
        /\ polls[p] + 1 >= MaxPolls
        /\ GiveUp(p)

-----------------------------------------------------------------------------
(* lockShm, unlockShm, removeShmLock.                                      *)

Inside == {"inside", "print", "unlock"}

(* The semaphore is gone: acquireLock starts again, up to                  *)
(* ZOO_LOCK_MAX_RETRY times; dumpBackFinalFile ignores it.                 *)
Removed(p) ==
  \/ /\ ctx[p] = "dump"
     /\ Goto(p, "inside")
     /\ UNCHANGED <<semVars, fileVars, got>>
  \/ /\ ctx[p] # "dump"
     /\ tries[p] < MaxRetry
     /\ pc' = [pc EXCEPT ![p] = "semget"]
     /\ tries' = [tries EXCEPT ![p] = @ + 1]
     /\ polls' = [polls EXCEPT ![p] = 0]
     /\ UNCHANGED <<ctx, semVars, fileVars, got>>
  \/ /\ ctx[p] # "dump"
     /\ tries[p] >= MaxRetry
     /\ GiveUp(p)

Take(p) ==
  /\ value > 0
  /\ value' = value - 1
  /\ holders' = holders \union {p}
  /\ Goto(p, "inside")
  /\ UNCHANGED <<exists, ready, attached, fileVars, got>>

LockWithoutUndo(p) ==    \* mutant: sem_flg = 0
  /\ pc[p] = "semop"
  /\ IF p \in attached
       THEN /\ value > 0
            /\ value' = value - 1
            /\ Goto(p, "inside")
            /\ UNCHANGED <<exists, ready, holders, attached, fileVars, got>>
       ELSE Removed(p)

LockIgnoringRemoval(p) ==    \* mutant: everybody does as dumpBackFinalFile
  /\ pc[p] = "semop"
  /\ IF p \in attached THEN Take(p)
     ELSE Goto(p, "inside") /\ UNCHANGED <<semVars, fileVars, got>>

Lock(p) ==
  /\ pc[p] = "semop"
  /\ IF p \in attached THEN Take(p) ELSE Removed(p)

Unlocked(p) ==
  \/ ctx[p] = "update" /\ Goto(p, "run") /\ UNCHANGED final
  \/ ctx[p] = "store" /\ Enter(p, "dump") /\ final' = "document"
  \/ ctx[p] = "fetch" /\ Goto(p, "idle") /\ UNCHANGED final

UnlockKeepingUndo(p) ==    \* mutant: the adjustment is not taken back
  /\ pc[p] = "unlock"
  /\ Unlocked(p)
  /\ value' = IF p \in attached THEN value + 1 ELSE value
  /\ UNCHANGED <<exists, ready, holders, attached, progress, listed, running, resp, got>>

Unlock(p) ==
  /\ pc[p] = "unlock"
  /\ Unlocked(p)
  /\ IF p \in attached THEN Undo(p) ELSE UNCHANGED semVars
  /\ UNCHANGED <<progress, listed, running, resp, got>>

Remove(p) ==
  /\ pc[p] = "rmid"
  /\ Goto(p, IF ctx[p] = "finish" THEN "unhandle" ELSE "idle")
  /\ IF p \in attached THEN /\ exists' = FALSE /\ value' = 0 /\ ready' = FALSE
                            /\ holders' = {} /\ attached' = {}
     ELSE IF p \in Readers THEN Undo(p)
     ELSE UNCHANGED semVars
  /\ UNCHANGED <<fileVars, got>>

-----------------------------------------------------------------------------
(* The worker.                                                             *)

UpdateStatus ==
  /\ \/ /\ pc[Worker] = "run"
        /\ Enter(Worker, "update")
        /\ UNCHANGED <<progress, listed>>
     \/ /\ pc[Worker] = "inside" /\ ctx[Worker] = "update"   \* fopen(..,"w")
        /\ Goto(Worker, "print")
        /\ progress' = "empty" /\ listed' = TRUE
     \/ /\ pc[Worker] = "print" /\ ctx[Worker] = "update"
        /\ Goto(Worker, "unlock")
        /\ progress' = "text"
        /\ UNCHANGED listed
  /\ UNCHANGED <<running, resp, final, semVars, got>>

(* The service has returned: printProcessResponse.                         *)
PrintResponse ==
  /\ \/ /\ pc[Worker] = "run"
        /\ IF Stores THEN Enter(Worker, "store") /\ UNCHANGED final
                     ELSE Enter(Worker, "dump") /\ final' = "document"
        /\ UNCHANGED resp
     \/ /\ pc[Worker] = "inside" /\ ctx[Worker] = "store"
        /\ Goto(Worker, "print")
        /\ resp' = "partial"
        /\ UNCHANGED final
     \/ /\ pc[Worker] = "print" /\ ctx[Worker] = "store"
        /\ Goto(Worker, "unlock")
        /\ resp' = "document"
        /\ UNCHANGED final
  /\ UNCHANGED <<progress, listed, running, semVars, got>>

(* The lock is not released: the semaphore is removed afterwards.          *)
DumpBackFinalFile ==
  /\ \/ /\ pc[Worker] = "inside" /\ ctx[Worker] = "dump"
        /\ Goto(Worker, "print")
        /\ resp' = "partial"
     \/ /\ pc[Worker] = "print" /\ ctx[Worker] = "dump"
        /\ Goto(Worker, "publish")
        /\ resp' = final
  /\ UNCHANGED <<progress, listed, running, final, semVars, got>>

(* unlink of the .pid file, the .res file, removeShmLock, unhandleStatus   *)
(* and exit.                                                               *)
EndRequest ==
  /\ \/ /\ pc[Worker] = "publish"
        /\ Enter(Worker, "finish")
        /\ running' = FALSE
        /\ UNCHANGED <<listed, semVars>>
     \/ /\ pc[Worker] = "unhandle"
        /\ Goto(Worker, "done")
        /\ listed' = FALSE
        /\ Undo(Worker)
        /\ UNCHANGED running
  /\ UNCHANGED <<progress, resp, final, got>>

-----------------------------------------------------------------------------
(* The readers.                                                            *)

(* _getStatus opens the .status file before it asks for the lock; without  *)
(* the file it only removes the semaphore.                                 *)
GetStatus(r) ==
  /\ "GetStatus" \in Ops
  /\ pc[r] = "idle" /\ (Repeat \/ got[r] = "unasked")
  /\ Enter(r, IF listed THEN "read" ELSE "forget")
  /\ got' = [got EXCEPT ![r] = "none"]
  /\ UNCHANGED <<semVars, fileVars>>

ReadProgressUnlocking(r) ==    \* mutant: the WIN32 branch
  /\ pc[r] = "inside" /\ ctx[r] = "read"
  /\ got' = [got EXCEPT ![r] = progress]
  /\ pc' = [pc EXCEPT ![r] = "unlock"]
  /\ ctx' = [ctx EXCEPT ![r] = "fetch"]
  /\ UNCHANGED <<tries, polls, semVars, fileVars>>

ReadProgress(r) ==
  /\ pc[r] = "inside" /\ ctx[r] = "read"
  /\ got' = [got EXCEPT ![r] = progress]
  /\ Enter(r, "forget")
  /\ UNCHANGED <<semVars, fileVars>>

(* _getStatusFile, of a job that is not running (isRunning).               *)
GetResult(r) ==
  /\ "GetResult" \in Ops
  /\ pc[r] = "idle" /\ (Repeat \/ got[r] = "unasked")
  /\ ~running
  /\ Enter(r, "fetch")
  /\ got' = [got EXCEPT ![r] = "none"]
  /\ UNCHANGED <<semVars, fileVars>>

ReadResponse(r) ==
  /\ pc[r] = "inside" /\ ctx[r] = "fetch"
  /\ got' = [got EXCEPT ![r] = resp]
  /\ Goto(r, "unlock")
  /\ UNCHANGED <<semVars, fileVars>>

(* A request is given up by its server, a worker killed.                   *)
Die(p) ==
  /\ p \in Mortal
  /\ pc[p] \notin Ended
  /\ Goto(p, "dead")
  /\ Undo(p)
  /\ UNCHANGED <<fileVars, got>>

Semaphore(p) ==
  \/ SemGet(p)
  \/ InitSem(p)
  \/ LookUp(p)
  \/ Poll(p)
  \/ Lock(p)
  \/ Unlock(p)
  \/ Remove(p)

WorkerNext ==
  \/ UpdateStatus
  \/ PrintResponse
  \/ DumpBackFinalFile
  \/ EndRequest

Serve(r) == Semaphore(r) \/ ReadProgress(r) \/ ReadResponse(r)

Next ==
  \/ WorkerNext
  \/ Semaphore(Worker)
  \/ \E r \in Readers : Serve(r) \/ GetStatus(r) \/ GetResult(r)
  \/ \E p \in Processes : Die(p)

Spec == Init /\ [][Next]_vars

(* Processes are scheduled; semop serves its waiters in turn; a service    *)
(* does not report progress forever.                                       *)
Fairness ==
  /\ WF_vars(WorkerNext \/ Semaphore(Worker))
  /\ SF_vars(pc[Worker] = "run" /\ PrintResponse)
  /\ \A p \in Processes : SF_vars(Lock(p))
  /\ \A r \in Readers : WF_vars(Serve(r))

FairSpec == Spec /\ Fairness

-----------------------------------------------------------------------------
(* Properties.                                                             *)

Labels == Ended \union Inside \union
  {"run", "semget", "init", "lookup", "poll", "semop", "rmid", "publish", "unhandle"}

Texts == {"none", "empty", "text"}
Responses == {"started", "blank", "partial", "document", "exception"}

(* Every variable keeps to its type; in particular the semaphore's value   *)
(* never exceeds one, whoever dies or removes it.                          *)
TypeOK ==
  /\ exists \in BOOLEAN /\ ready \in BOOLEAN
  /\ value \in {0, 1}
  /\ holders \subseteq Processes
  /\ attached \subseteq Processes
  /\ pc \in [Processes -> Labels]
  /\ ctx \in [Processes -> Contexts]
  /\ tries \in [Processes -> 0..MaxRetry]
  /\ polls \in [Processes -> 0..(MaxPolls - 1)]
  /\ progress \in Texts
  /\ listed \in BOOLEAN /\ running \in BOOLEAN
  /\ resp \in Responses
  /\ final \in {"blank", "document", "exception"}
  /\ got \in [Readers -> {"unasked"} \union Texts \union Responses]

(* The registered semaphore is free or held by one process: with the       *)
(* creator's semop, lockShm, unlockShm, the adjustments of SEM_UNDO and    *)
(* removals interleaved at will, no unit is lost or made up.               *)
SemaphoreConserved ==
  IF exists /\ ready
    THEN \/ value = 1 /\ holders = {}
         \/ value = 0 /\ \E p \in Processes : holders = {p}
    ELSE holders = {}

(* Once progress has been reported, no GetStatus reads it half written,    *)
(* although each of them removes the semaphore the others wait for.        *)
NoTornProgress == \A r \in Readers : got[r] # "empty"

(* When the job has ended and nobody is served, no semaphore set is left   *)
(* in the system (there are few of them, and ids of jobs come again).      *)
NoSemaphoreLeft ==
  pc[Worker] \in {"done", "aborted"} /\ (\A r \in Readers : pc[r] = "idle") => ~exists

(* Every request is answered, though semaphores are removed under those    *)
(* who wait for them, never unlocked, or not initialised by a process that *)
(* died; and the worker ends.                                              *)
NobodyWaitsForever ==
  /\ <>(pc[Worker] \in Ended)
  /\ \A r \in Readers : pc[r] # "idle" ~> pc[r] \in Ended
=============================================================================
