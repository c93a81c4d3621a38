------------------------------ MODULE RemoteJob ------------------------------
(***************************************************************************)
(* Jobs whose service is a script that runs on a cluster (USE_HPC).  The   *)
(* process of a job uploads its input, submits the script with sbatch and  *)
(* waits on a socket; FinalizeHPC1, which the cluster's mail triggers,     *)
(* writes exec_status and connects to the socket; the process downloads    *)
(* the outputs.  A lock keeps an input from being uploaded again while a   *)
(* job runs on it.                                                         *)
(*                                                                         *)
(* The jobs share their only input; the lock is what FileLock promises,    *)
(* and a wait for it may give up.  The socket is a TCP port that is not    *)
(* checked to be free (USE_AMQP), or a Unix socket of the job's own.  A    *)
(* process with a callback url also announces its steps (StepCallbacks):   *)
(* at most one job runs then.                                              *)
(***************************************************************************)
EXTENDS StepCallbacks, FiniteSets

CONSTANTS
  Jobs,
  Ports,           \* 1024 and the number of workers, whatever it is at that time
  Path,            \* the request was in "xml" or in "json"
  EarlyFinalize,   \* FinalizeHPC1 may be invoked before the script has ended
  MaxFaults        \* how often a lock is given up, or FinalizeHPC1 dies

ASSUME PathAssumption == Path \in {"xml", "json"} /\ EarlyFinalize \in BOOLEAN
ASSUME FaultAssumption == MaxFaults \in Nat
ASSUME NameAssumption == "nowhere" \notin Jobs \union Ports

Succeeded == "succeeded"
Failed    == "failed"     \* SERVICE_FAILED or -1
Nowhere   == "nowhere"

VARIABLES
  url,       \* callback/url is configured
  tcp,       \* the sockets are TCP ports
  pc,        \* what the process of a job does next
  eres,      \* what zoo_hpc_support returned
  remoteFile,\* the input is on the cluster
  locked,    \* the locks a process has: "none", "r" or "w"
  script,    \* the script on the cluster: "none", "running", "ended", "broken"
  port,      \* the name of a job's socket, once lenv has it
  socket,    \* "none", "listening", "connected", "said" (it has "3"), "closed" (it has
             \* not), "unbound", "deaf" (it cannot listen or accept) or "broken"
  finalizer, \* FinalizeHPC1 for the job: "none", "connecting", "writing", "ended"
  target,    \* the socket FinalizeHPC1 read of in lenv
  peer,      \* the job whose process FinalizeHPC1 is connected to
  status,    \* exec_status of the job is there
  faults,    \* the faults so far
  unlocked   \* the jobs submitted without a lock, the wait for it having given up

build    == <<url, tcp>>
lockVars == <<remoteFile, locked>>
endVars  == <<script, port, socket, finalizer, target, peer, status>>
faultVars == <<faults, unlocked>>
vars == <<stepVars, build, pc, eres, lockVars, endVars, faultVars>>

Pcs == {"idle", "inputs", "check", "lock", "copy", "uploaded", "script", "submitLock", "submit",
        "port", "bind", "accept", "unlock", "fetch", "reread", "respond", "cleanup", "gone",
        "crashed"}

Names == Jobs \union Ports \union {Nowhere}

TypeOK ==
  /\ StepsOK
  /\ url \in BOOLEAN /\ tcp \in BOOLEAN
  /\ pc \in [Jobs -> Pcs] /\ eres \in [Jobs -> {"none", Succeeded, Failed}]
  /\ remoteFile \in BOOLEAN /\ locked \in [Jobs -> {"none", "r", "w"}]
  /\ script \in [Jobs -> {"none", "running", "ended", "broken"}]
  /\ socket \in [Jobs -> {"none", "listening", "connected", "said", "closed",
                          "unbound", "deaf", "broken"}]
  /\ finalizer \in [Jobs -> {"none", "connecting", "writing", "ended"}]
  /\ port \in [Jobs -> Names] /\ target \in [Jobs -> Names]
  /\ peer \in [Jobs -> Jobs \union {Nowhere}]
  /\ status \in [Jobs -> BOOLEAN] /\ faults \in 0 .. MaxFaults /\ unlocked \subseteq Jobs

Init ==
  /\ InitSteps
  /\ url \in BOOLEAN /\ tcp \in BOOLEAN
  /\ pc = [j \in Jobs |-> "idle"] /\ eres = [j \in Jobs |-> "none"]
  /\ remoteFile \in BOOLEAN /\ locked = [j \in Jobs |-> "none"]
  /\ script = [j \in Jobs |-> "none"] /\ socket = [j \in Jobs |-> "none"]
  /\ finalizer = [j \in Jobs |-> "none"] /\ status = [j \in Jobs |-> FALSE]
  /\ port = [j \in Jobs |-> IF tcp THEN Nowhere ELSE j]
  /\ target = [j \in Jobs |-> Nowhere] /\ peer = [j \in Jobs |-> Nowhere]
  /\ faults = 0 /\ unlocked = {}

Goto(j, from, to) == pc[j] = from /\ pc' = [pc EXCEPT ![j] = to]

Announce(list) == IF url THEN InvokeCallbacks(list) ELSE UNCHANGED stepVars

Failure == <<7, 0>>

\* zoo_hpc_support returns: a failure is announced.
Fails(j, from) ==
  /\ Goto(j, from, "respond")
  /\ eres' = [eres EXCEPT ![j] = Failed]
  /\ Announce(<<Failure>>)

(***************************************************************************)
(* The process of a job                                                    *)
(***************************************************************************)
\* Mutant: the inputs are not announced.
StartWithoutInputs(j) ==
  /\ url => \A k \in Jobs : pc[k] = "idle"
  /\ Goto(j, "idle", "inputs")
  /\ Announce(<<<<0, 0>>>>)
  /\ UNCHANGED <<build, eres, lockVars, endVars, faultVars>>

\* Only the XML path announces the inputs.
Start(j) ==
  /\ url => \A k \in Jobs : pc[k] = "idle"
  /\ Goto(j, "idle", "inputs")
  /\ Announce(IF Path = "xml" THEN <<<<0, 0>>, <<1, 0>>>> ELSE <<<<0, 0>>>>)
  /\ UNCHANGED <<build, eres, lockVars, endVars, faultVars>>

\* The inputs are published (which may fail with a mapError).
Inputs(j) ==
  /\ \/ /\ Goto(j, "inputs", "check")
        /\ Announce(<<<<1, 1>>, <<2, 0>>>>)
        /\ UNCHANGED eres
     \/ /\ Goto(j, "inputs", "respond")
        /\ eres' = [eres EXCEPT ![j] = Failed]
        /\ Announce(<<<<1, 1>>, <<2, 0>>, Failure>>)
  /\ UNCHANGED <<build, lockVars, endVars, faultVars>>

\* runUpload: an input that is there already (fileMd5Check) is not copied.
CheckInput(j) ==
  /\ Goto(j, "check", IF remoteFile THEN "uploaded" ELSE "lock")
  /\ UNCHANGED <<stepVars, build, eres, lockVars, endVars, faultVars>>

Free(j, mode) == \A k \in Jobs \ {j} : locked[k] = "none" \/ (mode = "r" /\ locked[k] = "r")

LockInput(j) ==
  /\ Goto(j, "lock", "copy")
  /\ Free(j, "w")
  /\ locked' = [locked EXCEPT ![j] = "w"]
  /\ UNCHANGED <<stepVars, build, eres, remoteFile, endVars, faultVars>>

Fault == faults < MaxFaults /\ faults' = faults + 1

LockInputFails(j) ==
  /\ ~Free(j, "w") /\ Fault
  /\ Fails(j, "lock")
  /\ UNCHANGED <<build, lockVars, endVars, unlocked>>

CopyInput(j) ==
  /\ locked' = [locked EXCEPT ![j] = "none"]
  /\ \/ /\ Goto(j, "copy", "uploaded")
        /\ remoteFile' = TRUE
        /\ UNCHANGED <<stepVars, eres>>
     \/ /\ Fails(j, "copy")
        /\ UNCHANGED remoteFile
  /\ UNCHANGED <<build, endVars, faultVars>>

Uploaded(j) ==
  /\ Goto(j, "uploaded", "script")
  /\ Announce(<<<<2, 1>>, <<3, 0>>, <<3, 1>>, <<4, 0>>>>)
  /\ UNCHANGED <<build, eres, lockVars, endVars, faultVars>>

\* The script is copied to the cluster.
CopyScript(j) ==
  /\ \/ Goto(j, "script", "submitLock") /\ UNCHANGED <<stepVars, eres>>
     \/ Fails(j, "script")
  /\ UNCHANGED <<build, lockVars, endVars, faultVars>>

\* Mutant: no lock is taken.
SkipReadLocks(j) ==
  /\ Goto(j, "submitLock", "submit")
  /\ UNCHANGED <<stepVars, build, eres, lockVars, endVars, faultVars>>

\* addReadLocks, whose result is not looked at: the job goes on without its lock
\* when the wait for it gives up.
AddReadLocks(j) ==
  /\ Goto(j, "submitLock", "submit")
  /\ \/ /\ Free(j, "r")
        /\ locked' = [locked EXCEPT ![j] = "r"]
        /\ UNCHANGED faultVars
     \/ /\ ~Free(j, "r") /\ Fault
        /\ unlocked' = unlocked \union {j}
        /\ UNCHANGED locked
  /\ UNCHANGED <<stepVars, build, eres, remoteFile, endVars>>

\* Mutant: the locks stay.
KeepReadLocks(j) == UNCHANGED locked

RemoveReadLocks(j) == locked' = [locked EXCEPT ![j] = "none"]

\* A failure is announced, removeReadLocks unlocks the inputs and zoo_hpc_support returns
\* -1.  The array of locks is NULL when none was taken: the process crashes.
ReturnsUnlocked(j, from) ==
  /\ Announce(<<Failure>>)
  /\ \/ /\ locked[j] = "r"
        /\ Goto(j, from, "respond")
        /\ eres' = [eres EXCEPT ![j] = Failed]
        /\ RemoveReadLocks(j)
     \/ /\ locked[j] = "none"
        /\ Goto(j, from, "crashed")
        /\ UNCHANGED <<eres, locked>>

\* sbatch
Submit(j) ==
  /\ \/ /\ Goto(j, "submit", "port")
        /\ script' = [script EXCEPT ![j] = "running"]
        /\ Announce(<<<<4, 1>>>>)
        /\ UNCHANGED <<eres, locked>>
     \/ ReturnsUnlocked(j, "submit") /\ UNCHANGED script
  /\ UNCHANGED <<build, remoteFile, port, socket, finalizer, target, peer, status, faultVars>>

\* The port is dumped with lenv before anybody knows whether it is free.
ChoosePort(j) ==
  /\ Goto(j, "port", "bind")
  /\ \E p \in IF tcp THEN Ports ELSE {j} : port' = [port EXCEPT ![j] = p]
  /\ UNCHANGED <<stepVars, build, eres, lockVars, script, socket, finalizer, target, peer, status,
                 faultVars>>

TurnsInto(j, state) == socket' = [socket EXCEPT ![j] = state]

sockOthers == <<build, remoteFile, script, port, finalizer, target, peer, status, faultVars>>

\* No socket is closed before its process ends.
Taken(j) == \E k \in Jobs \ {j} : /\ port[k] = port[j] /\ socket[k] \notin {"none", "unbound"}
                               /\ pc[k] \notin {"gone", "crashed"}

\* bind and listen: either may fail, and the script runs on.
Listen(j) ==
  /\ \/ /\ Goto(j, "bind", "accept") /\ ~Taken(j)
        /\ TurnsInto(j, "listening")
        /\ UNCHANGED <<stepVars, eres, locked>>
     \/ ReturnsUnlocked(j, "bind") /\ TurnsInto(j, "unbound")
     \/ ReturnsUnlocked(j, "bind") /\ TurnsInto(j, "deaf") /\ ~Taken(j)
  /\ UNCHANGED sockOthers

AcceptFails(j) ==
  /\ socket[j] = "listening"
  /\ ReturnsUnlocked(j, "accept") /\ TurnsInto(j, "deaf")
  /\ UNCHANGED sockOthers

ReadFails(j) ==
  /\ socket[j] \in {"connected", "said"}
  /\ ReturnsUnlocked(j, "accept") /\ TurnsInto(j, "broken")
  /\ UNCHANGED sockOthers

\* Reads "3"; a connection that closes before is a failure with the locks kept.
Accept(j) ==
  /\ \/ socket[j] = "said" /\ Goto(j, "accept", "unlock") /\ UNCHANGED <<stepVars, eres>>
     \/ socket[j] = "closed" /\ Fails(j, "accept")
  /\ UNCHANGED <<build, lockVars, endVars, faultVars>>

UnlockInputs(j) ==
  /\ IF locked[j] = "r"
     THEN /\ Goto(j, "unlock", "fetch")
          /\ RemoveReadLocks(j)
          /\ Announce(<<<<5, 0>>>>)
     ELSE Goto(j, "unlock", "crashed") /\ UNCHANGED <<stepVars, locked>>
  /\ UNCHANGED <<build, eres, remoteFile, endVars, faultVars>>

\* exec_status is read and removed, and the outputs are downloaded: a script that
\* ended well has left them all, another one some of them or none.
FetchOutputs(j) ==
  /\ \/ /\ Goto(j, "fetch", "reread")
        /\ script[j] # "broken"
        /\ UNCHANGED <<stepVars, eres>>
     \/ Fails(j, "fetch")
  /\ status' = [status EXCEPT ![j] = FALSE]
  /\ UNCHANGED <<build, lockVars, script, port, socket, finalizer, target, peer, faultVars>>

\* The loop reads until the connection is closed.  An error here unlocks the inputs a
\* second time, through an array that was freed.
Reread(j) ==
  /\ \/ /\ Goto(j, "reread", "respond")
        /\ eres' = [eres EXCEPT ![j] = Succeeded]
        /\ UNCHANGED stepVars
     \/ Fails(j, "reread")
     \/ Goto(j, "reread", "crashed") /\ Announce(<<Failure>>) /\ UNCHANGED eres
  /\ UNCHANGED <<build, lockVars, endVars, faultVars>>

Respond(j) ==
  /\ Goto(j, "respond", "cleanup")
  /\ IF eres[j] = Succeeded THEN Announce(<<<<5, 1>>, <<6, 0>>>>) ELSE UNCHANGED stepVars
  /\ UNCHANGED <<build, eres, lockVars, endVars, faultVars>>

CleanupCallbackThreads(j) ==
  /\ Goto(j, "cleanup", "gone")
  /\ url => ThreadsEnded
  /\ UNCHANGED <<stepVars, build, eres, lockVars, endVars, faultVars>>

Process(j) ==
  \/ Start(j) \/ Inputs(j) \/ CheckInput(j) \/ LockInput(j) \/ CopyInput(j) \/ Uploaded(j)
  \/ CopyScript(j) \/ AddReadLocks(j) \/ Submit(j) \/ ChoosePort(j) \/ Listen(j) \/ Accept(j)
  \/ UnlockInputs(j) \/ FetchOutputs(j) \/ Reread(j) \/ Respond(j) \/ CleanupCallbackThreads(j)

\* What may go wrong while the process waits.
WaitFails(j) == LockInputFails(j) \/ AcceptFails(j) \/ ReadFails(j)

(***************************************************************************)
(* The cluster and FinalizeHPC1                                            *)
(***************************************************************************)
ScriptEnds(j) ==
  /\ script[j] = "running"
  /\ \E end \in {"ended", "broken"} : script' = [script EXCEPT ![j] = end]
  /\ UNCHANGED <<stepVars, build, pc, eres, lockVars, port, socket, finalizer, target, peer, status,
                 faultVars>>

others == <<stepVars, build, pc, eres, lockVars, script, port, unlocked>>

\* The mail of the cluster, or anybody, invokes it.  It reads lenv, runs sacct, which
\* knows a script from its submission on, and writes exec_status.
Finalize(j) ==
  /\ finalizer[j] = "none"
  /\ script[j] \in {"ended", "broken"} \/ (EarlyFinalize /\ script[j] = "running")
  /\ finalizer' = [finalizer EXCEPT ![j] = "connecting"]
  /\ target' = [target EXCEPT ![j] = port[j]]
  /\ status' = [status EXCEPT ![j] = TRUE]
  /\ UNCHANGED <<others, socket, peer, faults>>

Answers(k, name) == socket[k] = "listening" /\ port[k] = name

\* It reaches whoever listens there, of whatever job.  Without a listening socket it
\* fails; so may it with TCP, when the name of the host is not found.  Those who
\* invoked it try again or give up.
Connect(j) ==
  /\ finalizer[j] = "connecting"
  /\ \/ \E k \in Jobs :
          /\ Answers(k, target[j])
          /\ finalizer' = [finalizer EXCEPT ![j] = "writing"]
          /\ peer' = [peer EXCEPT ![j] = k]
          /\ TurnsInto(k, "connected")
     \/ /\ tcp \/ \A k \in Jobs : ~Answers(k, target[j])
        /\ \E next \in {"none", "ended"} : finalizer' = [finalizer EXCEPT ![j] = next]
        /\ UNCHANGED <<socket, peer>>
  /\ UNCHANGED <<others, target, status, faults>>

\* The end of a connection, if it is still open at the other one.
Closes(j, state) ==
  /\ finalizer[j] = "writing"
  /\ finalizer' = [finalizer EXCEPT ![j] = "ended"]
  /\ IF socket[peer[j]] = "connected" THEN TurnsInto(peer[j], state) ELSE UNCHANGED socket
  /\ UNCHANGED <<others, target, peer, status>>

Say(j) == Closes(j, "said") /\ UNCHANGED faults

\* FinalizeHPC1 dies before it has written, and nobody invokes it again.
Dies(j) == Closes(j, "closed") /\ Fault

Environment(j) == ScriptEnds(j) \/ Finalize(j) \/ Connect(j) \/ Say(j)

Threads ==
  /\ ThreadStep
  /\ UNCHANGED <<build, pc, eres, lockVars, endVars, faultVars>>

Next ==
  \/ \E j \in Jobs : Process(j) \/ WaitFails(j) \/ Environment(j) \/ Dies(j)
  \/ Threads

\* Processes and threads are scheduled, requests are answered, scripts end and
\* the mail of the cluster arrives.
Fairness == /\ WF_vars(Threads)
            /\ \A j \in Jobs : WF_vars(Process(j)) /\ WF_vars(Environment(j))

Spec == Init /\ [][Next]_vars /\ Fairness

(***************************************************************************)
(* Properties                                                              *)
(***************************************************************************)
\* The end of another script was told to the process of this job.
Misled(j) == \E k \in Jobs \ {j} : peer[k] = j

\* No process uploads the input while a script runs on it (runUpload, sshapi.c:729-741;
\* addReadLocks, service_internal_hpc.c:785), unless its job never had the lock, its
\* socket failed (894-951), or the port it listens at is one that another FinalizeHPC1
\* connects to (860-869): each of these leaves the input alone with a script.
InputIsStable ==
  \A j, k \in Jobs :
    j # k /\ script[j] = "running" /\ pc[k] = "copy" =>
      j \in unlocked \/ socket[j] \in {"unbound", "deaf"} \/ Misled(j)

\* A process that leaves keeps no lock, on each of the ways out of zoo_hpc_support,
\* those of a failed sbatch, bind, listen, accept and read among them, but the one of a
\* connection that closes without a word (service_internal_hpc.c:223-247).
LocksReleased ==
  \A j \in Jobs : pc[j] \in {"cleanup", "gone", "crashed"} /\ socket[j] # "closed" =>
                    locked[j] = "none"

\* A process that was told the end of its script, and has succeeded, leaves: each
\* of its callbacks gets its turn (service_callback.c:692-696).
SuccessLeaves == \A j \in Jobs : eres[j] = Succeeded ~> pc[j] = "gone"
=============================================================================
