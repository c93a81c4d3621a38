--------------------------- MODULE RemoteJobProofs ---------------------------
(***************************************************************************)
(* Proofs about RemoteJob and the step callbacks, for any jobs, either     *)
(* representation of the request and any number of faults.                 *)
(***************************************************************************)
EXTENDS RemoteJob, SequenceTheorems, TLAPS

-----------------------------------------------------------------------------
(* The invariants of the locks.                                            *)

LockTypes ==
  /\ pc \in [Jobs -> Pcs] /\ eres \in [Jobs -> {"none", Succeeded, Failed}]
  /\ locked \in [Jobs -> {"none", "r", "w"}]
  /\ script \in [Jobs -> {"none", "running", "ended", "broken"}]
  /\ socket \in [Jobs -> {"none", "listening", "connected", "said", "closed",
                          "unbound", "deaf", "broken"}]
  /\ finalizer \in [Jobs -> {"none", "connecting", "writing", "ended"}]
  /\ port \in [Jobs -> Names] /\ target \in [Jobs -> Names]
  /\ peer \in [Jobs -> Jobs \union {Nowhere}]
  /\ unlocked \subseteq Jobs

(* A writer is alone, and writes while it copies; a reader keeps its lock  *)
(* from before the submission until zoo_hpc_support unlocks the inputs,    *)
(* for ever if its connection closed without a word.                       *)
Exclusive == \A j, k \in Jobs : j # k /\ locked[j] = "w" => locked[k] = "none"
Reading == {"submit", "port", "bind", "accept", "unlock"}
HoldsInv(j) ==
  /\ pc[j] = "copy" <=> locked[j] = "w"
  /\ pc[j] \in Reading /\ j \notin unlocked => locked[j] = "r"
  /\ locked[j] = "r" => pc[j] \in Reading \/ socket[j] = "closed"
LockInv == Exclusive /\ \A j \in Jobs : HoldsInv(j)

(* A script is submitted before FinalizeHPC1 is asked, which connects once *)
(* and has ended its script by then.                                       *)
Early == {"idle", "inputs", "check", "lock", "copy", "uploaded", "script", "submitLock", "submit"}
OwnInv(j) ==
  /\ script[j] = "none" => finalizer[j] = "none" /\ pc[j] \notin {"port", "bind", "accept"}
  /\ script[j] # "none" => pc[j] \notin Early
  /\ script[j] = "running" => finalizer[j] = "none"
  /\ finalizer[j] \in {"none", "connecting"} => peer[j] = Nowhere

(* What a process hears comes from a FinalizeHPC1 that is connected to it. *)
Heard == {"connected", "said", "closed", "broken"}
HeardInv(j) == socket[j] \in Heard => \E k \in Jobs : peer[k] = j

(* While a script runs its process waits, unless its socket failed it or   *)
(* it was told of another one.                                             *)
WaitInv(j) ==
  script[j] = "running" =>
    pc[j] \in {"port", "bind", "accept"} \/ socket[j] \in {"unbound", "deaf"} \/ Misled(j)

ScriptInv == \A j \in Jobs : OwnInv(j) /\ HeardInv(j) /\ WaitInv(j)

-----------------------------------------------------------------------------
(* The invariants of the callbacks.                                        *)

(* The calls a process makes, and their order.                             *)
Good   == (0 .. 7) \X {0} \union (1 .. 5) \X {1}
Key(c) == 2 * c[1] + c[2]
Thread == [call : Good, pc : {"wait", "post", "advance", "ended"}]

CallTypes == /\ calls \in Seq(Thread) /\ cStep \in 0 .. 8 /\ isOngoing \in 0 .. 1
             /\ steps \subseteq Calls /\ got \in Seq(Calls)

(* Each call is made once, and later than the calls before it.             *)
Increasing == \A m, n \in DOMAIN calls : m < n => Key(calls[m].call) < Key(calls[n].call)

Below(key) == \A n \in DOMAIN calls : Key(calls[n].call) < key

(* How far the announcements of a process are.                             *)
Progress(j) ==
  /\ pc[j] = "inputs" => Below(3)
  /\ pc[j] \in {"check", "lock", "copy", "uploaded"} => Below(5)
  /\ pc[j] \in {"script", "submitLock", "submit"} => Below(9)
  /\ pc[j] \in {"port", "bind", "accept", "unlock"} => Below(10)
  /\ pc[j] \in {"fetch", "reread"} \/ (pc[j] = "respond" /\ eres[j] = Succeeded) => Below(11)

AnnounceInv ==
  /\ ~url \/ (\A j \in Jobs : pc[j] = "idle") => calls = <<>>
  /\ url => \A j, k \in Jobs : pc[j] # "idle" /\ pc[k] # "idle" => j = k
  /\ url => \A j \in Jobs : Progress(j)

(* A call that is being answered keeps cStep where it is, except that the  *)
(* call of a failure may have closed the sequence before.                  *)
InFlight(n) == calls[n].pc \in {"post", "advance"}
FlightInv ==
  /\ \A c \in steps : \E n \in DOMAIN calls : calls[n].call = c /\ calls[n].pc = "ended"
  /\ \A k \in DOMAIN got : \E n \in DOMAIN calls : calls[n].call = got[k] /\ calls[n].pc # "wait"
  /\ \A n \in DOMAIN calls : InFlight(n) /\ calls[n].call[1] # 7 =>
       cStep = calls[n].call[1] \/ (cStep = 8 /\ calls[n].call[2] = 0)
  /\ \A n \in DOMAIN calls : calls[n].pc # "wait" /\ calls[n].call[2] = 1 =>
       <<calls[n].call[1], 0>> \in steps

OrderInv == /\ \A k \in DOMAIN got : got[k][1] # 7 => got[k][1] <= cStep
            /\ StepsInOrder

-----------------------------------------------------------------------------
(* The locks and the script.                                               *)

USE DEF Succeeded, Failed, Nowhere

Step(j) == Process(j) \/ WaitFails(j) \/ Environment(j) \/ Dies(j)

LEMMA TypesStep ==
  ASSUME LockTypes, NEW j \in Jobs, Step(j)
  PROVE  LockTypes'
<1> USE DEF LockTypes, Pcs, Names,
        Goto, Fails, ReturnsUnlocked, Fault, RemoveReadLocks, TurnsInto, Closes,
        sockOthers, lockVars, endVars, faultVars, others
<1>1. CASE Start(j)
  BY <1>1 DEF Start
<1>2. CASE Inputs(j)
  BY <1>2 DEF Inputs
<1>3. CASE CheckInput(j)
  BY <1>3 DEF CheckInput
<1>4. CASE LockInput(j)
  BY <1>4 DEF LockInput
<1>5. CASE CopyInput(j)
  BY <1>5 DEF CopyInput
<1>6. CASE Uploaded(j)
  BY <1>6 DEF Uploaded
<1>7. CASE CopyScript(j)
  BY <1>7 DEF CopyScript
<1>8. CASE AddReadLocks(j)
  BY <1>8 DEF AddReadLocks
<1>9. CASE Submit(j)
  BY <1>9 DEF Submit
<1>10. CASE ChoosePort(j)
  BY <1>10 DEF ChoosePort
<1>11. CASE Listen(j)
  BY <1>11 DEF Listen
<1>12. CASE Accept(j)
  BY <1>12 DEF Accept
<1>13. CASE UnlockInputs(j)
  BY <1>13 DEF UnlockInputs
<1>14. CASE FetchOutputs(j)
  BY <1>14 DEF FetchOutputs
<1>15. CASE Reread(j)
  BY <1>15 DEF Reread
<1>16. CASE Respond(j)
  BY <1>16 DEF Respond
<1>17. CASE CleanupCallbackThreads(j)
  BY <1>17 DEF CleanupCallbackThreads
<1>18. CASE LockInputFails(j)
  BY <1>18 DEF LockInputFails
<1>19. CASE AcceptFails(j)
  BY <1>19 DEF AcceptFails
<1>20. CASE ReadFails(j)
  BY <1>20 DEF ReadFails
<1>21. CASE ScriptEnds(j)
  BY <1>21 DEF ScriptEnds
<1>22. CASE Finalize(j)
  BY <1>22 DEF Finalize
<1>23. CASE Connect(j)
  BY <1>23 DEF Connect
<1>24. CASE Say(j)
  BY <1>24 DEF Say
<1>25. CASE Dies(j)
  BY <1>25 DEF Dies
<1>q. QED BY <1>1, <1>2, <1>3, <1>4, <1>5, <1>6, <1>7, <1>8, <1>9, <1>10, <1>11, <1>12, <1>13,
             <1>14, <1>15, <1>16, <1>17, <1>18, <1>19, <1>20, <1>21, <1>22, <1>23, <1>24, <1>25
             DEF Step, Process, WaitFails, Environment

(* What a step of one job leaves of the others: all but their sockets.     *)
LEMMA OthersKept ==
  ASSUME LockTypes, NEW j \in Jobs, Step(j), NEW k \in Jobs, k # j
  PROVE  /\ pc'[k] = pc[k] /\ locked'[k] = locked[k] /\ script'[k] = script[k]
         /\ finalizer'[k] = finalizer[k] /\ peer'[k] = peer[k] /\ eres'[k] = eres[k]
         /\ k \in unlocked' <=> k \in unlocked
<1> USE DEF LockTypes, Goto, Fails, ReturnsUnlocked, Fault, RemoveReadLocks, TurnsInto, Closes,
        sockOthers, lockVars, endVars, faultVars, others
<1>1. CASE Start(j)
  BY <1>1 DEF Start
<1>2. CASE Inputs(j)
  BY <1>2 DEF Inputs
<1>3. CASE CheckInput(j)
  BY <1>3 DEF CheckInput
<1>4. CASE LockInput(j)
  BY <1>4 DEF LockInput
<1>5. CASE CopyInput(j)
  BY <1>5 DEF CopyInput
<1>6. CASE Uploaded(j)
  BY <1>6 DEF Uploaded
<1>7. CASE CopyScript(j)
  BY <1>7 DEF CopyScript
<1>8. CASE AddReadLocks(j)
  BY <1>8 DEF AddReadLocks
<1>9. CASE Submit(j)
  BY <1>9 DEF Submit
<1>10. CASE ChoosePort(j)
  BY <1>10 DEF ChoosePort
<1>11. CASE Listen(j)
  BY <1>11 DEF Listen
<1>12. CASE Accept(j)
  BY <1>12 DEF Accept
<1>13. CASE UnlockInputs(j)
  BY <1>13 DEF UnlockInputs
<1>14. CASE FetchOutputs(j)
  BY <1>14 DEF FetchOutputs
<1>15. CASE Reread(j)
  BY <1>15 DEF Reread
<1>16. CASE Respond(j)
  BY <1>16 DEF Respond
<1>17. CASE CleanupCallbackThreads(j)
  BY <1>17 DEF CleanupCallbackThreads
<1>18. CASE LockInputFails(j)
  BY <1>18 DEF LockInputFails
<1>19. CASE AcceptFails(j)
  BY <1>19 DEF AcceptFails
<1>20. CASE ReadFails(j)
  BY <1>20 DEF ReadFails
<1>21. CASE ScriptEnds(j)
  BY <1>21 DEF ScriptEnds
<1>22. CASE Finalize(j)
  BY <1>22 DEF Finalize
<1>23. CASE Connect(j)
  BY <1>23 DEF Connect
<1>24. CASE Say(j)
  BY <1>24 DEF Say
<1>25. CASE Dies(j)
  BY <1>25 DEF Dies
<1>q. QED BY <1>1, <1>2, <1>3, <1>4, <1>5, <1>6, <1>7, <1>8, <1>9, <1>10, <1>11, <1>12, <1>13,
             <1>14, <1>15, <1>16, <1>17, <1>18, <1>19, <1>20, <1>21, <1>22, <1>23, <1>24, <1>25
             DEF Step, Process, WaitFails, Environment

(* A socket is its process's, until FinalizeHPC1 connects to it; one that  *)
(* failed or was closed stays so.                                          *)
LEMMA SocketsKept ==
  ASSUME LockTypes, NEW j \in Jobs, Step(j), NEW k \in Jobs
  PROVE  \/ socket'[k] = socket[k]
         \/ socket[k] = "listening" /\ socket'[k] = "connected" /\ peer'[j] = k
         \/ socket[k] = "connected" /\ socket'[k] \in {"said", "closed"}
         \/ k = j /\ socket[k] \in {"connected", "said"} /\ socket'[k] = "broken"
         \/ k = j /\ socket[k] = "listening" /\ socket'[k] = "deaf"
         \/ k = j /\ pc[k] = "bind" /\ socket'[k] \in {"listening", "unbound", "deaf"}
              /\ (socket'[k] = "listening" => pc'[k] = "accept")
<1> USE DEF LockTypes, Goto, Fails, ReturnsUnlocked, Fault, RemoveReadLocks, TurnsInto, Closes,
        sockOthers, lockVars, endVars, faultVars, others
<1>1. CASE Start(j)
  BY <1>1 DEF Start
<1>2. CASE Inputs(j)
  BY <1>2 DEF Inputs
<1>3. CASE CheckInput(j)
  BY <1>3 DEF CheckInput
<1>4. CASE LockInput(j)
  BY <1>4 DEF LockInput
<1>5. CASE CopyInput(j)
  BY <1>5 DEF CopyInput
<1>6. CASE Uploaded(j)
  BY <1>6 DEF Uploaded
<1>7. CASE CopyScript(j)
  BY <1>7 DEF CopyScript
<1>8. CASE AddReadLocks(j)
  BY <1>8 DEF AddReadLocks
<1>9. CASE Submit(j)
  BY <1>9 DEF Submit
<1>10. CASE ChoosePort(j)
  BY <1>10 DEF ChoosePort
<1>11. CASE Listen(j)
  BY <1>11 DEF Listen
<1>12. CASE Accept(j)
  BY <1>12 DEF Accept
<1>13. CASE UnlockInputs(j)
  BY <1>13 DEF UnlockInputs
<1>14. CASE FetchOutputs(j)
  BY <1>14 DEF FetchOutputs
<1>15. CASE Reread(j)
  BY <1>15 DEF Reread
<1>16. CASE Respond(j)
  BY <1>16 DEF Respond
<1>17. CASE CleanupCallbackThreads(j)
  BY <1>17 DEF CleanupCallbackThreads
<1>18. CASE LockInputFails(j)
  BY <1>18 DEF LockInputFails
<1>19. CASE AcceptFails(j)
  BY <1>19 DEF AcceptFails
<1>20. CASE ReadFails(j)
  BY <1>20 DEF ReadFails
<1>21. CASE ScriptEnds(j)
  BY <1>21 DEF ScriptEnds
<1>22. CASE Finalize(j)
  BY <1>22 DEF Finalize
<1>23. CASE Connect(j)
  <2>1. ASSUME NEW m \in Jobs, Answers(m, target[j]), peer' = [peer EXCEPT ![j] = m],
               socket' = [socket EXCEPT ![m] = "connected"]
        PROVE  \/ socket'[k] = socket[k]
               \/ socket[k] = "listening" /\ socket'[k] = "connected" /\ peer'[j] = k
    <3>1. CASE k = m
      BY <2>1, <3>1 DEF Answers
    <3>2. CASE k # m
      BY <2>1, <3>2
    <3>q. QED BY <3>1, <3>2
  <2>2. CASE UNCHANGED socket
    BY <2>2
  <2>q. QED BY <1>23, <2>1, <2>2 DEF Connect
<1>24. CASE Say(j)
  BY <1>24 DEF Say
<1>25. CASE Dies(j)
  BY <1>25 DEF Dies
<1>q. QED BY <1>1, <1>2, <1>3, <1>4, <1>5, <1>6, <1>7, <1>8, <1>9, <1>10, <1>11, <1>12, <1>13,
             <1>14, <1>15, <1>16, <1>17, <1>18, <1>19, <1>20, <1>21, <1>22, <1>23, <1>24, <1>25
             DEF Step, Process, WaitFails, Environment

LEMMA HoldsStep ==
  ASSUME LockTypes, LockTypes', NEW j \in Jobs, HoldsInv(j), Step(j)
  PROVE  HoldsInv(j)'
<1>0. socket[j] = "closed" => socket'[j] = "closed" \/ pc[j] = "bind"
  BY SocketsKept
<1> USE DEF LockTypes, HoldsInv, Reading,
        Goto, Fails, ReturnsUnlocked, Fault, RemoveReadLocks, TurnsInto, Closes,
        sockOthers, lockVars, endVars, faultVars, others
<1>1. CASE Start(j)
  BY <1>1 DEF Start
<1>2. CASE Inputs(j)
  BY <1>2 DEF Inputs
<1>3. CASE CheckInput(j)
  BY <1>3 DEF CheckInput
<1>4. CASE LockInput(j)
  BY <1>4 DEF LockInput
<1>5. CASE CopyInput(j)
  BY <1>5 DEF CopyInput
<1>6. CASE Uploaded(j)
  BY <1>6 DEF Uploaded
<1>7. CASE CopyScript(j)
  BY <1>7 DEF CopyScript
<1>8. CASE AddReadLocks(j)
  BY <1>8 DEF AddReadLocks
<1>9. CASE Submit(j)
  BY <1>9 DEF Submit
<1>10. CASE ChoosePort(j)
  BY <1>10 DEF ChoosePort
<1>11. CASE Listen(j)
  BY <1>11 DEF Listen
<1>12. CASE Accept(j)
  BY <1>12 DEF Accept
<1>13. CASE UnlockInputs(j)
  BY <1>13 DEF UnlockInputs
<1>14. CASE FetchOutputs(j)
  BY <1>14 DEF FetchOutputs
<1>15. CASE Reread(j)
  BY <1>15 DEF Reread
<1>16. CASE Respond(j)
  BY <1>16 DEF Respond
<1>17. CASE CleanupCallbackThreads(j)
  BY <1>17 DEF CleanupCallbackThreads
<1>18. CASE LockInputFails(j)
  BY <1>18 DEF LockInputFails
<1>19. CASE AcceptFails(j)
  BY <1>19 DEF AcceptFails
<1>20. CASE ReadFails(j)
  BY <1>20 DEF ReadFails
<1>21. CASE ScriptEnds(j)
  BY <1>21 DEF ScriptEnds
<1>22. CASE Finalize(j)
  BY <1>22 DEF Finalize
<1>23. CASE Connect(j)
  BY <1>23, <1>0 DEF Connect
<1>24. CASE Say(j)
  BY <1>24 DEF Say
<1>25. CASE Dies(j)
  BY <1>25 DEF Dies
<1>q. QED BY <1>1, <1>2, <1>3, <1>4, <1>5, <1>6, <1>7, <1>8, <1>9, <1>10, <1>11, <1>12, <1>13,
             <1>14, <1>15, <1>16, <1>17, <1>18, <1>19, <1>20, <1>21, <1>22, <1>23, <1>24, <1>25
             DEF Step, Process, WaitFails, Environment

LEMMA ExclusiveStep ==
  ASSUME LockTypes, LockTypes', Exclusive, NEW j \in Jobs, Step(j)
  PROVE  Exclusive'
<1>1. \/ locked' = locked
      \/ locked'[j] = "none"
      \/ locked'[j] = "w" /\ Free(j, "w")
      \/ locked'[j] = "r" /\ Free(j, "r")
  <2> USE DEF LockTypes, Goto, Fails, ReturnsUnlocked, Fault, RemoveReadLocks, TurnsInto, Closes,
          sockOthers, lockVars, endVars, faultVars, others
  <2>1. CASE Start(j)
    BY <2>1 DEF Start
  <2>2. CASE Inputs(j)
    BY <2>2 DEF Inputs
  <2>3. CASE CheckInput(j)
    BY <2>3 DEF CheckInput
  <2>4. CASE LockInput(j)
    BY <2>4 DEF LockInput
  <2>5. CASE CopyInput(j)
    BY <2>5 DEF CopyInput
  <2>6. CASE Uploaded(j)
    BY <2>6 DEF Uploaded
  <2>7. CASE CopyScript(j)
    BY <2>7 DEF CopyScript
  <2>8. CASE AddReadLocks(j)
    BY <2>8 DEF AddReadLocks
  <2>9. CASE Submit(j)
    BY <2>9 DEF Submit
  <2>10. CASE ChoosePort(j)
    BY <2>10 DEF ChoosePort
  <2>11. CASE Listen(j)
    BY <2>11 DEF Listen
  <2>12. CASE Accept(j)
    BY <2>12 DEF Accept
  <2>13. CASE UnlockInputs(j)
    BY <2>13 DEF UnlockInputs
  <2>14. CASE FetchOutputs(j)
    BY <2>14 DEF FetchOutputs
  <2>15. CASE Reread(j)
    BY <2>15 DEF Reread
  <2>16. CASE Respond(j)
    BY <2>16 DEF Respond
  <2>17. CASE CleanupCallbackThreads(j)
    BY <2>17 DEF CleanupCallbackThreads
  <2>18. CASE LockInputFails(j)
    BY <2>18 DEF LockInputFails
  <2>19. CASE AcceptFails(j)
    BY <2>19 DEF AcceptFails
  <2>20. CASE ReadFails(j)
    BY <2>20 DEF ReadFails
  <2>21. CASE ScriptEnds(j)
    BY <2>21 DEF ScriptEnds
  <2>22. CASE Finalize(j)
    BY <2>22 DEF Finalize
  <2>23. CASE Connect(j)
    BY <2>23 DEF Connect
  <2>24. CASE Say(j)
    BY <2>24 DEF Say
  <2>25. CASE Dies(j)
    BY <2>25 DEF Dies
  <2>q. QED BY <2>1, <2>2, <2>3, <2>4, <2>5, <2>6, <2>7, <2>8, <2>9, <2>10, <2>11, <2>12, <2>13,
               <2>14, <2>15, <2>16, <2>17, <2>18, <2>19, <2>20, <2>21, <2>22, <2>23, <2>24,
               <2>25 DEF Step, Process, WaitFails, Environment
<1>2. \A k \in Jobs : k # j => locked'[k] = locked[k]
  BY OthersKept
<1>q. QED BY <1>1, <1>2 DEF Exclusive, Free, LockTypes

(* FinalizeHPC1 keeps the connection it made.                              *)
LEMMA PeersKept ==
  ASSUME LockTypes, NEW j \in Jobs, OwnInv(j), Step(j), NEW k \in Jobs, NEW l \in Jobs,
         peer[k] = l
  PROVE  peer'[k] = l
<1> USE NameAssumption DEF LockTypes, OwnInv,
        Goto, Fails, ReturnsUnlocked, Fault, RemoveReadLocks, TurnsInto, Closes,
        sockOthers, lockVars, endVars, faultVars, others
<1>1. CASE Start(j)
  BY <1>1 DEF Start
<1>2. CASE Inputs(j)
  BY <1>2 DEF Inputs
<1>3. CASE CheckInput(j)
  BY <1>3 DEF CheckInput
<1>4. CASE LockInput(j)
  BY <1>4 DEF LockInput
<1>5. CASE CopyInput(j)
  BY <1>5 DEF CopyInput
<1>6. CASE Uploaded(j)
  BY <1>6 DEF Uploaded
<1>7. CASE CopyScript(j)
  BY <1>7 DEF CopyScript
<1>8. CASE AddReadLocks(j)
  BY <1>8 DEF AddReadLocks
<1>9. CASE Submit(j)
  BY <1>9 DEF Submit
<1>10. CASE ChoosePort(j)
  BY <1>10 DEF ChoosePort
<1>11. CASE Listen(j)
  BY <1>11 DEF Listen
<1>12. CASE Accept(j)
  BY <1>12 DEF Accept
<1>13. CASE UnlockInputs(j)
  BY <1>13 DEF UnlockInputs
<1>14. CASE FetchOutputs(j)
  BY <1>14 DEF FetchOutputs
<1>15. CASE Reread(j)
  BY <1>15 DEF Reread
<1>16. CASE Respond(j)
  BY <1>16 DEF Respond
<1>17. CASE CleanupCallbackThreads(j)
  BY <1>17 DEF CleanupCallbackThreads
<1>18. CASE LockInputFails(j)
  BY <1>18 DEF LockInputFails
<1>19. CASE AcceptFails(j)
  BY <1>19 DEF AcceptFails
<1>20. CASE ReadFails(j)
  BY <1>20 DEF ReadFails
<1>21. CASE ScriptEnds(j)
  BY <1>21 DEF ScriptEnds
<1>22. CASE Finalize(j)
  BY <1>22 DEF Finalize
<1>23. CASE Connect(j)
  BY <1>23 DEF Connect
<1>24. CASE Say(j)
  BY <1>24 DEF Say
<1>25. CASE Dies(j)
  BY <1>25 DEF Dies
<1>q. QED BY <1>1, <1>2, <1>3, <1>4, <1>5, <1>6, <1>7, <1>8, <1>9, <1>10, <1>11, <1>12, <1>13,
             <1>14, <1>15, <1>16, <1>17, <1>18, <1>19, <1>20, <1>21, <1>22, <1>23, <1>24, <1>25
             DEF Step, Process, WaitFails, Environment

LEMMA OwnStep ==
  ASSUME ~EarlyFinalize, LockTypes, LockTypes', NEW j \in Jobs, OwnInv(j), Step(j)
  PROVE  OwnInv(j)'
<1> USE DEF LockTypes, OwnInv, Early,
        Goto, Fails, ReturnsUnlocked, Fault, RemoveReadLocks, TurnsInto, Closes,
        sockOthers, lockVars, endVars, faultVars, others
<1>1. CASE Start(j)
  BY <1>1 DEF Start
<1>2. CASE Inputs(j)
  BY <1>2 DEF Inputs
<1>3. CASE CheckInput(j)
  BY <1>3 DEF CheckInput
<1>4. CASE LockInput(j)
  BY <1>4 DEF LockInput
<1>5. CASE CopyInput(j)
  BY <1>5 DEF CopyInput
<1>6. CASE Uploaded(j)
  BY <1>6 DEF Uploaded
<1>7. CASE CopyScript(j)
  BY <1>7 DEF CopyScript
<1>8. CASE AddReadLocks(j)
  BY <1>8 DEF AddReadLocks
<1>9. CASE Submit(j)
  BY <1>9 DEF Submit
<1>10. CASE ChoosePort(j)
  BY <1>10 DEF ChoosePort
<1>11. CASE Listen(j)
  BY <1>11 DEF Listen
<1>12. CASE Accept(j)
  BY <1>12 DEF Accept
<1>13. CASE UnlockInputs(j)
  BY <1>13 DEF UnlockInputs
<1>14. CASE FetchOutputs(j)
  BY <1>14 DEF FetchOutputs
<1>15. CASE Reread(j)
  BY <1>15 DEF Reread
<1>16. CASE Respond(j)
  BY <1>16 DEF Respond
<1>17. CASE CleanupCallbackThreads(j)
  BY <1>17 DEF CleanupCallbackThreads
<1>18. CASE LockInputFails(j)
  BY <1>18 DEF LockInputFails
<1>19. CASE AcceptFails(j)
  BY <1>19 DEF AcceptFails
<1>20. CASE ReadFails(j)
  BY <1>20 DEF ReadFails
<1>21. CASE ScriptEnds(j)
  BY <1>21 DEF ScriptEnds
<1>22. CASE Finalize(j)
  BY <1>22 DEF Finalize
<1>23. CASE Connect(j)
  BY <1>23 DEF Connect
<1>24. CASE Say(j)
  BY <1>24 DEF Say
<1>25. CASE Dies(j)
  BY <1>25 DEF Dies
<1>q. QED BY <1>1, <1>2, <1>3, <1>4, <1>5, <1>6, <1>7, <1>8, <1>9, <1>10, <1>11, <1>12, <1>13,
             <1>14, <1>15, <1>16, <1>17, <1>18, <1>19, <1>20, <1>21, <1>22, <1>23, <1>24, <1>25
             DEF Step, Process, WaitFails, Environment

(* Its process leaves a script that runs on one of the four ways only.     *)
LEMMA WaitStep ==
  ASSUME LockTypes, LockTypes', NEW j \in Jobs, Step(j), script'[j] = "running"
  PROVE  \/ pc'[j] = "port"
         \/ script[j] = "running" /\ pc'[j] = pc[j]
         \/ script[j] = "running" /\ pc'[j] \in {"bind", "accept"}
         \/ script[j] = "running" /\ socket'[j] \in Heard \union {"unbound", "deaf"}
         \/ script[j] = "running" /\ pc[j] \notin {"port", "bind", "accept"}
<1> USE DEF LockTypes, Heard,
        Goto, Fails, ReturnsUnlocked, Fault, RemoveReadLocks, TurnsInto, Closes,
        sockOthers, lockVars, endVars, faultVars, others
<1>1. CASE Start(j)
  BY <1>1 DEF Start
<1>2. CASE Inputs(j)
  BY <1>2 DEF Inputs
<1>3. CASE CheckInput(j)
  BY <1>3 DEF CheckInput
<1>4. CASE LockInput(j)
  BY <1>4 DEF LockInput
<1>5. CASE CopyInput(j)
  BY <1>5 DEF CopyInput
<1>6. CASE Uploaded(j)
  BY <1>6 DEF Uploaded
<1>7. CASE CopyScript(j)
  BY <1>7 DEF CopyScript
<1>8. CASE AddReadLocks(j)
  BY <1>8 DEF AddReadLocks
<1>9. CASE Submit(j)
  BY <1>9 DEF Submit
<1>10. CASE ChoosePort(j)
  BY <1>10 DEF ChoosePort
<1>11. CASE Listen(j)
  BY <1>11 DEF Listen
<1>12. CASE Accept(j)
  BY <1>12 DEF Accept
<1>13. CASE UnlockInputs(j)
  BY <1>13 DEF UnlockInputs
<1>14. CASE FetchOutputs(j)
  BY <1>14 DEF FetchOutputs
<1>15. CASE Reread(j)
  BY <1>15 DEF Reread
<1>16. CASE Respond(j)
  BY <1>16 DEF Respond
<1>17. CASE CleanupCallbackThreads(j)
  BY <1>17 DEF CleanupCallbackThreads
<1>18. CASE LockInputFails(j)
  BY <1>18 DEF LockInputFails
<1>19. CASE AcceptFails(j)
  BY <1>19 DEF AcceptFails
<1>20. CASE ReadFails(j)
  BY <1>20 DEF ReadFails
<1>21. CASE ScriptEnds(j)
  BY <1>21 DEF ScriptEnds
<1>22. CASE Finalize(j)
  BY <1>22 DEF Finalize
<1>23. CASE Connect(j)
  BY <1>23 DEF Connect
<1>24. CASE Say(j)
  BY <1>24 DEF Say
<1>25. CASE Dies(j)
  BY <1>25 DEF Dies
<1>q. QED BY <1>1, <1>2, <1>3, <1>4, <1>5, <1>6, <1>7, <1>8, <1>9, <1>10, <1>11, <1>12, <1>13,
             <1>14, <1>15, <1>16, <1>17, <1>18, <1>19, <1>20, <1>21, <1>22, <1>23, <1>24, <1>25
             DEF Step, Process, WaitFails, Environment

LEMMA ScriptStep ==
  ASSUME ~EarlyFinalize, LockTypes, LockTypes', ScriptInv, NEW j \in Jobs, Step(j)
  PROVE  ScriptInv'
<1>1. OwnInv(j) /\ OwnInv(j)'
  BY OwnStep DEF ScriptInv
<1>2. \A k \in Jobs : OwnInv(k)'
  <2>1. \A k \in Jobs \ {j} : OwnInv(k)'
    BY OthersKept DEF ScriptInv, OwnInv
  <2>q. QED BY <1>1, <2>1
<1>3. \A k, l \in Jobs : peer[k] = l => peer'[k] = l
  BY <1>1, PeersKept
<1>4. ASSUME NEW k \in Jobs PROVE HeardInv(k)'
  <2>1. CASE socket[k] \in Heard
    BY <2>1, <1>3 DEF ScriptInv, HeardInv
  <2>2. CASE socket'[k] \in Heard /\ socket[k] \notin Heard
    BY <2>2, SocketsKept DEF Heard, HeardInv
  <2>q. QED BY <2>1, <2>2 DEF HeardInv
<1>5. \A k \in Jobs : Misled(k) => Misled(k)'
  BY <1>3 DEF Misled
<1>6. ASSUME NEW k \in Jobs, script'[k] = "running", socket'[k] \in Heard PROVE Misled(k)'
  <2>1. PICK l \in Jobs : peer'[l] = k
    BY <1>4, <1>6 DEF HeardInv
  <2>2. peer'[k] = Nowhere
    BY <1>2, <1>6 DEF OwnInv
  <2>q. QED BY <2>1, <2>2, NameAssumption DEF Misled
<1>7. ASSUME NEW k \in Jobs PROVE WaitInv(k)'
  <2> SUFFICES ASSUME script'[k] = "running", socket'[k] \notin {"unbound", "deaf"}, ~Misled(k)'
               PROVE  pc'[k] \in {"port", "bind", "accept"}
    BY DEF WaitInv
  <2>1. socket'[k] \notin Heard /\ ~Misled(k)
    BY <1>5, <1>6
  <2>2. CASE k # j
    <3>1. socket[k] \notin {"unbound", "deaf"}
      BY <2>2, SocketsKept
    <3>q. QED BY <2>1, <2>2, <3>1, OthersKept DEF ScriptInv, WaitInv
  <2>3. CASE k = j
    <3>1. socket[k] \in {"unbound", "deaf"} => pc[k] = "bind" /\ pc'[k] = "accept"
      BY SocketsKept
    <3>q. QED BY <2>1, <2>3, <3>1, WaitStep DEF ScriptInv, WaitInv
  <2>q. QED BY <2>2, <2>3
<1>q. QED BY <1>2, <1>4, <1>7 DEF ScriptInv

-----------------------------------------------------------------------------
(* The calls.                                                              *)

Sorted(L, low, high) ==
  /\ L \in Seq(Good)
  /\ \A i \in 1 .. Len(L) : low <= Key(L[i]) /\ Key(L[i]) < high
  /\ \A i, k \in 1 .. Len(L) : i < k => Key(L[i]) < Key(L[k])

LEMMA Lists ==
  /\ Sorted(<<<<0, 0>>>>, 0, 3)
  /\ Sorted(<<<<0, 0>>, <<1, 0>>>>, 0, 3)
  /\ Sorted(<<<<1, 1>>, <<2, 0>>>>, 3, 5)
  /\ Sorted(<<<<1, 1>>, <<2, 0>>, Failure>>, 3, 15)
  /\ Sorted(<<<<2, 1>>, <<3, 0>>, <<3, 1>>, <<4, 0>>>>, 5, 9)
  /\ Sorted(<<<<4, 1>>>>, 9, 10)
  /\ Sorted(<<<<5, 0>>>>, 10, 11)
  /\ Sorted(<<<<5, 1>>, <<6, 0>>>>, 11, 13)
  /\ Sorted(<<Failure>>, 14, 15)
<1> USE DEF Sorted, Good, Key, Failure
<1>1. Sorted(<<<<0, 0>>>>, 0, 3)  OBVIOUS
<1>2. Sorted(<<<<0, 0>>, <<1, 0>>>>, 0, 3)  OBVIOUS
<1>3. Sorted(<<<<1, 1>>, <<2, 0>>>>, 3, 5)  OBVIOUS
<1>4. Sorted(<<<<1, 1>>, <<2, 0>>, Failure>>, 3, 15)  OBVIOUS
<1>5. Sorted(<<<<2, 1>>, <<3, 0>>, <<3, 1>>, <<4, 0>>>>, 5, 9)  OBVIOUS
<1>6. Sorted(<<<<4, 1>>>>, 9, 10)  OBVIOUS
<1>7. Sorted(<<<<5, 0>>>>, 10, 11)  OBVIOUS
<1>8. Sorted(<<<<5, 1>>, <<6, 0>>>>, 11, 13)  OBVIOUS
<1>9. Sorted(<<Failure>>, 14, 15)  OBVIOUS
<1> HIDE DEF Sorted
<1>q. QED BY <1>1, <1>2, <1>3, <1>4, <1>5, <1>6, <1>7, <1>8, <1>9

LEMMA Keys ==
  \A c \in Good : /\ c \in Calls /\ Key(c) \in Nat /\ c[1] \in 0 .. 7 /\ c[2] \in {0, 1}
                  /\ c = <<c[1], c[2]>>
                  /\ c[2] = 1 => c[1] \in 1 .. 5 /\ <<c[1], 0>> \in Good
BY DEF Good, Calls, Key

LEMMA Ends ==
  ASSUME NEW c \in Good, c[2] = 1
  PROVE  c[1] \in 1 .. 5 /\ c[1] # 7
BY DEF Good

LEMMA ThreadTypes ==
  ASSUME CallTypes
  PROVE  /\ DOMAIN calls = 1 .. Len(calls) /\ Len(calls) \in Nat
         /\ \A n \in DOMAIN calls : calls[n] \in Thread /\ calls[n].call \in Good
                                   /\ calls[n].pc \in {"wait", "post", "advance", "ended"}
<1>1. /\ DOMAIN calls = 1 .. Len(calls) /\ Len(calls) \in Nat
      /\ \A n \in DOMAIN calls : calls[n] \in Thread
  BY LenProperties, ElementOfSeq DEF CallTypes
<1>q. QED BY <1>1 DEF Thread

LEMMA Unique ==
  ASSUME CallTypes, Increasing,
         NEW m \in DOMAIN calls, NEW n \in DOMAIN calls, calls[m].call = calls[n].call
  PROVE  m = n
<1>0. m \in Nat /\ n \in Nat /\ calls[m].call \in Good /\ calls[n].call \in Good
  BY ThreadTypes
<1>1. Key(calls[m].call) \in Nat /\ Key(calls[n].call) \in Nat
  BY <1>0, Keys
<1>2. ~(m < n) /\ ~(n < m)
  BY <1>0, <1>1 DEF Increasing
<1>q. QED BY <1>0, <1>2

LEMMA InvokeOK ==
  ASSUME CallTypes, NEW L \in Seq(Good), InvokeCallbacks(L)
  PROVE  /\ CallTypes' /\ DOMAIN calls' = 1 .. Len(calls) + Len(L) /\ Len(L) \in Nat
         /\ \A n \in DOMAIN calls : n \in DOMAIN calls' /\ calls'[n] = calls[n]
         /\ \A n \in DOMAIN calls' \ DOMAIN calls :
              /\ n - Len(calls) \in 1 .. Len(L)
              /\ calls'[n].call = L[n - Len(calls)] /\ calls'[n].pc = "wait"
<1> DEFINE new == [k \in DOMAIN L |-> [call |-> L[k], pc |-> "wait"]]
<1>1. DOMAIN L = 1 .. Len(L) /\ Len(L) \in Nat
  BY LenProperties
<1>2. \A k \in 1 .. Len(L) : [call |-> L[k], pc |-> "wait"] \in Thread
  BY ElementOfSeq DEF Thread
<1>3. new \in Seq(Thread) /\ Len(new) = Len(L)
  BY <1>1, <1>2
<1>4. \A k \in 1 .. Len(L) : new[k].call = L[k] /\ new[k].pc = "wait"
  BY <1>1
<1> HIDE DEF new
<1>5. calls' = calls \o new /\ UNCHANGED <<cStep, isOngoing, steps, got>>
  BY DEF InvokeCallbacks, new
<1>6. /\ calls' \in Seq(Thread) /\ Len(calls') = Len(calls) + Len(L)
      /\ \A i \in 1 .. Len(calls) + Len(L) :
           calls'[i] = IF i <= Len(calls) THEN calls[i] ELSE new[i - Len(calls)]
  <2>1. calls \in Seq(Thread)
    BY DEF CallTypes
  <2>2. /\ calls \o new \in Seq(Thread) /\ Len(calls \o new) = Len(calls) + Len(new)
        /\ \A i \in 1 .. Len(calls) + Len(new) :
             (calls \o new)[i] = IF i <= Len(calls) THEN calls[i] ELSE new[i - Len(calls)]
    BY <2>1, <1>3, ConcatProperties
  <2>q. QED BY <2>2, <1>3, <1>5
<1>7. CallTypes'
  BY <1>5, <1>6 DEF CallTypes
<1>8. DOMAIN calls' = 1 .. Len(calls) + Len(L)
  BY <1>6, LenProperties
<1>q. QED BY <1>1, <1>4, <1>6, <1>7, <1>8, ThreadTypes

CallInv == CallTypes /\ Increasing /\ FlightInv /\ OrderInv

(* New calls, all later than the ones before.                              *)
LEMMA InvokeKeeps ==
  ASSUME CallInv, NEW L, NEW low \in Nat, NEW high \in Nat, low <= high,
         Sorted(L, low, high), Below(low), InvokeCallbacks(L)
  PROVE  CallInv' /\ Below(high)'
<1> USE DEF CallInv
<1>1. L \in Seq(Good)
  BY DEF Sorted
<1>2. /\ CallTypes' /\ DOMAIN calls' = 1 .. Len(calls) + Len(L) /\ Len(L) \in Nat
      /\ \A n \in DOMAIN calls : n \in DOMAIN calls' /\ calls'[n] = calls[n]
      /\ \A n \in DOMAIN calls' \ DOMAIN calls :
              /\ n - Len(calls) \in 1 .. Len(L)
              /\ calls'[n].call = L[n - Len(calls)] /\ calls'[n].pc = "wait"
  BY <1>1, InvokeOK
<1>3. DOMAIN calls = 1 .. Len(calls) /\ Len(calls) \in Nat /\ \A n \in DOMAIN calls : calls[n].call \in Good
  BY ThreadTypes
<1>4. \A n \in DOMAIN calls : Key(calls'[n].call) = Key(calls[n].call) /\ Key(calls[n].call) \in Nat
                             /\ Key(calls[n].call) < low
  <2> SUFFICES ASSUME NEW n \in DOMAIN calls
               PROVE  /\ Key(calls'[n].call) = Key(calls[n].call) /\ Key(calls[n].call) \in Nat
                      /\ Key(calls[n].call) < low
    OBVIOUS
  <2>1. calls'[n] = calls[n] /\ calls[n].call \in Good
    BY <1>2, <1>3
  <2>q. QED BY <2>1, Keys DEF Below
<1>5. \A n \in DOMAIN calls' \ DOMAIN calls :
        /\ Key(calls'[n].call) = Key(L[n - Len(calls)]) /\ Key(calls'[n].call) \in Nat
        /\ low <= Key(calls'[n].call) /\ Key(calls'[n].call) < high
  <2> SUFFICES ASSUME NEW n \in DOMAIN calls' \ DOMAIN calls
               PROVE  /\ Key(calls'[n].call) = Key(L[n - Len(calls)]) /\ Key(calls'[n].call) \in Nat
                      /\ low <= Key(calls'[n].call) /\ Key(calls'[n].call) < high
    OBVIOUS
  <2> DEFINE k == n - Len(calls)
  <2>1. k \in 1 .. Len(L) /\ calls'[n].call = L[k]
    BY <1>2
  <2> HIDE DEF k
  <2>2. L[k] \in Good
    BY <1>1, <2>1, ElementOfSeq
  <2>3. Key(L[k]) \in Nat /\ low <= Key(L[k]) /\ Key(L[k]) < high
    BY <2>1, <2>2, Keys DEF Sorted
  <2>q. QED BY <2>1, <2>3 DEF k
<1>6. Increasing'
  <2> SUFFICES ASSUME NEW m \in DOMAIN calls', NEW n \in DOMAIN calls', m < n
               PROVE  Key(calls'[m].call) < Key(calls'[n].call)
    BY DEF Increasing
  <2>1. CASE n \in DOMAIN calls
    <3>1. m \in DOMAIN calls
      BY <2>1, <1>2, <1>3
    <3>q. QED BY <2>1, <3>1, <1>4 DEF Increasing
  <2>2. CASE n \notin DOMAIN calls /\ m \in DOMAIN calls
    BY <2>2, <1>4, <1>5
  <2>3. CASE n \notin DOMAIN calls /\ m \notin DOMAIN calls
    <3>1. /\ m - Len(calls) \in 1 .. Len(L) /\ n - Len(calls) \in 1 .. Len(L)
          /\ m - Len(calls) < n - Len(calls)
      BY <2>3, <1>2, <1>3
    <3>2. Key(L[m - Len(calls)]) < Key(L[n - Len(calls)])
      BY <3>1 DEF Sorted
    <3>q. QED BY <2>3, <3>2, <1>5
  <2>q. QED BY <2>1, <2>2, <2>3
<1>7. Below(high)'
  BY <1>4, <1>5 DEF Below
<1>8. UNCHANGED <<cStep, isOngoing, steps, got>>
  BY DEF InvokeCallbacks
<1>9. FlightInv'
  <2>1. \A n \in DOMAIN calls' : calls'[n].pc # "wait" => n \in DOMAIN calls
    BY <1>2
  <2>q. QED BY <2>1, <1>2, <1>8 DEF FlightInv, InFlight
<1>10. OrderInv'
  BY <1>8 DEF OrderInv, StepsInOrder
<1>q. QED BY <1>2, <1>6, <1>7, <1>9, <1>10

-----------------------------------------------------------------------------
(* A thread.                                                               *)

LEMMA ThreadGoes ==
  ASSUME CallTypes, NEW n, NEW from, NEW to \in {"wait", "post", "advance", "ended"},
         ThreadGoesOn(n, from, to)
  PROVE  /\ calls' \in Seq(Thread) /\ DOMAIN calls' = DOMAIN calls
         /\ n \in DOMAIN calls /\ calls[n].pc = from
         /\ \A m \in DOMAIN calls : /\ calls'[m].call = calls[m].call
                                   /\ calls'[m].pc = IF m = n THEN to ELSE calls[m].pc
<1>1. n \in 1 .. Len(calls) /\ calls[n].pc = from
  BY ThreadTypes DEF ThreadGoesOn
<1> DEFINE new == [calls[n] EXCEPT !.pc = to]
<1>2. new \in Thread /\ new.call = calls[n].call /\ new.pc = to
  BY <1>1, ThreadTypes DEF Thread
<1> HIDE DEF new
<1>3. calls' = [calls EXCEPT ![n] = new]
  BY DEF ThreadGoesOn, new
<1>4. /\ calls' \in Seq(Thread) /\ Len(calls') = Len(calls)
      /\ \A k \in 1 .. Len(calls) : calls'[k] = IF k = n THEN new ELSE calls[k]
  BY <1>1, <1>2, <1>3, ExceptSeq DEF CallTypes
<1>5. DOMAIN calls' = DOMAIN calls
  BY <1>4, LenProperties, ThreadTypes
<1>q. QED BY <1>1, <1>2, <1>4, <1>5, ThreadTypes

LEMMA StartOK ==
  ASSUME CallInv, NEW n, StartRequest(n)
  PROVE  CallInv'
<1> USE DEF CallInv
<1>1. /\ calls' \in Seq(Thread) /\ DOMAIN calls' = DOMAIN calls
      /\ n \in DOMAIN calls /\ calls[n].pc = "wait"
      /\ \A m \in DOMAIN calls : /\ calls'[m].call = calls[m].call
                                /\ calls'[m].pc = IF m = n THEN "post" ELSE calls[m].pc
  BY ThreadGoes DEF StartRequest
<1> DEFINE c == calls[n].call
<1>2. c \in Good /\ c \in Calls /\ c[1] \in 0 .. 7 /\ c[2] \in {0, 1} /\ c = <<c[1], c[2]>>
  BY <1>1, ThreadTypes, Keys
<1>3. /\ c[1] # 7 => cStep = c[1]
      /\ c[2] = 1 => <<c[1], 0>> \in steps
      /\ got' = Append(got, c) /\ isOngoing' = 1 /\ UNCHANGED <<cStep, steps>>
  <2>1. ItsTurn(c[1], c[2]) \/ c[1] = 7
    BY DEF StartRequest
  <2>2. c[2] = 1 => c[1] # 7
    <3> HIDE DEF c
    <3>q. QED BY <1>2, Ends
  <2>q. QED BY <2>1, <2>2, <1>2 DEF StartRequest, ItsTurn
<1>4. /\ got' \in Seq(Calls) /\ DOMAIN got = 1 .. Len(got) /\ Len(got) \in Nat
      /\ DOMAIN got' = 1 .. Len(got) + 1
      /\ \A k \in 1 .. Len(got) : got'[k] = got[k]
      /\ got'[Len(got) + 1] = c
  <2> HIDE DEF c
  <2>1. got \in Seq(Calls)
    BY DEF CallTypes
  <2>q. QED BY <2>1, <1>2, <1>3, AppendProperties, LenProperties
<1> HIDE DEF c
<1>5. CallTypes'
  BY <1>1, <1>3, <1>4 DEF CallTypes
<1>6. Increasing'
  BY <1>1 DEF Increasing
<1>7. FlightInv'
  <2>1. \A d \in steps' : \E m \in DOMAIN calls' : calls'[m].call = d /\ calls'[m].pc = "ended"
    BY <1>1, <1>3 DEF FlightInv
  <2>2. \A k \in DOMAIN got' : \E m \in DOMAIN calls' : calls'[m].call = got'[k] /\ calls'[m].pc # "wait"
    <3> SUFFICES ASSUME NEW k \in DOMAIN got'
                 PROVE  \E m \in DOMAIN calls' : calls'[m].call = got'[k] /\ calls'[m].pc # "wait"
      OBVIOUS
    <3>1. CASE k \in DOMAIN got
      <4>1. PICK m \in DOMAIN calls : calls[m].call = got[k] /\ calls[m].pc # "wait"
        BY <3>1 DEF FlightInv
      <4>q. QED BY <4>1, <3>1, <1>1, <1>4
    <3>2. CASE k = Len(got) + 1
      <4>1. calls'[n].call = got'[k] /\ calls'[n].pc = "post"
        BY <3>2, <1>1, <1>4 DEF c
      <4>q. QED BY <4>1, <1>1
    <3>q. QED BY <3>1, <3>2, <1>4
  <2>3. \A m \in DOMAIN calls' : InFlight(m)' /\ calls'[m].call[1] # 7 =>
          cStep' = calls'[m].call[1] \/ (cStep' = 8 /\ calls'[m].call[2] = 0)
    BY <1>1, <1>3 DEF FlightInv, InFlight, c
  <2>4. \A m \in DOMAIN calls' : calls'[m].pc # "wait" /\ calls'[m].call[2] = 1 =>
          <<calls'[m].call[1], 0>> \in steps'
    BY <1>1, <1>3 DEF FlightInv, c
  <2>q. QED BY <2>1, <2>2, <2>3, <2>4 DEF FlightInv
<1>8. \A k \in DOMAIN got' : got'[k][1] # 7 => got'[k][1] <= cStep'
  BY <1>2, <1>3, <1>4 DEF OrderInv
<1>9. ASSUME NEW k \in DOMAIN got, got[k][1] # 7, c[1] # 7
      PROVE  2 * got[k][1] + got[k][2] <= 2 * c[1] + c[2]
  <2>1. PICK m \in DOMAIN calls : calls[m].call = got[k] /\ calls[m].pc # "wait"
    BY DEF FlightInv
  <2>2. got[k][1] \in 0 .. 7 /\ got[k][2] \in {0, 1} /\ got[k][1] <= c[1]
    BY <2>1, <1>3, <1>9, ThreadTypes, Keys DEF OrderInv
  <2>3. CASE got[k][1] < c[1]
    BY <2>2, <2>3, <1>2
  <2>4. CASE got[k][1] = c[1] /\ got[k][2] = 1 /\ c[2] = 0
    <3>1. <<c[1], 0>> \in steps /\ c = <<c[1], 0>>
      BY <2>1, <2>4, <1>2 DEF FlightInv
    <3>2. PICK l \in DOMAIN calls : calls[l].call = c /\ calls[l].pc = "ended"
      BY <3>1 DEF FlightInv
    <3>3. l = n
      BY <3>2, <1>1, Unique DEF c
    <3>q. QED BY <3>2, <3>3, <1>1
  <2>5. CASE got[k][1] = c[1] /\ (got[k][2] = 0 \/ c[2] = 1)
    BY <2>2, <2>5, <1>2
  <2>q. QED BY <2>2, <2>3, <2>4, <2>5, <1>2
<1>10. StepsInOrder'
  <2> SUFFICES ASSUME NEW k \in DOMAIN got', NEW l \in DOMAIN got',
                      k < l, got'[k][1] # 7, got'[l][1] # 7
               PROVE  2 * got'[k][1] + got'[k][2] <= 2 * got'[l][1] + got'[l][2]
    BY DEF StepsInOrder
  <2>1. k \in DOMAIN got /\ got'[k] = got[k]
    BY <1>4
  <2>2. CASE l = Len(got) + 1
    BY <2>1, <2>2, <1>4, <1>9
  <2>3. CASE l \in DOMAIN got
    BY <2>1, <2>3, <1>4 DEF OrderInv, StepsInOrder
  <2>q. QED BY <2>2, <2>3, <1>4
<1>q. QED BY <1>5, <1>6, <1>7, <1>8, <1>10 DEF OrderInv

LEMMA EndOK ==
  ASSUME CallInv, NEW n, EndRequest(n)
  PROVE  CallInv'
<1> USE DEF CallInv
<1>1. /\ calls' \in Seq(Thread) /\ DOMAIN calls' = DOMAIN calls
      /\ n \in DOMAIN calls /\ calls[n].pc = "post"
      /\ \A m \in DOMAIN calls : /\ calls'[m].call = calls[m].call
                                /\ calls'[m].pc = IF m = n THEN "advance" ELSE calls[m].pc
  BY ThreadGoes DEF EndRequest
<1>2. isOngoing' = 0 /\ UNCHANGED <<cStep, steps, got>>
  BY DEF EndRequest
<1>3. CallTypes' /\ Increasing' /\ OrderInv'
  BY <1>1, <1>2 DEF CallTypes, Increasing, OrderInv, StepsInOrder
<1>4. FlightInv'
  BY <1>1, <1>2 DEF FlightInv, InFlight
<1>q. QED BY <1>3, <1>4

LEMMA AdvanceOK ==
  ASSUME CallInv, NEW n, Advance(n)
  PROVE  CallInv'
<1> USE DEF CallInv
<1>1. /\ calls' \in Seq(Thread) /\ DOMAIN calls' = DOMAIN calls
      /\ n \in DOMAIN calls /\ calls[n].pc = "advance"
      /\ \A m \in DOMAIN calls : /\ calls'[m].call = calls[m].call
                                /\ calls'[m].pc = IF m = n THEN "ended" ELSE calls[m].pc
  BY ThreadGoes DEF Advance
<1> DEFINE c == calls[n].call
<1>2. c \in Good /\ c \in Calls /\ c[1] \in 0 .. 7 /\ c[2] \in {0, 1} /\ c = <<c[1], c[2]>>
  BY <1>1, ThreadTypes, Keys
<1>3. /\ cStep' = IF cStep \in {0, 6} \/ c[2] = 1 THEN c[1] + 1 ELSE cStep
      /\ steps \subseteq steps' /\ steps' \subseteq steps \union {c}
      /\ UNCHANGED <<isOngoing, got>>
  BY DEF Advance
<1>4. c[1] # 7 => cStep = c[1] \/ (cStep = 8 /\ c[2] = 0)
  BY <1>1 DEF FlightInv, InFlight
<1>5. c[2] = 1 => c[1] \in 1 .. 5 /\ <<c[1], 0>> \in steps
  BY <1>1, <1>2, Keys DEF FlightInv
<1> HIDE DEF c
<1>6. cStep \in 0 .. 8
  BY DEF CallTypes
<1>7. cStep' \in 0 .. 8 /\ cStep <= cStep'
  BY <1>2, <1>3, <1>4, <1>5, <1>6
<1>8. CallTypes'
  BY <1>1, <1>2, <1>3, <1>7 DEF CallTypes
<1>9. Increasing'
  BY <1>1 DEF Increasing
<1>10. OrderInv'
  <2>1. \A k \in DOMAIN got : got[k] \in Calls
    BY LenProperties, ElementOfSeq DEF CallTypes
  <2>2. \A k \in DOMAIN got : got[k][1] \in Int
    BY <2>1 DEF Calls
  <2>q. QED BY <2>2, <1>3, <1>6, <1>7 DEF OrderInv, StepsInOrder
<1>11. ASSUME NEW m \in DOMAIN calls, m # n, InFlight(m), calls[m].call[1] # 7
       PROVE  cStep' = calls[m].call[1] \/ (cStep' = 8 /\ calls[m].call[2] = 0)
  <2> DEFINE d == calls[m].call
  <2>1. /\ d \in Good /\ d[1] \in 0 .. 6 /\ d[2] \in {0, 1} /\ d = <<d[1], d[2]>>
        /\ d[2] = 1 => d[1] \in 1 .. 5
    <3>1. d \in Good /\ d[1] # 7
      BY <1>11, ThreadTypes
    <3> HIDE DEF d
    <3>2. d[1] \in 0 .. 7 /\ d[2] \in {0, 1} /\ d = <<d[1], d[2]>>
      BY <3>1, Keys
    <3>3. d[2] = 1 => d[1] \in 1 .. 5
      BY <3>1, Ends
    <3>q. QED BY <3>1, <3>2, <3>3
  <2>2. cStep = d[1] \/ (cStep = 8 /\ d[2] = 0)
    BY <1>11 DEF FlightInv
  <2>3. d[2] = 1 => <<d[1], 0>> \in steps
    BY <1>11 DEF FlightInv, InFlight
  <2>4. d # c
    BY <1>1, <1>11, Unique DEF c
  <2>5. <<d[1], 0>> \in steps => d[2] = 1
    <3> SUFFICES ASSUME <<d[1], 0>> \in steps, d[2] = 0 PROVE FALSE
      BY <2>1
    <3>0. d \in steps
      <4> HIDE DEF d
      <4>q. QED BY <2>1
    <3>1. PICK l \in DOMAIN calls : calls[l].call = d /\ calls[l].pc = "ended"
      BY <3>0 DEF FlightInv
    <3>2. l = m
      BY <3>1, <1>11, Unique
    <3>q. QED BY <3>1, <3>2, <1>11 DEF InFlight
  <2>6. <<c[1], 0>> \in steps => c[2] = 1
    <3> SUFFICES ASSUME <<c[1], 0>> \in steps, c[2] = 0 PROVE FALSE
      BY <1>2
    <3>0. c \in steps
      <4> HIDE DEF c
      <4>q. QED BY <1>2
    <3>1. PICK l \in DOMAIN calls : calls[l].call = c /\ calls[l].pc = "ended"
      BY <3>0 DEF FlightInv
    <3>2. l = n
      BY <3>1, <1>1, Unique DEF c
    <3>q. QED BY <3>1, <3>2, <1>1
  <2> HIDE DEF d
  <2>7. d[1] = c[1] => FALSE
    BY <2>1, <2>3, <2>4, <2>5, <2>6, <1>2, <1>5
  <2>8. CASE cStep = 8
    <3>1. cStep' = 8
      BY <2>8, <1>2, <1>3, <1>4, <1>5
    <3>q. QED BY <3>1, <2>1, <2>2, <2>8 DEF d
  <2>9. CASE cStep = d[1]
    <3>1. c[1] = 7
      BY <2>1, <2>7, <2>9, <1>4
    <3>2. cStep' = IF cStep \in {0, 6} THEN 8 ELSE cStep
      BY <3>1, <1>3, <1>5, <1>2
    <3>q. QED BY <3>2, <2>1, <2>9 DEF d
  <2>q. QED BY <2>2, <2>8, <2>9
<1>12. FlightInv'
  <2>1. \A d \in steps' : \E m \in DOMAIN calls' : calls'[m].call = d /\ calls'[m].pc = "ended"
    BY <1>1, <1>3 DEF FlightInv, c
  <2>2. \A k \in DOMAIN got' : \E m \in DOMAIN calls' : calls'[m].call = got'[k] /\ calls'[m].pc # "wait"
    BY <1>1, <1>3 DEF FlightInv
  <2>3. \A m \in DOMAIN calls' : InFlight(m)' /\ calls'[m].call[1] # 7 =>
          cStep' = calls'[m].call[1] \/ (cStep' = 8 /\ calls'[m].call[2] = 0)
    BY <1>1, <1>11 DEF InFlight
  <2>4. \A m \in DOMAIN calls' : calls'[m].pc # "wait" /\ calls'[m].call[2] = 1 =>
          <<calls'[m].call[1], 0>> \in steps'
    BY <1>1, <1>3 DEF FlightInv
  <2>q. QED BY <2>1, <2>2, <2>3, <2>4 DEF FlightInv
<1>q. QED BY <1>8, <1>9, <1>10, <1>12

LEMMA ThreadStepOK ==
  ASSUME CallInv, ThreadStep
  PROVE  CallInv' /\ DOMAIN calls' = DOMAIN calls
         /\ \A n \in DOMAIN calls : calls'[n].call = calls[n].call
<1> USE DEF CallInv
<1>1. PICK n \in DOMAIN calls : StartRequest(n) \/ EndRequest(n) \/ Advance(n)
  BY DEF ThreadStep
<1>2. CallInv'
  BY <1>1, StartOK, EndOK, AdvanceOK
<1>3. PICK from, to \in {"wait", "post", "advance", "ended"} : ThreadGoesOn(n, from, to)
  BY <1>1 DEF StartRequest, EndRequest, Advance
<1>q. QED BY <1>2, <1>3, ThreadGoes

-----------------------------------------------------------------------------
(* The announcements of a process.                                         *)

LEMMA BelowMore ==
  ASSUME CallTypes, NEW low \in Nat, NEW high \in Nat, low <= high, Below(low)
  PROVE  Below(high)
<1>1. \A n \in DOMAIN calls : calls[n].call \in Good
  BY ThreadTypes
<1>2. \A n \in DOMAIN calls : Key(calls[n].call) \in Nat
  BY <1>1, Keys
<1>3. ASSUME NEW n \in DOMAIN calls PROVE Key(calls[n].call) < high
  <2>1. Key(calls[n].call) < low /\ Key(calls[n].call) \in Nat
    BY <1>2 DEF Below
  <2>q. QED BY <2>1
<1>q. QED BY <1>3 DEF Below

(* A process that announces something, or nothing, with a callback or not. *)
LEMMA AnnounceOK ==
  ASSUME CallInv, NEW L, NEW low \in Nat, NEW high \in Nat, low <= high, Sorted(L, low, high),
         url => Below(low), Announce(L)
  PROVE  CallInv' /\ (url => Below(high)') /\ (~url => calls' = calls)
<1>1. CASE url
  BY <1>1, InvokeKeeps DEF Announce
<1>2. CASE ~url
  BY <1>2 DEF Announce, stepVars, CallInv, CallTypes, Increasing, FlightInv, InFlight, OrderInv,
       StepsInOrder
<1>q. QED BY <1>1, <1>2

LEMMA Quiet ==
  ASSUME CallInv, UNCHANGED stepVars
  PROVE  /\ CallInv' /\ calls' = calls
         /\ \A low \in Nat : Below(low) => Below(low)'
BY DEF stepVars, CallInv, CallTypes, Increasing, FlightInv, InFlight, OrderInv, StepsInOrder, Below

LEMMA ProgressStep ==
  ASSUME CallInv, LockTypes, NEW j \in Jobs, url => Progress(j),
         (\A k \in Jobs : pc[k] = "idle") => calls = <<>>, Step(j)
  PROVE  CallInv' /\ (url => Progress(j)') /\ (~url => calls' = calls)
<1> USE DEF LockTypes, Goto
<1>l. Below(3) \/ Below(5) \/ Below(9) \/ Below(10) \/ Below(11) => Below(14)
  BY BelowMore DEF CallInv
<1>f. ASSUME NEW from, Fails(j, from),
             from \in {"lock", "copy", "script", "accept", "fetch", "reread"}
      PROVE  CallInv' /\ (url => Progress(j)') /\ (~url => calls' = calls)
  <2>1. pc[j] = from /\ pc'[j] = "respond" /\ eres'[j] = Failed /\ Announce(<<Failure>>)
    BY <1>f DEF Fails
  <2>2. url => Below(14)
    BY <1>f, <2>1, <1>l DEF Progress
  <2>3. CallInv' /\ (~url => calls' = calls)
    BY <2>1, <2>2, Lists, AnnounceOK
  <2>q. QED BY <2>1, <2>3 DEF Progress
<1>u. ASSUME NEW from, ReturnsUnlocked(j, from), from \in {"submit", "bind", "accept"}
      PROVE  CallInv' /\ (url => Progress(j)') /\ (~url => calls' = calls)
  <2>1. pc[j] = from /\ Announce(<<Failure>>)
        /\ (pc'[j] = "crashed" \/ (pc'[j] = "respond" /\ eres'[j] = Failed))
    BY <1>u DEF ReturnsUnlocked
  <2>2. url => Below(14)
    BY <1>u, <2>1, <1>l DEF Progress
  <2>3. CallInv' /\ (~url => calls' = calls)
    BY <2>1, <2>2, Lists, AnnounceOK
  <2>q. QED BY <2>1, <2>3 DEF Progress
<1>n. ASSUME UNCHANGED stepVars, url => Progress(j)'
      PROVE  CallInv' /\ (url => Progress(j)') /\ (~url => calls' = calls)
  BY <1>n, Quiet
<1>b. ASSUME UNCHANGED stepVars
      PROVE  /\ (Below(3) => Below(3)') /\ (Below(5) => Below(5)') /\ (Below(9) => Below(9)')
             /\ (Below(10) => Below(10)') /\ (Below(11) => Below(11)')
  BY <1>b, Quiet

<1>1. CASE Start(j)
  <2>1. url => Below(0)
    <3>1. url => calls = <<>>
      BY <1>1 DEF Start
    <3>q. QED BY <3>1 DEF Below
  <2>2. pc'[j] = "inputs" /\ \E L : Sorted(L, 0, 3) /\ Announce(L)
    BY <1>1, Lists DEF Start
  <2>3. CallInv' /\ (url => Below(3)') /\ (~url => calls' = calls)
    BY <2>1, <2>2, AnnounceOK
  <2>q. QED BY <2>2, <2>3 DEF Progress
<1>2. CASE Inputs(j)
  <2>1. url => Below(3)
    BY <1>2 DEF Inputs, Progress
  <2>2. CASE Goto(j, "inputs", "check") /\ Announce(<<<<1, 1>>, <<2, 0>>>>)
    <3>1. CallInv' /\ (url => Below(5)') /\ (~url => calls' = calls)
      BY <2>1, <2>2, Lists, AnnounceOK
    <3>q. QED BY <2>2, <3>1 DEF Progress
  <2>3. CASE /\ Goto(j, "inputs", "respond") /\ eres' = [eres EXCEPT ![j] = Failed]
             /\ Announce(<<<<1, 1>>, <<2, 0>>, Failure>>)
    <3>1. CallInv' /\ (~url => calls' = calls)
      BY <2>1, <2>3, Lists, AnnounceOK
    <3>q. QED BY <2>3, <3>1 DEF Progress
  <2>q. QED BY <1>2, <2>2, <2>3 DEF Inputs
<1>3. CASE CheckInput(j)
  BY <1>3, <1>n, <1>b DEF CheckInput, Progress
<1>4. CASE LockInput(j)
  BY <1>4, <1>n, <1>b DEF LockInput, Progress
<1>5. CASE CopyInput(j)
  <2>1. CASE Goto(j, "copy", "uploaded") /\ UNCHANGED <<stepVars, eres>>
    BY <2>1, <1>n, <1>b DEF Progress
  <2>q. QED BY <1>5, <2>1, <1>f DEF CopyInput
<1>6. CASE Uploaded(j)
  <2>1. url => Below(5)
    BY <1>6 DEF Uploaded, Progress
  <2>2. CallInv' /\ (url => Below(9)') /\ (~url => calls' = calls)
    BY <1>6, <2>1, Lists, AnnounceOK DEF Uploaded
  <2>q. QED BY <1>6, <2>2 DEF Uploaded, Progress
<1>7. CASE CopyScript(j)
  <2>1. CASE Goto(j, "script", "submitLock") /\ UNCHANGED <<stepVars, eres>>
    BY <2>1, <1>n, <1>b DEF Progress
  <2>q. QED BY <1>7, <2>1, <1>f DEF CopyScript
<1>8. CASE AddReadLocks(j)
  BY <1>8, <1>n, <1>b DEF AddReadLocks, Progress
<1>9. CASE Submit(j)
  <2>1. CASE Goto(j, "submit", "port") /\ Announce(<<<<4, 1>>>>)
    <3>1. url => Below(9)
      BY <2>1 DEF Progress
    <3>2. CallInv' /\ (url => Below(10)') /\ (~url => calls' = calls)
      BY <2>1, <3>1, Lists, AnnounceOK
    <3>q. QED BY <2>1, <3>2 DEF Progress
  <2>q. QED BY <1>9, <2>1, <1>u DEF Submit
<1>10. CASE ChoosePort(j)
  BY <1>10, <1>n, <1>b DEF ChoosePort, Progress
<1>18. CASE Listen(j)
  <2>1. CASE Goto(j, "bind", "accept") /\ UNCHANGED <<stepVars, eres, locked>>
    BY <2>1, <1>n, <1>b DEF Progress
  <2>q. QED BY <1>18, <2>1, <1>u DEF Listen
<1>19. CASE AcceptFails(j) \/ ReadFails(j)
  BY <1>19, <1>u DEF AcceptFails, ReadFails
<1>11. CASE Accept(j)
  <2>1. CASE Goto(j, "accept", "unlock") /\ UNCHANGED <<stepVars, eres>>
    BY <2>1, <1>n, <1>b DEF Progress
  <2>q. QED BY <1>11, <2>1, <1>f DEF Accept
<1>12. CASE UnlockInputs(j)
  <2>1. url => Below(10)
    BY <1>12 DEF UnlockInputs, Progress
  <2>2. CASE locked[j] = "r"
    <3>1. CallInv' /\ (url => Below(11)') /\ (~url => calls' = calls)
      BY <1>12, <2>1, <2>2, Lists, AnnounceOK DEF UnlockInputs
    <3>q. QED BY <1>12, <2>2, <3>1 DEF UnlockInputs, Progress
  <2>3. CASE locked[j] # "r"
    BY <1>12, <2>3, <1>n DEF UnlockInputs, Progress
  <2>q. QED BY <2>2, <2>3
<1>13. CASE FetchOutputs(j)
  <2>1. CASE Goto(j, "fetch", "reread") /\ UNCHANGED <<stepVars, eres>>
    BY <2>1, <1>n, <1>b DEF Progress
  <2>q. QED BY <1>13, <2>1, <1>f DEF FetchOutputs
<1>20. CASE Reread(j)
  <2>1. CASE Goto(j, "reread", "respond") /\ UNCHANGED stepVars
    BY <2>1, <1>n, <1>b DEF Progress
  <2>2. CASE Goto(j, "reread", "crashed") /\ Announce(<<Failure>>)
    <3>1. url => Below(14)
      BY <2>2, <1>l DEF Progress
    <3>2. CallInv' /\ (~url => calls' = calls)
      BY <2>2, <3>1, Lists, AnnounceOK
    <3>q. QED BY <2>2, <3>2 DEF Progress
  <2>q. QED BY <1>20, <2>1, <2>2, <1>f DEF Reread
<1>14. CASE Respond(j)
  <2>1. CASE eres[j] = Succeeded
    <3>1. url => Below(11)
      BY <1>14, <2>1 DEF Respond, Progress
    <3>2. CallInv' /\ (~url => calls' = calls)
      BY <1>14, <2>1, <3>1, Lists, AnnounceOK DEF Respond
    <3>q. QED BY <1>14, <3>2 DEF Respond, Progress
  <2>2. CASE eres[j] # Succeeded
    BY <1>14, <2>2, <1>n DEF Respond, Progress
  <2>q. QED BY <2>1, <2>2
<1>15. CASE CleanupCallbackThreads(j)
  BY <1>15, <1>n DEF CleanupCallbackThreads, Progress
<1>16. CASE LockInputFails(j)
  BY <1>16, <1>f DEF LockInputFails
<1>17. CASE Environment(j) \/ Dies(j)
  <2>1. UNCHANGED <<stepVars, pc, eres>>
    BY <1>17 DEF Environment, ScriptEnds, Finalize, Connect, Say, Dies, Closes, others
  <2>q. QED BY <2>1, <1>n, <1>b DEF Progress
<1>q. QED BY <1>1, <1>2, <1>3, <1>4, <1>5, <1>6, <1>7, <1>8, <1>9, <1>10, <1>11, <1>12, <1>13, <1>14,
             <1>15, <1>16, <1>17, <1>18, <1>19, <1>20 DEF Step, Process, WaitFails

(* With a callback url at most one job is not idle: nobody else announces. *)
LEMMA AnnounceStep ==
  ASSUME CallInv, LockTypes, AnnounceInv, NEW j \in Jobs, Step(j), UNCHANGED url
  PROVE  CallInv' /\ AnnounceInv'
<1>1. CallInv' /\ (url => Progress(j)') /\ (~url => calls' = calls)
  BY ProgressStep DEF AnnounceInv
<1>2. pc'[j] # "idle" \/ (pc' = pc /\ calls' = calls)
  <2> USE DEF LockTypes, Goto, Fails, ReturnsUnlocked, others, sockOthers, build, stepVars
  <2>1. CASE Environment(j) \/ Dies(j)
    BY <2>1 DEF Environment, ScriptEnds, Finalize, Connect, Say, Dies, Closes
  <2>2. CASE Process(j) \/ WaitFails(j)
    BY <2>2 DEF Process, Start, Inputs, CheckInput, LockInput, CopyInput, Uploaded, CopyScript,
         AddReadLocks,
         Submit, ChoosePort, Listen, Accept, UnlockInputs, FetchOutputs, Reread, Respond,
         CleanupCallbackThreads, WaitFails, LockInputFails, AcceptFails, ReadFails,
         ReturnsUnlocked
  <2>q. QED BY <2>1, <2>2 DEF Step
<1>3. url /\ pc[j] = "idle" /\ pc'[j] # "idle" => \A k \in Jobs : pc[k] = "idle"
  <2> SUFFICES ASSUME url, pc[j] = "idle", pc'[j] # "idle" PROVE \A k \in Jobs : pc[k] = "idle"
    OBVIOUS
  <2>1. Start(j)
    <3>1. CASE Environment(j) \/ Dies(j)
      BY <3>1 DEF Environment, ScriptEnds, Finalize, Connect, Say, Dies, Closes, others
    <3>2. CASE Process(j) \/ WaitFails(j)
      BY <3>2 DEF Process, Inputs, CheckInput, LockInput, CopyInput, Uploaded, CopyScript,
           AddReadLocks, Goto,
           Submit, ChoosePort, Listen, Accept, UnlockInputs, FetchOutputs, Reread, Respond,
           CleanupCallbackThreads, WaitFails, LockInputFails, AcceptFails, ReadFails,
           ReturnsUnlocked, Fails
    <3>q. QED BY <3>1, <3>2 DEF Step
  <2>q. QED BY <2>1 DEF Start
<1>4. \A k \in Jobs : k # j => pc'[k] = pc[k] /\ eres'[k] = eres[k]
  BY OthersKept
<1>5. url => \A k, l \in Jobs : pc'[k] # "idle" /\ pc'[l] # "idle" => k = l
  BY <1>2, <1>3, <1>4 DEF AnnounceInv
<1>6. ~url' \/ (\A k \in Jobs : pc'[k] = "idle") => calls' = <<>>
  BY <1>1, <1>2 DEF AnnounceInv
<1>7. url => \A k \in Jobs : Progress(k)'
  <2> SUFFICES ASSUME url, NEW k \in Jobs, k # j PROVE Progress(k)'
    BY <1>1
  <2>1. CASE pc'[j] # "idle"
    <3>1. pc'[k] = "idle"
      BY <2>1, <1>5
    <3>q. QED BY <3>1 DEF Progress
  <2>2. CASE pc' = pc /\ calls' = calls
    BY <2>2, <1>4 DEF AnnounceInv, Progress, Below
  <2>q. QED BY <2>1, <2>2, <1>2
<1>q. QED BY <1>1, <1>5, <1>6, <1>7 DEF AnnounceInv

-----------------------------------------------------------------------------
(* The theorems.                                                           *)

Types == /\ LockTypes /\ url \in BOOLEAN /\ tcp \in BOOLEAN /\ remoteFile \in BOOLEAN
         /\ status \in [Jobs -> BOOLEAN] /\ faults \in 0 .. MaxFaults

IInv == Types /\ LockInv /\ CallInv /\ AnnounceInv

LEMMA InitOK == Init => IInv /\ ScriptInv
<1> SUFFICES ASSUME Init PROVE IInv /\ ScriptInv
  OBVIOUS
<1>1. Types /\ LockInv /\ ScriptInv
  BY FaultAssumption DEF Init, Types, LockTypes, LockInv, Exclusive, HoldsInv, ScriptInv, OwnInv,
     HeardInv, WaitInv, Heard, Early, Reading, Pcs, Names
<1>2. CallTypes
  BY DEF Init, InitSteps, CallTypes
<1>3. CallInv /\ AnnounceInv
  BY <1>2 DEF Init, InitSteps, CallInv, Increasing, FlightInv, OrderInv, StepsInOrder, AnnounceInv,
       Progress
<1>q. QED BY <1>1, <1>3 DEF IInv

LEMMA OtherTypes ==
  ASSUME Types, NEW j \in Jobs, Step(j)
  PROVE  UNCHANGED build /\ Types'
<1> USE DEF Types
<1>1. LockTypes'
  BY TypesStep
<1>2. UNCHANGED build /\ remoteFile' \in BOOLEAN
  <2>1. CASE Environment(j) \/ Dies(j)
    BY <2>1 DEF Environment, ScriptEnds, Finalize, Connect, Say, Dies, Closes, others, build,
         lockVars
  <2>2. CASE Process(j) \/ WaitFails(j)
    BY <2>2 DEF Process, Start, Inputs, CheckInput, LockInput, CopyInput, Uploaded, CopyScript,
         AddReadLocks,
         Submit, ChoosePort, Listen, Accept, UnlockInputs, FetchOutputs, Reread, Respond,
         CleanupCallbackThreads, WaitFails, LockInputFails, AcceptFails, ReadFails,
         ReturnsUnlocked, Fails, sockOthers, build, lockVars
  <2>q. QED BY <2>1, <2>2 DEF Step
<1>3. status' \in [Jobs -> BOOLEAN]
  <2>1. CASE Environment(j) \/ Dies(j)
    BY <2>1 DEF Environment, ScriptEnds, Finalize, Connect, Say, Dies, Closes
  <2>2. CASE Process(j) \/ WaitFails(j)
    BY <2>2 DEF Process, Start, Inputs, CheckInput, LockInput, CopyInput, Uploaded, CopyScript,
         AddReadLocks,
         Submit, ChoosePort, Listen, Accept, UnlockInputs, FetchOutputs, Reread, Respond,
         CleanupCallbackThreads, WaitFails, LockInputFails, AcceptFails, ReadFails,
         ReturnsUnlocked, Fails, sockOthers, endVars
  <2>q. QED BY <2>1, <2>2 DEF Step
<1>4. faults' \in 0 .. MaxFaults
  <2>1. UNCHANGED faults \/ Fault
    <3>1. CASE Environment(j) \/ Dies(j)
      BY <3>1 DEF Environment, ScriptEnds, Finalize, Connect, Say, Dies, Closes, faultVars
    <3>2. CASE Process(j) \/ WaitFails(j)
      BY <3>2 DEF Process, Start, Inputs, CheckInput, LockInput, CopyInput, Uploaded, CopyScript,
           AddReadLocks,
           Submit, ChoosePort, Listen, Accept, UnlockInputs, FetchOutputs, Reread, Respond,
           CleanupCallbackThreads, WaitFails, LockInputFails, AcceptFails, ReadFails,
           ReturnsUnlocked, Fails, sockOthers, faultVars
    <3>q. QED BY <3>1, <3>2 DEF Step
  <2>q. QED BY <2>1, FaultAssumption DEF Fault
<1>q. QED BY <1>1, <1>2, <1>3, <1>4 DEF build

LEMMA StepOK == IInv /\ [Next]_vars => IInv'
<1> SUFFICES ASSUME IInv, [Next]_vars PROVE IInv'
  OBVIOUS
<1> USE DEF IInv
<1>1. ASSUME NEW j \in Jobs, Step(j) PROVE IInv'
  <2>1. UNCHANGED url /\ Types' /\ LockTypes' /\ LockTypes
    BY <1>1, OtherTypes DEF Types, build
  <2>2. CallInv' /\ AnnounceInv'
    BY <1>1, <2>1, AnnounceStep
  <2>3. Exclusive' /\ HoldsInv(j)'
    BY <1>1, <2>1, HoldsStep, ExclusiveStep DEF LockInv
  <2>4. \A k \in Jobs : k # j => HoldsInv(k)'
    BY <1>1, <2>1, OthersKept, SocketsKept DEF LockInv, HoldsInv
  <2>q. QED BY <2>1, <2>2, <2>3, <2>4 DEF LockInv
<1>2. CASE Threads
  <2>1. UNCHANGED <<build, pc, eres, lockVars, endVars, faultVars>> /\ ThreadStep
    BY <1>2 DEF Threads
  <2>2. CallInv' /\ DOMAIN calls' = DOMAIN calls
        /\ \A n \in DOMAIN calls : calls'[n].call = calls[n].call
    BY <2>1, ThreadStepOK
  <2>3. Types' /\ LockInv'
    BY <2>1 DEF Types, LockTypes, LockInv, Exclusive, HoldsInv, build, lockVars, endVars, faultVars
  <2>4. calls # <<>>
    BY <2>1 DEF ThreadStep
  <2>5. AnnounceInv'
    BY <2>1, <2>2, <2>4 DEF AnnounceInv, Progress, Below, build
  <2>q. QED BY <2>2, <2>3, <2>5
<1>3. CASE UNCHANGED vars
  <2>1. UNCHANGED stepVars /\ UNCHANGED <<build, pc, eres, lockVars, endVars, faultVars>>
    BY <1>3 DEF vars
  <2>2. CallInv' /\ calls' = calls
    BY <2>1, Quiet
  <2>3. Types' /\ LockInv'
    BY <2>1 DEF Types, LockTypes, LockInv, Exclusive, HoldsInv, build, lockVars, endVars, faultVars
  <2>4. AnnounceInv'
    BY <2>1, <2>2 DEF AnnounceInv, Progress, Below, build
  <2>q. QED BY <2>2, <2>3, <2>4
<1>q. QED BY <1>1, <1>2, <1>3 DEF Next, Step

LEMMA Invariance == Spec => []IInv
<1>1. Init => IInv
  BY InitOK
<1>q. QED BY <1>1, StepOK, PTL DEF Spec

(* The processes, the locks, the scripts and the threads of the callbacks  *)
(* keep their types.                                                       *)
THEOREM TypeCorrect == Spec => []TypeOK
<1>1. IInv => TypeOK
  <2> SUFFICES ASSUME IInv PROVE TypeOK
    OBVIOUS
  <2>1. CallTypes
    BY DEF IInv, CallInv
  <2>2. StepsOK
    <3>1. \A n \in DOMAIN calls : calls[n].call \in Good
                                 /\ calls[n].pc \in {"wait", "post", "advance", "ended"}
      BY <2>1, ThreadTypes
    <3>2. \A n \in DOMAIN calls : calls[n].call \in Calls
      BY <3>1, Keys
    <3>q. QED BY <2>1, <3>1, <3>2 DEF StepsOK, CallTypes
  <2>q. QED BY <2>2 DEF IInv, Types, LockTypes, TypeOK
<1>q. QED BY <1>1, Invariance, PTL

(* The callback service hears of the steps of the job in their order,      *)
(* although each call is a thread of its own: cStep is the step of the     *)
(* call that is being answered (service_callback.c:692-696,752-769).       *)
THEOREM CallsInOrder == Spec => []StepsInOrder
<1>1. IInv => StepsInOrder
  BY DEF IInv, CallInv, OrderInv
<1>q. QED BY <1>1, Invariance, PTL

(* A process that leaves zoo_hpc_support keeps no lock, whether sbatch,    *)
(* bind, listen, accept or read failed, unless its connection was closed   *)
(* before anything was read (service_internal_hpc.c:223-247).              *)
THEOREM NoLockKept == Spec => []LocksReleased
<1>1. IInv => LocksReleased
  BY DEF IInv, Types, LockTypes, LockInv, HoldsInv, Reading, LocksReleased
<1>q. QED BY <1>1, Invariance, PTL

(* No process uploads the input while a script runs on it, if FinalizeHPC1 *)
(* is invoked at the end of a script only, but for the jobs that never had *)
(* the lock, whose socket cannot bind, listen or accept, or whose process  *)
(* was told of the end of another script (runUpload, sshapi.c:729-741;     *)
(* addReadLocks, service_internal_hpc.c:785, and 855-950).                 *)
THEOREM InputNotReplaced ==
  ASSUME ~EarlyFinalize
  PROVE  Spec => []InputIsStable
<1>1. Init => ScriptInv
  BY InitOK
<1>2. IInv /\ IInv' /\ ScriptInv /\ [Next]_vars => ScriptInv'
  <2> SUFFICES ASSUME IInv, IInv', ScriptInv, [Next]_vars PROVE ScriptInv'
    OBVIOUS
  <2>1. LockTypes /\ LockTypes'
    BY DEF IInv, Types
  <2>2. ASSUME NEW j \in Jobs, Step(j) PROVE ScriptInv'
    BY <2>1, <2>2, ScriptStep
  <2>3. CASE UNCHANGED <<pc, endVars>>
    BY <2>3 DEF ScriptInv, OwnInv, HeardInv, WaitInv, Misled, endVars
  <2>q. QED BY <2>2, <2>3 DEF Next, Step, Threads, vars
<1>3. IInv /\ ScriptInv => InputIsStable
  BY DEF IInv, Types, LockTypes, LockInv, Exclusive, HoldsInv, Reading, ScriptInv, WaitInv,
     InputIsStable
<1>q. QED BY <1>1, <1>2, <1>3, Invariance, PTL DEF Spec
=============================================================================
