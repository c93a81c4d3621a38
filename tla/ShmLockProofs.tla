--------------------------- MODULE ShmLockProofs ---------------------------
(***************************************************************************)
(* Proofs about ShmLock, for every set of readers, every bound of the      *)
(* retries, and whoever may die.                                           *)
(***************************************************************************)
EXTENDS ShmLock, TLAPS

(* What a removed, or not yet initialised, semaphore is worth; ids are     *)
(* those of the registered set.                                            *)
FreshInv ==
  /\ ~(exists /\ ready) => value = 0
  /\ attached # {} => exists

(* Only its creator initialises a set, once.                               *)
CreatorInv ==
  \A p \in attached : pc[p] = "init" =>
    ~ready /\ \A q \in attached : pc[q] = "init" => q = p

(* Who got past acquireLock holds the semaphore, unless it was removed     *)
(* since.                                                                  *)
HolderInv ==
  \A p \in attached : pc[p] \in Inside /\ ctx[p] # "dump" => p \in holders

LockInv == TypeOK /\ SemaphoreConserved /\ FreshInv /\ CreatorInv /\ HolderInv

-----------------------------------------------------------------------------
(* The helpers.                                                            *)

LEMMA GotoType ==
  ASSUME TypeOK, NEW p \in Processes, NEW to \in Labels, Goto(p, to)
  PROVE  /\ pc' \in [Processes -> Labels]
         /\ ctx' \in [Processes -> Contexts]
         /\ tries' \in [Processes -> 0..MaxRetry]
         /\ polls' \in [Processes -> 0..(MaxPolls - 1)]
BY DEF TypeOK, Goto

LEMMA EnterType ==
  ASSUME TypeOK, NEW p \in Processes, NEW c \in Contexts, Enter(p, c)
  PROVE  /\ pc' \in [Processes -> Labels]
         /\ ctx' \in [Processes -> Contexts]
         /\ tries' \in [Processes -> 0..MaxRetry]
         /\ polls' \in [Processes -> 0..(MaxPolls - 1)]
BY BoundAssumption DEF TypeOK, Enter, Labels

(* What the semaphore keeps when p alone moves, stays or ends.             *)
SemInv == SemaphoreConserved /\ FreshInv

SemTypes ==
  /\ exists \in BOOLEAN /\ ready \in BOOLEAN
  /\ value \in {0, 1}
  /\ holders \subseteq Processes
  /\ attached \subseteq Processes

LEMMA UndoSem ==
  ASSUME SemTypes, SemInv, NEW p \in Processes, Undo(p)
  PROVE  SemTypes' /\ SemInv'
<1>1. CASE p \in holders
  <2>1. exists /\ ready /\ value = 0 /\ holders = {p}
    BY <1>1 DEF SemInv, SemaphoreConserved
  <2>2. holders' = {} /\ value' = 1 /\ exists' /\ ready'
    BY <2>1 DEF Undo
  <2>. QED  BY <2>1, <2>2 DEF Undo, SemTypes, SemInv, SemaphoreConserved, FreshInv
<1>2. CASE p \notin holders
  <2>1. holders' = holders /\ value' = value
    BY <1>2 DEF Undo
  <2>. QED  BY <2>1 DEF Undo, SemTypes, SemInv, SemaphoreConserved, FreshInv
<1>. QED  BY <1>1, <1>2

LEMMA SameSem ==
  ASSUME SemTypes, SemInv, UNCHANGED semVars
  PROVE  SemTypes' /\ SemInv'
BY DEF SemTypes, SemInv, SemaphoreConserved, FreshInv, semVars

-----------------------------------------------------------------------------
(* A step of p that leaves the semaphore's state to the others, and p      *)
(* outside, disturbs neither the creator nor the holder.                   *)
LEMMA Outside ==
  ASSUME TypeOK, CreatorInv, HolderInv, NEW p \in Processes,
         NEW to \in Labels \ (Inside \union {"init"}),
         pc' = [pc EXCEPT ![p] = to],
         \A q \in Processes \ {p} : ctx'[q] = ctx[q],
         attached' \subseteq attached \union {p},
         ready' = ready,
         holders \ {p} \subseteq holders'
  PROVE  CreatorInv' /\ HolderInv'
<1>1. pc'[p] = to /\ \A q \in Processes \ {p} : pc'[q] = pc[q]
  BY DEF TypeOK
<1>2. \A q \in attached' : q \in Processes /\ (q # p => q \in attached)
  BY DEF TypeOK
<1>3. CreatorInv'
  BY <1>1, <1>2 DEF CreatorInv
<1>4. HolderInv'
  BY <1>1, <1>2 DEF HolderInv
<1>. QED  BY <1>3, <1>4

(* A request that failed to get an id changes nothing but its process.     *)
LEMMA GiveUpInv ==
  ASSUME LockInv, NEW p \in Processes, GiveUp(p)
  PROVE  LockInv'
<1>. USE DEF LockInv
<1>1. SemTypes /\ SemInv
  BY DEF TypeOK, SemTypes, SemInv
<1>2. UNCHANGED semVars \/ Undo(p)
  BY DEF GiveUp
<1>3. SemTypes' /\ SemInv'
  BY <1>1, <1>2, UndoSem, SameSem
<1>4. \/ \E to \in {"run", "aborted", "unhandle", "idle"} : Goto(p, to)
      \/ Enter(p, "dump")
  BY DEF GiveUp
<1>5. /\ pc' \in [Processes -> Labels]
      /\ ctx' \in [Processes -> Contexts]
      /\ tries' \in [Processes -> 0..MaxRetry]
      /\ polls' \in [Processes -> 0..(MaxPolls - 1)]
  BY <1>4, GotoType, EnterType DEF Labels, Ended, Contexts
<1>6. TypeOK'
  <2>1. /\ progress' = progress /\ listed' = listed /\ running' = running /\ resp' = resp
        /\ got' = got
        /\ final' \in {final, "exception"}
    BY DEF GiveUp, fileVars
  <2>. QED  BY <1>3, <1>5, <2>1 DEF TypeOK, SemTypes
<1>7. CreatorInv' /\ HolderInv'
  <2>1. PICK to \in Labels \ (Inside \union {"init"}) : pc' = [pc EXCEPT ![p] = to]
    BY <1>4 DEF Goto, Enter, Labels, Ended, Inside
  <2>2. \A q \in Processes \ {p} : ctx'[q] = ctx[q]
    BY <1>4 DEF Goto, Enter, TypeOK
  <2>3. attached' \subseteq attached /\ ready' = ready /\ holders \ {p} \subseteq holders'
    BY <1>2 DEF Undo, semVars
  <2>. QED  BY <2>1, <2>2, <2>3, Outside
<1>. QED  BY <1>3, <1>6, <1>7 DEF SemInv

-----------------------------------------------------------------------------
(* getShmLockId.                                                           *)

LEMMA GotIdLabel ==
  ASSUME NEW p \in Processes, GotId(p)
  PROVE  \E to \in {"rmid", "semop"} : Goto(p, to)
BY DEF GotId

LEMMA SemGetInv ==
  ASSUME LockInv, NEW p \in Processes, SemGet(p)
  PROVE  LockInv'
<1>. USE DEF LockInv
<1>1. PICK to \in {"init", "lookup"} : Goto(p, to)
  BY DEF SemGet
<1>0. /\ pc' \in [Processes -> Labels]
      /\ ctx' \in [Processes -> Contexts]
      /\ tries' \in [Processes -> 0..MaxRetry]
      /\ polls' \in [Processes -> 0..(MaxPolls - 1)]
  BY <1>1, GotoType DEF Labels
<1>2. CASE ~exists /\ to = "init"
  <2>1. /\ holders = {} /\ holders' = {} /\ value' = 0 /\ ready' = FALSE /\ exists' = TRUE
        /\ attached' = {p} /\ UNCHANGED <<fileVars, got>>
    <3>1. pc' = [pc EXCEPT ![p] = "init"] /\ pc' \in [Processes -> Labels]
      BY <1>1, <1>2, GotoType DEF Goto, Labels
    <3>. QED  BY <1>2, <3>1 DEF SemGet, SemaphoreConserved, Goto, TypeOK
  <2>2. TypeOK'
    BY <1>0, <2>1 DEF TypeOK, fileVars
  <2>3. SemaphoreConserved' /\ FreshInv'
    BY <2>1 DEF SemaphoreConserved, FreshInv
  <2>4. CreatorInv' /\ HolderInv'
    <3>1. pc'[p] = "init"
      BY <1>1, <1>2 DEF Goto, TypeOK
    <3>. QED  BY <2>1, <3>1 DEF CreatorInv, HolderInv, Inside
  <2>. QED  BY <2>2, <2>3, <2>4
<1>3. CASE exists /\ to = "lookup"
  <2>1. UNCHANGED semVars /\ UNCHANGED <<fileVars, got>>
    BY <1>3 DEF SemGet
  <2>2. TypeOK'
    BY <1>0, <2>1 DEF TypeOK, fileVars, semVars
  <2>3. SemaphoreConserved' /\ FreshInv'
    BY <2>1 DEF SemaphoreConserved, FreshInv, semVars
  <2>4. CreatorInv' /\ HolderInv'
    BY <1>1, <1>3, <2>1, Outside DEF Goto, semVars, Labels, Inside
  <2>. QED  BY <2>2, <2>3, <2>4
<1>4. (~exists /\ to = "init") \/ (exists /\ to = "lookup")
  <2>1. pc'[p] = to
    BY <1>1 DEF Goto, TypeOK
  <2>. QED  BY <2>1 DEF SemGet, Goto, TypeOK
<1>. QED  BY <1>2, <1>3, <1>4

LEMMA InitSemInv ==
  ASSUME LockInv, NEW p \in Processes, InitSem(p)
  PROVE  LockInv'
<1>. USE DEF LockInv
<1>1. CASE p \in attached
  <2>1. /\ ~ready /\ exists /\ value = 0 /\ holders = {}
        /\ \A q \in attached : pc[q] = "init" => q = p
    BY <1>1 DEF InitSem, CreatorInv, FreshInv, SemaphoreConserved
  <2>2. PICK to \in {"rmid", "semop"} : Goto(p, to)
    BY <1>1, GotIdLabel DEF InitSem
  <2>3. /\ value' = 1 /\ ready' = TRUE
        /\ UNCHANGED <<exists, holders, attached, fileVars, got>>
    BY <1>1, <2>1 DEF InitSem
  <2>4. TypeOK'
    <3>1. to \in Labels
      BY DEF Labels
    <3>. QED  BY <2>2, <2>3, <3>1, GotoType DEF TypeOK, fileVars
  <2>5. SemaphoreConserved' /\ FreshInv'
    BY <2>1, <2>3 DEF SemaphoreConserved, FreshInv
  <2>6. \A q \in attached : pc'[q] # "init"
    BY <2>1, <2>2 DEF Goto, TypeOK
  <2>7. \A q \in attached : pc'[q] \in Inside => pc[q] \in Inside /\ ctx'[q] = ctx[q]
    BY <2>2 DEF Goto, TypeOK, Inside
  <2>8. CreatorInv' /\ HolderInv'
    BY <2>3, <2>6, <2>7 DEF CreatorInv, HolderInv
  <2>. QED  BY <2>4, <2>5, <2>8
<1>2. CASE p \notin attached
  BY <1>2, GiveUpInv DEF InitSem
<1>. QED  BY <1>1, <1>2

LEMMA LookUpInv ==
  ASSUME LockInv, NEW p \in Processes, LookUp(p)
  PROVE  LockInv'
<1>. USE DEF LockInv
<1>1. CASE exists
  <2>1. Goto(p, "poll") /\ attached' = attached \union {p}
        /\ UNCHANGED <<exists, value, ready, holders, fileVars, got>>
    BY <1>1 DEF LookUp
  <2>2. "poll" \in Labels \ (Inside \union {"init"})
    BY DEF Labels, Inside
  <2>3. TypeOK'
    BY <2>1, <2>2, GotoType DEF TypeOK, fileVars
  <2>4. SemaphoreConserved' /\ FreshInv'
    BY <1>1, <2>1 DEF SemaphoreConserved, FreshInv
  <2>5. CreatorInv' /\ HolderInv'
    BY <2>1, <2>2, Outside DEF Goto
  <2>. QED  BY <2>3, <2>4, <2>5
<1>2. CASE ~exists
  BY <1>2, GiveUpInv DEF LookUp
<1>. QED  BY <1>1, <1>2

(* A step that touches neither the semaphore nor the files.                *)
LEMMA LocalInv ==
  ASSUME LockInv, NEW p \in Processes, NEW to \in Labels \ (Inside \union {"init"}),
         pc' = [pc EXCEPT ![p] = to],
         \A q \in Processes \ {p} : ctx'[q] = ctx[q],
         ctx' \in [Processes -> Contexts],
         tries' \in [Processes -> 0..MaxRetry],
         polls' \in [Processes -> 0..(MaxPolls - 1)],
         UNCHANGED <<semVars, fileVars, got>>
  PROVE  LockInv'
<1>. USE DEF LockInv
<1>1. TypeOK'
  BY DEF TypeOK, semVars, fileVars
<1>2. SemaphoreConserved' /\ FreshInv'
  BY DEF SemaphoreConserved, FreshInv, semVars
<1>3. CreatorInv' /\ HolderInv'
  BY Outside DEF semVars
<1>. QED  BY <1>1, <1>2, <1>3

LEMMA PollInv ==
  ASSUME LockInv, NEW p \in Processes, Poll(p)
  PROVE  LockInv'
<1>. USE DEF LockInv
<1>1. CASE GotId(p) /\ UNCHANGED <<semVars, fileVars, got>>
  <2>1. PICK to \in {"rmid", "semop"} : Goto(p, to)
    BY <1>1, GotIdLabel
  <2>2. to \in Labels \ (Inside \union {"init"})
    BY DEF Labels, Inside
  <2>. QED  BY <1>1, <2>1, <2>2, LocalInv DEF Goto, TypeOK
<1>2. CASE /\ polls[p] + 1 < MaxPolls
           /\ polls' = [polls EXCEPT ![p] = @ + 1]
           /\ UNCHANGED <<pc, ctx, tries, semVars, fileVars, got>>
  <2>1. polls' \in [Processes -> 0..(MaxPolls - 1)]
    BY <1>2, BoundAssumption DEF TypeOK
  <2>2. TypeOK'
    BY <1>2, <2>1 DEF TypeOK, semVars, fileVars
  <2>. QED  BY <1>2, <2>2 DEF SemaphoreConserved, FreshInv, CreatorInv, HolderInv, semVars
<1>3. CASE GiveUp(p)
  BY <1>3, GiveUpInv
<1>. QED  BY <1>1, <1>2, <1>3 DEF Poll

-----------------------------------------------------------------------------
(* lockShm, unlockShm, removeShmLock.                                      *)

LEMMA LockStepInv ==
  ASSUME LockInv, NEW p \in Processes, Lock(p)
  PROVE  LockInv'
<1>. USE DEF LockInv
<1>1. CASE p \in attached
  <2>1. /\ exists /\ ready /\ value = 1 /\ holders = {}
    BY <1>1 DEF Lock, Take, FreshInv, SemaphoreConserved, TypeOK
  <2>2. /\ value' = 0 /\ holders' = {p} /\ Goto(p, "inside")
        /\ UNCHANGED <<exists, ready, attached, fileVars, got>>
    BY <1>1, <2>1 DEF Lock, Take
  <2>3. TypeOK'
    <3>1. "inside" \in Labels
      BY DEF Labels, Inside
    <3>. QED  BY <2>2, <3>1, GotoType DEF TypeOK, fileVars
  <2>4. SemaphoreConserved' /\ FreshInv'
    BY <2>1, <2>2 DEF SemaphoreConserved, FreshInv
  <2>5. \A q \in Processes \ {p} : pc'[q] = pc[q] /\ ctx'[q] = ctx[q]
    BY <2>2 DEF Goto, TypeOK
  <2>6. pc'[p] = "inside"
    BY <2>2 DEF Goto, TypeOK
  <2>7. CreatorInv'
    BY <2>2, <2>5, <2>6 DEF CreatorInv, TypeOK
  <2>8. HolderInv'
    BY <2>1, <2>2, <2>5 DEF HolderInv, TypeOK
  <2>. QED  BY <2>3, <2>4, <2>7, <2>8
<1>2. CASE p \notin attached /\ ctx[p] = "dump"
  <2>1. Goto(p, "inside") /\ UNCHANGED <<semVars, fileVars, got>>
    BY <1>2 DEF Lock, Removed
  <2>2. TypeOK'
    <3>1. "inside" \in Labels
      BY DEF Labels, Inside
    <3>. QED  BY <2>1, <3>1, GotoType DEF TypeOK, semVars, fileVars
  <2>3. SemaphoreConserved' /\ FreshInv'
    BY <2>1 DEF SemaphoreConserved, FreshInv, semVars
  <2>4. \A q \in attached : pc'[q] = pc[q] /\ ctx'[q] = ctx[q]
    BY <1>2, <2>1 DEF Goto, TypeOK
  <2>5. CreatorInv' /\ HolderInv'
    BY <2>1, <2>4 DEF CreatorInv, HolderInv, semVars
  <2>. QED  BY <2>2, <2>3, <2>5
<1>3. CASE p \notin attached /\ ctx[p] # "dump" /\ tries[p] < MaxRetry
  <2>1. /\ pc' = [pc EXCEPT ![p] = "semget"]
        /\ tries' = [tries EXCEPT ![p] = @ + 1]
        /\ polls' = [polls EXCEPT ![p] = 0]
        /\ UNCHANGED <<ctx, semVars, fileVars, got>>
    BY <1>3, BoundAssumption DEF Lock, Removed, TypeOK
  <2>2. "semget" \in Labels \ (Inside \union {"init"})
    BY DEF Labels, Inside
  <2>3. /\ tries' \in [Processes -> 0..MaxRetry]
        /\ polls' \in [Processes -> 0..(MaxPolls - 1)]
    BY <1>3, <2>1, BoundAssumption DEF TypeOK
  <2>. QED  BY <2>1, <2>2, <2>3, LocalInv DEF TypeOK
<1>4. CASE p \notin attached /\ ctx[p] # "dump" /\ tries[p] >= MaxRetry
  BY <1>4, GiveUpInv, BoundAssumption DEF Lock, Removed, TypeOK
<1>5. tries[p] < MaxRetry \/ tries[p] >= MaxRetry
  BY BoundAssumption DEF TypeOK
<1>. QED  BY <1>1, <1>2, <1>3, <1>4, <1>5

LEMMA UnlockInv ==
  ASSUME LockInv, NEW p \in Processes, Unlock(p)
  PROVE  LockInv'
<1>. USE DEF LockInv
<1>1. /\ (\E to \in {"run", "idle"} : Goto(p, to)) \/ Enter(p, "dump")
      /\ final' \in {final, "document"}
      /\ ctx[p] # "dump"
  BY DEF Unlock, Unlocked
<1>2. /\ pc' \in [Processes -> Labels]
      /\ ctx' \in [Processes -> Contexts]
      /\ tries' \in [Processes -> 0..MaxRetry]
      /\ polls' \in [Processes -> 0..(MaxPolls - 1)]
  BY <1>1, GotoType, EnterType DEF Labels, Ended, Contexts
<1>3. UNCHANGED semVars \/ Undo(p)
  BY DEF Unlock
<1>4. SemTypes' /\ SemInv'
  <2>1. SemTypes /\ SemInv
    BY DEF TypeOK, SemTypes, SemInv
  <2>. QED  BY <1>3, <2>1, UndoSem, SameSem
<1>5. TypeOK'
  BY <1>1, <1>2, <1>4 DEF TypeOK, SemTypes, Unlock
<1>6. CreatorInv' /\ HolderInv'
  <2>1. PICK to \in Labels \ (Inside \union {"init"}) : pc' = [pc EXCEPT ![p] = to]
    BY <1>1 DEF Goto, Enter, Labels, Ended, Inside
  <2>2. \A q \in Processes \ {p} : ctx'[q] = ctx[q]
    BY <1>1 DEF Goto, Enter, TypeOK
  <2>3. attached' \subseteq attached /\ ready' = ready /\ holders \ {p} \subseteq holders'
    BY <1>3 DEF Undo, semVars
  <2>. QED  BY <2>1, <2>2, <2>3, Outside
<1>. QED  BY <1>4, <1>5, <1>6 DEF SemInv

LEMMA RemoveInv ==
  ASSUME LockInv, NEW p \in Processes, Remove(p)
  PROVE  LockInv'
<1>. USE DEF LockInv
<1>1. PICK to \in {"unhandle", "idle"} : Goto(p, to)
  BY DEF Remove
<1>2. to \in Labels \ (Inside \union {"init"})
  BY DEF Labels, Inside, Ended
<1>3. /\ pc' \in [Processes -> Labels]
      /\ ctx' \in [Processes -> Contexts]
      /\ tries' \in [Processes -> 0..MaxRetry]
      /\ polls' \in [Processes -> 0..(MaxPolls - 1)]
      /\ \A q \in Processes \ {p} : ctx'[q] = ctx[q]
      /\ UNCHANGED <<fileVars, got>>
  BY <1>1, <1>2, GotoType DEF Goto, Remove
<1>4. CASE p \in attached
  <2>1. exists' = FALSE /\ value' = 0 /\ ready' = FALSE /\ holders' = {} /\ attached' = {}
    BY <1>4 DEF Remove
  <2>2. TypeOK'
    BY <1>3, <2>1 DEF TypeOK, fileVars
  <2>. QED  BY <2>1, <2>2 DEF SemaphoreConserved, FreshInv, CreatorInv, HolderInv
<1>5. CASE p \notin attached
  <2>1. UNCHANGED semVars \/ Undo(p)
    BY <1>5 DEF Remove
  <2>2. SemTypes /\ SemInv
    BY DEF TypeOK, SemTypes, SemInv
  <2>3. SemTypes' /\ SemInv'
    BY <2>1, <2>2, UndoSem, SameSem
  <2>4. TypeOK'
    BY <1>3, <2>3 DEF TypeOK, SemTypes, fileVars
  <2>5. attached' \subseteq attached /\ ready' = ready /\ holders \ {p} \subseteq holders'
    BY <2>1 DEF Undo, semVars
  <2>6. CreatorInv' /\ HolderInv'
    BY <1>1, <1>2, <1>3, <2>5, Outside DEF Goto
  <2>. QED  BY <2>3, <2>4, <2>6 DEF SemInv
<1>. QED  BY <1>4, <1>5

-----------------------------------------------------------------------------
(* The worker and the readers, apart from their calls of the semaphore.    *)

(* A step that leaves the semaphore alone and does not let its process     *)
(* into the critical section.                                              *)
LEMMA FileStep ==
  ASSUME LockInv, NEW p \in Processes, NEW to \in Labels \ {"init"},
         pc' = [pc EXCEPT ![p] = to],
         to \in Inside => pc[p] \in Inside /\ ctx'[p] = ctx[p],
         \A q \in Processes \ {p} : ctx'[q] = ctx[q],
         UNCHANGED semVars
  PROVE  SemaphoreConserved' /\ FreshInv' /\ CreatorInv' /\ HolderInv'
<1>. USE DEF LockInv
<1>1. SemaphoreConserved' /\ FreshInv'
  BY DEF SemaphoreConserved, FreshInv, semVars
<1>2. \A q \in attached : (pc'[q] = "init" => pc[q] = "init")
        /\ (pc'[q] \in Inside => pc[q] \in Inside /\ ctx'[q] = ctx[q])
  BY DEF TypeOK
<1>3. CreatorInv' /\ HolderInv'
  BY <1>2 DEF CreatorInv, HolderInv, semVars
<1>. QED  BY <1>1, <1>3

LEMMA WorkerInv ==
  ASSUME LockInv, UpdateStatus \/ PrintResponse \/ DumpBackFinalFile
                  \/ (EndRequest /\ pc[Worker] = "publish")
  PROVE  LockInv'
<1>. USE DEF LockInv
<1>0. Worker \in Processes
  BY DEF Processes
<1>1. /\ UNCHANGED semVars /\ UNCHANGED got
      /\ \/ \E c \in {"update", "store", "dump", "finish"} : Enter(Worker, c)
         \/ /\ pc[Worker] \in Inside
            /\ \E to \in {"print", "unlock", "publish"} : Goto(Worker, to)
  BY DEF UpdateStatus, PrintResponse, DumpBackFinalFile, EndRequest, Inside
<1>2. /\ progress' \in {progress, "empty", "text"}
      /\ listed' \in {listed, TRUE} /\ running' \in {running, FALSE}
      /\ resp' \in {resp, "partial", "document", final}
      /\ final' \in {final, "document"}
  BY DEF UpdateStatus, PrintResponse, DumpBackFinalFile, EndRequest
<1>3. TypeOK'
  <2>1. /\ pc' \in [Processes -> Labels]
        /\ ctx' \in [Processes -> Contexts]
        /\ tries' \in [Processes -> 0..MaxRetry]
        /\ polls' \in [Processes -> 0..(MaxPolls - 1)]
    BY <1>0, <1>1, GotoType, EnterType DEF Labels, Inside, Contexts
  <2>2. /\ progress' \in Texts /\ listed' \in BOOLEAN /\ running' \in BOOLEAN
        /\ resp' \in Responses /\ final' \in {"blank", "document", "exception"}
    BY <1>2 DEF TypeOK, Texts, Responses
  <2>3. UNCHANGED <<exists, value, ready, holders, attached, got>>
    BY <1>1 DEF semVars
  <2>. QED  BY <2>1, <2>2, <2>3 DEF TypeOK
<1>4. SemaphoreConserved' /\ FreshInv' /\ CreatorInv' /\ HolderInv'
  <2>1. CASE \E c \in Contexts : Enter(Worker, c)
    <3>1. "semget" \in Labels \ {"init"} /\ "semget" \notin Inside
      BY DEF Labels, Inside
    <3>. QED  BY <1>0, <1>1, <2>1, <3>1, FileStep DEF Enter, TypeOK
  <2>2. CASE pc[Worker] \in Inside /\ \E to \in {"print", "unlock", "publish"} : Goto(Worker, to)
    <3>1. {"print", "unlock", "publish"} \subseteq Labels \ {"init"}
      BY DEF Labels, Inside
    <3>. QED  BY <1>0, <1>1, <2>2, <3>1, FileStep DEF Goto
  <2>. QED  BY <1>1, <2>1, <2>2 DEF Contexts
<1>. QED  BY <1>3, <1>4

LEMMA ReaderInv ==
  ASSUME LockInv, NEW r \in Readers,
         GetStatus(r) \/ GetResult(r) \/ ReadProgress(r) \/ ReadResponse(r)
  PROVE  LockInv'
<1>. USE DEF LockInv
<1>0. r \in Processes
  BY DEF Processes
<1>1. /\ UNCHANGED semVars /\ UNCHANGED fileVars
      /\ \/ \E c \in Contexts : Enter(r, c)
         \/ pc[r] \in Inside /\ Goto(r, "unlock")
      /\ \E v \in {"none", progress, resp} : got' = [got EXCEPT ![r] = v]
  BY DEF GetStatus, GetResult, ReadProgress, ReadResponse, Inside, Contexts
<1>2. TypeOK'
  <2>1. /\ pc' \in [Processes -> Labels]
        /\ ctx' \in [Processes -> Contexts]
        /\ tries' \in [Processes -> 0..MaxRetry]
        /\ polls' \in [Processes -> 0..(MaxPolls - 1)]
    BY <1>0, <1>1, GotoType, EnterType DEF Labels, Inside
  <2>2. got' \in [Readers -> {"unasked"} \union Texts \union Responses]
    BY <1>1 DEF TypeOK, Texts
  <2>. QED  BY <1>1, <2>1, <2>2 DEF TypeOK, semVars, fileVars
<1>3. SemaphoreConserved' /\ FreshInv' /\ CreatorInv' /\ HolderInv'
  <2>1. CASE \E c \in Contexts : Enter(r, c)
    <3>1. "semget" \in Labels \ {"init"} /\ "semget" \notin Inside
      BY DEF Labels, Inside
    <3>. QED  BY <1>0, <1>1, <2>1, <3>1, FileStep DEF Enter, TypeOK
  <2>2. CASE pc[r] \in Inside /\ Goto(r, "unlock")
    <3>1. "unlock" \in Labels \ {"init"}
      BY DEF Labels, Inside
    <3>. QED  BY <1>0, <1>1, <2>2, <3>1, FileStep DEF Goto
  <2>. QED  BY <1>1, <2>1, <2>2
<1>. QED  BY <1>2, <1>3

(* A process that ends, by itself or not, takes its adjustment back.       *)
LEMMA EndInv ==
  ASSUME LockInv, NEW p \in Processes, Die(p) \/ (p = Worker /\ EndRequest /\ pc[p] = "unhandle")
  PROVE  LockInv'
<1>. USE DEF LockInv
<1>1. /\ Undo(p)
      /\ \E to \in {"dead", "done"} : Goto(p, to)
      /\ UNCHANGED <<progress, running, resp, final, got>>
      /\ listed' \in {listed, FALSE}
  BY DEF Die, EndRequest, fileVars
<1>2. PICK to \in Labels \ (Inside \union {"init"}) : Goto(p, to)
  BY <1>1 DEF Labels, Inside, Ended
<1>3. SemTypes' /\ SemInv'
  <2>1. SemTypes /\ SemInv
    BY DEF TypeOK, SemTypes, SemInv
  <2>. QED  BY <1>1, <2>1, UndoSem
<1>4. TypeOK'
  BY <1>1, <1>2, <1>3, GotoType DEF TypeOK, SemTypes
<1>5. CreatorInv' /\ HolderInv'
  <2>1. attached' \subseteq attached /\ ready' = ready /\ holders \ {p} \subseteq holders'
    BY <1>1 DEF Undo
  <2>. QED  BY <1>2, <2>1, Outside DEF Goto
<1>. QED  BY <1>3, <1>4, <1>5 DEF SemInv

-----------------------------------------------------------------------------
(* The theorems.                                                           *)

LEMMA LockInit == Init => LockInv
<1>. SUFFICES ASSUME Init PROVE LockInv
  OBVIOUS
<1>1. TypeOK
  <2>1. 0 \in 0..MaxRetry /\ 0 \in 0..(MaxPolls - 1)
    BY BoundAssumption
  <2>2. Started \in BOOLEAN
    BY OptionAssumption
  <2>3. {"run", "idle"} \subseteq Labels /\ {"update", "read"} \subseteq Contexts
    BY DEF Labels, Ended, Contexts
  <2>4. /\ pc \in [Processes -> Labels]
        /\ ctx \in [Processes -> Contexts]
        /\ tries \in [Processes -> 0..MaxRetry]
        /\ polls \in [Processes -> 0..(MaxPolls - 1)]
    BY <2>1, <2>3 DEF Init
  <2>5. got \in [Readers -> {"unasked"} \union Texts \union Responses]
    BY DEF Init
  <2>. QED  BY <2>2, <2>4, <2>5 DEF Init, TypeOK, Texts, Responses
<1>2. SemaphoreConserved /\ FreshInv /\ CreatorInv /\ HolderInv
  BY DEF Init, SemaphoreConserved, FreshInv, CreatorInv, HolderInv
<1>. QED  BY <1>1, <1>2 DEF LockInv

LEMMA LockStep == LockInv /\ [Next]_vars => LockInv'
<1>. SUFFICES ASSUME LockInv, [Next]_vars PROVE LockInv'
  OBVIOUS
<1>1. ASSUME NEW p \in Processes, Semaphore(p) PROVE LockInv'
  BY <1>1, SemGetInv, InitSemInv, LookUpInv, PollInv, LockStepInv, UnlockInv, RemoveInv
  DEF Semaphore
<1>2. CASE WorkerNext
  <2>1. Worker \in Processes
    BY DEF Processes
  <2>. QED  BY <1>2, <2>1, WorkerInv, EndInv DEF WorkerNext, EndRequest
<1>3. ASSUME NEW r \in Readers, Serve(r) \/ GetStatus(r) \/ GetResult(r) PROVE LockInv'
  BY <1>1, <1>3, ReaderInv DEF Serve, Processes
<1>4. ASSUME NEW p \in Processes, Die(p) PROVE LockInv'
  BY <1>4, EndInv
<1>5. CASE UNCHANGED vars
  <2>1. TypeOK' /\ SemaphoreConserved' /\ FreshInv' /\ CreatorInv' /\ HolderInv'
    BY <1>5 DEF LockInv, vars, semVars, localVars, fileVars, TypeOK, SemaphoreConserved,
       FreshInv, CreatorInv, HolderInv
  <2>. QED  BY <2>1 DEF LockInv
<1>6. Worker \in Processes
  BY DEF Processes
<1>. QED  BY <1>1, <1>2, <1>3, <1>4, <1>5, <1>6 DEF Next

(* Every variable keeps to its type; the semaphore's value never exceeds   *)
(* one, whoever removes it, waits for it or dies.                          *)
THEOREM TypeCorrect == Spec => []TypeOK
<1>1. LockInv => TypeOK
  BY DEF LockInv
<1>. QED  BY <1>1, LockInit, LockStep, PTL DEF Spec

(* getShmLockId, lockShm, unlockShm and removeShmLock never lose or make   *)
(* up a unit of the registered semaphore: at most one process holds it,    *)
(* and it is free when none does.                                          *)
THEOREM Conservation == Spec => []SemaphoreConserved
<1>1. LockInv => SemaphoreConserved
  BY DEF LockInv
<1>. QED  BY <1>1, LockInit, LockStep, PTL DEF Spec

-----------------------------------------------------------------------------
(* No torn read.  Until the worker comes to remove the semaphore, whoever  *)
(* is inside, or was and is about to remove the semaphore, holds the       *)
(* registered one: nobody else removes it.                                 *)

Finishing == ctx[Worker] = "finish"

NeedsLock(p) == \/ pc[p] \in Inside /\ ctx[p] # "dump"
                \/ pc[p] \notin Ended /\ ctx[p] = "forget"

KeptInv == ~Finishing => listed /\ \A p \in Processes : NeedsLock(p) => p \in holders

WritingInv ==
  /\ progress = "empty" => pc[Worker] = "print" /\ ctx[Worker] = "update"
  /\ Finishing => pc[Worker] \notin {"run", "publish"} \union Inside \union {"semop"}
  /\ pc[Worker] = "unhandle" => Finishing

(* Who removes the semaphore on behalf of what.                            *)
RoleInv ==
  /\ \A r \in Readers : ctx[r] \in {"read", "forget", "fetch"}
  /\ \A p \in Processes : pc[p] = "rmid" => ctx[p] \in Removing

TornInv == LockInv /\ KeptInv /\ WritingInv /\ RoleInv /\ NoTornProgress

(* A step of p that keeps to the others' holds.                            *)
LEMMA KeptStep ==
  ASSUME LockInv, KeptInv, NEW p \in Processes,
         ~Finishing' => ~Finishing /\ listed',
         \A q \in Processes \ {p} : pc'[q] = pc[q] /\ ctx'[q] = ctx[q],
         ~Finishing' => holders \ {p} \subseteq holders',
         ~Finishing' /\ NeedsLock(p)' => p \in holders'
  PROVE  KeptInv'
<1>1. ASSUME NEW q \in Processes \ {p} PROVE NeedsLock(q)' = NeedsLock(q)
  BY DEF NeedsLock
<1>. QED  BY <1>1 DEF KeptInv

Steps == {"run", "publish", "inside", "print", "unlock", "semop"}

LEMMA TornBySemaphore ==
  ASSUME TornInv, NEW p \in Processes, pc[p] # "print",
         UNCHANGED <<progress, listed, got>>,
         \A q \in Processes \ {p} : pc'[q] = pc[q] /\ ctx'[q] = ctx[q],
         ~Finishing => holders \ {p} \subseteq holders',
         pc'[p] = "rmid" => ctx'[p] \in Removing,
         pc'[p] = "unhandle" => ctx'[p] = "finish",
         ctx'[p] = ctx[p] \/ (ctx[p] = "store" /\ ctx'[p] = "dump"),
         p = Worker /\ ctx[p] = "finish" => pc'[p] \notin Steps,
         ~Finishing /\ NeedsLock(p)' => p \in holders'
  PROVE  KeptInv' /\ WritingInv' /\ RoleInv' /\ NoTornProgress'
<1>. USE DEF TornInv
<1>0. Worker \in Processes
  BY DEF Processes
<1>1. Finishing' = Finishing
  BY <1>0 DEF Finishing
<1>2. KeptInv'
  <2>1. ~Finishing' => ~Finishing /\ listed'
    BY <1>1 DEF KeptInv
  <2>. QED  BY <1>1, <2>1, KeptStep
<1>3. WritingInv'
  BY <1>0, <1>1 DEF WritingInv, Finishing, Steps, Inside
<1>4. NoTornProgress'
  BY DEF NoTornProgress
<1>5. RoleInv'
  <2>1. ASSUME NEW r \in Readers PROVE ctx'[r] \in {"read", "forget", "fetch"}
    BY DEF RoleInv, Processes
  <2>2. ASSUME NEW q \in Processes, pc'[q] = "rmid" PROVE ctx'[q] \in Removing
    BY <2>2 DEF RoleInv
  <2>. QED  BY <2>1, <2>2 DEF RoleInv
<1>. QED  BY <1>2, <1>3, <1>4, <1>5

LEMMA TornGiveUp ==
  ASSUME TornInv, NEW p \in Processes, pc[p] # "print", GiveUp(p)
  PROVE  KeptInv' /\ WritingInv' /\ RoleInv' /\ NoTornProgress'
<1>1. /\ UNCHANGED <<progress, listed, got>>
      /\ holders \ {p} \subseteq holders'
  BY DEF GiveUp, Undo, semVars, fileVars
<1>2. /\ \A q \in Processes \ {p} : pc'[q] = pc[q] /\ ctx'[q] = ctx[q]
      /\ \/ /\ pc'[p] \in {"run", "aborted", "idle"} /\ ctx'[p] = ctx[p]
            /\ ctx[p] \in {"update", "dump", "read", "forget", "fetch"}
            /\ ctx[p] = "forget" => pc'[p] \in Ended
         \/ pc'[p] = "unhandle" /\ ctx'[p] = ctx[p] /\ ctx[p] = "finish"
         \/ pc'[p] = "semget" /\ ctx[p] = "store" /\ ctx'[p] = "dump"
  BY DEF GiveUp, Goto, Enter, TornInv, LockInv, TypeOK, Ended
<1>3. ~NeedsLock(p)'
  BY <1>2 DEF NeedsLock, Inside, Ended
<1>. QED  BY <1>1, <1>2, <1>3, TornBySemaphore DEF Steps

LEMMA TornSemaphore ==
  ASSUME TornInv, NEW p \in Processes, Semaphore(p)
  PROVE  KeptInv' /\ WritingInv' /\ RoleInv' /\ NoTornProgress'
<1>. USE DEF TornInv, LockInv
<1>1. CASE GiveUp(p) /\ pc[p] # "print"
  BY <1>1, TornGiveUp
<1>2. ASSUME pc[p] \in {"semget", "init", "lookup", "poll", "semop"},
             UNCHANGED <<progress, listed, got, holders>>,
             NEW to \in {"init", "lookup", "poll", "semget", "rmid", "semop"},
             pc' = [pc EXCEPT ![p] = to], UNCHANGED ctx,
             IF ctx[p] \in Removing THEN to # "semop" ELSE to # "rmid"
      PROVE  KeptInv' /\ WritingInv' /\ RoleInv' /\ NoTornProgress'
  <2>1. /\ \A q \in Processes \ {p} : pc'[q] = pc[q] /\ ctx'[q] = ctx[q]
        /\ ctx'[p] = ctx[p] /\ pc'[p] = to
    BY <1>2 DEF TypeOK
  <2>2. ~Finishing /\ NeedsLock(p)' => p \in holders'
    BY <1>2, <2>1 DEF NeedsLock, Inside, Ended, KeptInv
  <2>. QED  BY <1>2, <2>1, <2>2, TornBySemaphore DEF Steps, Removing
<1>3. CASE SemGet(p)
  BY <1>3, <1>2 DEF SemGet, Goto, semVars, fileVars
<1>4. CASE InitSem(p)
  BY <1>1, <1>2, <1>4 DEF InitSem, GotId, Goto, fileVars, Removing
<1>5. CASE LookUp(p)
  BY <1>1, <1>2, <1>5 DEF LookUp, Goto, fileVars
<1>6. CASE Poll(p)
  <2>1. CASE GotId(p) /\ UNCHANGED <<semVars, fileVars, got>>
    BY <1>2, <1>6, <2>1 DEF Poll, GotId, Goto, semVars, fileVars, Removing
  <2>2. CASE UNCHANGED <<pc, ctx, tries, semVars, fileVars, got>>
    BY <2>2 DEF KeptInv, WritingInv, RoleInv, NoTornProgress, Finishing, NeedsLock, semVars, fileVars
  <2>. QED  BY <1>1, <1>6, <2>1, <2>2 DEF Poll
<1>7. CASE Lock(p)
  <2>1. CASE p \in attached
    <3>1. /\ \A q \in Processes \ {p} : pc'[q] = pc[q] /\ ctx'[q] = ctx[q]
          /\ ctx'[p] = ctx[p] /\ pc'[p] = "inside"
          /\ holders' = holders \union {p}
          /\ UNCHANGED <<progress, listed, got>>
      BY <1>7, <2>1 DEF Lock, Take, Goto, TypeOK, fileVars
    <3>2. p = Worker => ctx[p] # "finish"
      BY <1>7 DEF Lock, WritingInv, Finishing
    <3>. QED  BY <1>7, <3>1, <3>2, TornBySemaphore DEF Lock
  <2>2. CASE p \notin attached /\ ctx[p] = "dump"
    <3>1. /\ \A q \in Processes \ {p} : pc'[q] = pc[q] /\ ctx'[q] = ctx[q]
          /\ ctx'[p] = "dump" /\ pc'[p] = "inside"
          /\ UNCHANGED <<progress, listed, got, holders>>
      BY <1>7, <2>2 DEF Lock, Removed, Goto, TypeOK, fileVars, semVars
    <3>2. ~NeedsLock(p)'
      BY <3>1 DEF NeedsLock
    <3>. QED  BY <1>7, <2>2, <3>1, <3>2, TornBySemaphore DEF Lock
  <2>3. CASE p \notin attached /\ ctx[p] # "dump"
    BY <1>1, <1>2, <1>7, <2>3 DEF Lock, Removed, semVars, fileVars
  <2>. QED  BY <2>1, <2>2, <2>3
<1>8. CASE Unlock(p)
  <2>1. /\ UNCHANGED <<progress, listed, got>>
        /\ holders \ {p} \subseteq holders'
    BY <1>8 DEF Unlock, Undo, semVars
  <2>2. /\ \A q \in Processes \ {p} : pc'[q] = pc[q] /\ ctx'[q] = ctx[q]
        /\ \/ pc'[p] = "run" /\ ctx[p] = "update" /\ ctx'[p] = ctx[p]
           \/ pc'[p] = "semget" /\ ctx[p] = "store" /\ ctx'[p] = "dump"
           \/ pc'[p] = "idle" /\ ctx[p] = "fetch" /\ ctx'[p] = ctx[p]
    BY <1>8 DEF Unlock, Unlocked, Goto, Enter, TypeOK
  <2>3. ~NeedsLock(p)'
    BY <2>2 DEF NeedsLock, Inside, Ended
  <2>. QED  BY <1>8, <2>1, <2>2, <2>3, TornBySemaphore DEF Unlock
<1>9. CASE Remove(p)
  <2>1. /\ \A q \in Processes \ {p} : pc'[q] = pc[q] /\ ctx'[q] = ctx[q]
        /\ ctx'[p] = ctx[p] /\ UNCHANGED <<progress, listed, got>>
        /\ pc'[p] = IF ctx[p] = "finish" THEN "unhandle" ELSE "idle"
    BY <1>9 DEF Remove, Goto, TypeOK, fileVars
  <2>2. ~NeedsLock(p)'
    BY <2>1 DEF NeedsLock, Inside, Ended
  <2>3. ~Finishing => holders \ {p} \subseteq holders'
    <3>1. SUFFICES ASSUME ~Finishing PROVE holders \ {p} \subseteq holders'
      OBVIOUS
    <3>2. p \in holders
      <4>1. ctx[p] = "forget"
        BY <1>9, <3>1 DEF Remove, RoleInv, Removing, Finishing, Processes
      <4>. QED  BY <1>9, <3>1, <4>1 DEF Remove, KeptInv, NeedsLock, Ended
    <3>. QED  BY <3>2 DEF SemaphoreConserved
  <2>. QED  BY <1>9, <2>1, <2>2, <2>3, TornBySemaphore DEF Remove, Steps
<1>. QED  BY <1>3, <1>4, <1>5, <1>6, <1>7, <1>8, <1>9 DEF Semaphore

LEMMA TornWorker ==
  ASSUME TornInv, WorkerNext
  PROVE  KeptInv' /\ WritingInv' /\ RoleInv' /\ NoTornProgress'
<1>. USE DEF TornInv, LockInv
<1>0. Worker \in Processes
  BY DEF Processes
<1>1. /\ UNCHANGED got
      /\ \A q \in Processes \ {Worker} : pc'[q] = pc[q] /\ ctx'[q] = ctx[q]
      /\ holders \ {Worker} \subseteq holders'
      /\ pc'[Worker] # "rmid"
  <2>1. UpdateStatus \/ PrintResponse \/ DumpBackFinalFile \/ EndRequest
    BY DEF WorkerNext
  <2>2. UNCHANGED got /\ holders \ {Worker} \subseteq holders'
    BY <2>1 DEF UpdateStatus, PrintResponse, DumpBackFinalFile, EndRequest, Undo, semVars
  <2>3. \/ \E c \in Contexts : Enter(Worker, c)
        \/ \E to \in {"print", "unlock", "publish", "done"} : Goto(Worker, to)
    BY <2>1 DEF UpdateStatus, PrintResponse, DumpBackFinalFile, EndRequest, Contexts
  <2>4. /\ \A q \in Processes \ {Worker} : pc'[q] = pc[q] /\ ctx'[q] = ctx[q]
        /\ pc'[Worker] # "rmid"
    BY <1>0, <2>3 DEF Enter, Goto, TypeOK
  <2>. QED  BY <2>2, <2>4
<1>2. WritingInv'
  BY <1>0 DEF WritingInv, Finishing, Inside, UpdateStatus, PrintResponse, DumpBackFinalFile,
     EndRequest, WorkerNext, Enter, Goto, TypeOK
<1>3. RoleInv'
  <2>1. ASSUME NEW r \in Readers PROVE ctx'[r] \in {"read", "forget", "fetch"}
    BY <1>1, ReaderAssumption DEF RoleInv, Processes
  <2>2. ASSUME NEW q \in Processes, pc'[q] = "rmid" PROVE ctx'[q] \in Removing
    BY <1>1, <2>2 DEF RoleInv
  <2>. QED  BY <2>1, <2>2 DEF RoleInv
<1>4. NoTornProgress'
  BY <1>1 DEF NoTornProgress
<1>5. KeptInv'
  <2>1. ~Finishing' => ~Finishing /\ listed'
    <3>1. CASE UpdateStatus
      BY <1>0, <3>1 DEF KeptInv, WritingInv, Finishing, Inside, UpdateStatus, Enter, Goto, TypeOK
    <3>2. CASE PrintResponse
      BY <1>0, <3>2 DEF KeptInv, WritingInv, Finishing, Inside, PrintResponse, Enter, Goto, TypeOK
    <3>3. CASE DumpBackFinalFile
      BY <1>0, <3>3 DEF KeptInv, WritingInv, Finishing, Inside, DumpBackFinalFile, Goto, TypeOK
    <3>4. CASE EndRequest
      BY <1>0, <3>4 DEF KeptInv, WritingInv, Finishing, EndRequest, Enter, Goto, TypeOK
    <3>. QED  BY <3>1, <3>2, <3>3, <3>4 DEF WorkerNext
  <2>2. ~Finishing' /\ NeedsLock(Worker)' => Worker \in holders'
    <3>1. CASE EndRequest
      BY <1>0, <3>1 DEF EndRequest, Enter, Goto, Finishing, NeedsLock, Inside, Ended, TypeOK
    <3>2. CASE UpdateStatus \/ PrintResponse \/ DumpBackFinalFile
      BY <1>0, <2>1, <3>2 DEF UpdateStatus, PrintResponse, DumpBackFinalFile, Enter, Goto,
         NeedsLock, KeptInv, Inside, semVars, TypeOK
    <3>. QED  BY <3>1, <3>2 DEF WorkerNext
  <2>. QED  BY <1>0, <1>1, <2>1, <2>2, KeptStep
<1>. QED  BY <1>2, <1>3, <1>4, <1>5

LEMMA TornReader ==
  ASSUME TornInv, NEW r \in Readers,
         GetStatus(r) \/ GetResult(r) \/ ReadProgress(r) \/ ReadResponse(r)
  PROVE  KeptInv' /\ WritingInv' /\ RoleInv' /\ NoTornProgress'
<1>. USE DEF TornInv, LockInv
<1>0. r \in Processes /\ Worker \in Processes /\ r # Worker
  BY ReaderAssumption DEF Processes
<1>1. /\ \A q \in Processes \ {r} : pc'[q] = pc[q] /\ ctx'[q] = ctx[q]
      /\ UNCHANGED <<semVars, fileVars>>
      /\ pc'[r] \in {"semget", "unlock"}
      /\ ctx'[r] \in {"read", "forget", "fetch"}
  BY <1>0 DEF GetStatus, GetResult, ReadProgress, ReadResponse, Enter, Goto, TypeOK, RoleInv
<1>2. Finishing' = Finishing
  BY <1>0, <1>1 DEF Finishing
<1>3. KeptInv'
  <2>1. ~Finishing /\ NeedsLock(r)' => r \in holders'
    <3>1. CASE GetStatus(r) \/ GetResult(r)
      BY <1>0, <3>1 DEF GetStatus, GetResult, Enter, KeptInv, NeedsLock, Inside, TypeOK
    <3>2. CASE ReadProgress(r) \/ ReadResponse(r)
      BY <1>0, <1>1, <3>2 DEF ReadProgress, ReadResponse, KeptInv, NeedsLock, Inside, semVars
    <3>. QED  BY <3>1, <3>2
  <2>2. ~Finishing' => ~Finishing /\ listed'
    BY <1>1, <1>2 DEF KeptInv, fileVars
  <2>3. holders' = holders
    BY <1>1 DEF semVars
  <2>. QED  BY <1>0, <1>1, <1>2, <2>1, <2>2, <2>3, KeptStep
<1>4. WritingInv'
  BY <1>0, <1>1 DEF WritingInv, Finishing, fileVars
<1>5. RoleInv'
  <2>1. ASSUME NEW q \in Readers PROVE ctx'[q] \in {"read", "forget", "fetch"}
    BY <1>1, <2>1 DEF RoleInv, Processes
  <2>2. ASSUME NEW q \in Processes, pc'[q] = "rmid" PROVE ctx'[q] \in Removing
    BY <1>1, <2>2 DEF RoleInv
  <2>. QED  BY <2>1, <2>2 DEF RoleInv
<1>6. NoTornProgress'
  <2>1. CASE ReadProgress(r)
    <3>1. progress # "empty"
      <4>1. SUFFICES ASSUME progress = "empty" PROVE FALSE
        OBVIOUS
      <4>2. ~Finishing /\ NeedsLock(Worker) /\ NeedsLock(r)
        BY <2>1, <4>1 DEF WritingInv, Finishing, NeedsLock, Inside, ReadProgress
      <4>3. Worker \in holders /\ r \in holders
        BY <1>0, <4>2 DEF KeptInv
      <4>. QED  BY <1>0, <4>3 DEF SemaphoreConserved
    <3>. QED  BY <2>1, <3>1 DEF ReadProgress, NoTornProgress, TypeOK
  <2>2. CASE ReadResponse(r)
    <3>1. resp # "empty"
      BY DEF TypeOK, Responses
    <3>. QED  BY <2>2, <3>1 DEF ReadResponse, NoTornProgress, TypeOK
  <2>3. CASE GetStatus(r) \/ GetResult(r)
    BY <2>3 DEF GetStatus, GetResult, NoTornProgress, TypeOK
  <2>. QED  BY <2>1, <2>2, <2>3
<1>. QED  BY <1>3, <1>4, <1>5, <1>6

LEMMA TornDie ==
  ASSUME TornInv, NEW r \in Readers, Die(r)
  PROVE  KeptInv' /\ WritingInv' /\ RoleInv' /\ NoTornProgress'
<1>. USE DEF TornInv, LockInv
<1>0. r \in Processes /\ Worker \in Processes /\ r # Worker
  BY ReaderAssumption DEF Processes
<1>1. /\ \A q \in Processes \ {r} : pc'[q] = pc[q]
      /\ ctx' = ctx /\ pc'[r] = "dead"
      /\ holders' = holders \ {r}
      /\ UNCHANGED <<fileVars, got>>
  BY <1>0 DEF Die, Goto, Undo, TypeOK
<1>2. Finishing' = Finishing
  BY <1>1 DEF Finishing
<1>3. KeptInv'
  <2>1. ~NeedsLock(r)'
    BY <1>1 DEF NeedsLock, Inside, Ended
  <2>2. ~Finishing' => ~Finishing /\ listed'
    BY <1>1, <1>2 DEF KeptInv, fileVars
  <2>. QED  BY <1>0, <1>1, <2>1, <2>2, KeptStep
<1>4. WritingInv'
  BY <1>0, <1>1, <1>2 DEF WritingInv, fileVars
<1>5. RoleInv'
  BY <1>0, <1>1 DEF RoleInv
<1>6. NoTornProgress'
  BY <1>1 DEF NoTornProgress
<1>. QED  BY <1>3, <1>4, <1>5, <1>6

LEMMA TornInit ==
  ASSUME Started = TRUE, Init
  PROVE  TornInv
<1>1. LockInv
  BY LockInit
<1>2. KeptInv
  BY DEF Init, KeptInv, NeedsLock, Inside
<1>3. WritingInv
  BY DEF Init, WritingInv, Finishing, Processes
<1>4. RoleInv
  BY ReaderAssumption DEF Init, RoleInv, Processes
<1>5. NoTornProgress
  BY DEF Init, NoTornProgress
<1>. QED  BY <1>1, <1>2, <1>3, <1>4, <1>5 DEF TornInv

LEMMA TornStep ==
  ASSUME Worker \notin Mortal, TornInv, [Next]_vars
  PROVE  TornInv'
<1>. USE DEF TornInv
<1>1. LockInv'
  BY LockStep
<1>2. CASE WorkerNext
  BY <1>1, <1>2, TornWorker
<1>3. CASE Semaphore(Worker)
  BY <1>1, <1>3, TornSemaphore DEF Processes
<1>4. ASSUME NEW r \in Readers, Serve(r) \/ GetStatus(r) \/ GetResult(r)
      PROVE  TornInv'
  <2>1. CASE Semaphore(r)
    BY <1>1, <2>1, TornSemaphore DEF Processes
  <2>2. CASE GetStatus(r) \/ GetResult(r) \/ ReadProgress(r) \/ ReadResponse(r)
    BY <1>1, <2>2, TornReader
  <2>. QED  BY <1>4, <2>1, <2>2 DEF Serve
<1>5. ASSUME NEW p \in Processes, Die(p)
      PROVE  TornInv'
  <2>1. p \in Readers
    BY <1>5 DEF Die, Processes
  <2>. QED  BY <1>1, <1>5, <2>1, TornDie
<1>6. CASE UNCHANGED vars
  <2>1. KeptInv' /\ WritingInv' /\ RoleInv' /\ NoTornProgress'
    BY <1>6 DEF vars, semVars, localVars, fileVars, KeptInv, WritingInv, RoleInv,
       NoTornProgress, NeedsLock, Finishing
  <2>. QED  BY <1>1, <2>1
<1>. QED  BY <1>2, <1>3, <1>4, <1>5, <1>6 DEF Next

(* When progress was reported before the first request and the worker is   *)
(* not killed, no GetStatus ever reads the .status file between _update-   *)
(* Status' fopen and fprintf, though every one of them removes the         *)
(* semaphore the others wait for and may itself be killed at any point.    *)
THEOREM NoTornRead ==
  ASSUME Started = TRUE, Worker \notin Mortal
  PROVE  Spec => []NoTornProgress
<1>1. Init => TornInv
  BY TornInit
<1>2. TornInv /\ [Next]_vars => TornInv'
  BY TornStep
<1>3. TornInv => NoTornProgress
  BY DEF TornInv
<1>. QED  BY <1>1, <1>2, <1>3, PTL DEF Spec

-----------------------------------------------------------------------------
(* No semaphore is left.  A set that is registered has a process that is   *)
(* about to initialise it, or one that will come to remove it, or somebody *)
(* was killed.                                                             *)

Gone == \E p \in Processes : pc[p] = "dead"

(* Who will remove the set that is registered now, once it is initialised. *)
Removes(p) ==
  IF p = Worker
    THEN \/ ctx[p] \in {"update", "store"}
         \/ ctx[p] = "dump" /\ pc[p] \in {"semget", "lookup", "semop", "inside", "print", "publish"}
         \/ ctx[p] = "finish" /\ pc[p] \in {"semget", "lookup"}
         \/ p \in attached /\ pc[p] \in {"poll", "rmid"}
    ELSE \/ ctx[p] = "forget" /\ pc[p] \in {"semget", "lookup"}
         \/ p \in attached /\ pc[p] \in {"poll", "semop", "inside", "rmid"}

LeftInv == exists => \/ Gone
                     \/ ~ready /\ \E p \in attached : pc[p] = "init"
                     \/ ready /\ \E p \in Processes : Removes(p)

(* What each process handles the semaphore for.                            *)
PhaseInv ==
  /\ \A r \in Readers : /\ ctx[r] \in {"read", "forget"}
                        /\ pc[r] \in {"semop"} \union Inside => ctx[r] = "read"
  /\ ctx[Worker] \in {"update", "store", "dump", "finish"}
  /\ pc[Worker] \in {"rmid", "unhandle", "done"} => ctx[Worker] = "finish"
  /\ pc[Worker] = "aborted" => ctx[Worker] = "dump"
  /\ ctx[Worker] = "finish" => pc[Worker] \notin {"run", "publish", "semop"} \union Inside

NoSetInv == LockInv /\ LeftInv /\ PhaseInv

(* A step of p that neither creates, initialises nor removes the set.      *)
LEMMA LeftStep ==
  ASSUME LeftInv, NEW p \in Processes,
         \A q \in Processes \ {p} : pc'[q] = pc[q] /\ ctx'[q] = ctx[q],
         attached \ {p} \subseteq attached', attached \subseteq Processes,
         UNCHANGED <<exists, ready>>,
         pc[p] = "dead" => pc'[p] = "dead",
         p \in attached /\ pc[p] = "init" => pc'[p] = "dead",
         exists /\ ready /\ Removes(p) => Removes(p)' \/ pc'[p] = "dead"
  PROVE  LeftInv'
<1>. SUFFICES ASSUME exists PROVE LeftInv'
  BY DEF LeftInv
<1>1. CASE Gone
  <2>1. PICK q \in Processes : pc[q] = "dead"
    BY <1>1 DEF Gone
  <2>. QED  BY <2>1 DEF LeftInv, Gone
<1>2. ASSUME ~ready, NEW c \in attached, pc[c] = "init"
      PROVE  LeftInv'
  <2>1. CASE c = p
    BY <1>2, <2>1 DEF LeftInv, Gone
  <2>2. CASE c # p
    BY <1>2, <2>2 DEF LeftInv
  <2>. QED  BY <2>1, <2>2
<1>3. ASSUME ready, NEW q \in Processes, Removes(q)
      PROVE  LeftInv'
  <2>1. CASE q = p
    BY <1>3, <2>1 DEF LeftInv, Gone
  <2>2. CASE q # p
    <3>1. Removes(q)'
      BY <1>3, <2>2 DEF Removes
    <3>. QED  BY <1>3, <3>1 DEF LeftInv
  <2>. QED  BY <2>1, <2>2
<1>. QED  BY <1>1, <1>2, <1>3 DEF LeftInv

LEMMA LeftGiveUp ==
  ASSUME LockInv, PhaseInv, LeftInv, NEW p \in Processes, GiveUp(p),
         pc[p] \in {"init", "lookup", "poll", "semop"},
         pc[p] = "init" => p \notin attached,
         exists /\ ready => p \notin attached /\ pc[p] # "lookup",
         pc[p] = "semop" => ctx[p] # "dump"
  PROVE  LeftInv' /\ PhaseInv'
<1>. USE DEF LockInv, TypeOK
<1>1. /\ \A q \in Processes \ {p} : pc'[q] = pc[q] /\ ctx'[q] = ctx[q]
      /\ attached \ {p} \subseteq attached' /\ UNCHANGED <<exists, ready>>
  BY DEF GiveUp, Goto, Enter, Undo, semVars
<1>2. \/ pc'[p] = "run" /\ ctx[p] = "update" /\ ctx'[p] = ctx[p]
      \/ pc'[p] = "semget" /\ ctx[p] = "store" /\ ctx'[p] = "dump"
      \/ pc'[p] = "aborted" /\ ctx[p] = "dump" /\ ctx'[p] = ctx[p]
      \/ pc'[p] = "unhandle" /\ ctx[p] = "finish" /\ ctx'[p] = ctx[p]
      \/ pc'[p] = "idle" /\ ctx[p] \in {"read", "forget", "fetch"} /\ ctx'[p] = ctx[p]
  BY DEF GiveUp, Goto, Enter
<1>3. exists /\ ready /\ Removes(p) => Removes(p)'
  BY <1>2, ReaderAssumption DEF Removes, PhaseInv, Processes
<1>4. LeftInv'
  BY <1>1, <1>3, LeftStep
<1>5. PhaseInv'
  BY <1>1, <1>2, ReaderAssumption DEF PhaseInv, Processes, Inside
<1>. QED  BY <1>4, <1>5

(* The steps inside getShmLockId and acquireLock.                          *)
LEMMA LeftMove ==
  ASSUME LockInv, PhaseInv, LeftInv, NEW p \in Processes,
         pc[p] \in {"semget", "lookup", "poll", "semop"},
         NEW to \in {"lookup", "poll", "semget", "rmid", "semop"},
         pc' = [pc EXCEPT ![p] = to], UNCHANGED <<ctx, exists, ready>>,
         attached \subseteq attached',
         \/ pc[p] = "semget" /\ to = "lookup"
         \/ pc[p] = "lookup" /\ to = "poll" /\ p \in attached'
         \/ pc[p] = "poll" /\ to = (IF ctx[p] \in Removing THEN "rmid" ELSE "semop")
         \/ pc[p] = "semop" /\ to = "semget" /\ p \notin attached /\ ctx[p] # "dump"
  PROVE  LeftInv' /\ PhaseInv'
<1>. USE DEF LockInv, TypeOK
<1>1. /\ \A q \in Processes \ {p} : pc'[q] = pc[q] /\ ctx'[q] = ctx[q]
      /\ pc'[p] = to /\ ctx'[p] = ctx[p]
  OBVIOUS
<1>2. exists /\ ready /\ Removes(p) => Removes(p)'
  BY <1>1, ReaderAssumption DEF Removes, PhaseInv, Processes, Removing, Inside
<1>3. LeftInv'
  BY <1>1, <1>2, LeftStep
<1>4. PhaseInv'
  BY <1>1, ReaderAssumption DEF PhaseInv, Processes, Removing, Inside
<1>. QED  BY <1>3, <1>4

LEMMA LeftSemaphore ==
  ASSUME NoSetInv, NEW p \in Processes, Semaphore(p)
  PROVE  LeftInv' /\ PhaseInv'
<1>. USE DEF NoSetInv, LockInv, TypeOK
<1>1. CASE SemGet(p)
  <2>1. CASE ~exists
    <3>1. pc'[p] = "init" /\ p \in attached' /\ ~ready' /\ ctx' = ctx
          /\ \A q \in Processes \ {p} : pc'[q] = pc[q]
      BY <1>1, <2>1 DEF SemGet, Goto
    <3>2. PhaseInv'
      BY <3>1, ReaderAssumption DEF PhaseInv, Processes, Inside
    <3>. QED  BY <3>1, <3>2 DEF LeftInv
  <2>2. CASE exists
    BY <1>1, <2>2, LeftMove DEF SemGet, Goto, semVars
  <2>. QED  BY <2>1, <2>2
<1>2. CASE InitSem(p)
  <2>1. CASE p \in attached
    <3>1. /\ pc'[p] = IF ctx[p] \in Removing THEN "rmid" ELSE "semop"
          /\ ctx' = ctx /\ attached' = attached /\ exists' = exists /\ ready' = TRUE
          /\ \A q \in Processes \ {p} : pc'[q] = pc[q]
      BY <1>2, <2>1 DEF InitSem, GotId, Goto
    <3>2. Removes(p)'
      BY <2>1, <3>1, ReaderAssumption DEF Removes, PhaseInv, Processes, Removing
    <3>3. PhaseInv'
      BY <3>1, ReaderAssumption DEF PhaseInv, Processes, Removing, Inside
    <3>. QED  BY <3>1, <3>2, <3>3 DEF LeftInv
  <2>2. CASE p \notin attached
    BY <1>2, <2>2, LeftGiveUp DEF InitSem
  <2>. QED  BY <2>1, <2>2
<1>3. CASE LookUp(p)
  BY <1>3, LeftMove, LeftGiveUp DEF LookUp, Goto
<1>4. CASE Poll(p)
  <2>1. CASE GotId(p) /\ UNCHANGED semVars
    BY <1>4, <2>1, LeftMove DEF Poll, GotId, Goto, semVars
  <2>2. CASE UNCHANGED <<pc, ctx, semVars>>
    BY <2>2 DEF LeftInv, PhaseInv, Gone, Removes, semVars
  <2>3. CASE GiveUp(p) /\ (p \in attached => ~ready)
    BY <1>4, <2>3, LeftGiveUp DEF Poll
  <2>. QED  BY <1>4, <2>1, <2>2, <2>3 DEF Poll
<1>5. CASE Lock(p)
  <2>1. CASE p \in attached \/ ctx[p] = "dump"
    <3>1. /\ pc'[p] = "inside" /\ ctx' = ctx /\ UNCHANGED <<exists, ready, attached>>
          /\ \A q \in Processes \ {p} : pc'[q] = pc[q]
      BY <1>5, <2>1 DEF Lock, Take, Removed, Goto, semVars
    <3>2. exists /\ ready /\ Removes(p) => Removes(p)'
      BY <1>5, <3>1, ReaderAssumption DEF Lock, Removes, PhaseInv, Processes
    <3>3. LeftInv'
      BY <1>5, <3>1, <3>2, LeftStep DEF Lock
    <3>4. PhaseInv'
      BY <1>5, <3>1, ReaderAssumption DEF Lock, PhaseInv, Processes, Inside
    <3>. QED  BY <3>3, <3>4
  <2>2. CASE p \notin attached /\ ctx[p] # "dump"
    BY <1>5, <2>2, LeftMove, LeftGiveUp DEF Lock, Removed, semVars
  <2>. QED  BY <2>1, <2>2
<1>6. CASE Unlock(p)
  <2>1. /\ \A q \in Processes \ {p} : pc'[q] = pc[q] /\ ctx'[q] = ctx[q]
        /\ attached \ {p} \subseteq attached' /\ UNCHANGED <<exists, ready>>
        /\ \/ pc'[p] = "run" /\ ctx[p] = "update" /\ ctx'[p] = ctx[p]
           \/ pc'[p] = "semget" /\ ctx[p] = "store" /\ ctx'[p] = "dump"
           \/ pc'[p] = "idle" /\ ctx[p] = "fetch" /\ ctx'[p] = ctx[p]
    BY <1>6 DEF Unlock, Unlocked, Goto, Enter, Undo, semVars
  <2>2. exists /\ ready /\ Removes(p) => Removes(p)'
    BY <1>6, <2>1, ReaderAssumption DEF Removes, PhaseInv, Processes
  <2>3. LeftInv'
    BY <1>6, <2>1, <2>2, LeftStep DEF Unlock
  <2>4. PhaseInv'
    BY <2>1, ReaderAssumption DEF PhaseInv, Processes, Inside
  <2>. QED  BY <2>3, <2>4
<1>7. CASE Remove(p)
  <2>1. /\ pc'[p] = (IF ctx[p] = "finish" THEN "unhandle" ELSE "idle") /\ ctx' = ctx
        /\ \A q \in Processes \ {p} : pc'[q] = pc[q]
    BY <1>7 DEF Remove, Goto
  <2>2. PhaseInv'
    BY <2>1, ReaderAssumption DEF PhaseInv, Processes, Inside
  <2>3. CASE p \in attached
    BY <1>7, <2>2, <2>3 DEF Remove, LeftInv
  <2>4. CASE p \notin attached
    <3>1. attached \ {p} \subseteq attached' /\ UNCHANGED <<exists, ready>>
      BY <1>7, <2>4 DEF Remove, Undo, semVars
    <3>2. ~Removes(p)
      BY <1>7, <2>4, ReaderAssumption DEF Remove, Removes, PhaseInv, Processes
    <3>3. LeftInv'
      BY <1>7, <2>1, <3>1, <3>2, LeftStep DEF Remove
    <3>. QED  BY <2>2, <3>3
  <2>. QED  BY <2>3, <2>4
<1>. QED  BY <1>1, <1>2, <1>3, <1>4, <1>5, <1>6, <1>7 DEF Semaphore

LEMMA LeftWorker ==
  ASSUME NoSetInv, WorkerNext
  PROVE  LeftInv' /\ PhaseInv'
<1>. USE ReaderAssumption DEF NoSetInv, LockInv, TypeOK
<1>0. Worker \in Processes
  BY DEF Processes
<1>1. /\ \A q \in Processes \ {Worker} : pc'[q] = pc[q] /\ ctx'[q] = ctx[q]
      /\ attached \ {Worker} \subseteq attached' /\ UNCHANGED <<exists, ready>>
      /\ pc[Worker] \in {"run", "publish", "unhandle"} \union Inside
  BY <1>0 DEF WorkerNext, UpdateStatus, PrintResponse, DumpBackFinalFile, EndRequest, Undo, Goto, Enter,
     semVars, Inside
<1>2. (exists /\ ready /\ Removes(Worker) => Removes(Worker)') /\ PhaseInv'
  <2>1. CASE UpdateStatus
    BY <1>0, <1>1, <2>1 DEF UpdateStatus, Goto, Enter, Removes, PhaseInv, Processes, Inside
  <2>2. CASE PrintResponse
    BY <1>0, <1>1, <2>2 DEF PrintResponse, Goto, Enter, Removes, PhaseInv, Processes, Inside
  <2>3. CASE DumpBackFinalFile
    BY <1>0, <1>1, <2>3 DEF DumpBackFinalFile, Goto, Enter, Removes, PhaseInv, Processes, Inside
  <2>4. CASE EndRequest
    BY <1>0, <1>1, <2>4 DEF EndRequest, Goto, Enter, Removes, PhaseInv, Processes, Inside
  <2>. QED  BY <2>1, <2>2, <2>3, <2>4 DEF WorkerNext
<1>3. LeftInv'
  BY <1>0, <1>1, <1>2, LeftStep DEF Inside
<1>. QED  BY <1>2, <1>3

LEMMA LeftReader ==
  ASSUME "GetResult" \notin Ops, NoSetInv, NEW r \in Readers,
         GetStatus(r) \/ GetResult(r) \/ ReadProgress(r) \/ ReadResponse(r)
  PROVE  LeftInv' /\ PhaseInv'
<1>. USE ReaderAssumption DEF NoSetInv, LockInv, TypeOK
<1>0. r \in Processes /\ r # Worker
  BY DEF Processes
<1>1. GetStatus(r) \/ ReadProgress(r)
  BY DEF GetResult, ReadResponse, PhaseInv
<1>2. /\ \A q \in Processes \ {r} : pc'[q] = pc[q] /\ ctx'[q] = ctx[q]
      /\ UNCHANGED <<attached, exists, ready>> /\ pc[r] \in {"idle", "inside"}
      /\ pc'[r] = "semget" /\ ctx'[r] \in {"read", "forget"}
      /\ pc[r] = "inside" => ctx'[r] = "forget"
  BY <1>0, <1>1 DEF GetStatus, ReadProgress, Enter, semVars
<1>3. exists /\ ready /\ Removes(r) => Removes(r)'
  BY <1>0, <1>2 DEF Removes
<1>4. LeftInv'
  BY <1>0, <1>2, <1>3, LeftStep
<1>5. PhaseInv'
  BY <1>0, <1>2 DEF PhaseInv, Processes, Inside
<1>. QED  BY <1>4, <1>5

LEMMA LeftDie ==
  ASSUME NoSetInv, NEW p \in Processes, Die(p)
  PROVE  LeftInv' /\ PhaseInv'
<1>. USE DEF NoSetInv, LockInv, TypeOK
<1>1. /\ \A q \in Processes \ {p} : pc'[q] = pc[q]
      /\ ctx' = ctx /\ pc'[p] = "dead"
  BY DEF Die, Goto
<1>2. LeftInv'
  BY <1>1 DEF LeftInv, Gone
<1>3. PhaseInv'
  BY <1>1, ReaderAssumption DEF PhaseInv, Processes, Inside
<1>. QED  BY <1>2, <1>3

LEMMA LeftInit ==
  ASSUME Init
  PROVE  NoSetInv
<1>1. LeftInv
  BY DEF Init, LeftInv
<1>2. PhaseInv
  BY ReaderAssumption DEF Init, PhaseInv, Processes, Inside
<1>. QED  BY <1>1, <1>2, LockInit DEF NoSetInv

LEMMA LeftNext ==
  ASSUME "GetResult" \notin Ops, NoSetInv, [Next]_vars
  PROVE  NoSetInv'
<1>1. LockInv'
  BY LockStep DEF NoSetInv
<1>2. Worker \in Processes /\ Readers \subseteq Processes
  BY DEF Processes
<1>3. CASE UNCHANGED vars
  <2>1. LeftInv' /\ PhaseInv'
    BY <1>3 DEF vars, semVars, localVars, NoSetInv, LeftInv, PhaseInv, Gone, Removes
  <2>. QED  BY <1>1, <2>1 DEF NoSetInv
<1>4. CASE Next
  <2>1. LeftInv' /\ PhaseInv'
    BY <1>2, <1>4, LeftWorker, LeftSemaphore, LeftReader, LeftDie DEF Next, Serve
  <2>. QED  BY <1>1, <2>1 DEF NoSetInv
<1>. QED  BY <1>3, <1>4

(* When the job has ended and no GetStatus is served, no semaphore set is  *)
(* left registered (removeShmLock at the end of runRequest and of          *)
(* _getStatus), though the status requests remove each other's set and the *)
(* job's, and create another for the next one to find.  A GetResult, which *)
(* only unlocks (_getStatusFile), leaves one.                              *)
THEOREM NothingLeft ==
  ASSUME "GetResult" \notin Ops
  PROVE  Spec => []NoSemaphoreLeft
<1>1. Init => NoSetInv
  BY LeftInit
<1>2. NoSetInv /\ [Next]_vars => NoSetInv'
  BY LeftNext
<1>3. NoSetInv => NoSemaphoreLeft
  <2>. SUFFICES ASSUME NoSetInv, pc[Worker] \in {"done", "aborted"}, \A r \in Readers : pc[r] = "idle", exists
                PROVE  FALSE
    BY DEF NoSemaphoreLeft
  <2>1. \A p \in Processes : pc[p] \notin {"dead", "init"}
    BY DEF Processes
  <2>2. attached \subseteq Processes
    BY DEF NoSetInv, LockInv, TypeOK
  <2>3. PICK p \in Processes : Removes(p)
    BY <2>1, <2>2 DEF NoSetInv, LeftInv, Gone
  <2>. QED  BY <2>3 DEF Removes, NoSetInv, PhaseInv, Processes
<1>. QED  BY <1>1, <1>2, <1>3, PTL DEF Spec
=============================================================================
