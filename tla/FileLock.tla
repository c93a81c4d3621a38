------------------------------ MODULE FileLock ------------------------------
(***************************************************************************)
(* lockFile and unlockFile (service_internal.c): a file "f" is locked by   *)
(* creating "f.lock" and taking a record lock on it.  A process waits      *)
(* while the name exists (writers only) and while the record is locked,    *)
(* and the last one that holds the record removes the name.  One action is *)
(* one system call.                                                        *)
(*                                                                         *)
(* A lock file that was removed lives on as an inode for those who have it *)
(* open; a record lock belongs to the inode, not to the name.              *)
(***************************************************************************)
EXTENDS Naturals, FiniteSets, Functions

CONSTANTS
  Processes,
  Files,      \* what is locked
  MaxRetry    \* ZOO_LOCK_MAX_RETRY

ASSUME RetryAssumption == MaxRetry \in Nat
ASSUME FiniteAssumption == IsFiniteSet(Processes) /\ IsFiniteSet(Files)

NoInode == 0
Inodes == 1 .. (Cardinality(Processes) + Cardinality(Files) + 1)

VARIABLES
  named,    \* the inode each f.lock names
  handle,   \* the inode a process has open (lockfile)
  grip,     \* the record lock it has on this inode
  step,     \* where it is in lockFile or unlockFile
  file,     \* the file it locks
  mode,     \* "r" or "w"
  tries     \* itn, then cnt

lockVars == <<named, handle, grip, step, file, mode, tries>>

Steps == {"out", "stat", "open", "create", "reopen", "setlk", "in",
          "getlk", "unlink", "failed", "crashed"}

InitLocks ==
  /\ named  = [f \in Files |-> NoInode]
  /\ handle = [p \in Processes |-> NoInode]
  /\ grip   = [p \in Processes |-> "none"]
  /\ step   = [p \in Processes |-> "out"]
  /\ file   = [p \in Processes |-> CHOOSE f \in Files : TRUE]
  /\ mode   = [p \in Processes |-> "r"]
  /\ tries  = [p \in Processes |-> 0]

Exists(f) == named[f] # NoInode

Goto(p, from, to) == step[p] = from /\ step' = [step EXCEPT ![p] = to]

(* fopen(f.lock,"w+") creates an inode or truncates the one there is.      *)
Fresh == CHOOSE i \in Inodes : i \notin Range(named) \union Range(handle)

CreateName(f) ==
  named' = IF Exists(f) THEN named ELSE [named EXCEPT ![f] = Fresh]

-----------------------------------------------------------------------------
(* lockFile.                                                               *)

LockFile(p, f, m) ==
  /\ step[p] \in {"out", "failed"}
  /\ step' = [step EXCEPT ![p] = "stat"]
  /\ file' = [file EXCEPT ![p] = f]
  /\ mode' = [mode EXCEPT ![p] = m]
  /\ tries' = [tries EXCEPT ![p] = 0]
  /\ UNCHANGED <<named, handle, grip>>

(* A writer waits until there is no lock file, and opens it afterwards.    *)
Stat(p) ==
  /\ \/ /\ mode[p] = "r" \/ ~Exists(file[p])
        /\ Goto(p, "stat", "open")
        /\ tries' = [tries EXCEPT ![p] = 0]
     \/ /\ mode[p] = "w" /\ Exists(file[p])
        /\ tries[p] < MaxRetry
        /\ Goto(p, "stat", "stat")
        /\ tries' = [tries EXCEPT ![p] = @ + 1]
     \/ /\ mode[p] = "w" /\ Exists(file[p])
        /\ tries[p] >= MaxRetry
        /\ Goto(p, "stat", "failed")
        /\ UNCHANGED tries
  /\ UNCHANGED <<named, handle, grip, file, mode>>

Open(p) ==
  /\ \/ /\ mode[p] = "w"
        /\ Goto(p, "open", "setlk")
        /\ CreateName(file[p])
        /\ handle' = [handle EXCEPT ![p] = named'[file[p]]]
     \/ /\ mode[p] = "r" /\ Exists(file[p])
        /\ Goto(p, "open", "setlk")
        /\ handle' = [handle EXCEPT ![p] = named[file[p]]]
        /\ UNCHANGED named
     \/ /\ mode[p] = "r" /\ ~Exists(file[p])
        /\ Goto(p, "open", "create")
        /\ UNCHANGED <<named, handle>>
  /\ UNCHANGED <<grip, file, mode, tries>>

(* A reader creates the lock file, closes it and opens it again.           *)
Create(p) ==
  /\ Goto(p, "create", "reopen")
  /\ CreateName(file[p])
  /\ UNCHANGED <<handle, grip, file, mode, tries>>

(* Removed in between, fopen returns NULL and fileno dereferences it.      *)
Reopen(p) ==
  /\ \/ /\ Exists(file[p])
        /\ Goto(p, "reopen", "setlk")
        /\ handle' = [handle EXCEPT ![p] = named[file[p]]]
     \/ /\ ~Exists(file[p])
        /\ Goto(p, "reopen", "crashed")
        /\ UNCHANGED handle
  /\ UNCHANGED <<named, grip, file, mode, tries>>

Sharing(p) == {q \in Processes \ {p} : handle[q] = handle[p] /\ grip[q] # "none"}

(* fcntl(F_SETLK).                                                         *)
SetLk(p) ==
  /\ \/ /\ \A q \in Sharing(p) : mode[p] = "r" /\ grip[q] = "r"
        /\ Goto(p, "setlk", "in")
        /\ grip' = [grip EXCEPT ![p] = mode[p]]
        /\ UNCHANGED <<handle, tries>>
     \/ /\ \E q \in Sharing(p) : mode[p] = "w" \/ grip[q] = "w"
        /\ tries[p] < MaxRetry
        /\ Goto(p, "setlk", "setlk")
        /\ tries' = [tries EXCEPT ![p] = @ + 1]
        /\ UNCHANGED <<handle, grip>>
     \/ /\ \E q \in Sharing(p) : mode[p] = "w" \/ grip[q] = "w"
        /\ tries[p] >= MaxRetry
        /\ Goto(p, "setlk", "failed")
        /\ handle' = [handle EXCEPT ![p] = NoInode]
        /\ UNCHANGED <<grip, tries>>
  /\ UNCHANGED <<named, file, mode>>

-----------------------------------------------------------------------------
(* unlockFile.                                                             *)

(* F_UNLCK.                                                                *)
UnlockFile(p) ==
  /\ Goto(p, "in", "getlk")
  /\ grip' = [grip EXCEPT ![p] = "none"]
  /\ UNCHANGED <<named, handle, file, mode, tries>>

GetLkOfWriter(p) ==    \* mutant: a reader leaves the name to the next writer
  /\ \/ /\ mode[p] = "w" /\ Sharing(p) = {}
        /\ Goto(p, "getlk", "unlink")
        /\ UNCHANGED handle
     \/ /\ mode[p] = "r" \/ Sharing(p) # {}
        /\ Goto(p, "getlk", "out")
        /\ handle' = [handle EXCEPT ![p] = NoInode]
  /\ UNCHANGED <<named, grip, file, mode, tries>>

(* F_GETLK: does any process lock the file?  If so, the handle is          *)
(* forgotten, not closed, and the name is left to the others.              *)
GetLk(p) ==
  /\ \/ /\ Sharing(p) = {}
        /\ Goto(p, "getlk", "unlink")
        /\ UNCHANGED handle
     \/ /\ Sharing(p) # {}
        /\ Goto(p, "getlk", "out")
        /\ handle' = [handle EXCEPT ![p] = NoInode]
  /\ UNCHANGED <<named, grip, file, mode, tries>>

(* The name is removed, whatever inode it names by now.                    *)
UnlinkLock(p) ==
  /\ Goto(p, "unlink", "out")
  /\ handle' = [handle EXCEPT ![p] = NoInode]
  /\ named' = [named EXCEPT ![file[p]] = NoInode]
  /\ UNCHANGED <<grip, file, mode, tries>>

LockStep(p) ==
  \/ Stat(p)
  \/ Open(p)
  \/ Create(p)
  \/ Reopen(p)
  \/ SetLk(p)
  \/ GetLk(p)
  \/ UnlinkLock(p)

-----------------------------------------------------------------------------
LocksOK ==
  /\ named \in [Files -> Inodes \union {NoInode}]
  /\ handle \in [Processes -> Inodes \union {NoInode}]
  /\ grip \in [Processes -> {"none", "r", "w"}]
  /\ step \in [Processes -> Steps]
  /\ file \in [Processes -> Files]
  /\ mode \in [Processes -> {"r", "w"}]
  /\ tries \in [Processes -> 0..MaxRetry]
=============================================================================
