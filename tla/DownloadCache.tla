--------------------------- MODULE DownloadCache ---------------------------
(***************************************************************************)
(* The cache of downloaded inputs (caching.c), for ONE url that several    *)
(* requests fetch at the same time.                                        *)
(*                                                                         *)
(* A request looks the url up (loadRemoteFile).  It either reads the       *)
(* cached .zca file and its .zcm and .zcp companions, or downloads the     *)
(* document, looks again, and stores it (addToCache or, with [main]        *)
(* memory=protected, cacheFile).  FileLock is the lock they use.           *)
(*                                                                         *)
(* A document is a number of stdio buffers ("blocks"), the last of which   *)
(* may be partly filled.  Only the requests write to the cache; the server *)
(* always sends the same document.  The .zmd file is never read here.      *)
(***************************************************************************)
EXTENDS FileLock

CONSTANTS
  MaxBlocks,   \* the longest document
  Memories     \* values of [main] memory: "load", "protected"

ASSUME BlockAssumption == MaxBlocks \in Nat \ {0}
ASSUME FileAssumption == Files = {"zca", "zcm", "zcp"}

VARIABLES
  content,   \* the blocks each file of the cache has; 0: the file exists
  memory,    \* [main] memory
  length,    \* blocks of the document
  pc,        \* what each request does next
  size,      \* size it found with zStat, or blocks it has written
  got,       \* blocks it read
  answer     \* how its input was obtained

cacheVars == <<content, memory, length, pc, size, got, answer>>
vars == <<lockVars, cacheVars>>

Answers == {"none", "downloaded", "downloadFailed", "served", "unable", "locked"}

Init ==
  /\ InitLocks
  /\ content = [f \in Files |-> {}]
  /\ memory \in Memories
  /\ length \in 1..MaxBlocks
  /\ pc = [p \in Processes |-> "lookup"]
  /\ size = [p \in Processes |-> 0]
  /\ got = [p \in Processes |-> {}]
  /\ answer = [p \in Processes |-> "none"]

Present(f) == 0 \in content[f]
SizeOf(f) == IF Present(f) THEN CHOOSE n \in content[f] : \A m \in content[f] : m <= n
                           ELSE 0
Cached == SizeOf("zca") > 0      \* isInCache

Truncate(f) == content' = [content EXCEPT ![f] = {0}]
WriteBlocks(f, blocks) == content' = [content EXCEPT ![f] = @ \union {0} \union blocks]

Jump(p, to) == pc' = [pc EXCEPT ![p] = to]
End(p, a) == Jump(p, "ended") /\ answer' = [answer EXCEPT ![p] = a]

-----------------------------------------------------------------------------
(* loadRemoteFile.                                                         *)

Lookup(p) ==
  /\ pc[p] = "lookup"
  /\ Jump(p, IF Cached THEN "cached" ELSE "download")
  /\ UNCHANGED <<lockVars, content, memory, length, size, got, answer>>

(* The size is taken before the lock.                                      *)
Measure(p) ==
  /\ pc[p] = "cached"
  /\ \/ /\ memory = "load"
        /\ size' = [size EXCEPT ![p] = SizeOf("zca")]
        /\ LockFile(p, "zca", "r")
        /\ Jump(p, "read")
     \/ /\ memory = "protected"
        /\ Jump(p, "zcm")
        /\ UNCHANGED <<lockVars, size>>
  /\ UNCHANGED <<content, memory, length, got, answer>>

GiveUp(p) ==    \* lockFile returned NULL
  /\ pc[p] \in {"read", "readMeta"}
  /\ step[p] = "failed"
  /\ End(p, "locked")
  /\ UNCHANGED <<lockVars, content, memory, length, size, got>>

ReadContent(p) ==
  /\ pc[p] = "read"
  /\ UnlockFile(p)
  /\ got' = [got EXCEPT ![p] = content["zca"] \intersect (1..size[p])]
  /\ Jump(p, "zcm")
  /\ UNCHANGED <<content, memory, length, size, answer>>

(* The companions are read in the same way.                                *)
OpenMeta(p) ==
  /\ pc[p] \in {"zcm", "zcp"}
  /\ step[p] = "out"
  /\ \/ /\ Present(pc[p])
        /\ LockFile(p, pc[p], "r")
        /\ Jump(p, "readMeta")
     \/ /\ ~Present(pc[p])
        /\ Jump(p, IF pc[p] = "zcm" THEN "zcp" ELSE "check")
        /\ UNCHANGED lockVars
  /\ UNCHANGED <<content, memory, length, size, got, answer>>

ReadMeta(p) ==
  /\ pc[p] = "readMeta"
  /\ UnlockFile(p)
  /\ Jump(p, IF file[p] = "zcm" THEN "zcp" ELSE "check")
  /\ UNCHANGED <<content, memory, length, size, got, answer>>

(* fsize, which only memory=load has set, must not be 0.                   *)
CheckSize(p) ==
  /\ pc[p] = "check"
  /\ step[p] = "out"
  /\ End(p, IF size[p] = 0 THEN "unable" ELSE "served")
  /\ UNCHANGED <<lockVars, content, memory, length, size, got>>

-----------------------------------------------------------------------------
(* runHttpRequests, readCurrentInput.                                      *)

Download(p) ==
  /\ pc[p] = "download"
  /\ \/ Jump(p, "again") /\ UNCHANGED answer
     \/ End(p, "downloadFailed")
  /\ UNCHANGED <<lockVars, content, memory, length, size, got>>

LookAgain(p) ==
  /\ pc[p] = "again"
  /\ \/ Cached /\ End(p, "downloaded") /\ UNCHANGED lockVars
     \/ ~Cached /\ LockFile(p, "zca", "w") /\ Jump(p, "open") /\ UNCHANGED answer
  /\ UNCHANGED <<content, memory, length, size, got>>

DoNotStore(p) ==    \* lockFile returned NULL
  /\ pc[p] = "open"
  /\ step[p] = "failed"
  /\ End(p, "downloaded")
  /\ UNCHANGED <<lockVars, content, memory, length, size, got>>

OpenCache(p) ==
  /\ pc[p] = "open"
  /\ step[p] = "in"
  /\ Truncate("zca")
  /\ Jump(p, "write")
  /\ UNCHANGED <<lockVars, memory, length, size, got, answer>>

(* addToCache: one fwrite, the end of which stays in the buffer.           *)
AddToCache(p) ==
  /\ pc[p] = "write"
  /\ memory = "load"
  /\ WriteBlocks("zca", 1..(length - 1))
  /\ Jump(p, "unlock")
  /\ UNCHANGED <<lockVars, memory, length, size, got, answer>>

(* cacheFile: a block is written and flushed, then the next one.           *)
CacheFile(p) ==
  /\ pc[p] = "write"
  /\ memory = "protected"
  /\ WriteBlocks("zca", {size[p] + 1})
  /\ size' = [size EXCEPT ![p] = @ + 1]
  /\ Jump(p, IF size[p] + 1 < length THEN "write" ELSE "unlock")
  /\ UNCHANGED <<lockVars, memory, length, got, answer>>

UnlockCache(p) ==
  /\ pc[p] = "unlock"
  /\ UnlockFile(p)
  /\ Jump(p, "close")
  /\ UNCHANGED <<content, memory, length, size, got, answer>>

CloseWithoutFlush(p) ==    \* mutant: the stream is abandoned
  /\ pc[p] = "close"
  /\ step[p] = "out"
  /\ Jump(p, "zcmOpen")
  /\ UNCHANGED <<lockVars, content, memory, length, size, got, answer>>

(* fclose, after the unlock, writes what is left in the buffer.            *)
CloseCache(p) ==
  /\ pc[p] = "close"
  /\ step[p] = "out"
  /\ WriteBlocks("zca", {length})
  /\ Jump(p, "zcmOpen")
  /\ UNCHANGED <<lockVars, memory, length, size, got, answer>>

(* The companions, without a lock.                                         *)
StoreMeta(p) ==
  /\ \/ pc[p] = "zcmOpen" /\ Truncate("zcm") /\ Jump(p, "zcmClose") /\ UNCHANGED answer
     \/ /\ pc[p] = "zcmClose"
        /\ WriteBlocks("zcm", {1})
        /\ Jump(p, "zcpOpen")
        /\ UNCHANGED answer
     \/ pc[p] = "zcpOpen" /\ Truncate("zcp") /\ Jump(p, "zcpClose") /\ UNCHANGED answer
     \/ pc[p] = "zcpClose" /\ WriteBlocks("zcp", {1}) /\ End(p, "downloaded")
  /\ UNCHANGED <<lockVars, memory, length, size, got>>

Fetch(p) ==
  \/ Lookup(p)
  \/ Measure(p)
  \/ GiveUp(p)
  \/ ReadContent(p)
  \/ OpenMeta(p)
  \/ ReadMeta(p)
  \/ CheckSize(p)

Store(p) ==
  \/ Download(p)
  \/ LookAgain(p)
  \/ DoNotStore(p)
  \/ OpenCache(p)
  \/ AddToCache(p)
  \/ CacheFile(p)
  \/ UnlockCache(p)
  \/ CloseCache(p)
  \/ StoreMeta(p)

Next == \E p \in Processes :
  \/ Fetch(p)
  \/ Store(p)
  \/ LockStep(p) /\ UNCHANGED cacheVars

Spec == Init /\ [][Next]_vars

-----------------------------------------------------------------------------
(* Properties.                                                             *)

Ended(p) == pc[p] = "ended" \/ step[p] = "crashed"

(* Every variable keeps to its type.                                       *)
TypeOK ==
  /\ LocksOK
  /\ content \in [Files -> SUBSET (0..MaxBlocks)]
  /\ memory \in Memories
  /\ length \in 1..MaxBlocks
  /\ size \in [Processes -> 0..MaxBlocks]
  /\ got \in [Processes -> SUBSET (1..MaxBlocks)]
  /\ answer \in [Processes -> Answers]

(* When nobody is at work any more and somebody downloaded the document,   *)
(* it is in the cache with all its blocks and its companions, although     *)
(* requests store it over each other, the lock may be broken, and the last *)
(* block is written without it.                                            *)
CacheSettles ==
  (\A p \in Processes : Ended(p)) /\ (\E p \in Processes : answer[p] = "downloaded") =>
    /\ content["zca"] = 0..length
    /\ content["zcm"] = {0, 1} /\ content["zcp"] = {0, 1}

(* Without a process being killed no lock file is left behind, which would *)
(* keep all later writers away: the last one to release an inode removes   *)
(* the name, also when names and inodes have come apart.                   *)
NoLockLeft == (\A p \in Processes : Ended(p)) => \A f \in Files : ~Exists(f)
=============================================================================
