------------------------- MODULE DownloadCacheProofs -------------------------
(***************************************************************************)
(* Proofs about DownloadCache and the file lock it uses, for any finite    *)
(* number of requests, any document and any number of retries.             *)
(***************************************************************************)
EXTENDS DownloadCache, FiniteSetTheorems, TLAPS

-----------------------------------------------------------------------------
(* The invariants of the lock.                                             *)

InLock == {"setlk", "in", "getlk", "unlink"}

(* An inode belongs to one file, also after its name was removed.          *)
InodeInv ==
  /\ \A p \in Processes : /\ handle[p] # NoInode <=> step[p] \in InLock
                          /\ grip[p] # "none" <=> step[p] = "in"
  /\ \A p, q \in Processes : handle[p] = handle[q] /\ handle[p] # NoInode => file[p] = file[q]
  /\ \A p \in Processes, f \in Files : handle[p] = named[f] /\ handle[p] # NoInode => file[p] = f
  /\ \A f, g \in Files : named[f] = named[g] /\ Exists(f) => f = g

(* While there is a lock file, somebody has it open or is about to.        *)
Responsible(p, f) == file[p] = f /\ (step[p] = "reopen" \/ (step[p] \in InLock /\ handle[p] = named[f]))
NameInv == \A f \in Files : Exists(f) => \E p \in Processes : Responsible(p, f)

-----------------------------------------------------------------------------
(* The invariants of the requests.                                         *)

Storing == {"write", "unlock", "close", "zcmOpen", "zcmClose", "zcpOpen", "zcpClose"}
Pcs == {"lookup", "cached", "read", "zcm", "zcp", "readMeta", "check", "download", "again",
        "open", "ended"} \union Storing

CacheTypes ==
  /\ content \in [Files -> SUBSET (0..MaxBlocks)] /\ memory \in Memories
  /\ length \in 1..MaxBlocks /\ size \in [Processes -> 0..MaxBlocks]
  /\ got \in [Processes -> SUBSET (1..MaxBlocks)] /\ answer \in [Processes -> Answers]
  /\ pc \in [Processes -> Pcs]

(* Where a request is in the lock.                                         *)
PcInv(p) ==
  /\ pc[p] \in Pcs
  /\ pc[p] \in {"lookup", "cached", "download", "again", "zcmOpen", "zcmClose", "zcpOpen", "zcpClose"} =>
       step[p] = "out"
  /\ pc[p] = "ended" => step[p] \in {"out", "failed"}
  /\ pc[p] \in {"write", "unlock"} => step[p] = "in"
  /\ pc[p] \in {"zcm", "zcp", "check", "close"} => step[p] \in {"out", "getlk", "unlink"}
  /\ pc[p] \in {"read", "readMeta", "open"} => step[p] \notin {"out", "getlk", "unlink"}
  /\ pc[p] \in {"open", "write", "unlock"} =>
       mode[p] = "w" /\ file[p] = "zca" /\ step[p] \notin {"create", "reopen", "crashed"}
  /\ pc[p] \in {"lookup", "download", "again", "open"} => size[p] = 0
  /\ pc[p] = "write" => size[p] < length

(* A file that is looked at or stored is there ...                         *)
PresentInv ==
  \A p \in Processes : pc[p] \notin {"lookup", "download", "again", "open", "ended"} => Present("zca")

(* ... and a request that need not store the document can rely on another. *)
AnotherInv ==
  \A p \in Processes : (pc[p] = "open" /\ step[p] = "failed") \/ answer[p] = "downloaded" =>
    Present("zca") \/ \E q \in Processes : pc[q] = "open" /\ step[q] \in {"setlk", "in"}

(* What is not in the cache yet will be written by somebody who is at it.  *)
Pending(p, b) == \/ pc[p] = "write" /\ (memory = "load" \/ size[p] < b)
                 \/ pc[p] \in {"write", "unlock", "close"} /\ b = length
BlockInv == Present("zca") =>
  \A b \in 1 .. length : b \in content["zca"] \/ \E p \in Processes : Pending(p, b)

Before(last) == CASE last = "zcmOpen"  -> {"write", "unlock", "close", "zcmOpen"}
                  [] last = "zcmClose" -> {"write", "unlock", "close", "zcmOpen", "zcmClose"}
                  [] last = "zcpOpen"  -> {"write", "unlock", "close", "zcmOpen", "zcmClose", "zcpOpen"}
                  [] last = "zcpClose" -> Storing
Comes(f, b, last) == b \in content[f] \/ \E p \in Processes : pc[p] \in Before(last)
MetaInv == Present("zca") => /\ Comes("zcm", 0, "zcmOpen") /\ Comes("zcm", 1, "zcmClose")
                             /\ Comes("zcp", 0, "zcpOpen") /\ Comes("zcp", 1, "zcpClose")

BoundInv == /\ content["zca"] \subseteq 0 .. length
            /\ content["zcm"] \subseteq {0, 1} /\ content["zcp"] \subseteq {0, 1}

IInv == /\ LocksOK /\ CacheTypes /\ InodeInv /\ NameInv
        /\ (\A p \in Processes : PcInv(p)) /\ PresentInv /\ AnotherInv
        /\ BlockInv /\ MetaInv /\ BoundInv

-----------------------------------------------------------------------------
(* The lock.                                                               *)

(* There is an inode to give to a new file: at most one for each name and  *)
(* each process is taken.                                                  *)
LEMMA FreshOK ==
  ASSUME LocksOK
  PROVE  /\ Fresh \in Inodes /\ Fresh # NoInode
         /\ \A f \in Files : named[f] # Fresh
         /\ \A p \in Processes : handle[p] # Fresh
<1> DEFINE used == Range(named) \union Range(handle)
<1>1. /\ IsFiniteSet(Range(named)) /\ Cardinality(Range(named)) <= Cardinality(Files)
      /\ IsFiniteSet(Range(handle)) /\ Cardinality(Range(handle)) <= Cardinality(Processes)
  <2>1. named \in Surjection(Files, Range(named)) /\ handle \in Surjection(Processes, Range(handle))
    BY DEF LocksOK, Surjection, Range
  <2>q. QED BY <2>1, FiniteAssumption, FS_Surjection
<1>2. /\ Cardinality(Files) \in Nat /\ Cardinality(Processes) \in Nat
      /\ Cardinality(Range(named)) \in Nat /\ Cardinality(Range(handle)) \in Nat
  BY <1>1, FiniteAssumption, FS_CardinalityType
<1>3. IsFiniteSet(used) /\ Cardinality(used) <= Cardinality(Files) + Cardinality(Processes)
  <2>1. IsFiniteSet(Range(named) \cap Range(handle))
    BY <1>1, FS_Subset
  <2>2. Cardinality(Range(named) \cap Range(handle)) \in Nat
    BY <2>1, FS_CardinalityType
  <2>3. IsFiniteSet(used) /\ Cardinality(used) = Cardinality(Range(named)) + Cardinality(Range(handle))
                                                - Cardinality(Range(named) \cap Range(handle))
    BY <1>1, FS_Union
  <2>q. QED BY <1>1, <1>2, <2>2, <2>3
<1> DEFINE total == Cardinality(Processes) + Cardinality(Files) + 1
<1>4. IsFiniteSet(Inodes) /\ Cardinality(Inodes) = total
  <2>1. total \in Int /\ 1 \in Int /\ ~(1 > total)
    BY <1>2
  <2> HIDE DEF total
  <2>2. IsFiniteSet(1 .. total) /\ Cardinality(1 .. total) = total - 1 + 1
    BY <2>1, FS_Interval
  <2>q. QED BY <2>1, <2>2 DEF Inodes, total
<1>5. ~(Inodes \subseteq used)
  <2> SUFFICES ASSUME Inodes \subseteq used PROVE FALSE
    OBVIOUS
  <2>1. Cardinality(Inodes) <= Cardinality(used)
    BY <1>3, FS_Subset
  <2>2. Cardinality(used) \in Nat
    BY <1>3, FS_CardinalityType
  <2> HIDE DEF used
  <2>q. QED BY <1>2, <1>3, <1>4, <2>1, <2>2
<1>6. Fresh \in Inodes /\ Fresh \notin used
  BY <1>5 DEF Fresh
<1>7. (\A f \in Files : named[f] \in used) /\ (\A p \in Processes : handle[p] \in used)
  BY DEF LocksOK, Range
<1>8. Fresh # NoInode
  BY <1>2, <1>6 DEF Inodes, NoInode
<1> HIDE DEF used
<1>q. QED BY <1>6, <1>7, <1>8

LockOp(p) == LockStep(p) \/ UnlockFile(p) \/ \E f \in Files, m \in {"r", "w"} : LockFile(p, f, m)

LEMMA LockTypes ==
  ASSUME LocksOK, NEW p \in Processes, LockOp(p)
  PROVE  LocksOK'
<1> USE RetryAssumption DEF LocksOK, Goto, Steps
<1>c. ASSUME NEW f \in Files, CreateName(f)
      PROVE  named' \in [Files -> Inodes \union {NoInode}]
  BY <1>c, FreshOK DEF CreateName
<1>1. CASE Stat(p)  BY <1>1 DEF Stat
<1>2. CASE Open(p)
  <2>1. named' \in [Files -> Inodes \union {NoInode}]
    BY <1>2, <1>c DEF Open
  <2>q. QED BY <1>2, <2>1 DEF Open
<1>3. CASE Create(p)
  <2>1. named' \in [Files -> Inodes \union {NoInode}]
    BY <1>3, <1>c DEF Create
  <2>q. QED BY <1>3, <2>1 DEF Create
<1>4. CASE Reopen(p)  BY <1>4 DEF Reopen
<1>5. CASE SetLk(p)  BY <1>5 DEF SetLk
<1>6. CASE GetLk(p)  BY <1>6 DEF GetLk
<1>7. CASE UnlinkLock(p)  BY <1>7 DEF UnlinkLock
<1>8. CASE UnlockFile(p)  BY <1>8 DEF UnlockFile
<1>9. ASSUME NEW f \in Files, NEW m \in {"r", "w"}, LockFile(p, f, m) PROVE LocksOK'
  BY <1>9 DEF LockFile
<1>q. QED BY <1>1, <1>2, <1>3, <1>4, <1>5, <1>6, <1>7, <1>8, <1>9 DEF LockOp, LockStep

(* An operation changes the state of its own process, and the names.       *)
LEMMA OthersKept ==
  ASSUME LocksOK, NEW p \in Processes, LockOp(p), NEW q \in Processes, q # p
  PROVE  /\ handle'[q] = handle[q] /\ grip'[q] = grip[q] /\ step'[q] = step[q]
         /\ file'[q] = file[q] /\ mode'[q] = mode[q]
<1> USE DEF LocksOK, Goto
<1>1. CASE Stat(p)  BY <1>1 DEF Stat
<1>2. CASE Open(p)  BY <1>2 DEF Open
<1>3. CASE Create(p)  BY <1>3 DEF Create
<1>4. CASE Reopen(p)  BY <1>4 DEF Reopen
<1>5. CASE SetLk(p)  BY <1>5 DEF SetLk
<1>6. CASE GetLk(p)  BY <1>6 DEF GetLk
<1>7. CASE UnlinkLock(p)  BY <1>7 DEF UnlinkLock
<1>8. CASE UnlockFile(p)  BY <1>8 DEF UnlockFile
<1>9. ASSUME NEW f \in Files, NEW m \in {"r", "w"}, LockFile(p, f, m)
      PROVE  /\ handle'[q] = handle[q] /\ grip'[q] = grip[q] /\ step'[q] = step[q]
             /\ file'[q] = file[q] /\ mode'[q] = mode[q]
  BY <1>9 DEF LockFile
<1>q. QED BY <1>1, <1>2, <1>3, <1>4, <1>5, <1>6, <1>7, <1>8, <1>9 DEF LockOp, LockStep

(* What an operation does to the names: it leaves them, makes one that is  *)
(* not there, or removes one.                                              *)
LEMMA NamesStep ==
  ASSUME LocksOK, NEW p \in Processes, LockOp(p)
  PROVE  \/ named' = named
         \/ /\ ~Exists(file[p]) /\ named' = [named EXCEPT ![file[p]] = Fresh]
            /\ step[p] \in {"open", "create"}
         \/ named' = [named EXCEPT ![file[p]] = NoInode] /\ UnlinkLock(p)
<1> USE DEF LocksOK, Goto, CreateName
<1>1. CASE Stat(p)  BY <1>1 DEF Stat
<1>2. CASE Open(p)  BY <1>2 DEF Open
<1>3. CASE Create(p)  BY <1>3 DEF Create
<1>4. CASE Reopen(p)  BY <1>4 DEF Reopen
<1>5. CASE SetLk(p)  BY <1>5 DEF SetLk
<1>6. CASE GetLk(p)  BY <1>6 DEF GetLk
<1>7. CASE UnlinkLock(p)  BY <1>7 DEF UnlinkLock
<1>8. CASE UnlockFile(p)  BY <1>8 DEF UnlockFile
<1>9. ASSUME NEW f \in Files, NEW m \in {"r", "w"}, LockFile(p, f, m) PROVE named' = named
  BY <1>9 DEF LockFile
<1>q. QED BY <1>1, <1>2, <1>3, <1>4, <1>5, <1>6, <1>7, <1>8, <1>9 DEF LockOp, LockStep

(* What it does to its own process.                                        *)
LEMMA OwnStep ==
  ASSUME LocksOK, InodeInv, NEW p \in Processes, LockOp(p)
  PROVE  /\ handle'[p] # NoInode <=> step'[p] \in InLock
         /\ grip'[p] # "none" <=> step'[p] = "in"
         /\ file'[p] = file[p] \/ handle'[p] = NoInode
         /\ \/ handle'[p] \in {handle[p], NoInode}
            \/ handle'[p] = named'[file[p]] /\ file'[p] = file[p]
<1> USE FreshOK DEF LocksOK, Goto, CreateName, Exists, InodeInv, InLock
<1>1. CASE Stat(p)  BY <1>1 DEF Stat
<1>2. CASE Open(p)
  <2>1. CASE mode[p] = "w"
    <3>1. named'[file[p]] # NoInode
      BY <1>2, <2>1 DEF Open
    <3>q. QED BY <1>2, <2>1, <3>1 DEF Open
  <2>2. CASE mode[p] = "r"
    BY <1>2, <2>2 DEF Open
  <2>q. QED BY <2>1, <2>2
<1>3. CASE Create(p)  BY <1>3 DEF Create
<1>4. CASE Reopen(p)  BY <1>4 DEF Reopen
<1>5. CASE SetLk(p)  BY <1>5 DEF SetLk
<1>6. CASE GetLk(p)  BY <1>6 DEF GetLk
<1>7. CASE UnlinkLock(p)  BY <1>7 DEF UnlinkLock
<1>8. CASE UnlockFile(p)  BY <1>8 DEF UnlockFile
<1>9. ASSUME NEW f \in Files, NEW m \in {"r", "w"}, LockFile(p, f, m)
      PROVE  /\ step[p] \in {"out", "failed"} /\ step'[p] = "stat" /\ handle' = handle /\ grip' = grip
  BY <1>9 DEF LockFile
<1>q. QED BY <1>1, <1>2, <1>3, <1>4, <1>5, <1>6, <1>7, <1>8, <1>9 DEF LockOp, LockStep

LEMMA InodeStep ==
  ASSUME LocksOK, InodeInv, NEW p \in Processes, LockOp(p)
  PROVE  InodeInv'
<1> USE DEF Exists
<1>1. /\ handle'[p] # NoInode <=> step'[p] \in InLock
      /\ grip'[p] # "none" <=> step'[p] = "in"
      /\ file'[p] = file[p] \/ handle'[p] = NoInode
      /\ \/ handle'[p] \in {handle[p], NoInode}
         \/ handle'[p] = named'[file[p]] /\ file'[p] = file[p]
  BY OwnStep
<1>2. \A q \in Processes : q # p =>
        /\ handle'[q] = handle[q] /\ grip'[q] = grip[q] /\ step'[q] = step[q] /\ file'[q] = file[q]
  BY OthersKept
<1>3. file[p] \in Files /\ \A f \in Files :
        named'[f] \in {named[f], NoInode} \/ (f = file[p] /\ named'[f] = Fresh)
  BY NamesStep DEF LocksOK
<1>4. \A f, g \in Files : named'[f] = named'[g] /\ named'[f] # NoInode => f = g
  BY <1>3, FreshOK DEF InodeInv
<1>5. \A q \in Processes,
f \in Files : q # p /\ handle'[q] = named'[f] /\ handle'[q] # NoInode => file'[q] = f
  BY <1>2, <1>3, FreshOK DEF InodeInv
<1>6. \A f \in Files : handle'[p] = named'[f] /\ handle'[p] # NoInode => file'[p] = f
  BY <1>1, <1>3, <1>4, FreshOK DEF InodeInv
<1>7. \A q \in Processes : q # p /\ handle'[p] = handle'[q] /\ handle'[p] # NoInode => file'[p] = file'[q]
  <2> SUFFICES ASSUME NEW q \in Processes, q # p, handle'[p] = handle'[q], handle'[p] # NoInode
               PROVE  file'[p] = file'[q]
    OBVIOUS
  <2>1. CASE handle'[p] = handle[p]
    <3>1. handle[p] = handle[q] /\ handle[p] # NoInode /\ file'[p] = file[p] /\ file'[q] = file[q]
      BY <2>1, <1>1, <1>2
    <3>2. file[p] = file[q]
      BY <3>1 DEF InodeInv
    <3>q. QED BY <3>1, <3>2
  <2>2. CASE handle'[p] = named'[file[p]] /\ file'[p] = file[p]
    BY <2>2, <1>2, <1>3, <1>5
  <2>q. QED BY <2>1, <2>2, <1>1
<1>8. \A q, r \in Processes : q # p /\ r # p /\ handle'[q] = handle'[r] /\ handle'[q] # NoInode => file'[q] = file'[r]
  BY <1>2 DEF InodeInv
<1>9. \A q \in Processes : /\ handle'[q] # NoInode <=> step'[q] \in InLock
                           /\ grip'[q] # "none" <=> step'[q] = "in"
  BY <1>1, <1>2 DEF InodeInv
<1>10. \A q, r \in Processes : handle'[q] = handle'[r] /\ handle'[q] # NoInode => file'[q] = file'[r]
  <2> SUFFICES ASSUME NEW q \in Processes, NEW r \in Processes, handle'[q] = handle'[r],
  handle'[q] # NoInode
               PROVE  file'[q] = file'[r]
    OBVIOUS
  <2>1. CASE q = p /\ r # p
    BY <2>1, <1>7
  <2>2. CASE r = p /\ q # p
    BY <2>2, <1>7
  <2>3. CASE q # p /\ r # p
    BY <2>3, <1>8
  <2>q. QED BY <2>1, <2>2, <2>3
<1>11. \A q \in Processes, f \in Files : handle'[q] = named'[f] /\ handle'[q] # NoInode => file'[q] = f
  BY <1>5, <1>6
<1>q. QED
  <2>1. (\A f, g \in Files : named[f] = named[g] /\ Exists(f) => f = g)'
    BY <1>4
  <2>2. (\A q \in Processes : /\ handle[q] # NoInode <=> step[q] \in InLock
                              /\ grip[q] # "none" <=> step[q] = "in")'
    BY <1>9
  <2>3. (\A q, r \in Processes : handle[q] = handle[r] /\ handle[q] # NoInode => file[q] = file[r])'
    BY <1>10
  <2>4. (\A q \in Processes, f \in Files : handle[q] = named[f] /\ handle[q] # NoInode => file[q] = f)'
    BY <1>11
  <2> HIDE DEF Exists
  <2>q. QED BY <2>1, <2>2, <2>3, <2>4 DEF InodeInv

(* The last one to release an inode is responsible for the name, whoever   *)
(* gives up or leaves before.                                              *)
LEMMA NameStep ==
  ASSUME LocksOK, InodeInv, InodeInv', NameInv, NEW p \in Processes, LockOp(p)
  PROVE  NameInv'
<1> SUFFICES ASSUME NEW f \in Files, named'[f] # NoInode
             PROVE  \E r \in Processes : Responsible(r, f)'
  BY DEF NameInv, Exists
<1>1. \A q \in Processes : q # p =>
        /\ handle'[q] = handle[q] /\ grip'[q] = grip[q] /\ step'[q] = step[q] /\ file'[q] = file[q]
  BY OthersKept
<1>2. CASE named'[f] # named[f]
  <2>1. f = file[p] /\ step[p] \in {"open", "create"}
    BY <1>2, NamesStep DEF LocksOK
  <2>2. Open(p) \/ Create(p)
    BY <2>1 DEF LockOp, LockStep, Stat, Open, Create, Reopen, SetLk, GetLk, UnlinkLock, UnlockFile,
         LockFile, Goto
  <2>3. Responsible(p, f)'
    BY <1>2, <2>1, <2>2 DEF Open, Create, Responsible, Goto, InLock, LocksOK
  <2>q. QED BY <2>3
<1>3. CASE named'[f] = named[f]
  <2>1. PICK r \in Processes : Responsible(r, f)
    BY <1>3 DEF NameInv, Exists
  <2>2. CASE r # p
    BY <1>1, <1>3, <2>1, <2>2 DEF Responsible
  <2>3. CASE r = p
    <3>1. file[p] = f /\ (step[p] = "reopen" \/ (step[p] \in InLock /\ handle[p] = named[f]))
      BY <2>1, <2>3 DEF Responsible
    <3>2. ASSUME NEW q \in Sharing(p),
    handle[p] = named[f] PROVE \E s \in Processes : Responsible(s, f)'
      <4>1. q \in Processes /\ q # p /\ handle[q] = named[f] /\ step[q] = "in" /\ file[q] = f
        BY <3>2, <1>3 DEF Sharing, InodeInv
      <4>q. QED BY <4>1, <1>1, <1>3 DEF Responsible, InLock
    <3>3. CASE Reopen(p)
      BY <3>1, <3>3, <1>3 DEF Reopen, Goto, Exists, Responsible, InLock, LocksOK
    <3>4. CASE SetLk(p)
      <4>1. CASE step'[p] = "failed"
        <5>1. Sharing(p) # {} /\ handle[p] = named[f]
          BY <3>1, <3>4, <4>1 DEF SetLk, Goto, LocksOK
        <5>q. QED BY <5>1, <3>2
      <4>2. CASE step'[p] # "failed"
        BY <3>1, <3>4, <4>2, <1>3 DEF SetLk, Goto, Responsible, InLock, LocksOK
      <4>q. QED BY <4>1, <4>2
    <3>5. CASE UnlockFile(p)
      BY <3>1, <3>5, <1>3 DEF UnlockFile, Goto, Responsible, InLock, LocksOK
    <3>6. CASE GetLk(p)
      <4>1. CASE Sharing(p) # {}
        BY <3>1, <3>2, <3>6, <4>1 DEF GetLk, Goto
      <4>2. CASE Sharing(p) = {}
        BY <3>1, <3>6, <4>2, <1>3 DEF GetLk, Goto, Responsible, InLock, LocksOK
      <4>q. QED BY <4>1, <4>2
    <3>7. CASE UnlinkLock(p)
      BY <3>1, <3>7, <1>3 DEF UnlinkLock, Goto, LocksOK
    <3>q. QED BY <3>1, <3>3, <3>4, <3>5, <3>6, <3>7 DEF LockOp, LockStep, Stat, Open, Create,
                 LockFile, Goto, InLock
  <2>q. QED BY <2>2, <2>3
<1>q. QED BY <1>2, <1>3

-----------------------------------------------------------------------------
(* The requests.                                                           *)

Work(p) == Fetch(p) \/ Store(p) \/ (LockStep(p) /\ UNCHANGED cacheVars)

(* A request's step is an operation of the lock or leaves it alone.        *)
LEMMA WorkOnLock ==
  ASSUME LocksOK, NEW p \in Processes, Work(p)
  PROVE  LockOp(p) \/ UNCHANGED lockVars
<1>1. CASE LockStep(p)
  BY <1>1 DEF LockOp
<1>2. CASE Measure(p)
  BY <1>2, FileAssumption DEF Measure, LockOp
<1>3. CASE OpenMeta(p)
  BY <1>3, FileAssumption DEF OpenMeta, LockOp
<1>4. CASE LookAgain(p)
  BY <1>4, FileAssumption DEF LookAgain, LockOp
<1>5. CASE Lookup(p) \/ GiveUp(p) \/ ReadContent(p) \/ ReadMeta(p) \/ CheckSize(p)
  BY <1>5 DEF Lookup, GiveUp, ReadContent, ReadMeta, CheckSize, LockOp
<1>6. CASE Download(p) \/ DoNotStore(p) \/ OpenCache(p) \/ AddToCache(p) \/ CacheFile(p)
           \/ UnlockCache(p) \/ CloseCache(p) \/ StoreMeta(p)
  BY <1>6 DEF Download, DoNotStore, OpenCache, AddToCache, CacheFile, UnlockCache, CloseCache,
              StoreMeta, LockOp
<1>q. QED BY <1>1, <1>2, <1>3, <1>4, <1>5, <1>6 DEF Work, Fetch, Store

LEMMA LockInvs ==
  ASSUME LocksOK, InodeInv, NameInv, NEW p \in Processes, LockOp(p) \/ UNCHANGED lockVars
  PROVE  LocksOK' /\ InodeInv' /\ NameInv'
<1>1. CASE LockOp(p)
  BY <1>1, LockTypes, InodeStep, NameStep
<1>2. CASE UNCHANGED lockVars
  BY <1>2 DEF lockVars, LocksOK, InodeInv, NameInv, Responsible, Exists
<1>q. QED BY <1>1, <1>2

(* A set of naturals has a least element, a bounded one a greatest.        *)
LEMMA Least ==
  ASSUME NEW T \in SUBSET Nat, T # {}
  PROVE  \E x \in T : \A y \in T : x <= y
<1> DEFINE R == {ss \in Nat \X Nat : ss[1] < ss[2]}
<1>1. PICK x \in T : \A y \in T : ~(<<y, x>> \in R)
  <2>1. IsWellFoundedOn(R, Nat)
    BY NatLessThanWellFounded DEF OpToRel
  <2> HIDE DEF R
  <2>q. QED BY <2>1, WFMin
<1>2. \A y \in T : ~(y < x)
  BY <1>1
<1>3. \A y \in T : x <= y
  BY <1>2
<1>q. QED BY <1>3

LEMMA Greatest ==
  ASSUME NEW bound \in Nat, NEW T \in SUBSET (0 .. bound), T # {}
  PROVE  \E x \in T : \A y \in T : y <= x
<1> DEFINE U == {bound - t : t \in T}
<1>1. PICK x \in U : \A y \in U : x <= y
  <2>1. U \in SUBSET Nat /\ U # {}
    <3>1. \A t \in T : bound - t \in Nat
      OBVIOUS
    <3>2. PICK t \in T : TRUE
      OBVIOUS
    <3>q. QED BY <3>1, <3>2
  <2> HIDE DEF U
  <2>q. QED BY <2>1, Least
<1>2. PICK m \in T : x = bound - m
  OBVIOUS
<1>3. ASSUME NEW y \in T PROVE y <= m
  <2>1. x <= bound - y
    BY <1>1
  <2>q. QED BY <1>2, <2>1
<1>q. QED BY <1>3

LEMMA Sizes ==
  ASSUME CacheTypes, NEW f \in Files
  PROVE  SizeOf(f) \in 0 .. MaxBlocks /\ (SizeOf(f) > 0 => Present(f))
<1>1. CASE ~Present(f)
  BY <1>1, BlockAssumption DEF SizeOf
<1>2. CASE Present(f)
  <2>1. content[f] \in SUBSET (0 .. MaxBlocks) /\ content[f] # {}
    BY <1>2 DEF CacheTypes, Present
  <2>2. \E n \in content[f] : \A m \in content[f] : m <= n
    BY <2>1, BlockAssumption, Greatest
  <2>3. SizeOf(f) \in content[f]
    BY <1>2, <2>2 DEF SizeOf
  <2>q. QED BY <1>2, <2>1, <2>3
<1>q. QED BY <1>1, <1>2

(* A step leaves the other requests alone.                                 *)
LEMMA OthersGoOn ==
  ASSUME CacheTypes, NEW p \in Processes, Work(p), NEW q \in Processes, q # p
  PROVE  pc'[q] = pc[q] /\ size'[q] = size[q] /\ answer'[q] = answer[q]
<1> USE DEF CacheTypes, Jump, End
<1>1. CASE Lookup(p)  BY <1>1 DEF Lookup
<1>2. CASE Measure(p)  BY <1>2 DEF Measure
<1>3. CASE GiveUp(p)  BY <1>3 DEF GiveUp
<1>4. CASE ReadContent(p)  BY <1>4 DEF ReadContent
<1>5. CASE OpenMeta(p)  BY <1>5 DEF OpenMeta
<1>6. CASE ReadMeta(p)  BY <1>6 DEF ReadMeta
<1>7. CASE CheckSize(p)  BY <1>7 DEF CheckSize
<1>8. CASE Download(p)  BY <1>8 DEF Download
<1>9. CASE LookAgain(p)  BY <1>9 DEF LookAgain
<1>10. CASE DoNotStore(p)  BY <1>10 DEF DoNotStore
<1>11. CASE OpenCache(p)  BY <1>11 DEF OpenCache
<1>12. CASE AddToCache(p)  BY <1>12 DEF AddToCache
<1>13. CASE CacheFile(p)  BY <1>13 DEF CacheFile
<1>14. CASE UnlockCache(p)  BY <1>14 DEF UnlockCache
<1>15. CASE CloseCache(p)  BY <1>15 DEF CloseCache
<1>16. CASE StoreMeta(p)  BY <1>16 DEF StoreMeta
<1>17. CASE UNCHANGED cacheVars  BY <1>17 DEF cacheVars
<1>q. QED BY <1>1, <1>2, <1>3, <1>4, <1>5, <1>6, <1>7, <1>8, <1>9, <1>10, <1>11, <1>12, <1>13,
             <1>14, <1>15, <1>16, <1>17 DEF Work, Fetch, Store

LEMMA CacheTypesStep ==
  ASSUME CacheTypes, NEW p \in Processes, PcInv(p), Work(p)
  PROVE  CacheTypes' /\ UNCHANGED <<memory, length>>
<1> USE BlockAssumption, FileAssumption DEF CacheTypes, Jump, End, Answers, Pcs, Storing, Truncate,
WriteBlocks
<1>1. CASE Lookup(p)  BY <1>1 DEF Lookup
<1>2. CASE Measure(p)
  BY <1>2, Sizes DEF Measure
<1>3. CASE GiveUp(p)  BY <1>3 DEF GiveUp
<1>4. CASE ReadContent(p)  BY <1>4 DEF ReadContent
<1>5. CASE OpenMeta(p)  BY <1>5 DEF OpenMeta
<1>6. CASE ReadMeta(p)  BY <1>6 DEF ReadMeta
<1>7. CASE CheckSize(p)  BY <1>7 DEF CheckSize
<1>8. CASE Download(p)  BY <1>8 DEF Download
<1>9. CASE LookAgain(p)  BY <1>9 DEF LookAgain
<1>10. CASE DoNotStore(p)  BY <1>10 DEF DoNotStore
<1>11. CASE OpenCache(p)  BY <1>11 DEF OpenCache
<1>12. CASE AddToCache(p)  BY <1>12 DEF AddToCache
<1>13. CASE CacheFile(p)
  <2>1. size[p] + 1 \in 0 .. MaxBlocks /\ length \in 0 .. MaxBlocks
    BY <1>13 DEF CacheFile, PcInv
  <2>q. QED BY <1>13, <2>1 DEF CacheFile
<1>14. CASE UnlockCache(p)  BY <1>14 DEF UnlockCache
<1>15. CASE CloseCache(p)  BY <1>15 DEF CloseCache
<1>16. CASE StoreMeta(p)  BY <1>16 DEF StoreMeta
<1>17. CASE UNCHANGED cacheVars  BY <1>17 DEF cacheVars
<1>q. QED BY <1>1, <1>2, <1>3, <1>4, <1>5, <1>6, <1>7, <1>8, <1>9, <1>10, <1>11, <1>12, <1>13,
             <1>14, <1>15, <1>16, <1>17 DEF Work, Fetch, Store

LEMMA PcStep ==
  ASSUME LocksOK, CacheTypes, CacheTypes', NEW p \in Processes, PcInv(p), Work(p)
  PROVE  PcInv(p)'
<1> USE BlockAssumption DEF CacheTypes, LocksOK, Jump, End, Pcs, Storing, Goto, PcInv
<1>1. CASE Lookup(p)  BY <1>1 DEF Lookup, lockVars
<1>2. CASE Measure(p)  BY <1>2 DEF Measure, LockFile, lockVars
<1>3. CASE GiveUp(p)  BY <1>3 DEF GiveUp, lockVars
<1>4. CASE ReadContent(p)  BY <1>4 DEF ReadContent, UnlockFile
<1>5. CASE OpenMeta(p)  BY <1>5 DEF OpenMeta, LockFile, lockVars
<1>6. CASE ReadMeta(p)  BY <1>6 DEF ReadMeta, UnlockFile
<1>7. CASE CheckSize(p)  BY <1>7 DEF CheckSize, lockVars
<1>8. CASE Download(p)  BY <1>8 DEF Download, lockVars
<1>9. CASE LookAgain(p)  BY <1>9 DEF LookAgain, LockFile, lockVars
<1>10. CASE DoNotStore(p)  BY <1>10 DEF DoNotStore, lockVars
<1>11. CASE OpenCache(p)  BY <1>11 DEF OpenCache, lockVars
<1>12. CASE AddToCache(p)  BY <1>12 DEF AddToCache, lockVars
<1>13. CASE CacheFile(p)  BY <1>13 DEF CacheFile, lockVars
<1>14. CASE UnlockCache(p)  BY <1>14 DEF UnlockCache, UnlockFile
<1>15. CASE CloseCache(p)  BY <1>15 DEF CloseCache, lockVars
<1>16. CASE StoreMeta(p)  BY <1>16 DEF StoreMeta, lockVars
<1>17. CASE LockStep(p) /\ UNCHANGED cacheVars
  BY <1>17 DEF cacheVars, LockStep, Stat, Open, Create, Reopen, SetLk, GetLk, UnlinkLock
<1>q. QED BY <1>1, <1>2, <1>3, <1>4, <1>5, <1>6, <1>7, <1>8, <1>9, <1>10, <1>11, <1>12, <1>13,
             <1>14, <1>15, <1>16, <1>17 DEF Work, Fetch, Store

LEMMA PcsStep ==
  ASSUME LocksOK, CacheTypes, CacheTypes', UNCHANGED <<memory, length>>,
         \A q \in Processes : PcInv(q), NEW p \in Processes, Work(p)
  PROVE  \A q \in Processes : PcInv(q)'
<1>1. PcInv(p)'
  BY PcStep
<1>2. ASSUME NEW q \in Processes, q # p
      PROVE  PcInv(q)'
  <2>1. pc'[q] = pc[q] /\ size'[q] = size[q]
    BY <1>2, OthersGoOn
  <2>2. step'[q] = step[q] /\ file'[q] = file[q] /\ mode'[q] = mode[q]
    BY <1>2, WorkOnLock, OthersKept DEF lockVars
  <2>q. QED BY <2>1, <2>2 DEF PcInv
<1>q. QED BY <1>1, <1>2

(* The steps that write; a file that is there stays there.                 *)
LEMMA ContentStep ==
  ASSUME CacheTypes, NEW p \in Processes, Work(p)
  PROVE  content' = content \/ OpenCache(p) \/ AddToCache(p) \/ CacheFile(p) \/ CloseCache(p) \/ StoreMeta(p)
BY DEF Work, Fetch, Store, Lookup, Measure, GiveUp, ReadContent, OpenMeta, ReadMeta, CheckSize,
     Download,
       LookAgain, DoNotStore, UnlockCache, cacheVars

LEMMA StaysPresent ==
  ASSUME CacheTypes, NEW p \in Processes, Work(p), Present("zca")
  PROVE  Present("zca")'
<1> USE FileAssumption DEF Present, CacheTypes, Truncate, WriteBlocks
<1>1. CASE content' = content  BY <1>1
<1>2. CASE OpenCache(p)  BY <1>2 DEF OpenCache
<1>3. CASE AddToCache(p)  BY <1>3 DEF AddToCache
<1>4. CASE CacheFile(p)  BY <1>4 DEF CacheFile
<1>5. CASE CloseCache(p)  BY <1>5 DEF CloseCache
<1>6. CASE StoreMeta(p)  BY <1>6 DEF StoreMeta
<1>q. QED BY <1>1, <1>2, <1>3, <1>4, <1>5, <1>6, ContentStep

(* Before the file is there nobody looks at it and nobody stores it.       *)
Early == {"lookup", "download", "again", "open", "ended"}

LEMMA PresentStep ==
  ASSUME CacheTypes, PresentInv, NEW p \in Processes, Work(p)
  PROVE  PresentInv'
<1> SUFFICES ASSUME NEW q \in Processes, pc'[q] \notin Early
             PROVE  Present("zca")'
  BY DEF PresentInv, Early
<1>1. CASE pc[q] \notin Early
  BY <1>1, StaysPresent DEF PresentInv, Early
<1>2. CASE pc[q] \in Early
  <2>1. q = p
    BY <1>2, OthersGoOn
  <2>2. Lookup(p) \/ OpenCache(p)
    BY <1>2, <2>1 DEF Work, Fetch, Store, Measure, GiveUp, ReadContent, OpenMeta, ReadMeta, CheckSize,
       Download, LookAgain, DoNotStore, AddToCache, CacheFile, UnlockCache, CloseCache, StoreMeta,
       cacheVars, Jump, End, Early, CacheTypes
  <2>3. CASE Lookup(p)
    <3>1. Cached
      BY <2>1, <2>3 DEF Lookup, Jump, Early, CacheTypes
    <3>2. Present("zca")
      BY <3>1, Sizes, FileAssumption DEF Cached
    <3>q. QED BY <3>2, StaysPresent
  <2>4. CASE OpenCache(p)
    BY <2>4, FileAssumption DEF OpenCache, Truncate, Present, CacheTypes
  <2>q. QED BY <2>2, <2>3, <2>4
<1>q. QED BY <1>1, <1>2

(* While the file is not there, whoever has a lock file of it open, or     *)
(* holds it, is about to store the document.                               *)
LEMMA Storer ==
  ASSUME ~Present("zca"), PresentInv, NEW q \in Processes, PcInv(q),
         step[q] \in {"reopen"} \union InLock
  PROVE  pc[q] = "open" /\ step[q] \in {"setlk", "in"}
BY DEF PresentInv, PcInv, InLock, Pcs, Storing

(* The request that gives up its lock leaves it to such a one.             *)
LEMMA GivesUp ==
  ASSUME LocksOK, InodeInv, NameInv, ~Present("zca"), PresentInv, \A q \in Processes : PcInv(q),
         NEW p \in Processes, pc[p] = "open", LockStep(p), step'[p] = "failed"
  PROVE  \E q \in Processes \ {p} : pc[q] = "open" /\ step[q] \in {"setlk", "in"}
<1>1. file[p] = "zca" /\ mode[p] = "w"
  BY DEF PcInv
<1>2. CASE Stat(p)
  <2>1. Exists("zca") /\ step[p] = "stat"
    BY <1>1, <1>2 DEF Stat, Goto, LocksOK
  <2>2. PICK r \in Processes : Responsible(r, "zca")
    BY <2>1, FileAssumption DEF NameInv
  <2>3. r # p /\ step[r] \in {"reopen"} \union InLock
    BY <2>1, <2>2 DEF Responsible, InLock
  <2>q. QED BY <2>3, Storer
<1>3. CASE SetLk(p)
  <2>1. PICK r \in Sharing(p) : TRUE
    BY <1>3 DEF SetLk, Goto, LocksOK
  <2>2. r \in Processes /\ r # p /\ step[r] \in {"reopen"} \union InLock
    BY <2>1 DEF Sharing, InodeInv, InLock
  <2>q. QED BY <2>2, Storer
<1>q. QED BY <1>2, <1>3 DEF LockStep, Open, Create, Reopen, GetLk, UnlinkLock, Goto, LocksOK

LEMMA AnotherStep ==
  ASSUME LocksOK, CacheTypes, InodeInv, NameInv, \A q \in Processes : PcInv(q), PresentInv, AnotherInv,
         NEW p \in Processes, Work(p)
  PROVE  AnotherInv'
<1> SUFFICES ASSUME NEW q \in Processes,
                    (pc[q] = "open" /\ step[q] = "failed")' \/ answer'[q] = "downloaded",
                    ~Present("zca")'
             PROVE  \E r \in Processes : pc'[r] = "open" /\ step'[r] \in {"setlk", "in"}
  BY DEF AnotherInv
<1>1. ~Present("zca")
  BY StaysPresent
<1>2. \A r \in Processes : r # p => pc'[r] = pc[r] /\ step'[r] = step[r] /\ answer'[r] = answer[r]
  BY OthersGoOn, WorkOnLock, OthersKept DEF lockVars
<1> DEFINE Stores(r) == pc[r] = "open" /\ step[r] \in {"setlk", "in"}
<1>3. ASSUME NEW r \in Processes, r # p, Stores(r)
      PROVE  Stores(r)'
  BY <1>2, <1>3
<1>4. ASSUME LockStep(p), pc[p] = "open", step'[p] = "failed"
      PROVE  \E r \in Processes : Stores(r)'
  BY <1>1, <1>3, <1>4, GivesUp
<1>5. CASE (pc[q] = "open" /\ step[q] = "failed") \/ answer[q] = "downloaded"
  <2>1. PICK r \in Processes : Stores(r)
    BY <1>1, <1>5 DEF AnotherInv
  <2>2. CASE r # p
    BY <1>3, <2>1, <2>2
  <2>3. CASE r = p
    <3>1. ~OpenCache(p)
      BY FileAssumption DEF OpenCache, Truncate, Present, CacheTypes
    <3>2. LockStep(p) /\ UNCHANGED cacheVars
      BY <2>1, <2>3, <3>1 DEF Work, Fetch, Store, Lookup, Measure, GiveUp, ReadContent, OpenMeta,
           ReadMeta,
         CheckSize, Download, LookAgain, DoNotStore, AddToCache, CacheFile, UnlockCache,
         CloseCache, StoreMeta
    <3>3. SetLk(p)
      BY <2>1, <2>3, <3>2 DEF LockStep, Stat, Open, Create, Reopen, GetLk, UnlinkLock, Goto
    <3>4. step'[p] \in {"setlk", "in", "failed"} /\ pc'[p] = "open"
      BY <2>1, <2>3, <3>2, <3>3 DEF SetLk, Goto, LocksOK, cacheVars
    <3>5. CASE step'[p] = "failed"
      BY <1>4, <2>1, <2>3, <3>2, <3>5
    <3>6. CASE step'[p] # "failed"
      BY <3>4, <3>6
    <3>q. QED BY <3>5, <3>6
  <2>q. QED BY <2>2, <2>3
<1>6. CASE ~((pc[q] = "open" /\ step[q] = "failed") \/ answer[q] = "downloaded")
  <2>1. q = p
    BY <1>2, <1>6
  <2>2. ~Cached
    BY <1>1, Sizes, FileAssumption DEF Cached
  <2>3. pc[p] \in Early
    BY <1>1 DEF PresentInv, Early
  <2>4. LockStep(p) /\ pc'[p] = "open" /\ pc[p] = "open" /\ step'[p] = "failed"
    <3>1. CASE LockStep(p) /\ UNCHANGED cacheVars
      BY <1>6, <2>1, <3>1 DEF cacheVars
    <3>2. CASE Lookup(p) \/ Measure(p) \/ GiveUp(p) \/ ReadContent(p) \/ OpenMeta(p) \/ ReadMeta(p) \/ CheckSize(p)
      BY <1>6, <2>1, <2>3, <3>2 DEF Lookup, Measure, GiveUp, ReadContent, OpenMeta, ReadMeta, CheckSize,
         Jump, End, CacheTypes, Early
    <3>3. CASE LookAgain(p)
      BY <1>6, <2>1, <2>2, <3>3 DEF LookAgain, LockFile, Jump, CacheTypes, LocksOK
    <3>4. CASE Download(p) \/ DoNotStore(p) \/ OpenCache(p)
      BY <1>6, <2>1, <3>4 DEF Download, DoNotStore, OpenCache, Jump, End, CacheTypes
    <3>5. CASE AddToCache(p) \/ CacheFile(p) \/ UnlockCache(p) \/ CloseCache(p) \/ StoreMeta(p)
      BY <2>3, <3>5 DEF AddToCache, CacheFile, UnlockCache, CloseCache, StoreMeta, Early
    <3>q. QED BY <3>1, <3>2, <3>3, <3>4, <3>5 DEF Work, Fetch, Store
  <2>q. QED BY <1>4, <2>4
<1>q. QED BY <1>5, <1>6

-----------------------------------------------------------------------------
(* The content.                                                            *)

(* What is not written by the step of a request is still to be written.    *)
LEMMA BlockStep ==
  ASSUME CacheTypes, CacheTypes', PresentInv, BlockInv, UNCHANGED <<memory, length>>,
         \A q \in Processes : PcInv(q), NEW p \in Processes, Work(p)
  PROVE  BlockInv'
<1> SUFFICES ASSUME Present("zca")', NEW b \in 1 .. length
             PROVE  b \in content'["zca"] \/ \E r \in Processes : Pending(r, b)'
  BY DEF BlockInv
<1> USE FileAssumption DEF CacheTypes, Jump, End, Truncate, WriteBlocks
<1>1. CASE OpenCache(p)
  <2>1. size'[p] = 0 /\ pc'[p] = "write"
    BY <1>1 DEF OpenCache, PcInv
  <2>q. QED BY <2>1, BlockAssumption DEF Pending
<1>2. CASE ~OpenCache(p)
  <2>1. Present("zca")
    <3>1. CASE content' = content
      BY <3>1 DEF Present
    <3>2. CASE AddToCache(p) \/ CacheFile(p) \/ CloseCache(p) \/ StoreMeta(p)
      <4>1. pc[p] \notin Early
        BY <3>2 DEF AddToCache, CacheFile, CloseCache, StoreMeta, Early
      <4>q. QED BY <4>1 DEF PresentInv, Early
    <3>q. QED BY <3>1, <3>2, <1>2, ContentStep
  <2>2. CASE b \in content["zca"]
    <3>1. b \in content'["zca"]
      BY <1>2, <2>2, ContentStep DEF AddToCache, CacheFile, CloseCache, StoreMeta
    <3>q. QED BY <3>1
  <2>3. CASE b \notin content["zca"]
    <3>1. PICK r \in Processes : Pending(r, b)
      BY <2>1, <2>3 DEF BlockInv
    <3>2. CASE r # p
      BY <3>1, <3>2, OthersGoOn DEF Pending
    <3>3. CASE r = p
      <4>1. CASE AddToCache(p)
        BY <3>1, <3>3, <4>1 DEF AddToCache, Pending
      <4>2. CASE CacheFile(p)
        <5>1. pc[p] = "write" /\ size[p] < length /\ size[p] \in Nat /\ length \in Nat
          BY <4>2, BlockAssumption DEF CacheFile, PcInv
        <5>2. size[p] < b /\ memory # "load"
          BY <3>1, <3>3, <4>2, <5>1 DEF CacheFile, Pending
        <5>3. CASE b = size[p] + 1
          BY <4>2, <5>3 DEF CacheFile
        <5>4. CASE b # size[p] + 1
          <6>1. pc'[p] = "write" /\ size'[p] = size[p] + 1 /\ size[p] + 1 < b
            BY <4>2, <5>1, <5>2, <5>4 DEF CacheFile
          <6>q. QED BY <6>1 DEF Pending
        <5>q. QED BY <5>3, <5>4
      <4>3. CASE UnlockCache(p)
        BY <3>1, <3>3, <4>3 DEF UnlockCache, Pending
      <4>4. CASE CloseCache(p)
        BY <3>1, <3>3, <4>4 DEF CloseCache, Pending
      <4>5. CASE UNCHANGED cacheVars
        BY <3>1, <3>3, <4>5 DEF cacheVars, Pending
      <4>q. QED BY <3>1, <3>3, <4>1, <4>2, <4>3, <4>4, <4>5, <1>2 DEF Pending, Work, Fetch, Store,
                   Lookup,
         Measure, GiveUp, ReadContent, OpenMeta, ReadMeta, CheckSize, Download, LookAgain,
         DoNotStore, StoreMeta
    <3>q. QED BY <3>2, <3>3
  <2>q. QED BY <2>2, <2>3
<1>q. QED BY <1>1, <1>2

LEMMA MetaStep ==
  ASSUME CacheTypes, PresentInv, MetaInv, NEW p \in Processes, Work(p)
  PROVE  MetaInv'
<1> USE FileAssumption DEF CacheTypes, Jump, End, Truncate, WriteBlocks
<1> SUFFICES ASSUME Present("zca")'
             PROVE  /\ Comes("zcm", 0, "zcmOpen")' /\ Comes("zcm", 1, "zcmClose")'
                    /\ Comes("zcp", 0, "zcpOpen")' /\ Comes("zcp", 1, "zcpClose")'
  BY DEF MetaInv
<1>1. CASE OpenCache(p)
  <2>1. pc'[p] = "write"
    BY <1>1 DEF OpenCache
  <2>q. QED BY <2>1 DEF Comes, Before, Storing
<1>2. CASE ~OpenCache(p)
  <2>1. Present("zca")
    <3>1. CASE content' = content
      BY <3>1 DEF Present
    <3>2. CASE AddToCache(p) \/ CacheFile(p) \/ CloseCache(p) \/ StoreMeta(p)
      <4>1. pc[p] \notin Early
        BY <3>2 DEF AddToCache, CacheFile, CloseCache, StoreMeta, Early
      <4>q. QED BY <4>1 DEF PresentInv, Early
    <3>q. QED BY <3>1, <3>2, <1>2, ContentStep
  <2>2. /\ Comes("zcm", 0, "zcmOpen") /\ Comes("zcm", 1, "zcmClose")
        /\ Comes("zcp", 0, "zcpOpen") /\ Comes("zcp", 1, "zcpClose")
    BY <2>1 DEF MetaInv
  <2>3. \A q \in Processes : q # p => pc'[q] = pc[q]
    BY OthersGoOn
  <2>4. CASE StoreMeta(p) /\ pc[p] = "zcmOpen"
    BY <2>2, <2>3, <2>4 DEF StoreMeta, Comes, Before, Storing
  <2>5. CASE StoreMeta(p) /\ pc[p] = "zcmClose"
    BY <2>2, <2>3, <2>5 DEF StoreMeta, Comes, Before, Storing
  <2>6. CASE StoreMeta(p) /\ pc[p] = "zcpOpen"
    BY <2>2, <2>3, <2>6 DEF StoreMeta, Comes, Before, Storing
  <2>7. CASE StoreMeta(p) /\ pc[p] = "zcpClose"
    BY <2>2, <2>3, <2>7 DEF StoreMeta, Comes, Before, Storing
  <2>8. CASE ~StoreMeta(p)
    <3>1. content'["zcm"] = content["zcm"] /\ content'["zcp"] = content["zcp"]
      BY <1>2, <2>8, ContentStep DEF AddToCache, CacheFile, CloseCache
    <3>2. pc[p] \in {"write", "unlock", "close", "zcmOpen"} => pc'[p] \in {"write", "unlock",
    "close", "zcmOpen"}
      BY <2>8 DEF Work, Fetch, Store, Lookup, Measure, GiveUp, ReadContent, OpenMeta, ReadMeta,
           CheckSize,
         Download, LookAgain, DoNotStore, OpenCache, AddToCache, CacheFile, UnlockCache,
         CloseCache, cacheVars
    <3>3. pc[p] \in Storing \ {"write", "unlock", "close", "zcmOpen"} => pc'[p] = pc[p]
      BY <2>8 DEF Work, Fetch, Store, Lookup, Measure, GiveUp, ReadContent, OpenMeta, ReadMeta,
           CheckSize,
         Download, LookAgain, DoNotStore, OpenCache, AddToCache, CacheFile, UnlockCache,
         CloseCache, cacheVars, Storing
    <3>4. ASSUME NEW last \in {"zcmOpen", "zcmClose", "zcpOpen", "zcpClose"}, NEW r \in Processes,
                 pc[r] \in Before(last)
          PROVE  pc'[r] \in Before(last)
      BY <2>3, <3>2, <3>3, <3>4 DEF Before, Storing
    <3>5. ASSUME NEW last \in {"zcmOpen", "zcmClose", "zcpOpen", "zcpClose"}, NEW f \in {"zcm",
    "zcp"}, NEW b,
                 Comes(f, b, last)
          PROVE  Comes(f, b, last)'
      BY <3>1, <3>4, <3>5 DEF Comes
    <3>q. QED BY <2>2, <3>5
  <2>q. QED BY <2>4, <2>5, <2>6, <2>7, <2>8 DEF StoreMeta
<1>q. QED BY <1>1, <1>2

LEMMA BoundStep ==
  ASSUME CacheTypes, BoundInv, UNCHANGED length, NEW p \in Processes, PcInv(p), Work(p)
  PROVE  BoundInv'
<1> USE FileAssumption, BlockAssumption DEF CacheTypes, Truncate, WriteBlocks, BoundInv
<1>1. CASE content' = content  BY <1>1
<1>2. CASE OpenCache(p)  BY <1>2 DEF OpenCache
<1>3. CASE AddToCache(p)  BY <1>3 DEF AddToCache
<1>4. CASE CacheFile(p)  BY <1>4 DEF CacheFile, PcInv
<1>5. CASE CloseCache(p)  BY <1>5 DEF CloseCache
<1>6. CASE StoreMeta(p)  BY <1>6 DEF StoreMeta
<1>q. QED BY <1>1, <1>2, <1>3, <1>4, <1>5, <1>6, ContentStep

-----------------------------------------------------------------------------
LEMMA Initial == Init => IInv
<1> SUFFICES ASSUME Init PROVE IInv
  OBVIOUS
<1> USE FileAssumption, BlockAssumption, RetryAssumption DEF Init, InitLocks
<1>1. LocksOK
  BY DEF LocksOK, Steps
<1>2. CacheTypes
  BY DEF CacheTypes, Pcs, Answers
<1>3. InodeInv /\ NameInv
  BY DEF InodeInv, NameInv, Exists, InLock
<1>4. \A p \in Processes : PcInv(p)
  BY DEF PcInv, Pcs
<1>5. PresentInv /\ AnotherInv /\ BlockInv /\ MetaInv /\ BoundInv
  BY DEF PresentInv, AnotherInv, BlockInv, MetaInv, BoundInv, Present
<1>q. QED BY <1>1, <1>2, <1>3, <1>4, <1>5 DEF IInv

LEMMA Kept == IInv /\ UNCHANGED vars => IInv'
<1> SUFFICES ASSUME IInv, UNCHANGED vars PROVE IInv'
  OBVIOUS
<1> USE DEF IInv, vars, lockVars, cacheVars
<1>1. LocksOK' /\ CacheTypes' /\ InodeInv' /\ NameInv'
  BY DEF LocksOK, CacheTypes, InodeInv, NameInv, Responsible, Exists
<1>2. (\A p \in Processes : PcInv(p))' /\ PresentInv' /\ AnotherInv' /\ BoundInv'
  BY DEF PcInv, PresentInv, AnotherInv, BoundInv, Present
<1>3. BlockInv' /\ MetaInv'
  BY DEF BlockInv, MetaInv, Pending, Comes, Present
<1>q. QED BY <1>1, <1>2, <1>3

LEMMA Step == IInv /\ [Next]_vars => IInv'
<1> SUFFICES ASSUME IInv, Next PROVE IInv'
  BY Kept
<1> USE DEF IInv
<1>1. PICK p \in Processes : Work(p)
  BY DEF Next, Work
<1>2. LocksOK' /\ InodeInv' /\ NameInv'
  BY <1>1, WorkOnLock, LockInvs
<1>3. CacheTypes' /\ UNCHANGED <<memory, length>>
  BY <1>1, CacheTypesStep
<1>4. \A q \in Processes : PcInv(q)'
  BY <1>1, <1>3, PcsStep
<1>5. PresentInv' /\ AnotherInv'
  BY <1>1, PresentStep, AnotherStep
<1>6. BlockInv' /\ MetaInv' /\ BoundInv'
  BY <1>1, <1>3, BlockStep, MetaStep, BoundStep
<1>q. QED BY <1>2, <1>3, <1>4, <1>5, <1>6

LEMMA Invariant == Spec => []IInv
<1>q. QED BY Initial, Step, PTL DEF Spec

(* The variables keep to their types: there is always an inode to give to  *)
(* a new lock file, no request waits longer than it may, and none writes   *)
(* past the end of the document.                                           *)
THEOREM TypeCorrect == Spec => []TypeOK
<1>1. IInv => TypeOK
  BY DEF IInv, CacheTypes, TypeOK
<1>q. QED BY <1>1, Invariant, PTL

(* However many requests store the document over each other, and whatever  *)
(* becomes of the lock meanwhile, once they are done the cache has all of  *)
(* it (addToCache, cacheFile, loadRemoteFile).                             *)
THEOREM CacheIsWhole == Spec => []CacheSettles
<1>1. IInv => CacheSettles
  <2> SUFFICES ASSUME IInv, \A p \in Processes : Ended(p), \E p \in Processes : answer[p] = "downloaded"
               PROVE  /\ content["zca"] = 0..length
                      /\ content["zcm"] = {0, 1} /\ content["zcp"] = {0, 1}
    BY DEF CacheSettles
  <2>1. \A p \in Processes : pc[p] \notin Storing
    BY DEF IInv, Ended, PcInv, Storing
  <2>2. Present("zca")
    BY DEF IInv, AnotherInv, Ended
  <2>3. \A b \in 1 .. length : b \in content["zca"]
    BY <2>1, <2>2 DEF IInv, BlockInv, Pending, Storing
  <2>4. content["zca"] = 0 .. length
    <3>1. length \in Nat
      BY BlockAssumption DEF IInv, CacheTypes
    <3>2. content["zca"] \subseteq 0 .. length /\ 0 \in content["zca"]
      BY <2>2 DEF IInv, BoundInv, Present
    <3>3. ASSUME NEW b \in 0 .. length PROVE b \in content["zca"]
      <4>1. b = 0 \/ b \in 1 .. length
        BY <3>1
      <4>q. QED BY <2>3, <3>2, <4>1
    <3>q. QED BY <3>2, <3>3
  <2>5. \A last \in {"zcmOpen", "zcmClose", "zcpOpen", "zcpClose"} : Before(last) \subseteq Storing
    BY DEF Before, Storing
  <2>6. /\ 0 \in content["zcm"] /\ 1 \in content["zcm"]
        /\ 0 \in content["zcp"] /\ 1 \in content["zcp"]
    BY <2>1, <2>2, <2>5 DEF IInv, MetaInv, Comes
  <2>q. QED BY <2>4, <2>6 DEF IInv, BoundInv
<1>q. QED BY <1>1, Invariant, PTL

(* No lock file is left behind when the requests are done (lockFile and    *)
(* unlockFile), although a reader may crash, a request may give up, and a  *)
(* name may be removed and made again while others have the inode open.    *)
THEOREM LocksGone == Spec => []NoLockLeft
<1>1. IInv => NoLockLeft
  <2> SUFFICES ASSUME IInv, \A p \in Processes : Ended(p), NEW f \in Files, Exists(f)
               PROVE  FALSE
    BY DEF NoLockLeft
  <2>1. PICK p \in Processes : Responsible(p, f)
    BY DEF IInv, NameInv
  <2>2. step[p] \in {"reopen"} \union InLock
    BY <2>1 DEF Responsible
  <2>q. QED BY <2>2 DEF IInv, PcInv, Ended, InLock
<1>q. QED BY <1>1, Invariant, PTL
=============================================================================
