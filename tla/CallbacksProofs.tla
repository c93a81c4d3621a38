--------------------------- MODULE CallbacksProofs ---------------------------
(***************************************************************************)
(* Proofs about Callbacks, for any number of remote jobs and notifications,*)
(* any list of prohibited services and any number of failed connections.   *)
(***************************************************************************)
EXTENDS Callbacks, FiniteSetTheorems, SequenceTheorems, TLAPS

USE DEF Started, Succeeded, Failed, Final, Remote

-----------------------------------------------------------------------------
(* The invariants.                                                         *)

Note == [state : {Started} \union Final, progress : 0 .. 100, pc : NotePcs]
SequenceOK == note \in Seq(Note) /\ prohibited \in Seq(STRING)

(* The handlers that may still be counted.  The count is read before it is *)
(* written, but what was read is never too much.                           *)
Uncounted == {r \in Remote : handler[r] \in {"none", "begin", "poll", "count", "add"}}
CountInv ==
  /\ iNbJobsHandled + Cardinality(Uncounted) <= NbRemote
  /\ \A r \in Remote : handler[r] = "add" => counted[r] + Cardinality(Uncounted) <= NbRemote

(* How far the main thread is with the handlers: which of them it has      *)
(* created and counted, and which it has joined.                           *)
HandlerInv ==
  /\ main \in {"start", "download", "downloaded"} =>
       turn = 1 /\ iNbJobsHandlers = 0 /\ \A r \in Remote : handler[r] = "none"
  /\ main = "create" =>
       iNbJobsHandlers = turn - 1 /\ \A r \in Remote : r >= turn => handler[r] = "none"
  /\ main = "increment" =>
       /\ turn \in Remote /\ iNbJobsHandlers = turn - 1
       /\ \A r \in Remote : r > turn => handler[r] = "none"
  /\ main \in {"waitJobs", "join"} => iNbJobsHandlers = NbRemote
  /\ main = "join" => \A r \in Remote : r < turn => handler[r] = "ended"
  /\ main \in {"nested", "run", "final"} => \A r \in Remote : handler[r] \in {"none", "ended"}

(* Where the result of a remote job is.                                    *)
ResultInv ==
  /\ \A r \in Remote : fetched[r] => handler[r] # "none" /\ copy[r][r]
  /\ main = "join" => \A r \in Remote : r < turn /\ fetched[r] => input[r]
  /\ ResultsStored

(* Nothing cancels a final notification: it is the last one, and it waits  *)
(* for nobody.                                                             *)
FinalInv ==
  /\ main \notin {"cleanup", "gone"} => cStep <= Started
  /\ \A n \in DOMAIN note : note[n].state \in Final =>
       /\ main \in {"cleanup", "gone"} /\ cStep = note[n].state
       /\ note[n].pc = "ended" => n \in received
       /\ main = "gone" /\ ~queued => note[n].pc = "ended"

-----------------------------------------------------------------------------
(* The notifications.                                                      *)

LEMMA NoteTypes ==
  ASSUME SequenceOK
  PROVE  /\ DOMAIN note = 1 .. Len(note) /\ Len(note) \in Nat
         /\ \A n \in DOMAIN note : /\ note[n] \in Note /\ note[n].pc \in NotePcs
                                   /\ note[n].state \in {Started} \union Final
                                   /\ note[n].progress \in 0 .. 100
<1>1. /\ DOMAIN note = 1 .. Len(note) /\ Len(note) \in Nat
      /\ \A n \in DOMAIN note : note[n] \in Note
  BY LenProperties, ElementOfSeq DEF SequenceOK
<1>q. QED BY <1>1 DEF Note

LEMMA InvokeOK ==
  ASSUME TypeOK, SequenceOK, NEW state \in {Started} \union Final, NEW p \in 0 .. 100,
         InvokeBasicCallback(state, p)
  PROVE  /\ SequenceOK' /\ cStep' \in {cStep, state} /\ Len(prohibited') <= Len(configured)
         /\ \A n \in DOMAIN note : n \in DOMAIN note' /\ note'[n] = note[n]
         /\ \A n \in DOMAIN note' : \/ n \in DOMAIN note
                                    \/ /\ note'[n].state = state /\ cStep' = state
                                       /\ note'[n].pc = "check"
<1>1. prohibited' \in Seq(STRING) /\ Len(prohibited') <= Len(prohibited)
  <2>1. CASE prohibited = <<>>
    BY <2>1 DEF InvokeBasicCallback, AfterStrtok, SequenceOK
  <2>2. CASE prohibited # <<>>
    <3>1. Len(prohibited) \in Nat \ {0} /\ prohibited[1] \in STRING
      BY <2>2, EmptySeq, ElementOfSeq DEF SequenceOK
    <3>2. <<prohibited[1]>> \in Seq(STRING) /\ Len(<<prohibited[1]>>) = 1
      BY <3>1
    <3>q. QED BY <2>2, <3>1, <3>2 DEF InvokeBasicCallback, AfterStrtok
  <2>q. QED BY <2>1, <2>2
<1>2. Len(prohibited') <= Len(configured)
  BY <1>1, ListAssumption, LenProperties DEF TypeOK, SequenceOK
<1>3. CASE UNCHANGED <<note, cStep>>
  BY <1>1, <1>2, <1>3 DEF SequenceOK
<1>4. CASE cStep' = state /\ note' = Append(note, [state |-> state, progress |-> p, pc |-> "check"])
  <2> DEFINE new == [state |-> state, progress |-> p, pc |-> "check"]
  <2>1. new \in Note /\ new.state = state /\ new.pc = "check"
    BY DEF Note, NotePcs
  <2> HIDE DEF new
  <2>2. note' = Append(note, new)
    BY <1>4 DEF new
  <2>3. /\ note' \in Seq(Note) /\ DOMAIN note' = 1 .. (Len(note) + 1)
        /\ \A n \in 1 .. Len(note) : note'[n] = note[n]
        /\ note'[Len(note) + 1] = new
    BY <2>1, <2>2, AppendProperties, LenProperties DEF SequenceOK
  <2>q. QED BY <1>1, <1>2, <1>4, <2>1, <2>3, NoteTypes DEF SequenceOK
<1>q. QED BY <1>3, <1>4 DEF InvokeBasicCallback

LEMMA GoesOnOK ==
  ASSUME SequenceOK, NEW n, NEW from, NEW to \in NotePcs, GoesOn(n, from, to)
  PROVE  /\ SequenceOK' /\ DOMAIN note' = DOMAIN note
         /\ \A k \in DOMAIN note : /\ note'[k].state = note[k].state
                                   /\ note'[k].progress = note[k].progress
                                   /\ note'[k].pc = IF k = n THEN to ELSE note[k].pc
<1>1. n \in 1 .. Len(note) /\ UNCHANGED prohibited
  BY NoteTypes DEF GoesOn, mainVars
<1> DEFINE new == [note[n] EXCEPT !.pc = to]
<1>2. /\ new \in Note /\ new.state = note[n].state /\ new.progress = note[n].progress
      /\ new.pc = to
  BY <1>1, NoteTypes DEF Note
<1> HIDE DEF new
<1>3. note' = [note EXCEPT ![n] = new]
  BY DEF GoesOn, new
<1>4. /\ note' \in Seq(Note) /\ Len(note') = Len(note)
      /\ \A k \in 1 .. Len(note) : note'[k] = IF k = n THEN new ELSE note[k]
  BY <1>1, <1>2, <1>3, ExceptSeq DEF SequenceOK
<1>5. DOMAIN note' = DOMAIN note
  BY <1>4, LenProperties, NoteTypes
<1>q. QED BY <1>1, <1>2, <1>4, <1>5, NoteTypes DEF SequenceOK

LEMMA UncountedSize ==
  /\ IsFiniteSet(Uncounted) /\ Cardinality(Uncounted) \in Nat
  /\ IsFiniteSet(Uncounted') /\ Cardinality(Uncounted') \in Nat
<1>1. IsFiniteSet(1 .. NbRemote)
  <2>1. 1 \in Int /\ NbRemote \in Int
    BY RemoteAssumption
  <2>q. QED BY <2>1, FS_Interval
<1>2. Uncounted \subseteq 1 .. NbRemote /\ Uncounted' \subseteq 1 .. NbRemote
  BY DEF Uncounted
<1>3. IsFiniteSet(Uncounted) /\ IsFiniteSet(Uncounted')
  BY <1>1, <1>2, FS_Subset
<1>q. QED BY <1>3, FS_CardinalityType

-----------------------------------------------------------------------------
(* Types.                                                                  *)

(* TypeOK without the sequences.                                           *)
Types ==
  /\ queued \in BOOLEAN
  /\ main \in MainPcs /\ turn \in 1 .. NbRemote + 1 /\ status \in 0 .. 100
  /\ cStep \in 0 .. Failed /\ maxProgress \in 0 .. 101 /\ isOngoing \in 0 .. 1
  /\ iNbJobsHandlers \in 0 .. NbRemote /\ iNbJobsHandled \in 0 .. NbRemote
  /\ handler \in [Remote -> HandlerPcs] /\ counted \in [Remote -> 0 .. NbRemote]
  /\ fetched \in [Remote -> BOOLEAN]
  /\ copy \in [Remote -> [Remote -> BOOLEAN]] /\ input \in [Remote -> BOOLEAN]
  /\ failures \in 0 .. MaxOpenFailures
Lengths == /\ configured \in Lists /\ Len(prohibited) <= Len(configured)
           /\ received \subseteq DOMAIN note

LEMMA TypeParts ==
  /\ TypeOK => Types /\ Lengths
  /\ SequenceOK /\ Types /\ Lengths => TypeOK
  /\ (SequenceOK /\ Types /\ Lengths => TypeOK)'
<1>1. TypeOK => Types /\ Lengths
  BY DEF TypeOK, Types, Lengths
<1>2. SequenceOK /\ Types /\ Lengths => TypeOK
  BY NoteTypes DEF TypeOK, Types, Lengths
<1>3. (SequenceOK /\ Types /\ Lengths => TypeOK)'
  BY <1>2, PTL
<1>q. QED BY <1>1, <1>2, <1>3

LEMMA MainType ==
  ASSUME TypeOK, SequenceOK, HandlerInv, Main
  PROVE  TypeOK' /\ SequenceOK'
<1> USE RemoteAssumption
<1>t. Types /\ Lengths
  BY TypeParts
<1>s. ASSUME UNCHANGED <<configured, received, note, prohibited>>
      PROVE  Lengths' /\ SequenceOK'
  BY <1>s, <1>t DEF Lengths, SequenceOK
<1>u. ASSUME NEW state \in {Started} \union Final, NEW p \in 0 .. 100,
             InvokeBasicCallback(state, p), status' \in 0 .. 100, main' \in MainPcs,
             UNCHANGED <<othersOfUpdate, turn>>
      PROVE  TypeOK' /\ SequenceOK'
  <2>1. SequenceOK' /\ Len(prohibited') <= Len(configured) /\ cStep' \in {cStep, state}
    BY <1>u, InvokeOK
  <2>2. \A n \in DOMAIN note : n \in DOMAIN note'
    BY <1>u, InvokeOK
  <2>3. Types'
    BY <1>u, <1>t, <2>1 DEF Types, othersOfUpdate, settings, remoteVars
  <2>4. Lengths'
    BY <1>u, <1>t, <2>1, <2>2 DEF Lengths, othersOfUpdate, settings
  <2>q. QED BY <2>1, <2>3, <2>4, TypeParts
<1>n. ASSUME UNCHANGED <<status, prohibited, note, cStep>>, main' \in MainPcs,
             UNCHANGED <<othersOfUpdate, turn>>
      PROVE  TypeOK' /\ SequenceOK'
  <2>1. Types'
    BY <1>n, <1>t DEF Types, othersOfUpdate, settings, remoteVars
  <2>2. Lengths' /\ SequenceOK'
    BY <1>n, <1>s DEF othersOfUpdate, settings
  <2>q. QED BY <2>1, <2>2, TypeParts
<1>p. status \in 0 .. 100
  BY <1>t DEF Types
<1>1. CASE Start
  <2>1. InvokeBasicCallback(Started, status) /\ status' = status /\ main' \in MainPcs
        /\ UNCHANGED <<othersOfUpdate, turn>>
    BY <1>1 DEF Start, MainPcs
  <2>q. QED BY <2>1, <1>u, <1>p
<1>2. CASE Download
  <2>1. InvokeBasicCallback(Started, 1) /\ status' = 1 /\ main' \in MainPcs
        /\ UNCHANGED <<othersOfUpdate, turn>>
    BY <1>2 DEF Download, UpdateStatus, MainPcs
  <2>q. QED BY <2>1, <1>u
<1>3. CASE Downloaded
  <2>1. InvokeBasicCallback(Started, 2) /\ status' = 2 /\ main' \in MainPcs
        /\ UNCHANGED <<othersOfUpdate, turn>>
    BY <1>3 DEF Downloaded, UpdateStatus, MainPcs
  <2>q. QED BY <2>1, <1>u
<1>4. CASE Create
  <2>1. Lengths' /\ SequenceOK'
    BY <1>4, <1>s DEF Create, unchangedByHandling, settings
  <2>2. handler' \in [Remote -> HandlerPcs] /\ copy' \in [Remote -> [Remote -> BOOLEAN]]
    BY <1>4, <1>t DEF Create, HandlerPcs, Types
  <2>3. Types'
    BY <1>4, <1>t, <2>2 DEF Create, unchangedByHandling, settings, MainPcs, Types
  <2>q. QED BY <2>1, <2>3, TypeParts
<1>5. CASE Increment
  <2>1. Lengths' /\ SequenceOK'
    BY <1>5, <1>s DEF Increment, unchangedByHandling, settings
  <2>2. iNbJobsHandlers' \in 0 .. NbRemote /\ turn' \in 1 .. NbRemote + 1
    BY <1>5, <1>t DEF Increment, HandlerInv, Types
  <2>3. Types'
    BY <1>5, <1>t, <2>2 DEF Increment, unchangedByHandling, settings, remoteVars, MainPcs, Types
  <2>q. QED BY <2>1, <2>3, TypeParts
<1>6. CASE WaitJobs
  <2>1. Lengths' /\ SequenceOK'
    BY <1>6, <1>s DEF WaitJobs, unchangedByHandling, settings
  <2>3. Types'
    BY <1>6, <1>t DEF WaitJobs, unchangedByHandling, settings, remoteVars, MainPcs, Types
  <2>q. QED BY <2>1, <2>3, TypeParts
<1>7. CASE Join
  <2>1. Lengths' /\ SequenceOK'
    BY <1>7, <1>s DEF Join, unchangedByHandling, settings
  <2>2. input' \in [Remote -> BOOLEAN] /\ turn' \in 1 .. NbRemote + 1 /\ main' \in MainPcs
    <3>1. CASE turn \in 1 .. iNbJobsHandlers
      <4>1. turn \in Remote /\ turn + 1 \in 1 .. NbRemote + 1
        BY <3>1, <1>t DEF Types
      <4>2. Merge(turn) \in [Remote -> BOOLEAN]
        BY <4>1, <1>t DEF Types, Merge
      <4>q. QED BY <1>7, <3>1, <4>1, <4>2, <1>t DEF Join, Types
    <3>2. CASE turn \notin 1 .. iNbJobsHandlers
      BY <1>7, <3>2, <1>t DEF Join, Types, MainPcs
    <3>q. QED BY <3>1, <3>2
  <2>3. Types'
    BY <1>7, <1>t, <2>2 DEF Join, unchangedByHandling, settings, remoteVars, Types
  <2>q. QED BY <2>1, <2>3, TypeParts
<1>8. CASE Nested
  <2>1. main' \in MainPcs /\ UNCHANGED <<othersOfUpdate, turn>>
    BY <1>8 DEF Nested, MainPcs
  <2>2. CASE queued
    <3>1. InvokeBasicCallback(Started, 3) /\ status' = 3
      BY <1>8, <2>2 DEF Nested, UpdateStatus
    <3>q. QED BY <2>1, <3>1, <1>u
  <2>3. CASE ~queued
    BY <1>8, <2>1, <2>3, <1>n DEF Nested
  <2>q. QED BY <2>2, <2>3
<1>9. CASE Run
  <2>1. main' \in MainPcs /\ UNCHANGED <<othersOfUpdate, turn>>
    BY <1>9 DEF Run, MainPcs
  <2>2. ASSUME NEW p \in Reports, UpdateStatus(p) PROVE TypeOK' /\ SequenceOK'
    <3>1. p \in 0 .. 100
      BY ReportAssumption
    <3>2. InvokeBasicCallback(Started, p) /\ status' = p
      BY <2>2 DEF UpdateStatus
    <3>q. QED BY <2>1, <3>1, <3>2, <1>u
  <2>3. ASSUME UNCHANGED <<status, prohibited, note, cStep>> PROVE TypeOK' /\ SequenceOK'
    BY <2>1, <2>3, <1>n
  <2>q. QED BY <1>9, <2>2, <2>3 DEF Run
<1>10. CASE Finish
  <2>1. main' \in MainPcs /\ status' = status /\ UNCHANGED <<othersOfUpdate, turn>>
    BY <1>10 DEF Finish, Leaving, MainPcs
  <2>2. PICK state \in Final : InvokeBasicCallback(state, status)
    BY <1>10 DEF Finish
  <2>q. QED BY <2>1, <2>2, <1>u, <1>p
<1>11. CASE CleanupCallbackThreads
  <2>1. Lengths' /\ SequenceOK'
    BY <1>11, <1>s DEF CleanupCallbackThreads, settings
  <2>3. Types'
    BY <1>11, <1>t DEF CleanupCallbackThreads, settings, remoteVars, globals, MainPcs, Types
  <2>q. QED BY <2>1, <2>3, TypeParts
<1>q. QED BY <1>1, <1>2, <1>3, <1>4, <1>5, <1>6, <1>7, <1>8, <1>9, <1>10, <1>11 DEF Main

LEMMA NoteStepType ==
  ASSUME TypeOK, SequenceOK, NEW n \in DOMAIN note, NoteStep(n)
  PROVE  TypeOK' /\ SequenceOK'
<1>t. Types /\ Lengths
  BY TypeParts
<1>1. PICK from, to \in NotePcs : GoesOn(n, from, to)
  <2>1. CASE Check(n)  BY <2>1 DEF Check, NotePcs
  <2>2. CASE Wait(n)   BY <2>2 DEF Wait, NotePcs
  <2>3. CASE Test(n)   BY <2>3 DEF Test, NotePcs
  <2>4. CASE Raise(n)  BY <2>4 DEF Raise, NotePcs
  <2>5. CASE Post(n)   BY <2>5 DEF Post, NotePcs
  <2>q. QED BY <2>1, <2>2, <2>3, <2>4, <2>5 DEF NoteStep
<1>2. SequenceOK' /\ DOMAIN note' = DOMAIN note
  BY <1>1, GoesOnOK
<1>3. note[n].progress \in 0 .. 100
  BY NoteTypes
<1>4. maxProgress' \in 0 .. 101 /\ isOngoing' \in 0 .. 1
  <2>1. CASE Raise(n)
    BY <2>1, <1>3 DEF Raise
  <2>2. CASE Post(n)
    BY <2>2, <1>t DEF Post, Types
  <2>3. CASE UNCHANGED <<maxProgress, isOngoing>>
    BY <2>3, <1>t DEF Types
  <2>q. QED BY <2>1, <2>2, <2>3 DEF NoteStep, Check, Wait, Test
<1>5. received' \subseteq DOMAIN note
  BY <1>t DEF NoteStep, Check, Wait, Test, Raise, Post, Delivered, Lengths
<1>6. Types'
  BY <1>1, <1>4, <1>t DEF GoesOn, settings, mainVars, remoteVars, Types
<1>7. Lengths'
  BY <1>1, <1>2, <1>5, <1>t DEF GoesOn, settings, mainVars, Lengths
<1>q. QED BY <1>2, <1>6, <1>7, TypeParts

LEMMA HandlerType ==
  ASSUME TypeOK, SequenceOK, CountInv, NEW r \in Remote, HandlerStep(r) \/ HandlerOpenFails(r)
  PROVE  TypeOK' /\ SequenceOK'
<1>t. Types /\ Lengths
  BY TypeParts
<1>g. PICK from, to \in HandlerPcs : HandlerGoesOn(r, from, to)
  <2>1. CASE HandlerOpenFails(r)
    BY <2>1 DEF HandlerOpenFails, HandlerPcs
  <2>2. CASE TestLast(r)
    BY <2>2 DEF TestLast, HandlerPcs
  <2>q. QED BY <2>1, <2>2 DEF HandlerStep, Begin, PollAgain, JobEnds, Fetch, JobFailed, Count, Add, Sleep,
                              HandlerPcs
<1>s. Lengths' /\ SequenceOK'
  BY <1>g, <1>t DEF HandlerGoesOn, settings, mainVars, Lengths, SequenceOK
<1>h. handler' \in [Remote -> HandlerPcs]
  BY <1>g, <1>t DEF HandlerGoesOn, Types
<1>i. isOngoing' \in 0 .. 1 /\ failures' \in 0 .. MaxOpenFailures
  <2>1. CASE HandlerOpenFails(r)
    BY <2>1, <1>t, BoundAssumption DEF HandlerOpenFails, Types
  <2>2. CASE HandlerStep(r)
    BY <2>2, <1>t DEF HandlerStep, Begin, PollAgain, JobEnds, Fetch, JobFailed, Count, Add, TestLast,
                      Sleep, Types
  <2>q. QED BY <2>1, <2>2
<1>f. fetched' \in [Remote -> BOOLEAN] /\ copy' \in [Remote -> [Remote -> BOOLEAN]]
  <2>1. CASE Fetch(r)
    BY <2>1, <1>t DEF Fetch, Types
  <2>2. CASE UNCHANGED <<fetched, copy>>
    BY <2>2, <1>t DEF Types
  <2>q. QED BY <2>1, <2>2 DEF HandlerStep, Begin, PollAgain, JobEnds, JobFailed, Count, Add, TestLast, Sleep,
                              HandlerOpenFails
<1>c. counted' \in [Remote -> 0 .. NbRemote] /\ iNbJobsHandled' \in 0 .. NbRemote
  <2>1. CASE Add(r)
    <3>1. r \in Uncounted
      BY <2>1 DEF Add, HandlerGoesOn, Uncounted
    <3>2. Cardinality(Uncounted) \in Nat \ {0}
      BY <3>1, UncountedSize, FS_EmptySet
    <3>3. counted[r] + 1 \in 0 .. NbRemote
      <4>1. handler[r] = "add"
        BY <2>1 DEF Add, HandlerGoesOn
      <4>2. counted[r] \in Nat /\ NbRemote \in Nat
        BY <1>t, RemoteAssumption DEF Types
      <4>q. QED BY <3>2, <4>1, <4>2 DEF CountInv
    <3>q. QED BY <2>1, <3>3, <1>t DEF Add, Types
  <2>2. CASE Count(r)
    BY <2>2, <1>t DEF Count, Types
  <2>3. CASE TestLast(r)
    BY <2>3, <1>t, RemoteAssumption DEF TestLast, Types
  <2>4. CASE UNCHANGED <<counted, iNbJobsHandled>>
    BY <2>4, <1>t DEF Types
  <2>q. QED BY <2>1, <2>2, <2>3, <2>4 DEF HandlerStep, Begin, PollAgain, JobEnds, Fetch, JobFailed, Sleep,
                              HandlerOpenFails
<1>y. Types'
  BY <1>g, <1>h, <1>i, <1>f, <1>c, <1>t DEF HandlerGoesOn, settings, mainVars, Types
<1>q. QED BY <1>s, <1>y, TypeParts

-----------------------------------------------------------------------------
(* The counter of the handlers.                                            *)

LEMMA CountKept ==
  ASSUME TypeOK, TypeOK', CountInv, Uncounted' \subseteq Uncounted, UNCHANGED iNbJobsHandled,
         \A r \in Remote : handler'[r] = "add" =>
           counted'[r] = iNbJobsHandled \/ (handler[r] = "add" /\ counted'[r] = counted[r])
  PROVE  CountInv'
<1>1. Cardinality(Uncounted') <= Cardinality(Uncounted)
  BY UncountedSize, FS_Subset
<1>2. iNbJobsHandled \in Nat /\ NbRemote \in Nat /\ \A r \in Remote : counted[r] \in Nat
  <2>1. NbRemote \in Nat
    BY RemoteAssumption
  <2>2. iNbJobsHandled \in 0 .. NbRemote /\ counted \in [Remote -> 0 .. NbRemote]
    BY Zenon DEF TypeOK
  <2>q. QED BY <2>1, <2>2
<1>3. iNbJobsHandled' + Cardinality(Uncounted') <= NbRemote
  BY <1>1, <1>2, UncountedSize DEF CountInv
<1>4. ASSUME NEW r \in Remote, handler'[r] = "add"
      PROVE  counted'[r] + Cardinality(Uncounted') <= NbRemote
  <2>1. CASE counted'[r] = iNbJobsHandled
    BY <2>1, <1>3
  <2>2. CASE handler[r] = "add" /\ counted'[r] = counted[r]
    BY <2>2, <1>1, <1>2, UncountedSize DEF CountInv
  <2>q. QED BY <1>4, <2>1, <2>2
<1>q. QED BY <1>3, <1>4 DEF CountInv

LEMMA CountStep ==
  ASSUME TypeOK, TypeOK', SequenceOK, CountInv, HandlerInv, [Next]_vars
  PROVE  CountInv'
<1>1. ASSUME UNCHANGED <<handler, counted, iNbJobsHandled>> PROVE CountInv'
  BY <1>1, CountKept DEF Uncounted
<1>2. CASE Main
  <2>1. CASE Create
    BY <2>1, CountKept DEF Create, unchangedByHandling, Uncounted, HandlerInv, TypeOK
  <2>2. CASE ~Create
    BY <1>1, <1>2, <2>2 DEF Main, Start, Download, Downloaded, Increment, WaitJobs, Join, Nested,
         Run, Finish, CleanupCallbackThreads, othersOfUpdate, unchangedByHandling, remoteVars, globals
  <2>q. QED BY <2>1, <2>2
<1>3. ASSUME NEW n \in DOMAIN note, NoteStep(n) PROVE CountInv'
  BY <1>1, <1>3 DEF NoteStep, Check, Wait, Test, Raise, Post, GoesOn, remoteVars
<1>4. ASSUME NEW r \in Remote, HandlerStep(r) \/ HandlerOpenFails(r) PROVE CountInv'
  <2>1. CASE Add(r)
    <3>1. r \in Uncounted /\ Uncounted' = Uncounted \ {r}
      BY <2>1 DEF Add, HandlerGoesOn, Uncounted, TypeOK
    <3>2. Cardinality(Uncounted') = Cardinality(Uncounted) - 1
      BY <3>1, UncountedSize, FS_RemoveElement
    <3>3. iNbJobsHandled' = counted[r] + 1 /\ UNCHANGED counted /\ handler[r] = "add"
      BY <2>1 DEF Add, HandlerGoesOn
    <3>4. \A q \in Remote : handler'[q] = "add" => handler[q] = "add"
      BY <2>1 DEF Add, HandlerGoesOn, TypeOK
    <3>5. /\ iNbJobsHandled \in Nat /\ NbRemote \in Nat
          /\ \A q \in Remote : counted[q] \in Nat /\ counted'[q] = counted[q]
      BY <3>3, RemoteAssumption DEF TypeOK
    <3>6. iNbJobsHandled' + Cardinality(Uncounted') <= NbRemote
      BY <3>2, <3>3, <3>5, UncountedSize DEF CountInv
    <3>7. ASSUME NEW q \in Remote, handler'[q] = "add"
          PROVE  counted'[q] + Cardinality(Uncounted') <= NbRemote
      BY <3>7, <3>2, <3>4, <3>5, UncountedSize DEF CountInv
    <3>q. QED BY <3>6, <3>7 DEF CountInv
  <2>2. CASE ~Add(r)
    <3>1. UNCHANGED iNbJobsHandled /\ \A q \in Remote : q # r => /\ handler'[q] = handler[q]
                                                               /\ counted'[q] = counted[q]
      BY <1>4, <2>2 DEF HandlerStep, Begin, PollAgain, JobEnds, Fetch, JobFailed, Count, TestLast,
                        Sleep, HandlerOpenFails, HandlerGoesOn, TypeOK
    <3>2. handler'[r] = "add" => counted'[r] = iNbJobsHandled
      BY <1>4, <2>2 DEF HandlerStep, Begin, PollAgain, JobEnds, Fetch, JobFailed, Count, TestLast,
                        Sleep, HandlerOpenFails, HandlerGoesOn, TypeOK
    <3>3. r \in Uncounted' => r \in Uncounted
      BY <1>4, <2>2 DEF HandlerStep, Begin, PollAgain, JobEnds, Fetch, JobFailed, Count, TestLast,
                        Sleep, HandlerOpenFails, HandlerGoesOn, Uncounted, TypeOK
    <3>4. Uncounted' \subseteq Uncounted
      BY <3>1, <3>3 DEF Uncounted
    <3>q. QED BY <3>1, <3>2, <3>4, CountKept
  <2>q. QED BY <2>1, <2>2
<1>5. CASE UNCHANGED vars
  BY <1>1, <1>5 DEF vars, remoteVars, globals
<1>q. QED BY <1>2, <1>3, <1>4, <1>5 DEF Next, Threads

-----------------------------------------------------------------------------
(* The handlers and their results.                                         *)

(* A step of a thread disturbs neither.                                    *)
LEMMA HandlersKept ==
  ASSUME TypeOK, HandlerInv, UNCHANGED <<turn, iNbJobsHandlers, main>>,
         \A r \in Remote : (handler[r] = "none" <=> handler'[r] = "none")
                        /\ (handler[r] = "ended" => handler'[r] = "ended")
  PROVE  HandlerInv'
BY DEF HandlerInv

LEMMA HandlerStepOK ==
  ASSUME TypeOK, SequenceOK, HandlerInv, [Next]_vars
  PROVE  HandlerInv'
<1> USE RemoteAssumption
<1>t. Types
  BY TypeParts
<1>1. CASE Main
  <2>1. CASE Start
    BY <2>1 DEF Start, othersOfUpdate, remoteVars, HandlerInv
  <2>2. CASE Download
    BY <2>2 DEF Download, othersOfUpdate, remoteVars, HandlerInv
  <2>3. CASE Downloaded
    BY <2>3 DEF Downloaded, othersOfUpdate, remoteVars, HandlerInv
  <2>4. CASE Create
    <3>1. CASE turn \in Remote
      BY <2>4, <3>1, <1>t DEF Create, HandlerInv, Types
    <3>2. CASE turn \notin Remote
      <4>1. turn = NbRemote + 1
        BY <3>2, <1>t DEF Types
      <4>q. QED BY <2>4, <3>2, <4>1, <1>t DEF Create, HandlerInv, Types
    <3>q. QED BY <3>1, <3>2
  <2>5. CASE Increment
    BY <2>5, <1>t DEF Increment, remoteVars, HandlerInv, Types
  <2>6. CASE WaitJobs
    BY <2>6, <1>t DEF WaitJobs, remoteVars, HandlerInv, Types
  <2>7. CASE Join
    BY <2>7, <1>t DEF Join, Joined, remoteVars, HandlerInv, Types
  <2>8. CASE Nested
    BY <2>8 DEF Nested, othersOfUpdate, remoteVars, HandlerInv
  <2>9. CASE Run
    BY <2>9 DEF Run, othersOfUpdate, remoteVars, HandlerInv
  <2>10. CASE Finish
    BY <2>10 DEF Finish, Leaving, othersOfUpdate, remoteVars, HandlerInv
  <2>11. CASE CleanupCallbackThreads
    BY <2>11 DEF CleanupCallbackThreads, remoteVars, globals, HandlerInv
  <2>q. QED BY <1>1, <2>1, <2>2, <2>3, <2>4, <2>5, <2>6, <2>7, <2>8, <2>9, <2>10, <2>11 DEF Main
<1>2. ASSUME NEW n \in DOMAIN note, NoteStep(n) PROVE HandlerInv'
  BY <1>2, HandlersKept DEF NoteStep, Check, Wait, Test, Raise, Post, GoesOn, mainVars, remoteVars
<1>3. ASSUME NEW r \in Remote, HandlerStep(r) \/ HandlerOpenFails(r) PROVE HandlerInv'
  <2>1. UNCHANGED <<turn, iNbJobsHandlers, main>>
    BY <1>3 DEF HandlerStep, Begin, PollAgain, JobEnds, Fetch, JobFailed, Count, Add, TestLast, Sleep,
                HandlerOpenFails, HandlerGoesOn, mainVars
  <2>2. handler[r] \notin {"none", "ended"} /\ handler'[r] # "none"
    BY <1>3, <1>t DEF HandlerStep, Begin, PollAgain, JobEnds, Fetch, JobFailed, Count, Add, TestLast, Sleep,
                HandlerOpenFails, HandlerGoesOn, Types
  <2>3. \A q \in Remote : q # r => handler'[q] = handler[q]
    BY <1>3, <1>t DEF HandlerStep, Begin, PollAgain, JobEnds, Fetch, JobFailed, Count, Add, TestLast, Sleep,
                HandlerOpenFails, HandlerGoesOn, Types
  <2>q. QED BY <2>1, <2>2, <2>3, HandlersKept
<1>4. CASE UNCHANGED vars
  BY <1>4, HandlersKept DEF vars, mainVars, globals, remoteVars
<1>q. QED BY <1>1, <1>2, <1>3, <1>4 DEF Next, Threads

(* Without occurrences of one input that several remote jobs compute, the  *)
(* values taken over from a copy are those of its own handler.             *)
LEMMA ResultStepOK ==
  ASSUME ~SameInput, TypeOK, SequenceOK, HandlerInv, HandlerInv', ResultInv, [Next]_vars
  PROVE  ResultInv'
<1> USE RemoteAssumption
<1>t. Types
  BY TypeParts
<1>k. ASSUME UNCHANGED <<handler, fetched, copy, input>>,
             \/ main' = main /\ turn' = turn
             \/ main' \notin {"join", "nested", "run", "final"}
             \/ main \in {"nested", "run", "final"} /\ main' # "join"
      PROVE  ResultInv'
  BY <1>k DEF ResultInv, ResultsStored
<1>1. CASE Main
  <2>1. CASE Start
    BY <2>1, <1>k DEF Start, othersOfUpdate, remoteVars, HandlerInv, ResultInv, ResultsStored
  <2>2. CASE Download
    BY <2>2, <1>k DEF Download, othersOfUpdate, remoteVars
  <2>3. CASE Downloaded
    BY <2>3, <1>k DEF Downloaded, othersOfUpdate, remoteVars
  <2>4. CASE Create
    BY <2>4, <1>t DEF Create, HandlerInv, ResultInv, ResultsStored, Types
  <2>5. CASE Increment
    BY <2>5, <1>k DEF Increment, remoteVars
  <2>6. CASE WaitJobs
    BY <2>6, <1>t DEF WaitJobs, remoteVars, HandlerInv, ResultInv, ResultsStored, Types
  <2>7. CASE Join
    BY <2>7, <1>t DEF Join, Joined, Merge, unchangedByHandling, remoteVars, HandlerInv, ResultInv, ResultsStored, Types
  <2>8. CASE Nested
    BY <2>8, <1>k DEF Nested, othersOfUpdate, remoteVars
  <2>9. CASE Run
    BY <2>9, <1>k DEF Run, othersOfUpdate, remoteVars
  <2>10. CASE Finish
    BY <2>10, <1>k DEF Finish, Leaving, othersOfUpdate, remoteVars
  <2>11. CASE CleanupCallbackThreads
    BY <2>11, <1>k DEF CleanupCallbackThreads, remoteVars, mainVars
  <2>q. QED BY <1>1, <2>1, <2>2, <2>3, <2>4, <2>5, <2>6, <2>7, <2>8, <2>9, <2>10, <2>11 DEF Main
<1>2. ASSUME NEW n \in DOMAIN note, NoteStep(n) PROVE ResultInv'
  <2>1. UNCHANGED <<handler, fetched, copy, input, main, turn>>
    BY <1>2 DEF NoteStep, Check, Wait, Test, Raise, Post, GoesOn, mainVars, remoteVars
  <2>q. QED BY <2>1, <1>k
<1>3. ASSUME NEW r \in Remote, HandlerStep(r) \/ HandlerOpenFails(r) PROVE ResultInv'
  <2>1. UNCHANGED <<main, turn, input>>
    BY <1>3 DEF HandlerStep, Begin, PollAgain, JobEnds, Fetch, JobFailed, Count, Add, TestLast, Sleep,
                HandlerOpenFails, HandlerGoesOn, mainVars
  <2>2. /\ handler[r] \notin {"none", "ended"} /\ handler'[r] # "none"
        /\ \A q \in Remote : q # r => handler'[q] = handler[q]
    BY <1>3, <1>t DEF HandlerStep, Begin, PollAgain, JobEnds, Fetch, JobFailed, Count, Add, TestLast, Sleep,
                HandlerOpenFails, HandlerGoesOn, Types
  <2>3. \A q \in Remote : q # r => fetched'[q] = fetched[q] /\ copy'[q] = copy[q]
    BY <1>3, <1>t DEF HandlerStep, Begin, PollAgain, JobEnds, Fetch, JobFailed, Count, Add, TestLast, Sleep,
                HandlerOpenFails, HandlerGoesOn, Types
  <2>4. fetched'[r] => copy'[r][r]
    <3>1. CASE Fetch(r)
      BY <3>1, <1>t DEF Fetch, Types
    <3>2. CASE UNCHANGED <<fetched, copy>>
      BY <3>2 DEF ResultInv
    <3>q. QED BY <1>3, <3>1, <3>2 DEF HandlerStep, Begin, PollAgain, JobEnds, JobFailed, Count, Add,
                TestLast, Sleep, HandlerOpenFails
  <2>5. main = "join" => turn <= r
    BY <2>2, <1>t DEF HandlerInv, Types
  <2>6. main \notin {"nested", "run", "final"}
    BY <2>2 DEF HandlerInv
  <2>7. \A q \in Remote : fetched'[q] => handler'[q] # "none" /\ copy'[q][q]
    BY <2>2, <2>3, <2>4 DEF ResultInv
  <2>8. main' = "join" => \A q \in Remote : q < turn' /\ fetched'[q] => input'[q]
    BY <2>1, <2>3, <2>5, <1>t DEF ResultInv, Types
  <2>q. QED BY <2>1, <2>6, <2>7, <2>8 DEF ResultInv, ResultsStored
<1>4. CASE UNCHANGED vars
  <2>1. UNCHANGED <<handler, fetched, copy, input, main, turn>>
    BY <1>4 DEF vars, mainVars, remoteVars
  <2>q. QED BY <2>1, <1>k
<1>q. QED BY <1>1, <1>2, <1>3, <1>4 DEF Next, Threads

-----------------------------------------------------------------------------
(* The final notification.                                                 *)

LEMMA FinalStepOK ==
  ASSUME TypeOK, SequenceOK, FinalInv, [Next]_vars
  PROVE  FinalInv'
<1>t. Types
  BY TypeParts
<1>k. ASSUME UNCHANGED <<note, cStep, received>>, main' \notin {"cleanup", "gone"},
             main \notin {"cleanup", "gone"}
      PROVE  FinalInv'
  BY <1>k DEF FinalInv
<1>u. ASSUME NEW p \in 0 .. 100, InvokeBasicCallback(Started, p), UNCHANGED <<queued, received>>,
             main \notin {"cleanup", "gone"}
      PROVE  FinalInv'
  <2>1. \A n \in DOMAIN note : note[n].state \notin Final
    BY <1>u DEF FinalInv
  <2>2. cStep' <= Started
    <3>1. cStep' \in {cStep, Started}
      BY <1>u, InvokeOK
    <3>2. cStep <= Started
      BY <1>u DEF FinalInv
    <3>q. QED BY <3>1, <3>2
  <2>3. \A n \in DOMAIN note' : note'[n].state \notin Final
    <3>1. /\ \A n \in DOMAIN note : note'[n] = note[n]
          /\ \A n \in DOMAIN note' : n \in DOMAIN note \/ note'[n].state = Started
      BY <1>u, InvokeOK
    <3>q. QED BY <2>1, <3>1
  <2>q. QED BY <2>2, <2>3 DEF FinalInv
<1>p. status \in 0 .. 100
  BY <1>t DEF Types
<1>1. CASE Main
  <2>1. CASE Start
    BY <2>1, <1>u, <1>p DEF Start, othersOfUpdate, settings
  <2>2. CASE Download
    BY <2>2, <1>u DEF Download, UpdateStatus, othersOfUpdate, settings
  <2>3. CASE Downloaded
    BY <2>3, <1>u DEF Downloaded, UpdateStatus, othersOfUpdate, settings
  <2>4. CASE Create
    BY <2>4, <1>k DEF Create, unchangedByHandling
  <2>5. CASE Increment
    BY <2>5, <1>k DEF Increment, unchangedByHandling
  <2>6. CASE WaitJobs
    BY <2>6, <1>k DEF WaitJobs, unchangedByHandling
  <2>7. CASE Join
    BY <2>7, <1>k DEF Join, unchangedByHandling
  <2>8. CASE Nested
    <3>1. main \notin {"cleanup", "gone"} /\ UNCHANGED <<queued, received>>
      BY <2>8 DEF Nested, othersOfUpdate, settings
    <3>2. CASE queued
      BY <2>8, <3>1, <3>2, <1>u DEF Nested, UpdateStatus
    <3>3. CASE ~queued
      <4>1. \A n \in DOMAIN note' : note'[n].state \notin Final
        BY <2>8, <3>1, <3>3 DEF Nested, FinalInv
      <4>2. UNCHANGED cStep /\ cStep <= Started
        BY <2>8, <3>1, <3>3 DEF Nested, FinalInv
      <4>q. QED BY <4>1, <4>2 DEF FinalInv
    <3>q. QED BY <3>2, <3>3
  <2>9. CASE Run
    <3>1. /\ main \notin {"cleanup", "gone"} /\ main' \notin {"cleanup", "gone"}
          /\ UNCHANGED <<queued, received>>
      BY <2>9 DEF Run, othersOfUpdate, settings
    <3>2. ASSUME NEW p \in Reports, UpdateStatus(p) PROVE FinalInv'
      <4>1. p \in 0 .. 100
        BY ReportAssumption
      <4>q. QED BY <3>1, <3>2, <4>1, <1>u DEF UpdateStatus
    <3>3. CASE UNCHANGED <<status, prohibited, note, cStep>>
      BY <3>1, <3>3, <1>k
    <3>q. QED BY <2>9, <3>2, <3>3 DEF Run
  <2>10. CASE Finish
    <3>1. /\ main \notin {"cleanup", "gone"} /\ main' \in {"cleanup", "gone"}
          /\ main' = "gone" => queued
          /\ UNCHANGED <<queued, received>>
      BY <2>10 DEF Finish, Leaving, othersOfUpdate, settings
    <3>2. PICK state \in Final : InvokeBasicCallback(state, status)
      BY <2>10 DEF Finish
    <3>3. \A n \in DOMAIN note : note[n].state \notin Final
      BY <3>1 DEF FinalInv
    <3>4. \A n \in DOMAIN note' : note'[n].state \in Final => cStep' = note'[n].state /\ note'[n].pc = "check"
      BY <3>2, <3>3, <1>p, InvokeOK
    <3>q. QED BY <3>1, <3>4 DEF FinalInv
  <2>11. CASE CleanupCallbackThreads
    <3>1. /\ main = "cleanup" /\ main' = "gone" /\ UNCHANGED <<note, cStep, received>>
          /\ \A n \in DOMAIN note : note[n].pc = "ended"
      BY <2>11 DEF CleanupCallbackThreads, globals
    <3>q. QED BY <3>1 DEF FinalInv
  <2>q. QED BY <1>1, <2>1, <2>2, <2>3, <2>4, <2>5, <2>6, <2>7, <2>8, <2>9, <2>10, <2>11 DEF Main
<1>2. ASSUME NEW n \in DOMAIN note, NoteStep(n) PROVE FinalInv'
  <2>1. PICK from, to \in NotePcs : GoesOn(n, from, to) /\ (to = "ended" =>
           \/ note[n].state < cStep
           \/ note[n].state = Started
           \/ received' = Delivered(n))
    <3>1. CASE Check(n)  BY <3>1 DEF Check, NotePcs
    <3>2. CASE Wait(n)   BY <3>2 DEF Wait, NotePcs
    <3>3. CASE Test(n)   BY <3>3 DEF Test, NotePcs
    <3>4. CASE Raise(n)  BY <3>4 DEF Raise, NotePcs
    <3>5. CASE Post(n)   BY <3>5 DEF Post, NotePcs
    <3>q. QED BY <1>2, <3>1, <3>2, <3>3, <3>4, <3>5 DEF NoteStep
  <2>2. /\ DOMAIN note' = DOMAIN note
        /\ \A k \in DOMAIN note : /\ note'[k].state = note[k].state
                                  /\ note'[k].pc = IF k = n THEN to ELSE note[k].pc
    BY <2>1, GoesOnOK
  <2>3. received \subseteq received'
    BY <1>2 DEF NoteStep, Check, Wait, Test, Raise, Post, Delivered
  <2>4. UNCHANGED <<main, cStep, queued>> /\ main # "gone"
    BY <2>1 DEF GoesOn, Alive, mainVars, settings
  <2>5. note[n].state \in Final /\ to = "ended" => n \in received'
    BY <1>2, <1>t, <2>1 DEF FinalInv, Delivered, Types
  <2>6. ASSUME NEW k \in DOMAIN note', note'[k].state \in Final
        PROVE  /\ main' \in {"cleanup", "gone"} /\ cStep' = note'[k].state
               /\ note'[k].pc = "ended" => k \in received'
               /\ main' # "gone"
    BY <2>2, <2>3, <2>4, <2>5, <2>6 DEF FinalInv
  <2>7. main' \notin {"cleanup", "gone"} => cStep' <= Started
    BY <2>4 DEF FinalInv
  <2>q. QED BY <2>6, <2>7 DEF FinalInv
<1>3. ASSUME NEW r \in Remote, HandlerStep(r) \/ HandlerOpenFails(r) PROVE FinalInv'
  <2>1. UNCHANGED <<note, cStep, received, main, queued>>
    BY <1>3 DEF HandlerStep, Begin, PollAgain, JobEnds, Fetch, JobFailed, Count, Add, TestLast, Sleep,
                HandlerOpenFails, HandlerGoesOn, mainVars, settings
  <2>q. QED BY <2>1 DEF FinalInv
<1>4. CASE UNCHANGED vars
  <2>1. UNCHANGED <<note, cStep, received, main, queued>>
    BY <1>4 DEF vars, mainVars, globals, settings
  <2>q. QED BY <2>1 DEF FinalInv
<1>q. QED BY <1>1, <1>2, <1>3, <1>4 DEF Next, Threads

-----------------------------------------------------------------------------
(* The theorems.                                                           *)

IInv == TypeOK /\ SequenceOK /\ CountInv /\ HandlerInv /\ FinalInv

LEMMA InitOK == Init => IInv /\ ResultInv
<1> SUFFICES ASSUME Init PROVE IInv /\ ResultInv
  OBVIOUS
<1> USE RemoteAssumption, BoundAssumption
<1>1. SequenceOK
  BY ListAssumption DEF Init, SequenceOK
<1>2. Types
  BY DEF Init, Types, MainPcs, HandlerPcs
<1>3. Lengths
  BY <1>1, LenProperties DEF Init, Lengths, SequenceOK
<1>4. TypeOK
  BY <1>1, <1>2, <1>3, TypeParts
<1>5. CountInv
  <2>1. Uncounted = 1 .. NbRemote
    BY DEF Init, Uncounted
  <2>2. Cardinality(1 .. NbRemote) = NbRemote
    <3>1. 1 \in Int /\ NbRemote \in Int /\ (1 > NbRemote => NbRemote = 0)
      OBVIOUS
    <3>2. Cardinality(1 .. NbRemote) = IF 1 > NbRemote THEN 0 ELSE NbRemote - 1 + 1
      BY <3>1, FS_Interval
    <3>q. QED BY <3>1, <3>2
  <2>3. \A r \in Remote : handler[r] = "none"
    BY DEF Init
  <2>4. iNbJobsHandled = 0
    BY DEF Init
  <2>q. QED BY <2>1, <2>2, <2>3, <2>4 DEF CountInv
<1>6. HandlerInv
  BY DEF Init, HandlerInv
<1>7. FinalInv
  BY DEF Init, FinalInv
<1>8. ResultInv
  BY DEF Init, ResultInv, ResultsStored
<1>q. QED BY <1>1, <1>4, <1>5, <1>6, <1>7, <1>8 DEF IInv

LEMMA StepOK == IInv /\ [Next]_vars => IInv'
<1> SUFFICES ASSUME IInv, [Next]_vars PROVE IInv'
  OBVIOUS
<1>1. TypeOK /\ SequenceOK /\ CountInv /\ HandlerInv /\ FinalInv
  BY DEF IInv
<1>2. TypeOK' /\ SequenceOK'
  <2>1. CASE UNCHANGED vars
    <3>1. Types' /\ Lengths' /\ SequenceOK'
      BY <1>1, <2>1, TypeParts DEF vars, settings, mainVars, globals, remoteVars, Types, Lengths, SequenceOK
    <3>q. QED BY <3>1, TypeParts
  <2>q. QED BY <1>1, <2>1, MainType, NoteStepType, HandlerType DEF Next, Threads
<1>3. CountInv' /\ HandlerInv' /\ FinalInv'
  BY <1>1, <1>2, CountStep, HandlerStepOK, FinalStepOK
<1>q. QED BY <1>2, <1>3 DEF IInv

LEMMA Invariance == Spec => []IInv
<1>1. Init => IInv
  BY InitOK
<1>q. QED BY <1>1, StepOK, PTL DEF Spec

(* The counters, the threads and the copies of the inputs keep their types *)
(* although the counter of the handlers is read and written in two steps:  *)
(* it never exceeds their number.                                          *)
THEOREM TypeCorrect == Spec => []TypeOK
<1>1. IInv => TypeOK
  BY DEF IInv
<1>q. QED BY <1>1, Invariance, PTL

(* When the main thread goes on, each input whose remote job was fetched   *)
(* holds the result, if no two of them are occurrences of one input        *)
(* (cleanupJobStatusThreads, service_callback.c:426-480).                  *)
THEOREM ResultsAreStored ==
  ASSUME ~SameInput
  PROVE  Spec => []ResultsStored
<1>1. Init => ResultInv
  BY InitOK
<1>2. IInv /\ IInv' /\ ResultInv /\ [Next]_vars => ResultInv'
  BY ResultStepOK DEF IInv
<1>3. ResultInv => ResultsStored
  BY DEF ResultInv
<1>q. QED BY <1>1, <1>2, <1>3, Invariance, PTL DEF Spec

(* A background worker that has left has sent its final notification: no   *)
(* later state cancels it, no progress outruns it, and the process waits   *)
(* for its thread (service_callback.c:493,538,1407).                       *)
THEOREM FinalIsDelivered == Spec => []FinalDelivered
<1>1. IInv => FinalDelivered
  BY DEF IInv, FinalInv, FinalDelivered
<1>q. QED BY <1>1, Invariance, PTL
=============================================================================
