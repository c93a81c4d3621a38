---------------------------- MODULE KernelProofs ----------------------------
(***************************************************************************)
(* Proofs about the lists that the kernel answers with, for every          *)
(* catalogue, every set of jobs and every limit: the jobs that meet the    *)
(* filters are in the pages once, and so are the services, whether in one  *)
(* answer or in pages; and about the searches for one service, which find  *)
(* the same one to describe and to run.                                    *)
(***************************************************************************)
EXTENDS Kernel, FiniteSetTheorems, SequenceTheorems, TLAPS

-----------------------------------------------------------------------------
(* Lists of some of the items of a list.                                   *)

LEMMA FiniteNumbers ==
  ASSUME NEW n \in Nat, NEW S \in SUBSET (1 .. n)
  PROVE  IsFiniteSet(S) /\ Cardinality(S) \in Nat
<1>1. IsFiniteSet(1 .. n)
  BY FS_Interval
<1>2. IsFiniteSet(S)
  BY <1>1, FS_Subset
<1>q. QED BY <1>2, FS_CardinalityType

(* A member of a set of numbers is at the place of the number of those     *)
(* that are not greater.                                                   *)
LEMMA AscendingOf ==
  ASSUME NEW n \in Nat, NEW S \in SUBSET (1 .. n)
  PROVE  /\ Ascending(S) \in [1 .. Cardinality(S) -> S]
         /\ \A x \in S : \E i \in 1 .. Cardinality(S) : Ascending(S)[i] = x
         /\ \A i, j \in 1 .. Cardinality(S) : Ascending(S)[i] = Ascending(S)[j] => i = j
<1>. DEFINE UpTo(x) == {y \in S : y <= x}
            f == [x \in S |-> Cardinality(UpTo(x))]
<1>1. IsFiniteSet(S) /\ Cardinality(S) \in Nat
  BY FiniteNumbers
<1>0. \A x \in S : x \in Nat
  OBVIOUS
<1>2. ASSUME NEW x \in S
      PROVE  /\ IsFiniteSet(UpTo(x)) /\ Cardinality(UpTo(x)) \in 1 .. Cardinality(S)
  <2>1. UpTo(x) \in SUBSET S /\ x \in UpTo(x)
    OBVIOUS
  <2>2. IsFiniteSet(UpTo(x)) /\ Cardinality(UpTo(x)) <= Cardinality(S)
    BY <1>1, <2>1, FS_Subset
  <2>3. Cardinality(UpTo(x)) \in Nat /\ Cardinality(UpTo(x)) # 0
    BY <2>1, <2>2, FS_CardinalityType, FS_EmptySet
  <2>q. QED BY <1>1, <2>2, <2>3
<1>3. ASSUME NEW x \in S, NEW z \in S, x < z PROVE f[x] # f[z]
  <2>1. UpTo(x) \in SUBSET UpTo(z) /\ z \in UpTo(z) /\ z \notin UpTo(x)
    <3>1. x \in Nat /\ z \in Nat /\ z <= z /\ ~(z <= x)
      BY <1>0, <1>3
    <3>2. ASSUME NEW y \in S, y <= x PROVE y <= z
      BY <1>0, <1>3, <3>1, <3>2
    <3>q. QED BY <3>1, <3>2
  <2>2. Cardinality(UpTo(x)) # Cardinality(UpTo(z))
    BY <1>2, <2>1, FS_Subset
  <2>q. QED BY <2>2
<1>4. f \in Injection(S, 1 .. Cardinality(S))
  <2>1. f \in [S -> 1 .. Cardinality(S)]
    BY <1>2
  <2>2. \A x, z \in S : x # z => f[x] # f[z]
    <3>1. \A x, z \in S : x # z => x < z \/ z < x
      BY <1>0
    <3>q. QED BY <1>3, <3>1
  <2>q. QED BY <2>1, <2>2 DEF Injection, IsInjective
<1>5. IsFiniteSet(1 .. Cardinality(S)) /\ Cardinality(1 .. Cardinality(S)) = Cardinality(S)
  BY <1>1, FS_Interval
<1>6. f \in Surjection(S, 1 .. Cardinality(S))
  BY <1>4, <1>5, FS_Injection
<1>7. \A i \in 1 .. Cardinality(S) : \E x \in S : Cardinality(UpTo(x)) = i
  BY <1>6 DEF Surjection
<1>8. \A i \in 1 .. Cardinality(S) :
        Ascending(S)[i] \in S /\ Cardinality(UpTo(Ascending(S)[i])) = i
  BY <1>7 DEF Ascending
<1>9. \A x \in S : Ascending(S)[Cardinality(UpTo(x))] = x
  <2>1. SUFFICES ASSUME NEW x \in S PROVE Ascending(S)[Cardinality(UpTo(x))] = x
    OBVIOUS
  <2>2. f[Ascending(S)[Cardinality(UpTo(x))]] = f[x] /\ Ascending(S)[Cardinality(UpTo(x))] \in S
    BY <1>2, <1>8
  <2>q. QED BY <1>4, <2>2 DEF Injection, IsInjective
<1>10. Ascending(S) \in [1 .. Cardinality(S) -> S]
  BY <1>8 DEF Ascending
<1>11. \A i, j \in 1 .. Cardinality(S) : Ascending(S)[i] = Ascending(S)[j] => i = j
  BY <1>8
<1>q. QED BY <1>2, <1>9, <1>10, <1>11

LEMMA ItemsAtOf ==
  ASSUME NEW T, NEW list \in Seq(T), NEW I \in SUBSET DOMAIN list
  PROVE  /\ ItemsAt(list, I) \in Seq(T)
         /\ \A n \in DOMAIN ItemsAt(list, I) : \E i \in I : ItemsAt(list, I)[n] = list[i]
         /\ \A i \in I : \E n \in DOMAIN ItemsAt(list, I) :
              /\ ItemsAt(list, I)[n] = list[i]
              /\ \A m \in DOMAIN ItemsAt(list, I) :
                   m # n => \E k \in I : k # i /\ ItemsAt(list, I)[m] = list[k]
<1>. DEFINE n == Len(list)
            c == Cardinality(I)
            place == Ascending(I)
<1>1. n \in Nat /\ I \in SUBSET (1 .. n) /\ list \in [1 .. n -> T]
  OBVIOUS
<1>2. c \in Nat
  BY <1>1, FiniteNumbers
<1>3. /\ place \in [1 .. c -> I]
      /\ \A x \in I : \E i \in 1 .. c : place[i] = x
      /\ \A i, j \in 1 .. c : place[i] = place[j] => i = j
  BY <1>1, AscendingOf
<1>4. ItemsAt(list, I) = [m \in 1 .. c |-> list[place[m]]]
  BY DEF ItemsAt
<1>. HIDE DEF n, c, place
<1>5. \A m \in 1 .. c : list[place[m]] \in T
  BY <1>1, <1>3
<1>6. ItemsAt(list, I) \in [1 .. c -> T]
  BY <1>4, <1>5
<1>7. ItemsAt(list, I) \in Seq(T) /\ DOMAIN ItemsAt(list, I) = 1 .. c
  BY <1>2, <1>6
<1>q. QED BY <1>3, <1>4, <1>7

-----------------------------------------------------------------------------
(* The list of jobs.                                                       *)

JobStep == (\E j \in JobSets : OpenJobs(j)) \/ ServeJobs

LEMMA JobSteps == [Next]_kernelState => JobStep \/ UNCHANGED jobVars
  BY DEF Next, kernelState, JobStep, DescriptionFound, OpenTheOneFound, ServiceFound,
         RunTheOneFound, Answered

(* The jobs of an answer without filters, but for those that are missing.  *)
Rows0(missing) == ItemsAt(jobs.list, JobsFor(NoFilter, missing))

LEMMA RowsFrame ==
  ASSUME UNCHANGED jobs
  PROVE  \A missing : Rows0(missing)' = Rows0(missing)
<1>1. \A missing : JobsFor(NoFilter, missing)' = JobsFor(NoFilter, missing)
  BY DEF JobsFor
<1>q. QED BY <1>1 DEF Rows0

LEMMA JobSetTypes ==
  ASSUME jobs \in JobSets
  PROVE  /\ jobs.build \in {"db", "files"}
         /\ jobs.list \in Seq(ToSet(jobs.list))
         /\ \A i, k \in DOMAIN jobs.list : jobs.list[i].id = jobs.list[k].id => i = k
  BY JobListAssumption

LEMMA RowsOf ==
  ASSUME jobs \in JobSets, NEW missing
  PROVE  /\ Rows0(missing) \in Seq(ToSet(jobs.list))
         /\ \A i \in Listable0 : jobs.list[i].id \notin missing =>
              \E n \in DOMAIN Rows0(missing) :
                /\ Rows0(missing)[n] = jobs.list[i]
                /\ \A m \in DOMAIN Rows0(missing) :
                     m # n => Rows0(missing)[m].id # jobs.list[i].id
<1>. DEFINE I == JobsFor(NoFilter, missing)
            T == ToSet(jobs.list)
<1>1. jobs.list \in Seq(T) /\ I \in SUBSET DOMAIN jobs.list
  BY JobSetTypes DEF JobsFor
<1>2. /\ ItemsAt(jobs.list, I) \in Seq(T)
      /\ \A i \in I : \E n \in DOMAIN ItemsAt(jobs.list, I) :
              /\ ItemsAt(jobs.list, I)[n] = jobs.list[i]
              /\ \A m \in DOMAIN ItemsAt(jobs.list, I) :
                   m # n => \E k \in I : k # i /\ ItemsAt(jobs.list, I)[m] = jobs.list[k]
  <2>. HIDE DEF I, T
  <2>q. QED BY <1>1, ItemsAtOf
<1>3. ASSUME NEW i \in Listable0, jobs.list[i].id \notin missing PROVE i \in I
  <2>1. \A f \in {"processid", "status", "minDuration", "maxDuration", "type", "datetime"} :
          NoFilter[f] = <<>>
    BY DEF NoFilter
  <2>2. ToSet(NoFilter.type) = {}
    BY DEF NoFilter, ToSet
  <2>q. QED BY <1>3, <2>1, <2>2 DEF Listable0, JobsFor, Selected, FilterJobByUser, NoFilter
<1>4. \A i, k \in DOMAIN jobs.list : jobs.list[i].id = jobs.list[k].id => i = k
  BY JobSetTypes
<1>. HIDE DEF I, T
<1>5. ItemsAt(jobs.list, I) = Rows0(missing)
  BY DEF Rows0, I
<1>q. QED BY <1>1, <1>2, <1>3, <1>4, <1>5 DEF T

-----------------------------------------------------------------------------
(* The filters.                                                            *)

LEMMA WordsIn ==
  ASSUME NEW filter, NEW field, NEW x \in ToSet(Words(filter, field))
  PROVE  \E w \in ToSet(filter[field]) : WpsStatus(w) = x
  BY DEF Words, ToSet

LEMMA SelectedMeets ==
  ASSUME jobs.build = "db", NEW job, NEW filter, Selected(job, filter, jobs.user)
  PROVE  Meets(job, filter)
<1>1. filter.processid # <<>> => \E w \in ToSet(filter.processid) : WpsStatus(w) = job.process
  BY WordsIn DEF Selected
<1>2. filter.status # <<>> => \E w \in ToSet(filter.status) : WpsStatus(w) = job.status
  BY WordsIn DEF Selected
<1>q. QED BY <1>1, <1>2 DEF Selected, Meets, Interval, FilterJobByUser

LEMMA FilteredMeets ==
  ASSUME jobs.build # "db", NEW job, NEW filter \in Filters \union {NoFilter},
         Filtered(filter, job, TRUE)
  PROVE  Meets(job, filter)
<1>1. IsFilteredPid(filter, job.process) /\ IsFilteredDMM(filter, job)
  BY DEF Filtered
<1>2. filter.processid \in Seq(ToSet(filter.processid))
  <2>1. CASE filter \in Filters
    BY <2>1, JobListAssumption
  <2>2. CASE filter = NoFilter
    <3>1. filter.processid = <<>>
      BY <2>2 DEF NoFilter
    <3>2. <<>> \in Seq(ToSet(filter.processid))
      OBVIOUS
    <3>q. QED BY <3>1, <3>2
  <2>q. QED BY <2>1, <2>2
<1>3. ASSUME filter.processid # <<>>, filter.status = <<>>
      PROVE  \E w \in ToSet(filter.processid) : WpsStatus(w) = job.process
  <2>1. ServicePidFilter(filter) = Words(filter, "processid")
    BY <1>3 DEF ServicePidFilter
  <2>2. Words(filter, "processid") # <<>>
    <3>1. 1 \in DOMAIN filter.processid
      BY <1>2, <1>3
    <3>2. DOMAIN Words(filter, "processid") = DOMAIN filter.processid
      BY DEF Words
    <3>q. QED BY <3>1, <3>2
  <2>q. QED BY <1>1, <2>1, <2>2, WordsIn DEF IsFilteredPid
<1>4. filter.minDuration # <<>> => filter.minDuration[1] <= Duration(job)
  BY <1>1 DEF IsFilteredDMM
<1>5. Len(filter.datetime) = 1 => Within(job.created, filter.datetime[1])
  BY <1>1 DEF IsFilteredDMM, Hull, Within, Last
<1>q. QED BY <1>3, <1>4, <1>5 DEF Meets

LEMMA NothingFiltered ==
  ASSUME NEW job, NEW there \in BOOLEAN
  PROVE  Filtered(NoFilter, job, there)
<1>1. ServicePidFilter(NoFilter) = <<>>
  BY DEF ServicePidFilter, NoFilter, Words
<1>q. QED BY <1>1 DEF Filtered, IsFilteredPid, IsFilteredDMM, NoFilter

Ids(T) == {j.id : j \in T}
Jobs == ToSet(jobs.list)

(* Types, and what is on a page. *)
JobTypes ==
  /\ jobs # Null => jobs \in JobSets
  /\ answer # "none" => jobs # Null
  /\ answer = "none" => pages = <<>> /\ dismissed = {}
  /\ query.limit \in Nat \union {-1} /\ query.skip \in Nat
  /\ query.filter \in Filters \union {NoFilter}
  /\ counted \in Nat
  /\ nextLink \in BOOLEAN /\ (nextLink => query.limit # -1)
  /\ answer \in {"busy", "list"} => page \in Seq(Ids(Jobs)) /\ pages \in Seq(Ids(Jobs))
  /\ answer = "busy" => toList \in Seq(Jobs)

LEMMA AskTypes ==
  ASSUME JobTypes, jobs # Null, NEW filter \in Filters \union {NoFilter}, NEW skip \in Nat,
         NEW limit \in Nat \union {-1}, NEW filtered, Ask(filter, skip, limit, filtered),
         UNCHANGED pages, answer = "none" \/ pages \in Seq(Ids(Jobs))
  PROVE  JobTypes'
<1>1. jobs \in JobSets /\ UNCHANGED <<jobs, dismissed>>
  BY DEF JobTypes, Ask
<1>2. query' = [filter |-> filter, skip |-> skip, limit |-> limit, filtered |-> filtered]
      /\ counted' = 0 /\ page' = <<>> /\ answer' \in {"busy", "died"}
  BY DEF Ask
<1>3. answer' = "busy" => toList' \in Seq(Jobs)
  <2>1. SUFFICES ASSUME answer' = "busy" PROVE toList' \in Seq(Jobs)
    OBVIOUS
  <2>2. toList' = ItemsAt(jobs.list, JobsFor(filter, dismissed))
    BY <2>1 DEF Ask
  <2>3. jobs.list \in Seq(Jobs) /\ JobsFor(filter, dismissed) \in SUBSET DOMAIN jobs.list
    BY <1>1, JobSetTypes DEF JobsFor, Jobs
  <2>q. QED BY <2>2, <2>3, ItemsAtOf
<1>4. Jobs' = Jobs
  BY <1>1 DEF Jobs
<1>5. pages' \in Seq(Ids(Jobs)) /\ page' \in Seq(Ids(Jobs))
  <2>1. <<>> \in Seq(Ids(Jobs))
    OBVIOUS
  <2>2. pages \in Seq(Ids(Jobs))
    BY <2>1 DEF JobTypes
  <2>q. QED BY <1>2, <2>1, <2>2
<1>6. nextLink' = FALSE
  BY DEF Ask
<1>q. QED BY <1>1, <1>2, <1>3, <1>4, <1>5, <1>6 DEF JobTypes

LEMMA JobTypesStep == JobTypes /\ JobStep => JobTypes'
<1>1. SUFFICES ASSUME JobTypes, JobStep PROVE JobTypes'
  OBVIOUS
<1>2. ASSUME NEW j \in JobSets, OpenJobs(j) PROVE JobTypes'
  <2>1. answer = "none"
    BY <1>1, <1>2 DEF OpenJobs, JobTypes
  <2>q. QED BY <1>1, <1>2, <2>1 DEF OpenJobs, JobTypes
<1>3. CASE AskJobs
  BY <1>1, <1>3, AskTypes, JobListAssumption DEF AskJobs
<1>4. CASE NextLink
  <2>1. query.skip + query.limit \in Nat
    BY <1>1, <1>4 DEF JobTypes, NextLink
  <2>2. pages \in Seq(Ids(Jobs))
    BY <1>1, <1>4 DEF JobTypes, NextLink
  <2>q. QED BY <1>1, <1>4, <2>1, <2>2, AskTypes DEF NextLink, JobTypes
<1>5. CASE QueryFails
  BY <1>1, <1>5 DEF QueryFails, JobTypes, Jobs
<1>6. CASE ListJob
  <2>1. UNCHANGED <<jobs, dismissed, query, pages>> /\ Jobs' = Jobs
    BY <1>6 DEF ListJob, Jobs
  <2>2. toList \in Seq(Jobs) /\ toList # <<>> /\ page \in Seq(Ids(Jobs)) /\ answer = "busy"
    BY <1>1, <1>6 DEF ListJob, JobTypes
  <2>3. Head(toList) \in Jobs /\ Tail(toList) \in Seq(Jobs)
    BY <2>2
  <2>4. Append(page, Head(toList).id) \in Seq(Ids(Jobs))
    BY <2>2, <2>3 DEF Ids
  <2>5. /\ page' \in {page, Append(page, Head(toList).id)}
        /\ counted' \in {counted, counted + 1}
        /\ answer' \in {"busy", "died"}
        /\ answer' = "busy" => toList' = Tail(toList)
    BY <1>6, <2>2 DEF ListJob
  <2>6. counted' \in Nat
    BY <1>1, <2>5 DEF JobTypes
  <2>7. page' \in Seq(Ids(Jobs))
    BY <2>2, <2>4, <2>5
  <2>8. nextLink' \in BOOLEAN /\ (nextLink' => query.limit # -1)
    BY <1>1, <1>6 DEF ListJob, JobTypes
  <2>q. QED BY <1>1, <2>1, <2>2, <2>3, <2>5, <2>6, <2>7, <2>8 DEF JobTypes
<1>7. CASE PrintJobList
  <2>1. page \in Seq(Ids(Jobs)) /\ pages \in Seq(Ids(Jobs))
    BY <1>1, <1>7 DEF PrintJobList, JobTypes
  <2>2. pages \o page \in Seq(Ids(Jobs))
    BY <2>1
  <2>q. QED BY <1>1, <1>7, <2>1, <2>2 DEF PrintJobList, JobTypes, Jobs
<1>8. CASE DismissJob
  BY <1>1, <1>8 DEF DismissJob, JobTypes, Jobs
<1>q. QED BY <1>1, <1>2, <1>3, <1>4, <1>5, <1>6, <1>7, <1>8 DEF JobStep, ServeJobs

(* What is on a page meets the filters. *)
OnPageFor(id) ==
  \E k \in DOMAIN jobs.list :
    /\ id = jobs.list[k].id
    /\ \/ id \in dismissed
       \/ jobs.list[k].lenv = "none"
       \/ Meets(jobs.list[k], query.filter)

MeetsInv ==
  /\ answer = "busy" /\ jobs.build = "db" =>
       \A n \in DOMAIN toList : Selected(toList[n], query.filter, jobs.user)
  /\ answer \in {"busy", "list"} => \A n \in DOMAIN page : OnPageFor(page[n])

LEMMA MeetsFrame ==
  ASSUME UNCHANGED <<jobs, query>>, dismissed \subseteq dismissed', NEW id, OnPageFor(id)
  PROVE  OnPageFor(id)'
<1>1. \A job : Meets(job, query.filter)' <=> Meets(job, query.filter)
  BY DEF Meets
<1>q. QED BY <1>1 DEF OnPageFor

LEMMA AskMeets ==
  ASSUME JobTypes, jobs # Null, NEW filter, NEW skip, NEW limit, NEW filtered,
         Ask(filter, skip, limit, filtered)
  PROVE  MeetsInv'
<1>1. UNCHANGED jobs /\ query'.filter = filter /\ page' = <<>>
  BY DEF Ask
<1>2. ASSUME answer' = "busy", jobs.build = "db"
      PROVE  \A n \in DOMAIN toList' : Selected(toList'[n], filter, jobs.user)
  <2>1. toList' = ItemsAt(jobs.list, JobsFor(filter, dismissed))
    BY <1>2 DEF Ask
  <2>2. jobs.list \in Seq(Jobs) /\ JobsFor(filter, dismissed) \in SUBSET DOMAIN jobs.list
    BY JobSetTypes DEF JobsFor, Jobs, JobTypes
  <2>3. \A n \in DOMAIN toList' : \E i \in JobsFor(filter, dismissed) : toList'[n] = jobs.list[i]
    BY <2>1, <2>2, ItemsAtOf
  <2>q. QED BY <1>2, <2>3 DEF JobsFor
<1>q. QED BY <1>1, <1>2 DEF MeetsInv

LEMMA MeetsStep == JobTypes /\ MeetsInv /\ JobStep => MeetsInv'
<1>1. SUFFICES ASSUME JobTypes, MeetsInv, JobStep PROVE MeetsInv'
  OBVIOUS
<1>2. ASSUME NEW j \in JobSets, OpenJobs(j) PROVE MeetsInv'
  <2>1. answer' = "none"
    BY <1>1, <1>2 DEF OpenJobs, JobTypes
  <2>q. QED BY <2>1 DEF MeetsInv
<1>3. CASE AskJobs
  BY <1>1, <1>3, AskMeets DEF AskJobs
<1>4. CASE NextLink
  BY <1>1, <1>4, AskMeets DEF NextLink
<1>5. CASE QueryFails
  BY <1>5 DEF QueryFails, MeetsInv
<1>6. CASE ListJob
  <2>1. UNCHANGED <<jobs, dismissed, query>> /\ jobs \in JobSets /\ answer = "busy"
    BY <1>1, <1>6 DEF ListJob, JobTypes
  <2>2. toList \in Seq(Jobs) /\ toList # <<>> /\ page \in Seq(Ids(Jobs))
    BY <1>1, <1>6 DEF ListJob, JobTypes
  <2>3. Head(toList) = toList[1] /\ 1 \in DOMAIN toList
    BY <2>2
  <2>4. PICK k \in DOMAIN jobs.list : Head(toList) = jobs.list[k]
    BY <2>2, <2>3 DEF Jobs, ToSet
  <2>5. ASSUME page' = Append(page, Head(toList).id) PROVE OnPageFor(Head(toList).id)
    <3>1. jobs.build = "files" =>
            Filtered(query.filter, jobs.list[k],
                     jobs.list[k].id \notin dismissed /\ jobs.list[k].lenv # "none")
      <4>1. page # Append(page, Head(toList).id)
        BY <2>2, <2>4, JobSetTypes, <2>1 DEF Jobs, Ids
      <4>q. QED BY <1>6, <2>4, <2>5, <4>1 DEF ListJob
    <3>2. CASE jobs.build = "db"
      BY <1>1, <2>1, <2>3, <2>4, <3>2, SelectedMeets DEF MeetsInv, OnPageFor
    <3>3. CASE jobs.build # "db"
      <4>1. jobs.build = "files"
        BY <2>1, <3>3, JobSetTypes
      <4>2. CASE jobs.list[k].id \notin dismissed /\ jobs.list[k].lenv # "none"
        BY <1>1, <2>4, <3>1, <3>3, <4>1, <4>2, FilteredMeets DEF JobTypes, OnPageFor
      <4>q. QED BY <2>4, <4>2 DEF OnPageFor
    <3>q. QED BY <3>2, <3>3
  <2>6. \A n \in DOMAIN page' : OnPageFor(page'[n])
    <3>1. \A n \in DOMAIN page : OnPageFor(page[n])
      BY <1>1, <2>1 DEF MeetsInv
    <3>2. page' \in {page, Append(page, Head(toList).id)}
      BY <1>6 DEF ListJob
    <3>3. Head(toList).id \in Ids(Jobs)
      BY <2>2 DEF Ids
    <3>4. \A n \in DOMAIN Append(page, Head(toList).id) :
            \/ n \in DOMAIN page /\ Append(page, Head(toList).id)[n] = page[n]
            \/ Append(page, Head(toList).id)[n] = Head(toList).id
      BY <2>2, <3>3
    <3>q. QED BY <2>5, <3>1, <3>2, <3>4
  <2>7. \A id : OnPageFor(id) => OnPageFor(id)'
    BY <2>1, MeetsFrame
  <2>8. (\A n \in DOMAIN page : OnPageFor(page[n]))'
    BY <2>6, <2>7
  <2>9. ASSUME answer' = "busy", jobs.build = "db"
        PROVE  \A n \in DOMAIN toList' : Selected(toList'[n], query.filter, jobs.user)
    <3>1. toList' = Tail(toList)
      BY <1>6, <2>9 DEF ListJob
    <3>2. \A n \in DOMAIN Tail(toList) : n + 1 \in DOMAIN toList /\ Tail(toList)[n] = toList[n + 1]
      BY <2>2
    <3>q. QED BY <1>1, <2>1, <2>9, <3>1, <3>2 DEF MeetsInv
  <2>10. \A job : Selected(job, query.filter, jobs.user)' <=> Selected(job, query.filter, jobs.user)
    BY <2>1 DEF Selected, Words, ToSet
  <2>q. QED BY <2>1, <2>8, <2>9, <2>10 DEF MeetsInv
<1>7. CASE PrintJobList
  <2>1. UNCHANGED <<jobs, query, dismissed, page>> /\ answer = "busy" /\ answer' = "list"
    BY <1>7 DEF PrintJobList
  <2>q. QED BY <1>1, <2>1, MeetsFrame DEF MeetsInv
<1>8. CASE DismissJob
  <2>1. UNCHANGED <<jobs, query, toList, page, answer>> /\ dismissed \subseteq dismissed'
    BY <1>8 DEF DismissJob
  <2>q. QED BY <1>1, <2>1, MeetsFrame DEF MeetsInv
<1>q. QED BY <1>1, <1>2, <1>3, <1>4, <1>5, <1>6, <1>7, <1>8 DEF JobStep, ServeJobs

(* An answer without filters is a part of the rows; the pages before it    *)
(* and its own hold the first Total of the rows.                           *)
Upto(k, skip, limit) ==
  IF limit = -1 THEN k
  ELSE IF k <= skip THEN skip
  ELSE IF k <= skip + limit THEN k
  ELSE skip + limit

Total == Upto(counted, query.skip, query.limit)

Prefix(R, n) == [i \in 1 .. n |-> R[i].id]

PageOf(R) ==
  /\ query.skip <= Len(R) /\ (query.limit = -1 => query.skip = 0)
  /\ counted <= Len(R)
  /\ nextLink <=> query.limit # -1 /\ counted > query.limit + query.skip
  /\ answer = "busy" =>
       /\ toList = [i \in 1 .. Len(R) - counted |-> R[counted + i]]
       /\ pages \o page = Prefix(R, Total)
  /\ answer = "list" => counted = Len(R) /\ pages = Prefix(R, Total)

PagesInv ==
  ~query.filtered /\ answer \in {"busy", "list"} =>
    /\ query.filter = NoFilter
    /\ dismissed = {} \/ query.limit = -1 => \E D \in SUBSET dismissed : PageOf(Rows0(D))

JobsInv == JobTypes /\ MeetsInv /\ PagesInv

LEMMA UptoNext ==
  ASSUME NEW k \in Nat, NEW skip \in Nat, NEW limit \in Nat \union {-1}, limit = -1 => skip = 0
  PROVE  /\ Upto(0, skip, limit) = skip
         /\ limit = -1 \/ (k >= skip /\ k < limit + skip) =>
              Upto(k, skip, limit) = k /\ Upto(k + 1, skip, limit) = k + 1
         /\ ~(limit = -1 \/ (k >= skip /\ k < limit + skip)) =>
              Upto(k + 1, skip, limit) = Upto(k, skip, limit)
         /\ (limit = -1 \/ k <= limit + skip) /\ skip <= k => Upto(k, skip, limit) = k
<1>1. CASE limit = -1
  BY <1>1 DEF Upto
<1>2. CASE limit \in Nat
  <2>1. Upto(0, skip, limit) = skip
    BY <1>2 DEF Upto
  <2>2. limit # -1
    BY <1>2
  <2>3. CASE k < skip
    BY <1>2, <2>1, <2>2, <2>3 DEF Upto
  <2>4. CASE k >= skip /\ k < limit + skip
    BY <1>2, <2>1, <2>2, <2>4 DEF Upto
  <2>5. CASE k >= limit + skip
    BY <1>2, <2>1, <2>2, <2>5 DEF Upto
  <2>q. QED BY <1>2, <2>3, <2>4, <2>5
<1>q. QED BY <1>1, <1>2

LEMMA UptoNextPage ==
  ASSUME NEW k \in Nat, NEW skip \in Nat, NEW limit \in Nat
  PROVE  /\ k > limit + skip => Upto(k, skip, limit) = skip + limit
         /\ k + 1 > limit + skip <=> k > limit + skip \/ k = limit + skip
  BY DEF Upto

LEMMA PrefixNext ==
  ASSUME NEW T, NEW R \in Seq(T), NEW n \in Nat, n <= Len(R)
  PROVE  /\ Prefix(R, n) \in Seq(Ids(T)) /\ Len(Prefix(R, n)) = n
         /\ n < Len(R) => Append(Prefix(R, n), R[n + 1].id) = Prefix(R, n + 1)
<1>1. \A i \in 1 .. Len(R) : R[i].id \in Ids(T)
  BY DEF Ids
<1>2. \A m \in Nat : m <= Len(R) => Prefix(R, m) \in [1 .. m -> Ids(T)]
  BY <1>1 DEF Prefix
<1>3. Prefix(R, n) \in Seq(Ids(T)) /\ Len(Prefix(R, n)) = n
  BY <1>2
<1>4. ASSUME n < Len(R) PROVE Append(Prefix(R, n), R[n + 1].id) = Prefix(R, n + 1)
  <2>1. n + 1 \in 1 .. Len(R) /\ R[n + 1].id \in Ids(T)
    BY <1>1, <1>4
  <2>2. Prefix(R, n + 1) \in [1 .. n + 1 -> Ids(T)]
    BY <1>2, <2>1
  <2>3. /\ Append(Prefix(R, n), R[n + 1].id) \in Seq(Ids(T))
        /\ Len(Append(Prefix(R, n), R[n + 1].id)) = n + 1
        /\ \A i \in 1 .. n : Append(Prefix(R, n), R[n + 1].id)[i] = Prefix(R, n)[i]
        /\ Append(Prefix(R, n), R[n + 1].id)[n + 1] = R[n + 1].id
    BY <1>3, <2>1
  <2>4. \A i \in 1 .. n + 1 : Append(Prefix(R, n), R[n + 1].id)[i] = Prefix(R, n + 1)[i]
    <3>1. \A i \in 1 .. n + 1 : Prefix(R, n + 1)[i] = R[i].id
      BY DEF Prefix
    <3>2. \A i \in 1 .. n : Prefix(R, n)[i] = R[i].id
      BY DEF Prefix
    <3>3. \A i \in 1 .. n + 1 : i \in 1 .. n \/ i = n + 1
      OBVIOUS
    <3>4. n + 1 \in 1 .. n + 1
      OBVIOUS
    <3>q. QED BY <2>3, <3>1, <3>2, <3>3, <3>4
  <2>5. Append(Prefix(R, n), R[n + 1].id) \in [1 .. n + 1 -> Ids(T)]
    <3>1. \A q \in Seq(Ids(T)) : q \in [1 .. Len(q) -> Ids(T)]
      OBVIOUS
    <3>q. QED BY <2>3, <3>1
  <2>. HIDE DEF Prefix
  <2>q. QED BY <2>2, <2>4, <2>5
<1>q. QED BY <1>3, <1>4

LEMMA AskPages ==
  ASSUME JobTypes, jobs # Null, NEW skip \in Nat, NEW limit \in Nat \union {-1},
         limit = -1 => skip = 0, NEW filtered, Ask(NoFilter, skip, limit, filtered),
         NEW R \in Seq(Jobs), R = Rows0(dismissed), pages' = Prefix(R, skip), skip <= Len(R)
  PROVE  PageOf(R)'
<1>1. query'.skip = skip /\ query'.limit = limit /\ counted' = 0 /\ nextLink' = FALSE /\ page' = <<>>
  BY DEF Ask
<1>2. answer' # "list" /\ (answer' = "busy" => toList' = R)
  BY DEF Ask, Rows0
<1>3. Total' = skip
  BY <1>1, UptoNext DEF Total
<1>4. pages' \o page' = Prefix(R, skip)
  BY <1>1, PrefixNext
<1>5. R = [i \in 1 .. Len(R) - 0 |-> R[0 + i]] /\ 0 <= Len(R)
  <2>1. R = [i \in 1 .. Len(R) |-> R[i]]
    OBVIOUS
  <2>2. Len(R) - 0 = Len(R) /\ \A i \in 1 .. Len(R) : 0 + i = i
    OBVIOUS
  <2>q. QED BY <2>1, <2>2
<1>6. nextLink' <=> query'.limit # -1 /\ counted' > query'.limit + query'.skip
  BY <1>1
<1>7. (query.skip <= Len(R) /\ (query.limit = -1 => query.skip = 0) /\ counted <= Len(R))'
  BY <1>1, <1>5
<1>8. (answer = "busy" =>
         /\ toList = [i \in 1 .. Len(R) - counted |-> R[counted + i]]
         /\ pages \o page = Prefix(R, Total))'
  BY <1>1, <1>2, <1>3, <1>4, <1>5 DEF Prefix
<1>q. QED BY <1>2, <1>6, <1>7, <1>8 DEF PageOf

LEMMA ListPages ==
  ASSUME JobTypes, NEW R \in Seq(Jobs), PageOf(R), ListJob, query.filter = NoFilter,
         answer' = "busy"
  PROVE  PageOf(R)'
<1>1. UNCHANGED <<query, pages>> /\ answer = "busy" /\ toList # <<>>
  BY DEF ListJob
<1>2. /\ counted \in Nat /\ counted <= Len(R) /\ Len(R) \in Nat
      /\ toList = [i \in 1 .. Len(R) - counted |-> R[counted + i]]
  BY <1>1 DEF PageOf, JobTypes
<1>3. counted < Len(R)
  BY <1>1, <1>2
<1>4. /\ Head(toList) = R[counted + 1]
      /\ Tail(toList) = [i \in 1 .. Len(R) - (counted + 1) |-> R[(counted + 1) + i]]
  <2>1. toList \in Seq(Jobs) /\ Len(toList) = Len(R) - counted
    <3>1. \A i \in 1 .. Len(R) - counted : counted + i \in 1 .. Len(R)
      BY <1>2
    <3>2. toList \in [1 .. Len(R) - counted -> Jobs] /\ Len(R) - counted \in Nat
      BY <1>2, <3>1
    <3>q. QED BY <3>2
  <2>2. Head(toList) = R[counted + 1]
    BY <1>2, <1>3
  <2>3. /\ Tail(toList) \in Seq(Jobs) /\ Len(Tail(toList)) = Len(R) - (counted + 1)
        /\ \A i \in 1 .. Len(Tail(toList)) : Tail(toList)[i] = toList[i + 1]
    BY <1>1, <1>2, <2>1
  <2>4. \A i \in 1 .. Len(R) - (counted + 1) : toList[i + 1] = R[(counted + 1) + i]
    <3>1. \A i \in 1 .. Len(R) - (counted + 1) :
            i + 1 \in 1 .. Len(R) - counted /\ counted + (i + 1) = (counted + 1) + i
      BY <1>2
    <3>q. QED BY <1>2, <3>1
  <2>5. Tail(toList) = [i \in 1 .. Len(Tail(toList)) |-> Tail(toList)[i]]
    <3>1. PICK t \in Seq(Jobs) : t = Tail(toList)
      BY <2>3
    <3>2. t = [i \in 1 .. Len(t) |-> t[i]]
      OBVIOUS
    <3>q. QED BY <3>1, <3>2
  <2>q. QED BY <2>2, <2>3, <2>4, <2>5
<1>5. jobs.build = "files" => Filtered(query.filter, Head(toList),
          Head(toList).id \notin dismissed /\ Head(toList).lenv # "none")
  BY NothingFiltered
<1>6. /\ page' = IF OnPage THEN Append(page, Head(toList).id) ELSE page
      /\ nextLink' = (nextLink \/ (query.limit # -1 /\ counted = query.limit + query.skip))
      /\ counted' = counted + 1
      /\ toList' = Tail(toList)
  BY <1>1, <1>5 DEF ListJob
<1>7. /\ query.limit \in Nat \union {-1} /\ query.skip \in Nat /\ nextLink \in BOOLEAN
      /\ query.skip <= Len(R) /\ (query.limit = -1 => query.skip = 0)
  BY DEF JobTypes, PageOf
<1>8. nextLink' <=> query.limit # -1 /\ counted + 1 > query.limit + query.skip
  <2>1. nextLink' <=> nextLink \/ (query.limit # -1 /\ counted = query.limit + query.skip)
    BY <1>6
  <2>2. nextLink <=> query.limit # -1 /\ counted > query.limit + query.skip
    BY DEF PageOf
  <2>3. CASE query.limit = -1
    BY <2>1, <2>2, <2>3
  <2>4. CASE query.limit \in Nat
    <3>1. counted + 1 > query.limit + query.skip <=>
            counted > query.limit + query.skip \/ counted = query.limit + query.skip
      BY <1>2, <1>7, <2>4, UptoNextPage
    <3>q. QED BY <2>1, <2>2, <2>4, <3>1
  <2>q. QED BY <1>7, <2>3, <2>4
<1>9. pages \o page' = Prefix(R, Total)'
  <2>1. pages \in Seq(Ids(Jobs)) /\ page \in Seq(Ids(Jobs)) /\ pages \o page = Prefix(R, Total)
    BY <1>1 DEF PageOf, JobTypes
  <2>2. Total' = Upto(counted + 1, query.skip, query.limit)
    BY <1>1, <1>6 DEF Total
  <2>3. CASE OnPage
    <3>1. Total = counted /\ Total' = counted + 1
      BY <1>2, <1>7, <2>2, <2>3, UptoNext DEF OnPage, Total
    <3>2. R[counted + 1].id \in Ids(Jobs)
      BY <1>2, <1>3 DEF Ids
    <3>3. pages \o Append(page, R[counted + 1].id) = Append(pages \o page, R[counted + 1].id)
      BY <2>1, <3>2
    <3>4. Append(Prefix(R, counted), R[counted + 1].id) = Prefix(R, counted + 1)
      BY <1>2, <1>3, PrefixNext
    <3>5. Prefix(R, Total)' = Prefix(R, counted + 1)
      BY <3>1 DEF Prefix
    <3>6. page' = Append(page, R[counted + 1].id)
      BY <1>4, <1>6, <2>3
    <3>q. QED BY <2>1, <3>1, <3>3, <3>4, <3>5, <3>6
  <2>4. CASE ~OnPage
    <3>1. Total' = Total
      BY <1>2, <1>7, <2>2, <2>4, UptoNext DEF OnPage, Total
    <3>2. Prefix(R, Total)' = Prefix(R, Total)
      BY <3>1 DEF Prefix
    <3>q. QED BY <1>6, <2>1, <2>4, <3>2
  <2>q. QED BY <2>3, <2>4
<1>10. (answer = "busy" =>
          /\ toList = [i \in 1 .. Len(R) - counted |-> R[counted + i]]
          /\ pages \o page = Prefix(R, Total))'
  BY <1>1, <1>4, <1>6, <1>9
<1>11. (nextLink <=> query.limit # -1 /\ counted > query.limit + query.skip)'
  BY <1>1, <1>6, <1>8
<1>12. (query.skip <= Len(R) /\ (query.limit = -1 => query.skip = 0) /\ counted <= Len(R))'
  BY <1>1, <1>2, <1>3, <1>6, <1>7
<1>q. QED BY <1>10, <1>11, <1>12 DEF PageOf

LEMMA PagesStep == JobTypes /\ PagesInv /\ JobStep => PagesInv'
<1>1. SUFFICES ASSUME JobTypes, PagesInv, JobStep, ~query'.filtered, answer' \in {"busy", "list"}
               PROVE  /\ query'.filter = NoFilter
                      /\ dismissed' = {} \/ query'.limit = -1 =>
                           \E D \in SUBSET dismissed' : PageOf(Rows0(D))'
  <2>1. \A D : PageOf(Rows0(D))' <=> (PageOf(Rows0(D)))'
    OBVIOUS
  <2>q. QED BY <2>1 DEF PagesInv
<1>2. ASSUME NEW j \in JobSets, OpenJobs(j) PROVE FALSE
  BY <1>1, <1>2 DEF OpenJobs, JobTypes
<1>3. CASE AskJobs
  <2>1. PICK filter \in Filters, limit \in PageLimits : Ask(filter, 0, limit, filter # NoFilter)
    BY <1>3 DEF AskJobs
  <2>2. filter = NoFilter /\ query'.filter = NoFilter
    BY <1>1, <2>1 DEF Ask
  <2>3. jobs # Null /\ pages' = <<>> /\ dismissed' = dismissed
    BY <1>1, <1>3, <2>1 DEF AskJobs, JobTypes, Ask
  <2>4. limit \in Nat \union {-1}
    BY JobListAssumption
  <2>5. PICK R \in Seq(Jobs) : R = Rows0(dismissed)
    BY <1>1, <2>3, RowsOf DEF Jobs, JobTypes
  <2>6. <<>> = Prefix(R, 0) /\ 0 <= Len(R)
    BY DEF Prefix
  <2>7. PageOf(R)'
    BY <1>1, <2>1, <2>2, <2>3, <2>4, <2>5, <2>6, AskPages
  <2>8. Rows0(dismissed)' = R
    BY <2>1, <2>5 DEF Ask, Rows0, JobsFor
  <2>q. QED BY <2>2, <2>3, <2>7, <2>8 DEF PageOf
<1>4. CASE NextLink
  <2>1. /\ Ask(NoFilter, query.skip + query.limit, query.limit, query.filtered)
        /\ UNCHANGED pages /\ jobs # Null /\ answer = "list" /\ nextLink
    BY <1>4 DEF NextLink
  <2>2. query'.filter = NoFilter /\ query'.limit = query.limit /\ dismissed' = dismissed
        /\ query'.filtered = query.filtered
    BY <2>1 DEF Ask
  <2>3. query.limit \in Nat /\ query.skip \in Nat /\ query.limit # -1
    BY <1>1, <2>1 DEF JobTypes
  <2>4. ASSUME dismissed = {} PROVE \E D \in SUBSET dismissed' : PageOf(Rows0(D))'
    <3>1. PICK D \in SUBSET dismissed : PageOf(Rows0(D))
      BY <1>1, <2>1, <2>2, <2>4 DEF PagesInv
    <3>2. D = dismissed
      BY <2>4
    <3>3. PICK R \in Seq(Jobs) : R = Rows0(D)
      BY <1>1, <2>1, RowsOf DEF Jobs, JobTypes
    <3>4. /\ counted = Len(R) /\ pages = Prefix(R, Total)
          /\ counted > query.limit + query.skip
      BY <2>1, <3>1, <3>3 DEF PageOf, Prefix
    <3>5. counted \in Nat
      BY <1>1 DEF JobTypes
    <3>6. Total = query.skip + query.limit
      <4>1. Upto(counted, query.skip, query.limit) = query.skip + query.limit
        BY <2>3, <3>4, <3>5, UptoNextPage
      <4>q. QED BY <4>1 DEF Total
    <3>7. query.skip + query.limit \in Nat /\ query.skip + query.limit <= Len(R)
      BY <2>3, <3>4, <3>5
    <3>8. PageOf(R)'
      <4>1. pages' = Prefix(R, query.skip + query.limit)
        BY <2>1, <3>4, <3>6
      <4>q. QED BY <1>1, <2>1, <2>3, <3>2, <3>3, <3>7, <4>1, AskPages
    <3>9. Rows0(D)' = R
      BY <2>1, <3>3, RowsFrame DEF Ask
    <3>q. QED BY <2>2, <3>8, <3>9 DEF PageOf
  <2>q. QED BY <2>2, <2>3, <2>4
<1>5. CASE QueryFails
  BY <1>1, <1>5 DEF QueryFails
<1>6. CASE ListJob
  <2>1. UNCHANGED <<jobs, dismissed, query>> /\ answer = "busy" /\ answer' = "busy"
    BY <1>1, <1>6 DEF ListJob
  <2>2. query.filter = NoFilter
    BY <1>1, <2>1 DEF PagesInv
  <2>3. ASSUME dismissed = {} \/ query.limit = -1
        PROVE  \E D \in SUBSET dismissed : PageOf(Rows0(D))'
    <3>1. PICK D \in SUBSET dismissed : PageOf(Rows0(D))
      BY <1>1, <2>1, <2>3 DEF PagesInv
    <3>2. Rows0(D) \in Seq(Jobs) /\ Rows0(D)' = Rows0(D)
      BY <1>1, <2>1, RowsOf, RowsFrame DEF Jobs, JobTypes
    <3>3. PICK R \in Seq(Jobs) : R = Rows0(D)
      BY <3>2
    <3>4. PageOf(R)
      BY <3>1, <3>3 DEF PageOf
    <3>5. PageOf(R)'
      BY <1>1, <1>6, <2>1, <2>2, <3>4, ListPages
    <3>q. QED BY <2>1, <3>2, <3>3, <3>5 DEF PageOf
  <2>q. QED BY <2>1, <2>2, <2>3
<1>7. CASE PrintJobList
  <2>1. /\ UNCHANGED <<jobs, dismissed, query, counted, nextLink>> /\ answer = "busy" /\ answer' = "list"
        /\ toList = <<>> /\ pages' = pages \o page
    BY <1>7 DEF PrintJobList
  <2>2. query.filter = NoFilter
    BY <1>1, <2>1 DEF PagesInv
  <2>3. ASSUME dismissed = {} \/ query.limit = -1
        PROVE  \E D \in SUBSET dismissed : PageOf(Rows0(D))'
    <3>1. PICK D \in SUBSET dismissed : PageOf(Rows0(D))
      BY <1>1, <2>1, <2>3 DEF PagesInv
    <3>2. Rows0(D) \in Seq(Jobs) /\ Rows0(D)' = Rows0(D)
      BY <1>1, <2>1, RowsOf, RowsFrame DEF Jobs, JobTypes
    <3>3. PICK R \in Seq(Jobs) : R = Rows0(D)
      BY <3>2
    <3>4. counted = Len(R)
      <4>1. counted \in Nat /\ counted <= Len(R) /\ toList = [i \in 1 .. Len(R) - counted |-> R[counted + i]]
        BY <1>1, <2>1, <3>1, <3>3 DEF PageOf, JobTypes
      <4>2. DOMAIN toList = 1 .. Len(R) - counted /\ DOMAIN toList = {}
        BY <2>1, <4>1
      <4>3. 1 \notin 1 .. Len(R) - counted
        BY <4>2
      <4>q. QED BY <4>1, <4>3
    <3>5. Total' = Total
      BY <2>1 DEF Total
    <3>6. PageOf(Rows0(D))'
      BY <2>1, <3>1, <3>2, <3>3, <3>4, <3>5 DEF PageOf, Prefix
    <3>q. QED BY <3>6
  <2>q. QED BY <2>1, <2>2, <2>3
<1>8. CASE DismissJob
  <2>1. /\ UNCHANGED <<jobs, query, toList, counted, nextLink, page, pages, answer>>
        /\ dismissed \subseteq dismissed'
    BY <1>8 DEF DismissJob
  <2>2. \A D : PageOf(Rows0(D))' <=> PageOf(Rows0(D))
    BY <2>1, RowsFrame DEF PageOf, Prefix, Total
  <2>3. dismissed' = {} => dismissed = {}
    BY <2>1
  <2>q. QED BY <1>1, <2>1, <2>2, <2>3 DEF PagesInv
<1>q. QED BY <1>1, <1>2, <1>3, <1>4, <1>5, <1>6, <1>7, <1>8 DEF JobStep, ServeJobs

LEMMA JobsInit == Init => JobsInv
<1>1. SUFFICES ASSUME Init PROVE JobsInv
  OBVIOUS
<1>2. /\ jobs = Null /\ answer = "none" /\ pages = <<>> /\ dismissed = {}
      /\ query.filter = NoFilter /\ query.limit = -1 /\ query.skip = 0
      /\ counted = 0 /\ nextLink = FALSE
  BY <1>1 DEF Init, NoJobs, NoQuery
<1>3. JobTypes
  <2>1. query.limit \in Nat \union {-1}
    BY <1>2
  <2>2. query.skip \in Nat /\ counted \in Nat
    BY <1>2
  <2>3. nextLink \in BOOLEAN
    BY <1>2
  <2>q. QED BY <1>2, <2>1, <2>2, <2>3 DEF JobTypes
<1>q. QED BY <1>2, <1>3 DEF JobsInv, MeetsInv, PagesInv

LEMMA JobsFrame == JobsInv /\ UNCHANGED jobVars => JobsInv'
<1>1. SUFFICES ASSUME JobsInv, UNCHANGED jobVars PROVE JobsInv'
  OBVIOUS
<1>2. UNCHANGED <<jobs, dismissed, query, toList, counted, nextLink, page, pages, answer>>
  BY <1>1 DEF jobVars
<1>3. JobTypes'
  BY <1>1, <1>2 DEF JobsInv, JobTypes, Jobs
<1>4. MeetsInv'
  <2>1. \A id : OnPageFor(id) => OnPageFor(id)'
    BY <1>2, MeetsFrame
  <2>2. \A job : Selected(job, query.filter, jobs.user)' <=> Selected(job, query.filter, jobs.user)
    BY <1>2 DEF Selected, Words, ToSet
  <2>q. QED BY <1>1, <1>2, <2>1, <2>2 DEF JobsInv, MeetsInv
<1>5. PagesInv'
  <2>1. \A D : PageOf(Rows0(D))' <=> PageOf(Rows0(D))
    BY <1>2, RowsFrame DEF PageOf, Prefix, Total
  <2>q. QED BY <1>1, <1>2, <2>1 DEF JobsInv, PagesInv
<1>q. QED BY <1>3, <1>4, <1>5 DEF JobsInv

LEMMA JobsSafe == JobsInv => JobPages
<1>1. SUFFICES ASSUME JobsInv, jobs # Null, answer = "list" PROVE JobPages
  BY DEF JobPages
<1>2. jobs \in JobSets /\ nextLink \in BOOLEAN /\ counted \in Nat
  BY <1>1 DEF JobsInv, JobTypes
<1>3. ASSUME NEW i \in DOMAIN page, NEW k \in DOMAIN jobs.list, page[i] = jobs.list[k].id,
             jobs.list[k].id \notin dismissed, jobs.list[k].lenv # "none"
      PROVE  Meets(jobs.list[k], query.filter)
  <2>1. OnPageFor(page[i])
    BY <1>1, <1>3 DEF JobsInv, MeetsInv
  <2>2. PICK m \in DOMAIN jobs.list :
          /\ page[i] = jobs.list[m].id
          /\ \/ page[i] \in dismissed
             \/ jobs.list[m].lenv = "none"
             \/ Meets(jobs.list[m], query.filter)
    BY <2>1 DEF OnPageFor
  <2>3. m = k
    BY <1>2, <1>3, <2>2, JobSetTypes
  <2>q. QED BY <1>3, <2>2, <2>3
<1>4. ASSUME ~query.filtered, ~nextLink, dismissed = {} \/ query.limit = -1,
             NEW k \in Listable0, jobs.list[k].id \notin dismissed
      PROVE  Times(jobs.list[k].id) = 1
  <2>1. PICK D \in SUBSET dismissed : PageOf(Rows0(D))
    BY <1>1, <1>4 DEF JobsInv, PagesInv
  <2>2. PICK R \in Seq(Jobs) : R = Rows0(D)
    BY <1>2, RowsOf DEF Jobs
  <2>3. pages = Prefix(R, Len(R))
    <3>1. /\ counted = Len(R) /\ pages = Prefix(R, Total) /\ query.skip <= Len(R)
          /\ (query.limit = -1 => query.skip = 0)
          /\ ~(query.limit # -1 /\ counted > query.limit + query.skip)
      BY <1>1, <1>4, <2>1, <2>2 DEF PageOf, Prefix
    <3>2. query.limit \in Nat \union {-1} /\ query.skip \in Nat
      BY <1>1 DEF JobsInv, JobTypes
    <3>3. query.limit = -1 \/ counted <= query.limit + query.skip
      BY <1>2, <3>1, <3>2
    <3>4. Total = counted
      BY <1>2, <3>1, <3>2, <3>3, UptoNext DEF Total
    <3>q. QED BY <3>1, <3>4
  <2>4. jobs.list[k].id \notin D
    BY <1>4, <2>1
  <2>5. PICK n \in DOMAIN R :
          /\ R[n] = jobs.list[k]
          /\ \A m \in DOMAIN R : m # n => R[m].id # jobs.list[k].id
    BY <1>2, <2>2, <2>4, RowsOf
  <2>6. {i \in DOMAIN pages : pages[i] = jobs.list[k].id} = {n}
    <3>1. DOMAIN pages = DOMAIN R /\ \A i \in DOMAIN R : pages[i] = R[i].id
      BY <2>3 DEF Prefix
    <3>q. QED BY <2>5, <3>1
  <2>q. QED BY <2>6, FS_Singleton DEF Times
<1>q. QED BY <1>3, <1>4 DEF JobPages

(* The pages of the list of jobs.                                          *)
THEOREM JobsAreListedOnce == Spec => []JobPages
<1>1. JobsInv /\ [Next]_kernelState => JobsInv'
  <2>1. SUFFICES ASSUME JobsInv, [Next]_kernelState PROVE JobsInv'
    OBVIOUS
  <2>2. CASE JobStep
    BY <2>1, <2>2, JobTypesStep, MeetsStep, PagesStep DEF JobsInv
  <2>3. CASE UNCHANGED jobVars
    BY <2>1, <2>3, JobsFrame
  <2>q. QED BY <2>1, <2>2, <2>3, JobSteps
<1>q. QED BY <1>1, JobsInit, JobsSafe, PTL DEF Spec

-----------------------------------------------------------------------------
(* A list of any items.                                                    *)
IsSeq(s) == s \in Seq(ToSet(s))
Alike(list) == \A i, k \in DOMAIN list : list[i] = list[k] => i = k

RequestType ==
  [op : {"none", "list", "all", "describe", "execute"}, protocol : {"none", "wps", "ogc"},
   id : Identifiers \union {<<>>}, skip : Nat, limit : (Nat \ {0}) \union {NoLimit}]

SearchTypes ==
  /\ cat # Null => cat \in Catalogues
  /\ cat # Null => asked \in RequestType
  /\ IsSeq(left) /\ IsSeq(shown) /\ IsSeq(listed) /\ IsSeq(events)
  /\ gone \subseteq touched
  /\ cnt \in Nat /\ more \in BOOLEAN

Matching(last, hit, entries) == [do |-> "match", last |-> last, hit |-> hit, entries |-> entries]

(* The requests a client makes, in order.                                  *)
Order ==
  /\ cat = Null => Closed
  /\ asked.op = "none" => /\ asked = NoRequest /\ left = <<>> /\ shown = <<>> /\ listed = <<>>
                          /\ described = <<>> /\ ran = <<>> /\ touched = {} /\ ~more
  /\ asked.op # "none" => asked.protocol \in {"wps", "ogc"}
  /\ asked.op = "all" \/ asked.protocol = "wps" => asked.limit = NoLimit
  /\ asked.op = "all" => asked.protocol = "wps"
  /\ asked.limit = NoLimit => asked.skip = 0 /\ ~more
  /\ asked.op \in {"list", "all"} => described = <<>> /\ ran = <<>>
  /\ asked.op = "describe" => ran = <<>>
  /\ asked.op # "list" => asked.limit = NoLimit
  /\ asked.op \in {"describe", "execute"} => asked.id \in Identifiers
  /\ asked.op = "describe" => \A t \in ToSet(left) :
       /\ t.do \in {"registry", "lookup", "match", "document"}
       /\ t.do = "match" => t = Matching(t.last, t.hit, t.entries)
  /\ asked.op = "execute" => \A t \in ToSet(left) : t.do \in {"registry", "fetch"}

DirsWalked ==
  LET dir == IF asked.protocol = "wps" THEN GetServicesNamespacePath(ConfDir) ELSE "cwd"
  IN  {GetServicesNamespacePath(dir)} \union (IF cat.searchPath /\ asked.op = "list" THEN {dir} ELSE {})

Walk(last, entries) == [do |-> "walk", last |-> last, entries |-> entries]
RowsLeft(entries)   == [do |-> "rows", entries |-> entries]
AllOf(entries, places) == IsSeq(entries) /\ Alike(entries) /\ ToSet(entries) \subseteq ToSet(places)

Source(t) ==
  /\ t.do \in {"registry", "import", "open", "walk", "query", "rows", "document"}
  /\ t.do = "import" => asked.protocol = "wps" /\ \E n \in DOMAIN cat.imports : t.of = cat.imports[n]
  /\ t.do = "open" => t.dir \in DirsWalked
  /\ t.do = "walk" => /\ t = Walk(t.last, t.entries)
                      /\ \E dir \in DirsWalked : AllOf(t.entries, In(dir))
  /\ t.do = "rows" => t = RowsLeft(t.entries) /\ AllOf(t.entries, Rows)

(* The services a task may still show.                                     *)
Of(t) ==
  CASE t.do = "import" -> {t.of}
    [] t.do = "open"   -> {s \in ToSet(In(t.dir)) : ~IsImport(s)}
    [] t.do = "walk"   -> {s \in ToSet(t.entries) : ~IsImport(s)}
    [] t.do = "query"  -> ToSet(Rows)
    [] t.do = "rows"   -> ToSet(t.entries)
    [] OTHER -> {}

Offer(tasks) == UNION {Of(tasks[n]) : n \in DOMAIN tasks}

Plan(tasks) ==
  /\ \A n \in DOMAIN tasks :
       /\ Source(tasks[n])
       /\ tasks[n].do = "document" <=> n = Len(tasks)
       /\ tasks[n].do = "registry" => n = 1
  /\ \A m, n \in DOMAIN tasks : m # n => Of(tasks[m]) \intersect Of(tasks[n]) = {}

ListInv ==
  asked.op \in {"list", "all"} =>
    /\ Plan(left)
    /\ left # <<>> /\ Head(left).do = "registry" => events = <<>>
    /\ ToSet(shown) \union ToSet(listed) \subseteq Listable

OneAnswer ==
  asked.op \in {"list", "all"} /\ asked.limit = NoLimit =>
    /\ left # <<>> =>
         /\ listed = <<>> /\ Alike(shown) /\ events # <<"document">>
         /\ Offer(left) \intersect ToSet(shown) = {}
         /\ events = <<>> => Listable \ touched \subseteq ToSet(shown) \union Offer(left)
    /\ left = <<>> /\ events = <<"document">> => Alike(listed) /\ Listable \ touched \subseteq ToSet(listed)

-----------------------------------------------------------------------------
(* Pages.                                                                  *)
Opens == RecursReaddirF("cwd")
FilesAt(k) == In(Opens[k].dir)
Visible == {s \in Walked : ~ServiceIsFilter(s)}
VisibleRows == {s \in ToSet(Rows) : ~ServiceIsFilter(s)}

Passed(k, q) ==
  {s \in Visible : \E j \in DOMAIN Opens : \E i \in DOMAIN FilesAt(j) :
     s = FilesAt(j)[i] /\ (j < k \/ (j = k /\ i <= q))}

(* Those before which fewer than n services are passed.                    *)
FirstOf(n) ==
  {s \in Visible : \E j \in DOMAIN Opens : \E i \in DOMAIN FilesAt(j) :
     s = FilesAt(j)[i] /\ Cardinality(Passed(j, i - 1)) < n}

From(k) == SubSeq(Opens \o <<Query, PrintOut>>, k, Len(Opens) + 2)

Walking(tasks, k, q) ==
  \/ k = 1 /\ q = 0 /\ tasks = <<[do |-> "registry"]>> \o From(1)
  \/ k \in 1 .. Len(Opens) + 1 /\ q = 0 /\ tasks = From(k)
  \/ /\ k \in DOMAIN Opens /\ q \in 0 .. Len(FilesAt(k))
     /\ tasks = << Walk(Opens[k].last, [i \in 1 .. Len(FilesAt(k)) - q |-> FilesAt(k)[q + i]]) >> \o From(k + 1)

PageShows(list, n, rows) ==
  /\ Alike(list)
  /\ ToSet(list) = FirstOf(Upto(n, asked.skip, asked.limit)) \union rows

RegistryMade == IF cat.registry = "there" THEN CreateRegistry(cat.profiles) ELSE NoRegistry
RegistryOK == cat.registry # "missing" /\ RegistryMade.ends

(* What is shown of the first n services and of the rows; next says that   *)
(* there is another page.                                                  *)
Reached(tasks, n, next, list) ==
  /\ next <=> n >= asked.skip + asked.limit
  /\ \/ \E k \in 1 .. Len(Opens) + 1 : \E q \in Nat :
          Walking(tasks, k, q) /\ n = Cardinality(Passed(k, q)) /\ PageShows(list, n, {})
     \/ /\ n = Cardinality(Visible)
        /\ \/ tasks = <<PrintOut>> /\ PageShows(list, n, IF next THEN {} ELSE VisibleRows)
           \/ \E entries :
                /\ tasks = <<RowsLeft(entries), PrintOut>>
                /\ PageShows(list, n, IF next THEN {} ELSE VisibleRows \ ToSet(entries))

WholePage(n, next, list) ==
  /\ n = Cardinality(Visible) /\ (next <=> n >= asked.skip + asked.limit)
  /\ PageShows(list, n, IF next THEN {} ELSE VisibleRows)

PageInv ==
  asked.op = "list" /\ asked.limit # NoLimit /\ touched = {} =>
    /\ asked.skip <= Cardinality(Visible)
    /\ left # <<>> => Reached(left, cnt, more, listed \o shown)
    /\ left = <<>> /\ events = <<"document">> => WholePage(cnt, more, listed)

Quiet ==
  asked.op \in {"list", "all"} /\ touched = {} =>
    /\ left # <<>> => events = <<>>
    /\ left # <<>> /\ Head(left).do # "registry" => RegistryOK
    /\ listed # <<>> => RegistryOK
    /\ left = <<>> /\ listed # <<>> => events = <<"document">>

-----------------------------------------------------------------------------
(* Searches.                                                               *)
Everything(protocol) ==
  LET dir  == IF protocol = "wps" THEN GetServicesNamespacePath(ConfDir) ELSE "cwd"
      dirs == {GetServicesNamespacePath(dir)} \union (IF cat.searchPath THEN {dir} ELSE {})
  IN  {s \in {f \in UNION {ToSet(In(d)) : d \in dirs} : ~IsImport(f)} \union ToSet(Rows)
           \union (IF protocol = "wps" THEN {cat.imports[n] : n \in DOMAIN cat.imports} ELSE {}) :
         protocol = "ogc" => ~ServiceIsFilter(s)}

FoundIn(dir, id) ==
  IF id \in ToSet(cat.rows) THEN <<DbRow(id)>>
  ELSE IF Imported(id) THEN <<cat.imports[id[1]]>>
  ELSE IF id \in ToSet(cat.dirs[dir]) THEN << <<dir, id>> >> ELSE <<>>

FirstFound(dir, id) ==
  LET ns == GetServicesNamespacePath(dir)
  IN  IF FoundIn(ns, id) # <<>> THEN FoundIn(ns, id)
      ELSE IF cat.searchPath /\ ns # dir THEN FoundIn(dir, id) ELSE <<>>

DescribedFrom == IF asked.protocol = "wps" THEN GetServicesNamespacePath(ConfDir) ELSE ConfDir

Ends(s) == Inheritance(RegistryMade.registry, Get(cat.services, s, CreateService)).ends

Undescribed ==
  \/ ~RegistryOK
  \/ /\ asked.protocol = "wps" /\ FirstFound(DescribedFrom, asked.id) # <<>>
     /\ ~Ends(FirstFound(DescribedFrom, asked.id)[1])

Description == IF Undescribed THEN <<>> ELSE FirstFound(DescribedFrom, asked.id)

NotServed == "died" \in ToSet(events) \/ cat.registry = "missing"

Clear == touched = {} /\ ~Ambiguous(asked.id) /\ ~Hidden(asked.id)

(* The directories that are left to be searched: both, or the second when  *)
(* nothing is in the first.                                                *)
Searching(do, dir, tasks) ==
  \/ tasks = Searches(do, dir)
  \/ /\ cat.searchPath /\ GetServicesNamespacePath(dir) # dir
     /\ FoundIn(GetServicesNamespacePath(dir), asked.id) = <<>>
     /\ tasks = << [do |-> do, dir |-> dir, last |-> TRUE] >>

DescribeAt(tasks, list) ==
  \/ Searching("lookup", DescribedFrom, tasks) /\ list = <<>>
  \/ /\ list = <<>>
     /\ \E others : /\ Searching("lookup", DescribedFrom, others)
                    /\ tasks = <<Matching(Head(others).last, FALSE, FoundIn(Head(others).dir, asked.id))>>
                                 \o Tail(others)
  \/ /\ ~Undescribed /\ list = FirstFound(DescribedFrom, asked.id)
     /\ \/ tasks = <<PrintOut>>
        \/ \E last, others : IsSeq(others) /\ tasks = <<Matching(last, TRUE, <<>>)>> \o others

DescribeInv ==
  asked.op = "describe" /\ Clear =>
    /\ left # <<>> =>
         /\ described = <<>> /\ "died" \notin ToSet(events)
         /\ \/ left = <<[do |-> "registry"]>> \o Searches("lookup", DescribedFrom) /\ shown = <<>>
            \/ RegistryOK /\ registry = RegistryMade /\ DescribeAt(left, shown)
    /\ left = <<>> => described = Description /\ (Undescribed => NotServed)

ExecuteInv ==
  asked.op = "execute" /\ Clear =>
    /\ described = Description
    /\ left # <<>> =>
         /\ ran = <<>> /\ "died" \notin ToSet(events)
         /\ \/ left = <<[do |-> "registry"]>> \o Searches("fetch", ConfDir)
            \/ /\ RegistryOK /\ registry \in {RegistryMade, Freed}
               /\ Searching("fetch", ConfDir, left)
    /\ left = <<>> => NotServed \/ (ran = FirstFound(ConfDir, asked.id) /\ ~Undescribed)

WholeList ==
  asked.op \in {"describe", "execute"} /\ touched = {} /\ listed # <<>> =>
    ToSet(listed) = Everything(asked.protocol)
-----------------------------------------------------------------------------
(* Sequences.                                                              *)

LEMMA ItemsAtAlike ==
  ASSUME NEW T, NEW list \in Seq(T), Alike(list), NEW I \in SUBSET DOMAIN list
  PROVE  Alike(ItemsAt(list, I))
<1>. DEFINE items == ItemsAt(list, I)
<1>1. SUFFICES ASSUME NEW n \in DOMAIN items, NEW m \in DOMAIN items, items[n] = items[m], m # n
               PROVE  FALSE
  BY DEF Alike
<1>2. PICK i \in I : items[n] = list[i]
  BY ItemsAtOf
<1>3. PICK p \in DOMAIN items :
        /\ items[p] = list[i]
        /\ \A q \in DOMAIN items : q # p => \E k \in I : k # i /\ items[q] = list[k]
  BY ItemsAtOf
<1>4. \A k \in I : k # i => list[k] # list[i]
  BY DEF Alike
<1>5. n = p
  BY <1>2, <1>3, <1>4
<1>6. m = p
  BY <1>1, <1>2, <1>3, <1>4
<1>q. QED BY <1>1, <1>5, <1>6

LEMMA AllItems ==
  ASSUME NEW T, NEW list \in Seq(T)
  PROVE  ItemsAt(list, DOMAIN list) = list
<1>. DEFINE n == Len(list)
            S == 1 .. n
<1>1. n \in Nat /\ DOMAIN list = S /\ list \in [S -> T]
  OBVIOUS
<1>2. \A x \in S : Cardinality({y \in S : y <= x}) = x
  <2>1. SUFFICES ASSUME NEW x \in S PROVE Cardinality({y \in S : y <= x}) = x
    OBVIOUS
  <2>2. {y \in S : y <= x} = 1 .. x
    BY <1>1
  <2>3. x \in Nat /\ x >= 1
    BY <1>1
  <2>4. Cardinality(1 .. x) = x
    BY <2>3, FS_Interval
  <2>q. QED BY <2>2, <2>4
<1>3. Cardinality(S) = n
  BY <1>1, FS_Interval
<1>. HIDE DEF n
<1>4. \A i \in 1 .. n : Ascending(S)[i] = i
  <2>1. SUFFICES ASSUME NEW i \in 1 .. n PROVE Ascending(S)[i] = i
    OBVIOUS
  <2>2. Ascending(S)[i] = CHOOSE x \in S : Cardinality({y \in S : y <= x}) = i
    BY <1>3 DEF Ascending
  <2>3. \E x \in S : Cardinality({y \in S : y <= x}) = i
    BY <1>2
  <2>4. \A x \in S : Cardinality({y \in S : y <= x}) = i => x = i
    BY <1>2
  <2>. HIDE DEF S
  <2>q. QED BY <2>2, <2>3, <2>4
<1>5. ItemsAt(list, S) = [m \in 1 .. n |-> list[Ascending(S)[m]]]
  BY <1>3 DEF ItemsAt
<1>6. ItemsAt(list, S) = [m \in S |-> list[m]]
  BY <1>4, <1>5
<1>q. QED BY <1>1, <1>6

LEMMA OneItem ==
  ASSUME NEW T, NEW list \in Seq(T)
  PROVE  /\ ItemsAt(list, {}) = <<>>
         /\ \A i \in DOMAIN list : ItemsAt(list, {i}) = <<list[i]>>
<1>1. ItemsAt(list, {}) = <<>>
  BY FS_EmptySet DEF ItemsAt
<1>2. ASSUME NEW i \in DOMAIN list PROVE ItemsAt(list, {i}) = <<list[i]>>
  <2>1. Cardinality({i}) = 1
    BY FS_Singleton
  <2>2. Ascending({i})[1] = i
    <3>1. {i} \in SUBSET (1 .. Len(list)) /\ Len(list) \in Nat
      OBVIOUS
    <3>2. Ascending({i}) \in [1 .. 1 -> {i}]
      BY <2>1, <3>1, AscendingOf
    <3>q. QED BY <3>2
  <2>3. ItemsAt(list, {i}) = [n \in 1 .. 1 |-> list[Ascending({i})[n]]]
    BY <2>1 DEF ItemsAt
  <2>4. ItemsAt(list, {i}) = [n \in 1 .. 1 |-> list[i]]
    <3>1. \A n \in 1 .. 1 : Ascending({i})[n] = i
      BY <2>2
    <3>q. QED BY <2>3, <3>1
  <2>5. <<list[i]>> = [n \in 1 .. 1 |-> list[i]]
    OBVIOUS
  <2>q. QED BY <2>4, <2>5
<1>q. QED BY <1>1, <1>2

LEMMA Rest ==
  ASSUME NEW T, NEW s \in Seq(T), s # <<>>
  PROVE  /\ Head(s) \in T /\ Head(s) = s[1] /\ Tail(s) \in Seq(T)
         /\ Len(Tail(s)) = Len(s) - 1 /\ Len(s) \in Nat /\ Len(s) >= 1
         /\ \A n \in DOMAIN Tail(s) : n + 1 \in DOMAIN s /\ Tail(s)[n] = s[n + 1]
         /\ \A n \in DOMAIN s : n = 1 \/ (n - 1 \in DOMAIN Tail(s) /\ s[n] = Tail(s)[n - 1])
  OBVIOUS

LEMMA Before ==
  ASSUME NEW T, NEW s \in Seq(T), NEW t \in T
  PROVE  /\ <<t>> \o s \in Seq(T) /\ <<t>> \o s # <<>>
         /\ Head(<<t>> \o s) = t /\ Tail(<<t>> \o s) = s
         /\ Len(<<t>> \o s) = Len(s) + 1
         /\ (<<t>> \o s)[1] = t
         /\ \A n \in DOMAIN s : n + 1 \in DOMAIN (<<t>> \o s) /\ (<<t>> \o s)[n + 1] = s[n]
         /\ \A n \in DOMAIN (<<t>> \o s) :
              n = 1 \/ (n - 1 \in DOMAIN s /\ (<<t>> \o s)[n] = s[n - 1])
  OBVIOUS

LEMMA Members ==
  ASSUME NEW T, NEW s \in Seq(T)
  PROVE  /\ ToSet(s) \in SUBSET T
         /\ \A t \in T : ToSet(Append(s, t)) = ToSet(s) \union {t}
         /\ \A r \in Seq(T) : ToSet(s \o r) = ToSet(s) \union ToSet(r)
         /\ ToSet(<<>>) = {}
         /\ s # <<>> => ToSet(s) = {Head(s)} \union ToSet(Tail(s))
<1>1. ToSet(s) \in SUBSET T /\ ToSet(<<>>) = {}
  BY DEF ToSet
<1>2. ASSUME NEW t \in T PROVE ToSet(Append(s, t)) = ToSet(s) \union {t}
  <2>1. /\ DOMAIN Append(s, t) = DOMAIN s \union {Len(s) + 1}
        /\ \A i \in DOMAIN s : Append(s, t)[i] = s[i]
        /\ Append(s, t)[Len(s) + 1] = t
    OBVIOUS
  <2>q. QED BY <2>1 DEF ToSet
<1>3. ASSUME NEW r \in Seq(T) PROVE ToSet(s \o r) = ToSet(s) \union ToSet(r)
  <2>1. /\ Len(s) \in Nat /\ Len(r) \in Nat
        /\ DOMAIN s = 1 .. Len(s) /\ DOMAIN r = 1 .. Len(r) /\ DOMAIN (s \o r) = 1 .. Len(s) + Len(r)
        /\ \A i \in 1 .. Len(s) + Len(r) : (s \o r)[i] = IF i <= Len(s) THEN s[i] ELSE r[i - Len(s)]
    OBVIOUS
  <2>2. ToSet(s) \subseteq ToSet(s \o r) /\ ToSet(r) \subseteq ToSet(s \o r)
    <3>1. ASSUME NEW i \in DOMAIN s PROVE s[i] \in ToSet(s \o r)
      <4>1. i \in DOMAIN (s \o r) /\ (s \o r)[i] = s[i]
        BY <2>1
      <4>q. QED BY <4>1 DEF ToSet
    <3>2. ASSUME NEW i \in DOMAIN r PROVE r[i] \in ToSet(s \o r)
      <4>. DEFINE k == Len(s) + i
      <4>1. k \in DOMAIN (s \o r) /\ (s \o r)[k] = r[i]
        BY <2>1
      <4>. HIDE DEF k
      <4>q. QED BY <4>1 DEF ToSet
    <3>q. QED BY <3>1, <3>2 DEF ToSet
  <2>3. ToSet(s \o r) \subseteq ToSet(s) \union ToSet(r)
    <3>1. SUFFICES ASSUME NEW i \in DOMAIN (s \o r) PROVE (s \o r)[i] \in ToSet(s) \union ToSet(r)
      BY DEF ToSet
    <3>2. CASE i <= Len(s)
      <4>1. i \in DOMAIN s /\ (s \o r)[i] = s[i]
        BY <2>1, <3>2
      <4>q. QED BY <4>1 DEF ToSet
    <3>3. CASE ~(i <= Len(s))
      <4>. DEFINE k == i - Len(s)
      <4>1. k \in DOMAIN r /\ (s \o r)[i] = r[k]
        BY <2>1, <3>3
      <4>. HIDE DEF k
      <4>q. QED BY <4>1 DEF ToSet
    <3>q. QED BY <3>2, <3>3
  <2>q. QED BY <2>2, <2>3
<1>4. ASSUME s # <<>> PROVE ToSet(s) = {Head(s)} \union ToSet(Tail(s))
  <2>1. 1 \in DOMAIN s
    BY <1>4
  <2>2. ToSet(Tail(s)) \subseteq ToSet(s) /\ Head(s) \in ToSet(s)
    BY <1>4, <2>1, Rest DEF ToSet
  <2>3. ASSUME NEW n \in DOMAIN s PROVE s[n] \in {Head(s)} \union ToSet(Tail(s))
    <3>1. CASE n = 1
      BY <1>4, <3>1
    <3>2. CASE n # 1
      <4>. DEFINE k == n - 1
      <4>1. k \in DOMAIN Tail(s) /\ s[n] = Tail(s)[k]
        BY <1>4, <3>2
      <4>. HIDE DEF k
      <4>q. QED BY <4>1 DEF ToSet
    <3>q. QED BY <3>1, <3>2
  <2>q. QED BY <2>2, <2>3 DEF ToSet
<1>q. QED BY <1>1, <1>2, <1>3, <1>4

LEMMA AlikeNext ==
  ASSUME NEW T, NEW s \in Seq(T), Alike(s)
  PROVE  /\ Alike(<<>>)
         /\ \A t \in T : t \notin ToSet(s) => Alike(Append(s, t))
         /\ s # <<>> => Alike(Tail(s)) /\ Head(s) \notin ToSet(Tail(s))
<1>1. Alike(<<>>)
  BY DEF Alike
<1>2. ASSUME NEW t \in T, t \notin ToSet(s) PROVE Alike(Append(s, t))
  <2>1. /\ DOMAIN Append(s, t) = DOMAIN s \union {Len(s) + 1}
        /\ \A i \in DOMAIN s : Append(s, t)[i] = s[i]
        /\ Append(s, t)[Len(s) + 1] = t
    OBVIOUS
  <2>q. QED BY <1>2, <2>1 DEF Alike, ToSet
<1>3. ASSUME s # <<>> PROVE Alike(Tail(s)) /\ Head(s) \notin ToSet(Tail(s))
  <2>1. 1 \in DOMAIN s /\ Head(s) = s[1]
    BY <1>3
  <2>2. \A n \in DOMAIN Tail(s) : n + 1 \in DOMAIN s /\ Tail(s)[n] = s[n + 1] /\ n + 1 # 1 /\ n \in Nat
    BY <1>3
  <2>3. Alike(Tail(s))
    BY <2>2 DEF Alike
  <2>4. Head(s) \notin ToSet(Tail(s))
    BY <2>1, <2>2 DEF Alike, ToSet
  <2>q. QED BY <2>3, <2>4
<1>q. QED BY <1>1, <1>2, <1>3

(* Lists of any items.                                                     *)
LEMMA SeqIs ==
  ASSUME NEW T, NEW s \in Seq(T)
  PROVE  IsSeq(s)
<1>1. s \in [1 .. Len(s) -> ToSet(s)] /\ Len(s) \in Nat
  <2>1. \A i \in 1 .. Len(s) : s[i] \in ToSet(s)
    BY DEF ToSet
  <2>q. QED BY <2>1
<1>. DEFINE S == ToSet(s)
<1>. HIDE DEF S
<1>2. s \in Seq(S)
  BY <1>1 DEF S
<1>q. QED BY <1>2 DEF IsSeq, S

LEMMA SeqNone == IsSeq(<<>>) /\ Alike(<<>>) /\ ToSet(<<>>) = {} /\ \A t : IsSeq(<<t>>) /\ ToSet(<<t>>) = {t} /\ Alike(<<t>>)
<1>1. <<>> \in Seq({}) /\ \A t : <<t>> \in Seq({t})
  OBVIOUS
<1>2. IsSeq(<<>>) /\ \A t : IsSeq(<<t>>)
  BY <1>1, SeqIs
<1>3. ToSet(<<>>) = {} /\ \A t : ToSet(<<t>>) = {t}
  BY DEF ToSet
<1>4. Alike(<<>>) /\ \A t : Alike(<<t>>)
  BY DEF Alike
<1>q. QED BY <1>2, <1>3, <1>4

LEMMA SeqLast ==
  ASSUME NEW s, IsSeq(s), NEW t
  PROVE  /\ IsSeq(Append(s, t)) /\ ToSet(Append(s, t)) = ToSet(s) \union {t}
         /\ Append(s, t) # <<>>
         /\ Alike(s) /\ t \notin ToSet(s) => Alike(Append(s, t))
<1>. DEFINE T == ToSet(s) \union {t}
<1>1. s \in Seq(T) /\ t \in T
  <2>1. s \in Seq(ToSet(s))
    BY DEF IsSeq
  <2>2. ToSet(s) \subseteq T /\ t \in T
    OBVIOUS
  <2>. HIDE DEF T
  <2>q. QED BY <2>1, <2>2
<1>. HIDE DEF T
<1>2. Append(s, t) \in Seq(T) /\ Append(s, t) # <<>>
  <2>1. Append(s, t) \in Seq(T) /\ Len(Append(s, t)) = Len(s) + 1 /\ Len(s) \in Nat
    BY <1>1
  <2>2. Len(Append(s, t)) # 0 /\ Len(<<>>) = 0
    BY <2>1
  <2>q. QED BY <2>1, <2>2
<1>3. ToSet(Append(s, t)) = ToSet(s) \union {t}
  BY <1>1, Members
<1>4. Alike(s) /\ t \notin ToSet(s) => Alike(Append(s, t))
  BY <1>1, AlikeNext
<1>q. QED BY <1>2, <1>3, <1>4, SeqIs

LEMMA SeqFirst ==
  ASSUME NEW s, IsSeq(s), s # <<>>
  PROVE  /\ IsSeq(Tail(s)) /\ Head(s) \in ToSet(s) /\ ToSet(s) = {Head(s)} \union ToSet(Tail(s))
         /\ Alike(s) => Alike(Tail(s)) /\ Head(s) \notin ToSet(Tail(s))
<1>1. s \in Seq(ToSet(s))
  BY DEF IsSeq
<1>2. Tail(s) \in Seq(ToSet(s)) /\ Head(s) \in ToSet(s)
  BY <1>1, Rest
<1>3. ToSet(s) = {Head(s)} \union ToSet(Tail(s))
  BY <1>1, Members
<1>4. Alike(s) => Alike(Tail(s)) /\ Head(s) \notin ToSet(Tail(s))
  BY <1>1, AlikeNext
<1>q. QED BY <1>2, <1>3, <1>4, SeqIs

LEMMA SeqJoin ==
  ASSUME NEW s, IsSeq(s), NEW r, IsSeq(r)
  PROVE  IsSeq(s \o r) /\ ToSet(s \o r) = ToSet(s) \union ToSet(r)
<1>. DEFINE T == ToSet(s) \union ToSet(r)
<1>1. s \in Seq(T) /\ r \in Seq(T)
  <2>1. s \in Seq(ToSet(s)) /\ r \in Seq(ToSet(r))
    BY DEF IsSeq
  <2>2. ToSet(s) \subseteq T /\ ToSet(r) \subseteq T
    OBVIOUS
  <2>. HIDE DEF T
  <2>q. QED BY <2>1, <2>2
<1>. HIDE DEF T
<1>2. s \o r \in Seq(T)
  BY <1>1
<1>3. ToSet(s \o r) = ToSet(s) \union ToSet(r)
  BY <1>1, Members
<1>q. QED BY <1>2, <1>3, SeqIs

(* A task before others.                                                   *)
LEMMA SeqBefore ==
  ASSUME NEW s, IsSeq(s), NEW t
  PROVE  /\ IsSeq(<<t>> \o s) /\ <<t>> \o s # <<>>
         /\ Head(<<t>> \o s) = t /\ Tail(<<t>> \o s) = s
         /\ Len(<<t>> \o s) = Len(s) + 1 /\ Len(s) \in Nat
         /\ (<<t>> \o s)[1] = t
         /\ \A n \in DOMAIN s : n + 1 \in DOMAIN (<<t>> \o s) /\ (<<t>> \o s)[n + 1] = s[n]
         /\ \A n \in DOMAIN (<<t>> \o s) :
              n \in Nat /\ (n = 1 \/ (n - 1 \in DOMAIN s /\ (<<t>> \o s)[n] = s[n - 1]))
<1>. DEFINE T == ToSet(s) \union {t}
<1>1. s \in Seq(T) /\ t \in T
  <2>1. s \in Seq(ToSet(s))
    BY DEF IsSeq
  <2>2. ToSet(s) \subseteq T /\ t \in T
    OBVIOUS
  <2>. HIDE DEF T
  <2>q. QED BY <2>1, <2>2
<1>. HIDE DEF T
<1>2. <<t>> \o s \in Seq(T) /\ Len(s) \in Nat /\ \A n \in DOMAIN (<<t>> \o s) : n \in Nat
  BY <1>1
<1>3. /\ <<t>> \o s # <<>>
      /\ Head(<<t>> \o s) = t /\ Tail(<<t>> \o s) = s
      /\ Len(<<t>> \o s) = Len(s) + 1
      /\ (<<t>> \o s)[1] = t
  BY <1>1, Before
<1>4. /\ \A n \in DOMAIN s : n + 1 \in DOMAIN (<<t>> \o s) /\ (<<t>> \o s)[n + 1] = s[n]
      /\ \A n \in DOMAIN (<<t>> \o s) :
           n = 1 \/ (n - 1 \in DOMAIN s /\ (<<t>> \o s)[n] = s[n - 1])
  BY <1>1, Before
<1>q. QED BY <1>2, <1>3, <1>4, SeqIs

-----------------------------------------------------------------------------
(* Catalogues.                                                             *)

LEMMA DirsOf ==
  ASSUME cat \in Catalogues
  PROVE  /\ "cwd" \in DOMAIN cat.dirs /\ ConfDir \in DOMAIN cat.dirs
         /\ \A dir \in DOMAIN cat.dirs : GetServicesNamespacePath(dir) \in DOMAIN cat.dirs
         /\ \A dir : GetServicesNamespacePath(GetServicesNamespacePath(dir)) = GetServicesNamespacePath(dir)
         /\ "db" \notin DOMAIN cat.dirs
  BY CatalogueAssumption DEF ConfDir, GetServicesNamespacePath

LEMMA InOf ==
  ASSUME cat \in Catalogues, NEW dir \in DOMAIN cat.dirs
  PROVE  /\ In(dir) \in Seq(Deployed) /\ Alike(In(dir)) /\ DOMAIN In(dir) = DOMAIN cat.dirs[dir]
         /\ \A s \in ToSet(In(dir)) : s = <<dir, s[2]>> /\ s[1] = dir /\ s[2] \in ToSet(cat.dirs[dir])
         /\ \A id \in ToSet(cat.dirs[dir]) : <<dir, id>> \in ToSet(In(dir))
<1>1. Different(cat.dirs[dir])
  BY CatalogueAssumption
<1>2. cat.dirs[dir] \in Seq(ToSet(cat.dirs[dir]))
  BY <1>1 DEF Different
<1>3. DOMAIN cat.dirs[dir] = 1 .. Len(cat.dirs[dir]) /\ Len(cat.dirs[dir]) \in Nat
  BY <1>2
<1>4. ToSet(In(dir)) \subseteq Deployed
  BY DEF Deployed
<1>5. In(dir) \in [1 .. Len(cat.dirs[dir]) -> Deployed] /\ DOMAIN In(dir) = DOMAIN cat.dirs[dir]
  <2>1. \A i \in DOMAIN cat.dirs[dir] : <<dir, cat.dirs[dir][i]>> \in ToSet(In(dir))
    BY DEF In, ToSet
  <2>q. QED BY <1>3, <1>4, <2>1 DEF In
<1>6. In(dir) \in Seq(Deployed)
  BY <1>3, <1>5
<1>7. Alike(In(dir))
  BY <1>1 DEF Different, Alike, In
<1>8. \A s \in ToSet(In(dir)) : s = <<dir, s[2]>> /\ s[1] = dir /\ s[2] \in ToSet(cat.dirs[dir])
  <2>1. SUFFICES ASSUME NEW i \in DOMAIN In(dir)
                 PROVE  /\ In(dir)[i] = <<dir, In(dir)[i][2]>> /\ In(dir)[i][1] = dir
                        /\ In(dir)[i][2] \in ToSet(cat.dirs[dir])
    BY DEF ToSet
  <2>2. i \in DOMAIN cat.dirs[dir] /\ In(dir)[i] = <<dir, cat.dirs[dir][i]>>
    BY DEF In
  <2>q. QED BY <2>2 DEF ToSet
<1>9. \A id \in ToSet(cat.dirs[dir]) : <<dir, id>> \in ToSet(In(dir))
  <2>1. SUFFICES ASSUME NEW i \in DOMAIN cat.dirs[dir] PROVE <<dir, cat.dirs[dir][i]>> \in ToSet(In(dir))
    BY DEF ToSet
  <2>2. i \in DOMAIN In(dir) /\ In(dir)[i] = <<dir, cat.dirs[dir][i]>>
    BY DEF In
  <2>q. QED BY <2>2 DEF ToSet
<1>q. QED BY <1>5, <1>6, <1>7, <1>8, <1>9

LEMMA RowsOfCatalogue ==
  ASSUME cat \in Catalogues
  PROVE  /\ Rows \in Seq(Deployed) /\ Alike(Rows)
         /\ \A s \in ToSet(Rows) : s = DbRow(s[2]) /\ s[1] = "db" /\ s[2] \in ToSet(cat.rows)
         /\ \A id \in ToSet(cat.rows) : DbRow(id) \in ToSet(Rows)
<1>1. Different(cat.rows)
  BY CatalogueAssumption
<1>2. cat.rows \in Seq(ToSet(cat.rows))
  BY <1>1 DEF Different
<1>3. DOMAIN cat.rows = 1 .. Len(cat.rows) /\ Len(cat.rows) \in Nat
  BY <1>2
<1>4. ToSet(Rows) \subseteq Deployed
  BY DEF Deployed
<1>5. Rows \in [1 .. Len(cat.rows) -> Deployed]
  <2>1. \A i \in DOMAIN cat.rows : DbRow(cat.rows[i]) \in ToSet(Rows)
    BY DEF Rows, ToSet
  <2>q. QED BY <1>3, <1>4, <2>1 DEF Rows
<1>6. Rows \in Seq(Deployed)
  BY <1>3, <1>5
<1>7. Alike(Rows)
  BY <1>1 DEF Different, Alike, Rows, DbRow
<1>8. \A s \in ToSet(Rows) : s = DbRow(s[2]) /\ s[1] = "db" /\ s[2] \in ToSet(cat.rows)
  <2>1. SUFFICES ASSUME NEW i \in DOMAIN Rows
                 PROVE  /\ Rows[i] = DbRow(Rows[i][2]) /\ Rows[i][1] = "db"
                        /\ Rows[i][2] \in ToSet(cat.rows)
    BY DEF ToSet
  <2>2. i \in DOMAIN cat.rows /\ Rows[i] = <<"db", cat.rows[i]>>
    BY DEF Rows, DbRow
  <2>q. QED BY <2>2 DEF ToSet, DbRow
<1>9. \A id \in ToSet(cat.rows) : DbRow(id) \in ToSet(Rows)
  <2>1. SUFFICES ASSUME NEW i \in DOMAIN cat.rows PROVE DbRow(cat.rows[i]) \in ToSet(Rows)
    BY DEF ToSet
  <2>2. i \in DOMAIN Rows /\ Rows[i] = DbRow(cat.rows[i])
    BY DEF Rows
  <2>q. QED BY <2>2 DEF ToSet
<1>q. QED BY <1>6, <1>7, <1>8, <1>9

(* An import is a file, under its own name.                                *)
LEMMA ImportOf ==
  ASSUME cat \in Catalogues, NEW n \in DOMAIN cat.imports
  PROVE  /\ cat.imports[n] \in Deployed /\ IsImport(cat.imports[n])
         /\ cat.imports[n][1] \in DOMAIN cat.dirs /\ cat.imports[n][1] # "db"
         /\ cat.imports[n] \in ToSet(In(cat.imports[n][1]))
         /\ cat.imports[n][2] \in ToSet(cat.dirs[cat.imports[n][1]])
         /\ Last(cat.imports[n][2]) = n
<1>1. PICK dir \in DOMAIN cat.dirs : \E id \in ToSet(cat.dirs[dir]) :
        cat.imports[n] = <<dir, id>> /\ Last(id) = n
  BY CatalogueAssumption
<1>2. PICK id \in ToSet(cat.dirs[dir]) : cat.imports[n] = <<dir, id>> /\ Last(id) = n
  BY <1>1
<1>3. cat.imports[n][1] = dir /\ cat.imports[n][2] = id
  BY <1>2
<1>4. cat.imports[n] \in ToSet(In(dir))
  BY <1>2, InOf
<1>5. cat.imports[n] \in Deployed
  BY <1>4 DEF Deployed
<1>6. IsImport(cat.imports[n])
  BY <1>2, <1>3 DEF IsImport, Imported
<1>q. QED BY <1>1, <1>2, <1>3, <1>4, <1>5, <1>6, DirsOf

LEMMA ImportIs ==
  ASSUME NEW s, IsImport(s)
  PROVE  \E n \in DOMAIN cat.imports : s = cat.imports[n]
<1>1. <<Last(s[2])>>[1] \in DOMAIN cat.imports /\ cat.imports[Last(s[2])] = s
  BY DEF IsImport, Imported
<1>2. <<Last(s[2])>>[1] = Last(s[2])
  OBVIOUS
<1>q. QED BY <1>1, <1>2

LEMMA ImportsOf ==
  ASSUME cat \in Catalogues
  PROVE  /\ Imports \in Seq([do : {"import"}, of : Deployed])
         /\ \A i \in DOMAIN Imports : \E n \in DOMAIN cat.imports : Imports[i].of = cat.imports[n]
         /\ \A n \in DOMAIN cat.imports : \E i \in DOMAIN Imports : Imports[i].of = cat.imports[n]
         /\ \A i, k \in DOMAIN Imports : Imports[i].of = Imports[k].of => i = k
<1>. DEFINE D == DOMAIN cat.imports
            c == Cardinality(D)
            f == SetToSeq(D)
<1>1. IsFiniteSet(D)
  BY CatalogueAssumption
<1>2. c \in Nat /\ ExistsBijection(1 .. c, D)
  BY <1>1, FS_CardinalityType
<1>3. f \in [1 .. c -> D] /\ IsInjective(f)
  <2>1. \E g \in [1 .. c -> D] : IsInjective(g)
    BY <1>2 DEF ExistsBijection, Bijection, Injection
  <2>q. QED BY <2>1 DEF SetToSeq
<1>4. \A n \in D : \E i \in 1 .. c : f[i] = n
  <2>1. f \in Injection(1 .. c, D)
    BY <1>3 DEF Injection
  <2>2. IsFiniteSet(1 .. c) /\ Cardinality(1 .. c) = c
    BY <1>2, FS_Interval
  <2>3. f \in Surjection(1 .. c, D)
    BY <1>1, <2>1, <2>2, FS_Injection
  <2>q. QED BY <2>3 DEF Surjection
<1>5. \A i, k \in 1 .. c : f[i] = f[k] => i = k
  BY <1>3 DEF IsInjective
<1>6. Imports = [i \in 1 .. c |-> [do |-> "import", of |-> cat.imports[f[i]]]]
  BY DEF Imports
<1>. HIDE DEF f, c
<1>7. \A n \in D : cat.imports[n] \in Deployed
  BY ImportOf
<1>8. Imports \in [1 .. c -> [do : {"import"}, of : Deployed]]
  BY <1>3, <1>6, <1>7
<1>9. Imports \in Seq([do : {"import"}, of : Deployed]) /\ DOMAIN Imports = 1 .. c
  <2>. DEFINE T == [do : {"import"}, of : Deployed]
  <2>1. Imports \in [1 .. c -> T]
    BY <1>8
  <2>. HIDE DEF T
  <2>2. Imports \in Seq(T) /\ DOMAIN Imports = 1 .. c
    BY <1>2, <2>1
  <2>q. QED BY <2>2 DEF T
<1>10. \A i \in 1 .. c : Imports[i].of = cat.imports[f[i]]
  BY <1>6
<1>11. \A n, m \in D : cat.imports[n] = cat.imports[m] => n = m
  <2>1. \A n \in D : Last(cat.imports[n][2]) = n
    BY ImportOf
  <2>q. QED BY <2>1
<1>12. \A i, k \in 1 .. c : Imports[i].of = Imports[k].of => i = k
  BY <1>3, <1>5, <1>10, <1>11
<1>q. QED BY <1>3, <1>4, <1>9, <1>10, <1>12

(* The services there are at the moment.                                   *)
LEMMA PresentOf ==
  ASSUME NEW T, NEW list \in Seq(T), Alike(list)
  PROVE  /\ Present(list) \in Seq(T) /\ Alike(Present(list))
         /\ ToSet(Present(list)) = ToSet(list) \ gone
         /\ gone = {} => Present(list) = list
<1>. DEFINE I == {i \in DOMAIN list : list[i] \notin gone}
<1>1. I \in SUBSET DOMAIN list /\ Present(list) = ItemsAt(list, I)
  BY DEF Present
<1>2. ToSet(Present(list)) \subseteq ToSet(list) \ gone
  <2>1. \A n \in DOMAIN ItemsAt(list, I) : \E i \in I : ItemsAt(list, I)[n] = list[i]
    BY <1>1, ItemsAtOf
  <2>q. QED BY <1>1, <2>1 DEF ToSet
<1>3. ToSet(list) \ gone \subseteq ToSet(Present(list))
  <2>1. \A i \in I : \E n \in DOMAIN ItemsAt(list, I) : ItemsAt(list, I)[n] = list[i]
    <3>. HIDE DEF I
    <3>1. \A i \in I : \E n \in DOMAIN ItemsAt(list, I) :
            /\ ItemsAt(list, I)[n] = list[i]
            /\ \A m \in DOMAIN ItemsAt(list, I) :
                 m # n => \E k \in I : k # i /\ ItemsAt(list, I)[m] = list[k]
      BY <1>1, ItemsAtOf
    <3>q. QED BY <3>1
  <2>q. QED BY <1>1, <2>1 DEF ToSet
<1>4. gone = {} => I = DOMAIN list
  OBVIOUS
<1>5. gone = {} => Present(list) = list
  BY <1>1, <1>4, AllItems
<1>6. ItemsAt(list, I) \in Seq(T) /\ Alike(ItemsAt(list, I))
  <2>. HIDE DEF I
  <2>q. QED BY <1>1, ItemsAtOf, ItemsAtAlike
<1>q. QED BY <1>1, <1>2, <1>3, <1>5, <1>6

LEMMA FilesNamedOf ==
  ASSUME NEW T, NEW dir, In(dir) \in Seq(T), NEW id
  PROVE  FilesNamed(dir, id) \in Seq(T)
<1>. DEFINE I == {i \in DOMAIN In(dir) : LET s == In(dir)[i]
                                         IN  s \notin gone /\ Len(s[2]) = 1 /\ SameName(s[2][1], id[1])}
<1>1. I \in SUBSET DOMAIN In(dir) /\ FilesNamed(dir, id) = ItemsAt(In(dir), I)
  BY DEF FilesNamed
<1>. HIDE DEF I
<1>q. QED BY <1>1, ItemsAtOf

-----------------------------------------------------------------------------
(* Tasks.                                                                  *)

(* What is left after the first task.                                      *)
LEMMA PlanRest ==
  ASSUME NEW tasks, IsSeq(tasks), tasks # <<>>, Plan(tasks)
  PROVE  /\ Source(Head(tasks)) /\ Plan(Tail(tasks))
         /\ Head(tasks).do = "document" <=> Tail(tasks) = <<>>
         /\ Offer(tasks) = Of(Head(tasks)) \union Offer(Tail(tasks))
         /\ Of(Head(tasks)) \intersect Offer(Tail(tasks)) = {}
         /\ Tail(tasks) # <<>> => Head(Tail(tasks)).do # "registry"
<1>. DEFINE h == Head(tasks)
            others == Tail(tasks)
<1>1. /\ h = tasks[1] /\ 1 \in DOMAIN tasks
      /\ Len(others) = Len(tasks) - 1 /\ Len(tasks) \in Nat /\ Len(tasks) >= 1
      /\ \A n \in DOMAIN others : n + 1 \in DOMAIN tasks /\ others[n] = tasks[n + 1]
      /\ \A n \in DOMAIN tasks : n = 1 \/ (n - 1 \in DOMAIN others /\ tasks[n] = others[n - 1])
      /\ \A n \in DOMAIN tasks : n \in Nat
      /\ \A n \in DOMAIN others : n \in Nat /\ n >= 1
      /\ others \in Seq(ToSet(tasks))
  <2>1. tasks \in Seq(ToSet(tasks))
    BY DEF IsSeq
  <2>q. QED BY <2>1, Rest
<1>2. Len(others) = 0 <=> others = <<>>
  BY <1>1
<1>. HIDE DEF h, others
<1>3. Source(h)
  BY <1>1 DEF Plan
<1>4. h.do = "document" <=> others = <<>>
  <2>1. h.do = "document" <=> 1 = Len(tasks)
    BY <1>1 DEF Plan
  <2>2. 1 = Len(tasks) <=> Len(others) = 0
    BY <1>1
  <2>q. QED BY <1>2, <2>1, <2>2
<1>5. ASSUME NEW n \in DOMAIN others
      PROVE  /\ Source(others[n]) /\ (others[n].do = "document" <=> n = Len(others))
             /\ others[n].do # "registry"
  <2>1. /\ Source(tasks[n + 1]) /\ (tasks[n + 1].do = "document" <=> n + 1 = Len(tasks))
        /\ tasks[n + 1].do = "registry" => n + 1 = 1
    BY <1>1 DEF Plan
  <2>2. n + 1 = Len(tasks) <=> n = Len(others)
    BY <1>1
  <2>q. QED BY <1>1, <2>1, <2>2
<1>6. ASSUME NEW m \in DOMAIN others, NEW n \in DOMAIN others, m # n
      PROVE  Of(others[m]) \intersect Of(others[n]) = {}
  <2>. DEFINE i == m + 1
              k == n + 1
  <2>1. i \in DOMAIN tasks /\ k \in DOMAIN tasks /\ i # k /\ others[m] = tasks[i] /\ others[n] = tasks[k]
    BY <1>1, <1>6
  <2>. HIDE DEF i, k
  <2>q. QED BY <2>1 DEF Plan
<1>7. \A n \in DOMAIN others : Of(others[n]) \subseteq Offer(tasks) /\ Of(h) \intersect Of(others[n]) = {}
  <2>1. SUFFICES ASSUME NEW n \in DOMAIN others
                 PROVE  Of(others[n]) \subseteq Offer(tasks) /\ Of(h) \intersect Of(others[n]) = {}
    OBVIOUS
  <2>. DEFINE k == n + 1
  <2>2. k \in DOMAIN tasks /\ others[n] = tasks[k] /\ k # 1
    BY <1>1
  <2>. HIDE DEF k
  <2>3. Of(tasks[k]) \subseteq Offer(tasks)
    BY <2>2 DEF Offer
  <2>4. Of(tasks[1]) \intersect Of(tasks[k]) = {}
    BY <1>1, <2>2 DEF Plan
  <2>q. QED BY <1>1, <2>2, <2>3, <2>4
<1>8. \A n \in DOMAIN tasks : Of(tasks[n]) \subseteq Of(h) \union Offer(others)
  <2>1. SUFFICES ASSUME NEW n \in DOMAIN tasks PROVE Of(tasks[n]) \subseteq Of(h) \union Offer(others)
    OBVIOUS
  <2>2. CASE n = 1
    BY <1>1, <2>2
  <2>3. CASE n # 1
    <3>. DEFINE k == n - 1
    <3>1. k \in DOMAIN others /\ tasks[n] = others[k]
      BY <1>1, <2>3
    <3>. HIDE DEF k
    <3>q. QED BY <3>1 DEF Offer
  <2>q. QED BY <2>2, <2>3
<1>9. Of(h) \subseteq Offer(tasks)
  BY <1>1 DEF Offer
<1>10. Offer(tasks) = Of(h) \union Offer(others)
  <2>1. Offer(others) \subseteq Offer(tasks)
    BY <1>7 DEF Offer
  <2>2. Offer(tasks) \subseteq Of(h) \union Offer(others)
    BY <1>8 DEF Offer
  <2>q. QED BY <1>9, <2>1, <2>2
<1>11. Of(h) \intersect Offer(others) = {}
  BY <1>7 DEF Offer
<1>12. Plan(others)
  BY <1>5, <1>6 DEF Plan
<1>13. others # <<>> => Head(others).do # "registry"
  <2>1. others # <<>> => 1 \in DOMAIN others /\ Head(others) = others[1]
    BY <1>1
  <2>q. QED BY <1>5, <2>1
<1>q. QED BY <1>3, <1>4, <1>10, <1>11, <1>12, <1>13 DEF h, others

(* A task before the others.                                               *)
LEMMA PlanMore ==
  ASSUME NEW tasks, IsSeq(tasks), tasks # <<>>, Plan(tasks),
         Head(tasks).do # "registry",
         NEW t, Source(t), t.do # "document", Of(t) \intersect Offer(tasks) = {}
  PROVE  /\ Plan(<<t>> \o tasks)
         /\ Offer(<<t>> \o tasks) = Of(t) \union Offer(tasks)
<1>. DEFINE all == <<t>> \o tasks
<1>1. /\ Len(all) = Len(tasks) + 1 /\ Len(tasks) \in Nat /\ all[1] = t
      /\ \A n \in DOMAIN tasks : n + 1 \in DOMAIN all /\ all[n + 1] = tasks[n]
      /\ \A n \in DOMAIN all : n \in Nat /\ (n = 1 \/ (n - 1 \in DOMAIN tasks /\ all[n] = tasks[n - 1]))
  <2>1. Len(all) = Len(tasks) + 1 /\ Len(tasks) \in Nat /\ all[1] = t
    BY SeqBefore
  <2>2. \A n \in DOMAIN tasks : n + 1 \in DOMAIN all /\ all[n + 1] = tasks[n]
    BY SeqBefore
  <2>3. \A n \in DOMAIN all : n \in Nat /\ (n = 1 \/ (n - 1 \in DOMAIN tasks /\ all[n] = tasks[n - 1]))
    BY SeqBefore
  <2>q. QED BY <2>1, <2>2, <2>3
<1>2. Len(tasks) # 0
  BY DEF IsSeq
<1>3. 1 \in DOMAIN all
  <2>1. all \in Seq(ToSet(all))
    BY SeqBefore DEF IsSeq
  <2>q. QED BY <1>1, <2>1
<1>. HIDE DEF all
<1>0. \A n \in DOMAIN tasks : tasks[n].do # "registry"
  <2>1. 1 \in DOMAIN tasks /\ Head(tasks) = tasks[1]
    BY <1>2 DEF IsSeq
  <2>q. QED BY <2>1 DEF Plan
<1>4. ASSUME NEW n \in DOMAIN all
      PROVE  /\ Source(all[n]) /\ (all[n].do = "document" <=> n = Len(all))
             /\ all[n].do = "registry" => n = 1
  <2>1. CASE n = 1
    BY <1>1, <1>2, <2>1
  <2>2. CASE n # 1
    <3>1. Source(tasks[n - 1]) /\ (tasks[n - 1].do = "document" <=> n - 1 = Len(tasks))
      BY <1>1, <2>2 DEF Plan
    <3>2. n - 1 = Len(tasks) <=> n = Len(all)
      BY <1>1
    <3>q. QED BY <1>0, <1>1, <2>2, <3>1, <3>2
  <2>q. QED BY <2>1, <2>2
<1>5. \A n \in DOMAIN all : n = 1 \/ \E k \in DOMAIN tasks : k = n - 1 /\ all[n] = tasks[k]
  BY <1>1
<1>6. \A k \in DOMAIN tasks : Of(tasks[k]) \subseteq Offer(tasks)
  BY DEF Offer
<1>7. ASSUME NEW m \in DOMAIN all, NEW n \in DOMAIN all, m # n
      PROVE  Of(all[m]) \intersect Of(all[n]) = {}
  <2>1. CASE m = 1
    <3>1. PICK k \in DOMAIN tasks : all[n] = tasks[k]
      BY <1>5, <1>7, <2>1
    <3>q. QED BY <1>1, <1>6, <2>1, <3>1
  <2>2. CASE n = 1
    <3>1. PICK k \in DOMAIN tasks : all[m] = tasks[k]
      BY <1>5, <1>7, <2>2
    <3>q. QED BY <1>1, <1>6, <2>2, <3>1
  <2>3. CASE m # 1 /\ n # 1
    <3>1. PICK i \in DOMAIN tasks : i = m - 1 /\ all[m] = tasks[i]
      BY <1>5, <2>3
    <3>2. PICK k \in DOMAIN tasks : k = n - 1 /\ all[n] = tasks[k]
      BY <1>5, <2>3
    <3>3. i # k
      BY <1>1, <1>7, <3>1, <3>2
    <3>q. QED BY <3>1, <3>2, <3>3 DEF Plan
  <2>q. QED BY <2>1, <2>2, <2>3
<1>8. Plan(all)
  BY <1>4, <1>7 DEF Plan
<1>9. Offer(all) \subseteq Of(t) \union Offer(tasks)
  <2>1. SUFFICES ASSUME NEW n \in DOMAIN all PROVE Of(all[n]) \subseteq Of(t) \union Offer(tasks)
    BY DEF Offer
  <2>q. QED BY <1>1, <1>5, <1>6
<1>10. Of(t) \union Offer(tasks) \subseteq Offer(all)
  <2>1. Of(t) \subseteq Offer(all)
    BY <1>1, <1>3 DEF Offer
  <2>2. ASSUME NEW k \in DOMAIN tasks PROVE Of(tasks[k]) \subseteq Offer(all)
    <3>. DEFINE n == k + 1
    <3>1. n \in DOMAIN all /\ all[n] = tasks[k]
      BY <1>1
    <3>. HIDE DEF n
    <3>q. QED BY <3>1 DEF Offer
  <2>3. Offer(tasks) \subseteq Offer(all)
    BY <2>2 DEF Offer
  <2>q. QED BY <2>1, <2>3
<1>q. QED BY <1>8, <1>9, <1>10 DEF all

LEMMA PlanNone == Plan(<<>>) /\ Offer(<<>>) = {}
  BY DEF Plan, Offer

(* What each task may show.                                                *)
LEMMA OfTask ==
  /\ \A t : t.do = "import" => Of(t) = {t.of}
  /\ \A t : t.do = "open" => Of(t) = {s \in ToSet(In(t.dir)) : ~IsImport(s)}
  /\ \A t : t.do = "walk" => Of(t) = {s \in ToSet(t.entries) : ~IsImport(s)}
  /\ \A t : t.do = "query" => Of(t) = ToSet(Rows)
  /\ \A t : t.do = "rows" => Of(t) = ToSet(t.entries)
  /\ \A t : t.do \in {"registry", "document"} => Of(t) = {}
  BY DEF Of

-----------------------------------------------------------------------------
(* Steps.                                                                  *)
AskNext ==
  \/ GetCapabilities \/ DescribeAll \/ FirstPage \/ NextPage
  \/ \E protocol \in {"wps", "ogc"} : \E id \in Identifiers : cat # Null /\ Describe(protocol, id)
  \/ Execute

DoTask ==
  \/ MakeRegistry \/ ReadImport \/ OpenDirectory \/ ReadEntry \/ QueryRows \/ ReadRow \/ EndOfList
  \/ PrintDocument
  \/ Lookup \/ Match \/ Fetch

OpenOrClose == (\E c \in Catalogues : OpenCatalogue(c)) \/ CloseCatalogue

LEMMA SearchSteps ==
  [Next]_kernelState => AskNext \/ DoTask \/ OpenOrClose \/ DeployOrUndeploy \/ UNCHANGED catVars
<1>1. SUFFICES ASSUME [Next]_kernelState
               PROVE  AskNext \/ DoTask \/ OpenOrClose \/ DeployOrUndeploy \/ UNCHANGED catVars
  OBVIOUS
<1>2. CASE UNCHANGED kernelState
  BY <1>2 DEF kernelState
<1>3. CASE ServeCatalogue
  BY <1>3 DEF ServeCatalogue, AskNext, DoTask
<1>4. CASE DescriptionFound
  BY <1>4 DEF DescriptionFound, OpenOrClose
<1>5. CASE ServiceFound
  BY <1>5 DEF ServiceFound, OpenOrClose
<1>6. CASE Answered
  BY <1>6 DEF Answered, kernelState
<1>7. CASE OpenTheOneFound
  BY <1>7 DEF OpenTheOneFound
<1>8. CASE RunTheOneFound
  BY <1>8 DEF RunTheOneFound
<1>9. CASE Unused /\ \E c \in Catalogues : OpenCatalogue(c)
  BY <1>9 DEF OpenOrClose
<1>q. QED BY <1>1, <1>2, <1>3, <1>4, <1>5, <1>6, <1>7, <1>8, <1>9 DEF Next

(* What stays the same while a task is done.                               *)
LEMMA DoTaskFrame ==
  DoTask => cat # Null /\ left # <<>> /\ UNCHANGED <<cat, gone, touched, asked>>
  BY DEF DoTask, MakeRegistry, ReadImport, OpenDirectory, ReadEntry, QueryRows, ReadRow, EndOfList,
         PrintDocument, Lookup, Match, Fetch, Task, sessionVars

LEMMA CatFrame ==
  ASSUME UNCHANGED cat
  PROVE  /\ Deployed' = Deployed /\ Rows' = Rows /\ ConfDir' = ConfDir /\ Identifiers' = Identifiers
         /\ \A dir : In(dir)' = In(dir)
         /\ \A dir : GetServicesNamespacePath(dir)' = GetServicesNamespacePath(dir)
         /\ \A s : IsImport(s)' <=> IsImport(s)
         /\ \A s : ServiceIsFilter(s)' <=> ServiceIsFilter(s)
<1>1. /\ Rows' = Rows /\ ConfDir' = ConfDir
      /\ \A dir : In(dir)' = In(dir)
      /\ \A dir : GetServicesNamespacePath(dir)' = GetServicesNamespacePath(dir)
      /\ \A s : IsImport(s)' <=> IsImport(s)
      /\ \A s : ServiceIsFilter(s)' <=> ServiceIsFilter(s)
  BY DEF Rows, ConfDir, In, GetServicesNamespacePath, IsImport, Imported, ServiceIsFilter
<1>2. Deployed' = Deployed
  BY DEF Deployed, In, Rows
<1>3. Identifiers' = Identifiers
  BY <1>2 DEF Identifiers
<1>q. QED BY <1>1, <1>2, <1>3

LEMMA TasksFrame ==
  ASSUME UNCHANGED <<cat, asked>>
  PROVE  /\ DirsWalked' = DirsWalked /\ Walked' = Walked /\ Listable' = Listable
         /\ \A t : Source(t)' <=> Source(t)
         /\ \A t : Of(t)' = Of(t)
         /\ \A tasks : Offer(tasks)' = Offer(tasks)
         /\ \A tasks : Plan(tasks)' <=> Plan(tasks)
<1>1. UNCHANGED cat /\ UNCHANGED asked
  OBVIOUS
<1>2. DirsWalked' = DirsWalked
  BY <1>1, CatFrame DEF DirsWalked
<1>3. Walked' = Walked
  BY <1>1, CatFrame DEF Walked
<1>4. Listable' = Listable
  BY <1>1, <1>3, CatFrame DEF Listable
<1>5. \A t : Source(t)' <=> Source(t)
  BY <1>1, <1>2, CatFrame DEF Source
<1>6. \A t : Of(t)' = Of(t)
  BY <1>1, CatFrame DEF Of
<1>7. \A tasks : Offer(tasks)' = Offer(tasks)
  BY <1>6 DEF Offer
<1>8. \A tasks : Plan(tasks)' <=> Plan(tasks)
  BY <1>5, <1>6 DEF Plan
<1>q. QED BY <1>2, <1>3, <1>4, <1>5, <1>6, <1>7, <1>8

LEMMA DirsWalkedIn ==
  ASSUME cat \in Catalogues
  PROVE  DirsWalked \subseteq DOMAIN cat.dirs
  BY DirsOf DEF DirsWalked

-----------------------------------------------------------------------------
(* A task of a list: the first task gives way to nothing, or to another    *)
(* one that shows the services in new, and shows one at most ...           *)
GoesOn(new) ==
  /\ Head(left).do # "document"
  /\ \/ left' = Tail(left) /\ new = {}
     \/ \E t : left' = <<t>> \o Tail(left) /\ Source(t) /\ t.do \notin {"document", "registry"} /\ new = Of(t)
  /\ new \subseteq Of(Head(left))
  /\ \/ /\ UNCHANGED shown
        /\ asked.limit = NoLimit /\ events' = <<>> =>
             (Of(Head(left)) \intersect Listable) \ touched \subseteq new
     \/ \E s \in (Of(Head(left)) \intersect Listable) \ new :
          shown' = Append(shown, s) /\ Of(Head(left)) \subseteq new \union {s}
  /\ UNCHANGED events \/ (gone # {} /\ \E e \in {"exception", "cut"} : events' = Append(events, e))
  /\ UNCHANGED listed

(* ... or the request ends without a document ...                          *)
Stops ==
  /\ left' = <<>> /\ events' # <<"document">>
  /\ IsSeq(events')
  /\ UNCHANGED <<shown, listed>>

(* ... or with it.                                                         *)
Prints ==
  /\ Head(left).do = "document" /\ left' = <<>> /\ listed' = listed \o shown
  /\ events' = Append(events, "document")
  /\ UNCHANGED shown

LEMMA SaidMore ==
  ASSUME NEW s, IsSeq(s), NEW e, e # "document"
  PROVE  /\ IsSeq(Append(s, e)) /\ Append(s, e) # <<"document">> /\ Append(s, e) # <<>>
<1>1. IsSeq(Append(s, e)) /\ Append(s, e) # <<>>
  BY SeqLast
<1>2. e \in ToSet(Append(s, e))
  BY SeqLast
<1>3. ToSet(<<"document">>) = {"document"}
  BY SeqNone
<1>q. QED BY <1>1, <1>2, <1>3

ListCase ==
  /\ cat \in Catalogues /\ asked \in RequestType /\ asked.op \in {"list", "all"}
  /\ IsSeq(left) /\ left # <<>> /\ IsSeq(shown) /\ IsSeq(listed) /\ IsSeq(events)
  /\ gone \subseteq touched
  /\ Order /\ ListInv

LEMMA FirstTask ==
  ASSUME ListCase
  PROVE  /\ Source(Head(left)) /\ Plan(left) /\ Plan(Tail(left))
         /\ Head(left).do = "document" <=> Tail(left) = <<>>
         /\ Offer(left) = Of(Head(left)) \union Offer(Tail(left))
         /\ Of(Head(left)) \intersect Offer(Tail(left)) = {}
         /\ Tail(left) # <<>> => Head(Tail(left)).do # "registry"
  BY PlanRest DEF ListCase, ListInv

LEMMA RegistryStep ==
  ASSUME ListCase, MakeRegistry
  PROVE  GoesOn({}) \/ Stops
<1>1. left # <<>> /\ Head(left).do = "registry" /\ UNCHANGED <<shown, listed>> /\ events = <<>>
  BY DEF MakeRegistry, Task, ListCase, ListInv
<1>2. Of(Head(left)) = {}
  BY <1>1, OfTask
<1>3. CASE events' = <<>>
  <2>1. left' = Tail(left)
    BY <1>3 DEF MakeRegistry
  <2>2. /\ Head(left).do # "document" /\ UNCHANGED events /\ {} \subseteq Of(Head(left))
        /\ (Of(Head(left)) \intersect Listable) \ touched \subseteq {}
    BY <1>1, <1>2, <1>3
  <2>q. QED BY <1>1, <2>1, <2>2 DEF GoesOn
<1>4. CASE events' # <<>>
  <2>1. left' = <<>> /\ events' \in {<<"exception">>, <<"died">>}
    BY <1>4 DEF MakeRegistry
  <2>2. IsSeq(events')
    BY <2>1, SeqNone
  <2>3. <<"exception">> # <<"document">> /\ <<"died">> # <<"document">>
    BY SeqNone
  <2>q. QED BY <1>1, <2>1, <2>2, <2>3 DEF Stops
<1>q. QED BY <1>3, <1>4

(* A service that is read but not shown is not one of the list.            *)
LEMMA ShowStep ==
  ASSUME ListCase, NEW s, Show(s), s \in Of(Head(left)), s \in Listable \/ (asked.protocol = "ogc" /\ ServiceIsFilter(s))
  PROVE  \/ UNCHANGED shown /\ s \notin Listable
         \/ s \in Listable /\ shown' = Append(shown, s)
  BY DEF Show, Listable

LEMMA ImportStep ==
  ASSUME ListCase, ReadImport
  PROVE  GoesOn({}) \/ Stops
<1>. DEFINE t == Head(left)
            s == t.of
<1>1. t.do = "import" /\ UNCHANGED listed
  BY DEF ReadImport, Task, sessionVars
<1>2. PICK n \in DOMAIN cat.imports : asked.protocol = "wps" /\ s = cat.imports[n]
  BY <1>1, FirstTask DEF Source
<1>3. Of(t) = {s} /\ s \in Listable
  BY <1>1, <1>2, OfTask DEF Listable
<1>4. ~IsThere(s) => s \in touched
  BY <1>2, ImportOf DEF IsThere, ListCase
<1>5. CASE IsThere(s) /\ ~Inherits(s)
  <2>1. events' = Append(events, "died") /\ left' = <<>> /\ UNCHANGED shown
    BY <1>5 DEF ReadImport, Die, Say
  <2>q. QED BY <1>1, <2>1, SaidMore DEF Stops, ListCase
<1>6. CASE IsThere(s) /\ Inherits(s)
  <2>1. shown' = Append(shown, s) /\ left' = Tail(left) /\ UNCHANGED events
    BY <1>2, <1>6 DEF ReadImport, Show
  <2>2. s \in (Of(t) \intersect Listable) \ {} /\ Of(t) \subseteq {} \union {s}
    BY <1>3
  <2>q. QED BY <1>1, <2>1, <2>2 DEF GoesOn
<1>7. CASE ~IsThere(s)
  <2>1. UNCHANGED shown /\ left' = Tail(left) /\ UNCHANGED events
    BY <1>7 DEF ReadImport
  <2>2. (Of(t) \intersect Listable) \ touched \subseteq {}
    BY <1>3, <1>4, <1>7
  <2>q. QED BY <1>1, <2>1, <2>2 DEF GoesOn
<1>q. QED BY <1>5, <1>6, <1>7

LEMMA OpenStep ==
  ASSUME ListCase, OpenDirectory
  PROVE  \E new : GoesOn(new)
<1>. DEFINE t == Head(left)
            entries == Present(In(t.dir))
            w == Walk(t.last, entries)
<1>1. t.do = "open" /\ UNCHANGED <<listed, shown, events>>
  BY DEF OpenDirectory, Task, sessionVars
<1>2. left' = <<w>> \o Tail(left)
  BY DEF OpenDirectory, Walk
<1>3. t.dir \in DirsWalked /\ t.dir \in DOMAIN cat.dirs
  BY <1>1, FirstTask, DirsWalkedIn DEF Source, ListCase
<1>4. In(t.dir) \in Seq(Deployed) /\ Alike(In(t.dir))
  BY <1>3, InOf DEF ListCase
<1>5. entries \in Seq(Deployed) /\ Alike(entries) /\ ToSet(entries) = ToSet(In(t.dir)) \ gone
  BY <1>4, PresentOf
<1>. HIDE DEF entries
<1>6. w.do = "walk" /\ w.entries = entries /\ w.last = t.last
  BY DEF Walk
<1>7. AllOf(entries, In(t.dir))
  BY <1>5, SeqIs DEF AllOf
<1>8. Source(w)
  <2>1. w = Walk(w.last, w.entries)
    BY <1>6
  <2>q. QED BY <1>3, <1>6, <1>7, <2>1 DEF Source
<1>9. /\ Of(w) = {s \in ToSet(entries) : ~IsImport(s)}
      /\ Of(t) = {s \in ToSet(In(t.dir)) : ~IsImport(s)}
  BY <1>1, <1>6, OfTask
<1>10. Of(w) \subseteq Of(t) /\ Of(t) \ touched \subseteq Of(w)
  BY <1>5, <1>9 DEF ListCase
<1>11. w.do \notin {"document", "registry"}
  BY <1>6
<1>. HIDE DEF w
<1>q. QED BY <1>1, <1>2, <1>8, <1>10, <1>11 DEF GoesOn

LEMMA WalkChanged ==
  ASSUME NEW t, t = Walk(t.last, t.entries), NEW x
  PROVE  [t EXCEPT !.entries = x] = Walk(t.last, x)
<1>1. PICK l, e : t = [do |-> "walk", last |-> l, entries |-> e] /\ l = t.last
  BY DEF Walk
<1>2. PICK w : w = [t EXCEPT !.entries = x]
  OBVIOUS
<1>3. w.do = "walk" /\ w.last = l /\ w.entries = x
  BY <1>1, <1>2
<1>4. w = [k \in {"do", "last", "entries"} |-> w[k]]
  BY <1>1, <1>2
<1>5. w = [do |-> "walk", last |-> l, entries |-> x]
  BY <1>3, <1>4
<1>q. QED BY <1>1, <1>2, <1>5 DEF Walk

LEMMA RowsChanged ==
  ASSUME NEW t, t = RowsLeft(t.entries), NEW x
  PROVE  [t EXCEPT !.entries = x] = RowsLeft(x)
<1>1. PICK e : t = [do |-> "rows", entries |-> e]
  BY DEF RowsLeft
<1>2. PICK w : w = [t EXCEPT !.entries = x]
  OBVIOUS
<1>3. w.do = "rows" /\ w.entries = x
  BY <1>1, <1>2
<1>4. w = [k \in {"do", "entries"} |-> w[k]]
  BY <1>1, <1>2
<1>5. w = [do |-> "rows", entries |-> x]
  BY <1>3, <1>4
<1>q. QED BY <1>2, <1>5 DEF RowsLeft

(* The rest of a walk.                                                     *)
LEMMA WalkOn ==
  ASSUME ListCase, Head(left).do = "walk", Head(left).entries # <<>>
  PROVE  LET t == Head(left)
             s == Head(t.entries)
             w == [t EXCEPT !.entries = Tail(@)]
         IN  /\ Source(w) /\ w.do = "walk" /\ w = Walk(t.last, Tail(t.entries))
             /\ Of(w) = {r \in ToSet(Tail(t.entries)) : ~IsImport(r)}
             /\ IsImport(s) => Of(t) = Of(w)
             /\ ~IsImport(s) => /\ Of(t) = {s} \union Of(w) /\ s \notin Of(w)
                                /\ s \in Walked
<1>. DEFINE t == Head(left)
            s == Head(t.entries)
            w == Walk(t.last, Tail(t.entries))
<1>1. t = Walk(t.last, t.entries)
  BY FirstTask DEF Source
<1>2. PICK dir \in DirsWalked : AllOf(t.entries, In(dir))
  BY FirstTask DEF Source
<1>3. [t EXCEPT !.entries = Tail(@)] = w
  <2>. HIDE DEF t
  <2>q. QED BY <1>1, WalkChanged
<1>4. w.do = "walk" /\ w.last = t.last /\ w.entries = Tail(t.entries)
  BY DEF Walk
<1>5. /\ ToSet(t.entries) = {s} \union ToSet(Tail(t.entries)) /\ s \notin ToSet(Tail(t.entries))
      /\ IsSeq(Tail(t.entries)) /\ Alike(Tail(t.entries))
  BY <1>2, SeqFirst DEF AllOf
<1>6. AllOf(w.entries, In(dir))
  BY <1>2, <1>4, <1>5 DEF AllOf
<1>7. Source(w)
  BY <1>4, <1>6 DEF Source
<1>8. /\ Of(w) = {r \in ToSet(Tail(t.entries)) : ~IsImport(r)}
      /\ Of(t) = {r \in ToSet(t.entries) : ~IsImport(r)}
  BY <1>4, OfTask
<1>9. s \in ToSet(In(dir))
  BY <1>2, <1>5 DEF AllOf
<1>10. ~IsImport(s) => s \in Walked
  BY <1>9 DEF Walked, DirsWalked
<1>q. QED BY <1>3, <1>4, <1>5, <1>7, <1>8, <1>10

LEMMA EntryStep ==
  ASSUME ListCase, ReadEntry
  PROVE  (\E new : GoesOn(new)) \/ Stops
<1>. DEFINE t == Head(left)
            s == Head(t.entries)
            w == [t EXCEPT !.entries = Tail(@)]
            next == <<w>> \o Tail(left)
<1>1. t.do = "walk" /\ t.entries # <<>> /\ UNCHANGED listed
  BY DEF ReadEntry, Task, sessionVars
<1>2. /\ Source(w) /\ w.do = "walk"
      /\ IsImport(s) => Of(t) = Of(w)
      /\ ~IsImport(s) => Of(t) = {s} \union Of(w) /\ s \notin Of(w) /\ s \in Walked
  BY <1>1, WalkOn
<1>3. w.do \notin {"document", "registry"} /\ t.do # "document" /\ Of(w) \subseteq Of(t)
  BY <1>1, <1>2
<1>4. asked.limit = NoLimit => InPage
  BY DEF InPage, CompareCnt
<1>5. CASE IsImport(s)
  <2>1. left' = next /\ UNCHANGED <<shown, events>>
    BY <1>5 DEF ReadEntry
  <2>. HIDE DEF w
  <2>q. QED BY <1>1, <1>2, <1>3, <1>5, <2>1 DEF GoesOn
<1>6. CASE ~IsImport(s) /\ ~InPage
  <2>1. left' = next /\ UNCHANGED <<shown, events>>
    BY <1>6 DEF ReadEntry
  <2>. HIDE DEF w
  <2>q. QED BY <1>1, <1>2, <1>3, <1>4, <1>6, <2>1 DEF GoesOn
<1>7. CASE ~IsImport(s) /\ InPage /\ s \in gone
  <2>1. PICK e \in {"exception", "cut"} : events' = Append(events, e)
    BY <1>7 DEF ReadEntry, Say
  <2>2. UNCHANGED shown /\ left' \in {<<>>, Tail(left)}
    BY <1>7 DEF ReadEntry
  <2>3. IsSeq(events') /\ events' # <<>> /\ events' # <<"document">>
    BY <2>1, SaidMore DEF ListCase
  <2>4. gone # {} /\ {} \subseteq Of(t)
    BY <1>7
  <2>5. left' = <<>> => Stops
    BY <1>1, <2>2, <2>3 DEF Stops
  <2>6. left' = Tail(left) => GoesOn({})
    BY <1>1, <1>3, <2>1, <2>2, <2>3, <2>4 DEF GoesOn
  <2>q. QED BY <2>2, <2>5, <2>6
<1>8. CASE ~IsImport(s) /\ InPage /\ s \notin gone /\ Inherits(s)
  <2>1. left' = next /\ UNCHANGED events /\ Show(s)
    BY <1>8 DEF ReadEntry, Silently
  <2>2. s \in Listable \/ (asked.protocol = "ogc" /\ ServiceIsFilter(s))
    BY <1>2, <1>8 DEF Listable
  <2>3. \/ UNCHANGED shown /\ s \notin Listable
        \/ s \in Listable /\ shown' = Append(shown, s)
    BY <1>2, <1>8, <2>1, <2>2, ShowStep
  <2>. HIDE DEF w, s
  <2>4. s \notin Listable => Of(t) \intersect Listable \subseteq Of(w)
    BY <1>2, <1>8
  <2>5. s \in Listable => s \in (Of(t) \intersect Listable) \ Of(w) /\ Of(t) \subseteq Of(w) \union {s}
    BY <1>2, <1>8
  <2>6. GoesOn(Of(w))
    BY <1>1, <1>2, <1>3, <2>1, <2>3, <2>4, <2>5 DEF GoesOn
  <2>q. QED BY <2>6
<1>9. CASE ~IsImport(s) /\ InPage /\ s \notin gone /\ ~Inherits(s)
  <2>1. events' = Append(events, "died") /\ left' = <<>> /\ UNCHANGED shown
    BY <1>9 DEF ReadEntry, Die, Say
  <2>q. QED BY <1>1, <2>1, SaidMore DEF Stops, ListCase
<1>q. QED BY <1>5, <1>6, <1>7, <1>8, <1>9

LEMMA QueryStep ==
  ASSUME ListCase, QueryRows
  PROVE  \E new : GoesOn(new)
<1>. DEFINE t == Head(left)
            entries == Present(Rows)
            w == RowsLeft(entries)
<1>1. t.do = "query" /\ UNCHANGED <<listed, shown, events>>
  BY DEF QueryRows, Task, sessionVars
<1>2. left' = <<w>> \o Tail(left)
  BY DEF QueryRows, RowsLeft
<1>4. Rows \in Seq(Deployed) /\ Alike(Rows)
  BY RowsOfCatalogue DEF ListCase
<1>5. entries \in Seq(Deployed) /\ Alike(entries) /\ ToSet(entries) = ToSet(Rows) \ gone
  BY <1>4, PresentOf
<1>. HIDE DEF entries
<1>6. w.do = "rows" /\ w.entries = entries
  BY DEF RowsLeft
<1>7. AllOf(entries, Rows)
  BY <1>5, SeqIs DEF AllOf
<1>8. Source(w)
  <2>1. w = RowsLeft(w.entries)
    BY <1>6
  <2>q. QED BY <1>6, <1>7, <2>1 DEF Source
<1>9. Of(w) = ToSet(entries) /\ Of(t) = ToSet(Rows)
  BY <1>1, <1>6, OfTask
<1>10. Of(w) \subseteq Of(t) /\ Of(t) \ touched \subseteq Of(w)
  BY <1>5, <1>9 DEF ListCase
<1>11. w.do \notin {"document", "registry"}
  BY <1>6
<1>. HIDE DEF w
<1>q. QED BY <1>1, <1>2, <1>8, <1>10, <1>11 DEF GoesOn

(* The rest of the rows.                                                   *)
LEMMA RowsOn ==
  ASSUME ListCase, Head(left).do = "rows", Head(left).entries # <<>>
  PROVE  LET t == Head(left)
             s == Head(t.entries)
             w == [t EXCEPT !.entries = Tail(@)]
         IN  /\ Source(w) /\ w.do = "rows" /\ w = RowsLeft(Tail(t.entries))
             /\ Of(t) = {s} \union Of(w) /\ s \notin Of(w) /\ s \in ToSet(Rows)
             /\ Of(w) = ToSet(Tail(t.entries)) /\ Of(t) = ToSet(t.entries)
<1>. DEFINE t == Head(left)
            s == Head(t.entries)
            w == RowsLeft(Tail(t.entries))
<1>1. t = RowsLeft(t.entries) /\ AllOf(t.entries, Rows)
  BY FirstTask DEF Source
<1>3. [t EXCEPT !.entries = Tail(@)] = w
  <2>. HIDE DEF t
  <2>q. QED BY <1>1, RowsChanged
<1>4. w.do = "rows" /\ w.entries = Tail(t.entries)
  BY DEF RowsLeft
<1>5. /\ ToSet(t.entries) = {s} \union ToSet(Tail(t.entries)) /\ s \notin ToSet(Tail(t.entries))
      /\ IsSeq(Tail(t.entries)) /\ Alike(Tail(t.entries))
  BY <1>1, SeqFirst DEF AllOf
<1>6. AllOf(w.entries, Rows)
  BY <1>1, <1>4, <1>5 DEF AllOf
<1>7. Source(w)
  BY <1>4, <1>6 DEF Source
<1>8. Of(w) = ToSet(Tail(t.entries)) /\ Of(t) = ToSet(t.entries)
  BY <1>4, OfTask
<1>9. s \in ToSet(Rows)
  BY <1>1, <1>5 DEF AllOf
<1>q. QED BY <1>3, <1>4, <1>5, <1>7, <1>8, <1>9

LEMMA RowStep ==
  ASSUME ListCase, ReadRow
  PROVE  (\E new : GoesOn(new)) \/ Stops
<1>. DEFINE t == Head(left)
            s == Head(t.entries)
            w == [t EXCEPT !.entries = Tail(@)]
            next == <<w>> \o Tail(left)
<1>1. t.do = "rows" /\ t.entries # <<>> /\ UNCHANGED listed
  BY DEF ReadRow, Task, sessionVars
<1>2. Source(w) /\ w.do = "rows" /\ Of(t) = {s} \union Of(w) /\ s \notin Of(w) /\ s \in ToSet(Rows)
  BY <1>1, RowsOn
<1>3. w.do \notin {"document", "registry"} /\ t.do # "document" /\ Of(w) \subseteq Of(t)
  BY <1>1, <1>2
<1>4. asked.limit = NoLimit => InPage
  BY DEF InPage, CompareCnt
<1>5. CASE InPage /\ s \in gone
  <2>1. events' = Append(events, "died") /\ left' = <<>> /\ UNCHANGED shown
    BY <1>5 DEF ReadRow, Die, Say
  <2>q. QED BY <1>1, <2>1, SaidMore DEF Stops, ListCase
<1>6. CASE ~InPage
  <2>1. left' = next /\ UNCHANGED <<shown, events>>
    BY <1>6 DEF ReadRow
  <2>. HIDE DEF w
  <2>q. QED BY <1>1, <1>2, <1>3, <1>4, <1>6, <2>1 DEF GoesOn
<1>8. CASE InPage /\ s \notin gone
  <2>1. left' = next /\ UNCHANGED events /\ Show(s)
    BY <1>8 DEF ReadRow
  <2>2. s \in Listable \/ (asked.protocol = "ogc" /\ ServiceIsFilter(s))
    BY <1>2 DEF Listable
  <2>3. \/ UNCHANGED shown /\ s \notin Listable
        \/ s \in Listable /\ shown' = Append(shown, s)
    BY <1>2, <2>1, <2>2, ShowStep
  <2>. HIDE DEF w, s
  <2>4. s \notin Listable => Of(t) \intersect Listable \subseteq Of(w)
    BY <1>2
  <2>5. s \in Listable => s \in (Of(t) \intersect Listable) \ Of(w) /\ Of(t) \subseteq Of(w) \union {s}
    BY <1>2
  <2>6. GoesOn(Of(w))
    BY <1>1, <1>2, <1>3, <2>1, <2>3, <2>4, <2>5 DEF GoesOn
  <2>q. QED BY <2>6
<1>q. QED BY <1>5, <1>6, <1>8

LEMMA EndStep ==
  ASSUME ListCase, EndOfList
  PROVE  GoesOn({})
<1>. DEFINE t == Head(left)
<1>1. /\ t.do \in {"walk", "rows"} /\ t.entries = <<>>
      /\ left' = Tail(left) /\ UNCHANGED <<listed, shown, events>>
  BY DEF EndOfList, Task, sessionVars
<1>2. Of(t) = {}
  BY <1>1, OfTask, SeqNone
<1>3. t.do # "document" /\ {} \subseteq Of(t) /\ (Of(t) \intersect Listable) \ touched \subseteq {}
  BY <1>1, <1>2
<1>q. QED BY <1>1, <1>3 DEF GoesOn

LEMMA ListSteps ==
  ASSUME ListCase, DoTask
  PROVE  (\E new : GoesOn(new)) \/ Stops \/ Prints
<1>1. ~Task("lookup") /\ ~Task("match") /\ ~Task("fetch")
  BY FirstTask DEF Source, Task
<1>2. CASE PrintDocument
  <2>1. asked.op # "describe"
    BY DEF ListCase
  <2>q. QED BY <1>2, <2>1 DEF PrintDocument, Task, Say, Prints
<1>q. QED BY <1>1, <1>2, RegistryStep, ImportStep, OpenStep, EntryStep, QueryStep, RowStep, EndStep
      DEF DoTask, Lookup, Match, Fetch

-----------------------------------------------------------------------------
(* Types and the order of the requests.                                    *)

SearchSound == SearchTypes /\ Order /\ ListInv

LEMMA IdentifiersOf ==
  ASSUME cat \in Catalogues, NEW id \in Identifiers
  PROVE  id \in Seq(ToSet(id)) /\ Len(id) \in Nat /\ Len(id) >= 1
<1>1. CASE id = <<"A">>
  <2>1. IsSeq(id)
    BY <1>1, SeqNone
  <2>q. QED BY <1>1, <2>1 DEF IsSeq
<1>2. ASSUME NEW s \in Deployed, id = s[2]
      PROVE  id \in Seq(ToSet(id)) /\ Len(id) \in Nat /\ Len(id) >= 1
  <2>1. \/ \E dir \in DOMAIN cat.dirs : s \in ToSet(In(dir))
        \/ s \in ToSet(Rows)
    BY DEF Deployed
  <2>2. id \in ToSet(cat.rows) \/ \E dir \in DOMAIN cat.dirs : id \in ToSet(cat.dirs[dir])
    BY <1>2, <2>1, InOf, RowsOfCatalogue
  <2>3. PICK ids : Different(ids) /\ id \in ToSet(ids)
    BY <2>2, CatalogueAssumption
  <2>4. id \in Seq(ToSet(id)) /\ id # <<>>
    BY <2>3 DEF Different, ToSet
  <2>q. QED BY <2>4
<1>q. QED BY <1>1, <1>2 DEF Identifiers

(* A task that is there, and the request it is for.                        *)
LEMMA TaskOf ==
  ASSUME SearchSound, cat # Null, left # <<>>
  PROVE  /\ cat \in Catalogues /\ asked \in RequestType /\ IsSeq(left)
         /\ asked.op \in {"list", "all", "describe", "execute"} /\ asked.protocol \in {"wps", "ogc"}
         /\ asked.op \in {"list", "all"} => ListCase
         /\ Head(left).do = "fetch" => asked.op = "execute"
         /\ Head(left).do \in {"lookup", "match"} => asked.op = "describe"
         /\ asked.op \in {"describe", "execute"} => Len(asked.id) \in Nat /\ Len(asked.id) >= 1
         /\ Head(left) \in ToSet(left)
<1>1. cat \in Catalogues /\ asked \in RequestType /\ IsSeq(left)
  BY DEF SearchSound, SearchTypes
<1>2. asked.op \in {"list", "all", "describe", "execute"} /\ asked.protocol \in {"wps", "ogc"}
  BY <1>1 DEF SearchSound, Order, RequestType
<1>3. asked.op \in {"list", "all"} => ListCase
  BY <1>1 DEF SearchSound, SearchTypes, ListCase
<1>4. asked.op \in {"list", "all"} => Head(left).do \notin {"fetch", "lookup", "match"}
  BY <1>3, FirstTask DEF Source
<1>5. Head(left) \in ToSet(left)
  BY <1>1, SeqFirst
<1>6. /\ asked.op = "describe" => Head(left).do # "fetch"
      /\ asked.op = "execute" => Head(left).do \notin {"lookup", "match"}
  BY <1>5 DEF SearchSound, Order
<1>7. asked.op \in {"describe", "execute"} => Len(asked.id) \in Nat /\ Len(asked.id) >= 1
  BY <1>1, IdentifiersOf DEF SearchSound, Order
<1>q. QED BY <1>1, <1>2, <1>3, <1>4, <1>5, <1>6, <1>7

LEMMA DescribeStep ==
  ASSUME SearchSound, cat # Null, left # <<>>, NEW s, NEW tasks, DescribeIt(s, tasks)
  PROVE  /\ UNCHANGED shown \/ (\E r : shown' = Append(shown, r)) \/ (\E r : shown' = <<r>>)
         /\ left' = tasks \/ left' = <<>>
         /\ UNCHANGED <<cnt, more>>
         /\ UNCHANGED events \/ \E e : events' = Append(events, e)
<1>1. asked.protocol \in {"wps", "ogc"}
  BY TaskOf
<1>q. QED BY <1>1 DEF DescribeIt, Die, Say

LEMMA MatchChanged ==
  ASSUME NEW t, t = Matching(t.last, t.hit, t.entries), NEW x, NEW y
  PROVE  [t EXCEPT !.entries = x, !.hit = y] = Matching(t.last, y, x)
<1>1. PICK l, h, e : t = [do |-> "match", last |-> l, hit |-> h, entries |-> e] /\ l = t.last
  BY DEF Matching
<1>2. PICK w : w = [t EXCEPT !.entries = x, !.hit = y]
  OBVIOUS
<1>3. w.do = "match" /\ w.last = l /\ w.hit = y /\ w.entries = x
  BY <1>1, <1>2
<1>4. w = [k \in {"do", "last", "hit", "entries"} |-> w[k]]
  BY <1>1, <1>2
<1>5. w = [do |-> "match", last |-> l, hit |-> y, entries |-> x]
  BY <1>3, <1>4
<1>q. QED BY <1>1, <1>2, <1>5 DEF Matching

LEMMA LookupCases ==
  ASSUME SearchSound, Lookup
  PROVE  \/ NotFound(Head(left).last)
         \/ \E s : DescribeIt(s, <<PrintOut>>)
         \/ /\ left' = <<Matching(Head(left).last, FALSE, FilesNamed(Head(left).dir, asked.id))>> \o Tail(left)
            /\ UNCHANGED <<events, cnt, more, shown>>
<1>. DEFINE id == asked.id
            dir == Head(left).dir
            file == IF Imported(id) THEN cat.imports[id[1]] ELSE <<dir, id>>
<1>0. Len(id) \in Nat /\ Len(id) >= 1
  <2>1. cat # Null /\ left # <<>> /\ Head(left).do = "lookup"
    BY DEF Lookup, Task
  <2>q. QED BY <2>1, TaskOf
<1>1. Len(id) > 1 <=> Len(id) # 1
  <2>1. \A n \in Nat : n >= 1 => (n > 1 <=> n # 1)
    OBVIOUS
  <2>. HIDE DEF id
  <2>q. QED BY <1>0, <2>1
<1>2. CASE Imported(id) /\ HasRow(id)
  BY <1>2 DEF Lookup
<1>3. CASE (Imported(id) /\ ~HasRow(id)) \/ (~Imported(id) /\ Len(id) > 1)
  <2>1. IF IsThere(file) THEN DescribeIt(file, <<PrintOut>>) ELSE NotFound(Head(left).last)
    <3>. DEFINE A == DescribeIt(file, <<PrintOut>>)
                B == NotFound(Head(left).last)
    <3>1. CASE Imported(id) /\ ~HasRow(id) /\ IsThere(file)
      BY <3>1 DEF Lookup
    <3>2. CASE Imported(id) /\ ~HasRow(id) /\ ~IsThere(file)
      BY <3>2 DEF Lookup
    <3>3. CASE ~Imported(id) /\ Len(id) > 1 /\ IsThere(file)
      <4>1. Len(id) # 1
        BY <1>1, <3>3
      <4>q. QED BY <3>3, <4>1 DEF Lookup
    <3>4. CASE ~Imported(id) /\ Len(id) > 1 /\ ~IsThere(file)
      <4>1. Len(id) # 1
        BY <1>1, <3>4
      <4>q. QED BY <3>4, <4>1 DEF Lookup
    <3>q. QED BY <1>3, <3>1, <3>2, <3>3, <3>4
  <2>. HIDE DEF file
  <2>q. QED BY <2>1
<1>4. CASE ~Imported(id) /\ Len(id) = 1 /\ HasRow(id)
  BY <1>4 DEF Lookup
<1>5. CASE ~Imported(id) /\ Len(id) = 1 /\ ~HasRow(id)
  BY <1>5 DEF Lookup, Matching
<1>q. QED BY <1>1, <1>2, <1>3, <1>4, <1>5

LEMMA MatchCases ==
  ASSUME SearchSound, Match
  PROVE  LET t == Head(left)
             s == Head(t.entries)
         IN  /\ asked.op = "describe" /\ t = Matching(t.last, t.hit, t.entries)
             /\ \/ t.entries = <<>> /\ t.hit /\ left' = <<PrintOut>> /\ UNCHANGED <<events, cnt, more, shown>>
                \/ ((t.entries = <<>> /\ ~t.hit) \/ (t.entries # <<>> /\ s \in gone)) /\ NotFound(t.last)
                \/ /\ t.entries # <<>> /\ s \notin gone
                   /\ DescribeIt(s, <<Matching(t.last, TRUE, Tail(t.entries))>> \o Tail(left))
<1>. DEFINE t == Head(left)
            s == Head(t.entries)
<1>1. cat # Null /\ left # <<>> /\ t.do = "match"
  BY DEF Match, Task
<1>2. asked.op = "describe" /\ t \in ToSet(left)
  BY <1>1, TaskOf
<1>3. t = Matching(t.last, t.hit, t.entries)
  BY <1>1, <1>2 DEF SearchSound, Order
<1>4. [t EXCEPT !.entries = Tail(@), !.hit = TRUE] = Matching(t.last, TRUE, Tail(t.entries))
  <2>. HIDE DEF t
  <2>q. QED BY <1>3, MatchChanged
<1>5. CASE t.entries = <<>> /\ t.hit
  BY <1>2, <1>3, <1>5 DEF Match
<1>6. CASE (t.entries = <<>> /\ ~t.hit) \/ (t.entries # <<>> /\ s \in gone)
  BY <1>2, <1>3, <1>6 DEF Match
<1>7. CASE t.entries # <<>> /\ s \notin gone
  <2>1. DescribeIt(s, <<[t EXCEPT !.entries = Tail(@), !.hit = TRUE]>> \o Tail(left))
    BY <1>7 DEF Match
  <2>q. QED BY <1>2, <1>3, <1>4, <1>7, <2>1
<1>q. QED BY <1>5, <1>6, <1>7

(* The tasks that take another's place are of a kind that the request has. *)
MayFollow(t) ==
  /\ asked.op = "describe" => t.do = "match" /\ t = Matching(t.last, t.hit, t.entries)
  /\ asked.op # "execute"

LEMMA TasksLeft ==
  ASSUME SearchSound, DoTask
  PROVE  \/ left' = <<>> \/ left' = Tail(left)
         \/ left' = <<PrintOut>> /\ asked.op = "describe"
         \/ \E t : left' = <<t>> \o Tail(left) /\ MayFollow(t)
<1>0. /\ left # <<>> /\ cat # Null
      /\ Head(left).do = "fetch" => asked.op = "execute"
      /\ Head(left).do \in {"lookup", "match"} => asked.op = "describe"
      /\ asked.op \in {"describe", "execute"} => Len(asked.id) \in Nat /\ Len(asked.id) >= 1
      /\ Head(left).do \notin {"registry", "lookup", "match", "document", "fetch"} => MayFollow(PrintOut)
  BY DoTaskFrame, TaskOf DEF SearchSound, Order, MayFollow, PrintOut
<1>. DEFINE Good == \/ left' = <<>> \/ left' = Tail(left)
                    \/ left' = <<PrintOut>> /\ asked.op = "describe"
                    \/ \E t : left' = <<t>> \o Tail(left) /\ MayFollow(t)
<1>00. ASSUME Head(left).do \notin {"registry", "lookup", "match", "document", "fetch"},
              NEW t
       PROVE  MayFollow(t)
  BY <1>0, <1>00, DoTaskFrame, TaskOf DEF SearchSound, Order, MayFollow
<1>1. CASE MakeRegistry
  BY <1>1 DEF MakeRegistry
<1>2. CASE ReadImport
  BY <1>2 DEF ReadImport, Die
<1>3. CASE OpenDirectory
  BY <1>00, <1>3 DEF OpenDirectory, Task
<1>4. CASE ReadEntry
  BY <1>00, <1>4 DEF ReadEntry, Die, Task
<1>5. CASE QueryRows
  BY <1>00, <1>5 DEF QueryRows, Task
<1>6. CASE ReadRow
  BY <1>00, <1>6 DEF ReadRow, Die, Task
<1>7. CASE EndOfList \/ PrintDocument
  BY <1>7 DEF EndOfList, PrintDocument
<1>8. CASE Lookup
  <2>1. \A l, h, e : asked.op = "describe" => MayFollow(Matching(l, h, e))
    BY DEF Matching, MayFollow
  <2>2. asked.op = "describe"
    BY <1>0, <1>8 DEF Lookup, Task
  <2>3. CASE NotFound(Head(left).last)
    BY <2>3 DEF NotFound
  <2>4. CASE \E s : DescribeIt(s, <<PrintOut>>)
    BY <1>0, <2>2, <2>4, DescribeStep
  <2>5. CASE left' = <<Matching(Head(left).last, FALSE, FilesNamed(Head(left).dir, asked.id))>> \o Tail(left)
    BY <2>1, <2>2, <2>5
  <2>q. QED BY <1>8, <2>3, <2>4, <2>5, LookupCases
<1>9. CASE Match
  <2>1. \A l, h, e : asked.op = "describe" => MayFollow(Matching(l, h, e))
    BY DEF Matching, MayFollow
  <2>. DEFINE t == Head(left)
  <2>2. asked.op = "describe"
    BY <1>9, MatchCases
  <2>3. CASE NotFound(t.last)
    BY <2>3 DEF NotFound
  <2>4. CASE left' = <<PrintOut>>
    BY <2>2, <2>4
  <2>5. CASE DescribeIt(Head(t.entries), <<Matching(t.last, TRUE, Tail(t.entries))>> \o Tail(left))
    <3>1. left' = <<>> \/ left' = <<Matching(t.last, TRUE, Tail(t.entries))>> \o Tail(left)
      BY <1>0, <2>5, DescribeStep
    <3>q. QED BY <2>1, <2>2, <3>1
  <2>q. QED BY <1>9, <2>3, <2>4, <2>5, MatchCases
<1>10. CASE Fetch
  BY <1>10 DEF Fetch, Die, NotFound
<1>q. QED BY <1>1, <1>2, <1>3, <1>4, <1>5, <1>6, <1>7, <1>8, <1>9, <1>10 DEF DoTask

LEMMA ShownNext ==
  ASSUME SearchSound, DoTask
  PROVE  UNCHANGED shown \/ (\E s : shown' = Append(shown, s)) \/ (\E s : shown' = <<s>>)
<1>0. /\ left # <<>> /\ cat # Null
      /\ Head(left).do \in {"lookup", "match"} => asked.op = "describe"
      /\ asked.op \in {"describe", "execute"} => Len(asked.id) \in Nat /\ Len(asked.id) >= 1
  BY DoTaskFrame, TaskOf
<1>1. CASE MakeRegistry \/ OpenDirectory \/ QueryRows \/ EndOfList \/ PrintDocument
  BY <1>1 DEF MakeRegistry, OpenDirectory, QueryRows, EndOfList, PrintDocument
<1>2. CASE ReadImport
  BY <1>2 DEF ReadImport, Die, Show
<1>4. CASE ReadEntry
  BY <1>4 DEF ReadEntry, Die, Show
<1>6. CASE ReadRow
  BY <1>6 DEF ReadRow, Die, Show
<1>8. CASE Lookup
  BY <1>0, <1>8, LookupCases, DescribeStep DEF NotFound
<1>9. CASE Match
  BY <1>0, <1>9, MatchCases, DescribeStep DEF NotFound
<1>10. CASE Fetch
  BY <1>10 DEF Fetch, Die, NotFound
<1>q. QED BY <1>1, <1>2, <1>4, <1>6, <1>8, <1>9, <1>10 DEF DoTask

LEMMA EventsNext ==
  ASSUME SearchSound, DoTask
  PROVE  UNCHANGED events \/ (\E e : events' = Append(events, e)) \/ events' = <<>> \/ (\E e : events' = <<e>>)
<1>0. /\ left # <<>> /\ cat # Null
      /\ Head(left).do \in {"lookup", "match"} => asked.op = "describe"
      /\ asked.op \in {"describe", "execute"} => Len(asked.id) \in Nat /\ Len(asked.id) >= 1
  BY DoTaskFrame, TaskOf
<1>1. CASE MakeRegistry
  BY <1>1 DEF MakeRegistry
<1>2. CASE ReadImport
  BY <1>2 DEF ReadImport, Die, Say
<1>3. CASE OpenDirectory \/ QueryRows \/ EndOfList \/ PrintDocument
  BY <1>3 DEF OpenDirectory, QueryRows, EndOfList, PrintDocument, Say
<1>4. CASE ReadEntry
  BY <1>4 DEF ReadEntry, Die, Say, Silently
<1>6. CASE ReadRow
  BY <1>6 DEF ReadRow, Die, Say
<1>8. CASE Lookup
  BY <1>0, <1>8, LookupCases, DescribeStep DEF NotFound, Say, Silently
<1>9. CASE Match
  BY <1>0, <1>9, MatchCases, DescribeStep DEF NotFound, Say, Silently
<1>10. CASE Fetch
  BY <1>10 DEF Fetch, Die, NotFound, Say, Silently
<1>q. QED BY <1>1, <1>2, <1>3, <1>4, <1>6, <1>8, <1>9, <1>10 DEF DoTask

LEMMA CountNext ==
  ASSUME SearchSound, DoTask
  PROVE  /\ UNCHANGED cnt \/ cnt' = cnt + 1
         /\ more' \in BOOLEAN
         /\ asked.limit = NoLimit => UNCHANGED more
<1>0. /\ left # <<>> /\ cat # Null /\ more \in BOOLEAN
      /\ Head(left).do \in {"lookup", "match"} => asked.op = "describe"
      /\ asked.op \in {"describe", "execute"} => Len(asked.id) \in Nat /\ Len(asked.id) >= 1
  BY DoTaskFrame, TaskOf DEF SearchSound, SearchTypes
<1>1. CASE UNCHANGED <<cnt, more>>
  BY <1>0, <1>1
<1>2. CASE MakeRegistry \/ OpenDirectory \/ QueryRows \/ EndOfList \/ PrintDocument
  BY <1>1, <1>2 DEF MakeRegistry, OpenDirectory, QueryRows, EndOfList, PrintDocument
<1>3. CASE ReadImport
  BY <1>1, <1>3 DEF ReadImport, Die
<1>4. CASE ReadEntry
  <2>1. \/ UNCHANGED <<cnt, more>>
        \/ /\ \E s : cnt' = UpdateCnt(s)
           /\ more' = (more \/ (asked.limit # NoLimit /\ cnt' = asked.limit + asked.skip))
    BY <1>4 DEF ReadEntry, Die
  <2>2. (\E s : cnt' = UpdateCnt(s)) => UNCHANGED cnt \/ cnt' = cnt + 1
    BY DEF UpdateCnt
  <2>3. CASE more' = (more \/ (asked.limit # NoLimit /\ cnt' = asked.limit + asked.skip))
    <3>1. more' \in BOOLEAN
      BY <2>3
    <3>2. asked.limit = NoLimit => more' = more
      BY <1>0, <2>3
    <3>q. QED BY <3>1, <3>2, <2>1, <2>2
  <2>q. QED BY <1>1, <2>1, <2>3
<1>6. CASE ReadRow
  BY <1>1, <1>6 DEF ReadRow, Die
<1>8. CASE Lookup
  BY <1>0, <1>1, <1>8, LookupCases, DescribeStep DEF NotFound
<1>9. CASE Match
  BY <1>0, <1>1, <1>9, MatchCases, DescribeStep DEF NotFound
<1>10. CASE Fetch
  BY <1>1, <1>10 DEF Fetch, Die, NotFound
<1>q. QED BY <1>2, <1>3, <1>4, <1>6, <1>8, <1>9, <1>10 DEF DoTask

(* What was listed, described and run changes with the last task only.     *)
LEMMA ResultsNext ==
  ASSUME SearchSound, DoTask
  PROVE  /\ UNCHANGED listed \/ (listed' = listed \o shown /\ asked.op \in {"list", "all"} /\ left' = <<>>)
         /\ UNCHANGED described \/ (asked.op = "describe" /\ described' = shown /\ left' = <<>>)
         /\ UNCHANGED ran \/ asked.op = "execute"
<1>0. /\ left # <<>> /\ cat # Null
      /\ Head(left).do = "fetch" => asked.op = "execute"
      /\ asked.op \in {"list", "all", "describe", "execute"}
      /\ Head(left) \in ToSet(left)
  BY DoTaskFrame, TaskOf
<1>1. CASE PrintDocument
  <2>1. asked.op # "execute"
    BY <1>0, <1>1 DEF PrintDocument, Task, SearchSound, Order
  <2>q. QED BY <1>0, <1>1, <2>1 DEF PrintDocument
<1>2. CASE Fetch
  BY <1>0, <1>2 DEF Fetch, Task
<1>q. QED BY <1>1, <1>2 DEF DoTask, MakeRegistry, ReadImport, OpenDirectory, ReadEntry, QueryRows, ReadRow,
                              EndOfList, Lookup, Match, sessionVars

(* The tasks that are left are still those of the request.                 *)
LEMMA TasksOfRequest ==
  ASSUME SearchSound, DoTask
  PROVE  /\ IsSeq(left')
         /\ asked.op = "describe" => \A t \in ToSet(left') :
              /\ t.do \in {"registry", "lookup", "match", "document"}
              /\ t.do = "match" => t = Matching(t.last, t.hit, t.entries)
         /\ asked.op = "execute" => \A t \in ToSet(left') : t.do \in {"registry", "fetch"}
<1>1. /\ cat # Null /\ left # <<>> /\ IsSeq(left)
      /\ asked.op = "describe" => \A t \in ToSet(left) :
           /\ t.do \in {"registry", "lookup", "match", "document"}
           /\ t.do = "match" => t = Matching(t.last, t.hit, t.entries)
      /\ asked.op = "execute" => \A t \in ToSet(left) : t.do \in {"registry", "fetch"}
  BY DoTaskFrame DEF SearchSound, SearchTypes, Order
<1>2. IsSeq(Tail(left)) /\ ToSet(Tail(left)) \subseteq ToSet(left)
  BY <1>1, SeqFirst
<1>3. CASE left' = <<>>
  BY <1>3, SeqNone
<1>4. CASE left' = Tail(left)
  BY <1>1, <1>2, <1>4
<1>5. CASE left' = <<PrintOut>> /\ asked.op = "describe"
  <2>1. IsSeq(left') /\ ToSet(left') = {PrintOut}
    BY <1>5, SeqNone
  <2>2. PrintOut.do = "document"
    BY DEF PrintOut
  <2>q. QED BY <1>5, <2>1, <2>2
<1>6. ASSUME NEW t, left' = <<t>> \o Tail(left), MayFollow(t)
      PROVE  /\ IsSeq(left')
             /\ asked.op = "describe" => \A r \in ToSet(left') :
                  /\ r.do \in {"registry", "lookup", "match", "document"}
                  /\ r.do = "match" => r = Matching(r.last, r.hit, r.entries)
             /\ asked.op = "execute" => \A r \in ToSet(left') : r.do \in {"registry", "fetch"}
  <2>1. IsSeq(<<t>>) /\ ToSet(<<t>>) = {t}
    BY SeqNone
  <2>2. IsSeq(left') /\ ToSet(left') = {t} \union ToSet(Tail(left))
    BY <1>2, <1>6, <2>1, SeqJoin
  <2>q. QED BY <1>1, <1>2, <1>6, <2>2 DEF MayFollow
<1>q. QED BY <1>3, <1>4, <1>5, <1>6, TasksLeft

LEMMA TypesDo ==
  ASSUME SearchSound, DoTask
  PROVE  SearchTypes' /\ Order'
<1>1. /\ cat # Null /\ left # <<>> /\ UNCHANGED <<cat, gone, touched, asked>>
      /\ cat \in Catalogues /\ asked \in RequestType
      /\ asked.op \in {"list", "all", "describe", "execute"}
  BY DoTaskFrame, TaskOf
<1>2. Identifiers' = Identifiers
  BY <1>1, CatFrame
<1>3. /\ IsSeq(shown) /\ IsSeq(listed) /\ IsSeq(events) /\ gone \subseteq touched
      /\ cnt \in Nat /\ more \in BOOLEAN
  BY DEF SearchSound, SearchTypes
<1>4. IsSeq(shown')
  BY <1>3, ShownNext, SeqNone, SeqLast
<1>5. IsSeq(events')
  BY <1>3, EventsNext, SeqNone, SeqLast
<1>6. IsSeq(listed')
  BY <1>3, ResultsNext, SeqJoin
<1>7. cnt' \in Nat
  <2>1. cnt' = cnt \/ cnt' = cnt + 1
    BY CountNext
  <2>2. cnt \in Nat
    BY <1>3
  <2>q. QED BY <2>1, <2>2
<1>8. more' \in BOOLEAN /\ (asked.limit = NoLimit => more' = more)
  BY CountNext
<1>9. SearchTypes'
  <2>1. RequestType' = RequestType
    BY <1>2 DEF RequestType
  <2>2. (cat # Null => cat \in Catalogues)' /\ (cat # Null => asked \in RequestType)'
    BY <1>1, <2>1
  <2>3. (IsSeq(left) /\ IsSeq(shown) /\ IsSeq(listed) /\ IsSeq(events))'
    BY <1>4, <1>5, <1>6, TasksOfRequest DEF IsSeq
  <2>4. (gone \subseteq touched)'
    BY <1>1, <1>3
  <2>q. QED BY <2>2, <2>3, <2>4, <1>7, <1>8 DEF SearchTypes
<1>10. Order'
  <2>1. /\ (cat = Null => Closed)'
        /\ (asked.op = "none" => /\ asked = NoRequest /\ left = <<>> /\ shown = <<>> /\ listed = <<>>
                          /\ described = <<>> /\ ran = <<>> /\ touched = {} /\ ~more)'
    BY <1>1
  <2>2. /\ (asked.op # "none" => asked.protocol \in {"wps", "ogc"})'
        /\ (asked.op = "all" \/ asked.protocol = "wps" => asked.limit = NoLimit)'
        /\ (asked.op = "all" => asked.protocol = "wps")'
        /\ (asked.op # "list" => asked.limit = NoLimit)'
        /\ (asked.op \in {"describe", "execute"} => asked.id \in Identifiers)'
    BY <1>1, <1>2 DEF SearchSound, Order
  <2>3. (asked.limit = NoLimit => asked.skip = 0 /\ ~more)'
    BY <1>1, <1>8 DEF SearchSound, Order
  <2>4. /\ (asked.op \in {"list", "all"} => described = <<>> /\ ran = <<>>)'
        /\ (asked.op = "describe" => ran = <<>>)'
    BY <1>1, ResultsNext DEF SearchSound, Order
  <2>5. /\ (asked.op = "describe" => \A t \in ToSet(left) :
              /\ t.do \in {"registry", "lookup", "match", "document"}
              /\ t.do = "match" => t = Matching(t.last, t.hit, t.entries))'
        /\ (asked.op = "execute" => \A t \in ToSet(left) : t.do \in {"registry", "fetch"})'
    BY <1>1, TasksOfRequest
  <2>q. QED BY <2>1, <2>2, <2>3, <2>4, <2>5 DEF Order
<1>q. QED BY <1>9, <1>10

(* Requests.                                                               *)
Asking(op, protocol, id, skip, limit) ==
  [op |-> op, protocol |-> protocol, id |-> id, skip |-> skip, limit |-> limit]

LEMMA AskingIs ==
  ASSUME NEW w, w = [k \in {"op", "protocol", "id", "skip", "limit"} |-> w[k]]
  PROVE  w = Asking(w.op, w.protocol, w.id, w.skip, w.limit)
  BY DEF Asking

LEMMA AskingOf ==
  /\ \A op, protocol, id, skip, limit :
       LET r == Asking(op, protocol, id, skip, limit)
       IN  r.op = op /\ r.protocol = protocol /\ r.id = id /\ r.skip = skip /\ r.limit = limit
  /\ \A r \in RequestType : r = Asking(r.op, r.protocol, r.id, r.skip, r.limit)
<1>1. ASSUME NEW r \in RequestType PROVE r = Asking(r.op, r.protocol, r.id, r.skip, r.limit)
  <2>1. r = [k \in {"op", "protocol", "id", "skip", "limit"} |-> r[k]]
    BY DEF RequestType
  <2>q. QED BY <2>1, AskingIs
<1>q. QED BY <1>1 DEF Asking

LEMMA AskingFirst ==
  ASSUME NEW op, NEW protocol
  PROVE  [NoRequest EXCEPT !.op = op, !.protocol = protocol] = Asking(op, protocol, <<>>, 0, NoLimit)
<1>1. PICK w : w = [NoRequest EXCEPT !.op = op, !.protocol = protocol]
  OBVIOUS
<1>2. /\ w = [k \in {"op", "protocol", "id", "skip", "limit"} |-> w[k]]
      /\ w.op = op /\ w.protocol = protocol /\ w.id = <<>> /\ w.skip = 0 /\ w.limit = NoLimit
  BY <1>1 DEF NoRequest
<1>q. QED BY <1>1, <1>2, AskingIs

LEMMA AskingFor ==
  ASSUME NEW op, NEW protocol, NEW id
  PROVE  [NoRequest EXCEPT !.op = op, !.protocol = protocol, !.id = id] = Asking(op, protocol, id, 0, NoLimit)
<1>1. PICK w : w = [NoRequest EXCEPT !.op = op, !.protocol = protocol, !.id = id]
  OBVIOUS
<1>2. /\ w = [k \in {"op", "protocol", "id", "skip", "limit"} |-> w[k]]
      /\ w.op = op /\ w.protocol = protocol /\ w.id = id /\ w.skip = 0 /\ w.limit = NoLimit
  BY <1>1 DEF NoRequest
<1>q. QED BY <1>1, <1>2, AskingIs

LEMMA AskingPage ==
  ASSUME NEW skip, NEW limit
  PROVE  [NoRequest EXCEPT !.op = "list", !.protocol = "ogc", !.skip = skip, !.limit = limit]
           = Asking("list", "ogc", <<>>, skip, limit)
<1>1. PICK w : w = [NoRequest EXCEPT !.op = "list", !.protocol = "ogc", !.skip = skip, !.limit = limit]
  OBVIOUS
<1>2. /\ w = [k \in {"op", "protocol", "id", "skip", "limit"} |-> w[k]]
      /\ w.op = "list" /\ w.protocol = "ogc" /\ w.id = <<>> /\ w.skip = skip /\ w.limit = limit
  BY <1>1 DEF NoRequest
<1>3. w = Asking("list", "ogc", <<>>, skip, limit)
  BY <1>2, AskingIs
<1>q. QED BY <1>1, <1>3

LEMMA AskingAgain ==
  ASSUME NEW r \in RequestType, r.skip = 0, r.limit = NoLimit, NEW op
  PROVE  [r EXCEPT !.op = op] = Asking(op, r.protocol, r.id, 0, NoLimit)
<1>1. PICK w : w = [r EXCEPT !.op = op]
  OBVIOUS
<1>2. DOMAIN r = {"op", "protocol", "id", "skip", "limit"}
  BY DEF RequestType
<1>3. /\ w = [k \in {"op", "protocol", "id", "skip", "limit"} |-> w[k]]
      /\ w.op = op /\ w.protocol = r.protocol /\ w.id = r.id /\ w.skip = 0 /\ w.limit = NoLimit
  BY <1>1, <1>2
<1>q. QED BY <1>1, <1>3, AskingIs

(* What lists and searches begin with.                                     *)
ListTasks(op, protocol) ==
  IF protocol = "ogc" THEN RecursReaddirF("cwd") \o <<Query, PrintOut>>
  ELSE IF op = "list" THEN Imports \o RecursReaddirF(GetServicesNamespacePath(ConfDir)) \o <<Query, PrintOut>>
  ELSE Imports \o << [do |-> "open", dir |-> GetServicesNamespacePath(ConfDir), last |-> TRUE] >>
         \o <<Query, PrintOut>>

AsksList(request) ==
  \/ asked = NoRequest /\ request = Asking("list", "wps", <<>>, 0, NoLimit)
  \/ asked = NoRequest /\ request = Asking("all", "wps", <<>>, 0, NoLimit)
  \/ \E limit \in Limits : asked = NoRequest /\ request = Asking("list", "ogc", <<>>, 0, limit)
  \/ /\ asked.op = "list" /\ asked.protocol = "ogc" /\ asked.limit # NoLimit
     /\ more /\ events = <<"document">>
     /\ request = Asking("list", "ogc", <<>>, asked.skip + asked.limit, asked.limit)

AsksDescription(request) ==
  \E protocol \in {"wps", "ogc"}, id \in Identifiers :
    /\ ~more /\ (asked = NoRequest \/ (asked.op = "list" /\ asked.protocol = protocol))
    /\ request = Asking("describe", protocol, id, 0, NoLimit)

AsksExecution(request) ==
  asked.op = "describe" /\ request = Asking("execute", asked.protocol, asked.id, 0, NoLimit)

Asks(request, tasks) ==
  \/ AsksList(request) /\ tasks = ListTasks(request.op, request.protocol)
  \/ AsksDescription(request) /\
       tasks = Searches("lookup", IF request.protocol = "wps" THEN GetServicesNamespacePath(ConfDir) ELSE ConfDir)
  \/ AsksExecution(request) /\ tasks = Searches("fetch", ConfDir)

LEMMA AsksWhat ==
  ASSUME SearchSound, AskNext
  PROVE  /\ cat # Null /\ left = <<>>
         /\ \E request, tasks :
              /\ Asks(request, tasks) /\ Serve(request, tasks)
              /\ UNCHANGED <<touched, listed, described, ran>>
<1>1. CASE GetCapabilities
  <2>. DEFINE r == Asking("list", "wps", <<>>, 0, NoLimit)
  <2>1. [NoRequest EXCEPT !.op = "list", !.protocol = "wps"] = r
    BY AskingFirst, Zenon
  <2>3. r.op = "list" /\ r.protocol = "wps"
    BY AskingOf
  <2>2. AsksList(r)
    BY <1>1 DEF GetCapabilities, AsksList
  <2>. HIDE DEF r
  <2>q. QED BY <1>1, <2>1, <2>2, <2>3 DEF GetCapabilities, Ready0, Asks, ListTasks
<1>2. CASE DescribeAll
  <2>. DEFINE r == Asking("all", "wps", <<>>, 0, NoLimit)
  <2>1. [NoRequest EXCEPT !.op = "all", !.protocol = "wps"] = r
    BY AskingFirst, Zenon
  <2>3. r.op = "all" /\ r.protocol = "wps"
    BY AskingOf
  <2>2. AsksList(r)
    BY <1>2 DEF DescribeAll, AsksList
  <2>. HIDE DEF r
  <2>q. QED BY <1>2, <2>1, <2>2, <2>3 DEF DescribeAll, Ready0, Asks, ListTasks
<1>3. CASE FirstPage
  <2>1. PICK limit \in Limits : asked = NoRequest /\ ListProcesses(0, limit)
    BY <1>3 DEF FirstPage
  <2>. DEFINE r == Asking("list", "ogc", <<>>, 0, limit)
  <2>2. [NoRequest EXCEPT !.op = "list", !.protocol = "ogc", !.skip = 0, !.limit = limit] = r
    BY AskingPage, Zenon
  <2>4. r.op = "list" /\ r.protocol = "ogc"
    BY AskingOf
  <2>3. AsksList(r)
    BY <2>1 DEF AsksList
  <2>. HIDE DEF r
  <2>q. QED BY <2>1, <2>2, <2>3, <2>4 DEF ListProcesses, Ready0, Asks, ListTasks
<1>4. CASE NextPage
  <2>1. asked.op = "list" /\ more /\ events = <<"document">> /\ ListProcesses(asked.skip + asked.limit, asked.limit)
    BY <1>4 DEF NextPage
  <2>2. asked.protocol = "ogc" /\ asked.limit # NoLimit
    BY <2>1 DEF SearchSound, Order
  <2>. DEFINE r == Asking("list", "ogc", <<>>, asked.skip + asked.limit, asked.limit)
  <2>3. [NoRequest EXCEPT !.op = "list", !.protocol = "ogc", !.skip = asked.skip + asked.limit,
                          !.limit = asked.limit] = r
    BY AskingPage, Zenon
  <2>5. r.op = "list" /\ r.protocol = "ogc"
    BY AskingOf
  <2>4. AsksList(r)
    BY <2>1, <2>2 DEF AsksList
  <2>. HIDE DEF r
  <2>q. QED BY <2>1, <2>3, <2>4, <2>5 DEF ListProcesses, Ready0, Asks, ListTasks
<1>5. ASSUME NEW protocol \in {"wps", "ogc"}, NEW id \in Identifiers, cat # Null, Describe(protocol, id)
      PROVE  /\ cat # Null /\ left = <<>>
             /\ \E request, tasks :
                  /\ Asks(request, tasks) /\ Serve(request, tasks)
                  /\ UNCHANGED <<touched, listed, described, ran>>
  <2>. DEFINE r == Asking("describe", protocol, id, 0, NoLimit)
  <2>1. [NoRequest EXCEPT !.op = "describe", !.protocol = protocol, !.id = id] = r
    BY AskingFor, Zenon
  <2>3. r.protocol = protocol
    BY AskingOf
  <2>2. AsksDescription(r)
    BY <1>5 DEF Describe, AsksDescription
  <2>. HIDE DEF r
  <2>q. QED BY <1>5, <2>1, <2>2, <2>3 DEF Describe, Ready0, Asks
<1>6. CASE Execute
  <2>1. cat # Null /\ left = <<>> /\ asked.op = "describe" /\ asked \in RequestType
    BY <1>6 DEF Execute, Ready0, SearchSound, SearchTypes
  <2>2. asked.limit = NoLimit /\ asked.skip = 0
    BY <2>1 DEF SearchSound, Order
  <2>. DEFINE r == Asking("execute", asked.protocol, asked.id, 0, NoLimit)
  <2>4. [asked EXCEPT !.op = "execute"] = r
    BY <2>1, <2>2, AskingAgain, Zenon
  <2>5. AsksExecution(r)
    BY <2>1 DEF AsksExecution
  <2>. HIDE DEF r
  <2>q. QED BY <1>6, <2>1, <2>4, <2>5 DEF Execute, Asks
<1>q. QED BY <1>1, <1>2, <1>3, <1>4, <1>5, <1>6 DEF AskNext

LEMMA SeqPair == \A a, b : IsSeq(<<a, b>>) /\ ToSet(<<a, b>>) = {a, b} /\ <<a, b>> = <<a>> \o <<b>>
<1>1. ASSUME NEW a, NEW b PROVE IsSeq(<<a, b>>) /\ ToSet(<<a, b>>) = {a, b} /\ <<a, b>> = <<a>> \o <<b>>
  <2>. DEFINE T == {a, b}
  <2>1. a \in T /\ b \in T
    OBVIOUS
  <2>. HIDE DEF T
  <2>2. <<a, b>> \in Seq(T) /\ <<a>> \in Seq(T) /\ <<b>> \in Seq(T)
    BY <2>1
  <2>3. DOMAIN <<a, b>> = {1, 2} /\ <<a, b>>[1] = a /\ <<a, b>>[2] = b
    OBVIOUS
  <2>4. <<a, b>> = <<a>> \o <<b>>
    <3>1. PICK s \in Seq(T), r \in Seq(T) : s = <<a>> /\ r = <<b>>
      BY <2>2
    <3>2. Len(s \o r) = 2 /\ (s \o r)[1] = a /\ (s \o r)[2] = b /\ s \o r \in Seq(T)
      BY <3>1
    <3>3. s \o r = [i \in 1 .. 2 |-> IF i = 1 THEN a ELSE b]
      <4>1. PICK u \in Seq(T) : u = s \o r /\ Len(u) = 2 /\ u[1] = a /\ u[2] = b
        BY <3>2
      <4>2. u = [i \in 1 .. 2 |-> u[i]]
        <5>1. u \in [1 .. Len(u) -> T]
          OBVIOUS
        <5>2. u \in [1 .. 2 -> T]
          BY <4>1, <5>1
        <5>q. QED BY <5>2
      <4>3. \A i \in 1 .. 2 : u[i] = IF i = 1 THEN a ELSE b
        BY <4>1
      <4>q. QED BY <4>1, <4>2, <4>3
    <3>4. <<a, b>> = [i \in 1 .. 2 |-> IF i = 1 THEN a ELSE b]
      OBVIOUS
    <3>q. QED BY <3>1, <3>3, <3>4
  <2>5. ToSet(<<a, b>>) = {a, b}
    <3>1. PICK s : s = <<a, b>>
      OBVIOUS
    <3>q. QED BY <2>3, <3>1 DEF ToSet
  <2>q. QED BY <2>2, <2>4, <2>5, SeqIs
<1>q. QED BY <1>1

LEMMA TasksAre ==
  ASSUME cat \in Catalogues
  PROVE  /\ \A op, protocol : IsSeq(ListTasks(op, protocol))
         /\ \A do, dir : IsSeq(Searches(do, dir)) /\ \A t \in ToSet(Searches(do, dir)) : t.do = do
<1>1. IsSeq(Imports)
  BY ImportsOf, SeqIs
<1>2. ASSUME NEW dir PROVE IsSeq(RecursReaddirF(dir))
  <2>1. \A s, r : IsSeq(s) /\ IsSeq(r) => IsSeq(s \o r)
    BY SeqJoin
  <2>q. QED BY <2>1, SeqNone DEF RecursReaddirF
<1>3. \A a, b : IsSeq(a) /\ IsSeq(b) => IsSeq(a \o b)
  BY SeqJoin
<1>4. ASSUME NEW op, NEW protocol PROVE IsSeq(ListTasks(op, protocol))
  BY <1>1, <1>2, <1>3, SeqPair, SeqNone DEF ListTasks
<1>5. ASSUME NEW do, NEW dir PROVE IsSeq(Searches(do, dir)) /\ \A t \in ToSet(Searches(do, dir)) : t.do = do
  BY SeqPair, SeqNone DEF Searches
<1>q. QED BY <1>4, <1>5

LEMMA AskingType ==
  ASSUME NEW op \in {"list", "all", "describe", "execute"}, NEW protocol \in {"wps", "ogc"},
         NEW id \in Identifiers \union {<<>>}, NEW skip \in Nat, NEW limit \in (Nat \ {0}) \union {NoLimit}
  PROVE  Asking(op, protocol, id, skip, limit) \in RequestType
  BY DEF Asking, RequestType

(* What a request is like.                                                 *)
LEMMA AsksProper ==
  ASSUME SearchSound, cat # Null, NEW request, NEW tasks, Asks(request, tasks)
  PROVE  /\ request \in RequestType /\ IsSeq(tasks)
         /\ request.op \in {"list", "all", "describe", "execute"} /\ request.protocol \in {"wps", "ogc"}
         /\ request.op = "all" \/ request.protocol = "wps" => request.limit = NoLimit
         /\ request.op = "all" => request.protocol = "wps"
         /\ request.limit = NoLimit => request.skip = 0
         /\ request.op # "list" => request.limit = NoLimit
         /\ request.op \in {"list", "all"} => AsksList(request) /\ tasks = ListTasks(request.op, request.protocol)
         /\ request.op = "describe" => AsksDescription(request) /\ request.id \in Identifiers
         /\ request.op = "execute" => AsksExecution(request) /\ request.id \in Identifiers
         /\ request.op \in {"list", "all"} => described = <<>> /\ ran = <<>>
         /\ request.op = "describe" => ran = <<>> /\ \A t \in ToSet(tasks) : t.do = "lookup"
         /\ request.op = "execute" => \A t \in ToSet(tasks) : t.do = "fetch"
<1>1. cat \in Catalogues /\ asked \in RequestType
  BY DEF SearchSound, SearchTypes
<1>2. IsSeq(tasks)
  BY <1>1, TasksAre DEF Asks
<1>3. asked = NoRequest => asked.op = "none"
  BY DEF NoRequest
<1>4. CASE AsksList(request) /\ tasks = ListTasks(request.op, request.protocol)
  <2>1. described = <<>> /\ ran = <<>>
    BY <1>3, <1>4 DEF AsksList, SearchSound, Order
  <2>2. PICK op \in {"list", "all"}, protocol \in {"wps", "ogc"}, skip \in Nat, limit \in (Nat \ {0}) \union {NoLimit} :
          /\ request = Asking(op, protocol, <<>>, skip, limit)
          /\ op = "all" \/ protocol = "wps" => limit = NoLimit
          /\ op = "all" => protocol = "wps"
          /\ limit = NoLimit => skip = 0
    <3>1. CASE asked = NoRequest /\ request \in {Asking("list", "wps", <<>>, 0, NoLimit), Asking("all", "wps", <<>>, 0, NoLimit)}
      <4>1. 0 \in Nat /\ NoLimit \in (Nat \ {0}) \union {NoLimit}
        OBVIOUS
      <4>q. QED BY <3>1, <4>1
    <3>2. ASSUME NEW limit \in Limits, request = Asking("list", "ogc", <<>>, 0, limit)
          PROVE  \E op \in {"list", "all"}, protocol \in {"wps", "ogc"}, skip \in Nat, l \in (Nat \ {0}) \union {NoLimit} :
                   /\ request = Asking(op, protocol, <<>>, skip, l)
                   /\ op = "all" \/ protocol = "wps" => l = NoLimit
                   /\ op = "all" => protocol = "wps"
                   /\ l = NoLimit => skip = 0
      <4>1. 0 \in Nat /\ limit \in (Nat \ {0}) \union {NoLimit}
        BY CatalogueAssumption
      <4>q. QED BY <3>2, <4>1
    <3>3. CASE /\ asked.limit # NoLimit
               /\ request = Asking("list", "ogc", <<>>, asked.skip + asked.limit, asked.limit)
      <4>1. asked.skip \in Nat /\ asked.limit \in Nat \ {0}
        BY <1>1, <3>3 DEF RequestType
      <4>2. asked.skip + asked.limit \in Nat
        BY <4>1
      <4>. DEFINE sum == asked.skip + asked.limit
      <4>3. sum \in Nat /\ request = Asking("list", "ogc", <<>>, sum, asked.limit)
        BY <3>3, <4>2
      <4>. HIDE DEF sum
      <4>q. QED BY <3>3, <4>1, <4>3
    <3>q. QED BY <1>4, <3>1, <3>2, <3>3 DEF AsksList
  <2>3. /\ request.op = op /\ request.protocol = protocol /\ request.skip = skip /\ request.limit = limit
        /\ request \in RequestType
    BY <2>2, AskingOf, AskingType
  <2>q. QED BY <1>2, <1>4, <2>1, <2>2, <2>3
<1>5. CASE AsksDescription(request) /\
             tasks = Searches("lookup", IF request.protocol = "wps" THEN GetServicesNamespacePath(ConfDir) ELSE ConfDir)
  <2>1. PICK protocol \in {"wps", "ogc"}, id \in Identifiers :
          /\ asked = NoRequest \/ asked.op = "list"
          /\ request = Asking("describe", protocol, id, 0, NoLimit)
    BY <1>5 DEF AsksDescription
  <2>2. ran = <<>>
    BY <1>3, <2>1 DEF SearchSound, Order
  <2>3. /\ request.op = "describe" /\ request.protocol = protocol /\ request.skip = 0 /\ request.limit = NoLimit
        /\ request.id = id
    BY <2>1, AskingOf
  <2>4. request \in RequestType
    <3>1. 0 \in Nat /\ NoLimit \in (Nat \ {0}) \union {NoLimit}
      OBVIOUS
    <3>q. QED BY <2>1, <3>1, AskingType
  <2>5. \A t \in ToSet(tasks) : t.do = "lookup"
    BY <1>1, <1>5, TasksAre
  <2>q. QED BY <1>2, <1>5, <2>1, <2>2, <2>3, <2>4, <2>5
<1>6. CASE AsksExecution(request) /\ tasks = Searches("fetch", ConfDir)
  <2>1. asked.op = "describe" /\ request = Asking("execute", asked.protocol, asked.id, 0, NoLimit)
    BY <1>6 DEF AsksExecution
  <2>2. asked.protocol \in {"wps", "ogc"} /\ asked.id \in Identifiers
    BY <2>1 DEF SearchSound, Order
  <2>3. /\ request.op = "execute" /\ request.protocol = asked.protocol
        /\ request.skip = 0 /\ request.limit = NoLimit /\ request.id = asked.id
    BY <2>1, AskingOf
  <2>4. request \in RequestType
    <3>1. 0 \in Nat /\ NoLimit \in (Nat \ {0}) \union {NoLimit}
      OBVIOUS
    <3>q. QED BY <2>1, <2>2, <3>1, AskingType
  <2>5. \A t \in ToSet(tasks) : t.do = "fetch"
    BY <1>1, <1>6, TasksAre
  <2>q. QED BY <1>2, <1>6, <2>1, <2>2, <2>3, <2>4, <2>5
<1>q. QED BY <1>4, <1>5, <1>6 DEF Asks

LEMMA TypesAsk ==
  ASSUME SearchSound, AskNext
  PROVE  SearchTypes' /\ Order'
<1>1. PICK request, tasks :
        /\ cat # Null /\ Asks(request, tasks) /\ Serve(request, tasks)
        /\ UNCHANGED <<touched, listed, described, ran>>
  BY AsksWhat
<1>2. /\ asked' = request /\ left' = <<[do |-> "registry"]>> \o tasks
      /\ shown' = <<>> /\ cnt' = 0 /\ more' = FALSE /\ events' = <<>>
      /\ UNCHANGED <<cat, gone, touched, listed, described, ran>>
  BY <1>1 DEF Serve
<1>3. /\ cat \in Catalogues /\ IsSeq(listed) /\ gone \subseteq touched
  BY <1>1 DEF SearchSound, SearchTypes
<1>4. Identifiers' = Identifiers
  BY <1>2, CatFrame
<1>5. IsSeq(left') /\ ToSet(left') = {[do |-> "registry"]} \union ToSet(tasks)
  <2>1. IsSeq(tasks) /\ IsSeq(<<[do |-> "registry"]>>) /\ ToSet(<<[do |-> "registry"]>>) = {[do |-> "registry"]}
    BY <1>1, AsksProper, SeqNone
  <2>q. QED BY <1>2, <2>1, SeqJoin
<1>6. request \in RequestType
  BY <1>1, AsksProper
<1>7. SearchTypes'
  <2>1. RequestType' = RequestType
    BY <1>4 DEF RequestType
  <2>2. (cat # Null => cat \in Catalogues)' /\ (cat # Null => asked \in RequestType)'
    BY <1>2, <1>3, <1>6, <2>1
  <2>3. (IsSeq(left) /\ IsSeq(shown) /\ IsSeq(listed) /\ IsSeq(events))'
    BY <1>2, <1>3, <1>5, SeqNone DEF IsSeq
  <2>4. (gone \subseteq touched)'
    BY <1>2, <1>3
  <2>5. (cnt \in Nat)'
    BY <1>2
  <2>6. (more \in BOOLEAN)'
    BY <1>2
  <2>q. QED BY <2>2, <2>3, <2>4, <2>5, <2>6 DEF SearchTypes
<1>8. Order'
  <2>1. /\ (cat = Null => Closed)'
        /\ (asked.op = "none" => /\ asked = NoRequest /\ left = <<>> /\ shown = <<>> /\ listed = <<>>
                          /\ described = <<>> /\ ran = <<>> /\ touched = {} /\ ~more)'
    BY <1>1, <1>2, AsksProper
  <2>2. /\ (asked.op # "none" => asked.protocol \in {"wps", "ogc"})'
        /\ (asked.op = "all" \/ asked.protocol = "wps" => asked.limit = NoLimit)'
        /\ (asked.op = "all" => asked.protocol = "wps")'
        /\ (asked.op # "list" => asked.limit = NoLimit)'
        /\ (asked.op \in {"describe", "execute"} => asked.id \in Identifiers)'
    BY <1>1, <1>2, <1>4, AsksProper
  <2>3. (asked.limit = NoLimit => asked.skip = 0 /\ ~more)'
    BY <1>1, <1>2, AsksProper
  <2>4. /\ (asked.op \in {"list", "all"} => described = <<>> /\ ran = <<>>)'
        /\ (asked.op = "describe" => ran = <<>>)'
    BY <1>1, <1>2, AsksProper
  <2>5. /\ (asked.op = "describe" => \A t \in ToSet(left) :
              /\ t.do \in {"registry", "lookup", "match", "document"}
              /\ t.do = "match" => t = Matching(t.last, t.hit, t.entries))'
        /\ (asked.op = "execute" => \A t \in ToSet(left) : t.do \in {"registry", "fetch"})'
    <3>1. /\ request.op = "describe" => \A t \in ToSet(tasks) : t.do = "lookup"
          /\ request.op = "execute" => \A t \in ToSet(tasks) : t.do = "fetch"
      BY <1>1, AsksProper
    <3>2. \A t \in ToSet(left') : t.do = "registry" \/ t \in ToSet(tasks)
      BY <1>5
    <3>q. QED BY <1>2, <3>1, <3>2
  <2>q. QED BY <2>1, <2>2, <2>3, <2>4, <2>5 DEF Order
<1>q. QED BY <1>7, <1>8

-----------------------------------------------------------------------------
(* Lists in one answer.                                                    *)

ListsSound == SearchSound /\ OneAnswer

LEMMA NoDocument ==
  ASSUME NEW s, IsSeq(s), Append(s, "document") = <<"document">>
  PROVE  s = <<>>
<1>1. Append(s, "document") \in Seq(ToSet(s) \union {"document"}) /\ Len(Append(s, "document")) = Len(s) + 1 /\ Len(s) \in Nat
  BY DEF IsSeq
<1>2. Len(s) + 1 = 1
  BY <1>1
<1>3. Len(s) = 0
  BY <1>1, <1>2
<1>q. QED BY <1>3 DEF IsSeq

(* What is left when a list goes on.                                       *)
LEMMA LeftNext ==
  ASSUME ListCase, NEW new, GoesOn(new)
  PROVE  /\ left' # <<>> /\ Plan(left') /\ Head(left').do # "registry"
         /\ Offer(left') = new \union Offer(Tail(left))
<1>1. /\ Plan(Tail(left)) /\ Tail(left) # <<>> /\ Head(Tail(left)).do # "registry"
      /\ new \intersect Offer(Tail(left)) = {}
  BY FirstTask DEF GoesOn
<1>2. IsSeq(Tail(left))
  BY SeqFirst DEF ListCase
<1>3. CASE left' = Tail(left) /\ new = {}
  BY <1>1, <1>3
<1>4. ASSUME NEW t, left' = <<t>> \o Tail(left), Source(t), t.do \notin {"document", "registry"}, new = Of(t)
      PROVE  /\ left' # <<>> /\ Plan(left') /\ Head(left').do # "registry"
             /\ Offer(left') = new \union Offer(Tail(left))
  <2>1. left' # <<>> /\ Head(left') = t
    BY <1>2, <1>4, SeqBefore
  <2>2. Plan(<<t>> \o Tail(left)) /\ Offer(<<t>> \o Tail(left)) = Of(t) \union Offer(Tail(left))
    BY <1>1, <1>2, <1>4, PlanMore
  <2>q. QED BY <1>4, <2>1, <2>2
<1>q. QED BY <1>3, <1>4 DEF GoesOn

LEMMA ListInvDo ==
  ASSUME ListCase, OneAnswer, DoTask
  PROVE  ListInv' /\ OneAnswer'
<1>1. UNCHANGED <<cat, gone, touched, asked>> /\ left # <<>>
  BY DoTaskFrame
<1>2. /\ Listable' = Listable
      /\ \A tasks : Offer(tasks)' = Offer(tasks)
      /\ \A tasks : Plan(tasks)' <=> Plan(tasks)
  BY <1>1, TasksFrame
<1>3. /\ asked.op \in {"list", "all"} /\ IsSeq(shown) /\ IsSeq(listed) /\ IsSeq(events) /\ IsSeq(left)
      /\ ToSet(shown) \union ToSet(listed) \subseteq Listable
  BY DEF ListCase, ListInv
<1>4. ASSUME NEW new, GoesOn(new) PROVE ListInv' /\ OneAnswer'
  <2>1. /\ left' # <<>> /\ Plan(left') /\ Head(left').do # "registry"
        /\ Offer(left') = new \union Offer(Tail(left))
    BY <1>4, LeftNext
  <2>2. ToSet(shown') \subseteq ToSet(shown) \union Listable
    <3>1. UNCHANGED shown \/ \E s \in Listable : shown' = Append(shown, s)
      BY <1>4 DEF GoesOn
    <3>2. ASSUME NEW s \in Listable, shown' = Append(shown, s)
          PROVE  ToSet(shown') \subseteq ToSet(shown) \union Listable
      <4>1. ToSet(shown') = ToSet(shown) \union {s}
        BY <1>3, <3>2, SeqLast
      <4>q. QED BY <3>2, <4>1
    <3>q. QED BY <3>1, <3>2
  <2>3. ListInv'
    BY <1>2, <1>3, <1>4, <2>1, <2>2 DEF ListInv, GoesOn
  <2>4. ASSUME asked.limit = NoLimit
        PROVE  /\ listed' = <<>> /\ Alike(shown') /\ events' # <<"document">>
               /\ Offer(left') \intersect ToSet(shown') = {}
               /\ events' = <<>> => Listable \ touched \subseteq ToSet(shown') \union Offer(left')
    <3>1. /\ listed = <<>> /\ Alike(shown) /\ events # <<"document">>
          /\ Offer(left) \intersect ToSet(shown) = {}
          /\ events = <<>> => Listable \ touched \subseteq ToSet(shown) \union Offer(left)
      BY <1>1, <1>3, <2>4 DEF OneAnswer
    <3>2. /\ Offer(left) = Of(Head(left)) \union Offer(Tail(left))
          /\ Of(Head(left)) \intersect Offer(Tail(left)) = {}
          /\ new \subseteq Of(Head(left))
      BY <1>4, FirstTask DEF GoesOn
    <3>3. listed' = <<>>
      BY <1>4, <3>1 DEF GoesOn
    <3>4. events' # <<"document">> /\ (events' = <<>> => events = <<>>)
      BY <1>3, <1>4, <3>1, SaidMore DEF GoesOn
    <3>5. CASE /\ UNCHANGED shown
               /\ events' = <<>> => (Of(Head(left)) \intersect Listable) \ touched \subseteq new
      BY <2>1, <3>1, <3>2, <3>3, <3>4, <3>5
    <3>6. ASSUME NEW s \in (Of(Head(left)) \intersect Listable) \ new,
                 shown' = Append(shown, s), Of(Head(left)) \subseteq new \union {s}
          PROVE  /\ Alike(shown') /\ Offer(left') \intersect ToSet(shown') = {}
                 /\ events' = <<>> => Listable \ touched \subseteq ToSet(shown') \union Offer(left')
      <4>1. ToSet(shown') = ToSet(shown) \union {s} /\ s \notin ToSet(shown)
        BY <1>3, <3>1, <3>2, <3>6, SeqLast
      <4>2. Alike(shown')
        BY <1>3, <3>1, <3>6, <4>1, SeqLast
      <4>3. s \notin Offer(left')
        BY <2>1, <3>2, <3>6
      <4>4. Offer(left') \intersect ToSet(shown') = {}
        BY <2>1, <3>1, <3>2, <4>1, <4>3
      <4>5. events' = <<>> => Listable \ touched \subseteq ToSet(shown') \union Offer(left')
        BY <2>1, <3>1, <3>2, <3>4, <3>6, <4>1
      <4>q. QED BY <4>2, <4>4, <4>5
    <3>q. QED BY <1>4, <2>4, <3>3, <3>4, <3>5, <3>6 DEF GoesOn
  <2>5. OneAnswer'
    BY <1>1, <1>2, <2>1, <2>4 DEF OneAnswer
  <2>q. QED BY <2>3, <2>5
<1>5. CASE Stops
  <2>1. left' = <<>> /\ events' # <<"document">> /\ UNCHANGED <<shown, listed>>
    BY <1>5 DEF Stops
  <2>2. ListInv'
    BY <1>2, <1>3, <2>1, PlanNone DEF ListInv
  <2>3. OneAnswer'
    BY <2>1 DEF OneAnswer
  <2>q. QED BY <2>2, <2>3
<1>6. CASE Prints
  <2>1. /\ Head(left).do = "document" /\ left' = <<>> /\ listed' = listed \o shown
        /\ events' = Append(events, "document") /\ UNCHANGED shown
    BY <1>6 DEF Prints
  <2>2. ListInv'
    <3>1. ToSet(listed') = ToSet(listed) \union ToSet(shown)
      BY <1>3, <2>1, SeqJoin
    <3>q. QED BY <1>2, <1>3, <2>1, <3>1, PlanNone DEF ListInv
  <2>3. ASSUME asked.limit = NoLimit, events' = <<"document">>
        PROVE  Alike(listed') /\ Listable \ touched \subseteq ToSet(listed')
    <3>1. events = <<>>
      BY <1>3, <2>1, <2>3, NoDocument
    <3>2. /\ listed = <<>> /\ Alike(shown)
          /\ Listable \ touched \subseteq ToSet(shown) \union Offer(left)
      BY <1>1, <1>3, <2>3, <3>1 DEF OneAnswer
    <3>3. Offer(left) = {}
      <4>1. Offer(left) = Of(Head(left)) \union Offer(Tail(left)) /\ Tail(left) = <<>>
        BY <2>1, FirstTask
      <4>2. Of(Head(left)) = {}
        BY <2>1, OfTask
      <4>q. QED BY <4>1, <4>2, PlanNone
    <3>4. listed' = shown
      <4>1. shown \in Seq(ToSet(shown))
        BY <1>3 DEF IsSeq
      <4>2. <<>> \o shown = shown
        BY <4>1
      <4>q. QED BY <2>1, <3>2, <4>2
    <3>q. QED BY <3>2, <3>3, <3>4
  <2>4. OneAnswer'
    BY <1>1, <1>2, <2>1, <2>3 DEF OneAnswer
  <2>q. QED BY <2>2, <2>4
<1>q. QED BY <1>4, <1>5, <1>6, ListSteps

LEMMA OneAnswerDo ==
  ASSUME ListsSound, DoTask
  PROVE  ListInv' /\ OneAnswer'
<1>1. cat # Null /\ left # <<>> /\ UNCHANGED <<cat, gone, touched, asked>>
  BY DoTaskFrame
<1>2. CASE asked.op \in {"list", "all"}
  BY <1>1, <1>2, TaskOf, ListInvDo DEF ListsSound
<1>3. CASE asked.op \notin {"list", "all"}
  BY <1>1, <1>3 DEF ListInv, OneAnswer
<1>q. QED BY <1>2, <1>3

(* The tasks of a list.                                                    *)
LEMMA JoinIs ==
  ASSUME NEW a, IsSeq(a), NEW b, IsSeq(b)
  PROVE  /\ Len(a) \in Nat /\ Len(b) \in Nat /\ Len(a \o b) = Len(a) + Len(b)
         /\ \A n \in DOMAIN a : n \in DOMAIN (a \o b) /\ (a \o b)[n] = a[n] /\ n \in 1 .. Len(a)
         /\ \A n \in DOMAIN b : Len(a) + n \in DOMAIN (a \o b) /\ (a \o b)[Len(a) + n] = b[n] /\ n \in 1 .. Len(b)
         /\ \A n \in DOMAIN (a \o b) :
              \/ n \in DOMAIN a
              \/ \E k \in DOMAIN b : n = Len(a) + k
<1>. DEFINE T == ToSet(a) \union ToSet(b)
<1>1. a \in Seq(T) /\ b \in Seq(T)
  <2>1. a \in Seq(ToSet(a)) /\ b \in Seq(ToSet(b))
    BY DEF IsSeq
  <2>2. ToSet(a) \subseteq T /\ ToSet(b) \subseteq T
    OBVIOUS
  <2>. HIDE DEF T
  <2>q. QED BY <2>1, <2>2
<1>. HIDE DEF T
<1>2. PICK c : c = a \o b
  OBVIOUS
<1>3. /\ Len(a) \in Nat /\ Len(b) \in Nat /\ Len(c) = Len(a) + Len(b) /\ DOMAIN c = 1 .. Len(a) + Len(b)
      /\ DOMAIN a = 1 .. Len(a) /\ DOMAIN b = 1 .. Len(b)
      /\ \A n \in 1 .. Len(a) + Len(b) : c[n] = IF n <= Len(a) THEN a[n] ELSE b[n - Len(a)]
  BY <1>1, <1>2
<1>4. \A n \in DOMAIN a : n \in DOMAIN c /\ c[n] = a[n] /\ n \in 1 .. Len(a)
  BY <1>3
<1>5. \A n \in DOMAIN b : Len(a) + n \in DOMAIN c /\ c[Len(a) + n] = b[n] /\ n \in 1 .. Len(b)
  BY <1>3
<1>6. ASSUME NEW n \in DOMAIN c PROVE n \in DOMAIN a \/ \E k \in DOMAIN b : n = Len(a) + k
  <2>1. CASE n <= Len(a)
    BY <1>3, <2>1
  <2>2. CASE ~(n <= Len(a))
    <3>1. n - Len(a) \in DOMAIN b /\ n = Len(a) + (n - Len(a))
      BY <1>3, <2>2
    <3>q. QED BY <3>1
  <2>q. QED BY <2>1, <2>2
<1>q. QED BY <1>2, <1>3, <1>4, <1>5, <1>6

LEMMA PlanImports ==
  ASSUME cat \in Catalogues, asked.protocol = "wps",
         NEW b, IsSeq(b), b # <<>>, Plan(b), Head(b).do # "registry",
         \A n \in DOMAIN cat.imports : cat.imports[n] \notin Offer(b)
  PROVE  /\ Plan(Imports \o b) /\ IsSeq(Imports \o b) /\ Imports \o b # <<>> /\ Head(Imports \o b).do # "registry"
         /\ Offer(Imports \o b) = {cat.imports[n] : n \in DOMAIN cat.imports} \union Offer(b)
<1>1. PICK a : a = Imports
  OBVIOUS
<1>. DEFINE c == a \o b
<1>3. /\ IsSeq(a) /\ \A i \in DOMAIN a : a[i].do = "import" /\ a[i].of \in {cat.imports[n] : n \in DOMAIN cat.imports}
      /\ \A n \in DOMAIN cat.imports : \E i \in DOMAIN a : a[i].of = cat.imports[n]
      /\ \A i, k \in DOMAIN a : a[i].of = a[k].of => i = k
  <2>1. Imports \in Seq([do : {"import"}, of : Deployed])
    BY ImportsOf
  <2>2. \A i \in DOMAIN Imports : Imports[i].do = "import"
    <3>1. PICK S : S = [do : {"import"}, of : Deployed]
      OBVIOUS
    <3>2. \A t \in S : t.do = "import"
      BY <3>1
    <3>3. a \in Seq(S)
      BY <1>1, <2>1, <3>1
    <3>4. \A i \in DOMAIN a : a[i] \in S
      BY <3>3
    <3>q. QED BY <1>1, <3>2, <3>4
  <2>q. QED BY <1>1, <2>1, <2>2, ImportsOf, SeqIs
<1>4. /\ Len(a) \in Nat /\ Len(b) \in Nat /\ Len(c) = Len(a) + Len(b)
      /\ \A n \in DOMAIN a : n \in DOMAIN c /\ c[n] = a[n] /\ n \in 1 .. Len(a)
      /\ \A n \in DOMAIN b : Len(a) + n \in DOMAIN c /\ c[Len(a) + n] = b[n] /\ n \in 1 .. Len(b)
      /\ \A n \in DOMAIN c : n \in DOMAIN a \/ \E k \in DOMAIN b : n = Len(a) + k
  <2>1. IsSeq(a) /\ IsSeq(b)
    BY <1>3
  <2>2. Len(a) \in Nat /\ Len(b) \in Nat /\ Len(c) = Len(a) + Len(b)
    BY <2>1, JoinIs
  <2>3. \A n \in DOMAIN a : n \in DOMAIN c /\ c[n] = a[n] /\ n \in 1 .. Len(a)
    BY <2>1, JoinIs
  <2>4. \A n \in DOMAIN b : Len(a) + n \in DOMAIN c /\ c[Len(a) + n] = b[n] /\ n \in 1 .. Len(b)
    BY <2>1, JoinIs
  <2>5. \A n \in DOMAIN c : n \in DOMAIN a \/ \E k \in DOMAIN b : n = Len(a) + k
    BY <2>1, JoinIs
  <2>q. QED BY <2>2, <2>3, <2>4, <2>5
<1>5. IsSeq(c)
  BY <1>3, SeqJoin
<1>. HIDE DEF c
<1>6. \A i \in DOMAIN a : Of(a[i]) = {a[i].of} /\ Source(a[i])
  BY <1>3, OfTask DEF Source
<1>7. Len(b) >= 1 /\ 1 \in DOMAIN b /\ Head(b) = b[1]
  BY <1>4 DEF IsSeq
<1>8. \A k \in DOMAIN b : b[k].do # "registry" /\ Source(b[k]) /\ (b[k].do = "document" <=> k = Len(b))
  BY <1>7 DEF Plan
<1>9. ASSUME NEW n \in DOMAIN c
      PROVE  /\ Source(c[n]) /\ (c[n].do = "document" <=> n = Len(c)) /\ c[n].do # "registry"
  <2>1. CASE n \in DOMAIN a
    <3>1. n # Len(c)
      BY <1>4, <1>7, <2>1
    <3>q. QED BY <1>3, <1>4, <1>6, <2>1, <3>1
  <2>2. ASSUME NEW k \in DOMAIN b, n = Len(a) + k
        PROVE  /\ Source(c[n]) /\ (c[n].do = "document" <=> n = Len(c)) /\ c[n].do # "registry"
    <3>1. k = Len(b) <=> n = Len(c)
      <4>1. k \in Nat /\ Len(a) \in Nat /\ Len(b) \in Nat /\ Len(c) = Len(a) + Len(b)
        BY <1>4
      <4>q. QED BY <2>2, <4>1
    <3>2. c[n] = b[k]
      <4>1. \A i \in DOMAIN b : c[Len(a) + i] = b[i]
        BY <1>4
      <4>q. QED BY <2>2, <4>1
    <3>q. QED BY <1>8, <3>1, <3>2
  <2>q. QED BY <1>4, <2>1, <2>2
<1>10. \A k \in DOMAIN b : Of(b[k]) \subseteq Offer(b)
  BY DEF Offer
<1>11. ASSUME NEW m \in DOMAIN c, NEW n \in DOMAIN c, m # n
       PROVE  Of(c[m]) \intersect Of(c[n]) = {}
  <2>1. \A i \in DOMAIN a : \A k \in DOMAIN b : Of(a[i]) \intersect Of(b[k]) = {}
    BY <1>3, <1>6, <1>10
  <2>2. CASE m \in DOMAIN a /\ n \in DOMAIN a
    BY <1>3, <1>4, <1>6, <1>11, <2>2
  <2>3. ASSUME m \in DOMAIN a, NEW k \in DOMAIN b, n = Len(a) + k
        PROVE  Of(c[m]) \intersect Of(c[n]) = {}
    BY <1>4, <2>1, <2>3
  <2>4. ASSUME n \in DOMAIN a, NEW k \in DOMAIN b, m = Len(a) + k
        PROVE  Of(c[m]) \intersect Of(c[n]) = {}
    BY <1>4, <2>1, <2>4
  <2>5. ASSUME NEW i \in DOMAIN b, m = Len(a) + i, NEW k \in DOMAIN b, n = Len(a) + k
        PROVE  Of(c[m]) \intersect Of(c[n]) = {}
    <3>1. i # k
      BY <1>11, <2>5
    <3>2. c[m] = b[i] /\ c[n] = b[k]
      BY <1>4, <2>5
    <3>q. QED BY <3>1, <3>2 DEF Plan
  <2>q. QED BY <1>4, <2>2, <2>3, <2>4, <2>5
<1>12. Plan(c)
  BY <1>9, <1>11 DEF Plan
<1>13. Offer(c) = {cat.imports[n] : n \in DOMAIN cat.imports} \union Offer(b)
  <2>1. \A n \in DOMAIN c : Of(c[n]) \subseteq {cat.imports[k] : k \in DOMAIN cat.imports} \union Offer(b)
    <3>1. SUFFICES ASSUME NEW n \in DOMAIN c
                   PROVE  Of(c[n]) \subseteq {cat.imports[k] : k \in DOMAIN cat.imports} \union Offer(b)
      OBVIOUS
    <3>2. CASE n \in DOMAIN a
      BY <1>3, <1>4, <1>6, <3>2
    <3>3. ASSUME NEW k \in DOMAIN b, n = Len(a) + k
          PROVE  Of(c[n]) \subseteq {cat.imports[i] : i \in DOMAIN cat.imports} \union Offer(b)
      BY <1>4, <1>10, <3>3
    <3>q. QED BY <1>4, <3>2, <3>3
  <2>2. \A n \in DOMAIN cat.imports : cat.imports[n] \in Offer(c)
    <3>1. SUFFICES ASSUME NEW n \in DOMAIN cat.imports PROVE cat.imports[n] \in Offer(c)
      OBVIOUS
    <3>2. PICK i \in DOMAIN a : a[i].of = cat.imports[n]
      BY <1>3
    <3>3. i \in DOMAIN c /\ cat.imports[n] \in Of(c[i])
      BY <1>4, <1>6, <3>2
    <3>q. QED BY <3>3 DEF Offer
  <2>3. \A k \in DOMAIN b : Of(b[k]) \subseteq Offer(c)
    <3>1. SUFFICES ASSUME NEW k \in DOMAIN b PROVE Of(b[k]) \subseteq Offer(c)
      OBVIOUS
    <3>. DEFINE n == Len(a) + k
    <3>2. n \in DOMAIN c /\ c[n] = b[k]
      BY <1>4
    <3>. HIDE DEF n
    <3>q. QED BY <3>2 DEF Offer
  <2>4. Offer(b) \subseteq Offer(c)
    BY <2>3 DEF Offer
  <2>5. Offer(c) \subseteq {cat.imports[k] : k \in DOMAIN cat.imports} \union Offer(b)
    BY <2>1 DEF Offer
  <2>q. QED BY <2>2, <2>4, <2>5
<1>14. c # <<>> /\ Head(c).do # "registry"
  <2>1. Len(c) # 0 /\ 1 \in DOMAIN c /\ Head(c) = c[1]
    BY <1>4, <1>5, <1>7 DEF IsSeq
  <2>q. QED BY <1>9, <2>1
<1>q. QED BY <1>1, <1>5, <1>12, <1>13, <1>14 DEF c

FilesOf(dir) == {s \in ToSet(In(dir)) : ~IsImport(s)}
OpenTask(dir, last) == [do |-> "open", dir |-> dir, last |-> last]
Begins(tasks) == IsSeq(tasks) /\ tasks # <<>> /\ Plan(tasks) /\ Head(tasks).do # "registry"

LEMMA TaskBefore ==
  ASSUME NEW tasks, Begins(tasks), NEW t, Source(t), t.do \notin {"document", "registry"},
         Of(t) \intersect Offer(tasks) = {}
  PROVE  Begins(<<t>> \o tasks) /\ Offer(<<t>> \o tasks) = Of(t) \union Offer(tasks)
<1>1. IsSeq(<<t>> \o tasks) /\ <<t>> \o tasks # <<>> /\ Head(<<t>> \o tasks) = t
  BY SeqBefore DEF Begins
<1>2. Plan(<<t>> \o tasks) /\ Offer(<<t>> \o tasks) = Of(t) \union Offer(tasks)
  BY PlanMore DEF Begins
<1>q. QED BY <1>1, <1>2 DEF Begins

LEMMA OpenBefore ==
  ASSUME cat \in Catalogues, NEW dir \in DirsWalked, NEW last, NEW tasks, Begins(tasks),
         \A s \in Offer(tasks) : s[1] # dir
  PROVE  /\ Begins(<<OpenTask(dir, last)>> \o tasks)
         /\ Offer(<<OpenTask(dir, last)>> \o tasks) = FilesOf(dir) \union Offer(tasks)
         /\ \A s \in FilesOf(dir) : s[1] = dir
<1>1. PICK t : t = OpenTask(dir, last)
  OBVIOUS
<1>2. t.do = "open" /\ t.dir = dir
  BY <1>1 DEF OpenTask
<1>3. Source(t)
  BY <1>2 DEF Source
<1>4. Of(t) = FilesOf(dir)
  BY <1>2, OfTask DEF FilesOf
<1>5. \A s \in FilesOf(dir) : s[1] = dir
  BY DirsWalkedIn, InOf DEF FilesOf
<1>6. Of(t) \intersect Offer(tasks) = {}
  BY <1>4, <1>5
<1>q. QED BY <1>1, <1>2, <1>3, <1>4, <1>5, <1>6, TaskBefore

LEMMA PlanRows ==
  ASSUME cat \in Catalogues
  PROVE  Begins(<<Query, PrintOut>>) /\ Offer(<<Query, PrintOut>>) = ToSet(Rows)
<1>. DEFINE b == <<PrintOut>>
<1>1. PrintOut.do = "document" /\ Source(PrintOut) /\ Of(PrintOut) = {}
  BY OfTask DEF PrintOut, Source
<1>2. IsSeq(b) /\ b # <<>> /\ Head(b) = PrintOut /\ Len(b) = 1 /\ DOMAIN b = {1} /\ b[1] = PrintOut
  BY SeqNone
<1>. HIDE DEF b
<1>3. Begins(b)
  BY <1>1, <1>2 DEF Begins, Plan
<1>4. Offer(b) = {}
  BY <1>1, <1>2 DEF Offer
<1>5. Query.do = "query" /\ Source(Query) /\ Of(Query) = ToSet(Rows)
  BY OfTask DEF Query, Source
<1>6. Begins(<<Query>> \o b) /\ Offer(<<Query>> \o b) = Of(Query) \union Offer(b)
  BY <1>3, <1>4, <1>5, TaskBefore
<1>7. <<Query, PrintOut>> = <<Query>> \o b
  BY SeqPair DEF b
<1>q. QED BY <1>4, <1>5, <1>6, <1>7

LEMMA PlanDirectories ==
  ASSUME cat \in Catalogues, asked.op \in {"list", "all"}, asked.protocol \in {"wps", "ogc"},
         asked.op = "all" => asked.protocol = "wps",
         NEW dir, dir = (IF asked.protocol = "wps" THEN GetServicesNamespacePath(ConfDir) ELSE "cwd"),
         NEW b, b = (IF asked.op = "list" THEN RecursReaddirF(dir) ELSE << [do |-> "open", dir |-> dir, last |-> TRUE] >>)
                      \o <<Query, PrintOut>>
  PROVE  Begins(b) /\ Offer(b) = Walked \union ToSet(Rows)
<1>1. PICK e : e = <<Query, PrintOut>>
  OBVIOUS
<1>2. PICK ns : ns = GetServicesNamespacePath(dir)
  OBVIOUS
<1>3. Begins(e) /\ Offer(e) = ToSet(Rows) /\ \A s \in Offer(e) : s[1] = "db"
  BY <1>1, PlanRows, RowsOfCatalogue
<1>4. DirsWalked = {ns} \union (IF cat.searchPath /\ asked.op = "list" THEN {dir} ELSE {})
  BY <1>2 DEF DirsWalked
<1>5. \A d \in DirsWalked : d # "db"
  BY DirsWalkedIn, DirsOf
<1>6. Walked = UNION {FilesOf(d) : d \in DirsWalked}
  <2>1. Walked = {s \in UNION {ToSet(In(d)) : d \in DirsWalked} : ~IsImport(s)}
    BY DEF Walked, DirsWalked
  <2>q. QED BY <2>1 DEF FilesOf
<1>7. asked.op = "all" => ns = dir
  BY <1>2, DirsOf
<1>8. ASSUME NEW d \in DirsWalked, NEW last
      PROVE  Begins(<<OpenTask(d, last)>> \o e) /\ Offer(<<OpenTask(d, last)>> \o e) = FilesOf(d) \union ToSet(Rows)
  BY <1>3, <1>5, OpenBefore
<1>9. CASE asked.op = "all"
  <2>1. b = <<OpenTask(ns, TRUE)>> \o e
    BY <1>1, <1>7, <1>9 DEF OpenTask
  <2>2. Walked = FilesOf(ns)
    BY <1>4, <1>6, <1>9
  <2>q. QED BY <1>4, <1>8, <2>1, <2>2
<1>10. CASE asked.op = "list" /\ ~cat.searchPath
  <2>1. b = <<OpenTask(ns, TRUE)>> \o e
    BY <1>1, <1>2, <1>10 DEF OpenTask, RecursReaddirF
  <2>2. Walked = FilesOf(ns)
    BY <1>4, <1>6, <1>10
  <2>q. QED BY <1>4, <1>8, <2>1, <2>2
<1>11. CASE asked.op = "list" /\ cat.searchPath /\ ns = dir
  <2>1. RecursReaddirF(dir) = <<OpenTask(dir, FALSE)>> \o <<>>
    BY <1>2, <1>11 DEF RecursReaddirF, OpenTask
  <2>2. <<OpenTask(dir, FALSE)>> \o <<>> = <<OpenTask(dir, FALSE)>>
    OBVIOUS
  <2>3. b = <<OpenTask(ns, FALSE)>> \o e
    BY <1>1, <1>11, <2>1, <2>2
  <2>4. Walked = FilesOf(ns)
    BY <1>4, <1>6, <1>11
  <2>q. QED BY <1>4, <1>8, <2>3, <2>4
<1>12. CASE asked.op = "list" /\ cat.searchPath /\ ns # dir
  <2>1. RecursReaddirF(dir) = <<OpenTask(dir, FALSE)>> \o <<OpenTask(ns, TRUE)>>
    BY <1>2, <1>12 DEF RecursReaddirF, OpenTask
  <2>2. (<<OpenTask(dir, FALSE)>> \o <<OpenTask(ns, TRUE)>>) \o e
          = <<OpenTask(dir, FALSE)>> \o (<<OpenTask(ns, TRUE)>> \o e)
    <3>. DEFINE T == ToSet(e) \union {OpenTask(dir, FALSE), OpenTask(ns, TRUE)}
    <3>1. ToSet(e) \subseteq T /\ OpenTask(dir, FALSE) \in T /\ OpenTask(ns, TRUE) \in T
      OBVIOUS
    <3>2. e \in Seq(ToSet(e))
      BY <1>3 DEF Begins, IsSeq
    <3>. HIDE DEF T
    <3>4. e \in Seq(T)
      BY <3>1, <3>2
    <3>5. \A t \in T : <<t>> \in Seq(T)
      OBVIOUS
    <3>3. e \in Seq(T) /\ <<OpenTask(dir, FALSE)>> \in Seq(T) /\ <<OpenTask(ns, TRUE)>> \in Seq(T)
      BY <3>1, <3>4, <3>5
    <3>q. QED BY <3>3, ConcatAssociative
  <2>3. dir \in DirsWalked /\ ns \in DirsWalked
    BY <1>4, <1>12
  <2>4. /\ Begins(<<OpenTask(ns, TRUE)>> \o e)
        /\ Offer(<<OpenTask(ns, TRUE)>> \o e) = FilesOf(ns) \union ToSet(Rows)
    BY <1>8, <2>3
  <2>5. \A s \in FilesOf(ns) \union ToSet(Rows) : s[1] # dir
    BY <1>3, <1>5, <1>12, <2>3, InOf, DirsWalkedIn DEF FilesOf
  <2>6. PICK u : u = <<OpenTask(ns, TRUE)>> \o e
    OBVIOUS
  <2>7. /\ Begins(<<OpenTask(dir, FALSE)>> \o u)
        /\ Offer(<<OpenTask(dir, FALSE)>> \o u) = FilesOf(dir) \union Offer(u)
    <3>1. Begins(u) /\ \A s \in Offer(u) : s[1] # dir
      BY <2>4, <2>5, <2>6
    <3>q. QED BY <2>3, <3>1, OpenBefore
  <2>8. Walked = FilesOf(ns) \union FilesOf(dir)
    BY <1>4, <1>6, <1>12
  <2>q. QED BY <1>1, <1>12, <2>1, <2>2, <2>4, <2>6, <2>7, <2>8
<1>q. QED BY <1>9, <1>10, <1>11, <1>12

(* A list begins with all that it is about.                                *)
LEMMA ListStart ==
  ASSUME cat \in Catalogues, asked.op \in {"list", "all"}, asked.protocol \in {"wps", "ogc"},
         asked.op = "all" => asked.protocol = "wps",
         left = <<[do |-> "registry"]>> \o ListTasks(asked.op, asked.protocol)
  PROVE  Plan(left) /\ Listable \subseteq Offer(left)
<1>1. PICK dir : dir = (IF asked.protocol = "wps" THEN GetServicesNamespacePath(ConfDir) ELSE "cwd")
  OBVIOUS
<1>2. PICK r : r = IF asked.op = "list" THEN RecursReaddirF(dir) ELSE << [do |-> "open", dir |-> dir, last |-> TRUE] >>
  OBVIOUS
<1>3. PICK b : b = r \o <<Query, PrintOut>>
  OBVIOUS
<1>4. Begins(b) /\ Offer(b) = Walked \union ToSet(Rows)
  BY <1>1, <1>2, <1>3, PlanDirectories
<1>5. PICK tasks : tasks = ListTasks(asked.op, asked.protocol)
  OBVIOUS
<1>6. Begins(tasks) /\ Listable \subseteq Offer(tasks)
  <2>1. CASE asked.protocol = "ogc"
    <3>1. tasks = b
      BY <1>1, <1>2, <1>3, <1>5, <2>1 DEF ListTasks
    <3>2. Listable \subseteq Walked \union ToSet(Rows)
      BY <2>1 DEF Listable
    <3>q. QED BY <1>4, <3>1, <3>2
  <2>2. CASE asked.protocol = "wps"
    <3>1. tasks = (Imports \o r) \o <<Query, PrintOut>>
      BY <1>1, <1>2, <1>5, <2>2 DEF ListTasks
    <3>2. tasks = Imports \o b
      <4>. DEFINE T == ToSet(Imports) \union ToSet(r) \union ToSet(<<Query, PrintOut>>)
      <4>1. IsSeq(Imports) /\ IsSeq(<<Query, PrintOut>>)
        BY ImportsOf, SeqIs, SeqPair
      <4>2. IsSeq(r)
        <5>1. \A s, q : IsSeq(s) /\ IsSeq(q) => IsSeq(s \o q)
          BY SeqJoin
        <5>q. QED BY <1>2, <5>1, SeqNone DEF RecursReaddirF
      <4>3. ToSet(Imports) \subseteq T /\ ToSet(r) \subseteq T /\ ToSet(<<Query, PrintOut>>) \subseteq T
        OBVIOUS
      <4>. HIDE DEF T
      <4>4. Imports \in Seq(T)
        BY <4>1, <4>3 DEF IsSeq
      <4>5. r \in Seq(T)
        BY <4>2, <4>3 DEF IsSeq
      <4>6. <<Query, PrintOut>> \in Seq(T)
        BY <4>1, <4>3 DEF IsSeq
      <4>q. QED BY <1>3, <3>1, <4>4, <4>5, <4>6, ConcatAssociative
    <3>3. \A n \in DOMAIN cat.imports : cat.imports[n] \notin Offer(b)
      <4>1. SUFFICES ASSUME NEW n \in DOMAIN cat.imports PROVE cat.imports[n] \notin Walked \union ToSet(Rows)
        BY <1>4
      <4>2. IsImport(cat.imports[n]) /\ cat.imports[n][1] # "db"
        BY ImportOf
      <4>3. cat.imports[n] \notin Walked
        BY <4>2 DEF Walked
      <4>4. cat.imports[n] \notin ToSet(Rows)
        BY <4>2, RowsOfCatalogue
      <4>q. QED BY <4>3, <4>4
    <3>4. Begins(tasks) /\ Offer(tasks) = {cat.imports[n] : n \in DOMAIN cat.imports} \union Offer(b)
      BY <1>4, <2>2, <3>2, <3>3, PlanImports DEF Begins
    <3>5. Listable \subseteq Walked \union ToSet(Rows) \union {cat.imports[n] : n \in DOMAIN cat.imports}
      BY <2>2 DEF Listable
    <3>q. QED BY <1>4, <3>4, <3>5
  <2>q. QED BY <2>1, <2>2
<1>7. PICK t : t = [do |-> "registry"]
  OBVIOUS
<1>8. t.do = "registry" /\ Source(t) /\ Of(t) = {}
  BY <1>7, OfTask DEF Source
<1>9. left = <<t>> \o tasks
  BY <1>5, <1>7
<1>10. Plan(<<t>> \o tasks) /\ Offer(<<t>> \o tasks) = Of(t) \union Offer(tasks)
  BY <1>6, <1>8, PlanMore DEF Begins
<1>q. QED BY <1>6, <1>9, <1>10

Beginning(op, protocol) ==
  /\ cat \in Catalogues /\ asked.op = op /\ asked.protocol = protocol
  /\ op \in {"list", "all"} /\ protocol \in {"wps", "ogc"} /\ (op = "all" => protocol = "wps")
  /\ left = <<[do |-> "registry"]>> \o ListTasks(op, protocol)

LEMMA ListStartNext ==
  \A op, protocol : (Beginning(op, protocol) => Plan(left) /\ Listable \subseteq Offer(left))'
<1>1. SUFFICES ASSUME NEW op, NEW protocol
               PROVE  (Beginning(op, protocol) => Plan(left) /\ Listable \subseteq Offer(left))'
  OBVIOUS
<1>2. Beginning(op, protocol) => Plan(left) /\ Listable \subseteq Offer(left)
  BY ListStart DEF Beginning
<1>q. QED BY <1>2, PTL

LEMMA ListTasksFrame ==
  ASSUME UNCHANGED cat
  PROVE  \A op, protocol : ListTasks(op, protocol)' = ListTasks(op, protocol)
<1>1. /\ ConfDir' = ConfDir
      /\ \A dir : GetServicesNamespacePath(dir)' = GetServicesNamespacePath(dir)
  BY CatFrame
<1>2. Imports' = Imports
  BY DEF Imports
<1>3. \A dir : RecursReaddirF(dir)' = RecursReaddirF(dir)
  BY <1>1 DEF RecursReaddirF
<1>4. GetServicesNamespacePath(ConfDir)' = GetServicesNamespacePath(ConfDir)
  BY DEF GetServicesNamespacePath, ConfDir
<1>5. RecursReaddirF(GetServicesNamespacePath(ConfDir))' = RecursReaddirF(GetServicesNamespacePath(ConfDir))
  BY DEF RecursReaddirF, GetServicesNamespacePath, ConfDir
<1>6. /\ RecursReaddirF("cwd")' = RecursReaddirF("cwd")
      /\ Query' = Query /\ PrintOut' = PrintOut
  BY <1>3 DEF Query, PrintOut
<1>q. QED BY <1>2, <1>4, <1>5, <1>6 DEF ListTasks

LEMMA OneAnswerAsk ==
  ASSUME ListsSound, AskNext
  PROVE  ListInv' /\ OneAnswer'
<1>1. PICK request, tasks :
        /\ cat # Null /\ Asks(request, tasks) /\ Serve(request, tasks)
        /\ UNCHANGED <<touched, listed, described, ran>>
  BY AsksWhat DEF ListsSound
<1>2. /\ asked' = request /\ left' = <<[do |-> "registry"]>> \o tasks
      /\ shown' = <<>> /\ events' = <<>>
      /\ UNCHANGED <<cat, gone, touched, listed>>
  BY <1>1 DEF Serve
<1>3. CASE request.op \notin {"list", "all"}
  BY <1>2, <1>3 DEF ListInv, OneAnswer
<1>4. CASE request.op \in {"list", "all"}
  <2>1. /\ request.protocol \in {"wps", "ogc"} /\ (request.op = "all" => request.protocol = "wps")
        /\ AsksList(request) /\ tasks = ListTasks(request.op, request.protocol) /\ IsSeq(tasks)
    BY <1>1, <1>4, AsksProper DEF ListsSound
  <2>2. cat \in Catalogues
    BY <1>1 DEF ListsSound, SearchSound, SearchTypes
  <2>3. Beginning(request.op, request.protocol)'
    <3>1. ListTasks(request.op, request.protocol)' = tasks
      BY <1>2, <2>1, ListTasksFrame
    <3>q. QED BY <1>2, <1>4, <2>1, <2>2, <3>1 DEF Beginning
  <2>4. Plan(left)' /\ (Listable \subseteq Offer(left))'
    BY <2>3, ListStartNext
  <2>5. \/ listed = <<>>
        \/ /\ request.limit # NoLimit /\ asked.op = "list" /\ asked.protocol = "ogc"
           /\ request.op = "list" /\ request.protocol = "ogc"
    <3>1. asked = NoRequest => listed = <<>>
      BY DEF NoRequest, ListsSound, SearchSound, Order
    <3>2. ASSUME asked.op = "list", asked.protocol = "ogc", asked.limit # NoLimit,
                 request = Asking("list", "ogc", <<>>, asked.skip + asked.limit, asked.limit)
          PROVE  request.limit # NoLimit /\ request.op = "list" /\ request.protocol = "ogc"
      BY <3>2, AskingOf
    <3>q. QED BY <2>1, <3>1, <3>2 DEF AsksList
  <2>6. ToSet(listed) \subseteq Listable'
    <3>1. CASE listed = <<>>
      BY <3>1, SeqNone
    <3>2. CASE /\ asked.op = "list" /\ asked.protocol = "ogc"
               /\ request.op = "list" /\ request.protocol = "ogc"
      <4>1. ToSet(listed) \subseteq Listable
        BY <3>2 DEF ListsSound, SearchSound, ListInv
      <4>2. Walked' = Walked
        BY <1>2, <3>2 DEF Walked, In, IsImport, Imported, GetServicesNamespacePath
      <4>3. Listable' = Listable
        BY <1>2, <3>2, <4>2, CatFrame DEF Listable
      <4>q. QED BY <4>1, <4>3
    <3>q. QED BY <2>5, <3>1, <3>2
  <2>7. left' # <<>>
    BY <1>2, <2>1, SeqBefore
  <2>8. ToSet(shown') = {} /\ Alike(shown') /\ ToSet(listed') = ToSet(listed)
    BY <1>2, SeqNone
  <2>9. ListInv'
    BY <1>2, <2>4, <2>6, <2>8 DEF ListInv
  <2>10. OneAnswer'
    <3>1. asked'.limit = NoLimit => listed' = <<>>
      BY <1>2, <2>5
    <3>2. events' # <<"document">>
      BY <1>2
    <3>3. (Offer(left) \intersect ToSet(shown) = {})'
      BY <2>8
    <3>4. (Listable \ touched \subseteq ToSet(shown) \union Offer(left))'
      BY <2>4
    <3>q. QED BY <2>7, <2>8, <3>1, <3>2, <3>3, <3>4 DEF OneAnswer
  <2>q. QED BY <2>9, <2>10
<1>q. QED BY <1>3, <1>4

LEMMA SearchClosed ==
  ASSUME Closed
  PROVE  ListsSound
<1>1. /\ cat = Null /\ gone = {} /\ touched = {} /\ asked = NoRequest /\ asked.op = "none" /\ left = <<>>
      /\ shown = <<>> /\ events = <<>> /\ listed = <<>> /\ described = <<>> /\ ran = <<>> /\ ~more
      /\ asked.skip = 0 /\ asked.limit = NoLimit
  BY DEF Closed, NoRequest
<1>2. cnt \in Nat
  BY DEF Closed
<1>3. more \in BOOLEAN
  BY DEF Closed
<1>4. SearchTypes
  BY <1>1, <1>2, <1>3, SeqNone DEF SearchTypes
<1>5. Order
  BY <1>1 DEF Order
<1>6. ListInv /\ OneAnswer
  BY <1>1 DEF ListInv, OneAnswer
<1>q. QED BY <1>4, <1>5, <1>6 DEF ListsSound, SearchSound

LEMMA SearchClosedNext == Closed' => ListsSound'
<1>1. Closed => ListsSound
  BY SearchClosed
<1>q. QED BY <1>1, PTL

LEMMA ListsOpenOrClose ==
  ASSUME ListsSound, OpenOrClose
  PROVE  ListsSound'
<1>1. CASE CloseCatalogue
  <2>1. Closed'
    BY <1>1 DEF CloseCatalogue, Closed
  <2>q. QED BY <2>1, SearchClosedNext
<1>2. ASSUME NEW c \in Catalogues, OpenCatalogue(c) PROVE ListsSound'
  <2>1. Closed /\ cat' \in Catalogues
    BY <1>2 DEF OpenCatalogue, ListsSound, SearchSound, Order
  <2>2. /\ gone' = {} /\ touched' = {} /\ asked' = NoRequest /\ asked'.op = "none" /\ left' = <<>>
        /\ shown' = <<>> /\ events' = <<>> /\ listed' = <<>> /\ described' = <<>> /\ ran' = <<>>
        /\ UNCHANGED <<cnt, more, registry>>
        /\ asked'.skip = 0 /\ asked'.limit = NoLimit
    BY <1>2, <2>1 DEF OpenCatalogue, Closed, NoRequest
  <2>3. (cnt \in Nat)'
    BY <2>1, <2>2 DEF Closed
  <2>4. (more \in BOOLEAN)' /\ ~more'
    BY <2>1, <2>2 DEF Closed
  <2>5. asked' \in RequestType'
    <3>1. 0 \in Nat /\ NoLimit \in (Nat \ {0}) \union {NoLimit}
      OBVIOUS
    <3>q. QED BY <2>2, <3>1 DEF RequestType, NoRequest
  <2>6. SearchTypes'
    <3>1. (IsSeq(left) /\ IsSeq(shown) /\ IsSeq(listed) /\ IsSeq(events))'
      BY <2>2, SeqNone DEF IsSeq
    <3>q. QED BY <2>1, <2>2, <2>3, <2>4, <2>5, <3>1 DEF SearchTypes
  <2>7. Order'
    <3>1. (cat = Null => Closed)'
      BY <2>1, <2>2 DEF Closed
    <3>q. QED BY <2>2, <2>4, <3>1 DEF Order
  <2>8. ListInv' /\ OneAnswer'
    BY <2>2 DEF ListInv, OneAnswer
  <2>q. QED BY <2>6, <2>7, <2>8 DEF ListsSound, SearchSound
<1>q. QED BY <1>1, <1>2 DEF OpenOrClose

(* A step that leaves the request and what became of it.                   *)
LEMMA ListsDeploy ==
  ASSUME ListsSound, DeployOrUndeploy
  PROVE  ListsSound'
<1>1. /\ cat # Null /\ asked # NoRequest
      /\ UNCHANGED <<cat, asked, registry, left, cnt, more, shown, events, listed, described, ran>>
      /\ \E s : touched' = touched \union {s} /\ gone' = IF s \in gone THEN gone \ {s} ELSE gone \union {s}
  BY DEF DeployOrUndeploy
<1>2. touched \subseteq touched' /\ gone' \subseteq touched'
  BY <1>1 DEF ListsSound, SearchSound, SearchTypes
<1>3. asked.op # "none"
  BY <1>1 DEF ListsSound, SearchSound, Order
<1>4. Identifiers' = Identifiers /\ RequestType' = RequestType
  BY <1>1, CatFrame DEF RequestType
<1>5. /\ Listable' = Listable
      /\ \A tasks : Offer(tasks)' = Offer(tasks)
      /\ \A tasks : Plan(tasks)' <=> Plan(tasks)
  BY <1>1, TasksFrame
<1>6. SearchTypes'
  <2>1. (IsSeq(left) /\ IsSeq(shown) /\ IsSeq(listed) /\ IsSeq(events))'
    BY <1>1 DEF ListsSound, SearchSound, SearchTypes, IsSeq
  <2>2. (cnt \in Nat)'
    BY <1>1 DEF ListsSound, SearchSound, SearchTypes
  <2>3. (more \in BOOLEAN)'
    BY <1>1 DEF ListsSound, SearchSound, SearchTypes
  <2>q. QED BY <1>1, <1>2, <1>4, <2>1, <2>2, <2>3 DEF ListsSound, SearchSound, SearchTypes
<1>7. Order'
  BY <1>1, <1>3, <1>4 DEF ListsSound, SearchSound, Order
<1>8. ListInv'
  BY <1>1, <1>5 DEF ListsSound, SearchSound, ListInv
<1>9. OneAnswer'
  BY <1>1, <1>2, <1>5 DEF ListsSound, OneAnswer
<1>q. QED BY <1>6, <1>7, <1>8, <1>9 DEF ListsSound, SearchSound

LEMMA ListsFrame ==
  ASSUME ListsSound, UNCHANGED catVars
  PROVE  ListsSound'
<1>1. UNCHANGED <<cat, gone, touched, asked, registry, left, cnt, more, shown, events, listed, described, ran>>
  BY DEF catVars
<1>2. Identifiers' = Identifiers /\ RequestType' = RequestType
  BY <1>1, CatFrame DEF RequestType
<1>3. /\ Listable' = Listable
      /\ \A tasks : Offer(tasks)' = Offer(tasks)
      /\ \A tasks : Plan(tasks)' <=> Plan(tasks)
  BY <1>1, TasksFrame
<1>4. SearchTypes'
  <2>1. (IsSeq(left) /\ IsSeq(shown) /\ IsSeq(listed) /\ IsSeq(events))'
    BY <1>1 DEF ListsSound, SearchSound, SearchTypes, IsSeq
  <2>2. (cnt \in Nat)'
    BY <1>1 DEF ListsSound, SearchSound, SearchTypes
  <2>3. (more \in BOOLEAN)'
    BY <1>1 DEF ListsSound, SearchSound, SearchTypes
  <2>q. QED BY <1>1, <1>2, <2>1, <2>2, <2>3 DEF ListsSound, SearchSound, SearchTypes
<1>5. Order'
  <2>1. Closed' <=> Closed
    BY <1>1 DEF Closed
  <2>q. QED BY <1>1, <1>2, <2>1 DEF ListsSound, SearchSound, Order
<1>6. ListInv'
  BY <1>1, <1>3 DEF ListsSound, SearchSound, ListInv
<1>7. OneAnswer'
  BY <1>1, <1>3 DEF ListsSound, OneAnswer
<1>q. QED BY <1>4, <1>5, <1>6, <1>7 DEF ListsSound, SearchSound

LEMMA ListsStep == ListsSound /\ [Next]_kernelState => ListsSound'
<1>1. SUFFICES ASSUME ListsSound, [Next]_kernelState PROVE ListsSound'
  OBVIOUS
<1>2. CASE AskNext
  BY <1>1, <1>2, TypesAsk, OneAnswerAsk DEF ListsSound, SearchSound
<1>3. CASE DoTask
  BY <1>1, <1>3, TypesDo, OneAnswerDo DEF ListsSound, SearchSound
<1>q. QED BY <1>1, <1>2, <1>3, SearchSteps, ListsOpenOrClose, ListsDeploy, ListsFrame

-----------------------------------------------------------------------------
(* The pages of a list.                                                    *)

PageCase == cat \in Catalogues /\ asked.op = "list" /\ asked.protocol = "ogc"

LEMMA OpensOf ==
  ASSUME PageCase
  PROVE  /\ IsSeq(Opens) /\ Len(Opens) \in Nat /\ Len(Opens) >= 1 /\ DOMAIN Opens = 1 .. Len(Opens)
         /\ \A k \in DOMAIN Opens :
              Opens[k] = OpenTask(Opens[k].dir, Opens[k].last) /\ Opens[k].do = "open" /\ Opens[k].dir \in DirsWalked
         /\ \A d \in DirsWalked : \E k \in DOMAIN Opens : Opens[k].dir = d
         /\ \A j, k \in DOMAIN Opens : Opens[j].dir = Opens[k].dir => j = k
<1>1. PICK ns : ns = GetServicesNamespacePath("cwd")
  OBVIOUS
<1>2. DirsWalked = {ns} \union (IF cat.searchPath THEN {"cwd"} ELSE {})
  BY <1>1 DEF DirsWalked, PageCase
<1>3. \A d, l : OpenTask(d, l).dir = d /\ OpenTask(d, l).last = l /\ OpenTask(d, l).do = "open"
  BY DEF OpenTask
<1>4. ASSUME NEW d, NEW l, Opens = <<OpenTask(d, l)>>, DirsWalked = {d}
      PROVE  /\ IsSeq(Opens) /\ Len(Opens) \in Nat /\ Len(Opens) >= 1 /\ DOMAIN Opens = 1 .. Len(Opens)
             /\ \A k \in DOMAIN Opens :
                  Opens[k] = OpenTask(Opens[k].dir, Opens[k].last) /\ Opens[k].do = "open" /\ Opens[k].dir \in DirsWalked
             /\ \A e \in DirsWalked : \E k \in DOMAIN Opens : Opens[k].dir = e
             /\ \A j, k \in DOMAIN Opens : Opens[j].dir = Opens[k].dir => j = k
  <2>1. PICK o : o = OpenTask(d, l) /\ o.dir = d /\ o.last = l /\ o.do = "open"
    BY <1>3
  <2>2. IsSeq(<<o>>) /\ Len(<<o>>) = 1 /\ DOMAIN <<o>> = {1} /\ <<o>>[1] = o /\ {1} = 1 .. 1
    BY SeqNone
  <2>q. QED BY <1>4, <2>1, <2>2
<1>5. ASSUME NEW d, NEW e, NEW l, NEW m, Opens = <<OpenTask(d, l), OpenTask(e, m)>>, DirsWalked = {d, e}, d # e
      PROVE  /\ IsSeq(Opens) /\ Len(Opens) \in Nat /\ Len(Opens) >= 1 /\ DOMAIN Opens = 1 .. Len(Opens)
             /\ \A k \in DOMAIN Opens :
                  Opens[k] = OpenTask(Opens[k].dir, Opens[k].last) /\ Opens[k].do = "open" /\ Opens[k].dir \in DirsWalked
             /\ \A f \in DirsWalked : \E k \in DOMAIN Opens : Opens[k].dir = f
             /\ \A j, k \in DOMAIN Opens : Opens[j].dir = Opens[k].dir => j = k
  <2>1. PICK o, p : /\ o = OpenTask(d, l) /\ o.dir = d /\ o.last = l /\ o.do = "open"
                    /\ p = OpenTask(e, m) /\ p.dir = e /\ p.last = m /\ p.do = "open"
    BY <1>3
  <2>2. IsSeq(<<o, p>>)
    BY SeqPair
  <2>3. /\ Len(<<o, p>>) = 2 /\ DOMAIN <<o, p>> = {1, 2} /\ <<o, p>>[1] = o /\ <<o, p>>[2] = p
        /\ {1, 2} = 1 .. 2
    OBVIOUS
  <2>q. QED BY <1>5, <2>1, <2>2, <2>3
<1>6. CASE ~cat.searchPath
  BY <1>1, <1>2, <1>4, <1>6 DEF Opens, RecursReaddirF, OpenTask
<1>7. CASE cat.searchPath /\ ns = "cwd"
  <2>1. <<OpenTask("cwd", FALSE)>> \o <<>> = <<OpenTask("cwd", FALSE)>>
    OBVIOUS
  <2>2. Opens = <<OpenTask("cwd", FALSE)>> \o <<>>
    BY <1>1, <1>7 DEF Opens, RecursReaddirF, OpenTask
  <2>q. QED BY <1>2, <1>4, <1>7, <2>1, <2>2
<1>8. CASE cat.searchPath /\ ns # "cwd"
  <2>1. Opens = <<OpenTask("cwd", FALSE)>> \o <<OpenTask(ns, TRUE)>>
    BY <1>1, <1>8 DEF Opens, RecursReaddirF, OpenTask
  <2>2. Opens = <<OpenTask("cwd", FALSE), OpenTask(ns, TRUE)>>
    BY <2>1, SeqPair
  <2>3. DirsWalked = {"cwd", ns}
    BY <1>2, <1>8
  <2>q. QED BY <1>5, <1>8, <2>2, <2>3
<1>q. QED BY <1>6, <1>7, <1>8

LEMMA FilesAtOf ==
  ASSUME PageCase, NEW k \in DOMAIN Opens
  PROVE  /\ FilesAt(k) \in Seq(Deployed) /\ Alike(FilesAt(k))
         /\ Len(FilesAt(k)) \in Nat /\ DOMAIN FilesAt(k) = 1 .. Len(FilesAt(k))
         /\ \A i \in DOMAIN FilesAt(k) : FilesAt(k)[i][1] = Opens[k].dir
<1>1. Opens[k].dir \in DOMAIN cat.dirs
  BY OpensOf, DirsWalkedIn DEF PageCase
<1>2. FilesAt(k) \in Seq(Deployed) /\ Alike(FilesAt(k)) /\ \A s \in ToSet(FilesAt(k)) : s[1] = Opens[k].dir
  BY <1>1, InOf DEF FilesAt, PageCase
<1>3. \A i \in DOMAIN FilesAt(k) : FilesAt(k)[i] \in ToSet(FilesAt(k))
  BY DEF ToSet
<1>q. QED BY <1>2, <1>3

(* The places of the services.                                             *)
StandsAt(s, j, i) == j \in DOMAIN Opens /\ i \in DOMAIN FilesAt(j) /\ s = FilesAt(j)[i]
Earlier(j, i, k, q) == j < k \/ (j = k /\ i <= q)

LEMMA Places ==
  ASSUME PageCase
  PROVE  /\ \A s, j, i : StandsAt(s, j, i) => j \in 1 .. Len(Opens) /\ i \in 1 .. Len(FilesAt(j)) /\ j \in Nat /\ i \in Nat
         /\ \A s, j, i : StandsAt(s, j, i) => (s \in Visible <=> ~IsImport(s) /\ ~ServiceIsFilter(s))
         /\ \A s, j, i, m, n : StandsAt(s, j, i) /\ StandsAt(s, m, n) => j = m /\ i = n
         /\ \A s \in Visible : \E j \in Nat, i \in Nat : StandsAt(s, j, i)
         /\ \A k, q : Passed(k, q) = {s \in Visible : \E j \in Nat, i \in Nat : StandsAt(s, j, i) /\ Earlier(j, i, k, q)}
         /\ \A n : FirstOf(n) = {s \in Visible : \E j \in Nat, i \in Nat : StandsAt(s, j, i) /\ Cardinality(Passed(j, i - 1)) < n}
<1>1. ASSUME NEW s, NEW j, NEW i, StandsAt(s, j, i)
      PROVE  j \in 1 .. Len(Opens) /\ i \in 1 .. Len(FilesAt(j)) /\ j \in Nat /\ i \in Nat
  <2>1. j \in 1 .. Len(Opens) /\ Len(Opens) \in Nat
    BY <1>1, OpensOf DEF StandsAt
  <2>2. i \in 1 .. Len(FilesAt(j)) /\ Len(FilesAt(j)) \in Nat
    BY <1>1, FilesAtOf DEF StandsAt
  <2>q. QED BY <2>1, <2>2
<1>2. Walked = {s \in UNION {ToSet(In(d)) : d \in DirsWalked} : ~IsImport(s)}
  BY DEF Walked, DirsWalked
<1>3. ASSUME NEW s, NEW j, NEW i, StandsAt(s, j, i)
      PROVE  s \in Visible <=> ~IsImport(s) /\ ~ServiceIsFilter(s)
  <2>1. s \in ToSet(In(Opens[j].dir)) /\ Opens[j].dir \in DirsWalked
    BY <1>3, OpensOf DEF StandsAt, FilesAt, ToSet
  <2>q. QED BY <1>2, <2>1 DEF Visible
<1>4. ASSUME NEW s, NEW j, NEW i, NEW m, NEW n, StandsAt(s, j, i), StandsAt(s, m, n)
      PROVE  j = m /\ i = n
  <2>1. s[1] = Opens[j].dir /\ s[1] = Opens[m].dir
    BY <1>4, FilesAtOf DEF StandsAt
  <2>2. j = m
    BY <1>4, <2>1, OpensOf DEF StandsAt
  <2>3. i = n
    BY <1>4, <2>2, FilesAtOf DEF StandsAt, Alike
  <2>q. QED BY <2>2, <2>3
<1>5. ASSUME NEW s \in Visible PROVE \E j \in Nat, i \in Nat : StandsAt(s, j, i)
  <2>1. PICK d \in DirsWalked : s \in ToSet(In(d))
    BY <1>2 DEF Visible
  <2>2. PICK j \in DOMAIN Opens : Opens[j].dir = d
    BY OpensOf
  <2>3. PICK i \in DOMAIN FilesAt(j) : s = FilesAt(j)[i]
    BY <2>1, <2>2 DEF FilesAt, ToSet
  <2>4. StandsAt(s, j, i)
    BY <2>2, <2>3 DEF StandsAt
  <2>q. QED BY <1>1, <2>4
<1>6. ASSUME NEW k, NEW q
      PROVE  Passed(k, q) = {s \in Visible : \E j \in Nat, i \in Nat : StandsAt(s, j, i) /\ Earlier(j, i, k, q)}
  <2>1. \A s \in Visible : (\E j \in DOMAIN Opens : \E i \in DOMAIN FilesAt(j) :
                              s = FilesAt(j)[i] /\ (j < k \/ (j = k /\ i <= q)))
                         <=> \E j \in Nat, i \in Nat : StandsAt(s, j, i) /\ Earlier(j, i, k, q)
    BY <1>1 DEF StandsAt, Earlier
  <2>q. QED BY <2>1 DEF Passed
<1>7. ASSUME NEW n
      PROVE  FirstOf(n) = {s \in Visible : \E j \in Nat, i \in Nat : StandsAt(s, j, i) /\ Cardinality(Passed(j, i - 1)) < n}
  <2>1. \A s \in Visible : (\E j \in DOMAIN Opens : \E i \in DOMAIN FilesAt(j) :
                              s = FilesAt(j)[i] /\ Cardinality(Passed(j, i - 1)) < n)
                         <=> \E j \in Nat, i \in Nat : StandsAt(s, j, i) /\ Cardinality(Passed(j, i - 1)) < n
    BY <1>1 DEF StandsAt
  <2>q. QED BY <2>1 DEF FirstOf
<1>q. QED BY <1>1, <1>3, <1>4, <1>5, <1>6, <1>7

LEMMA ToSetFinite ==
  ASSUME NEW T, NEW s \in Seq(T)
  PROVE  IsFiniteSet(ToSet(s))
<1>1. s \in [1 .. Len(s) -> T] /\ Len(s) \in Nat /\ DOMAIN s = 1 .. Len(s)
  OBVIOUS
<1>2. s \in Surjection(1 .. Len(s), ToSet(s))
  <2>1. s \in [1 .. Len(s) -> ToSet(s)]
    BY <1>1 DEF ToSet
  <2>2. \A t \in ToSet(s) : \E i \in 1 .. Len(s) : s[i] = t
    BY <1>1 DEF ToSet
  <2>q. QED BY <2>1, <2>2 DEF Surjection
<1>3. IsFiniteSet(1 .. Len(s))
  BY <1>1, FS_Interval
<1>q. QED BY <1>2, <1>3, FS_Surjection

LEMMA VisibleFinite ==
  ASSUME PageCase
  PROVE  /\ IsFiniteSet(Visible) /\ Cardinality(Visible) \in Nat
         /\ \A S \in SUBSET Visible :
              /\ IsFiniteSet(S) /\ Cardinality(S) \in Nat /\ Cardinality(S) <= Cardinality(Visible)
<1>1. PICK ns : ns = GetServicesNamespacePath("cwd")
  OBVIOUS
<1>2. cat \in Catalogues /\ "cwd" \in DOMAIN cat.dirs /\ ns \in DOMAIN cat.dirs
  BY <1>1, DirsOf DEF PageCase
<1>3. IsFiniteSet(ToSet(In("cwd"))) /\ IsFiniteSet(ToSet(In(ns)))
  BY <1>2, InOf, ToSetFinite
<1>4. Visible \subseteq ToSet(In("cwd")) \union ToSet(In(ns))
  BY <1>1 DEF Visible, Walked, PageCase
<1>5. IsFiniteSet(Visible)
  BY <1>3, <1>4, FS_Union, FS_Subset
<1>q. QED BY <1>5, FS_CardinalityType, FS_Subset

LEMMA PassedNext ==
  ASSUME PageCase, NEW k \in DOMAIN Opens, NEW q \in 0 .. Len(FilesAt(k)) - 1
  PROVE  LET s == FilesAt(k)[q + 1]
         IN  /\ s \in Visible <=> ~IsImport(s) /\ ~ServiceIsFilter(s)
             /\ s \notin Visible => Passed(k, q + 1) = Passed(k, q)
             /\ s \in Visible => /\ Passed(k, q + 1) = Passed(k, q) \union {s} /\ s \notin Passed(k, q)
                                 /\ Cardinality(Passed(k, q + 1)) = Cardinality(Passed(k, q)) + 1
<1>. DEFINE i == q + 1
            s == FilesAt(k)[i]
<1>1. Len(FilesAt(k)) \in Nat /\ DOMAIN FilesAt(k) = 1 .. Len(FilesAt(k)) /\ q \in Nat /\ i \in Nat
  BY FilesAtOf
<1>2. i \in DOMAIN FilesAt(k) /\ k \in Nat
  BY <1>1, OpensOf
<1>3. StandsAt(s, k, i)
  BY <1>2 DEF StandsAt
<1>4. \A j \in Nat, m \in Nat : Earlier(j, m, k, i) <=> Earlier(j, m, k, q) \/ (j = k /\ m = i)
  BY <1>1, <1>2 DEF Earlier
<1>5. ~Earlier(k, i, k, q) /\ Earlier(k, i, k, i)
  BY <1>1, <1>2 DEF Earlier
<1>. HIDE DEF i, s
<1>6. s \in Visible <=> ~IsImport(s) /\ ~ServiceIsFilter(s)
  BY <1>3, Places
<1>7. \A r, j, m : StandsAt(r, j, m) /\ j = k /\ m = i => r = s
  BY <1>3 DEF StandsAt
<1>8. Passed(k, i) = Passed(k, q) \union (Visible \intersect {s})
  BY <1>1, <1>2, <1>3, <1>4, <1>5, <1>7, Places
<1>9. s \notin Passed(k, q)
  BY <1>3, <1>5, Places
<1>10. Passed(k, q) \subseteq Visible
  BY DEF Passed
<1>11. s \in Visible => Cardinality(Passed(k, i)) = Cardinality(Passed(k, q)) + 1
  BY <1>8, <1>9, <1>10, VisibleFinite, FS_AddElement
<1>q. QED BY <1>6, <1>8, <1>9, <1>11 DEF s, i

LEMMA PassedAll ==
  ASSUME PageCase
  PROVE  /\ Passed(1, 0) = {} /\ FirstOf(0) = {}
         /\ Passed(Len(Opens) + 1, 0) = Visible
         /\ \A k \in DOMAIN Opens : Passed(k + 1, 0) = Passed(k, Len(FilesAt(k)))
         /\ \A k, q : /\ Passed(k, q) \subseteq Visible /\ Cardinality(Passed(k, q)) \in Nat
                      /\ Cardinality(Passed(k, q)) <= Cardinality(Visible)
<1>1. \A k, q : /\ Passed(k, q) \subseteq Visible /\ Cardinality(Passed(k, q)) \in Nat
                /\ Cardinality(Passed(k, q)) <= Cardinality(Visible)
  <2>1. \A k, q : Passed(k, q) \in SUBSET Visible
    BY DEF Passed
  <2>q. QED BY <2>1, VisibleFinite
<1>2. Passed(1, 0) = {}
  <2>1. \A s, j, i : StandsAt(s, j, i) => ~Earlier(j, i, 1, 0)
    <3>1. SUFFICES ASSUME NEW s, NEW j, NEW i, StandsAt(s, j, i) PROVE ~Earlier(j, i, 1, 0)
      OBVIOUS
    <3>2. j \in 1 .. Len(Opens) /\ i \in 1 .. Len(FilesAt(j)) /\ Len(Opens) \in Nat /\ i \in Nat /\ j \in Nat
      BY <3>1, Places, OpensOf
    <3>3. j >= 1 /\ i >= 1
      <4>1. Len(FilesAt(j)) \in Nat
        BY <3>1, FilesAtOf DEF StandsAt
      <4>q. QED BY <3>2, <4>1
    <3>q. QED BY <3>2, <3>3 DEF Earlier
  <2>q. QED BY <2>1, Places
<1>3. FirstOf(0) = {}
  <2>1. \A j, i : ~(Cardinality(Passed(j, i - 1)) < 0)
    <3>1. \A n \in Nat : ~(n < 0)
      OBVIOUS
    <3>q. QED BY <1>1, <3>1
  <2>q. QED BY <2>1, Places
<1>4. Passed(Len(Opens) + 1, 0) = Visible
  <2>1. \A s, j, i : StandsAt(s, j, i) => Earlier(j, i, Len(Opens) + 1, 0)
    <3>1. SUFFICES ASSUME NEW s, NEW j, NEW i, StandsAt(s, j, i) PROVE Earlier(j, i, Len(Opens) + 1, 0)
      OBVIOUS
    <3>2. j \in 1 .. Len(Opens) /\ Len(Opens) \in Nat
      BY <3>1, Places, OpensOf
    <3>3. j < Len(Opens) + 1
      BY <3>2
    <3>q. QED BY <3>3 DEF Earlier
  <2>2. Passed(Len(Opens) + 1, 0)
          = {s \in Visible : \E j \in Nat, i \in Nat : StandsAt(s, j, i) /\ Earlier(j, i, Len(Opens) + 1, 0)}
    BY Places
  <2>3. \A s \in Visible : \E j \in Nat, i \in Nat : StandsAt(s, j, i)
    BY Places
  <2>q. QED BY <2>1, <2>2, <2>3
<1>5. ASSUME NEW k \in DOMAIN Opens PROVE Passed(k + 1, 0) = Passed(k, Len(FilesAt(k)))
  <2>1. ASSUME NEW s, NEW j, NEW i, StandsAt(s, j, i)
        PROVE  Earlier(j, i, k + 1, 0) <=> Earlier(j, i, k, Len(FilesAt(k)))
    <3>1. j \in Nat /\ k \in Nat /\ i \in Nat /\ i \in 1 .. Len(FilesAt(j)) /\ Len(FilesAt(j)) \in Nat
      BY <2>1, Places, OpensOf, FilesAtOf DEF StandsAt
    <3>2. i >= 1 /\ i <= Len(FilesAt(j))
      BY <3>1
    <3>3. Earlier(j, i, k + 1, 0) <=> j <= k
      BY <3>1, <3>2 DEF Earlier
    <3>4. CASE j = k
      BY <3>2, <3>3, <3>4, <3>1 DEF Earlier
    <3>5. CASE j # k
      BY <3>1, <3>3, <3>5 DEF Earlier
    <3>q. QED BY <3>4, <3>5
  <2>2. Passed(k + 1, 0) = {s \in Visible : \E j \in Nat, i \in Nat : StandsAt(s, j, i) /\ Earlier(j, i, k + 1, 0)}
    BY Places
  <2>3. Passed(k, Len(FilesAt(k)))
          = {s \in Visible : \E j \in Nat, i \in Nat : StandsAt(s, j, i) /\ Earlier(j, i, k, Len(FilesAt(k)))}
    BY Places
  <2>q. QED BY <2>1, <2>2, <2>3
<1>q. QED BY <1>1, <1>2, <1>3, <1>4, <1>5

(* The services before which fewer are passed than here are those passed.  *)
LEMMA FirstOfPassed ==
  ASSUME PageCase, NEW k \in Nat, NEW q \in Nat
  PROVE  FirstOf(Cardinality(Passed(k, q))) = Passed(k, q)
<1>1. \A a, b : Cardinality(Passed(a, b)) \in Nat /\ Passed(a, b) \subseteq Visible
  BY PassedAll
<1>2. ASSUME NEW s \in Visible, NEW j \in Nat, NEW i \in Nat, StandsAt(s, j, i)
      PROVE  Earlier(j, i, k, q) <=> Cardinality(Passed(j, i - 1)) < Cardinality(Passed(k, q))
  <2>. DEFINE h == i - 1
  <2>1. h \in Int /\ i = h + 1
    OBVIOUS
  <2>2. ASSUME Earlier(j, i, k, q)
        PROVE  Cardinality(Passed(j, h)) < Cardinality(Passed(k, q))
    <3>1. \A m \in Nat, n \in Nat : Earlier(m, n, j, h) => Earlier(m, n, k, q)
      BY <2>1, <2>2 DEF Earlier
    <3>2. ~Earlier(j, i, j, h)
      BY <2>1 DEF Earlier
    <3>. HIDE DEF h
    <3>3. Passed(j, h) \subseteq Passed(k, q)
      BY <3>1, Places
    <3>4. s \in Passed(k, q)
      BY <1>2, <2>2, Places
    <3>5. s \notin Passed(j, h)
      BY <1>2, <3>2, Places
    <3>6. IsFiniteSet(Passed(k, q)) /\ Passed(j, h) # Passed(k, q)
      BY <1>1, <3>4, <3>5, VisibleFinite
    <3>7. Cardinality(Passed(j, h)) <= Cardinality(Passed(k, q)) /\ Cardinality(Passed(j, h)) # Cardinality(Passed(k, q))
      BY <3>3, <3>6, FS_Subset
    <3>q. QED BY <1>1, <3>7
  <2>3. ASSUME ~Earlier(j, i, k, q)
        PROVE  ~(Cardinality(Passed(j, h)) < Cardinality(Passed(k, q)))
    <3>1. \A m \in Nat, n \in Nat : Earlier(m, n, k, q) => Earlier(m, n, j, h)
      BY <2>1, <2>3 DEF Earlier
    <3>. HIDE DEF h
    <3>2. Passed(k, q) \subseteq Passed(j, h)
      BY <3>1, Places
    <3>3. IsFiniteSet(Passed(j, h))
      BY <1>1, VisibleFinite
    <3>4. Cardinality(Passed(k, q)) <= Cardinality(Passed(j, h))
      BY <3>2, <3>3, FS_Subset
    <3>q. QED BY <1>1, <3>4
  <2>q. QED BY <2>2, <2>3
<1>3. Passed(k, q) = {s \in Visible : \E j \in Nat, i \in Nat : StandsAt(s, j, i) /\ Earlier(j, i, k, q)}
  BY Places
<1>4. FirstOf(Cardinality(Passed(k, q)))
        = {s \in Visible : \E j \in Nat, i \in Nat :
             StandsAt(s, j, i) /\ Cardinality(Passed(j, i - 1)) < Cardinality(Passed(k, q))}
  BY Places
<1>q. QED BY <1>2, <1>3, <1>4

LEMMA FromOf ==
  ASSUME PageCase
  PROVE  /\ From(1) = Opens \o <<Query, PrintOut>>
         /\ \A k \in 1 .. Len(Opens) + 1 : IsSeq(From(k)) /\ From(k) # <<>>
         /\ \A k \in DOMAIN Opens : k \in 1 .. Len(Opens) + 1 /\ k + 1 \in 1 .. Len(Opens) + 1 /\ k # Len(Opens) + 1
                                    /\ Head(From(k)) = Opens[k] /\ Tail(From(k)) = From(k + 1)
         /\ From(Len(Opens) + 1) = <<Query, PrintOut>>
         /\ \A k \in 1 .. Len(Opens) + 1 : k \in DOMAIN Opens \/ k = Len(Opens) + 1
         /\ Len(Opens) + 1 \in 1 .. Len(Opens) + 1 /\ 1 \in 1 .. Len(Opens) + 1
<1>. DEFINE e == <<Query, PrintOut>>
            x == Opens \o e
            T == ToSet(Opens) \union {Query, PrintOut}
            n == Len(Opens)
<1>1. IsSeq(Opens) /\ n \in Nat /\ n >= 1 /\ DOMAIN Opens = 1 .. n
  BY OpensOf
<1>2. IsSeq(e) /\ ToSet(e) = {Query, PrintOut}
  BY SeqPair
<1>3. Len(e) = 2 /\ e[1] = Query /\ e[2] = PrintOut
  OBVIOUS
<1>4. IsSeq(x) /\ ToSet(x) = T
  BY <1>1, <1>2, SeqJoin
<1>5. /\ Len(x) = n + 2
      /\ \A k \in DOMAIN Opens : x[k] = Opens[k]
      /\ x[n + 1] = Query /\ x[n + 2] = PrintOut
  <2>. HIDE DEF e
  <2>1. Len(x) = n + Len(e)
    BY <1>1, <1>2, JoinIs
  <2>2. \A k \in DOMAIN Opens : x[k] = Opens[k]
    BY <1>1, <1>2, JoinIs
  <2>3. 1 \in DOMAIN e /\ 2 \in DOMAIN e
    <3>1. e \in Seq(ToSet(e))
      BY <1>2 DEF IsSeq
    <3>q. QED BY <1>3, <3>1
  <2>4. \A k \in DOMAIN e : x[n + k] = e[k]
    BY <1>1, <1>2, JoinIs
  <2>5. x[n + 1] = e[1]
    BY <2>3, <2>4
  <2>6. x[n + 2] = e[2]
    BY <2>3, <2>4
  <2>q. QED BY <1>3, <2>1, <2>2, <2>5, <2>6
<1>6. \A k : From(k) = SubSeq(x, k, n + 2)
  BY DEF From
<1>. HIDE DEF e, x, T, n
<1>7. x \in Seq(T)
  BY <1>4 DEF IsSeq
<1>8. From(1) = x
  BY <1>5, <1>6, <1>7, SubSeqFull
<1>9. ASSUME NEW k \in 1 .. n + 2
      PROVE  /\ IsSeq(From(k)) /\ From(k) # <<>> /\ Head(From(k)) = x[k] /\ Tail(From(k)) = From(k + 1)
             /\ Len(From(k)) = n + 2 - k + 1
  <2>1. k \in 1 .. Len(x) /\ Len(x) \in k .. Len(x) /\ k \in Int /\ n + 2 \in Int /\ Len(x) = n + 2
    BY <1>1, <1>5, <1>9
  <2>2. Head(From(k)) = x[k] /\ Tail(From(k)) = From(k + 1)
    BY <1>6, <1>7, <2>1, HeadTailOfSubSeq
  <2>3. \A i \in k .. n + 2 : x[i] \in T
    <3>1. \A i \in k .. n + 2 : i \in 1 .. Len(x)
      BY <1>1, <1>9, <2>1
    <3>q. QED BY <1>7, <3>1
  <2>4. /\ SubSeq(x, k, n + 2) \in Seq(T)
        /\ Len(SubSeq(x, k, n + 2)) = IF k <= n + 2 THEN n + 2 - k + 1 ELSE 0
    <3>1. PICK z \in Int : z = n + 2
      BY <2>1
    <3>2. \A i \in k .. z : x[i] \in T
      BY <2>3, <3>1
    <3>3. /\ SubSeq(x, k, z) \in Seq(T)
          /\ Len(SubSeq(x, k, z)) = IF k <= z THEN z - k + 1 ELSE 0
      BY <2>1, <3>2, SubSeqProperties
    <3>q. QED BY <1>1, <3>1, <3>3
  <2>5. k <= n + 2 /\ n + 2 - k + 1 # 0
    BY <1>1, <1>9
  <2>6. From(k) \in Seq(T) /\ Len(From(k)) = n + 2 - k + 1 /\ Len(From(k)) # 0
    BY <1>6, <2>4, <2>5
  <2>q. QED BY <2>2, <2>6, SeqIs
<1>10. \A k \in 1 .. n + 1 : k \in 1 .. n + 2 /\ (k \in 1 .. n \/ k = n + 1)
  BY <1>1
<1>11. From(n + 1) = e
  <2>1. n + 1 \in 1 .. n + 2 /\ n + 2 \in 1 .. n + 2 /\ (n + 1) + 1 = n + 2
    BY <1>1
  <2>2. /\ From(n + 1) \in Seq(ToSet(From(n + 1))) /\ Head(From(n + 1)) = Query /\ Tail(From(n + 1)) = From(n + 2)
        /\ Len(From(n + 1)) = 2
    <3>1. n + 2 - (n + 1) + 1 = 2
      BY <1>1
    <3>q. QED BY <1>5, <1>9, <2>1, <3>1 DEF IsSeq
  <2>3. Head(From(n + 2)) = PrintOut /\ From(n + 2) # <<>> /\ From(n + 2) \in Seq(ToSet(From(n + 2)))
    BY <1>5, <1>9, <2>1 DEF IsSeq
  <2>4. PICK f \in Seq(ToSet(From(n + 1))) : f = From(n + 1)
    BY <2>2
  <2>5. Len(f) = 2 /\ f[1] = Query /\ f[2] = PrintOut
    <3>1. f[1] = Query /\ Len(f) = 2 /\ Head(Tail(f)) = PrintOut
      BY <2>2, <2>3, <2>4
    <3>2. Head(Tail(f)) = f[2]
      BY <3>1
    <3>q. QED BY <3>1, <3>2
  <2>6. f = [i \in 1 .. 2 |-> IF i = 1 THEN Query ELSE PrintOut]
    <3>1. f \in [1 .. Len(f) -> ToSet(From(n + 1))]
      OBVIOUS
    <3>2. f \in [1 .. 2 -> ToSet(From(n + 1))]
      BY <2>5, <3>1
    <3>3. \A i \in 1 .. 2 : f[i] = IF i = 1 THEN Query ELSE PrintOut
      BY <2>5
    <3>q. QED BY <3>2, <3>3
  <2>7. e = [i \in 1 .. 2 |-> IF i = 1 THEN Query ELSE PrintOut]
    BY DEF e
  <2>q. QED BY <2>4, <2>6, <2>7
<1>12. ASSUME NEW k \in DOMAIN Opens
       PROVE  /\ k \in 1 .. n + 1 /\ k + 1 \in 1 .. n + 1 /\ k # n + 1
              /\ Head(From(k)) = Opens[k] /\ Tail(From(k)) = From(k + 1)
  <2>1. k \in 1 .. n + 1 /\ k + 1 \in 1 .. n + 1 /\ k \in 1 .. n + 2 /\ k # n + 1
    BY <1>1
  <2>q. QED BY <1>5, <1>9, <2>1
<1>13. n + 1 \in 1 .. n + 1 /\ 1 \in 1 .. n + 1
  BY <1>1
<1>14. \A k \in 1 .. n + 1 : IsSeq(From(k)) /\ From(k) # <<>>
  BY <1>9, <1>10
<1>15. \A k \in 1 .. n + 1 : k \in DOMAIN Opens \/ k = n + 1
  BY <1>1, <1>10
<1>q. QED BY <1>8, <1>11, <1>12, <1>13, <1>14, <1>15 DEF e, x, n

LEMMA VisibleFrame ==
  ASSUME UNCHANGED cat, asked'.op = asked.op, asked'.protocol = asked.protocol
  PROVE  /\ Visible' = Visible /\ VisibleRows' = VisibleRows
         /\ Opens' = Opens /\ \A k : FilesAt(k)' = FilesAt(k)
         /\ \A k, q : Passed(k, q)' = Passed(k, q)
         /\ \A n : FirstOf(n)' = FirstOf(n)
         /\ \A k : From(k)' = From(k)
<1>1. /\ \A s : ServiceIsFilter(s)' <=> ServiceIsFilter(s)
      /\ \A dir : In(dir)' = In(dir)
      /\ Rows' = Rows
  BY CatFrame
<1>2. Walked' = Walked
  <2>1. DirsWalked' = DirsWalked
    BY DEF DirsWalked, GetServicesNamespacePath, ConfDir
  <2>2. Walked = {s \in UNION {ToSet(In(d)) : d \in DirsWalked} : ~IsImport(s)}
    BY DEF Walked, DirsWalked
  <2>3. Walked' = {s \in UNION {ToSet(In(d)') : d \in DirsWalked'} : ~IsImport(s)'}
    BY DEF Walked, DirsWalked
  <2>q. QED BY <1>1, <2>1, <2>2, <2>3, CatFrame
<1>3. Visible' = Visible /\ VisibleRows' = VisibleRows
  BY <1>1, <1>2 DEF Visible, VisibleRows
<1>4. Opens' = Opens
  BY DEF Opens, RecursReaddirF, GetServicesNamespacePath
<1>5. \A k : FilesAt(k)' = FilesAt(k)
  BY <1>4 DEF FilesAt, In
<1>6. \A k, q : Passed(k, q)' = Passed(k, q)
  BY <1>3, <1>4, <1>5 DEF Passed
<1>7. \A n : FirstOf(n)' = FirstOf(n)
  BY <1>3, <1>4, <1>5, <1>6 DEF FirstOf
<1>8. \A k : From(k)' = From(k)
  BY <1>4 DEF From, Query, PrintOut
<1>q. QED BY <1>3, <1>4, <1>5, <1>6, <1>7, <1>8

LEMMA PageFrame ==
  ASSUME UNCHANGED <<cat, asked>>
  PROVE  /\ \A tasks, n, next, list : Reached(tasks, n, next, list)' <=> Reached(tasks, n, next, list)
         /\ \A n, next, list : WholePage(n, next, list)' <=> WholePage(n, next, list)
<1>1. /\ Visible' = Visible /\ VisibleRows' = VisibleRows
      /\ Opens' = Opens /\ \A k : FilesAt(k)' = FilesAt(k)
      /\ \A k, q : Passed(k, q)' = Passed(k, q)
      /\ \A n : FirstOf(n)' = FirstOf(n)
      /\ \A k : From(k)' = From(k)
  BY VisibleFrame
<1>2. \A tasks, k, q : Walking(tasks, k, q)' <=> Walking(tasks, k, q)
  <2>1. SUFFICES ASSUME NEW tasks, NEW k, NEW q PROVE Walking(tasks, k, q)' <=> Walking(tasks, k, q)
    OBVIOUS
  <2>2. \A j : From(j)' = From(j)
    BY <1>1
  <2>3. Opens' = Opens /\ FilesAt(k)' = FilesAt(k)
    BY <1>1
  <2>4. From(1)' = From(1) /\ From(k)' = From(k) /\ From(k + 1)' = From(k + 1)
    BY <2>2
  <2>q. QED BY <2>3, <2>4 DEF Walking, Walk
<1>3. \A list, n, rows : PageShows(list, n, rows)' <=> PageShows(list, n, rows)
  BY <1>1 DEF PageShows
<1>4. \A tasks, n, next, list : Reached(tasks, n, next, list)' <=> Reached(tasks, n, next, list)
  <2>1. SUFFICES ASSUME NEW tasks, NEW n, NEW next, NEW list
                 PROVE  Reached(tasks, n, next, list)' <=> Reached(tasks, n, next, list)
    OBVIOUS
  <2>2. (\E k \in 1 .. Len(Opens) + 1 : \E q \in Nat :
           Walking(tasks, k, q) /\ n = Cardinality(Passed(k, q)) /\ PageShows(list, n, {}))'
        <=> \E k \in 1 .. Len(Opens) + 1 : \E q \in Nat :
              Walking(tasks, k, q) /\ n = Cardinality(Passed(k, q)) /\ PageShows(list, n, {})
    BY <1>1, <1>2, <1>3
  <2>3. PageShows(list, n, IF next THEN {} ELSE VisibleRows)' <=> PageShows(list, n, IF next THEN {} ELSE VisibleRows)
    BY <1>1, <1>3
  <2>4. \A entries : PageShows(list, n, IF next THEN {} ELSE VisibleRows \ ToSet(entries))'
                   <=> PageShows(list, n, IF next THEN {} ELSE VisibleRows \ ToSet(entries))
    BY <1>1, <1>3
  <2>q. QED BY <1>1, <2>2, <2>3, <2>4 DEF Reached, RowsLeft, PrintOut
<1>5. \A n, next, list : WholePage(n, next, list)' <=> WholePage(n, next, list)
  BY <1>1, <1>3 DEF WholePage
<1>q. QED BY <1>4, <1>5

(* A page that is being written.                                           *)
PageAt ==
  /\ ListCase /\ PageCase /\ gone = {}
  /\ asked.limit \in Nat \ {0} /\ asked.skip \in Nat /\ asked.skip <= Cardinality(Visible)
  /\ cnt \in Nat /\ more \in BOOLEAN
  /\ more <=> cnt >= asked.skip + asked.limit

PageGoes ==
  /\ left' # <<>> => Reached(left', cnt', more', listed' \o shown')
  /\ left' = <<>> /\ events' = <<"document">> => WholePage(cnt', more', listed')

ShownAt(k, q) == cnt = Cardinality(Passed(k, q)) /\ PageShows(listed \o shown, cnt, {})

LEMMA WhichTask ==
  ASSUME DoTask
  PROVE  /\ Head(left).do = "registry" => MakeRegistry
         /\ Head(left).do = "open" => OpenDirectory
         /\ Head(left).do = "walk" => ReadEntry \/ EndOfList
         /\ Head(left).do = "query" => QueryRows
         /\ Head(left).do = "rows" => ReadRow \/ EndOfList
         /\ Head(left).do = "document" => PrintDocument
  BY DEF DoTask, MakeRegistry, ReadImport, OpenDirectory, ReadEntry, QueryRows, ReadRow, EndOfList,
         PrintDocument, Lookup, Match, Fetch, Task

LEMMA PageStops ==
  ASSUME left' = <<>>, events' # <<"document">>
  PROVE  PageGoes
  BY DEF PageGoes

LEMMA PageStays ==
  ASSUME PageAt, NEW k, NEW q, ShownAt(k, q), UNCHANGED <<cnt, more, shown, listed>>,
         NEW m \in 1 .. Len(Opens) + 1, NEW p \in Nat, Walking(left', m, p), left' # <<>>,
         Passed(m, p) = Passed(k, q)
  PROVE  PageGoes
<1>1. PICK l, n, x, r : l = left' /\ n = cnt' /\ x = more' /\ r = listed' \o shown'
  OBVIOUS
<1>2. n = Cardinality(Passed(m, p)) /\ PageShows(r, n, {}) /\ Walking(l, m, p) /\ (x <=> n >= asked.skip + asked.limit)
  BY <1>1 DEF ShownAt, PageAt
<1>3. Reached(l, n, x, r)
  BY <1>2 DEF Reached
<1>q. QED BY <1>1, <1>3 DEF PageGoes

(* The rest of a directory.                                                *)
FilesFrom(k, q) == [i \in 1 .. Len(FilesAt(k)) - q |-> FilesAt(k)[q + i]]

LEMMA FilesNext ==
  ASSUME PageCase, NEW k \in DOMAIN Opens, NEW q \in 0 .. Len(FilesAt(k))
  PROVE  /\ q \in Nat
         /\ FilesFrom(k, q) = <<>> => q = Len(FilesAt(k))
         /\ FilesFrom(k, q) # <<>> =>
              /\ q \in 0 .. Len(FilesAt(k)) - 1 /\ q + 1 \in 0 .. Len(FilesAt(k))
              /\ Head(FilesFrom(k, q)) = FilesAt(k)[q + 1]
              /\ Tail(FilesFrom(k, q)) = FilesFrom(k, q + 1)
<1>1. PICK f, n : f = FilesAt(k) /\ n = Len(FilesAt(k))
  OBVIOUS
<1>2. f \in Seq(Deployed) /\ n = Len(f) /\ n \in Nat /\ DOMAIN f = 1 .. n /\ q \in 0 .. n
  BY <1>1, FilesAtOf
<1>3. PICK g, h : g = [i \in 1 .. n - q |-> f[q + i]] /\ h = [i \in 1 .. n - (q + 1) |-> f[q + 1 + i]]
  OBVIOUS
<1>4. g = FilesFrom(k, q) /\ h = FilesFrom(k, q + 1)
  BY <1>1, <1>3 DEF FilesFrom
<1>5. g \in Seq(Deployed) /\ Len(g) = n - q
  <2>1. \A i \in 1 .. n - q : q + i \in 1 .. n
    BY <1>2
  <2>2. \A i \in 1 .. n - q : f[q + i] \in Deployed
    BY <1>2, <2>1
  <2>3. n - q \in Nat
    BY <1>2
  <2>q. QED BY <1>3, <2>2, <2>3
<1>6. g = <<>> => q = n
  BY <1>2, <1>5
<1>7. ASSUME g # <<>> PROVE q \in 0 .. n - 1 /\ q + 1 \in 0 .. n /\ Head(g) = f[q + 1] /\ Tail(g) = h
  <2>1. Len(g) # 0
    BY <1>5, <1>7
  <2>2. q \in 0 .. n - 1 /\ q + 1 \in 0 .. n
    BY <1>2, <1>5, <2>1
  <2>3. Head(g) = g[1] /\ 1 \in 1 .. n - q
    BY <1>2, <1>5, <2>1
  <2>4. Head(g) = f[q + 1]
    BY <1>3, <2>3
  <2>5. /\ Tail(g) \in Seq(Deployed) /\ Len(Tail(g)) = n - (q + 1)
        /\ \A i \in 1 .. n - (q + 1) : i + 1 \in 1 .. n - q /\ Tail(g)[i] = g[i + 1]
    BY <1>2, <1>5, <1>7, <2>2
  <2>6. \A i \in 1 .. n - (q + 1) : Tail(g)[i] = f[q + 1 + i]
    <3>1. \A i \in 1 .. n - (q + 1) : q + (i + 1) = q + 1 + i
      BY <1>2
    <3>q. QED BY <1>3, <2>5, <3>1
  <2>7. Tail(g) \in [1 .. n - (q + 1) -> Deployed]
    <3>1. PICK t \in Seq(Deployed) : t = Tail(g)
      BY <2>5
    <3>2. t \in [1 .. Len(t) -> Deployed]
      OBVIOUS
    <3>q. QED BY <2>5, <3>1, <3>2
  <2>q. QED BY <1>3, <2>2, <2>4, <2>6, <2>7
<1>q. QED BY <1>1, <1>2, <1>4, <1>6, <1>7

(* One more service is shown, or passed over.                              *)
LEMMA PageShowsNext ==
  ASSUME PageAt, NEW k \in DOMAIN Opens, NEW q \in 0 .. Len(FilesAt(k)) - 1, ShownAt(k, q),
         NEW s, s = FilesAt(k)[q + 1], s \in Visible
  PROVE  /\ cnt + 1 = Cardinality(Passed(k, q + 1))
         /\ InPage => PageShows(Append(listed \o shown, s), cnt + 1, {})
         /\ ~InPage => PageShows(listed \o shown, cnt + 1, {})
<1>1. PICK n, skip, limit, list : n = cnt /\ skip = asked.skip /\ limit = asked.limit /\ list = listed \o shown
  OBVIOUS
<1>2. n \in Nat /\ skip \in Nat /\ limit \in Nat \ {0} /\ IsSeq(list)
  BY <1>1, SeqJoin DEF PageAt, ListCase
<1>3. InPage <=> n >= skip /\ n < limit + skip
  <2>1. limit # NoLimit
    BY <1>2 DEF NoLimit
  <2>q. QED BY <1>1, <2>1 DEF InPage, CompareCnt
<1>4. /\ n = Cardinality(Passed(k, q)) /\ Alike(list) /\ ToSet(list) = FirstOf(Upto(n, skip, limit))
  BY <1>1 DEF ShownAt, PageShows
<1>5. k \in Nat /\ q \in Nat /\ q + 1 \in Nat
  <2>1. Len(FilesAt(k)) \in Nat
    BY FilesAtOf DEF PageAt
  <2>q. QED BY <2>1, OpensOf DEF PageAt
<1>6. /\ Passed(k, q + 1) = Passed(k, q) \union {s} /\ s \notin Passed(k, q)
      /\ Cardinality(Passed(k, q + 1)) = Cardinality(Passed(k, q)) + 1
  BY PassedNext DEF PageAt
<1>7. FirstOf(n) = Passed(k, q) /\ FirstOf(n + 1) = Passed(k, q + 1)
  <2>1. FirstOf(Cardinality(Passed(k, q))) = Passed(k, q)
    BY <1>5, FirstOfPassed DEF PageAt
  <2>2. FirstOf(Cardinality(Passed(k, q + 1))) = Passed(k, q + 1)
    BY <1>5, FirstOfPassed DEF PageAt
  <2>q. QED BY <1>4, <1>6, <2>1, <2>2
<1>8. limit = -1 => skip = 0
  BY <1>2
<1>9. ASSUME InPage PROVE PageShows(Append(list, s), n + 1, {})
  <2>1. Upto(n, skip, limit) = n /\ Upto(n + 1, skip, limit) = n + 1
    BY <1>2, <1>3, <1>8, <1>9, UptoNext
  <2>2. ToSet(list) = Passed(k, q)
    BY <1>4, <1>7, <2>1
  <2>3. Alike(Append(list, s)) /\ ToSet(Append(list, s)) = Passed(k, q + 1)
    BY <1>2, <1>4, <1>6, <2>2, SeqLast
  <2>q. QED BY <1>1, <1>7, <2>1, <2>3 DEF PageShows
<1>10. ASSUME ~InPage PROVE PageShows(list, n + 1, {})
  <2>1. Upto(n + 1, skip, limit) = Upto(n, skip, limit)
    BY <1>2, <1>3, <1>8, <1>10, UptoNext
  <2>q. QED BY <1>1, <1>4, <2>1 DEF PageShows
<1>q. QED BY <1>1, <1>4, <1>6, <1>9, <1>10

LEMMA OpensFrom ==
  ASSUME PageCase, NEW k \in DOMAIN Opens
  PROVE  k \in Nat /\ k \in 1 .. Len(Opens) + 1 /\ k + 1 \in 1 .. Len(Opens) + 1
         /\ From(k) # <<>> /\ From(k + 1) # <<>> /\ IsSeq(From(k + 1))
         /\ Head(From(k)) = Opens[k] /\ Tail(From(k)) = From(k + 1)
<1>1. k \in 1 .. Len(Opens) + 1 /\ k + 1 \in 1 .. Len(Opens) + 1 /\ Head(From(k)) = Opens[k] /\ Tail(From(k)) = From(k + 1)
  BY FromOf
<1>2. \A j \in 1 .. Len(Opens) + 1 : From(j) # <<>> /\ IsSeq(From(j))
  BY FromOf
<1>q. QED BY <1>1, <1>2, OpensOf

LEMMA WalkingLeft ==
  ASSUME PageCase, NEW k \in DOMAIN Opens, NEW q \in 0 .. Len(FilesAt(k)), NEW last, last = Opens[k].last
  PROVE  /\ Walking(<<Walk(last, FilesFrom(k, q))>> \o From(k + 1), k, q)
         /\ <<Walk(last, FilesFrom(k, q))>> \o From(k + 1) # <<>>
         /\ Head(<<Walk(last, FilesFrom(k, q))>> \o From(k + 1)) = Walk(last, FilesFrom(k, q))
         /\ Tail(<<Walk(last, FilesFrom(k, q))>> \o From(k + 1)) = From(k + 1)
<1>1. IsSeq(From(k + 1))
  BY OpensFrom
<1>2. PICK w : w = Walk(last, FilesFrom(k, q))
  OBVIOUS
<1>3. <<w>> \o From(k + 1) # <<>> /\ Head(<<w>> \o From(k + 1)) = w /\ Tail(<<w>> \o From(k + 1)) = From(k + 1)
  BY <1>1, SeqBefore
<1>4. Walking(<<w>> \o From(k + 1), k, q)
  BY <1>2 DEF Walking, FilesFrom
<1>q. QED BY <1>2, <1>3, <1>4

LEMMA PageRegistry ==
  ASSUME PageAt, DoTask, ShownAt(1, 0), left = <<[do |-> "registry"]>> \o From(1)
  PROVE  PageGoes
<1>1. IsSeq(From(1)) /\ From(1) # <<>> /\ 1 \in 1 .. Len(Opens) + 1
  BY FromOf DEF PageAt
<1>2. Head(left).do = "registry" /\ Tail(left) = From(1)
  BY <1>1, SeqBefore
<1>3. MakeRegistry /\ left # <<>>
  BY <1>2, WhichTask DEF PageAt, ListCase
<1>4. UNCHANGED <<cnt, more, shown, listed>> /\ events = <<>>
  BY <1>2, <1>3 DEF MakeRegistry, PageAt, ListCase, ListInv
<1>5. CASE events' = <<>>
  <2>1. left' = From(1)
    BY <1>2, <1>3, <1>5 DEF MakeRegistry
  <2>2. Walking(left', 1, 0)
    BY <1>1, <2>1 DEF Walking
  <2>q. QED BY <1>1, <1>4, <2>1, <2>2, PageStays
<1>6. CASE events' # <<>>
  <2>1. left' = <<>> /\ events' \in {<<"exception">>, <<"died">>}
    BY <1>3, <1>6 DEF MakeRegistry
  <2>2. <<"exception">> # <<"document">> /\ <<"died">> # <<"document">>
    BY SeqNone
  <2>q. QED BY <2>1, <2>2, PageStops
<1>q. QED BY <1>5, <1>6

LEMMA PageOpens ==
  ASSUME PageAt, DoTask, NEW k \in DOMAIN Opens, ShownAt(k, 0), left = From(k)
  PROVE  PageGoes
<1>1. Head(left) = Opens[k] /\ Tail(left) = From(k + 1) /\ k \in Nat /\ k \in 1 .. Len(Opens) + 1
  BY OpensFrom DEF PageAt
<1>2. Opens[k].do = "open" /\ Opens[k].dir \in DirsWalked
  BY OpensOf DEF PageAt
<1>3. OpenDirectory
  BY <1>1, <1>2, WhichTask
<1>4. left' = <<Walk(Opens[k].last, Present(FilesAt(k)))>> \o From(k + 1) /\ UNCHANGED <<cnt, more, shown, listed>>
  BY <1>1, <1>3 DEF OpenDirectory, Walk, FilesAt, sessionVars
<1>5. Present(FilesAt(k)) = FilesAt(k)
  <2>1. FilesAt(k) \in Seq(Deployed) /\ Alike(FilesAt(k))
    BY FilesAtOf DEF PageAt
  <2>q. QED BY <2>1, PresentOf DEF PageAt
<1>6. FilesFrom(k, 0) = FilesAt(k) /\ 0 \in 0 .. Len(FilesAt(k))
  <2>1. PICK f : f = FilesAt(k) /\ f \in Seq(Deployed)
    BY FilesAtOf DEF PageAt
  <2>2. \A i \in 1 .. Len(f) : 0 + i = i
    OBVIOUS
  <2>3. Len(f) - 0 = Len(f) /\ Len(f) \in Nat
    BY <2>1
  <2>4. f = [i \in 1 .. Len(f) |-> f[i]]
    BY <2>1
  <2>5. [i \in 1 .. Len(f) - 0 |-> f[0 + i]] = [i \in 1 .. Len(f) |-> f[i]]
    BY <2>2, <2>3
  <2>6. 0 \in 0 .. Len(f)
    BY <2>3
  <2>q. QED BY <2>1, <2>4, <2>5, <2>6 DEF FilesFrom
<1>7. left' = <<Walk(Opens[k].last, FilesFrom(k, 0))>> \o From(k + 1)
  BY <1>4, <1>5, <1>6
<1>8. Walking(left', k, 0) /\ left' # <<>>
  BY <1>6, <1>7, WalkingLeft DEF PageAt
<1>q. QED BY <1>1, <1>4, <1>8, PageStays

LEMMA JoinLast ==
  ASSUME NEW a, IsSeq(a), NEW b, IsSeq(b), NEW s
  PROVE  a \o Append(b, s) = Append(a \o b, s)
<1>. DEFINE T == ToSet(a) \union ToSet(b) \union {s}
<1>1. a \in Seq(ToSet(a)) /\ b \in Seq(ToSet(b)) /\ ToSet(a) \subseteq T /\ ToSet(b) \subseteq T /\ s \in T
  BY DEF IsSeq
<1>. HIDE DEF T
<1>2. a \in Seq(T) /\ b \in Seq(T)
  BY <1>1
<1>q. QED BY <1>1, <1>2

(* An entry of the directory.                                              *)
LEMMA PageEntry ==
  ASSUME PageAt, NEW k \in DOMAIN Opens, NEW q \in 0 .. Len(FilesAt(k)), ShownAt(k, q),
         left = <<Walk(Opens[k].last, FilesFrom(k, q))>> \o From(k + 1), ReadEntry
  PROVE  PageGoes
<1>. DEFINE t == Head(left)
            s == Head(t.entries)
            w == [t EXCEPT !.entries = Tail(@)]
            next == <<w>> \o Tail(left)
<1>1. t = Walk(Opens[k].last, FilesFrom(k, q)) /\ Tail(left) = From(k + 1)
  BY WalkingLeft DEF PageAt
<1>2. t.do = "walk" /\ t.entries = FilesFrom(k, q) /\ t.last = Opens[k].last
  BY <1>1 DEF Walk
<1>3. FilesFrom(k, q) # <<>>
  BY <1>2 DEF ReadEntry
<1>4. /\ q \in 0 .. Len(FilesAt(k)) - 1 /\ q + 1 \in 0 .. Len(FilesAt(k)) /\ q \in Nat /\ q + 1 \in Nat
      /\ s = FilesAt(k)[q + 1] /\ Tail(t.entries) = FilesFrom(k, q + 1)
  <2>1. /\ q \in 0 .. Len(FilesAt(k)) - 1 /\ q + 1 \in 0 .. Len(FilesAt(k)) /\ q \in Nat
        /\ s = FilesAt(k)[q + 1] /\ Tail(t.entries) = FilesFrom(k, q + 1)
    BY <1>2, <1>3, FilesNext DEF PageAt
  <2>q. QED BY <2>1
<1>5. w = Walk(Opens[k].last, FilesFrom(k, q + 1))
  BY <1>2, <1>3, <1>4, WalkOn DEF PageAt
<1>6. next = <<Walk(Opens[k].last, FilesFrom(k, q + 1))>> \o From(k + 1)
  BY <1>1, <1>5
<1>7. Walking(next, k, q + 1) /\ next # <<>>
  BY <1>4, <1>6, WalkingLeft DEF PageAt
<1>8. k \in 1 .. Len(Opens) + 1
  BY OpensFrom DEF PageAt
<1>9. /\ s \in Visible <=> ~IsImport(s) /\ ~ServiceIsFilter(s)
      /\ s \notin Visible => Passed(k, q + 1) = Passed(k, q)
  BY <1>4, PassedNext DEF PageAt
<1>10. UNCHANGED listed /\ s \notin gone
  BY DEF ReadEntry, sessionVars, PageAt
<1>11. s \in Visible =>
         /\ cnt + 1 = Cardinality(Passed(k, q + 1))
         /\ InPage => PageShows(Append(listed \o shown, s), cnt + 1, {})
         /\ ~InPage => PageShows(listed \o shown, cnt + 1, {})
  BY <1>4, PageShowsNext
<1>12. asked.limit # NoLimit
  BY DEF PageAt, NoLimit
<1>13. IsSeq(listed) /\ IsSeq(shown) /\ IsSeq(events)
  BY DEF PageAt, ListCase
<1>14. listed \o Append(shown, s) = Append(listed \o shown, s)
  BY <1>13, JoinLast
<1>15. /\ IsImport(s) => left' = next /\ UNCHANGED <<cnt, more, shown>>
       /\ ~IsImport(s) /\ ~InPage =>
            left' = next /\ UNCHANGED shown /\ cnt' = UpdateCnt(s) /\ (more' <=> more \/ cnt' = asked.limit + asked.skip)
       /\ ~IsImport(s) /\ InPage =>
            \/ Die
            \/ left' = next /\ Show(s) /\ cnt' = UpdateCnt(s) /\ (more' <=> more \/ cnt' = asked.limit + asked.skip)
  <2>1. IsImport(s) => left' = next /\ UNCHANGED <<cnt, more, shown>>
    BY DEF ReadEntry
  <2>2. ~IsImport(s) /\ ~InPage =>
            left' = next /\ UNCHANGED shown /\ cnt' = UpdateCnt(s) /\ (more' <=> more \/ cnt' = asked.limit + asked.skip)
    BY <1>12 DEF ReadEntry, PageAt
  <2>3. ~IsImport(s) /\ InPage =>
            \/ Die
            \/ left' = next /\ Show(s) /\ cnt' = UpdateCnt(s) /\ (more' <=> more \/ cnt' = asked.limit + asked.skip)
    BY <1>10, <1>12 DEF ReadEntry, PageAt
  <2>q. QED BY <2>1, <2>2, <2>3
<1>. HIDE DEF w, s, next, t
<1>16. ASSUME UNCHANGED <<cnt, shown>>, more' <=> more, left' = next, s \notin Visible
       PROVE  PageGoes
  <2>1. PICK l, n, x, r : l = left' /\ n = cnt' /\ x = more' /\ r = listed' \o shown'
    OBVIOUS
  <2>2. n = Cardinality(Passed(k, q + 1)) /\ PageShows(r, n, {}) /\ Walking(l, k, q + 1)
        /\ (x <=> n >= asked.skip + asked.limit)
    BY <1>7, <1>9, <1>10, <1>16, <2>1 DEF ShownAt, PageAt
  <2>3. Reached(l, n, x, r)
    BY <1>4, <1>8, <2>2 DEF Reached
  <2>q. QED BY <1>7, <1>16, <2>1, <2>3 DEF PageGoes
<1>17. ASSUME s \in Visible, cnt' = cnt + 1, more' <=> more \/ cnt' = asked.limit + asked.skip, left' = next,
              (InPage /\ shown' = Append(shown, s)) \/ (~InPage /\ UNCHANGED shown)
       PROVE  PageGoes
  <2>1. PICK l, n, x, r : l = left' /\ n = cnt' /\ x = more' /\ r = listed' \o shown'
    OBVIOUS
  <2>2. n = Cardinality(Passed(k, q + 1)) /\ PageShows(r, n, {}) /\ Walking(l, k, q + 1)
    BY <1>7, <1>10, <1>11, <1>14, <1>17, <2>1
  <2>4. x <=> n >= asked.skip + asked.limit
    <3>1. PICK a, b, c : a = cnt /\ b = asked.skip /\ c = asked.limit
      OBVIOUS
    <3>2. a \in Nat /\ b \in Nat /\ c \in Nat
      BY <3>1 DEF PageAt
    <3>3. x <=> a >= b + c \/ a + 1 = c + b
      BY <1>17, <2>1, <3>1 DEF PageAt
    <3>4. a >= b + c \/ a + 1 = c + b <=> a + 1 >= b + c
      BY <3>2
    <3>q. QED BY <1>17, <2>1, <3>1, <3>3, <3>4
  <2>3. Reached(l, n, x, r)
    BY <1>4, <1>8, <2>2, <2>4 DEF Reached
  <2>q. QED BY <1>7, <1>17, <2>1, <2>3 DEF PageGoes
<1>18. CASE IsImport(s)
  BY <1>9, <1>15, <1>16, <1>18
<1>19. CASE Die
  <2>1. left' = <<>> /\ events' = Append(events, "died")
    BY <1>19 DEF Die, Say
  <2>q. QED BY <1>13, <2>1, SaidMore, PageStops
<1>20. CASE ~IsImport(s) /\ ServiceIsFilter(s)
  <2>1. UpdateCnt(s) = cnt /\ (Show(s) => UNCHANGED shown)
    BY <1>20 DEF UpdateCnt, Show, PageAt, PageCase
  <2>2. cnt = asked.limit + asked.skip => more
    <3>1. PICK a, b, c : a = cnt /\ b = asked.skip /\ c = asked.limit
      OBVIOUS
    <3>2. a \in Nat /\ b \in Nat /\ c \in Nat /\ (more <=> a >= b + c)
      BY <3>1 DEF PageAt
    <3>3. a = c + b => a >= b + c
      BY <3>2
    <3>q. QED BY <3>1, <3>2, <3>3
  <2>q. QED BY <1>9, <1>15, <1>16, <1>19, <1>20, <2>1, <2>2
<1>21. CASE ~IsImport(s) /\ ~ServiceIsFilter(s)
  <2>1. UpdateCnt(s) = cnt + 1 /\ (Show(s) => shown' = Append(shown, s))
    BY <1>21 DEF UpdateCnt, Show
  <2>q. QED BY <1>9, <1>15, <1>17, <1>19, <1>21, <2>1
<1>q. QED BY <1>18, <1>20, <1>21

LEMMA PageWalks ==
  ASSUME PageAt, DoTask, NEW k \in DOMAIN Opens, NEW q \in 0 .. Len(FilesAt(k)), ShownAt(k, q),
         left = <<Walk(Opens[k].last, FilesFrom(k, q))>> \o From(k + 1)
  PROVE  PageGoes
<1>1. Head(left) = Walk(Opens[k].last, FilesFrom(k, q)) /\ Tail(left) = From(k + 1)
  BY WalkingLeft DEF PageAt
<1>2. Head(left).do = "walk" /\ Head(left).entries = FilesFrom(k, q)
  BY <1>1 DEF Walk
<1>3. CASE EndOfList
  <2>1. FilesFrom(k, q) = <<>> /\ left' = From(k + 1) /\ UNCHANGED <<cnt, more, shown, listed>>
    BY <1>1, <1>2, <1>3 DEF EndOfList, sessionVars
  <2>2. q = Len(FilesAt(k)) /\ k + 1 \in 1 .. Len(Opens) + 1 /\ From(k + 1) # <<>>
    BY <2>1, FilesNext, OpensFrom DEF PageAt
  <2>3. Passed(k + 1, 0) = Passed(k, q)
    BY <2>2, PassedAll DEF PageAt
  <2>4. Walking(left', k + 1, 0)
    BY <2>1, <2>2 DEF Walking
  <2>q. QED BY <2>1, <2>2, <2>3, <2>4, PageStays
<1>q. QED BY <1>2, <1>3, WhichTask, PageEntry

(* The rows come last.                                                     *)
RowsShown(n, next, list, unread) == n = Cardinality(Visible) /\ PageShows(list, n, IF next THEN {} ELSE VisibleRows \ unread)

LEMMA RowsAt ==
  ASSUME PageAt, NEW entries, left' = <<RowsLeft(entries), PrintOut>>,
         UNCHANGED <<cnt, more>>, RowsShown(cnt, more, listed' \o shown', ToSet(entries))
  PROVE  PageGoes
<1>1. PICK l, n, x, r : l = left' /\ n = cnt' /\ x = more' /\ r = listed' \o shown'
  OBVIOUS
<1>2. n = Cardinality(Visible) /\ PageShows(r, n, IF x THEN {} ELSE VisibleRows \ ToSet(entries))
      /\ l = <<RowsLeft(entries), PrintOut>> /\ (x <=> n >= asked.skip + asked.limit)
  BY <1>1 DEF PageAt, RowsShown
<1>3. Reached(l, n, x, r)
  BY <1>2 DEF Reached
<1>4. l # <<>>
  BY <1>2
<1>q. QED BY <1>1, <1>3, <1>4 DEF PageGoes

LEMMA PageQuery ==
  ASSUME PageAt, DoTask, ShownAt(Len(Opens) + 1, 0), left = <<Query, PrintOut>>
  PROVE  PageGoes
<1>1. left = <<Query>> \o <<PrintOut>> /\ IsSeq(<<PrintOut>>)
  BY SeqPair, SeqNone
<1>2. Head(left) = Query /\ Tail(left) = <<PrintOut>> /\ Query.do = "query"
  BY <1>1, SeqBefore DEF Query
<1>3. QueryRows
  BY <1>2, WhichTask
<1>4. left' = <<RowsLeft(Present(Rows))>> \o <<PrintOut>> /\ UNCHANGED <<cnt, more, shown, listed>>
  BY <1>2, <1>3 DEF QueryRows, RowsLeft, sessionVars
<1>5. Present(Rows) = Rows
  <2>1. Rows \in Seq(Deployed) /\ Alike(Rows)
    BY RowsOfCatalogue DEF PageAt, PageCase
  <2>q. QED BY <2>1, PresentOf DEF PageAt
<1>6. left' = <<RowsLeft(Rows), PrintOut>>
  BY <1>4, <1>5, SeqPair
<1>7. cnt = Cardinality(Visible)
  BY PassedAll DEF ShownAt, PageAt
<1>8. (IF more THEN {} ELSE VisibleRows \ ToSet(Rows)) = {}
  BY DEF VisibleRows
<1>9. RowsShown(cnt, more, listed \o shown, ToSet(Rows))
  BY <1>7, <1>8 DEF RowsShown, ShownAt
<1>q. QED BY <1>4, <1>6, <1>9, RowsAt

LEMMA RowsApart ==
  ASSUME PageCase, NEW s \in ToSet(Rows)
  PROVE  s \notin Visible
<1>1. s[1] = "db"
  BY RowsOfCatalogue DEF PageCase
<1>2. \A d \in DirsWalked : \A r \in ToSet(In(d)) : r[1] # "db"
  BY DirsWalkedIn, DirsOf, InOf DEF PageCase
<1>3. Walked = {r \in UNION {ToSet(In(d)) : d \in DirsWalked} : ~IsImport(r)}
  BY DEF Walked, DirsWalked
<1>q. QED BY <1>1, <1>2, <1>3 DEF Visible

LEMMA PageRow ==
  ASSUME PageAt, NEW entries, left = <<RowsLeft(entries), PrintOut>>,
         RowsShown(cnt, more, listed \o shown, ToSet(entries)), ReadRow
  PROVE  PageGoes
<1>. DEFINE t == Head(left)
            s == Head(t.entries)
            w == [t EXCEPT !.entries = Tail(@)]
<1>1. left = <<RowsLeft(entries)>> \o <<PrintOut>> /\ IsSeq(<<PrintOut>>)
  BY SeqPair, SeqNone
<1>2. t = RowsLeft(entries) /\ Tail(left) = <<PrintOut>>
  BY <1>1, SeqBefore
<1>3. t.do = "rows" /\ t.entries = entries
  BY <1>2 DEF RowsLeft
<1>4. entries # <<>> /\ UNCHANGED listed /\ s \notin gone
  BY <1>3 DEF ReadRow, sessionVars, PageAt
<1>5. /\ w = RowsLeft(Tail(entries)) /\ s \in ToSet(Rows) /\ s \notin ToSet(Tail(entries))
      /\ ToSet(entries) = {s} \union ToSet(Tail(entries))
  BY <1>3, <1>4, RowsOn DEF PageAt
<1>6. InPage <=> ~more
  <2>1. PICK a, b, c : a = cnt /\ b = asked.skip /\ c = asked.limit
    OBVIOUS
  <2>2. a \in Nat /\ b \in Nat /\ c \in Nat \ {0} /\ b <= a /\ (more <=> a >= b + c)
    BY <2>1 DEF PageAt, RowsShown
  <2>3. c # NoLimit
    BY <2>2 DEF NoLimit
  <2>4. InPage <=> a >= b /\ a < c + b
    BY <2>1, <2>3 DEF InPage, CompareCnt
  <2>5. a >= b /\ a < c + b <=> ~(a >= b + c)
    BY <2>2
  <2>q. QED BY <2>2, <2>4, <2>5
<1>7. left' = <<w>> \o <<PrintOut>> /\ UNCHANGED <<cnt, more>> /\ (IF InPage THEN Show(s) ELSE UNCHANGED shown)
  BY <1>2, <1>4 DEF ReadRow
<1>8. left' = <<RowsLeft(Tail(entries)), PrintOut>>
  BY <1>5, <1>7, SeqPair
<1>9. IsSeq(listed) /\ IsSeq(shown) /\ IsSeq(listed \o shown)
  BY SeqJoin DEF PageAt, ListCase
<1>10. listed \o Append(shown, s) = Append(listed \o shown, s)
  BY <1>9, JoinLast
<1>. HIDE DEF w, s, t
<1>11. PICK unread, first : unread = ToSet(Tail(entries)) /\ first = FirstOf(Upto(cnt, asked.skip, asked.limit))
  OBVIOUS
<1>12. /\ cnt = Cardinality(Visible) /\ Alike(listed \o shown)
       /\ ToSet(listed \o shown) = first \union (IF more THEN {} ELSE VisibleRows \ ToSet(entries))
  BY <1>11 DEF RowsShown, PageShows
<1>13. s \notin first
  BY <1>5, <1>11, RowsApart DEF FirstOf, PageAt
<1>14. CASE more
  <2>1. UNCHANGED shown
    BY <1>6, <1>7, <1>14
  <2>2. RowsShown(cnt, more, listed' \o shown', ToSet(Tail(entries)))
    BY <1>4, <1>11, <1>12, <1>14, <2>1 DEF RowsShown, PageShows
  <2>q. QED BY <1>7, <1>8, <2>2, RowsAt
<1>15. CASE ~more /\ ServiceIsFilter(s)
  <2>1. UNCHANGED shown
    BY <1>6, <1>7, <1>15 DEF Show, PageAt, PageCase
  <2>2. VisibleRows \ ToSet(entries) = VisibleRows \ ToSet(Tail(entries))
    BY <1>5, <1>15 DEF VisibleRows
  <2>3. RowsShown(cnt, more, listed' \o shown', ToSet(Tail(entries)))
    BY <1>4, <1>11, <1>12, <1>15, <2>1, <2>2 DEF RowsShown, PageShows
  <2>q. QED BY <1>7, <1>8, <2>3, RowsAt
<1>16. CASE ~more /\ ~ServiceIsFilter(s)
  <2>1. shown' = Append(shown, s)
    BY <1>6, <1>7, <1>16 DEF Show
  <2>2. VisibleRows \ ToSet(Tail(entries)) = (VisibleRows \ ToSet(entries)) \union {s}
    BY <1>5, <1>16 DEF VisibleRows
  <2>3. s \notin ToSet(listed \o shown)
    BY <1>5, <1>12, <1>13, <1>16
  <2>4. Alike(Append(listed \o shown, s)) /\ ToSet(Append(listed \o shown, s)) = ToSet(listed \o shown) \union {s}
    BY <1>9, <1>12, <2>3, SeqLast
  <2>5. PICK r : r = listed' \o shown'
    OBVIOUS
  <2>6. Alike(r) /\ ToSet(r) = first \union (VisibleRows \ ToSet(Tail(entries)))
    BY <1>4, <1>10, <1>12, <1>16, <2>1, <2>2, <2>4, <2>5
  <2>7. RowsShown(cnt, more, r, ToSet(Tail(entries)))
    BY <1>11, <1>12, <1>16, <2>6 DEF RowsShown, PageShows
  <2>q. QED BY <1>7, <1>8, <2>5, <2>7, RowsAt
<1>q. QED BY <1>14, <1>15, <1>16

LEMMA PageRows ==
  ASSUME PageAt, DoTask, NEW entries, left = <<RowsLeft(entries), PrintOut>>,
         RowsShown(cnt, more, listed \o shown, ToSet(entries))
  PROVE  PageGoes
<1>1. left = <<RowsLeft(entries)>> \o <<PrintOut>> /\ IsSeq(<<PrintOut>>)
  BY SeqPair, SeqNone
<1>2. Head(left) = RowsLeft(entries) /\ Tail(left) = <<PrintOut>>
  BY <1>1, SeqBefore
<1>3. Head(left).do = "rows" /\ Head(left).entries = entries
  BY <1>2 DEF RowsLeft
<1>4. CASE EndOfList
  <2>1. entries = <<>> /\ left' = <<PrintOut>> /\ UNCHANGED <<cnt, more, shown, listed>>
    BY <1>2, <1>3, <1>4 DEF EndOfList, sessionVars
  <2>2. ToSet(entries) = {}
    BY <2>1, SeqNone
  <2>3. VisibleRows \ ToSet(entries) = VisibleRows
    BY <2>2
  <2>4. PICK l, n, x, r : l = left' /\ n = cnt' /\ x = more' /\ r = listed' \o shown'
    OBVIOUS
  <2>5. n = Cardinality(Visible) /\ PageShows(r, n, IF x THEN {} ELSE VisibleRows)
        /\ l = <<PrintOut>> /\ (x <=> n >= asked.skip + asked.limit)
    BY <2>1, <2>3, <2>4 DEF PageAt, RowsShown
  <2>6. Reached(l, n, x, r) /\ l # <<>>
    BY <2>5 DEF Reached
  <2>q. QED BY <2>4, <2>6 DEF PageGoes
<1>q. QED BY <1>3, <1>4, WhichTask, PageRow

LEMMA PagePrinted ==
  ASSUME PageAt, DoTask, left = <<PrintOut>>, RowsShown(cnt, more, listed \o shown, {})
  PROVE  PageGoes
<1>1. Head(left) = PrintOut /\ PrintOut.do = "document"
  BY DEF PrintOut
<1>2. PrintDocument
  BY <1>1, WhichTask
<1>3. left' = <<>> /\ listed' = listed \o shown /\ UNCHANGED <<cnt, more>>
  BY <1>2 DEF PrintDocument, PageAt, PageCase
<1>4. PICK n, x, r : n = cnt' /\ x = more' /\ r = listed'
  OBVIOUS
<1>5. VisibleRows \ {} = VisibleRows
  OBVIOUS
<1>6. n = Cardinality(Visible) /\ PageShows(r, n, IF x THEN {} ELSE VisibleRows) /\ (x <=> n >= asked.skip + asked.limit)
  BY <1>3, <1>4, <1>5 DEF PageAt, RowsShown
<1>7. WholePage(n, x, r)
  BY <1>6 DEF WholePage
<1>q. QED BY <1>3, <1>4, <1>7 DEF PageGoes

(* A task of a page.                                                       *)
LEMMA PageTask ==
  ASSUME PageAt, DoTask, Reached(left, cnt, more, listed \o shown)
  PROVE  PageGoes
<1>1. ASSUME NEW k \in 1 .. Len(Opens) + 1, NEW q \in Nat, Walking(left, k, q), ShownAt(k, q)
      PROVE  PageGoes
  <2>1. CASE k = 1 /\ q = 0 /\ left = <<[do |-> "registry"]>> \o From(1)
    BY <1>1, <2>1, PageRegistry
  <2>2. CASE q = 0 /\ left = From(k)
    <3>1. CASE k \in DOMAIN Opens
      BY <1>1, <2>2, <3>1, PageOpens
    <3>2. CASE k = Len(Opens) + 1
      <4>1. left = <<Query, PrintOut>>
        BY <2>2, <3>2, FromOf DEF PageAt
      <4>q. QED BY <1>1, <2>2, <3>2, <4>1, PageQuery
    <3>q. QED BY <3>1, <3>2, FromOf DEF PageAt
  <2>3. CASE /\ k \in DOMAIN Opens /\ q \in 0 .. Len(FilesAt(k))
             /\ left = << Walk(Opens[k].last, [i \in 1 .. Len(FilesAt(k)) - q |-> FilesAt(k)[q + i]]) >> \o From(k + 1)
    BY <1>1, <2>3, PageWalks DEF FilesFrom
  <2>q. QED BY <1>1, <2>1, <2>2, <2>3 DEF Walking
<1>2. CASE cnt = Cardinality(Visible) /\ left = <<PrintOut>> /\ PageShows(listed \o shown, cnt, IF more THEN {} ELSE VisibleRows)
  <2>1. VisibleRows \ {} = VisibleRows
    OBVIOUS
  <2>q. QED BY <1>2, <2>1, PagePrinted DEF RowsShown
<1>3. ASSUME NEW entries, cnt = Cardinality(Visible), left = <<RowsLeft(entries), PrintOut>>,
             PageShows(listed \o shown, cnt, IF more THEN {} ELSE VisibleRows \ ToSet(entries))
      PROVE  PageGoes
  BY <1>3, PageRows DEF RowsShown
<1>q. QED BY <1>1, <1>2, <1>3 DEF Reached, ShownAt

LEMMA PageDo ==
  ASSUME ListsSound, PageInv, DoTask
  PROVE  PageInv'
<1>1. cat # Null /\ left # <<>> /\ UNCHANGED <<cat, gone, touched, asked>>
  BY DoTaskFrame
<1>2. CASE ~(asked.op = "list" /\ asked.limit # NoLimit /\ touched = {})
  BY <1>1, <1>2 DEF PageInv
<1>3. CASE asked.op = "list" /\ asked.limit # NoLimit /\ touched = {}
  <2>1. ListCase
    BY <1>1, <1>3, TaskOf DEF ListsSound
  <2>2. asked.protocol = "ogc" /\ cat \in Catalogues
    BY <1>1, <1>3, TaskOf DEF ListsSound, SearchSound, Order
  <2>3. asked.skip \in Nat /\ asked.limit \in Nat \ {0}
    BY <2>1, <1>3 DEF ListCase, RequestType
  <2>4. gone = {}
    BY <2>1, <1>3 DEF ListCase
  <2>5. asked.skip <= Cardinality(Visible) /\ Reached(left, cnt, more, listed \o shown)
    BY <1>1, <1>3 DEF PageInv
  <2>6. more <=> cnt >= asked.skip + asked.limit
    BY <2>5 DEF Reached
  <2>7. cnt \in Nat
    BY DEF ListsSound, SearchSound, SearchTypes
  <2>8. more \in BOOLEAN
    BY DEF ListsSound, SearchSound, SearchTypes
  <2>9. PageCase
    BY <1>3, <2>2 DEF PageCase
  <2>10. PageAt
    BY <2>1, <2>3, <2>4, <2>5, <2>6, <2>7, <2>8, <2>9 DEF PageAt
  <2>11. PageGoes
    BY <2>5, <2>10, PageTask
  <2>12. /\ \A tasks, n, next, list : Reached(tasks, n, next, list)' <=> Reached(tasks, n, next, list)
         /\ \A n, next, list : WholePage(n, next, list)' <=> WholePage(n, next, list)
         /\ Visible' = Visible
    BY <1>1, PageFrame, VisibleFrame
  <2>13. asked'.skip <= Cardinality(Visible')
    BY <1>1, <2>5, <2>12
  <2>14. left' # <<>> => Reached(left, cnt, more, listed \o shown)'
    BY <2>11, <2>12 DEF PageGoes
  <2>15. left' = <<>> /\ events' = <<"document">> => WholePage(cnt, more, listed)'
    BY <2>11, <2>12 DEF PageGoes
  <2>q. QED BY <2>13, <2>14, <2>15 DEF PageInv
<1>q. QED BY <1>2, <1>3

(* A page begins with the services of the pages before it.                 *)
PageStarts ==
  /\ PageCase /\ asked.limit \in Nat \ {0} /\ asked.skip \in Nat
  /\ left = <<[do |-> "registry"]>> \o ListTasks("list", "ogc")
  /\ cnt = 0 /\ ~more /\ shown = <<>> /\ IsSeq(listed) /\ events = <<>>
  /\ \/ asked.skip = 0 /\ listed = <<>>
     \/ asked.skip <= Cardinality(Visible) /\ Alike(listed) /\ ToSet(listed) = FirstOf(asked.skip)

LEMMA PageStart ==
  ASSUME PageStarts
  PROVE  PageInv
<1>1. PageCase /\ 1 \in 1 .. Len(Opens) + 1 /\ From(1) = Opens \o <<Query, PrintOut>>
  BY FromOf DEF PageStarts
<1>2. left = <<[do |-> "registry"]>> \o From(1)
  BY <1>1 DEF PageStarts, ListTasks, Opens
<1>3. Walking(left, 1, 0)
  BY <1>2 DEF Walking
<1>4. Passed(1, 0) = {} /\ FirstOf(0) = {} /\ Cardinality(Visible) \in Nat
  BY <1>1, PassedAll, VisibleFinite
<1>5. Cardinality({}) = 0
  BY FS_EmptySet
<1>6. asked.skip <= Cardinality(Visible) /\ Alike(listed) /\ ToSet(listed) = FirstOf(asked.skip)
  <2>1. CASE asked.skip = 0 /\ listed = <<>>
    <3>1. \A n \in Nat : 0 <= n
      OBVIOUS
    <3>2. asked.skip <= Cardinality(Visible)
      BY <1>4, <2>1, <3>1
    <3>3. Alike(listed) /\ ToSet(listed) = FirstOf(asked.skip)
      BY <1>4, <2>1, SeqNone
    <3>q. QED BY <3>2, <3>3
  <2>q. QED BY <2>1 DEF PageStarts
<1>7. listed \o shown = listed
  <2>1. listed \in Seq(ToSet(listed)) /\ shown = <<>>
    BY DEF PageStarts, IsSeq
  <2>q. QED BY <2>1
<1>8. Upto(0, asked.skip, asked.limit) = asked.skip
  <2>1. 0 \in Nat /\ asked.skip \in Nat /\ asked.limit \in Nat \union {-1} /\ asked.limit # -1
    BY DEF PageStarts
  <2>q. QED BY <2>1, UptoNext
<1>9. PageShows(listed \o shown, 0, {})
  BY <1>6, <1>7, <1>8 DEF PageShows
<1>10. ~(0 >= asked.skip + asked.limit)
  BY DEF PageStarts
<1>11. PICK n : n = cnt
  OBVIOUS
<1>12. n = 0
  BY <1>11 DEF PageStarts
<1>13. Reached(left, n, more, listed \o shown)
  <2>1. more <=> n >= asked.skip + asked.limit
    BY <1>10, <1>12 DEF PageStarts
  <2>2. n = Cardinality(Passed(1, 0)) /\ PageShows(listed \o shown, n, {})
    BY <1>4, <1>5, <1>9, <1>12
  <2>3. 0 \in Nat
    OBVIOUS
  <2>q. QED BY <1>1, <1>3, <2>1, <2>2, <2>3 DEF Reached
<1>14. events # <<"document">>
  BY DEF PageStarts
<1>q. QED BY <1>6, <1>11, <1>13, <1>14 DEF PageInv

LEMMA PageStartNext == (PageStarts => PageInv)'
<1>1. PageStarts => PageInv
  BY PageStart
<1>q. QED BY <1>1, PTL

LEMMA PageAsk ==
  ASSUME ListsSound, PageInv, AskNext
  PROVE  PageInv'
<1>1. PICK request, tasks :
        /\ cat # Null /\ left = <<>> /\ Asks(request, tasks) /\ Serve(request, tasks)
        /\ UNCHANGED <<touched, listed, described, ran>>
  BY AsksWhat DEF ListsSound
<1>2. /\ asked' = request /\ left' = <<[do |-> "registry"]>> \o tasks
      /\ shown' = <<>> /\ events' = <<>> /\ cnt' = 0 /\ more' = FALSE
      /\ UNCHANGED <<cat, gone, touched, listed>>
  BY <1>1 DEF Serve
<1>3. CASE ~(request.op = "list" /\ request.limit # NoLimit /\ touched = {})
  BY <1>2, <1>3 DEF PageInv
<1>4. CASE request.op = "list" /\ request.limit # NoLimit /\ touched = {}
  <2>1. /\ request.protocol \in {"wps", "ogc"} /\ request \in RequestType /\ request.protocol # "wps"
        /\ AsksList(request) /\ tasks = ListTasks(request.op, request.protocol)
    BY <1>1, <1>4, AsksProper DEF ListsSound
  <2>2. cat \in Catalogues /\ IsSeq(listed)
    BY <1>1 DEF ListsSound, SearchSound, SearchTypes
  <2>3. request.protocol = "ogc" /\ request.limit \in Nat \ {0} /\ request.skip \in Nat
    BY <1>4, <2>1 DEF RequestType
  <2>4. PageCase'
    BY <1>2, <1>4, <2>2, <2>3 DEF PageCase
  <2>5. tasks = ListTasks("list", "ogc")'
    BY <1>2, <1>4, <2>1, <2>3, ListTasksFrame
  <2>6. \/ request.skip = 0 /\ listed = <<>>
        \/ /\ request.skip <= Cardinality(Visible') /\ Alike(listed)
           /\ ToSet(listed) = FirstOf(request.skip)'
    <3>1. CASE asked = NoRequest /\ request.skip = 0
      BY <3>1 DEF NoRequest, ListsSound, SearchSound, Order
    <3>2. CASE /\ asked.op = "list" /\ asked.protocol = "ogc" /\ asked.limit # NoLimit
               /\ more /\ events = <<"document">>
               /\ request = Asking("list", "ogc", <<>>, asked.skip + asked.limit, asked.limit)
      <4>1. request.skip = asked.skip + asked.limit
        BY <3>2, AskingOf
      <4>2. WholePage(cnt, more, listed)
        BY <1>1, <1>4, <3>2 DEF PageInv
      <4>3. PICK n, a, b : n = cnt /\ a = asked.skip /\ b = asked.limit
        OBVIOUS
      <4>4. n \in Nat /\ a \in Nat /\ b \in Nat \ {0}
        <5>1. n \in Nat
          BY <4>3 DEF ListsSound, SearchSound, SearchTypes
        <5>2. asked \in RequestType
          BY <1>1 DEF ListsSound, SearchSound, SearchTypes
        <5>3. a \in Nat /\ b \in Nat \ {0}
          BY <3>2, <4>3, <5>2 DEF RequestType
        <5>q. QED BY <5>1, <5>3
      <4>5. n = Cardinality(Visible) /\ n >= a + b /\ Alike(listed) /\ ToSet(listed) = FirstOf(Upto(n, a, b)) \union {}
        BY <3>2, <4>2, <4>3 DEF WholePage, PageShows
      <4>6. Upto(n, a, b) = a + b
        BY <4>4, <4>5 DEF Upto
      <4>7. a + b <= n
        BY <4>4, <4>5
      <4>8. Visible' = Visible /\ FirstOf(request.skip)' = FirstOf(request.skip)
        <5>1. Visible' = Visible /\ \A x : FirstOf(x)' = FirstOf(x)
          BY <1>2, <1>4, <2>3, <3>2, VisibleFrame
        <5>q. QED BY <5>1
      <4>q. QED BY <4>1, <4>3, <4>5, <4>6, <4>7, <4>8
    <3>3. ASSUME NEW limit, request = Asking("list", "ogc", <<>>, 0, limit) PROVE request.skip = 0
      BY <3>3, AskingOf
    <3>4. ASSUME NEW op, request = Asking(op, "wps", <<>>, 0, NoLimit) PROVE FALSE
      BY <1>4, <3>4, AskingOf
    <3>q. QED BY <2>1, <3>1, <3>2, <3>3, <3>4 DEF AsksList
  <2>7. IsSeq(listed)'
    BY <1>2, <2>2 DEF IsSeq
  <2>8. /\ asked'.limit \in Nat \ {0} /\ asked'.skip \in Nat /\ left' = <<[do |-> "registry"]>> \o ListTasks("list", "ogc")'
        /\ cnt' = 0 /\ ~more' /\ shown' = <<>> /\ events' = <<>>
    BY <1>2, <2>3, <2>5
  <2>9. \/ asked'.skip = 0 /\ listed' = <<>>
        \/ asked'.skip <= Cardinality(Visible') /\ Alike(listed') /\ ToSet(listed') = FirstOf(asked.skip)'
    BY <1>2, <2>6
  <2>10. PageStarts'
    BY <2>4, <2>7, <2>8, <2>9 DEF PageStarts, Alike
  <2>q. QED BY <2>10, PageStartNext
<1>q. QED BY <1>3, <1>4

LEMMA PageClosed ==
  ASSUME asked = NoRequest
  PROVE  PageInv
  BY DEF PageInv, NoRequest

LEMMA PageStep == ListsSound /\ PageInv /\ [Next]_kernelState => PageInv'
<1>1. SUFFICES ASSUME ListsSound, PageInv, [Next]_kernelState PROVE PageInv'
  OBVIOUS
<1>2. CASE AskNext
  BY <1>1, <1>2, PageAsk
<1>3. CASE DoTask
  BY <1>1, <1>3, PageDo
<1>4. CASE OpenOrClose
  <2>1. asked' = NoRequest
    BY <1>1, <1>4 DEF OpenOrClose, OpenCatalogue, CloseCatalogue, ListsSound, SearchSound, Order, Closed
  <2>2. asked'.op # "list"
    BY <2>1 DEF NoRequest
  <2>q. QED BY <2>2 DEF PageInv
<1>5. CASE DeployOrUndeploy
  <2>1. touched' # {}
    BY <1>5 DEF DeployOrUndeploy
  <2>q. QED BY <2>1 DEF PageInv
<1>6. CASE UNCHANGED catVars
  <2>1. UNCHANGED <<cat, touched, asked, left, cnt, more, shown, events, listed>>
    BY <1>6 DEF catVars
  <2>2. /\ \A tasks, n, next, list : Reached(tasks, n, next, list)' <=> Reached(tasks, n, next, list)
        /\ \A n, next, list : WholePage(n, next, list)' <=> WholePage(n, next, list)
        /\ Visible' = Visible
    BY <2>1, PageFrame, VisibleFrame
  <2>3. Reached(left, cnt, more, listed \o shown)' <=> Reached(left, cnt, more, listed \o shown)
    BY <2>1, <2>2
  <2>4. WholePage(cnt, more, listed)' <=> WholePage(cnt, more, listed)
    BY <2>1, <2>2
  <2>q. QED BY <1>1, <2>1, <2>2, <2>3, <2>4 DEF PageInv
<1>q. QED BY <1>1, <1>2, <1>3, <1>4, <1>5, <1>6, SearchSteps

-----------------------------------------------------------------------------
LEMMA OnceIn ==
  ASSUME NEW list, Alike(list), NEW s \in ToSet(list)
  PROVE  Cardinality({i \in DOMAIN list : list[i] = s}) = 1
<1>1. PICK k \in DOMAIN list : list[k] = s
  BY DEF ToSet
<1>2. {i \in DOMAIN list : list[i] = s} = {k}
  BY <1>1 DEF Alike
<1>q. QED BY <1>2, FS_Singleton

LEMMA PagesAreWhole ==
  ASSUME ListsSound, PageInv, Listed, asked.limit # NoLimit, touched = {}
  PROVE  Alike(listed) /\ Listable \subseteq ToSet(listed)
<1>1. /\ cat \in Catalogues /\ asked \in RequestType /\ asked.op = "list" /\ asked.protocol = "ogc"
      /\ left = <<>> /\ events = <<"document">> /\ ~more
  <2>1. cat # Null /\ asked.op \in {"list", "all"} /\ left = <<>> /\ events = <<"document">> /\ ~more
    BY DEF Listed
  <2>2. cat \in Catalogues /\ asked \in RequestType
    BY <2>1 DEF ListsSound, SearchSound, SearchTypes
  <2>3. asked.op = "list" /\ asked.protocol = "ogc"
    BY <2>1 DEF ListsSound, SearchSound, Order
  <2>q. QED BY <2>1, <2>2, <2>3
<1>2. PICK n, a, b : n = cnt /\ a = asked.skip /\ b = asked.limit
  OBVIOUS
<1>3. n \in Nat
  BY <1>2 DEF ListsSound, SearchSound, SearchTypes
<1>4. a \in Nat /\ b \in Nat \ {0}
  BY <1>1, <1>2 DEF RequestType
<1>5. WholePage(cnt, more, listed) /\ a <= Cardinality(Visible)
  BY <1>1, <1>2 DEF PageInv
<1>6. n = Cardinality(Visible) /\ ~(n >= a + b) /\ Alike(listed) /\ ToSet(listed) = FirstOf(Upto(n, a, b)) \union VisibleRows
  BY <1>1, <1>2, <1>5 DEF WholePage, PageShows
<1>7. Upto(n, a, b) = n
  BY <1>3, <1>4, <1>5, <1>6 DEF Upto
<1>8. FirstOf(n) = Visible
  <2>1. PageCase
    BY <1>1 DEF PageCase
  <2>2. Passed(Len(Opens) + 1, 0) = Visible /\ Len(Opens) + 1 \in Nat /\ 0 \in Nat
    BY <2>1, PassedAll, OpensOf
  <2>q. QED BY <1>6, <2>1, <2>2, FirstOfPassed
<1>9. Listable = Visible \union VisibleRows
  BY <1>1 DEF Listable, Visible, VisibleRows
<1>q. QED BY <1>6, <1>7, <1>8, <1>9

(* A client that reads a list finds every service once, in one answer or   *)
(* along the next links of its pages (ListedOnce), for every catalogue and *)
(* every limit.                                                            *)
THEOREM ServicesAreListedOnce == Spec => []ListedOnce
<1>1. Init => ListsSound /\ PageInv
  <2>1. Init => Closed
    BY DEF Init
  <2>2. Closed => asked = NoRequest
    BY DEF Closed
  <2>q. QED BY <2>1, <2>2, SearchClosed, PageClosed
<1>2. ListsSound /\ PageInv /\ [Next]_kernelState => (ListsSound /\ PageInv)'
  BY ListsStep, PageStep
<1>3. ListsSound /\ PageInv => ListedOnce
  <2>1. SUFFICES ASSUME ListsSound, PageInv, Listed PROVE
          /\ ToSet(listed) \subseteq Listable
          /\ \A s \in Listable \ touched : touched = {} \/ asked.limit = NoLimit => Occurrences(s) = 1
    BY DEF ListedOnce
  <2>2. asked.op \in {"list", "all"} /\ left = <<>> /\ events = <<"document">>
    BY <2>1 DEF Listed
  <2>3. ToSet(listed) \subseteq Listable
    BY <2>1, <2>2 DEF ListsSound, SearchSound, ListInv
  <2>4. ASSUME NEW s \in Listable \ touched, touched = {} \/ asked.limit = NoLimit
        PROVE  Occurrences(s) = 1
    <3>1. Alike(listed) /\ s \in ToSet(listed)
      <4>1. CASE asked.limit = NoLimit
        BY <2>1, <2>2, <4>1 DEF ListsSound, OneAnswer
      <4>2. CASE asked.limit # NoLimit
        BY <2>1, <2>4, <4>2, PagesAreWhole
      <4>q. QED BY <4>1, <4>2
    <3>q. QED BY <3>1, OnceIn DEF Occurrences
  <2>q. QED BY <2>3, <2>4
<1>q. QED BY <1>1, <1>2, <1>3, PTL DEF Spec

-----------------------------------------------------------------------------
(* What a list that was read holds, when nothing was deployed meanwhile.   *)

LEMMA RegistryFrame ==
  ASSUME UNCHANGED cat
  PROVE  RegistryMade' = RegistryMade /\ (RegistryOK' <=> RegistryOK)
<1>1. RegistryMade' = RegistryMade
  BY DEF RegistryMade, NoRegistry
<1>q. QED BY <1>1 DEF RegistryOK

LEMMA RegistryTask ==
  ASSUME MakeRegistry
  PROVE  /\ UNCHANGED <<cat, gone, touched, asked, cnt, more, shown, listed, described, ran>>
         /\ \/ events' = <<>> /\ left' = Tail(left) /\ RegistryOK /\ registry' = RegistryMade
            \/ events' \in {<<"exception">>, <<"died">>} /\ left' = <<>> /\ ~RegistryOK
               /\ (cat.registry = "missing" \/ events' = <<"died">>)
<1>1. UNCHANGED <<cat, gone, touched, asked, cnt, more, shown, listed, described, ran>>
  BY DEF MakeRegistry
<1>2. registry' = RegistryMade
  BY DEF MakeRegistry, RegistryMade
<1>3. \/ cat.registry = "missing" /\ events' = <<"exception">>
      \/ cat.registry # "missing" /\ ~registry'.ends /\ events' = <<"died">>
      \/ cat.registry # "missing" /\ registry'.ends /\ events' = <<>>
  <2>1. events' = CASE cat.registry = "missing" -> <<"exception">>
                    [] ~registry'.ends -> <<"died">>
                    [] OTHER -> <<>>
    BY DEF MakeRegistry
  <2>3. CASE cat.registry = "missing"
    <3>1. registry'.ends
      BY <2>3 DEF MakeRegistry, NoRegistry
    <3>q. QED BY <2>1, <2>3, <3>1
  <2>4. CASE cat.registry # "missing" /\ ~registry'.ends
    BY <2>1, <2>4
  <2>5. CASE cat.registry # "missing" /\ registry'.ends
    BY <2>1, <2>5
  <2>q. QED BY <2>3, <2>4, <2>5
<1>5. left' = IF events' = <<>> THEN Tail(left) ELSE <<>>
  BY DEF MakeRegistry
<1>4. <<"exception">> # <<>> /\ <<"died">> # <<>>
  OBVIOUS
<1>q. QED BY <1>1, <1>2, <1>3, <1>4, <1>5 DEF RegistryOK

(* A list of /processes does not stop before its document.                 *)
LEMMA NeverStops ==
  ASSUME ListCase, DoTask, gone = {}, asked.protocol = "ogc", Head(left).do # "registry"
  PROVE  (\E new : GoesOn(new)) \/ Prints
<1>1. ~Task("lookup") /\ ~Task("match") /\ ~Task("fetch") /\ ~Task("import") /\ ~Task("registry")
  BY FirstTask DEF Source, Task
<1>2. \A s : Inherits(s)
  BY DEF Inherits, ListCase
<1>3. asked.op # "describe"
  BY DEF ListCase
<1>4. IsSeq(Tail(left))
  BY SeqFirst DEF ListCase
<1>5. \A t : <<t>> \o Tail(left) # <<>>
  BY <1>4, SeqBefore
<1>6. CASE ReadEntry
  <2>1. \E t : left' = <<t>> \o Tail(left)
    BY <1>2, <1>6 DEF ReadEntry
  <2>q. QED BY <1>5, <1>6, <2>1, EntryStep DEF Stops
<1>7. CASE ReadRow
  <2>1. \E t : left' = <<t>> \o Tail(left)
    BY <1>7 DEF ReadRow
  <2>q. QED BY <1>5, <1>7, <2>1, RowStep DEF Stops
<1>8. CASE PrintDocument
  BY <1>3, <1>8 DEF PrintDocument, Task, Say, Prints
<1>q. QED BY <1>1, <1>6, <1>7, <1>8, OpenStep, QueryStep, EndStep
      DEF DoTask, MakeRegistry, ReadImport, Lookup, Match, Fetch

LEMMA QuietDo ==
  ASSUME ListsSound, Quiet, DoTask
  PROVE  Quiet'
<1>1. cat # Null /\ left # <<>> /\ UNCHANGED <<cat, gone, touched, asked>>
  BY DoTaskFrame
<1>2. CASE ~(asked.op \in {"list", "all"} /\ touched = {})
  BY <1>1, <1>2 DEF Quiet
<1>3. CASE asked.op \in {"list", "all"} /\ touched = {}
  <2>1. ListCase /\ asked.protocol \in {"wps", "ogc"}
    BY <1>1, <1>3, TaskOf DEF ListsSound
  <2>2. gone = {}
    BY <1>3, <2>1 DEF ListCase
  <2>3. RegistryOK' <=> RegistryOK
    BY <1>1, RegistryFrame
  <2>4. events = <<>> /\ (Head(left).do # "registry" => RegistryOK) /\ (listed # <<>> => RegistryOK)
    BY <1>1, <1>3 DEF Quiet
  <2>5. asked.protocol = "wps" => listed = <<>>
    BY <1>1, <1>3 DEF ListsSound, SearchSound, Order, OneAnswer
  <2>6. CASE Head(left).do = "registry"
    <3>1. MakeRegistry
      BY <2>6, WhichTask
    <3>2. UNCHANGED listed /\ (RegistryOK => events' = <<>> /\ left' = Tail(left))
      BY <3>1, RegistryTask
    <3>3. left' # <<>> => events' = <<>> /\ RegistryOK
      BY <3>1, RegistryTask
    <3>4. listed # <<>> => left' # <<>>
      <4>1. Tail(left) # <<>>
        BY <2>1, <2>6, FirstTask
      <4>q. QED BY <2>4, <3>2, <4>1
    <3>q. QED BY <2>3, <2>4, <3>2, <3>3, <3>4 DEF Quiet
  <2>7. ASSUME NEW new, GoesOn(new), Head(left).do # "registry" PROVE Quiet'
    <3>1. left' # <<>>
      BY <2>1, <2>7, LeftNext
    <3>2. UNCHANGED <<events, listed>>
      BY <2>2, <2>7 DEF GoesOn
    <3>q. QED BY <2>3, <2>4, <2>7, <3>1, <3>2 DEF Quiet
  <2>8. CASE Stops /\ Head(left).do # "registry" /\ asked.protocol = "wps"
    <3>1. left' = <<>> /\ listed' = <<>>
      BY <2>5, <2>8 DEF Stops
    <3>q. QED BY <3>1 DEF Quiet
  <2>9. CASE Prints /\ Head(left).do # "registry"
    <3>1. left' = <<>> /\ events' = <<"document">>
      BY <2>4, <2>9 DEF Prints
    <3>q. QED BY <2>3, <2>4, <2>9, <3>1 DEF Quiet
  <2>q. QED BY <2>1, <2>2, <2>6, <2>7, <2>8, <2>9, ListSteps, NeverStops
<1>q. QED BY <1>2, <1>3

LEMMA QuietAsk ==
  ASSUME ListsSound, Quiet, AskNext
  PROVE  Quiet'
<1>1. PICK request, tasks :
        /\ cat # Null /\ left = <<>> /\ Asks(request, tasks) /\ Serve(request, tasks)
        /\ UNCHANGED <<touched, listed, described, ran>>
  BY AsksWhat DEF ListsSound
<1>2. /\ asked' = request /\ left' = <<[do |-> "registry"]>> \o tasks
      /\ events' = <<>> /\ UNCHANGED <<cat, touched, listed>>
  BY <1>1 DEF Serve
<1>3. CASE ~(request.op \in {"list", "all"} /\ touched = {})
  BY <1>2, <1>3 DEF Quiet
<1>4. CASE request.op \in {"list", "all"} /\ touched = {}
  <2>1. AsksList(request) /\ IsSeq(tasks)
    BY <1>1, <1>4, AsksProper DEF ListsSound
  <2>2. left' # <<>> /\ Head(left') = [do |-> "registry"]
    BY <1>2, <2>1, SeqBefore
  <2>3. listed = <<>> \/ RegistryOK
    <3>1. asked = NoRequest => listed = <<>>
      BY DEF NoRequest, ListsSound, SearchSound, Order
    <3>2. asked.op = "list" => (listed # <<>> => RegistryOK)
      BY <1>4 DEF Quiet
    <3>q. QED BY <2>1, <3>1, <3>2 DEF AsksList
  <2>4. RegistryOK' <=> RegistryOK
    BY <1>2, RegistryFrame
  <2>q. QED BY <1>2, <2>2, <2>3, <2>4 DEF Quiet
<1>q. QED BY <1>3, <1>4

LEMMA QuietStep == ListsSound /\ Quiet /\ [Next]_kernelState => Quiet'
<1>1. SUFFICES ASSUME ListsSound, Quiet, [Next]_kernelState PROVE Quiet'
  OBVIOUS
<1>2. CASE AskNext
  BY <1>1, <1>2, QuietAsk
<1>3. CASE DoTask
  BY <1>1, <1>3, QuietDo
<1>4. CASE OpenOrClose
  <2>1. asked' = NoRequest
    BY <1>1, <1>4 DEF OpenOrClose, OpenCatalogue, CloseCatalogue, ListsSound, SearchSound, Order, Closed
  <2>2. asked'.op \notin {"list", "all"}
    BY <2>1 DEF NoRequest
  <2>q. QED BY <2>2 DEF Quiet
<1>5. CASE DeployOrUndeploy
  <2>1. touched' # {}
    BY <1>5 DEF DeployOrUndeploy
  <2>q. QED BY <2>1 DEF Quiet
<1>6. CASE UNCHANGED catVars
  <2>1. UNCHANGED <<cat, touched, asked, left, events, listed>>
    BY <1>6 DEF catVars
  <2>2. RegistryOK' <=> RegistryOK
    BY <2>1, RegistryFrame
  <2>q. QED BY <1>1, <2>1, <2>2 DEF Quiet
<1>q. QED BY <1>1, <1>2, <1>3, <1>4, <1>5, <1>6, SearchSteps

LEMMA EverythingFrame ==
  ASSUME UNCHANGED cat
  PROVE  \A protocol : Everything(protocol)' = Everything(protocol)
<1>1. /\ Rows' = Rows /\ ConfDir' = ConfDir
      /\ \A dir : In(dir)' = In(dir)
      /\ \A dir : GetServicesNamespacePath(dir)' = GetServicesNamespacePath(dir)
      /\ \A s : IsImport(s)' <=> IsImport(s)
      /\ \A s : ServiceIsFilter(s)' <=> ServiceIsFilter(s)
  BY CatFrame
<1>q. QED BY <1>1 DEF Everything

LEMMA ListableIs ==
  ASSUME asked.op = "list"
  PROVE  Listable = Everything(asked.protocol)
  BY DEF Listable, Walked, Everything

LEMMA ListedAll ==
  ASSUME ListsSound, PageInv, Listed, touched = {}
  PROVE  ToSet(listed) = Listable
<1>1. asked.op \in {"list", "all"} /\ left = <<>> /\ events = <<"document">>
  BY DEF Listed
<1>2. ToSet(listed) \subseteq Listable
  BY <1>1 DEF ListsSound, SearchSound, ListInv
<1>3. CASE asked.limit = NoLimit
  BY <1>1, <1>2, <1>3 DEF ListsSound, OneAnswer
<1>4. CASE asked.limit # NoLimit
  BY <1>2, <1>4, PagesAreWhole
<1>q. QED BY <1>3, <1>4

LEMMA WholeListAsk ==
  ASSUME ListsSound, PageInv, Quiet, WholeList, AskNext
  PROVE  WholeList'
<1>1. PICK request, tasks :
        /\ cat # Null /\ left = <<>> /\ Asks(request, tasks) /\ Serve(request, tasks)
        /\ UNCHANGED <<touched, listed, described, ran>>
  BY AsksWhat DEF ListsSound
<1>2. asked' = request /\ UNCHANGED <<cat, touched, listed>>
  BY <1>1 DEF Serve
<1>3. \A protocol : Everything(protocol)' = Everything(protocol)
  BY <1>2, EverythingFrame
<1>4. SUFFICES ASSUME request.op \in {"describe", "execute"}, touched = {}, listed # <<>>
               PROVE  ToSet(listed) = Everything(request.protocol)
  BY <1>2, <1>3 DEF WholeList
<1>5. CASE request.op = "describe"
  <2>1. AsksDescription(request)
    BY <1>1, <1>5, AsksProper DEF ListsSound
  <2>2. asked # NoRequest
    BY <1>4 DEF NoRequest, ListsSound, SearchSound, Order
  <2>3. ~more /\ asked.op = "list" /\ request.protocol = asked.protocol
    BY <2>1, <2>2, AskingOf DEF AsksDescription
  <2>4. events = <<"document">>
    BY <1>1, <1>4, <2>3 DEF Quiet
  <2>5. Listed
    BY <1>1, <2>3, <2>4 DEF Listed
  <2>q. QED BY <1>4, <2>3, <2>5, ListedAll, ListableIs
<1>6. CASE request.op = "execute"
  <2>1. AsksExecution(request)
    BY <1>1, <1>6, AsksProper DEF ListsSound
  <2>2. asked.op = "describe" /\ request.protocol = asked.protocol
    BY <2>1, AskingOf DEF AsksExecution
  <2>q. QED BY <1>4, <2>2 DEF WholeList
<1>q. QED BY <1>4, <1>5, <1>6

LEMMA WholeListStep == ListsSound /\ PageInv /\ Quiet /\ WholeList /\ [Next]_kernelState => WholeList'
<1>1. SUFFICES ASSUME ListsSound, PageInv, Quiet, WholeList, [Next]_kernelState PROVE WholeList'
  OBVIOUS
<1>2. CASE AskNext
  BY <1>1, <1>2, WholeListAsk
<1>3. ASSUME UNCHANGED <<cat, touched, asked, listed>> PROVE WholeList'
  <2>1. \A protocol : Everything(protocol)' = Everything(protocol)
    BY <1>3, EverythingFrame
  <2>q. QED BY <1>1, <1>3, <2>1 DEF WholeList
<1>4. CASE DoTask
  <2>1. UNCHANGED <<cat, touched, asked>>
    BY <1>4, DoTaskFrame
  <2>2. UNCHANGED listed \/ asked.op \in {"list", "all"}
    BY <1>1, <1>4, ResultsNext DEF ListsSound
  <2>q. QED BY <1>3, <2>1, <2>2 DEF WholeList
<1>5. CASE OpenOrClose
  <2>1. asked' = NoRequest
    BY <1>1, <1>5 DEF OpenOrClose, OpenCatalogue, CloseCatalogue, ListsSound, SearchSound, Order, Closed
  <2>2. asked'.op \notin {"describe", "execute"}
    BY <2>1 DEF NoRequest
  <2>q. QED BY <2>2 DEF WholeList
<1>6. CASE DeployOrUndeploy
  <2>1. touched' # {}
    BY <1>6 DEF DeployOrUndeploy
  <2>q. QED BY <2>1 DEF WholeList
<1>7. CASE UNCHANGED catVars
  BY <1>3, <1>7 DEF catVars
<1>q. QED BY <1>1, <1>2, <1>4, <1>5, <1>6, <1>7, SearchSteps

-----------------------------------------------------------------------------
(* Searches, when nothing was deployed and the identifier is not ambiguous. *)
SearchCase ==
  /\ cat \in Catalogues /\ asked.protocol \in {"wps", "ogc"}
  /\ Clear /\ gone = {}
  /\ asked.id \in Identifiers /\ asked.id \in Seq(ToSet(asked.id)) /\ asked.id # <<>>
  /\ Len(asked.id) \in Nat /\ Len(asked.id) >= 1

LEMMA SearchCaseOf ==
  ASSUME SearchSound, cat # Null, asked.op \in {"describe", "execute"}, Clear
  PROVE  SearchCase
<1>1. cat \in Catalogues /\ asked \in RequestType /\ asked.id \in Identifiers /\ asked.protocol \in {"wps", "ogc"}
  BY DEF SearchSound, SearchTypes, Order
<1>2. asked.id \in Seq(ToSet(asked.id)) /\ Len(asked.id) \in Nat /\ Len(asked.id) >= 1
  BY <1>1, IdentifiersOf
<1>3. asked.id # <<>>
  <2>1. Len(asked.id) # 0
    BY <1>2
  <2>2. Len(<<>>) = 0
    OBVIOUS
  <2>q. QED BY <2>1, <2>2
<1>4. gone = {}
  BY DEF SearchSound, SearchTypes, Clear
<1>q. QED BY <1>1, <1>2, <1>3, <1>4 DEF SearchCase

(* What is there, and the rows.                                            *)
LEMMA ThereOf ==
  ASSUME SearchCase
  PROVE  /\ HasRow(asked.id) <=> asked.id \in ToSet(cat.rows)
         /\ Imported(asked.id) => asked.id \notin ToSet(cat.rows)
         /\ Len(asked.id) > 1 => asked.id \notin ToSet(cat.rows)
         /\ \A s : IsThere(s) <=> (s[1] # "db" => s[2] \in ToSet(cat.dirs[s[1]]))
         /\ Len(asked.id) > 1 <=> Len(asked.id) # 1
<1>1. Len(asked.id) > 1 <=> Len(asked.id) # 1
  <2>1. \A n \in Nat : n >= 1 => (n > 1 <=> n # 1)
    OBVIOUS
  <2>q. QED BY <2>1 DEF SearchCase
<1>q. QED BY <1>1 DEF SearchCase, HasRow, IsThere, Clear, Ambiguous

(* What is found has the last name of the identifier.                      *)
LEMMA FoundCases ==
  ASSUME SearchCase, NEW dir \in DOMAIN cat.dirs
  PROVE  \/ /\ asked.id \in ToSet(cat.rows) /\ ~Imported(asked.id)
            /\ FoundIn(dir, asked.id) = <<DbRow(asked.id)>> /\ Find(dir, asked.id) = DbRow(asked.id)
            /\ IsThere(DbRow(asked.id))
         \/ /\ asked.id \notin ToSet(cat.rows) /\ Imported(asked.id)
            /\ FoundIn(dir, asked.id) = <<cat.imports[asked.id[1]]>>
            /\ Find(dir, asked.id) = cat.imports[asked.id[1]] /\ IsThere(cat.imports[asked.id[1]])
         \/ /\ asked.id \notin ToSet(cat.rows) /\ ~Imported(asked.id) /\ asked.id \in ToSet(cat.dirs[dir])
            /\ FoundIn(dir, asked.id) = << <<dir, asked.id>> >>
            /\ Find(dir, asked.id) = <<dir, asked.id>> /\ IsThere(<<dir, asked.id>>)
         \/ /\ asked.id \notin ToSet(cat.rows) /\ ~Imported(asked.id) /\ asked.id \notin ToSet(cat.dirs[dir])
            /\ FoundIn(dir, asked.id) = <<>>
            /\ Find(dir, asked.id) = <<dir, asked.id>> /\ ~IsThere(<<dir, asked.id>>)
<1>. DEFINE id == asked.id
<1>1. HasRow(id) <=> id \in ToSet(cat.rows)
  BY ThereOf
<1>2. CASE id \in ToSet(cat.rows)
  <2>1. ~Imported(id) /\ HasRow(id)
    BY <1>1, <1>2, ThereOf
  <2>2. IsThere(DbRow(id))
    BY ThereOf DEF DbRow
  <2>q. QED BY <1>2, <2>1, <2>2 DEF FoundIn, Find
<1>3. CASE id \notin ToSet(cat.rows) /\ Imported(id)
  <2>1. IsThere(cat.imports[id[1]])
    <3>1. id[1] \in DOMAIN cat.imports
      BY <1>3 DEF Imported
    <3>2. cat.imports[id[1]][2] \in ToSet(cat.dirs[cat.imports[id[1]][1]])
      BY <3>1, ImportOf DEF SearchCase
    <3>q. QED BY <3>2, ThereOf
  <2>q. QED BY <1>1, <1>3, <2>1 DEF FoundIn, Find
<1>4. CASE id \notin ToSet(cat.rows) /\ ~Imported(id)
  <2>1. IsThere(<<dir, id>>) <=> id \in ToSet(cat.dirs[dir])
    <3>1. dir # "db"
      BY DirsOf DEF SearchCase
    <3>q. QED BY <3>1, ThereOf
  <2>2. Find(dir, id) = <<dir, id>>
    BY <1>1, <1>4 DEF Find
  <2>q. QED BY <1>4, <2>1, <2>2 DEF FoundIn
<1>q. QED BY <1>2, <1>3, <1>4

LEMMA FoundOne ==
  ASSUME SearchCase, NEW dir \in DOMAIN cat.dirs
  PROVE  /\ FoundIn(dir, asked.id) = <<>> <=> ~IsThere(Find(dir, asked.id))
         /\ IsThere(Find(dir, asked.id)) => FoundIn(dir, asked.id) = <<Find(dir, asked.id)>>
         /\ asked.protocol = "ogc" /\ IsThere(Find(dir, asked.id)) => ~ServiceIsFilter(Find(dir, asked.id))
<1>. DEFINE id == asked.id
            s  == Find(dir, id)
<1>1. \A x : <<x>> # <<>>
  OBVIOUS
<1>2. /\ FoundIn(dir, id) = <<>> <=> ~IsThere(s)
      /\ IsThere(s) => FoundIn(dir, id) = <<s>>
  BY <1>1, FoundCases
<1>3. IsThere(s) => Last(s[2]) = Last(id)
  <2>1. CASE s = DbRow(id) \/ s = <<dir, id>>
    BY <2>1 DEF DbRow
  <2>2. CASE Imported(id) /\ s = cat.imports[id[1]]
    <3>1. Last(s[2]) = id[1] /\ Len(id) = 1
      BY <2>2, ImportOf DEF Imported, SearchCase
    <3>q. QED BY <3>1 DEF Last
  <2>q. QED BY <2>1, <2>2, FoundCases
<1>4. asked.protocol = "ogc" => Last(id) \notin cat.hidden
  BY DEF SearchCase, Clear, Hidden
<1>q. QED BY <1>2, <1>3, <1>4 DEF ServiceIsFilter

LEMMA FilesNamedIs ==
  ASSUME SearchCase, NEW dir \in DOMAIN cat.dirs, ~Imported(asked.id), Len(asked.id) = 1, ~HasRow(asked.id)
  PROVE  FilesNamed(dir, asked.id) = FoundIn(dir, asked.id)
<1>. DEFINE id == asked.id
            I  == {i \in DOMAIN In(dir) : LET s == In(dir)[i]
                                          IN  s \notin gone /\ Len(s[2]) = 1 /\ SameName(s[2][1], id[1])}
<1>1. /\ In(dir) \in Seq(Deployed) /\ Alike(In(dir))
      /\ \A s \in ToSet(In(dir)) : s = <<dir, s[2]>> /\ s[2] \in ToSet(cat.dirs[dir])
      /\ \A x \in ToSet(cat.dirs[dir]) : <<dir, x>> \in ToSet(In(dir))
  BY InOf DEF SearchCase
<1>2. ASSUME NEW i \in I PROVE In(dir)[i] = <<dir, id>>
  <2>1. In(dir)[i] \in Deployed /\ In(dir)[i] \in ToSet(In(dir))
    BY <1>1 DEF ToSet
  <2>2. In(dir)[i][2] = id
    BY <2>1 DEF SearchCase, Clear, Ambiguous
  <2>q. QED BY <1>1, <2>1, <2>2
<1>3. ASSUME NEW i \in DOMAIN In(dir), In(dir)[i] = <<dir, id>> PROVE i \in I
  <2>1. In(dir)[i][2] = id
    BY <1>3
  <2>q. QED BY <2>1 DEF SearchCase, SameName
<1>4. FilesNamed(dir, id) = ItemsAt(In(dir), I)
  BY DEF FilesNamed
<1>5. id \notin ToSet(cat.rows)
  BY ThereOf
<1>6. CASE id \in ToSet(cat.dirs[dir])
  <2>1. PICK i \in DOMAIN In(dir) : In(dir)[i] = <<dir, id>>
    BY <1>1, <1>6 DEF ToSet
  <2>2. I = {i}
    BY <1>1, <1>2, <1>3, <2>1 DEF Alike
  <2>. HIDE DEF I
  <2>3. ItemsAt(In(dir), {i}) = <<In(dir)[i]>>
    BY <1>1, OneItem
  <2>q. QED BY <1>4, <1>5, <1>6, <2>1, <2>2, <2>3 DEF FoundIn
<1>7. CASE id \notin ToSet(cat.dirs[dir])
  <2>1. I = {}
    <3>1. ASSUME NEW i \in I PROVE FALSE
      <4>1. In(dir)[i] = <<dir, id>> /\ In(dir)[i] \in ToSet(In(dir))
        BY <1>2 DEF ToSet
      <4>2. <<dir, id>>[2] = id
        OBVIOUS
      <4>q. QED BY <1>1, <1>7, <4>1, <4>2
    <3>q. QED BY <3>1
  <2>. HIDE DEF I
  <2>2. ItemsAt(In(dir), {}) = <<>>
    BY <1>1, OneItem
  <2>q. QED BY <1>4, <1>5, <1>7, <2>1, <2>2 DEF FoundIn
<1>q. QED BY <1>6, <1>7

LEMMA SearchingOf ==
  ASSUME SearchCase, NEW do, NEW dir \in DOMAIN cat.dirs, NEW tasks, Searching(do, dir, tasks)
  PROVE  /\ tasks # <<>> /\ IsSeq(tasks) /\ Head(tasks).do = do /\ Head(tasks).dir \in DOMAIN cat.dirs
         /\ FoundIn(Head(tasks).dir, asked.id) # <<>> =>
              FirstFound(dir, asked.id) = FoundIn(Head(tasks).dir, asked.id)
         /\ FoundIn(Head(tasks).dir, asked.id) = <<>> =>
              \/ Tail(tasks) = <<>> /\ FirstFound(dir, asked.id) = <<>>
              \/ Searching(do, dir, Tail(tasks))
<1>. DEFINE ns   == GetServicesNamespacePath(dir)
            id   == asked.id
            last == [do |-> do, dir |-> dir, last |-> TRUE]
            two  == cat.searchPath /\ ns # dir
            one  == [do |-> do, dir |-> ns, last |-> TRUE]
            fst  == [do |-> do, dir |-> ns, last |-> FALSE]
<1>1. ns \in DOMAIN cat.dirs
  BY DirsOf DEF SearchCase
<1>2. FirstFound(dir, id) = IF FoundIn(ns, id) # <<>> THEN FoundIn(ns, id)
                            ELSE IF two THEN FoundIn(dir, id) ELSE <<>>
  BY DEF FirstFound
<1>3. Searches(do, dir) = IF two THEN <<fst, last>> ELSE <<one>>
  BY DEF Searches
<1>4. one.do = do /\ one.dir = ns /\ fst.do = do /\ fst.dir = ns /\ last.do = do /\ last.dir = dir
  OBVIOUS
<1>5. Searching(do, dir, tasks) <=> tasks = Searches(do, dir) \/ (two /\ FoundIn(ns, id) = <<>> /\ tasks = <<last>>)
  BY DEF Searching
<1>6. two /\ FoundIn(ns, id) = <<>> => Searching(do, dir, <<last>>)
  BY DEF Searching
<1>. HIDE DEF ns, id, last, two, one, fst
<1>7. \A t : <<t>> # <<>> /\ IsSeq(<<t>>) /\ Head(<<t>>) = t /\ Tail(<<t>>) = <<>>
  <2>1. \A t : <<t>> # <<>> /\ Head(<<t>>) = t /\ Tail(<<t>>) = <<>>
    OBVIOUS
  <2>q. QED BY <2>1, SeqNone
<1>8. /\ <<fst, last>> # <<>> /\ IsSeq(<<fst, last>>)
      /\ Head(<<fst, last>>) = fst /\ Tail(<<fst, last>>) = <<last>>
  <2>1. IsSeq(<<last>>) /\ <<fst, last>> = <<fst>> \o <<last>> /\ IsSeq(<<fst, last>>)
    BY SeqNone, SeqPair
  <2>q. QED BY <2>1, SeqBefore
<1>9. CASE tasks = Searches(do, dir) /\ two
  <2>1. tasks = <<fst, last>>
    BY <1>3, <1>9
  <2>q. QED BY <1>1, <1>2, <1>4, <1>6, <1>8, <1>9, <2>1 DEF id
<1>10. CASE tasks = Searches(do, dir) /\ ~two
  <2>1. tasks = <<one>>
    BY <1>3, <1>10
  <2>q. QED BY <1>1, <1>2, <1>4, <1>7, <1>10, <2>1 DEF id
<1>11. CASE two /\ FoundIn(ns, id) = <<>> /\ tasks = <<last>>
  BY <1>2, <1>4, <1>7, <1>11 DEF id
<1>q. QED BY <1>5, <1>9, <1>10, <1>11

LEMMA LookupFinds ==
  ASSUME SearchSound, SearchCase, Lookup, Head(left).dir \in DOMAIN cat.dirs
  PROVE  \/ FoundIn(Head(left).dir, asked.id) = <<>> /\ NotFound(Head(left).last)
         \/ \E s : /\ FoundIn(Head(left).dir, asked.id) = <<s>>
                   /\ asked.protocol = "ogc" => ~ServiceIsFilter(s)
                   /\ DescribeIt(s, <<PrintOut>>)
         \/ /\ left' = <<Matching(Head(left).last, FALSE, FoundIn(Head(left).dir, asked.id))>> \o Tail(left)
            /\ UNCHANGED <<events, cnt, more, shown>>
<1>. DEFINE id   == asked.id
            dir  == Head(left).dir
            file == IF Imported(id) THEN cat.imports[id[1]] ELSE <<dir, id>>
<1>1. /\ HasRow(id) <=> id \in ToSet(cat.rows)
      /\ Imported(id) => id \notin ToSet(cat.rows)
      /\ Len(id) > 1 => id \notin ToSet(cat.rows)
      /\ Len(id) > 1 <=> Len(id) # 1
  BY ThereOf
<1>2. Imported(id) => Len(id) = 1
  BY DEF Imported
<1>3. CASE Imported(id) \/ Len(id) > 1
  <2>1. ~HasRow(id) /\ file = Find(dir, id)
    BY <1>1, <1>3 DEF Find
  <2>2. IF IsThere(file) THEN DescribeIt(file, <<PrintOut>>) ELSE NotFound(Head(left).last)
    <3>1. CASE Imported(id) /\ IsThere(file)
      BY <2>1, <3>1 DEF Lookup
    <3>2. CASE Imported(id) /\ ~IsThere(file)
      BY <2>1, <3>2 DEF Lookup
    <3>3. CASE ~Imported(id) /\ IsThere(file)
      <4>1. Len(id) > 1 /\ Len(id) # 1
        BY <1>1, <1>3, <3>3
      <4>q. QED BY <2>1, <3>3, <4>1 DEF Lookup
    <3>4. CASE ~Imported(id) /\ ~IsThere(file)
      <4>1. Len(id) > 1 /\ Len(id) # 1
        BY <1>1, <1>3, <3>4
      <4>q. QED BY <2>1, <3>4, <4>1 DEF Lookup
    <3>q. QED BY <3>1, <3>2, <3>3, <3>4
  <2>. HIDE DEF file
  <2>q. QED BY <2>1, <2>2, FoundOne
<1>4. CASE ~Imported(id) /\ Len(id) = 1 /\ HasRow(id)
  <2>1. DescribeIt(DbRow(id), <<PrintOut>>)
    BY <1>4 DEF Lookup
  <2>2. Find(dir, id) = DbRow(id) /\ IsThere(DbRow(id))
    BY <1>1, <1>4, FoundCases
  <2>q. QED BY <2>1, <2>2, FoundOne
<1>5. CASE ~Imported(id) /\ Len(id) = 1 /\ ~HasRow(id)
  <2>1. /\ left' = <<Matching(Head(left).last, FALSE, FilesNamed(dir, id))>> \o Tail(left)
        /\ UNCHANGED <<events, cnt, more, shown>>
    <3>1. ~(Len(id) > 1)
      BY <1>1, <1>5
    <3>q. QED BY <1>5, <3>1 DEF Lookup, Matching
  <2>2. FilesNamed(dir, id) = FoundIn(dir, id)
    BY <1>5, FilesNamedIs
  <2>q. QED BY <2>1, <2>2
<1>q. QED BY <1>1, <1>3, <1>4, <1>5

(* A service that was found is described, or the process dies.             *)
LEMMA DescribesIt ==
  ASSUME SearchCase, asked.op = "describe", RegistryOK, registry = RegistryMade, shown = <<>>,
         NEW s, FirstFound(DescribedFrom, asked.id) = <<s>>, asked.protocol = "ogc" => ~ServiceIsFilter(s),
         NEW tasks, DescribeIt(s, tasks)
  PROVE  \/ Undescribed /\ Die
         \/ ~Undescribed /\ shown' = <<s>> /\ left' = tasks /\ UNCHANGED events
<1>1. <<s>> # <<>> /\ <<s>>[1] = s
  OBVIOUS
<1>2. Inherits(s) <=> (asked.protocol = "wps" => Ends(s))
  BY DEF Inherits, Ends
<1>3. Undescribed <=> asked.protocol = "wps" /\ ~Ends(s)
  BY <1>1 DEF Undescribed
<1>4. CASE ~Inherits(s)
  BY <1>2, <1>3, <1>4 DEF DescribeIt
<1>5. CASE Inherits(s)
  <2>1. /\ shown' = CASE asked.protocol = "wps" -> Append(shown, s)
                      [] asked.protocol = "ogc" /\ ServiceIsFilter(s) -> shown
                      [] asked.protocol = "ogc" /\ ~ServiceIsFilter(s) -> <<s>>
        /\ left' = tasks /\ UNCHANGED events
    BY <1>5 DEF DescribeIt
  <2>2. shown' = <<s>>
    <3>1. CASE asked.protocol = "wps"
      <4>1. shown' = Append(<<>>, s)
        BY <2>1, <3>1
      <4>q. QED BY <4>1
    <3>2. CASE asked.protocol = "ogc"
      BY <2>1, <3>2
    <3>q. QED BY <3>1, <3>2 DEF SearchCase
  <2>q. QED BY <1>2, <1>3, <1>5, <2>1, <2>2
<1>q. QED BY <1>4, <1>5

LEMMA WhichSearch ==
  ASSUME DoTask
  PROVE  /\ Head(left).do = "lookup" => Lookup
         /\ Head(left).do = "match" => Match
         /\ Head(left).do = "fetch" => Fetch
  BY DEF DoTask, MakeRegistry, ReadImport, OpenDirectory, ReadEntry, QueryRows, ReadRow, EndOfList,
         PrintDocument, Lookup, Match, Fetch, Task

LEMMA SearchFrame ==
  ASSUME UNCHANGED cat
  PROVE  /\ \A do, dir : Searches(do, dir)' = Searches(do, dir)
         /\ \A dir, id : FoundIn(dir, id)' = FoundIn(dir, id)
         /\ \A dir, id : FirstFound(dir, id)' = FirstFound(dir, id)
         /\ \A s : Ends(s)' <=> Ends(s)
         /\ \A id : Ambiguous(id)' <=> Ambiguous(id)
<1>1. /\ Deployed' = Deployed /\ RegistryMade' = RegistryMade
      /\ \A dir : GetServicesNamespacePath(dir)' = GetServicesNamespacePath(dir)
  BY CatFrame, RegistryFrame
<1>2. /\ \A do, dir : Searches(do, dir)' = Searches(do, dir)
      /\ \A dir, id : FoundIn(dir, id)' = FoundIn(dir, id)
  BY <1>1 DEF Searches, FoundIn, Imported, DbRow
<1>3. \A dir, id : FirstFound(dir, id)' = FirstFound(dir, id)
  BY <1>1, <1>2 DEF FirstFound
<1>4. \A s : Ends(s)' <=> Ends(s)
  BY <1>1 DEF Ends
<1>5. \A id : Ambiguous(id)' <=> Ambiguous(id)
  BY <1>1 DEF Ambiguous, Imported
<1>q. QED BY <1>2, <1>3, <1>4, <1>5

LEMMA DescriptionFrame ==
  ASSUME UNCHANGED cat, asked'.protocol = asked.protocol, asked'.id = asked.id
  PROVE  /\ DescribedFrom' = DescribedFrom /\ (Undescribed' <=> Undescribed)
         /\ Description' = Description /\ (UNCHANGED touched => (Clear' <=> Clear))
         /\ \A do, dir, tasks : Searching(do, dir, tasks)' <=> Searching(do, dir, tasks)
         /\ \A tasks, list : DescribeAt(tasks, list)' <=> DescribeAt(tasks, list)
<1>1. /\ \A do, dir : Searches(do, dir)' = Searches(do, dir)
      /\ \A dir, id : FoundIn(dir, id)' = FoundIn(dir, id)
      /\ \A dir, id : FirstFound(dir, id)' = FirstFound(dir, id)
      /\ \A s : Ends(s)' <=> Ends(s)
      /\ \A id : Ambiguous(id)' <=> Ambiguous(id)
  BY SearchFrame
<1>2. /\ RegistryOK' <=> RegistryOK
      /\ ConfDir' = ConfDir
      /\ \A dir : GetServicesNamespacePath(dir)' = GetServicesNamespacePath(dir)
  BY CatFrame, RegistryFrame
<1>3. DescribedFrom' = DescribedFrom
  BY <1>2 DEF DescribedFrom
<1>4. FirstFound(DescribedFrom, asked.id)' = FirstFound(DescribedFrom, asked.id)
  BY <1>1, <1>3
<1>5. Undescribed' <=> Undescribed
  BY <1>1, <1>2, <1>4 DEF Undescribed
<1>6. Description' = Description
  BY <1>4, <1>5 DEF Description
<1>7. UNCHANGED touched => (Clear' <=> Clear)
  BY <1>1 DEF Clear, Hidden
<1>8. \A do, dir, tasks : Searching(do, dir, tasks)' <=> Searching(do, dir, tasks)
  BY <1>1, <1>2 DEF Searching
<1>9. \A tasks, list : DescribeAt(tasks, list)' <=> DescribeAt(tasks, list)
  BY <1>1, <1>3, <1>4, <1>5, <1>8 DEF DescribeAt, Matching, PrintOut, IsSeq
<1>q. QED BY <1>3, <1>5, <1>6, <1>7, <1>8, <1>9

(* The next step of a description.                                         *)
DescribeGoes ==
  \/ /\ left' # <<>> /\ "died" \notin ToSet(events') /\ UNCHANGED described
     /\ RegistryOK /\ registry' = RegistryMade /\ DescribeAt(left', shown')
  \/ /\ left' = <<>> /\ described' = Description
     /\ Undescribed => "died" \in ToSet(events') \/ cat.registry = "missing"

LEMMA DescribeNext ==
  ASSUME DescribeGoes, described = <<>>, UNCHANGED <<cat, asked, touched>>
  PROVE  DescribeInv'
<1>1. /\ Undescribed' <=> Undescribed
      /\ Description' = Description
      /\ RegistryOK' <=> RegistryOK
      /\ RegistryMade' = RegistryMade
      /\ \A tasks, list : DescribeAt(tasks, list)' <=> DescribeAt(tasks, list)
  BY DescriptionFrame, RegistryFrame
<1>2. CASE left' # <<>>
  <2>1. DescribeAt(left, shown)'
    <3>1. PICK a, b : a = left' /\ b = shown'
      OBVIOUS
    <3>2. DescribeAt(a, b)
      BY <1>2, <3>1 DEF DescribeGoes
    <3>q. QED BY <1>1, <3>1, <3>2
  <2>q. QED BY <1>1, <1>2, <2>1 DEF DescribeGoes, DescribeInv
<1>3. CASE left' = <<>>
  BY <1>1, <1>3 DEF DescribeGoes, DescribeInv, NotServed
<1>q. QED BY <1>2, <1>3

DescribeCase ==
  /\ SearchCase /\ asked.op = "describe" /\ RegistryOK /\ registry = RegistryMade
  /\ described = <<>> /\ "died" \notin ToSet(events) /\ IsSeq(events) /\ IsSeq(left) /\ left # <<>>

LEMMA NothingHere ==
  ASSUME DescribeCase, shown = <<>>, NEW tasks, Searching("lookup", DescribedFrom, tasks),
         FoundIn(Head(tasks).dir, asked.id) = <<>>, Tail(left) = Tail(tasks),
         NEW last, NotFound(last), UNCHANGED <<registry, described>>
  PROVE  DescribeGoes
<1>1. left' = Tail(tasks) /\ shown' = <<>>
  BY DEF NotFound
<1>2. "died" \notin ToSet(events')
  <2>1. events' = events \/ events' = Append(events, "exception")
    BY DEF NotFound, Say, Silently
  <2>2. ToSet(Append(events, "exception")) = ToSet(events) \union {"exception"}
    BY SeqLast DEF DescribeCase
  <2>3. "died" # "exception" /\ "died" \notin ToSet(events)
    BY DEF DescribeCase
  <2>q. QED BY <2>1, <2>2, <2>3
<1>3. DescribedFrom \in DOMAIN cat.dirs
  BY DirsOf DEF DescribeCase, SearchCase, DescribedFrom
<1>4. \/ Tail(tasks) = <<>> /\ FirstFound(DescribedFrom, asked.id) = <<>>
      \/ Searching("lookup", DescribedFrom, Tail(tasks)) /\ Tail(tasks) # <<>>
  BY <1>3, SearchingOf DEF DescribeCase
<1>5. CASE Tail(tasks) = <<>> /\ FirstFound(DescribedFrom, asked.id) = <<>>
  <2>1. ~Undescribed /\ Description = <<>>
    BY <1>5 DEF Undescribed, Description, DescribeCase
  <2>q. QED BY <1>1, <1>5, <2>1 DEF DescribeGoes, DescribeCase
<1>6. CASE Searching("lookup", DescribedFrom, Tail(tasks)) /\ Tail(tasks) # <<>>
  <2>1. DescribeAt(left', shown')
    BY <1>1, <1>6 DEF DescribeAt
  <2>q. QED BY <1>1, <1>2, <1>6, <2>1 DEF DescribeGoes, DescribeCase
<1>q. QED BY <1>4, <1>5, <1>6

LEMMA FoundHere ==
  ASSUME DescribeCase, shown = <<>>, NEW s, FirstFound(DescribedFrom, asked.id) = <<s>>,
         asked.protocol = "ogc" => ~ServiceIsFilter(s),
         NEW tasks, tasks # <<>>, DescribeIt(s, tasks), UNCHANGED <<registry, described>>,
         tasks = <<PrintOut>> \/ \E last, others : IsSeq(others) /\ tasks = <<Matching(last, TRUE, <<>>)>> \o others
  PROVE  DescribeGoes
<1>1. \/ Undescribed /\ Die
      \/ ~Undescribed /\ shown' = <<s>> /\ left' = tasks /\ UNCHANGED events
  BY DescribesIt DEF DescribeCase
<1>2. CASE Undescribed /\ Die
  <2>1. left' = <<>> /\ events' = Append(events, "died")
    BY <1>2 DEF Die, Say
  <2>2. "died" \in ToSet(events')
    BY <2>1, SeqLast DEF DescribeCase
  <2>q. QED BY <1>2, <2>1, <2>2 DEF DescribeGoes, DescribeCase, Description
<1>3. CASE ~Undescribed /\ shown' = <<s>> /\ left' = tasks /\ UNCHANGED events
  <2>1. DescribeAt(tasks, <<s>>)
    BY <1>3 DEF DescribeAt
  <2>q. QED BY <1>3, <2>1 DEF DescribeGoes, DescribeCase
<1>q. QED BY <1>1, <1>2, <1>3

LEMMA DescribeRegistry ==
  ASSUME SearchSound, SearchCase, DoTask, described = <<>>, shown = <<>>,
         left = <<[do |-> "registry"]>> \o Searches("lookup", DescribedFrom)
  PROVE  DescribeGoes
<1>1. IsSeq(Searches("lookup", DescribedFrom))
  BY TasksAre DEF SearchCase
<1>2. Head(left) = [do |-> "registry"] /\ Tail(left) = Searches("lookup", DescribedFrom)
  BY <1>1, SeqBefore
<1>3. MakeRegistry
  BY <1>2, WhichTask
<1>4. UNCHANGED <<shown, described>>
  BY <1>3, RegistryTask
<1>5. CASE events' = <<>> /\ left' = Tail(left) /\ RegistryOK /\ registry' = RegistryMade
  <2>1. Searching("lookup", DescribedFrom, Tail(left))
    BY <1>2 DEF Searching
  <2>2. left' # <<>>
    <3>1. DescribedFrom \in DOMAIN cat.dirs
      BY DirsOf DEF SearchCase, DescribedFrom
    <3>q. QED BY <1>5, <2>1, <3>1, SearchingOf
  <2>3. DescribeAt(left', shown')
    BY <1>4, <1>5, <2>1 DEF DescribeAt
  <2>4. ToSet(events') = {}
    BY <1>5, SeqNone
  <2>q. QED BY <1>4, <1>5, <2>2, <2>3, <2>4 DEF DescribeGoes
<1>6. CASE /\ events' \in {<<"exception">>, <<"died">>} /\ left' = <<>> /\ ~RegistryOK
           /\ (cat.registry = "missing" \/ events' = <<"died">>)
  <2>1. Description = <<>>
    BY <1>6 DEF Description, Undescribed
  <2>2. ToSet(<<"died">>) = {"died"}
    BY SeqNone
  <2>3. "died" \in ToSet(events') \/ cat.registry = "missing"
    BY <1>6, <2>2
  <2>q. QED BY <1>4, <1>6, <2>1, <2>3 DEF DescribeGoes
<1>q. QED BY <1>3, <1>5, <1>6, RegistryTask

LEMMA DescribeLookup ==
  ASSUME SearchSound, DescribeCase, DoTask, shown = <<>>, Searching("lookup", DescribedFrom, left)
  PROVE  DescribeGoes
<1>1. /\ Head(left).do = "lookup" /\ Head(left).dir \in DOMAIN cat.dirs
      /\ FoundIn(Head(left).dir, asked.id) # <<>> =>
           FirstFound(DescribedFrom, asked.id) = FoundIn(Head(left).dir, asked.id)
  <2>1. DescribedFrom \in DOMAIN cat.dirs
    BY DirsOf DEF DescribeCase, SearchCase, DescribedFrom
  <2>q. QED BY <2>1, SearchingOf DEF DescribeCase
<1>2. Lookup
  BY <1>1, WhichSearch
<1>3. UNCHANGED <<registry, described>>
  BY <1>2 DEF Lookup, sessionVars
<1>4. CASE FoundIn(Head(left).dir, asked.id) = <<>> /\ NotFound(Head(left).last)
  BY <1>3, <1>4, NothingHere
<1>5. ASSUME NEW s, FoundIn(Head(left).dir, asked.id) = <<s>>,
             asked.protocol = "ogc" => ~ServiceIsFilter(s), DescribeIt(s, <<PrintOut>>)
      PROVE  DescribeGoes
  <2>1. <<s>> # <<>> /\ <<PrintOut>> # <<>>
    OBVIOUS
  <2>2. FirstFound(DescribedFrom, asked.id) = <<s>>
    BY <1>1, <1>5, <2>1
  <2>q. QED BY <1>3, <1>5, <2>1, <2>2, FoundHere
<1>6. CASE /\ left' = <<Matching(Head(left).last, FALSE, FoundIn(Head(left).dir, asked.id))>> \o Tail(left)
           /\ UNCHANGED <<events, shown>>
  <2>1. left' # <<>>
    <3>1. IsSeq(Tail(left))
      BY SeqFirst DEF DescribeCase
    <3>q. QED BY <1>6, <3>1, SeqBefore
  <2>2. DescribeAt(left', shown')
    BY <1>6 DEF DescribeAt
  <2>q. QED BY <1>3, <1>6, <2>1, <2>2 DEF DescribeGoes, DescribeCase
<1>7. SearchCase
  BY DEF DescribeCase
<1>q. QED BY <1>1, <1>2, <1>4, <1>5, <1>6, <1>7, LookupFinds

LEMMA DescribeMatch ==
  ASSUME SearchSound, DescribeCase, DoTask, shown = <<>>,
         NEW tasks, Searching("lookup", DescribedFrom, tasks),
         left = <<Matching(Head(tasks).last, FALSE, FoundIn(Head(tasks).dir, asked.id))>> \o Tail(tasks)
  PROVE  DescribeGoes
<1>. DEFINE t == Head(left)
            found == FoundIn(Head(tasks).dir, asked.id)
<1>1. /\ Head(tasks).dir \in DOMAIN cat.dirs /\ tasks # <<>> /\ IsSeq(tasks)
      /\ found # <<>> => FirstFound(DescribedFrom, asked.id) = found
  <2>1. DescribedFrom \in DOMAIN cat.dirs
    BY DirsOf DEF DescribeCase, SearchCase, DescribedFrom
  <2>q. QED BY <2>1, SearchingOf DEF DescribeCase
<1>2. IsSeq(Tail(tasks))
  BY <1>1, SeqFirst
<1>3. t = Matching(Head(tasks).last, FALSE, found) /\ Tail(left) = Tail(tasks)
  BY <1>2, SeqBefore
<1>4. t.do = "match" /\ t.hit = FALSE /\ t.entries = found
  BY <1>3 DEF Matching
<1>5. Match
  BY <1>4, WhichSearch
<1>6. UNCHANGED <<registry, described>>
  BY <1>5 DEF Match, sessionVars
<1>7. \/ found = <<>>
      \/ \E s : found = <<s>> /\ (asked.protocol = "ogc" => ~ServiceIsFilter(s))
  <2>1. SearchCase
    BY DEF DescribeCase
  <2>q. QED BY <1>1, <2>1, FoundOne
<1>8. gone = {}
  BY DEF DescribeCase, SearchCase
<1>9. \/ found = <<>> /\ NotFound(t.last)
      \/ found # <<>> /\ DescribeIt(Head(found), <<Matching(t.last, TRUE, Tail(found))>> \o Tail(left))
  BY <1>4, <1>5, <1>8, MatchCases
<1>10. CASE found = <<>> /\ NotFound(t.last)
  BY <1>3, <1>6, <1>10, NothingHere
<1>11. ASSUME found # <<>>, DescribeIt(Head(found), <<Matching(t.last, TRUE, Tail(found))>> \o Tail(left))
       PROVE  DescribeGoes
  <2>1. PICK s : found = <<s>> /\ (asked.protocol = "ogc" => ~ServiceIsFilter(s))
    BY <1>7, <1>11
  <2>2. Head(found) = s /\ Tail(found) = <<>>
    <3>1. Head(<<s>>) = s /\ Tail(<<s>>) = <<>>
      OBVIOUS
    <3>. HIDE DEF found
    <3>q. QED BY <2>1, <3>1
  <2>. DEFINE others == <<Matching(t.last, TRUE, <<>>)>> \o Tail(left)
  <2>3. IsSeq(Tail(left)) /\ others # <<>>
    BY <1>2, <1>3, SeqBefore
  <2>4. DescribeIt(s, others)
    BY <1>11, <2>2
  <2>5. \E last, o : IsSeq(o) /\ others = <<Matching(last, TRUE, <<>>)>> \o o
    BY <2>3
  <2>6. FirstFound(DescribedFrom, asked.id) = <<s>>
    BY <1>1, <1>11, <2>1
  <2>. HIDE DEF others, t, found
  <2>q. QED BY <1>6, <2>1, <2>3, <2>4, <2>5, <2>6, FoundHere
<1>q. QED BY <1>9, <1>10, <1>11

LEMMA DescribeEnds ==
  ASSUME SearchSound, DescribeCase, DoTask, ~Undescribed, shown = FirstFound(DescribedFrom, asked.id),
         left = <<PrintOut>> \/ \E last, others : IsSeq(others) /\ left = <<Matching(last, TRUE, <<>>)>> \o others
  PROVE  DescribeGoes
<1>1. CASE left = <<PrintOut>>
  <2>1. Head(left) = PrintOut /\ PrintOut.do = "document"
    BY <1>1 DEF PrintOut
  <2>2. PrintDocument
    BY <2>1, WhichTask
  <2>3. left' = <<>> /\ described' = shown
    BY <2>2 DEF PrintDocument, DescribeCase
  <2>q. QED BY <2>3 DEF DescribeGoes, Description
<1>2. ASSUME NEW last, NEW others, IsSeq(others), left = <<Matching(last, TRUE, <<>>)>> \o others
      PROVE  DescribeGoes
  <2>1. Head(left) = Matching(last, TRUE, <<>>)
    BY <1>2, SeqBefore
  <2>2. Head(left).do = "match" /\ Head(left).hit = TRUE /\ Head(left).entries = <<>>
    BY <2>1 DEF Matching
  <2>3. Match
    BY <2>2, WhichSearch
  <2>4. left' = <<PrintOut>> /\ UNCHANGED <<events, shown>>
    BY <2>2, <2>3, MatchCases
  <2>5. UNCHANGED <<registry, described>>
    BY <2>3 DEF Match, sessionVars
  <2>6. DescribeAt(left', shown') /\ left' # <<>>
    BY <2>4 DEF DescribeAt
  <2>q. QED BY <2>4, <2>5, <2>6 DEF DescribeGoes, DescribeCase
<1>q. QED BY <1>1, <1>2

LEMMA DescribeDo ==
  ASSUME SearchSound, DescribeInv, DoTask
  PROVE  DescribeInv'
<1>1. cat # Null /\ left # <<>> /\ UNCHANGED <<cat, gone, touched, asked>>
  BY DoTaskFrame
<1>2. Clear' <=> Clear
  BY <1>1, DescriptionFrame
<1>3. CASE ~(asked.op = "describe" /\ Clear)
  BY <1>1, <1>2, <1>3 DEF DescribeInv
<1>4. CASE asked.op = "describe" /\ Clear
  <2>1. SearchCase
    BY <1>1, <1>4, SearchCaseOf
  <2>2. /\ described = <<>> /\ "died" \notin ToSet(events)
        /\ \/ left = <<[do |-> "registry"]>> \o Searches("lookup", DescribedFrom) /\ shown = <<>>
           \/ RegistryOK /\ registry = RegistryMade /\ DescribeAt(left, shown)
    BY <1>1, <1>4 DEF DescribeInv
  <2>3. CASE left = <<[do |-> "registry"]>> \o Searches("lookup", DescribedFrom) /\ shown = <<>>
    BY <1>1, <2>1, <2>2, <2>3, DescribeRegistry, DescribeNext
  <2>4. CASE RegistryOK /\ registry = RegistryMade /\ DescribeAt(left, shown)
    <3>1. DescribeCase
      BY <1>1, <1>4, <2>1, <2>2, <2>4 DEF DescribeCase, SearchSound, SearchTypes
    <3>2. DescribeGoes
      <4>1. CASE Searching("lookup", DescribedFrom, left) /\ shown = <<>>
        BY <3>1, <4>1, DescribeLookup
      <4>2. ASSUME shown = <<>>, NEW tasks, Searching("lookup", DescribedFrom, tasks),
                   left = <<Matching(Head(tasks).last, FALSE, FoundIn(Head(tasks).dir, asked.id))>> \o Tail(tasks)
            PROVE  DescribeGoes
        BY <3>1, <4>2, DescribeMatch
      <4>3. CASE /\ ~Undescribed /\ shown = FirstFound(DescribedFrom, asked.id)
                 /\ left = <<PrintOut>> \/ \E last, others : IsSeq(others) /\ left = <<Matching(last, TRUE, <<>>)>> \o others
        BY <3>1, <4>3, DescribeEnds
      <4>q. QED BY <2>4, <4>1, <4>2, <4>3 DEF DescribeAt
    <3>q. QED BY <1>1, <2>2, <3>2, DescribeNext
  <2>q. QED BY <2>2, <2>3, <2>4
<1>q. QED BY <1>3, <1>4

LEMMA DescribeAsk ==
  ASSUME SearchSound, AskNext
  PROVE  DescribeInv'
<1>1. PICK request, tasks :
        /\ cat # Null /\ left = <<>> /\ Asks(request, tasks) /\ Serve(request, tasks)
        /\ UNCHANGED <<touched, listed, described, ran>>
  BY AsksWhat
<1>2. /\ asked' = request /\ left' = <<[do |-> "registry"]>> \o tasks
      /\ shown' = <<>> /\ events' = <<>> /\ UNCHANGED <<cat, touched, described>>
  BY <1>1 DEF Serve
<1>3. CASE request.op # "describe"
  BY <1>2, <1>3 DEF DescribeInv
<1>4. CASE request.op = "describe"
  <2>1. /\ AsksDescription(request) /\ IsSeq(tasks) /\ request.protocol \in {"wps", "ogc"}
    BY <1>1, <1>4, AsksProper
  <2>2. tasks = Searches("lookup", IF request.protocol = "wps" THEN GetServicesNamespacePath(ConfDir) ELSE ConfDir)
    <3>1. ~AsksList(request)
      BY <1>4, AskingOf DEF AsksList
    <3>2. ~AsksExecution(request)
      BY <1>4, AskingOf DEF AsksExecution
    <3>q. QED BY <1>1, <3>1, <3>2 DEF Asks
  <2>3. described = <<>>
    <3>1. asked.op \in {"none", "list"}
      BY <2>1 DEF AsksDescription, NoRequest
    <3>q. QED BY <3>1 DEF SearchSound, Order
  <2>4. DescribedFrom' = IF request.protocol = "wps" THEN GetServicesNamespacePath(ConfDir) ELSE ConfDir
    <3>1. ConfDir' = ConfDir /\ \A dir : GetServicesNamespacePath(dir)' = GetServicesNamespacePath(dir)
      BY <1>2, CatFrame
    <3>q. QED BY <1>2, <3>1 DEF DescribedFrom
  <2>5. \A do, dir : Searches(do, dir)' = Searches(do, dir)
    BY <1>2, SearchFrame
  <2>6. Searches("lookup", DescribedFrom)' = tasks
    BY <2>2, <2>4, <2>5
  <2>7. left' # <<>>
    BY <1>2, <2>1, SeqBefore
  <2>8. "died" \notin ToSet(events')
    BY <1>2, SeqNone
  <2>q. QED BY <1>2, <2>3, <2>6, <2>7, <2>8 DEF DescribeInv
<1>q. QED BY <1>3, <1>4

LEMMA DescribeInvStep == SearchSound /\ DescribeInv /\ [Next]_kernelState => DescribeInv'
<1>1. SUFFICES ASSUME SearchSound, DescribeInv, [Next]_kernelState PROVE DescribeInv'
  OBVIOUS
<1>2. CASE AskNext
  BY <1>1, <1>2, DescribeAsk
<1>3. CASE DoTask
  BY <1>1, <1>3, DescribeDo
<1>4. CASE OpenOrClose
  <2>1. asked' = NoRequest
    BY <1>1, <1>4 DEF OpenOrClose, OpenCatalogue, CloseCatalogue, SearchSound, Order, Closed
  <2>q. QED BY <2>1 DEF DescribeInv, NoRequest
<1>5. CASE DeployOrUndeploy
  <2>1. touched' # {}
    BY <1>5 DEF DeployOrUndeploy
  <2>q. QED BY <2>1 DEF DescribeInv, Clear
<1>6. CASE UNCHANGED catVars
  <2>1. UNCHANGED <<cat, touched, asked, registry, left, shown, events, described>>
    BY <1>6 DEF catVars
  <2>2. /\ DescribedFrom' = DescribedFrom /\ (Undescribed' <=> Undescribed)
        /\ Description' = Description /\ (Clear' <=> Clear)
        /\ \A tasks, list : DescribeAt(tasks, list)' <=> DescribeAt(tasks, list)
        /\ RegistryMade' = RegistryMade /\ (RegistryOK' <=> RegistryOK)
        /\ \A do, dir : Searches(do, dir)' = Searches(do, dir)
    BY <2>1, DescriptionFrame, RegistryFrame, SearchFrame
  <2>3. DescribeAt(left, shown)' <=> DescribeAt(left, shown)
    BY <2>1, <2>2
  <2>4. Searches("lookup", DescribedFrom)' = Searches("lookup", DescribedFrom)
    BY <2>2
  <2>5. NotServed' <=> NotServed
    BY <2>1 DEF NotServed
  <2>q. QED BY <1>1, <2>1, <2>2, <2>3, <2>4, <2>5 DEF DescribeInv
<1>q. QED BY <1>1, <1>2, <1>3, <1>4, <1>5, <1>6, SearchSteps

-----------------------------------------------------------------------------
LEMMA ExecuteAsk ==
  ASSUME SearchSound, DescribeInv, AskNext
  PROVE  ExecuteInv'
<1>1. PICK request, tasks :
        /\ cat # Null /\ left = <<>> /\ Asks(request, tasks) /\ Serve(request, tasks)
        /\ UNCHANGED <<touched, listed, described, ran>>
  BY AsksWhat
<1>2. /\ asked' = request /\ left' = <<[do |-> "registry"]>> \o tasks
      /\ events' = <<>> /\ UNCHANGED <<cat, touched, described, ran>>
  BY <1>1 DEF Serve
<1>3. CASE ~(request.op = "execute" /\ Clear')
  BY <1>2, <1>3 DEF ExecuteInv
<1>4. CASE request.op = "execute" /\ Clear'
  <2>1. AsksExecution(request) /\ IsSeq(tasks)
    BY <1>1, <1>4, AsksProper
  <2>2. asked.op = "describe" /\ request.protocol = asked.protocol /\ request.id = asked.id
    BY <2>1, AskingOf DEF AsksExecution
  <2>3. tasks = Searches("fetch", ConfDir)
    <3>1. ~AsksList(request)
      BY <1>4, AskingOf DEF AsksList
    <3>2. ~AsksDescription(request)
      BY <1>4, AskingOf DEF AsksDescription
    <3>q. QED BY <1>1, <3>1, <3>2 DEF Asks
  <2>4. Description' = Description /\ (Clear' <=> Clear)
    BY <1>2, <2>2, DescriptionFrame
  <2>5. described' = Description'
    BY <1>1, <1>2, <1>4, <2>2, <2>4 DEF DescribeInv
  <2>6. ran' = <<>>
    BY <1>2, <2>2 DEF SearchSound, Order
  <2>7. Searches("fetch", ConfDir)' = tasks
    BY <1>2, <2>3, CatFrame, SearchFrame
  <2>8. left' # <<>>
    BY <1>2, <2>1, SeqBefore
  <2>9. "died" \notin ToSet(events')
    BY <1>2, SeqNone
  <2>q. QED BY <1>2, <2>5, <2>6, <2>7, <2>8, <2>9 DEF ExecuteInv
<1>q. QED BY <1>3, <1>4

(* The next step of an execution.                                          *)
ExecuteGoes ==
  \/ /\ left' # <<>> /\ ran' = <<>> /\ "died" \notin ToSet(events')
     /\ RegistryOK /\ registry' \in {RegistryMade, Freed} /\ Searching("fetch", ConfDir, left')
  \/ /\ left' = <<>>
     /\ \/ "died" \in ToSet(events') \/ cat.registry = "missing"
        \/ ran' = FirstFound(ConfDir, asked.id) /\ ~Undescribed

LEMMA ExecuteNext ==
  ASSUME ExecuteGoes, described = Description, UNCHANGED <<cat, asked, touched, described>>
  PROVE  ExecuteInv'
<1>1. /\ Undescribed' <=> Undescribed
      /\ Description' = Description
      /\ RegistryOK' <=> RegistryOK
      /\ RegistryMade' = RegistryMade
      /\ ConfDir' = ConfDir
      /\ \A do, dir, tasks : Searching(do, dir, tasks)' <=> Searching(do, dir, tasks)
      /\ \A dir, id : FirstFound(dir, id)' = FirstFound(dir, id)
  BY DescriptionFrame, RegistryFrame, CatFrame, SearchFrame
<1>2. CASE left' # <<>>
  <2>1. Searching("fetch", ConfDir, left)'
    <3>1. PICK a : a = left'
      OBVIOUS
    <3>2. Searching("fetch", ConfDir, a)
      BY <1>2, <3>1 DEF ExecuteGoes
    <3>q. QED BY <1>1, <3>1, <3>2
  <2>2. Freed' = Freed
    BY DEF Freed
  <2>q. QED BY <1>1, <1>2, <2>1, <2>2 DEF ExecuteGoes, ExecuteInv
<1>3. CASE left' = <<>>
  <2>1. FirstFound(ConfDir, asked.id)' = FirstFound(ConfDir, asked.id)
    BY <1>1
  <2>q. QED BY <1>1, <1>3, <2>1 DEF ExecuteGoes, ExecuteInv, NotServed
<1>q. QED BY <1>2, <1>3

(* DescribeProcess looks into the namespace only, when there is one.       *)
LEMMA FoundAlike ==
  ASSUME SearchCase, NEW id
  PROVE  /\ FirstFound(DescribedFrom, id) # <<>> => FirstFound(DescribedFrom, id) = FirstFound(ConfDir, id)
         /\ ~Unseen => FirstFound(DescribedFrom, id) = FirstFound(ConfDir, id)
<1>. DEFINE ns == GetServicesNamespacePath(ConfDir)
<1>1. GetServicesNamespacePath(ns) = ns
  BY DirsOf DEF SearchCase
<1>2. FirstFound(ns, id) = FoundIn(ns, id)
  BY <1>1 DEF FirstFound
<1>3. /\ FoundIn(ns, id) # <<>> => FirstFound(ConfDir, id) = FoundIn(ns, id)
      /\ FoundIn(ns, id) = <<>> /\ ~(cat.searchPath /\ ns # ConfDir) => FirstFound(ConfDir, id) = <<>>
  BY DEF FirstFound
<1>4. CASE asked.protocol = "wps"
  <2>1. DescribedFrom = ns
    BY <1>4 DEF DescribedFrom
  <2>2. ~Unseen => ~(cat.searchPath /\ ns # ConfDir)
    BY <1>4 DEF Unseen, GetServicesNamespacePath
  <2>. HIDE DEF ns
  <2>q. QED BY <1>2, <1>3, <2>1, <2>2
<1>5. CASE asked.protocol # "wps"
  BY <1>5 DEF DescribedFrom
<1>q. QED BY <1>4, <1>5

ExecuteCase ==
  /\ SearchCase /\ asked.op = "execute" /\ ran = <<>>
  /\ "died" \notin ToSet(events) /\ IsSeq(events) /\ IsSeq(left) /\ left # <<>>

LEMMA ExecuteRegistry ==
  ASSUME SearchSound, ExecuteCase, DoTask, left = <<[do |-> "registry"]>> \o Searches("fetch", ConfDir)
  PROVE  ExecuteGoes
<1>1. IsSeq(Searches("fetch", ConfDir))
  BY TasksAre DEF SearchCase, ExecuteCase
<1>2. Head(left) = [do |-> "registry"] /\ Tail(left) = Searches("fetch", ConfDir)
  BY <1>1, SeqBefore
<1>3. MakeRegistry
  BY <1>2, WhichTask
<1>4. UNCHANGED ran
  BY <1>3, RegistryTask
<1>5. CASE events' = <<>> /\ left' = Tail(left) /\ RegistryOK /\ registry' = RegistryMade
  <2>1. Searching("fetch", ConfDir, left')
    BY <1>2, <1>5 DEF Searching
  <2>2. left' # <<>>
    <3>1. ConfDir \in DOMAIN cat.dirs
      BY DirsOf DEF SearchCase, ExecuteCase
    <3>q. QED BY <2>1, <3>1, SearchingOf DEF ExecuteCase
  <2>3. ToSet(events') = {}
    BY <1>5, SeqNone
  <2>q. QED BY <1>4, <1>5, <2>1, <2>2, <2>3 DEF ExecuteGoes, ExecuteCase
<1>6. CASE /\ events' \in {<<"exception">>, <<"died">>} /\ left' = <<>> /\ ~RegistryOK
           /\ (cat.registry = "missing" \/ events' = <<"died">>)
  <2>1. ToSet(<<"died">>) = {"died"}
    BY SeqNone
  <2>2. "died" \in ToSet(events') \/ cat.registry = "missing"
    BY <1>6, <2>1
  <2>q. QED BY <1>6, <2>2 DEF ExecuteGoes
<1>q. QED BY <1>3, <1>5, <1>6, RegistryTask

LEMMA ExecuteFetch ==
  ASSUME SearchSound, ExecuteCase, DoTask, RegistryOK, registry \in {RegistryMade, Freed},
         Searching("fetch", ConfDir, left)
  PROVE  ExecuteGoes
<1>. DEFINE dir == Head(left).dir
            s   == Find(dir, asked.id)
<1>1. /\ Head(left).do = "fetch" /\ dir \in DOMAIN cat.dirs
      /\ FoundIn(dir, asked.id) # <<>> => FirstFound(ConfDir, asked.id) = FoundIn(dir, asked.id)
      /\ FoundIn(dir, asked.id) = <<>> =>
           \/ Tail(left) = <<>> /\ FirstFound(ConfDir, asked.id) = <<>>
           \/ Searching("fetch", ConfDir, Tail(left))
  <2>1. ConfDir \in DOMAIN cat.dirs
    BY DirsOf DEF ExecuteCase, SearchCase
  <2>q. QED BY <2>1, SearchingOf DEF ExecuteCase
<1>2. Searching("fetch", ConfDir, Tail(left)) => Tail(left) # <<>>
  <2>1. ConfDir \in DOMAIN cat.dirs
    BY DirsOf DEF ExecuteCase, SearchCase
  <2>q. QED BY <2>1, SearchingOf DEF ExecuteCase
<1>3. Fetch
  BY <1>1, WhichSearch
<1>4. registry' \in {RegistryMade, Freed}
  BY <1>3 DEF Fetch
<1>5. /\ FoundIn(dir, asked.id) = <<>> <=> ~IsThere(s)
      /\ IsThere(s) => FoundIn(dir, asked.id) = <<s>>
  BY <1>1, FoundOne DEF ExecuteCase
<1>6. \/ ~IsThere(s) /\ NotFound(Head(left).last) /\ UNCHANGED ran
      \/ IsThere(s) /\ registry # Freed /\ Inherits(s) /\ ran' = <<s>> /\ left' = <<>>
      \/ IsThere(s) /\ Die
  BY <1>3 DEF Fetch
<1>7. CASE ~IsThere(s) /\ NotFound(Head(left).last) /\ UNCHANGED ran
  <2>1. left' = Tail(left)
    BY <1>7 DEF NotFound
  <2>2. "died" \notin ToSet(events')
    <3>1. events' = events \/ events' = Append(events, "exception")
      BY <1>7 DEF NotFound, Say, Silently
    <3>2. ToSet(Append(events, "exception")) = ToSet(events) \union {"exception"}
      BY SeqLast DEF ExecuteCase
    <3>3. "died" # "exception" /\ "died" \notin ToSet(events)
      BY DEF ExecuteCase
    <3>q. QED BY <3>1, <3>2, <3>3
  <2>3. CASE Tail(left) = <<>> /\ FirstFound(ConfDir, asked.id) = <<>>
    <3>1. FirstFound(DescribedFrom, asked.id) = <<>>
      BY <2>3, FoundAlike DEF ExecuteCase
    <3>2. ~Undescribed
      BY <3>1 DEF Undescribed
    <3>q. QED BY <1>7, <2>1, <2>3, <3>2 DEF ExecuteGoes, ExecuteCase
  <2>4. CASE Searching("fetch", ConfDir, Tail(left))
    BY <1>2, <1>4, <1>7, <2>1, <2>2, <2>4 DEF ExecuteGoes, ExecuteCase
  <2>q. QED BY <1>1, <1>5, <1>7, <2>3, <2>4
<1>8. CASE IsThere(s) /\ registry # Freed /\ Inherits(s) /\ ran' = <<s>> /\ left' = <<>>
  <2>1. <<s>> # <<>> /\ <<s>>[1] = s
    OBVIOUS
  <2>2. FirstFound(ConfDir, asked.id) = <<s>>
    BY <1>1, <1>5, <1>8, <2>1
  <2>3. Ends(s)
    BY <1>8 DEF Inherits, Ends, ExecuteCase
  <2>4. FirstFound(DescribedFrom, asked.id) # <<>> => FirstFound(DescribedFrom, asked.id) = <<s>>
    BY <2>2, FoundAlike DEF ExecuteCase
  <2>5. ~Undescribed
    <3>. HIDE DEF s
    <3>q. QED BY <2>1, <2>3, <2>4 DEF Undescribed
  <2>q. QED BY <1>8, <2>2, <2>5 DEF ExecuteGoes
<1>9. CASE IsThere(s) /\ Die
  <2>1. left' = <<>> /\ events' = Append(events, "died")
    BY <1>9 DEF Die, Say
  <2>2. "died" \in ToSet(events')
    BY <2>1, SeqLast DEF ExecuteCase
  <2>q. QED BY <2>1, <2>2 DEF ExecuteGoes
<1>q. QED BY <1>6, <1>7, <1>8, <1>9

LEMMA ExecuteDo ==
  ASSUME SearchSound, ExecuteInv, DoTask
  PROVE  ExecuteInv'
<1>1. cat # Null /\ left # <<>> /\ UNCHANGED <<cat, gone, touched, asked>>
  BY DoTaskFrame
<1>2. Clear' <=> Clear
  BY <1>1, DescriptionFrame
<1>3. CASE ~(asked.op = "execute" /\ Clear)
  BY <1>1, <1>2, <1>3 DEF ExecuteInv
<1>4. CASE asked.op = "execute" /\ Clear
  <2>1. ExecuteCase
    <3>1. SearchCase
      BY <1>1, <1>4, SearchCaseOf
    <3>q. QED BY <1>1, <1>4, <3>1 DEF ExecuteCase, ExecuteInv, SearchSound, SearchTypes
  <2>2. UNCHANGED described
    BY <1>4, ResultsNext
  <2>3. described = Description
    BY <1>4 DEF ExecuteInv
  <2>4. ExecuteGoes
    BY <1>1, <1>4, <2>1, ExecuteRegistry, ExecuteFetch DEF ExecuteInv
  <2>q. QED BY <1>1, <2>2, <2>3, <2>4, ExecuteNext
<1>q. QED BY <1>3, <1>4

LEMMA ExecuteInvStep == SearchSound /\ DescribeInv /\ ExecuteInv /\ [Next]_kernelState => ExecuteInv'
<1>1. SUFFICES ASSUME SearchSound, DescribeInv, ExecuteInv, [Next]_kernelState PROVE ExecuteInv'
  OBVIOUS
<1>2. CASE AskNext
  BY <1>1, <1>2, ExecuteAsk
<1>3. CASE DoTask
  BY <1>1, <1>3, ExecuteDo
<1>4. CASE OpenOrClose
  <2>1. asked' = NoRequest
    BY <1>1, <1>4 DEF OpenOrClose, OpenCatalogue, CloseCatalogue, SearchSound, Order, Closed
  <2>q. QED BY <2>1 DEF ExecuteInv, NoRequest
<1>5. CASE DeployOrUndeploy
  <2>1. touched' # {}
    BY <1>5 DEF DeployOrUndeploy
  <2>q. QED BY <2>1 DEF ExecuteInv, Clear
<1>6. CASE UNCHANGED catVars
  <2>1. UNCHANGED <<cat, touched, asked, registry, left, events, described, ran>>
    BY <1>6 DEF catVars
  <2>2. /\ (Undescribed' <=> Undescribed) /\ ConfDir' = ConfDir
        /\ Description' = Description /\ (Clear' <=> Clear)
        /\ \A do, dir, tasks : Searching(do, dir, tasks)' <=> Searching(do, dir, tasks)
        /\ RegistryMade' = RegistryMade /\ (RegistryOK' <=> RegistryOK)
        /\ \A do, dir : Searches(do, dir)' = Searches(do, dir)
        /\ \A dir, id : FirstFound(dir, id)' = FirstFound(dir, id)
    BY <2>1, DescriptionFrame, RegistryFrame, SearchFrame, CatFrame
  <2>3. Searching("fetch", ConfDir, left)' <=> Searching("fetch", ConfDir, left)
    BY <2>1, <2>2
  <2>4. /\ Searches("fetch", ConfDir)' = Searches("fetch", ConfDir)
        /\ FirstFound(ConfDir, asked.id)' = FirstFound(ConfDir, asked.id)
    BY <2>1, <2>2
  <2>5. (NotServed' <=> NotServed) /\ Freed' = Freed
    BY <2>1 DEF NotServed, Freed
  <2>q. QED BY <1>1, <2>1, <2>2, <2>3, <2>4, <2>5 DEF ExecuteInv
<1>q. QED BY <1>1, <1>2, <1>3, <1>4, <1>5, <1>6, SearchSteps

LEMMA FrontLast ==
  ASSUME NEW T, NEW s \in Seq(T), Len(s) >= 1
  PROVE  Append(Front(s), Last(s)) = s
<1>1. PICK n : n = Len(s) /\ n \in Nat /\ n >= 1
  OBVIOUS
<1>2. s \in [1 .. n -> T]
  BY <1>1
<1>3. Front(s) \in Seq(T) /\ Len(Front(s)) = n - 1 /\ \A i \in 1 .. n - 1 : Front(s)[i] = s[i]
  BY <1>1 DEF Front
<1>4. Last(s) = s[n] /\ s[n] \in T
  BY <1>1 DEF Last
<1>5. PICK u : u = Append(Front(s), Last(s))
  OBVIOUS
<1>6. u \in Seq(T) /\ Len(u) = n /\ \A i \in 1 .. n : u[i] = s[i]
  BY <1>1, <1>3, <1>4, <1>5
<1>7. u \in [1 .. n -> T]
  <2>1. u \in [1 .. Len(u) -> T]
    BY <1>6
  <2>q. QED BY <1>6, <2>1
<1>8. u = s
  BY <1>2, <1>6, <1>7
<1>q. QED BY <1>5, <1>8

(* What a service is listed as, when it is not an import.                  *)
LEMMA ListedAsIs ==
  ASSUME cat \in Catalogues, NEW s \in Deployed, ~IsImport(s)
  PROVE  ListedAs(s) = s[2]
<1>1. s[2] \in Identifiers
  BY DEF Identifiers
<1>2. s[2] \in Seq(ToSet(s[2])) /\ Len(s[2]) >= 1
  BY <1>1, IdentifiersOf
<1>3. Append(Front(s[2]), Last(s[2])) = s[2]
  BY <1>2, FrontLast
<1>q. QED BY <1>3 DEF ListedAs, AddPrefix

(* Where descriptions are looked for, and lists.                           *)
Looks(dir) ==
  dir = GetServicesNamespacePath(DescribedFrom) \/ (cat.searchPath /\ dir = DescribedFrom)

LEMMA LooksIn ==
  ASSUME SearchCase, ~(asked.protocol = "ogc" /\ cat.servicePath)
  PROVE  /\ \A dir : Looks(dir) => dir \in DOMAIN cat.dirs
         /\ Everything(asked.protocol) =
              {s \in {f \in UNION {ToSet(In(dir)) : dir \in {d \in DOMAIN cat.dirs : Looks(d)}} : ~IsImport(f)}
                       \union ToSet(Rows)
                       \union (IF asked.protocol = "wps" THEN {cat.imports[n] : n \in DOMAIN cat.imports} ELSE {}) :
                 asked.protocol = "ogc" => ~ServiceIsFilter(s)}
         /\ \/ FirstFound(DescribedFrom, asked.id) = <<>>
            \/ \E dir : Looks(dir) /\ FirstFound(DescribedFrom, asked.id) = FoundIn(dir, asked.id)
         /\ \A dir : Looks(dir) /\ FoundIn(dir, asked.id) # <<>> =>
              FirstFound(DescribedFrom, asked.id) # <<>>
<1>. DEFINE D  == DescribedFrom
            ns == GetServicesNamespacePath(D)
<1>1. D \in DOMAIN cat.dirs /\ ns \in DOMAIN cat.dirs
  BY DirsOf DEF SearchCase, DescribedFrom
<1>2. D = IF asked.protocol = "wps" THEN GetServicesNamespacePath(ConfDir) ELSE "cwd"
  BY DEF DescribedFrom, ConfDir, SearchCase
<1>3. {ns} \union (IF cat.searchPath THEN {D} ELSE {}) = {d \in DOMAIN cat.dirs : Looks(d)}
  BY <1>1 DEF Looks
<1>4. \A dir : Looks(dir) => dir \in DOMAIN cat.dirs
  BY <1>1 DEF Looks
<1>5. Everything(asked.protocol) =
        {s \in {f \in UNION {ToSet(In(dir)) : dir \in {ns} \union (IF cat.searchPath THEN {D} ELSE {})} : ~IsImport(f)}
                 \union ToSet(Rows)
                 \union (IF asked.protocol = "wps" THEN {cat.imports[n] : n \in DOMAIN cat.imports} ELSE {}) :
           asked.protocol = "ogc" => ~ServiceIsFilter(s)}
  BY <1>2 DEF Everything
<1>6. FirstFound(D, asked.id) = IF FoundIn(ns, asked.id) # <<>> THEN FoundIn(ns, asked.id)
                                ELSE IF cat.searchPath /\ ns # D THEN FoundIn(D, asked.id) ELSE <<>>
  BY DEF FirstFound
<1>7. \/ FirstFound(D, asked.id) = <<>>
      \/ \E dir : Looks(dir) /\ FirstFound(D, asked.id) = FoundIn(dir, asked.id)
  BY <1>6 DEF Looks
<1>8. \A dir : Looks(dir) /\ FoundIn(dir, asked.id) # <<>> => FirstFound(D, asked.id) # <<>>
  BY <1>6 DEF Looks
<1>q. QED BY <1>3, <1>4, <1>5, <1>7, <1>8

LEMMA FoundIsListed ==
  ASSUME SearchCase, ~(asked.protocol = "ogc" /\ (cat.servicePath \/ Imported(<<Last(asked.id)>>)))
  PROVE  ToSet(FirstFound(DescribedFrom, asked.id)) \subseteq Everything(asked.protocol)
<1>1. CASE FirstFound(DescribedFrom, asked.id) = <<>>
  <2>1. ToSet(FirstFound(DescribedFrom, asked.id)) = {}
    BY <1>1, SeqNone
  <2>q. QED BY <2>1
<1>2. ASSUME NEW dir, Looks(dir), FirstFound(DescribedFrom, asked.id) = FoundIn(dir, asked.id)
      PROVE  ToSet(FirstFound(DescribedFrom, asked.id)) \subseteq Everything(asked.protocol)
  <2>. DEFINE s == Find(dir, asked.id)
  <2>1. dir \in DOMAIN cat.dirs
    BY <1>2, LooksIn
  <2>2. CASE FoundIn(dir, asked.id) = <<>>
    <3>1. ToSet(FirstFound(DescribedFrom, asked.id)) = {}
      BY <1>2, <2>2, SeqNone
    <3>q. QED BY <3>1
  <2>3. CASE FoundIn(dir, asked.id) # <<>>
    <3>1. FoundIn(dir, asked.id) = <<s>> /\ (asked.protocol = "ogc" => ~ServiceIsFilter(s))
      BY <2>1, <2>3, FoundOne
    <3>2. \/ asked.id \in ToSet(cat.rows) /\ s = DbRow(asked.id)
          \/ Imported(asked.id) /\ s = cat.imports[asked.id[1]]
          \/ asked.id \in ToSet(cat.dirs[dir]) /\ s = <<dir, asked.id>>
      BY <2>1, <2>3, FoundCases
    <3>3. ToSet(FirstFound(DescribedFrom, asked.id)) = {s}
      BY <1>2, <3>1, SeqNone
    <3>4. asked.protocol = "ogc" => ~Imported(asked.id)
      <4>1. Imported(asked.id) => <<Last(asked.id)>> = asked.id
        <5>1. Imported(asked.id) => Len(asked.id) = 1
          BY DEF Imported
        <5>2. Len(asked.id) = 1 => asked.id = <<asked.id[1]>> /\ Last(asked.id) = asked.id[1]
          BY DEF SearchCase, Last
        <5>q. QED BY <5>1, <5>2
      <4>q. QED BY <4>1
    <3>5. s \in {f \in UNION {ToSet(In(d)) : d \in {e \in DOMAIN cat.dirs : Looks(e)}} : ~IsImport(f)}
                 \union ToSet(Rows)
                 \union (IF asked.protocol = "wps" THEN {cat.imports[n] : n \in DOMAIN cat.imports} ELSE {})
      <4>1. CASE asked.id \in ToSet(cat.rows) /\ s = DbRow(asked.id)
        BY <4>1, RowsOfCatalogue DEF SearchCase
      <4>2. CASE Imported(asked.id) /\ s = cat.imports[asked.id[1]]
        BY <3>4, <4>2 DEF SearchCase, Imported
      <4>3. CASE asked.id \in ToSet(cat.dirs[dir]) /\ s = <<dir, asked.id>>
        <5>1. s \in ToSet(In(dir))
          BY <2>1, <4>3, InOf DEF SearchCase
        <5>2. CASE ~IsImport(s)
          BY <1>2, <2>1, <5>1, <5>2
        <5>3. CASE IsImport(s)
          <6>1. asked.protocol # "ogc"
            <7>1. s[2] = asked.id
              BY <4>3
            <7>2. Imported(<<Last(asked.id)>>)
              <8>. HIDE DEF s
              <8>q. QED BY <5>3, <7>1 DEF IsImport
            <7>q. QED BY <7>2
          <6>q. QED BY <5>3, <6>1, ImportIs DEF SearchCase
        <5>q. QED BY <5>2, <5>3
      <4>q. QED BY <3>2, <4>1, <4>2, <4>3
    <3>. HIDE DEF s
    <3>q. QED BY <3>1, <3>3, <3>5, LooksIn
  <2>q. QED BY <2>2, <2>3
<1>q. QED BY <1>1, <1>2, LooksIn

LEMMA ListedIsFound ==
  ASSUME SearchCase, ~(asked.protocol = "ogc" /\ cat.servicePath),
         NEW s \in Everything(asked.protocol), ListedAs(s) = asked.id
  PROVE  FirstFound(DescribedFrom, asked.id) # <<>>
<1>1. cat \in Catalogues
  BY DEF SearchCase
<1>2. \/ \E dir : dir \in DOMAIN cat.dirs /\ Looks(dir) /\ s \in ToSet(In(dir)) /\ ~IsImport(s)
      \/ s \in ToSet(Rows)
      \/ \E n \in DOMAIN cat.imports : s = cat.imports[n]
  BY LooksIn
<1>3. PICK dir : dir \in DOMAIN cat.dirs /\ Looks(dir)
  BY LooksIn DEF Looks
<1>4. \A x : <<x>> # <<>>
  OBVIOUS
<1>5. ASSUME NEW d, d \in DOMAIN cat.dirs, Looks(d), s \in ToSet(In(d)), ~IsImport(s)
      PROVE  FirstFound(DescribedFrom, asked.id) # <<>>
  <2>1. s[2] \in ToSet(cat.dirs[d]) /\ s \in Deployed
    BY <1>1, <1>5, InOf DEF Deployed
  <2>2. s[2] = asked.id
    BY <1>1, <1>5, <2>1, ListedAsIs
  <2>3. FoundIn(d, asked.id) # <<>>
    BY <1>4, <2>1, <2>2 DEF FoundIn
  <2>q. QED BY <1>5, <2>3, LooksIn
<1>6. CASE s \in ToSet(Rows)
  <2>1. s[1] = "db" /\ s[2] \in ToSet(cat.rows) /\ s \in Deployed
    BY <1>1, <1>6, RowsOfCatalogue DEF Deployed
  <2>2. ~IsImport(s)
    BY <1>1, <2>1, ImportIs, ImportOf
  <2>3. s[2] = asked.id
    BY <1>1, <2>1, <2>2, ListedAsIs
  <2>4. FoundIn(dir, asked.id) # <<>>
    BY <1>4, <2>1, <2>3 DEF FoundIn
  <2>q. QED BY <1>3, <2>4, LooksIn
<1>7. ASSUME NEW n \in DOMAIN cat.imports, s = cat.imports[n]
      PROVE  FirstFound(DescribedFrom, asked.id) # <<>>
  <2>1. IsImport(s) /\ Last(s[2]) = n
    BY <1>1, <1>7, ImportOf
  <2>2. asked.id = <<n>>
    BY <2>1 DEF ListedAs
  <2>3. Imported(asked.id)
    <3>1. Len(<<n>>) = 1 /\ <<n>>[1] = n
      OBVIOUS
    <3>q. QED BY <2>2, <3>1 DEF Imported
  <2>4. FoundIn(dir, asked.id) # <<>>
    BY <1>4, <2>3 DEF FoundIn
  <2>q. QED BY <1>3, <2>4, LooksIn
<1>q. QED BY <1>2, <1>5, <1>6, <1>7

SearchesInv ==
  /\ ListsSound /\ PageInv
  /\ Quiet /\ WholeList
  /\ DescribeInv /\ ExecuteInv

LEMMA SettledOf ==
  ASSUME SearchesInv, NEW op \in {"describe", "execute"}, Settled(op), ~Ambiguous(asked.id), ~Hidden(asked.id)
  PROVE  SearchCase /\ Clear /\ asked.op = op /\ left = <<>> /\ ~NotServed
<1>1. cat # Null /\ asked.op = op /\ left = <<>> /\ Clear /\ ~NotServed
  BY DEF Settled, Clear, NotServed
<1>q. QED BY <1>1, SearchCaseOf DEF SearchesInv, ListsSound

(* The service that runs is the one that was described, and the one        *)
(* described was listed with that identifier (RunsWhatIsDescribed), though *)
(* three functions search for it, for every catalogue and every identifier *)
(* that is neither ambiguous nor hidden.                                   *)
THEOREM RunsTheOneDescribed == Spec => []RunsWhatIsDescribed
<1>1. Init => SearchesInv
  <2>1. Init => Closed
    BY DEF Init
  <2>2. Closed => asked = NoRequest
    BY DEF Closed
  <2>3. asked = NoRequest => Quiet /\ WholeList /\ DescribeInv /\ ExecuteInv
    BY DEF NoRequest, Quiet, WholeList, DescribeInv, ExecuteInv
  <2>q. QED BY <2>1, <2>2, <2>3, SearchClosed, PageClosed DEF SearchesInv
<1>2. SearchesInv /\ [Next]_kernelState => SearchesInv'
  <2>1. ListsSound => SearchSound
    BY DEF ListsSound
  <2>q. QED BY <2>1, ListsStep, PageStep, QuietStep, WholeListStep, DescribeInvStep, ExecuteInvStep
            DEF SearchesInv
<1>3. ASSUME SearchesInv, Settled("execute"), ~Ambiguous(asked.id), ~Hidden(asked.id)
      PROVE  described = ran \/ (described = <<>> /\ Unseen)
  <2>1. SearchCase /\ Clear /\ asked.op = "execute" /\ left = <<>> /\ ~NotServed
    BY <1>3, SettledOf
  <2>2. described = Description /\ ran = FirstFound(ConfDir, asked.id) /\ ~Undescribed
    BY <1>3, <2>1 DEF SearchesInv, ExecuteInv
  <2>3. described = FirstFound(DescribedFrom, asked.id)
    BY <2>2 DEF Description
  <2>4. \/ FirstFound(DescribedFrom, asked.id) = FirstFound(ConfDir, asked.id)
        \/ FirstFound(DescribedFrom, asked.id) = <<>> /\ Unseen
    BY <2>1, FoundAlike
  <2>q. QED BY <2>2, <2>3, <2>4
<1>4. ASSUME SearchesInv, Settled("describe"), ~Ambiguous(asked.id), ~Hidden(asked.id), listed # <<>>,
             ~(asked.protocol = "ogc" /\ (cat.servicePath \/ Imported(<<Last(asked.id)>>)))
      PROVE  /\ ToSet(described) \subseteq ToSet(listed)
             /\ (\E s \in ToSet(listed) : ListedAs(s) = asked.id) => described # <<>>
  <2>1. SearchCase /\ Clear /\ asked.op = "describe" /\ left = <<>> /\ ~NotServed
    BY <1>4, SettledOf
  <2>2. described = FirstFound(DescribedFrom, asked.id)
    BY <1>4, <2>1 DEF SearchesInv, DescribeInv, Description
  <2>3. ToSet(listed) = Everything(asked.protocol)
    BY <1>4, <2>1 DEF SearchesInv, WholeList, Clear
  <2>q. QED BY <1>4, <2>1, <2>2, <2>3, FoundIsListed, ListedIsFound
<1>5. SearchesInv => RunsWhatIsDescribed
  BY <1>3, <1>4 DEF RunsWhatIsDescribed
<1>q. QED BY <1>1, <1>2, <1>5, PTL DEF Spec
=============================================================================
