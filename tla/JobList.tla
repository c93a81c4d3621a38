------------------------------ MODULE JobList ------------------------------
(***************************************************************************)
(* GET /jobs (printFilteredJobList, printJobList): the jobs that meet the  *)
(* filters of the query, page by page.  A kernel built with the database   *)
(* asks it for the jobs; one without reads the temporary directory.        *)
(***************************************************************************)
EXTENDS Elements, FiniteSets

CONSTANTS
  JobSets,    \* sequences of jobs, in the order of the directory or of the rows
  Filters,    \* the filters of a query, each a sequence of values, << >> without it
  PageLimits  \* the limits asked for, -1 without one

\* Every job has an identifier of its own; a limit is a number.
ASSUME JobListAssumption ==
  /\ \A j \in JobSets :
       /\ j.build \in {"db", "files"}
       /\ j.list \in Seq(ToSet(j.list))
       /\ \A i, k \in DOMAIN j.list : j.list[i].id = j.list[k].id => i = k
  /\ \A filter \in Filters :
       /\ filter.processid \in Seq(ToSet(filter.processid))
       /\ filter.status \in Seq(ToSet(filter.status))
  /\ PageLimits \subseteq Nat \union {-1}

VARIABLES
  jobs,      \* << >>, and then the jobs with the build of the kernel and the user
  dismissed, \* the jobs that were dismissed since
  query,     \* the query being answered
  toList,    \* what it has still to look at
  counted,   \* how many jobs met the filters so far
  nextLink,  \* serviceCntNext
  page,      \* the jobs in the answer
  pages,     \* the jobs in the answers read so far
  answer     \* what the client gets

jobVars == <<jobs, dismissed, query, toList, counted, nextLink, page, pages, answer>>

NoFilter == [processid |-> <<>>, status |-> <<>>, minDuration |-> <<>>, maxDuration |-> <<>>,
             type |-> <<>>, datetime |-> <<>>]
NoQuery == [filter |-> NoFilter, skip |-> 0, limit |-> -1, filtered |-> FALSE]

NoJobs ==
  /\ jobs = Null /\ dismissed = {} /\ query = NoQuery /\ toList = <<>>
  /\ counted = 0 /\ nextLink = FALSE /\ page = <<>> /\ pages = <<>> /\ answer = "none"

-----------------------------------------------------------------------------
\* The words of OGC API are translated with a table of three for five: the last two
\* are read beyond its end, where no status is.
WpsStatus(word) ==
  CASE word = "successful" -> "Succeeded"
    [] word = "failed"     -> "Failed"
    [] word = "running"    -> "Running"
    [] word \in {"dismissed", "accepted"} -> "beyond"
    [] OTHER -> word

Words(filter, field) == [i \in DOMAIN filter[field] |-> WpsStatus(filter[field][i])]

\* creation_time and end_time: a job that runs has no end, which no duration meets.
Duration(job) == job.updated - job.created

\* datetime, a list of intervals that may be open: the first one is never looked at and
\* the last one counts; without the database, from the first beginning to the last end.
OpenEnd == -1
Interval(filter) == Last(filter.datetime)
Hull(filter) == << filter.datetime[1][1], Last(filter.datetime)[2] >>
Within(time, interval) ==
  /\ interval[1] # OpenEnd => interval[1] <= time
  /\ interval[2] # OpenEnd => time <= interval[2]

\* The jobs of the user who asks, and those of nobody.
FilterJobByUser(job, user) == job.user \in {"nobody", user}

\* The query of the database, as the conjunction of its clauses.
Selected(job, filter, user) ==
  /\ filter.processid = <<>> \/ job.process \in ToSet(Words(filter, "processid"))
  /\ filter.status = <<>> \/ job.status \in ToSet(Words(filter, "status"))
  /\ \/ filter.minDuration = <<>>
     \/ job.ended /\ \E d \in ToSet(filter.minDuration) : d <= Duration(job)
  /\ \/ filter.maxDuration = <<>>
     \/ job.ended /\ \E d \in ToSet(filter.maxDuration) : d >= Duration(job)
  /\ "process" \in ToSet(filter.type) => job.type = "json"
  /\ filter.datetime = <<>> \/ Within(job.created, Interval(filter))
  /\ FilterJobByUser(job, user)

\* Only the first of the datetimes, or none: the clause is NULL.
NoClause(filter) == Len(filter.datetime) = 1

-----------------------------------------------------------------------------
\* servicePidFilter: the statuses are written over the identifiers of the processes, and
\* their number over the length, up to which it is read.
ServicePidFilter(filter) ==
  IF filter.status # <<>> THEN Words(filter, "status") ELSE Words(filter, "processid")

IsFilteredPid(filter, pid) ==
  ServicePidFilter(filter) = <<>> \/ pid \in ToSet(ServicePidFilter(filter))

\* The first of the durations, between the time of the .sid file and that of the .json
\* file; the interval, both ends included.
IsFilteredDMM(filter, job) ==
  LET min == IF filter.minDuration = <<>> THEN 0 ELSE filter.minDuration[1]
      max == IF filter.maxDuration = <<>> THEN 86400 ELSE filter.maxDuration[1]
  IN  /\ filter.minDuration # <<>> \/ filter.maxDuration # <<>> =>
           min <= Duration(job) /\ Duration(job) <= max
      /\ filter.datetime # <<>> => Within(job.created, Hull(filter))

\* What is in the _lenv.cfg file: without an identifier in it the process dies; without
\* the file the job is named true, and no file is called that.
Filtered(filter, job, there) ==
  LET byTime == filter.minDuration # <<>> \/ filter.maxDuration # <<>>
  IN  IF there THEN IsFilteredPid(filter, job.process) /\ IsFilteredDMM(filter, job)
      ELSE IsFilteredPid(filter, "true") /\ ~byTime

-----------------------------------------------------------------------------
\* The rows of the database, or the files of the directory.
JobsFor(filter, missing) ==
  {i \in DOMAIN jobs.list :
     /\ jobs.list[i].id \notin missing
     /\ jobs.build = "db" => Selected(jobs.list[i], filter, jobs.user)}

Ask(filter, skip, limit, filtered) ==
  /\ query' = [filter |-> filter, skip |-> skip, limit |-> limit, filtered |-> filtered]
  /\ counted' = 0 /\ nextLink' = FALSE /\ page' = <<>>
  /\ IF jobs.build = "db" /\ NoClause(filter)
     THEN answer' = "died" /\ toList' = <<>>
     ELSE /\ answer' = "busy"
          /\ toList' = ItemsAt(jobs.list, JobsFor(filter, dismissed))
  /\ UNCHANGED <<jobs, dismissed>>

\* Without a limit in the query or in limitParam a page holds ten thousand jobs.
AskJobs ==
  /\ jobs # Null /\ answer = "none"
  /\ \E filter \in Filters, limit \in PageLimits : Ask(filter, 0, limit, filter # NoFilter)
  /\ UNCHANGED pages

\* The database may refuse the query.
QueryFails ==
  /\ jobs # Null /\ jobs.build = "db" /\ answer = "busy" /\ counted = 0
  /\ answer' = "exception" /\ toList' = <<>>
  /\ UNCHANGED <<jobs, dismissed, query, counted, nextLink, page, pages>>

\* createNextLinks repeats the limit, not the filters.
NextLink ==
  /\ jobs # Null /\ answer = "list" /\ nextLink
  /\ Ask(NoFilter, query.skip + query.limit, query.limit, query.filtered)
  /\ UNCHANGED pages

\* Mutant: jobs counted from one.
OnPageFromOne ==
  query.limit = -1 \/ (counted > query.skip /\ counted <= query.limit + query.skip)

OnPage == query.limit = -1 \/ (counted >= query.skip /\ counted < query.limit + query.skip)

\* One job: the file build reads its _lenv.cfg file first.
ListJob ==
  /\ jobs # Null /\ answer = "busy" /\ toList # <<>>
  /\ LET job   == Head(toList)
         files == jobs.build = "files"
         there == job.id \notin dismissed /\ job.lenv # "none"
         meets == files => Filtered(query.filter, job, there)
     IN  IF files /\ there /\ job.lenv = "bare"
         THEN answer' = "died" /\ toList' = <<>> /\ UNCHANGED <<counted, nextLink, page>>
         ELSE /\ page' = IF meets /\ OnPage THEN Append(page, job.id) ELSE page
              /\ nextLink' = (nextLink \/ (/\ meets /\ query.limit # -1
                                           /\ counted = query.limit + query.skip))
              /\ counted' = IF meets THEN counted + 1 ELSE counted
              /\ toList' = Tail(toList)
              /\ UNCHANGED answer
  /\ UNCHANGED <<jobs, dismissed, query, pages>>

PrintJobList ==
  /\ jobs # Null /\ answer = "busy" /\ toList = <<>>
  /\ answer' = "list" /\ pages' = pages \o page
  /\ UNCHANGED <<jobs, dismissed, query, toList, counted, nextLink, page>>

DismissJob ==
  /\ jobs # Null /\ answer # "none"
  /\ \E i \in DOMAIN jobs.list : dismissed' = dismissed \union {jobs.list[i].id}
  /\ UNCHANGED <<jobs, query, toList, counted, nextLink, page, pages, answer>>

OpenJobs(j) ==
  /\ jobs = Null /\ jobs' = j
  /\ UNCHANGED <<dismissed, query, toList, counted, nextLink, page, pages, answer>>

ServeJobs == AskJobs \/ QueryFails \/ NextLink \/ ListJob \/ PrintJobList \/ DismissJob

-----------------------------------------------------------------------------
\* What the filters of a query mean: a status or a process that is named, a duration
\* within one of the bounds, the interval.  A status the table does not have is met by
\* none, and without the database the statuses stand for processes.
Meets(job, filter) ==
  IF jobs.build = "db" THEN
    /\ filter.processid # <<>> => \E w \in ToSet(filter.processid) : WpsStatus(w) = job.process
    /\ filter.status # <<>> => \E w \in ToSet(filter.status) : WpsStatus(w) = job.status
    /\ filter.minDuration # <<>> => \E d \in ToSet(filter.minDuration) : d <= Duration(job)
    /\ filter.maxDuration # <<>> => \E d \in ToSet(filter.maxDuration) : d >= Duration(job)
    /\ filter.datetime # <<>> => Within(job.created, Last(filter.datetime))
    /\ job.user \in {"nobody", jobs.user}
  ELSE
    /\ filter.processid # <<>> /\ filter.status = <<>> =>
         \E w \in ToSet(filter.processid) : WpsStatus(w) = job.process
    /\ filter.minDuration # <<>> => filter.minDuration[1] <= Duration(job)
    /\ Len(filter.datetime) = 1 => Within(job.created, filter.datetime[1])

Listable0 ==
  {i \in DOMAIN jobs.list : jobs.build = "db" => jobs.list[i].user \in {"nobody", jobs.user}}

Times(id) == Cardinality({i \in DOMAIN pages : pages[i] = id})

\* The pages a client reads along the next links hold every job that was not dismissed
\* meanwhile exactly once, however the limit divides their number; a filter keeps out
\* the jobs that do not meet it.  The next links of a filtered list are those of the
\* whole list, and a dismissal between two pages moves the ones that follow.
JobPages ==
  jobs # Null /\ answer = "list" =>
    /\ query.filter # NoFilter =>
         \A i \in DOMAIN page, k \in DOMAIN jobs.list :
           page[i] = jobs.list[k].id /\ jobs.list[k].id \notin dismissed
             /\ jobs.list[k].lenv # "none" => Meets(jobs.list[k], query.filter)
    /\ ~query.filtered /\ ~nextLink /\ (dismissed = {} \/ query.limit = -1) =>
         \A k \in Listable0 : jobs.list[k].id \notin dismissed => Times(jobs.list[k].id) = 1
=============================================================================
