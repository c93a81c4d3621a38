--------------------------- MODULE SqlConnections ---------------------------
(***************************************************************************)
(* The connections of one request to the metadata database and to the one  *)
(* of the jobs (sqlapi.c).  All are in one array, ppoZooDS, whose length   *)
(* only lenv.ds_nb tells, a map of conf; callers name a connection by what *)
(* init_sql returned, by that number or by 0 and 1.  Both databases may be *)
(* out of reach at any time, and a statement may fail.                     *)
(***************************************************************************)
EXTENDS Integers, Sequences, FiniteSets

Bases == {"metadb", "database"}
None == "none"  \* the NULL a failed or closed connection leaves in the array

VARIABLES
  db,   \* ds, the array; nb, the ds_nb of each conf; id, what init_sql returned;
        \* lost, the connections whose place was taken while they were open
  plan, \* the steps the request has still to make
  fate  \* the request, what failed, and what became of its statements

sqlVars == <<db, plan, fate>>

NoSql ==
  /\ db = [ds |-> <<>>, nb |-> [conf |-> 0, lconf |-> 0], id |-> 0, lost |-> 0]
  /\ plan = <<>>
  /\ fate = [asked |-> "none", failed |-> {}, unsaid |-> FALSE, astray |-> FALSE,
             died |-> FALSE, saved |-> FALSE, child |-> FALSE, forkedOpen |-> FALSE]

Opened(ds) == { i \in DOMAIN ds : ds[i] # None }
Held == Cardinality(Opened(db.ds)) + db.lost

-----------------------------------------------------------------------------
\* What comes of the string made of a section of main.cfg, which the metadata database may
\* not have.
Outcomes(base) == {"up", "down"} \cup (IF base = "metadb" THEN {"unset"} ELSE {})

\* The array is made as long as ds_nb says, whatever it was, and the count grows
\* even when the connection fails.  Without a section of the configuration nothing is done.
InitSql(d, c, base, how) ==
  LET n == d.nb[c]
      dropped == { i \in Opened(d.ds) : i > n }
  IN CASE how = "unset" -> [d EXCEPT !.id = -1]
       [] OTHER -> [d EXCEPT !.ds = Append(SubSeq(@, 1, n), IF how = "up" THEN base ELSE None),
                             !.nb[c] = n + 1,
                             !.id = IF how = "up" THEN n + 1 ELSE -2,
                             !.lost = @ + Cardinality(dropped)]

\* What is read at ppoZooDS[i]: beyond the array, nothing or anything.
Connection(d, i) ==
  CASE d.ds = <<>> -> {None}
    [] i + 1 \in DOMAIN d.ds -> {d.ds[i + 1]}
    [] OTHER -> {None, "beyond"}

CloseSqlUncounted(d, c, i) ==    \* mutant: ds_nb stays
  IF i + 1 \in Opened(d.ds) THEN [d EXCEPT !.ds[i + 1] = None] ELSE d

\* Only a connection that was open counts.
CloseSql(d, c, i) ==
  IF i + 1 \in Opened(d.ds)
  THEN [d EXCEPT !.ds[i + 1] = None, !.nb[c] = IF @ > 0 THEN @ - 1 ELSE 0]
  ELSE d

CleanUpSql(d, c) ==
  CloseSql(IF d.nb[c] > 1 THEN CloseSql(d, c, 1) ELSE d, c, 0)

\* A statement connects when nothing was counted as open, and then closes behind it.
VerifyDbConnection(d, c, how) ==
  IF d.nb[c] = 0 THEN InitSql(d, c, "database", how) ELSE d
CloseIfNeeded(d, c, n, created) == IF created THEN CloseSql(d, c, n - 1) ELSE d

-----------------------------------------------------------------------------
\* The steps of a request.  A statement has the kind of what its function does without a
\* result: "record" never looks, "file" does, "field" and "sid" return at once, and
\* "read" reads the rows of NULL.
Statement(kind, c) == [do |-> "statement", kind |-> kind, conf |-> c]
Connect(base, c)   == [do |-> "connect", base |-> base, conf |-> c]
CloseAt(i, c)      == [do |-> "close", at |-> i, conf |-> c]
CloseLast(c)       == [do |-> "closeLast", conf |-> c]
CleanUp            == [do |-> "cleanUp", conf |-> "conf"]
FetchThen(steps)   == [do |-> "fetch", got |-> steps]
ForkHere           == [do |-> "fork"]
SaveRequest        == [do |-> "save"]
Leave               == [do |-> "exit"]

RecordStoredFile      == Statement("record", "conf")
RecordRequestResponse(c) == Statement("record", c)
UpdateStatus(c)       == Statement("record", c)
RemoveService         == Statement("record", "conf")
UnhandleStatus(c)     == Statement("record", c)
GetStatusFile         == Statement("file", "conf")
RunSqlQuery           == Statement("field", "conf")
GetStatusField(c)     == Statement("field", c)
GetStatusId           == Statement("sid", "conf")
GetUserId(c)          == Statement("read", c)
GetStatus             == Statement("read", "conf")
ReadFinalRes          == Statement("read", "conf")
IsRunning             == Statement("read", "conf")

\* The user is looked for while the statement is written, before it connects.
RecordServiceStatus(c) == { u \o <<Statement("record", c)>> : u \in {<<>>, <<GetUserId(c)>>} }

\* The search for a service looks into the metadata database, once for each directory it
\* tries, and closes what it has opened.
LookInMetadb(c) == << Connect("metadb", c), CloseLast(c) >>
FetchService(c) == { LookInMetadb(c), LookInMetadb(c) \o LookInMetadb(c) }

ListServices == { LookInMetadb("conf") \o << CloseAt(0, "conf") >> }

RunGetStatus ==
  { <<GetStatusId>> \o s :
      s \in { <<>>, <<IsRunning>>, <<IsRunning, GetStatus>>, <<IsRunning, GetStatusFile>>,
              <<IsRunning, ReadFinalRes, GetStatus>> } }
RunDismiss == { <<GetStatusId>>, <<GetStatusId, GetStatusField("conf"), RemoveService>> }

\* printJobStatus, whose request is GetStatus, and createStatus for what it has found; one
\* statement stands for those of the six fields of the status.
PrintJobStatus ==
  {<<GetStatusId>>} \cup
  { <<GetStatusId, IsRunning>> \o s \o <<GetStatusField("conf")>> :
      s \in { <<GetStatus>>, <<ReadFinalRes, GetStatus>> } }

\* The answer to a JSON request whose job was accepted: createStatusFile, printJobStatus.
AcceptedJson == { <<GetStatusField("conf")>> \o p : p \in PrintJobStatus }

\* A service that runs at once, that of the status among them, may store files and tell its
\* progress.
RunSync ==
  { l \o s \o << CloseAt(0, "conf"), CleanUp >> :
      l \in FetchService("conf"),
      s \in { <<RecordStoredFile, UpdateStatus("conf")>>, <<GetStatus>>, <<RunSqlQuery>> } }

\* GET /jobs, GET /jobs/{id} and the results of a job, one of which needs its service.
AnswerJobs ==
  { <<Connect("database", "conf")>> \o s \o << CloseAt(0, "conf"), CleanUp >> :
      s \in { <<RunSqlQuery>>, << GetStatusId, IsRunning >> \o LookInMetadb("conf") }
             \cup { g \o << GetStatusField("conf"), GetStatusField("conf") >> : g \in RunGetStatus } }

\* Published to the workers as JSON, or as XML.
PublishJob ==
  { l \o <<Connect("database", "conf")>> \o s \o <<RecordRequestResponse("conf")>> \o g \o <<CleanUp>> :
      l \in FetchService("conf"), s \in RecordServiceStatus("conf"), g \in AcceptedJson \cup {<<>>} }

\* The process of a job, refused or run, as XML or as JSON, ...
XmlJob ==
  { k \o x : k \in { <<>>, <<RecordRequestResponse("conf"), SaveRequest>> },
             x \in { << RecordRequestResponse("conf"), UnhandleStatus("conf"),
                        CloseAt(1, "conf"), CloseAt(0, "conf") >>,
                     << UpdateStatus("conf"), RecordRequestResponse("conf"),
                        UnhandleStatus("conf"), CleanUp >> } }
JsonJob ==
  { <<GetStatusField("conf")>> \o x :
      x \in { <<Leave>>,
              << UpdateStatus("conf"), GetStatusField("conf"), RecordRequestResponse("conf"),
                 UnhandleStatus("conf"), CleanUp >> } }
JobPlans ==
  { <<Connect("database", "conf")>> \o s \o e :
      s \in RecordServiceStatus("conf"), e \in XmlJob \cup JsonJob }

\* ... and the one that answers meanwhile: as JSON it asks for the status of the job.
ForkJob ==
  { l \o <<ForkHere>> \o g \o <<CleanUp>> :
      l \in FetchService("conf"), g \in AcceptedJson \cup {<<>>} }

\* A worker takes a slot with a connection it closes before it forks.  Its job has a copy
\* of conf, and of the count in it, and comes back to the first one at the end.
LastCloses == << CloseAt(1, "conf"), CloseAt(0, "conf") >>
RunAsyncRequest ==
  { << Connect("database", "conf"), FetchThen(<<CloseAt(0, "conf"), ForkHere>>) >> \o LastCloses }
WorkerPlans ==
  { c \o l \o <<RecordRequestResponse("lconf")>> \o k \o e :
      c \in { <<>>, <<GetStatusField("lconf")>> }, l \in FetchService("lconf"),
      k \in { <<>>, <<SaveRequest>> },
      e \in { << RecordRequestResponse("lconf"), UnhandleStatus("conf"),
                 CloseAt(1, "lconf"), CloseAt(0, "lconf") >>,
              << UpdateStatus("lconf"), RecordRequestResponse("lconf"), UnhandleStatus("lconf"),
                 Connect("database", "conf"), FetchThen(<<>>) >> \o LastCloses,
              << UpdateStatus("lconf"), GetStatusField("lconf"), RecordRequestResponse("lconf"),
                 UnhandleStatus("lconf"), Connect("database", "conf"), FetchThen(<<>>) >>
                \o LastCloses } }

Requests ==
  [ list    |-> ListServices, sync |-> RunSync, jobs |-> AnswerJobs,
    status  |-> RunDismiss \cup { s \o <<CleanUp>> : s \in RunGetStatus },
    publish |-> PublishJob, job |-> ForkJob, worker |-> RunAsyncRequest ]

OpenSql ==
  /\ fate.asked = "none"
  /\ \E r \in DOMAIN Requests : fate' = [fate EXCEPT !.asked = r] /\ plan' \in Requests[r]
  /\ UNCHANGED db

-----------------------------------------------------------------------------
Step == Head(plan)
Now(does) == plan # <<>> /\ fate.died = FALSE /\ Step.do = does

IsStatement(step) == step.do \in {"statement", "fetch"}
Failed(what, cond) == IF cond THEN {what} ELSE {}

MakeConnection ==
  /\ Now("connect")
  /\ \E how \in Outcomes(Step.base) :
       /\ db' = InitSql(db, Step.conf, Step.base, how)
       /\ fate' = [fate EXCEPT !.failed = @ \cup Failed(Step.base, how = "down")]
  /\ plan' = Tail(plan)

\* What is known after a statement was sent to connection c.
Sent(c, ok) ==
  [fate EXCEPT !.failed = @ \cup Failed("statement", c \in Bases /\ ~ok),
               !.unsaid = @ \/ c \notin Bases,
               !.astray = @ \/ c = "metadb"]

\* Without its result, the caller of getStatusId gives up.
RunStatement ==
  /\ Now("statement")
  /\ LET c == Step.conf
         created == db.nb[c] = 0
         n == IF created THEN 1 ELSE db.nb[c]
     IN \E how \in IF created THEN Outcomes("database") ELSE {"up"}, ok \in BOOLEAN :
          LET d == VerifyDbConnection(db, c, how)
          IN \E e \in Connection(d, n - 1) :
               LET answered == e \in Bases /\ ok
                   left == ~answered /\ Step.kind \in {"field", "sid"}
                   dies == e = "beyond" \/ (~answered /\ Step.kind = "read")
               IN /\ db' = IF left \/ dies THEN d ELSE CloseIfNeeded(d, c, n, created)
                  /\ fate' = [Sent(e, ok) EXCEPT !.died = dies,
                                 !.failed = @ \cup Failed("database", how = "down")]
                  /\ plan' = IF left /\ Step.kind = "sid"
                             THEN SelectSeq(Tail(plan), LAMBDA s : ~IsStatement(s))
                             ELSE Tail(plan)

\* fetchSql takes the connection init_sql returned; its rows decide how to go on.
FetchSql ==
  /\ Now("fetch")
  /\ \E e \in Connection(db, db.id - 1), ok \in BOOLEAN :
       /\ fate' = [Sent(e, ok) EXCEPT !.died = e = "beyond"]
       /\ plan' \in {Tail(plan)} \cup IF e \in Bases /\ ok THEN {Step.got \o Tail(plan)} ELSE {}
  /\ UNCHANGED db

\* With a callback url the request is stored through the second connection, as if the first
\* one were that of the metadata.
SaveExecuteRequest ==
  /\ Now("save")
  /\ \E e \in Connection(db, 1), ok \in BOOLEAN :
       fate' = [Sent(e, ok) EXCEPT !.unsaid = fate.unsaid, !.saved = TRUE,
                              !.died = e = "beyond"]
  /\ plan' = Tail(plan)
  /\ UNCHANGED db

CloseConnection ==
  /\ Now("close") \/ Now("closeLast")
  /\ LET i == IF Step.do = "close" THEN Step.at ELSE db.id - 1
     IN \E e \in IF i < 0 THEN {None} ELSE Connection(db, i) :
          /\ db' = CloseSql(db, Step.conf, i)
          /\ fate' = [fate EXCEPT !.died = e = "beyond"]
  /\ plan' = Tail(plan)

CloseAll ==
  /\ Now("cleanUp")
  /\ db' = CleanUpSql(db, Step.conf)
  /\ plan' = Tail(plan)
  /\ UNCHANGED fate

\* Either of the two processes goes on with the connections of both.
Fork ==
  /\ Now("fork")
  /\ \E child \in BOOLEAN :
       /\ IF child THEN plan' \in IF fate.asked = "worker" THEN WorkerPlans ELSE JobPlans
                   ELSE plan' = Tail(plan)
       /\ fate' = [fate EXCEPT !.child = child, !.forkedOpen = Opened(db.ds) # {}]
  /\ UNCHANGED db

ServeSql ==
  \/ MakeConnection \/ RunStatement \/ FetchSql \/ SaveExecuteRequest
  \/ CloseConnection \/ CloseAll \/ Fork

\* The request is over, or its process has left.
SqlServed == fate.asked # "none" /\ (plan = <<>> \/ fate.died \/ Now("exit"))

-----------------------------------------------------------------------------
\* What is said to a database reaches it (zoo_service_loader.c, sqlapi.c): no statement
\* goes to the other database, no two processes share a connection, and a statement finds
\* none only when the database was out of reach, or when the metadata database was and the
\* request relies on its statements to connect: a service that runs at once, a worker, and
\* the process that answers for the job it has forked, not the one of the job.  When nothing
\* failed, a process dies with nothing left to say, unless it stores the request of its job,
\* and at the end it has closed what it opened.
OnDemand == fate.asked \in {"sync", "worker"} \/ (fate.asked = "job" /\ ~fate.child)
StatementsReach ==
  /\ ~fate.astray /\ ~fate.forkedOpen
  /\ fate.unsaid => \/ "database" \in fate.failed
                    \/ ("metadb" \in fate.failed /\ OnDemand)
  /\ fate.failed = {} =>
       /\ fate.died /\ ~fate.saved => \A i \in DOMAIN plan : ~IsStatement(plan[i])
       /\ plan = <<>> => Held = 0
=============================================================================
