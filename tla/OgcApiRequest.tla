---------------------------- MODULE OgcApiRequest ----------------------------
(***************************************************************************)
(* runRequest for OGC API - Processes: the filter services, the routes     *)
(* (with those of Deploy, Replace, Undeploy), the execution of a process   *)
(* and the answer that is printed.                                         *)
(***************************************************************************)
EXTENDS RequestState

\* errorException(NULL, ...) again, now under json_sig_handler.
UnreadableOas == At("filter") /\ Noting(SignalException(io), "end", {"signal"})

FilterRefuses == At("filter") /\ Refuse

RefuseMultipart == At("filter") /\ Reply(ErrorException(io), "leave")

UnsupportedMediaType ==
  At("filter") /\ Reply(ErrorException(WithStatus(io, "error")), "leave")

\* The filter answers by itself, with a Status and a response or a file that may be gone.
FilterAnswers ==
  /\ At("filter")
  /\ \E s \in {"200", "error"}, b \in Bodies, gone \in BOOLEAN :
       /\ b = (IF s = "200" THEN "document" ELSE "exception")
       /\ LET p == PrintHeaders(WithStatus(io, s))
          IN  Noting(IF gone THEN p ELSE Send(p, b), "leave", IF gone THEN {"headless"} ELSE {})

Filtered == At("filter") /\ Goto("route")

-----------------------------------------------------------------------------
IsUndeploy == req.method = "DELETE" /\ req.path \in ProcessPaths
IsDeploy   == \/ req.method = "POST" /\ req.path = "processes"
              \/ req.method = "PUT" /\ req.path \in ProcessPaths

NoProvider == At("route") /\ (IsUndeploy \/ IsDeploy) /\ ~env.dru /\ Refuse

\* No package file: the process does not exist, or is immutable (403).
NotUndeployable ==
  At("route") /\ IsUndeploy /\ env.dru /\ \E s \in {"none", "error"} : RefuseAs(s)

NotReplaceable ==
  At("route") /\ req.method = "PUT" /\ IsDeploy /\ env.dru /\ Refuse

\* The request becomes an execution of one of the providers.
ToProvider ==
  /\ At("route") /\ (IsUndeploy \/ IsDeploy) /\ env.dru
  /\ route' = [method |-> "POST", path |-> "execution",
               dru |-> IF IsUndeploy THEN "undeploy" ELSE "deploy"]
  /\ pc' = "package"
  /\ UNCHANGED <<io, run, done, events>>

ToHandler ==
  /\ At("route") /\ ~IsUndeploy /\ ~IsDeploy
  /\ route' = [route EXCEPT !.method = IF @ = "HEAD" THEN "GET" ELSE @]
  /\ io' = [io EXCEPT !.noContent = req.method = "HEAD"]
  /\ pc' = "package"
  /\ UNCHANGED <<run, done, events>>

AsksPackage == req.method = "GET" /\ route.path = "package"

NoPackage ==
  At("package") /\ AsksPackage /\ \E s \in {"none", "error"} : RefuseAs(s)

\* handlePackage: the file as it is, refused, converted, or nothing at all.
HandlePackage ==
  /\ At("package") /\ AsksPackage
  /\ \/ Reply(PrintAFile(io), "leave")
     \/ Refuse
     \/ Noting(io, "leave", {"silentPackage"})
     \/ Produce(io, FALSE, TRUE, "html")

PastPackage == At("package") /\ ~AsksPackage /\ Goto("html")

RedirectHtml == At("html") /\ Reply(PrintHeaders(WithStatus(io, "301")), "leave")

\* res is created; a converted package is printed at once.
CreateRes ==
  At("html") /\ Produce(io, TRUE, run.object, IF run.object THEN "print" ELSE "handle")

-----------------------------------------------------------------------------
Misplaced == route.path = "misplaced"
NotAllowed ==
  \/ route.method = "POST" /\ route.path \notin {"process", "package", "execution"}
  \/ route.method = "DELETE" /\ route.path \notin JobPaths

OneByteBody == req.method \in {"POST", "PUT", "DELETE"}

\* The resource is not available, or its method is not allowed, which a body of
\* one byte, taken for the root, is told too.
RefuseRoute ==
  /\ At("handle")
  /\ \/ Misplaced \/ NotAllowed \/ OneByteBody \/ route.path = "other"
     \/ route.path = "root" /\ req.method # "GET"
  /\ Refuse

Allowed(paths) == At("handle") /\ ~NotAllowed /\ route.path \in paths

ProduceRoot == Allowed({"root"}) /\ req.method = "GET" /\ Document

ProduceApi == Allowed({"conformance", "api"}) /\ Document

\* The list; a zcfg file that cannot be read; a directory that cannot, after
\* which the standard output stays on the standard error.
ListProcesses ==
  /\ Allowed({"processes"}) /\ route.method = "GET"
  /\ \/ Document
     \/ Produce(ErrorException(io), TRUE, TRUE, "print")
     \/ Noting(io, "leave", {"silent"})

RefuseProcesses == Allowed({"processes"}) /\ route.method # "GET" /\ Refuse

\* Nothing answers a PUT or an OPTIONS: the empty object is printed.
OtherJobMethod ==
  Allowed({"jobs"} \union JobPaths) /\ route.method \notin {"GET", "DELETE"} /\ Document

RunDismiss ==
  /\ Allowed(JobPaths) /\ route.method = "DELETE"
  /\ \/ Refuse
     \/ /\ done' = done \union {"dismissed"}
        /\ run' = [run EXCEPT !.object = TRUE]
        /\ pc' = "print"
        /\ UNCHANGED <<route, io, events>>

\* printFilteredJobList: the list, or an exception for a wrong parameter or a
\* job that vanished while it was listed.
ListJobs ==
  /\ Allowed({"jobs"}) /\ route.method = "GET"
  /\ Document \/ Produce(PrintExceptionJ(io), FALSE, FALSE, "print")

\* printJobStatus: the status, or an exception and no status.
JobStatus(p) ==
  Produce(p, TRUE, TRUE, "print") \/ Produce(PrintExceptionJ(p), FALSE, FALSE, "print")

ReportJob ==
  /\ Allowed({"job"}) /\ route.method = "GET"
  /\ Refuse \/ JobStatus(FilterOut(io))

\* A bad or unknown identifier, or a job that is running.
RefuseResults == Allowed({"results", "output"}) /\ route.method = "GET" /\ Refuse

FindResults ==
  Allowed({"results", "output"}) /\ route.method = "GET" /\ Goto(route.path)

Describe ==
  Allowed({"process"}) /\ route.method # "POST" /\ (Document \/ Refuse)

\* The rest of the path is taken for the name of a process.
DescribeNothing ==
  Allowed({"package", "execution"}) /\ route.method # "POST" /\ Refuse

Execution ==
  Allowed({"process", "package", "execution"}) /\ route.method = "POST" /\ Goto("inputs")

-----------------------------------------------------------------------------
\* The whole document; an error document or a short file; no file.
WholeResults ==
  /\ At("results")
  /\ \/ Produce(FilterOut(io), TRUE, TRUE, "print")
     \/ Refuse
     \/ LET p == FilterOut(io)
        IN  \/ Reply(Send(HeadersThen(p, "200"), "document"), "leave")
            \/ Noting(p, "leave", {"silent"})

\* The metadata of the process may not be found, with an exception or without.
Metadata == {[known |-> TRUE, p |-> io], [known |-> FALSE, p |-> io],
             [known |-> FALSE, p |-> LocalException(io)]}

\* An output given by reference: a redirection, or what a HEAD needs of the file.
OutputByReference ==
  /\ At("output")
  /\ \E m \in Metadata :
       IF io.noContent
       THEN \/ \E object \in BOOLEAN : Produce(m.p, TRUE, object, "print")
            \/ Reply(LocalException(m.p), "leave")
       ELSE Reply(PrintHeaders(WithStatus(m.p, "301")), "leave")

\* A value: only a complex output of a known process has something to print.
OutputByValue ==
  /\ At("output")
  /\ \E m \in Metadata, found \in BOOLEAN :
       /\ io' = m.p
       /\ pc' = "print"
       /\ run' = [run EXCEPT !.object = found /\ m.known]
       /\ events' = events \union (IF found /\ m.known THEN {} ELSE {"emptyOutput"})
       /\ UNCHANGED <<route, done>>

OutputObject == At("output") /\ \E m \in Metadata : Produce(m.p, TRUE, TRUE, "print")

\* A literal: psService is used although it may be NULL.
OutputLiteral ==
  /\ At("output")
  /\ \E m \in Metadata :
       IF m.known
       THEN Document \/ Refuse
       ELSE Noting(SignalException(m.p), "end",
                   {IF m.p = io THEN "signal" ELSE "interrupted"})

NoSuchOutput == At("output") /\ \E m \in Metadata : Reply(LocalException(m.p), "leave")

\* No result file, or one that is not JSON after the metadata was looked for.
NoOutputFile ==
  /\ At("output")
  /\ \E m \in Metadata : Noting(m.p, "results", IF m.p = io THEN {} ELSE {"goesOn"})

-----------------------------------------------------------------------------
\* No body, a body that is not JSON, or no such process.
RefuseExecution == At("inputs") /\ Refuse

\* The process is the one of the body, or else of the path; parseJRequest only
\* prints what is wrong with the inputs.
ParseJRequest ==
  /\ At("inputs")
  /\ \E target \in IF route.dru = "undeploy" THEN {"undeploy"}
                   ELSE IF env.dru THEN Targets ELSE {"process", "mutable"},
        async \in BOOLEAN, wrong \in BOOLEAN :
       /\ run' = [run EXCEPT !.target = target, !.async = async]
       /\ io' = IF wrong THEN PrintExceptionJ(io) ELSE io
       /\ events' = IF wrong THEN events \union {"badInput"} ELSE events
       /\ pc' = "mode"
       /\ UNCHANGED <<route, done>>

\* The row of the job is written before the message is published.
PublishFailsLate ==
  /\ At("mode") /\ run.async /\ env.queue
  /\ done' = done \union {"job"}
  /\ io' = LocalException(io)
  /\ pc' = "leave"
  /\ UNCHANGED <<route, run, events>>

PublishFails == At("mode") /\ run.async /\ env.queue /\ Refuse

\* The job is published or forked; its status may already be gone.
AcceptJob ==
  /\ At("mode") /\ run.async
  /\ \E lost \in BOOLEAN :
       LET p == WithStatus(io, "201")
       IN  /\ io' = IF lost THEN PrintExceptionJ(p) ELSE p
           /\ run' = [run EXCEPT !.eres = "accepted", !.res = ~lost]
           /\ events' = IF lost THEN events \union {"lost"} ELSE events
  /\ done' = done \union {"job"}
  /\ pc' = "describe"
  /\ UNCHANGED route

\* The answer does not look at the pid.
ForkIgnored ==
  At("mode") /\ run.async /\ ~env.queue /\ Reply(WithStatus(io, "201"), "describe")

ForkFails == At("mode") /\ run.async /\ ~env.queue /\ Noting(io, "describe", {"fork"})

\* A mutable process, or a request that is not valid.
RefuseSync ==
  /\ At("mode") /\ ~run.async
  /\ IF run.target = "mutable" THEN Refuse ELSE Reply(PrintExceptionReport(io), "leave")

\* What the service returns ("odd" is any result that is not its own), or -1
\* for a service that could not be loaded, of which the client is told at once.
LoadServiceAndRun ==
  /\ At("mode") /\ ~run.async /\ run.target # "mutable"
  /\ \E r \in {"succeeded", "failed", "odd", "unloaded"} \union
              (IF run.target = "deploy" THEN {"deployed"} ELSE {}) \union
              (IF run.target = "undeploy" THEN {"undeployed"} ELSE {}) :
       /\ run' = [run EXCEPT !.eres = r]
       /\ done' = done \union {"ran"} \union ({r} \intersect {"deployed", "undeployed"})
       /\ io' \in CASE r = "unloaded" -> {ErrorException(io)}
                    [] r = "failed"   -> {io, WithStatus(io, "error")}
                    [] OTHER          -> {io}
  /\ pc' = "result"
  /\ UNCHANGED <<route, events>>

-----------------------------------------------------------------------------
Provider == env.dru /\ run.target \in {"deploy", "undeploy"}
Provided == run.eres \in {"deployed", "undeployed"}

\* 409 for a deployment, unless the service has set its own status.
ProviderFails ==
  /\ At("result") /\ Provider /\ ~Provided
  /\ LET p == IF run.target = "deploy" /\ io.status = "none"
              THEN WithStatus(io, "error") ELSE io
     IN  Reply([LocalException(p) EXCEPT !.noHeaders = "true", !.hasPrinted = TRUE], "leave")

ProviderSucceeds ==
  At("result") /\ Provider /\ Provided /\ Produce(io, FALSE, FALSE, "describe")

\* printJResult: an exception and no result.
PrintFailure ==
  At("result") /\ ~Provider /\ Produce(PrintExceptionJ(io), FALSE, FALSE, "describe")

\* The result document, with 500 for a result it does not know.
PrintResult ==
  /\ At("result") /\ ~Provider /\ run.eres # "failed"
  /\ io' = WithStatus(io, IF run.eres = "succeeded" THEN "200" ELSE "error")
  /\ events' = IF run.eres = "succeeded" THEN events ELSE events \union {"odd"}
  /\ pc' = "describe"
  /\ UNCHANGED <<route, run, done>>

\* The raw response: an output, one that is missing, several of which one is missing.
PrintRawResult ==
  /\ At("result") /\ ~Provider /\ run.eres # "failed"
  /\ run' = [run EXCEPT !.res = FALSE]
  /\ \/ run.eres # "unloaded" /\ io' = PrintRaw(io) /\ UNCHANGED events
     \/ io' = PrintExceptionJ(Send(io, "200")) /\ events' = events \union {"rawMissing"}
  /\ pc' = "describe"
  /\ UNCHANGED <<route, done>>

-----------------------------------------------------------------------------
\* The answers to Deploy, Replace and Undeploy.
Describes == At("describe") /\ Provider

\* Only a job was accepted, or nothing was started.
NotProvided ==
  /\ Describes /\ ~Provided
  /\ io' = HandleDRUError(io)
  /\ run' = [run EXCEPT !.res = FALSE]
  /\ events' = events \union {"asyncDeploy"}
  /\ pc' = "print"
  /\ UNCHANGED <<route, done>>

\* The service has not said what it deployed.
NoDeployedId ==
  /\ Describes /\ Provided /\ route.dru # "undeploy"
  /\ Noting(HandleDRUError(FilterOut(io)), "print", {"noId"})

\* A replacement that deployed another name is taken back.
Renamed ==
  /\ Describes /\ run.eres = "deployed" /\ req.method = "PUT"
  /\ io' = HandleDRUError(FilterOut(LocalException(io)))
  /\ done' = done \ {"deployed"}
  /\ events' = events \union {"renamed"}
  /\ pc' = "print"
  /\ UNCHANGED <<route, run>>

\* The package is written, and the description of the new process is not found.
Undescribed ==
  /\ Describes /\ run.eres = "deployed"
  /\ Noting(LocalException([io EXCEPT !.noHeaders = "true"]), "leave", {"undescribed"})

DescribeDeployed ==
  /\ Describes /\ run.eres = "deployed"
  /\ LET q == FilterOut([io EXCEPT !.noHeaders = "false"])
         p == PrintHeaders(WithStatus(q, IF req.method = "PUT" THEN "204" ELSE "201"))
     IN  Reply([ (IF req.method = "PUT" THEN p ELSE Send(p, "document"))
                   EXCEPT !.noHeaders = "true", !.hasPrinted = TRUE ], "print")

Undeployed ==
  /\ Describes /\ run.eres = "undeployed"
  /\ LET p == PrintHeaders(FilterOut(WithStatus(io, "204")))
     IN  Reply([p EXCEPT !.hasPrinted = TRUE], "print")

\* res, if there is one, is what jsonPrintOut prints.
PrintRes ==
  At("describe") /\ ~Provider /\ Produce(io, run.res, run.res, "print")

-----------------------------------------------------------------------------
PrintedHead(p) ==
  IF p.noHeaders = "true" THEN p
  ELSE IF p.status = "none" THEN HeadersThen(p, "200") ELSE PrintHeaders(p)

\* jsonPrintOut
JsonPrintOut ==
  /\ At("print")
  /\ LET p == FilterOut(io)
         q == PrintedHead(p)
     IN  Reply(IF ~run.res \/ p.hasPrinted THEN p
               ELSE IF run.object /\ ~p.noContent THEN Send(q, "document") ELSE q,
               "leave")

-----------------------------------------------------------------------------
Filter ==
  \/ UnreadableOas \/ FilterRefuses \/ RefuseMultipart \/ UnsupportedMediaType
  \/ FilterAnswers \/ Filtered

RouteRequest ==
  \/ NoProvider \/ NotUndeployable \/ NotReplaceable \/ ToProvider \/ ToHandler
  \/ NoPackage \/ HandlePackage \/ PastPackage \/ RedirectHtml \/ CreateRes

Handle ==
  \/ RefuseRoute \/ ProduceRoot \/ ProduceApi \/ ListProcesses \/ RefuseProcesses
  \/ OtherJobMethod \/ RunDismiss \/ ListJobs \/ ReportJob \/ RefuseResults
  \/ FindResults \/ Describe \/ DescribeNothing \/ Execution

GetResults ==
  \/ WholeResults \/ OutputByReference \/ OutputByValue \/ OutputObject
  \/ OutputLiteral \/ NoSuchOutput \/ NoOutputFile

Execute ==
  \/ RefuseExecution \/ ParseJRequest \/ PublishFails \/ AcceptJob \/ ForkFails
  \/ RefuseSync \/ LoadServiceAndRun
  \/ ProviderFails \/ ProviderSucceeds \/ PrintFailure \/ PrintResult \/ PrintRawResult

PrintAnswer ==
  \/ NotProvided \/ NoDeployedId \/ Renamed \/ Undescribed \/ DescribeDeployed
  \/ Undeployed \/ PrintRes \/ JsonPrintOut

OgcApi == Filter \/ RouteRequest \/ Handle \/ GetResults \/ Execute \/ PrintAnswer
=============================================================================
