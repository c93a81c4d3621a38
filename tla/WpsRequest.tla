----------------------------- MODULE WpsRequest -----------------------------
(***************************************************************************)
(* runRequest for WPS 1.0.0 and 2.0.0: the checks of the parameters, the   *)
(* requests, the negotiation of the mode of an Execute, and the response.  *)
(***************************************************************************)
EXTENDS RequestState

Report(p)  == PrintExceptionReport(p)
RefuseWps  == Reply(ErrorException(io), "leave")
ReportWps  == Reply(Report(io), "leave")
DocumentIs == Reply(PrintDocument(io), "leave")

RefuseVersion == At("wps") /\ ReportWps

NegotiateVersion ==
  /\ At("wps")
  /\ \E version \in Versions : route' = [route EXCEPT !.path = version]
  /\ pc' = "parameters"
  /\ UNCHANGED <<io, run, done, events>>

\* A request, a service, a version, an identifier or a job that is missing or unknown.
RefuseParameters == At("parameters") /\ ReportWps

\* The document; a zcfg file that cannot be read; a directory that cannot, after
\* which the standard output stays on the standard error.
GetCapabilities ==
  At("parameters") /\ (DocumentIs \/ RefuseWps \/ Noting(io, "leave", {"silent"}))

JobRequest == At("parameters") /\ route.path = "wps2"

GetStatusOrResult == JobRequest /\ (DocumentIs \/ RefuseWps)

Dismiss ==
  /\ JobRequest
  /\ \/ RefuseWps
     \/ /\ done' = done \union {"dismissed"}
        /\ io' = PrintDocument(io)
        /\ pc' = "leave"
        /\ UNCHANGED <<route, run, events>>

DescribeProcess == At("parameters") /\ (DocumentIs \/ RefuseWps \/ ReportWps)

AsksExecute == At("parameters") /\ Goto("execute")

\* An Execute of WPS 2.0 by GET, an unknown process, or inputs that cannot be parsed.
RefuseExecute ==
  At("execute") /\ ((route.path = "wps2" /\ RefuseWps) \/ ReportWps)

\* The zcfg file of the process may have a mode.
ParseRequest ==
  /\ At("execute")
  /\ \E mode \in {"none", "sync", "async"} :
       run' = [run EXCEPT !.target = "process", !.mode = mode]
  /\ pc' = "negotiate"
  /\ UNCHANGED <<route, io, done, events>>

RunAs(async) ==
  /\ run' = [run EXCEPT !.async = async]
  /\ pc' = IF async THEN "accept" ELSE "validate"
  /\ UNCHANGED <<route, io, done, events>>

\* WPS 1.0.0: status may not be asked for without storeExecuteResponse.
NegotiateStatus ==
  At("negotiate") /\ route.path = "wps1" /\ (RefuseWps \/ \E status \in BOOLEAN : RunAs(status))

\* WPS 2.0.0: what a mode of the request becomes for a process.
NegotiateMode ==
  /\ At("negotiate") /\ route.path = "wps2"
  /\ \E asked \in {"sync", "async", "auto"} :
       CASE asked = "async" /\ run.mode = "sync" -> RefuseWps
         [] asked = "async" /\ run.mode # "sync" -> RunAs(TRUE)
         [] asked = "auto"                       -> RunAs(run.mode = "sync")
         [] asked = "sync"                       -> RunAs(FALSE)

RefuseInputs == At("validate") /\ ReportWps

RunService ==
  /\ At("validate")
  /\ \E r \in {"succeeded", "failed", "odd", "unloaded"} :
       /\ run' = [run EXCEPT !.eres = r]
       /\ io' = IF r = "unloaded" THEN ErrorException(io) ELSE io
       /\ pc' = IF r = "unloaded" THEN "leave" ELSE "respond"
  /\ done' = done \union {"ran"}
  /\ UNCHANGED <<route, events>>

\* The message is published, and the result of the publication is not looked at.
PublishJob ==
  /\ At("accept") /\ env.queue
  /\ run' = [run EXCEPT !.eres = "accepted"]
  /\ \/ done' = done \union {"job"} /\ UNCHANGED events
     \/ events' = events \union {"publish"} /\ UNCHANGED done
  /\ pc' = "respond"
  /\ UNCHANGED <<route, io>>

ForkJob ==
  /\ At("accept") /\ ~env.queue
  /\ run' = [run EXCEPT !.eres = "accepted"]
  /\ done' = done \union {"job"}
  /\ pc' = "respond"
  /\ UNCHANGED <<route, io, events>>

ForkJobFails == At("accept") /\ ~env.queue /\ RefuseWps

\* outputResponse
RespondFailure == At("respond") /\ run.eres = "failed" /\ RefuseWps

RespondAccepted == At("respond") /\ run.eres = "accepted" /\ DocumentIs

\* The response document, which WPS 1.0.0 may have to store, under the lock of
\* the job, before it is printed.
RespondDocument ==
  /\ At("respond") /\ run.eres \in {"succeeded", "odd"}
  /\ DocumentIs \/ (route.path = "wps1" /\ RefuseWps)

\* An output that cannot be given by reference: the file (as JSON) or the map.
RespondReference ==
  /\ At("respond") /\ run.eres = "succeeded"
  /\ Reply(PrintExceptionJ(io), "leave") \/ ReportWps

RespondRaw ==
  /\ At("respond") /\ run.eres = "succeeded"
  /\ Reply(PrintRaw(io), "leave") \/ DocumentIs \/ RefuseWps

Wps ==
  \/ RefuseVersion \/ NegotiateVersion \/ RefuseParameters \/ GetCapabilities
  \/ GetStatusOrResult \/ Dismiss \/ DescribeProcess \/ AsksExecute
  \/ RefuseExecute \/ ParseRequest \/ NegotiateStatus \/ NegotiateMode
  \/ RefuseInputs \/ RunService \/ PublishJob \/ ForkJob \/ ForkJobFails
  \/ RespondFailure \/ RespondAccepted \/ RespondDocument \/ RespondReference \/ RespondRaw
=============================================================================
