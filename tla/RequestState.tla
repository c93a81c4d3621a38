---------------------------- MODULE RequestState ----------------------------
(***************************************************************************)
(* runRequest answers one request, of OGC API - Processes or of WPS, in a  *)
(* process of its own.  This module has its answer (what is written to the *)
(* standard output), its state, the ways it prints and goes on, and what   *)
(* precedes the choice of the protocol; OgcApiRequest and WpsRequest have  *)
(* the rest, Request puts them together.                                   *)
(***************************************************************************)
EXTENDS Integers, Sequences, FiniteSets

(***************************************************************************)
(* The flags of the configuration maps that decide whether a kernel may    *)
(* still write: headers.Status, lenv.no-headers, lenv.hasPrinted,          *)
(* lenv.hasExceptionPrinted, lenv.jsonStr and lenv.no-content.  The state  *)
(* of an answer is a record p; every printing function is an operator from *)
(* such a record to the next.                                              *)
(***************************************************************************)

(***************************************************************************)
(* A head is the status line that ends the HTTP headers, "error" standing  *)
(* for every 4xx and 5xx; a body is a document or an exception.            *)
(***************************************************************************)
Heads  == {"200", "201", "204", "301", "error"}
Bodies == {"document", "exception"}

(***************************************************************************)
(* xml is main.executionType, broken says that the service of [filter_out] *)
(* cannot be loaded, noContent that the request was a HEAD.                *)
(***************************************************************************)
AnswerStates(outs) ==
  [ xml : BOOLEAN, broken : BOOLEAN, noContent : BOOLEAN,
    status : Heads \union {"none"}, noHeaders : {"unset", "false", "true"},
    hasPrinted : BOOLEAN, hasException : BOOLEAN, jsonStr : BOOLEAN, out : outs ]

NoAnswer(xml, broken) ==
  [ xml |-> xml, broken |-> broken, noContent |-> FALSE,
    status |-> "none", noHeaders |-> "unset",
    hasPrinted |-> FALSE, hasException |-> FALSE, jsonStr |-> FALSE, out |-> <<>> ]

Send(p, x)       == [p EXCEPT !.out = Append(@, x)]
WithStatus(p, s) == [p EXCEPT !.status = s]

\* A status line is only written when the headers have a Status.
PrintHeaders(p) ==
  IF p.noHeaders = "true" THEN p
  ELSE [ (IF p.status = "none" THEN p ELSE Send(p, p.status)) EXCEPT !.noHeaders = "true" ]

\* The status line a writer adds by itself after printHeaders.
HeadersThen(p, s) == Send(PrintHeaders(p), s)

-----------------------------------------------------------------------------
\* printHeaders sets no-headers to "true" in place: the test that follows it
\* only passes when the map did not exist before.
ExceptionHead(p) ==
  IF p.noHeaders = "unset" /\ p.status = "none"
  THEN HeadersThen(p, "error")
  ELSE PrintHeaders(p)

\* Without the test of hasExceptionPrinted and hasPrinted.
PrintExceptionAgain(p) ==
  [ Send(ExceptionHead(p), "exception")
      EXCEPT !.jsonStr = TRUE, !.hasPrinted = TRUE, !.hasException = TRUE ]

PrintExceptionJ(p) ==
  LET q == [ExceptionHead(p) EXCEPT !.jsonStr = TRUE]
  IN  IF p.hasException THEN p
      ELSE IF p.hasPrinted THEN q
      ELSE [Send(q, "exception") EXCEPT !.hasPrinted = TRUE, !.hasException = TRUE]

\* The XML report always writes a status line of its own.
PrintExceptionReport(p) ==
  IF p.hasPrinted THEN p
  ELSE IF p.xml
       THEN [Send(HeadersThen(p, "error"), "exception") EXCEPT !.hasPrinted = TRUE]
       ELSE PrintExceptionJ(p)

\* The exception of a filter that cannot be fetched is JSON in both protocols.
FilterOut(p) == IF p.broken THEN PrintExceptionJ(p) ELSE p

LocalException(p) ==
  IF p.xml THEN PrintExceptionReport(FilterOut(p)) ELSE PrintExceptionJ(FilterOut(p))

ErrorException(p) ==
  IF p.xml THEN LocalException(p) ELSE [LocalException(p) EXCEPT !.noHeaders = "true"]

\* The exception that was printed or kept is written once more.
HandleDRUError(p) ==
  LET q == [p EXCEPT !.hasPrinted = FALSE, !.noHeaders = "false", !.status = "error"]
      r == IF p.jsonStr THEN Send(PrintHeaders(q), "exception") ELSE PrintExceptionJ(q)
  IN  [r EXCEPT !.noHeaders = "true", !.hasPrinted = TRUE]

\* A signal handler knows nothing of the answer under way: it has maps of its
\* own, and the process exits once it has printed its exception.
SignalException(p) == Send(Send(p, "error"), "exception")

\* A file given as it is.
PrintAFile(p) == Send(HeadersThen(p, "200"), "document")

\* An XML document.
PrintDocument(p) == Send(HeadersThen(p, "200"), "document")

\* A single raw output: a status line of its own, unless the headers were written.
PrintRaw(p) ==
  Send(IF p.noHeaders = "true" THEN p
       ELSE HeadersThen(p, IF p.status = "none" THEN "200" ELSE p.status), "document")

-----------------------------------------------------------------------------
\* A client gets one head, first, and at most one body.
WellFormed(out) ==
  /\ Len(out) \in {1, 2}
  /\ out[1] \in Heads
  /\ Len(out) = 2 => out[2] \in Bodies

\* What the client understands.
Refused(out)  == Len(out) > 0 /\ out[1] = "error"

-----------------------------------------------------------------------------
Methods == {"GET", "HEAD", "POST", "PUT", "DELETE", "OPTIONS"}

\* "misplaced" is a path that holds /processes/ but does not start with it.
Paths == {"root", "conformance", "api", "processes", "process", "package", "execution",
          "jobs", "job", "results", "output", "other", "misplaced", "wps"}
ProcessPaths == {"process", "package", "execution", "misplaced"}
JobPaths     == {"job", "results", "output"}

\* The two versions of WPS a request may be for.
Versions == {"wps1", "wps2"}

\* The processes: any of them, one that only runs asynchronously, the two providers.
Targets == {"process", "mutable", "deploy", "undeploy"}
Results == {"started", "accepted", "succeeded", "failed", "odd", "unloaded",
            "deployed", "undeployed"}
Effects == {"ran", "job", "deployed", "undeployed", "dismissed"}

VARIABLES
  env,     \* how the kernel is built and configured: queue (USE_AMQP), dru (both providers)
  req,     \* the request as it came: method and path
  route,   \* pmCgiRequestMethod, pcaCgiQueryString and the DRU operation they stand for
  pc,      \* where runRequest is
  io,      \* what was printed (AnswerStates)
  run,     \* the process, its mode and how to run it, eres, and whether res and
           \* json_response_object are set
  done,    \* what the request has changed on the server
  events   \* what happened that a client may see as an irregular answer

vars == <<env, req, route, pc, io, run, done, events>>

Labels == {"start", "filter", "route", "package", "html", "handle",
           "results", "output", "inputs", "mode", "result", "describe", "print",
           "leave", "end"}
WpsLabels == {"wps", "parameters", "execute", "negotiate", "validate", "accept", "respond"}
Events == {"crash", "signal", "interrupted", "silent", "silentPackage", "emptyOutput",
           "goesOn", "badInput", "lost", "fork", "odd", "rawMissing", "noId", "renamed",
           "undescribed", "asyncDeploy", "headless", "publish"}

Nothing == [target |-> "none", mode |-> "none", async |-> FALSE, eres |-> "started",
            res |-> FALSE, object |-> FALSE]

Init ==
  /\ env \in [queue : BOOLEAN, dru : BOOLEAN]
  /\ req \in [method : Methods, path : Paths]
  /\ route = [method |-> req.method, path |-> req.path, dru |-> "no"]
  /\ pc = "start"
  /\ \E broken \in BOOLEAN : io = NoAnswer(FALSE, broken)
  /\ run = Nothing
  /\ done = {}
  /\ events = {}

-----------------------------------------------------------------------------
At(label) == pc = label /\ UNCHANGED <<env, req>>

\* Print p and go on at the label; something irregular may be noted.
Noting(p, label, noted) ==
  /\ io' = p
  /\ pc' = label
  /\ events' = events \union noted
  /\ UNCHANGED <<route, run, done>>

Reply(p, label) == Noting(p, label, {})
Goto(label)     == Reply(io, label)
Refuse          == Reply(LocalException(io), "leave")
RefuseAs(s)     == Reply(LocalException(WithStatus(io, s)), "leave")

\* Keep p for what follows and set res (and json_response_object) for jsonPrintOut.
Produce(p, res, object, label) ==
  /\ io' = p
  /\ pc' = label
  /\ run' = [run EXCEPT !.res = res, !.object = object]
  /\ UNCHANGED <<route, done, events>>

Document == Produce(io, TRUE, TRUE, "print")

-----------------------------------------------------------------------------
\* errorException(NULL, ...) for a main.cfg that cannot be read ends in sig_handler.
UnreadableConf == At("start") /\ Noting(io, "end", {"crash"})

\* A language or a registry that is refused, before executionType is set.
RefuseEarly == At("start") /\ Reply(ErrorException(io), "leave")

Cors ==
  /\ At("start") /\ req.method = "OPTIONS"
  /\ Reply(Send(HeadersThen(io, "200"), "document"), "leave")

\* A query string that is a path is a request of OGC API - Processes.
ChooseProtocol ==
  /\ At("start")
  /\ IF req.path = "wps" THEN Reply([io EXCEPT !.xml = TRUE], "wps") ELSE Goto("filter")

\* Only now are the signals ignored, whatever the path that leads here.
Leave == At("leave") /\ Goto("end")

\* sig_handler has no maps to answer with, json_sig_handler makes its own.
Signal ==
  /\ pc # "end" /\ UNCHANGED <<env, req>>
  /\ IF pc = "start" \/ io.xml THEN Noting(io, "end", {"crash"})
     ELSE Noting(SignalException(io), "end",
                 {IF io.out = <<>> THEN "signal" ELSE "interrupted"})

Start == UnreadableConf \/ RefuseEarly \/ Cors \/ ChooseProtocol
=============================================================================
