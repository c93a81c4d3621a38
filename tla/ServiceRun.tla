----------------------------- MODULE ServiceRun -----------------------------
(***************************************************************************)
(* loadServiceAndRun and the response to the request: the support of the   *)
(* service's language is chosen by its serviceType, the service runs, and  *)
(* the client is told what it left, for every language of the kernel.      *)
(***************************************************************************)
EXTENDS DictionaryServices, MachineServices, NativeServices

\* Without servicePath in main.cfg the working directory is asked for; when there
\* is none the function returns and the result is still SERVICE_STARTED.
FindDirectory ==
  /\ pc = "start"
  /\ GiveUp(eres, "directory") \/ Goto("load")
  /\ UNCHANGED <<type, inputs>>

\* A serviceType no support was built for.
UnknownLanguage == At("none", "load") /\ Refuse

\* The service itself: what it returns, leaves in its output and in lenv.message, or
\* its death.  Native code returns integers; only dictionaries hold lists.
Results ==
  CASE Support = "C" -> Codes
    [] Support \in {"OTB", "SAGA"} -> {ServiceSucceeded, ServiceFailed, Raised}
    [] Support = "JAVA" -> Codes \union {Raised}
    [] OTHER -> Codes \union {NoInteger, Raised}

RunService ==
  /\ pc = "run"
  /\ \/ /\ status' \in Results
        /\ wrote' \in {w \in Written : w.list => Support \notin {"C", "OTB", "SAGA", "MONO"}}
        /\ gave' \in Messages
        /\ pc' = "back"
        /\ UNCHANGED <<args, kernelVars>>
     \/ Crash
  /\ UNCHANGED <<type, inputs>>

RunTheService ==
  \/ FindDirectory \/ UnknownLanguage
  \/ DictionarySupport \/ MachineSupport \/ JavaScriptSupport \/ NativeSupport
  \/ RunService
  \/ OutputResponse

-----------------------------------------------------------------------------
\* What stays silent: a virtual machine that does not start, a directory, an
\* application that is not there, what is no integer, a process that died.
Silent == {"vm", "directory", "unknown", "noInteger", "decode", "crash"}

\* A synchronous request gets one response, whatever the language of its service
\* and wherever its support gives up; a Node.js environment that cannot be
\* destroyed is the one case of two.  The supports tell a failure themselves and
\* return -1, or leave it to the response: doing both, or neither, is a mistake in
\* any one of a hundred returns.
ToldOnce ==
  pc = "end" =>
    \/ Len(told) = 1
    \/ told = <<>> /\ cause \in Silent
    \/ Len(told) = 2 /\ cause = "destroy"

\* What a service got and returns as its result is what the client sent: a text in
\* every language but Perl, whose outputs never come back; bytes where the language
\* keeps their length both ways.  What is not UTF-8 is lost where values are decoded: by
\* Mono, Node.js, Java unless it comes and goes with a size, and Python, whose process dies
\* of it before the service runs.
Echoes ==
  /\ status = ServiceSucceeded /\ inputs.occ # <<>> /\ args.occ # <<>>
  /\ wrote.bytes = args.occ[1] /\ ~wrote.list

RoundTrip ==
  pc = "end" /\ Len(inputs.occ) = 1 /\ (cause = "decode" \/ (cause = "none" /\ Echoes)) =>
    LET v == inputs.occ[1] IN
      \/ told = <<Raw(v.bytes)>>
      \/ Support \in {"PERL", "OTB", "SAGA"}
      \/ Contains(v.bytes, 0) /\ (Support \notin {"C", "JAVA", "PYTHON", "PHP"} \/ ~wrote.size)
      \/ Contains(v.bytes, Stray) /\ \/ Support \in {"PYTHON", "MONO", "NODEJS"}
                                     \/ Support = "JAVA" /\ ~(v.size # NoSize /\ wrote.size)

\* A service that failed or raised is never answered with a result, and its message
\* is the text of the exception.  Perl and SAGA look at no result; Node.js takes no
\* conf back; OTB has a message of its own.
FailureArrives ==
  pc = "end" /\ cause = "none" /\ status \in {ServiceFailed, Raised} =>
    \/ Support \in {"PERL", "SAGA"}
    \/ /\ \A i \in DOMAIN told : told[i].kind = "exception"
       /\ status = ServiceFailed /\ Support \notin {"NODEJS", "OTB"} => told[1].text = gave
=============================================================================
