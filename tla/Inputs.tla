------------------------------- MODULE Inputs -------------------------------
(***************************************************************************)
(* The inputs of an execution, from the request to the call of the service *)
(* (request_parser.c, caching.c, service_json.c): they are parsed in the   *)
(* order they are given, references are put in a queue of HTTP requests    *)
(* that are run together, and the answers are handed out to the inputs.    *)
(*                                                                         *)
(* A value or a URL is the position of its item in the request.            *)
(***************************************************************************)
EXTENDS Integers, Sequences, FiniteSets, SequencesExt

CONSTANTS
  Names,          \* identifiers of inputs a request may have
  Descriptions,   \* the zcfg files: the occurrences of each known input
  Attributes,     \* [security] attributes: the headers that are passed on to protected hosts
  MaxArguments    \* bound: inputs and outputs of a request

ASSUME InputsAssumption ==
  /\ MaxArguments \in Nat \ {0}
  /\ Attributes \in Seq(STRING)
  /\ \A zcfg \in Descriptions :
       /\ DOMAIN zcfg \subseteq Names /\ IsFiniteSet(DOMAIN zcfg)
       /\ \A n \in DOMAIN zcfg : zcfg[n] \in [min : Nat, max : Nat \ {0}]

VARIABLES
  req,    \* the request: its form, its inputs, the zcfg file, whether a worker runs it
  pc,     \* where it is
  at,     \* the item, request or input a loop is at
  idx,    \* and the occurrence of this input
  ins,    \* request_input_real_format
  net     \* http_requests, the queue of hInternet, and how much of it is read

inputVars == <<req, pc, at, idx, ins, net>>

\* "xml" is WPS 1.0.0, "xml2" WPS 2.0.0.
Forms == {"kvp", "xml", "xml2", "json"}
XmlForms == {"xml", "xml2"}

\* How an input may be given: "sized" is an XML document or a bounding box; "post" a
\* Reference with method="POST" and a Body, "fetched" with a BodyReference; "body" one
\* with only the Body or, in JSON, a process.  In WPS 2 a document is a value like others.
Ways(form) ==
  CASE form = "kvp"  -> {"value", "ref"}
    [] form = "xml"  -> {"value", "sized", "ref", "post", "fetched", "body"}
    [] form = "xml2" -> {"value", "ref", "post", "fetched", "body"}
    [] form = "json" -> {"value", "ref", "body"}

Inline  == {"value", "sized"}
Posting == {"post", "fetched", "body"}

\* What is known of a URL: its answer is in the cache, or it has a bad one, or it is
\* the URL of a protected host, that wants all the attributes, or what has no answer
\* is the URL of its body.
Items(form) ==
  {item \in [name : Names, by : Ways(form),
             url : {"ok", "cached", "broken", "guarded", "bodiless"}] :
     /\ item.by \in Inline => item.url = "ok"
     /\ item.url = "guarded" => item.by = "ref"
     /\ item.by = "fetched" => item.url \in {"ok", "bodiless"}
     /\ item.url = "bodiless" => item.by = "fetched"
     /\ item.by = "post" => item.url # "cached"}    \* it is not looked up

Contiguous(given) ==
  \A i, j, k \in DOMAIN given :
    i < j /\ j < k /\ given[i].name = given[k].name => given[j].name = given[i].name

\* The members of a JSON object have different names.
Requests ==
  UNION {[form : {form}, given : {g \in BoundedSeq(Items(form), MaxArguments) :
                                    form = "json" => Contiguous(g)},
          zcfg : Descriptions, worker : BOOLEAN] : form \in Forms}

None == <<"none", 0>>
NoOccurrence ==
  [value |-> None, order |-> 0, Reference |-> 0, xlink |-> 0, href |-> 0, body |-> 0,
   isCached |-> FALSE, size |-> FALSE]

-----------------------------------------------------------------------------
(* The HTTP client (ulinet.c): a queue of handles, each with its request,  *)
(* its headers and what the server answered.  A handle without a body is a *)
(* GET.                                                                    *)

Given(p) == req.given[p]

InternetOpen == <<>>

InternetOpenUrl(queue, url, body) ==
  Append(queue, [url |-> url, body |-> body, header |-> <<>>, answer |-> None])

AddMissingHeaderEntry(handle, keys) == [handle EXCEPT !.header = @ \o keys]

IsProtectedHost(handle) == Given(handle.url).url = "guarded"

\* The attributes are those of the client's request, which the environment of a worker
\* has not.  strtok_r cuts the list at its commas: after the first protected host only
\* the first attribute is left of it.
AttributesLeft(queue, n) ==
  CASE req.worker -> <<>>
    [] ~req.worker /\ Len(Attributes) > 1 /\ (\E i \in 1 .. n - 1 : IsProtectedHost(queue[i])) ->
         SubSeq(Attributes, 1, 1)
    [] OTHER -> Attributes

AddHeaderEntries(queue) ==
  [n \in DOMAIN queue |->
     IF IsProtectedHost(queue[n])
     THEN AddMissingHeaderEntry(queue[n], AttributesLeft(queue, n)) ELSE queue[n]]

\* What a server answers: an error, another document when the request has not the
\* body it was given with, or the file.
Served(handle) ==
  LET item == Given(handle.url)
      asGiven == (item.by \in Posting) = (handle.body = handle.url)
  IN CASE item.url = "broken" \/ (item.url = "guarded" /\ handle.header # Attributes) -> "error"
       [] OTHER -> IF asGiven THEN "file" ELSE "other"

ProcessDownloads(queue) ==
  [n \in DOMAIN queue |-> [queue[n] EXCEPT !.answer = <<Served(queue[n]), queue[n].url>>]]

\* Beyond the end of the queue the handles are uninitialised memory.
InternetReadFile(queue, n) ==
  IF n > Len(queue) THEN {<<"other", 0>>, <<"error", 0>>} ELSE {queue[n].answer}

InternetCloseHandle(queue) == InternetOpen

-----------------------------------------------------------------------------
InitInputs ==
  /\ req \in Requests
  /\ pc = "parse" /\ at = 1 /\ idx = 0
  /\ ins = <<>>
  /\ net = [requests |-> <<>>, queue |-> InternetOpen, read |-> 0, array |-> 0, failed |-> FALSE]

Goto(label) == pc' = label /\ at' = 1 /\ idx' = 0

-----------------------------------------------------------------------------
Known(n) == n \in DOMAIN req.zcfg
IndexOf(n) == CHOOSE k \in DOMAIN ins : ins[k].name = n
Present(n) == \E k \in DOMAIN ins : ins[k].name = n

\* length is 0 as long as the map has no length.
NewInput(n, o) ==
  [name |-> n, length |-> 0,
   occ |-> [i \in 0 .. MaxArguments - 1 |-> IF i = 0 THEN o ELSE NoOccurrence]]

Occurrences(k) == IF ins[k].length = 0 THEN 1 ELSE ins[k].length

\* setMapArray, at the index after the last.
AddOccurrence(k, o) ==
  [ins EXCEPT ![k].length = Occurrences(k) + 1, ![k].occ[Occurrences(k)] = o]

\* The occurrence i of the input k becomes o.
WithOccurrence(inputs, k, i, o) == [inputs EXCEPT ![k].occ[i] = o]

AddRequestToQueue(queue, url) == InternetOpenUrl(queue, url, 0)

\* loadRemoteFile: the occurrence it is called for.
Load(o, p) ==
  [o EXCEPT !.xlink = IF @ = 0 THEN p ELSE @,
            !.value = IF Given(p).url = "cached" THEN <<"file", p>> ELSE @,
            !.size = @ \/ Given(p).url = "cached",
            !.isCached = @ \/ Given(p).url = "cached"]

\* And the queue.
LoadQueue(queue, p, body) ==
  CASE Given(p).url = "cached" -> queue
    [] Given(p).url # "cached" /\ body = 0 -> AddRequestToQueue(queue, p)
    [] Given(p).url # "cached" /\ body # 0 -> InternetOpenUrl(queue, p, body)

\* The text of the Body, or what the URL of the BodyReference answers: nobody looks at
\* its status, and an empty body is as good as none.
Body(p) == IF Given(p).url = "bodiless" THEN 0 ELSE p

\* The href is queued unless method="POST" comes before it.
HrefQueued(p) ==
  IF Given(p).by \in {"ref", "body"} THEN LoadQueue(net.queue, p, 0) ELSE net.queue

\* The queue once the item p is parsed: a Body is posted whatever was queued before.
QueueAfter(p) ==
  IF Given(p).by \in Posting THEN InternetOpenUrl(HrefQueued(p), p, Body(p)) ELSE HrefQueued(p)

\* Mutant: the place of the request in the queue is taken before it is there.
ReferenceEarly(p) ==
  [Load(NoOccurrence, p) EXCEPT !.order = Len(net.queue), !.Reference = p]

\* @xlink:href=
KvpReference(p) ==
  [Load(NoOccurrence, p) EXCEPT !.order = Len(QueueAfter(p)), !.Reference = p]

\* A Reference element and its attributes.
XmlReference(p) ==
  [(IF Given(p).by \in {"ref", "body"} THEN Load(NoOccurrence, p) ELSE NoOccurrence)
     EXCEPT !.order = Len(QueueAfter(p)), !.Reference = p, !.href = p,
            !.body = IF Given(p).by \in Posting THEN Body(p) ELSE 0]

\* Elements are written out again, with their size; text and CDATA sections are copied.
WrittenOut(p) == Given(p).by = "sized"

\* A Data element.
XmlData(p) == [NoOccurrence EXCEPT !.value = <<"own", p>>, !.size = WrittenOut(p)]

KvpValue(p) == [NoOccurrence EXCEPT !.value = <<"own", p>>]

\* The map kvpParseInputs or xmlParseInputs makes of the item p.
Occurrence(p) ==
  CASE req.form = "kvp" /\ Given(p).by = "value" -> KvpValue(p)
    [] req.form = "kvp" /\ Given(p).by = "ref"   -> KvpReference(p)
    [] req.form \in XmlForms /\ Given(p).by \in Inline -> XmlData(p)
    [] req.form \in XmlForms /\ Given(p).by \notin Inline -> XmlReference(p)

\* addMapsArrayToMaps copies fourteen keys, href and Body are not among them.
Copied(o) == [o EXCEPT !.href = 0, !.body = 0]

\* appendMapsToMaps: there is room for one more occurrence.
AppendFits(n) == req.zcfg[n].max > 1 /\ Occurrences(IndexOf(n)) < req.zcfg[n].max

AddInput(n, o) ==
  ins' = CASE ~Present(n)             -> Append(ins, NewInput(n, o))
           [] Present(n) /\ Known(n)  -> AddOccurrence(IndexOf(n), Copied(o))
           [] Present(n) /\ ~Known(n) -> ins

\* One turn of the loops of kvpParseInputs and xmlParseInputs.
ParseInput ==
  /\ pc = "parse" /\ req.form # "json" /\ at <= Len(req.given)
  /\ LET n == Given(at).name IN
     /\ Present(n) /\ Known(n) => AppendFits(n)
     /\ AddInput(n, Occurrence(at))
  /\ net' = [net EXCEPT !.queue = QueueAfter(at)]
  /\ at' = at + 1
  /\ UNCHANGED <<req, pc, idx>>

TooManyOccurrences ==
  /\ pc = "parse" /\ req.form # "json" /\ at <= Len(req.given)
  /\ LET n == Given(at).name IN Present(n) /\ Known(n) /\ ~AppendFits(n)

\* A process is called with the input itself as its request.
ParseNestedProcess(p) == [NoOccurrence EXCEPT !.xlink = p, !.body = p]

\* A literal, or an object with a value or a href.
ParseJComplex(p) ==
  IF Given(p).by = "value" THEN [NoOccurrence EXCEPT !.value = <<"own", p>>]
                           ELSE [NoOccurrence EXCEPT !.xlink = p]

JsonOccurrence(p) ==
  IF Given(p).by = "body" THEN ParseNestedProcess(p) ELSE ParseJComplex(p)

\* What is to be downloaded.
AddToJRequests(requests, p) ==
  IF Given(p).by \in Inline THEN requests ELSE Append(requests, p)

\* One turn of the loops of parseJIO and parseJIOSingle: a member of the object inputs,
\* or one more item of its array.
ParseJsonInput ==
  /\ pc = "parse" /\ req.form = "json" /\ at <= Len(req.given)
  /\ LET n == Given(at).name IN
     ins' = IF Present(n) THEN AddOccurrence(IndexOf(n), JsonOccurrence(at))
                          ELSE Append(ins, NewInput(n, JsonOccurrence(at)))
  /\ net' = [net EXCEPT !.requests = AddToJRequests(@, at)]
  /\ at' = at + 1
  /\ UNCHANGED <<req, pc, idx>>

-----------------------------------------------------------------------------
(* JSON: loadHttpRequests.                                                 *)

\* getMapArray(http_requests, "body", hInternet->nb): the body of the request
\* that has the number of those already queued.
BodyAt(nb) ==
  IF nb < Len(net.requests) /\ Given(net.requests[nb + 1]).by = "body"
  THEN net.requests[nb + 1] ELSE 0

\* iArrayIndex counts the references of an input, it is no index of its array.
ArrayIndex ==
  IF at > 1 /\ Given(net.requests[at - 1]).name = Given(net.requests[at]).name
  THEN net.array ELSE 0

LoadHttpRequest ==
  /\ pc = "load" /\ at <= Len(net.requests)
  /\ LET p == net.requests[at]
         k == IndexOf(Given(p).name)
         i == IF ins[k].length = 0 THEN 0 ELSE ArrayIndex
         queue == LoadQueue(net.queue, p, BodyAt(Len(net.queue)))
         loaded == WithOccurrence(ins, k, 0, Load(ins[k].occ[0], p))
     IN /\ ins' = WithOccurrence(loaded, k, i, [loaded[k].occ[i] EXCEPT !.order = Len(queue),
                                                                       !.Reference = p])
        /\ net' = [net EXCEPT !.queue = queue,
                              !.array = IF ins[k].length = 0 THEN ArrayIndex ELSE i + 1]
  /\ at' = at + 1
  /\ UNCHANGED <<req, pc, idx>>

HttpRequestsLoaded ==
  /\ pc = "load" /\ at > Len(net.requests)
  /\ Goto("download")
  /\ UNCHANGED <<req, ins, net>>

-----------------------------------------------------------------------------
(* The message queue: publish_amqp_msg, and parseInputHttpRequests.        *)

\* mapToJson leaves out a value that has a size and no length.
Publish ==
  /\ pc = "message"
  /\ ins' = [k \in DOMAIN ins |->
               IF ins[k].length = 0 /\ ins[k].occ[0].size
               THEN [ins[k] EXCEPT !.occ[0].value = None] ELSE ins[k]]
  /\ net' = [net EXCEPT !.queue = InternetOpen]
  /\ Goto("requeue")
  /\ UNCHANGED req

Here == ins[at].occ[idx]
NextOccurrence ==
  IF idx + 1 < Occurrences(at) THEN idx' = idx + 1 /\ UNCHANGED at
                               ELSE idx' = 0 /\ at' = at + 1
Walking(label) == pc = label /\ at <= Len(ins)

RequestAgain ==
  LET url == IF Here.href # 0 THEN Here.href ELSE Here.xlink IN
  /\ Walking("requeue")
  /\ \/ /\ url = 0
        /\ UNCHANGED <<ins, net>>
     \/ /\ url # 0
        /\ net' = [net EXCEPT !.queue = InternetOpenUrl(@, url, Here.body)]
        /\ ins' = WithOccurrence(ins, at, idx, [Here EXCEPT !.order = Len(net.queue) + 1,
                                                            !.Reference = url])
  /\ NextOccurrence
  /\ UNCHANGED <<req, pc>>

RequestedAgain ==
  /\ pc = "requeue" /\ at > Len(ins)
  /\ Goto("download")
  /\ UNCHANGED <<req, ins, net>>

-----------------------------------------------------------------------------
(* runHttpRequests.                                                        *)

RunHttpRequests ==
  /\ pc = "download"
  /\ net' = [net EXCEPT !.queue = ProcessDownloads(AddHeaderEntries(@))]
  /\ Goto("read")
  /\ UNCHANGED <<req, ins>>

\* readCurrentInput: the answer that comes next is the one of this occurrence.
Due == Here.Reference # 0 /\ Here.order = net.read + 1

ReadOccurrence ==
  /\ Walking("read") /\ net.queue # <<>>
  /\ Due /\ ~Here.isCached
  /\ \E content \in InternetReadFile(net.queue, Here.order) :
       /\ ins' = WithOccurrence(ins, at, idx, [Here EXCEPT !.value = content])
       /\ \/ /\ content[1] # "error"
             /\ net' = [net EXCEPT !.read = @ + 1]
             /\ NextOccurrence
          \/ /\ content[1] = "error"
             /\ net' = [net EXCEPT !.failed = TRUE]
             /\ at' = at + 1 /\ idx' = 0
  /\ UNCHANGED <<req, pc>>

SkipOccurrence ==
  /\ Walking("read") /\ net.queue # <<>>
  /\ ~Due \/ Here.isCached
  /\ NextOccurrence
  /\ UNCHANGED <<req, pc, ins, net>>

InputsRead ==
  /\ pc = "read" /\ (at > Len(ins) \/ net.queue = <<>>)
  /\ net' = [net EXCEPT !.queue = InternetCloseHandle(@)]
  /\ Goto("validate")
  /\ UNCHANGED <<req, ins>>

-----------------------------------------------------------------------------
\* Mutant: the errors of the downloads are dropped.
DownloadsIgnored == FALSE

\* validateRequest is not given hInternet after loadHttpRequests: nobody looks at
\* the errors of its downloads.
DownloadsFailed == net.failed /\ (req.form # "json" \/ req.worker)

\* addDefaultValues: the inputs a request lacks.
Missing == {n \in DOMAIN req.zcfg : ~Present(n) /\ req.zcfg[n].min >= 1}

\* Mutant: the default is added whether the input is there or not.
AbsentAll == DOMAIN req.zcfg

Absent == {n \in DOMAIN req.zcfg : ~Present(n)}

DefaultInput(n) ==
  NewInput(n, [NoOccurrence EXCEPT !.value = <<"default", 0>>])

\* And what an input without a value gets, in a WPS array for all its occurrences.
Filled(k) ==
  IF ~Known(ins[k].name) \/ ins[k].occ[0].value # None THEN ins[k]
  ELSE [ins[k] EXCEPT !.occ = [i \in DOMAIN @ |->
          IF i = 0 \/ (req.form # "json" /\ i < ins[k].length)
          THEN [@[i] EXCEPT !.value = <<"default", 0>>] ELSE @[i]]]
=============================================================================
