----------------------------- MODULE Execution -----------------------------
(***************************************************************************)
(* An execution: the inputs on their way to the service (Inputs), and the  *)
(* outputs on their way to the client (Outputs).                           *)
(***************************************************************************)
EXTENDS Inputs, Outputs, FiniteSets

vars == <<inputVars, outputVars>>

Init == InitInputs /\ InitOutputs

Refuse == Goto("end") /\ answer' = Exception

RefuseOccurrences ==
  /\ TooManyOccurrences
  /\ Refuse
  /\ UNCHANGED <<req, ins, net, asked, raw, outs>>

\* The outputs are parsed before the inputs of a KVP request and after those of
\* the others, without a difference; then a worker is sent the request.
ParseOutputs ==
  /\ pc = "parse" /\ at > Len(req.given)
  /\ \E c \in Askable(req.form, MaxArguments - Len(req.given)) :
       /\ asked' = c[1] /\ raw' = c[2]
       /\ \/ /\ Duplicated(req.form, c[1])
             /\ Refuse
             /\ UNCHANGED outs
          \/ /\ ~Duplicated(req.form, c[1])
             /\ outs' = Parsed(req.form, c[1])
             /\ Goto(IF req.worker THEN "message" ELSE IF req.form = "json" THEN "load" ELSE "download")
             /\ UNCHANGED answer
  /\ UNCHANGED <<req, ins, net>>

\* validateRequest
Invalid == DownloadsFailed \/ Missing # {} \/ UnknownAsked

RefuseInvalid ==
  /\ pc = "validate" /\ Invalid
  /\ Refuse
  /\ UNCHANGED <<req, ins, net, asked, raw, outs>>

Validate ==
  /\ pc = "validate" /\ ~Invalid
  /\ ins' = [k \in DOMAIN ins |-> Filled(k)] \o
            LET names == SetToSeq(Absent) IN [i \in DOMAIN names |-> DefaultInput(names[i])]
  /\ outs' = WithDefaults
  /\ Goto("run")
  /\ UNCHANGED <<req, net, asked, raw, answer>>

\* loadServiceAndRun
RunService ==
  /\ pc = "run"
  /\ \/ /\ \E kind \in {"value", "stored", "elsewhere"}, lacking \in SUBSET Outputs :
             outs' = Leaves(kind, lacking)
        /\ Goto("respond")
        /\ UNCHANGED answer
     \/ /\ Refuse    \* SERVICE_FAILED
        /\ UNCHANGED outs
  /\ UNCHANGED <<req, ins, net, asked, raw>>

Respond ==
  /\ pc = "respond"
  /\ answer' = Answer(req.form)
  /\ Goto("end")
  /\ UNCHANGED <<req, ins, net, asked, raw, outs>>

InputStep ==
  /\ \/ ParseInput \/ ParseJsonInput
     \/ LoadHttpRequest \/ HttpRequestsLoaded
     \/ Publish \/ RequestAgain \/ RequestedAgain
     \/ RunHttpRequests \/ ReadOccurrence \/ SkipOccurrence \/ InputsRead
  /\ UNCHANGED outputVars

Next ==
  \/ InputStep \/ ParseOutputs
  \/ RefuseOccurrences \/ RefuseInvalid \/ Validate
  \/ RunService \/ Respond

Spec == Init /\ [][Next]_vars

-----------------------------------------------------------------------------
Positions == 0 .. MaxArguments
Values == {None, <<"default", 0>>} \union ({"own", "file", "error", "other"} \X Positions)

OccurrenceOK(o) ==
  /\ o.value \in Values
  /\ {o.Reference, o.xlink, o.href, o.body} \subseteq Positions
  /\ o.order \in 0 .. 2 * MaxArguments /\ o.isCached \in BOOLEAN /\ o.size \in BOOLEAN

\* The variables keep their types; an answer has one part for an output at most.
TypeOK ==
  /\ pc \in {"parse", "load", "message", "requeue", "download", "read", "validate", "run", "respond", "end"}
  /\ \A k \in DOMAIN ins : /\ ins[k].name \in Names
                           /\ ins[k].length \in {0} \union 2 .. MaxArguments
                           /\ \A i \in DOMAIN ins[k].occ : OccurrenceOK(ins[k].occ[i])
  /\ \A i, j \in DOMAIN ins : ins[i].name = ins[j].name => i = j
  /\ net.read <= 2 * MaxArguments
  /\ \A i, j \in DOMAIN outs : outs[i].name = outs[j].name => i = j
  /\ answer.kind \in {"none", "exception", "crash", "document", "raw"}
  /\ \A p, q \in answer.parts : p.name = q.name => p = q

-----------------------------------------------------------------------------
(* Requests whose inputs are known to go astray.                           *)

Fetched(p) == Given(p).by \notin Inline
IndexIn(p) == Cardinality({q \in 1 .. p - 1 : Given(q).name = Given(p).name})
Alone(p)   == \A q \in DOMAIN req.given : Given(q).name = Given(p).name => q = p
Positioned == DOMAIN req.given

\* readCurrentInput walks the inputs by name, the queue has the order they were
\* given in (caching.c:645-671).
Scattered == ~Contiguous(req.given)
\* An unknown input that is given again is dropped, its request stays in the queue.
Dropped == req.form # "json" /\ \E p \in Positioned : ~Known(Given(p).name) /\ ~Alone(p)
\* A Body in a Reference without method="POST" is queued after the reference itself.
QueuedTwice == req.form \in XmlForms /\ ~req.worker /\ \E p \in Positioned : Given(p).by = "body"
\* What the message to a worker does not hold: the value of an XML document or of
\* an answer in the cache, the Body of a second occurrence.
NotInMessage ==
  req.worker /\ \E p \in Positioned :
    \/ Given(p).by = "sized"
    \/ req.form # "json" /\ Given(p).url = "cached"
    \/ req.form \in XmlForms /\ Given(p).by \in Posting /\ IndexIn(p) > 0
\* The references of a JSON array are taken for its first items, what is in the
\* cache for the first one, and a body is looked up by the length of the queue.
Mixed == \E p, q \in Positioned :
           p < q /\ Given(p).name = Given(q).name /\ ~Fetched(p) /\ Fetched(q)
CachedLater == \E p \in Positioned : IndexIn(p) > 0 /\ Given(p).url = "cached"
BodyMoved == \E p, q \in Positioned : Given(p).url = "cached" /\ Given(q).by = "body"
\* After the first protected host the others get one of the attributes, and none get
\* any from a worker.
HeadersMissing ==
  \/ req.worker /\ \E p \in Positioned : Given(p).url = "guarded"
  \/ Len(Attributes) > 1 /\ \E p, q \in Positioned : p # q /\ {Given(p).url, Given(q).url} = {"guarded"}
\* The answer of the URL of a BodyReference is posted whatever it is.
BodyLost == \E p \in Positioned : Given(p).url = "bodiless"
BadAnswer == \E p \in Positioned : Given(p).url = "broken"
AstrayInJson == req.form = "json" /\ ~req.worker /\ (Mixed \/ CachedLater \/ BodyMoved \/ BadAnswer \/ HeadersMissing)

Astray == Scattered \/ Dropped \/ QueuedTwice \/ NotInMessage \/ BodyLost \/ AstrayInJson

ItemsOf(n) == Ascending({p \in Positioned : Given(p).name = n})
Expected(p) == IF Fetched(p) THEN <<"file", p>> ELSE <<"own", p>>

\* When the service is called each of its inputs has, occurrence by occurrence, the
\* values of the request and the answers of its own URLs, and the inputs it lacks
\* have their default; no download fails but of a URL that has a bad answer
\* (request_parser.c, caching.c:444-671, ulinet.c, zoo_service_loader.c:1328-1390).
EveryInputArrives ==
  /\ net.failed /\ ~Astray => BadAnswer \/ HeadersMissing
  /\ pc = "run" /\ ~Astray => \A k \in DOMAIN ins :
    LET items == ItemsOf(ins[k].name) IN
    IF items = <<>> THEN ins[k].occ[0].value = <<"default", 0>>
    ELSE /\ Occurrences(k) = Len(items)
         /\ \A i \in DOMAIN items : ins[k].occ[i - 1].value = Expected(items[i])

\* The service is not called without a mandatory input, with more occurrences of an
\* input than its zcfg file allows (which JSON requests are not checked for), with an
\* answer that is an error, nor for an output it does not have.
OnlyValidRequestsRun ==
  pc = "run" =>
    /\ \A n \in DOMAIN req.zcfg :
         /\ req.zcfg[n].min >= 1 => ItemsOf(n) # <<>>
         /\ req.form # "json" => Len(ItemsOf(n)) <= req.zcfg[n].max
    /\ ~Astray => ~BadAnswer
    /\ \A r \in Range(asked) : r.name \in Outputs

-----------------------------------------------------------------------------
\* The asReference of a KVP request is not read, and a single raw output is answered
\* by value; a WPS document by value does not read the file of its output.  The
\* transmission "value" of WPS 2 does not change the default.
ReferenceIgnored == req.form = "kvp" \/ (raw /\ (req.form # "json" \/ Len(asked) = 1))
FileIgnored(p)   == req.form # "json" /\ ~raw /\ ~p.href

ValueIgnored(n)  == req.form = "xml2" /\ n \in Stored

Usual(n) == IF req.form = "json" THEN "value" ELSE Default(n)
Wants(n) ==
  LET by == {r.by : r \in {r \in Range(asked) : r.name = n}} IN
  IF by \subseteq {"any"} THEN {Usual(n)} ELSE by \ {"any"}

AskedFor == IF asked = <<>> THEN Outputs ELSE {r.name : r \in Range(asked)}
Made(n)  == \E i \in DOMAIN outs : outs[i].name = n /\ outs[i].made # "nothing"

\* The client gets the outputs it asked for and no other, each by value or by
\* reference as it asked or as the zcfg file has it, and with what the service made
\* of it (outputResponse, printProcessResponse, printJResult, printRawdataOutputs).
AnsweredAsAsked ==
  answer.kind \in {"document", "raw"} =>
    /\ {p.name : p \in answer.parts} \subseteq AskedFor
    /\ \A n \in AskedFor : Made(n) => \E p \in answer.parts : p.name = n
    /\ \A p \in answer.parts :
         /\ p.href /\ ~ReferenceIgnored /\ ~ValueIgnored(p.name) => "ref" \in Wants(p.name)
         /\ ~p.href /\ ~ReferenceIgnored => "value" \in Wants(p.name)
         /\ ~FileIgnored(p) => (Made(p.name) <=> p.content = "result")
=============================================================================
