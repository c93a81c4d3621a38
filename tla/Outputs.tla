------------------------------ MODULE Outputs ------------------------------
(***************************************************************************)
(* The outputs of an execution: those the request asks for, and how they   *)
(* are answered (request_parser.c, service_json.c, response_print.c).      *)
(***************************************************************************)
EXTENDS Integers, Sequences, SequencesExt

CONSTANTS
  Outputs,   \* the outputs of the service
  Stored,    \* those whose zcfg file has asReference = true
  Unknown    \* an identifier that is none of them

ASSUME OutputsAssumption ==
  /\ IsFiniteSet(Outputs) /\ Outputs # {}
  /\ Stored \subseteq Outputs /\ Unknown \notin Outputs

VARIABLES
  asked,    \* the outputs the request asks for and the form of each: by value, by
            \* reference, or any
  raw,      \* RawDataOutput, or "response": "raw"
  outs,     \* request_output_real_format
  answer    \* what the client gets

outputVars == <<asked, raw, outs, answer>>

Requestable == [name : Outputs \union {Unknown}, by : {"any", "value", "ref"}]

NoAnswer == [kind |-> "none", parts |-> {}]
InitOutputs == asked = <<>> /\ raw = FALSE /\ outs = <<>> /\ answer = NoAnswer

Distinct(s) == \A i, j \in DOMAIN s : s[i].name = s[j].name => i = j

\* What a client may ask for, with room for n outputs: one raw output in WPS, that
\* has no asReference; the members of a JSON object have different names.
Askable(form, n) ==
  {c \in {<<s, r>> : s \in BoundedSeq(Requestable, n), r \in BOOLEAN} :
     /\ form = "json" => Distinct(c[1])
     /\ form # "json" /\ c[2] => Len(c[1]) = 1 /\ c[1][1].by = "any"}

\* asReference, or the transmissionMode of JSON; "made" is what the service leaves.
Output(n, reference) ==
  [name |-> n, reference |-> reference, inRequest |-> FALSE, made |-> "nothing"]

\* parseJIO: without outputs, all are asked for by value.
JsonOutputs(s) ==
  IF s = <<>> THEN LET all == SetToSeq(Outputs) IN [i \in DOMAIN all |-> Output(all[i], "value")]
  ELSE [i \in DOMAIN s |-> Output(s[i].name, IF s[i].by = "any" THEN "value" ELSE s[i].by)]

XmlOutputs(s) == [i \in DOMAIN s |-> Output(s[i].name, s[i].by)]

\* The members of a finite set of numbers, the smallest first.
Ascending(S) ==
  [i \in 1 .. Cardinality(S) |-> CHOOSE x \in S : Cardinality({y \in S : y <= x}) = i]

\* addMapsToMaps keeps one output of a name.
NamesOnce(s) ==
  LET first == Ascending({i \in DOMAIN s : \A j \in 1 .. i - 1 : s[j].name # s[i].name})
  IN [i \in DOMAIN first |-> s[first[i]].name]

\* xmlParseOutputs2: of transmission only "reference" sets asReference.
Xml2Outputs(s) ==
  [i \in DOMAIN NamesOnce(s) |->
     LET n == NamesOnce(s)[i] IN
     Output(n, IF [name |-> n, by |-> "ref"] \in Range(s) THEN "ref" ELSE "any")]

\* kvpParseOutputs: what follows the name is read when sLength is 0, that is never.
KvpOutputs(s) == [i \in DOMAIN NamesOnce(s) |-> Output(NamesOnce(s)[i], "any")]

Parsed(form, s) ==
  CASE form = "kvp"  -> KvpOutputs(s)
    [] form = "xml"  -> XmlOutputs(s)
    [] form = "xml2" -> Xml2Outputs(s)
    [] form = "json" -> JsonOutputs(s)

\* xmlParseOutputs
Duplicated(form, s) == form = "xml" /\ ~Distinct(s)

-----------------------------------------------------------------------------
(* addDefaultValues: the default of asReference, and what is not asked for. *)

Default(n) == IF n \in Stored THEN "ref" ELSE "value"

UnknownAsked == \E i \in DOMAIN outs : outs[i].name \notin Outputs

\* Mutant: inRequest is also true for the outputs that are added.
AllInRequest ==
  LET lacking == SetToSeq(Outputs \ {outs[i].name : i \in DOMAIN outs})
      added == outs \o [i \in DOMAIN lacking |-> Output(lacking[i], "any")]
  IN [i \in DOMAIN added |->
        [added[i] EXCEPT !.reference = IF @ = "any" THEN Default(added[i].name) ELSE @,
                         !.inRequest = TRUE]]

WithDefaults ==
  LET lacking == SetToSeq(Outputs \ {outs[i].name : i \in DOMAIN outs})
      added == outs \o [i \in DOMAIN lacking |-> Output(lacking[i], "any")]
  IN [i \in DOMAIN added |->
        [added[i] EXCEPT !.reference = IF @ = "any" THEN Default(added[i].name) ELSE @,
                         !.inRequest = i <= Len(outs)]]

\* What the service leaves: for some outputs nothing, for the others a value or a
\* file, that is under tmpPath or elsewhere.
Leaves(kind, lacking) ==
  [i \in DOMAIN outs |->
     [outs[i] EXCEPT !.made = IF outs[i].name \in lacking THEN "nothing" ELSE kind]]

-----------------------------------------------------------------------------
Part(o, href, content) == [name |-> o.name, href |-> href, content |-> content]
Reply(kind, parts) == [kind |-> kind, parts |-> parts]
Exception == Reply("exception", {})
Crash     == Reply("crash", {})

\* produceFileUrl: a file that is not under tmpPath has no name in the URL; an
\* exception is printed for an output without a value.
NoUrl(o)  == o.made = "elsewhere"
NoFile(o) == o.made = "nothing"

ByReference(o) == o.reference = "ref"

\* The first of some outputs, in the order of the list, for which P holds.
Before(i, P(_), Q(_)) == P(outs[i]) /\ \A j \in 1 .. i - 1 : ~Q(outs[j])

\* printProcessResponse, printIOType: a file is not read.
WpsParts ==
  {Part(outs[i], ByReference(outs[i]),
        IF ByReference(outs[i]) \/ outs[i].made = "value" THEN "result" ELSE "empty")
     : i \in {i \in DOMAIN outs : asked = <<>> \/ outs[i].inRequest}}

\* outputResponse: a file for each output that has asReference, asked for or not.
WpsDocument ==
  LET Bad(o) == ByReference(o) /\ (NoUrl(o) \/ NoFile(o))
      BadUrl(o) == ByReference(o) /\ NoUrl(o)
  IN IF \E i \in DOMAIN outs : Bad(outs[i])
     THEN IF \E i \in DOMAIN outs : Before(i, BadUrl, Bad) THEN Crash ELSE Exception
     ELSE Reply("document", WpsParts)

\* printRawdataOutput, for the output that comes first: a file is read, wherever it is.
RawOutput(o) ==
  IF o.made = "nothing" THEN Exception ELSE Reply("raw", {Part(o, FALSE, "result")})

\* printJResult: outputs without a value are left out.
JsonDocument ==
  LET printed == {i \in DOMAIN outs : outs[i].inRequest /\ outs[i].made # "nothing"} IN
  IF \E i \in printed : ByReference(outs[i]) /\ NoUrl(outs[i]) THEN Crash
  ELSE Reply("document", {Part(outs[i], ByReference(outs[i]), "result") : i \in printed})

\* printRawdataOutputs: a multipart answer, and the URL of an output without a
\* value is the null pointer.
JsonParts ==
  LET Stops(o) == o.inRequest /\ ((ByReference(o) /\ NoUrl(o)) \/ (~ByReference(o) /\ NoFile(o)))
      Breaks(o) == o.inRequest /\ ByReference(o) /\ NoUrl(o)
  IN IF \E i \in DOMAIN outs : Stops(outs[i])
     THEN IF \E i \in DOMAIN outs : Before(i, Breaks, Stops) THEN Crash ELSE Exception
     ELSE Reply("raw", {Part(outs[i], ByReference(outs[i]), IF NoFile(outs[i]) THEN "null" ELSE "result")
                          : i \in {i \in DOMAIN outs : outs[i].inRequest}})

JsonRaw ==
  IF \E i, j \in DOMAIN outs : i # j /\ outs[i].inRequest /\ outs[j].inRequest
  THEN JsonParts ELSE RawOutput(outs[1])

Answer(form) ==
  IF form = "json" THEN IF raw THEN JsonRaw ELSE JsonDocument
  ELSE IF raw THEN RawOutput(outs[1]) ELSE WpsDocument
=============================================================================
