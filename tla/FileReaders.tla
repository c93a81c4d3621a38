---------------------------- MODULE FileReaders -----------------------------
(***************************************************************************)
(* The two files that may describe a service.                              *)
(*                                                                         *)
(* The zcfg file: what its author writes for a description (ZcfgTokens),   *)
(* and the parser of service_conf.y, one token after the other.  The state *)
(* of the parser is a record: the service, the element and the map it is   *)
(* reading (current_element is <<>> when NULL), where it is (current_data, *)
(* previous_data) and what it waits for.                                   *)
(*                                                                         *)
(* YAML: zcfg2yaml writes it (dumpServiceAsYAML), and getServiceFromYAML   *)
(* reads the tokens of libyaml, of which "start" and "end" open and close  *)
(* a block mapping.  Keywords as values are left out, as are nested inputs *)
(* and outputs in both.                                                    *)
(***************************************************************************)
EXTENDS Elements

Token(kind, name) == [t |-> kind, name |-> name]
Pairs(m) == LET ks == SetToSeq(DOMAIN m)
            IN  [i \in DOMAIN ks |-> [t |-> "pair", name |-> ks[i], value |-> m[ks[i]]]]

Flattened(seqs) == FoldLeft(LAMBDA out, s : out \o s, <<>>, seqs)

Block(tag, m) == <<Token("open", tag)>> \o Pairs(m) \o <<Token("close", tag)>>
Optional(tag, m) == IF m = Null THEN <<>> ELSE Block(tag, m)

ZcfgElement(e) ==
  <<Token("id", e.name)>> \o Pairs(e.content)
    \o Optional("MetaData", e.metadata)
    \o Optional("AdditionalParameters", e.additional)
    \o <<Token("open", e.format)>>
    \o Flattened([i \in DOMAIN e.defaults |->
                    IF e.defaults[i] = Null THEN <<Token("empty", "Default")>>
                    ELSE Block("Default", e.defaults[i])])
    \o Flattened([i \in DOMAIN e.supported |-> Block("Supported", e.supported[i])])
    \o <<Token("close", e.format)>>

ZcfgElements(tag, list) ==
  IF list = <<>> THEN <<>>
  ELSE <<Token("open", tag)>>
         \o Flattened([i \in DOMAIN list |-> ZcfgElement(list[i])])
         \o <<Token("close", tag)>>

ZcfgTokens(s) ==
  <<Token("id", s.name)>> \o Pairs(s.content)
    \o Optional("MetaData", s.metadata)
    \o Optional("AdditionalParameters", s.additional)
    \o ZcfgElements("DataInputs", s.inputs)
    \o ZcfgElements("DataOutputs", s.outputs)

-----------------------------------------------------------------------------
Formats == {"ComplexData", "LiteralData", "ComplexOutput", "LiteralOutput",
            "BoundingBoxOutput", "BoundingBoxData"}

\* At the start of every file.
ZcfgStart(s) ==
  [ svc |-> s, elem |-> <<>>, content |-> Null, named |-> FALSE, cur |-> 0, prev |-> 1,
    inputs |-> FALSE, meta |-> "none", params |-> "none" ]

Named(z)   == z.elem # <<>> /\ z.elem[1].name # ""
Cleared(z) == [z EXCEPT !.content = Null]
Ready(z)   == IF z.elem = <<>> THEN [z EXCEPT !.elem = <<CreateEmptyElements>>] ELSE z

AsInput(z)  == [z EXCEPT !.svc.inputs = AddToElements(@, z.elem[1]), !.elem = <<>>]
AsOutput(z) == [z EXCEPT !.svc.outputs = AddToElements(@, z.elem[1]), !.elem = <<>>]

InContent(z) == [z EXCEPT !.elem[1].content = AddMapToMap(@, z.content), !.content = Null]

\* The first tag ends the main content.
MainContent(z) ==
  IF z.svc.content = Null /\ z.content # Null
  THEN [z EXCEPT !.svc.content = z.content, !.content = Null,
                 !.svc.metadata = Null, !.svc.additional = Null]
  ELSE z

OpenInputs(z) == [Ready(z) EXCEPT !.inputs = TRUE, !.cur = 1, !.prev = 1]

OpenOutputs(z) ==
  LET y == IF ~z.inputs THEN z
           ELSE [(IF Named(z) THEN AsInput(z) ELSE z) EXCEPT !.elem = <<>>, !.inputs = FALSE]
  IN  [Ready(y) EXCEPT !.cur = 2, !.prev = 2]

\* What is waited for depends on being inside of the inputs, the outputs, or before.
Place(z) == IF z.cur \in {1, 2} THEN "element" ELSE "main"

OpenMetaData(z) ==
  LET y == IF z.elem = <<>> THEN Cleared(z) ELSE InContent(z)
  IN  [y EXCEPT !.prev = z.cur, !.cur = 3, !.meta = Place(z)]

OpenParameters(z) ==
  LET y == IF z.elem = <<>> THEN Cleared(z)
           ELSE CASE z.meta = "main"    -> [z EXCEPT !.svc.metadata = AddMapToMap(@, z.content)]
                  [] z.meta = "element" -> [z EXCEPT !.elem[1].metadata = AddMapToMap(@, z.content)]
                  [] z.meta = "none"    -> InContent(z)
  IN  [Cleared(y) EXCEPT !.prev = z.cur, !.cur = 4, !.params = Place(z)]

OpenFormat(z, tag) ==
  [InContent(z) EXCEPT !.cur = 4, !.elem[1].format = tag,
                       !.elem[1].defaults = <<>>, !.elem[1].supported = <<>>]

STag(z0, tag) ==
  LET z == MainContent(z0)
  IN  CASE tag = "DataInputs"             -> OpenInputs(z)
        [] tag = "DataOutputs"            -> OpenOutputs(z)
        [] tag = "MetaData"               -> OpenMetaData(z)
        [] tag = "AdditionalParameters"   -> OpenParameters(z)
        [] tag \in Formats                -> OpenFormat(z, tag)
        [] tag \in {"Default", "Supported"} -> [z EXCEPT !.cur = 5]

-----------------------------------------------------------------------------
CloseInputs(z) ==
  LET y == IF z.content = Null THEN z
           ELSE Cleared([z EXCEPT !.elem[1].content = IF @ = Null THEN z.content ELSE @])
  IN  [(IF Named(y) /\ y.svc.content # Null THEN AsInput(y) ELSE y) EXCEPT !.cur = 1]

\* The formats of the element are forgotten with them.
WithoutFormats(e) == [e EXCEPT !.defaults = <<>>, !.supported = <<>>]

CloseMetaData(z) ==
  LET y == CASE z.content = Null -> z
             [] z.content # Null /\ z.meta = "element" ->
                  [z EXCEPT !.elem[1] = [WithoutFormats(@) EXCEPT !.metadata = z.content]]
             [] z.content # Null /\ z.meta = "main" ->
                  [z EXCEPT !.svc.metadata = AddMapToMap(@, z.content)]
  IN  [Cleared(y) EXCEPT !.cur = z.prev, !.meta = "none"]

CloseParameters(z) ==
  LET y == CASE z.content = Null -> z
             [] z.content # Null /\ z.params = "element" ->
                  [z EXCEPT !.elem[1] = [WithoutFormats(@) EXCEPT !.additional = z.content]]
             [] z.content # Null /\ z.params = "main" ->
                  [z EXCEPT !.svc.additional = AddMapToMap(@, z.content)]
  IN  [Cleared(y) EXCEPT !.cur = z.prev, !.params = "none"]

\* </Default> and <Default /> keep what was read since the format was opened.
CloseDefault(z) ==
  LET old == IF z.elem[1].defaults = <<>> THEN Null ELSE z.elem[1].defaults[1]
  IN  [Cleared(z) EXCEPT !.elem[1].defaults = <<AddMapToMap(old, z.content)>>,
                         !.elem[1].supported = <<>>, !.cur = z.prev]

CloseSupported(z) ==
  [Cleared(z) EXCEPT
     !.elem[1].supported = IF @ = <<>> /\ z.content = Null THEN @ ELSE Append(@, z.content),
     !.cur = z.prev]

ETag(z, tag) ==
  CASE tag = "DataInputs"           -> CloseInputs(z)
    [] tag = "DataOutputs"          -> [z EXCEPT !.cur = 2]
    [] tag = "MetaData"             -> CloseMetaData(z)
    [] tag = "AdditionalParameters" -> CloseParameters(z)
    [] tag = "Default"              -> CloseDefault(z)
    [] tag = "Supported"            -> CloseSupported(z)
    [] tag \in {"BoundingBoxOutput", "BoundingBoxData"} -> z
    [] OTHER                        -> Cleared(z)

-----------------------------------------------------------------------------
InputId(z, id) ==
  LET y == IF z.svc.content # Null /\ Named(z) THEN Ready(AsInput(z)) ELSE z
  IN  IF Named(y) THEN y
      ELSE [y EXCEPT !.elem = <<SetElementsName(@[1], id)>>, !.inputs = TRUE]

\* After inputs the first output loses what was read before its name.
OutputId(z, id) ==
  LET y == IF Named(z) THEN Ready(AsOutput(z)) ELSE z
  IN  [(IF z.inputs THEN Cleared(y) ELSE y)
         EXCEPT !.elem = <<SetElementsName(@[1], id)>>, !.inputs = FALSE]

ProcessId(z, id) ==
  IF ~z.named THEN [z EXCEPT !.named = TRUE, !.svc = SetServiceName(@, id)]
  ELSE CASE z.cur = 1 -> InputId(z, id)
         [] z.cur = 2 -> OutputId(z, id)
         [] OTHER     -> z

Pair(z, k, v) == [z EXCEPT !.content = AddMapToMap(@, k :> v)]

Parse(z, token) ==
  CASE token.t = "open"  -> STag(z, token.name)
    [] token.t = "close" -> ETag(z, token.name)
    [] token.t = "empty" -> CloseDefault(z)
    [] token.t = "id"    -> ProcessId(z, token.name)
    [] token.t = "pair"  -> Pair(z, token.name, token.value)

\* The last element is an output, what else was read the content of a service
\* that has no element.
ZcfgEnd(z) ==
  LET y == IF ~Named(z) THEN z
           ELSE IF z.content # Null THEN AsOutput(InContent(z) ) ELSE AsOutput(z)
  IN  IF y.svc.content = Null THEN [y.svc EXCEPT !.content = z.content] ELSE y.svc

-----------------------------------------------------------------------------
(* YAML                                                                    *)

Indented(tokens) ==
  IF tokens = <<>> THEN <<>>
  ELSE <<Token("start", "")>> \o tokens \o <<Token("end", "")>>

Key(name, tokens) == <<Token("key", name)>> \o Indented(tokens)

DumpMap(m) ==
  LET ks == SetToSeq(DOMAIN m)
  IN  Flattened([i \in DOMAIN ks |-> <<Token("key", ks[i]), Token("value", m[ks[i]])>>])

DumpMetaData(m) == IF m = Null THEN <<>> ELSE Key("MetaData", DumpMap(m))

\* The additional parameters are not written.
DumpElement(e) ==
  Key(e.name,
      DumpMap(e.content) \o DumpMetaData(e.metadata)
        \o Key(e.format,
               Flattened([i \in DOMAIN e.defaults |-> Key("default", DumpMap(e.defaults[i]))])
               \o Flattened([i \in DOMAIN e.supported |->
                               Key("supported", DumpMap(e.supported[i]))])))

DumpElements(name, list) ==
  IF list = <<>> THEN <<>>
  ELSE Key(name, Flattened([i \in DOMAIN list |-> DumpElement(list[i])]))

DumpServiceAsYAML(s) ==
  Indented(DumpMap(s.content) \o DumpMetaData(s.metadata)
             \o DumpElements("inputs", s.inputs) \o DumpElements("outputs", s.outputs))

-----------------------------------------------------------------------------
\* depth is blevel, format ilevel, meta wait_metadata > 0, last the element read.
YamlStart(name) ==
  [ svc |-> SetServiceName(CreateService, name), elem |-> <<>>, content |-> Null, key |-> "",
    depth |-> -1, level |-> 0, format |-> -1, meta |-> FALSE,
    outputs |-> "no", crashed |-> FALSE ]

ServiceMetaData(y) ==
  [y EXCEPT !.svc.content = AddMapToMap(@, y.content), !.content = Null, !.meta = TRUE]

ElementMetaData(y) ==
  [y EXCEPT !.elem[1].content = IF @ = Null THEN y.content ELSE @,
            !.content = Null, !.meta = TRUE]

KeyInputs(y) ==
  [ (CASE y.meta -> [y EXCEPT !.svc.metadata = AddMapToMap(@, y.content)]
       [] ~y.meta /\ y.svc.content = Null -> [y EXCEPT !.svc.content = y.content]
       [] OTHER -> y)
      EXCEPT !.content = Null, !.meta = FALSE, !.level = @ + 1 ]

\* What was read so far is the default format, or the first supported one.
KeySupported(y) ==
  LET e == y.elem[1]
      first == IF e.supported = <<>> THEN Null ELSE e.supported[1]
      z == IF y.content = Null \/ (e.defaults # <<>> /\ y.format > 0) THEN y
           ELSE IF e.defaults = <<>> /\ y.format < 0
                THEN [y EXCEPT !.elem[1].defaults = <<y.content>>, !.content = Null]
                ELSE IF y.format <= 0
                     THEN [y EXCEPT !.content = Null,
                             !.elem[1].supported =
                                <<AddMapToMap(first, y.content)>> \o SubSeq(@, 2, Len(@))]
                     ELSE y
  IN  [z EXCEPT !.format = 1]

KeyFormat(y, tag) ==
  LET z == [y EXCEPT !.elem[1].format = tag]
  IN  IF y.content = Null THEN z
      ELSE IF y.meta
      THEN [z EXCEPT !.elem[1].metadata = AddMapToMap(@, y.content), !.meta = FALSE,
                     !.content = Null]
      ELSE InContent(z)

\* The last format of an element.
LastFormat(y) ==
  IF y.elem = <<>> \/ y.content = Null THEN y
  ELSE [ (IF y.elem[1].defaults = <<>> THEN [y EXCEPT !.elem[1].defaults = <<y.content>>]
          ELSE [y EXCEPT !.elem[1].supported = Append(@, y.content)])
           EXCEPT !.content = Null ]

KeyElement(y, name) ==
  LET z == LastFormat(y)
      w == IF z.elem = <<>> THEN z ELSE IF z.outputs = "now" THEN AsOutput(z) ELSE AsInput(z)
  IN  [w EXCEPT !.elem = <<CreateElements(name)>>]

\* The first output's name is still taken for that of an input.
NextKey(y) == IF y.outputs = "next" THEN [y EXCEPT !.outputs = "now"] ELSE y

InElement(name) == name \in Formats \union {"default", "supported", "MetaData"}

ScalarKey(y, name) ==
  CASE y.depth = 0 /\ y.level = 0 /\ name = "MetaData" -> ServiceMetaData(y)
    [] y.depth > 0 /\ name \in Formats \union {"MetaData"} /\ y.elem = <<>>
         /\ (name \in Formats \/ y.level > 0) -> [y EXCEPT !.crashed = TRUE]
    [] y.depth > 0 /\ y.level > 0 /\ name = "MetaData" -> ElementMetaData(y)
    [] y.depth = 0 /\ name = "inputs"     -> KeyInputs(y)
    [] y.depth = 0 /\ name = "outputs"    -> [y EXCEPT !.outputs = "next"]
    [] y.level = 1 /\ name = "default"    -> [y EXCEPT !.format = 0]
    [] y.level = 1 /\ name = "supported"  -> KeySupported(y)
    [] name \in Formats /\ y.elem # <<>>  -> KeyFormat(y, name)
    [] y.depth = 1 /\ y.level = 1         -> KeyElement(y, name)
    [] OTHER                              -> y

Scan(y, token) ==
  IF y.crashed THEN y
  ELSE CASE token.t = "start" -> [y EXCEPT !.depth = @ + 1]
         [] token.t = "end"   ->
              [y EXCEPT !.depth = @ - 1, !.format = IF @ >= 0 THEN @ - 1 ELSE @]
         [] token.t = "key"   ->
              LET z == ScalarKey([y EXCEPT !.key = token.name], token.name)
              IN  IF token.name = "outputs" /\ y.depth = 0 THEN z ELSE NextKey(z)
         [] token.t = "value" -> NextKey([y EXCEPT !.content = AddMapToMap(@, y.key :> token.name)])

\* The last element is an output, whatever it was.
YamlEnd(y0) ==
  LET y == LastFormat(y0) IN IF y.elem = <<>> THEN y.svc ELSE AsOutput(y).svc
=============================================================================
