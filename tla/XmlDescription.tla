--------------------------- MODULE XmlDescription ---------------------------
(***************************************************************************)
(* What a WPS client reads of a process: the capabilities and the          *)
(* description in XML (response_print.c), in version 1.0.0 (v = 1) and     *)
(* 2.0.0 (v = 2).  A document is a record of what it says; what it does    *)
(* not say is "", <<>> or {}.  AllowedValues and CRS are lists of tokens,  *)
(* range is a record of its brackets and bounds; units, nested elements    *)
(* and maximumMegabytes are left out, and the title comes first in         *)
(* MetaData.                                                               *)
(***************************************************************************)
EXTENDS Elements

\* Attribute, and its value when the zcfg file does not tell.
Capabilities(v) ==
  IF v = 1
  THEN << <<"processVersion", "1">>, <<"storeSupported", "true">>, <<"statusSupported", "true">> >>
  ELSE << <<"processVersion", "1.0.0">>,
          <<"jobControlOptions", "sync-execute async-execute dismiss">>,
          <<"outputTransmission", "value reference">> >>

\* The shortest version of version 2.0.0 is 1.0.0.
Version(value, v) == IF v = 2 /\ Len(value) < 5 THEN value \o ".0.0" ELSE value

Attribute(content, v, i) ==
  LET name == Capabilities(v)[i][1]
  IN  CASE HasKey(content, name) /\ i = 1 -> Version(content[name], v)
        [] HasKey(content, name) /\ i > 1 -> content[name]
        [] ~HasKey(content, name) /\ i = 2 /\ v = 2 /\ Get(content, "serviceType", "") = "HPC" ->
             "async-execute dismiss"
        [] OTHER -> Capabilities(v)[i][2]

AttachAttributes(content, v) == [i \in 1..3 |-> Attribute(content, v, i)]

PrintDescription(name, m) ==
  [identifier |-> name, title |-> Get(m, "title", ""), abstract |-> Get(m, "abstract", "")]

Links == {"title", "role", "href"}
Others(m, keys) == [k \in DOMAIN m \ keys |-> m[k]]

\* Links lose their role and reference.  Other keys hide them in version 1.0.0,
\* and make them additional parameters in version 2.0.0.
AddMetadata(m, v) ==
  LET more == Others(m, Links)
  IN  IF m = Null \/ (v = 1 /\ (more # Null \/ ~HasKey(m, "title"))) THEN {}
      ELSE {[title |-> Get(m, "title", ""), more |-> more]}

\* Nothing without a title or a length.
AddAdditionalParameters(m) ==
  IF HasKey(m, "title") \/ HasKey(m, "length") THEN {Others(m, {"length", "fromDb"})} ELSE {}

-----------------------------------------------------------------------------
Occurs(content) ==
  LET max == Get(content, "maxOccurs", "1")
  IN  <<Get(content, "minOccurs", "0"), IF max = "unbounded" THEN "1000" ELSE max>>

Literals == {"LiteralData", "LiteralOutput"}

\* Version 1.0.0 has names for outputs, version 2.0.0 those of inputs; what is
\* already named after an output keeps its name.
ElementTag(format, input, v) ==
  CASE v = 1 /\ ~input ->
         (CASE format \in Literals          -> "LiteralOutput"
            [] format = "ComplexData"       -> "ComplexOutput"
            [] format = "BoundingBoxData"   -> "BoundingBoxOutput"
            [] OTHER                        -> format)
    [] OTHER -> IF format \in Literals THEN "LiteralData" ELSE format

\* Without a default, whatever the element is, its formats are printed.
Kind(e) ==
  CASE e.defaults = <<>>     -> "formats"
    [] e.defaults # <<>> /\ e.format \in Literals -> "literal"
    [] e.defaults # <<>> /\ e.format \in {"BoundingBoxData", "BoundingBoxOutput"} -> "bbox"
    [] OTHER                 -> "formats"

Default(e) == IF e.defaults = <<>> THEN Null ELSE e.defaults[1]

RangeKeys == {"range", "rangeMin", "rangeMax", "rangeClosure"}
HasRange(m) == RangeKeys \intersect DOMAIN m # {}

\* Mutant: the half-open intervals the other way round.
ClosureSwapped(left, right) ==
  CASE left = "[" /\ right = "[" -> "open-closed"
    [] left = "]" /\ right = "]" -> "closed-open"
    [] left = "]" /\ right = "[" -> "open"
    [] OTHER                     -> "closed"

Closure(left, right) ==
  CASE left = "[" /\ right = "[" -> "closed-open"
    [] left = "]" /\ right = "]" -> "open-closed"
    [] left = "]" /\ right = "[" -> "open"
    [] OTHER                     -> "closed"

NamedClosure(name) ==
  CASE name = "co" -> "closed-open"
    [] name = "oc" -> "open-closed"
    [] name = "o"  -> "open"
    [] OTHER       -> "closed"

PrintRange(m) ==
  IF HasKey(m, "range")
  THEN [ min |-> m["range"].min, max |-> m["range"].max,
         closure |-> Closure(m["range"].left, m["range"].right) ]
  ELSE [ min |-> Get(m, "rangeMin", ""), max |-> Get(m, "rangeMax", ""),
         closure |-> NamedClosure(Get(m, "rangeClosure", "")) ]

\* The default's, then those of the supported domains up to the first without.
PrintRanges(e, input) ==
  LET stop == SelectInSeq(e.supported, LAMBDA m : ~HasRange(m))
      more == SubSeq(e.supported, 1, IF stop = 0 THEN Len(e.supported) ELSE stop - 1)
  IN  IF ~input \/ HasKey(Default(e), "AllowedValues")
           \/ {"range", "rangeMin", "rangeMax"} \intersect DOMAIN Default(e) = {}
      THEN <<>>
      ELSE <<PrintRange(Default(e))>> \o [i \in DOMAIN more |-> PrintRange(more[i])]

Unconstrained(e, input, v) ==
  /\ input \/ v = 2
  /\ Kind(e) = "literal"
  /\ ~HasKey(Default(e), "AllowedValues") /\ ~HasRange(Default(e))

AnyValue(e, input, v) ==
  Unconstrained(e, input, v) /\ Get(Default(e), "dataType", "") # "boolean"

AllowedValues(e, input, v) ==
  CASE input /\ HasKey(Default(e), "AllowedValues") -> Default(e)["AllowedValues"]
    [] Unconstrained(e, input, v) /\ ~AnyValue(e, input, v) -> <<"true", "false">>
    [] OTHER -> <<>>

DataType(e) == IF Kind(e) = "literal" THEN Get(Default(e), "dataType", "") ELSE ""

FormatFields == {"mimeType", "encoding", "schema"}
PrintFormat(m) == [k \in DOMAIN m \intersect FormatFields |-> m[k]]

\* Version 1.0.0 leaves a default out that has nothing to print.
DefaultFields(e, v) ==
  IF Kind(e) # "formats" \/ e.defaults = <<>> \/ (v = 1 /\ PrintFormat(Default(e)) = Null)
  THEN <<>>
  ELSE <<PrintFormat(Default(e))>>

\* The default when there is no other.
SupportedFields(e) ==
  LET formats == IF e.supported = <<>> THEN e.defaults ELSE e.supported
  IN  IF Kind(e) # "formats" THEN <<>>
      ELSE [i \in DOMAIN formats |-> PrintFormat(formats[i])]

\* The default's list in one node; of every supported list, only the last one.
PrintCRS(e) ==
  LET lists == SelectSeq(e.supported, LAMBDA m : HasKey(m, "CRS"))
  IN  IF Kind(e) # "bbox" THEN <<>>
      ELSE (IF HasKey(Default(e), "CRS") THEN <<Default(e)["CRS"]>> ELSE <<>>)
             \o [i \in DOMAIN lists |-> <<Last(lists[i]["CRS"])>>]

XmlElement(e, input, v) ==
  [ text     |-> PrintDescription(e.name, e.content),
    occurs   |-> IF input THEN Occurs(e.content) ELSE <<>>,
    tag      |-> ElementTag(e.format, input, v),
    type     |-> DataType(e),
    default  |-> Get(Default(e), "value", ""),
    any      |-> AnyValue(e, input, v),
    allowed  |-> AllowedValues(e, input, v),
    ranges   |-> PrintRanges(e, input),
    first    |-> DefaultFields(e, v),
    formats  |-> SupportedFields(e),
    crs      |-> PrintCRS(e),
    metadata |-> IF e.defaults = <<>> THEN {} ELSE AddMetadata(e.metadata, v),
    params   |-> IF e.defaults = <<>> \/ v = 1 THEN {} ELSE AddAdditionalParameters(e.additional) ]

PrintFullDescription(list, input, v) == [i \in DOMAIN list |-> XmlElement(list[i], input, v)]

-----------------------------------------------------------------------------
\* The metadata of the concept or of the profile a process extends, up to the
\* concept; registryUrl is dereferenced when one has a level.
AddInheritedMetadata(s, inherited) ==
  IF {"extend", "concept"} \intersect DOMAIN s.content = {} \/ ~HasKey(s.content, "level")
  THEN <<>>
  ELSE Append(inherited,
         [ level |-> CASE s.content["level"] = "profile" -> "generic"
                       [] s.content["level"] = "generic" -> "concept"
                       [] OTHER -> s.content["level"],
           of |-> IF HasKey(s.content, "extend") THEN s.content["extend"]
                  ELSE s.content["concept"] ])

PrintGetCapabilitiesForProcess(s, v) ==
  [ text     |-> PrintDescription(s.name, s.content),
    version  |-> Attribute(s.content, v, 1),
    options  |-> IF v = 2 THEN Attribute(s.content, v, 2) ELSE "",
    metadata |-> AddMetadata(s.metadata, v),
    params   |-> AddAdditionalParameters(s.additional) ]

\* The mode of a process is added to its content before the attributes are.
WithMode(content, v) ==
  IF v = 2 /\ Get(content, "mode", "") \in {"sync", "async"}
  THEN AddToMap(content, "jobControlOptions", content["mode"] \o "-execute dismiss")
  ELSE content

PrintDescribeProcessForProcess(s, v) ==
  [ text       |-> PrintDescription(s.name, s.content),
    attributes |-> AttachAttributes(WithMode(s.content, v), v),
    metadata   |-> AddMetadata(s.metadata, v),
    params     |-> IF v = 1 THEN {} ELSE AddAdditionalParameters(s.additional),
    inherited  |-> IF v = 1 THEN <<>> ELSE AddInheritedMetadata(s, <<>>),
    inputs     |-> PrintFullDescription(s.inputs, TRUE, v),
    outputs    |-> PrintFullDescription(s.outputs, FALSE, v) ]
=============================================================================
