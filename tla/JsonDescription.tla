-------------------------- MODULE JsonDescription ---------------------------
(***************************************************************************)
(* What an OGC API client reads of a process (service_json.c): its summary *)
(* in a list and its description.  A JSON object is a function from its    *)
(* keys; schemas is the set of names main.cfg defines under [schemas].     *)
(* Nested elements, nested metadata, maximumMegabytes and the links of a   *)
(* process are left out; numbers are the strings that are written.         *)
(***************************************************************************)
EXTENDS XmlDescription

Atoi(s) ==
  IF \E n \in 0..9 : ToString(n) = s THEN CHOOSE n \in 0..9 : ToString(n) = s ELSE 0

AddDescription(m) ==
  IF HasKey(m, "abstract") THEN "description" :> m["abstract"] ELSE Null

JsonType(name) ==
  CASE name \in {"float", "double"} -> "type" :> "number" @@ "format" :> name
    [] name \in {"date", "dateTime"} -> "type" :> "string" @@ "format" :> name
    [] OTHER -> "type" :> name

JsonValue(m, k, key) == IF HasKey(m, k) THEN key :> m[k] ELSE Null

\* An open bound is exclusive; "o" opens the maximum only when there is a minimum.
PrintAllowedRangesJ(m) ==
  LET closure == Get(m, "rangeClosure", "")
      openMin == closure \in {"o", "oc"} /\ HasKey(m, "rangeMin")
      openMax == closure = "co" \/ (closure = "o" /\ openMin)
  IN  JsonValue(m, "rangeMin", IF openMin THEN "exclusiveMinimum" ELSE "minimum")
        @@ JsonValue(m, "rangeMax", IF openMax THEN "exclusiveMaximum" ELSE "maximum")

\* A range hides the values.  Of several ranges the last one is kept, of each bound.
Constraints(e) ==
  CASE HasKey(Default(e), "rangeMin") ->
         MergeMaps(<<PrintAllowedRangesJ(Default(e))>>
                     \o [i \in DOMAIN e.supported |-> PrintAllowedRangesJ(e.supported[i])])
    [] HasKey(Default(e), "AllowedValues") /\ {"range", "rangeMin"} \intersect DOMAIN Default(e) = {} ->
         "enum" :> Default(e)["AllowedValues"]
    [] OTHER -> Null

Nullable(e) ==
  IF Get(e.content, "minOccurs", "1") = "0" THEN "nullable" :> TRUE ELSE Null

\* The array of what may occur more than once.
Several(e) ==
  IF HasKey(e.content, "minOccurs") /\ Atoi(Get(e.content, "maxOccurs", "1")) > 1
  THEN <<Atoi(e.content["minOccurs"]), Atoi(e.content["maxOccurs"])>>
  ELSE <<>>

PrintLiteralDataJ(e) ==
  LET type == Get(Default(e), "dataType", "")
  IN  (IF type = "" THEN Null ELSE JsonType(type))
        @@ JsonValue(Default(e), "value", "default") @@ Constraints(e) @@ Nullable(e)

\* A schema that main.cfg defines stands for the whole element.
GetDefinitionFromSchemas(name, schemas) ==
  IF name \in schemas THEN "allOf" :> name ELSE Null

PrintBoundingBoxJ(e, schemas) ==
  LET known == GetDefinitionFromSchemas("ogc-bbox", schemas)
      lists == SelectSeq(e.defaults \o e.supported, LAMBDA m : HasKey(m, "CRS"))
  IN  IF known # Null THEN known
      ELSE (IF HasKey(Default(e), "CRS")
            THEN "crs" :> Default(e)["CRS"] @@ "crss" :> [i \in DOMAIN lists |-> lists[i]["CRS"]]
            ELSE Null) @@ Nullable(e)

\* JSON is an object with its schema; other types say how they are encoded.
Json == {"application/json", "application/geo+json"}
PrintFormatJ1(m) ==
  IF Get(m, "mimeType", "") \in Json
  THEN JsonValue(m, "schema", "$ref") @@ "type" :> "object"
  ELSE "contentEncoding" :> Get(m, "encoding", "base64")
         @@ JsonValue(m, "mimeType", "contentMediaType") @@ JsonValue(m, "schema", "contentSchema")

PrintComplexJ(e, schemas) ==
  LET known   == GetDefinitionFromSchemas(Get(Default(e), "dataFormat", ""), schemas)
      formats == e.defaults \o e.supported
  IN  IF known # Null THEN known
      ELSE "oneOf" :> [i \in DOMAIN formats |-> PrintFormatJ1(formats[i])]

\* printFormatJ takes the type of every format for granted, and printIOTypeJ a default.
PrintFormatJCrashes(e) ==
  /\ e.format \in {"ComplexData", "ComplexOutput"}
  /\ \/ e.defaults = <<>>
     \/ \E m \in ToSet(e.defaults \o e.supported) : ~HasKey(m, "mimeType")

\* The bounds a client reads: what is left out is 1.
OccursJ(e) ==
  <<Get(e.content, "minOccurs", "1"), Get(e.content, "maxOccurs", "1")>>

\* What begins with { or [ replaces the schema that was made.
RawSchema(e) == Get(e.content, "raw_schema", "")
Replaced(e) == IF RawSchema(e) = "" THEN Null ELSE "raw" :> RawSchema(e)

SchemaJ(e, schemas) ==
  IF Replaced(e) # Null THEN Replaced(e)
  ELSE CASE e.format \in Literals -> PrintLiteralDataJ(e)
         [] e.format \in {"ComplexData", "ComplexOutput"} -> PrintComplexJ(e, schemas)
         [] e.format = "" -> Null
         [] OTHER -> PrintBoundingBoxJ(e, schemas)

\* Title, role and reference of each of the metadata.
PrintJMetadata(m) ==
  LET Link(i) == [f \in {f \in Links : HasKey(m, ArrayKey(f, i))} |-> m[ArrayKey(f, i)]]
      n == Atoi(Get(m, "length", "1"))
  IN  {Link(i) : i \in 0..(n - 1)} \ {Null}

\* Nothing unless something is neither a link nor the length.
PrintJAdditionalParameters(m) ==
  LET more == Others(m, Links \union {"length"}) IN IF more = Null THEN {} ELSE {more}

PrintIOTypeJ(e, input, schemas) ==
  [ name     |-> e.name,
    title    |-> Get(e.content, "title", ""),
    abstract |-> AddDescription(e.content),
    occurs   |-> IF input THEN OccursJ(e) ELSE <<>>,
    schema   |-> SchemaJ(e, schemas),
    several  |-> IF e.format = "" THEN <<>> ELSE Several(e),
    metadata |-> PrintJMetadata(e.metadata),
    params   |-> PrintJAdditionalParameters(e.additional) ]

\* A later element replaces one of the same name.
ElementsJ(list, input, schemas) ==
  MergeMaps([i \in DOMAIN list |-> list[i].name :> PrintIOTypeJ(list[i], input, schemas)])

-----------------------------------------------------------------------------
\* A deployed process only runs asynchronously.
JobControlOptions(content) ==
  IF Get(content, "mutable", "false") = "false"
  THEN "sync-execute async-execute dismiss" ELSE "async-execute dismiss"

PrintGetCapabilitiesForProcessJ(s) ==
  [ id       |-> s.name,
    title    |-> Get(s.content, "title", ""),
    abstract |-> AddDescription(s.content),
    mutable  |-> Get(s.content, "mutable", "false") # "false",
    version  |-> Version(Get(s.content, "processVersion", "1.0.0"), 2),
    options  |-> JobControlOptions(s.content),
    metadata |-> PrintJMetadata(s.metadata),
    params   |-> PrintJAdditionalParameters(s.additional) ]

PrintProcessJ(s, schemas) ==
  [ process |-> PrintGetCapabilitiesForProcessJ(s),
    crashed |-> \E e \in ToSet(s.inputs \o s.outputs) : PrintFormatJCrashes(e),
    inputs  |-> ElementsJ(s.inputs, TRUE, schemas),
    outputs |-> ElementsJ(s.outputs, FALSE, schemas) ]
=============================================================================
