---------------------------- MODULE Descriptions ----------------------------
(***************************************************************************)
(* From what the author of a service wrote to what a client reads of it:   *)
(* a zcfg file, a YAML file or the rows of the metadata database, read by  *)
(* the kernel and printed in XML or in JSON.  Both ends are taken as sets  *)
(* of statements, so that they can be compared.                            *)
(***************************************************************************)
EXTENDS JsonDescription, MetadataDb, FileReaders

CONSTANT Samples   \* the services as their authors describe them

Writings  == {"zcfg", "yaml", "db"}
Printings == {"xml1", "xml2", "json"}

VARIABLES
  author,   \* the description as its author wrote it
  format,   \* the way it is written
  rest,     \* the tokens that are still to be read
  reader,   \* the state of the parser
  svc       \* << >>, and then the service that was read

readVars == <<author, format, rest, reader, svc>>

Idle == author = Null /\ format = "" /\ rest = <<>> /\ reader = <<>> /\ svc = <<>>

OpenDescription(s, f) ==
  /\ author' = s /\ format' = f
  /\ rest' = CASE f = "zcfg" -> ZcfgTokens(s)
              [] f = "yaml" -> DumpServiceAsYAML(s)
              [] f = "db"   -> <<>>
  /\ reader' = CASE f = "zcfg" -> ZcfgStart(CreateService)
                [] f = "yaml" -> YamlStart(s.name)
                [] f = "db"   -> <<>>
  /\ svc' = <<>>

Dead == format = "yaml" /\ reader.crashed

\* yyparse, and yaml_parser_scan in its loop.
ReadToken ==
  /\ rest # <<>> /\ ~Dead
  /\ reader' = IF format = "zcfg" THEN Parse(reader, Head(rest)) ELSE Scan(reader, Head(rest))
  /\ rest' = Tail(rest)
  /\ UNCHANGED <<author, format, svc>>

ReadServiceFile ==
  /\ author # Null /\ rest = <<>> /\ svc = <<>>
  /\ svc' = << CASE format = "zcfg" -> ZcfgEnd(reader)
                [] format = "yaml" -> YamlEnd(reader)
                [] format = "db"   -> ExtractServiceFromDb(ProcessRow(author), FALSE) >>
  /\ UNCHANGED <<author, format, rest, reader>>

-----------------------------------------------------------------------------
\* A statement about one element: <<kind, value>>.
Said(kind, m, k) == IF HasKey(m, k) THEN {<<kind, m[k]>>} ELSE {}
Each(kind, list) == {<<kind, v>> : v \in ToSet(list)}

FormatOf(m) == Row(m, FormatFields)
Maps(e) == ToSet(e.defaults \o e.supported)

\* The interval an author writes, ]1;5] or with its closure named: which ends are left out.
WrittenRange(m) ==
  LET text  == HasKey(m, "range")
      left  == IF text THEN m["range"].left = "]" ELSE Get(m, "rangeClosure", "") \in {"o", "oc"}
      right == IF text THEN m["range"].right = "[" ELSE Get(m, "rangeClosure", "") \in {"o", "co"}
  IN  [ min |-> IF text THEN m["range"].min ELSE Get(m, "rangeMin", ""),
        max |-> IF text THEN m["range"].max ELSE Get(m, "rangeMax", ""),
        closure |-> CASE left /\ right -> "open"
                      [] left /\ ~right -> "open-closed"
                      [] ~left /\ right -> "closed-open"
                      [] ~left /\ ~right -> "closed" ]

\* What its author says of an element.
AuthorSays(e, input) ==
  Said("title", e.content, "title")
    \union (IF input THEN Said("min", e.content, "minOccurs") \union Said("max", e.content, "maxOccurs")
            ELSE {})
    \union Said("type", Default(e), "dataType")
    \union Said("default", Default(e), "value")
    \union (IF HasKey(Default(e), "AllowedValues") THEN Each("allowed", Default(e)["AllowedValues"])
            ELSE {})
    \union {<<"range", WrittenRange(m)>> : m \in {m \in Maps(e) : HasRange(m)}}
    \union {<<"format", FormatOf(m)>> : m \in {m \in Maps(e) : HasKey(m, "mimeType")}}
    \union {<<"first", FormatOf(m)>> : m \in {m \in ToSet(e.defaults) : HasKey(m, "mimeType")}}
    \union UNION {Said("crs", m, "CRS") : m \in Maps(e)}
    \union Said("about", e.metadata, "title")
    \union {<<"param", e.additional[k]>> : k \in DOMAIN e.additional \ Links}

\* What a client reads of it in XML: 1000 times is unbounded, true and false are the
\* values of a boolean.
XmlSays(x) ==
  {<<"title", x.text.title>>}
    \union (IF x.occurs = <<>> THEN {}
            ELSE {<<"min", x.occurs[1]>>,
                  <<"max", IF x.occurs[2] = "1000" THEN "unbounded" ELSE x.occurs[2]>>})
    \union (IF x.type = "" THEN {} ELSE {<<"type", x.type>>})
    \union (IF x.default = "" THEN {} ELSE {<<"default", x.default>>})
    \union (IF x.type = "boolean" THEN {} ELSE Each("allowed", x.allowed))
    \union Each("range", x.ranges)
    \union {<<"format", FormatOf(m)>> : m \in {m \in ToSet(x.formats) : HasKey(m, "mimeType")}}
    \union {<<"format", FormatOf(m)>> : m \in ToSet(x.first)}
    \union {<<"first", FormatOf(m)>> : m \in ToSet(x.first)}
    \union Each("crs", x.crs)
    \union {<<"about", m.title>> : m \in x.metadata}
    \union UNION {{<<"param", m[k]>> : k \in DOMAIN m \ (Links \union {"isArray"})} : m \in x.params}

\* And in JSON: an object is application/json, base64 is what is not encoded.
JsonFormat(f) ==
  IF Get(f, "type", "") = "object"
  THEN [mimeType |-> "application/json", encoding |-> "", schema |-> Get(f, "$ref", "")]
  ELSE [ mimeType |-> Get(f, "contentMediaType", ""), schema |-> Get(f, "contentSchema", ""),
         encoding |-> IF f["contentEncoding"] = "base64" THEN "" ELSE f["contentEncoding"] ]

JsonBound(s, open, closed) == Get(s, open, Get(s, closed, ""))
JsonRange(s) ==
  [ min |-> JsonBound(s, "exclusiveMinimum", "minimum"),
    max |-> JsonBound(s, "exclusiveMaximum", "maximum"),
    closure |-> CASE {"exclusiveMinimum", "exclusiveMaximum"} \subseteq DOMAIN s -> "open"
                  [] HasKey(s, "exclusiveMinimum") /\ ~HasKey(s, "exclusiveMaximum") -> "open-closed"
                  [] ~HasKey(s, "exclusiveMinimum") /\ HasKey(s, "exclusiveMaximum") -> "closed-open"
                  [] OTHER -> "closed" ]

JsonTypeRead(s) ==
  IF HasKey(s, "format") THEN {<<"type", s["format"]>>} ELSE Said("type", s, "type")

JsonSays(j) ==
  LET s == j.schema
  IN  {<<"title", j.title>>}
        \union (IF j.occurs = <<>> THEN {} ELSE {<<"min", j.occurs[1]>>, <<"max", j.occurs[2]>>})
        \union JsonTypeRead(s)
        \union Said("default", s, "default")
        \union (IF HasKey(s, "enum") THEN Each("allowed", s["enum"]) ELSE {})
        \union (IF JsonRange(s).min = "" THEN {} ELSE {<<"range", JsonRange(s)>>})
        \union (IF HasKey(s, "oneOf") THEN {<<"format", JsonFormat(f)>> : f \in ToSet(s["oneOf"])}
                ELSE {})
        \union (IF HasKey(s, "crss") THEN Each("crs", s["crss"]) ELSE {})
        \union {<<"about", m["title"]>> : m \in {m \in j.metadata : HasKey(m, "title")}}
        \union UNION {{<<"param", m[k]>> : k \in DOMAIN m \ {"fromDb", "isArray"}} : m \in j.params}

-----------------------------------------------------------------------------
\* What the way of writing a description cannot keep.  The second supported map of a
\* YAML file is merged into the first, which only matters with two of them.
LostWriting(e) ==
  CASE format = "zcfg" -> {}
    [] format = "yaml" ->
         {"param"} \union (IF Len(e.supported) > 1 THEN {"range", "format", "crs"} ELSE {})
    [] format = "db" ->
         {"range", "crs"}
           \union (IF \E m \in Maps(e) : HasKey(m, "encoding") THEN {"format", "first"} ELSE {})
           \union (IF Kind(e) = "bbox" THEN {"about", "param"} ELSE {})
           \union (IF ~HasKey(e.additional, "title") THEN {"param"} ELSE {})

\* And what the way of printing it cannot say.
LostPrinting(e, input, printing, schemas) ==
  CASE printing \in {"xml1", "xml2"} ->
         (IF input THEN {} ELSE {"allowed", "range"})
           \union (IF printing = "xml1" \/ ~HasKey(e.additional, "title") THEN {"param"} ELSE {})
           \union (IF printing = "xml1" /\ DOMAIN e.metadata \ Links # {} THEN {"about"} ELSE {})
           \union (IF \E m \in ToSet(e.supported) : Len(Get(m, "CRS", <<>>)) > 1 THEN {"crs"} ELSE {})
    [] printing = "json" ->
         {"first"}
           \union (IF HasKey(Default(e), "range") \/ (HasRange(Default(e)) /\ e.supported # <<>>)
                   THEN {"range"} ELSE {})
           \union (IF {"range", "rangeMin"} \intersect DOMAIN Default(e) # {} THEN {"allowed"} ELSE {})
           \union (IF "ogc-bbox" \in schemas THEN {"crs"} ELSE {})
           \union (IF Get(Default(e), "dataFormat", "") \in schemas THEN {"format"} ELSE {})

LostBetween(e, input, printing, schemas) ==
  LostWriting(e) \union LostPrinting(e, input, printing, schemas)

Side(s, input) == IF input THEN s.inputs ELSE s.outputs

ReadBack(i, input, printing, schemas) ==
  LET list == Side(svc[1], input)
  IN  CASE printing = "xml1" -> XmlSays(PrintFullDescription(list, input, 1)[i])
        [] printing = "xml2" -> XmlSays(PrintFullDescription(list, input, 2)[i])
        [] printing = "json" -> JsonSays(ElementsJ(list, input, schemas)[list[i].name])

\* Element i of the description is said as its author wrote it.
SaidAsWritten(i, input, printing, schemas) ==
  LET e    == Side(author, input)[i]
      said == ReadBack(i, input, printing, schemas)
      lost == LostBetween(e, input, printing, schemas)
  IN  {st \in AuthorSays(e, input) : st[1] \notin lost} = {st \in said : st[1] \notin lost}

\* The title and the version of the process.
SummaryAsWritten ==
  LET xml  == PrintGetCapabilitiesForProcess(svc[1], 2)
      json == PrintGetCapabilitiesForProcessJ(svc[1])
  IN  /\ xml.text = PrintDescription(author.name, author.content)
      /\ json.id = author.name /\ json.title = xml.text.title
      /\ json.version = xml.version /\ xml.version = Version(author.content["processVersion"], 2)

\* Whatever its author writes of a process, in a zcfg file, in YAML or in the
\* database, is what WPS and OGC API clients read, but for what one of the five
\* translations on the way cannot keep.
DescribedAsWritten ==
  svc # <<>> =>
    /\ SummaryAsWritten
    /\ \A input \in BOOLEAN :
         /\ Len(Side(svc[1], input)) = Len(Side(author, input))
         /\ \A i \in DOMAIN Side(author, input), printing \in Printings,
              schemas \in SUBSET {"ogc-bbox", "png"} :
              SaidAsWritten(i, input, printing, schemas)
=============================================================================
