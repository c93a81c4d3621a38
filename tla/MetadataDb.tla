----------------------------- MODULE MetadataDb -----------------------------
(***************************************************************************)
(* The metadata database (meta_sql.c): the rows of a process as they are   *)
(* when its author's description is stored, and the service that is read   *)
(* from them.  A column that is NULL reads as an empty string, and as <<>> *)
(* for AllowedValues.  The columns come in the order of the queries.       *)
(* Nested inputs and metadata, users and raw_schema are left out.          *)
(***************************************************************************)
EXTENDS Elements

\* What the queries select of a map, NULL for what it has not.
Empty(c) == IF c = "AllowedValues" THEN <<>> ELSE ""
Row(m, columns) == [c \in columns |-> Get(m, c, Empty(c))]

LiteralColumns == {"dataType", "value", "uom", "AllowedValues"}
FormatColumns  == {"mimeType", "encoding", "schema", "dataFormat"}
ProcessColumns == {"title", "abstract", "processVersion", "serviceType",
                   "serviceProvider", "confId", "mutable", "user_id"}
InputColumns   == {"title", "abstract", "minOccurs", "maxOccurs", "raw_schema"}
OutputColumns  == {"title", "abstract", "raw_schema"}
LinkColumns    == <<"title", "role", "href">>

\* Title, role and href, and the pairs of an additional parameter.
LinkRow(m) ==
  [ link  |-> Row(m, ToSet(LinkColumns)),
    pairs |-> [k \in DOMAIN m \ ToSet(LinkColumns) |-> m[k]] ]
LinkRows(m) == IF m = Null THEN <<>> ELSE <<LinkRow(m)>>

\* The default row first.
Domains(e, columns) ==
  [i \in DOMAIN (e.defaults \o e.supported) |->
     [ def  |-> IF i <= Len(e.defaults) THEN "1" ELSE "0",
       cols |-> Row((e.defaults \o e.supported)[i], columns) ]]

IoRow(e, columns) ==
  [ identifier |-> e.name, cols |-> Row(e.content, columns),
    metadata |-> LinkRows(e.metadata), params |-> LinkRows(e.additional),
    literal  |-> IF e.format \in {"LiteralData", "LiteralOutput"}
                 THEN Domains(e, LiteralColumns) ELSE <<>>,
    formats  |-> IF e.format \in {"ComplexData", "ComplexOutput"}
                 THEN Domains(e, FormatColumns) ELSE <<>>,
    bbox     |-> e.format \in {"BoundingBoxData", "BoundingBoxOutput"} ]

ProcessRow(s) ==
  [ identifier |-> s.name, cols |-> Row(s.content, ProcessColumns),
    metadata |-> LinkRows(s.metadata), params |-> LinkRows(s.additional),
    inputs   |-> [i \in DOMAIN s.inputs |-> IoRow(s.inputs[i], InputColumns)],
    outputs  |-> [i \in DOMAIN s.outputs |-> IoRow(s.outputs[i], OutputColumns)] ]

-----------------------------------------------------------------------------
\* The columns that are not empty; a map that is NULL when all are.
GetIoType(cols) == [f \in {f \in DOMAIN cols : cols[f] # Empty(f)} |-> cols[f]]

\* The first value that is not empty makes the map, the others are of an array.
Link(m, k, i, v, first) ==
  CASE v = ""              -> m
    [] v # "" /\ m = Null  -> k :> v @@ first
    [] OTHER               -> SetMapArray(m, k, i, v)

LinkFields(m, i, link, first) ==
  FoldLeft(LAMBDA out, k : Link(out, k, i, link[k], first), m, LinkColumns)

FillMetadata(rows) ==
  FoldLeft(LAMBDA m, i : LinkFields(m, i - 1, rows[i].link, Null), Null,
           [i \in DOMAIN rows |-> i])

\* The pairs are lost as long as there is no title, role or href.
FillAdditionalParameters(rows) ==
  FoldLeft(LAMBDA m, i :
             LET out == LinkFields(m, i - 1, rows[i].link, "fromDb" :> "true")
             IN  IF out = Null THEN Null ELSE AddMapToMap(out, rows[i].pairs),
           Null, [i \in DOMAIN rows |-> i])

\* The default row is the default, the others are supported in their order.
Distribute(e, rows, format, read) ==
  LET Reading(def) == [k \in DOMAIN SelectSeq(rows, LAMBDA r : (r.def = "1") = def) |->
                         read[SelectSeq(rows, LAMBDA r : (r.def = "1") = def)[k]]]
  IN  [ e EXCEPT !.format    = IF rows = <<>> THEN @ ELSE format,
                 !.defaults  = IF Reading(TRUE) = <<>> THEN <<>> ELSE <<Last(Reading(TRUE))>>,
                 !.supported = Reading(FALSE) ]

FillLiteralData(e, rows) ==
  Distribute(e, rows, "LiteralData", [row \in ToSet(rows) |-> GetIoType(row.cols)])

\* The column of the encoding goes into the key "ecoding", the one that tells
\* defaults into a key without name.
Renamed(cols) ==
  [k \in (DOMAIN cols \ {"encoding"}) \union {"ecoding"} |->
     cols[IF k = "ecoding" THEN "encoding" ELSE k]]

FillComplexData(e, rows) ==
  Distribute(e, rows, "ComplexData",
             [row \in ToSet(rows) |-> GetIoType(Renamed(row.cols)) @@ "" :> row.def])

\* A bounding box has no coordinate reference system in the database.
FillBoundingBoxData(e, bbox) == IF bbox THEN [e EXCEPT !.format = "BoundingBoxData"] ELSE e

Extracted(row) ==
  [ CreateElements(row.identifier) EXCEPT
      !.content = row.cols, !.metadata = FillMetadata(row.metadata),
      !.additional = FillAdditionalParameters(row.params) ]

\* What is no literal may be complex, or else a bounding box.
ExtractInput(row) ==
  CASE row.literal # <<>> -> FillLiteralData(Extracted(row), row.literal)
    [] row.literal = <<>> /\ row.formats # <<>> -> FillComplexData(Extracted(row), row.formats)
    [] OTHER -> FillBoundingBoxData(Extracted(row), row.bbox)

\* Outputs are never a bounding box.
ExtractOutput(row) ==
  IF row.literal # <<>> THEN FillLiteralData(Extracted(row), row.literal)
  ELSE FillComplexData(Extracted(row), row.formats)

\* A list of processes reads neither inputs nor outputs.
ExtractServiceFromDb(row, minimal) ==
  [ name |-> row.identifier, content |-> row.cols @@ "fromDb" :> "true",
    metadata   |-> FillMetadata(row.metadata),
    additional |-> FillAdditionalParameters(row.params),
    inputs  |-> IF minimal THEN <<>>
                ELSE DupElements([i \in DOMAIN row.inputs |-> ExtractInput(row.inputs[i])]),
    outputs |-> IF minimal THEN <<>>
                ELSE DupElements([i \in DOMAIN row.outputs |-> ExtractOutput(row.outputs[i])]) ]
=============================================================================
