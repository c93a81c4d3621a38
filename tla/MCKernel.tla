------------------------------ MODULE MCKernel ------------------------------
(***************************************************************************)
(* The kernel with small catalogues, descriptions of every kind of element *)
(* and a few jobs.                                                         *)
(***************************************************************************)
EXTENDS Kernel

\* Catalogues: a few services in each place the kernel looks at, and every combination
\* of the options that change where it looks.
Here == [cwd |-> << <<"a">>, <<"sub", "a">>, <<"h">> >>,
         main |-> << <<"a">>, <<"b">> >>,
         ns |-> << <<"sub", "b">>, <<"a">> >>,
         ext |-> << <<"i">> >>]

NoProfiles == [l \in {"concept", "generic", "implementation"} |-> <<>>]

Plain ==
  [ dirs |-> Here, servicePath |-> FALSE, searchPath |-> FALSE, namespace |-> FALSE,
    imports |-> Null, rows |-> << <<"c">> >>, hidden |-> {"h"},
    registry |-> "none", profiles |-> NoProfiles, services |-> Null ]

Imports1 == [i |-> <<"ext", <<"i">>>>, a |-> <<"cwd", <<"a">>>>]

Places ==
  { [Plain EXCEPT !.servicePath = sp, !.searchPath = se, !.namespace = ns, !.imports = im] :
      sp \in BOOLEAN, se \in BOOLEAN, ns \in BOOLEAN, im \in {Null, Imports1} }

\* Identifiers that stand for more than one service.
Doubles ==
  { [Plain EXCEPT !.rows = << <<"a">>, <<"sub", "a">>, <<"i">> >>, !.imports = Imports1],
    [Plain EXCEPT !.dirs.cwd = << <<"a">>, <<"A">> >>],
    [Plain EXCEPT !.rows = << <<"a">> >>],
    [Plain EXCEPT !.imports = [b |-> <<"ns", <<"sub", "b">>>>], !.namespace = TRUE] }

\* Services that inherit from a profile, with and without content of their own.
Profile(name, ins) ==
  [CreateService EXCEPT !.name = name, !.content = [title |-> name], !.inputs = ins]
Heir == [CreateService EXCEPT !.name = "a",
           !.content = [title |-> "a", extend |-> "p", level |-> "profile"]]
Bare == [Profile("p", <<CreateElements("x")>>) EXCEPT !.content = Null]

Families ==
  { [Plain EXCEPT !.registry = "missing"],
    [Plain EXCEPT !.registry = "there"],
    [Plain EXCEPT !.registry = "there", !.namespace = TRUE, !.searchPath = TRUE,
       !.profiles = [@ EXCEPT !["concept"] = <<Bare>>]],
    [Plain EXCEPT !.registry = "there", !.services = <<"cwd", <<"a">>>> :> Heir,
       !.profiles = [@ EXCEPT !["generic"] = <<Profile("p", <<>>)>>]],
    [Plain EXCEPT !.registry = "there", !.services = <<"cwd", <<"a">>>> :> Heir,
       !.profiles = [@ EXCEPT !["generic"] = <<Bare>>, !["concept"] = <<Bare>>]],
    [Plain EXCEPT !.registry = "there",
       !.profiles = [@ EXCEPT !["generic"] = <<Profile("p", <<>>)>>,
                              !["implementation"] = <<Heir>>]] }

MyCatalogues == Places \union Doubles \union Families
MyLimits == {-1, 1, 2}

-----------------------------------------------------------------------------
\* Services as their authors describe them: one element of every kind the readers and
\* the printers tell apart.
About(title) == [title |-> title, abstract |-> "text"]
Once(title)  == [title |-> title, abstract |-> "text", minOccurs |-> "1", maxOccurs |-> "1"]

Element(name, content, kind, defaults, supported) ==
  [ CreateElements(name) EXCEPT !.content = content, !.format = kind,
                                !.defaults = <<defaults>>, !.supported = supported ]

Literal(name, defaults, supported) ==
  Element(name, Once(name), "LiteralData", defaults, supported)

Allowed  == Literal("allowed", [dataType |-> "string", value |-> "a",
                                AllowedValues |-> <<"a", "b">>], <<>>)
Between  == Literal("interval", [dataType |-> "integer", value |-> "3",
                                 range |-> [left |-> "]", min |-> "1", max |-> "5", right |-> "]"]],
                    <<>>)
HalfOpen == Literal("halfOpen", [dataType |-> "float", rangeMin |-> "1", rangeMax |-> "5",
                                 rangeClosure |-> "co"], <<>>)
Ranges   == Literal("ranges", [dataType |-> "integer", rangeMin |-> "1", rangeMax |-> "3"],
                    << [rangeMin |-> "5", rangeMax |-> "7", rangeClosure |-> "o"],
                       [rangeMin |-> "8", rangeMax |-> "9", rangeClosure |-> "oc"] >>)
Flag     == [Literal("flag", [dataType |-> "boolean", value |-> "true"], <<>>) EXCEPT
               !.content = [minOccurs |-> "0", maxOccurs |-> "unbounded"] @@ @]
Day      == [Literal("day", [dataType |-> "date"], <<>>) EXCEPT
               !.content = [minOccurs |-> "1", maxOccurs |-> "3"] @@ @,
               !.metadata = [title |-> "days"],
               !.additional = [title |-> "more", key |-> "value"]]

Free     == Literal("free", Null, <<>>)

Complex(name, defaults, supported) ==
  Element(name, Once(name), "ComplexData", defaults, supported)

Image    == Complex("image", [mimeType |-> "image/tiff", encoding |-> "binary"],
                    << [mimeType |-> "image/png"], [mimeType |-> "image/jpeg"] >>)
Features == [Complex("features", [mimeType |-> "application/json", schema |-> "feature"],
                     << [mimeType |-> "text/xml", schema |-> "gml"] >>) EXCEPT
               !.additional = [role |-> "help", key |-> "value"]]
Alone    == [Complex("alone", [mimeType |-> "image/png", dataFormat |-> "png"], <<>>) EXCEPT
               !.metadata = [title |-> "image", key |-> "value"]]

Box      == [Element("box", Once("box"), "BoundingBoxData", [CRS |-> <<"4326">>],
                     << [CRS |-> <<"4326">>], [CRS |-> <<"3857">>] >>) EXCEPT
               !.metadata = [title |-> "area"]]
Boxes    == Element("boxes", Once("boxes"), "BoundingBoxData", [CRS |-> <<"4326">>],
                    << [CRS |-> <<"3857", "3035">>] >>)

Number   == Element("number", About("number"), "LiteralOutput",
                    [dataType |-> "float", rangeMin |-> "0", AllowedValues |-> <<"1">>], <<>>)
Result   == Element("result", About("result"), "ComplexOutput", [mimeType |-> "image/png"],
                    << [mimeType |-> "image/tiff"] >>)
Extent   == Element("extent", About("extent"), "BoundingBoxOutput", [CRS |-> <<"4326">>],
                    << [CRS |-> <<"4326">>] >>)

Service(name, ins, outs) ==
  [ CreateService EXCEPT !.name = name, !.inputs = ins, !.outputs = outs,
      !.content = [title |-> name, abstract |-> "text", processVersion |-> "2",
                   serviceType |-> "C", serviceProvider |-> "lib"] ]

MySamples ==
  { Service("literals", <<Allowed, Between, HalfOpen>>, <<Number>>),
    Service("values", <<Ranges, Flag, Day>>, <<Number>>),
    Service("files", <<Image, Features, Alone>>, <<Result>>),
    Service("places", <<Box, Free, Boxes>>, <<Extent, Result>>),
    Service("bare", <<>>, <<Result>>) }

-----------------------------------------------------------------------------
\* A few jobs of each kind the filters tell apart.
Job(id, process, state, created, updated) ==
  [ id |-> id, process |-> process, status |-> state, created |-> created, updated |-> updated,
    ended |-> state # "Running", type |-> "json", user |-> "nobody", lenv |-> "whole" ]

Done    == Job(1, "p", "Succeeded", 1, 3)
Failing == Job(2, "q", "Failed", 2, 3)
Going   == Job(3, "p", "Running", 3, 3)

Mixed == << Done, [Failing EXCEPT !.user = "other"], [Going EXCEPT !.type = "xml", !.lenv = "none"] >>
Owned == << [Done EXCEPT !.user = "me"], [Failing EXCEPT !.lenv = "bare"] >>

MyJobSets ==
  [ build : {"db", "files"}, user : {"me", "nobody"},
    list : {<<>>, <<Done, Failing, Going>>, Mixed, Owned, <<Done, Failing, Going, Job(4, "q", "Running", 1, 3)>>} ]

MyFilters ==
  { NoFilter,
    [NoFilter EXCEPT !.processid = <<"p">>],
    [NoFilter EXCEPT !.processid = <<"p", "q">>, !.type = <<"process">>],
    [NoFilter EXCEPT !.status = <<"successful", "running">>],
    [NoFilter EXCEPT !.status = <<"dismissed">>],
    [NoFilter EXCEPT !.processid = <<"q", "p", "r">>, !.status = <<"failed">>],
    [NoFilter EXCEPT !.minDuration = <<2, 1>>],
    [NoFilter EXCEPT !.minDuration = <<1>>, !.maxDuration = <<1>>],
    [NoFilter EXCEPT !.datetime = << <<1, 2>> >>],
    [NoFilter EXCEPT !.datetime = << <<1, 2>>, <<2, OpenEnd>> >>, !.maxDuration = <<2>>] }

MyPageLimits == {-1, 1, 2}
=============================================================================
