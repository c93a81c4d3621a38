---------------------------- MODULE ProcessSearch ----------------------------
(***************************************************************************)
(* How the kernel finds services: the directories of zcfg files, the       *)
(* imports of main.cfg and the rows of the metadata database are listed    *)
(* (GetCapabilities, /processes), searched for one description and         *)
(* searched for an execution, by three pieces of code.  Services are       *)
(* deployed and undeployed meanwhile.                                      *)
(*                                                                         *)
(* An identifier is a sequence of names: the directories below the one     *)
(* that is searched, and the name of the file.  A service is a pair of a   *)
(* directory, "db" for the database, and an identifier.                    *)
(***************************************************************************)
EXTENDS Registry, FiniteSets

CONSTANTS
  Catalogues,  \* the configurations and what is deployed under them
  Limits,      \* the limits a client of /processes asks for
  MaxTouched   \* how many services are deployed or undeployed meanwhile

NoLimit == -1

\* Identifiers that differ, as the files of a directory or the rows a user sees.
Different(ids) ==
  /\ ids \in Seq(ToSet(ids))
  /\ \A i, k \in DOMAIN ids : ids[i] = ids[k] => i = k
  /\ \A i \in DOMAIN ids : ids[i] \in Seq(ToSet(ids[i])) /\ ids[i] # <<>>

\* The imports are files, each under its own name; limitParam of oas.cfg begins with 1.
ASSUME CatalogueAssumption ==
  /\ \A c \in Catalogues :
       /\ {"cwd", "main", "ns"} \subseteq DOMAIN c.dirs /\ "db" \notin DOMAIN c.dirs
       /\ \A dir \in DOMAIN c.dirs : Different(c.dirs[dir])
       /\ Different(c.rows)
       /\ IsFiniteSet(DOMAIN c.imports)
       /\ \A n \in DOMAIN c.imports : \E dir \in DOMAIN c.dirs :
            \E id \in ToSet(c.dirs[dir]) : c.imports[n] = <<dir, id>> /\ Last(id) = n
  /\ Limits \subseteq (Nat \ {0}) \union {NoLimit}

VARIABLES
  cat,        \* << >>, and then the catalogue
  gone,       \* the services that are not there at the moment
  touched,    \* those that were deployed or undeployed
  asked,      \* the request being served
  registry,   \* the registry made for it
  left,       \* what is left to do for it
  cnt,        \* lenv.serviceCnt
  more,       \* lenv.serviceCntNext
  shown,      \* the services in the document
  events,     \* what became of the request
  listed,     \* the services in the pages read so far
  described,  \* what was described
  ran         \* what is to run

catVars == <<cat, gone, touched, asked, registry, left, cnt, more, shown, events, listed, described, ran>>

NoRequest == [op |-> "none", protocol |-> "none", id |-> <<>>, skip |-> 0, limit |-> NoLimit]

\* No registry, and one that was freed.
NoRegistry == [ends |-> TRUE, registry |-> <<>>]
Freed      == [ends |-> FALSE, registry |-> <<>>]

Closed ==
  /\ cat = Null /\ gone = {} /\ touched = {}
  /\ asked = NoRequest /\ registry = NoRegistry /\ left = <<>> /\ cnt = 0 /\ more = FALSE
  /\ shown = <<>> /\ events = <<>> /\ listed = <<>> /\ described = <<>> /\ ran = <<>>

-----------------------------------------------------------------------------
\* The directories: the working directory, main.servicePath and the namespace of the
\* client.
ConfDir == IF cat.servicePath THEN "main" ELSE "cwd"
GetServicesNamespacePath(dir) == IF cat.namespace THEN "ns" ELSE dir

In(dir) == [i \in DOMAIN cat.dirs[dir] |-> <<dir, cat.dirs[dir][i]>>]
Present(list) == ItemsAt(list, {i \in DOMAIN list : list[i] \notin gone})
DbRow(id) == <<"db", id>>
Rows == [i \in DOMAIN cat.rows |-> DbRow(cat.rows[i])]
IsThere(s) == s \notin gone /\ (s[1] # "db" => s[2] \in ToSet(cat.dirs[s[1]]))
HasRow(id) == id \in ToSet(cat.rows) /\ DbRow(id) \notin gone

Deployed == (UNION {ToSet(In(dir)) : dir \in DOMAIN cat.dirs}) \union ToSet(Rows)

\* Names that differ in the case of their letters only.
Fold(name) == IF name = "A" THEN "a" ELSE name
SameName(a, b) == Fold(a) = Fold(b)

\* The imports of main.cfg, by the name of the service.
Imported(id) == Len(id) = 1 /\ id[1] \in DOMAIN cat.imports
IsImport(s) == Imported(<<Last(s[2])>>) /\ cat.imports[Last(s[2])] = s

\* The providers of the deployment services and those an administrator hides.
ServiceIsFilter(s) == Last(s[2]) \in cat.hidden

AddPrefix(directories, name) == Append(directories, name)

\* The identifier a service is listed with.
ListedAs(s) ==
  IF IsImport(s) THEN <<Last(s[2])>> ELSE AddPrefix(Front(s[2]), Last(s[2]))

\* The registry is only handed on by WPS requests and for an execution.
Inherits(s) ==
  asked.protocol = "wps" \/ asked.op = "execute" =>
    Inheritance(registry.registry, Get(cat.services, s, CreateService)).ends

-----------------------------------------------------------------------------
\* fetchServicesForDescription, fetchService: the namespace, and then the directory
\* when main.search_path says so.  Only the last failure is told.
Searches(do, dir) ==
  LET ns == GetServicesNamespacePath(dir)
  IN  IF cat.searchPath /\ ns # dir
      THEN << [do |-> do, dir |-> ns, last |-> FALSE], [do |-> do, dir |-> dir, last |-> TRUE] >>
      ELSE << [do |-> do, dir |-> ns, last |-> TRUE] >>

\* recursReaddirF: the directory first, and then the namespace.  A failure in the
\* directory is never told, even when nothing else is read.
RecursReaddirF(dir) ==
  LET ns == GetServicesNamespacePath(dir)
  IN  IF cat.searchPath
      THEN << [do |-> "open", dir |-> dir, last |-> FALSE] >>
             \o (IF ns # dir THEN << [do |-> "open", dir |-> ns, last |-> TRUE] >> ELSE <<>>)
      ELSE << [do |-> "open", dir |-> ns, last |-> TRUE] >>

Imports == [i \in 1..Cardinality(DOMAIN cat.imports) |->
              [do |-> "import", of |-> cat.imports[SetToSeq(DOMAIN cat.imports)[i]]]]
Query    == [do |-> "query"]
PrintOut == [do |-> "document"]

\* A request: the registry is made first, whatever is asked for.
Serve(request, tasks) ==
  /\ asked' = request /\ registry' = NoRegistry
  /\ left' = << [do |-> "registry"] >> \o tasks
  /\ shown' = <<>> /\ cnt' = 0 /\ more' = FALSE /\ events' = <<>>
  /\ UNCHANGED <<cat, gone>>

Ready0 == cat # Null /\ left = <<>>

GetCapabilities ==
  /\ Ready0 /\ asked = NoRequest
  /\ Serve([NoRequest EXCEPT !.op = "list", !.protocol = "wps"],
           Imports \o RecursReaddirF(GetServicesNamespacePath(ConfDir)) \o <<Query, PrintOut>>)
  /\ UNCHANGED <<touched, listed, described, ran>>

\* DescribeProcess with the identifier all walks through one directory only.
DescribeAll ==
  /\ Ready0 /\ asked = NoRequest
  /\ Serve([NoRequest EXCEPT !.op = "all", !.protocol = "wps"],
           Imports \o << [do |-> "open", dir |-> GetServicesNamespacePath(ConfDir), last |-> TRUE] >>
             \o <<Query, PrintOut>>)
  /\ UNCHANGED <<touched, listed, described, ran>>

\* /processes looks into the working directory, and does not list the imports.
ListProcesses(skip, limit) ==
  /\ Ready0
  /\ Serve([NoRequest EXCEPT !.op = "list", !.protocol = "ogc", !.skip = skip, !.limit = limit],
           RecursReaddirF("cwd") \o <<Query, PrintOut>>)
  /\ UNCHANGED <<touched, listed, described, ran>>

FirstPage == \E limit \in Limits : asked = NoRequest /\ ListProcesses(0, limit)

\* The next link of createNextLinks.
NextPage ==
  /\ asked.op = "list" /\ more /\ events = <<"document">>
  /\ ListProcesses(asked.skip + asked.limit, asked.limit)

Describe(protocol, id) ==
  /\ Ready0 /\ ~more
  /\ asked = NoRequest \/ (asked.op = "list" /\ asked.protocol = protocol)
  /\ Serve([NoRequest EXCEPT !.op = "describe", !.protocol = protocol, !.id = id],
           Searches("lookup", IF protocol = "wps" THEN GetServicesNamespacePath(ConfDir)
                              ELSE ConfDir))
  /\ UNCHANGED <<touched, listed, described, ran>>

Execute ==
  /\ Ready0 /\ asked.op = "describe"
  /\ Serve([asked EXCEPT !.op = "execute"], Searches("fetch", ConfDir))
  /\ UNCHANGED <<touched, listed, described, ran>>

-----------------------------------------------------------------------------
Task(do) == cat # Null /\ left # <<>> /\ Head(left).do = do

Say(event) == events' = Append(events, event)
Silently   == UNCHANGED events

\* The process dies, or never ends.
Die == Say("died") /\ left' = <<>> /\ UNCHANGED <<cnt, more, shown>>

sessionVars == <<cat, gone, touched, asked, registry, listed, described, ran>>

MakeRegistry ==
  /\ Task("registry")
  /\ registry' = IF cat.registry = "there" THEN CreateRegistry(cat.profiles) ELSE NoRegistry
  /\ events' = CASE cat.registry = "missing" -> <<"exception">>
                 [] ~registry'.ends -> <<"died">>
                 [] OTHER -> <<>>
  /\ left' = IF events' = <<>> THEN Tail(left) ELSE <<>>
  /\ UNCHANGED <<cat, gone, touched, asked, cnt, more, shown, listed, described, ran>>

\* printGetCapabilitiesForProcess and its JSON counterpart.
Show(s) ==
  shown' = IF asked.protocol = "ogc" /\ ServiceIsFilter(s) THEN shown ELSE Append(shown, s)

\* The imports come first; one that cannot be read is left out.
ReadImport ==
  /\ Task("import")
  /\ LET s == Head(left).of
     IN  IF IsThere(s) /\ ~Inherits(s) THEN Die
         ELSE /\ IF IsThere(s) THEN Show(s) ELSE UNCHANGED shown
              /\ left' = Tail(left)
              /\ UNCHANGED <<events, cnt, more>>
  /\ UNCHANGED sessionVars

OpenDirectory ==
  /\ Task("open")
  /\ left' = << [do |-> "walk", last |-> Head(left).last,
                 entries |-> Present(In(Head(left).dir))] >> \o Tail(left)
  /\ UNCHANGED <<sessionVars, cnt, more, shown, events>>

\* Mutant: the process at the limit's edge is passed over.
PastSkip(n, skip, limit) == limit = NoLimit \/ (n > skip /\ n < limit + skip)

CompareCnt(n, skip, limit) == limit = NoLimit \/ (n >= skip /\ n < limit + skip)
InPage == CompareCnt(cnt, asked.skip, asked.limit)

UpdateCnt(s) == IF ServiceIsFilter(s) THEN cnt ELSE cnt + 1

\* One entry of readdir: an imported file is passed over, one beyond the page is
\* only counted.
ReadEntry ==
  /\ Task("walk") /\ Head(left).entries # <<>>
  /\ LET task == Head(left)
         s    == Head(task.entries)
         next == << [task EXCEPT !.entries = Tail(@)] >> \o Tail(left)
         count == /\ cnt' = UpdateCnt(s)
                  /\ more' = (more \/ (asked.limit # NoLimit /\ cnt' = asked.limit + asked.skip))
     IN  CASE IsImport(s) ->
                left' = next /\ UNCHANGED <<cnt, more, shown, events>>
           [] ~IsImport(s) /\ ~InPage ->
                left' = next /\ count /\ UNCHANGED <<shown, events>>
           [] ~IsImport(s) /\ InPage /\ s \in gone ->
                /\ Say(IF task.last THEN "exception" ELSE "cut")
                /\ left' = IF asked.op = "all" \/ (asked.protocol = "wps" /\ ~cat.searchPath)
                           THEN <<>> ELSE Tail(left)
                /\ UNCHANGED <<cnt, more, shown>>
           [] ~IsImport(s) /\ InPage /\ s \notin gone ->
                IF Inherits(s) THEN left' = next /\ count /\ Show(s) /\ Silently ELSE Die
  /\ UNCHANGED sessionVars

\* fetchServicesFromDb: the rows are not counted while they are printed, a page has
\* all of them or none.  A row that went away meanwhile is printed from NULL.
QueryRows ==
  /\ Task("query")
  /\ left' = << [do |-> "rows", entries |-> Present(Rows)] >> \o Tail(left)
  /\ UNCHANGED <<sessionVars, cnt, more, shown, events>>

ReadRow ==
  /\ Task("rows") /\ Head(left).entries # <<>>
  /\ LET s == Head(Head(left).entries)
     IN  IF InPage /\ s \in gone THEN Die
         ELSE /\ IF InPage THEN Show(s) ELSE UNCHANGED shown
              /\ left' = << [Head(left) EXCEPT !.entries = Tail(@)] >> \o Tail(left)
              /\ UNCHANGED <<cnt, more, events>>
  /\ UNCHANGED sessionVars

EndOfList ==
  /\ Task("walk") \/ Task("rows")
  /\ Head(left).entries = <<>>
  /\ left' = Tail(left)
  /\ UNCHANGED <<sessionVars, cnt, more, shown, events>>

PrintDocument ==
  /\ Task("document")
  /\ Say("document")
  /\ left' = <<>>
  /\ listed' = IF asked.op = "describe" THEN listed ELSE listed \o shown
  /\ described' = IF asked.op = "describe" THEN shown ELSE described
  /\ UNCHANGED <<cat, gone, touched, asked, registry, cnt, more, shown, ran>>

-----------------------------------------------------------------------------
\* Nothing in this directory: the other one is searched, or the client is told.
NotFound(last) ==
  /\ IF last THEN Say("exception") ELSE Silently
  /\ left' = Tail(left)
  /\ UNCHANGED <<cnt, more, shown>>

\* In JSON a second description takes the place of the first.
DescribeIt(s, tasks) ==
  IF ~Inherits(s) THEN Die
  ELSE /\ shown' = CASE asked.protocol = "wps" -> Append(shown, s)
                     [] asked.protocol = "ogc" /\ ServiceIsFilter(s) -> shown
                     [] asked.protocol = "ogc" /\ ~ServiceIsFilter(s) -> <<s>>
       /\ left' = tasks
       /\ UNCHANGED <<events, cnt, more>>

\* The files of that name, whatever the case of its letters.
FilesNamed(dir, id) ==
  ItemsAt(In(dir), {i \in DOMAIN In(dir) :
                      LET s == In(dir)[i]
                      IN  s \notin gone /\ Len(s[2]) = 1 /\ SameName(s[2][1], id[1])})

\* _fetchServicesForDescription: the file of an import, unless the database has it; the
\* file of an identifier with directories; or the database and then every file of that
\* name, whatever the case of its letters.
Lookup ==
  /\ Task("lookup")
  /\ LET id  == asked.id
         dir == Head(left).dir
         file == IF Imported(id) THEN cat.imports[id[1]] ELSE <<dir, id>>
     IN  CASE Imported(id) /\ HasRow(id) -> NotFound(Head(left).last)
           [] (Imported(id) /\ ~HasRow(id)) \/ (~Imported(id) /\ Len(id) > 1) ->
                IF IsThere(file) THEN DescribeIt(file, <<PrintOut>>) ELSE NotFound(Head(left).last)
           [] ~Imported(id) /\ Len(id) = 1 /\ HasRow(id) -> DescribeIt(DbRow(id), <<PrintOut>>)
           [] ~Imported(id) /\ Len(id) = 1 /\ ~HasRow(id) ->
                /\ left' = << [do |-> "match", last |-> Head(left).last, hit |-> FALSE,
                               entries |-> FilesNamed(dir, id)] >> \o Tail(left)
                /\ UNCHANGED <<events, cnt, more, shown>>
  /\ UNCHANGED sessionVars

Match ==
  /\ Task("match")
  /\ LET task == Head(left)
         s    == Head(task.entries)
     IN  CASE task.entries = <<>> /\ task.hit ->
                left' = <<PrintOut>> /\ UNCHANGED <<events, cnt, more, shown>>
           [] (task.entries = <<>> /\ ~task.hit) \/ (task.entries # <<>> /\ s \in gone) ->
                NotFound(task.last)
           [] task.entries # <<>> /\ s \notin gone ->
                DescribeIt(s, << [task EXCEPT !.entries = Tail(@), !.hit = TRUE] >> \o Tail(left))
  /\ UNCHANGED sessionVars

\* Mutant: the files before the database.
FindFileFirst(dir, id) ==
  LET file == IF Imported(id) THEN cat.imports[id[1]] ELSE <<dir, id>>
  IN  IF IsThere(file) \/ ~HasRow(id) THEN file ELSE DbRow(id)

\* _fetchService: the database, and then the one file of the import or of the identifier.
\* It frees the registry, which the second search uses.
Find(dir, id) ==
  CASE HasRow(id) -> DbRow(id)
    [] ~HasRow(id) /\ Imported(id) -> cat.imports[id[1]]
    [] OTHER -> <<dir, id>>

Fetch ==
  /\ Task("fetch")
  /\ LET s == Find(Head(left).dir, asked.id)
     IN  \/ ~IsThere(s) /\ NotFound(Head(left).last) /\ UNCHANGED ran
         \/ IsThere(s) /\ registry # Freed /\ Inherits(s)
            /\ ran' = <<s>> /\ left' = <<>>
            /\ UNCHANGED <<events, cnt, more, shown>>
         \/ IsThere(s) /\ (registry = Freed \/ ~Inherits(s)) /\ Die /\ UNCHANGED ran
  /\ registry' = IF registry.registry = <<>> THEN registry ELSE Freed
  /\ UNCHANGED <<cat, gone, touched, asked, listed, described>>

-----------------------------------------------------------------------------
\* The request has become something else.
CloseCatalogue ==
  /\ cat' = Null /\ gone' = {} /\ touched' = {}
  /\ asked' = NoRequest /\ registry' = NoRegistry /\ left' = <<>> /\ cnt' = 0 /\ more' = FALSE
  /\ shown' = <<>> /\ events' = <<>> /\ listed' = <<>> /\ described' = <<>> /\ ran' = <<>>

OpenCatalogue(c) ==
  /\ cat = Null /\ cat' = c
  /\ UNCHANGED <<gone, touched, asked, registry, left, cnt, more, shown, events, listed, described, ran>>

\* A service is deployed or undeployed by another process.
DeployOrUndeploy ==
  /\ cat # Null /\ asked # NoRequest /\ ran = <<>>
  /\ \E s \in Deployed :
       /\ touched' = touched \union {s}
       /\ Cardinality(touched') <= MaxTouched
       /\ gone' = IF s \in gone THEN gone \ {s} ELSE gone \union {s}
  /\ UNCHANGED <<cat, asked, registry, left, cnt, more, shown, events, listed, described, ran>>

Identifiers == {s[2] : s \in Deployed} \union {<<"A">>}

ServeCatalogue ==
  \/ GetCapabilities \/ DescribeAll \/ FirstPage \/ NextPage
  \/ \E protocol \in {"wps", "ogc"} : cat # Null /\ \E id \in Identifiers : Describe(protocol, id)
  \/ Execute
  \/ MakeRegistry \/ ReadImport \/ OpenDirectory \/ ReadEntry \/ QueryRows \/ ReadRow \/ EndOfList
  \/ PrintDocument
  \/ Lookup \/ Match \/ Fetch
  \/ DeployOrUndeploy

-----------------------------------------------------------------------------
\* What a list is about: the directories it walks through but for the imported files,
\* the imports in WPS, and the rows.
Walked ==
  LET dir == IF asked.protocol = "wps" THEN GetServicesNamespacePath(ConfDir) ELSE "cwd"
      dirs == {GetServicesNamespacePath(dir)}
                \union (IF cat.searchPath /\ asked.op = "list" THEN {dir} ELSE {})
  IN  {s \in UNION {ToSet(In(d)) : d \in dirs} : ~IsImport(s)}

Listable ==
  {s \in Walked \union ToSet(Rows)
           \union (IF asked.protocol = "wps" THEN {cat.imports[n] : n \in DOMAIN cat.imports} ELSE {}) :
     asked.protocol = "ogc" => ~ServiceIsFilter(s)}

\* A list that reached its end.
Listed ==
  /\ cat # Null /\ asked.op \in {"list", "all"} /\ left = <<>>
  /\ events = <<"document">> /\ ~more

Occurrences(s) == Cardinality({i \in DOMAIN listed : listed[i] = s})

\* A client that reads a list, in one answer or along its next links, finds every
\* service once, wherever it is deployed; what is deployed or undeployed meanwhile
\* does not keep another one from being listed in one answer, though it may between
\* two pages.  The rows have to fall into the last page, imports to be left out of a
\* walk that meets their files, and a walk that is cut short to be told; it is not
\* in the directory that search_path adds.
ListedOnce ==
  Listed =>
    /\ ToSet(listed) \subseteq Listable
    /\ \A s \in Listable \ touched :
         touched = {} \/ asked.limit = NoLimit => Occurrences(s) = 1

\* One identifier stands for two services.
Ambiguous(id) ==
  \/ \E s \in Deployed : Len(s[2]) = 1 /\ Len(id) = 1 /\ s[2] # id /\ SameName(s[2][1], id[1])
  \/ Len(id) > 1 /\ id \in ToSet(cat.rows)
  \/ Imported(id) /\ id \in ToSet(cat.rows)

\* DescribeProcess only looks into the namespace.
Unseen == asked.protocol = "wps" /\ cat.searchPath /\ cat.namespace

Hidden(id) == asked.protocol = "ogc" /\ Last(id) \in cat.hidden

\* What was asked for has been looked for, and nothing was deployed meanwhile.
Settled(op) == cat # Null /\ asked.op = op /\ left = <<>> /\ touched = {} /\ "died" \notin ToSet(events)
                 /\ cat.registry # "missing"

\* The service that runs is the one that was described, and the one described was
\* listed with that identifier, though three functions search for it, each in its
\* own order.  Identifiers that differ in case, those of the database that name
\* directories or imports, are resolved in different ways; with servicePath
\* /processes lists another directory; it does not list imports, not even the file
\* of one that is asked for by its own place.
RunsWhatIsDescribed ==
  /\ Settled("execute") /\ ~Ambiguous(asked.id) /\ ~Hidden(asked.id) =>
       described = ran \/ (described = <<>> /\ Unseen)
  /\ Settled("describe") /\ ~Ambiguous(asked.id) /\ ~Hidden(asked.id) /\ listed # <<>>
       /\ ~(asked.protocol = "ogc" /\ (cat.servicePath \/ Imported(<<Last(asked.id)>>))) =>
       /\ ToSet(described) \subseteq ToSet(listed)
       /\ (\E s \in ToSet(listed) : ListedAs(s) = asked.id) => described # <<>>
=============================================================================
