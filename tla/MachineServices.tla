-------------------------- MODULE MachineServices ---------------------------
(***************************************************************************)
(* The supports of the languages that have a runtime of their own to start *)
(* and to end: the virtual machines of Java and Mono, where classes and    *)
(* methods are looked up by name before the maps are handed over and what  *)
(* is not found is told in two different ways, and JavaScript, with        *)
(* SpiderMonkey for serviceType JS, where the service returns conf and     *)
(* outputs, and Node.js, where it writes to its arguments.                 *)
(***************************************************************************)
EXTENDS ServiceState

\* displayStack tells what the virtual machine wrote of its exception, or that
\* there is nothing to tell.
DisplayStack == Refuse

\* A virtual machine that does not start with the options of main.cfg: -1, and
\* nobody tells the client.
JavaStart ==
  /\ At("JAVA", "load")
  /\ GiveUp(-1, "vm") \/ Goto("class")

\* FindClass and GetStaticMethodID.
JavaFind ==
  /\ At("JAVA", "class")
  /\ DisplayStack \/ Goto("pass")

\* HashMap_FromMaps: an array of bytes when there is a size, a string of Unicode
\* characters when there is none; nested maps are left out.
HashMapFromMaps ==
  /\ At("JAVA", "pass")
  /\ Pass([i \in DOMAIN inputs.occ |->
            LET v == inputs.occ[i] IN IF v.size = NoSize THEN Unicode(Sized(v)) ELSE Sized(v)],
          FALSE)

\* Mutant: the value is taken for a string whatever the keys.
MapsFromHashMapOfTexts(w) == Text(w.bytes)

\* mapsFromHashMap casts the value to an array of bytes when the key size is there
\* and to a string when it is not, where 0 is written with two other bytes.
MapsFromHashMap(w) ==
  CASE w.size -> Binary(w.bytes)
    [] ~w.size /\ Contains(w.bytes, 0) -> Text(Other)
    [] OTHER -> Text(Unicode(w.bytes))

\* A result of 0 is taken for an exception.
JavaBack ==
  /\ At("JAVA", "back")
  /\ IF status \in {ServiceAccepted, Raised} THEN DisplayStack
     ELSE IF ~IsString(wrote) THEN Crash
     ELSE TakeBack(MapsFromHashMap(wrote), gave, status)

-----------------------------------------------------------------------------
\* A failure with its reason in lenv.message.
MonoFail ==
  /\ message' = Other /\ eres' = ServiceFailed
  /\ pc' = "respond"
  /\ UNCHANGED <<scriptVars, outputs, told, cause>>

\* The library of the kernel's own classes.
MonoStart ==
  /\ At("MONO", "load")
  /\ MonoFail \/ Goto("class")

\* mono_string_new makes no string of what is not UTF-8.
MonoString(b) == IF Contains(b, Stray) THEN Nothing ELSE b

\* ZMapFromMap passes the value of the first occurrence whole, the others as C
\* strings; ZMapsFromMaps passes the nested maps.
ZMapsFromMaps ==
  /\ At("MONO", "class")
  /\ Pass([i \in DOMAIN inputs.occ |->
            MonoString(IF i = 1 THEN Sized(inputs.occ[i]) ELSE CString(inputs.occ[i].bytes))],
          inputs.child)

\* The assembly, the class and the method of the service, looked up once the maps
\* are ready.
MonoFind ==
  /\ At("MONO", "run")
  /\ MonoFail

\* mapFromZMap: strings, the size as its own key.
MapFromZMap(w) == AsText([w EXCEPT !.bytes = Unicode(@)])

\* Mutant: conf is taken back after success only, like outputs.
MonoBackWithoutConf ==
  /\ At("MONO", "back")
  /\ CASE status = Raised -> MonoFail
       [] status = NoInteger -> Crash
       [] status \in Codes \ {ServiceSucceeded} -> TakeBack(outputs, message, status)
       [] OTHER -> IF IsString(wrote) THEN TakeBack(MapFromZMap(wrote), gave, status) ELSE Crash

\* An exception is a failed service; outputs are taken back after success only,
\* conf always, and what is no integer cannot be unboxed.
MonoBack ==
  /\ At("MONO", "back")
  /\ CASE status = Raised -> MonoFail
       [] status = NoInteger -> Crash
       [] status \in Codes \ {ServiceSucceeded} -> TakeBack(outputs, gave, status)
       [] OTHER -> IF IsString(wrote) THEN TakeBack(MapFromZMap(wrote), gave, status) ELSE Crash

-----------------------------------------------------------------------------
MachineSupport ==
  \/ JavaStart \/ JavaFind \/ HashMapFromMaps \/ JavaBack
  \/ MonoStart \/ ZMapsFromMaps \/ MonoFind \/ MonoBack

-----------------------------------------------------------------------------
\* A runtime, a context or a property that cannot be made gives 1, which is
\* SERVICE_STARTED; no working directory gives -1.  Neither tells the client.
JsStart ==
  /\ At("JS", "load")
  /\ GiveUp(ServiceStarted, "runtime") \/ GiveUp(-1, "directory") \/ Goto("compile")

\* Strings of the given size, a character for each byte, an array of them for several
\* occurrences.
JsObjectFromMaps == EachSized

\* A file that does not compile.
JsCompile ==
  /\ At("JS", "compile")
  /\ Refuse \/ Pass(JsObjectFromMaps, inputs.child)

\* mapFromJSObject makes a C string of whatever there is, the key size as it is.
MapFromJsObject(w) == IF IsString(w) THEN AsText(w) ELSE Text(Other)

\* Outputs are an object with a property for each, or an array of objects, of which
\* one without a name ends the process.
MapsFromJsObject(m, r) == TakeBack(MapFromJsObject(wrote), m, r) \/ Crash

\* An array [result, x]: x is outputs after success and conf in any other case.
JsArray(r) ==
  IF r = ServiceSucceeded
    THEN MapsFromJsObject(message, r)
    ELSE TakeBack(outputs, gave, r)

\* An object with the properties result, outputs and conf.
JsObject(r) ==
  \/ MapsFromJsObject(gave, r)
  \/ wrote.bytes = Nothing /\ TakeBack(outputs, gave, r)

\* null is an object for JSVAL_IS_OBJECT and for nothing that follows; the code is
\* whatever JSVAL_TO_INT finds in a value that is no integer.
JsBack ==
  /\ At("JS", "back")
  /\ \/ status \in {Raised, NoInteger} /\ Refuse
     \/ status = NoInteger /\ Crash
     \/ /\ status # Raised
        /\ \E r \in IF status = NoInteger THEN Codes \union {-1, ServiceStarted} ELSE {status} :
             JsArray(r) \/ JsObject(r)

-----------------------------------------------------------------------------
\* No such file, no platform or no environment.
NodeStart ==
  /\ At("NODEJS", "load")
  /\ Refuse \/ Goto("import")

\* JSObject_FromMap: Napi::String::New decodes UTF-8, with something else in the place of
\* what is not.
NodeObjectFromMaps == [i \in DOMAIN inputs.occ |-> Unicode(Sized(inputs.occ[i]))]

\* import of an ES6 module or require, and a function of the service's name; the
\* failures that follow one another are told once.
NodeImport ==
  /\ At("NODEJS", "import")
  /\ Refuse \/ Pass(NodeObjectFromMaps, inputs.child)

\* mapFromJSObject keeps the strings alone, as UTF-8, the key size when it is one.
NodeMapFromJsObject(w) ==
  IF IsString(w) THEN AsText([w EXCEPT !.bytes = Unicode(@)]) ELSE Lost

\* A service that is over, whatever it returned: outputs are taken back, conf never.
NodeBack ==
  /\ At("NODEJS", "back")
  /\ outputs' = IF status = Raised THEN outputs ELSE NodeMapFromJsObject(wrote)
  /\ eres' = IF status \in Codes THEN status ELSE -1
  /\ told' = IF status \in Codes THEN told ELSE WithException(Nothing)
  /\ pc' = "destroy"
  /\ UNCHANGED <<scriptVars, message, cause>>

\* An environment that cannot be destroyed is told too, unless something was told.
NodeDestroy ==
  /\ At("NODEJS", "destroy")
  /\ pc' = "respond"
  /\ \/ UNCHANGED <<told, cause>>
     \/ told' = WithException(Nothing) /\ cause' = "destroy"
  /\ UNCHANGED <<scriptVars, outputs, message, eres>>

-----------------------------------------------------------------------------
JavaScriptSupport ==
  \/ JsStart \/ JsCompile \/ JsBack
  \/ NodeStart \/ NodeImport \/ NodeBack \/ NodeDestroy
=============================================================================
