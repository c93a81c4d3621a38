------------------------- MODULE DictionaryServices -------------------------
(***************************************************************************)
(* The supports of the languages whose services get conf, inputs and       *)
(* outputs as dictionaries: Python, Ruby, PHP, R and Perl.  Each one loads *)
(* the script, hands the maps over, calls the function and takes the maps  *)
(* back; what is lost on the way differs from language to language.        *)
(***************************************************************************)
EXTENDS ServiceState

\* In Python 3 PyString_FromStringAndSize is PyUnicode_FromStringAndSize, and gives NULL for
\* what is not UTF-8.
PyNull(v) == Contains(Sized(v), Stray)

\* Every occurrence is passed as a string, but None for a value with a size whose first
\* byte is 0.  NULL is a hole in the list of several occurrences; the error it leaves
\* pending is one of those the service may raise or die of.
PyDictFromMap(occ) ==
  [i \in DOMAIN occ |->
     IF PyNull(occ[i]) \/ (occ[i].size # NoSize /\ CString(occ[i].bytes) = <<>>)
     THEN Nothing ELSE Sized(occ[i])]

\* zoo_python_support: no serviceProvider, no module, or no function of that name.  The
\* process dies of the NULL of a single occurrence, which PyDict_SetItem takes for a value.
PythonLoad ==
  /\ At("PYTHON", "load")
  /\ \/ Refuse
     \/ IF Len(inputs.occ) = 1 /\ PyNull(inputs.occ[1])
        THEN Dies("decode")
        ELSE Pass(PyDictFromMap(inputs.occ), inputs.child)

\* Mutant: the result is -1 and nobody tells the client why.
PythonQuiet == GiveUp(-1, "none")

\* PythonZooReport tells the error and its traceback.
PythonZooReport == Refuse

\* mapFromPyDict keeps a string or bytes whole, and nothing of anything else.
MapFromPyDict(w) == IF IsString(w) THEN Binary(w.bytes) ELSE Lost

\* PyInt_AsLong makes -1 of what is no integer: nobody tells the client.
PythonBack ==
  /\ At("PYTHON", "back")
  /\ IF status = Raised THEN PythonZooReport
     ELSE TakeBack(MapFromPyDict(wrote), gave, IF status = NoInteger THEN -1 ELSE status)

-----------------------------------------------------------------------------
\* In RubyHash_FromMap the key value of several occurrences holds their types.
RubyHashFromMap(occ) ==
  IF Len(occ) > 1 THEN [i \in DOMAIN occ |-> Other]
                  ELSE [i \in DOMAIN occ |-> Sized(occ[i])]

\* zoo_ruby_support: no serviceProvider, a script that cannot be loaded, no function.
RubyLoad ==
  /\ At("RUBY", "load")
  /\ Refuse \/ Pass(RubyHashFromMap(inputs.occ), FALSE)

RubyTraceError == Refuse

MapFromRubyHash(w) == Binary(w.bytes)

\* What is no string, or holds a 0, raises where nothing catches it.
RubyBack ==
  /\ At("RUBY", "back")
  /\ IF status \notin Codes THEN RubyTraceError
     ELSE IF ~IsString(wrote) \/ Contains(wrote.bytes, 0) THEN Exit
     ELSE TakeBack(MapFromRubyHash(wrote), gave, status)

-----------------------------------------------------------------------------
\* A value is passed whole when the key size follows it: the first one only.
PhpArrayFromMap(occ) ==
  [i \in DOMAIN occ |-> IF i = 1 THEN Sized(occ[i]) ELSE CString(occ[i].bytes)]

\* zoo_php_support: no serviceProvider, or no file.
PhpLoad ==
  /\ At("PHP", "load")
  /\ Refuse \/ Pass(PhpArrayFromMap(inputs.occ), FALSE)

\* convert_to_string: an empty string for null, "Array" for an array.
PhpMapFromArray(w) ==
  Binary(IF w.list THEN Other ELSE IF w.bytes = Nothing THEN <<>> ELSE w.bytes)

\* Z_LVAL of what is no integer reads whatever the zval holds there.
PhpBack ==
  /\ At("PHP", "back")
  /\ \/ status = Raised /\ Refuse
     \/ /\ status # Raised
        /\ \E r \in IF status = NoInteger THEN Codes \union {-1, ServiceStarted} ELSE {status} :
             TakeBack(PhpMapFromArray(wrote), gave, r)

-----------------------------------------------------------------------------
\* RList_FromMap: every value is a C string.
RListFromMap(occ) == CStrings(occ)

\* zoo_r_support: without serviceProvider an exception, a script that cannot be
\* read is a service that failed.
RLoad ==
  /\ At("R", "load")
  /\ \/ Refuse
     \/ /\ message' = Other /\ eres' = ServiceFailed
        /\ pc' = "respond"
        /\ UNCHANGED <<scriptVars, outputs, told, cause>>
     \/ Pass(RListFromMap(inputs.occ), FALSE)

\* A vector of several strings gives its first.
MapFromRList(w) == IF w.list THEN Text(Other) ELSE AsText(w)

\* An empty result gives none of the maps; an error outside of R_tryEval ends the
\* process.
RBack ==
  /\ At("R", "back")
  /\ \/ status = Raised /\ Refuse
     \/ status = NoInteger /\ (Crash \/ TakeBack(Lost, Nothing, ServiceFailed))
     \/ /\ status \in Codes
        /\ \/ (wrote.list \/ (IsString(wrote) /\ ~Contains(wrote.bytes, 0)))
              /\ TakeBack(MapFromRList(wrote), gave, status)
           \/ ~IsString(wrote) /\ Crash
           \/ Contains(wrote.bytes, 0) /\ Crash

-----------------------------------------------------------------------------
\* maps_to_hash: every value is a C string.
MapsToHash(occ) == CStrings(occ)

\* zoo_perl_support looks for the key serviceProvide, which no zcfg file has; when
\* one has it the script runs.
PerlLoad ==
  /\ At("PERL", "load")
  /\ Crash \/ Pass(MapsToHash(inputs.occ), FALSE)

\* hash_to_maps changes outputs only when there is none, and the result of the
\* service is not looked at; die ends the process.
PerlBack ==
  /\ At("PERL", "back")
  /\ IF status = Raised THEN Exit ELSE TakeBack(outputs, message, ServiceSucceeded)

-----------------------------------------------------------------------------
DictionarySupport ==
  \/ PythonLoad \/ PythonBack
  \/ RubyLoad \/ RubyBack
  \/ PhpLoad \/ PhpBack
  \/ RLoad \/ RBack
  \/ PerlLoad \/ PerlBack
=============================================================================
