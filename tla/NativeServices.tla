--------------------------- MODULE NativeServices ---------------------------
(***************************************************************************)
(* The services that are compiled code: a C function of a shared library,  *)
(* an application of the Orfeo ToolBox and a module of SAGA GIS.  The      *)
(* first works on the maps of the kernel, the others get parameters made   *)
(* of them and write files.                                                *)
(***************************************************************************)
EXTENDS ServiceState

\* The shared library or the function cannot be found.
LoadLibrary ==
  /\ At("C", "load")
  /\ Refuse \/ Pass(EachSized, inputs.child)

\* The function writes to the maps of the kernel: a value ends at its first 0
\* unless the key size says where.
CallFunction ==
  /\ At("C", "back")
  /\ TakeBack(IF wrote.bytes = Nothing THEN Lost
              ELSE [bytes |-> wrote.bytes, size |-> IF wrote.size THEN Len(wrote.bytes) ELSE NoSize],
              gave, status)

-----------------------------------------------------------------------------
\* A failed service with or without a reason in lenv.message.
Fail(m) ==
  /\ message' = m /\ eres' = ServiceFailed
  /\ pc' = "respond"
  /\ UNCHANGED <<scriptVars, outputs, told, cause>>

\* dumpMapsValuesToFiles: a file for each occurrence, as long as its size says.
Files == EachSized

\* No application at all or none that can be created is told; a name that is not
\* in the list is not.
OtbCreate ==
  /\ At("OTB", "load")
  /\ Refuse \/ GiveUp(-1, "unknown") \/ Goto("parameters")

\* A list of images gets every file, any other parameter the first file or the C
\* string; a list of choices without any input is not looked at before it is used.
OtbParameters ==
  /\ At("OTB", "parameters")
  /\ \/ Pass(Files, FALSE)
     \/ inputs.occ # <<>> /\ Pass(<<Files[1]>>, FALSE)
     \/ inputs.occ # <<>> /\ Pass(<<CString(inputs.occ[1].bytes)>>, FALSE)
     \/ inputs.occ = <<>> /\ Crash

\* A result is a text of the application's summary or a file; what the application
\* returned or threw becomes the reason.
OtbExecute ==
  /\ At("OTB", "back")
  /\ IF status # ServiceSucceeded THEN Fail(Other)
     ELSE \/ TakeBack(Text(CString(wrote.bytes)), message, ServiceSucceeded)
          \/ TakeBack(IF IsString(wrote) THEN Binary(wrote.bytes) ELSE Lost,
                      message, ServiceSucceeded)

-----------------------------------------------------------------------------
\* wxWidgets, the libraries, the one of the service, its module, its parameters.
SagaLoad ==
  /\ At("SAGA", "load")
  /\ Fail(Nothing) \/ Fail(Other) \/ Goto("import")

\* sagaExecuteCmd runs a module that converts a file; its result is not looked at,
\* and where there is no converted file the process dies.
SagaImport ==
  /\ At("SAGA", "import")
  /\ Crash \/ Goto("parameters")

\* One text of all the occurrences for an option, as wide characters; the files for data, unless they
\* cannot be loaded, which nobody looks at.
SagaSetParameters ==
  /\ At("SAGA", "parameters")
  /\ \/ Pass(IF Len(inputs.occ) > 1 THEN <<Other>>
             ELSE [i \in DOMAIN inputs.occ |-> Unicode(CString(inputs.occ[i].bytes))], FALSE)
     \/ Pass(Files, FALSE)
     \/ Pass(<<>>, FALSE)

\* What Execute returns is not looked at: files are saved and exported if there are
\* any, and the service has succeeded.  A grid may be missing, other data may not.
SagaExecute ==
  /\ At("SAGA", "back")
  /\ \/ Crash
     \/ TakeBack(Lost, message, ServiceSucceeded)
     \/ IsString(wrote) /\ TakeBack(Binary(wrote.bytes), message, ServiceSucceeded)

-----------------------------------------------------------------------------
NativeSupport ==
  \/ LoadLibrary \/ CallFunction
  \/ OtbCreate \/ OtbParameters \/ OtbExecute
  \/ SagaLoad \/ SagaImport \/ SagaSetParameters \/ SagaExecute
=============================================================================
