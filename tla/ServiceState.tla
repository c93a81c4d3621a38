---------------------------- MODULE ServiceState ----------------------------
(***************************************************************************)
(* The process that runs a service written in any of the languages of the  *)
(* kernel: what the kernel hands to the service, what the service hands    *)
(* back, and what the client is told.  A value is a sequence of bytes, 0,  *)
(* 1 or one that is part of no UTF-8 text: a C string ends before its      *)
(* first 0, a value with a size does not, and the runtimes whose strings   *)
(* are Unicode have to decode what they get.                               *)
(***************************************************************************)
EXTENDS Integers, Sequences, SequencesExt

\* What a service returns: SERVICE_ACCEPTED, SERVICE_SUCCEEDED, SERVICE_FAILED,
\* something that is no integer, or an exception of its language.
ServiceAccepted  == 0
ServiceStarted   == 1
ServiceSucceeded == 3
ServiceFailed    == 4
NoInteger        == 98
Raised           == 99
Codes            == {ServiceAccepted, ServiceSucceeded, ServiceFailed}

\* Null, None, undefined; and a value that is not the one that was meant.
Nothing == <<2>>
Other   == <<3>>

Stray    == 4  \* a byte of an image, or of a text in Latin-1
Texts    == {<<>>, <<1>>, <<Stray>>}
Binaries == {<<0>>, <<1>>, <<0, 1>>, <<1, 0>>, <<Stray>>}
NoSize   == -1

CString(b) ==
  LET zero == SelectInSeq(b, LAMBDA c : c = 0)
  IN  IF zero = 0 THEN b ELSE SubSeq(b, 1, zero - 1)

\* A value of the maps: the bytes before the 0 that ends them, and the key size.
Text(b)   == [bytes |-> b, size |-> NoSize]
Binary(b) == [bytes |-> b, size |-> Len(b)]
Lost      == Text(Nothing)

\* What those who look at the key size read, and those who do not.
Sized(v) ==
  LET buffer == Append(v.bytes, 0)
  IN  IF v.size = NoSize THEN CString(v.bytes)
      ELSE IF v.size <= Len(buffer) THEN SubSeq(buffer, 1, v.size) ELSE Other

\* A string of Unicode characters, and the bytes made of one.
Unicode(b) == IF Contains(b, Stray) THEN Other ELSE b

CStrings(occ) == [i \in DOMAIN occ |-> CString(occ[i].bytes)]

\* An input with its one or two occurrences, or one that holds nested inputs.
Stored == {Text(b) : b \in Texts} \union {Binary(b) : b \in Binaries}
Inputs ==
  [occ : {<<v>> : v \in Stored} \union (Stored \X Stored), child : {FALSE}]
    \union {[occ |-> <<>>, child |-> TRUE]}

\* What the service leaves in its output: a value with or without the key size,
\* a list of values, or nothing.
Written ==
  [bytes : Texts \union Binaries, size : BOOLEAN, list : {FALSE}]
    \union {[bytes |-> b, size |-> FALSE, list |-> b = <<>>] : b \in {<<>>, Nothing}}

\* lenv.message as the service leaves it.
Messages == {Nothing, <<1>>}

VARIABLES
  type,     \* serviceType of the zcfg file
  pc,       \* where the process is
  inputs,   \* the input in the maps of the kernel
  args,     \* the input as the service sees it: its occurrences, nested inputs
  status,   \* what the service returned
  wrote,    \* the output as the service left it
  gave,     \* lenv.message as the service left it
  outputs,  \* the output in the maps of the kernel
  message,  \* lenv.message in the maps of the kernel
  eres,     \* the result of loadServiceAndRun, -1 when the client was told why
  told,     \* what was printed
  cause     \* what happened that ends irregularly

scriptVars  == <<args, status, wrote, gave>>
kernelVars  == <<outputs, message, eres, told, cause>>
serviceVars == <<type, pc, inputs, scriptVars, kernelVars>>

Causes == {"none", "directory", "vm", "noInteger", "runtime", "destroy",
           "unknown", "decode", "crash"}

Document == [kind |-> "document", text |-> Nothing]
Raw(b)   == [kind |-> "raw", text |-> b]

\* errorException and printExceptionReportResponse do nothing once hasPrinted is set.
WithException(text) ==
  IF told = <<>> THEN <<[kind |-> "exception", text |-> text]>> ELSE told

-----------------------------------------------------------------------------
\* The support of a serviceType: the names are compared up to the length of the
\* known one, C-FORTRAN is looked for among those of a single letter.
ServiceTypes ==
  {"C", "C-FORTRAN", "SAGA", "OTB", "PYTHON", "R", "JAVA", "JavaScript", "PHP", "PERL",
   "JS", "NODEJS", "RUBY", "MONO"}

Support ==
  CASE type = "C-FORTRAN" -> "none"
    [] type = "JavaScript" -> "JAVA"
    [] OTHER -> type

At(l, label) == Support = l /\ pc = label /\ UNCHANGED <<type, inputs>>

Goto(label) == pc' = label /\ UNCHANGED <<scriptVars, kernelVars>>

\* An exception of the kernel, and -1.
Refuse ==
  /\ told' = WithException(Nothing) /\ eres' = -1
  /\ pc' = "respond"
  /\ UNCHANGED <<scriptVars, outputs, message, cause>>

\* Give up with the code r, without an exception.
GiveUp(r, why) ==
  /\ eres' = r /\ cause' = why
  /\ pc' = "respond"
  /\ UNCHANGED <<scriptVars, outputs, message, told>>

\* The process dies: whether the client is told depends on whose signal handler runs.
\* Nothing is told when it is the runtime of the language that calls exit.
Dies(why) ==
  /\ told' \in {told, WithException(Nothing)}
  /\ cause' = why /\ pc' = "end"
  /\ UNCHANGED <<scriptVars, outputs, message, eres>>

Crash == Dies("crash")

Exit == Crash /\ told' = told

\* The inputs as the service sees them, one value for each occurrence.
Pass(occ, child) ==
  /\ args' = [occ |-> occ, child |-> child]
  /\ pc' = "run"
  /\ UNCHANGED <<status, wrote, gave, kernelVars>>

EachSized == [i \in DOMAIN inputs.occ |-> Sized(inputs.occ[i])]

\* conf and outputs are taken back, and the code r.
TakeBack(out, m, r) ==
  /\ outputs' = out /\ message' = m /\ eres' = r
  /\ cause' = IF status = NoInteger THEN "noInteger" ELSE "none"
  /\ pc' = "respond"
  /\ UNCHANGED <<scriptVars, told>>

\* A value that comes back as a C string, with the key size when the service set it.
AsText(w) == [bytes |-> CString(w.bytes), size |-> IF w.size THEN Len(w.bytes) ELSE NoSize]

IsString(w) == ~w.list /\ w.bytes # Nothing

-----------------------------------------------------------------------------
NoInput == [occ |-> <<>>, child |-> FALSE]

NoService ==
  /\ type = "" /\ pc = "idle" /\ inputs = NoInput /\ args = NoInput
  /\ status = NoInteger
  /\ wrote = [bytes |-> Nothing, size |-> FALSE, list |-> FALSE]
  /\ gave = Nothing /\ outputs = Lost /\ message = Nothing
  /\ eres = ServiceStarted
  /\ told = <<>>
  /\ cause = "none"

\* loadServiceAndRun with the service that was found and the inputs that were parsed.
LoadServiceAndRun ==
  /\ pc = "found"
  /\ type' \in ServiceTypes
  /\ inputs' \in Inputs
  /\ pc' = "start"
  /\ UNCHANGED <<scriptVars, kernelVars>>

\* A synchronous WPS Execute with RawDataOutput: what the client is told.
OutputResponse ==
  /\ pc = "respond"
  /\ told' = CASE eres = -1 -> told
               [] eres = ServiceFailed -> WithException(message)
               [] eres = ServiceSucceeded /\ outputs.bytes = Nothing -> WithException(Nothing)
               [] eres = ServiceSucceeded /\ outputs.bytes # Nothing ->
                    Append(told, Raw(Sized(outputs)))
               [] eres \notin {-1, ServiceFailed, ServiceSucceeded} -> Append(told, Document)
  /\ pc' = "end"
  /\ UNCHANGED <<type, inputs, scriptVars, outputs, message, eres, cause>>
=============================================================================
