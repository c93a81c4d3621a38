------------------------------- MODULE Kernel -------------------------------
(***************************************************************************)
(* The kernel between its clients and the services: a client lists the     *)
(* services, asks for the description of one and has it executed, or reads *)
(* the list of jobs.  What the search finds is what is read and printed,   *)
(* and what is loaded and run.  The connections to the databases are those *)
(* of any request.                                                         *)
(***************************************************************************)
EXTENDS ServiceRun, Descriptions, ProcessSearch, JobList, SqlConnections

kernelState == <<serviceVars, readVars, catVars, jobVars, sqlVars>>

Init == NoService /\ Idle /\ Closed /\ NoJobs /\ NoSql

\* A kernel that nobody has asked yet.
Unused ==
  pc = "idle" /\ format = "" /\ cat = Null /\ jobs = Null /\ fate.asked = "none"

\* The search has found a file or a row to describe ...
DescriptionFound ==
  /\ cat # Null /\ asked.op = "describe" /\ left = <<>> /\ described # <<>>
  /\ format' \in IF described[1][1] = "db" THEN {"db"} ELSE {"zcfg", "yaml"}
  /\ CloseCatalogue
  /\ UNCHANGED <<author, rest, reader, svc, serviceVars, jobVars, sqlVars>>

\* ... which holds what an author has written.
OpenTheOneFound ==
  /\ format # "" /\ author = Null
  /\ \E s \in Samples : OpenDescription(s, format)
  /\ UNCHANGED <<serviceVars, catVars, jobVars, sqlVars>>

\* The search has found a service to run, and fetchService returns it.
ServiceFound ==
  /\ cat # Null /\ ran # <<>>
  /\ pc' = "found"
  /\ CloseCatalogue
  /\ UNCHANGED <<type, inputs, scriptVars, kernelVars, readVars, jobVars, sqlVars>>

RunTheOneFound == LoadServiceAndRun /\ UNCHANGED <<readVars, catVars, jobVars, sqlVars>>

\* The request was answered, or the process died with it.
Answered ==
  /\ \/ pc = "end"
     \/ svc # <<>>
     \/ author # Null /\ Dead
     \/ cat # Null /\ asked # NoRequest /\ left = <<>>
     \/ answer \in {"list", "exception", "died"}
     \/ SqlServed
  /\ UNCHANGED kernelState

Next ==
  \/ /\ Unused /\ \E c \in Catalogues : OpenCatalogue(c)
     /\ UNCHANGED <<serviceVars, readVars, jobVars, sqlVars>>
  \/ ServeCatalogue /\ UNCHANGED <<serviceVars, readVars, jobVars, sqlVars>>
  \/ DescriptionFound \/ OpenTheOneFound
  \/ /\ ReadToken \/ ReadServiceFile
     /\ UNCHANGED <<serviceVars, catVars, jobVars, sqlVars>>
  \/ ServiceFound \/ RunTheOneFound
  \/ RunTheService /\ UNCHANGED <<readVars, catVars, jobVars, sqlVars>>
  \/ /\ Unused /\ \E j \in JobSets : OpenJobs(j)
     /\ UNCHANGED <<serviceVars, readVars, catVars, sqlVars>>
  \/ ServeJobs /\ UNCHANGED <<serviceVars, readVars, catVars, sqlVars>>
  \/ /\ (Unused /\ OpenSql) \/ ServeSql
     /\ UNCHANGED <<serviceVars, readVars, catVars, jobVars>>
  \/ Answered

Spec == Init /\ [][Next]_kernelState
=============================================================================
