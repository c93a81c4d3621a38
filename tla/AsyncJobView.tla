---------------------------- MODULE AsyncJobView ----------------------------
(***************************************************************************)
(* AsyncJob implements JobView: to the clients that got the 201, the files *)
(* of the job amount to a status that never goes back.  And every          *)
(* answer to GetStatus, which reads up to four files one after the other,  *)
(* is one the job really had while the request was served.                 *)
(***************************************************************************)
EXTENDS AsyncJob

VARIABLE views   \* what View was since a reader's request began

viewVars == <<vars, views>>

(* The 201 was sent; until then a client can only have found the job id in *)
(* GET /jobs.                                                              *)
Announced == pc[Acceptor] = "done"

Status == IF Announced THEN View ELSE "unknown"

Abstract == INSTANCE JobView WITH status <- Status

(* Clients that do not dismiss the job read the status JobView allows:     *)
(* after the 201 the job exists, is running until its service has          *)
(* returned, and is then failed and, if it succeeded, successful for good; *)
(* neither createSPidFile in both processes nor a crash takes it back.     *)
NeverGoesBack == Abstract!Spec

(* View, followed while a request that began after the 201 is served.      *)
Serving(p) == pc[p] \notin Ended \union {"idle"}

InitViews == views = [p \in Readers |-> {}]

FollowViews ==
  views' = [p \in Readers |->
              IF ~Serving(p)' THEN views[p]
              ELSE IF ~Announced THEN Answers
              ELSE IF pc[p] = "idle" THEN {View, View'}
              ELSE views[p] \union {View'}]

SpecViews == Init /\ InitViews /\ [][Next /\ FollowViews]_viewVars

FairSpecViews == SpecViews /\ Fairness

(* An answer to such a GetStatus is one that reading all the files at one  *)
(* moment of the request would have given (isRunning, then readFinalRes,   *)
(* then createStatus, without a lock).                                     *)
AnswerIsASnapshot ==
  \A c \in Clients :
    op[c] = "GetStatus" /\ answer[c] # "none" => answer[c] \in views[c]
=============================================================================
