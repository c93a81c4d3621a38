------------------------------ MODULE JobView ------------------------------
(***************************************************************************)
(* What the status of an asynchronous job promises to the clients that     *)
(* know its id and do not dismiss it, as far as the file-backed kernel     *)
(* keeps the promise (AsyncJob implements this module).                    *)
(*                                                                         *)
(* The status never goes back: running, then failed, then perhaps          *)
(* successful.  That a job which succeeded is first seen as failed is the  *)
(* kernel's own behaviour: the .pid file goes before the .res file comes.  *)
(***************************************************************************)
VARIABLES
  status,   \* "unknown" until the client has the 201
  outcome   \* what the service returned

vars == <<status, outcome>>

Init == status = "unknown" /\ outcome = "none"

(* The service returns.                                                    *)
Return ==
  /\ outcome = "none"
  /\ outcome' \in {"Succeeded", "Failed"}
  /\ UNCHANGED status

(* The 201 tells a client the job id.                                             *)
Announce ==
  /\ status = "unknown"
  /\ \/ status' = "running"
     \/ status' = "failed" /\ outcome # "none"
     \/ status' = "successful" /\ outcome = "Succeeded"
  /\ UNCHANGED outcome

(* The worker is not running any more and has not published its status.    *)
Finish ==
  /\ status = "running"
  /\ outcome # "none"
  /\ status' = "failed"
  /\ UNCHANGED outcome

Publish ==
  /\ status = "failed"
  /\ outcome = "Succeeded"
  /\ status' = "successful"
  /\ UNCHANGED outcome

Next == Return \/ Announce \/ Finish \/ Publish

Spec == Init /\ [][Next]_vars
=============================================================================
