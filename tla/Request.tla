------------------------------- MODULE Request -------------------------------
(***************************************************************************)
(* runRequest of ZOO-Kernel: from the request to the answer, with the      *)
(* errors on the way and the signals.                                      *)
(***************************************************************************)
EXTENDS OgcApiRequest, WpsRequest

Next == Start \/ OgcApi \/ Wps \/ Leave \/ Signal

Spec == Init /\ [][Next]_vars

-----------------------------------------------------------------------------
\* The variables keep their types.
TypeOK ==
  /\ env \in [queue : BOOLEAN, dru : BOOLEAN]
  /\ req \in [method : Methods, path : Paths]
  /\ route \in [method : Methods, path : Paths \union Versions, dru : {"no", "deploy", "undeploy"}]
  /\ pc \in Labels \union WpsLabels
  /\ io \in AnswerStates(Seq(Heads \union Bodies))
  /\ run \in [target : Targets \union {"none"}, mode : {"none", "sync", "async"}, async : BOOLEAN, eres : Results,
              res : BOOLEAN, object : BOOLEAN]
  /\ done \subseteq Effects
  /\ events \subseteq Events

Ended == pc = "end" /\ ~io.broken
Without(names) == events \intersect names = {}

\* A client gets one head and one body, whatever the route, the errors met on
\* the way and the moment of a signal: the flags no-headers, hasPrinted and
\* hasExceptionPrinted keep the printing functions from writing twice.
AnsweredOnce ==
  Ended /\ Without({"crash", "silent", "silentPackage", "goesOn", "rawMissing",
                    "renamed", "undescribed", "interrupted", "badInput"})
        /\ ~({"lost", "asyncDeploy"} \subseteq events)
    => WellFormed(io.out)

\* A request that is refused leaves no job, no deployed or removed process and
\* no dismissed job behind.
RefusedMeansUndone ==
  Ended /\ Refused(io.out)
        /\ Without({"signal", "interrupted", "badInput", "asyncDeploy", "noId"})
    => done \subseteq {"ran"}

\* A client that is told of an accepted job, of a deployment or of a removal got
\* it, and the execution that is answered with 200 took place or is a job.
SuccessMeansDone ==
  Ended /\ Len(io.out) > 0 /\ ~Refused(io.out) /\ Without({"fork", "publish"}) =>
    /\ io.out[1] = "201" => done \intersect {"job", "deployed"} # {}
    /\ io.out[1] = "204" => done \intersect {"deployed", "undeployed"} # {}
    /\ run.target # "none" => done # {}
    /\ run.eres = "accepted" => "job" \in done
=============================================================================
