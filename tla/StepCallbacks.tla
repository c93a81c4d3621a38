--------------------------- MODULE StepCallbacks ---------------------------
(***************************************************************************)
(* The step callbacks of a process that runs a job (invokeCallback): one   *)
(* thread per call, ordered only by cStep and the table steps.             *)
(*                                                                         *)
(* A call <<step, state>> announces the start (0) or the end (1) of a step *)
(* of the job: 0 the request, 1 the inputs, 2 their upload, 3 the script,  *)
(* 4 the submission, 5 the outputs, 6 the response, 7 a failure.           *)
(* A thread that passes its wait takes isOngoing in the same action: only  *)
(* another call of step 7 could tell the difference.                       *)
(***************************************************************************)
EXTENDS Naturals, Sequences

VARIABLES
  calls,      \* the threads, in the order of their creation
  cStep, isOngoing,
  steps,      \* the calls answered (steps[7] is outside of the array)
  got         \* the calls the callback service received

stepVars == <<calls, cStep, isOngoing, steps, got>>

Calls == (0 .. 6) \X {0, 1} \union {<<7, 0>>}

StepsOK ==
  /\ \A n \in DOMAIN calls : /\ calls[n].call \in Calls
                             /\ calls[n].pc \in {"wait", "post", "advance", "ended"}
  /\ cStep \in 0 .. 8 /\ isOngoing \in 0 .. 1
  /\ steps \subseteq Calls /\ got \in Seq(Calls)

InitSteps == calls = <<>> /\ cStep = 0 /\ isOngoing = 0 /\ steps = {} /\ got = <<>>

\* invokeCallback for each of a sequence of calls.
InvokeCallbacks(list) ==
  /\ calls' = calls \o [k \in DOMAIN list |-> [call |-> list[k], pc |-> "wait"]]
  /\ UNCHANGED <<cStep, isOngoing, steps, got>>

ThreadGoesOn(n, from, to) ==
  /\ n \in DOMAIN calls /\ calls[n].pc = from
  /\ calls' = [calls EXCEPT ![n].pc = to]

\* Mutant: the end of a step does not wait for its start.
ItsTurnAnyState(step, state) == cStep = step

\* A call waits for its step, and the end of a step for the answer to its start.
ItsTurn(step, state) == cStep = step /\ (state = 0 \/ <<step, 0>> \in steps)

StartRequest(n) ==
  /\ ThreadGoesOn(n, "wait", "post")
  /\ LET step  == calls[n].call[1]
         state == calls[n].call[2]
     IN  ItsTurn(step, state) \/ (step = 7 /\ isOngoing = 0)
  /\ isOngoing' = 1
  /\ got' = Append(got, calls[n].call)
  /\ UNCHANGED <<cStep, steps>>

EndRequest(n) ==
  /\ ThreadGoesOn(n, "post", "advance")
  /\ isOngoing' = 0
  /\ UNCHANGED <<cStep, steps, got>>

Advance(n) ==
  /\ ThreadGoesOn(n, "advance", "ended")
  /\ LET step  == calls[n].call[1]
         state == calls[n].call[2]
     IN  /\ cStep' = IF cStep \in {0, 6} \/ state = 1 THEN step + 1 ELSE cStep
         /\ steps' = IF step < 7 THEN steps \union {calls[n].call} ELSE steps
  /\ UNCHANGED <<isOngoing, got>>

ThreadStep == \E n \in DOMAIN calls : StartRequest(n) \/ EndRequest(n) \/ Advance(n)

\* cleanupCallbackThreads returns.
ThreadsEnded == isOngoing = 0 /\ \A n \in DOMAIN calls : calls[n].pc = "ended"

\* The callback service hears of the steps of the job in their order
\* (service_callback.c:692-696,752-769).
StepsInOrder ==
  \A k, l \in DOMAIN got :
    (k < l /\ got[k][1] # 7 /\ got[l][1] # 7) =>
      2 * got[k][1] + got[k][2] <= 2 * got[l][1] + got[l][2]
=============================================================================
