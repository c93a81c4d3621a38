----------------------------- MODULE MCAsyncJob -----------------------------
(* Instances of AsyncJob for TLC. *)
EXTENDS AsyncJob, TLC

Polling  == {"GetStatus", "GetResults"}
AllOps   == Operations
AnyFault == {"reject", "crash", "lock"}

AnyOrder == {}
(* One order of the directory, the same for every process that lists it.   *)
Order    == <<"sid", "res", "stat", "pid", "lenv", "final", "progress", "resp">>
InOrder  == {<<Order[ij[1]], Order[ij[2]]>> :
               ij \in {xy \in (1..8) \X (1..8) : xy[1] < xy[2]}}

ClientSymmetry == Permutations(Clients)
=============================================================================
