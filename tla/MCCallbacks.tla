----------------------------- MODULE MCCallbacks -----------------------------
(* Instances of Callbacks for TLC. *)
EXTENDS Callbacks

AllowedLists    == {<<"other">>, <<"job", "other">>}
=============================================================================
