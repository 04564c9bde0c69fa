-------------------------- MODULE MCClientSession --------------------------
(***************************************************************************)
(* Three clients that differ in everything the options decide.  The one    *)
(* without a configuration gets the third request, with which a user can   *)
(* remove both channels of the library and register another.               *)
(***************************************************************************)
EXTENDS ClientSession

MCOptions ==
    {[config |-> TRUE, signing |-> TRUE, secret |-> "none"],
     [config |-> TRUE, signing |-> FALSE, secret |-> "good"],
     [config |-> FALSE, signing |-> TRUE, secret |-> "outOfRange"]}

MCMaxExtras == [config \in BOOLEAN |-> IF config THEN 2 ELSE 3]
=============================================================================
