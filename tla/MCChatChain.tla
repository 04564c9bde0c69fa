---------------------------- MODULE MCChatChain ----------------------------
(***************************************************************************)
(* Small instance of ChatChain: four players whose messages are relayed    *)
(* and a list of last seen messages that holds three.                      *)
(***************************************************************************)
EXTENDS ChatChain

\* Nothing tells one sender from another.
Symmetry == Permutations(Senders)
=============================================================================
