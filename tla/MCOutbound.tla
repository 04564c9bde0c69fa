----------------------------- MODULE MCOutbound -----------------------------
(***************************************************************************)
(* Small instances of Outbound: one packet beside the delimiter, two     *)
(* protocol states and one threshold where the codec of a frame matters;   *)
(* where only its progress does, a switch may be to the same state.        *)
(***************************************************************************)
EXTENDS Outbound, TLC

CONSTANTS a, delim

MCPacket == {a}
MCProtoState == {"login", "play"}
MCOneState == {"login"}
MCThreshold == {256}
=============================================================================
