------------------------------ MODULE WireFifo ------------------------------
(***************************************************************************)
(* What the outbound half of a connection (Client in client.js) promises   *)
(* its caller: a FIFO of encoded frames.  Frames are accepted in the order *)
(* of the calls, a prefix of them is on the wire, the stream is finished   *)
(* only behind the last accepted frame, and a dead connection transmits    *)
(* nothing any more.  Outbound.tla implements this specification.          *)
(***************************************************************************)
EXTENDS Sequences, SequencesExt

VARIABLES
    accepted,   \* every frame ever handed to the channel, in call order
    sent,       \* the frames handed to the transport
    status      \* "open", then "finished" (FIN behind the data) or "dead"

fifoVars == <<accepted, sent, status>>

FifoInit ==
    /\ accepted = <<>>
    /\ sent = <<>>
    /\ status = "open"

(***************************************************************************)
(* One step of a live channel: any number of frames is accepted, any       *)
(* number of accepted frames is transmitted, and the channel may finish    *)
(* when nothing is left to transmit.                                       *)
(***************************************************************************)
Progress ==
    /\ status = "open"
    /\ IsPrefix(accepted, accepted')
    /\ IsPrefix(sent, sent')
    /\ IsPrefix(sent', accepted')
    /\ status' \in {"open", "finished"}
    /\ status' = "finished" => sent' = accepted'

(***************************************************************************)
(* The connection is lost, whatever is still queued.                       *)
(***************************************************************************)
Die ==
    /\ status' = "dead"
    /\ UNCHANGED <<accepted, sent>>

(***************************************************************************)
(* A dead connection swallows what is written to it.                       *)
(***************************************************************************)
Swallow ==
    /\ status = "dead"
    /\ IsPrefix(accepted, accepted')
    /\ UNCHANGED <<sent, status>>

FifoNext == Progress \/ Die \/ Swallow

FifoSpec == FifoInit /\ [][FifoNext]_fifoVars
=============================================================================
