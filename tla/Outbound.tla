------------------------------ MODULE Outbound ------------------------------
(***************************************************************************)
(* The outbound half of a Client (src/src/client.js): the serializer, the  *)
(* optional compressor, the framer and the optional cipher feed a queue of *)
(* final wire bytes that a socket with backpressure drains.  Protocol      *)
(* state, compression and encryption are switched while frames are queued, *)
(* end() travels through the same chain as the data, one stream 'end'      *)
(* event per tick, and the socket may fail at any time.                    *)
(*                                                                         *)
(* A frame is a packet together with the codec it was encoded with: the    *)
(* protocol state, the compression threshold and the cipher generation.    *)
(* Bytes and packet schemas are abstracted to that.                        *)
(***************************************************************************)
EXTENDS Integers, Sequences, SequencesExt

CONSTANTS
    Packet,        \* what callers write (a name with its parameters)
    Delimiter,     \* the bundle_delimiter packet of writeBundle
    ProtoState,    \* the protocol states a client is switched through
    InitialState,  \* states.HANDSHAKING
    Threshold,     \* the thresholds setCompressionThreshold is called with
    MaxFrames,     \* bound: frames ever accepted
    MaxCiphers,    \* bound: calls of setEncryption
    MaxTimers      \* bound: close timers armed at the same time

ASSUME OutboundAssumption ==
    /\ Delimiter \notin Packet
    /\ InitialState \in ProtoState
    /\ Threshold \subseteq Int
    /\ MaxFrames \in Nat
    /\ MaxCiphers \in Nat
    /\ MaxTimers \in Nat

VARIABLES
    state,          \* protocolState
    threshold,      \* compressor.compressionThreshold, NoCompressor before
    phase,          \* life of the serializer, compressor and framer streams
    ciphers,        \* life of each cipher stream created, the last is current
    queue,          \* _writeQueue
    outboundEnded,  \* _outboundEnded
    ended,          \* ended: no socket yet, or endSocket() ran
    ending,         \* _ending
    sock,           \* the socket: "none", "open", "destroyed", "closed"
    fin,            \* socket.end() was called
    needDrain,      \* socket.writableNeedDrain
    closeTimers,    \* armed 30 s close timers
    accepted,       \* history: every frame pushed on _writeQueue
    sent            \* history: every frame given to socket.write

vars == <<state, threshold, phase, ciphers, queue, outboundEnded, ended,
          ending, sock, fin, needDrain, closeTimers, accepted, sent>>

codec == <<state, threshold>>
streams == <<phase, ciphers>>
wire == <<queue, fin, needDrain, sent>>
socket == <<ended, ending, sock, closeTimers>>

NoCompressor == -2
Raw == "raw"      \* the state tag of a frame written by writeRaw

Stage == {"serializer", "compressor", "framer"}

(***************************************************************************)
(* A stream is "ending" between its end() and the tick that emits its      *)
(* 'end'.  A write in between breaks it: it errors, and its 'end' is lost. *)
(***************************************************************************)
Phase == {"absent", "open", "ending", "ended", "broken"}

Frame == [packet: Packet \union {Delimiter}, state: ProtoState \union {Raw},
          threshold: Threshold \union {NoCompressor}, cipher: 0..MaxCiphers]

TypeOK ==
    /\ state \in ProtoState
    /\ threshold \in Threshold \union {NoCompressor}
    /\ phase \in [Stage -> Phase]
    /\ ciphers \in Seq(Phase)
    /\ Len(ciphers) <= MaxCiphers
    /\ queue \in Seq(Frame)
    /\ accepted \in Seq(Frame)
    /\ sent \in Seq(Frame)
    /\ outboundEnded \in BOOLEAN
    /\ ended \in BOOLEAN
    /\ ending \in BOOLEAN
    /\ fin \in BOOLEAN
    /\ needDrain \in BOOLEAN
    /\ sock \in {"none", "open", "destroyed", "closed"}
    /\ closeTimers \in 0..MaxTimers

Init ==
    /\ state = InitialState
    /\ threshold = NoCompressor
    /\ phase = [s \in Stage |-> IF s = "compressor" THEN "absent" ELSE "open"]
    /\ ciphers = <<>>
    /\ queue = <<>>
    /\ outboundEnded = FALSE
    /\ ended = TRUE
    /\ ending = FALSE
    /\ sock = "none"
    /\ fin = FALSE
    /\ needDrain = FALSE
    /\ closeTimers = 0
    /\ accepted = <<>>
    /\ sent = <<>>

-----------------------------------------------------------------------------
(* Helpers *)

(***************************************************************************)
(* The frame the transforms make of a packet now.                          *)
(***************************************************************************)
Encode(p) == [packet |-> p, state |-> state, threshold |-> threshold,
              cipher |-> Len(ciphers)]

EncodeRaw(p) == [Encode(p) EXCEPT !.state = Raw]

HasCompressor == phase["compressor"] # "absent"
HasCipher == ciphers # <<>>

(***************************************************************************)
(* stream.end(): a second call, or one on a broken stream, does nothing.   *)
(***************************************************************************)
EndOf(ph) == IF ph = "open" THEN "ending" ELSE ph

(***************************************************************************)
(* A write on a stream that is not open: it breaks one whose 'end' is      *)
(* pending and is dropped by one that is already destroyed.                *)
(***************************************************************************)
WriteOn(ph) == IF ph = "ending" THEN "broken" ELSE ph

Shut(ph) == ph \notin {"absent", "open"}

(***************************************************************************)
(* Fault of the drain loop: a rejected frame is written again.             *)
(***************************************************************************)
DrainReplaying(q, oe, mayRun, full) ==
    IF ~mayRun \/ full \/ q = <<>>
    THEN queue' = q /\ needDrain' = full /\ UNCHANGED <<fin, sent>>
    ELSE /\ sent' = Append(sent, Head(q))
         /\ queue' = q
         /\ needDrain' = TRUE
         /\ UNCHANGED fin

(***************************************************************************)
(* _drainWriteQueue, on the queue q and with _outboundEnded = oe.  When    *)
(* the loop may run, it hands over frames until a write returns false (a   *)
(* full socket is not written to at all), and an empty queue behind the    *)
(* end of the data ends the socket.                                        *)
(***************************************************************************)
Drain(q, oe, mayRun, full) ==
    \/ /\ ~mayRun
       /\ queue' = q
       /\ needDrain' = full
       /\ UNCHANGED <<fin, sent>>
    \/ /\ mayRun
       /\ \E n \in 0..Len(q) :
             /\ n = 0 <=> (full \/ q = <<>>)
             /\ needDrain' \in IF n = 0 THEN {full}
                              ELSE IF n < Len(q) THEN {TRUE} ELSE BOOLEAN
             /\ sent' = sent \o SubSeq(q, 1, n)
             /\ queue' = SubSeq(q, n + 1, Len(q))
       /\ fin' = (oe /\ queue' = <<>>)

CanWrite == ~ended /\ sock = "open" /\ ~fin

(* Fault: priority packets overtake the backlog. *)
DeliverOvertaking(frames) ==
    /\ Len(accepted) + Len(frames) <= MaxFrames
    /\ accepted' = accepted \o frames
    /\ Drain(frames \o queue, outboundEnded, CanWrite, needDrain)
    /\ UNCHANGED <<streams, codec, outboundEnded, socket>>

(***************************************************************************)
(* _writePacketBuffer: the compressor, the framer and the cipher pass a    *)
(* buffer on at once; the first of them that is shut swallows it.          *)
(***************************************************************************)
Deliver(frames) ==
    /\ \/ /\ Shut(phase["compressor"])
          /\ phase' = [phase EXCEPT !["compressor"] = WriteOn(@)]
          /\ UNCHANGED <<ciphers, accepted, wire>>
       \/ /\ ~Shut(phase["compressor"])
          /\ Shut(phase["framer"])
          /\ phase' = [phase EXCEPT !["framer"] = WriteOn(@)]
          /\ UNCHANGED <<ciphers, accepted, wire>>
       \/ /\ ~Shut(phase["compressor"])
          /\ ~Shut(phase["framer"])
          /\ Len(accepted) + Len(frames) <= MaxFrames
          /\ accepted' = accepted \o frames
          /\ Drain(queue \o frames, outboundEnded, CanWrite, needDrain)
          /\ UNCHANGED streams
    /\ UNCHANGED <<codec, outboundEnded, socket>>

-----------------------------------------------------------------------------
(* Calls of the API, in any turn *)

(***************************************************************************)
(* write and writePriority: nothing once the serializer was ended.         *)
(***************************************************************************)
Write(p) ==
    /\ phase["serializer"] = "open"
    /\ Deliver(<<Encode(p)>>)

WriteBundle(p) ==
    /\ phase["serializer"] = "open"
    /\ Deliver(<<Encode(Delimiter), Encode(p), Encode(Delimiter)>>)

(***************************************************************************)
(* writeRaw asks the compressor or the framer, never the serializer.       *)
(***************************************************************************)
WriteRaw(p) ==
    /\ phase[IF HasCompressor THEN "compressor" ELSE "framer"] = "open"
    /\ Deliver(<<EncodeRaw(p)>>)

(***************************************************************************)
(* set state: a fresh serializer replaces the old one, whose listeners are *)
(* removed, a pending 'end' among them.                                    *)
(***************************************************************************)
SetState(s) ==
    /\ state' = s
    /\ phase' = [phase EXCEPT !["serializer"] = "open"]
    /\ UNCHANGED <<threshold, ciphers, outboundEnded, socket, accepted, wire>>

SetCompressionThreshold(t) ==
    /\ threshold' = t
    /\ phase' = [phase EXCEPT !["compressor"] = IF HasCompressor THEN @ ELSE "open"]
    /\ UNCHANGED <<state, ciphers, outboundEnded, socket, accepted, wire>>

(***************************************************************************)
(* setEncryption: a second call reports an error, and replaces the cipher. *)
(***************************************************************************)
SetEncryption ==
    /\ sock # "none"
    /\ Len(ciphers) < MaxCiphers
    /\ ciphers' = Append(ciphers, "open")
    /\ UNCHANGED <<codec, phase, outboundEnded, socket, accepted, wire>>

(* Fault: end() arms no timer. *)
EndWithoutTimer ==
    /\ ending' = TRUE
    /\ phase' = [phase EXCEPT !["serializer"] = EndOf(@)]
    /\ UNCHANGED <<codec, ciphers, outboundEnded, ended, sock, closeTimers,
                   accepted, wire>>

(***************************************************************************)
(* end: the data ends behind the last frame, and a timer destroys a socket *)
(* that does not close.                                                    *)
(***************************************************************************)
End ==
    /\ ending' = TRUE
    /\ phase' = [phase EXCEPT !["serializer"] = EndOf(@)]
    /\ IF sock = "none"
       THEN UNCHANGED closeTimers
       ELSE closeTimers < MaxTimers /\ closeTimers' = closeTimers + 1
    /\ UNCHANGED <<codec, ciphers, outboundEnded, ended, sock, accepted, wire>>

(* Fault: what was written before the socket came waits for nothing. *)
SetSocketUndrained ==
    /\ sock = "none"
    /\ sock' = "open"
    /\ ended' = FALSE
    /\ ending' = FALSE
    /\ UNCHANGED <<codec, streams, outboundEnded, closeTimers, accepted, wire>>

(***************************************************************************)
(* setSocket, called once per client (tcp_dns.js, server.js); what was     *)
(* written and ended before is drained now.                                *)
(***************************************************************************)
SetSocket ==
    /\ sock = "none"
    /\ sock' = "open"
    /\ ended' = FALSE
    /\ ending' = FALSE
    /\ Drain(queue, outboundEnded, TRUE, FALSE)
    /\ UNCHANGED <<codec, streams, outboundEnded, closeTimers, accepted>>

-----------------------------------------------------------------------------
(* Stream 'end' events, one tick each, before anything the event loop      *)
(* brings in                                                               *)

SerializerEnd ==
    /\ phase["serializer"] = "ending"
    /\ LET next == IF HasCompressor THEN "compressor" ELSE "framer"
       IN  phase' = [phase EXCEPT !["serializer"] = "ended", ![next] = EndOf(@)]
    /\ UNCHANGED <<codec, ciphers, outboundEnded, socket, accepted, wire>>

CompressorEnd ==
    /\ phase["compressor"] = "ending"
    /\ phase' = [phase EXCEPT !["compressor"] = "ended", !["framer"] = EndOf(@)]
    /\ UNCHANGED <<codec, ciphers, outboundEnded, socket, accepted, wire>>

(***************************************************************************)
(* _finishOutbound                                                         *)
(***************************************************************************)
FinishOutbound ==
    /\ outboundEnded' = TRUE
    /\ Drain(queue, TRUE, CanWrite, needDrain)

FramerEnd ==
    /\ phase["framer"] = "ending"
    /\ phase' = [phase EXCEPT !["framer"] = "ended"]
    /\ IF HasCipher
       THEN /\ ciphers' = [ciphers EXCEPT ![Len(ciphers)] = EndOf(@)]
            /\ UNCHANGED <<outboundEnded, wire>>
       ELSE /\ FinishOutbound
            /\ UNCHANGED ciphers
    /\ UNCHANGED <<codec, socket, accepted>>

CipherEnd ==
    /\ \E c \in DOMAIN ciphers :
          /\ ciphers[c] = "ending"
          /\ ciphers' = [ciphers EXCEPT ![c] = "ended"]
    /\ FinishOutbound
    /\ UNCHANGED <<codec, phase, socket, accepted>>

Tick == SerializerEnd \/ CompressorEnd \/ FramerEnd \/ CipherEnd

(***************************************************************************)
(* No 'end' event is pending: the turn is over and the event loop may      *)
(* deliver socket events and timers.                                       *)
(***************************************************************************)
Quiet ==
    /\ \A s \in Stage : phase[s] # "ending"
    /\ \A c \in DOMAIN ciphers : ciphers[c] # "ending"

-----------------------------------------------------------------------------
(* Socket events and timers *)

(***************************************************************************)
(* endSocket, once: the backlog is dropped and the newest timer cleared.   *)
(***************************************************************************)
EndSocket ==
    IF ended
    THEN UNCHANGED <<ended, queue, closeTimers>>
    ELSE /\ ended' = TRUE
         /\ queue' = <<>>
         /\ closeTimers' = IF closeTimers = 0 THEN 0 ELSE closeTimers - 1

(* Fault: 'drain' clears the flag and resumes nothing. *)
SocketDrainIdle ==
    /\ Quiet
    /\ sock = "open" /\ ~fin /\ needDrain
    /\ needDrain' = FALSE
    /\ UNCHANGED <<codec, streams, outboundEnded, socket, accepted, queue, sent,
                   fin>>

(***************************************************************************)
(* The socket has room again; a dead connection does not write to it.      *)
(***************************************************************************)
SocketDrain ==
    /\ Quiet
    /\ sock = "open" /\ ~fin /\ needDrain
    /\ Drain(queue, outboundEnded, ~ended, FALSE)
    /\ UNCHANGED <<codec, streams, outboundEnded, socket, accepted>>

(***************************************************************************)
(* The operating system or a consumer takes the socket away; its 'error'   *)
(* and 'close' events follow.                                              *)
(***************************************************************************)
SocketBreaks ==
    /\ Quiet
    /\ sock = "open"
    /\ sock' = "destroyed"
    /\ UNCHANGED <<codec, streams, outboundEnded, ended, ending, closeTimers,
                   accepted, wire>>

SocketError ==
    /\ Quiet
    /\ sock = "destroyed"
    /\ EndSocket
    /\ UNCHANGED <<codec, streams, outboundEnded, ending, sock, accepted, sent,
                   fin, needDrain>>

SocketClose ==
    /\ Quiet
    /\ sock = "destroyed"
    /\ sock' = "closed"
    /\ EndSocket
    /\ UNCHANGED <<codec, streams, outboundEnded, ending, accepted, sent, fin,
                   needDrain>>

(***************************************************************************)
(* The peer's FIN; the socket closes its own side by itself.               *)
(***************************************************************************)
SocketEnd ==
    /\ Quiet
    /\ sock = "open"
    /\ sock' = "destroyed"
    /\ EndSocket
    /\ UNCHANGED <<codec, streams, outboundEnded, ending, accepted, sent, fin,
                   needDrain>>

(***************************************************************************)
(* An idle 'timeout' ends the client and leaves the socket open.           *)
(***************************************************************************)
SocketTimeout ==
    /\ Quiet
    /\ sock = "open"
    /\ EndSocket
    /\ UNCHANGED <<codec, streams, outboundEnded, ending, sock, accepted, sent,
                   fin, needDrain>>

(***************************************************************************)
(* The 30 s timer of end() destroys the socket.                            *)
(***************************************************************************)
CloseTimeout ==
    /\ Quiet
    /\ closeTimers > 0
    /\ closeTimers' = closeTimers - 1
    /\ sock' = IF sock = "open" THEN "destroyed" ELSE sock
    /\ UNCHANGED <<codec, streams, outboundEnded, ended, ending, accepted, wire>>

-----------------------------------------------------------------------------

Call ==
    \/ \E p \in Packet : Write(p) \/ WriteBundle(p) \/ WriteRaw(p)
    \/ \E s \in ProtoState : SetState(s)
    \/ \E t \in Threshold : SetCompressionThreshold(t)
    \/ SetEncryption
    \/ End
    \/ SetSocket

SocketEvent ==
    \/ SocketDrain \/ SocketBreaks \/ SocketError \/ SocketClose
    \/ SocketEnd \/ SocketTimeout \/ CloseTimeout

Next == Call \/ Tick \/ SocketEvent

Spec == Init /\ [][Next]_vars

(***************************************************************************)
(* Node runs every pending tick.  Turns are finite, so the event loop is   *)
(* reached again and again, and fires an armed timer and reports the close *)
(* of a destroyed socket even if each turn calls end() anew: strong        *)
(* fairness.                                                               *)
(***************************************************************************)
Fairness == WF_vars(Tick) /\ SF_vars(CloseTimeout) /\ SF_vars(SocketClose)

FairSpec == Spec /\ Fairness

(***************************************************************************)
(* A peer that keeps reading makes room in the socket: not assumed of      *)
(* every peer, but a premise of BacklogDrains.                             *)
(***************************************************************************)
PeerReads == SF_vars(SocketDrain)

-----------------------------------------------------------------------------
(* Properties *)

(***************************************************************************)
(* setSocket ran and the connection was not lost since.                    *)
(***************************************************************************)
Dead == sock # "none" /\ ended

(***************************************************************************)
(* No frame is lost, replayed, reordered or encoded again while the        *)
(* connection lives: the bytes on the wire followed by the backlog are     *)
(* what was accepted, each with the codec of the moment of its write.      *)
(***************************************************************************)
NoLoss == ~Dead => sent \o queue = accepted

(***************************************************************************)
(* Even a connection that died has put a prefix of the accepted frames on  *)
(* the wire: the peer never sees a gap.                                    *)
(***************************************************************************)
WireIsPrefix == IsPrefix(sent, accepted)

(***************************************************************************)
(* The socket is ended behind the last frame ever accepted.                *)
(***************************************************************************)
FinAfterAll == fin => sent = accepted

(***************************************************************************)
(* A backlog on a live socket always waits for a 'drain' that will come:   *)
(* no switch of state, codec or transport leaves it without a wakeup.      *)
(***************************************************************************)
NoLostWakeup == CanWrite /\ queue # <<>> => needDrain

(***************************************************************************)
(* Once the end of the data went through the transforms, only a backlog    *)
(* keeps a live socket from being ended.                                   *)
(***************************************************************************)
NoForgottenFin == CanWrite /\ outboundEnded => queue # <<>>

(***************************************************************************)
(* After 'end' the socket is never written to again, so a late 'drain'     *)
(* cannot produce a spurious error.                                        *)
(***************************************************************************)
SilentAfterEnd == [][Dead => UNCHANGED <<sent, fin>>]_vars

(***************************************************************************)
(* end() on a connected client always leads to 'end', however often the    *)
(* state is switched and whatever the peer does.                           *)
(***************************************************************************)
EndTerminates == (ending /\ sock # "none") ~> ended

(***************************************************************************)
(* With a peer that keeps reading, an accepted frame is transmitted unless *)
(* the connection is lost.                                                 *)
(***************************************************************************)
BacklogDrains ==
    PeerReads =>
        \A k \in 1..MaxFrames :
        (Len(accepted) >= k /\ sock # "none")
            ~> (Len(sent) >= k \/ ended \/ sock # "open")

(***************************************************************************)
(* The comment in end(): "Finish the wire FIFO before ending the socket".  *)
(* When the turn of an end() is over and nothing is queued, the socket was *)
(* ended.  A state switch in the same turn drops the pending 'end'.        *)
(***************************************************************************)
EndReachesSocket ==
    ending /\ Quiet /\ queue = <<>> /\ sock = "open" /\ ~ended => fin

(***************************************************************************)
(* This is an implementation of the wire FIFO.                             *)
(***************************************************************************)
Fifo == INSTANCE WireFifo WITH
    accepted <- accepted,
    sent <- sent,
    status <- IF Dead THEN "dead" ELSE IF fin THEN "finished" ELSE "open"

FifoSpec == Fifo!FifoSpec
=============================================================================
