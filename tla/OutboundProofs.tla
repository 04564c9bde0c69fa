--------------------------- MODULE OutboundProofs ---------------------------
(***************************************************************************)
(* Proofs about Outbound.tla for every set of packets, states, thresholds  *)
(* and every bound: its type invariant, its safety invariants, that a dead *)
(* connection is silent, and that it implements WireFifo.                  *)
(***************************************************************************)
EXTENDS Outbound, SequenceTheorems, TLAPS

-----------------------------------------------------------------------------
(* Prefixes *)

(***************************************************************************)
(* A sequence is a prefix of everything that continues it.                 *)
(***************************************************************************)
LEMMA PrefixOfConcat ==
    ASSUME NEW S, NEW s \in Seq(S), NEW t \in Seq(S)
    PROVE  IsPrefix(s, s \o t)
<1>1. /\ s \o t \in Seq(S)
      /\ Len(s \o t) = Len(s) + Len(t)
      /\ Len(s) \in Nat /\ Len(t) \in Nat
    BY ConcatProperties, LenProperties
<1>2. SubSeq(s, 1, Len(s)) = SubSeq(s \o t, 1, Len(s))
    <2>1. CASE s = <<>>
        BY <2>1, SubSeqEmpty
    <2>2. CASE s # <<>>
        <3>1. Len(s) \in Nat \ {0}
            BY <2>2, EmptySeq
        <3> QED
            BY <3>1, SubSeqOfConcat1
    <2> QED
        BY <2>1, <2>2
<1> QED
    BY <1>1, <1>2 DEF IsPrefix

(***************************************************************************)
(* Every sequence is a prefix of itself.                                   *)
(***************************************************************************)
LEMMA PrefixReflexive ==
    ASSUME NEW S, NEW s \in Seq(S)
    PROVE  IsPrefix(s, s)
BY LenProperties DEF IsPrefix

(***************************************************************************)
(* A prefix of a prefix is a prefix.                                       *)
(***************************************************************************)
LEMMA PrefixTransitive ==
    ASSUME NEW S, NEW s \in Seq(S), NEW t \in Seq(S), NEW u \in Seq(S),
           IsPrefix(s, t), IsPrefix(t, u)
    PROVE  IsPrefix(s, u)
<1>1. Len(s) \in Nat /\ Len(t) \in Nat /\ Len(u) \in Nat
    BY LenProperties
<1>2. /\ Len(s) <= Len(t) /\ Len(t) <= Len(u)
      /\ SubSeq(s, 1, Len(s)) = SubSeq(t, 1, Len(s))
      /\ SubSeq(t, 1, Len(t)) = SubSeq(u, 1, Len(t))
    BY DEF IsPrefix
<1>3. \A i \in 1..Len(t) : t[i] = u[i]
    <2>1. TAKE i \in 1..Len(t)
    <2>2. /\ SubSeq(t, 1, Len(t))[i] = t[i]
          /\ SubSeq(u, 1, Len(t))[i] = u[i]
        BY <1>1, <1>2, <2>1, ElementOfSeq, SubSeqProperties
    <2> QED
        BY <1>2, <2>2
<1>4. SubSeq(t, 1, Len(s)) = SubSeq(u, 1, Len(s))
    <2>1. /\ SubSeq(t, 1, Len(s)) \in Seq(S) /\ SubSeq(u, 1, Len(s)) \in Seq(S)
          /\ Len(SubSeq(t, 1, Len(s))) = Len(s) /\ Len(SubSeq(u, 1, Len(s))) = Len(s)
          /\ \A i \in 1..Len(s) : SubSeq(t, 1, Len(s))[i] = t[i]
          /\ \A i \in 1..Len(s) : SubSeq(u, 1, Len(s))[i] = u[i]
        BY <1>1, <1>2, ElementOfSeq, SubSeqProperties
    <2> QED
        BY <2>1, <1>1, <1>2, <1>3, SeqEqual
<1> QED
    BY <1>1, <1>2, <1>4 DEF IsPrefix

(***************************************************************************)
(* Concatenation of frames is associative.                                 *)
(***************************************************************************)
LEMMA FrameConcat ==
    \A s, t, u \in Seq(Frame) : (s \o t) \o u = s \o (t \o u)
BY ConcatAssociative

-----------------------------------------------------------------------------
(* The drain loop *)

(***************************************************************************)
(* The drain loop moves a prefix of the queue to the wire, leaves a        *)
(* backlog only behind a full socket, and ends the socket exactly when the *)
(* end of the data was reached and nothing is left.                        *)
(***************************************************************************)
LEMMA DrainFacts ==
    ASSUME NEW q \in Seq(Frame), NEW oe \in BOOLEAN, NEW mayRun \in BOOLEAN,
           NEW full \in BOOLEAN,
           sent \in Seq(Frame), fin \in BOOLEAN,
           Drain(q, oe, mayRun, full)
    PROVE  /\ sent' \in Seq(Frame) /\ queue' \in Seq(Frame)
           /\ needDrain' \in BOOLEAN /\ fin' \in BOOLEAN
           /\ sent' \o queue' = sent \o q
           /\ IsPrefix(sent, sent')
           /\ ~mayRun => /\ sent' = sent /\ fin' = fin
                         /\ queue' = q /\ needDrain' = full
           /\ mayRun => fin' = (oe /\ queue' = <<>>)
           /\ mayRun /\ queue' # <<>> => needDrain'
<1>1. CASE ~mayRun
    BY <1>1, PrefixReflexive DEF Drain
<1>2. CASE mayRun
    <2>1. PICK n \in 0..Len(q) :
              /\ n = 0 <=> (full \/ q = <<>>)
              /\ needDrain' \in IF n = 0 THEN {full}
                                ELSE IF n < Len(q) THEN {TRUE} ELSE BOOLEAN
              /\ sent' = sent \o SubSeq(q, 1, n)
              /\ queue' = SubSeq(q, n + 1, Len(q))
        BY <1>2 DEF Drain
    <2>2. fin' = (oe /\ queue' = <<>>)
        BY <1>2 DEF Drain
    <2>3. Len(q) \in Nat /\ \A i \in 1..Len(q) : q[i] \in Frame
        BY LenProperties, ElementOfSeq
    <2>4. SubSeq(q, 1, n) \in Seq(Frame) /\ SubSeq(q, n + 1, Len(q)) \in Seq(Frame)
        <3>1. \A i \in 1..n : q[i] \in Frame
            BY <2>3
        <3>2. \A i \in n + 1..Len(q) : q[i] \in Frame
            BY <2>3
        <3> QED
            BY <2>3, <3>1, <3>2, SubSeqProperties
    <2>5. SubSeq(q, 1, n) \o SubSeq(q, n + 1, Len(q)) = q
        <3>1. /\ 1 \in 1..Len(q) + 1
              /\ n \in 1 - 1..Len(q)
              /\ Len(q) \in n..Len(q)
            BY <2>3
        <3> QED
            BY <3>1, ConcatAdjacentSubSeq, SubSeqFull
    <2>6. sent' \o queue' = sent \o q
        <3> DEFINE A == SubSeq(q, 1, n)
                   B == SubSeq(q, n + 1, Len(q))
        <3>1. A \in Seq(Frame) /\ B \in Seq(Frame) /\ A \o B = q
            BY <2>4, <2>5
        <3>2. sent' = sent \o A /\ queue' = B
            BY <2>1
        <3> HIDE DEF A, B
        <3>3. (sent \o A) \o B = sent \o (A \o B)
            BY <3>1, FrameConcat
        <3> QED
            BY <3>1, <3>2, <3>3
    <2>7. sent' \in Seq(Frame)
        BY <2>1, <2>4, ConcatProperties
    <2>8. IsPrefix(sent, sent')
        BY <2>1, <2>4, PrefixOfConcat
    <2>9. needDrain' \in BOOLEAN
        BY <2>1
    <2>10. queue' # <<>> => needDrain'
        <3>1. SUFFICES ASSUME n = Len(q) PROVE queue' = <<>> \/ needDrain'
            <4>1. CASE n = 0
                <5>1. CASE q = <<>>
                    BY <5>1, <2>1, <2>3, SubSeqEmpty
                <5>2. CASE q # <<>>
                    BY <5>2, <4>1, <2>1
                <5> QED
                    BY <5>1, <5>2
            <4>2. CASE n # 0 /\ n < Len(q)
                BY <4>2, <2>1
            <4> QED
                BY <4>1, <4>2, <2>3, <3>1
        <3>2. queue' = <<>>
            BY <3>1, <2>1, <2>3, SubSeqEmpty
        <3> QED
            BY <3>2
    <2> QED
        BY <1>2, <2>1, <2>2, <2>4, <2>6, <2>7, <2>8, <2>9, <2>10
<1> QED
    BY <1>1, <1>2
-----------------------------------------------------------------------------
(* The inductive invariant *)

(***************************************************************************)
(* The end of the data travels behind the data: no cipher is ended, and    *)
(* the outbound side is not finished, before the framer has ended.         *)
(***************************************************************************)
FramerFirst ==
    /\ outboundEnded => phase["framer"] = "ended"
    /\ \A c \in DOMAIN ciphers :
          ciphers[c] \in {"ending", "ended"} => phase["framer"] = "ended"

(***************************************************************************)
(* Nothing was transmitted before the socket came.                         *)
(***************************************************************************)
Fresh == sock = "none" => ended /\ sent = <<>> /\ ~fin /\ ~needDrain

(***************************************************************************)
(* The socket is only ended behind the end of the data and the backlog.    *)
(***************************************************************************)
FinLast == fin => outboundEnded /\ queue = <<>>

(***************************************************************************)
(* The part of the invariant that relates the queue, the wire and the      *)
(* socket, and the whole of it.                                            *)
(***************************************************************************)
QueueInv ==
    /\ Fresh
    /\ FinLast
    /\ NoLoss
    /\ WireIsPrefix
    /\ FinAfterAll
    /\ NoLostWakeup
    /\ NoForgottenFin

IInv == TypeOK /\ FramerFirst /\ QueueInv

(* A client without a socket has accepted nothing and lost nothing. *)
LEMMA InitIInv == Init => IInv
<1> SUFFICES ASSUME Init PROVE IInv
    OBVIOUS
<1>1. TypeOK
    <2>1. <<>> \in Seq(Frame) /\ <<>> \in Seq(Phase) /\ Len(<<>>) = 0
        BY EmptySeq
    <2>2. phase \in [Stage -> Phase]
        BY DEF Init, Stage, Phase
    <2>3. /\ queue \in Seq(Frame) /\ accepted \in Seq(Frame)
          /\ sent \in Seq(Frame) /\ ciphers \in Seq(Phase)
        BY <2>1 DEF Init
    <2>4. Len(ciphers) <= MaxCiphers
        BY <2>1, OutboundAssumption DEF Init
    <2>5. state \in ProtoState /\ closeTimers \in 0..MaxTimers
        BY OutboundAssumption DEF Init
    <2>6. threshold \in Threshold \union {NoCompressor}
        BY DEF Init
    <2>7. /\ outboundEnded \in BOOLEAN /\ ended \in BOOLEAN /\ ending \in BOOLEAN
          /\ fin \in BOOLEAN /\ needDrain \in BOOLEAN
          /\ sock \in {"none", "open", "destroyed", "closed"}
        BY DEF Init
    <2> QED
        BY <2>2, <2>3, <2>4, <2>5, <2>6, <2>7 DEF TypeOK
<1>2. FramerFirst
    BY DEF Init, FramerFirst, Stage
<1>3. QueueInv
    <2>1. IsPrefix(sent, accepted)
        BY EmptySeq, PrefixReflexive DEF Init
    <2>2. sent \o queue = accepted
        BY EmptySeq, ConcatEmptySeq DEF Init
    <2> QED
        BY <2>1, <2>2 DEF Init, QueueInv, Fresh, FinLast, NoLoss, WireIsPrefix,
           FinAfterAll, NoLostWakeup, NoForgottenFin, CanWrite
<1> QED
    BY <1>1, <1>2, <1>3 DEF IInv

(***************************************************************************)
(* What no step undoes: frames once accepted or sent stay so, nothing      *)
(* changes on the wire behind a FIN or the loss of the connection, and a   *)
(* connection is not lost by the step that accepts or transmits.           *)
(***************************************************************************)
Monotone ==
    /\ IsPrefix(accepted, accepted')
    /\ IsPrefix(sent, sent')
    /\ fin => fin' /\ accepted' = accepted /\ sent' = sent
    /\ Dead => Dead' /\ sent' = sent /\ fin' = fin
    /\ ~Dead /\ Dead' => accepted' = accepted /\ sent' = sent

(***************************************************************************)
(* What concerns the queue survives a step that touches neither the queue  *)
(* nor the wire, and at most destroys the socket.                          *)
(***************************************************************************)
LEMMA QueueFrame ==
    ASSUME TypeOK, QueueInv,
           UNCHANGED <<outboundEnded, ended, accepted, wire>>,
           sock' = sock \/ (sock = "open" /\ sock' = "destroyed")
    PROVE  QueueInv' /\ Monotone
<1>1. QueueInv'
    BY DEF QueueInv, Fresh, FinLast, NoLoss, Dead, WireIsPrefix, FinAfterAll,
       NoLostWakeup, NoForgottenFin, CanWrite, wire
<1>2. IsPrefix(accepted, accepted') /\ IsPrefix(sent, sent')
    BY PrefixReflexive DEF TypeOK, wire
<1> QED
    BY <1>1, <1>2 DEF Monotone, Dead, wire

(***************************************************************************)
(* It survives endSocket, which drops the backlog.                         *)
(***************************************************************************)
LEMMA QueueEnd ==
    ASSUME TypeOK, QueueInv, EndSocket,
           UNCHANGED <<outboundEnded, accepted, sent, fin, needDrain>>,
           sock # "none", sock' # "none"
    PROVE  QueueInv' /\ Monotone
<1>1. ended'
    BY DEF EndSocket, TypeOK
<1>2. FinLast'
    BY DEF EndSocket, QueueInv, FinLast
<1>3. QueueInv'
    BY <1>1, <1>2 DEF QueueInv, Fresh, NoLoss, Dead, WireIsPrefix, FinAfterAll,
       NoLostWakeup, NoForgottenFin, CanWrite
<1>4. IsPrefix(accepted, accepted') /\ IsPrefix(sent, sent')
    BY PrefixReflexive DEF TypeOK
<1> QED
    BY <1>1, <1>3, <1>4 DEF Monotone, Dead

(***************************************************************************)
(* It survives the drain loop on a queue that holds what was accepted and  *)
(* not yet transmitted.                                                    *)
(***************************************************************************)
LEMMA QueueDrain ==
    ASSUME TypeOK, QueueInv,
           NEW q \in Seq(Frame), NEW oe \in BOOLEAN, NEW mayRun \in BOOLEAN,
           NEW full \in BOOLEAN,
           Drain(q, oe, mayRun, full),
           outboundEnded' = oe, outboundEnded => oe,
           accepted' \in Seq(Frame), IsPrefix(accepted, accepted'),
           ~Dead => sent \o q = accepted',
           IsPrefix(sent, accepted'),
           fin => q = <<>> /\ accepted' = accepted,
           mayRun => ~fin /\ ~Dead,
           sock' = "none" => ~mayRun /\ ended' /\ ~full /\ sock = "none",
           CanWrite' => mayRun,
           Dead' <=> Dead
    PROVE  QueueInv' /\ Monotone
<1> USE DEF TypeOK
<1>1. /\ sent' \in Seq(Frame) /\ queue' \in Seq(Frame)
      /\ sent' \o queue' = sent \o q
      /\ IsPrefix(sent, sent')
      /\ ~mayRun => /\ sent' = sent /\ fin' = fin
                    /\ queue' = q /\ needDrain' = full
      /\ mayRun => fin' = (oe /\ queue' = <<>>)
      /\ mayRun /\ queue' # <<>> => needDrain'
    BY DrainFacts
<1>2. Fresh'
    BY <1>1 DEF QueueInv, Fresh
<1>3. FinLast'
    BY <1>1 DEF QueueInv, FinLast
<1>4. NoLoss'
    BY <1>1 DEF NoLoss
<1>5. WireIsPrefix'
    <2>1. CASE mayRun
        <3>1. sent' \o queue' = accepted'
            BY <1>1, <2>1
        <3>2. IsPrefix(sent', sent' \o queue')
            BY <1>1, PrefixOfConcat
        <3> QED
            BY <3>1, <3>2 DEF WireIsPrefix
    <2>2. CASE ~mayRun
        BY <2>2, <1>1 DEF WireIsPrefix
    <2> QED
        BY <2>1, <2>2
<1>6. FinAfterAll'
    <2>1. CASE mayRun /\ fin'
        <3>1. sent' \o <<>> = accepted'
            BY <1>1, <2>1
        <3> QED
            BY <3>1, <1>1, ConcatEmptySeq DEF FinAfterAll
    <2>2. CASE ~mayRun
        BY <2>2, <1>1 DEF QueueInv, FinAfterAll
    <2> QED
        BY <2>1, <2>2 DEF FinAfterAll
<1>7. NoLostWakeup'
    BY <1>1 DEF NoLostWakeup
<1>8. NoForgottenFin'
    BY <1>1 DEF NoForgottenFin, CanWrite
<1>9. Monotone
    BY <1>1 DEF Monotone
<1> QED
    BY <1>2, <1>3, <1>4, <1>5, <1>6, <1>7, <1>8, <1>9 DEF QueueInv

-----------------------------------------------------------------------------
(* Every step *)

(***************************************************************************)
(* A write either accepts its frames or breaks a stream.                   *)
(***************************************************************************)
LEMMA DeliverStep ==
    ASSUME IInv, NEW frames \in Seq(Frame), Deliver(frames)
    PROVE  IInv' /\ Monotone
<1> USE DEF IInv, TypeOK
<1>1. CASE UNCHANGED <<ciphers, accepted, wire>>
    <2>1. phase' \in [Stage -> Phase] /\ (phase["framer"] = "ended" => phase'["framer"] = "ended")
        BY DEF Deliver, WriteOn, Shut, Stage, Phase, streams
    <2>2. UNCHANGED <<state, threshold, ciphers, queue, outboundEnded, ended,
                      ending, sock, fin, needDrain, closeTimers, accepted, sent>>
        BY <1>1 DEF Deliver, codec, socket, wire
    <2>3. TypeOK'
        BY <2>1, <2>2
    <2>4. FramerFirst'
        BY <2>1, <2>2 DEF FramerFirst
    <2>5. QueueInv' /\ Monotone
        BY <2>2, QueueFrame DEF wire
    <2> QED
        BY <2>3, <2>4, <2>5
<1>2. CASE /\ ~Shut(phase["framer"])
           /\ accepted' = accepted \o frames
           /\ Drain(queue \o frames, outboundEnded, CanWrite, needDrain)
           /\ UNCHANGED streams
    <2>1. UNCHANGED <<state, threshold, phase, ciphers, outboundEnded, ended,
                      ending, sock, closeTimers>>
        BY <1>2 DEF Deliver, codec, socket, streams
    <2>2. ~outboundEnded /\ ~fin
        BY <1>2 DEF FramerFirst, QueueInv, FinLast, Shut
    <2>3. queue \o frames \in Seq(Frame) /\ accepted' \in Seq(Frame)
        BY <1>2, ConcatProperties
    <2>4. IsPrefix(accepted, accepted')
        BY <1>2, PrefixOfConcat
    <2>5. ~Dead => sent \o (queue \o frames) = accepted'
        <3>1. (sent \o queue) \o frames = sent \o (queue \o frames)
            BY FrameConcat
        <3> QED
            BY <3>1, <1>2 DEF QueueInv, NoLoss
    <2>6. IsPrefix(sent, accepted')
        BY <2>3, <2>4, PrefixTransitive DEF QueueInv, WireIsPrefix
    <2>7. CanWrite \in BOOLEAN /\ (CanWrite => ~fin /\ ~Dead)
        BY DEF CanWrite, Dead
    <2>8. (Dead' <=> Dead) /\ (CanWrite' => CanWrite)
        BY <2>1, <2>2 DEF Dead, CanWrite
    <2>9. sock' = "none" => ~CanWrite /\ ended' /\ ~needDrain /\ sock = "none"
        BY <2>1 DEF QueueInv, Fresh, CanWrite
    <2>10. QueueInv' /\ Monotone
        BY <1>2, <2>1, <2>2, <2>3, <2>4, <2>5, <2>6, <2>7, <2>8, <2>9, QueueDrain
    <2>11. TypeOK'
        BY <1>2, <2>1, <2>3, <2>7, DrainFacts
    <2>12. FramerFirst'
        BY <2>1 DEF FramerFirst
    <2> QED
        BY <2>10, <2>11, <2>12
<1> QED
    BY <1>1, <1>2 DEF Deliver
(***************************************************************************)
(* A drain outside a write accepts nothing.                                *)
(***************************************************************************)
LEMMA DrainStep ==
    ASSUME TypeOK, QueueInv, NEW oe \in BOOLEAN, NEW mayRun \in BOOLEAN,
           NEW full \in BOOLEAN,
           Drain(queue, oe, mayRun, full),
           outboundEnded' = oe, outboundEnded => oe,
           accepted' = accepted,
           mayRun => ~fin /\ ~Dead,
           sock' = "none" => ~mayRun /\ ended' /\ ~full /\ sock = "none",
           CanWrite' => mayRun,
           Dead' <=> Dead
    PROVE  /\ QueueInv' /\ Monotone
           /\ sent' \in Seq(Frame) /\ queue' \in Seq(Frame)
           /\ needDrain' \in BOOLEAN /\ fin' \in BOOLEAN
<1>1. /\ sent' \in Seq(Frame) /\ queue' \in Seq(Frame)
      /\ needDrain' \in BOOLEAN /\ fin' \in BOOLEAN
    BY DrainFacts DEF TypeOK
<1>2. /\ queue \in Seq(Frame) /\ accepted' \in Seq(Frame)
      /\ IsPrefix(accepted, accepted')
      /\ ~Dead => sent \o queue = accepted'
      /\ IsPrefix(sent, accepted')
      /\ fin => queue = <<>>
    BY PrefixReflexive DEF TypeOK, QueueInv, NoLoss, WireIsPrefix, FinLast
<1>3. QueueInv' /\ Monotone
    BY <1>2, QueueDrain
<1> QED
    BY <1>1, <1>3

(***************************************************************************)
(* _finishOutbound notes the end of the data and drains.                   *)
(***************************************************************************)
LEMMA FinishFacts ==
    ASSUME TypeOK, QueueInv, outboundEnded' = TRUE,
           Drain(queue, TRUE, CanWrite, needDrain),
           UNCHANGED <<ended, sock, accepted>>
    PROVE  /\ QueueInv' /\ Monotone
           /\ sent' \in Seq(Frame) /\ queue' \in Seq(Frame)
           /\ needDrain' \in BOOLEAN /\ fin' \in BOOLEAN
<1>1. /\ CanWrite \in BOOLEAN
      /\ CanWrite => ~fin /\ ~Dead
      /\ sock' = "none" => ~CanWrite /\ ended' /\ ~needDrain /\ sock = "none"
      /\ Dead' <=> Dead
    BY DEF CanWrite, Dead, QueueInv, Fresh, TypeOK
<1>2. CanWrite' => CanWrite
    <2>1. ~CanWrite /\ ~ended /\ sock = "open" => fin'
        BY DrainFacts, <1>1 DEF CanWrite, TypeOK
    <2> QED
        BY <2>1 DEF CanWrite
<1> QED
    BY <1>1, <1>2, DrainStep DEF TypeOK

(***************************************************************************)
(* The calls of the API.                                                   *)
(***************************************************************************)
LEMMA CallStep ==
    ASSUME IInv, Call
    PROVE  IInv' /\ Monotone
<1> USE DEF IInv, TypeOK
<1>1. ASSUME NEW p \in Packet, Write(p) \/ WriteBundle(p) \/ WriteRaw(p)
      PROVE  IInv' /\ Monotone
    <2>1. /\ Encode(p) \in Frame /\ Encode(Delimiter) \in Frame
          /\ EncodeRaw(p) \in Frame
        BY LenProperties DEF Encode, EncodeRaw, Frame
    <2>2. /\ <<Encode(p)>> \in Seq(Frame) /\ <<EncodeRaw(p)>> \in Seq(Frame)
          /\ <<Encode(Delimiter), Encode(p), Encode(Delimiter)>> \in Seq(Frame)
        BY <2>1
    <2> QED
        BY <1>1, <2>2, DeliverStep DEF Write, WriteBundle, WriteRaw
<1>2. ASSUME NEW s \in ProtoState, SetState(s)
      PROVE  IInv' /\ Monotone
    <2>1. TypeOK' /\ FramerFirst'
        BY <1>2 DEF SetState, socket, wire, FramerFirst, Stage, Phase
    <2>2. QueueInv' /\ Monotone
        BY <1>2, QueueFrame DEF SetState, socket
    <2> QED
        BY <2>1, <2>2
<1>3. ASSUME NEW t \in Threshold, SetCompressionThreshold(t)
      PROVE  IInv' /\ Monotone
    <2>1. TypeOK' /\ FramerFirst'
        BY <1>3 DEF SetCompressionThreshold, socket, wire, FramerFirst, Stage, Phase
    <2>2. QueueInv' /\ Monotone
        BY <1>3, QueueFrame DEF SetCompressionThreshold, socket
    <2> QED
        BY <2>1, <2>2
<1>4. ASSUME SetEncryption
      PROVE  IInv' /\ Monotone
    <2>1. /\ ciphers' \in Seq(Phase) /\ Len(ciphers') <= MaxCiphers
          /\ \A c \in DOMAIN ciphers' :
                ciphers'[c] \in {"ending", "ended"} =>
                    c \in DOMAIN ciphers /\ ciphers[c] = ciphers'[c]
        <3>1. /\ ciphers' \in Seq(Phase) /\ Len(ciphers') = Len(ciphers) + 1
              /\ \A c \in 1..Len(ciphers) : ciphers'[c] = ciphers[c]
              /\ ciphers'[Len(ciphers) + 1] = "open"
            BY <1>4, AppendProperties DEF SetEncryption, Phase
        <3>2. Len(ciphers) \in Nat /\ DOMAIN ciphers = 1..Len(ciphers)
              /\ DOMAIN ciphers' = 1..Len(ciphers')
            BY <3>1, LenProperties
        <3> QED
            BY <1>4, <3>1, <3>2, OutboundAssumption DEF SetEncryption
    <2>2. TypeOK'
        BY <1>4, <2>1 DEF SetEncryption, codec, socket, wire
    <2>3. FramerFirst'
        BY <1>4, <2>1 DEF SetEncryption, FramerFirst
    <2>4. QueueInv' /\ Monotone
        BY <1>4, QueueFrame DEF SetEncryption, socket
    <2> QED
        BY <2>2, <2>3, <2>4
<1>5. ASSUME End
      PROVE  IInv' /\ Monotone
    <2>1. closeTimers' \in 0..MaxTimers
        BY <1>5, OutboundAssumption DEF End
    <2>2. TypeOK' /\ FramerFirst'
        BY <1>5, <2>1 DEF End, EndOf, codec, wire, FramerFirst, Stage, Phase
    <2>3. QueueInv' /\ Monotone
        BY <1>5, QueueFrame DEF End
    <2> QED
        BY <2>2, <2>3
<1>6. ASSUME SetSocket
      PROVE  IInv' /\ Monotone
    <2>1. /\ QueueInv' /\ Monotone
          /\ sent' \in Seq(Frame) /\ queue' \in Seq(Frame)
          /\ needDrain' \in BOOLEAN /\ fin' \in BOOLEAN
        BY <1>6, DrainStep DEF SetSocket, QueueInv, Fresh, Dead, CanWrite
    <2>2. TypeOK' /\ FramerFirst'
        BY <1>6, <2>1 DEF SetSocket, codec, streams, FramerFirst
    <2> QED
        BY <2>1, <2>2
<1> QED
    BY <1>1, <1>2, <1>3, <1>4, <1>5, <1>6 DEF Call

(***************************************************************************)
(* The 'end' events of the streams.                                        *)
(***************************************************************************)
LEMMA TickStep ==
    ASSUME IInv, Tick
    PROVE  IInv' /\ Monotone
<1> USE DEF IInv, TypeOK
<1>1. ASSUME SerializerEnd \/ CompressorEnd
      PROVE  IInv' /\ Monotone
    <2>1. /\ phase' \in [Stage -> Phase]
          /\ phase["framer"] = "ended" => phase'["framer"] = "ended"
        BY <1>1 DEF SerializerEnd, CompressorEnd, EndOf, Stage, Phase
    <2>2. UNCHANGED <<state, threshold, ciphers, queue, outboundEnded, ended,
                      ending, sock, fin, needDrain, closeTimers, accepted, sent>>
        BY <1>1 DEF SerializerEnd, CompressorEnd, codec, socket, wire
    <2>3. TypeOK' /\ FramerFirst'
        BY <2>1, <2>2 DEF FramerFirst
    <2>4. QueueInv' /\ Monotone
        BY <2>2, QueueFrame DEF wire
    <2> QED
        BY <2>3, <2>4
<1>2. ASSUME FramerEnd
      PROVE  IInv' /\ Monotone
    <2>1. phase' \in [Stage -> Phase] /\ phase'["framer"] = "ended"
        BY <1>2 DEF FramerEnd, Stage, Phase
    <2>2. UNCHANGED <<state, threshold, ended, ending, sock, closeTimers, accepted>>
        BY <1>2 DEF FramerEnd, codec, socket
    <2>3. CASE HasCipher
        <3>1. UNCHANGED <<outboundEnded, queue, fin, needDrain, sent>>
            BY <1>2, <2>3 DEF FramerEnd, wire
        <3>2. ciphers' \in Seq(Phase) /\ Len(ciphers') = Len(ciphers)
            <4>1. Len(ciphers) \in 1..Len(ciphers)
                BY <2>3, EmptySeq DEF HasCipher
            <4>2. ciphers[Len(ciphers)] \in Phase
                BY <4>1, ElementOfSeq
            <4>3. EndOf(ciphers[Len(ciphers)]) \in Phase
                BY <4>2 DEF EndOf, Phase
            <4> DEFINE n == Len(ciphers)
                       e == EndOf(ciphers[n])
            <4>4. ciphers' = [ciphers EXCEPT ![n] = e]
                BY <1>2, <2>3 DEF FramerEnd
            <4>5. n \in 1..Len(ciphers) /\ e \in Phase
                BY <4>1, <4>3
            <4> HIDE DEF n, e
            <4> QED
                BY <4>4, <4>5, ExceptSeq
        <3>3. TypeOK' /\ FramerFirst'
            BY <2>1, <2>2, <3>1, <3>2 DEF FramerFirst
        <3>4. QueueInv' /\ Monotone
            BY <2>2, <3>1, QueueFrame DEF wire
        <3> QED
            BY <3>3, <3>4
    <2>4. CASE ~HasCipher
        <3>1. /\ UNCHANGED ciphers
              /\ outboundEnded' = TRUE
              /\ Drain(queue, TRUE, CanWrite, needDrain)
            BY <1>2, <2>4 DEF FramerEnd, FinishOutbound
        <3>2. CanWrite \in BOOLEAN
            BY DEF CanWrite
        <3>3. /\ QueueInv' /\ Monotone
              /\ sent' \in Seq(Frame) /\ queue' \in Seq(Frame)
              /\ needDrain' \in BOOLEAN /\ fin' \in BOOLEAN
            BY <2>2, <3>1, <3>2, FinishFacts
        <3>4. TypeOK' /\ FramerFirst'
            BY <2>1, <2>2, <3>1, <3>3 DEF FramerFirst
        <3> QED
            BY <3>3, <3>4
    <2> QED
        BY <2>3, <2>4
<1>3. ASSUME CipherEnd
      PROVE  IInv' /\ Monotone
    <2>1. PICK c \in DOMAIN ciphers : /\ ciphers[c] = "ending"
                                      /\ ciphers' = [ciphers EXCEPT ![c] = "ended"]
        BY <1>3 DEF CipherEnd
    <2>2. /\ UNCHANGED <<state, threshold, phase, ended, ending, sock,
                         closeTimers, accepted>>
          /\ outboundEnded' = TRUE
          /\ Drain(queue, TRUE, CanWrite, needDrain)
        BY <1>3 DEF CipherEnd, FinishOutbound, codec, socket
    <2>3. phase["framer"] = "ended"
        BY <2>1 DEF FramerFirst
    <2>4. ciphers' \in Seq(Phase) /\ Len(ciphers') = Len(ciphers)
        BY <2>1, LenProperties, ExceptSeq DEF Phase
    <2>5. /\ QueueInv' /\ Monotone
          /\ sent' \in Seq(Frame) /\ queue' \in Seq(Frame)
          /\ needDrain' \in BOOLEAN /\ fin' \in BOOLEAN
        BY <2>2, FinishFacts
    <2>6. TypeOK' /\ FramerFirst'
        BY <2>2, <2>3, <2>4, <2>5 DEF FramerFirst
    <2> QED
        BY <2>5, <2>6
<1> QED
    BY <1>1, <1>2, <1>3 DEF Tick

(***************************************************************************)
(* The events of the socket and the timers.                                *)
(***************************************************************************)
LEMMA SocketStep ==
    ASSUME IInv, SocketEvent
    PROVE  IInv' /\ Monotone
<1> USE DEF IInv, TypeOK
<1>1. ASSUME SocketDrain
      PROVE  IInv' /\ Monotone
    <2>1. UNCHANGED <<state, threshold, phase, ciphers, outboundEnded, ended,
                      ending, sock, closeTimers, accepted>>
        BY <1>1 DEF SocketDrain, codec, streams, socket
    <2>2. sock = "open" /\ ~fin /\ Drain(queue, outboundEnded, ~ended, FALSE)
        BY <1>1 DEF SocketDrain
    <2>3. /\ QueueInv' /\ Monotone
          /\ sent' \in Seq(Frame) /\ queue' \in Seq(Frame)
          /\ needDrain' \in BOOLEAN /\ fin' \in BOOLEAN
        BY <2>1, <2>2, DrainStep DEF Dead, CanWrite
    <2>4. TypeOK' /\ FramerFirst'
        BY <2>1, <2>3 DEF FramerFirst
    <2> QED
        BY <2>3, <2>4
<1>2. ASSUME SocketBreaks \/ CloseTimeout
      PROVE  IInv' /\ Monotone
    <2>1. /\ UNCHANGED <<state, threshold, phase, ciphers, outboundEnded, ended,
                         ending, accepted, wire>>
          /\ sock' = sock \/ (sock = "open" /\ sock' = "destroyed")
          /\ closeTimers' \in 0..MaxTimers
        BY <1>2, OutboundAssumption DEF SocketBreaks, CloseTimeout, codec, streams
    <2>2. TypeOK' /\ FramerFirst'
        BY <2>1 DEF FramerFirst, wire
    <2>3. QueueInv' /\ Monotone
        BY <2>1, QueueFrame
    <2> QED
        BY <2>2, <2>3
<1>3. ASSUME SocketError \/ SocketClose \/ SocketEnd \/ SocketTimeout
      PROVE  IInv' /\ Monotone
    <2>1. /\ UNCHANGED <<state, threshold, phase, ciphers, outboundEnded,
                         ending, accepted, sent, fin, needDrain>>
          /\ EndSocket
          /\ sock \in {"open", "destroyed"}
          /\ sock' \in {"open", "destroyed", "closed"}
        BY <1>3 DEF SocketError, SocketClose, SocketEnd, SocketTimeout, codec, streams
    <2>2. /\ ended' \in BOOLEAN /\ queue' \in Seq(Frame)
          /\ closeTimers' \in 0..MaxTimers
        <3>1. <<>> \in Seq(Frame)
            BY EmptySeq
        <3>2. ended' \in BOOLEAN /\ queue' \in Seq(Frame)
            BY <2>1, <3>1 DEF EndSocket
        <3>3. closeTimers' \in 0..MaxTimers
            BY <2>1, OutboundAssumption DEF EndSocket
        <3> QED
            BY <3>2, <3>3
    <2>3. TypeOK' /\ FramerFirst'
        BY <2>1, <2>2 DEF FramerFirst
    <2>4. QueueInv' /\ Monotone
        BY <2>1, QueueEnd
    <2> QED
        BY <2>3, <2>4
<1> QED
    BY <1>1, <1>2, <1>3 DEF SocketEvent

(***************************************************************************)
(* The invariant is inductive, and every step is monotone.                 *)
(***************************************************************************)
LEMMA NextIInv ==
    ASSUME IInv, [Next]_vars
    PROVE  IInv' /\ Monotone
<1>1. CASE Next
    BY <1>1, CallStep, TickStep, SocketStep DEF Next
<1>2. CASE UNCHANGED vars
    <2>1. QueueInv' /\ Monotone
        BY <1>2, QueueFrame DEF IInv, vars, wire
    <2>2. TypeOK' /\ FramerFirst'
        BY <1>2 DEF IInv, TypeOK, FramerFirst, vars
    <2> QED
        BY <2>1, <2>2 DEF IInv
<1> QED
    BY <1>1, <1>2

(* The inductive invariant holds for every packet, state, threshold and bound. *)
LEMMA Invariance == Spec => []IInv
<1>1. IInv /\ [Next]_vars => IInv'
    BY NextIInv
<1> QED
    BY InitIInv, <1>1, PTL DEF Spec
-----------------------------------------------------------------------------
(* Theorems *)

(***************************************************************************)
(* Type correctness of the outbound half of client.js.                     *)
(***************************************************************************)
THEOREM TypeCorrect == Spec => []TypeOK
BY Invariance, PTL DEF IInv

(***************************************************************************)
(* The write queue of client.js loses, replays, reorders and re-encodes    *)
(* nothing while the connection lives, and a lost connection leaves a      *)
(* prefix on the wire.                                                     *)
(***************************************************************************)
THEOREM FramesInOrder == Spec => [](NoLoss /\ WireIsPrefix)
BY Invariance, PTL DEF IInv, QueueInv

(***************************************************************************)
(* _finishOutbound ends the socket behind the last frame, and as soon as   *)
(* the last frame left.                                                    *)
(***************************************************************************)
THEOREM FinInOrder == Spec => [](FinAfterAll /\ NoForgottenFin)
BY Invariance, PTL DEF IInv, QueueInv

(***************************************************************************)
(* A backlog of _drainWriteQueue always has a 'drain' event to come.       *)
(***************************************************************************)
THEOREM Wakeup == Spec => []NoLostWakeup
BY Invariance, PTL DEF IInv, QueueInv

(***************************************************************************)
(* After endSocket nothing reaches the socket any more.                    *)
(***************************************************************************)
THEOREM DeadIsSilent == Spec => SilentAfterEnd
<1>1. IInv /\ [Next]_vars => [Dead => UNCHANGED <<sent, fin>>]_vars
    BY NextIInv DEF Monotone
<1> QED
    BY Invariance, <1>1, PTL DEF Spec, SilentAfterEnd

(***************************************************************************)
(* The outbound half of client.js implements the FIFO of frames.           *)
(***************************************************************************)
THEOREM ImplementsFifo == Spec => FifoSpec
<1>1. Init => Fifo!FifoInit
    BY DEF Init, Fifo!FifoInit, Dead
<1>2. IInv /\ [Next]_vars => [Fifo!FifoNext]_(Fifo!fifoVars)
    <2> SUFFICES ASSUME IInv, [Next]_vars
                 PROVE  Fifo!FifoNext \/ UNCHANGED Fifo!fifoVars
        OBVIOUS
    <2>1. IInv' /\ Monotone
        BY NextIInv
    <2> \A s, t : Fifo!IsPrefix(s, t) <=> IsPrefix(s, t)
        BY DEF IsPrefix, Fifo!IsPrefix
    <2>2. CASE Dead
        <3>1. Fifo!Swallow
            <4>1. Dead' /\ sent' = sent /\ IsPrefix(accepted, accepted')
                BY <2>1, <2>2 DEF Monotone
            <4> QED
                BY <2>2, <4>1 DEF Fifo!Swallow
        <3> QED
            BY <3>1 DEF Fifo!FifoNext
    <2>3. CASE ~Dead /\ Dead'
        <3>1. Fifo!Die
            BY <2>1, <2>3 DEF Fifo!Die, Monotone
        <3> QED
            BY <3>1 DEF Fifo!FifoNext
    <2>4. CASE ~Dead /\ ~Dead' /\ fin
        BY <2>1, <2>4 DEF Fifo!fifoVars, Monotone
    <2>5. CASE ~Dead /\ ~Dead' /\ ~fin
        <3>1. IsPrefix(sent', accepted') /\ (fin' => sent' = accepted')
            BY <2>1 DEF IInv, QueueInv, WireIsPrefix, FinAfterAll
        <3>2. Fifo!Progress
            <4>1. IsPrefix(accepted, accepted') /\ IsPrefix(sent, sent')
                BY <2>1 DEF Monotone
            <4>2. CASE fin'
                BY <2>5, <3>1, <4>1, <4>2 DEF Fifo!Progress
            <4>3. CASE ~fin'
                BY <2>5, <3>1, <4>1, <4>3 DEF Fifo!Progress
            <4> QED
                BY <4>2, <4>3
        <3> QED
            BY <3>2 DEF Fifo!FifoNext
    <2> QED
        BY <2>2, <2>3, <2>4, <2>5
<1> QED
    BY Invariance, <1>1, <1>2, PTL DEF Spec, FifoSpec, Fifo!FifoSpec
=============================================================================
