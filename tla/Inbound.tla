------------------------------ MODULE Inbound ------------------------------
(***************************************************************************)
(* The inbound half of client.js, from the bytes of the socket to the      *)
(* events of the packets: the splitter, the parser and its replacement     *)
(* after a malformed packet or a switch of the state, the bundles.         *)
(*                                                                         *)
(* Everything in a turn of the event loop is synchronous down to the       *)
(* listener of the packet, with two exceptions: a parser hands nothing on  *)
(* before its first tick (a fresh one keeps what it parses), and the       *)
(* 'error' of one that failed comes a tick later.  `stack` is the loop     *)
(* that is running, `ticks` are the callbacks that run behind it, in their *)
(* order.  A frame arrives with its last byte; frames are numbered.        *)
(***************************************************************************)
EXTENDS Naturals, Sequences, SequencesExt

CONSTANTS
    FramesPerTick, \* MAX_FRAMES_PER_TICK
    BundleLimit,   \* 1024
    MaxFrames      \* bound: frames of the peer

ASSUME InboundAssumption ==
    {FramesPerTick, BundleLimit, MaxFrames} \subseteq Nat \ {0}

VARIABLES
    arrived,   \* frames so far
    queued,    \* frames of chunks that wait for the splitter's callback
    buffer,    \* splitter.buffer
    budget,    \* frames this turn may still push
    immediate, \* setImmediate(processFrames)
    held,      \* frames the splitter keeps while it is paused
    flowing,   \* the pipe from the splitter to the parser is not paused
    parser,    \* the deserializer
    ticks,     \* pending ticks
    stack,     \* the loop that runs
    bundle,    \* client._mcBundle
    reader,    \* live, or why nothing is read any more
    emitted,   \* history: the packets whose events were emitted
    gone,      \* history: frames that do not parse, and the bundle of one
    marks,     \* history: bundle delimiters read so far
    behindSwitch, \* history: frames came behind a switch in its turn
    broken     \* history: a bundle was cut short

splitterVars == <<queued, buffer, budget, immediate>>
pipeVars == <<held, flowing, parser, ticks>>
clientVars == <<bundle, reader>>
history == <<emitted, gone, marks, behindSwitch, broken>>
vars == <<arrived, splitterVars, pipeVars, clientVars, stack, history>>

(***************************************************************************)
(* What a frame turns out to be.  "switch" stands for each packet whose    *)
(* listener sets client.state, "throwing" for one whose listener throws;   *)
(* a "malformed" frame makes the parser fail, a "damaged" one ends early   *)
(* or does not inflate.                                                    *)
(***************************************************************************)
Kind == {"packet", "switch", "throwing", "delimiter", "malformed", "damaged"}

Parsable == Kind \ {"malformed", "damaged"}

FrameId == 1..MaxFrames

Packet == [id : FrameId, kind : Parsable, mark : 0..MaxFrames]

Fresh == [fresh |-> TRUE, failed |-> FALSE, packets |-> <<>>]

TypeOK ==
    /\ arrived \in 0..MaxFrames
    /\ {queued, buffer, held} \subseteq Seq(FrameId)
    /\ budget \in 0..FramesPerTick
    /\ immediate \in BOOLEAN
    /\ flowing \in BOOLEAN
    /\ parser \in [fresh : BOOLEAN, failed : BOOLEAN, packets : Seq(Packet)]
    /\ parser.failed => ~flowing
    /\ ticks \in Seq({"parser", "source", "error"})
    /\ stack \in {"none", "frames", "source", "parser"}
    /\ bundle \in Seq(Packet) /\ Len(bundle) <= BundleLimit
    /\ reader \in {"live", "destroyed", "wedged", "crashed"}
    /\ emitted \in Seq(Packet)
    /\ gone \subseteq FrameId
    /\ marks \in 0..MaxFrames
    /\ {behindSwitch, broken} \subseteq BOOLEAN

Init ==
    /\ arrived = 0
    /\ queued = <<>>
    /\ buffer = <<>>
    /\ budget = FramesPerTick
    /\ immediate = FALSE
    /\ held = <<>>
    /\ flowing = TRUE
    /\ parser = [Fresh EXCEPT !.fresh = FALSE]
    /\ ticks = <<>>
    /\ stack = "none"
    /\ bundle = <<>>
    /\ reader = "live"
    /\ emitted = <<>>
    /\ gone = {}
    /\ marks = 0
    /\ behindSwitch = FALSE
    /\ broken = FALSE

Running(loop) == reader = "live" /\ stack = loop

AtRest == Running("none") /\ ticks = <<>>

Ids(packets) == {packets[i].id : i \in DOMAIN packets}

-----------------------------------------------------------------------------
(* The events of a packet *)

(***************************************************************************)
(* Both pipe ends are resumed in a tick each.                              *)
(***************************************************************************)
Attached(pending) ==
    pending \o IF "source" \in Range(pending) THEN <<"parser">>
               ELSE <<"parser", "source">>

(* Fault: an opening delimiter is emitted and not remembered. *)
CollectUnopened(p) ==
    LET collected == Append(bundle, p)
    IN  IF p.kind = "delimiter" /\ bundle # <<>> THEN <<collected, <<>> >>
        ELSE IF bundle # <<>>
        THEN IF Len(collected) > BundleLimit THEN <<collected, <<>> >>
             ELSE <<<<>>, collected>>
        ELSE << <<p>>, <<>> >>

(***************************************************************************)
(* The deserializer's 'data' listener: the packets whose events it emits,  *)
(* and what it leaves in the bundle.  The delimiters themselves are packets*)
(* of the bundle.                                                          *)
(***************************************************************************)
Collect(p) ==
    LET collected == Append(bundle, p)
    IN  IF p.kind = "delimiter" /\ bundle # <<>> THEN <<collected, <<>> >>
        ELSE IF p.kind = "delimiter" \/ bundle # <<>>
        THEN IF Len(collected) > BundleLimit THEN <<collected, <<>> >>
             ELSE <<<<>>, collected>>
        ELSE << <<p>>, <<>> >>

(***************************************************************************)
(* A listener that throws aborts the loop that runs, unless it is called   *)
(* for a bundle.  Below the splitter its exception is caught there and     *)
(* destroys the splitter, or by the decompressor if the packet was         *)
(* deflated, and the parser's write never ends.  In a tick nobody catches. *)
(***************************************************************************)
Thrown == IF stack = "frames" THEN {"destroyed", "wedged"} ELSE {"crashed"}

(***************************************************************************)
(* Emits through a parser that is left as rest.  set state: a fresh parser *)
(* for the new state, no bundle; what the old one keeps is dropped.        *)
(***************************************************************************)
Emit(p, rest) ==
    LET out == Collect(p)[1]
        left == Collect(p)[2]
    IN  /\ emitted' = emitted \o out
        /\ bundle' = left
        /\ broken' = (broken \/ (Len(out) > BundleLimit /\ p.kind # "delimiter"))
        /\ IF out = <<p>> /\ p.kind = "throwing"
           THEN reader' \in Thrown ELSE reader' = reader
        /\ IF \E i \in DOMAIN out : out[i].kind = "switch"
           THEN /\ parser' = Fresh
                /\ flowing' = TRUE
                /\ ticks' = Attached(ticks)
           ELSE /\ parser' = rest
                /\ UNCHANGED <<flowing, ticks>>

-----------------------------------------------------------------------------
(* The parser is given a frame *)

(* Fault: the pipe goes on writing to a parser that failed. *)
ReadMalformedOn(id) ==
    /\ parser' = [parser EXCEPT !.failed = TRUE]
    /\ ticks' = Append(ticks, "error")
    /\ gone' = gone \cup {id}
    /\ UNCHANGED <<flowing, clientVars, emitted, marks, broken>>

(***************************************************************************)
(* A hard error: the write fails, which pauses the pipe at once, and the   *)
(* 'error' is on its way.                                                  *)
(***************************************************************************)
ReadMalformed(id) ==
    /\ parser' = [parser EXCEPT !.failed = TRUE]
    /\ flowing' = FALSE
    /\ ticks' = Append(ticks, "error")
    /\ gone' = gone \cup {id}
    /\ UNCHANGED <<clientVars, emitted, marks, broken>>

(***************************************************************************)
(* A partial read, or a frame that does not inflate, is dropped.           *)
(***************************************************************************)
ReadDamaged(id) ==
    /\ gone' = gone \cup {id}
    /\ UNCHANGED <<flowing, parser, ticks, clientVars, emitted, marks, broken>>

ReadPacket(id, kind) ==
    LET p == [id |-> id, kind |-> kind, mark |-> marks]
    IN  /\ marks' = IF kind = "delimiter" THEN marks + 1 ELSE marks
        /\ UNCHANGED gone
        /\ IF parser.fresh
           THEN /\ parser' = [parser EXCEPT !.packets = Append(@, p)]
                /\ UNCHANGED <<flowing, ticks, clientVars, emitted, broken>>
           ELSE Emit(p, parser)

(***************************************************************************)
(* DiagnosticFullPacketParser._transform.  A stream that was destroyed     *)
(* takes nothing.                                                          *)
(***************************************************************************)
Read(id) ==
    /\ behindSwitch' = (behindSwitch \/ parser.fresh)
    /\ IF parser.failed
       THEN UNCHANGED <<flowing, parser, ticks, clientVars, emitted, gone, marks,
                        broken>>
       ELSE \/ ReadMalformed(id)
            \/ ReadDamaged(id)
            \/ \E kind \in Parsable : ReadPacket(id, kind)

-----------------------------------------------------------------------------
(* The splitter *)

(***************************************************************************)
(* The socket's 'data', which the event loop delivers when all ticks ran.  *)
(* A chunk that comes between two turns of processFrames waits.            *)
(***************************************************************************)
Arrive ==
    /\ AtRest
    /\ \E n \in arrived + 1..MaxFrames :
          LET chunk == [i \in 1..n - arrived |-> arrived + i]
          IN  /\ arrived' = n
              /\ IF immediate
                 THEN /\ queued' = queued \o chunk
                      /\ UNCHANGED <<buffer, budget, stack>>
                 ELSE /\ buffer' = buffer \o chunk
                      /\ budget' = FramesPerTick
                      /\ stack' = "frames"
                      /\ UNCHANGED queued
    /\ UNCHANGED <<immediate, pipeVars, clientVars, history>>

(***************************************************************************)
(* A step of processFrames.                                                *)
(***************************************************************************)
Push ==
    /\ Running("frames")
    /\ buffer # <<>>
    /\ budget > 0
    /\ buffer' = Tail(buffer)
    /\ budget' = budget - 1
    /\ IF flowing /\ held = <<>>
       THEN Read(Head(buffer)) /\ UNCHANGED held
       ELSE /\ held' = Append(held, Head(buffer))
            /\ UNCHANGED <<flowing, parser, ticks, clientVars, history>>
    /\ UNCHANGED <<arrived, queued, immediate, stack>>

Yield ==
    /\ Running("frames")
    /\ buffer # <<>>
    /\ budget = 0
    /\ immediate' = TRUE
    /\ stack' = "none"
    /\ UNCHANGED <<arrived, queued, buffer, budget, pipeVars, clientVars, history>>

(***************************************************************************)
(* The callback, behind which a chunk that waits is transformed.           *)
(***************************************************************************)
FramesDone ==
    /\ Running("frames")
    /\ buffer = <<>>
    /\ buffer' = queued
    /\ queued' = <<>>
    /\ budget' = FramesPerTick
    /\ stack' = IF queued = <<>> THEN "none" ELSE "frames"
    /\ UNCHANGED <<arrived, immediate, pipeVars, clientVars, history>>

ProcessFramesAgain ==
    /\ AtRest
    /\ immediate
    /\ immediate' = FALSE
    /\ budget' = FramesPerTick
    /\ stack' = "frames"
    /\ UNCHANGED <<arrived, queued, buffer, pipeVars, clientVars, history>>

-----------------------------------------------------------------------------
(* Ticks *)

Tick(name) ==
    /\ Running("none")
    /\ ticks # <<>>
    /\ Head(ticks) = name

(***************************************************************************)
(* The pipe resumes: what the splitter held is read, if nothing paused it  *)
(* meanwhile, until something does.                                        *)
(***************************************************************************)
SourceTick ==
    /\ Tick("source")
    /\ ticks' = Tail(ticks)
    /\ stack' = "source"
    /\ UNCHANGED <<arrived, splitterVars, held, flowing, parser, clientVars,
                   history>>

FlowSource ==
    /\ Running("source")
    /\ IF flowing /\ held # <<>>
       THEN /\ held' = Tail(held)
            /\ Read(Head(held))
            /\ UNCHANGED stack
       ELSE /\ stack' = "none"
            /\ UNCHANGED <<pipeVars, clientVars, history>>
    /\ UNCHANGED <<arrived, splitterVars>>

(***************************************************************************)
(* A fresh parser hands on what it kept, unless it failed meanwhile, and   *)
(* until a listener switches the state, which takes its listeners away.    *)
(***************************************************************************)
ParserTick ==
    /\ Tick("parser")
    /\ ticks' = Tail(ticks)
    /\ parser' = [parser EXCEPT !.fresh = FALSE]
    /\ stack' = "parser"
    /\ UNCHANGED <<arrived, splitterVars, held, flowing, clientVars, history>>

FlowParser ==
    /\ Running("parser")
    /\ IF ~parser.fresh /\ ~parser.failed /\ parser.packets # <<>>
       THEN /\ Emit(Head(parser.packets),
                    [parser EXCEPT !.packets = Tail(@)])
            /\ UNCHANGED stack
       ELSE /\ stack' = "none"
            /\ UNCHANGED <<flowing, parser, ticks, clientVars, emitted, broken>>
    /\ UNCHANGED <<arrived, splitterVars, held, gone, marks, behindSwitch>>

(* Fault: the upstream is not piped into the new parser. *)
ParserErrorUnwired ==
    /\ Tick("error")
    /\ parser' = Fresh
    /\ bundle' = <<>>
    /\ gone' = gone \cup Ids(bundle)
    /\ broken' = (broken \/ bundle # <<>>)
    /\ ticks' = Append(Tail(ticks), "parser")
    /\ UNCHANGED <<arrived, splitterVars, held, flowing, reader, stack, emitted,
                   marks, behindSwitch>>

(***************************************************************************)
(* The 'error' listener: malformedPacket (or rawPacket, or 'error' where   *)
(* the packet is unknown to an old protocol), then _rebuildDeserializer.   *)
(***************************************************************************)
ParserError ==
    /\ Tick("error")
    /\ parser' = Fresh
    /\ bundle' = <<>>
    /\ gone' = gone \cup Ids(bundle)
    /\ broken' = (broken \/ bundle # <<>>)
    /\ flowing' = TRUE
    /\ ticks' = Attached(Tail(ticks))
    /\ UNCHANGED <<arrived, splitterVars, held, reader, stack, emitted, marks,
                   behindSwitch>>

-----------------------------------------------------------------------------

Turn ==
    \/ Push \/ Yield \/ FramesDone \/ ProcessFramesAgain
    \/ SourceTick \/ FlowSource \/ ParserTick \/ FlowParser \/ ParserError

Next == Arrive \/ Turn

Spec == Init /\ [][Next]_vars

(***************************************************************************)
(* The event loop turns.                                                   *)
(***************************************************************************)
FairSpec == Spec /\ WF_vars(Turn)

-----------------------------------------------------------------------------
(* Properties *)

(***************************************************************************)
(* Packets are emitted in the order they arrived and each once, through    *)
(* yields, pauses, new parsers and bundles.                                *)
(***************************************************************************)
InOrder ==
    \A i, j \in DOMAIN emitted : i < j => emitted[i].id < emitted[j].id

(***************************************************************************)
(* A malformed packet costs itself and the bundle it is in, nothing before *)
(* or behind it, as long as the peer sends nothing behind a packet that    *)
(* switches the state before the switch is over.                           *)
(***************************************************************************)
Waiting == Range(queued) \cup Range(buffer) \cup Range(held)

NothingLost ==
    reader = "live" /\ ~behindSwitch =>
        1..arrived = Waiting \cup Ids(parser.packets) \cup Ids(bundle)
                        \cup Ids(emitted) \cup gone

(* Packets are delivered: each once, in order, and all of them. *)
Delivered == InOrder /\ NothingLost

(***************************************************************************)
(* No packet of a bundle is emitted without the rest of it, up to the      *)
(* delimiter that ends it.  (The k-th delimiter has mark k - 1, and a      *)
(* packet of a bundle an odd mark.)                                        *)
(***************************************************************************)
BundlesTogether ==
    ~behindSwitch /\ ~broken =>
        \A i \in DOMAIN emitted :
            emitted[i].mark % 2 = 1 =>
                \E j \in DOMAIN emitted :
                    /\ emitted[j].kind = "delimiter"
                    /\ emitted[j].mark = emitted[i].mark

(***************************************************************************)
(* The inbound half does not freeze: each frame reaches the parser, unless *)
(* a listener has thrown.                                                  *)
(***************************************************************************)
AllRead ==
    \A id \in FrameId :
        (arrived >= id) ~> (id \notin Waiting \/ reader # "live")
=============================================================================
