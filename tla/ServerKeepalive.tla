-------------------------- MODULE ServerKeepalive ---------------------------
(***************************************************************************)
(* The keep alive loop of server/keepalive.js: an interval that is set     *)
(* whenever the connection enters PLAY, before or after its end, and the   *)
(* kick of a client that does not answer.  'end' clears the interval that  *)
(* was set last.  Time is counted in ticks; a timer that is due fires      *)
(* before time goes on.                                                    *)
(***************************************************************************)
EXTENDS Naturals, Sequences

CONSTANTS
    Interval,    \* options.checkTimeoutInterval
    KickTimeout, \* options.kickTimeout
    MaxAnswer,   \* ticks a prompt client takes to answer
    MaxPlays     \* bound on the times PLAY is entered

ASSUME ServerKeepaliveAssumption ==
    /\ {Interval, KickTimeout, MaxPlays} \subseteq Nat \ {0}
    /\ MaxAnswer \in Nat
    /\ MaxAnswer + Interval <= KickTimeout

VARIABLES
    state,      \* protocolState, once it is at most "configuration"
    plays,      \* times PLAY was entered
    late,       \* history: those of them behind 'end'
    loops,      \* time left to the next keepAliveLoop of each interval
    quiet,      \* ticks since lastKeepAlive, counted up to a kick's delay
    silence,    \* history: ticks since the client answered or entered PLAY
    inflight,   \* ages of the keep_alives that were not answered
    peer,       \* a prompt client, or a silent one
    conn,       \* open, ending (end() called), ended
    latency,    \* client.latency, in ticks
    kicked      \* history: end('KeepAliveTimeout') was called

vars == <<state, plays, late, loops, quiet, silence, inflight, peer, conn, latency,
          kicked>>

Latest == KickTimeout + Interval + 1

Least(a, b) == IF a < b THEN a ELSE b

TypeOK ==
    /\ state \in {"configuration", "play"}
    /\ plays \in 0..MaxPlays /\ late \in 0..plays
    /\ loops \in Seq(0..Interval) /\ Len(loops) <= plays
    /\ {quiet, silence} \subseteq 0..Latest
    /\ inflight \in Seq(0..Latest)
    /\ peer \in {"prompt", "silent"}
    /\ conn \in {"open", "ending", "ended"}
    /\ latency \in 0..Latest
    /\ kicked \in BOOLEAN

Init ==
    /\ state = "configuration"
    /\ plays = 0
    /\ late = 0
    /\ loops = <<>>
    /\ quiet = 0
    /\ silence = 0
    /\ inflight = <<>>
    /\ peer \in {"prompt", "silent"}
    /\ conn = "open"
    /\ latency = 0
    /\ kicked = FALSE

(* Fault: the time of the last answer is not reset. *)
StartKeepAliveStale ==
    /\ state = "configuration"
    /\ plays < MaxPlays
    /\ plays' = plays + 1
    /\ late' = IF conn = "ended" THEN late + 1 ELSE late
    /\ state' = "play"
    /\ loops' = Append(loops, Interval)
    /\ silence' = 0
    /\ UNCHANGED <<quiet, inflight, peer, conn, latency, kicked>>

(***************************************************************************)
(* The 'state' listener: PLAY starts an interval of its own, also where    *)
(* login.js enters it for a client that has ended.                         *)
(***************************************************************************)
StartKeepAlive ==
    /\ state = "configuration"
    /\ plays < MaxPlays
    /\ plays' = plays + 1
    /\ late' = IF conn = "ended" THEN late + 1 ELSE late
    /\ state' = "play"
    /\ loops' = Append(loops, Interval)
    /\ silence' = 0
    /\ quiet' = 0
    /\ UNCHANGED <<inflight, peer, conn, latency, kicked>>

(***************************************************************************)
(* A consumer sends a client that is there back to the configuration: no   *)
(* listener.                                                               *)
(***************************************************************************)
Reconfigure ==
    /\ state = "play"
    /\ conn # "ended"
    /\ state' = "configuration"
    /\ UNCHANGED <<plays, late, loops, quiet, silence, inflight, peer, conn, latency,
                   kicked>>

(* Fault: a keep_alive that is sent counts as an answer. *)
KeepAliveLoopAnswering(i) ==
    /\ loops[i] = 0
    /\ loops' = [loops EXCEPT ![i] = Interval]
    /\ quiet' = 0
    /\ inflight' = IF conn = "open" /\ peer = "prompt"
                   THEN Append(inflight, 0) ELSE inflight
    /\ UNCHANGED <<state, plays, late, silence, peer, conn, latency, kicked>>

KeepAliveLoop(i) ==
    /\ loops[i] = 0
    /\ loops' = [loops EXCEPT ![i] = Interval]
    /\ IF quiet > KickTimeout
       THEN /\ conn' = IF conn = "open" THEN "ending" ELSE conn
            /\ kicked' = (kicked \/ conn = "open")
            /\ UNCHANGED inflight
       ELSE /\ inflight' = IF conn = "open" /\ peer = "prompt"
                           THEN Append(inflight, 0) ELSE inflight
            /\ UNCHANGED <<conn, kicked>>
    /\ UNCHANGED <<state, plays, late, quiet, silence, peer, latency>>

(* Fault: the latency is counted from the last answer. *)
OnKeepAliveBetween ==
    /\ peer = "prompt"
    /\ conn # "ended"
    /\ inflight # <<>>
    /\ inflight' = Tail(inflight)
    /\ latency' = quiet
    /\ quiet' = 0
    /\ silence' = 0
    /\ UNCHANGED <<state, plays, late, loops, peer, conn, kicked>>

(***************************************************************************)
(* The oldest keep_alive is answered; the latency is counted from the      *)
(* newest, the only one whose time is kept.                                *)
(***************************************************************************)
OnKeepAlive ==
    /\ peer = "prompt"
    /\ conn # "ended"
    /\ inflight # <<>>
    /\ inflight' = Tail(inflight)
    /\ latency' = inflight[Len(inflight)]
    /\ quiet' = 0
    /\ silence' = 0
    /\ UNCHANGED <<state, plays, late, loops, peer, conn, kicked>>

FallSilent ==
    /\ peer = "prompt"
    /\ peer' = "silent"
    /\ inflight' = <<>>
    /\ UNCHANGED <<state, plays, late, loops, quiet, silence, conn, latency, kicked>>

(***************************************************************************)
(* Someone else ends the client, as close() does: no listener until 'end'. *)
(***************************************************************************)
EndCalled ==
    /\ conn = "open"
    /\ conn' = "ending"
    /\ UNCHANGED <<state, plays, late, loops, quiet, silence, inflight, peer, latency,
                   kicked>>

(***************************************************************************)
(* 'end' stops the interval that was set last.                             *)
(***************************************************************************)
AllButLast(s) == SubSeq(s, 1, Len(s) - 1)

(* Fault: no interval is stopped. *)
EndSocketLooping ==
    /\ conn # "ended"
    /\ conn' = "ended"
    /\ inflight' = <<>>
    /\ UNCHANGED <<state, plays, late, loops, quiet, silence, peer, latency, kicked>>

EndSocket ==
    /\ conn # "ended"
    /\ conn' = "ended"
    /\ loops' = IF loops = <<>> THEN loops ELSE AllButLast(loops)
    /\ inflight' = <<>>
    /\ UNCHANGED <<state, plays, late, quiet, silence, peer, latency, kicked>>

(***************************************************************************)
(* Time passes when nothing is due, nor an answer of a prompt client.      *)
(***************************************************************************)
Tick ==
    /\ \A i \in DOMAIN loops : loops[i] > 0
    /\ \A i \in DOMAIN inflight : inflight[i] < MaxAnswer
    /\ loops' = [i \in DOMAIN loops |-> loops[i] - 1]
    /\ inflight' = [i \in DOMAIN inflight |-> inflight[i] + 1]
    /\ quiet' = Least(quiet + 1, Latest)
    /\ silence' = Least(silence + 1, Latest)
    /\ UNCHANGED <<state, plays, late, peer, conn, latency, kicked>>

LoopFires == \E i \in DOMAIN loops : KeepAliveLoop(i)

Next ==
    \/ StartKeepAlive \/ Reconfigure \/ LoopFires \/ OnKeepAlive
    \/ FallSilent \/ EndCalled \/ EndSocket \/ Tick

Spec == Init /\ [][Next]_vars

-----------------------------------------------------------------------------
(* Properties *)

(***************************************************************************)
(* A client that answers each keep_alive within MaxAnswer is never kicked, *)
(* whatever intervals are left over from earlier entries into PLAY.        *)
(***************************************************************************)
PromptClientStays == kicked => peer = "silent"

(***************************************************************************)
(* One that went silent is kicked an interval behind the timeout at last.  *)
(***************************************************************************)
KickedInTime == plays > 0 /\ conn = "open" => silence <= KickTimeout + Interval

(***************************************************************************)
(* What goes on running when a connection has ended: the interval of each  *)
(* entry into PLAY but the last before the end, whose interval 'end'       *)
(* stops, and that of an entry behind the end, which a late answer of the  *)
(* session server makes.  So none of a connection that entered PLAY once,  *)
(* and in time.                                                            *)
(***************************************************************************)
InTime == plays - late

LoopsEnd ==
    conn = "ended" => Len(loops) = late + (IF InTime > 0 THEN InTime - 1 ELSE 0)

(***************************************************************************)
(* The latency of an answer is what the round trip took if that is less    *)
(* than an interval and one interval runs: then the newest keep_alive is   *)
(* the one that is answered.  A longer one is reported too short.          *)
(***************************************************************************)
LatencyExact ==
    [][OnKeepAlive =>
        /\ latency' <= inflight[1]
        /\ plays = 1 /\ inflight[1] < Interval => latency' = inflight[1]]_vars
=============================================================================
