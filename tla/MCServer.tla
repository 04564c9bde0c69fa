------------------------------ MODULE MCServer ------------------------------
(***************************************************************************)
(* The server, its clients, and the keep alive loop of one of them, the    *)
(* plugin of createServer.js that ends a client by itself: the states and  *)
(* the ends of Server are those of ServerKeepalive for that client, which  *)
(* logs in, verified or not, of any version that the server has.  The      *)
(* others ask for the status.                                              *)
(***************************************************************************)
EXTENDS ServerKeepalive, Server

CONSTANT Watched \* the connection whose keep alive loop is followed

ASSUME Watched \in Socket

allVars == <<vars, serverVars>>

MCInit == Init /\ ServerInit

Kicks == conn = "open" /\ conn' = "ending"

(***************************************************************************)
(* A step of the loop alone, or one that ends the client.  Time passes     *)
(* while the client is open only.                                          *)
(***************************************************************************)
LoopSteps ==
    \/ /\ LoopFires
       /\ IF Kicks THEN End(Watched) ELSE UNCHANGED serverVars
    \/ /\ OnKeepAlive \/ FallSilent \/ Tick
       /\ client[Watched].link = "open"
       /\ UNCHANGED serverVars

(* What the loop hears of a step that may end the client, but not its socket. *)
Heard ==
    IF client[Watched].link = "open" /\ client'[Watched].link = "ending"
    THEN EndCalled ELSE UNCHANGED vars

MCHandles(s) ==
    IF s = Watched
    THEN \E configures \in BOOLEAN : OnHandshake(s, "login", TRUE, configures)
    ELSE /\ Handles(s)
         /\ client'[s].state # "login" /\ ~client'[s].configures

(* Each change of state is heard, also behind 'end'. *)
Becomes(p) == client[Watched].state # p /\ client'[Watched].state = p

MCLogsIn ==
    /\ LogsIn(Watched)
    /\ IF Becomes("play") THEN StartKeepAlive
       ELSE IF client[Watched].state = "play" /\ Becomes("configuration")
       THEN Reconfigure
       ELSE Heard

MCSocketEnds(s) ==
    /\ SocketEnds(s)
    /\ IF s = Watched THEN EndSocket ELSE UNCHANGED vars

MCEmitsClose(l) == l <= Current /\ EmitsClose(l) /\ UNCHANGED vars

ServerSteps ==
    \/ \E s \in Socket :
           \/ Connection(s) /\ UNCHANGED vars
           \/ MCHandles(s) /\ Heard
           \/ MCSocketEnds(s)
    \/ MCLogsIn
    \/ End(Watched) /\ Heard
    \/ Close /\ Heard
    \/ Listen /\ UNCHANGED vars
    \/ \E l \in 1..MaxListens : MCEmitsClose(l)

(* No further once ids are given out again: nothing is said of it. *)
MCNext == ~relisten /\ (LoopSteps \/ ServerSteps)

(***************************************************************************)
(* The close timer of a client that was ended closes its socket; node      *)
(* emits the 'close' of a listener without connections.                    *)
(***************************************************************************)
Fairness ==
    /\ \A s \in Socket :
           WF_allVars(client[s].link = "ending" /\ MCSocketEnds(s))
    /\ \A l \in 1..MaxListens : WF_allVars(MCEmitsClose(l))

MCSpec == MCInit /\ [][MCNext]_allVars /\ Fairness
=============================================================================
