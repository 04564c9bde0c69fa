------------------------------ MODULE Connect ------------------------------
(***************************************************************************)
(* The way to a socket: the gate createClient.js puts in front of          *)
(* options.connect, tcp_dns.js, the 'connect' listener of setProtocol.js,  *)
(* and ping.js with its promise, its two timers and the end of its         *)
(* connection; a user calls ping itself, or autoVersion.js calls it for a  *)
(* client without a version.                                               *)
(*                                                                         *)
(* Timers may fire at any time after they are set, the peer may send, end  *)
(* or reset at any time.  What end() does to the streams is the subject of *)
(* Outbound; here it shuts the outgoing side and sets the close timer, if  *)
(* there is a socket.  A socket that comes later is ended as it is set.    *)
(***************************************************************************)
EXTENDS Naturals

VARIABLES
    mode,  \* the options
    gate,  \* connectStarted, startRequested, authPending; calls of userConnect
    auth,  \* the authentication
    asked, \* history: the user called startConnection
    conn,  \* the client of createClient and that of ping
    wait,  \* client.wait_connect
    login, \* set_protocol and login_start
    ping   \* the call of ping: its promise and its closure

vars == <<mode, gate, auth, asked, conn, wait, login, ping>>

Client == {"main", "ping"}

(***************************************************************************)
(* auth: "async" is mojang, microsoft or a function that connects later.   *)
(* srv: the host is a name and the port the default.                       *)
(***************************************************************************)
Mode ==
    {m \in [api : {"createClient", "ping"}, auth : {"offline", "async", "realms"},
            autoConnect : BOOLEAN, detect : BOOLEAN, srv : BOOLEAN] :
        m.api = "ping" => m.auth = "offline" /\ m.autoConnect /\ ~m.detect}

Gate == [started : BOOLEAN, requested : BOOLEAN, pending : BOOLEAN,
         connects : 0..1]

Connection == [link : {"none", "resolving", "connecting", "open", "dead"},
               over : BOOLEAN,   \* end() was called
               ending : BOOLEAN, \* client._ending
               timer : BOOLEAN,  \* client.closeTimer
               late : BOOLEAN]   \* history: the socket came behind end()

Timer == {"unset", "set", "cleared", "fired"}

Ping == [result : {"none", "pending", "resolved", "rejected"},
         gotStatus : BOOLEAN, closeTimer : Timer, maxTime : Timer,
         called : BOOLEAN]       \* the callback of autoVersion ran

TypeOK ==
    /\ mode \in Mode
    /\ gate \in Gate
    /\ auth \in {"none", "running", "done", "failed"}
    /\ asked \in BOOLEAN
    /\ conn \in [Client -> Connection]
    /\ wait \in BOOLEAN
    /\ login \in {"no", "waiting", "sent", "dropped"}
    /\ ping \in Ping

Init ==
    /\ mode \in Mode
    /\ gate = [started |-> FALSE, requested |-> FALSE,
               pending |-> ~mode.autoConnect, connects |-> 0]
    /\ auth = "none"
    /\ asked = FALSE
    /\ conn = [c \in Client |-> [link |-> "none", over |-> FALSE,
                                 ending |-> FALSE, timer |-> FALSE,
                                 late |-> FALSE]]
    /\ wait = FALSE
    /\ login = "no"
    /\ ping = [result |-> "none", gotStatus |-> FALSE, closeTimer |-> "unset",
               maxTime |-> "unset", called |-> FALSE]

-----------------------------------------------------------------------------
(* The connection of a client *)

HasSocket(k) == k.link \notin {"none", "resolving"}

Open(k) == k.link \in {"connecting", "open"}

(***************************************************************************)
(* setSocket takes _ending back.                                           *)
(***************************************************************************)
WithSocket(k) ==
    [k EXCEPT !.link = "connecting", !.ending = FALSE, !.late = k.over]

(***************************************************************************)
(* The connect of tcp_dns.js.                                              *)
(***************************************************************************)
Dialed(k) ==
    IF mode.srv THEN [k EXCEPT !.link = "resolving"] ELSE WithSocket(k)

(* Fault: end() sets no timer. *)
EndedUntimed(k) == [k EXCEPT !.over = TRUE, !.ending = TRUE]

(***************************************************************************)
(* end                                                                     *)
(***************************************************************************)
Ended(k) ==
    [k EXCEPT !.over = TRUE, !.ending = TRUE, !.timer = HasSocket(k)]

(***************************************************************************)
(* endSocket                                                               *)
(***************************************************************************)
Lost(k) == [k EXCEPT !.link = "dead", !.timer = FALSE]

-----------------------------------------------------------------------------
(* The gate *)

(* Fault: a request that comes before the authentication is dropped. *)
StartedForgetting(g) ==
    IF g.started \/ g.pending THEN g
    ELSE [g EXCEPT !.requested = TRUE, !.started = TRUE, !.connects = @ + 1]

(* Fault: the request does not wait for the authentication. *)
StartedEarly(g) ==
    IF g.started THEN g
    ELSE [g EXCEPT !.requested = TRUE, !.started = TRUE, !.connects = @ + 1]

(***************************************************************************)
(* startConnection                                                         *)
(***************************************************************************)
Started(g) ==
    IF g.started THEN g
    ELSE IF g.pending THEN [g EXCEPT !.requested = TRUE]
    ELSE [g EXCEPT !.requested = TRUE, !.started = TRUE, !.connects = @ + 1]

(***************************************************************************)
(* gatedConnect, which is options.connect of everyone.  It takes no        *)
(* argument: whoever calls it connects the client of createClient.         *)
(***************************************************************************)
Gated(g) ==
    LET ready == [g EXCEPT !.pending = FALSE]
    IN  IF mode.autoConnect \/ g.requested THEN Started(ready) ELSE ready

(***************************************************************************)
(* userConnect is called as often as the gate says.                        *)
(***************************************************************************)
GateBecomes(g) ==
    /\ gate' = g
    /\ conn' = IF g.connects > gate.connects
               THEN [conn EXCEPT !["main"] = Dialed(@)] ELSE conn

PingBegun ==
    [ping EXCEPT !.result = "pending", !.closeTimer = "set"]

(***************************************************************************)
(* onReady: autoVersion pings with the options of the client, whose        *)
(* connect is the gate.                                                    *)
(***************************************************************************)
OnReady(g) ==
    IF mode.detect
    THEN GateBecomes(Gated(g)) /\ wait' = TRUE /\ ping' = PingBegun
    ELSE GateBecomes(g) /\ UNCHANGED <<wait, ping>>

CreateClient ==
    /\ mode.api = "createClient" /\ auth = "none"
    /\ \/ /\ mode.auth = "offline"
          /\ auth' = "done"
          /\ OnReady(Gated(gate))
       \/ /\ mode.auth = "async"
          /\ auth' = "running"
          /\ OnReady(gate)
       \/ /\ mode.auth = "realms"
          /\ auth' = "running"
          /\ UNCHANGED <<gate, conn, wait, ping>>
    /\ UNCHANGED <<mode, asked, login>>

(***************************************************************************)
(* The realm and the account are authenticated before onReady, an account  *)
(* alone behind it.                                                        *)
(***************************************************************************)
AuthDone ==
    /\ auth = "running"
    /\ auth' = "done"
    /\ IF mode.auth = "realms" THEN OnReady(Gated(gate))
       ELSE GateBecomes(Gated(gate)) /\ UNCHANGED <<wait, ping>>
    /\ UNCHANGED <<mode, asked, login>>

AuthFailed ==
    /\ auth = "running"
    /\ auth' = "failed"
    /\ IF mode.auth = "realms" THEN OnReady(gate)
       ELSE UNCHANGED <<gate, conn, wait, ping>>
    /\ UNCHANGED <<mode, asked, login>>

(***************************************************************************)
(* The user's calls on the client it was given.                            *)
(***************************************************************************)
StartConnection ==
    /\ auth # "none"
    /\ asked' = TRUE
    /\ GateBecomes(Started(gate))
    /\ UNCHANGED <<mode, auth, wait, login, ping>>

End ==
    /\ auth # "none"
    /\ conn' = [conn EXCEPT !["main"] = Ended(@)]
    /\ UNCHANGED <<mode, gate, auth, asked, wait, login, ping>>

-----------------------------------------------------------------------------
(* ping *)

Settled == ping.result \in {"resolved", "rejected"}

(***************************************************************************)
(* The promise keeps its first result.                                     *)
(***************************************************************************)
Settle(p, result) ==
    [p EXCEPT !.result = IF @ = "pending" THEN result ELSE @]

(***************************************************************************)
(* clearTimeout                                                            *)
(***************************************************************************)
Cleared(timer) == IF timer = "set" THEN "cleared" ELSE timer

PingCall ==
    /\ mode.api = "ping" /\ ping.result = "none"
    /\ ping' = PingBegun
    /\ conn' = [conn EXCEPT !["ping"] = Dialed(@)]
    /\ UNCHANGED <<mode, gate, auth, asked, wait, login>>

(* Fault: an error leaves the close timer set. *)
PingErrorTimed(p) == Settle(p, "rejected")

(***************************************************************************)
(* The 'error' listener; it ends the client as well.                       *)
(***************************************************************************)
PingError(p) ==
    [Settle(p, "rejected") EXCEPT !.closeTimer = Cleared(@)]

(* Fault: the end clears the timer and rejects nothing. *)
PingEndIdle(p) ==
    IF p.gotStatus THEN p ELSE [p EXCEPT !.closeTimer = Cleared(@)]

(***************************************************************************)
(* The 'end' listener.                                                     *)
(***************************************************************************)
PingEnd(p) ==
    IF p.gotStatus THEN p
    ELSE [Settle(p, "rejected") EXCEPT !.closeTimer = Cleared(@)]

EndPing == conn' = [conn EXCEPT !["ping"] = Ended(@)]

(***************************************************************************)
(* server_info: a response that is no JSON throws behind gotStatus = true, *)
(* which destroys the splitter and comes back as an 'error'.               *)
(***************************************************************************)
ServerInfo ==
    /\ conn["ping"].link = "open" /\ ~ping.gotStatus
    /\ \/ /\ ping' = [ping EXCEPT !.gotStatus = TRUE, !.maxTime = "set"]
          /\ UNCHANGED conn
       \/ /\ ping' = PingError([ping EXCEPT !.gotStatus = TRUE])
          /\ EndPing
    /\ UNCHANGED <<mode, gate, auth, asked, wait, login>>

Pong ==
    /\ conn["ping"].link = "open" /\ ping.maxTime # "unset"
    /\ ping' = [Settle(ping, "resolved") EXCEPT !.closeTimer = Cleared(@),
                                                !.maxTime = Cleared(@)]
    /\ EndPing
    /\ UNCHANGED <<mode, gate, auth, asked, wait, login>>

NoPongTimeout ==
    /\ ping.maxTime = "set"
    /\ ping' = [Settle(ping, "resolved") EXCEPT !.closeTimer = Cleared(@),
                                                !.maxTime = "fired"]
    /\ EndPing
    /\ UNCHANGED <<mode, gate, auth, asked, wait, login>>

PingTimeout ==
    /\ ping.closeTimer = "set"
    /\ ping' = [Settle(ping, "rejected") EXCEPT !.closeTimer = "fired"]
    /\ EndPing
    /\ UNCHANGED <<mode, gate, auth, asked, wait, login>>

(***************************************************************************)
(* set_protocol and login_start; a client that was ended drops them.       *)
(***************************************************************************)
LoginWritten == IF conn["main"].over THEN "dropped" ELSE "sent"

(***************************************************************************)
(* The callback of autoVersion.  A version that is not supported throws,   *)
(* which calls it again with that error.  (The gate is options.connect by  *)
(* then and connects the client of createClient: its ping never is.)       *)
(***************************************************************************)
AutoVersion ==
    /\ mode.detect /\ Settled /\ ~ping.called
    /\ ping' = [ping EXCEPT !.called = TRUE]
    /\ \E supported \in BOOLEAN :
          IF ping.result = "resolved" /\ supported
          THEN /\ wait' = FALSE
               /\ login' = IF login = "waiting" THEN LoginWritten ELSE login
          ELSE UNCHANGED <<wait, login>>
    /\ UNCHANGED <<mode, gate, auth, asked, conn>>

-----------------------------------------------------------------------------
(* The network and the timer of end() *)

(***************************************************************************)
(* The SRV answer, or its error: either way a socket is set.               *)
(***************************************************************************)
Resolved(c) ==
    /\ conn[c].link = "resolving"
    /\ conn' = [conn EXCEPT ![c] = WithSocket(@)]
    /\ UNCHANGED <<mode, gate, auth, asked, wait, login, ping>>

(***************************************************************************)
(* The 'connect' event: onConnect of setProtocol, or ping's request.  With *)
(* a realm nobody listens before onReady.                                  *)
(***************************************************************************)
Connected(c) ==
    /\ conn[c].link = "connecting"
    /\ conn' = [conn EXCEPT ![c].link = "open"]
    /\ login' = IF c = "ping" \/ (mode.auth = "realms" /\ auth = "running") THEN login
                ELSE IF wait THEN "waiting" ELSE LoginWritten
    /\ UNCHANGED <<mode, gate, auth, asked, wait, ping>>

(***************************************************************************)
(* The socket's 'end' and 'close'.                                         *)
(***************************************************************************)
SocketEnd(c) ==
    /\ conn[c].link = "open"
    /\ conn' = [conn EXCEPT ![c] = Lost(@)]
    /\ ping' = IF c = "ping" THEN PingEnd(ping) ELSE ping
    /\ UNCHANGED <<mode, gate, auth, asked, wait, login>>

(***************************************************************************)
(* The socket's 'error', refused or reset: only a client that is ending    *)
(* keeps it to itself.  'end' follows.                                     *)
(***************************************************************************)
SocketError(c) ==
    /\ Open(conn[c])
    /\ IF c = "ping" /\ ~conn[c].ending
       THEN /\ ping' = PingEnd(PingError(ping))
            /\ conn' = [conn EXCEPT ![c] = Lost(Ended(@))]
       ELSE /\ ping' = IF c = "ping" THEN PingEnd(ping) ELSE ping
            /\ conn' = [conn EXCEPT ![c] = Lost(@)]
    /\ UNCHANGED <<mode, gate, auth, asked, wait, login>>

CloseTimeout(c) ==
    /\ conn[c].timer
    /\ conn' = [conn EXCEPT ![c] = Lost(@)]
    /\ ping' = IF c = "ping" /\ Open(conn[c]) THEN PingEnd(ping) ELSE ping
    /\ UNCHANGED <<mode, gate, auth, asked, wait, login>>

-----------------------------------------------------------------------------

Next ==
    \/ CreateClient \/ AuthDone \/ AuthFailed \/ StartConnection \/ End
    \/ PingCall \/ ServerInfo \/ Pong \/ NoPongTimeout \/ PingTimeout
    \/ AutoVersion
    \/ \E c \in Client :
          \/ Resolved(c) \/ Connected(c) \/ SocketEnd(c) \/ SocketError(c)
          \/ CloseTimeout(c)

Spec == Init /\ [][Next]_vars

(***************************************************************************)
(* Timers fire and the resolver answers or gives up; nothing is assumed of *)
(* the peer or of the authentication.                                      *)
(***************************************************************************)
Fairness ==
    /\ WF_vars(PingTimeout) /\ WF_vars(NoPongTimeout)
    /\ \A c \in Client : WF_vars(Resolved(c)) /\ WF_vars(CloseTimeout(c))

FairSpec == Spec /\ Fairness

-----------------------------------------------------------------------------
(* Properties *)

(***************************************************************************)
(* The connection is opened, and once, when the authentication is over and *)
(* the user asked for it where it has to, whichever of the two comes last  *)
(* and whoever else calls options.connect.                                 *)
(***************************************************************************)
GateOpens ==
    auth = "done" /\ (mode.autoConnect \/ asked) => gate.connects = 1

(***************************************************************************)
(* The login is written with the account that was authenticated, never     *)
(* before, even where a ping has opened the gate early.  (With autoConnect *)
(* a call of startConnection does overtake the authentication.)            *)
(***************************************************************************)
AuthFirst ==
    login = "sent" /\ ~(asked /\ mode.autoConnect) => auth = "done"

(***************************************************************************)
(* Whichever of the pong, the error, the end and the timers settles the    *)
(* promise, the connection is lost or was told to end, and the close timer *)
(* does not keep the process alive.                                        *)
(***************************************************************************)
PingEnds ==
    Settled =>
        /\ conn["ping"].over \/ conn["ping"].link = "dead"
        /\ ping.closeTimer # "set"

(***************************************************************************)
(* A ping settles, whatever the server, the resolver and the gate do.      *)
(***************************************************************************)
PingSettles == (ping.result = "pending") ~> Settled

(***************************************************************************)
(* A client that is ended closes its socket, even if the peer never does.  *)
(* A socket that comes behind end() has no timer and is not covered.       *)
(***************************************************************************)
EndedCloses ==
    \A c \in Client : conn[c].over ~> (~Open(conn[c]) \/ conn[c].late)
=============================================================================
