------------------------------- MODULE Server -------------------------------
(***************************************************************************)
(* server.js with server/handshake.js, server/ping.js and the states that  *)
(* server/login.js takes a client through: the registry of the clients,    *)
(* the end that says why, close() and listen() again.  A client that was   *)
(* ended keeps its socket until the peer closes it, or the close timer of  *)
(* client.js; a session server may answer still later.  What is said on    *)
(* the way to a login is in Login, what the streams do with an end() in    *)
(* Outbound.                                                               *)
(***************************************************************************)
EXTENDS Naturals, Sequences

CONSTANTS
    Socket,     \* the connections that are made
    MaxListens  \* bound on the calls of listen

VARIABLES
    listeners, \* the net.Server of each call of listen
    nextId,    \* of the last call
    registry,  \* server.clients: a client for some ids
    client,    \* the Client of each socket
    told,      \* the last packet of this module that was written to it
    relisten   \* history: listen() was called while a client was still there

serverVars == <<listeners, nextId, registry, client, told, relisten>>

NoClient == [id |-> 0, listener |-> 0, state |-> "handshaking", link |-> "none",
             handshake |-> "due", query |-> "due", pong |-> "none",
             login |-> "due", configures |-> FALSE]

(* createServer listens. *)
ServerInit ==
    /\ listeners = <<"open">>
    /\ nextId = 0
    /\ registry = {}
    /\ client = [s \in Socket |-> NoClient]
    /\ told = [s \in Socket |-> "nothing"]
    /\ relisten = FALSE

Current == Len(listeners)

Live == {s \in Socket : client[s].link \in {"open", "ending"}}

-----------------------------------------------------------------------------
(* Connections *)

Entry(id, s) == [id |-> id, client |-> s]

Without(id) == {e \in registry : e.id # id}

(* Fault: each connection gets the id of the first. *)
ConnectionFirst(s) ==
    /\ client[s].link = "none"
    /\ listeners[Current] = "open"
    /\ client' = [client EXCEPT ![s].link = "open", ![s].id = 0, ![s].listener = Current]
    /\ registry' = Without(0) \cup {Entry(0, s)}
    /\ UNCHANGED <<listeners, nextId, told, relisten>>

Connection(s) ==
    /\ client[s].link = "none"
    /\ listeners[Current] = "open"
    /\ client' = [client EXCEPT ![s].link = "open", ![s].id = nextId, ![s].listener = Current]
    /\ registry' = Without(nextId) \cup {Entry(nextId, s)}
    /\ nextId' = nextId + 1
    /\ UNCHANGED <<listeners, told, relisten>>

(* A packet is parsed while the socket is there, before or after an end(). *)
Parses(s) == s \in Live

Written(s, name) == IF client[s].link = "open" THEN name ELSE told[s]

(***************************************************************************)
(* client.end: a client in PLAY or LOGIN is told why, any other is not.    *)
(***************************************************************************)
Goodbye(s) ==
    CASE client[s].state = "play" -> Written(s, "kick_disconnect")
      [] client[s].state = "login" -> Written(s, "disconnect")
      [] OTHER -> told[s]

Ended(c) == IF c.link = "open" THEN [c EXCEPT !.link = "ending"] ELSE c

(* Of the application, of a kick or of what login.js does not like. *)
End(s) ==
    /\ client[s].link = "open"
    /\ told' = [told EXCEPT ![s] = Goodbye(s)]
    /\ client' = [client EXCEPT ![s] = Ended(@)]
    /\ UNCHANGED <<listeners, nextId, registry, relisten>>

(* The socket ends, or the close timer destroys it: 'end'. *)
SocketEnds(s) ==
    /\ Parses(s)
    /\ client' = [client EXCEPT ![s].link = "ended"]
    /\ registry' = Without(client[s].id)
    /\ UNCHANGED <<listeners, nextId, told, relisten>>

-----------------------------------------------------------------------------
(* Packets *)

(***************************************************************************)
(* onHandshake: a version that is not supported ends the client, in        *)
(* HANDSHAKING and so without a word, and it goes on to the next state.    *)
(* The version has a configuration state or it has none.                   *)
(***************************************************************************)
OnHandshake(s, nextState, supported, configures) ==
    /\ Parses(s)
    /\ client[s].handshake = "due"
    /\ client' = [client EXCEPT
           ![s] = [(IF supported THEN @ ELSE Ended(@))
                      EXCEPT !.handshake = "done", !.state = nextState,
                             !.configures = configures]]
    /\ UNCHANGED <<listeners, nextId, registry, told, relisten>>

-----------------------------------------------------------------------------
(* login.js *)

(* The key of a client was answered; the session server is asked. *)
VerifyUsername(s) ==
    /\ Parses(s)
    /\ client[s].state = "login" /\ client[s].login = "due"
    /\ client' = [client EXCEPT ![s].login = "asked"]
    /\ UNCHANGED <<listeners, nextId, registry, told, relisten>>

(***************************************************************************)
(* loginClient: at once for a client that need not be verified, or when    *)
(* the session server answers, whether the client is still there or not.   *)
(***************************************************************************)
LoginClient(s) ==
    /\ \/ Parses(s) /\ client[s].state = "login" /\ client[s].login = "due"
       \/ client[s].login = "asked"
    /\ client' = [client EXCEPT
           ![s].login = "done",
           ![s].state = IF client[s].configures THEN @ ELSE "play"]
    /\ UNCHANGED <<listeners, nextId, registry, told, relisten>>

(* The session server does not know the client, or fails. *)
HasNotJoined(s) ==
    /\ client[s].login = "asked"
    /\ told' = [told EXCEPT ![s] = Goodbye(s)]
    /\ client' = [client EXCEPT ![s] = [Ended(@) EXCEPT !.login = "refused"]]
    /\ UNCHANGED <<listeners, nextId, registry, relisten>>

OnClientLoginAck(s) ==
    /\ Parses(s)
    /\ client[s].configures
    /\ client[s].state = "login" /\ client[s].login = "done"
    /\ client' = [client EXCEPT ![s].state = "configuration"]
    /\ UNCHANGED <<listeners, nextId, registry, told, relisten>>

(* The listener of finish_configuration, the application's the next time. *)
EntersPlay(s) ==
    /\ Parses(s)
    /\ client[s].state = "configuration"
    /\ client' = [client EXCEPT ![s].state = "play"]
    /\ UNCHANGED <<listeners, nextId, registry, told, relisten>>

(* The application has the client configured again. *)
LeavesPlay(s) ==
    /\ Parses(s)
    /\ client[s].configures
    /\ client[s].state = "play"
    /\ client' = [client EXCEPT ![s].state = "configuration"]
    /\ UNCHANGED <<listeners, nextId, registry, told, relisten>>

(***************************************************************************)
(* answerToPing: beforePing may refuse the client, which is destroyed, or  *)
(* fail.                                                                   *)
(***************************************************************************)
AnswerToPing(s, answer) ==
    /\ told' = [told EXCEPT ![s] = IF answer = "response" THEN Written(s, "server_info") ELSE @]
    /\ client' = [client EXCEPT
           ![s] = [(IF answer = "false" THEN Ended(@) ELSE @) EXCEPT !.query = "answered"]]
    /\ UNCHANGED <<listeners, nextId, registry, relisten>>

(* onPing, with a beforePing that returns, even false, or none. *)
OnPing(s) ==
    /\ Parses(s)
    /\ client[s].state = "status" /\ client[s].query = "due"
    /\ AnswerToPing(s, "response")

(* With one that calls back. *)
OnPingLater(s) ==
    /\ Parses(s)
    /\ client[s].state = "status" /\ client[s].query = "due"
    /\ client' = [client EXCEPT ![s].query = "running"]
    /\ UNCHANGED <<listeners, nextId, registry, told, relisten>>

BeforePingCallsBack(s, answer) ==
    /\ client[s].query = "running"
    /\ AnswerToPing(s, answer)

(* The 'ping' listener of onPing, before or after the answer. *)
OnPong(s) ==
    /\ Parses(s)
    /\ client[s].query # "due" /\ client[s].pong = "none"
    /\ told' = [told EXCEPT ![s] = Written(s, "ping")]
    /\ client' = [client EXCEPT ![s] = [Ended(@) EXCEPT !.pong = "sent"]]
    /\ UNCHANGED <<listeners, nextId, registry, relisten>>

-----------------------------------------------------------------------------
(* The server *)

(* Fault: only the players are ended. *)
ClosePlayers ==
    /\ listeners[Current] = "open"
    /\ client' = [s \in Socket |->
           IF client[s].state = "play" /\ \E e \in registry : e.client = s
           THEN Ended(client[s]) ELSE client[s]]
    /\ told' = [s \in Socket |->
           IF \E e \in registry : e.client = s THEN Goodbye(s) ELSE told[s]]
    /\ listeners' = [listeners EXCEPT ![Current] = "closing"]
    /\ UNCHANGED <<nextId, registry, relisten>>

(***************************************************************************)
(* close: it ends who is registered and takes no more connections.         *)
(***************************************************************************)
Close ==
    /\ listeners[Current] = "open"
    /\ client' = [s \in Socket |->
           IF \E e \in registry : e.client = s THEN Ended(client[s]) ELSE client[s]]
    /\ told' = [s \in Socket |->
           IF \E e \in registry : e.client = s THEN Goodbye(s) ELSE told[s]]
    /\ listeners' = [listeners EXCEPT ![Current] = "closing"]
    /\ UNCHANGED <<nextId, registry, relisten>>

(* 'close', when each connection of this net.Server is gone. *)
EmitsClose(l) ==
    /\ listeners[l] = "closing"
    /\ \A s \in Live : client[s].listener # l
    /\ listeners' = [listeners EXCEPT ![l] = "closed"]
    /\ UNCHANGED <<nextId, registry, client, told, relisten>>

(* The port is free at once, and ids start again. *)
Listen ==
    /\ listeners[Current] # "open" /\ Current < MaxListens
    /\ listeners' = Append(listeners, "open")
    /\ nextId' = 0
    /\ relisten' = (relisten \/ Live # {})
    /\ UNCHANGED <<registry, client, told>>

Handles(s) ==
    \/ \E nextState \in {"status", "login"}, supported, configures \in BOOLEAN :
           OnHandshake(s, nextState, supported, configures)
    \/ \E answer \in {"response", "false", "error"} :
           BeforePingCallsBack(s, answer)
    \/ OnPing(s)
    \/ OnPingLater(s)
    \/ OnPong(s)

LogsIn(s) ==
    \/ VerifyUsername(s) \/ LoginClient(s) \/ HasNotJoined(s)
    \/ OnClientLoginAck(s) \/ EntersPlay(s) \/ LeavesPlay(s)

ServerNext ==
    \/ \E s \in Socket :
           \/ Connection(s) \/ Handles(s) \/ LogsIn(s)
           \/ End(s) \/ SocketEnds(s)
    \/ Close \/ Listen
    \/ \E l \in 1..Current : EmitsClose(l)

ServerSpec == ServerInit /\ [][ServerNext]_serverVars

-----------------------------------------------------------------------------
(* Properties *)

(***************************************************************************)
(* server.clients has each client that is connected and no other, under    *)
(* its id, although each deletes its own entry; as long as the server is   *)
(* not opened again while old clients are still there, whose ids are given *)
(* out again.                                                              *)
(***************************************************************************)
RegistryExact ==
    ~relisten => registry = {Entry(client[s].id, s) : s \in Live}

Is(l, phase) == l \in DOMAIN listeners /\ listeners[l] = phase

(***************************************************************************)
(* close() leads to 'close': it ends every connection, in whatever state,  *)
(* and no entry that was overwritten or deleted by another keeps one open. *)
(***************************************************************************)
CloseFinishes ==
    \A l \in 1..MaxListens :
        Is(l, "closing") ~> (relisten \/ Is(l, "closed"))
=============================================================================
