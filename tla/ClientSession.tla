--------------------------- MODULE ClientSession ---------------------------
(***************************************************************************)
(* The plugins of one client on one connection: configuration, cookies and *)
(* plugin channels share its state and its packets, and a user and a       *)
(* server act on all three.  The server is external: one that keeps to the *)
(* protocol, sends nothing between its request to switch the state and the *)
(* client's acknowledgement, and asks a question once in a configuration.  *)
(***************************************************************************)
EXTENDS Configuration, Cookies, Channels

CONSTANT MaxExtras  \* requests beside those, without and with a configuration

VARIABLES
    peer,   \* login, waiting, configuration, finishing, play or leaving
    greeted,\* 'login' was sent since the server entered play
    asked,  \* questions of this configuration
    owing,  \* answers the server waits for, by the name of the answer
    extras  \* requests left

peerVars == <<peer, greeted, asked, owing, extras>>

vars == <<baseVars, configurationVars, cookieVars, channelVars, peerVars>>

Answers == {"select_known_packs", "accept_code_of_conduct", "pong",
            "cookie_response", "login_plugin_response"}

Init ==
    /\ BaseInit
    /\ ConfigurationInit
    /\ CookiesInit
    /\ ChannelsInit
    /\ peer = "login"
    /\ greeted = FALSE
    /\ asked = {}
    /\ owing = [a \in Answers |-> 0]
    /\ extras = MaxExtras[options.config]

-----------------------------------------------------------------------------
(* The server *)

PeerCodec ==
    CASE peer \in {"login", "waiting"} -> "login"
      [] peer \in {"configuration", "finishing"} -> "configuration"
      [] OTHER -> "play"

Sends(name, arg) ==
    /\ conn # "ended"
    /\ toClient' = Append(toClient, Frame(name, arg, PeerCodec))
    /\ UNCHANGED <<options, state, conn, toServer, configurationVars, cookieVars, channelVars>>

Expects(answer) == owing' = [owing EXCEPT ![answer] = @ + 1]

PeerSuccess ==
    /\ peer = "login"
    /\ owing["login_plugin_response"] = 0
    /\ peer' = IF options.config THEN "waiting" ELSE "play"
    /\ Sends("success", "")
    /\ UNCHANGED <<greeted, asked, owing, extras>>

PeerAsks(name) ==
    /\ peer = "configuration"
    /\ name \notin asked
    /\ asked' = asked \cup {name}
    /\ Expects(Answer(name))
    /\ Sends(name, "")
    /\ UNCHANGED <<peer, greeted, extras>>

PeerFinish ==
    /\ peer = "configuration"
    /\ peer' = "finishing"
    /\ Sends("finish_configuration", "")
    /\ UNCHANGED <<greeted, asked, owing, extras>>

PeerLogin ==
    /\ peer = "play" /\ ~greeted
    /\ greeted' = TRUE
    /\ Sends("login", "")
    /\ UNCHANGED <<peer, asked, owing, extras>>

PeerReconfigure ==
    /\ peer = "play" /\ greeted
    /\ options.config /\ entry < MaxEntries
    /\ peer' = "leaving"
    /\ Sends("start_configuration", "")
    /\ UNCHANGED <<greeted, asked, owing, extras>>

Extra == extras > 0 /\ extras' = extras - 1

PeerRequests(name, arg, answer) ==
    /\ Extra
    /\ Expects(answer)
    /\ Sends(name, arg)
    /\ UNCHANGED <<peer, greeted, asked>>

PeerPings == peer = "configuration" /\ PeerRequests("ping", "", "pong")

PeerPluginRequest ==
    /\ peer = "login"
    /\ \E name \in {"velocity:player_info", "another"} :
           PeerRequests("login_plugin_request", name, "login_plugin_response")

PeerRequestsCookie(key) ==
    /\ peer \in {"configuration", "play"}
    /\ PeerRequests("cookie_request", key, "cookie_response")

PeerTells(name, arg) ==
    /\ peer \in {"configuration", "play"}
    /\ Extra
    /\ Sends(name, arg)
    /\ UNCHANGED <<peer, greeted, asked, owing>>

(* The server reads a frame; an answer to a switch completes it. *)
PeerReads ==
    /\ toServer # <<>>
    /\ toServer' = Tail(toServer)
    /\ LET name == Head(toServer).name
       IN  /\ owing' = IF name \in Answers THEN [owing EXCEPT ![name] = @ - 1] ELSE owing
           /\ peer' = CASE peer = "waiting" /\ name = "login_acknowledged" -> "configuration"
                        [] peer = "finishing" /\ name = "finish_configuration" -> "play"
                        [] peer = "leaving" /\ name = "configuration_acknowledged" ->
                               "configuration"
                        [] OTHER -> peer
    /\ asked' = IF peer' = peer THEN asked ELSE {}
    /\ greeted' = (greeted /\ peer' = peer)
    /\ UNCHANGED <<options, state, conn, toClient, extras, configurationVars, cookieVars,
                   channelVars>>

Peer ==
    \/ PeerSuccess
    \/ \E name \in Asks : PeerAsks(name)
    \/ PeerFinish
    \/ PeerLogin
    \/ PeerReconfigure
    \/ PeerPings
    \/ PeerPluginRequest
    \/ \E key \in Keys : PeerRequestsCookie(key)
    \/ \E key \in Keys, value \in Values :
           PeerTells("store_cookie", <<key, value>>)
    \/ PeerTells("transfer", "")
    \/ \E name \in Names, data \in {"good", "bad"} :
           PeerTells("custom_payload", <<name, data>>)
    \/ PeerReads

-----------------------------------------------------------------------------
(* The user, once the game is joined *)

UserChannels ==
    /\ joined > 0 /\ Extra
    /\ \/ \E name \in Names, typed, custom \in BOOLEAN : RegisterChannel(name, typed, custom)
       \/ \E name \in Names \cup OwnNames, custom \in BOOLEAN :
              UnregisterChannel(name, custom)
       \/ \E name \in Names : WriteChannel(name)
    /\ UNCHANGED <<configurationVars, cookieVars, peer, greeted, asked, owing>>

UserCookies ==
    /\ joined > 0 /\ Extra
    /\ \E key \in Keys, value \in Values : UserSetsCookie(key, value)
    /\ UNCHANGED <<configurationVars, channelVars, peer, greeted, asked, owing>>

-----------------------------------------------------------------------------
Listeners ==
    \/ ConfigurationNext /\ UNCHANGED <<cookieVars, channelVars, peerVars>>
    \/ CookiesNext /\ UNCHANGED <<configurationVars, channelVars, peerVars>>
    \/ ChannelsNext /\ UNCHANGED <<configurationVars, cookieVars, peerVars>>

SocketEnds ==
    /\ conn # "ended"
    /\ Ended
    /\ UNCHANGED <<configurationVars, channelVars, peerVars>>

Next ==
    \/ Listeners
    \/ SocketEnds
    \/ Peer
    \/ UserChannels
    \/ UserCookies

(***************************************************************************)
(* Packets that arrived are parsed, on both sides.  The server need not go *)
(* on with what it began, and nobody has to ask for anything.              *)
(***************************************************************************)
Fairness == WF_vars(Listeners) /\ WF_vars(PeerReads)

Spec == Init /\ [][Next]_vars /\ Fairness

-----------------------------------------------------------------------------
(* Properties *)

(***************************************************************************)
(* A frame is read in the protocol state it was written in, at both ends,  *)
(* through every switch between the game and the configuration: play.js    *)
(* acknowledges in the state it leaves and goes on in the one it enters.   *)
(***************************************************************************)
CodecTogether ==
    /\ toServer # <<>> => Head(toServer).codec = PeerCodec
    /\ toClient # <<>> => Head(toClient).codec = state

(***************************************************************************)
(* The questions of a server, pings in a configuration, those of a proxy   *)
(* at the login and those for cookies from then on, are answered, and      *)
(* answered once, whatever listeners an earlier configuration has left     *)
(* behind; but for a challenge whose response could not be built.  The     *)
(* game is joined once, not after each configuration.                      *)
(***************************************************************************)
AnsweredOnce ==
    /\ \A a \in Answers : owing[a] >= 0
    /\ toServer = <<>> /\ toClient = <<>> /\ conn = "open" =>
           \A a \in Answers :
               owing[a] = IF a = "login_plugin_response" THEN lost ELSE 0
    /\ joined <= 1 /\ (state = "play" => joined = 1)

(***************************************************************************)
(* The chat session messages are signed in is the one the server was told: *)
(* the old one is deleted before the new one is made, although the plugin  *)
(* that deletes it is installed later (the comment in client/chat.js).     *)
(***************************************************************************)
SessionAnnounced == session = announced

(***************************************************************************)
(* custom_payload has its listener while there is a channel and only one,  *)
(* so that no payload is heard twice, however channels come and go.        *)
(***************************************************************************)
ListensOnce ==
    /\ listeners = IF channels = <<>> THEN 0 ELSE 1
    /\ heard <= 1

(***************************************************************************)
(* What a transfer hands on stays as it was, while the server stores more  *)
(* and when the connection ends and its own cookies are cleared.           *)
(***************************************************************************)
HandoffSurvives ==
    \A i \in DOMAIN handoffs :
        /\ maps[handoffs[i].map] = handoffs[i].held
        /\ \A k \in Keys : Valid(handoffs[i].held[k])

(***************************************************************************)
(* A switch that the server has asked for is acknowledged, unless the      *)
(* connection ends, the second time as the first.                          *)
(***************************************************************************)
SwitchCompletes ==
    /\ peer = "waiting" ~> peer = "configuration" \/ conn # "open"
    /\ peer = "finishing" ~> peer = "play" \/ conn # "open"
    /\ peer = "leaving" ~> peer = "configuration" \/ conn # "open"
=============================================================================
