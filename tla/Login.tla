------------------------------- MODULE Login --------------------------------
(***************************************************************************)
(* The login of one connection, client plugins against server plugins:     *)
(* client/setProtocol.js, encrypt.js, compress.js and play.js,             *)
(* server/handshake.js and login.js, and the end() of server.js.  Both     *)
(* ends switch protocol state, compression and encryption by messages that *)
(* cross, wait for crypto and session server callbacks that answer         *)
(* whenever they like, and may lose or end the connection at any moment.   *)
(*                                                                         *)
(* A frame carries the codec it was encoded with; Outbound.tla shows that  *)
(* a connection delivers such frames in order, with a FIN behind them.     *)
(***************************************************************************)
EXTENDS Naturals, Sequences

CONSTANT Modes   \* the versions and options the login is checked with

ASSUME ModesAssumption ==
    Modes \subseteq [online: BOOLEAN,        \* the server verifies this user
                     config: BOOLEAN,        \* hasConfigurationState
                     credentials: BOOLEAN,   \* options.haveCredentials
                     wrongVersion: BOOLEAN]  \* the client's version differs

VARIABLES
    mode,      \* the version and options of this connection
    state,     \* protocolState of each peer
    comp,      \* compression was enabled
    ciph,      \* encryption was enabled
    once,      \* the packets each peer has a once-handler for
    out,       \* FALSE when the outbound stream was ended
    closing,   \* the 30 s close timer is armed
    ended,     \* 'end' was emitted
    inbox,     \* frames on their way to each peer
    fin,       \* a FIN behind them
    crypto,    \* client: the callback encrypt.js waits for
    verify,    \* server: hasJoined was asked for, or answered
    kickTimer, \* server: loginKickTimer is armed
    logged,    \* server: loginClient ran
    ingame,    \* 'playerJoin' was emitted
    playerCount,
    misread    \* history: frames decoded with another codec than their own

vars == <<mode, state, comp, ciph, once, out, closing, ended, inbox, fin,
          crypto, verify, kickTimer, logged, ingame, playerCount, misread>>

Peer == {"client", "server"}
Other(p) == IF p = "client" THEN "server" ELSE "client"

State == {"handshaking", "login", "configuration", "play"}

ClientPacket == {"set_protocol", "login_start", "encryption_begin",
                 "login_acknowledged", "custom_payload", "settings",
                 "finish_configuration"}
ServerPacket == {"encryption_begin", "compress", "success", "registry_data",
                 "finish_configuration", "disconnect", "kick_disconnect"}
PacketName == ClientPacket \union ServerPacket

Frame == [name: PacketName, state: State, comp: BOOLEAN, ciph: BOOLEAN]

TypeOK ==
    /\ mode \in Modes
    /\ state \in [Peer -> State]
    /\ comp \in [Peer -> BOOLEAN]
    /\ ciph \in [Peer -> BOOLEAN]
    /\ once \in [Peer -> SUBSET PacketName]
    /\ out \in [Peer -> BOOLEAN]
    /\ closing \in [Peer -> BOOLEAN]
    /\ ended \in [Peer -> BOOLEAN]
    /\ inbox \in [Peer -> Seq(Frame)]
    /\ fin \in [Peer -> BOOLEAN]
    /\ crypto \in {"idle", "random", "join"}
    /\ verify \in {"idle", "pending"}
    /\ kickTimer \in BOOLEAN
    /\ logged \in BOOLEAN
    /\ ingame \in [Peer -> BOOLEAN]
    /\ playerCount \in Nat
    /\ misread \in SUBSET (Peer \X PacketName)

(***************************************************************************)
(* The socket is connected; the server armed its kick timer.               *)
(***************************************************************************)
Init ==
    /\ mode \in Modes
    /\ state = [p \in Peer |-> "handshaking"]
    /\ comp = [p \in Peer |-> FALSE]
    /\ ciph = [p \in Peer |-> FALSE]
    /\ once = [p \in Peer |-> IF p = "server"
                              THEN {"set_protocol", "login_start"}
                              ELSE {"encryption_begin", "compress", "success"}]
    /\ out = [p \in Peer |-> TRUE]
    /\ closing = [p \in Peer |-> FALSE]
    /\ ended = [p \in Peer |-> FALSE]
    /\ inbox = [p \in Peer |-> <<>>]
    /\ fin = [p \in Peer |-> FALSE]
    /\ crypto = "idle"
    /\ verify = "idle"
    /\ kickTimer = TRUE
    /\ logged = FALSE
    /\ ingame = [p \in Peer |-> FALSE]
    /\ playerCount = 0
    /\ misread = {}

-----------------------------------------------------------------------------
(* Sending and receiving *)

Encoded(name, s, c, e) == [name |-> name, state |-> s, comp |-> c, ciph |-> e]

(***************************************************************************)
(* Peer p consumes the first frame of its inbox when it has one to         *)
(* consume, and writes frames: nothing leaves an ended stream or a lost    *)
(* connection.                                                             *)
(***************************************************************************)
CanSend(p) == out[p] /\ ~ended[p]

Exchange(p, consumed, frames) ==
    inbox' = [inbox EXCEPT
        ![p] = IF consumed THEN Tail(@) ELSE @,
        ![Other(p)] = IF CanSend(p) THEN @ \o frames ELSE @]

(***************************************************************************)
(* client.end of either peer (client.js), with the disconnect packet that  *)
(* the override of server.js writes first in the states that have one.     *)
(***************************************************************************)
LastWords(p) ==
    IF p = "server" /\ state[p] = "play"
    THEN <<Encoded("kick_disconnect", "play", comp[p], ciph[p])>>
    ELSE IF p = "server" /\ state[p] = "login"
    THEN <<Encoded("disconnect", "login", comp[p], ciph[p])>>
    ELSE <<>>

EndStream(p, consumed) ==
    /\ Exchange(p, consumed, LastWords(p))
    /\ fin' = [fin EXCEPT ![Other(p)] = @ \/ CanSend(p)]
    /\ out' = [out EXCEPT ![p] = FALSE]
    /\ closing' = [closing EXCEPT ![p] = TRUE]

Hears(p, name) ==
    /\ ~ended[p]
    /\ inbox[p] # <<>>
    /\ Head(inbox[p]).name = name

Readable(p, f) == f.state = state[p] /\ f.comp = comp[p] /\ f.ciph = ciph[p]

(***************************************************************************)
(* A well decoded packet finds its once-handler, which is removed.         *)
(***************************************************************************)
Handles(p, name) ==
    /\ Hears(p, name)
    /\ Readable(p, Head(inbox[p]))
    /\ name \in once[p]

Disarm(p, name, more) == once' = [once EXCEPT ![p] = (@ \ {name}) \union more]

codecVars == <<state, comp, ciph>>
streamVars == <<out, closing, ended, fin>>
loginVars == <<crypto, verify, kickTimer, logged, ingame, playerCount>>

(***************************************************************************)
(* A packet without a handler is ignored, one in another codec is lost.    *)
(***************************************************************************)
Skip(p) ==
    /\ ~ended[p]
    /\ inbox[p] # <<>>
    /\ LET f == Head(inbox[p])
       IN  /\ ~Readable(p, f) \/ f.name \notin once[p]
           /\ misread' = IF Readable(p, f) THEN misread
                         ELSE misread \union {<<p, f.name>>}
    /\ Exchange(p, TRUE, <<>>)
    /\ UNCHANGED <<mode, codecVars, once, streamVars, loginVars>>

-----------------------------------------------------------------------------
(* The client *)

(***************************************************************************)
(* setProtocol.js, on 'connect'.                                           *)
(***************************************************************************)
Connect ==
    /\ state["client"] = "handshaking"
    /\ ~ended["client"]
    /\ state' = [state EXCEPT !["client"] = "login"]
    /\ Exchange("client", FALSE,
                <<Encoded("set_protocol", "handshaking", FALSE, FALSE),
                  Encoded("login_start", "login", FALSE, FALSE)>>)
    /\ UNCHANGED <<mode, comp, ciph, once, streamVars, loginVars, misread>>

(***************************************************************************)
(* encrypt.js: random bytes are asked for, ...                             *)
(***************************************************************************)
OnEncryptionKeyRequest ==
    /\ Handles("client", "encryption_begin")
    /\ Disarm("client", "encryption_begin", {})
    /\ crypto' = "random"
    /\ Exchange("client", TRUE, <<>>)
    /\ UNCHANGED <<mode, codecVars, streamVars, verify, kickTimer, logged,
                   ingame, playerCount, misread>>

(***************************************************************************)
(* ... then the session server is told, with credentials, ...              *)
(***************************************************************************)
GotSharedSecret ==
    /\ crypto = "random"
    /\ mode.credentials
    /\ crypto' = "join"
    /\ UNCHANGED <<mode, codecVars, once, streamVars, inbox, verify, kickTimer,
                   logged, ingame, playerCount, misread>>

(* Fault: the stream is encrypted before the response is written. *)
SendEncryptionKeyResponseEncrypted ==
    /\ crypto = IF mode.credentials THEN "join" ELSE "random"
    /\ crypto' = "idle"
    /\ ciph' = [ciph EXCEPT !["client"] = TRUE]
    /\ Exchange("client", FALSE,
                <<Encoded("encryption_begin", state["client"], comp["client"],
                          ciph'["client"])>>)
    /\ UNCHANGED <<mode, state, comp, once, streamVars, verify, kickTimer,
                   logged, ingame, playerCount, misread>>

(***************************************************************************)
(* ... and the response goes out in the clear, the last frame to do so.    *)
(***************************************************************************)
SendEncryptionKeyResponse ==
    /\ crypto = IF mode.credentials THEN "join" ELSE "random"
    /\ crypto' = "idle"
    /\ Exchange("client", FALSE,
                <<Encoded("encryption_begin", state["client"], comp["client"],
                          ciph["client"])>>)
    /\ ciph' = [ciph EXCEPT !["client"] = TRUE]
    /\ UNCHANGED <<mode, state, comp, once, streamVars, verify, kickTimer,
                   logged, ingame, playerCount, misread>>

(***************************************************************************)
(* No random bytes, or the session server refuses.                         *)
(***************************************************************************)
EncryptionFails ==
    /\ crypto \in {"random", "join"}
    /\ crypto' = "idle"
    /\ EndStream("client", FALSE)
    /\ UNCHANGED <<mode, codecVars, once, ended, verify, kickTimer, logged,
                   ingame, playerCount, misread>>

(***************************************************************************)
(* compress.js *)
(***************************************************************************)
OnCompressionRequest ==
    /\ Handles("client", "compress")
    /\ Disarm("client", "compress", {})
    /\ comp' = [comp EXCEPT !["client"] = TRUE]
    /\ Exchange("client", TRUE, <<>>)
    /\ UNCHANGED <<mode, state, ciph, streamVars, loginVars, misread>>

(***************************************************************************)
(* play.js, onLogin: into the configuration, or into the game.             *)
(***************************************************************************)
OnSuccess ==
    /\ Handles("client", "success")
    /\ \/ /\ mode.config
          /\ Disarm("client", "success", {"finish_configuration"})
          /\ state' = [state EXCEPT !["client"] = "configuration"]
          /\ LET In(s, name) == Encoded(name, s, comp["client"], ciph["client"])
             IN  Exchange("client", TRUE,
                          <<In("login", "login_acknowledged"),
                            In("configuration", "custom_payload"),
                            In("configuration", "settings")>>)
          /\ UNCHANGED ingame
       \/ /\ ~mode.config
          /\ Disarm("client", "success", {})
          /\ state' = [state EXCEPT !["client"] = "play"]
          /\ ingame' = [ingame EXCEPT !["client"] = TRUE]
          /\ Exchange("client", TRUE, <<>>)
    /\ UNCHANGED <<mode, comp, ciph, streamVars, crypto, verify, kickTimer,
                   logged, playerCount, misread>>

OnFinishConfiguration ==
    /\ Handles("client", "finish_configuration")
    /\ Disarm("client", "finish_configuration", {})
    /\ Exchange("client", TRUE,
                <<Encoded("finish_configuration", "configuration",
                          comp["client"], ciph["client"])>>)
    /\ state' = [state EXCEPT !["client"] = "play"]
    /\ ingame' = [ingame EXCEPT !["client"] = TRUE]
    /\ UNCHANGED <<mode, comp, ciph, streamVars, crypto, verify, kickTimer,
                   logged, playerCount, misread>>

-----------------------------------------------------------------------------
(* The server *)

(***************************************************************************)
(* handshake.js: a client of another version is ended, and in the same     *)
(* turn switched to LOGIN, which drops the pending end of its stream: only *)
(* the close timer is left of the end().                                   *)
(***************************************************************************)
OnHandshake ==
    /\ Handles("server", "set_protocol")
    /\ Disarm("server", "set_protocol", {})
    /\ Exchange("server", TRUE, <<>>)
    /\ closing' = [closing EXCEPT !["server"] = @ \/ mode.wrongVersion]
    /\ state' = [state EXCEPT !["server"] = "login"]
    /\ UNCHANGED <<mode, comp, ciph, out, ended, fin, loginVars, misread>>

(***************************************************************************)
(* loginClient: compression, then success in the compressed stream, and    *)
(* the kick timer is cleared.                                              *)
(***************************************************************************)
LoginClient(consumed, handled) ==
    /\ LET In(c, name) == Encoded(name, state["server"], c, ciph'["server"])
       IN  Exchange("server", consumed, <<In(comp["server"], "compress"),
                                          In(TRUE, "success")>>)
    /\ comp' = [comp EXCEPT !["server"] = TRUE]
    /\ Disarm("server", handled,
              IF mode.config THEN {"login_acknowledged"} ELSE {})
    /\ state' = IF mode.config THEN state ELSE [state EXCEPT !["server"] = "play"]
    /\ kickTimer' = FALSE
    /\ logged' = TRUE
    /\ playerCount' = playerCount + 1
    /\ ingame' = [ingame EXCEPT !["server"] = @ \/ ~mode.config]

(***************************************************************************)
(* onLogin: verify the user, log him in, or refuse his profile keys.       *)
(***************************************************************************)
OnLoginVerify ==
    /\ Handles("server", "login_start")
    /\ mode.online
    /\ Disarm("server", "login_start", {"encryption_begin"})
    /\ Exchange("server", TRUE,
                <<Encoded("encryption_begin", state["server"], comp["server"],
                          ciph["server"])>>)
    /\ UNCHANGED <<mode, codecVars, streamVars, loginVars, misread>>

OnLoginOffline ==
    /\ Handles("server", "login_start")
    /\ ~mode.online
    /\ UNCHANGED ciph
    /\ LoginClient(TRUE, "login_start")
    /\ UNCHANGED <<mode, streamVars, crypto, verify, misread>>

(* Fault: the kick timer is cleared before the session server answered. *)
OnEncryptionKeyResponseUntimed ==
    /\ Handles("server", "encryption_begin")
    /\ Disarm("server", "encryption_begin", {})
    /\ ciph' = [ciph EXCEPT !["server"] = TRUE]
    /\ verify' = "pending"
    /\ kickTimer' = FALSE
    /\ Exchange("server", TRUE, <<>>)
    /\ UNCHANGED <<mode, state, comp, streamVars, crypto, logged, ingame,
                   playerCount, misread>>

(***************************************************************************)
(* onEncryptionKeyResponse: everything behind the response is encrypted.   *)
(***************************************************************************)
OnEncryptionKeyResponse ==
    /\ Handles("server", "encryption_begin")
    /\ Disarm("server", "encryption_begin", {})
    /\ ciph' = [ciph EXCEPT !["server"] = TRUE]
    /\ verify' = "pending"
    /\ Exchange("server", TRUE, <<>>)
    /\ UNCHANGED <<mode, state, comp, streamVars, crypto, kickTimer, logged,
                   ingame, playerCount, misread>>

(***************************************************************************)
(* Profile keys, a verify token or a shared secret that do not check.      *)
(***************************************************************************)
Refuse ==
    /\ \E name \in {"login_start", "encryption_begin"} :
          /\ Handles("server", name)
          /\ Disarm("server", name, {})
    /\ EndStream("server", TRUE)
    /\ UNCHANGED <<mode, codecVars, ended, loginVars, misread>>

(***************************************************************************)
(* The session server answers verifyUsername, if it ever does.             *)
(***************************************************************************)
HasJoined ==
    /\ verify = "pending"
    /\ verify' = "idle"
    /\ UNCHANGED ciph
    /\ LoginClient(FALSE, "encryption_begin")
    /\ UNCHANGED <<mode, streamVars, crypto, misread>>

HasNotJoined ==
    /\ verify = "pending"
    /\ verify' = "idle"
    /\ EndStream("server", FALSE)
    /\ UNCHANGED <<mode, codecVars, once, ended, crypto, kickTimer, logged,
                   ingame, playerCount, misread>>

(* Fault: the player joins when finish_configuration is sent. *)
OnClientLoginAckJoining ==
    /\ Handles("server", "login_acknowledged")
    /\ Disarm("server", "login_acknowledged", {})
    /\ state' = [state EXCEPT !["server"] = "play"]
    /\ ingame' = [ingame EXCEPT !["server"] = TRUE]
    /\ LET In(name) == Encoded(name, "configuration", comp["server"], ciph["server"])
       IN  Exchange("server", TRUE, <<In("registry_data"),
                                      In("finish_configuration")>>)
    /\ UNCHANGED <<mode, comp, ciph, streamVars, crypto, verify, kickTimer,
                   logged, playerCount, misread>>

OnClientLoginAck ==
    /\ Handles("server", "login_acknowledged")
    /\ Disarm("server", "login_acknowledged", {"finish_configuration"})
    /\ state' = [state EXCEPT !["server"] = "configuration"]
    /\ LET In(name) == Encoded(name, "configuration", comp["server"], ciph["server"])
       IN  Exchange("server", TRUE, <<In("registry_data"),
                                      In("finish_configuration")>>)
    /\ UNCHANGED <<mode, comp, ciph, streamVars, loginVars, misread>>

OnConfigurationFinished ==
    /\ Handles("server", "finish_configuration")
    /\ Disarm("server", "finish_configuration", {})
    /\ Exchange("server", TRUE, <<>>)
    /\ state' = [state EXCEPT !["server"] = "play"]
    /\ ingame' = [ingame EXCEPT !["server"] = TRUE]
    /\ UNCHANGED <<mode, comp, ciph, streamVars, crypto, verify, kickTimer,
                   logged, playerCount, misread>>

(***************************************************************************)
(* kickForNotLoggingIn *)
(***************************************************************************)
KickForNotLoggingIn ==
    /\ kickTimer
    /\ kickTimer' = FALSE
    /\ EndStream("server", FALSE)
    /\ UNCHANGED <<mode, codecVars, once, ended, crypto, verify, logged, ingame,
                   playerCount, misread>>

-----------------------------------------------------------------------------
(* The connection *)

(***************************************************************************)
(* A consumer of the library ends its side.                                *)
(***************************************************************************)
UserEnds(p) ==
    /\ ~ended[p]
    /\ out[p]
    /\ EndStream(p, FALSE)
    /\ UNCHANGED <<mode, codecVars, once, ended, loginVars, misread>>

(***************************************************************************)
(* endSocket: 'end' is emitted, the timers are cleared, a logged in player *)
(* is counted off, and the other side gets to know.                        *)
(***************************************************************************)
EndSocket(p) ==
    /\ ended' = [ended EXCEPT ![p] = TRUE]
    /\ closing' = [closing EXCEPT ![p] = FALSE]
    /\ fin' = [fin EXCEPT ![p] = FALSE, ![Other(p)] = ~ended[Other(p)]]
    /\ inbox' = [inbox EXCEPT ![p] = <<>>]
    /\ IF p = "server"
       THEN /\ kickTimer' = FALSE
            /\ playerCount' = IF logged THEN playerCount - 1 ELSE playerCount
       ELSE UNCHANGED <<kickTimer, playerCount>>
    /\ UNCHANGED <<mode, codecVars, once, out, crypto, verify, logged, ingame,
                   misread>>

FinArrives(p) ==
    /\ ~ended[p]
    /\ fin[p]
    /\ inbox[p] = <<>>
    /\ EndSocket(p)

CloseTimeout(p) ==
    /\ closing[p]
    /\ ~ended[p]
    /\ EndSocket(p)

ConnectionLost(p) ==
    /\ ~ended[p]
    /\ EndSocket(p)

-----------------------------------------------------------------------------

ClientStep ==
    \/ Connect \/ OnEncryptionKeyRequest \/ GotSharedSecret
    \/ SendEncryptionKeyResponse \/ EncryptionFails \/ OnCompressionRequest
    \/ OnSuccess \/ OnFinishConfiguration

ServerStep ==
    \/ OnHandshake \/ OnLoginVerify \/ OnLoginOffline
    \/ OnEncryptionKeyResponse \/ Refuse \/ HasJoined \/ HasNotJoined
    \/ OnClientLoginAck \/ OnConfigurationFinished \/ KickForNotLoggingIn

ConnectionStep ==
    \E p \in Peer :
        Skip(p) \/ UserEnds(p) \/ FinArrives(p) \/ CloseTimeout(p) \/ ConnectionLost(p)

Next == ClientStep \/ ServerStep \/ ConnectionStep

Spec == Init /\ [][Next]_vars

(***************************************************************************)
(* What arrives is handled, timers fire, random bytes come; the session    *)
(* server owes nobody an answer.                                           *)
(***************************************************************************)
Receive(p) ==
    IF p = "client"
    THEN OnEncryptionKeyRequest \/ OnCompressionRequest \/ OnSuccess
            \/ OnFinishConfiguration
    ELSE OnHandshake \/ OnLoginVerify \/ OnLoginOffline \/ OnEncryptionKeyResponse
            \/ Refuse \/ OnClientLoginAck \/ OnConfigurationFinished

Fairness ==
    /\ \A p \in Peer : /\ WF_vars(Receive(p) \/ Skip(p))
                       /\ WF_vars(FinArrives(p))
                       /\ WF_vars(CloseTimeout(p))
    /\ WF_vars(Connect)
    /\ WF_vars(KickForNotLoggingIn)
    /\ WF_vars(GotSharedSecret \/ (~mode.credentials /\ SendEncryptionKeyResponse))

FairSpec == Spec /\ Fairness

-----------------------------------------------------------------------------
(* Properties *)

(***************************************************************************)
(* Each end switches state, compression and encryption on its own, while   *)
(* frames are under way.  Every frame is read in the codec it was written  *)
(* in, but for the disconnect that server.js writes whenever it likes: the *)
(* client may have switched to encryption or to CONFIGURATION before it.   *)
(***************************************************************************)
CodecAgreement == misread \subseteq {<<"client", "disconnect">>}

(***************************************************************************)
(* 'playerJoin' comes on one end after the other: when the second emits it *)
(* both are in PLAY, with one codec, encrypted if the user was verified,   *)
(* and login.js has counted the player, who is counted off at the end.     *)
(***************************************************************************)
LastToJoin == IF mode.config THEN "server" ELSE "client"

InGameTogether ==
    ingame[LastToJoin] =>
        /\ \A p \in Peer : /\ ingame[p]
                           /\ state[p] = "play"
                           /\ comp[p]
                           /\ ciph[p] = mode.online
        /\ playerCount = IF ended["server"] THEN 0 ELSE 1

(***************************************************************************)
(* A login ends in the game or in the end of both sides: a session server  *)
(* that is silent costs the client the kick of login.js, and every packet  *)
(* of the dialogue finds its handler.                                      *)
(***************************************************************************)
LoginSettles ==
    (state["client"] = "login") ~>
        \/ \A p \in Peer : ingame[p]
        \/ \A p \in Peer : ended[p]
=============================================================================
