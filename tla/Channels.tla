------------------------------ MODULE Channels ------------------------------
(***************************************************************************)
(* client/pluginChannels.js: the channels of custom_payload, and the       *)
(* questions a proxy asks during the login, with the challenge of Velocity *)
(* forwarding (transforms/velocityForwarding.js).                          *)
(***************************************************************************)
EXTENDS ClientBase

CONSTANT Names  \* channels of the user

OwnNames == {"minecraft:register", "minecraft:unregister"}

VARIABLES
    channels,  \* the list of names
    types,     \* channels with a type in proto
    listeners, \* listeners of 'custom_payload'
    heard,     \* events of the last payload
    lost       \* login_plugin_requests whose listener threw

channelVars == <<channels, types, listeners, heard, lost>>

ChannelsInit ==
    /\ channels = <<"minecraft:register", "minecraft:unregister">>
    /\ types = OwnNames
    /\ listeners = 1
    /\ heard = 0
    /\ lost = 0

Known(name) == \E i \in DOMAIN channels : channels[i] = name

(***************************************************************************)
(* writeChannel on one of the library's own channels, for a channel of the *)
(* user's own.  It throws where that channel has lost its type: then       *)
(* neither list nor types change, and there is no step.                    *)
(***************************************************************************)
Announce(channel, custom) ==
    /\ custom => channel \in types
    /\ Write(IF custom THEN <<Packet("custom_payload", state)>> ELSE <<>>)

RegisterChannel(name, typed, custom) ==
    /\ Announce("minecraft:register", custom)
    /\ types' = IF typed THEN types \cup {name} ELSE types
    /\ channels' = Append(channels, name)
    /\ listeners' = IF channels = <<>> THEN listeners + 1 ELSE listeners
    /\ UNCHANGED <<options, state, conn, toClient, heard, lost>>

(* Fault: the listener stays when the last channel is gone. *)
UnregisterChannelDeaf(name, custom) ==
    /\ Announce("minecraft:unregister", custom)
    /\ IF Known(name)
       THEN /\ types' = types \ {name}
            /\ channels' = Tail(channels)
       ELSE UNCHANGED <<types, channels>>
    /\ UNCHANGED <<options, state, conn, toClient, listeners, heard, lost>>

(***************************************************************************)
(* find returns the name; splice takes it for 0 and removes the first      *)
(* channel, whichever that is.                                             *)
(***************************************************************************)
UnregisterChannel(name, custom) ==
    /\ Announce("minecraft:unregister", custom)
    /\ IF Known(name)
       THEN /\ types' = types \ {name}
            /\ channels' = Tail(channels)
            /\ listeners' = IF Len(channels) = 1 THEN listeners - 1 ELSE listeners
       ELSE UNCHANGED <<types, channels, listeners>>
    /\ UNCHANGED <<options, state, conn, toClient, heard, lost>>

(* createPacketBuffer throws for a channel without a type. *)
WriteChannel(name) ==
    /\ IF name \in types THEN Write(<<Packet("custom_payload", state)>>)
       ELSE UNCHANGED toServer
    /\ UNCHANGED <<options, state, conn, toClient, channelVars>>

(***************************************************************************)
(* onCustomPayload, once for each listener.  The payload is the channel's  *)
(* and whether its type can read it; an error is emitted instead if not.   *)
(***************************************************************************)
OnCustomPayload ==
    /\ Parses("custom_payload")
    /\ LET name == Arg[1]
           readable == Arg[2] = "good" \/ name \notin types
       IN  heard' = IF Known(name) /\ readable THEN listeners ELSE 0
    /\ UNCHANGED <<options, state, conn, toServer, channels, types, listeners, lost>>

Challenge == "velocity:player_info"

(* buildForwardingResponse throws for a version that is out of range. *)
ForwardingResponse == IF options.secret = "outOfRange" THEN "thrown" ELSE "signed"

(***************************************************************************)
(* onLoginPluginRequest: what is not understood is answered without data,  *)
(* and so is a challenge without a secret; where building the response     *)
(* throws nothing is answered.                                             *)
(***************************************************************************)
OnLoginPluginRequest ==
    /\ Parses("login_plugin_request")
    /\ LET response == IF Arg = Challenge /\ options.secret # "none"
                       THEN ForwardingResponse ELSE "empty"
       IN  IF response = "thrown" THEN lost' = lost + 1 /\ UNCHANGED toServer
           ELSE /\ Write(<<Frame("login_plugin_response", response, state)>>)
                /\ UNCHANGED lost
    /\ UNCHANGED <<options, state, conn, channels, types, listeners, heard>>

ChannelsNext ==
    \/ OnCustomPayload
    \/ OnLoginPluginRequest
=============================================================================
