----------------------------- MODULE ClientBase -----------------------------
(***************************************************************************)
(* What the plugins of a client share: its protocol state, the packets on  *)
(* their way in both directions and the end of the connection.  A frame    *)
(* remembers the codec it was encoded in.  How a write reaches the wire is *)
(* the subject of Outbound; here it does, in order, while the connection   *)
(* is open.                                                                *)
(***************************************************************************)
EXTENDS Naturals, Sequences, FiniteSets

CONSTANT Options  \* what a client may be created with

(***************************************************************************)
(* config: the version has a configuration state; signing: there are keys  *)
(* and the connection is encrypted; secret: velocityForwardingSecret.      *)
(***************************************************************************)
ASSUME ClientBaseAssumption ==
    Options \subseteq [config: BOOLEAN, signing: BOOLEAN,
                      secret: {"none", "good", "outOfRange"}]

VARIABLES
    options,   \* options
    state,     \* client.state
    conn,      \* open, ending (end() was called) or ended ('end' was emitted)
    toServer,  \* frames the client wrote
    toClient   \* frames it has not parsed

baseVars == <<options, state, conn, toServer, toClient>>

Frame(name, arg, codec) == [name |-> name, arg |-> arg, codec |-> codec]

(* A packet without fields that matter. *)
Packet(name, codec) == Frame(name, "", codec)

BaseInit ==
    /\ options \in Options
    /\ state = "login"
    /\ conn = "open"
    /\ toServer = <<>> /\ toClient = <<>>

(***************************************************************************)
(* The frames of the writes a listener makes; after end() the serializer   *)
(* is not writable and they are dropped.                                   *)
(***************************************************************************)
Write(frames) ==
    toServer' = IF conn = "open" THEN toServer \o frames ELSE toServer

(* A packet is parsed; what follows are its listeners. *)
Parses(name) ==
    /\ toClient # <<>>
    /\ Head(toClient).name = name
    /\ toClient' = Tail(toClient)

Arg == Head(toClient).arg

End == conn' = IF conn = "open" THEN "ending" ELSE conn
=============================================================================
