--------------------------- MODULE Configuration ---------------------------
(***************************************************************************)
(* client/play.js: from 'success' to the game, to the configuration and    *)
(* back as often as the server asks for it; and the listeners of the chat  *)
(* plugin that onReady installs in front of those of play.js.              *)
(***************************************************************************)
EXTENDS ClientBase

CONSTANT MaxEntries  \* configurations of a connection

ASSUME ConfigurationAssumption == MaxEntries \in Nat

VARIABLES
    entry,      \* configurations entered
    current,    \* configurationHandlers: the entry they are of, 0 for null
    handlers,   \* once-listeners of the packets of a configuration
    restarts,   \* the listener of 'start_configuration' is installed
    joined,     \* calls of onReady, each installs the chat plugin
    session,    \* client._session, 0 for none
    announced   \* the session of the last chat_session_update

configurationVars ==
    <<entry, current, handlers, restarts, joined, session, announced>>

Asks == {"select_known_packs", "code_of_conduct"}

ConfigurationInit ==
    /\ entry = 0 /\ current = 0 /\ handlers = {}
    /\ restarts = FALSE
    /\ joined = 0
    /\ session = 0 /\ announced = 0

(***************************************************************************)
(* The handlers of entry n; finish_configuration calls back onReady on the *)
(* first one only.                                                         *)
(***************************************************************************)
Handlers(n, ready) ==
    [entry: {n}, name: Asks \cup {"finish_configuration"}, ready: {ready}]

Cleared == {h \in handlers : h.entry # current}

Listening(name) == {h \in handlers : h.name = name}

Repeat(frame, n) == [i \in 1..n |-> frame]

(* Fault: the state is switched before the acknowledgement is written. *)
EnterFramesLate ==
    (IF state = "play" THEN <<Packet("configuration_acknowledged", "configuration")>>
     ELSE <<Packet("custom_payload", "configuration")>>)
    \o <<Packet("settings", "configuration")>>

(***************************************************************************)
(* enterConfigState writes the acknowledgement in play; or the brand, on   *)
(* the way from the login; and the settings.                               *)
(***************************************************************************)
EnterFrames ==
    (IF state = "play" THEN <<Packet("configuration_acknowledged", "play")>>
     ELSE <<Packet("custom_payload", "configuration")>>)
    \o <<Packet("settings", "configuration")>>

Enter(ready) ==
    /\ entry' = entry + 1
    /\ current' = entry + 1
    /\ handlers' = Cleared \cup Handlers(entry + 1, ready)
    /\ state' = "configuration"

(* onReady installs the plugin and emits playerJoin, n times. *)
OnReady(n) == joined' = joined + n

(* Fault: only the configuration is entered, the login not acknowledged. *)
OnSuccessSilent ==
    /\ Parses("success")
    /\ IF options.config
       THEN Enter(TRUE) /\ Write(EnterFrames) /\ restarts' = TRUE /\ UNCHANGED joined
       ELSE /\ state' = "play"
            /\ OnReady(1)
            /\ UNCHANGED <<entry, current, handlers, restarts, toServer>>
    /\ UNCHANGED <<options, conn, session, announced>>

OnSuccess ==
    /\ Parses("success")
    /\ IF options.config
       THEN /\ Enter(TRUE)
            /\ Write(<<Packet("login_acknowledged", state)>> \o EnterFrames)
            /\ restarts' = TRUE
            /\ UNCHANGED joined
       ELSE /\ state' = "play"
            /\ OnReady(1)
            /\ UNCHANGED <<entry, current, handlers, restarts, toServer>>
    /\ UNCHANGED <<options, conn, session, announced>>

OnStartConfiguration ==
    /\ Parses("start_configuration")
    /\ IF restarts /\ state # "configuration"
       THEN Enter(FALSE) /\ Write(EnterFrames)
       ELSE UNCHANGED <<entry, current, handlers, state, toServer>>
    /\ UNCHANGED <<options, conn, restarts, joined, session, announced>>

(* onSelectKnownPacks, onCodeOfConduct: each listener answers and is gone. *)
Answer(name) ==
    IF name = "code_of_conduct" THEN "accept_code_of_conduct" ELSE name

OnAsk(name) ==
    /\ Parses(name)
    /\ Write(Repeat(Packet(Answer(name), state), Cardinality(Listening(name))))
    /\ handlers' = handlers \ Listening(name)
    /\ UNCHANGED <<options, state, conn, entry, current, restarts, joined,
                   session, announced>>

(* Fault: the listeners that were not used stay. *)
OnFinishConfigurationKeeping ==
    /\ Parses("finish_configuration")
    /\ LET called == Listening("finish_configuration")
       IN  IF called = {}
           THEN UNCHANGED <<state, toServer, handlers, current, joined>>
           ELSE /\ Write(<<Packet("finish_configuration", state)>>
                         \o Repeat(Packet("finish_configuration", "play"),
                                   Cardinality(called) - 1))
                /\ handlers' = handlers \ called
                /\ current' = 0
                /\ state' = "play"
                /\ OnReady(Cardinality({h \in called : h.ready}))
    /\ UNCHANGED <<options, conn, entry, restarts, session, announced>>

(***************************************************************************)
(* onFinishConfiguration: the answer in the configuration, then the state. *)
(* A second listener would write its answer in play.                       *)
(***************************************************************************)
OnFinishConfiguration ==
    /\ Parses("finish_configuration")
    /\ LET called == Listening("finish_configuration")
       IN  IF called = {}
           THEN UNCHANGED <<state, toServer, handlers, current, joined>>
           ELSE /\ Write(<<Packet("finish_configuration", state)>>
                         \o Repeat(Packet("finish_configuration", "play"),
                                   Cardinality(called) - 1))
                /\ handlers' = Cleared \ called
                /\ current' = 0
                /\ state' = "play"
                /\ OnReady(Cardinality({h \in called : h.ready}))
    /\ UNCHANGED <<options, conn, entry, restarts, session, announced>>

OnPing ==
    /\ Parses("ping")
    /\ IF state = "configuration" THEN Write(<<Packet("pong", state)>>)
       ELSE UNCHANGED toServer
    /\ UNCHANGED <<options, state, conn, configurationVars>>

(* Fault: the chat plugin's listener is behind that of play.js. *)
OnLoginBehind ==
    /\ Parses("login")
    /\ IF options.signing
       THEN /\ announced' = announced + 1
            /\ Write(<<Packet("chat_session_update", state)>>)
       ELSE UNCHANGED <<announced, toServer>>
    /\ session' = IF joined > 0 THEN 0 ELSE announced'
    /\ UNCHANGED <<options, state, conn, entry, current, handlers, restarts, joined>>

(***************************************************************************)
(* 'login': the listener of the chat plugin deletes the session, then that *)
(* of play.js makes a new one and announces it.                            *)
(***************************************************************************)
OnLogin ==
    /\ Parses("login")
    /\ IF options.signing
       THEN /\ announced' = announced + 1
            /\ session' = announced + 1
            /\ Write(<<Packet("chat_session_update", state)>>)
       ELSE /\ session' = IF joined > 0 THEN 0 ELSE session
            /\ UNCHANGED <<announced, toServer>>
    /\ UNCHANGED <<options, state, conn, entry, current, handlers, restarts, joined>>

ConfigurationNext ==
    \/ OnSuccess
    \/ OnStartConfiguration
    \/ \E name \in Asks : OnAsk(name)
    \/ OnFinishConfiguration
    \/ OnPing
    \/ OnLogin
=============================================================================
