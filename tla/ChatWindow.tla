----------------------------- MODULE ChatWindow -----------------------------
(***************************************************************************)
(* Signed chat since 1.19.3: the ring of last seen messages of             *)
(* client/chat.js against the window that LastSeenMessages of              *)
(* server/chat.js keeps of what it sent.  A chat_message says how far the  *)
(* window has moved (offset) and which of its entries were seen (a bit     *)
(* set); player_chat and chat_message cross on the way.                    *)
(*                                                                         *)
(* The server is that of the repository.  It cannot make a signable of an  *)
(* acknowledgement, which is an error behind the window's move, and throws *)
(* at a report; an errorHandler that ends no client goes on with the       *)
(* window that was moved.  A connection is followed until the client is    *)
(* ended or a listener throws.  Signatures are the numbers of the messages.*)
(***************************************************************************)
EXTENDS Naturals, Sequences

CONSTANTS
    Capacity,    \* LastSeenMessagesWithInvalidation.capacity, tracking: 20
    AckAfter,    \* messages without an answer before the client reports: 64
    MaxPending,  \* entries of the window before the client is kicked: 4096
    MaxSent,     \* bound: messages broadcast to the client
    MaxChats,    \* bound: messages and commands of the client
    MaxHides,    \* bound: hide_message packets
    MaxLogins    \* bound: switches through the configuration

ASSUME ChatWindowAssumption ==
    /\ {Capacity, AckAfter, MaxPending} \subseteq Nat \ {0}
    /\ {MaxSent, MaxChats, MaxHides, MaxLogins} \subseteq Nat

VARIABLES
    ring,       \* client._lastSeenMessages
    offset,     \* its offset: the slot of the next message
    pending,    \* its pending: messages since the last report
    clientState,\* "play" behind the login packet, "configuration" before
    index,      \* client._session.index
    clientUp,   \* no listener has thrown
    enforced,   \* options.enforceSecureProfile
    tolerant,   \* options.errorHandler does not end the client
    window,     \* pending of server/chat.js, one for the connection
    expects,    \* client._session.index of the server
    serverState,\* play, leaving (start_configuration sent), configuration
    verdict,    \* ok, ended (the client was) or thrown (a listener did)
    faults,     \* history: the errors that chat messages ran into
    toClient,
    toServer,
    sent,       \* messages broadcast so far
    chats, hides, logins,
    astray      \* history: a step was taken that only one of the two follows

clientVars == <<ring, offset, pending, clientState, index, clientUp>>
options == <<enforced, tolerant>>
judgement == <<verdict, faults>>
peerVars == <<options, window, expects, serverState, judgement>>
counters == <<sent, chats, hides, logins>>
windowVars == <<clientVars, peerVars, toClient, toServer, counters, astray>>

Slot == 0..Capacity - 1
NoSignature == 0

(***************************************************************************)
(* A slot that was never filled, and one hide_message set to null.  The    *)
(* window of the server has null in both cases.                            *)
(***************************************************************************)
Empty == [signature |-> NoSignature, pending |-> FALSE]
Hidden == [signature |-> NoSignature, pending |-> TRUE]

LastSeen == [signature: NoSignature..MaxSent, pending: BOOLEAN]

Seen(entry) == entry.signature # NoSignature

WindowTypeOK ==
    /\ ring \in [Slot -> LastSeen]
    /\ offset \in Slot
    /\ pending \in 0..AckAfter
    /\ clientState \in {"play", "configuration"}
    /\ {clientUp, enforced, tolerant, astray} \subseteq BOOLEAN
    /\ {index, expects} \subseteq 0..MaxChats
    /\ window \in Seq(LastSeen \ {Hidden})
    /\ Capacity <= Len(window) /\ Len(window) <= MaxPending + 1
    /\ serverState \in {"play", "leaving", "configuration"}
    /\ verdict \in {"ok", "ended", "thrown"}
    /\ faults \subseteq {"offset", "bit", "concat", "signature"}
    /\ \A i \in DOMAIN toClient : toClient[i].name \in
           {"player_chat", "hide_message", "start_configuration", "login"}
    /\ \A i \in DOMAIN toServer : toServer[i].name \in
           {"chat_message", "chat_command", "message_acknowledgement",
            "chat_session_update", "configuration_acknowledged"}

EmptyRing == [i \in Slot |-> Empty]
EmptyWindow == [i \in 1..Capacity |-> Empty]

WindowInit ==
    /\ ring = EmptyRing
    /\ offset = 0
    /\ pending = 0
    /\ clientState = "play"
    /\ index = 0
    /\ clientUp = TRUE
    /\ enforced \in BOOLEAN
    /\ tolerant \in BOOLEAN
    /\ window = EmptyWindow
    /\ expects = 0
    /\ serverState = "play"
    /\ verdict = "ok"
    /\ faults = {}
    /\ toClient = <<>>
    /\ toServer = <<>>
    /\ sent = 0
    /\ chats = 0
    /\ hides = 0
    /\ logins = 0
    /\ astray = FALSE

Connected == clientUp /\ verdict = "ok"

-----------------------------------------------------------------------------
(* The client *)

Handle(name) ==
    /\ Connected
    /\ toClient # <<>>
    /\ Head(toClient).name = name
    /\ toClient' = Tail(toClient)

Acknowledgement(n) == [name |-> "message_acknowledgement", count |-> n]

(***************************************************************************)
(* sendChatAcknowledgement, with what follows it.                          *)
(***************************************************************************)
Report(n) == IF n > 0 THEN <<Acknowledgement(n)>> ELSE <<>>

(***************************************************************************)
(* player_chat with a signature: one without is not pushed.                *)
(***************************************************************************)
OnPlayerChat ==
    /\ Handle("player_chat")
    /\ ring' = [ring EXCEPT
           ![offset] = [signature |-> Head(toClient).signature, pending |-> TRUE]]
    /\ offset' = (offset + 1) % Capacity
    /\ pending' = IF pending + 1 > AckAfter THEN 0 ELSE pending + 1
    /\ toServer' = toServer \o IF pending + 1 > AckAfter
                               THEN Report(pending + 1) ELSE <<>>
    /\ UNCHANGED <<clientState, index, clientUp, astray, peerVars, counters>>

(***************************************************************************)
(* The map over the ring makes a new ring whose offset and pending start   *)
(* again.  It skips what was never filled, compares Buffers by identity (a *)
(* signature of the packet's own is another Buffer than the one it equals) *)
(* and throws at a null.                                                   *)
(***************************************************************************)
OnHideMessage ==
    /\ Handle("hide_message")
    /\ IF \E i \in Slot : ring[i] = Hidden
       THEN clientUp' = FALSE /\ UNCHANGED <<ring, offset, pending>>
       ELSE /\ ring' = [i \in Slot |->
                  IF /\ Head(toClient).cached
                     /\ ring[i].signature = Head(toClient).signature
                     /\ ring[i].pending
                  THEN Hidden ELSE ring[i]]
            /\ offset' = 0
            /\ pending' = 0
            /\ UNCHANGED clientUp
    /\ astray' = TRUE
    /\ UNCHANGED <<clientState, index, toServer, peerVars, counters>>

(***************************************************************************)
(* The report comes before play.js acknowledges the configuration.         *)
(***************************************************************************)
OnStartConfiguration ==
    /\ Handle("start_configuration")
    /\ clientState' = "configuration"
    /\ pending' = 0
    /\ toServer' = toServer \o Report(pending)
                            \o <<[name |-> "configuration_acknowledged"]>>
    /\ UNCHANGED <<ring, offset, index, clientUp, astray, peerVars, counters>>

(***************************************************************************)
(* chat.js empties its caches, play.js announces a new session.            *)
(***************************************************************************)
OnLogin ==
    /\ Handle("login")
    /\ clientState' = "play"
    /\ ring' = EmptyRing
    /\ offset' = 0
    /\ pending' = 0
    /\ index' = 0
    /\ toServer' = Append(toServer, [name |-> "chat_session_update"])
    /\ UNCHANGED <<clientUp, astray, peerVars, counters>>

(***************************************************************************)
(* getAcknowledgements: the ring from the oldest message on.  What is      *)
(* acknowledged is no longer pending.                                      *)
(***************************************************************************)
Rotated == [i \in Slot |-> ring[(offset + i) % Capacity]]

Acknowledged == {i \in Slot : Seen(Rotated[i])}

Told(entry) == IF Seen(entry) THEN [entry EXCEPT !.pending = FALSE] ELSE entry

(* Of a consumer that is in the game. *)
Chats ==
    /\ Connected
    /\ clientState = "play"
    /\ chats < MaxChats
    /\ chats' = chats + 1
    /\ ring' = [i \in Slot |-> Told(ring[i])]

(* Fault: the messages are counted again. *)
SignedChatCounting ==
    /\ Chats
    /\ toServer' = Append(toServer, [name |-> "chat_message", offset |-> pending,
                                     acknowledged |-> Acknowledged, index |-> index])
    /\ index' = index + 1
    /\ UNCHANGED <<offset, pending, clientState, clientUp, astray, peerVars,
                   toClient, sent, hides, logins>>

SignedChat ==
    /\ Chats
    /\ toServer' = Append(toServer, [name |-> "chat_message", offset |-> pending,
                                     acknowledged |-> Acknowledged, index |-> index])
    /\ pending' = 0
    /\ index' = index + 1
    /\ UNCHANGED <<offset, clientState, clientUp, astray, peerVars,
                   toClient, sent, hides, logins>>

(***************************************************************************)
(* A message that begins with '/'.  It acknowledges likewise, and signs an *)
(* argument that is a message; the server hears nothing of it.             *)
(***************************************************************************)
SignedCommand(signs) ==
    /\ Chats
    /\ toServer' = Append(toServer, [name |-> "chat_command"])
    /\ pending' = 0
    /\ index' = IF signs THEN index + 1 ELSE index
    /\ astray' = (astray \/ signs \/ \E i \in Slot : ring[i].pending)
    /\ UNCHANGED <<offset, clientState, clientUp, peerVars, toClient, sent,
                   hides, logins>>

-----------------------------------------------------------------------------
(* The server *)

(***************************************************************************)
(* The application broadcasts a signed message and logs it with            *)
(* logSentMessageFromPeer, as docs/chat.md asks for, which logs nothing    *)
(* where no secure profile is enforced.                                    *)
(***************************************************************************)
Broadcast ==
    /\ Connected
    /\ serverState = "play"
    /\ sent < MaxSent
    /\ sent' = sent + 1
    /\ window' = IF enforced
                 THEN Append(window, [signature |-> sent', pending |-> TRUE])
                 ELSE window
    /\ verdict' = IF Len(window') > MaxPending THEN "ended" ELSE "ok"
    /\ toClient' = Append(toClient, [name |-> "player_chat", signature |-> sent'])
    /\ astray' = (astray \/ ~enforced)
    /\ UNCHANGED <<clientVars, options, expects, serverState, faults, toServer,
                   chats, hides, logins>>

(***************************************************************************)
(* The application hides a message it sent, by its signature or by its     *)
(* place in the client's cache.                                            *)
(***************************************************************************)
SendHideMessage ==
    /\ Connected
    /\ serverState = "play"
    /\ hides < MaxHides
    /\ hides' = hides + 1
    /\ \E s \in 1..sent, byId \in BOOLEAN :
          toClient' = Append(toClient, [name |-> "hide_message",
                                        signature |-> s, cached |-> byId])
    /\ UNCHANGED <<clientVars, peerVars, toServer, sent, chats, logins, astray>>

SendStartConfiguration ==
    /\ Connected
    /\ serverState = "play"
    /\ logins < MaxLogins
    /\ logins' = logins + 1
    /\ serverState' = "leaving"
    /\ toClient' = Append(toClient, [name |-> "start_configuration"])
    /\ UNCHANGED <<clientVars, options, window, expects, judgement, toServer,
                   sent, chats, hides, astray>>

(***************************************************************************)
(* The window stays as it is: what was logged before belongs to a ring     *)
(* that the client will have emptied.                                      *)
(***************************************************************************)
SendLogin ==
    /\ Connected
    /\ serverState = "configuration"
    /\ serverState' = "play"
    /\ toClient' = Append(toClient, [name |-> "login"])
    /\ astray' = (astray \/ window # EmptyWindow)
    /\ UNCHANGED <<clientVars, options, window, expects, judgement, toServer,
                   counters>>

Take(name) ==
    /\ Connected
    /\ toServer # <<>>
    /\ Head(toServer).name = name
    /\ toServer' = Tail(toServer)

OnConfigurationAcknowledged ==
    /\ Take("configuration_acknowledged")
    /\ serverState' = "configuration"
    /\ UNCHANGED <<clientVars, options, window, expects, judgement, toClient,
                   counters, astray>>

(* Nobody listens. *)
OnChatCommand ==
    /\ Take("chat_command")
    /\ UNCHANGED <<clientVars, peerVars, toClient, counters, astray>>

OnChatSessionUpdate ==
    /\ Take("chat_session_update")
    /\ expects' = 0
    /\ UNCHANGED <<clientVars, options, window, serverState, judgement, toClient,
                   counters, astray>>

(***************************************************************************)
(* The handler looks for the window where only the client keeps one.       *)
(***************************************************************************)
OnMessageAcknowledgement ==
    /\ Take("message_acknowledgement")
    /\ verdict' = "thrown"
    /\ UNCHANGED <<clientVars, options, window, expects, serverState, faults,
                   toClient, counters, astray>>

(***************************************************************************)
(* LastSeenMessages.applyOffset                                            *)
(***************************************************************************)
OffsetApplies(n) == n <= Len(window) - Capacity

Shifted(n) == SubSeq(window, n + 1, Len(window))

(***************************************************************************)
(* LastSeenMessages.unwrap, on the window w that has moved: where it       *)
(* throws, and what it makes of the entries before.                        *)
(***************************************************************************)
Refused(w, bits) ==
    {i \in Slot : IF i \in bits THEN ~Seen(w[i + 1])
                  ELSE Seen(w[i + 1]) /\ ~w[i + 1].pending}

Reached(w, bits) == {i \in Slot : \A j \in Refused(w, bits) : i < j}

(* Fault: what was seen stays pending. *)
UnwrappedPending(w, bits) ==
    [q \in DOMAIN w |->
        IF q - 1 \in Reached(w, bits) /\ q - 1 \notin bits THEN Empty ELSE w[q]]

Unwrapped(w, bits) ==
    [q \in DOMAIN w |->
        IF q - 1 \notin Reached(w, bits) THEN w[q]
        ELSE IF q - 1 \in bits THEN [w[q] EXCEPT !.pending = FALSE] ELSE Empty]

(***************************************************************************)
(* client.emit('error'): every error of validateSession, a                 *)
(* VerificationError too, which is thrown without new.                     *)
(***************************************************************************)
Errs(fault) ==
    /\ faults' = faults \cup {fault}
    /\ verdict' = IF tolerant THEN "ok" ELSE "ended"

(***************************************************************************)
(* validateSession: unwrap moves the window; Buffer.concat throws at what  *)
(* it acknowledges, before the session's index is counted on.              *)
(***************************************************************************)
ValidateSession(packet) ==
    LET w == Shifted(packet.offset)
        bits == packet.acknowledged
    IN  IF ~OffsetApplies(packet.offset)
        THEN Errs("offset") /\ UNCHANGED <<window, expects>>
        ELSE /\ window' = Unwrapped(w, bits)
             /\ expects' = IF bits = {} /\ Refused(w, bits) = {}
                           THEN expects + 1 ELSE expects
             /\ IF Refused(w, bits) # {} THEN Errs("bit")
                ELSE IF bits # {} THEN Errs("concat")
                ELSE IF packet.index # expects THEN Errs("signature")
                ELSE UNCHANGED judgement

(***************************************************************************)
(* chat_message: nothing is verified where no secure profile is enforced.  *)
(* A clock that is ahead, or a checksum, which is compared to that of no   *)
(* messages at all, ends the client before the window is looked at.        *)
(***************************************************************************)
OnChatMessage ==
    /\ Take("chat_message")
    /\ \/ ~enforced /\ UNCHANGED <<window, expects, judgement>>
       \/ enforced /\ ValidateSession(Head(toServer))
       \/ enforced /\ verdict' = "ended" /\ UNCHANGED <<window, expects, faults>>
    /\ UNCHANGED <<clientVars, options, serverState, toClient, counters, astray>>

-----------------------------------------------------------------------------

ClientStep ==
    \/ OnPlayerChat \/ OnHideMessage \/ OnStartConfiguration \/ OnLogin
    \/ SignedChat \/ \E signs \in BOOLEAN : SignedCommand(signs)

ServerStep ==
    \/ Broadcast \/ SendHideMessage \/ SendStartConfiguration \/ SendLogin
    \/ OnConfigurationAcknowledged \/ OnChatCommand \/ OnChatSessionUpdate
    \/ OnMessageAcknowledgement \/ OnChatMessage

WindowNext == ClientStep \/ ServerStep

WindowSpec == WindowInit /\ [][WindowNext]_windowVars

-----------------------------------------------------------------------------
(* Properties *)

(***************************************************************************)
(* However broadcasts and chat messages cross, and also behind messages    *)
(* that ran into an error, unwrap refuses no acknowledgement of            *)
(* client/chat.js, and what is verified was signed with the index that the *)
(* server expects: what goes wrong with an honest client is the            *)
(* Buffer.concat alone.  Said as long as both follow what happens: a       *)
(* hide_message, a command that acknowledges or signs, a message that is   *)
(* not logged and a login behind one that is are followed by one only.     *)
(***************************************************************************)
FaultlessClient == ~astray => faults \subseteq {"concat"}

(***************************************************************************)
(* When nothing is under way in a game the window's end is the ring, oldest*)
(* message first, with the same entries pending, and as much longer as     *)
(* messages were not told; with the same exceptions.                       *)
(***************************************************************************)
WindowsAgree ==
    Connected /\ ~astray /\ toClient = <<>> /\ toServer = <<>>
            /\ clientState = "play" =>
        /\ Len(window) = Capacity + pending
        /\ \A i \in Slot : window[pending + i + 1] = Rotated[i]
=============================================================================
