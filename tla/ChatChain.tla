----------------------------- MODULE ChatChain -----------------------------
(***************************************************************************)
(* The signed chat of 1.19.1 and 1.19.2 (chainedChatWithHashing) between a *)
(* client, a server and the other players whose messages it relays.  Every *)
(* player signs a message over the signature of the one before: a          *)
(* signature is its number in the chain of its player here, and what it    *)
(* was made over is part of it.  The server has enforceSecureProfile and   *)
(* previews.  Messages expire, and clocks differ, in the code only.        *)
(***************************************************************************)
EXTENDS Integers, Sequences, FiniteSets, SequencesExt

CONSTANTS
    Senders,      \* the other players
    Capacity,     \* LastSeenMessages.capacity, 5
    ReportAbove,  \* messages seen before a report, 64
    PendingLimit, \* 4096
    MaxMessages,  \* messages of the other players and of the user together
    MaxOwn,       \* messages and commands of the user
    MaxUnderWay   \* packets that are not read yet, when a player writes or joins

ASSUME ChatChainAssumption ==
    /\ Capacity \in Nat \ {0}
    /\ {ReportAbove, PendingLimit, MaxMessages, MaxOwn, MaxUnderWay} \subseteq Nat

VARIABLES
    toClient, toServer, \* packets under way
    \* the client
    seen,     \* client._lastSeenMessages
    unseen,   \* its pending: seen since the last report
    players,  \* client._players: what is known of the chain of a sender
    own,      \* client._lastChatSignature
    now,      \* Date.now() of the last call of the user
    request,  \* pendingChatRequest, a set of at most one
    requests, \* lastPreviewRequestId
    \* the server
    signed,   \* last signature of each sender that passed the server
    logged,   \* pending: the messages sent to this client
    chain,    \* its client._lastChatSignature
    newest,   \* lastTimestamp
    raised,   \* the reason it disconnected the client for
    \* history
    heard,    \* the last message the client has seen of each sender, newest first
    handled,  \* signatures of a sender handled since it was announced
    careless  \* the user or the server did what the code does not expect

clientVars == <<seen, unseen, players, own, now, request, requests>>
serverVars == <<signed, logged, chain, newest, raised>>
historyVars == <<heard, handled, careless>>
vars == <<toClient, toServer, clientVars, serverVars, historyVars>>

Message(sender, n) == [sender |-> sender, n |-> n]

Unknown == [known |-> FALSE, last |-> 0, intact |-> FALSE]
Announced == [known |-> TRUE, last |-> 0, intact |-> TRUE]

Init ==
    /\ toClient = <<>> /\ toServer = <<>>
    /\ seen = <<>> /\ unseen = 0
    /\ players = [s \in Senders |-> Unknown]
    /\ own = 0 /\ now = 0
    /\ request = {} /\ requests = 0
    /\ signed = [s \in Senders |-> 0]
    /\ logged = 0
    /\ chain = 0 /\ newest = 0
    /\ raised = "none"
    /\ heard = <<>>
    /\ handled = [s \in Senders |-> {}]
    /\ careless = FALSE

ChatNames == {"player_chat", "unsigned_content"}

Open == raised = "none"

-----------------------------------------------------------------------------
(* The server relays *)

HasRoom == Len(toClient) < MaxUnderWay

Relayed == MapThenSumSet(LAMBDA s : signed[s], Senders)

(***************************************************************************)
(* Of a message that passes the server this client is sent the message     *)
(* (logSentMessageFromPeer), as it was written or with a content of the    *)
(* server (unsignedChatContent); its signature only; or nothing.           *)
(***************************************************************************)
Relay(s, name) ==
    /\ Open /\ HasRoom /\ now + Relayed < MaxMessages
    /\ signed' = [signed EXCEPT ![s] = @ + 1]
    /\ toClient' = IF name = "nothing" THEN toClient
                   ELSE Append(toClient, [name |-> name, sender |-> s, n |-> signed'[s]])
    /\ logged' = IF name \in ChatNames THEN logged + 1 ELSE logged
    /\ raised' = IF logged' > PendingLimit THEN "too_many_pending_chats" ELSE raised
    /\ UNCHANGED <<toServer, clientVars, chain, newest, historyVars>>

(* A player joins, or joins again once its messages are not verified any more. *)
Introduce(s) ==
    /\ Open /\ HasRoom
    /\ ~players[s].intact
    /\ toClient' = Append(toClient, [name |-> "player_info", sender |-> s, n |-> 0])
    /\ UNCHANGED <<toServer, clientVars, serverVars, historyVars>>

-----------------------------------------------------------------------------
(* The client *)

Parses(name) ==
    /\ Open
    /\ toClient # <<>>
    /\ Head(toClient).name = name
    /\ toClient' = Tail(toClient)

Packet == Head(toClient)

(* Fault: a message that does not follow the last one is let through. *)
UpdateAndValidateLenient(p, n) ==
    IF ~p.known \/ ~p.intact THEN p ELSE [p EXCEPT !.last = n]

(***************************************************************************)
(* updateAndValidateChat: the first message of a player is taken as it is, *)
(* each other has to follow the one before; if one does not, none is       *)
(* verified until the player is announced again.                           *)
(***************************************************************************)
UpdateAndValidate(p, n) ==
    IF ~p.known \/ ~p.intact THEN p
    ELSE IF p.last \in {0, n - 1} THEN [p EXCEPT !.last = n]
    ELSE [p EXCEPT !.intact = FALSE]

Validates ==
    LET s == Packet.sender
    IN  /\ players' = [players EXCEPT ![s] = UpdateAndValidate(@, Packet.n)]
        /\ handled' = IF players[s].known
                      THEN [handled EXCEPT ![s] = @ \cup {Packet.n}] ELSE handled

(* Fault: the shift does not stop at the entry it makes room for. *)
PushSeenWhole(list, m) ==
    IF list = <<>> \/ list[1].sender = m.sender
    THEN <<m>> \o SubSeq(list, 2, Len(list))
    ELSE SubSeq(<<m>> \o list, 1, IF Len(list) < Capacity THEN Len(list) + 1 ELSE Capacity)

(***************************************************************************)
(* LastSeenMessages.push: the entries before that of the sender, or all of *)
(* them, move down by one.                                                 *)
(***************************************************************************)
PushSeen(list, m) ==
    LET same == {i \in DOMAIN list : list[i].sender = m.sender}
        gone == IF same # {} THEN CHOOSE i \in same : TRUE
                ELSE IF Len(list) = Capacity THEN Capacity ELSE Len(list) + 1
    IN  <<m>> \o SubSeq(list, 1, gone - 1) \o SubSeq(list, gone + 1, Len(list))

Acknowledgement == [name |-> "message_acknowledgement", seen |-> seen']

(***************************************************************************)
(* A message with a content of the server is not followed in the chain.    *)
(***************************************************************************)
OnPlayerChat(name) ==
    /\ Parses(name)
    /\ IF name = "player_chat" THEN Validates ELSE UNCHANGED <<players, handled>>
    /\ seen' = PushSeen(seen, Message(Packet.sender, Packet.n))
    /\ heard' = <<Message(Packet.sender, Packet.n)>>
                  \o RemoveFirstMatch(heard, LAMBDA m : m.sender = Packet.sender)
    /\ IF unseen > ReportAbove
       THEN unseen' = 0 /\ toServer' = Append(toServer, Acknowledgement)
       ELSE unseen' = unseen + 1 /\ UNCHANGED toServer
    /\ UNCHANGED <<own, now, request, requests, serverVars, careless>>

OnMessageHeader ==
    /\ Parses("message_header")
    /\ Validates
    /\ UNCHANGED <<toServer, seen, unseen, own, now, request, requests, serverVars,
                   heard, careless>>

OnPlayerInfo ==
    /\ Parses("player_info")
    /\ players' = [players EXCEPT ![Packet.sender] = Announced]
    /\ handled' = [handled EXCEPT ![Packet.sender] = {}]
    /\ UNCHANGED <<toServer, seen, unseen, own, now, request, requests, serverVars,
                   heard, careless>>

(* signMessage: over the last signature, which it replaces. *)
SignMessage == own' = own + 1

(* Fault: what was signed last is not part of what is signed. *)
ChatMessageAlone(time, hashed, didPreview) ==
    [name |-> "chat_message", over |-> 0, sig |-> own', time |-> time,
     hashed |-> hashed, didPreview |-> didPreview, seen |-> seen]

(***************************************************************************)
(* A chat_message: what it was signed over, its time, and whether a        *)
(* preview is part of what was signed and is said to be.                   *)
(***************************************************************************)
ChatMessage(time, hashed, didPreview) ==
    [name |-> "chat_message", over |-> own, sig |-> own', time |-> time,
     hashed |-> hashed, didPreview |-> didPreview, seen |-> seen]

UserActs ==
    /\ Open /\ now < MaxOwn /\ now + Relayed < MaxMessages
    /\ Len(toServer) < MaxUnderWay
    /\ now' = now + 1

(***************************************************************************)
(* client.chat: signed and sent, if the user skips previews or the server  *)
(* has none, or first asked a preview of.  A second request takes the      *)
(* place of one that is not answered yet.                                  *)
(***************************************************************************)
Chat(skipPreview) ==
    /\ UserActs
    /\ IF skipPreview
       THEN /\ SignMessage
            /\ toServer' = Append(toServer, ChatMessage(now', FALSE, FALSE))
            /\ unseen' = 0
            /\ careless' = (careless \/ request # {})
            /\ UNCHANGED <<request, requests>>
       ELSE /\ toServer' = Append(toServer, [name |-> "chat_preview", query |-> requests])
            /\ request' = {[id |-> requests, time |-> now']}
            /\ requests' = requests + 1
            /\ UNCHANGED <<own, unseen, careless>>
    /\ UNCHANGED <<toClient, seen, players, serverVars, heard, handled>>

(***************************************************************************)
(* A command with a message argument: the argument is signed in the chain  *)
(* of the messages.                                                        *)
(***************************************************************************)
Command ==
    /\ UserActs
    /\ SignMessage
    /\ careless' = TRUE
    /\ toServer' = Append(toServer, [name |-> "chat_command"])
    /\ UNCHANGED <<toClient, seen, unseen, players, request, requests, serverVars,
                   heard, handled>>

(***************************************************************************)
(* The answer to a preview: only a formatted one is signed; the message    *)
(* keeps the time of its request.                                          *)
(***************************************************************************)
OnChatPreview ==
    /\ Parses("chat_preview")
    /\ IF \E r \in request : r.id = Packet.n
       THEN \E r \in request :
               /\ SignMessage
               /\ toServer' = Append(toServer,
                                     ChatMessage(r.time, Packet.sender = "formatted", TRUE))
               /\ request' = {}
               /\ unseen' = 0
       ELSE UNCHANGED <<own, toServer, request, unseen>>
    /\ UNCHANGED <<seen, players, now, requests, serverVars, historyVars>>

-----------------------------------------------------------------------------
(* The server reads *)

Reads(name) ==
    /\ Open
    /\ toServer # <<>>
    /\ Head(toServer).name = name
    /\ toServer' = Tail(toServer)

Read == Head(toServer)

(***************************************************************************)
(* validateLastMessages: the first entry of a list is looked up by calling *)
(* what is no function, or by asking some of what is no list.  What it     *)
(* throws is an 'error' event, and what was logged stays logged.  The      *)
(* default errorHandler ends the client for it, that of an application may *)
(* not.                                                                    *)
(***************************************************************************)
ValidateMessageChain == IF Read.seen # <<>> THEN {"error", "none"} ELSE {"none"}

(* verifyMessage: the digest has the preview if the message says it was previewed. *)
Verified == Read.over = chain /\ Read.hashed = Read.didPreview

(* What follows the error is still done, and the client ends only once. *)
OnChatMessage ==
    /\ Reads("chat_message")
    /\ IF Read.time < newest
       THEN raised' = "out_of_order_chat" /\ UNCHANGED <<newest, chain>>
       ELSE /\ newest' = Read.time
            /\ chain' = Read.sig
            /\ \E error \in ValidateMessageChain :
                   raised' = IF error = "none" /\ ~Verified THEN "unsigned_chat" ELSE error
    /\ UNCHANGED <<toClient, clientVars, signed, logged, historyVars>>

OnMessageAcknowledgement ==
    /\ Reads("message_acknowledgement")
    /\ raised' \in ValidateMessageChain
    /\ UNCHANGED <<toClient, clientVars, signed, logged, chain, newest,
                   historyVars>>

(* No listener. *)
OnChatCommand ==
    /\ Reads("chat_command")
    /\ UNCHANGED <<toClient, clientVars, serverVars, historyVars>>

(* A server with previews answers with a formatted text, or a plain one. *)
Previews(form) ==
    /\ Reads("chat_preview")
    /\ toClient' = Append(toClient, [name |-> "chat_preview", sender |-> form, n |-> Read.query])
    /\ careless' = (careless \/ form = "plain")
    /\ UNCHANGED <<clientVars, serverVars, heard, handled>>

Next ==
    \/ \E s \in Senders :
           \/ \E name \in ChatNames \cup {"message_header", "nothing"} : Relay(s, name)
           \/ Introduce(s)
    \/ \E name \in ChatNames : OnPlayerChat(name)
    \/ OnMessageHeader
    \/ OnPlayerInfo
    \/ \E skipPreview \in BOOLEAN : Chat(skipPreview)
    \/ Command
    \/ OnChatPreview
    \/ OnChatMessage
    \/ OnMessageAcknowledgement
    \/ OnChatCommand
    \/ \E form \in {"formatted", "plain"} : Previews(form)

Spec == Init /\ [][Next]_vars

-----------------------------------------------------------------------------
(* Properties *)

(***************************************************************************)
(* What the client says it has seen is the last message of each of the     *)
(* last five players that wrote, newest first: the comment on              *)
(* _lastSeenMessages, "the last n messages that the player has seen, from  *)
(* unique players".                                                        *)
(***************************************************************************)
SeenNewest ==
    seen = SubSeq(heard, 1, IF Len(heard) < Capacity THEN Len(heard) ELSE Capacity)

(***************************************************************************)
(* Messages of a player are verified exactly as long as no signature of    *)
(* its chain has been withheld since the first the client handled.         *)
(***************************************************************************)
IntegrityExact ==
    \A s \in Senders :
        players[s].known =>
            players[s].intact <=>
                \A a, b \in handled[s] : \A n \in a..b : n \in handled[s]

(***************************************************************************)
(* A client that signs is not disconnected for it, whatever it has seen    *)
(* and reported meanwhile: unless what it has seen is an error to the      *)
(* server that its errorHandler does not tolerate, it had a command        *)
(* signed, which the server does not follow, it wrote while a preview was  *)
(* asked for, or was given a preview without a format; or 4096 messages    *)
(* were sent to it.                                                        *)
(***************************************************************************)
HonestStays ==
    \/ raised = "none"
    \/ raised = "too_many_pending_chats" /\ logged > PendingLimit
    \/ raised = "error" /\ heard # <<>>
    \/ careless
=============================================================================
